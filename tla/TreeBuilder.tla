---------------------------- MODULE TreeBuilder ----------------------------
(***************************************************************************)
(* What GreenNodeBuilder promises, without caches, keys or indices: a      *)
(* stack of unfinished nodes, each with the trees recorded directly in it. *)
(* A tree is a value: a token is its kind and text, a node its kind and    *)
(* subtrees.  A checkpoint is a copy of the whole stack.  Frame 1 is the   *)
(* outside, where the finished root ends up.                               *)
(*                                                                         *)
(* A checkpoint that is no longer valid may still be used without a panic: *)
(* then nodes may be merged or split, but every tree that stays on the     *)
(* stack is one that was recorded, in the order it was recorded in.        *)
(***************************************************************************)
EXTENDS Integers, Sequences

CONSTANTS NodeKinds, TokenKinds, Data, StaticData, NoData

VARIABLES stack,  \* the unfinished nodes, outermost first
          saved,  \* the checkpoints
          phase,  \* "building", "finished" or "panicked"
          result  \* the finished tree, as a sequence of at most one

tvars == <<stack, saved, phase, result>>

Outside == "outside"
Empty == << [kind |-> Outside, trees |-> <<>>] >>
Invalid == [stack |-> Empty, valid |-> FALSE]

Depth == Len(stack)
Top == stack[Depth]

\* A stack with tree t recorded in its innermost node.
Recorded(s, t) == [s EXCEPT ![Len(s)].trees = Append(@, t)]

\* All the trees on a stack, outermost first.
TreesOn(s) ==
    LET joined[j \in 0 .. Len(s)] == IF j = 0 THEN <<>> ELSE joined[j - 1] \o s[j].trees
    IN  joined[Len(s)]

\* Those from frame d inwards.
TreesFrom(d) == TreesOn(SubSeq(stack, d, Depth))

Invalidate(I) == saved' = [i \in DOMAIN saved |-> IF i \in I THEN Invalid ELSE saved[i]]
InvalidateAll == Invalidate(DOMAIN saved)

TInit == stack = Empty /\ saved = <<>> /\ phase = "building" /\ result = <<>>

Record(k, d) ==
    /\ phase = "building"
    /\ stack' = Recorded(stack, [kind |-> k,
                     text |-> IF StaticData[k] = NoData THEN d ELSE StaticData[k]])
    /\ UNCHANGED <<saved, phase, result>>

StartNode(k) ==
    /\ phase = "building"
    /\ stack' = Append(stack, [kind |-> k, trees |-> <<>>])
    /\ UNCHANGED <<saved, phase, result>>

\* Finishing a node invalidates the checkpoints that were taken inside it, and
\* those it wraps because start_node_at opened it in front of them: they
\* remember more trees than are left outside.
FinishNode ==
    LET outside == SubSeq(stack, 1, Depth - 1)
        Swallowed ==
            {i \in DOMAIN saved :
                \/ Len(saved[i].stack) >= Depth
                \/ Len(TreesOn(saved[i].stack)) > Len(TreesOn(outside))}
    IN  /\ phase = "building" /\ Depth > 1
        /\ stack' = Recorded(outside, [kind |-> Top.kind, trees |-> Top.trees])
        /\ Invalidate(Swallowed)
        /\ UNCHANGED <<phase, result>>

Save ==
    /\ phase = "building"
    /\ saved' = Append(saved, [stack |-> stack, valid |-> TRUE])
    /\ UNCHANGED <<stack, phase, result>>

\* Back to the copy; later checkpoints are gone.
Revert(i) ==
    /\ phase = "building" /\ saved[i].valid
    /\ stack' = saved[i].stack
    /\ Invalidate({j \in DOMAIN saved : j > i})
    /\ UNCHANGED <<phase, result>>

\* An invalid checkpoint: frames d and inwards become one, cut after n trees.
RevertInvalid(i) ==
    /\ phase = "building" /\ ~ saved[i].valid
    /\ \E d \in 1 .. Depth : \E n \in 0 .. Len(TreesFrom(d)) :
           stack' = [SubSeq(stack, 1, d) EXCEPT ![d].trees = SubSeq(TreesFrom(d), 1, n)]
    /\ InvalidateAll
    /\ UNCHANGED <<phase, result>>

\* A new innermost node that takes over the trees of the current one from
\* position n + 1 on.
Wrap(k, n) ==
    stack' = Append([stack EXCEPT ![Depth].trees = SubSeq(@, 1, n)],
                    [kind |-> k, trees |-> SubSeq(Top.trees, n + 1, Len(Top.trees))])

\* At a valid checkpoint: exactly what was recorded since it was taken.
StartNodeAt(i, k) ==
    /\ phase = "building" /\ saved[i].valid
    /\ Len(saved[i].stack) = Depth
    /\ Wrap(k, Len(saved[i].stack[Depth].trees))
    /\ UNCHANGED <<saved, phase, result>>

StartNodeAtInvalid(i, k) ==
    /\ phase = "building" /\ ~ saved[i].valid
    /\ \E n \in 0 .. Len(Top.trees) : Wrap(k, n)
    /\ UNCHANGED <<saved, phase, result>>

\* The only tree there is, which is all of `stack' when every node is finished.
Finish ==
    /\ phase = "building"
    /\ Len(TreesFrom(1)) = 1
    /\ result' = TreesFrom(1)
    /\ phase' = "finished" /\ stack' = Empty
    /\ InvalidateAll

Panic ==
    /\ phase = "building"
    /\ phase' = "panicked" /\ stack' = Empty
    /\ InvalidateAll
    /\ UNCHANGED result

NewBuilder ==
    /\ phase' = "building" /\ stack' = Empty /\ result' = <<>>
    /\ InvalidateAll

TNext ==
    \/ \E k \in TokenKinds, d \in Data : Record(k, d)
    \/ \E k \in NodeKinds : StartNode(k)
    \/ FinishNode
    \/ Save
    \/ \E i \in DOMAIN saved : Revert(i) \/ RevertInvalid(i)
    \/ \E i \in DOMAIN saved, k \in NodeKinds : StartNodeAt(i, k) \/ StartNodeAtInvalid(i, k)
    \/ Finish
    \/ Panic
    \/ NewBuilder

TSpec == TInit /\ [][TNext]_tvars
=============================================================================
