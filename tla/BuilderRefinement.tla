------------------------- MODULE BuilderRefinement -------------------------
(***************************************************************************)
(* GreenBuilder implements TreeBuilder: reading every heap element as the  *)
(* tree it stands for, and the flat `parents'/`children' vectors as the    *)
(* stack of nested nodes they encode.                                      *)
(***************************************************************************)
EXTENDS BuilderHistory

\* The tree an element stands for, its texts resolved.
TreeOf[e \in DOMAIN heap] ==
    IF IsNode(e)
    THEN [kind |-> heap[e].kind,
          trees |-> [i \in DOMAIN heap[e].children |-> TreeOf[heap[e].children[i]]]]
    ELSE [kind |-> heap[e].kind, text |-> TextOf(e)]

Trees(elements) == [i \in DOMAIN elements |-> TreeOf[elements[i]]]

\* Frame i of the nested nodes that unfinished nodes `ps' over the trees `ts'
\* encode; frame 0 is the outside.
Start(ps, i) == IF i = 0 THEN 0 ELSE ps[i].first_child
End(ps, ts, i) == IF i = Len(ps) THEN Len(ts) ELSE ps[i + 1].first_child
Frame(ps, ts, i) ==
    [kind  |-> IF i = 0 THEN "outside" ELSE ps[i].kind,
     trees |-> SubSeq(ts, Start(ps, i) + 1, End(ps, ts, i))]

Frames(ps, ts) == [j \in 1 .. Len(ps) + 1 |-> Frame(ps, ts, j - 1)]

Nothing == Frames(<<>>, <<>>)

AbstractStack == IF Building THEN Frames(parents, Trees(children)) ELSE Nothing

AbstractSaved ==
    [i \in DOMAIN taken |->
        IF Building /\ taken[i].valid
        THEN [stack |-> Frames(taken[i].parents, Trees(taken[i].children)), valid |-> TRUE]
        ELSE [stack |-> Nothing, valid |-> FALSE]]

AbstractResult == IF tree = NoElement THEN <<>> ELSE <<TreeOf[tree]>>

Abstract == INSTANCE TreeBuilder WITH
    stack  <- AbstractStack,
    saved  <- AbstractSaved,
    phase  <- status,
    result <- AbstractResult

\* Every step of the builder is a step of TreeBuilder: the tree that finish
\* returns is the one the client described, with interning, caching, flat
\* stacks and index checkpoints in between, across builders that share a cache.
ImplementsTreeBuilder == Abstract!TSpec

\* start_node_at: "Start a node at the given checkpoint, wrapping all nodes and
\* tokens created since the checkpoint was taken". ImplementsTreeBuilder alone
\* would let this call do what another call of TreeBuilder does.
StartNodeAtWraps ==
    [][\A i \in DOMAIN taken, k \in NodeKinds :
          StartNodeAt(i, k) /\ UNCHANGED taken /\ taken[i].valid /\ Building'
              => Abstract!StartNodeAt(i, k)]_hvars

\* What the code relies on its 32-bit hash for, and the hypothesis of the proof:
\* among the nodes that exist and the innermost unfinished one, none has the
\* hash of another without having children of the same heads.
HashInputs(elements) == [i \in DOMAIN elements |-> HashInput(elements[i])]
Hashed ==
    {heap[e].children : e \in {n \in DOMAIN heap : IsNode(n)}}
    \cup {SubSeq(children, parents[i].first_child + 1, Len(children)) :
              i \in DOMAIN parents \cap {Len(parents)}}
CollisionFree ==
    \A s, t \in Hashed : HashOf(s) = HashOf(t) => HashInputs(s) = HashInputs(t)
=============================================================================
