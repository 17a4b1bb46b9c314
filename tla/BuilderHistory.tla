--------------------------- MODULE BuilderHistory ---------------------------
(***************************************************************************)
(* GreenBuilder with a history variable that remembers, for every          *)
(* Checkpoint handed out, the builder's stack at that moment and whether   *)
(* the checkpoint may still be used.  Two notions of validity are kept:    *)
(*   documented  the rule of the docs of `checkpoint': a checkpoint is     *)
(*               invalidated when a node started before it is finished     *)
(*               and when the builder reverts to an earlier checkpoint;    *)
(*   valid       the rule under which the code keeps its promise: also     *)
(*               when a node is finished that start_node_at opened in      *)
(*               front of the checkpoint.                                  *)
(* The history never constrains the builder.                               *)
(***************************************************************************)
EXTENDS GreenBuilder

VARIABLE taken

hvars == <<vars, taken>>

HInit == Init /\ taken = <<>>

Remember ==
    taken' = Append(taken, [parents |-> parents, children |-> children,
                            documented |-> TRUE, valid |-> TRUE])

\* The snapshot of a checkpoint that nothing calls valid any more is forgotten.
Forgotten == [parents |-> <<>>, children |-> <<>>, documented |-> FALSE, valid |-> FALSE]

\* The checkpoints in D stay documented as valid, those in V too stay valid.
Keep(D, V) ==
    taken' = [i \in DOMAIN taken |->
                 IF taken[i].documented /\ i \in D
                 THEN [taken[i] EXCEPT !.valid = @ /\ i \in V]
                 ELSE Forgotten]

HTakeCheckpoint == TakeCheckpoint /\ Remember

\* The finished node was started after the checkpoint was taken ...
StartedAfter == {i \in DOMAIN taken : Len(parents) > checkpoints[i].parent_idx}

\* ... and holds none of the elements recorded before it.
StartedBehind ==
    {i \in StartedAfter : parents[Len(parents)].first_child >= checkpoints[i].child_idx}

HFinishNode == FinishNode /\ Keep(StartedAfter, StartedBehind)

\* Using an invalid checkpoint voids all the others.
HRevertTo(i) ==
    /\ RevertTo(i)
    /\ Keep({j \in 1 .. i : taken[i].documented}, {j \in 1 .. i : taken[i].valid})

HFinish == Finish /\ Keep({}, {})
HWithCache == WithCache /\ Keep({}, {})
HWithInterner == WithInterner /\ Keep({}, {})
HNew == New /\ Keep({}, {})

HNext ==
    \/ \E k \in TokenKinds, d \in Data : Token(k, d) /\ UNCHANGED taken
    \/ \E k \in TokenKinds, d \in Data : TokenFromBytes(k, d) /\ UNCHANGED taken
    \/ \E k \in TokenKinds : StaticToken(k) /\ UNCHANGED taken
    \/ \E d \in ValidData : InternerMut(d) /\ UNCHANGED taken
    \/ \E k \in NodeKinds : StartNode(k) /\ UNCHANGED taken
    \/ HFinishNode
    \/ HTakeCheckpoint
    \/ \E i \in DOMAIN checkpoints : HRevertTo(i)
    \/ \E i \in DOMAIN checkpoints, k \in NodeKinds : StartNodeAt(i, k) /\ UNCHANGED taken
    \/ HFinish
    \/ HWithCache
    \/ HWithInterner
    \/ HNew

HSpec == HInit /\ [][HNext]_hvars

----------------------------------------------------------------------------
(* Properties *)

\* The history has the shape of the checkpoints it describes.
HistoryOK ==
    /\ taken \in Seq([parents : Seq([kind : NodeKinds, first_child : Nat]),
                      children : Seq(Nat), documented : BOOLEAN, valid : BOOLEAN])
    /\ Len(taken) = Len(checkpoints)
    /\ \A i \in DOMAIN taken : taken[i].valid => taken[i].documented
    /\ \A i \in DOMAIN taken : taken[i].documented =>
           /\ checkpoints[i].parent_idx = Len(taken[i].parents)
           /\ checkpoints[i].child_idx = Len(taken[i].children)

\* What truncating to checkpoint i restores.
Restores(i) ==
    /\ checkpoints[i].parent_idx <= Len(parents)
    /\ checkpoints[i].child_idx <= Len(children)
    /\ SubSeq(parents, 1, checkpoints[i].parent_idx) = taken[i].parents
    /\ SubSeq(children, 1, checkpoints[i].child_idx) = taken[i].children

\* A valid checkpoint still describes a prefix of the builder's stack:
\* reverting to it gives back exactly the nodes and elements there were when
\* it was taken, although only two indices were remembered.
ValidCheckpointsRestore ==
    \A i \in DOMAIN taken : Building /\ taken[i].valid => Restores(i)

\* While nodes are balanced around a valid checkpoint, no assertion of
\* revert_to or start_node_at fires.
BalancedUseNeverPanics ==
    \A i \in DOMAIN taken :
        Building /\ taken[i].valid /\ Len(parents) = checkpoints[i].parent_idx
        => RevertAllowed(checkpoints[i]) /\ StartAllowed(checkpoints[i])

\* revert_to at a valid checkpoint either panics or leaves the builder in the
\* state it had when the checkpoint was taken.
RevertIsRestore ==
    [][\A i \in DOMAIN checkpoints :
          HRevertTo(i) /\ taken[i].valid /\ Building' =>
              parents' = taken[i].parents /\ children' = taken[i].children]_hvars

----------------------------------------------------------------------------
(* Statements of the documentation that the code does not keep *)

\* "It will delete any nodes that were started but not finished since the
\* checkpoint was taken": reverting over unfinished nodes does not panic.
UnfinishedNodesAreReverted ==
    \A i \in DOMAIN taken : Building /\ taken[i].valid => RevertAllowed(checkpoints[i])

\* "Restore the builder's state to when the Checkpoint was taken", for every
\* checkpoint that the documentation of `checkpoint' calls valid.
DocumentedRevertRestores ==
    [][\A i \in DOMAIN checkpoints :
          HRevertTo(i) /\ taken[i].documented /\ Building' =>
              parents' = taken[i].parents /\ children' = taken[i].children]_hvars

=============================================================================
