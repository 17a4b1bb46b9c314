----------------------------- MODULE MCResolved -----------------------------
(* Trees with a token at the root and a node with a token, for TLC. *)
EXTENDS Resolved

MCParent == [p \in 2 .. 4 |-> IF p = 4 THEN 3 ELSE 1]
=============================================================================
