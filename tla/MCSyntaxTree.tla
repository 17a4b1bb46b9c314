---------------------------- MODULE MCSyntaxTree ----------------------------
(* A small tree shared by a few threads, for TLC. *)
EXTENDS SyntaxTree

\* Root(Node(Token)): each position is the child of the one before it.
MCParent == [p \in 2 .. Size |-> p - 1]
=============================================================================
