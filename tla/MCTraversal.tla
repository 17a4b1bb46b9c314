---------------------------- MODULE MCTraversal ----------------------------
(* All green trees of a few elements, for TLC. *)
EXTENDS Traversal

\* Empty tokens, and tokens with an offset inside them.
MCTokenLens == {0, 2}

\* Elements of one kind and of different ones, on the same level and above each
\* other: a child's parent may have either kind.
MCKinds == {"a", "b"}
MCKind == [p \in 1 .. MaxSize |-> IF p % 2 = 1 THEN "a" ELSE "b"]
=============================================================================
