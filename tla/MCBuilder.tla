----------------------------- MODULE MCBuilder -----------------------------
(* An instance of the builder with checkpoint histories and the abstract   *)
(* builder.                                                                *)
EXTENDS BuilderRefinement, MCGreenBuilder, TLC

CONSTANTS Ident, Dot

\* Neither kind has static text, and nothing compares them but with themselves.
KindsInterchangeable == Permutations(TokenKinds)
=============================================================================
