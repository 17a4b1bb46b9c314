--------------------------- MODULE MCGreenBuilder ---------------------------
(* Small instances of the builder for TLC. *)
EXTENDS GreenBuilder

\* One static kind ("Plus", always "+"); every other kind has interned text.
MCStaticData == [k \in TokenKinds |-> IF k = "Plus" THEN "+" ELSE NoData]

\* Text sizes of one to three bytes.
MCByteLen == [d \in Data |-> CASE d = "+" -> 1 [] d \in {"id", "if"} -> 2 [] OTHER -> 3]

\* A hash without collisions: what the code needs FxHash to be.
MCInjectiveHash(inputs) == inputs

\* A hash in which all nodes with the same number of children collide.
MCCollidingHash(inputs) == Len(inputs)
=============================================================================
