---------------------------- MODULE MCSyntaxText ----------------------------
(* Texts of characters of one and of two bytes, for TLC. *)
EXTENDS SyntaxText

MCEncode == [c \in Chars |-> IF c = "a" THEN <<1>> ELSE <<2, 3>>]
=============================================================================
