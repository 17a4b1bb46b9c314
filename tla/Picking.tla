------------------------------- MODULE Picking -------------------------------
(***************************************************************************)
(* The elements of a sequence at given places: filter() of an iterator.    *)
(* Unlike SelectSeq it has a definition the prover can expand, and takes   *)
(* the places, a set, where SelectSeq takes an operator.                   *)
(***************************************************************************)
EXTENDS Integers, SequencesExt

Picked(s, places) ==
    LET picked[i \in 0 .. Len(s)] ==
            IF i = 0 THEN <<>>
            ELSE IF i \in places THEN Append(picked[i - 1], s[i])
            ELSE picked[i - 1]
    IN  picked[Len(s)]
=============================================================================
