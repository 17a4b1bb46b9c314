-------------------------- MODULE MCSharedInterner --------------------------
(* A shared interner with a few threads and keys, for TLC. *)
EXTENDS SharedInterner

\* Two shards, each with two texts.
MCShardOf == [x \in Texts |-> IF x \in {"c", "d"} THEN "s2" ELSE "s1"]
=============================================================================
