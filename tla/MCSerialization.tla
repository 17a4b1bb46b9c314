-------------------------- MODULE MCSerialization --------------------------
(* A few trees, every interleaving of writers, and every short document, for *)
(* TLC.                                                                      *)
EXTENDS Serialization

MCVariants == <<"Root", "Ident", "Plus">>
MCStaticData == [k \in NodeKinds \cup TokenKinds |-> IF k = "Plus" THEN "+" ELSE NoData]

MCIdent == [kind |-> "Ident", text |-> "id"]
MCRaw == [kind |-> "Ident", text |-> "raw"]
MCPlus == [kind |-> "Plus", text |-> "+"]
MCNode(trees) == [kind |-> "Root", trees |-> trees]

MCTrees ==
    {MCNode(<<MCIdent, MCNode(<<MCPlus>>), MCNode(<<>>)>>),
     MCNode(<<MCNode(<<MCNode(<<MCRaw>>), MCPlus>>)>>)}

\* Kind 3 does not exist, "+" is the only text of Plus, "bad" cannot be decoded;
\* the bytes "raw" arrive as a sequence and are no text.
MCForeignEvents ==
    {EnterNode(0, TRUE), EnterNode(0, FALSE), EnterNode(3, FALSE), LeaveNode,
     Token(1, Payload("id")), Token(1, [form |-> "seq", bytes |-> "raw"]),
     Token(1, Payload("bad")), Token(2, Payload("+")), Token(2, Payload("id"))}
=============================================================================
