--------------------------- MODULE MCDeriveSyntax ---------------------------
(* Definitions of syntax kinds, right and wrong, for TLC. *)
EXTENDS DeriveSyntax

MCReprAttrs ==
    {<<>>, <<<<"u32">>>>, <<<<"C">>>>, <<<<"u32", "align(4)">>>>, <<<<"u32">>, <<"u32">>>>,
     <<<<"C", "u32">>>>}

MCSyntaxAttrs == {<<>>, <<"ok">>, <<"bad">>, <<"ok", "ok">>, <<"bad", "ok">>}

Text(form) == [name |-> "text", form |-> form]
Expr(form) == [name |-> "data", form |-> form]

MCStaticAttrs ==
    {<<>>, <<Text("ok")>>, <<Expr("ok")>>, <<Text("ok"), Expr("ok")>>,
     <<Text("bad"), Text("ok")>>, <<Expr("bare")>>, <<Text("value")>>,
     <<Text("ok"), Expr("ok"), Text("ok")>>, <<Expr("ok"), Expr("ok"), Expr("ok")>>}

MCDiscriminants == {NoDiscriminant, 0, 1, 5}
=============================================================================
