---------------------------- MODULE DeriveSyntax ----------------------------
(***************************************************************************)
(* The derive macro for Syntax (crate cstree-derive): from the definition  *)
(* of an enum to the conversions between its variants and raw kinds, or to *)
(* the list of everything that is wrong with it.                           *)
(*                                                                         *)
(* The generated from_raw transmutes a number to the enum after comparing  *)
(* it with the number of variants.  That is sound only if the variants     *)
(* have the discriminants 0, 1, 2, ..., which the macro has to establish   *)
(* from the definition alone.  It does not stop at the first error but     *)
(* collects errors in a context, which has to be checked before it is      *)
(* dropped and must not be used afterwards.                                *)
(*                                                                         *)
(* An attribute is represented by the form of its argument: "ok" (one that *)
(* can be parsed), "bad" (a list that cannot), "bare" (none) or "value"    *)
(* (`= ...'); a repr attribute by the names it lists, "align(4)" being one *)
(* with an argument of its own.                                            *)
(***************************************************************************)
EXTENDS Integers, Picking

CONSTANTS
    MaxVariants,    \* bound: variants of an enum
    ReprAttrs,      \* the repr attributes a definition may have
    SyntaxAttrs,    \* the forms of its syntax attributes
    StaticAttrs,    \* the static_text and static_data attributes of a variant
    Discriminants   \* explicit discriminants of variants

NoDiscriminant == -1

ASSUME DeriveAssumption ==
    /\ MaxVariants \in Nat
    /\ \A attrs \in ReprAttrs : attrs \in Seq(Seq(STRING))
    /\ \A attrs \in SyntaxAttrs : attrs \in Seq({"ok", "bad"})
    /\ \A attrs \in StaticAttrs : attrs \in Seq([name : {"text", "data"},
                                                 form : {"ok", "bad", "bare", "value"}])
    /\ Discriminants \subseteq Int /\ NoDiscriminant \in Discriminants

VARIABLES
    item,    \* the definition; its variants are looked at one after the other
    repr,    \* the name that repr was set to, if any
    errors,  \* the error context: <<the errors in it>>, <<>> once it was checked
    report,  \* the errors that check returned
    status   \* where expand_syntax is, and how it ended

vars == <<item, repr, errors, report, status>>

\* The place of an error: the number of a variant, or the definition itself.
Whole == 0
Unset == [form |-> "none"]

Variants == [unit : BOOLEAN, discriminant : Discriminants, attrs : StaticAttrs]

----------------------------------------------------------------------------
(* Attributes *)

\* An error points to where it was found.
At(place, what) == [place |-> place, what |-> what]

\* Attr::set for every value in order: the first one stays, and every further
\* one is an error.
Set(values) == IF values = <<>> THEN Unset ELSE [form |-> "set", value |-> values[1]]
Duplicates(values, place, name) ==
    [i \in 1 .. Len(values) - 1 |-> At(place, <<"duplicate", name>>)]

\* The names the repr attributes list, except those with an argument.
ReprNames(reprs) ==
    LET listed == FlattenSeq(reprs) IN
    Picked(listed, {i \in DOMAIN listed : listed[i] # "align(4)"})

\* The syntax attributes; one that cannot be parsed gives two errors.
SyntaxData(attrs) == Picked(attrs, {i \in DOMAIN attrs : attrs[i] = "ok"})
SyntaxErrors(attrs) ==
    FlattenSeq([i \in DOMAIN attrs |->
        IF attrs[i] = "ok" THEN <<>>
        ELSE <<At(Whole, "expected data = Type"), At(Whole, "syn")>>])

\* get_static_text and get_static_data: the attributes of that name that can
\* be used, and the errors for the others.
Named(attrs, name) == Picked(attrs, {i \in DOMAIN attrs : attrs[i].name = name})
Usable(attrs, name) ==
    LET all == Named(attrs, name) IN Picked(all, {i \in DOMAIN all : all[i].form = "ok"})
FormErrors(form, name, place) ==
    CASE form = "ok"    -> <<>>
      [] form = "bad"   -> <<At(place, <<"argument", name>>), At(place, "syn")>>
      [] form = "bare"  -> <<At(place, <<"missing", name>>)>>
      [] form = "value" -> <<At(place, <<"function argument", name>>)>>
ArgumentErrors(attrs, name, place) ==
    LET all == Named(attrs, name)
    IN  FlattenSeq([i \in DOMAIN all |-> FormErrors(all[i].form, name, place)])

\* Mutant: accepts discriminants that count up.
VariantErrors_Increasing(v, i) ==
    (IF v.unit THEN <<>> ELSE <<At(i, "fields")>>)
    \o (IF v.discriminant = NoDiscriminant \/ v.discriminant >= i - 1
        THEN <<>> ELSE <<At(i, "discriminant")>>)
    \o ArgumentErrors(v.attrs, "text", i) \o Duplicates(Usable(v.attrs, "text"), i, "text")
    \o ArgumentErrors(v.attrs, "data", i) \o Duplicates(Usable(v.attrs, "data"), i, "data")

\* SyntaxKindVariant::parse_from_ast
VariantErrors(v, i) ==
    (IF v.unit THEN <<>> ELSE <<At(i, "fields")>>)
    \o (IF v.discriminant = NoDiscriminant THEN <<>> ELSE <<At(i, "discriminant")>>)
    \o ArgumentErrors(v.attrs, "text", i) \o Duplicates(Usable(v.attrs, "text"), i, "text")
    \o ArgumentErrors(v.attrs, "data", i) \o Duplicates(Usable(v.attrs, "data"), i, "data")

----------------------------------------------------------------------------
(* expand_syntax *)

\* A method of the error context, which a checked one does not survive.
Record(new, next) ==
    /\ UNCHANGED report
    /\ status' = IF errors = <<>> THEN "panicked" ELSE next
    /\ errors' = [i \in DOMAIN errors |-> errors[i] \o new]

Init ==
    /\ item \in [is_enum : BOOLEAN, reprs : ReprAttrs, syntax : SyntaxAttrs, variants : {<<>>}]
    /\ repr = Unset
    /\ errors = <<<<>>>> /\ report = <<>>
    /\ status = "start"

\* Mutant: returns without checking the context.
NotAnEnum_Unchecked ==
    /\ status = "start" /\ ~ item.is_enum
    /\ Record(<<At(Whole, "not an enum")>>, "return")
    /\ UNCHANGED <<item, repr>>

\* Anything but an enum is one error and nothing else is looked at.
NotAnEnum ==
    /\ status = "start" /\ ~ item.is_enum
    /\ Record(<<At(Whole, "not an enum")>>, "check")
    /\ UNCHANGED <<item, repr>>

\* SyntaxKindEnum::parse_from_ast, up to the variants.
ParseEnum ==
    LET names == ReprNames(item.reprs)
        data == SyntaxData(item.syntax)
    IN  /\ status = "start" /\ item.is_enum
        /\ Record(Duplicates(names, Whole, "repr")
                  \o SyntaxErrors(item.syntax) \o Duplicates(data, Whole, "data"), "variants")
        /\ repr' = Set(names)
        /\ UNCHANGED item

\* The next variant of the definition.
ParseVariant(v) ==
    /\ status = "variants" /\ Len(item.variants) < MaxVariants
    /\ item' = [item EXCEPT !.variants = Append(@, v)]
    /\ Record(VariantErrors(v, Len(item.variants) + 1), "variants")
    /\ UNCHANGED repr

\* There are no more variants: the enum has to be #[repr(u32)].
CheckRepr ==
    /\ status = "variants"
    /\ Record(IF repr = [form |-> "set", value |-> "u32"]
              THEN <<>> ELSE <<At(Whole, "repr")>>, "check")
    /\ UNCHANGED <<item, repr>>

\* ErrorContext::check, which takes the errors out of the context.
Check ==
    /\ status = "check"
    /\ report' = errors[1] /\ errors' = <<>>
    /\ status' = "return"
    /\ UNCHANGED <<item, repr>>

\* expand_syntax returns and the context is dropped, which panics if nobody
\* checked it.
Return ==
    /\ status = "return"
    /\ status' = IF errors # <<>> THEN "panicked"
                 ELSE IF report = <<>> THEN "accepted" ELSE "rejected"
    /\ UNCHANGED <<item, repr, errors, report>>

Next ==
    \/ NotAnEnum \/ ParseEnum
    \/ \E v \in Variants : ParseVariant(v)
    \/ CheckRepr \/ Check \/ Return

Spec == Init /\ [][Next]_vars

----------------------------------------------------------------------------
(* The generated code *)

\* The assertion of from_raw: fewer than the variants.
FromRawAccepts(raw) == raw < Len(item.variants)

----------------------------------------------------------------------------
(* Properties *)

\* The discriminants the compiler gives the variants: the explicit one, or one
\* more than that of the variant before.  into_raw casts to them.
Discriminant ==
    LET d[i \in 1 .. Len(item.variants)] ==
            LET v == item.variants[i] IN
            IF v.discriminant # NoDiscriminant THEN v.discriminant
            ELSE IF i = 1 THEN 0 ELSE d[i - 1] + 1
    IN  d

\* In an accepted definition every number that passes the assertion of
\* from_raw is the discriminant of exactly one variant, in 32 bits, so that
\* the transmute is sound, and into_raw and from_raw are inverse to each other.
TransmuteSound ==
    status = "accepted" =>
        /\ item.is_enum /\ "u32" \in ToSet(FlattenSeq(item.reprs))
        /\ \A v \in ToSet(item.variants) : v.unit
        /\ \A raw \in (Discriminants \cap Nat) \cup (0 .. MaxVariants + 1) :
               FromRawAccepts(raw) <=> \E i \in DOMAIN item.variants : Discriminant[i] = raw
        /\ IsInjective(Discriminant)

\* What is wrong with a definition, place by place.
BadStatic(attrs) ==
    \/ \E a \in ToSet(attrs) : a.form # "ok"
    \/ \E n \in {"text", "data"} : Len(Named(attrs, n)) > 1
BadPlaces ==
    IF ~ item.is_enum THEN {Whole}
    ELSE {i \in DOMAIN item.variants :
             LET v == item.variants[i] IN
             ~ v.unit \/ v.discriminant # NoDiscriminant \/ BadStatic(v.attrs)}
         \cup (IF \/ ReprNames(item.reprs) # <<"u32">>
                  \/ item.syntax \notin {<<>>, <<"ok">>} THEN {Whole} ELSE {})

\* A definition is accepted exactly if nothing is wrong with it, and otherwise
\* every place where something is wrong is reported at once, and no other.
DefectsReported ==
    /\ status # "panicked"
    /\ status = "accepted" => BadPlaces = {}
    /\ status = "rejected" => {report[i].place : i \in DOMAIN report} = BadPlaces
=============================================================================
