------------------------- MODULE DeriveSyntaxProofs -------------------------
(***************************************************************************)
(* DeriveSyntax: whatever the definition, every defect in it is reported   *)
(* at its place and nothing else is, the error context is checked exactly  *)
(* once, and for an accepted definition the transmute of from_raw is sound.*)
(*                                                                         *)
(* The invariant relates the places of the errors recorded so far to the   *)
(* part of the definition that was looked at.                              *)
(***************************************************************************)
EXTENDS DeriveSyntax, SequenceFacts

Forms == {"ok", "bad", "bare", "value"}
Attribute == [name : {"text", "data"}, form : Forms]
Variant == [unit : BOOLEAN, discriminant : Int, attrs : Seq(Attribute)]
Definition ==
    [is_enum : BOOLEAN, reprs : Seq(Seq(STRING)), syntax : Seq({"ok", "bad"}),
     variants : Seq(Variant)]

Names == {"repr", "text", "data"}
Whats ==
    {"not an enum", "repr", "fields", "discriminant", "syn", "expected data = Type"}
    \cup ({"duplicate", "argument", "missing", "function argument"} \X Names)
Error == [place : Nat, what : Whats]

\* The places of a list of errors.
Places(list) == {e.place : e \in ToSet(list)}

----------------------------------------------------------------------------
(* Lists of errors *)

LEMMA PlacesOfNone == Places(<<>>) = {} /\ <<>> \in Seq(Error)
BY DEF Places, ToSet

LEMMA PlacesOfOne ==
    ASSUME NEW place \in Nat, NEW what \in Whats
    PROVE  <<At(place, what)>> \in Seq(Error) /\ Places(<<At(place, what)>>) = {place}
<1>1. At(place, what) \in Error /\ At(place, what).place = place
  BY DEF At, Error
<1>2. PICK e : e = At(place, what)
  OBVIOUS
<1>3. <<e>> \in Seq(Error)
  BY <1>1, <1>2
<1>4. DOMAIN <<e>> = 1 .. 1 /\ <<e>>[1] = e
  OBVIOUS
<1>5. ToSet(<<e>>) = {e}
  BY <1>4 DEF ToSet
<1> QED
  BY <1>1, <1>2, <1>3, <1>5 DEF Places

LEMMA PlacesOfTwo ==
    ASSUME NEW a \in Seq(Error), NEW b \in Seq(Error)
    PROVE  a \o b \in Seq(Error) /\ Places(a \o b) = Places(a) \cup Places(b)
<1>1. a \o b \in Seq(Error)
  BY ConcatProperties
<1>2. PICK c, A, B : c = a \o b /\ A = ToSet(a) /\ B = ToSet(b)
  OBVIOUS
<1>3. ToSet(c) = A \cup B
  BY <1>2, ConcatElements
<1>4. {e.place : e \in A \cup B} = {e.place : e \in A} \cup {e.place : e \in B}
  OBVIOUS
<1> QED
  BY <1>1, <1>2, <1>3, <1>4, Zenon DEF Places

LEMMA NoPlaces ==
    ASSUME NEW list \in Seq(Error)
    PROVE  Places(list) = {} <=> list = <<>>
<1>1. ASSUME list # <<>> PROVE Places(list) # {}
  <2>1. 1 \in DOMAIN list
    BY <1>1
  <2>2. list[1] \in ToSet(list)
    BY <2>1 DEF ToSet
  <2> QED
    BY <2>2 DEF Places
<1> QED
  BY <1>1, PlacesOfNone

\* A list with an error at `place' for every element in between.
LEMMA DuplicatesPlaces ==
    ASSUME NEW T, NEW values \in Seq(T), NEW place \in Nat, NEW name \in Names
    PROVE  /\ Duplicates(values, place, name) \in Seq(Error)
           /\ Places(Duplicates(values, place, name)) = IF Len(values) > 1 THEN {place} ELSE {}
<1>1. PICK n, e, list : /\ n = Len(values) /\ n \in Nat /\ e = At(place, <<"duplicate", name>>)
                        /\ list = [i \in 1 .. n - 1 |-> e]
  <2>1. Len(values) \in Nat
    OBVIOUS
  <2> QED
    BY <2>1
<1>2. e \in Error /\ e.place = place
  <2>1. <<"duplicate", name>> \in Whats
    BY DEF Whats
  <2> QED
    BY <1>1, <2>1 DEF At, Error
<1>3. Duplicates(values, place, name) = list
  BY <1>1 DEF Duplicates
<1>4. CASE n > 1
  <2>1. n - 1 \in Nat /\ 1 \in 1 .. n - 1
    BY <1>1, <1>4
  <2>2. list \in Seq(Error)
    BY <1>1, <1>2, <2>1
  <2>3. ToSet(list) = {e}
    BY <1>1, <2>1 DEF ToSet
  <2> QED
    BY <1>1, <1>2, <1>3, <1>4, <2>2, <2>3 DEF Places
<1>5. CASE ~ (n > 1)
  <2>1. 1 .. n - 1 = 1 .. 0
    BY <1>1, <1>5
  <2>2. list = <<>>
    <3>1. list = [i \in 1 .. 0 |-> e]
      BY <1>1, <2>1
    <3>2. list \in Seq(Error) /\ Len(list) = 0
      BY <1>2, <3>1
    <3> QED
      BY <3>2, EmptySeq
  <2> QED
    BY <1>1, <1>3, <1>5, <2>2, PlacesOfNone
<1> QED
  BY <1>4, <1>5

\* A list of lists, one for each of n things.
LEMMA FlattenPlaces ==
    ASSUME NEW n \in Nat, NEW lists \in [1 .. n -> Seq(Error)]
    PROVE  /\ FlattenSeq(lists) \in Seq(Error)
           /\ Places(FlattenSeq(lists)) = UNION {Places(lists[i]) : i \in 1 .. n}
<1>1. lists \in Seq(Seq(Error)) /\ Len(lists) = n
  OBVIOUS
<1>2. ToSet(FlattenSeq(lists)) = UNION {ToSet(lists[i]) : i \in 1 .. n}
  BY <1>1, FlattenElements
<1>3. ASSUME NEW x PROVE x \in Places(FlattenSeq(lists)) <=> \E i \in 1 .. n : x \in Places(lists[i])
  BY <1>2 DEF Places
<1>4. FlattenSeq(lists) \in Seq(Error)
  BY <1>1, FlattenType
<1> QED
  BY <1>3, <1>4

----------------------------------------------------------------------------
(* The errors of the parts of a definition *)

\* The attributes of a name, and those of them that can be used.
LEMMA NamedType ==
    ASSUME NEW attrs \in Seq(Attribute), NEW name
    PROVE  /\ Named(attrs, name) \in Seq(Attribute)
           /\ ToSet(Named(attrs, name)) = {a \in ToSet(attrs) : a.name = name}
<1>1. PICK p : p = {i \in DOMAIN attrs : attrs[i].name = name}
  OBVIOUS
<1>2. /\ Picked(attrs, p) \in Seq(Attribute)
      /\ ToSet(Picked(attrs, p)) = {attrs[i] : i \in {j \in 1 .. Len(attrs) : j \in p}}
  BY PickedElements
<1>3. {attrs[i] : i \in {j \in 1 .. Len(attrs) : j \in p}} = {a \in ToSet(attrs) : a.name = name}
  BY <1>1 DEF ToSet
<1> QED
  BY <1>1, <1>2, <1>3 DEF Named

LEMMA UsableLength ==
    ASSUME NEW attrs \in Seq(Attribute), NEW name
    PROVE  /\ Usable(attrs, name) \in Seq(Attribute)
           /\ Len(Usable(attrs, name)) <= Len(Named(attrs, name))
           /\ (\A a \in ToSet(attrs) : a.form = "ok") => Usable(attrs, name) = Named(attrs, name)
<1>1. PICK all, p : all = Named(attrs, name) /\ p = {i \in DOMAIN all : all[i].form = "ok"}
  OBVIOUS
<1>2. all \in Seq(Attribute) /\ ToSet(all) \subseteq ToSet(attrs)
  BY <1>1, NamedType
<1>3. Picked(all, p) \in Seq(Attribute) /\ Len(Picked(all, p)) <= Len(all)
  BY <1>2, PickedElements, PickedIsShorter
<1>4. ASSUME \A a \in ToSet(attrs) : a.form = "ok" PROVE Picked(all, p) = all
  <2>1. \A i \in 1 .. Len(all) : i \in p
    <3>1. ASSUME NEW i \in 1 .. Len(all) PROVE i \in p
      <4>1. i \in DOMAIN all /\ all[i] \in ToSet(all)
        BY <1>2 DEF ToSet
      <4> QED
        BY <1>1, <1>2, <1>4, <4>1
    <3> QED
      BY <3>1
  <2> QED
    BY <1>2, <2>1, PickedAll
<1>5. Usable(attrs, name) = Picked(all, p)
  BY <1>1 DEF Usable
<1> QED
  BY <1>1, <1>3, <1>4, <1>5

LEMMA FormErrorsPlaces ==
    ASSUME NEW form \in Forms, NEW name \in Names, NEW place \in Nat
    PROVE  /\ FormErrors(form, name, place) \in Seq(Error)
           /\ Places(FormErrors(form, name, place)) = IF form # "ok" THEN {place} ELSE {}
<1>1. /\ <<"argument", name>> \in Whats /\ <<"missing", name>> \in Whats
      /\ <<"function argument", name>> \in Whats /\ "syn" \in Whats
  BY DEF Whats
<1>2. CASE form = "ok"
  BY <1>2, PlacesOfNone DEF FormErrors
<1>3. CASE form = "bad"
  <2>1. PICK a, b : a = At(place, <<"argument", name>>) /\ b = At(place, "syn")
    OBVIOUS
  <2>2. /\ <<a>> \in Seq(Error) /\ Places(<<a>>) = {place}
        /\ <<b>> \in Seq(Error) /\ Places(<<b>>) = {place}
    BY <1>1, <2>1, PlacesOfOne
  <2>3. /\ <<a>> \o <<b>> \in Seq(Error)
        /\ Places(<<a>> \o <<b>>) = {place} \cup {place}
    BY <2>2, PlacesOfTwo
  <2>4. <<a>> \o <<b>> = <<a, b>>
    <3>1. PICK s, t, u : s = <<a>> /\ t = <<b>> /\ u = <<a, b>>
      OBVIOUS
    <3>2. /\ s \in Seq({a, b}) /\ Len(s) = 1 /\ s[1] = a /\ t \in Seq({a, b}) /\ Len(t) = 1 /\ t[1] = b
          /\ u \in Seq({a, b}) /\ Len(u) = 2 /\ u[1] = a /\ u[2] = b
      BY <3>1
    <3>3. s \o t \in Seq({a, b}) /\ Len(s \o t) = 2 /\ (s \o t)[1] = a /\ (s \o t)[2] = b
      <4>1. /\ s \o t \in Seq({a, b}) /\ Len(s \o t) = Len(s) + Len(t)
            /\ \A i \in 1 .. Len(s) + Len(t) : (s \o t)[i] = IF i <= Len(s) THEN s[i] ELSE t[i - Len(s)]
        BY <3>2, ConcatProperties
      <4>2. Len(s) + Len(t) = 2 /\ 1 \in 1 .. 2 /\ 2 \in 1 .. 2 /\ 1 <= Len(s) /\ ~ (2 <= Len(s)) /\ 2 - Len(s) = 1
        BY <3>2
      <4> QED
        BY <3>2, <4>1, <4>2
    <3>4. \A i \in 1 .. 2 : u[i] = (s \o t)[i]
      BY <3>2, <3>3
    <3> QED
      BY <3>1, <3>2, <3>3, <3>4, SameSeq
  <2>5. FormErrors(form, name, place) = <<a, b>>
    BY <1>3, <2>1 DEF FormErrors
  <2> QED
    BY <1>3, <2>3, <2>4, <2>5
<1>4. CASE form = "bare"
  <2>1. FormErrors(form, name, place) = <<At(place, <<"missing", name>>)>>
    BY <1>4 DEF FormErrors
  <2> QED
    BY <1>1, <1>4, <2>1, PlacesOfOne
<1>5. CASE form = "value"
  <2>1. FormErrors(form, name, place) = <<At(place, <<"function argument", name>>)>>
    BY <1>5 DEF FormErrors
  <2> QED
    BY <1>1, <1>5, <2>1, PlacesOfOne
<1> QED
  BY <1>2, <1>3, <1>4, <1>5 DEF Forms

LEMMA ArgumentErrorsPlaces ==
    ASSUME NEW attrs \in Seq(Attribute), NEW name \in Names, NEW place \in Nat
    PROVE  /\ ArgumentErrors(attrs, name, place) \in Seq(Error)
           /\ Places(ArgumentErrors(attrs, name, place)) =
                  IF \E a \in ToSet(attrs) : a.name = name /\ a.form # "ok" THEN {place} ELSE {}
<1>1. PICK all, n : all = Named(attrs, name) /\ n = Len(all) /\ n \in Nat /\ all \in Seq(Attribute)
  <2>1. Named(attrs, name) \in Seq(Attribute) /\ Len(Named(attrs, name)) \in Nat
    BY NamedType
  <2> QED
    BY <2>1
<1>2. PICK lists : lists = [i \in 1 .. n |-> FormErrors(all[i].form, name, place)]
  OBVIOUS
<1>3. ArgumentErrors(attrs, name, place) = FlattenSeq(lists)
  <2>1. DOMAIN all = 1 .. n
    BY <1>1
  <2> QED
    BY <1>1, <1>2, <2>1 DEF ArgumentErrors
<1>4. ASSUME NEW i \in 1 .. n
      PROVE  /\ lists[i] \in Seq(Error)
             /\ Places(lists[i]) = IF all[i].form # "ok" THEN {place} ELSE {}
  <2>1. all[i] \in Attribute
    BY <1>1
  <2>2. all[i].form \in Forms
    BY <2>1 DEF Attribute
  <2> QED
    BY <1>2, <2>2, FormErrorsPlaces
<1>5. lists \in [1 .. n -> Seq(Error)]
  <2>1. lists = [i \in 1 .. n |-> lists[i]]
    BY <1>2
  <2> QED
    BY <1>4, <2>1
<1>6. /\ FlattenSeq(lists) \in Seq(Error)
      /\ Places(FlattenSeq(lists)) = UNION {Places(lists[i]) : i \in 1 .. n}
  BY <1>1, <1>5, FlattenPlaces
<1>7. (\E a \in ToSet(attrs) : a.name = name /\ a.form # "ok") <=> \E i \in 1 .. n : all[i].form # "ok"
  <2>1. ToSet(all) = {a \in ToSet(attrs) : a.name = name} /\ DOMAIN all = 1 .. n
    BY <1>1, NamedType
  <2>2. ToSet(all) = {all[i] : i \in 1 .. n}
    BY <2>1 DEF ToSet
  <2>3. ASSUME NEW a \in ToSet(attrs), a.name = name, a.form # "ok" PROVE \E i \in 1 .. n : all[i].form # "ok"
    BY <2>1, <2>2, <2>3
  <2>4. ASSUME NEW i \in 1 .. n, all[i].form # "ok" PROVE \E a \in ToSet(attrs) : a.name = name /\ a.form # "ok"
    BY <2>1, <2>2, <2>4
  <2> QED
    BY <2>3, <2>4
<1>8. UNION {Places(lists[i]) : i \in 1 .. n} = IF \E i \in 1 .. n : all[i].form # "ok" THEN {place} ELSE {}
  BY <1>4
<1> QED
  BY <1>3, <1>6, <1>7, <1>8

BadVariant(v) == ~ v.unit \/ v.discriminant # NoDiscriminant \/ BadStatic(v.attrs)

LEMMA VariantErrorsPlaces ==
    ASSUME NEW v \in Variant, NEW i \in Nat
    PROVE  /\ VariantErrors(v, i) \in Seq(Error)
           /\ Places(VariantErrors(v, i)) = IF BadVariant(v) THEN {i} ELSE {}
<1> DEFINE attrs == v.attrs
           Bad(name) == \E a \in ToSet(attrs) : a.name = name /\ a.form # "ok"
           Twice(name) == Len(Usable(attrs, name)) > 1
<1>1. attrs \in Seq(Attribute) /\ v.unit \in BOOLEAN
  BY DEF Variant
<1>2. PICK a : a = IF v.unit THEN <<>> ELSE <<At(i, "fields")>>
  OBVIOUS
<1>3. a \in Seq(Error) /\ Places(a) = IF v.unit THEN {} ELSE {i}
  <2>1. "fields" \in Whats
    BY DEF Whats
  <2> QED
    BY <1>2, <2>1, PlacesOfNone, PlacesOfOne
<1>4. PICK b : b = IF v.discriminant = NoDiscriminant THEN <<>> ELSE <<At(i, "discriminant")>>
  OBVIOUS
<1>5. b \in Seq(Error) /\ Places(b) = IF v.discriminant = NoDiscriminant THEN {} ELSE {i}
  <2>1. "discriminant" \in Whats
    BY DEF Whats
  <2> QED
    BY <1>4, <2>1, PlacesOfNone, PlacesOfOne
<1>6. PICK c, d, e, f :
          /\ c = ArgumentErrors(attrs, "text", i) /\ d = Duplicates(Usable(attrs, "text"), i, "text")
          /\ e = ArgumentErrors(attrs, "data", i) /\ f = Duplicates(Usable(attrs, "data"), i, "data")
  OBVIOUS
<1>7. "text" \in Names /\ "data" \in Names
  BY DEF Names
<1> HIDE DEF attrs
<1>8. /\ c \in Seq(Error) /\ Places(c) = IF Bad("text") THEN {i} ELSE {}
      /\ e \in Seq(Error) /\ Places(e) = IF Bad("data") THEN {i} ELSE {}
  BY <1>1, <1>6, <1>7, ArgumentErrorsPlaces
<1>9. /\ d \in Seq(Error) /\ Places(d) = IF Twice("text") THEN {i} ELSE {}
      /\ f \in Seq(Error) /\ Places(f) = IF Twice("data") THEN {i} ELSE {}
  <2>1. Usable(attrs, "text") \in Seq(Attribute) /\ Usable(attrs, "data") \in Seq(Attribute)
    BY <1>1, UsableLength
  <2> QED
    BY <1>6, <1>7, <2>1, DuplicatesPlaces
<1>10. VariantErrors(v, i) = a \o b \o c \o d \o e \o f
  BY <1>2, <1>4, <1>6, Zenon DEF VariantErrors, attrs
<1>11. /\ VariantErrors(v, i) \in Seq(Error)
       /\ Places(VariantErrors(v, i)) =
              Places(a) \cup Places(b) \cup Places(c) \cup Places(d) \cup Places(e) \cup Places(f)
  <2>0. /\ a \in Seq(Error) /\ b \in Seq(Error) /\ c \in Seq(Error)
        /\ d \in Seq(Error) /\ e \in Seq(Error) /\ f \in Seq(Error)
    BY <1>3, <1>5, <1>8, <1>9
  <2>1. PICK p : p = a \o b
    OBVIOUS
  <2>2. p \in Seq(Error) /\ Places(p) = Places(a) \cup Places(b)
    BY <2>0, <2>1, PlacesOfTwo
  <2>3. PICK q : q = p \o c
    OBVIOUS
  <2>4. q \in Seq(Error) /\ Places(q) = Places(p) \cup Places(c)
    BY <2>0, <2>2, <2>3, PlacesOfTwo
  <2>5. PICK r : r = q \o d
    OBVIOUS
  <2>6. r \in Seq(Error) /\ Places(r) = Places(q) \cup Places(d)
    BY <2>0, <2>4, <2>5, PlacesOfTwo
  <2>7. PICK s : s = r \o e
    OBVIOUS
  <2>8. s \in Seq(Error) /\ Places(s) = Places(r) \cup Places(e)
    BY <2>0, <2>6, <2>7, PlacesOfTwo
  <2>9. s \o f \in Seq(Error) /\ Places(s \o f) = Places(s) \cup Places(f)
    BY <2>0, <2>8, PlacesOfTwo
  <2>10. a \o b \o c \o d \o e \o f = s \o f
    BY <2>1, <2>3, <2>5, <2>7, Zenon
  <2>11. /\ VariantErrors(v, i) \in Seq(Error)
         /\ Places(VariantErrors(v, i)) = Places(s) \cup Places(f)
    BY <1>10, <2>9, <2>10, Zenon
  <2> QED
    BY <2>2, <2>4, <2>6, <2>8, <2>11, Zenon
<1>12. BadStatic(attrs) <=> Bad("text") \/ Bad("data") \/ Twice("text") \/ Twice("data")
  <2>1. (\E x \in ToSet(attrs) : x.form # "ok") <=> Bad("text") \/ Bad("data")
    <3>1. \A x \in ToSet(attrs) : x.name \in {"text", "data"}
      <4>1. ASSUME NEW x \in ToSet(attrs) PROVE x \in Attribute
        BY <1>1 DEF ToSet
      <4> QED
        BY <4>1 DEF Attribute
    <3> QED
      BY <3>1
  <2>2. ASSUME NEW name \in {"text", "data"}, Twice(name) PROVE Len(Named(attrs, name)) > 1
    <3>1. /\ Usable(attrs, name) \in Seq(Attribute) /\ Named(attrs, name) \in Seq(Attribute)
          /\ Len(Usable(attrs, name)) <= Len(Named(attrs, name))
      BY <1>1, UsableLength, NamedType
    <3>2. Len(Usable(attrs, name)) \in Nat /\ Len(Named(attrs, name)) \in Nat
      BY <3>1
    <3> QED
      BY <2>2, <3>1, <3>2
  <2>3. ASSUME NEW name \in {"text", "data"}, Len(Named(attrs, name)) > 1, ~ \E x \in ToSet(attrs) : x.form # "ok"
        PROVE  Twice(name)
    BY <1>1, <2>3, UsableLength
  <2> HIDE DEF Bad, Twice
  <2> QED
    BY <2>1, <2>2, <2>3 DEF BadStatic
<1>13. BadVariant(v) <=> ~ v.unit \/ v.discriminant # NoDiscriminant \/ BadStatic(attrs)
  BY DEF BadVariant, attrs
<1> HIDE DEF Bad, Twice
<1> QED
  BY <1>3, <1>5, <1>8, <1>9, <1>11, <1>12, <1>13

\* The syntax attributes: every one that cannot be parsed is reported, and
\* every usable one after the first.
BadSyntax(attrs) == attrs \notin {<<>>, <<"ok">>}

LEMMA SyntaxErrorsPlaces ==
    ASSUME NEW attrs \in Seq({"ok", "bad"})
    PROVE  /\ SyntaxErrors(attrs) \in Seq(Error)
           /\ Duplicates(SyntaxData(attrs), Whole, "data") \in Seq(Error)
           /\ Places(SyntaxErrors(attrs)) \cup Places(Duplicates(SyntaxData(attrs), Whole, "data"))
                  = IF BadSyntax(attrs) THEN {Whole} ELSE {}
<1>0. Whole \in Nat /\ "expected data = Type" \in Whats /\ "syn" \in Whats /\ "data" \in Names
  BY DEF Whole, Whats, Names
<1>1. PICK two : two = <<At(Whole, "expected data = Type"), At(Whole, "syn")>>
  OBVIOUS
<1>2. two \in Seq(Error) /\ Places(two) = {Whole}
  <2>1. PICK a, b : a = At(Whole, "expected data = Type") /\ b = At(Whole, "syn")
    OBVIOUS
  <2>2. a \in Error /\ b \in Error /\ a.place = Whole /\ b.place = Whole
    BY <1>0, <2>1 DEF At, Error
  <2>3. two = <<a, b>>
    BY <1>1, <2>1
  <2>4. two \in Seq(Error) /\ DOMAIN two = 1 .. 2 /\ two[1] = a /\ two[2] = b
    BY <2>2, <2>3
  <2>5. ToSet(two) = {a, b}
    BY <2>4 DEF ToSet
  <2> QED
    BY <2>2, <2>4, <2>5 DEF Places
<1>3. PICK n, lists : /\ n = Len(attrs) /\ n \in Nat
                      /\ lists = [i \in 1 .. n |-> IF attrs[i] = "ok" THEN <<>> ELSE two]
  <2>1. Len(attrs) \in Nat
    OBVIOUS
  <2> QED
    BY <2>1
<1>4. SyntaxErrors(attrs) = FlattenSeq(lists)
  <2>1. DOMAIN attrs = 1 .. n
    BY <1>3
  <2> QED
    BY <1>1, <1>3, <2>1 DEF SyntaxErrors
<1>5. lists \in [1 .. n -> Seq(Error)]
  BY <1>2, <1>3, PlacesOfNone
<1>6. /\ FlattenSeq(lists) \in Seq(Error)
      /\ Places(FlattenSeq(lists)) = UNION {Places(lists[i]) : i \in 1 .. n}
  BY <1>3, <1>5, FlattenPlaces
<1>7. UNION {Places(lists[i]) : i \in 1 .. n} = IF \E i \in 1 .. n : attrs[i] # "ok" THEN {Whole} ELSE {}
  <2>1. \A i \in 1 .. n : Places(lists[i]) = IF attrs[i] = "ok" THEN {} ELSE {Whole}
    BY <1>2, <1>3, PlacesOfNone
  <2> QED
    BY <2>1
<1>8. PICK p, data : /\ p = {i \in DOMAIN attrs : attrs[i] = "ok"} /\ data = SyntaxData(attrs)
                     /\ data = Picked(attrs, p)
  BY DEF SyntaxData
<1>9. data \in Seq({"ok", "bad"}) /\ Len(data) \in Nat /\ Len(data) <= n
  <2>1. Picked(attrs, p) \in Seq({"ok", "bad"}) /\ Len(Picked(attrs, p)) <= Len(attrs)
    BY PickedElements, PickedIsShorter
  <2> QED
    BY <1>3, <1>8, <2>1
<1>10. /\ Duplicates(data, Whole, "data") \in Seq(Error)
       /\ Places(Duplicates(data, Whole, "data")) = IF Len(data) > 1 THEN {Whole} ELSE {}
  BY <1>0, <1>9, DuplicatesPlaces
<1>11. BadSyntax(attrs) <=> (\E i \in 1 .. n : attrs[i] # "ok") \/ Len(data) > 1
  <2>1. ASSUME \A i \in 1 .. n : attrs[i] = "ok" PROVE data = attrs
    <3>1. \A i \in 1 .. Len(attrs) : i \in p
      BY <1>3, <1>8, <2>1
    <3> QED
      BY <1>8, <3>1, PickedAll
  <2>2. ASSUME BadSyntax(attrs), \A i \in 1 .. n : attrs[i] = "ok" PROVE Len(data) > 1
    <3>1. ASSUME n = 0 PROVE FALSE
      <4>1. attrs = <<>>
        BY <1>3, <3>1, EmptySeq
      <4> QED
        BY <2>2, <4>1 DEF BadSyntax
    <3>2. ASSUME n = 1 PROVE FALSE
      <4>1. attrs[1] = "ok"
        BY <2>2, <3>2
      <4>2. PICK t : t = <<"ok">> /\ t \in Seq({"ok", "bad"}) /\ Len(t) = 1 /\ t[1] = "ok"
        <5>1. /\ <<"ok">> \in Seq({"ok", "bad"}) /\ Len(<<"ok">>) = 1 /\ <<"ok">>[1] = "ok"
          OBVIOUS
        <5> QED
          BY <5>1
      <4>3. attrs = t
        <5>1. Len(attrs) = Len(t) /\ \A i \in 1 .. Len(attrs) : attrs[i] = t[i]
          BY <1>3, <3>2, <4>1, <4>2
        <5>2. t \in Seq({"ok", "bad"})
          BY <4>2
        <5> QED
          BY <5>1, <5>2, SameSeq
      <4> QED
        BY <2>2, <4>2, <4>3 DEF BadSyntax
    <3> QED
      BY <1>3, <1>9, <2>1, <2>2, <3>1, <3>2
  <2>3. ASSUME ~ BadSyntax(attrs) PROVE n <= 1 /\ \A i \in 1 .. n : attrs[i] = "ok"
    BY <1>3, <2>3 DEF BadSyntax
  <2> QED
    BY <1>3, <1>9, <2>2, <2>3
<1> QED
  BY <1>4, <1>6, <1>7, <1>8, <1>10, <1>11

\* The repr attributes: every name after the first is reported, and at the end
\* anything but u32.
BadRepr(reprs) == ReprNames(reprs) # <<"u32">>

LEMMA ReprPlaces ==
    ASSUME NEW reprs \in Seq(Seq(STRING))
    PROVE  /\ ReprNames(reprs) \in Seq(STRING)
           /\ BadRepr(reprs) <=> \/ Len(ReprNames(reprs)) > 1
                                 \/ Set(ReprNames(reprs)) # [form |-> "set", value |-> "u32"]
           /\ ToSet(ReprNames(reprs)) \subseteq ToSet(FlattenSeq(reprs))
<1>1. PICK listed, p : listed = FlattenSeq(reprs) /\ p = {i \in DOMAIN listed : listed[i] # "align(4)"}
  OBVIOUS
<1>2. listed \in Seq(STRING)
  BY <1>1, FlattenType
<1>3. PICK names : names = ReprNames(reprs) /\ names = Picked(listed, p)
  BY <1>1 DEF ReprNames
<1>4. Picked(listed, p) \in Seq(STRING) /\ ToSet(Picked(listed, p)) = {listed[i] : i \in {j \in 1 .. Len(listed) : j \in p}}
  BY <1>2, PickedElements
<1>5. names \in Seq(STRING) /\ ToSet(names) \subseteq ToSet(listed)
  <2>1. ToSet(listed) = {listed[i] : i \in 1 .. Len(listed)}
    BY <1>2 DEF ToSet
  <2> QED
    BY <1>3, <1>4, <2>1
<1>6. PICK t : t = <<"u32">> /\ Len(t) = 1 /\ t[1] = "u32"
  <2>1. Len(<<"u32">>) = 1 /\ <<"u32">>[1] = "u32"
    OBVIOUS
  <2> QED
    BY <2>1
<1>7. ASSUME names = t
      PROVE  ~ (Len(names) > 1) /\ Set(names) = [form |-> "set", value |-> "u32"]
  <2>1. names # <<>>
    BY <1>6, <1>7, EmptySeq
  <2> QED
    BY <1>6, <1>7, <2>1 DEF Set
<1>8. ASSUME ~ (Len(names) > 1), Set(names) = [form |-> "set", value |-> "u32"]
      PROVE  names = t
  <2>1. names # <<>>
    <3>1. ASSUME names = <<>> PROVE FALSE
      <4>1. Set(names) = [form |-> "none"]
        BY <3>1 DEF Set, Unset
      <4>2. [form |-> "none"].form # [form |-> "set", value |-> "u32"].form
        OBVIOUS
      <4> QED
        BY <1>8, <4>1, <4>2
    <3> QED
      BY <3>1
  <2>2. Len(names) = 1
    <3>1. Len(names) \in Nat \ {0}
      BY <1>5, <2>1, EmptySeq, Zenon
    <3>2. PICK l : l = Len(names) /\ l \in Nat \ {0} /\ ~ (l > 1)
      BY <1>8, <3>1, Zenon
    <3>3. l = 1
      BY <3>2
    <3> QED
      BY <3>2, <3>3, Zenon
  <2>3. Set(names) = [form |-> "set", value |-> names[1]]
    BY <2>1 DEF Set
  <2>4. names[1] = "u32"
    <3>1. [form |-> "set", value |-> names[1]].value = names[1]
      OBVIOUS
    <3>2. [form |-> "set", value |-> "u32"].value = "u32"
      OBVIOUS
    <3> QED
      BY <1>8, <2>3, <3>1, <3>2
  <2>5. PICK T : names \in Seq(T) /\ t \in Seq(T)
    <3>1. names \in Seq(STRING \cup {"u32"}) /\ t \in Seq(STRING \cup {"u32"})
      BY <1>5, <1>6
    <3> QED
      BY <3>1
  <2>6. Len(names) = Len(t) /\ \A i \in 1 .. Len(names) : names[i] = t[i]
    BY <1>6, <2>2, <2>4
  <2> QED
    BY <2>5, <2>6, SameSeq
<1> QED
  BY <1>1, <1>3, <1>5, <1>6, <1>7, <1>8 DEF BadRepr

----------------------------------------------------------------------------
(* The invariant *)

BadVariants == {i \in DOMAIN item.variants : BadVariant(item.variants[i])}

\* What SyntaxKindEnum::parse_from_ast has found before the variants.
BadHead == Len(ReprNames(item.reprs)) > 1 \/ BadSyntax(item.syntax)

\* Where errors have been found so far.
Found ==
    CASE status = "start"    -> {}
      [] status = "variants" -> BadVariants \cup (IF BadHead THEN {Whole} ELSE {})
      [] status = "check"    -> BadPlaces

Collecting == status \in {"start", "variants", "check"}

\* The context holds one list of errors until it is checked, with an error for
\* every bad place that was looked at.
ContextInv ==
    Collecting => /\ errors \in Seq(Seq(Error)) /\ Len(errors) = 1
                  /\ Places(errors[1]) = Found
                  /\ report = <<>>

\* After that the context is empty, and the errors are those of all bad places.
ReportInv ==
    ~ Collecting => /\ errors = <<>>
                    /\ report \in Seq(Error) /\ Places(report) = BadPlaces

ProgressInv ==
    /\ status \in {"start", "variants", "check", "return", "accepted", "rejected"}
    /\ status = "start" => item.variants = <<>>
    /\ status = "variants" => item.is_enum /\ repr = Set(ReprNames(item.reprs))
    /\ status = "accepted" => report = <<>>
    /\ status = "rejected" => report # <<>>

Inv == item \in Definition /\ ContextInv /\ ReportInv /\ ProgressInv

LEMMA DefinitionTypes ==
    ASSUME item \in Definition
    PROVE  /\ item.is_enum \in BOOLEAN /\ item.reprs \in Seq(Seq(STRING))
           /\ item.syntax \in Seq({"ok", "bad"}) /\ item.variants \in Seq(Variant)
BY DEF Definition

LEMMA BadPlacesOfEnum ==
    ASSUME item \in Definition, item.is_enum
    PROVE  BadPlaces = BadVariants \cup (IF BadRepr(item.reprs) \/ BadSyntax(item.syntax) THEN {Whole} ELSE {})
BY Zenon DEF BadPlaces, BadVariants, BadVariant, BadRepr, BadSyntax

\* A method of the context appends to its list.
LEMMA RecordStep ==
    ASSUME Collecting, ContextInv, NEW new \in Seq(Error), NEW next, Record(new, next)
    PROVE  /\ status' = next /\ report' = report
           /\ errors' \in Seq(Seq(Error)) /\ Len(errors') = 1
           /\ Places(errors'[1]) = Found \cup Places(new)
<1>0. errors \in Seq(Seq(Error)) /\ Len(errors) = 1 /\ Places(errors[1]) = Found
  BY DEF ContextInv
<1>1. PICK list \in Seq(Error) : list = errors[1] /\ Places(list) = Found
  <2>1. PICK T, es : T = Seq(Error) /\ es = errors /\ es \in Seq(T) /\ Len(es) = 1
    BY <1>0
  <2>2. es[1] \in T
    BY <2>1
  <2> QED
    BY <1>0, <2>1, <2>2
<1>2. DOMAIN errors = 1 .. 1 /\ errors # <<>>
  <2>1. PICK T, es : es = errors /\ es \in Seq(T) /\ Len(es) = 1
    BY <1>0
  <2>2. DOMAIN es = 1 .. 1 /\ es # <<>>
    <3>1. es \in Seq(T) /\ Len(es) = 1
      BY <2>1
    <3>2. DOMAIN es = 1 .. Len(es)
      BY <3>1, LenProperties
    <3>3. es # <<>>
      <4>1. Len(<<>>) = 0 /\ 0 # 1
        OBVIOUS
      <4> QED
        BY <3>1, <4>1, Zenon
    <3> QED
      BY <3>1, <3>2, <3>3, Zenon
  <2> QED
    BY <2>1, <2>2
<1>3. list \o new \in Seq(Error) /\ Places(list \o new) = Found \cup Places(new)
  BY <1>1, PlacesOfTwo
<1>4. errors' = [i \in 1 .. 1 |-> errors[i] \o new]
  BY <1>2 DEF Record
<1>5. errors'[1] = list \o new
  BY <1>1, <1>4
<1>6. errors' \in Seq(Seq(Error)) /\ Len(errors') = 1
  <2>1. \A i \in 1 .. 1 : errors[i] \o new \in Seq(Error)
    BY <1>1, <1>3
  <2> QED
    BY <1>4, <2>1
<1>7. status' = next /\ report' = report
  BY <1>2 DEF Record
<1> QED
  BY <1>3, <1>5, <1>6, <1>7

LEMMA InitInv == ASSUME DeriveAssumption, Init PROVE Inv
<1>1. item \in Definition /\ item.variants = <<>>
  <2>1. ReprAttrs \subseteq Seq(Seq(STRING)) /\ SyntaxAttrs \subseteq Seq({"ok", "bad"})
    BY DEF DeriveAssumption
  <2>2. <<>> \in Seq(Variant)
    OBVIOUS
  <2> QED
    BY <2>1, <2>2 DEF Init, Definition
<1>2. /\ <<<<>>>> \in Seq(Seq(Error)) /\ Len(<<<<>>>>) = 1 /\ <<<<>>>>[1] = <<>>
  BY PlacesOfNone
<1>3. status = "start" /\ errors = <<<<>>>> /\ report = <<>>
  BY DEF Init
<1>4. Found = {}
  BY <1>3 DEF Found
<1>5. ContextInv
  BY <1>2, <1>3, <1>4, PlacesOfNone DEF ContextInv
<1> QED
  BY <1>1, <1>3, <1>5 DEF Inv, ReportInv, ProgressInv, Collecting

LEMMA NotAnEnumInv == ASSUME Inv, NotAnEnum PROVE Inv'
<1>1. "not an enum" \in Whats /\ Whole \in Nat
  BY DEF Whats, Whole
<1>2. PICK new : new = <<At(Whole, "not an enum")>>
  OBVIOUS
<1>3. new \in Seq(Error) /\ Places(new) = {Whole}
  BY <1>1, <1>2, PlacesOfOne
<1>4. status = "start" /\ ~ item.is_enum /\ Record(new, "check") /\ UNCHANGED <<item, repr>>
  BY <1>2 DEF NotAnEnum
<1>5. Collecting /\ ContextInv /\ item \in Definition /\ report = <<>>
  BY <1>4 DEF Inv, ContextInv, Collecting
<1>6. /\ status' = "check" /\ report' = report
      /\ errors' \in Seq(Seq(Error)) /\ Len(errors') = 1 /\ Places(errors'[1]) = Found \cup Places(new)
  BY <1>3, <1>4, <1>5, RecordStep
<1>7. Found' = {Whole} /\ Found = {}
  BY <1>4, <1>6 DEF Found, BadPlaces
<1>8. ContextInv'
  BY <1>3, <1>5, <1>6, <1>7 DEF ContextInv
<1> QED
  BY <1>4, <1>5, <1>6, <1>8 DEF Inv, ReportInv, ProgressInv, Collecting

LEMMA ParseEnumInv == ASSUME Inv, ParseEnum PROVE Inv'
<1>1. PICK a, b, c : /\ a = Duplicates(ReprNames(item.reprs), Whole, "repr")
                     /\ b = SyntaxErrors(item.syntax)
                     /\ c = Duplicates(SyntaxData(item.syntax), Whole, "data")
  OBVIOUS
<1>2. /\ status = "start" /\ item.is_enum /\ Record(a \o b \o c, "variants")
      /\ repr' = Set(ReprNames(item.reprs)) /\ item' = item
  BY <1>1 DEF ParseEnum
<1>3. Collecting /\ ContextInv /\ item \in Definition /\ report = <<>> /\ item.variants = <<>>
  BY <1>2 DEF Inv, ContextInv, Collecting, ProgressInv
<1>4. a \in Seq(Error) /\ Places(a) = IF Len(ReprNames(item.reprs)) > 1 THEN {Whole} ELSE {}
  <2>1. ReprNames(item.reprs) \in Seq(STRING) /\ Whole \in Nat /\ "repr" \in Names
    BY <1>3, DefinitionTypes, ReprPlaces DEF Names, Whole
  <2> QED
    BY <1>1, <2>1, DuplicatesPlaces
<1>5. /\ b \in Seq(Error) /\ c \in Seq(Error)
      /\ Places(b) \cup Places(c) = IF BadSyntax(item.syntax) THEN {Whole} ELSE {}
  BY <1>1, <1>3, DefinitionTypes, SyntaxErrorsPlaces
<1>6. PICK new : new = a \o b \o c /\ new \in Seq(Error)
                 /\ Places(new) = IF BadHead THEN {Whole} ELSE {}
  <2>1. PICK p : p = a \o b
    OBVIOUS
  <2>2. p \in Seq(Error) /\ Places(p) = Places(a) \cup Places(b)
    BY <1>4, <1>5, <2>1, PlacesOfTwo
  <2>3. p \o c \in Seq(Error) /\ Places(p \o c) = Places(p) \cup Places(c)
    BY <1>5, <2>2, PlacesOfTwo
  <2>4. Places(p \o c) = IF BadHead THEN {Whole} ELSE {}
    BY <1>4, <1>5, <2>2, <2>3 DEF BadHead
  <2> QED
    BY <2>1, <2>3, <2>4
<1>7. /\ status' = "variants" /\ report' = report
      /\ errors' \in Seq(Seq(Error)) /\ Len(errors') = 1 /\ Places(errors'[1]) = Found \cup Places(new)
  BY <1>2, <1>3, <1>6, RecordStep
<1>8. Found = {} /\ Found' = IF BadHead THEN {Whole} ELSE {}
  <2>1. BadVariants = {} /\ BadVariants' = BadVariants /\ BadHead' = BadHead
    BY <1>2, <1>3 DEF BadVariants, BadHead
  <2>2. Found = {}
    BY <1>2 DEF Found
  <2>3. Found' = BadVariants' \cup (IF BadHead' THEN {Whole} ELSE {})
    BY <1>7 DEF Found
  <2> QED
    BY <2>1, <2>2, <2>3
<1>9. ContextInv'
  BY <1>3, <1>6, <1>7, <1>8 DEF ContextInv
<1> QED
  BY <1>2, <1>3, <1>7, <1>9 DEF Inv, ReportInv, ProgressInv, Collecting

LEMMA ParseVariantInv == ASSUME Inv, NEW v \in Variant, ParseVariant(v) PROVE Inv'
<1>1. PICK n, new : n = Len(item.variants) /\ new = VariantErrors(v, n + 1)
  OBVIOUS
<1>2. /\ status = "variants" /\ Record(new, "variants") /\ repr' = repr
      /\ item' = [item EXCEPT !.variants = Append(@, v)]
  BY <1>1 DEF ParseVariant
<1>3. /\ Collecting /\ ContextInv /\ item \in Definition /\ report = <<>>
      /\ item.is_enum /\ repr = Set(ReprNames(item.reprs))
  BY <1>2 DEF Inv, ContextInv, Collecting, ProgressInv
<1>4. item.variants \in Seq(Variant) /\ n \in Nat
  <2>1. item.variants \in Seq(Variant)
    BY <1>3, DefinitionTypes
  <2> QED
    BY <1>1, <2>1
<1>5. /\ item' \in Definition /\ item'.is_enum = item.is_enum /\ item'.reprs = item.reprs
      /\ item'.syntax = item.syntax /\ item'.variants = Append(item.variants, v)
  <2>1. Append(item.variants, v) \in Seq(Variant)
    BY <1>4
  <2> QED
    BY <1>2, <1>3, <2>1 DEF Definition
<1>6. new \in Seq(Error) /\ Places(new) = IF BadVariant(v) THEN {n + 1} ELSE {}
  <2>1. n + 1 \in Nat
    BY <1>4
  <2> QED
    BY <1>1, <2>1, VariantErrorsPlaces
<1>7. /\ status' = "variants" /\ report' = report
      /\ errors' \in Seq(Seq(Error)) /\ Len(errors') = 1 /\ Places(errors'[1]) = Found \cup Places(new)
  BY <1>2, <1>3, <1>6, RecordStep
<1>8. Found' = Found \cup Places(new)
  <2>1. PICK old, all : old = item.variants /\ all = item'.variants
    OBVIOUS
  <2>2. /\ DOMAIN old = 1 .. n /\ DOMAIN all = 1 .. n + 1 /\ all[n + 1] = v
        /\ \A i \in 1 .. n : all[i] = old[i]
    BY <1>1, <1>4, <1>5, <2>1
  <2>3. {i \in 1 .. n + 1 : BadVariant(all[i])}
            = {i \in 1 .. n : BadVariant(old[i])} \cup (IF BadVariant(v) THEN {n + 1} ELSE {})
    <3>1. 1 .. n + 1 = (1 .. n) \cup {n + 1}
      BY <1>4
    <3> QED
      BY <2>2, <3>1
  <2>4. BadVariants = {i \in 1 .. n : BadVariant(old[i])} /\ BadVariants' = {i \in 1 .. n + 1 : BadVariant(all[i])}
    BY <2>1, <2>2 DEF BadVariants, BadVariant
  <2>5. BadHead' = BadHead
    BY <1>5 DEF BadHead
  <2>6. Found = BadVariants \cup (IF BadHead THEN {Whole} ELSE {})
    BY <1>2 DEF Found
  <2>7. Found' = BadVariants' \cup (IF BadHead' THEN {Whole} ELSE {})
    BY <1>7 DEF Found
  <2> QED
    BY <1>6, <2>3, <2>4, <2>5, <2>6, <2>7
<1>9. ContextInv'
  BY <1>3, <1>7, <1>8 DEF ContextInv
<1> QED
  BY <1>2, <1>3, <1>5, <1>7, <1>9 DEF Inv, ReportInv, ProgressInv, Collecting

LEMMA CheckReprInv == ASSUME Inv, CheckRepr PROVE Inv'
<1>1. PICK new : new = IF repr = [form |-> "set", value |-> "u32"] THEN <<>> ELSE <<At(Whole, "repr")>>
  OBVIOUS
<1>2. new \in Seq(Error) /\ Places(new) = IF repr = [form |-> "set", value |-> "u32"] THEN {} ELSE {Whole}
  <2>1. "repr" \in Whats /\ Whole \in Nat
    BY DEF Whats, Whole
  <2> QED
    BY <1>1, <2>1, PlacesOfNone, PlacesOfOne
<1>3. status = "variants" /\ Record(new, "check") /\ item' = item
  BY <1>1 DEF CheckRepr
<1>4. /\ Collecting /\ ContextInv /\ item \in Definition /\ report = <<>>
      /\ item.is_enum /\ repr = Set(ReprNames(item.reprs))
  BY <1>3 DEF Inv, ContextInv, Collecting, ProgressInv
<1>5. /\ status' = "check" /\ report' = report
      /\ errors' \in Seq(Seq(Error)) /\ Len(errors') = 1 /\ Places(errors'[1]) = Found \cup Places(new)
  BY <1>2, <1>3, <1>4, RecordStep
<1>6. Found' = Found \cup Places(new)
  <2>1. BadRepr(item.reprs) <=> Len(ReprNames(item.reprs)) > 1 \/ repr # [form |-> "set", value |-> "u32"]
    BY <1>4, DefinitionTypes, ReprPlaces
  <2>2. Found = BadVariants \cup (IF BadHead THEN {Whole} ELSE {})
    BY <1>3 DEF Found
  <2>3. BadPlaces = BadVariants \cup (IF BadRepr(item.reprs) \/ BadSyntax(item.syntax) THEN {Whole} ELSE {})
    BY <1>4, BadPlacesOfEnum
  <2>4. Found' = BadPlaces
    BY <1>3, <1>5 DEF Found, BadPlaces
  <2> QED
    BY <1>2, <2>1, <2>2, <2>3, <2>4 DEF BadHead
<1>7. ContextInv'
  BY <1>4, <1>5, <1>6 DEF ContextInv
<1> QED
  BY <1>3, <1>4, <1>5, <1>7 DEF Inv, ReportInv, ProgressInv, Collecting

LEMMA CheckInv == ASSUME Inv, Check PROVE Inv'
<1>1. status = "check" /\ report' = errors[1] /\ errors' = <<>> /\ status' = "return" /\ item' = item
  BY DEF Check
<1>2. errors \in Seq(Seq(Error)) /\ Len(errors) = 1 /\ Places(errors[1]) = BadPlaces
  BY <1>1 DEF Inv, ContextInv, Collecting, Found
<1>3. errors[1] \in Seq(Error) /\ BadPlaces' = BadPlaces
  BY <1>1, <1>2 DEF BadPlaces
<1> QED
  BY <1>1, <1>2, <1>3 DEF Inv, ContextInv, ReportInv, ProgressInv, Collecting

LEMMA ReturnInv == ASSUME Inv, Return PROVE Inv'
<1>1. /\ status = "return" /\ UNCHANGED <<item, repr, errors, report>>
      /\ status' = IF errors # <<>> THEN "panicked" ELSE IF report = <<>> THEN "accepted" ELSE "rejected"
  BY DEF Return
<1>2. errors = <<>> /\ report \in Seq(Error) /\ Places(report) = BadPlaces /\ BadPlaces' = BadPlaces
  BY <1>1 DEF Inv, ReportInv, Collecting, BadPlaces
<1> QED
  BY <1>1, <1>2 DEF Inv, ContextInv, ReportInv, ProgressInv, Collecting

LEMMA NextInv == ASSUME DeriveAssumption, Inv, [Next]_vars PROVE Inv'
<1>1. Variants \subseteq Variant
  <2>1. StaticAttrs \subseteq Seq(Attribute) /\ Discriminants \subseteq Int
    BY DEF DeriveAssumption, Attribute, Forms
  <2> QED
    BY <2>1 DEF Variants, Variant
<1>2. CASE UNCHANGED vars
  <2>1. BadPlaces' = BadPlaces /\ Found' = Found
    BY <1>2 DEF vars, BadPlaces, Found, BadVariants, BadVariant, BadHead
  <2> QED
    BY <1>2, <2>1 DEF vars, Inv, ContextInv, ReportInv, ProgressInv, Collecting
<1> QED
  BY <1>1, <1>2, NotAnEnumInv, ParseEnumInv, ParseVariantInv, CheckReprInv, CheckInv, ReturnInv DEF Next

----------------------------------------------------------------------------
(* The properties *)

\* Without explicit discriminants the variants are numbered from zero.
LEMMA NumberedFromZero ==
    ASSUME item.variants \in Seq(Variant),
           \A i \in DOMAIN item.variants : item.variants[i].discriminant = NoDiscriminant
    PROVE  Discriminant = [i \in 1 .. Len(item.variants) |-> i - 1]
<1> DEFINE Body(d) ==
        [i \in 1 .. Len(item.variants) |->
            LET v == item.variants[i] IN
            IF v.discriminant # NoDiscriminant THEN v.discriminant
            ELSE IF i = 1 THEN 0 ELSE d[i - 1] + 1]
<1>1. PICK n \in Nat : n = Len(item.variants)
  OBVIOUS
<1>2. \A d : Body(d) = [i \in 1 .. n |-> IF i = 1 THEN 0 ELSE d[i - 1] + 1]
  BY <1>1
<1>3. PICK e : e = [i \in 1 .. n |-> i - 1]
  OBVIOUS
<1>4. e = [i \in 1 .. n |-> IF i = 1 THEN 0 ELSE e[i - 1] + 1]
  BY <1>3
<1>5. PICK D : D = Discriminant
  OBVIOUS
<1>6. D = CHOOSE d : d = Body(d)
  BY <1>5 DEF Discriminant
<1>7. D = [i \in 1 .. n |-> IF i = 1 THEN 0 ELSE D[i - 1] + 1]
  <2> HIDE DEF Body
  <2>1. e = Body(e)
    BY <1>2, <1>4
  <2> QED
    BY <1>2, <1>6, <2>1
<1>8. PICK M : M = {i \in 0 .. n : i # 0 => D[i] = i - 1}
  OBVIOUS
<1>9. 0 \in M
  BY <1>1, <1>8
<1>10. ASSUME NEW i \in 1 .. n, i - 1 \in M PROVE i \in M
  <2>1. i # 1 => D[i - 1] = (i - 1) - 1
    BY <1>8, <1>10
  <2>2. D[i] = IF i = 1 THEN 0 ELSE D[i - 1] + 1
    BY <1>7
  <2>3. D[i] = i - 1
    BY <2>1, <2>2
  <2> QED
    BY <1>8, <2>3
<1>11. \A i \in 0 .. n : i \in M
  BY <1>1, <1>9, <1>10, UpTo
<1>12. \A i \in 1 .. n : D[i] = e[i]
  BY <1>3, <1>8, <1>11
<1> QED
  BY <1>1, <1>3, <1>5, <1>7, <1>12

LEMMA AcceptedSound == ASSUME Inv PROVE TransmuteSound
<1>1. SUFFICES ASSUME status = "accepted" PROVE
          /\ item.is_enum /\ "u32" \in ToSet(FlattenSeq(item.reprs))
          /\ \A v \in ToSet(item.variants) : v.unit
          /\ \A raw \in (Discriminants \cap Nat) \cup (0 .. MaxVariants + 1) :
                 FromRawAccepts(raw) <=> \E i \in DOMAIN item.variants : Discriminant[i] = raw
          /\ IsInjective(Discriminant)
  BY DEF TransmuteSound
<1>2. BadPlaces = {} /\ item \in Definition
  <2>1. report = <<>> /\ Places(report) = BadPlaces
    BY <1>1 DEF Inv, ReportInv, ProgressInv, Collecting
  <2> QED
    BY <2>1, PlacesOfNone DEF Inv
<1>3. item.is_enum
  BY <1>2 DEF BadPlaces
<1>4. BadVariants = {} /\ ~ BadRepr(item.reprs)
  BY <1>2, <1>3, BadPlacesOfEnum
<1>5. "u32" \in ToSet(FlattenSeq(item.reprs))
  <2>1. ReprNames(item.reprs) = <<"u32">> /\ ToSet(ReprNames(item.reprs)) \subseteq ToSet(FlattenSeq(item.reprs))
    BY <1>2, <1>4, DefinitionTypes, ReprPlaces DEF BadRepr
  <2>2. "u32" \in ToSet(<<"u32">>)
    <3>1. 1 \in DOMAIN <<"u32">> /\ <<"u32">>[1] = "u32"
      OBVIOUS
    <3> QED
      BY <3>1, Zenon DEF ToSet
  <2> QED
    BY <2>1, <2>2
<1>6. \A i \in DOMAIN item.variants :
          item.variants[i].unit /\ item.variants[i].discriminant = NoDiscriminant
  BY <1>4 DEF BadVariants, BadVariant
<1>7. \A v \in ToSet(item.variants) : v.unit
  BY <1>6, Zenon DEF ToSet
<1>8. PICK n \in Nat : n = Len(item.variants) /\ DOMAIN item.variants = 1 .. n
  BY <1>2, DefinitionTypes
<1>9. Discriminant = [i \in 1 .. n |-> i - 1]
  BY <1>2, <1>6, <1>8, DefinitionTypes, NumberedFromZero
<1>10. ASSUME NEW raw \in Nat
       PROVE  FromRawAccepts(raw) <=> \E i \in DOMAIN item.variants : Discriminant[i] = raw
  <2>1. ASSUME raw < n PROVE \E i \in 1 .. n : Discriminant[i] = raw
    <3>1. raw + 1 \in 1 .. n /\ Discriminant[raw + 1] = raw
      BY <1>9, <2>1
    <3> QED
      BY <3>1
  <2>2. ASSUME NEW i \in 1 .. n, Discriminant[i] = raw PROVE raw < n
    BY <1>9, <2>2
  <2> QED
    BY <1>8, <2>1, <2>2 DEF FromRawAccepts
<1>11. IsInjective(Discriminant)
  BY <1>9 DEF IsInjective
<1> QED
  BY <1>3, <1>5, <1>7, <1>10, <1>11

LEMMA ReportSound == ASSUME Inv PROVE DefectsReported
<1>1. status # "panicked"
  BY DEF Inv, ProgressInv
<1>2. ASSUME status \in {"accepted", "rejected"}
      PROVE  report \in Seq(Error) /\ Places(report) = BadPlaces
  BY <1>2 DEF Inv, ReportInv, Collecting
<1>3. ASSUME status = "accepted" PROVE BadPlaces = {}
  BY <1>2, <1>3, PlacesOfNone DEF Inv, ProgressInv
<1>4. ASSUME status = "rejected" PROVE {report[i].place : i \in DOMAIN report} = BadPlaces
  <2>1. Places(report) = BadPlaces
    BY <1>2, <1>4
  <2>2. {report[i].place : i \in DOMAIN report} = Places(report)
    BY DEF Places, ToSet
  <2> QED
    BY <2>1, <2>2
<1> QED
  BY <1>1, <1>3, <1>4 DEF DefectsReported

\* In an accepted definition the numbers below the number of variants are the
\* discriminants, so that the transmute in the generated from_raw (cstree-derive,
\* lib.rs) always gives a value of the enum, for any definition.
THEOREM TransmuteCorrect == Spec => []TransmuteSound
<1>1. Init => Inv
  BY DeriveAssumption, InitInv
<1>2. Inv /\ [Next]_vars => Inv'
  BY DeriveAssumption, NextInv
<1>3. Inv => TransmuteSound
  BY AcceptedSound
<1> QED
  BY <1>1, <1>2, <1>3, PTL DEF Spec

\* Every defect is reported at once and at its place, nothing else is, and the
\* error context (errors.rs) is checked exactly once, for any definition.
THEOREM ReportCorrect == Spec => []DefectsReported
<1>1. Init => Inv
  BY DeriveAssumption, InitInv
<1>2. Inv /\ [Next]_vars => Inv'
  BY DeriveAssumption, NextInv
<1>3. Inv => DefectsReported
  BY ReportSound
<1> QED
  BY <1>1, <1>2, <1>3, PTL DEF Spec
=============================================================================
