---------------------------- MODULE SequenceFacts ----------------------------
(***************************************************************************)
(* What the proofs of several components need: induction over the numbers, *)
(* remainders, functions that are defined by recursion, parts of           *)
(* sequences, elements picked from a sequence, sequences joined to one.    *)
(***************************************************************************)
EXTENDS Picking, TLAPS, FiniteSetTheorems, SequenceTheorems, WellFoundedInduction

----------------------------------------------------------------------------
(* Induction over the numbers, from the well-foundedness of the finite     *)
(* sets of numbers.                                                        *)

LEMMA Least ==
    ASSUME NEW T \in SUBSET Nat, T # {}
    PROVE  \E x \in T : \A y \in T : x <= y
<1>1. PICK F : F = [x \in T |-> 0 .. x - 1]
  OBVIOUS
<1> DEFINE Below == {F[x] : x \in T}
<1>2. PICK x \in T : \A y \in T : <<F[y], F[x]>> \notin StrictSubsetOrdering(Nat)
  <2>1. IsWellFoundedOn(StrictSubsetOrdering(Nat), FiniteSubsetsOf(Nat))
    BY FS_StrictSubsetOrderingWellFounded
  <2>2. Below \subseteq FiniteSubsetsOf(Nat)
    <3>1. \A x \in T : IsFiniteSet(0 .. x - 1)
      BY FS_Interval
    <3> QED
      BY <1>1, <3>1 DEF FiniteSubsetsOf
  <2>3. Below # {}
    OBVIOUS
  <2> HIDE DEF Below
  <2>4. PICK B \in Below : \A C \in Below : ~ (<<C, B>> \in StrictSubsetOrdering(Nat))
    BY <2>1, <2>2, <2>3, WFMin
  <2> QED
    BY <2>4 DEF Below
<1>3. ASSUME NEW y \in T, ~ (x <= y) PROVE FALSE
  <2>1. y < x /\ x \in Nat /\ y \in Nat
    BY <1>3
  <2>2. /\ 0 .. y - 1 \in SUBSET Nat /\ 0 .. x - 1 \in SUBSET Nat
        /\ 0 .. y - 1 \subseteq 0 .. x - 1
        /\ y \in 0 .. x - 1 /\ y \notin 0 .. y - 1
    BY <2>1
  <2>3. <<0 .. y - 1, 0 .. x - 1>> \in StrictSubsetOrdering(Nat)
    BY <2>2, Zenon DEF StrictSubsetOrdering
  <2> QED
    BY <1>1, <1>2, <2>3
<1> QED
  BY <1>3

LEMMA Induct ==
    ASSUME NEW S \in SUBSET Nat, 0 \in S, \A n \in S : n + 1 \in S
    PROVE  S = Nat
<1>1. SUFFICES ASSUME Nat \ S # {} PROVE FALSE
  OBVIOUS
<1>2. PICK x \in Nat \ S : \A y \in Nat \ S : x <= y
  BY <1>1, Least
<1>3. x # 0 /\ x - 1 \in S
  BY <1>2
<1> QED
  BY <1>3

\* The remainder is the one number below m that is left.
LEMMA ModUnique ==
    ASSUME NEW a \in Nat, NEW m \in Nat \ {0}, NEW q \in Nat, NEW r \in 0 .. m - 1,
           a = m * q + r
    PROVE  a % m = r
OBVIOUS

----------------------------------------------------------------------------
(* Recursion over the numbers *)

\* There is a function that begins with `base' and takes its n-th value from the
\* one before, by the n-th function of `step'.
Recurs(f, n, S, base, step) ==
    /\ f \in [0 .. n -> S] /\ f[0] = base
    /\ \A i \in 1 .. n : f[i] = step[i][f[i - 1]]

LEMMA Recursion ==
    ASSUME NEW n \in Nat, NEW S, NEW base \in S, NEW step \in [1 .. n -> [S -> S]]
    PROVE  \E f : Recurs(f, n, S, base, step)
<1> DEFINE Goes(f, m) == /\ f \in [0 .. m -> S] /\ f[0] = base
                         /\ \A i \in 1 .. m : f[i] = step[i][f[i - 1]]
           M == {m \in Nat : m <= n => \E f : Goes(f, m)}
<1>1. 0 \in M
  <2>1. Goes([i \in 0 .. 0 |-> base], 0)
    OBVIOUS
  <2> QED
    BY <2>1, Zenon
<1> HIDE DEF Goes
<1>2. ASSUME NEW m \in M PROVE m + 1 \in M
  <2>1. SUFFICES ASSUME m + 1 <= n PROVE \E f : Goes(f, m + 1)
    OBVIOUS
  <2>2. PICK f : Goes(f, m)
    BY <2>1
  <2>3. f[m] \in S /\ step[m + 1] \in [S -> S]
    BY <2>1, <2>2 DEF Goes
  <2>4. PICK x \in S : x = step[m + 1][f[m]]
    BY <2>3
  <2>5. PICK g : g = [i \in 0 .. m + 1 |-> IF i = m + 1 THEN x ELSE f[i]]
    OBVIOUS
  <2>6. g[m + 1] = x /\ \A i \in 0 .. m : g[i] = f[i]
    BY <2>5
  <2>7. g \in [0 .. m + 1 -> S] /\ g[0] = base
    BY <2>2, <2>5 DEF Goes
  <2>8. \A i \in 1 .. m + 1 : g[i] = step[i][g[i - 1]]
    <3>1. ASSUME NEW i \in 1 .. m PROVE g[i] = step[i][g[i - 1]]
      BY <2>2, <2>6 DEF Goes
    <3>2. g[m + 1] = step[m + 1][g[(m + 1) - 1]]
      BY <2>4, <2>6
    <3> QED
      BY <3>1, <3>2
  <2>9. Goes(g, m + 1)
    BY <2>7, <2>8 DEF Goes
  <2> QED
    BY <2>9
<1>3. n \in M
  <2> HIDE DEF M
  <2>1. M \in SUBSET Nat
    BY DEF M
  <2> QED
    BY <1>1, <1>2, <2>1, Induct
<1> QED
  BY <1>3 DEF Goes, Recurs

----------------------------------------------------------------------------
(* Parts of sequences *)

LEMMA Part ==
    ASSUME NEW T, NEW ts \in Seq(T), NEW a \in Nat, NEW b \in Nat, a <= b, b <= Len(ts)
    PROVE  /\ SubSeq(ts, a + 1, b) \in Seq(T)
           /\ Len(SubSeq(ts, a + 1, b)) = b - a
           /\ \A i \in 1 .. b - a : SubSeq(ts, a + 1, b)[i] = ts[a + i]
OBVIOUS

LEMMA SameSeq ==
    ASSUME NEW T, NEW s \in Seq(T), NEW t \in Seq(T), Len(s) = Len(t),
           \A i \in 1 .. Len(s) : s[i] = t[i]
    PROVE  s = t
OBVIOUS

LEMMA PartsJoin ==
    ASSUME NEW T, NEW ts \in Seq(T), NEW a \in Nat, NEW b \in Nat, NEW c \in Nat,
           a <= b, b <= c, c <= Len(ts)
    PROVE  SubSeq(ts, a + 1, b) \o SubSeq(ts, b + 1, c) = SubSeq(ts, a + 1, c)
<1>0. Len(ts) \in Nat
  OBVIOUS
<1>1. PICK s, t, u : s = SubSeq(ts, a + 1, b) /\ t = SubSeq(ts, b + 1, c) /\ u = SubSeq(ts, a + 1, c)
  OBVIOUS
<1>2. /\ s \in Seq(T) /\ Len(s) = b - a /\ \A i \in 1 .. b - a : s[i] = ts[a + i]
      /\ t \in Seq(T) /\ Len(t) = c - b /\ \A i \in 1 .. c - b : t[i] = ts[b + i]
      /\ u \in Seq(T) /\ Len(u) = c - a /\ \A i \in 1 .. c - a : u[i] = ts[a + i]
  <2>1. b <= Len(ts) /\ a <= c
    BY <1>0
  <2>2. /\ s \in Seq(T) /\ Len(s) = b - a /\ \A i \in 1 .. b - a : s[i] = ts[a + i]
    BY <1>1, <2>1, Part
  <2>3. /\ t \in Seq(T) /\ Len(t) = c - b /\ \A i \in 1 .. c - b : t[i] = ts[b + i]
    BY <1>1, <2>1, Part
  <2>4. /\ u \in Seq(T) /\ Len(u) = c - a /\ \A i \in 1 .. c - a : u[i] = ts[a + i]
    BY <1>1, <2>1, Part
  <2> QED
    BY <2>2, <2>3, <2>4
<1>3. /\ s \o t \in Seq(T) /\ Len(s \o t) = c - a
      /\ \A i \in 1 .. c - a : (s \o t)[i] = IF i <= b - a THEN s[i] ELSE t[i - (b - a)]
  <2>1. /\ s \o t \in Seq(T) /\ Len(s \o t) = Len(s) + Len(t)
        /\ \A i \in 1 .. Len(s) + Len(t) :
               (s \o t)[i] = IF i <= Len(s) THEN s[i] ELSE t[i - Len(s)]
    BY <1>2, ConcatProperties
  <2>2. Len(s) + Len(t) = c - a
    BY <1>2
  <2> QED
    BY <1>2, <2>1, <2>2
<1>4. \A i \in 1 .. c - a : (s \o t)[i] = u[i]
  <2>1. ASSUME NEW i \in 1 .. c - a, ~ (i <= b - a) PROVE t[i - (b - a)] = u[i]
    <3>1. PICK j \in 1 .. c - b : j = i - (b - a) /\ b + j = a + i
      <4>1. i - (b - a) \in 1 .. c - b /\ b + (i - (b - a)) = a + i
        BY <2>1
      <4> QED
        BY <4>1
    <3>2. t[j] = ts[b + j] /\ u[i] = ts[a + i]
      BY <1>2
    <3> QED
      BY ONLY <3>1, <3>2
  <2>2. ASSUME NEW i \in 1 .. c - a, i <= b - a PROVE s[i] = u[i]
    BY <1>2, <2>2
  <2> QED
    BY <1>3, <2>1, <2>2
<1> QED
  BY <1>1, <1>2, <1>3, <1>4, SameSeq

LEMMA UpTo ==
    ASSUME NEW n \in Nat, NEW M, 0 \in M, \A i \in 1 .. n : i - 1 \in M => i \in M
    PROVE  \A i \in 0 .. n : i \in M
<1> DEFINE N == {m \in Nat : m <= n => m \in M}
<1>1. 0 \in N
  OBVIOUS
<1>2. ASSUME NEW m \in N PROVE m + 1 \in N
  <2>1. ASSUME m + 1 <= n PROVE m + 1 \in M
    <3>1. m + 1 \in 1 .. n /\ (m + 1) - 1 = m /\ m \in M
      BY <2>1
    <3> QED
      BY <3>1
  <2> QED
    BY <2>1
<1>3. N = Nat
  <2> HIDE DEF N
  <2>1. N \in SUBSET Nat
    BY DEF N
  <2> QED
    BY <1>1, <1>2, <2>1, Induct
<1> QED
  BY <1>3

----------------------------------------------------------------------------
(* Elements picked from a sequence *)

\* `f' tells what was picked after each place of `s'.
Picks(f, s, places, T) ==
    /\ f \in [0 .. Len(s) -> Seq(T)] /\ f[0] = <<>>
    /\ \A i \in 1 .. Len(s) :
           f[i] = IF i \in places THEN Append(f[i - 1], s[i]) ELSE f[i - 1]

PickedBy(s, places) ==
    CHOOSE picked : picked =
        [i \in 0 .. Len(s) |->
            IF i = 0 THEN <<>>
            ELSE IF i \in places THEN Append(picked[i - 1], s[i])
            ELSE picked[i - 1]]

LEMMA PickedSteps ==
    ASSUME NEW T, NEW s \in Seq(T), NEW places
    PROVE  Picks(PickedBy(s, places), s, places, T) /\ Picked(s, places) = PickedBy(s, places)[Len(s)]
<1>1. PICK n \in Nat : n = Len(s)
  OBVIOUS
<1>2. PICK step : step = [i \in 1 .. n |-> [p \in Seq(T) |-> IF i \in places THEN Append(p, s[i]) ELSE p]]
  OBVIOUS
<1>3. step \in [1 .. n -> [Seq(T) -> Seq(T)]]
  BY <1>1, <1>2
<1>4. PICK f \in [0 .. n -> Seq(T)] : f[0] = <<>> /\ \A i \in 1 .. n : f[i] = step[i][f[i - 1]]
  <2>1. PICK base, S : base = <<>> /\ S = Seq(T)
    OBVIOUS
  <2>2. base \in S /\ step \in [1 .. n -> [S -> S]]
    BY <1>3, <2>1
  <2>3. \E f : Recurs(f, n, S, base, step)
    BY <1>1, <2>2, Recursion
  <2> QED
    BY <2>1, <2>3 DEF Recurs
<1>5. ASSUME NEW i \in 1 .. n
      PROVE  f[i] = IF i \in places THEN Append(f[i - 1], s[i]) ELSE f[i - 1]
  <2>1. f[i] = step[i][f[i - 1]] /\ f[i - 1] \in Seq(T)
    BY <1>4
  <2> QED
    BY <1>2, <2>1
<1>6. f = [i \in 0 .. n |-> IF i = 0 THEN <<>>
                            ELSE IF i \in places THEN Append(f[i - 1], s[i]) ELSE f[i - 1]]
  <2>1. f = [i \in 0 .. n |-> f[i]]
    BY <1>4
  <2>2. \A i \in 0 .. n : f[i] = IF i = 0 THEN <<>>
                                 ELSE IF i \in places THEN Append(f[i - 1], s[i]) ELSE f[i - 1]
    <3>1. ASSUME NEW i \in 0 .. n, i # 0 PROVE i \in 1 .. n
      BY <3>1
    <3> QED
      BY <1>4, <1>5, <3>1, Zenon
  <2> QED
    BY <2>1, <2>2, Zenon
<1>7. PICK P : P = PickedBy(s, places)
  OBVIOUS
<1>8. P = [i \in 0 .. n |-> IF i = 0 THEN <<>>
                            ELSE IF i \in places THEN Append(P[i - 1], s[i]) ELSE P[i - 1]]
  BY <1>1, <1>6, <1>7, Zenon DEF PickedBy
<1>9. P[0] = <<>> /\ \A i \in 1 .. n : P[i] = IF i \in places THEN Append(P[i - 1], s[i]) ELSE P[i - 1]
  <2>1. 0 \in 0 .. n /\ \A i \in 1 .. n : i \in 0 .. n /\ i # 0
    OBVIOUS
  <2> QED
    BY <1>8, <2>1, Zenon
<1>10. \A i \in 0 .. n : P[i] = f[i]
  <2>1. PICK M : M = {i \in 0 .. n : P[i] = f[i]}
    OBVIOUS
  <2>2. 0 \in M
    BY <1>4, <1>9, <2>1
  <2>3. ASSUME NEW i \in 1 .. n, i - 1 \in M PROVE i \in M
    <3>1. P[i] = f[i]
      BY <1>5, <1>9, <2>1, <2>3, Zenon
    <3> QED
      BY <2>1, <3>1
  <2> QED
    BY <2>1, <2>2, <2>3, UpTo
<1>11. P \in [0 .. n -> Seq(T)]
  <2>1. P = [i \in 0 .. n |-> P[i]]
    BY <1>8
  <2> QED
    BY <1>4, <1>10, <2>1
<1>12. Picks(P, s, places, T)
  BY <1>1, <1>9, <1>11 DEF Picks
<1> QED
  BY <1>7, <1>12 DEF Picked, PickedBy

\* What is picked depends only on the places in the sequence, and the elements
\* at its beginning are picked first.
LEMMA PickedBeginning ==
    ASSUME NEW T, NEW s \in Seq(T), NEW t \in Seq(T), NEW p, NEW q, Len(s) <= Len(t),
           \A i \in 1 .. Len(s) : s[i] = t[i] /\ (i \in p <=> i \in q)
    PROVE  Picked(s, p) = PickedBy(t, q)[Len(s)]
<1>1. PICK f, g : f = PickedBy(s, p) /\ g = PickedBy(t, q)
  OBVIOUS
<1>2. Picks(f, s, p, T) /\ Picks(g, t, q, T) /\ Picked(s, p) = f[Len(s)]
  BY <1>1, PickedSteps
<1>3. PICK n \in Nat : n = Len(s)
  OBVIOUS
<1>4. f[0] = g[0]
  BY <1>2 DEF Picks
<1>5. ASSUME NEW i \in 1 .. n, f[i - 1] = g[i - 1] PROVE f[i] = g[i]
  <2>1. i \in 1 .. Len(s) /\ i \in 1 .. Len(t)
    BY <1>3
  <2> QED
    BY <1>2, <1>5, <2>1, Zenon DEF Picks
<1>6. f[n] = g[n]
  <2>1. PICK M : M = {i \in 0 .. n : f[i] = g[i]}
    OBVIOUS
  <2>2. 0 \in M
    BY <1>3, <1>4, <2>1
  <2>3. ASSUME NEW i \in 1 .. n, i - 1 \in M PROVE i \in M
    BY <1>3, <1>5, <2>1, <2>3
  <2>4. \A i \in 0 .. n : i \in M
    BY <1>3, <2>2, <2>3, UpTo
  <2>5. n \in 0 .. n
    BY <1>3
  <2> QED
    BY <2>1, <2>4, <2>5
<1> QED
  BY <1>1, <1>2, <1>3, <1>6

LEMMA PickedSame ==
    ASSUME NEW T, NEW s \in Seq(T), NEW p, NEW q, \A i \in 1 .. Len(s) : i \in p <=> i \in q
    PROVE  Picked(s, p) = Picked(s, q)
BY PickedBeginning, PickedSteps

LEMMA PickedAppend ==
    ASSUME NEW T, NEW s \in Seq(T), NEW x \in T, NEW p, NEW q,
           \A i \in 1 .. Len(s) : i \in p <=> i \in q
    PROVE  Picked(Append(s, x), q) =
               IF Len(s) + 1 \in q THEN Append(Picked(s, p), x) ELSE Picked(s, p)
<1>1. PICK t, n : t = Append(s, x) /\ t \in Seq(T) /\ n = Len(s) /\ n \in Nat
  <2>1. Append(s, x) \in Seq(T) /\ Len(s) \in Nat
    OBVIOUS
  <2> QED
    BY <2>1
<1>2. Len(t) = n + 1 /\ t[n + 1] = x /\ \A i \in 1 .. n : t[i] = s[i]
  BY <1>1, AppendProperties
<1>3. PICK g : g = PickedBy(t, q)
  OBVIOUS
<1>4. Picks(g, t, q, T) /\ Picked(t, q) = g[n + 1]
  BY <1>1, <1>2, <1>3, PickedSteps
<1>5. g[n] = Picked(s, p)
  <2>1. Len(s) <= Len(t) /\ \A i \in 1 .. Len(s) : s[i] = t[i] /\ (i \in p <=> i \in q)
    BY <1>1, <1>2
  <2>2. Picked(s, p) = PickedBy(t, q)[Len(s)]
    BY <1>1, <2>1, PickedBeginning
  <2> QED
    BY <1>1, <1>3, <2>2
<1>6. n + 1 \in 1 .. Len(t) /\ (n + 1) - 1 = n
  BY <1>1, <1>2
<1>7. g[n + 1] = IF n + 1 \in q THEN Append(g[n], x) ELSE g[n]
  <2>1. g[n + 1] = IF n + 1 \in q THEN Append(g[(n + 1) - 1], t[n + 1]) ELSE g[(n + 1) - 1]
    BY <1>4, <1>6, Zenon DEF Picks
  <2> QED
    BY <1>2, <1>6, <2>1, Zenon
<1> QED
  BY <1>1, <1>4, <1>5, <1>7, Zenon

LEMMA PickedNone == ASSUME NEW p PROVE Picked(<<>>, p) = <<>>
<1>1. PICK s : s = <<>> /\ s \in Seq(Nat)
  <2>1. <<>> \in Seq(Nat)
    OBVIOUS
  <2> QED
    BY <2>1, Zenon
<1>2. Picks(PickedBy(s, p), s, p, Nat) /\ Picked(s, p) = PickedBy(s, p)[Len(s)] /\ Len(s) = 0
  BY <1>1, PickedSteps
<1> QED
  BY <1>1, <1>2 DEF Picks

\* What is picked are the elements at those places, and there are as many.
LEMMA PickedElements ==
    ASSUME NEW T, NEW s \in Seq(T), NEW p
    PROVE  /\ Picked(s, p) \in Seq(T)
           /\ ToSet(Picked(s, p)) = {s[i] : i \in {j \in 1 .. Len(s) : j \in p}}
           /\ Len(Picked(s, p)) = Cardinality({i \in 1 .. Len(s) : i \in p})
<1> DEFINE Elements(t) == {t[k] : k \in 1 .. Len(t)}
           Up(m) == {i \in 1 .. m : i \in p}
<1>1. PICK f, n : f = PickedBy(s, p) /\ n = Len(s) /\ n \in Nat
  OBVIOUS
<1>2. Picks(f, s, p, T) /\ Picked(s, p) = f[n]
  BY <1>1, PickedSteps
<1>3. PICK M : M = {m \in 0 .. n : /\ f[m] \in Seq(T)
                                   /\ Elements(f[m]) = {s[i] : i \in Up(m)}
                                   /\ IsFiniteSet(Up(m)) /\ Len(f[m]) = Cardinality(Up(m))}
  OBVIOUS
<1>4. 0 \in M
  <2>1. f[0] = <<>> /\ <<>> \in Seq(T) /\ Up(0) = {} /\ Elements(<<>>) = {} /\ Len(<<>>) = 0
    BY <1>2 DEF Picks
  <2>2. IsFiniteSet({}) /\ Cardinality({}) = 0
    BY FS_EmptySet
  <2>3. {s[i] : i \in {}} = {}
    OBVIOUS
  <2> HIDE DEF Elements, Up
  <2>4. 0 \in 0 .. n
    BY <1>1
  <2> QED
    BY <1>3, <2>1, <2>2, <2>3, <2>4
<1>5. ASSUME NEW m \in 1 .. n, m - 1 \in M PROVE m \in M
  <2>1. /\ f[m - 1] \in Seq(T) /\ Elements(f[m - 1]) = {s[i] : i \in Up(m - 1)}
        /\ IsFiniteSet(Up(m - 1)) /\ Len(f[m - 1]) = Cardinality(Up(m - 1))
    BY <1>3, <1>5
  <2>2. f[m] = IF m \in p THEN Append(f[m - 1], s[m]) ELSE f[m - 1]
    BY <1>1, <1>2 DEF Picks
  <2>3. m \in 0 .. n /\ s[m] \in T /\ m \in Int
    BY <1>1
  <2>4. CASE m \notin p
    <3>1. Up(m) = Up(m - 1)
      BY <2>3, <2>4
    <3> HIDE DEF Elements, Up
    <3> QED
      BY <1>3, <2>1, <2>2, <2>3, <2>4, <3>1
  <2>5. CASE m \in p
    <3>1. Up(m) = Up(m - 1) \cup {m} /\ m \notin Up(m - 1)
      BY <2>3, <2>5
    <3>2. PICK t \in Seq(T) : t = f[m - 1]
      BY <2>1
    <3>3. f[m] = Append(t, s[m])
      BY <2>2, <2>5, <3>2
    <3>4. /\ f[m] \in Seq(T) /\ Len(f[m]) = Len(t) + 1 /\ f[m][Len(t) + 1] = s[m]
          /\ \A k \in 1 .. Len(t) : f[m][k] = t[k]
      BY <2>3, <3>2, <3>3, AppendProperties
    <3>5. Elements(f[m]) = Elements(t) \cup {s[m]}
      <4>1. PICK l \in Nat : l = Len(t)
        BY <3>2
      <4>2. 1 .. l + 1 = (1 .. l) \cup {l + 1}
        BY <4>1
      <4> QED
        BY <3>4, <4>1, <4>2
    <3>6. IsFiniteSet(Up(m)) /\ Cardinality(Up(m)) = Cardinality(Up(m - 1)) + 1
      <4>1. PICK U : U = Up(m - 1)
        OBVIOUS
      <4>2. IsFiniteSet(U \cup {m}) /\ Cardinality(U \cup {m}) = Cardinality(U) + 1
        BY <2>1, <3>1, <4>1, FS_AddElement
      <4> HIDE DEF Up
      <4> QED
        BY <3>1, <4>1, <4>2
    <3>7. {s[i] : i \in Up(m)} = {s[i] : i \in Up(m - 1)} \cup {s[m]}
      <4> HIDE DEF Up
      <4> QED
        BY <3>1
    <3> HIDE DEF Elements, Up
    <3> QED
      BY <1>3, <2>1, <2>3, <3>2, <3>4, <3>5, <3>6, <3>7
  <2> QED
    BY <2>4, <2>5
<1>6. n \in M
  <2>1. n \in 0 .. n /\ \A m \in 0 .. n : m \in M
    BY <1>1, <1>4, <1>5, UpTo
  <2> QED
    BY <2>1
<1>7. PICK t \in Seq(T) : t = f[n]
  BY <1>3, <1>6
<1>8. /\ Elements(t) = {s[i] : i \in Up(n)} /\ Len(t) = Cardinality(Up(n))
      /\ ToSet(t) = Elements(t)
  <2>1. DOMAIN t = 1 .. Len(t)
    BY <1>7
  <2> QED
    BY <1>3, <1>6, <1>7, <2>1 DEF ToSet
<1> QED
  BY <1>1, <1>2, <1>7, <1>8

LEMMA PickedIsShorter ==
    ASSUME NEW T, NEW s \in Seq(T), NEW p
    PROVE  Len(Picked(s, p)) <= Len(s)
<1>1. PICK n \in Nat : n = Len(s)
  OBVIOUS
<1>2. IsFiniteSet(1 .. n) /\ Cardinality(1 .. n) = n
  <2>1. /\ IsFiniteSet(1 .. n)
        /\ Cardinality(1 .. n) = IF 1 > n THEN 0 ELSE n - 1 + 1
    <3>1. 1 \in Int /\ n \in Int
      BY <1>1
    <3> QED
      BY <3>1, FS_Interval
  <2> QED
    BY <1>1, <2>1
<1>3. Cardinality({i \in 1 .. n : i \in p}) <= Cardinality(1 .. n)
  BY <1>2, FS_Subset
<1> QED
  BY <1>1, <1>2, <1>3, PickedElements

LEMMA PickedAll ==
    ASSUME NEW T, NEW s \in Seq(T), NEW p, \A i \in 1 .. Len(s) : i \in p
    PROVE  Picked(s, p) = s
<1>1. PICK f, n : f = PickedBy(s, p) /\ n = Len(s) /\ n \in Nat
  OBVIOUS
<1>2. Picks(f, s, p, T) /\ Picked(s, p) = f[n]
  BY <1>1, PickedSteps
<1>3. PICK M : M = {m \in 0 .. n : Len(f[m]) = m /\ \A i \in 1 .. m : f[m][i] = s[i]}
  OBVIOUS
<1>4. 0 \in M
  BY <1>1, <1>2, <1>3 DEF Picks
<1>5. ASSUME NEW m \in 1 .. n, m - 1 \in M PROVE m \in M
  <2>1. m \in p /\ s[m] \in T /\ m - 1 \in 0 .. Len(s) /\ m \in 0 .. n /\ m \in 1 .. Len(s)
    BY <1>1
  <2>2. f \in [0 .. Len(s) -> Seq(T)] /\ f[m] = Append(f[m - 1], s[m])
    BY <1>2, <2>1 DEF Picks
  <2>3. PICK t \in Seq(T) : t = f[m - 1]
    BY <2>1, <2>2
  <2>4. /\ Len(f[m]) = Len(t) + 1 /\ f[m][Len(t) + 1] = s[m]
        /\ \A k \in 1 .. Len(t) : f[m][k] = t[k]
    BY <2>1, <2>2, <2>3, AppendProperties
  <2>5. Len(t) = m - 1 /\ \A i \in 1 .. m - 1 : t[i] = s[i]
    BY <1>3, <1>5, <2>3
  <2>6. Len(f[m]) = m /\ \A i \in 1 .. m : f[m][i] = s[i]
    BY <2>4, <2>5
  <2> QED
    BY <1>3, <2>1, <2>6
<1>6. n \in M
  <2>1. \A m \in 0 .. n : m \in M
    BY <1>1, <1>4, <1>5, UpTo
  <2> QED
    BY <1>1, <2>1
<1>7. PICK t \in Seq(T) : t = f[n]
  <2>1. f \in [0 .. Len(s) -> Seq(T)] /\ n \in 0 .. Len(s)
    BY <1>1, <1>2 DEF Picks
  <2> QED
    BY <2>1
<1>8. Len(t) = Len(s) /\ \A i \in 1 .. Len(t) : t[i] = s[i]
  BY <1>1, <1>3, <1>6, <1>7
<1> QED
  BY <1>2, <1>7, <1>8, SameSeq

----------------------------------------------------------------------------
(* Sequences joined to one *)

\* `f' tells what each number of the sequences in `ss' joins to.
Flattens(f, ss, T) ==
    /\ f \in [0 .. Len(ss) -> Seq(T)] /\ f[0] = <<>>
    /\ \A i \in 1 .. Len(ss) : f[i] = f[i - 1] \o ss[i]

FlattenBy(ss) ==
    CHOOSE flatten : flatten =
        [i \in 1 .. Len(ss) |-> IF i = 1 THEN ss[i] ELSE flatten[i - 1] \o ss[i]]

LEMMA FlattenSteps ==
    ASSUME NEW T, NEW ss \in Seq(Seq(T))
    PROVE  \E f : Flattens(f, ss, T) /\ FlattenSeq(ss) = f[Len(ss)]
<1>1. PICK n \in Nat : n = Len(ss)
  OBVIOUS
<1>2. PICK step : step = [i \in 1 .. n |-> [p \in Seq(T) |-> p \o ss[i]]]
  OBVIOUS
<1>3. step \in [1 .. n -> [Seq(T) -> Seq(T)]]
  <2>1. ASSUME NEW i \in 1 .. n, NEW p \in Seq(T) PROVE p \o ss[i] \in Seq(T)
    <3>1. ss[i] \in Seq(T)
      BY <1>1
    <3> QED
      BY <3>1, ConcatProperties
  <2> QED
    BY <1>2, <2>1
<1>4. PICK f : f \in [0 .. n -> Seq(T)] /\ f[0] = <<>> /\ \A i \in 1 .. n : f[i] = step[i][f[i - 1]]
  <2>1. PICK base, S : base = <<>> /\ S = Seq(T)
    OBVIOUS
  <2>2. base \in S /\ step \in [1 .. n -> [S -> S]]
    BY <1>3, <2>1
  <2>3. \E f : Recurs(f, n, S, base, step)
    BY <1>1, <2>2, Recursion
  <2> QED
    BY <2>1, <2>3 DEF Recurs
<1>5. \A i \in 1 .. n : f[i] = f[i - 1] \o ss[i]
  <2>1. ASSUME NEW i \in 1 .. n PROVE f[i] = f[i - 1] \o ss[i]
    <3>1. f[i] = step[i][f[i - 1]] /\ f[i - 1] \in Seq(T)
      BY <1>4
    <3> QED
      BY <1>2, <3>1
  <2> QED
    BY <2>1
<1>6. Flattens(f, ss, T)
  BY <1>1, <1>4, <1>5 DEF Flattens
<1>7. ASSUME n = 0 PROVE FlattenSeq(ss) = f[n]
  <2>1. ss = <<>> /\ Len(ss) = 0
    BY <1>1, <1>7, EmptySeq
  <2> QED
    BY <1>4, <1>7, <2>1 DEF FlattenSeq
<1>8. ASSUME n # 0 PROVE FlattenSeq(ss) = f[n]
  <2>1. PICK g : g = [i \in 1 .. n |-> f[i]]
    OBVIOUS
  <2>2. g = [i \in 1 .. n |-> IF i = 1 THEN ss[i] ELSE g[i - 1] \o ss[i]]
    <3>1. ASSUME NEW i \in 1 .. n PROVE f[i] = IF i = 1 THEN ss[i] ELSE g[i - 1] \o ss[i]
      <4>1. CASE i = 1
        <5>1. ss[1] \in Seq(T) /\ f[1] = <<>> \o ss[1]
          <6>1. 1 \in 1 .. n /\ 1 - 1 = 0
            BY <4>1
          <6>2. ss[1] \in Seq(T)
            BY <1>1, <6>1
          <6>3. f[1] = f[0] \o ss[1]
            BY <1>5, <6>1
          <6> QED
            BY <1>4, <6>2, <6>3
        <5>2. <<>> \o ss[1] = ss[1]
          BY <5>1
        <5> QED
          BY <4>1, <5>1, <5>2
      <4>2. CASE i # 1
        <5>1. i - 1 \in 1 .. n
          BY <4>2
        <5>2. g[i - 1] = f[i - 1]
          BY <2>1, <5>1
        <5> QED
          BY <1>5, <4>2, <5>2
      <4> QED
        BY <4>1, <4>2
    <3> QED
      BY <2>1, <3>1, Zenon
  <2>3. PICK P : P = FlattenBy(ss)
    OBVIOUS
  <2>4. P = [i \in 1 .. n |-> IF i = 1 THEN ss[i] ELSE P[i - 1] \o ss[i]]
    BY <1>1, <2>2, <2>3, Zenon DEF FlattenBy
  <2>5. PICK M : M = {i \in 0 .. n : i # 0 => P[i] = g[i]}
    OBVIOUS
  <2>6. 0 \in M
    BY <1>1, <2>5
  <2>7. ASSUME NEW i \in 1 .. n, i - 1 \in M PROVE i \in M
    <3>1. CASE i = 1
      <4>1. P[i] = ss[i]
        BY <2>4, <3>1, Zenon
      <4>2. g[i] = ss[i]
        BY <2>2, <3>1, Zenon
      <4> QED
        BY <1>1, <2>5, <4>1, <4>2
    <3>2. CASE i # 1
      <4>1. P[i - 1] = g[i - 1]
        BY <2>5, <2>7, <3>2
      <4>2. P[i] = P[i - 1] \o ss[i]
        BY <2>4, <3>2, Zenon
      <4>3. g[i] = g[i - 1] \o ss[i]
        BY <2>2, <3>2, Zenon
      <4>4. P[i] = g[i]
        BY <4>1, <4>2, <4>3, Zenon
      <4> QED
        BY <1>1, <2>5, <4>4
    <3> QED
      BY <3>1, <3>2
  <2>8. P[n] = f[n]
    <3>1. \A i \in 0 .. n : i \in M
      BY <1>1, <2>6, <2>7, UpTo
    <3>2. n \in 0 .. n /\ n \in 1 .. n
      BY <1>1, <1>8
    <3> QED
      BY <1>8, <2>1, <2>5, <3>1, <3>2
  <2>9. FlattenSeq(ss) = P[n]
    BY <1>1, <1>8, <2>3 DEF FlattenSeq, FlattenBy
  <2> QED
    BY <2>8, <2>9
<1> QED
  BY <1>1, <1>6, <1>7, <1>8

LEMMA FlattenType ==
    ASSUME NEW T, NEW ss \in Seq(Seq(T))
    PROVE  FlattenSeq(ss) \in Seq(T)
<1>1. PICK f : Flattens(f, ss, T) /\ FlattenSeq(ss) = f[Len(ss)]
  BY FlattenSteps
<1>2. Len(ss) \in 0 .. Len(ss)
  OBVIOUS
<1> QED
  BY <1>1, <1>2 DEF Flattens

LEMMA FlattenNone == FlattenSeq(<<>>) = <<>>
<1>1. Len(<<>>) = 0
  OBVIOUS
<1> QED
  BY <1>1 DEF FlattenSeq

Begin(ss, tt, n) == n \in Nat /\ n <= Len(ss) /\ n <= Len(tt) /\ \A i \in 1 .. n : ss[i] = tt[i]

LEMMA FlattenBeginning ==
    ASSUME NEW T, NEW ss \in Seq(Seq(T)), NEW tt \in Seq(Seq(T)), NEW f, NEW g, NEW n,
           Flattens(f, ss, T), Flattens(g, tt, T), Begin(ss, tt, n)
    PROVE  f[n] = g[n]
<1>0. n \in Nat /\ n <= Len(ss) /\ n <= Len(tt) /\ \A i \in 1 .. n : ss[i] = tt[i]
  BY DEF Begin
<1>1. PICK M : M = {i \in 0 .. n : f[i] = g[i]}
  OBVIOUS
<1>2. 0 \in M
  BY <1>0, <1>1 DEF Flattens
<1>3. ASSUME NEW i \in 1 .. n, i - 1 \in M PROVE i \in M
  <2>1. f[i - 1] = g[i - 1] /\ i \in 1 .. Len(ss) /\ i \in 1 .. Len(tt) /\ tt[i] = ss[i] /\ i \in 0 .. n
    BY <1>0, <1>1, <1>3
  <2>2. f[i] = f[i - 1] \o ss[i]
    BY <2>1 DEF Flattens
  <2>3. g[i] = g[i - 1] \o tt[i]
    BY <2>1 DEF Flattens
  <2>4. f[i] = g[i]
    BY <2>1, <2>2, <2>3, Zenon
  <2> QED
    BY <1>1, <2>1, <2>4
<1>4. \A i \in 0 .. n : i \in M
  BY <1>0, <1>2, <1>3, UpTo
<1>5. n \in 0 .. n
  BY <1>0
<1> QED
  BY <1>1, <1>4, <1>5

LEMMA FlattenAppend ==
    ASSUME NEW T, NEW ss \in Seq(Seq(T)), NEW s \in Seq(T)
    PROVE  FlattenSeq(Append(ss, s)) = FlattenSeq(ss) \o s
<1>1. PICK tt, n : tt = Append(ss, s) /\ tt \in Seq(Seq(T)) /\ n = Len(ss) /\ n \in Nat
  <2>1. Append(ss, s) \in Seq(Seq(T)) /\ Len(ss) \in Nat
    BY AppendProperties
  <2> QED
    BY <2>1
<1>2. Len(tt) = n + 1 /\ tt[n + 1] = s /\ \A i \in 1 .. n : tt[i] = ss[i]
  BY <1>1, AppendProperties
<1>3. PICK f : Flattens(f, ss, T) /\ FlattenSeq(ss) = f[n]
  BY <1>1, FlattenSteps
<1>4. PICK g : Flattens(g, tt, T) /\ FlattenSeq(tt) = g[n + 1]
  BY <1>1, <1>2, FlattenSteps
<1>5. f[n] = g[n]
  <2>1. Begin(ss, tt, n)
    BY <1>1, <1>2 DEF Begin
  <2>2. tt \in Seq(Seq(T))
    BY <1>1
  <2> QED
    BY <1>3, <1>4, <2>1, <2>2, FlattenBeginning
<1>6. g[n + 1] = g[n] \o s
  <2>1. n + 1 \in 1 .. Len(tt) /\ (n + 1) - 1 = n
    BY <1>1, <1>2
  <2>2. g[n + 1] = g[(n + 1) - 1] \o tt[n + 1]
    BY <1>4, <2>1, Zenon DEF Flattens
  <2> QED
    BY <1>2, <2>1, <2>2
<1> QED
  BY <1>1, <1>3, <1>4, <1>5, <1>6, Zenon

LEMMA ConcatIsAssociative ==
    ASSUME NEW T, NEW s \in Seq(T), NEW t \in Seq(T), NEW u \in Seq(T)
    PROVE  (s \o t) \o u = s \o (t \o u)
OBVIOUS

LEMMA FlattenConcat ==
    ASSUME NEW T, NEW ss \in Seq(Seq(T)), NEW tt \in Seq(Seq(T))
    PROVE  FlattenSeq(ss \o tt) = FlattenSeq(ss) \o FlattenSeq(tt)
<1>1. PICK uu, m, n : /\ uu = ss \o tt /\ uu \in Seq(Seq(T))
                      /\ m = Len(ss) /\ m \in Nat /\ n = Len(tt) /\ n \in Nat
  <2>1. ss \o tt \in Seq(Seq(T)) /\ Len(ss) \in Nat /\ Len(tt) \in Nat
    BY ConcatProperties
  <2> QED
    BY <2>1
<1>2. /\ Len(uu) = m + n /\ \A i \in 1 .. m : uu[i] = ss[i]
      /\ \A i \in 1 .. n : uu[m + i] = tt[i]
  <2>1. /\ Len(uu) = m + n
        /\ \A i \in 1 .. m + n : uu[i] = IF i <= m THEN ss[i] ELSE tt[i - m]
    BY <1>1, ConcatProperties
  <2>2. \A i \in 1 .. n : m + i \in 1 .. m + n /\ ~ (m + i <= m) /\ (m + i) - m = i
    BY <1>1
  <2>3. \A i \in 1 .. m : i \in 1 .. m + n /\ i <= m
    BY <1>1
  <2> QED
    BY <2>1, <2>2, <2>3
<1>3. PICK f : Flattens(f, ss, T) /\ FlattenSeq(ss) = f[m]
  BY <1>1, FlattenSteps
<1>4. PICK g : Flattens(g, tt, T) /\ FlattenSeq(tt) = g[n]
  BY <1>1, FlattenSteps
<1>5. PICK h : Flattens(h, uu, T) /\ FlattenSeq(uu) = h[m + n]
  <2>1. \E h : Flattens(h, uu, T) /\ FlattenSeq(uu) = h[Len(uu)]
    BY <1>1, FlattenSteps
  <2> QED
    BY <1>2, <2>1
<1>6. f[m] = h[m]
  <2>1. Begin(ss, uu, m)
    BY <1>1, <1>2 DEF Begin
  <2>2. uu \in Seq(Seq(T))
    BY <1>1
  <2> QED
    BY <1>3, <1>5, <2>1, <2>2, FlattenBeginning
<1>7. PICK p : p = f[m] /\ p \in Seq(T)
  <2>1. m \in 0 .. Len(ss)
    BY <1>1
  <2>2. f[m] \in Seq(T)
    BY <1>3, <2>1 DEF Flattens
  <2> QED
    BY <2>2
<1>8. PICK M : M = {i \in 0 .. n : h[m + i] = p \o g[i]}
  OBVIOUS
<1>9. 0 \in M
  <2>1. g[0] = <<>> /\ m + 0 = m /\ p \o <<>> = p /\ 0 \in 0 .. n
    BY <1>1, <1>4, <1>7 DEF Flattens
  <2> QED
    BY <1>1, <1>6, <1>7, <1>8, <2>1
<1>10. ASSUME NEW i \in 1 .. n, i - 1 \in M PROVE i \in M
  <2>1. /\ h[m + (i - 1)] = p \o g[i - 1] /\ m + i \in 1 .. Len(uu) /\ i \in 1 .. Len(tt)
        /\ m + (i - 1) = (m + i) - 1 /\ i \in 0 .. n /\ uu[m + i] = tt[i] /\ i - 1 \in 0 .. Len(tt)
    BY <1>1, <1>2, <1>8, <1>10
  <2>2. h[m + i] = h[(m + i) - 1] \o uu[m + i]
    BY <1>5, <2>1, Zenon DEF Flattens
  <2>3. g[i] = g[i - 1] \o tt[i]
    BY <1>4, <2>1 DEF Flattens
  <2>4. PICK s, t : s = g[i - 1] /\ t = tt[i] /\ s \in Seq(T) /\ t \in Seq(T)
    <3>1. g \in [0 .. Len(tt) -> Seq(T)]
      BY <1>4 DEF Flattens
    <3>2. g[i - 1] \in Seq(T)
      BY <2>1, <3>1
    <3>3. tt[i] \in Seq(T)
      BY <2>1
    <3> QED
      BY <3>2, <3>3
  <2>5. (p \o s) \o t = p \o (s \o t)
    <3>1. p \in Seq(T) /\ s \in Seq(T) /\ t \in Seq(T)
      BY <1>7, <2>4
    <3> QED
      BY <3>1, ConcatIsAssociative
  <2>6. h[m + i] = p \o g[i]
    BY <2>1, <2>2, <2>3, <2>4, <2>5, Zenon
  <2> QED
    BY <1>8, <2>1, <2>6
<1>11. h[m + n] = p \o g[n]
  <2>1. \A i \in 0 .. n : i \in M
    BY <1>1, <1>9, <1>10, UpTo
  <2>2. n \in 0 .. n
    BY <1>1
  <2> QED
    BY <1>8, <2>1, <2>2
<1> QED
  BY <1>1, <1>3, <1>4, <1>5, <1>7, <1>11, Zenon

LEMMA ConcatElements ==
    ASSUME NEW T, NEW s \in Seq(T), NEW t \in Seq(T)
    PROVE  ToSet(s \o t) = ToSet(s) \cup ToSet(t)
<1>1. PICK m, n, u : m = Len(s) /\ n = Len(t) /\ m \in Nat /\ n \in Nat /\ u = s \o t
  <2>1. Len(s) \in Nat /\ Len(t) \in Nat
    OBVIOUS
  <2> QED
    BY <2>1
<1>2. u \in Seq(T) /\ Len(u) = m + n /\ \A i \in 1 .. m + n : u[i] = IF i <= m THEN s[i] ELSE t[i - m]
  BY <1>1, ConcatProperties
<1>3. ASSUME NEW x \in ToSet(u) PROVE x \in ToSet(s) \cup ToSet(t)
  <2>1. PICK i \in 1 .. m + n : x = u[i]
    BY <1>2, <1>3 DEF ToSet
  <2>2. CASE i <= m
    BY <1>1, <1>2, <2>1, <2>2 DEF ToSet
  <2>3. CASE ~ (i <= m)
    <3>1. i - m \in 1 .. n /\ x = t[i - m]
      BY <1>1, <1>2, <2>1, <2>3
    <3> QED
      BY <1>1, <3>1 DEF ToSet
  <2> QED
    BY <2>2, <2>3
<1>4. ASSUME NEW x \in ToSet(s) PROVE x \in ToSet(u)
  <2>1. PICK i \in 1 .. m : x = s[i]
    BY <1>1, <1>4 DEF ToSet
  <2>2. i \in 1 .. m + n /\ x = u[i]
    BY <1>1, <1>2, <2>1
  <2> QED
    BY <1>2, <2>2 DEF ToSet
<1>5. ASSUME NEW x \in ToSet(t) PROVE x \in ToSet(u)
  <2>1. PICK i \in 1 .. n : x = t[i]
    BY <1>1, <1>5 DEF ToSet
  <2>2. m + i \in 1 .. m + n /\ ~ (m + i <= m) /\ (m + i) - m = i
    BY <1>1
  <2>3. x = u[m + i]
    BY <1>2, <2>1, <2>2
  <2> QED
    BY <1>2, <2>2, <2>3 DEF ToSet
<1> QED
  BY <1>1, <1>3, <1>4, <1>5

LEMMA FlattenElements ==
    ASSUME NEW T, NEW ss \in Seq(Seq(T))
    PROVE  ToSet(FlattenSeq(ss)) = UNION {ToSet(ss[j]) : j \in 1 .. Len(ss)}
<1>1. PICK n \in Nat : n = Len(ss)
  OBVIOUS
<1>2. PICK f : Flattens(f, ss, T) /\ FlattenSeq(ss) = f[n]
  BY <1>1, FlattenSteps
<1>3. PICK M : M = {i \in 0 .. n : ToSet(f[i]) = UNION {ToSet(ss[j]) : j \in 1 .. i}}
  OBVIOUS
<1>4. 0 \in M
  <2>1. f[0] = <<>> /\ ToSet(<<>>) = {} /\ 1 .. 0 = {} /\ 0 \in 0 .. n
    BY <1>1, <1>2 DEF Flattens, ToSet
  <2> QED
    BY <1>3, <2>1
<1>5. ASSUME NEW i \in 1 .. n, i - 1 \in M PROVE i \in M
  <2>1. /\ ToSet(f[i - 1]) = UNION {ToSet(ss[j]) : j \in 1 .. i - 1} /\ i \in 1 .. Len(ss)
        /\ i \in 0 .. n /\ i - 1 \in 0 .. Len(ss)
    BY <1>1, <1>3, <1>5
  <2>2. f[i] = f[i - 1] \o ss[i] /\ f[i - 1] \in Seq(T) /\ ss[i] \in Seq(T)
    <3>1. f \in [0 .. Len(ss) -> Seq(T)] /\ f[i] = f[i - 1] \o ss[i]
      BY <1>2, <2>1 DEF Flattens
    <3> QED
      BY <2>1, <3>1
  <2>3. ToSet(f[i]) = ToSet(f[i - 1]) \cup ToSet(ss[i])
    BY <2>2, ConcatElements
  <2>4. 1 .. i = (1 .. i - 1) \cup {i}
    OBVIOUS
  <2>5. UNION {ToSet(ss[j]) : j \in 1 .. i} = (UNION {ToSet(ss[j]) : j \in 1 .. i - 1}) \cup ToSet(ss[i])
    BY <2>4, Zenon
  <2> QED
    BY <1>3, <2>1, <2>3, <2>5
<1>6. ToSet(f[n]) = UNION {ToSet(ss[j]) : j \in 1 .. n}
  <2>1. \A i \in 0 .. n : i \in M
    BY <1>1, <1>4, <1>5, UpTo
  <2>2. n \in 0 .. n
    BY <1>1
  <2> QED
    BY <1>3, <2>1, <2>2
<1> QED
  BY <1>1, <1>2, <1>6
----------------------------------------------------------------------------
(* Places and numbers of what is picked *)

\* How many of the first n places are picked.
Count(places, n) == Cardinality({j \in 1 .. n : j \in places})

LEMMA CountSteps ==
    ASSUME NEW p
    PROVE  /\ Count(p, 0) = 0
           /\ \A n \in Nat : /\ Count(p, n) \in Nat
                             /\ Count(p, n + 1) = IF n + 1 \in p THEN Count(p, n) + 1 ELSE Count(p, n)
<1> DEFINE Up(n) == {j \in 1 .. n : j \in p}
<1>1. Up(0) = {}
  OBVIOUS
<1>2. ASSUME NEW n \in Nat
      PROVE  /\ IsFiniteSet(Up(n)) /\ Cardinality(Up(n)) \in Nat
             /\ Cardinality(Up(n + 1)) = IF n + 1 \in p THEN Cardinality(Up(n)) + 1 ELSE Cardinality(Up(n))
  <2>1. IsFiniteSet(Up(n)) /\ Cardinality(Up(n)) \in Nat
    <3>1. IsFiniteSet(1 .. n) /\ Up(n) \subseteq 1 .. n
      BY FS_Interval
    <3> QED
      BY <3>1, FS_Subset, FS_CardinalityType
  <2>2. CASE n + 1 \notin p
    <3>1. Up(n + 1) = Up(n)
      BY <2>2
    <3> QED
      BY <2>1, <2>2, <3>1
  <2>3. CASE n + 1 \in p
    <3>1. Up(n + 1) = Up(n) \cup {n + 1} /\ n + 1 \notin Up(n)
      BY <2>3
    <3> HIDE DEF Up
    <3> QED
      BY <2>1, <2>3, <3>1, FS_AddElement
  <2> QED
    BY <2>2, <2>3, <2>1
<1>3. Cardinality({}) = 0
  BY FS_EmptySet
<1> HIDE DEF Up
<1>4. \A n \in Nat : Count(p, n) = Cardinality(Up(n))
  BY DEF Count, Up
<1>5. Count(p, 0) = 0
  BY <1>1, <1>3, <1>4
<1>6. ASSUME NEW n \in Nat
      PROVE  /\ Count(p, n) \in Nat
             /\ Count(p, n + 1) = IF n + 1 \in p THEN Count(p, n) + 1 ELSE Count(p, n)
  <2>1. n + 1 \in Nat
    OBVIOUS
  <2>2. Count(p, n) = Cardinality(Up(n)) /\ Count(p, n + 1) = Cardinality(Up(n + 1))
    BY <1>4, <2>1
  <2> QED
    BY <1>2, <2>2
<1> QED
  BY <1>5, <1>6

LEMMA CountSame ==
    ASSUME NEW p, NEW q, NEW n \in Nat, \A i \in 1 .. n : i \in p <=> i \in q
    PROVE  Count(p, n) = Count(q, n)
<1>1. {j \in 1 .. n : j \in p} = {j \in 1 .. n : j \in q}
  OBVIOUS
<1> QED
  BY <1>1 DEF Count

\* `t' holds what is picked from the first n places of `s', in its order.
Holds(t, s, p, n) ==
    /\ Len(t) = Count(p, n)
    /\ \A i \in 1 .. n : i \in p => Count(p, i) \in 1 .. Len(t) /\ t[Count(p, i)] = s[i]
    /\ \A k \in 1 .. Len(t) : \E i \in 1 .. n : i \in p /\ Count(p, i) = k

LEMMA HoldsStep ==
    ASSUME NEW T, NEW s \in Seq(T), NEW t \in Seq(T), NEW p, NEW n \in Nat,
           n + 1 <= Len(s), n + 1 \in p, Holds(t, s, p, n)
    PROVE  Holds(Append(t, s[n + 1]), s, p, n + 1)
<1>1. PICK u, l, c : u = Append(t, s[n + 1]) /\ l = Len(t) /\ l \in Nat /\ c = [i \in Nat |-> Count(p, i)]
  <2>1. Len(t) \in Nat
    OBVIOUS
  <2> QED
    BY <2>1, Zenon
<1>2. s[n + 1] \in T
  <2>1. n + 1 \in 1 .. Len(s)
    OBVIOUS
  <2> QED
    BY <2>1
<1>3. u \in Seq(T) /\ Len(u) = l + 1 /\ u[l + 1] = s[n + 1] /\ \A k \in 1 .. l : u[k] = t[k]
  BY <1>1, <1>2, AppendProperties
<1>4. c[n + 1] = l + 1 /\ c[n] = l
  <2>1. Count(p, n + 1) = Count(p, n) + 1 /\ Count(p, n) = l
    BY <1>1, CountSteps DEF Holds
  <2> QED
    BY <1>1, <2>1
<1>5. /\ \A i \in 1 .. n : i \in p => c[i] \in 1 .. l /\ t[c[i]] = s[i]
      /\ \A k \in 1 .. l : \E i \in 1 .. n : i \in p /\ c[i] = k
  BY <1>1 DEF Holds
<1>6. /\ \A i \in 1 .. n + 1 : i \in p => c[i] \in 1 .. l + 1 /\ u[c[i]] = s[i]
      /\ \A k \in 1 .. l + 1 : \E i \in 1 .. n + 1 : i \in p /\ c[i] = k
  <2>1. \A i \in 1 .. n + 1 : i \in p => c[i] \in 1 .. l + 1 /\ u[c[i]] = s[i]
    <3> SUFFICES ASSUME NEW i \in 1 .. n + 1, i \in p PROVE c[i] \in 1 .. l + 1 /\ u[c[i]] = s[i]
      OBVIOUS
    <3>1. CASE i = n + 1
      BY <1>1, <1>3, <1>4, <3>1
    <3>2. CASE i \in 1 .. n
      <4>1. c[i] \in 1 .. l /\ t[c[i]] = s[i]
        BY <1>5, <3>2
      <4> QED
        BY <1>1, <1>3, <4>1
    <3> QED
      BY <3>1, <3>2
  <2>2. ASSUME NEW k \in 1 .. l + 1 PROVE \E i \in 1 .. n + 1 : i \in p /\ c[i] = k
    <3>1. CASE k = l + 1
      <4>1. n + 1 \in 1 .. n + 1 /\ n + 1 \in p /\ c[n + 1] = k
        BY <1>4, <3>1
      <4> QED
        BY <4>1
    <3>2. CASE k \in 1 .. l
      <4>1. PICK i \in 1 .. n : i \in p /\ c[i] = k
        BY <1>5, <3>2
      <4> QED
        BY <4>1
    <3>3. l \in Nat
      BY <1>1
    <3>4. k = l + 1 \/ k \in 1 .. l
      BY <3>3
    <3> QED
      BY <3>1, <3>2, <3>4, Zenon
  <2> QED
    BY <2>1, <2>2
<1>7. \A i \in 1 .. n + 1 : c[i] = Count(p, i)
  BY <1>1
<1> QED
  BY <1>1, <1>3, <1>4, <1>6, <1>7 DEF Holds

LEMMA HoldsSkip ==
    ASSUME NEW T, NEW s, NEW t \in Seq(T), NEW p, NEW n \in Nat, n + 1 \notin p, Holds(t, s, p, n)
    PROVE  Holds(t, s, p, n + 1)
<1>1. Count(p, n + 1) = Count(p, n)
  BY CountSteps
<1>2. \A i \in 1 .. n + 1 : i \in p => i \in 1 .. n
  OBVIOUS
<1>3. 1 .. n \subseteq 1 .. n + 1
  OBVIOUS
<1> QED
  BY <1>1, <1>2, <1>3 DEF Holds

\* The k-th of the elements that are picked is the one at the k-th of the places.
LEMMA PickedPlaces ==
    ASSUME NEW T, NEW s \in Seq(T), NEW p
    PROVE  Holds(Picked(s, p), s, p, Len(s))
<1>1. PICK f, n : f = PickedBy(s, p) /\ n = Len(s) /\ n \in Nat
  OBVIOUS
<1>2. Picks(f, s, p, T) /\ Picked(s, p) = f[n]
  BY <1>1, PickedSteps
<1>3. PICK M : M = {m \in 0 .. n : f[m] \in Seq(T) /\ Holds(f[m], s, p, m)}
  OBVIOUS
<1>4. 0 \in M
  <2>1. f[0] = <<>> /\ <<>> \in Seq(T) /\ Len(<<>>) = 0
    BY <1>2 DEF Picks
  <2>2. Holds(<<>>, s, p, 0)
    <3>1. Count(p, 0) = 0
      BY CountSteps
    <3> QED
      BY <2>1, <3>1 DEF Holds
  <2>3. 0 \in 0 .. n
    BY <1>1
  <2> QED
    <3>1. f[0] \in Seq(T) /\ Holds(f[0], s, p, 0)
      BY <2>1, <2>2, Zenon
    <3> QED
      BY <1>3, <2>3, <3>1
<1>5. ASSUME NEW m \in 1 .. n, m - 1 \in M PROVE m \in M
  <2>1. f[m] = IF m \in p THEN Append(f[m - 1], s[m]) ELSE f[m - 1]
    BY <1>1, <1>2 DEF Picks
  <2>2. PICK t, j : t = f[m - 1] /\ t \in Seq(T) /\ Holds(t, s, p, j) /\ j = m - 1 /\ j \in Nat
    BY <1>3, <1>5
  <2>3. m = j + 1 /\ m \in 0 .. n /\ j + 1 <= Len(s) /\ s[m] \in T
    BY <1>1, <2>2
  <2>4. CASE m \in p
    <3>1. Holds(Append(t, s[j + 1]), s, p, j + 1)
      BY <2>2, <2>3, <2>4, HoldsStep
    <3>2. Append(t, s[m]) \in Seq(T)
      BY <2>2, <2>3
    <3> QED
      BY <1>3, <2>1, <2>2, <2>3, <2>4, <3>1, <3>2
  <2>5. CASE m \notin p
    <3>1. Holds(t, s, p, j + 1)
      BY <2>2, <2>3, <2>5, HoldsSkip
    <3> QED
      BY <1>3, <2>1, <2>2, <2>3, <2>5, <3>1
  <2> QED
    BY <2>4, <2>5
<1>6. n \in 0 .. n /\ \A m \in 0 .. n : m \in M
  BY <1>1, <1>4, <1>5, UpTo
<1> QED
  BY <1>1, <1>2, <1>3, <1>6

\* Counting goes on where it was interrupted.
Shifted(p, q, r, m, n) ==
    (\A i \in 1 .. m : i \in p <=> i \in r) /\ \A i \in 1 .. n : m + i \in p <=> i \in q

LEMMA CountShift ==
    ASSUME NEW p, NEW q, NEW r, NEW m \in Nat, NEW n \in Nat, Shifted(p, q, r, m, n)
    PROVE  Count(p, m + n) = Count(r, m) + Count(q, n)
<1>1. PICK M : M = {k \in 0 .. n : Count(p, m + k) = Count(r, m) + Count(q, k)}
  OBVIOUS
<1>2. 0 \in M
  <2>1. Count(p, m) = Count(r, m)
    BY CountSame DEF Shifted
  <2>2. Count(q, 0) = 0 /\ Count(r, m) \in Nat /\ m + 0 = m
    <3>1. Count(q, 0) = 0
      BY CountSteps
    <3>2. Count(r, m) \in Nat
      BY CountSteps
    <3> QED
      BY <3>1, <3>2
  <2> QED
    BY <1>1, <2>1, <2>2
<1>3. ASSUME NEW k \in 1 .. n, k - 1 \in M PROVE k \in M
  <2>1. PICK j \in Nat : j = k - 1 /\ k = j + 1 /\ m + j \in Nat /\ m + k = (m + j) + 1
    OBVIOUS
  <2>2. Count(p, m + j) = Count(r, m) + Count(q, j)
    BY <1>1, <1>3, <2>1
  <2>3. /\ Count(p, (m + j) + 1) = IF (m + j) + 1 \in p THEN Count(p, m + j) + 1 ELSE Count(p, m + j)
        /\ Count(q, j + 1) = IF j + 1 \in q THEN Count(q, j) + 1 ELSE Count(q, j)
        /\ Count(r, m) \in Nat /\ Count(q, j) \in Nat
    BY <2>1, CountSteps
  <2>4. m + k \in p <=> k \in q
    BY DEF Shifted
  <2>5. Count(p, m + k) = Count(r, m) + Count(q, k)
    BY <2>1, <2>2, <2>3, <2>4
  <2> QED
    BY <1>1, <2>5
<1>4. n \in 0 .. n /\ \A k \in 0 .. n : k \in M
  BY <1>2, <1>3, UpTo
<1> QED
  BY <1>1, <1>4

\* Of the picked places, in the order of their numbers, `r' has the numbers of
\* those that are also in `q'.
Numbers(p, q, r, n) ==
    /\ \A i \in 1 .. n : i \in q => i \in p
    /\ \A i \in 1 .. n : i \in p => (Count(p, i) \in r <=> i \in q)

\* Then counting numbers in `r' is counting places in `q'.
LEMMA CountNumbers ==
    ASSUME NEW p, NEW q, NEW r, NEW n \in Nat, Numbers(p, q, r, n)
    PROVE  \A i \in 0 .. n : Count(r, Count(p, i)) = Count(q, i)
<1>1. PICK M : M = {k \in 0 .. n : Count(r, Count(p, k)) = Count(q, k)}
  OBVIOUS
<1>2. 0 \in M
  <2>1. Count(p, 0) = 0 /\ Count(q, 0) = 0 /\ Count(r, 0) = 0
    BY CountSteps
  <2> QED
    BY <1>1, <2>1
<1>3. ASSUME NEW k \in 1 .. n, k - 1 \in M PROVE k \in M
  <2>1. PICK j \in Nat : j = k - 1 /\ k = j + 1
    OBVIOUS
  <2>2. PICK c \in Nat : c = Count(p, j)
    BY CountSteps
  <2>3. Count(r, c) = Count(q, j)
    BY <1>1, <1>3, <2>1, <2>2
  <2>4. /\ Count(p, j + 1) = IF j + 1 \in p THEN c + 1 ELSE c
        /\ Count(q, j + 1) = IF j + 1 \in q THEN Count(q, j) + 1 ELSE Count(q, j)
        /\ Count(r, c + 1) = IF c + 1 \in r THEN Count(r, c) + 1 ELSE Count(r, c)
    BY <2>2, CountSteps
  <2>5. (k \in q => k \in p) /\ (k \in p => (Count(p, k) \in r <=> k \in q))
    BY Zenon DEF Numbers
  <2>6. Count(r, Count(p, k)) = Count(q, k)
    <3>1. CASE k \in p
      <4>1. Count(p, k) = c + 1
        BY <2>1, <2>4, <3>1
      <4>2. c + 1 \in r <=> k \in q
        BY <2>5, <3>1, <4>1
      <4> QED
        BY <2>1, <2>3, <2>4, <4>1, <4>2, Zenon
    <3>2. CASE k \notin p
      <4>1. Count(p, k) = c /\ k \notin q
        BY <2>1, <2>4, <2>5, <3>2
      <4> QED
        BY <2>1, <2>3, <2>4, <4>1, Zenon
    <3> QED
      BY <3>1, <3>2
  <2> QED
    BY <1>1, <2>6
<1> QED
  BY <1>1, <1>2, <1>3, UpTo

\* A sequence as its beginning and its last element.
Ends(s, front, last, T) ==
    /\ front \in Seq(T) /\ last \in T /\ s = Append(front, last)
    /\ Len(s) \in Nat /\ Len(s) = Len(front) + 1
    /\ last = s[Len(s)] /\ front = SubSeq(s, 1, Len(s) - 1)

LEMMA SeqEnds ==
    ASSUME NEW T, NEW s \in Seq(T), s # <<>>
    PROVE  \E front, last : Ends(s, front, last, T)
<1>1. PICK n \in Nat : Len(s) = n + 1
  <2>1. Len(s) \in Nat /\ Len(s) # 0
    OBVIOUS
  <2>2. Len(s) - 1 \in Nat /\ Len(s) = (Len(s) - 1) + 1
    BY <2>1
  <2> QED
    BY <2>2
<1>2. PICK front, last : front = SubSeq(s, 1, n) /\ last = s[n + 1]
  OBVIOUS
<1>3. front \in Seq(T) /\ last \in T /\ Len(front) = n /\ \A i \in 1 .. n : front[i] = s[i]
  BY <1>1, <1>2
<1>4. PICK t : t = Append(front, last)
  OBVIOUS
<1>5. /\ t \in Seq(T) /\ Len(t) = Len(front) + 1 /\ t[Len(front) + 1] = last
      /\ \A i \in 1 .. Len(front) : t[i] = front[i]
  BY <1>3, <1>4, AppendProperties
<1>6. \A i \in 1 .. Len(s) : s[i] = t[i]
  BY <1>1, <1>2, <1>3, <1>5
<1>7. s = t
  BY <1>1, <1>3, <1>5, <1>6, SameSeq
<1>8. Len(s) - 1 = n
  BY <1>1
<1>9. front \in Seq(T) /\ last \in T /\ s = Append(front, last)
  BY <1>3, <1>4, <1>7, Zenon
<1>10. Len(s) \in Nat /\ Len(s) = Len(front) + 1
  BY <1>1, <1>3
<1>11. last = s[Len(s)] /\ front = SubSeq(s, 1, Len(s) - 1)
  BY <1>1, <1>2, <1>8, Zenon
<1>12. Ends(s, front, last, T)
  BY <1>9, <1>10, <1>11 DEF Ends
<1> QED
  BY <1>12

\* The elements of `s' by way of a function.
Mapped(g, s) == [i \in 1 .. Len(s) |-> g[s[i]]]

LEMMA MappedType ==
    ASSUME NEW A, NEW Q, NEW g \in [A -> Q], NEW s \in Seq(A)
    PROVE  Mapped(g, s) \in Seq(Q)
<1>1. PICK n, w : n = Len(s) /\ n \in Nat /\ w = [i \in 1 .. n |-> g[s[i]]]
  <2>1. Len(s) \in Nat
    OBVIOUS
  <2> QED
    BY <2>1, Zenon
<1>2. \A i \in 1 .. n : g[s[i]] \in Q
  BY <1>1
<1>3. w \in Seq(Q)
  BY <1>1, <1>2
<1> QED
  BY <1>1, <1>3, Zenon DEF Mapped

LEMMA MappedAppend ==
    ASSUME NEW A, NEW Q, NEW g \in [A -> Q], NEW s \in Seq(A), NEW x \in A
    PROVE  Mapped(g, Append(s, x)) = Append(Mapped(g, s), g[x])
<1>1. PICK n, t, v, w : /\ n = Len(s) /\ n \in Nat /\ t = Append(s, x) /\ t \in Seq(A)
                        /\ v = Mapped(g, s) /\ w = Mapped(g, t)
  <2>1. Len(s) \in Nat /\ Append(s, x) \in Seq(A)
    OBVIOUS
  <2> QED
    BY <2>1, Zenon
<1>2. Len(t) = n + 1 /\ t[n + 1] = x /\ \A i \in 1 .. n : t[i] = s[i]
  BY <1>1, AppendProperties
<1>3. v \in Seq(Q) /\ Len(v) = n /\ w \in Seq(Q) /\ Len(w) = n + 1
  <2>1. Mapped(g, s) \in Seq(Q)
    BY MappedType
  <2>2. t \in Seq(A)
    BY <1>1
  <2>3. Mapped(g, t) \in Seq(Q)
    BY <2>2, MappedType
  <2>4. v = [i \in 1 .. n |-> g[s[i]]] /\ w = [i \in 1 .. n + 1 |-> g[t[i]]]
    BY <1>1, <1>2, Zenon DEF Mapped
  <2>5. v \in Seq(Q) /\ w \in Seq(Q)
    BY <1>1, <2>1, <2>3, Zenon
  <2>6. Len(v) = n /\ Len(w) = n + 1
    BY <1>1, <2>4, <2>5
  <2> QED
    BY <2>5, <2>6
<1>4. w[n + 1] = g[x] /\ \A i \in 1 .. n : w[i] = v[i]
  BY <1>1, <1>2 DEF Mapped
<1>5. PICK u : u = Append(v, g[x]) /\ u \in Seq(Q) /\ Len(u) = n + 1 /\ u[n + 1] = g[x] /\ \A i \in 1 .. n : u[i] = v[i]
  <2>1. g[x] \in Q
    OBVIOUS
  <2>2. /\ Append(v, g[x]) \in Seq(Q) /\ Len(Append(v, g[x])) = n + 1 /\ Append(v, g[x])[n + 1] = g[x]
        /\ \A i \in 1 .. n : Append(v, g[x])[i] = v[i]
    BY <1>3, <2>1, AppendProperties
  <2> QED
    BY <2>2, Zenon
<1>6. \A i \in 1 .. Len(w) : w[i] = u[i]
  BY <1>1, <1>3, <1>4, <1>5
<1>7. w = u
  BY <1>3, <1>5, <1>6, SameSeq
<1> QED
  BY <1>1, <1>5, <1>7, Zenon

\* `g' makes a sequence of every element.
MapsTo(g, A, T) == g \in [A -> Seq(T)]

\* What is made of an element that is added comes at the end.
LEMMA FlattenMapped ==
    ASSUME NEW A, NEW T, NEW g, MapsTo(g, A, T), NEW s \in Seq(A), NEW x \in A
    PROVE  /\ FlattenSeq(Mapped(g, s)) \in Seq(T)
           /\ FlattenSeq(Mapped(g, Append(s, x))) = FlattenSeq(Mapped(g, s)) \o g[x]
<1> SUFFICES ASSUME NEW Q, Q = Seq(T), g \in [A -> Q]
             PROVE  /\ FlattenSeq(Mapped(g, s)) \in Seq(T)
                    /\ FlattenSeq(Mapped(g, Append(s, x))) = FlattenSeq(Mapped(g, s)) \o g[x]
  BY Zenon DEF MapsTo
<1>1. PICK v : v = Mapped(g, s) /\ v \in Seq(Seq(T))
  <2>1. Mapped(g, s) \in Seq(Q)
    BY MappedType
  <2> QED
    BY <2>1
<1>2. Mapped(g, Append(s, x)) = Append(v, g[x])
  <2>1. Mapped(g, Append(s, x)) = Append(Mapped(g, s), g[x])
    BY MappedAppend
  <2> QED
    BY <1>1, <2>1, Zenon
<1>3. g[x] \in Seq(T)
  OBVIOUS
<1>4. FlattenSeq(Append(v, g[x])) = FlattenSeq(v) \o g[x]
  BY <1>1, <1>3, FlattenAppend
<1>5. FlattenSeq(v) \in Seq(T)
  BY <1>1, FlattenType
<1> QED
  BY <1>1, <1>2, <1>4, <1>5, Zenon
=============================================================================
