-------------------------- MODULE SyntaxTextProofs --------------------------
(***************************************************************************)
(* Texts and slices of texts: whatever was sliced from what, the methods   *)
(* that see one token at a time agree with the text put together, for any  *)
(* characters, tokens and lengths.                                         *)
(***************************************************************************)
EXTENDS SyntaxText, SequenceFacts

Byte == 0 .. 255

----------------------------------------------------------------------------
(* Texts in pieces *)

\* The text of the first n pieces.
Through(ss, n) == FlattenSeq(SubSeq(ss, 1, n))

LEMMA ThroughSteps ==
    ASSUME NEW T, NEW ss \in Seq(Seq(T))
    PROVE  /\ Through(ss, 0) = <<>>
           /\ Through(ss, Len(ss)) = FlattenSeq(ss)
           /\ \A n \in 0 .. Len(ss) : Through(ss, n) \in Seq(T)
           /\ \A n \in 1 .. Len(ss) : Through(ss, n) = Through(ss, n - 1) \o ss[n]
<1>1. PICK S : S = Seq(T)
  OBVIOUS
<1>2. ss \in Seq(S)
  BY <1>1
<1>3. SubSeq(ss, 1, 0) = <<>> /\ SubSeq(ss, 1, Len(ss)) = ss
  BY <1>2
<1>4. \A n \in 0 .. Len(ss) : SubSeq(ss, 1, n) \in Seq(S)
  BY <1>2
<1>5. \A n \in 1 .. Len(ss) : SubSeq(ss, 1, n) = Append(SubSeq(ss, 1, n - 1), ss[n]) /\ ss[n] \in S
  BY <1>2
<1>6. Through(ss, 0) = <<>> /\ Through(ss, Len(ss)) = FlattenSeq(ss)
  BY <1>3, FlattenNone DEF Through
<1>7. \A n \in 0 .. Len(ss) : Through(ss, n) \in Seq(T)
  BY <1>1, <1>4, FlattenType DEF Through
<1>8. \A n \in 1 .. Len(ss) : Through(ss, n) = Through(ss, n - 1) \o ss[n]
  <2> TAKE n \in 1 .. Len(ss)
  <2>1. n - 1 \in 0 .. Len(ss)
    BY <1>2
  <2>2. PICK front, last : front = SubSeq(ss, 1, n - 1) /\ last = ss[n]
    OBVIOUS
  <2>3. front \in Seq(Seq(T)) /\ last \in Seq(T) /\ SubSeq(ss, 1, n) = Append(front, last)
    BY <1>1, <1>4, <1>5, <2>1, <2>2
  <2>4. FlattenSeq(Append(front, last)) = FlattenSeq(front) \o last
    BY <2>3, FlattenAppend
  <2> QED
    BY <2>2, <2>3, <2>4 DEF Through
<1> QED
  BY <1>6, <1>7, <1>8

\* The whole text is what the first n pieces are, and then the rest.
LEMMA ThroughRest ==
    ASSUME NEW T, NEW ss \in Seq(Seq(T)), NEW n \in 0 .. Len(ss)
    PROVE  /\ SubSeq(ss, n + 1, Len(ss)) \in Seq(Seq(T))
           /\ FlattenSeq(ss) = Through(ss, n) \o FlattenSeq(SubSeq(ss, n + 1, Len(ss)))
<1>1. PICK S : S = Seq(T)
  OBVIOUS
<1>2. ss \in Seq(S)
  BY <1>1
<1>3. PICK front, back : front = SubSeq(ss, 1, n) /\ back = SubSeq(ss, n + 1, Len(ss))
  OBVIOUS
<1>4. front \in Seq(S) /\ back \in Seq(S) /\ ss = front \o back
  <2>1. Len(ss) \in Nat /\ n \in Nat /\ n <= Len(ss)
    BY <1>2
  <2>2. front \in Seq(S) /\ back \in Seq(S)
    BY <1>2, <1>3, <2>1
  <2>3. PICK a \in Nat, b \in Nat, c \in Nat : a = 0 /\ b = n /\ c = Len(ss)
    BY <2>1
  <2>4. SubSeq(ss, a + 1, b) \o SubSeq(ss, b + 1, c) = SubSeq(ss, a + 1, c)
    <3>1. a <= b /\ b <= c /\ c <= Len(ss)
      BY <2>1, <2>3
    <3> QED
      BY <1>2, <3>1, PartsJoin, Zenon
  <2>5. a + 1 = 1
    BY <2>3
  <2>6. SubSeq(ss, 1, Len(ss)) = ss
    BY <1>2
  <2>7. ss = front \o back
    BY <1>3, <2>3, <2>4, <2>5, <2>6, Zenon
  <2> QED
    BY <2>2, <2>7
<1>5. FlattenSeq(front \o back) = FlattenSeq(front) \o FlattenSeq(back)
  BY <1>1, <1>4, FlattenConcat
<1> QED
  BY <1>1, <1>3, <1>4, <1>5 DEF Through

\* Piece n stands behind the first n - 1 pieces.
LEMMA PieceStands ==
    ASSUME NEW T, NEW ss \in Seq(Seq(T)), NEW n \in 1 .. Len(ss)
    PROVE  /\ Len(Through(ss, n - 1)) \in Nat /\ Len(ss[n]) \in Nat
           /\ Len(Through(ss, n)) = Len(Through(ss, n - 1)) + Len(ss[n])
           /\ Len(Through(ss, n)) <= Len(FlattenSeq(ss))
           /\ \A q \in 1 .. Len(ss[n]) : FlattenSeq(ss)[Len(Through(ss, n - 1)) + q] = ss[n][q]
<1>1. PICK S : S = Seq(T)
  OBVIOUS
<1>2. ss \in Seq(S) /\ n \in Nat /\ n - 1 \in 0 .. Len(ss) /\ n \in 0 .. Len(ss)
  BY <1>1
<1>3. PICK a, p, b, r, w :
          a = Through(ss, n - 1) /\ p = ss[n] /\ b = Through(ss, n) /\ w = FlattenSeq(ss)
          /\ r = FlattenSeq(SubSeq(ss, n + 1, Len(ss)))
  OBVIOUS
<1>4. a \in Seq(T) /\ b \in Seq(T) /\ b = a \o p
  BY <1>2, <1>3, ThroughSteps
<1>5. p \in Seq(T)
  BY <1>1, <1>2, <1>3
<1>6. r \in Seq(T) /\ w = b \o r
  BY <1>2, <1>3, ThroughRest, FlattenType
<1>7. Len(a) \in Nat /\ Len(p) \in Nat /\ Len(b) = Len(a) + Len(p) /\ Len(b) <= Len(w)
  BY <1>4, <1>5, <1>6
<1>8. \A q \in 1 .. Len(p) : w[Len(a) + q] = p[q]
  BY <1>4, <1>5, <1>6
<1> QED
  BY <1>3, <1>7, <1>8

\* Pieces stand in order.
LEMMA ThroughGrows ==
    ASSUME NEW T, NEW ss \in Seq(Seq(T)), NEW m \in 0 .. Len(ss), NEW n \in 0 .. Len(ss), m <= n
    PROVE  Len(Through(ss, m)) \in Nat /\ Len(Through(ss, m)) <= Len(Through(ss, n))
<1>1. PICK S : S = Seq(T)
  OBVIOUS
<1>2. ss \in Seq(S) /\ Len(ss) \in Nat /\ m \in Nat /\ n \in Nat
  BY <1>1
<1>3. PICK M : M = {k \in 0 .. Len(ss) - m : Len(Through(ss, m)) <= Len(Through(ss, m + k))}
  OBVIOUS
<1>4. Len(Through(ss, m)) \in Nat
  BY ThroughSteps
<1>5. 0 \in M
  BY <1>2, <1>3, <1>4
<1>6. \A k \in 1 .. Len(ss) - m : k - 1 \in M => k \in M
  <2>1. SUFFICES ASSUME NEW k \in 1 .. Len(ss) - m, k - 1 \in M PROVE k \in M
    BY Zenon
  <2>2. PICK p, q : p = m + k /\ q = m + (k - 1) /\ p \in 1 .. Len(ss) /\ p - 1 = q
    BY <1>2
  <2>3. /\ Len(Through(ss, q)) \in Nat /\ Len(ss[p]) \in Nat
        /\ Len(Through(ss, p)) = Len(Through(ss, q)) + Len(ss[p])
    BY <2>2, PieceStands
  <2>4. Len(Through(ss, m)) <= Len(Through(ss, q))
    BY <1>3, <2>1, <2>2
  <2>7. Len(Through(ss, m)) <= Len(Through(ss, p))
    BY <1>4, <2>3, <2>4
  <2>6. k \in 0 .. Len(ss) - m
    BY <1>2
  <2> QED
    BY <1>3, <2>2, <2>6, <2>7
<1>7. n - m \in 0 .. Len(ss) - m /\ Len(ss) - m \in Nat /\ m + (n - m) = n
  BY <1>2
<1>8. n - m \in M
  BY <1>5, <1>6, <1>7, UpTo
<1> QED
  BY <1>3, <1>4, <1>7, <1>8

----------------------------------------------------------------------------
(* Where characters begin *)

\* A piece does not begin inside a character.
LeadsFirst(s) == s = <<>> \/ s[1] \notin Continuation

LEMMA FlattenLeads ==
    ASSUME NEW T, NEW ss \in Seq(Seq(T)), \A i \in 1 .. Len(ss) : LeadsFirst(ss[i])
    PROVE  LeadsFirst(FlattenSeq(ss))
<1>1. PICK S : S = Seq(T)
  OBVIOUS
<1>2. ss \in Seq(S) /\ Len(ss) \in Nat
  BY <1>1
<1>3. PICK M : M = {n \in 0 .. Len(ss) : LeadsFirst(Through(ss, n))}
  OBVIOUS
<1>4. 0 \in M
  <2>1. Through(ss, 0) = <<>>
    BY ThroughSteps
  <2>2. LeadsFirst(Through(ss, 0))
    BY <2>1, Zenon DEF LeadsFirst
  <2> QED
    BY <1>2, <1>3, <2>2
<1>5. ASSUME NEW n \in 1 .. Len(ss), n - 1 \in M PROVE n \in M
  <2>1. PICK a, p, b : a = Through(ss, n - 1) /\ p = ss[n] /\ b = Through(ss, n)
    OBVIOUS
  <2>2. n - 1 \in 0 .. Len(ss) /\ n \in 0 .. Len(ss)
    BY <1>2
  <2>3. a \in Seq(T) /\ b = a \o p
    BY <2>1, <2>2, ThroughSteps
  <2>6. p \in Seq(T)
    BY <1>1, <1>2, <2>1
  <2>4. LeadsFirst(a) /\ LeadsFirst(p)
    BY <1>3, <1>5, <2>1
  <2>5. LeadsFirst(b)
    <3>1. CASE a = <<>>
      BY <2>3, <2>4, <2>6, <3>1 DEF LeadsFirst
    <3>2. CASE a # <<>>
      BY <2>3, <2>4, <2>6, <3>2 DEF LeadsFirst
    <3> QED
      BY <3>1, <3>2
  <2> QED
    BY <1>3, <2>1, <2>2, <2>5
<1>6. Len(ss) \in M
  <2>1. Len(ss) \in 0 .. Len(ss)
    BY <1>2
  <2>2. \A i \in 0 .. Len(ss) : i \in M
    BY <1>2, <1>4, <1>5, UpTo
  <2> QED
    BY <2>1, <2>2
<1> QED
  BY <1>3, <1>6, ThroughSteps

\* Between two pieces there is a boundary.
LEMMA PieceBoundary ==
    ASSUME NEW T, NEW ss \in Seq(Seq(T)), \A i \in 1 .. Len(ss) : LeadsFirst(ss[i]),
           NEW n \in 0 .. Len(ss)
    PROVE  IsBoundary(FlattenSeq(ss), Len(Through(ss, n)))
<1>1. PICK S : S = Seq(T)
  OBVIOUS
<1>2. ss \in Seq(S) /\ Len(ss) \in Nat /\ n \in Nat
  BY <1>1
<1>3. PICK back : back = SubSeq(ss, n + 1, Len(ss))
  OBVIOUS
<1>4. back \in Seq(S) /\ \A i \in 1 .. Len(back) : LeadsFirst(back[i])
  <2>1. n <= Len(ss)
    BY <1>2
  <2>2. /\ back \in Seq(S) /\ Len(back) = Len(ss) - n
        /\ \A i \in 1 .. Len(ss) - n : back[i] = ss[n + i]
    BY <1>2, <1>3, <2>1, Part
  <2>3. \A i \in 1 .. Len(ss) - n : n + i \in 1 .. Len(ss)
    BY <1>2
  <2> QED
    BY <2>2, <2>3
<1>5. PICK a, r, w : a = Through(ss, n) /\ r = FlattenSeq(back) /\ w = FlattenSeq(ss)
  OBVIOUS
<1>6. a \in Seq(T) /\ r \in Seq(T) /\ w = a \o r /\ LeadsFirst(r)
  BY <1>1, <1>3, <1>4, <1>5, ThroughSteps, ThroughRest, FlattenType, FlattenLeads
<1>7. IsBoundary(w, Len(a))
  <2>1. CASE r = <<>>
    BY <1>6, <2>1 DEF IsBoundary
  <2>2. CASE r # <<>>
    BY <1>6, <2>2 DEF IsBoundary, LeadsFirst
  <2> QED
    BY <2>1, <2>2
<1> QED
  BY <1>5, <1>7

\* The boundaries of a piece are boundaries of the whole.
LEMMA PieceBoundaries ==
    ASSUME NEW T, NEW ss \in Seq(Seq(T)), \A i \in 1 .. Len(ss) : LeadsFirst(ss[i]),
           NEW n \in 1 .. Len(ss), NEW j \in 0 .. Len(ss[n])
    PROVE  IsBoundary(ss[n], j) <=> IsBoundary(FlattenSeq(ss), Len(Through(ss, n - 1)) + j)
<1>1. PICK w, a, p : w = FlattenSeq(ss) /\ a = Len(Through(ss, n - 1)) /\ p = ss[n]
  OBVIOUS
<1>2. /\ a \in Nat /\ Len(p) \in Nat /\ Len(Through(ss, n)) = a + Len(p) /\ a + Len(p) <= Len(w)
      /\ \A q \in 1 .. Len(p) : w[a + q] = p[q]
  BY <1>1, PieceStands
<1>3. n - 1 \in 0 .. Len(ss) /\ n \in 0 .. Len(ss)
  <2>1. PICK S : S = Seq(T)
    OBVIOUS
  <2>2. ss \in Seq(S) /\ Len(ss) \in Nat
    BY <2>1
  <2> QED
    BY <2>2
<1>4. IsBoundary(w, a) /\ IsBoundary(w, a + Len(p))
  BY <1>1, <1>2, <1>3, PieceBoundary
<1>5. Len(w) \in Nat
  BY <1>1, FlattenType
<1>6. CASE j = 0
  BY <1>1, <1>2, <1>4, <1>6 DEF IsBoundary
<1>7. CASE j = Len(p)
  BY <1>1, <1>2, <1>4, <1>7 DEF IsBoundary
<1>8. CASE j # 0 /\ j # Len(p)
  <2>0. j \in 0 .. Len(p) /\ j \in Nat
    BY <1>1, <1>2
  <2>1. j + 1 \in 1 .. Len(p) /\ a + (j + 1) = a + j + 1 /\ j < Len(p) /\ a + j < Len(w) /\ a + j # 0
    BY <1>2, <1>5, <1>8, <2>0
  <2>2. w[a + j + 1] = p[j + 1]
    BY <1>2, <2>1
  <2> QED
    BY <1>1, <1>5, <1>8, <2>1, <2>2 DEF IsBoundary
<1> QED
  BY <1>1, <1>6, <1>7, <1>8

----------------------------------------------------------------------------
(* A range of a text, from the parts of its pieces *)

Smaller(m, n) == IF m < n THEN m ELSE n

\* The bytes from lo to hi, as far as there are any.
Clip(s, lo, hi) == SubSeq(s, lo + 1, Smaller(hi, Len(s)))

LEMMA ClipElements ==
    ASSUME NEW T, NEW s \in Seq(T), NEW lo \in Nat, NEW hi \in Nat
    PROVE  /\ Clip(s, lo, hi) \in Seq(T)
           /\ Len(Clip(s, lo, hi)) =
                  IF lo <= Smaller(hi, Len(s)) THEN Smaller(hi, Len(s)) - lo ELSE 0
           /\ \A i \in 1 .. Len(Clip(s, lo, hi)) : Clip(s, lo, hi)[i] = s[lo + i]
<1>1. PICK n : n = Smaller(hi, Len(s)) /\ n \in Nat /\ n <= Len(s)
  BY DEF Smaller
<1>2. PICK c : c = SubSeq(s, lo + 1, n)
  OBVIOUS
<1>3. CASE lo <= n
  <2>1. c \in Seq(T) /\ Len(c) = n - lo /\ \A i \in 1 .. n - lo : c[i] = s[lo + i]
    BY <1>1, <1>2, <1>3, Part
  <2> QED
    BY <1>1, <1>2, <1>3, <2>1 DEF Clip
<1>4. CASE ~ (lo <= n)
  <2>1. lo + 1 > n /\ lo + 1 \in Int /\ n \in Int
    BY <1>1, <1>4
  <2>2. c = <<>>
    BY <1>2, <2>1
  <2> QED
    BY <1>1, <1>2, <1>4, <2>2 DEF Clip
<1> QED
  BY <1>3, <1>4

\* Where the part of the piece p begins and ends, if n bytes are in front of it.
From(n, lo) == IF n < lo THEN lo - n ELSE 0
To(n, p, hi) == IF hi < n + Len(p) THEN hi - n ELSE Len(p)

Between(s, from, to) == SubSeq(s, from + 1, to)

LEMMA ClipStep ==
    ASSUME NEW T, NEW a \in Seq(T), NEW p \in Seq(T), NEW lo \in Nat, NEW hi \in Nat, lo <= hi
    PROVE  /\ From(Len(a), lo) \in Nat /\ To(Len(a), p, hi) \in Int /\ To(Len(a), p, hi) <= Len(p)
           /\ From(Len(a), lo) <= To(Len(a), p, hi) =>
                  Clip(a \o p, lo, hi) =
                      Clip(a, lo, hi) \o Between(p, From(Len(a), lo), To(Len(a), p, hi))
           /\ ~ (From(Len(a), lo) <= To(Len(a), p, hi)) => Clip(a \o p, lo, hi) = Clip(a, lo, hi)
<1>1. PICK n, m, from, to : /\ n = Len(a) /\ m = Len(p) /\ n \in Nat /\ m \in Nat
                            /\ from = From(n, lo) /\ to = To(n, p, hi)
  OBVIOUS
<1>2. from = (IF n < lo THEN lo - n ELSE 0) /\ to = (IF hi < n + m THEN hi - n ELSE m)
  BY <1>1 DEF From, To
<1>3. from \in Nat /\ to \in Int /\ to <= m
  BY <1>1, <1>2
<1>4. PICK w : w = a \o p
  OBVIOUS
<1>5. /\ w \in Seq(T) /\ Len(w) = n + m
      /\ \A i \in 1 .. n : w[i] = a[i]
      /\ \A i \in 1 .. m : w[n + i] = p[i]
  BY <1>1, <1>4
<1>6. PICK x, y : x = Clip(w, lo, hi) /\ y = Clip(a, lo, hi)
  OBVIOUS
<1>7. /\ x \in Seq(T) /\ \A i \in 1 .. Len(x) : x[i] = w[lo + i]
      /\ Len(x) = IF lo <= Smaller(hi, n + m) THEN Smaller(hi, n + m) - lo ELSE 0
  BY <1>5, <1>6, ClipElements
<1>8. /\ y \in Seq(T) /\ \A i \in 1 .. Len(y) : y[i] = a[lo + i]
      /\ Len(y) = IF lo <= Smaller(hi, n) THEN Smaller(hi, n) - lo ELSE 0
  BY <1>1, <1>6, ClipElements
<1>9. CASE from <= to
  <2>1. PICK z : z = SubSeq(p, from + 1, to)
    OBVIOUS
  <2>2. z \in Seq(T) /\ Len(z) = to - from /\ \A i \in 1 .. to - from : z[i] = p[from + i]
    <3>1. from \in Nat /\ to \in Nat /\ from <= to
      BY <1>3, <1>9
    <3>2. to <= Len(p)
      BY <1>1, <1>3
    <3>3. /\ SubSeq(p, from + 1, to) \in Seq(T)
          /\ Len(SubSeq(p, from + 1, to)) = to - from
          /\ \A i \in 1 .. to - from : SubSeq(p, from + 1, to)[i] = p[from + i]
      BY <3>1, <3>2, Part
    <3> QED
      BY <2>1, <3>3, Zenon
  <2>3. Len(x) = Len(y) + Len(z)
    <3>1. PICK lx, ly, lz : lx = Len(x) /\ ly = Len(y) /\ lz = Len(z)
      OBVIOUS
    <3>0. SUFFICES lx = ly + lz
      BY <3>1
    <3>2. /\ lx = IF lo <= Smaller(hi, n + m) THEN Smaller(hi, n + m) - lo ELSE 0
          /\ ly = IF lo <= Smaller(hi, n) THEN Smaller(hi, n) - lo ELSE 0
          /\ lz = to - from
      BY <1>7, <1>8, <2>2, <3>1
    <3>3. CASE n < lo
      <4>1. from = lo - n /\ lo <= hi /\ n <= hi
        BY <1>1, <1>2, <3>3
      <4>2. ly = 0
        BY <1>1, <3>2, <3>3, <4>1 DEF Smaller
      <4>3. CASE hi < n + m
        BY <1>1, <1>2, <3>2, <4>1, <4>2, <4>3 DEF Smaller
      <4>4. CASE ~ (hi < n + m)
        <5>1. to = m /\ Smaller(hi, n + m) = n + m
          BY <1>2, <4>4 DEF Smaller
        <5>2. lo <= n + m
          BY <1>1, <1>9, <4>1, <5>1
        <5> QED
          BY <1>1, <3>2, <4>1, <4>2, <5>1, <5>2
      <4> QED
        BY <4>3, <4>4
    <3>4. CASE ~ (n < lo)
      <4>1. from = 0 /\ n <= hi
        BY <1>1, <1>2, <1>9, <3>4
      <4>2. ly = n - lo
        BY <1>1, <3>2, <3>4, <4>1 DEF Smaller
      <4>3. CASE hi < n + m
        BY <1>1, <1>2, <3>2, <3>4, <4>1, <4>2, <4>3 DEF Smaller
      <4>4. CASE ~ (hi < n + m)
        BY <1>1, <1>2, <1>9, <3>2, <3>4, <4>1, <4>2, <4>4 DEF Smaller
      <4> QED
        BY <4>3, <4>4
    <3> QED
      BY <3>3, <3>4
  <2>4. \A i \in 1 .. Len(y) : lo + i \in 1 .. n
    BY <1>1, <1>8 DEF Smaller
  <2>5. \A i \in 1 .. Len(z) : lo + (Len(y) + i) = n + (from + i) /\ from + i \in 1 .. m
    <3>1. PICK ly, lz : ly = Len(y) /\ lz = Len(z)
      OBVIOUS
    <3>2. /\ ly = (IF lo <= Smaller(hi, n) THEN Smaller(hi, n) - lo ELSE 0)
          /\ lz = to - from
      BY <1>8, <2>2, <3>1
    <3>3. n \in Nat /\ m \in Nat /\ from \in Nat /\ to \in Int /\ to <= m /\ from <= to
      BY <1>1, <1>3, <1>9
    <3>4. CASE n < lo
      <4>1. from = lo - n
        BY <1>2, <3>4
      <4>2. ly = 0
        BY <3>2, <3>3, <3>4 DEF Smaller
      <4>3. \A i \in 1 .. lz : lo + (ly + i) = n + (from + i) /\ from + i \in 1 .. m
        BY <3>2, <3>3, <4>1, <4>2
      <4> QED
        BY <3>1, <4>3
    <3>5. CASE ~ (n < lo)
      <4>1. from = 0
        BY <1>2, <3>5
      <4>2. n <= hi
        <5>1. to \in Nat
          BY <3>3, <4>1
        <5> QED
          BY <1>2, <3>3, <5>1
      <4>3. ly = n - lo
        BY <3>2, <3>3, <3>5, <4>2 DEF Smaller
      <4>4. \A i \in 1 .. lz : lo + (ly + i) = n + (from + i) /\ from + i \in 1 .. m
        BY <3>2, <3>3, <4>1, <4>3
      <4> QED
        BY <3>1, <4>4
    <3> QED
      BY <3>4, <3>5
  <2>6. \A i \in 1 .. Len(y) : x[i] = y[i]
    <3> TAKE i \in 1 .. Len(y)
    <3>1. Len(z) \in Nat /\ Len(y) \in Nat
      BY <1>8, <2>2
    <3>2. i \in 1 .. Len(x)
      BY <2>3, <3>1
    <3> QED
      BY <1>5, <1>7, <1>8, <2>4, <3>2
  <2>7. \A i \in 1 .. Len(z) : x[Len(y) + i] = z[i]
    <3> TAKE i \in 1 .. Len(z)
    <3>1. Len(y) + i \in 1 .. Len(x)
      BY <1>8, <2>2, <2>3
    <3>2. x[Len(y) + i] = w[n + (from + i)]
      BY <1>7, <2>5, <3>1
    <3> QED
      BY <1>5, <2>2, <2>5, <3>2
  <2>8. x = y \o z
    <3>1. PICK t : t = y \o z
      OBVIOUS
    <3>0. PICK k, l : k = Len(y) /\ l = Len(z) /\ k \in Nat /\ l \in Nat
      BY <1>8, <2>2
    <3>2. /\ t \in Seq(T) /\ Len(t) = Len(y) + Len(z)
          /\ \A i \in 1 .. Len(y) : t[i] = y[i]
          /\ \A i \in 1 .. Len(z) : t[Len(y) + i] = z[i]
      <4>1. y \in Seq(T) /\ z \in Seq(T)
        BY <1>8, <2>2
      <4>2. t \in Seq(T) /\ Len(t) = k + l
        BY <3>0, <3>1, <4>1
      <4>3. /\ \A i \in 1 .. k : t[i] = y[i]
            /\ \A i \in 1 .. l : t[k + i] = z[i]
        BY <3>0, <3>1, <4>1
      <4> QED
        BY <3>0, <4>2, <4>3
    <3>3. ASSUME NEW i \in 1 .. Len(x) PROVE x[i] = t[i]
      <4>1. CASE i <= Len(y)
        BY <1>8, <2>6, <3>2, <4>1
      <4>2. CASE ~ (i <= Len(y))
        <5>1. PICK j : j = i - Len(y) /\ j \in 1 .. Len(z) /\ i = Len(y) + j
          BY <2>3, <3>0, <4>2
        <5> QED
          BY <2>7, <3>2, <5>1
      <4> QED
        BY <4>1, <4>2
    <3> QED
      BY <1>7, <2>3, <3>1, <3>2, <3>3, SameSeq
  <2>9. z = Between(p, from, to)
    BY <2>1, Zenon DEF Between
  <2>10. from <= to /\ x = y \o Between(p, from, to)
    BY <1>9, <2>8, <2>9
  <2> QED
    BY <1>1, <1>3, <1>4, <1>6, <2>10
<1>10. CASE ~ (from <= to)
  <2>1. Len(x) = Len(y)
    BY <1>1, <1>2, <1>7, <1>8, <1>10 DEF Smaller
  <2>2. \A i \in 1 .. Len(y) : lo + i \in 1 .. n
    BY <1>1, <1>8 DEF Smaller
  <2>3. \A i \in 1 .. Len(x) : x[i] = y[i]
    BY <1>5, <1>7, <1>8, <2>1, <2>2
  <2>4. x = y
    BY <1>7, <1>8, <2>1, <2>3, SameSeq
  <2> QED
    BY <1>1, <1>3, <1>4, <1>6, <1>10, <2>4
<1> QED
  BY <1>9, <1>10

----------------------------------------------------------------------------
(* Chunks *)

Chunk == {c \in [token : Seq(Byte), start : Nat, end : Int] :
             c.start <= c.end => c.end <= Len(c.token)}

LEMMA ChunkTypes ==
    ASSUME NEW c \in Chunk
    PROVE  /\ c.token \in Seq(Byte) /\ c.start \in Nat /\ c.end \in Int
           /\ c.start <= c.end => c.end <= Len(c.token)
           /\ ChunkText(c) \in Seq(Byte)
           /\ c.start <= c.end => /\ Len(ChunkText(c)) = c.end - c.start
                                  /\ \A q \in 1 .. Len(ChunkText(c)) :
                                         ChunkText(c)[q] = c.token[c.start + q]
<1>1. /\ c.token \in Seq(Byte) /\ c.start \in Nat /\ c.end \in Int
      /\ c.start <= c.end => c.end <= Len(c.token)
  BY Zenon DEF Chunk
<1>2. PICK B, s, a, b : B = Byte /\ s = c.token /\ a = c.start /\ b = c.end
  OBVIOUS
<1>3. s \in Seq(B) /\ a \in Nat /\ b \in Int /\ (a <= b => b <= Len(s))
  BY <1>1, <1>2
<1>4. PICK x : x = SubSeq(s, a + 1, b)
  OBVIOUS
<1>5. /\ x \in Seq(B)
      /\ a <= b => Len(x) = b - a /\ \A q \in 1 .. Len(x) : x[q] = s[a + q]
  <2>1. CASE a <= b
    <3>1. b \in Nat /\ b <= Len(s)
      BY <1>3, <2>1
    <3>2. x \in Seq(B) /\ Len(x) = b - a /\ \A q \in 1 .. b - a : x[q] = s[a + q]
      BY <1>3, <1>4, <2>1, <3>1, Part
    <3> QED
      BY <3>2
  <2>2. CASE ~ (a <= b)
    <3>1. a + 1 > b /\ a + 1 \in Int
      BY <1>3, <2>2
    <3>2. x = <<>>
      BY <1>3, <1>4, <3>1
    <3> QED
      BY <2>2, <3>2
  <2> QED
    BY <2>1, <2>2
<1> QED
  BY <1>1, <1>2, <1>4, <1>5 DEF ChunkText

LEMMA TextsSteps ==
    ASSUME NEW cs \in Seq(Chunk)
    PROVE  /\ Texts(cs) \in Seq(Seq(Byte)) /\ Len(Texts(cs)) = Len(cs)
           /\ \A k \in 1 .. Len(cs) : Texts(cs)[k] = ChunkText(cs[k])
           /\ FlattenSeq(Texts(cs)) \in Seq(Byte)
           /\ \A c \in Chunk : FlattenSeq(Texts(Append(cs, c))) = FlattenSeq(Texts(cs)) \o ChunkText(c)
<1>1. PICK g : g = [c \in Chunk |-> ChunkText(c)]
  OBVIOUS
<1>2. MapsTo(g, Chunk, Byte) /\ \A c \in Chunk : g[c] = ChunkText(c)
  BY <1>1, ChunkTypes DEF MapsTo
<1>3. ASSUME NEW ds \in Seq(Chunk)
      PROVE  Mapped(g, ds) = Texts(ds) /\ Texts(ds) \in Seq(Seq(Byte)) /\ Len(Texts(ds)) = Len(ds)
             /\ \A k \in 1 .. Len(ds) : Texts(ds)[k] = ChunkText(ds[k])
  <2>1. PICK n : n = Len(ds) /\ n \in Nat /\ DOMAIN ds = 1 .. n
    OBVIOUS
  <2>2. \A k \in 1 .. n : ds[k] \in Chunk
    BY <2>1
  <2>3. Texts(ds) = [k \in 1 .. n |-> ChunkText(ds[k])]
    BY <2>1, Zenon DEF Texts
  <2>4. Mapped(g, ds) = [k \in 1 .. n |-> g[ds[k]]]
    BY <2>1, Zenon DEF Mapped
  <2>5. \A k \in 1 .. n : g[ds[k]] = ChunkText(ds[k]) /\ ChunkText(ds[k]) \in Seq(Byte)
    BY <1>2, <2>2, ChunkTypes
  <2>6. PICK w, S : w = Texts(ds) /\ S = Seq(Byte)
    OBVIOUS
  <2>7. w = [k \in 1 .. n |-> ChunkText(ds[k])] /\ \A k \in 1 .. n : ChunkText(ds[k]) \in S
    BY <2>3, <2>5, <2>6
  <2>8. w \in Seq(S) /\ Len(w) = n /\ \A k \in 1 .. n : w[k] = ChunkText(ds[k])
    BY <2>1, <2>7
  <2>9. Mapped(g, ds) = w
    BY <2>4, <2>5, <2>7
  <2> QED
    BY <2>1, <2>6, <2>8, <2>9
<1>4. FlattenSeq(Texts(cs)) \in Seq(Byte)
  BY <1>3, FlattenType
<1>5. ASSUME NEW c \in Chunk
      PROVE  FlattenSeq(Texts(Append(cs, c))) = FlattenSeq(Texts(cs)) \o ChunkText(c)
  <2>1. Append(cs, c) \in Seq(Chunk)
    OBVIOUS
  <2>2. FlattenSeq(Mapped(g, Append(cs, c))) = FlattenSeq(Mapped(g, cs)) \o g[c]
    BY <1>2, FlattenMapped
  <2> QED
    BY <1>2, <1>3, <2>1, <2>2
<1> QED
  BY <1>3, <1>4, <1>5

\* The parts of all pieces that lie between lo and hi.
Cutting(cs, ss, lo, hi) ==
    /\ cs \in Seq(Chunk) /\ Len(cs) = Len(ss)
    /\ \A i \in 1 .. Len(ss) :
           /\ cs[i].token = ss[i]
           /\ cs[i].start = From(Len(Through(ss, i - 1)), lo)
           /\ cs[i].end = To(Len(Through(ss, i - 1)), ss[i], hi)

\* Joined, the parts that there are make the range.
LEMMA CutJoined ==
    ASSUME NEW ss \in Seq(Seq(Byte)), NEW lo \in Nat, NEW hi \in Nat, lo <= hi,
           NEW cs, Cutting(cs, ss, lo, hi)
    PROVE  FlattenSeq(Texts(Meeting(cs))) = Clip(FlattenSeq(ss), lo, hi)
<1>1. PICK S : S = Seq(Byte)
  OBVIOUS
<1>2. ss \in Seq(S) /\ Len(ss) \in Nat
  BY <1>1
<1>3. PICK p : p = {i \in DOMAIN cs : cs[i].start <= cs[i].end}
  OBVIOUS
<1>4. PICK f : Picks(f, cs, p, Chunk) /\ Meeting(cs) = f[Len(cs)]
  BY <1>3, PickedSteps DEF Cutting, Meeting
<1>5. cs \in Seq(Chunk) /\ Len(cs) = Len(ss) /\ DOMAIN cs = 1 .. Len(ss)
  BY <1>2 DEF Cutting
<1>6. PICK M : M = {i \in 0 .. Len(ss) : FlattenSeq(Texts(f[i])) = Clip(Through(ss, i), lo, hi)}
  OBVIOUS
<1>7. 0 \in M
  <2>1. Through(ss, 0) = <<>> /\ f[0] = <<>>
    BY <1>4, ThroughSteps DEF Picks
  <2>2. Texts(<<>>) = <<>>
    BY DEF Texts
  <2>3. <<>> \in Seq(Byte) /\ Len(<<>>) = 0
    OBVIOUS
  <2>4. PICK e : e = Clip(<<>>, lo, hi)
    OBVIOUS
  <2>7. Smaller(hi, Len(<<>>)) = 0
    BY <2>3 DEF Smaller
  <2>8. e \in Seq(Byte) /\ Len(e) = IF lo <= 0 THEN 0 - lo ELSE 0
    BY <2>3, <2>4, <2>7, ClipElements
  <2>5. e \in Seq(Byte) /\ Len(e) = 0
    BY <2>8
  <2>6. e = <<>>
    BY <2>5
  <2> QED
    BY <1>2, <1>6, <2>1, <2>2, <2>4, <2>6, FlattenNone
<1>8. ASSUME NEW i \in 1 .. Len(ss), i - 1 \in M PROVE i \in M
  <2>1. PICK a, q, c, d : a = Through(ss, i - 1) /\ q = ss[i] /\ c = cs[i] /\ d = f[i - 1]
    OBVIOUS
  <2>2. i - 1 \in 0 .. Len(ss) /\ i \in 0 .. Len(ss)
    BY <1>2
  <2>3. a \in Seq(Byte) /\ Through(ss, i) = a \o q
    BY <2>1, <2>2, ThroughSteps
  <2>4. q \in Seq(Byte) /\ c \in Chunk
    BY <1>1, <1>2, <1>5, <2>1
  <2>5. c.token = q /\ c.start = From(Len(a), lo) /\ c.end = To(Len(a), q, hi)
    BY <2>1 DEF Cutting
  <2>6. d \in Seq(Chunk) /\ f[i] = (IF i \in p THEN Append(d, c) ELSE d)
    BY <1>4, <1>5, <2>1, <2>2 DEF Picks
  <2>7. FlattenSeq(Texts(d)) = Clip(a, lo, hi)
    BY <1>6, <1>8, <2>1
  <2>8. i \in p <=> From(Len(a), lo) <= To(Len(a), q, hi)
    BY <1>3, <1>5, <2>1, <2>5
  <2>9. CASE i \in p
    <3>3. Clip(a \o q, lo, hi) = Clip(a, lo, hi) \o Between(q, From(Len(a), lo), To(Len(a), q, hi))
      BY <2>3, <2>4, <2>8, <2>9, ClipStep
    <3>4. ChunkText(c) = Between(q, From(Len(a), lo), To(Len(a), q, hi))
      BY <2>5, Zenon DEF ChunkText, Between
    <3>1. Clip(a \o q, lo, hi) = Clip(a, lo, hi) \o ChunkText(c)
      BY <3>3, <3>4
    <3>2. FlattenSeq(Texts(Append(d, c))) = FlattenSeq(Texts(d)) \o ChunkText(c)
      BY <2>4, <2>6, TextsSteps
    <3> QED
      BY <1>6, <2>2, <2>3, <2>6, <2>7, <2>9, <3>1, <3>2
  <2>10. CASE i \notin p
    <3>1. Clip(a \o q, lo, hi) = Clip(a, lo, hi)
      BY <2>3, <2>4, <2>8, <2>10, ClipStep
    <3> QED
      BY <1>6, <2>2, <2>3, <2>6, <2>7, <2>10, <3>1
  <2> QED
    BY <2>9, <2>10
<1>9. Len(ss) \in M
  <2>1. Len(ss) \in 0 .. Len(ss)
    BY <1>2
  <2>2. \A i \in 0 .. Len(ss) : i \in M
    BY <1>2, <1>7, <1>8, UpTo
  <2> QED
    BY <2>1, <2>2
<1> QED
  BY <1>4, <1>5, <1>6, <1>9, ThroughSteps

----------------------------------------------------------------------------
(* The chunks of a view *)

LEMMA OfTwo ==
    ASSUME NEW m \in Int, NEW n \in Int
    PROVE  /\ Max({m, n}) = IF m < n THEN n ELSE m
           /\ Min({m, n}) = IF m < n THEN m ELSE n
<1>1. PICK x : x = (IF m < n THEN n ELSE m) /\ x \in {m, n} /\ \A y \in {m, n} : x >= y
  OBVIOUS
<1>2. PICK S : S = {m, n}
  OBVIOUS
<1>0. \A y \in S : y \in Int
  BY <1>2
<1>3. PICK z : z = Max(S)
  OBVIOUS
<1>4. z \in S /\ \A y \in S : z >= y
  <2>1. \E y \in S : \A w \in S : y >= w
    BY <1>1, <1>2
  <2> QED
    BY <1>3, <2>1 DEF Max
<1>5. z = x
  BY <1>0, <1>1, <1>2, <1>4
<1>6. PICK u : u = (IF m < n THEN m ELSE n) /\ u \in {m, n} /\ \A y \in {m, n} : u =< y
  OBVIOUS
<1>7. PICK w : w = Min(S)
  OBVIOUS
<1>8. w \in S /\ \A y \in S : w =< y
  <2>1. \E y \in S : \A r \in S : y =< r
    BY <1>2, <1>6
  <2> QED
    BY <1>7, <2>1 DEF Min
<1>9. w = u
  BY <1>0, <1>2, <1>6, <1>8
<1> QED
  BY <1>1, <1>2, <1>3, <1>5, <1>6, <1>7, <1>9

\* A view whose range lies in its node.
ViewInv(v) ==
    /\ v \in [tokens : Seq(Seq(Byte)), from : Nat, start : Nat, end : Nat]
    /\ v.from <= v.start /\ v.start <= v.end /\ v.end <= v.from + TextLen(v.tokens)
    /\ \A i \in 1 .. Len(v.tokens) : LeadsFirst(v.tokens[i])

Low(v) == v.start - v.from
High(v) == v.end - v.from

LEMMA ViewRange ==
    ASSUME NEW v, ViewInv(v)
    PROVE  /\ v.tokens \in Seq(Seq(Byte)) /\ FlattenSeq(v.tokens) \in Seq(Byte)
           /\ Len(v.tokens) \in Nat /\ v.from \in Nat
           /\ Low(v) \in Nat /\ High(v) \in Nat /\ Low(v) <= High(v)
           /\ High(v) <= Len(FlattenSeq(v.tokens))
           /\ v.start = v.from + Low(v) /\ v.end = v.from + High(v)
           /\ ViewLen(v) = High(v) - Low(v)
           /\ \A i \in 1 .. Len(v.tokens) : LeadsFirst(v.tokens[i])
<1>1. /\ v.tokens \in Seq(Seq(Byte)) /\ v.from \in Nat /\ v.start \in Nat /\ v.end \in Nat
      /\ v.from <= v.start /\ v.start <= v.end /\ v.end <= v.from + Len(FlattenSeq(v.tokens))
      /\ \A i \in 1 .. Len(v.tokens) : LeadsFirst(v.tokens[i])
  BY Zenon DEF ViewInv, TextLen
<1>2. FlattenSeq(v.tokens) \in Seq(Byte)
  BY <1>1, FlattenType
<1>3. Len(v.tokens) \in Nat /\ Len(FlattenSeq(v.tokens)) \in Nat
  BY <1>1, <1>2
<1> QED
  BY <1>1, <1>2, <1>3 DEF Low, High, ViewLen

LEMMA ViewCut ==
    ASSUME NEW v, ViewInv(v)
    PROVE  \E cs : /\ TokensWithRanges(v) = Meeting(cs)
                   /\ Cutting(cs, v.tokens, Low(v), High(v))
<1>1. PICK ss, n, from, lo, hi : /\ ss = v.tokens /\ n = Len(ss) /\ from = v.from
                                 /\ lo = Low(v) /\ hi = High(v)
  OBVIOUS
<1>2. /\ ss \in Seq(Seq(Byte)) /\ n \in Nat /\ from \in Nat /\ lo \in Nat /\ hi \in Nat
      /\ lo <= hi /\ hi <= Len(FlattenSeq(ss)) /\ v.start = from + lo /\ v.end = from + hi
  BY <1>1, ViewRange
<1>3. PICK cs : cs = [i \in DOMAIN v.tokens |->
                [token |-> v.tokens[i],
                 start |-> Max({v.start, TokenStart(v, i)}) - TokenStart(v, i),
                 end |-> Min({v.end, TokenStart(v, i + 1)}) - TokenStart(v, i)]]
  OBVIOUS
<1>4. TokensWithRanges(v) = Meeting(cs)
  BY <1>3, Zenon DEF TokensWithRanges
<1>5. DOMAIN ss = 1 .. n
  <2>1. PICK S : S = Seq(Byte) /\ ss \in Seq(S)
    BY <1>2
  <2> QED
    BY <1>1, <2>1
<1>6. ASSUME NEW i \in 1 .. n
      PROVE  /\ cs[i].token = ss[i] /\ cs[i] \in Chunk
             /\ cs[i].start = From(Len(Through(ss, i - 1)), lo)
             /\ cs[i].end = To(Len(Through(ss, i - 1)), ss[i], hi)
  <2>1. PICK a, q, b : a = Len(Through(ss, i - 1)) /\ q = ss[i] /\ b = Len(Through(ss, i))
    OBVIOUS
  <2>2. a \in Nat /\ Len(q) \in Nat /\ b = a + Len(q) /\ q \in Seq(Byte)
    <3>1. a \in Nat /\ Len(q) \in Nat /\ b = a + Len(q)
      BY <1>1, <1>2, <2>1, PieceStands
    <3>2. PICK S : S = Seq(Byte) /\ ss \in Seq(S)
      BY <1>2
    <3> QED
      BY <1>1, <2>1, <3>1, <3>2
  <2>3. TokenStart(v, i) = from + a
    BY <1>1, <2>1, Zenon DEF TokenStart, TextLen, Through
  <2>4. TokenStart(v, i + 1) = from + b
    <3>1. (i + 1) - 1 = i
      BY <1>2
    <3> QED
      BY <1>1, <2>1, <3>1, Zenon DEF TokenStart, TextLen, Through
  <2>5. PICK x, y : /\ x = Max({from + lo, from + a}) - (from + a)
                    /\ y = Min({from + hi, from + b}) - (from + a)
    OBVIOUS
  <2>6. x = From(a, lo) /\ y = To(a, q, hi)
    <3>1. PICK p1, p2, p3, p4 : /\ p1 = from + lo /\ p2 = from + a /\ p3 = from + hi /\ p4 = from + b
                                /\ p1 \in Int /\ p2 \in Int /\ p3 \in Int /\ p4 \in Int
      BY <1>2, <2>2
    <3>2. /\ Max({p1, p2}) = (IF p1 < p2 THEN p2 ELSE p1)
          /\ Min({p3, p4}) = (IF p3 < p4 THEN p3 ELSE p4)
      BY <3>1, OfTwo
    <3>3. x = (IF p1 < p2 THEN p2 ELSE p1) - p2 /\ y = (IF p3 < p4 THEN p3 ELSE p4) - p2
      BY <2>5, <3>1, <3>2
    <3> QED
      BY <1>2, <2>2, <3>1, <3>3 DEF From, To
  <2>7. cs[i] = [token |-> q, start |-> x, end |-> y]
    <3>1. cs[i] = [token |-> v.tokens[i],
                   start |-> Max({v.start, TokenStart(v, i)}) - TokenStart(v, i),
                   end |-> Min({v.end, TokenStart(v, i + 1)}) - TokenStart(v, i)]
      BY <1>1, <1>3, <1>5
    <3> QED
      BY <1>1, <1>2, <2>1, <2>3, <2>4, <2>5, <3>1, Zenon
  <2>8. cs[i].token = q /\ cs[i].start = x /\ cs[i].end = y
    BY <2>7
  <2>9. x \in Nat /\ y \in Int /\ y <= Len(q)
    BY <1>2, <2>2, <2>6 DEF From, To
  <2>10. cs[i] \in Chunk
    <3>1. [token |-> q, start |-> x, end |-> y] \in [token : Seq(Byte), start : Nat, end : Int]
      BY <2>2, <2>9
    <3> QED
      BY <2>7, <2>8, <2>9, <3>1 DEF Chunk
  <2> QED
    BY <2>1, <2>6, <2>8, <2>10
<1>7. cs \in Seq(Chunk) /\ Len(cs) = n
  <2>1. cs = [i \in 1 .. n |-> cs[i]]
    BY <1>1, <1>3, <1>5
  <2>2. \A i \in 1 .. n : cs[i] \in Chunk
    BY <1>6
  <2>3. cs \in [1 .. n -> Chunk]
    BY <2>1, <2>2, Zenon
  <2> QED
    BY <1>2, <2>3
<1>8. Cutting(cs, ss, lo, hi)
  BY <1>1, <1>6, <1>7 DEF Cutting
<1> QED
  BY <1>1, <1>4, <1>8

\* The bytes of a view.
LEMMA TrueBytesClip ==
    ASSUME NEW v, ViewInv(v)
    PROVE  /\ TrueBytes(v) = Clip(FlattenSeq(v.tokens), Low(v), High(v))
           /\ TrueBytes(v) \in Seq(Byte) /\ Len(TrueBytes(v)) = ViewLen(v)
           /\ \A q \in 1 .. ViewLen(v) : TrueBytes(v)[q] = FlattenSeq(v.tokens)[Low(v) + q]
<1>1. PICK w, lo, hi : w = FlattenSeq(v.tokens) /\ lo = Low(v) /\ hi = High(v)
  OBVIOUS
<1>2. /\ w \in Seq(Byte) /\ lo \in Nat /\ hi \in Nat /\ lo <= hi /\ hi <= Len(w)
      /\ ViewLen(v) = hi - lo
  BY <1>1, ViewRange
<1>3. TrueBytes(v) = SubSeq(w, lo + 1, hi)
  BY <1>1, Zenon DEF TrueBytes, Low, High
<1>4. Smaller(hi, Len(w)) = hi
  BY <1>2 DEF Smaller
<1>5. TrueBytes(v) = Clip(w, lo, hi)
  BY <1>3, <1>4, Zenon DEF Clip
<1>6. PICK t : t = Clip(w, lo, hi)
  OBVIOUS
<1>7. t \in Seq(Byte) /\ Len(t) = hi - lo /\ \A q \in 1 .. Len(t) : t[q] = w[lo + q]
  BY <1>2, <1>4, <1>6, ClipElements
<1> QED
  BY <1>1, <1>2, <1>5, <1>6, <1>7

\* The chunks of SyntaxData.
LEMMA ChunksJoined ==
    ASSUME NEW v, ViewInv(v)
    PROVE  /\ TokensWithRanges(v) \in Seq(Chunk)
           /\ FlattenSeq(Texts(TokensWithRanges(v))) = TrueBytes(v)
           /\ \A k \in 1 .. Len(TokensWithRanges(v)) :
                  TokensWithRanges(v)[k].start <= TokensWithRanges(v)[k].end
<1>1. PICK cs : TokensWithRanges(v) = Meeting(cs) /\ Cutting(cs, v.tokens, Low(v), High(v))
  BY ViewCut
<1>2. PICK p : p = {i \in DOMAIN cs : cs[i].start <= cs[i].end}
  OBVIOUS
<1>3. Meeting(cs) = Picked(cs, p) /\ cs \in Seq(Chunk)
  BY <1>1, <1>2 DEF Meeting, Cutting
<1>4. PICK ds : ds = Picked(cs, p)
  OBVIOUS
<1>5. ds \in Seq(Chunk) /\ ToSet(ds) = {cs[i] : i \in {j \in 1 .. Len(cs) : j \in p}}
  BY <1>3, <1>4, PickedElements
<1>6. ASSUME NEW k \in 1 .. Len(ds) PROVE ds[k].start <= ds[k].end
  <2>1. ds[k] \in ToSet(ds)
    BY <1>5 DEF ToSet
  <2> QED
    BY <1>2, <1>5, <2>1
<1> QED
  BY <1>1, <1>3, <1>4, <1>5, <1>6, ViewRange, CutJoined, TrueBytesClip

----------------------------------------------------------------------------
(* Reading the chunks as strs *)

LEMMA MinOf ==
    ASSUME NEW S \in SUBSET Nat, S # {}
    PROVE  Min(S) \in S /\ \A y \in S : Min(S) <= y
<1>1. \E x \in S : \A y \in S : x <= y
  BY Least
<1> QED
  BY <1>1 DEF Min

\* Where a method stops.
LEMMA Stopping ==
    ASSUME NEW cs \in Seq(Chunk), NEW stops, NEW k, k = FirstStop(cs, stops)
    PROVE  /\ k = 0 => \A i \in 1 .. Len(cs) : Readable(cs[i]) /\ i \notin stops
           /\ k # 0 => /\ k \in 1 .. Len(cs) /\ (~ Readable(cs[k]) \/ k \in stops)
                       /\ \A i \in 1 .. Len(cs) : i < k => Readable(cs[i]) /\ i \notin stops
<1>1. DOMAIN cs = 1 .. Len(cs) /\ Len(cs) \in Nat
  OBVIOUS
<1>2. PICK S : S = {i \in 1 .. Len(cs) : ~ Readable(cs[i]) \/ i \in stops}
  OBVIOUS
<1>3. k = IF S = {} THEN 0 ELSE Min(S)
  BY <1>1, <1>2 DEF FirstStop
<1>4. CASE S = {}
  BY <1>2, <1>3, <1>4
<1>5. CASE S # {}
  <2>1. S \in SUBSET Nat
    BY <1>1, <1>2
  <2>2. k \in S /\ \A y \in S : k <= y
    BY <1>3, <1>5, <2>1, MinOf
  <2>3. k \in Nat /\ k # 0 /\ \A i \in 1 .. Len(cs) : i < k => i \notin S
    BY <1>1, <1>2, <2>2
  <2> QED
    BY <1>2, <2>2, <2>3
<1> QED
  BY <1>4, <1>5

\* A place inside a character is inside a piece.
LEMMA Crossing ==
    ASSUME NEW T, NEW ss \in Seq(Seq(T)), \A i \in 1 .. Len(ss) : LeadsFirst(ss[i]),
           NEW c \in Nat, c <= Len(FlattenSeq(ss)), ~ IsBoundary(FlattenSeq(ss), c)
    PROVE  \E i \in 1 .. Len(ss) : Len(Through(ss, i - 1)) < c /\ c < Len(Through(ss, i))
<1>1. SUFFICES ASSUME \A i \in 1 .. Len(ss) :
                          ~ (Len(Through(ss, i - 1)) < c /\ c < Len(Through(ss, i)))
               PROVE  FALSE
  OBVIOUS
<1>2. PICK S : S = Seq(T)
  OBVIOUS
<1>3. ss \in Seq(S) /\ Len(ss) \in Nat
  BY <1>2
<1>4. PICK M : M = {i \in 0 .. Len(ss) : Len(Through(ss, i)) < c}
  OBVIOUS
<1>5. 0 \in M
  <2>1. c # 0
    BY DEF IsBoundary
  <2>2. Len(Through(ss, 0)) = 0
    <3>1. Through(ss, 0) = <<>>
      BY ThroughSteps
    <3> QED
      BY <3>1
  <2> QED
    BY <1>3, <1>4, <2>1, <2>2
<1>6. ASSUME NEW i \in 1 .. Len(ss), i - 1 \in M PROVE i \in M
  <2>1. PICK a, b : a = Len(Through(ss, i - 1)) /\ b = Len(Through(ss, i))
    OBVIOUS
  <2>2. i - 1 \in 0 .. Len(ss) /\ i \in 0 .. Len(ss)
    BY <1>3
  <2>3. a \in Nat /\ b \in Nat
    BY <2>1, <2>2, ThroughGrows
  <2>4. a < c /\ ~ (c < b)
    BY <1>1, <1>4, <1>6, <2>1
  <2>5. b # c
    BY <2>1, <2>2, PieceBoundary
  <2> QED
    BY <1>4, <2>1, <2>2, <2>3, <2>4, <2>5
<1>7. Len(ss) \in M
  <2>1. Len(ss) \in 0 .. Len(ss)
    BY <1>3
  <2>2. \A i \in 0 .. Len(ss) : i \in M
    BY <1>3, <1>5, <1>6, UpTo
  <2> QED
    BY <2>1, <2>2
<1>8. Len(FlattenSeq(ss)) < c /\ Len(FlattenSeq(ss)) \in Nat
  <2>1. PICK w : w = FlattenSeq(ss)
    OBVIOUS
  <2>2. w \in Seq(T)
    BY <2>1, FlattenType
  <2>3. Through(ss, Len(ss)) = w
    BY <2>1, ThroughSteps
  <2>4. Len(w) < c
    BY <1>4, <1>7, <2>3
  <2> QED
    BY <2>1, <2>2, <2>4
<1> QED
  BY <1>8

\* A part of a piece can be read if no end of the range cuts a character in it.
LEMMA CutReadable ==
    ASSUME NEW ss \in Seq(Seq(Byte)), \A i \in 1 .. Len(ss) : LeadsFirst(ss[i]),
           NEW lo \in Nat, NEW hi \in Nat, lo <= hi, hi <= Len(FlattenSeq(ss)),
           NEW cs, Cutting(cs, ss, lo, hi), NEW i \in 1 .. Len(ss)
    PROVE  LET a == Len(Through(ss, i - 1))
               b == Len(Through(ss, i))
           IN  cs[i].start <= cs[i].end =>
                   (Readable(cs[i]) <=> /\ a < lo => IsBoundary(FlattenSeq(ss), lo)
                                        /\ hi < b => IsBoundary(FlattenSeq(ss), hi))
<1>1. PICK a, b, q, w : /\ a = Len(Through(ss, i - 1)) /\ b = Len(Through(ss, i))
                        /\ q = ss[i] /\ w = FlattenSeq(ss)
  OBVIOUS
<1>2. a \in Nat /\ Len(q) \in Nat /\ b = a + Len(q)
  BY <1>1, PieceStands
<1>3. PICK c, x, y : c = cs[i] /\ x = c.start /\ y = c.end
  OBVIOUS
<1>4. c.token = q /\ x = From(a, lo) /\ y = To(a, q, hi)
  BY <1>1, <1>3 DEF Cutting
<1>5. SUFFICES ASSUME x <= y
               PROVE  Readable(c) <=> /\ a < lo => IsBoundary(w, lo)
                                      /\ hi < b => IsBoundary(w, hi)
  BY <1>1, <1>3
<1>6. /\ x = (IF a < lo THEN lo - a ELSE 0) /\ y = (IF hi < b THEN hi - a ELSE Len(q))
      /\ x \in 0 .. Len(q) /\ y \in 0 .. Len(q)
  BY <1>2, <1>4, <1>5 DEF From, To
<1>7. /\ IsBoundary(q, x) <=> IsBoundary(w, a + x)
      /\ IsBoundary(q, y) <=> IsBoundary(w, a + y)
  BY <1>1, <1>6, PieceBoundaries
<1>8. IsBoundary(w, a) /\ IsBoundary(w, b)
  <2>1. PICK S : S = Seq(Byte) /\ ss \in Seq(S)
    OBVIOUS
  <2>2. i - 1 \in 0 .. Len(ss) /\ i \in 0 .. Len(ss)
    BY <2>1
  <2> QED
    BY <1>1, <2>2, PieceBoundary
<1>9. Readable(c) <=> IsBoundary(q, x) /\ IsBoundary(q, y)
  BY <1>3, <1>4, <1>5 DEF Readable
<1>10. IsBoundary(q, x) <=> (a < lo => IsBoundary(w, lo))
  <2>1. CASE a < lo
    <3>1. a + x = lo
      BY <1>2, <1>6, <2>1
    <3> QED
      BY <1>7, <2>1, <3>1
  <2>2. CASE ~ (a < lo)
    <3>1. a + x = a
      BY <1>2, <1>6, <2>2
    <3> QED
      BY <1>7, <1>8, <2>2, <3>1
  <2> QED
    BY <2>1, <2>2
<1>11. IsBoundary(q, y) <=> (hi < b => IsBoundary(w, hi))
  <2>1. CASE hi < b
    <3>1. a + y = hi
      BY <1>2, <1>6, <2>1
    <3> QED
      BY <1>7, <2>1, <3>1
  <2>2. CASE ~ (hi < b)
    <3>1. a + y = b
      BY <1>2, <1>6, <2>2
    <3> QED
      BY <1>7, <1>8, <2>2, <3>1
  <2> QED
    BY <2>1, <2>2
<1> QED
  BY <1>9, <1>10, <1>11

\* All chunks of a view can be read if and only if it is cut between characters.
LEMMA ChunksReadable ==
    ASSUME NEW v, ViewInv(v)
    PROVE  (\A k \in 1 .. Len(TokensWithRanges(v)) : Readable(TokensWithRanges(v)[k]))
               <=> OnBoundaries(v)
<1>1. PICK cs : TokensWithRanges(v) = Meeting(cs) /\ Cutting(cs, v.tokens, Low(v), High(v))
  BY ViewCut
<1>2. PICK ss, w, lo, hi, ds : /\ ss = v.tokens /\ w = FlattenSeq(ss) /\ lo = Low(v) /\ hi = High(v)
                               /\ ds = TokensWithRanges(v)
  OBVIOUS
<1>3. /\ ss \in Seq(Seq(Byte)) /\ w \in Seq(Byte) /\ Len(ss) \in Nat
      /\ \A i \in 1 .. Len(ss) : LeadsFirst(ss[i])
      /\ lo \in Nat /\ hi \in Nat /\ lo <= hi /\ hi <= Len(w)
  BY <1>2, ViewRange
<1>4. PICK p : p = {i \in DOMAIN cs : cs[i].start <= cs[i].end}
  OBVIOUS
<1>5. cs \in Seq(Chunk) /\ Len(cs) = Len(ss) /\ ds = Picked(cs, p)
  BY <1>1, <1>2, <1>4 DEF Meeting, Cutting
<1>6. ds \in Seq(Chunk) /\ ToSet(ds) = {cs[i] : i \in {j \in 1 .. Len(cs) : j \in p}}
  BY <1>5, PickedElements
<1>7. \A k \in 1 .. Len(ds) : \E i \in 1 .. Len(ss) : i \in p /\ ds[k] = cs[i]
  <2> TAKE k \in 1 .. Len(ds)
  <2>1. ds[k] \in ToSet(ds)
    BY <1>6 DEF ToSet
  <2> QED
    BY <1>5, <1>6, <2>1
<1>8. \A i \in 1 .. Len(ss) : i \in p => \E k \in 1 .. Len(ds) : ds[k] = cs[i]
  <2> TAKE i \in 1 .. Len(ss)
  <2> HAVE i \in p
  <2>1. cs[i] \in ToSet(ds)
    BY <1>5, <1>6
  <2>2. DOMAIN ds = 1 .. Len(ds)
    BY <1>6
  <2> QED
    BY <2>1, <2>2 DEF ToSet
<1>9. \A i \in 1 .. Len(ss) : i \in p <=> cs[i].start <= cs[i].end
  BY <1>4, <1>5
<1>10. ASSUME NEW i \in 1 .. Len(ss), i \in p
       PROVE  Readable(cs[i]) <=> /\ Len(Through(ss, i - 1)) < lo => IsBoundary(w, lo)
                                  /\ hi < Len(Through(ss, i)) => IsBoundary(w, hi)
  BY <1>1, <1>2, <1>3, <1>9, <1>10, CutReadable
<1>11. OnBoundaries(v) <=> IsBoundary(w, lo) /\ IsBoundary(w, hi)
  BY <1>2, Zenon DEF OnBoundaries, Low, High
<1>12. ASSUME OnBoundaries(v), NEW k \in 1 .. Len(ds) PROVE Readable(ds[k])
  BY <1>7, <1>10, <1>11, <1>12
<1>13. ASSUME NEW c \in {lo, hi}, ~ IsBoundary(w, c)
       PROVE  \E k \in 1 .. Len(ds) : ~ Readable(ds[k])
  <2>1. PICK i \in 1 .. Len(ss) : Len(Through(ss, i - 1)) < c /\ c < Len(Through(ss, i))
    <3>1. c \in Nat /\ c <= Len(w)
      BY <1>3
    <3> QED
      BY <1>2, <1>3, <1>13, <3>1, Crossing
  <2>2. PICK a, b, q : a = Len(Through(ss, i - 1)) /\ b = Len(Through(ss, i)) /\ q = ss[i]
    OBVIOUS
  <2>3. a \in Nat /\ Len(q) \in Nat /\ b = a + Len(q)
    BY <1>3, <2>2, PieceStands
  <2>4. cs[i].start = From(a, lo) /\ cs[i].end = To(a, q, hi)
    BY <1>1, <1>2, <2>2 DEF Cutting
  <2>5. a < c /\ c < b
    BY <2>1, <2>2
  <2>6. cs[i].start <= cs[i].end
    <3>1. CASE c = lo
      BY <1>3, <2>3, <2>4, <2>5, <3>1 DEF From, To
    <3>2. CASE c = hi
      BY <1>3, <2>3, <2>4, <2>5, <3>2 DEF From, To
    <3> QED
      BY <3>1, <3>2
  <2>7. i \in p
    BY <1>9, <2>6
  <2>8. ~ Readable(cs[i])
    BY <1>10, <1>13, <2>1, <2>7
  <2> QED
    BY <1>8, <2>7, <2>8
<1>14. (\A k \in 1 .. Len(ds) : Readable(ds[k])) <=> OnBoundaries(v)
  <2>1. CASE OnBoundaries(v)
    BY <1>12, <2>1
  <2>2. CASE ~ OnBoundaries(v)
    BY <1>11, <1>13, <2>2
  <2> QED
    BY <2>1, <2>2
<1> QED
  BY <1>2, <1>14

\* What ChunksFaithful says of a view.
LEMMA ViewChunks ==
    ASSUME NEW v, ViewInv(v)
    PROVE  /\ FlattenSeq(DataChunks(v)) = TrueBytes(v)
           /\ DisplayText(v) = IF OnBoundaries(v) THEN Found(TrueBytes(v)) ELSE Panics
<1>1. PICK ds : ds = TokensWithRanges(v)
  OBVIOUS
<1>2. ds \in Seq(Chunk) /\ FlattenSeq(Texts(ds)) = TrueBytes(v)
  BY <1>1, ChunksJoined
<1>3. FlattenSeq(DataChunks(v)) = TrueBytes(v)
  BY <1>1, <1>2 DEF DataChunks
<1>4. PICK k : k = FirstStop(ds, {})
  OBVIOUS
<1>5. k # 0 <=> ~ OnBoundaries(v)
  <2>1. CASE k = 0
    BY <1>1, <1>2, <1>4, <2>1, Stopping, ChunksReadable
  <2>2. CASE k # 0
    BY <1>1, <1>2, <1>4, <2>2, Stopping, ChunksReadable
  <2> QED
    BY <2>1, <2>2
<1>6. DisplayText(v) = IF k # 0 THEN Panics ELSE Found(FlattenSeq(Texts(ds)))
  BY <1>1, <1>4, Zenon DEF DisplayText
<1> QED
  BY <1>2, <1>3, <1>5, <1>6

----------------------------------------------------------------------------
(* Where the chunks of a view stand in its bytes *)

LEMMA BeforeIs ==
    ASSUME NEW ds \in Seq(Chunk), NEW k \in 1 .. Len(ds) + 1
    PROVE  Before(ds, k) = Len(Through(Texts(ds), k - 1))
<1>1. PICK front : front = SubSeq(ds, 1, k - 1)
  OBVIOUS
<1>2. /\ front \in Seq(Chunk) /\ Len(front) = k - 1 /\ k - 1 \in Nat /\ k - 1 <= Len(ds)
      /\ \A i \in 1 .. k - 1 : front[i] = ds[i]
  <2>1. PICK a \in Nat, b \in Nat : a = 0 /\ b = k - 1 /\ a <= b /\ b <= Len(ds) /\ a + 1 = 1
    OBVIOUS
  <2>2. PICK x : x = SubSeq(ds, a + 1, b)
    OBVIOUS
  <2>3. x \in Seq(Chunk) /\ Len(x) = b - a /\ \A i \in 1 .. b - a : x[i] = ds[a + i]
    BY <2>1, <2>2, Part
  <2>4. x = front
    BY <1>1, <2>1, <2>2
  <2> QED
    BY <2>1, <2>3, <2>4
<1>3. PICK S, tt, ft : S = Seq(Byte) /\ tt = Texts(ds) /\ ft = Texts(front)
  OBVIOUS
<1>4. /\ tt \in Seq(S) /\ Len(tt) = Len(ds) /\ ft \in Seq(S) /\ Len(ft) = k - 1
      /\ \A i \in 1 .. k - 1 : ft[i] = tt[i]
  <2>1. /\ tt \in Seq(S) /\ Len(tt) = Len(ds)
        /\ \A i \in 1 .. Len(ds) : tt[i] = ChunkText(ds[i])
    BY <1>3, TextsSteps
  <2>2. /\ ft \in Seq(S) /\ Len(ft) = k - 1
        /\ \A i \in 1 .. k - 1 : ft[i] = ChunkText(front[i])
    BY <1>2, <1>3, TextsSteps
  <2>3. \A i \in 1 .. k - 1 : i \in 1 .. Len(ds)
    BY <1>2
  <2> QED
    BY <1>2, <2>1, <2>2, <2>3
<1>5. ft = SubSeq(tt, 1, k - 1)
  BY <1>2, <1>4
<1> QED
  BY <1>1, <1>3, <1>5, Zenon DEF Before, TextLen, Through

\* tt are the texts of the chunks ds and the pieces of w.
Tiles(ds, tt, w) ==
    /\ ds \in Seq(Chunk) /\ tt \in Seq(Seq(Byte)) /\ Len(tt) = Len(ds)
    /\ \A k \in 1 .. Len(ds) :
           /\ tt[k] = ChunkText(ds[k]) /\ ds[k] \in Chunk /\ ds[k].start <= ds[k].end
           /\ Len(tt[k]) = ds[k].end - ds[k].start
    /\ FlattenSeq(tt) = w
    /\ \A k \in 1 .. Len(ds) + 1 : Before(ds, k) = Len(Through(tt, k - 1))

LEMMA Tiled ==
    ASSUME NEW v, ViewInv(v), NEW ds, ds = TokensWithRanges(v), NEW tt, tt = Texts(ds),
           NEW w, w = TrueBytes(v)
    PROVE  Tiles(ds, tt, w)
<1>1. /\ ds \in Seq(Chunk) /\ FlattenSeq(tt) = w
      /\ \A k \in 1 .. Len(ds) : ds[k].start <= ds[k].end
  BY ChunksJoined
<1>2. /\ tt \in Seq(Seq(Byte)) /\ Len(tt) = Len(ds)
      /\ \A k \in 1 .. Len(ds) : tt[k] = ChunkText(ds[k])
  BY <1>1, TextsSteps
<1>3. \A k \in 1 .. Len(ds) : ds[k] \in Chunk
  BY <1>1
<1> QED
  BY <1>1, <1>2, <1>3, ChunkTypes, BeforeIs DEF Tiles

\* A chunk that can be read does not begin inside a character.
LEMMA ChunksLead ==
    ASSUME NEW v, ViewInv(v), NEW ds, ds = TokensWithRanges(v), NEW k \in 1 .. Len(ds),
           Readable(ds[k])
    PROVE  LeadsFirst(ChunkText(ds[k]))
<1>1. PICK cs : ds = Meeting(cs) /\ Cutting(cs, v.tokens, Low(v), High(v))
  BY ViewCut
<1>2. PICK p : p = {i \in DOMAIN cs : cs[i].start <= cs[i].end}
  OBVIOUS
<1>3. cs \in Seq(Chunk) /\ Len(cs) = Len(v.tokens) /\ ds = Picked(cs, p)
  BY <1>1, <1>2 DEF Meeting, Cutting
<1>4. ds \in Seq(Chunk) /\ ToSet(ds) = {cs[i] : i \in {j \in 1 .. Len(cs) : j \in p}}
  <2>1. PICK es : es = Picked(cs, p)
    OBVIOUS
  <2>2. es \in Seq(Chunk) /\ ToSet(es) = {cs[i] : i \in {j \in 1 .. Len(cs) : j \in p}}
    BY <1>3, <2>1, PickedElements
  <2> QED
    BY <1>3, <2>1, <2>2
<1>5. PICK i \in 1 .. Len(v.tokens) : ds[k] = cs[i]
  <2>1. ds[k] \in ToSet(ds)
    BY <1>4 DEF ToSet
  <2> QED
    BY <1>3, <1>4, <2>1
<1>6. PICK c, q, x, y, e : c = ds[k] /\ q = c.token /\ x = c.start /\ y = c.end /\ e = ChunkText(c)
  OBVIOUS
<1>7. LeadsFirst(q)
  BY <1>1, <1>5, <1>6, ViewRange DEF Cutting
<1>8. x <= y /\ IsBoundary(q, x)
  BY <1>6 DEF Readable
<1>9. c \in Chunk
  BY <1>4, <1>6
<1>10. /\ q \in Seq(Byte) /\ x \in Nat /\ y \in Int /\ y <= Len(q) /\ e \in Seq(Byte)
       /\ Len(e) = y - x /\ \A r \in 1 .. Len(e) : e[r] = q[x + r]
  BY <1>6, <1>8, <1>9, ChunkTypes
<1>11. SUFFICES ASSUME e # <<>> PROVE e[1] \notin Continuation
  BY <1>6 DEF LeadsFirst
<1>12. 1 \in 1 .. Len(e) /\ x < Len(q) /\ q # <<>>
  BY <1>8, <1>10, <1>11
<1>13. e[1] = q[x + 1]
  BY <1>10, <1>12
<1> QED
  BY <1>7, <1>8, <1>10, <1>12, <1>13 DEF IsBoundary, LeadsFirst

----------------------------------------------------------------------------
(* Searching *)

\* The bytes of a character.
LEMMA Characters ==
    ASSUME NEW c \in Chars
    PROVE  /\ Encode[c] \in Seq(Byte) /\ Len(Encode[c]) \in Nat /\ Len(Encode[c]) > 0
           /\ \A j \in 1 .. Len(Encode[c]) : Encode[c][j] \in Continuation <=> j > 1
<1>1. Encode \in [Chars -> Seq(Byte)]
  BY SyntaxTextAssumption, Zenon DEF SyntaxTextAssumption, Byte
<1>2. Encode[c] \in Seq(Byte)
  BY <1>1
<1>3. DOMAIN Encode[c] = 1 .. Len(Encode[c]) /\ Len(Encode[c]) \in Nat
  BY <1>2
<1> QED
  BY <1>2, <1>3, SyntaxTextAssumption DEF SyntaxTextAssumption

\* What it means that a character is at a place.
LEMMA OccursAt ==
    ASSUME NEW s \in Seq(Byte), NEW c \in Chars, NEW p
    PROVE  p \in Occurrences(s, c) <=>
               /\ p \in Nat /\ p + Len(Encode[c]) <= Len(s)
               /\ \A j \in 1 .. Len(Encode[c]) : s[p + j] = Encode[c][j]
<1>0. PICK e, m, n : e = Encode[c] /\ m = Len(e) /\ n = Len(s)
  OBVIOUS
<1>1. /\ e = Encode[c] /\ m = Len(e) /\ n = Len(s) /\ e \in Seq(Byte)
      /\ m \in Nat /\ m > 0 /\ n \in Nat
  <2>1. e \in Seq(Byte) /\ m \in Nat /\ m > 0
    BY <1>0, Characters
  <2>2. n \in Nat
    BY <1>0
  <2> QED
    BY <1>0, <2>1, <2>2
<1>2. p \in Occurrences(s, c) <=> p \in 0 .. n - 1 /\ IsPrefix(e, SubSeq(s, p + 1, n))
  BY <1>1 DEF Occurrences
<1>3. ASSUME p \in Nat, p < n
      PROVE  IsPrefix(e, SubSeq(s, p + 1, n)) <=> p + m <= n /\ \A j \in 1 .. m : s[p + j] = e[j]
  <2>1. PICK r : r = SubSeq(s, p + 1, n)
    OBVIOUS
  <2>2. r \in Seq(Byte) /\ Len(r) = n - p /\ \A j \in 1 .. n - p : r[j] = s[p + j]
    BY <1>1, <1>3, <2>1, Part
  <2>3. IsPrefix(e, r) <=> m <= Len(r) /\ SubSeq(e, 1, m) = SubSeq(r, 1, m)
    BY <1>1 DEF IsPrefix
  <2>4. ASSUME m <= Len(r)
        PROVE  SubSeq(e, 1, m) = SubSeq(r, 1, m) <=> \A j \in 1 .. m : r[j] = e[j]
    <3>1. PICK x, y : x = SubSeq(e, 1, m) /\ y = SubSeq(r, 1, m)
      OBVIOUS
    <3>2. /\ x \in Seq(Byte) /\ Len(x) = m /\ \A j \in 1 .. m : x[j] = e[j]
          /\ y \in Seq(Byte) /\ Len(y) = m /\ \A j \in 1 .. m : y[j] = r[j]
      BY <1>1, <2>2, <2>4, <3>1
    <3>3. x = y <=> \A j \in 1 .. m : x[j] = y[j]
      BY <1>1, <3>2, SameSeq
    <3> QED
      BY <3>1, <3>2, <3>3
  <2>5. m <= Len(r) <=> p + m <= n
    BY <1>1, <1>3, <2>2
  <2>6. ASSUME m <= Len(r), NEW j \in 1 .. m PROVE r[j] = s[p + j]
    BY <1>1, <1>3, <2>2, <2>6
  <2> QED
    BY <2>1, <2>3, <2>4, <2>5, <2>6
<1>4. p \in Nat /\ p + m <= n => p < n
  BY <1>1
<1>5. p \in 0 .. n - 1 <=> p \in Nat /\ p < n
  BY <1>1
<1> QED
  BY <1>1, <1>2, <1>3, <1>4, <1>5

\* Every byte is in a piece.
LEMMA Inside ==
    ASSUME NEW T, NEW ss \in Seq(Seq(T)), NEW c \in Nat, c < Len(FlattenSeq(ss))
    PROVE  \E i \in 1 .. Len(ss) : Len(Through(ss, i - 1)) <= c /\ c < Len(Through(ss, i))
<1>1. SUFFICES ASSUME \A i \in 1 .. Len(ss) :
                          ~ (Len(Through(ss, i - 1)) <= c /\ c < Len(Through(ss, i)))
               PROVE  FALSE
  OBVIOUS
<1>2. PICK S : S = Seq(T)
  OBVIOUS
<1>3. ss \in Seq(S) /\ Len(ss) \in Nat
  BY <1>2
<1>4. PICK M : M = {i \in 0 .. Len(ss) : Len(Through(ss, i)) <= c}
  OBVIOUS
<1>5. 0 \in M
  <2>1. Len(Through(ss, 0)) = 0
    <3>1. Through(ss, 0) = <<>>
      BY ThroughSteps
    <3> QED
      BY <3>1
  <2> QED
    BY <1>3, <1>4, <2>1
<1>6. ASSUME NEW i \in 1 .. Len(ss), i - 1 \in M PROVE i \in M
  <2>1. PICK b : b = Len(Through(ss, i))
    OBVIOUS
  <2>2. i \in 0 .. Len(ss)
    BY <1>3
  <2>3. b \in Nat
    BY <2>1, <2>2, ThroughGrows
  <2>4. ~ (c < b)
    BY <1>1, <1>4, <1>6, <2>1
  <2> QED
    BY <1>4, <2>1, <2>2, <2>3, <2>4
<1>7. Len(ss) \in M
  <2>1. Len(ss) \in 0 .. Len(ss)
    BY <1>3
  <2>2. \A i \in 0 .. Len(ss) : i \in M
    BY <1>3, <1>5, <1>6, UpTo
  <2> QED
    BY <2>1, <2>2
<1>8. PICK w : w = FlattenSeq(ss)
  OBVIOUS
<1>9. w \in Seq(T)
  BY <1>8, FlattenType
<1>10. Through(ss, Len(ss)) = w
  BY <1>8, ThroughSteps
<1>11. Len(w) <= c /\ Len(w) \in Nat
  BY <1>4, <1>7, <1>9, <1>10
<1> QED
  BY <1>8, <1>11

\* A character is in one piece, and its place in the text is the one in the piece.
LEMMA PieceOccurs ==
    ASSUME NEW tt \in Seq(Seq(Byte)), NEW c \in Chars, NEW k \in 1 .. Len(tt), NEW o,
           o \in Occurrences(tt[k], c)
    PROVE  /\ o \in Nat /\ o < Len(tt[k])
           /\ Len(Through(tt, k - 1)) + o \in Occurrences(FlattenSeq(tt), c)
<1>1. PICK S : S = Seq(Byte) /\ tt \in Seq(S)
  OBVIOUS
<1>2. PICK a, q, w, e, m : /\ a = Len(Through(tt, k - 1)) /\ q = tt[k] /\ w = FlattenSeq(tt)
                           /\ e = Encode[c] /\ m = Len(e)
  OBVIOUS
<1>3. q \in Seq(Byte) /\ w \in Seq(Byte)
  BY <1>1, <1>2, FlattenType
<1>4. m \in Nat /\ m > 0
  BY <1>2, Characters
<1>5. o \in Nat /\ o + m <= Len(q) /\ \A j \in 1 .. m : q[o + j] = e[j]
  BY <1>2, <1>3, OccursAt
<1>6. /\ a \in Nat /\ Len(q) \in Nat /\ Len(Through(tt, k)) = a + Len(q)
      /\ Len(Through(tt, k)) <= Len(w) /\ \A r \in 1 .. Len(q) : w[a + r] = q[r]
  BY <1>2, PieceStands
<1>7. Len(w) \in Nat
  BY <1>3
<1>8. ASSUME NEW j \in 1 .. m PROVE w[(a + o) + j] = e[j]
  <2>1. o + j \in 1 .. Len(q) /\ a + (o + j) = (a + o) + j
    BY <1>4, <1>5, <1>6
  <2> QED
    BY <1>5, <1>6, <2>1
<1>9. a + o \in Nat /\ (a + o) + m <= Len(w)
  BY <1>4, <1>5, <1>6, <1>7
<1>10. a + o \in Occurrences(w, c)
  BY <1>2, <1>3, <1>8, <1>9, OccursAt
<1> QED
  BY <1>2, <1>4, <1>5, <1>6, <1>10

LEMMA OccursInPiece ==
    ASSUME NEW tt \in Seq(Seq(Byte)), \A i \in 1 .. Len(tt) : LeadsFirst(tt[i]),
           NEW c \in Chars, NEW p, p \in Occurrences(FlattenSeq(tt), c)
    PROVE  \E k \in 1 .. Len(tt) :
               /\ Len(Through(tt, k - 1)) <= p /\ p < Len(Through(tt, k))
               /\ p - Len(Through(tt, k - 1)) \in Occurrences(tt[k], c)
<1>1. PICK S : S = Seq(Byte) /\ tt \in Seq(S)
  OBVIOUS
<1>2. PICK w, e, m : w = FlattenSeq(tt) /\ e = Encode[c] /\ m = Len(e)
  OBVIOUS
<1>3. w \in Seq(Byte) /\ Len(w) \in Nat
  <2>1. w \in Seq(Byte)
    BY <1>2, FlattenType
  <2> QED
    BY <2>1
<1>4. m \in Nat /\ m > 0 /\ \A j \in 1 .. m : e[j] \in Continuation <=> j > 1
  BY <1>2, Characters
<1>5. p \in Nat /\ p + m <= Len(w) /\ \A j \in 1 .. m : w[p + j] = e[j]
  BY <1>2, <1>3, OccursAt
<1>6. PICK k \in 1 .. Len(tt) : Len(Through(tt, k - 1)) <= p /\ p < Len(Through(tt, k))
  <2>1. p < Len(w)
    BY <1>3, <1>4, <1>5
  <2> QED
    BY <1>2, <1>5, <2>1, Inside
<1>7. PICK a, q, b : a = Len(Through(tt, k - 1)) /\ q = tt[k] /\ b = Len(Through(tt, k))
  OBVIOUS
<1>8. /\ a \in Nat /\ Len(q) \in Nat /\ b = a + Len(q) /\ b <= Len(w)
      /\ \A r \in 1 .. Len(q) : w[a + r] = q[r]
  BY <1>2, <1>7, PieceStands
<1>9. q \in Seq(Byte)
  BY <1>1, <1>7
<1>10. a <= p /\ p < b
  BY <1>6, <1>7
<1>11. p + m <= b
  <2>1. SUFFICES ASSUME b < p + m PROVE FALSE
    BY <1>4, <1>5, <1>8
  <2>2. IsBoundary(w, b)
    <3>1. k \in 0 .. Len(tt)
      BY <1>1
    <3> QED
      BY <1>2, <1>7, <3>1, PieceBoundary
  <2>3. b # 0 /\ b < Len(w)
    BY <1>3, <1>4, <1>5, <1>8, <1>10, <2>1
  <2>4. w[b + 1] \notin Continuation
    BY <2>2, <2>3 DEF IsBoundary
  <2>5. PICK j : j = (b - p) + 1 /\ j \in 1 .. m /\ j > 1 /\ p + j = b + 1
    BY <1>4, <1>5, <1>8, <1>10, <2>1
  <2> QED
    BY <1>4, <1>5, <2>4, <2>5
<1>12. PICK o : o = p - a /\ o \in Nat /\ o + m <= Len(q)
  BY <1>4, <1>5, <1>8, <1>10, <1>11
<1>13. ASSUME NEW j \in 1 .. m PROVE q[o + j] = e[j]
  <2>1. o + j \in 1 .. Len(q) /\ a + (o + j) = p + j
    BY <1>4, <1>5, <1>8, <1>12
  <2> QED
    BY <1>5, <1>8, <2>1
<1>14. o \in Occurrences(q, c)
  BY <1>2, <1>9, <1>12, <1>13, OccursAt
<1> QED
  BY <1>6, <1>7, <1>12, <1>14

\* A view that is cut between characters has no chunk that begins inside one.
LEMMA BoundaryView ==
    ASSUME NEW v, ViewInv(v), OnBoundaries(v), NEW ds, ds = TokensWithRanges(v),
           NEW tt, tt = Texts(ds)
    PROVE  /\ \A k \in 1 .. Len(ds) : Readable(ds[k])
           /\ \A k \in 1 .. Len(tt) : LeadsFirst(tt[k])
<1>1. \A k \in 1 .. Len(ds) : Readable(ds[k])
  BY ChunksReadable
<1>2. Len(tt) = Len(ds) /\ \A k \in 1 .. Len(ds) : tt[k] = ChunkText(ds[k])
  BY Tiled DEF Tiles
<1>3. ASSUME NEW k \in 1 .. Len(ds) PROVE LeadsFirst(ChunkText(ds[k]))
  BY <1>1, ChunksLead
<1> QED
  BY <1>1, <1>2, <1>3

\* The place found in the first chunk with the character is the first in the text.
LEMMA ViewFind ==
    ASSUME NEW v, ViewInv(v), OnBoundaries(v), NEW c \in Chars
    PROVE  LET places == Occurrences(TrueBytes(v), c) IN
           FindChar(v, c) = IF places = {} THEN Nothing ELSE Found(Min(places))
<1>1. PICK ds, tt, w : ds = TokensWithRanges(v) /\ tt = Texts(ds) /\ w = TrueBytes(v)
  OBVIOUS
<1>2. /\ ds \in Seq(Chunk) /\ tt \in Seq(Seq(Byte)) /\ Len(tt) = Len(ds) /\ FlattenSeq(tt) = w
      /\ \A k \in 1 .. Len(ds) : tt[k] = ChunkText(ds[k])
      /\ \A k \in 1 .. Len(ds) + 1 : Before(ds, k) = Len(Through(tt, k - 1))
  <2>1. Tiles(ds, tt, w)
    BY <1>1, Tiled
  <2> QED
    BY <2>1 DEF Tiles
<1>3. /\ \A k \in 1 .. Len(ds) : Readable(ds[k])
      /\ \A k \in 1 .. Len(tt) : LeadsFirst(tt[k])
  BY <1>1, BoundaryView
<1>4. w \in Seq(Byte) /\ Len(ds) \in Nat
  BY <1>1, <1>2, TrueBytesClip
<1>5. PICK places : places = Occurrences(w, c)
  OBVIOUS
<1>6. \A p \in places : p \in Nat
  BY <1>4, <1>5, OccursAt
<1>7. PICK stops : stops = {i \in DOMAIN ds : Occurrences(ChunkText(ds[i]), c) # {}}
  OBVIOUS
<1>8. PICK k : k = FirstStop(ds, stops)
  OBVIOUS
<1>9. DOMAIN ds = 1 .. Len(ds)
  BY <1>2
<1>10. \A i \in 1 .. Len(ds) : i \in stops <=> Occurrences(tt[i], c) # {}
  BY <1>2, <1>7, <1>9
<1>11. FindChar(v, c) = IF k = 0 THEN Nothing
                        ELSE IF ~ Readable(ds[k]) THEN Panics
                        ELSE Found(Before(ds, k) + Min(Occurrences(ChunkText(ds[k]), c)))
  BY <1>1, <1>7, <1>8, Zenon DEF FindChar
<1>12. CASE k = 0
  <2>1. \A i \in 1 .. Len(ds) : i \notin stops
    BY <1>2, <1>8, <1>12, Stopping
  <2>2. ASSUME NEW p \in places PROVE FALSE
    <3>1. PICK i \in 1 .. Len(tt) : p - Len(Through(tt, i - 1)) \in Occurrences(tt[i], c)
      BY <1>2, <1>3, <1>5, OccursInPiece
    <3> QED
      BY <1>2, <1>10, <2>1, <3>1
  <2>3. places = {}
    BY <2>2
  <2> QED
    BY <1>1, <1>5, <1>11, <1>12, <2>3
<1>13. CASE k # 0
  <2>1. /\ k \in 1 .. Len(ds) /\ k \in stops
        /\ \A i \in 1 .. Len(ds) : i < k => i \notin stops
    BY <1>2, <1>3, <1>8, <1>13, Stopping
  <2>2. PICK here, a, b, q : /\ here = Occurrences(tt[k], c) /\ q = tt[k]
                             /\ a = Len(Through(tt, k - 1)) /\ b = Len(Through(tt, k))
    OBVIOUS
  <2>3. here # {} /\ \A o \in here : o \in Nat /\ o < Len(q) /\ a + o \in places
    BY <1>2, <1>5, <1>10, <2>1, <2>2, PieceOccurs
  <2>4. here \in SUBSET Nat
    BY <2>3
  <2>5. PICK x : x = Min(here) /\ x \in here /\ \A y \in here : x <= y
    BY <2>3, <2>4, MinOf
  <2>6. a \in Nat /\ b = a + Len(q) /\ Len(q) \in Nat
    BY <1>2, <2>1, <2>2, PieceStands
  <2>7. ASSUME NEW p \in places PROVE a + x <= p
    <3>1. PICK i \in 1 .. Len(tt) : /\ Len(Through(tt, i - 1)) <= p
                                    /\ p - Len(Through(tt, i - 1)) \in Occurrences(tt[i], c)
      BY <1>2, <1>3, <1>5, OccursInPiece
    <3>2. i \in stops
      BY <1>2, <1>10, <3>1
    <3>3. ~ (i < k)
      BY <1>2, <2>1, <3>2
    <3>4. CASE i = k
      <4>1. p - a \in here /\ x <= p - a
        BY <2>2, <2>5, <3>1, <3>4
      <4> QED
        BY <1>6, <2>3, <2>5, <2>6, <4>1
    <3>5. CASE i # k
      <4>1. k \in 0 .. Len(tt) /\ i - 1 \in 0 .. Len(tt) /\ k <= i - 1
        BY <1>2, <1>4, <2>1, <3>3, <3>5
      <4>2. b <= Len(Through(tt, i - 1)) /\ Len(Through(tt, i - 1)) \in Nat
        BY <1>2, <2>2, <4>1, ThroughGrows
      <4> QED
        BY <1>6, <2>3, <2>5, <2>6, <3>1, <4>2
    <3> QED
      BY <3>4, <3>5
  <2>8. places # {} /\ Min(places) = a + x
    <3>1. a + x \in places
      BY <2>3, <2>5
    <3>2. places \in SUBSET Nat /\ places # {}
      BY <1>6, <3>1
    <3>3. Min(places) \in places /\ Min(places) <= a + x
      BY <3>1, <3>2, MinOf
    <3>4. a + x <= Min(places) /\ Min(places) \in Nat /\ a + x \in Nat
      BY <1>6, <2>7, <3>1, <3>3
    <3> QED
      BY <3>2, <3>3, <3>4
  <2>9. Before(ds, k) = a /\ ChunkText(ds[k]) = q /\ Readable(ds[k])
    BY <1>2, <1>3, <1>4, <2>1, <2>2
  <2>10. FindChar(v, c) = Found(a + x)
    BY <1>11, <1>13, <2>2, <2>5, <2>9
  <2> QED
    BY <1>1, <1>5, <2>8, <2>10
<1> QED
  BY <1>12, <1>13

\* At the place of a character that character is returned.
LEMMA ViewCharAt ==
    ASSUME NEW v, ViewInv(v), OnBoundaries(v), NEW c \in Chars,
           NEW p, p \in Occurrences(TrueBytes(v), c)
    PROVE  CharAt(v, p) = Found(c)
<1> DEFINE chunks == TokensWithRanges(v)
           stop == FirstStop(chunks, {i \in DOMAIN chunks : HoldsOffset(chunks, i, p)})
           found == {d \in Chars : p - Before(chunks, stop) \in Occurrences(ChunkText(chunks[stop]), d)}
<1>0. CharAt(v, p) = IF stop = 0 THEN Nothing
                     ELSE IF Readable(chunks[stop]) /\ found # {} THEN Found(CHOOSE d \in found : TRUE)
                     ELSE Panics
  BY Zenon DEF CharAt
<1>1. PICK ds, tt, w : ds = chunks /\ tt = Texts(ds) /\ w = TrueBytes(v)
  OBVIOUS
<1>2. /\ ds \in Seq(Chunk) /\ tt \in Seq(Seq(Byte)) /\ Len(tt) = Len(ds) /\ FlattenSeq(tt) = w
      /\ \A k \in 1 .. Len(ds) : tt[k] = ChunkText(ds[k])
      /\ \A k \in 1 .. Len(ds) + 1 : Before(ds, k) = Len(Through(tt, k - 1))
  <2>1. Tiles(ds, tt, w)
    BY <1>1, Tiled
  <2> QED
    BY <2>1 DEF Tiles
<1>3. /\ \A k \in 1 .. Len(ds) : Readable(ds[k])
      /\ \A k \in 1 .. Len(tt) : LeadsFirst(tt[k])
  BY <1>1, BoundaryView
<1>4. w \in Seq(Byte) /\ Len(ds) \in Nat
  BY <1>1, <1>2, TrueBytesClip
<1>5. p \in Nat
  BY <1>1, <1>4, OccursAt
<1>6. PICK stops : stops = {i \in DOMAIN chunks : HoldsOffset(chunks, i, p)}
  OBVIOUS
<1>7. PICK k : k = FirstStop(ds, stops) /\ k = stop
  BY <1>1, <1>6
<1>8. DOMAIN ds = 1 .. Len(ds)
  BY <1>2
<1>9. ASSUME NEW i \in 1 .. Len(ds)
      PROVE  /\ Before(ds, i) = Len(Through(tt, i - 1)) /\ Before(ds, i) \in Nat
             /\ Before(ds, i) + Len(ChunkText(ds[i])) = Len(Through(tt, i))
             /\ i \in stops <=> Before(ds, i) <= p /\ p < Len(Through(tt, i))
  <2>1. i \in 1 .. Len(ds) + 1 /\ i \in 1 .. Len(tt)
    BY <1>2, <1>4
  <2>2. Before(ds, i) = Len(Through(tt, i - 1)) /\ ChunkText(ds[i]) = tt[i]
    BY <1>2, <2>1
  <2>3. /\ Len(Through(tt, i - 1)) \in Nat
        /\ Len(Through(tt, i)) = Len(Through(tt, i - 1)) + Len(tt[i])
    BY <1>2, <2>1, PieceStands
  <2>4. i \in stops <=> HoldsOffset(ds, i, p)
    BY <1>1, <1>6, <1>8
  <2> QED
    BY <2>2, <2>3, <2>4 DEF HoldsOffset
<1>10. PICK i \in 1 .. Len(ds) : /\ Len(Through(tt, i - 1)) <= p /\ p < Len(Through(tt, i))
                                 /\ p - Len(Through(tt, i - 1)) \in Occurrences(tt[i], c)
  BY <1>1, <1>2, <1>3, OccursInPiece
<1>11. i \in stops
  BY <1>9, <1>10
<1>12. k # 0
  BY <1>2, <1>7, <1>11, Stopping
<1>13. k \in 1 .. Len(ds) /\ k \in stops /\ ~ (i < k)
  BY <1>2, <1>3, <1>7, <1>11, <1>12, Stopping
<1>14. k = i
  <2>1. SUFFICES ASSUME k # i PROVE FALSE
    OBVIOUS
  <2>2. k \in 0 .. Len(tt) /\ i - 1 \in 0 .. Len(tt) /\ k <= i - 1
    BY <1>2, <1>4, <1>13, <2>1
  <2>3. Len(Through(tt, k)) <= Len(Through(tt, i - 1)) /\ Len(Through(tt, k)) \in Nat
    BY <1>2, <2>2, ThroughGrows
  <2>4. Len(Through(tt, i - 1)) \in Nat
    BY <1>9
  <2> QED
    BY <1>5, <1>9, <1>10, <1>13, <2>3, <2>4
<1>15. PICK off, q, here : /\ off = p - Before(ds, k) /\ q = ChunkText(ds[k])
                           /\ here = found /\ here = {d \in Chars : off \in Occurrences(q, d)}
  BY <1>1, <1>7
<1>16. q = tt[i] /\ off \in Occurrences(q, c) /\ q \in Seq(Byte)
  <2>1. q = tt[i] /\ off = p - Len(Through(tt, i - 1))
    BY <1>2, <1>9, <1>14, <1>15
  <2>2. PICK S : S = Seq(Byte) /\ tt \in Seq(S)
    BY <1>2
  <2>3. tt[i] \in S
    BY <1>2, <2>2
  <2> QED
    BY <1>10, <2>1, <2>2, <2>3
<1>17. ASSUME NEW d \in here PROVE d = c
  <2>1. d \in Chars /\ off \in Occurrences(q, d)
    BY <1>15
  <2>2. PICK e, f, m, n : e = Encode[c] /\ f = Encode[d] /\ m = Len(e) /\ n = Len(f)
    OBVIOUS
  <2>3. /\ e \in Seq(Byte) /\ f \in Seq(Byte) /\ m \in Nat /\ n \in Nat
    BY <2>1, <2>2, Characters
  <2>4. /\ \A j \in 1 .. m : q[off + j] = e[j]
        /\ \A j \in 1 .. n : q[off + j] = f[j]
    BY <1>16, <2>1, <2>2, OccursAt
  <2>5. CASE m <= n
    <3>1. PICK x, y : x = SubSeq(e, 1, m) /\ y = SubSeq(f, 1, m)
      OBVIOUS
    <3>2. /\ x \in Seq(Byte) /\ Len(x) = m /\ \A j \in 1 .. m : x[j] = e[j]
          /\ y \in Seq(Byte) /\ Len(y) = m /\ \A j \in 1 .. m : y[j] = f[j]
      BY <2>2, <2>3, <2>5, <3>1
    <3>3. \A j \in 1 .. m : x[j] = y[j]
      BY <2>3, <2>4, <2>5, <3>2
    <3>4. x = y
      BY <3>2, <3>3, SameSeq
    <3>5. IsPrefix(e, f)
      BY <2>2, <2>5, <3>1, <3>4 DEF IsPrefix
    <3> QED
      BY <2>1, <2>2, <3>5, SyntaxTextAssumption DEF SyntaxTextAssumption
  <2>6. CASE ~ (m <= n)
    <3>0. n <= m
      BY <2>3, <2>6
    <3>1. PICK x, y : x = SubSeq(e, 1, n) /\ y = SubSeq(f, 1, n)
      OBVIOUS
    <3>2. /\ x \in Seq(Byte) /\ Len(x) = n /\ \A j \in 1 .. n : x[j] = e[j]
          /\ y \in Seq(Byte) /\ Len(y) = n /\ \A j \in 1 .. n : y[j] = f[j]
      BY <2>2, <2>3, <3>0, <3>1
    <3>3. \A j \in 1 .. n : x[j] = y[j]
      BY <2>3, <2>4, <3>0, <3>2
    <3>4. x = y
      BY <3>2, <3>3, SameSeq
    <3>5. IsPrefix(f, e)
      BY <2>2, <3>0, <3>1, <3>4 DEF IsPrefix
    <3> QED
      BY <2>1, <2>2, <3>5, SyntaxTextAssumption DEF SyntaxTextAssumption
  <2> QED
    BY <2>5, <2>6
<1>18. c \in here
  BY <1>15, <1>16
<1>19. (CHOOSE d \in here : TRUE) = c
  <2>1. here = {c}
    BY <1>17, <1>18
  <2> QED
    BY <2>1
<1>20. CharAt(v, p) = IF k = 0 THEN Nothing
                      ELSE IF Readable(ds[k]) /\ here # {} THEN Found(CHOOSE d \in here : TRUE)
                      ELSE Panics
  <2> HIDE DEF chunks, stop, found
  <2> QED
    BY <1>0, <1>1, <1>7, <1>15
<1> QED
  BY <1>3, <1>12, <1>13, <1>18, <1>19, <1>20

\* Behind the end there is no character.
LEMMA ViewCharAtEnd ==
    ASSUME NEW v, ViewInv(v), OnBoundaries(v)
    PROVE  CharAt(v, ViewLen(v)) = Nothing
<1>1. PICK ds, tt, w, p : /\ ds = TokensWithRanges(v) /\ tt = Texts(ds) /\ w = TrueBytes(v)
                          /\ p = ViewLen(v)
  OBVIOUS
<1>2. /\ ds \in Seq(Chunk) /\ tt \in Seq(Seq(Byte)) /\ Len(tt) = Len(ds) /\ FlattenSeq(tt) = w
      /\ \A k \in 1 .. Len(ds) : tt[k] = ChunkText(ds[k])
      /\ \A k \in 1 .. Len(ds) + 1 : Before(ds, k) = Len(Through(tt, k - 1))
  <2>1. Tiles(ds, tt, w)
    BY <1>1, Tiled
  <2> QED
    BY <2>1 DEF Tiles
<1>3. \A k \in 1 .. Len(ds) : Readable(ds[k])
  BY <1>1, BoundaryView
<1>4. w \in Seq(Byte) /\ Len(ds) \in Nat /\ p = Len(w) /\ p \in Nat
  <2>1. w \in Seq(Byte) /\ p = Len(w)
    BY <1>1, TrueBytesClip
  <2> QED
    BY <1>2, <2>1
<1>5. PICK stops, k : stops = {i \in DOMAIN ds : HoldsOffset(ds, i, p)} /\ k = FirstStop(ds, stops)
  OBVIOUS
<1>6. ASSUME NEW i \in 1 .. Len(ds) PROVE i \notin stops
  <2>1. i \in 1 .. Len(ds) + 1 /\ i \in 1 .. Len(tt)
    BY <1>2, <1>4
  <2>2. Before(ds, i) = Len(Through(tt, i - 1)) /\ ChunkText(ds[i]) = tt[i]
    BY <1>2, <2>1
  <2>3. /\ Len(Through(tt, i - 1)) \in Nat /\ Len(tt[i]) \in Nat
        /\ Len(Through(tt, i)) = Len(Through(tt, i - 1)) + Len(tt[i])
        /\ Len(Through(tt, i)) <= Len(w)
    BY <1>2, <2>1, PieceStands
  <2>5. PICK a, m, b, n : /\ a = Len(Through(tt, i - 1)) /\ m = Len(tt[i])
                          /\ b = Len(Through(tt, i)) /\ n = Len(w)
    OBVIOUS
  <2>6. a \in Nat /\ m \in Nat /\ b = a + m /\ b <= n /\ n \in Nat /\ p = n
    BY <1>4, <2>3, <2>5
  <2>7. Before(ds, i) = a /\ Len(ChunkText(ds[i])) = m
    BY <2>2, <2>5
  <2>4. ~ (p < Before(ds, i) + Len(ChunkText(ds[i])))
    BY <2>6, <2>7
  <2> QED
    BY <1>5, <2>4 DEF HoldsOffset
<1>7. k = 0
  <2>1. k # 0 => k \in 1 .. Len(ds) /\ (~ Readable(ds[k]) \/ k \in stops)
    BY <1>2, <1>5, Stopping
  <2> QED
    BY <1>3, <1>6, <2>1
<1>8. CharAt(v, p) = Nothing
  BY <1>1, <1>5, <1>7, Zenon DEF CharAt
<1> QED
  BY <1>1, <1>8

----------------------------------------------------------------------------
(* Comparison with a str *)

LEMMA PrefixElements ==
    ASSUME NEW q \in Seq(Byte), NEW r \in Seq(Byte)
    PROVE  IsPrefix(q, r) <=> Len(q) <= Len(r) /\ \A j \in 1 .. Len(q) : r[j] = q[j]
<1>1. PICK m : m = Len(q) /\ m \in Nat /\ Len(r) \in Nat
  OBVIOUS
<1>2. IsPrefix(q, r) <=> m <= Len(r) /\ SubSeq(q, 1, m) = SubSeq(r, 1, m)
  BY <1>1 DEF IsPrefix
<1>3. ASSUME m <= Len(r)
      PROVE  SubSeq(q, 1, m) = SubSeq(r, 1, m) <=> \A j \in 1 .. m : r[j] = q[j]
  <2>1. PICK x, y : x = SubSeq(q, 1, m) /\ y = SubSeq(r, 1, m)
    OBVIOUS
  <2>2. /\ x \in Seq(Byte) /\ Len(x) = m /\ \A j \in 1 .. m : x[j] = q[j]
        /\ y \in Seq(Byte) /\ Len(y) = m /\ \A j \in 1 .. m : y[j] = r[j]
    BY <1>1, <1>3, <2>1
  <2>3. x = y <=> \A j \in 1 .. m : x[j] = y[j]
    BY <1>1, <2>2, SameSeq
  <2> QED
    BY <2>1, <2>2, <2>3
<1> QED
  BY <1>1, <1>2, <1>3

\* q comes next in s behind n bytes.
ComesAt(q, s, n) ==
    Len(q) > 0 => n + Len(q) <= Len(s) /\ \A j \in 1 .. Len(q) : s[n + j] = q[j]

LEMMA PrefixOfRest ==
    ASSUME NEW q \in Seq(Byte), NEW s \in Seq(Byte), NEW n \in Nat
    PROVE  IsPrefix(q, SubSeq(s, n + 1, Len(s))) <=> ComesAt(q, s, n)
<1>1. PICK m, l : m = Len(q) /\ l = Len(s)
  OBVIOUS
<1>2. m \in Nat /\ l \in Nat
  BY <1>1
<1>3. PICK r : r = SubSeq(s, n + 1, l)
  OBVIOUS
<1>4. CASE n <= l
  <2>1. r \in Seq(Byte) /\ Len(r) = l - n /\ \A j \in 1 .. l - n : r[j] = s[n + j]
    BY <1>1, <1>2, <1>3, <1>4, Part
  <2>2. IsPrefix(q, r) <=> m <= l - n /\ \A j \in 1 .. m : r[j] = q[j]
    BY <1>1, <2>1, PrefixElements
  <2>3. ASSUME m <= l - n, NEW j \in 1 .. m PROVE r[j] = s[n + j]
    BY <1>2, <1>4, <2>1, <2>3
  <2>4. m <= l - n <=> n + m <= l
    BY <1>2
  <2>5. m = 0 => n + m <= l
    BY <1>2, <1>4
  <2>6. m = 0 => \A j \in 1 .. m : r[j] = q[j]
    OBVIOUS
  <2>7. m > 0 <=> m # 0
    BY <1>2
  <2> QED
    BY <1>1, <1>3, <2>2, <2>3, <2>4, <2>5, <2>6, <2>7 DEF ComesAt
<1>5. CASE ~ (n <= l)
  <2>1. n + 1 > l /\ n + 1 \in Int
    BY <1>2, <1>5
  <2>2. r = <<>>
    BY <1>1, <1>2, <1>3, <2>1
  <2>3. r \in Seq(Byte) /\ Len(r) = 0
    BY <2>2
  <2>4. IsPrefix(q, r) <=> m <= 0 /\ \A j \in 1 .. m : r[j] = q[j]
    BY <1>1, <2>3, PrefixElements
  <2>5. ~ (m > 0 /\ n + m <= l)
    BY <1>2, <1>5
  <2>6. m <= 0 <=> ~ (m > 0)
    BY <1>2
  <2>7. m <= 0 => \A j \in 1 .. m : r[j] = q[j]
    BY <1>2
  <2> QED
    BY <1>1, <1>3, <2>4, <2>5, <2>6, <2>7 DEF ComesAt
<1> QED
  BY <1>4, <1>5

\* Piece k is q, of length m, and stands between the places a and b of w.
Stands(tt, w, k, a, b, q, m) ==
    /\ a = Len(Through(tt, k - 1)) /\ b = Len(Through(tt, k)) /\ q = tt[k] /\ m = Len(q)
    /\ a \in Nat /\ m \in Nat /\ b \in Nat /\ b = a + m /\ b <= Len(w)
    /\ \A r \in 1 .. m : w[a + r] = q[r]

LEMMA Standing ==
    ASSUME NEW tt \in Seq(Seq(Byte)), NEW k \in 1 .. Len(tt), NEW w, w = FlattenSeq(tt)
    PROVE  \E a, b, q, m : Stands(tt, w, k, a, b, q, m)
<1>1. PICK a, b, q, m : a = Len(Through(tt, k - 1)) /\ b = Len(Through(tt, k)) /\ q = tt[k] /\ m = Len(q)
  OBVIOUS
<1>2. a \in Nat /\ m \in Nat /\ b = a + m /\ b <= Len(w) /\ \A r \in 1 .. m : w[a + r] = q[r]
  <2>1. /\ Len(Through(tt, k - 1)) \in Nat /\ Len(tt[k]) \in Nat
        /\ Len(Through(tt, k)) = Len(Through(tt, k - 1)) + Len(tt[k])
        /\ Len(Through(tt, k)) <= Len(FlattenSeq(tt))
        /\ \A r \in 1 .. Len(tt[k]) : FlattenSeq(tt)[Len(Through(tt, k - 1)) + r] = tt[k][r]
    BY PieceStands
  <2> QED
    BY <1>1, <2>1, Zenon
<1>3. b \in Nat
  <2>1. a \in Nat /\ m \in Nat /\ b = a + m
    BY <1>2
  <2> QED
    BY <2>1
<1>4. Stands(tt, w, k, a, b, q, m)
  BY <1>1, <1>2, <1>3, Zenon DEF Stands
<1> QED
  BY <1>4

\* Each piece comes where it is expected if and only if the whole text does.
LEMMA PiecesCome ==
    ASSUME NEW tt \in Seq(Seq(Byte)), NEW s \in Seq(Byte)
    PROVE  (\A k \in 1 .. Len(tt) : ComesAt(tt[k], s, Len(Through(tt, k - 1))))
               <=> ComesAt(FlattenSeq(tt), s, 0)
<1>1. PICK w, l, n : w = FlattenSeq(tt) /\ l = Len(s) /\ n = Len(w)
  OBVIOUS
<1>2. w \in Seq(Byte) /\ l \in Nat /\ n \in Nat
  <2>1. w \in Seq(Byte)
    BY <1>1, FlattenType
  <2> QED
    BY <1>1, <2>1
<1>3. ASSUME NEW k \in 1 .. Len(tt) PROVE \E a, b, q, m : Stands(tt, w, k, a, b, q, m)
  BY <1>1, Standing
<1>4. ASSUME ComesAt(w, s, 0), NEW k \in 1 .. Len(tt)
      PROVE  ComesAt(tt[k], s, Len(Through(tt, k - 1)))
  <2>0. PICK a, b, q, m : Stands(tt, w, k, a, b, q, m)
    BY <1>3
  <2>1. /\ a = Len(Through(tt, k - 1)) /\ q = tt[k] /\ m = Len(q)
        /\ a \in Nat /\ m \in Nat /\ a + m <= n /\ \A r \in 1 .. m : w[a + r] = q[r]
    BY <1>1, <2>0 DEF Stands
  <2>2. SUFFICES ASSUME m > 0
                 PROVE  a + m <= l /\ \A j \in 1 .. m : s[a + j] = q[j]
    BY <1>1, <2>1 DEF ComesAt
  <2>7. a \in Nat /\ m \in Nat /\ a + m <= n
    BY <2>1
  <2>8. n \in Nat
    BY <1>2
  <2>6. n > 0
    BY <2>2, <2>7, <2>8
  <2>3. n <= l /\ \A j \in 1 .. n : s[0 + j] = w[j]
    <3>1. 0 + n <= l /\ \A j \in 1 .. n : s[0 + j] = w[j]
      BY <1>1, <1>4, <2>6 DEF ComesAt
    <3> QED
      BY <1>2, <3>1
  <2>9. n <= l /\ l \in Nat
    BY <1>2, <2>3
  <2>4. a + m <= l
    BY <2>7, <2>8, <2>9
  <2>5. ASSUME NEW j \in 1 .. m PROVE s[a + j] = q[j]
    <3>1. a + j \in 1 .. n /\ 0 + (a + j) = a + j
      BY <2>7, <2>8
    <3>2. s[0 + (a + j)] = w[a + j]
      BY <2>3, <3>1
    <3> QED
      BY <2>1, <3>1, <3>2
  <2> QED
    BY <2>4, <2>5
<1>5. ASSUME \A k \in 1 .. Len(tt) : ComesAt(tt[k], s, Len(Through(tt, k - 1)))
      PROVE  ComesAt(w, s, 0)
  <2>1. ASSUME NEW c \in Nat, c < n PROVE c < l /\ s[c + 1] = w[c + 1]
    <3>1. PICK k \in 1 .. Len(tt) : Len(Through(tt, k - 1)) <= c /\ c < Len(Through(tt, k))
      BY <1>1, <2>1, Inside
    <3>0. PICK a, b, q, m : Stands(tt, w, k, a, b, q, m)
      BY <1>3
    <3>2. /\ a = Len(Through(tt, k - 1)) /\ q = tt[k] /\ m = Len(q)
          /\ Len(Through(tt, k)) = a + m
          /\ a \in Nat /\ m \in Nat /\ a + m <= n /\ \A r \in 1 .. m : w[a + r] = q[r]
      BY <1>1, <3>0 DEF Stands
    <3>3. a <= c /\ c < a + m
      BY <3>1, <3>2
    <3>4. ComesAt(q, s, a)
      BY <1>5, <3>2
    <3>10. a \in Nat /\ m \in Nat /\ a + m <= n
      BY <3>2
    <3>8. m > 0
      BY <3>3, <3>10
    <3>5. a + m <= l /\ \A j \in 1 .. m : s[a + j] = q[j]
      BY <1>1, <3>2, <3>4, <3>8 DEF ComesAt
    <3>6. PICK j : j = (c - a) + 1 /\ j \in 1 .. m /\ a + j = c + 1
      BY <3>3, <3>10
    <3>7. s[a + j] = q[j] /\ w[a + j] = q[j]
      BY <3>2, <3>5, <3>6
    <3>11. a + m <= l /\ l \in Nat
      BY <1>2, <3>5
    <3>9. c < l
      BY <3>3, <3>10, <3>11
    <3> QED
      BY <3>6, <3>7, <3>9
  <2>2. SUFFICES ASSUME n > 0 PROVE 0 + n <= l /\ \A j \in 1 .. n : s[0 + j] = w[j]
    BY <1>1 DEF ComesAt
  <2>3. n - 1 < l
    BY <1>2, <2>1, <2>2
  <2>4. ASSUME NEW j \in 1 .. n PROVE s[0 + j] = w[j]
    <3>1. PICK c : c = j - 1 /\ c \in Nat /\ c < n /\ c + 1 = j /\ 0 + j = j
      BY <1>2
    <3> QED
      BY <2>1, <3>1
  <2> QED
    BY <1>2, <2>3, <2>4
<1> QED
  BY <1>1, <1>4, <1>5

\* What == with a str answers.
LEMMA ViewEqStr ==
    ASSUME NEW v, ViewInv(v), OnBoundaries(v), NEW s \in Seq(Byte)
    PROVE  EqStr(v, s) = Found(TrueBytes(v) = s)
<1> DEFINE chunks == TokensWithRanges(v)
           Rest(i) == SubSeq(s, Before(chunks, i) + 1, Len(s))
           stop == FirstStop(chunks, {i \in DOMAIN chunks : ~ IsPrefix(ChunkText(chunks[i]), Rest(i))})
<1>1. EqStr(v, s) = IF stop = 0 THEN Found(Rest(Len(chunks) + 1) = <<>>)
                    ELSE IF ~ Readable(chunks[stop]) THEN Panics
                    ELSE Found(FALSE)
  BY Zenon DEF EqStr
<1>2. PICK ds, tt, w, stops : /\ ds = chunks /\ tt = Texts(ds) /\ w = TrueBytes(v)
          /\ stops = {i \in DOMAIN chunks : ~ IsPrefix(ChunkText(chunks[i]), Rest(i))}
  OBVIOUS
<1>3. PICK k : k = FirstStop(ds, stops) /\ k = stop
  BY <1>2
<1>4. PICK rest : rest = SubSeq(s, Before(ds, Len(ds) + 1) + 1, Len(s)) /\ rest = Rest(Len(chunks) + 1)
  BY <1>2
<1>5. \A i \in DOMAIN ds : i \in stops <=>
          ~ IsPrefix(ChunkText(ds[i]), SubSeq(s, Before(ds, i) + 1, Len(s)))
  BY <1>2
<1>6. EqStr(v, s) = IF k = 0 THEN Found(rest = <<>>)
                    ELSE IF ~ Readable(ds[k]) THEN Panics ELSE Found(FALSE)
  <2> HIDE DEF chunks, Rest, stop
  <2> QED
    BY <1>1, <1>2, <1>3, <1>4
<1>7. /\ ds \in Seq(Chunk) /\ tt \in Seq(Seq(Byte)) /\ Len(tt) = Len(ds) /\ FlattenSeq(tt) = w
      /\ \A i \in 1 .. Len(ds) : tt[i] = ChunkText(ds[i])
      /\ \A i \in 1 .. Len(ds) + 1 : Before(ds, i) = Len(Through(tt, i - 1))
  <2>1. Tiles(ds, tt, w)
    BY <1>2, Tiled
  <2> QED
    BY <2>1 DEF Tiles
<1>8. \A i \in 1 .. Len(ds) : Readable(ds[i])
  BY <1>2, BoundaryView
<1>9. w \in Seq(Byte) /\ Len(ds) \in Nat /\ Len(w) \in Nat /\ Len(s) \in Nat
  <2>1. w \in Seq(Byte)
    BY <1>2, TrueBytesClip
  <2> QED
    BY <1>7, <2>1
<1>10. ASSUME NEW i \in 1 .. Len(ds)
       PROVE  i \in stops <=> ~ ComesAt(tt[i], s, Len(Through(tt, i - 1)))
  <2>1. i \in DOMAIN ds /\ i \in 1 .. Len(ds) + 1 /\ i \in 1 .. Len(tt)
    BY <1>7, <1>9
  <2>2. PICK q, a : q = tt[i] /\ a = Len(Through(tt, i - 1))
    OBVIOUS
  <2>3. a \in Nat /\ q \in Seq(Byte)
    <3>1. a \in Nat
      BY <1>7, <2>1, <2>2, PieceStands
    <3>2. PICK S : S = Seq(Byte) /\ tt \in Seq(S)
      BY <1>7
    <3>3. q \in S
      BY <2>1, <2>2, <3>2
    <3> QED
      BY <3>1, <3>2, <3>3
  <2>4. ChunkText(ds[i]) = q /\ Before(ds, i) = a
    BY <1>7, <2>1, <2>2
  <2>5. i \in stops <=> ~ IsPrefix(q, SubSeq(s, a + 1, Len(s)))
    BY <1>5, <2>1, <2>4
  <2> QED
    BY <2>2, <2>3, <2>5, PrefixOfRest
<1>11. (\A i \in 1 .. Len(ds) : i \notin stops) <=> ComesAt(w, s, 0)
  BY <1>7, <1>10, PiecesCome
<1>12. ComesAt(w, s, 0) <=> Len(w) <= Len(s) /\ \A j \in 1 .. Len(w) : s[j] = w[j]
  <2>1. PICK n, l : n = Len(w) /\ l = Len(s) /\ n \in Nat /\ l \in Nat
    BY <1>9
  <2>2. \A j \in 1 .. n : 0 + j = j
    BY <2>1
  <2>3. 0 + n = n
    BY <2>1
  <2>4. ComesAt(w, s, 0) <=> (n > 0 => n <= l /\ \A j \in 1 .. n : s[j] = w[j])
    BY <2>1, <2>2, <2>3 DEF ComesAt
  <2> QED
    BY <2>1, <2>4
<1>13. rest = <<>> <=> Len(s) <= Len(w)
  <2>1. Before(ds, Len(ds) + 1) = Len(w)
    <3>1. Len(ds) + 1 \in 1 .. Len(ds) + 1 /\ (Len(ds) + 1) - 1 = Len(ds)
      BY <1>9
    <3>2. Before(ds, Len(ds) + 1) = Len(Through(tt, Len(ds)))
      BY <1>7, <3>1
    <3> QED
      BY <1>7, <3>2, ThroughSteps
  <2>2. PICK n, l : n = Len(w) /\ l = Len(s) /\ n \in Nat /\ l \in Nat
    BY <1>9
  <2>3. rest = SubSeq(s, n + 1, l)
    BY <1>4, <2>1, <2>2
  <2>4. CASE l <= n
    BY <2>2, <2>3, <2>4
  <2>5. CASE ~ (l <= n)
    <3>1. Len(rest) = l - n /\ rest \in Seq(Byte)
      BY <2>2, <2>3, <2>5, Part
    <3> QED
      BY <2>2, <2>5, <3>1
  <2> QED
    BY <2>2, <2>4, <2>5
<1>14. w = s <=> Len(w) = Len(s) /\ \A j \in 1 .. Len(w) : w[j] = s[j]
  BY <1>9, SameSeq
<1>15. CASE k = 0
  <2>1. ComesAt(w, s, 0)
    BY <1>3, <1>7, <1>11, <1>15, Stopping
  <2>2. w = s <=> rest = <<>>
    BY <1>9, <1>12, <1>13, <1>14, <2>1
  <2>3. PICK b, c : b = (w = s) /\ c = (rest = <<>>) /\ b = c
    BY <2>2
  <2> QED
    BY <1>2, <1>6, <1>15, <2>3
<1>16. CASE k # 0
  <2>1. k \in 1 .. Len(ds) /\ k \in stops
    BY <1>3, <1>7, <1>8, <1>16, Stopping
  <2>2. ~ (w = s)
    BY <1>9, <1>11, <1>12, <1>14, <2>1
  <2>3. (w = s) = FALSE
    BY <2>2
  <2> QED
    BY <1>2, <1>6, <1>8, <1>16, <2>1, <2>3
<1> QED
  BY <1>15, <1>16

----------------------------------------------------------------------------
(* Slicing *)

\* A sum that is smaller than the modulus, or less than twice as large.
LEMMA Sums ==
    ASSUME NEW m \in Nat, NEW n \in Nat
    PROVE  /\ m + n < U32 => Plus(m, n) = m + n
           /\ U32 <= m + n /\ m + n < 2 * U32 => Plus(m, n) = (m + n) - U32
<1>1. PICK u : u = U32 /\ u \in Nat /\ u > 0
  BY SyntaxTextAssumption DEF SyntaxTextAssumption
<1>2. PICK x : x = m + n /\ x \in Nat
  OBVIOUS
<1>3. ASSUME NEW q \in Nat, NEW r \in 0 .. u - 1, x = u * q + r
      PROVE  x % u = r
  <2>1. u \in Nat \ {0}
    BY <1>1
  <2> QED
    BY <1>2, <1>3, <2>1, ModUnique
<1>4. x < u => x % u = x
  BY <1>1, <1>2
<1>5. ASSUME u <= x, x < 2 * u PROVE x % u = x - u
  <2>1. x = u * 1 + (x - u) /\ x - u \in 0 .. u - 1
    BY <1>1, <1>2, <1>5
  <2> QED
    BY <1>3, <2>1
<1> QED
  BY <1>1, <1>2, <1>4, <1>5 DEF Plus

\* A view whose text has offsets.
Fits(v) == v.from + TextLen(v.tokens) < U32

\* The part of a view from m to n.
Ranged(v, m, n) == [v EXCEPT !.start = v.start + m, !.end = v.start + n]

\* Bounds within a view give that part of it, all others panic.
LEMMA SliceRange ==
    ASSUME NEW v, ViewInv(v), Fits(v), NEW from \in Bounds, NEW to \in Bounds,
           NEW m, m = SliceStart(v, from), NEW n, n = SliceEnd(v, to), NEW s, s = Sliced(v, from, to)
    PROVE  /\ m \in Nat /\ n \in Nat
           /\ m <= n /\ n <= ViewLen(v) => /\ ~ SlicePanics(v, from, to)
                                           /\ s = Ranged(v, m, n)
           /\ ~ (m <= n /\ n <= ViewLen(v)) => SlicePanics(v, from, to)
<1>1. PICK u, a, b : u = U32 /\ a = v.start /\ b = v.end
  OBVIOUS
<1>2. /\ u \in Nat /\ a \in Nat /\ b \in Nat /\ a <= b /\ b < u
      /\ v \in [tokens : Seq(Seq(Byte)), from : Nat, start : Nat, end : Nat]
      /\ ViewLen(v) = b - a
  <2>1. u \in Nat
    BY <1>1, SyntaxTextAssumption DEF SyntaxTextAssumption
  <2>2. PICK f, l : f = v.from /\ l = TextLen(v.tokens)
    OBVIOUS
  <2>3. /\ v \in [tokens : Seq(Seq(Byte)), from : Nat, start : Nat, end : Nat]
        /\ a <= b /\ b <= f + l /\ f + l < u
    BY <1>1, <2>2, Zenon DEF ViewInv, Fits
  <2>4. a \in Nat /\ b \in Nat /\ f \in Nat
    BY <1>1, <2>2, <2>3
  <2>5. l \in Nat
    <3>1. FlattenSeq(v.tokens) \in Seq(Byte)
      BY ViewRange
    <3> QED
      BY <2>2, <3>1 DEF TextLen
  <2>6. b < u
    BY <2>1, <2>3, <2>4, <2>5
  <2> QED
    BY <1>1, <2>1, <2>3, <2>4, <2>6 DEF ViewLen
<1>3. from = NoBound \/ from \in 0 .. u - 1
  BY <1>1 DEF Bounds
<1>4. to = NoBound \/ to \in 0 .. u - 1
  BY <1>1 DEF Bounds
<1>5. m \in Nat /\ m < u
  BY <1>2, <1>3 DEF SliceStart
<1>6. n \in Nat /\ n < u /\ (n = b - a \/ n \in 0 .. u - 1)
  <2>1. n = b - a \/ n \in 0 .. u - 1
    BY <1>2, <1>4, Zenon DEF SliceEnd
  <2> QED
    BY <1>2, <2>1
<1>7. PICK c, d : c = Plus(a, m) /\ d = Plus(c, n - m)
  OBVIOUS
<1>8. s = [v EXCEPT !.start = c, !.end = d]
  BY <1>1, <1>7, Zenon DEF Sliced
<1>9. s.start = c /\ s.end = d
  BY <1>2, <1>8
<1>10. SlicePanics(v, from, to) <=>
           \/ m > n
           \/ PlusPanics(a, m)
           \/ PlusPanics(c, n - m)
           \/ c > d
           \/ ~ (a <= c /\ d <= b)
  BY <1>1, <1>9, Zenon DEF SlicePanics
<1>11. CASE m <= n /\ n <= b - a
  <2>1. a + m < u /\ a + m \in Nat /\ a + n \in Nat /\ n - m \in Nat
        /\ (a + m) + (n - m) = a + n /\ a + n < u
    BY <1>2, <1>5, <1>6, <1>11
  <2>2. c = a + m
    BY <1>1, <1>2, <1>5, <1>7, <2>1, Sums
  <2>3. c \in Nat /\ c + (n - m) = a + n
    BY <2>1, <2>2
  <2>4. d = a + n
    BY <1>1, <1>7, <2>1, <2>3, Sums
  <2>5. ~ PlusPanics(a, m) /\ ~ PlusPanics(c, n - m)
    <3>1. ~ (a + m >= u)
      BY <1>2, <2>1
    <3>2. ~ (c + (n - m) >= u)
      BY <1>2, <2>1, <2>3
    <3> QED
      BY <1>1, <3>1, <3>2 DEF PlusPanics
  <2>6. ~ (m > n) /\ ~ (c > d) /\ a <= c /\ d <= b
    BY <1>2, <1>5, <1>6, <1>11, <2>2, <2>4
  <2> QED
    BY <1>1, <1>2, <1>5, <1>6, <1>8, <1>10, <1>11, <2>2, <2>4, <2>5, <2>6 DEF Ranged
<1>12. CASE m <= n /\ ~ (n <= b - a)
  <2>1. CASE u <= a + m
    <3>1. c = (a + m) - u
      <4>1. a + m < 2 * u
        BY <1>2, <1>5
      <4> QED
        BY <1>1, <1>2, <1>5, <1>7, <2>1, <4>1, Sums
    <3>2. ~ (a <= c)
      BY <1>2, <1>5, <3>1
    <3> QED
      BY <1>2, <1>5, <1>6, <1>10, <1>12, <3>2
  <2>2. CASE a + m < u
    <3>1. c = a + m /\ c \in Nat /\ n - m \in Nat /\ c + (n - m) = a + n /\ a + n < 2 * u
      <4>1. c = a + m
        BY <1>1, <1>2, <1>5, <1>7, <2>2, Sums
      <4> QED
        BY <1>2, <1>5, <1>6, <1>12, <4>1
    <3>2. CASE a + n < u
      <4>1. d = a + n
        BY <1>1, <1>7, <3>1, <3>2, Sums
      <4>2. ~ (d <= b)
        BY <1>2, <1>6, <1>12, <4>1
      <4> QED
        BY <1>2, <1>5, <1>6, <1>10, <1>12, <4>2
    <3>3. CASE u <= a + n
      <4>1. d = (a + n) - u
        <5>1. PICK e : e = n - m /\ e \in Nat /\ c + e = a + n /\ c \in Nat
          BY <3>1
        <5>2. u <= c + e /\ c + e < 2 * u
          BY <3>1, <3>3, <5>1
        <5>3. Plus(c, e) = (c + e) - u
          BY <1>1, <5>1, <5>2, Sums
        <5> QED
          BY <1>7, <5>1, <5>3
      <4>2. c > d
        <5>1. c = a + m
          BY <3>1
        <5> QED
          BY <1>2, <1>5, <1>6, <4>1, <5>1
      <4> QED
        BY <1>2, <1>5, <1>6, <1>10, <1>12, <4>2
    <3> QED
      BY <1>2, <1>6, <3>2, <3>3
  <2> QED
    BY <1>2, <1>5, <2>1, <2>2
<1>13. CASE ~ (m <= n)
  <2>1. m > n
    BY <1>5, <1>6, <1>13
  <2> QED
    BY <1>5, <1>6, <1>10, <1>13, <2>1
<1> QED
  BY <1>11, <1>12, <1>13, <1>2

\* Then it is that part of its bytes.
LEMMA SliceBytes ==
    ASSUME NEW v, ViewInv(v), NEW m \in Nat, NEW n \in Nat, m <= n, n <= ViewLen(v),
           NEW s, s = Ranged(v, m, n)
    PROVE  /\ ViewInv(s) /\ s.tokens = v.tokens /\ s.from = v.from
           /\ TrueBytes(s) = SubSeq(TrueBytes(v), m + 1, n)
<1>1. PICK w, lo, hi, f : w = FlattenSeq(v.tokens) /\ lo = Low(v) /\ hi = High(v) /\ f = v.from
  OBVIOUS
<1>2. /\ w \in Seq(Byte) /\ lo \in Nat /\ hi \in Nat /\ lo <= hi /\ hi <= Len(w) /\ Len(w) \in Nat
      /\ ViewLen(v) = hi - lo /\ v.start = f + lo /\ v.end = f + hi /\ f \in Nat
  <2>1. /\ w \in Seq(Byte) /\ lo \in Nat /\ hi \in Nat /\ lo <= hi /\ hi <= Len(w)
        /\ ViewLen(v) = hi - lo /\ v.start = f + lo /\ v.end = f + hi /\ f \in Nat
    BY <1>1, ViewRange
  <2> QED
    BY <2>1
<1>3. /\ v \in [tokens : Seq(Seq(Byte)), from : Nat, start : Nat, end : Nat]
      /\ \A i \in 1 .. Len(v.tokens) : LeadsFirst(v.tokens[i])
  BY DEF ViewInv
<1>4. PICK a, b : a = f + lo + m /\ b = f + lo + n
  OBVIOUS
<1>5. a \in Nat /\ b \in Nat /\ f <= a /\ a <= b /\ b <= f + Len(w)
  BY <1>2, <1>4
<1>6. s = [v EXCEPT !.start = a, !.end = b]
  BY <1>2, <1>4 DEF Ranged
<1>7. /\ s \in [tokens : Seq(Seq(Byte)), from : Nat, start : Nat, end : Nat]
      /\ s.tokens = v.tokens /\ s.from = f /\ s.start = a /\ s.end = b
  BY <1>1, <1>3, <1>5, <1>6
<1>8. ViewInv(s)
  BY <1>1, <1>3, <1>5, <1>7 DEF ViewInv, TextLen
<1>9. PICK x, y : x = TrueBytes(s) /\ y = TrueBytes(v)
  OBVIOUS
<1>10. ViewLen(s) = n - m /\ Low(s) = lo + m /\ FlattenSeq(s.tokens) = w
  <2>1. b - a = n - m /\ a - f = lo + m
    BY <1>2, <1>4
  <2> QED
    BY <1>1, <1>7, <2>1 DEF ViewLen, Low
<1>11. x \in Seq(Byte) /\ Len(x) = n - m /\ \A q \in 1 .. n - m : x[q] = w[(lo + m) + q]
  BY <1>8, <1>9, <1>10, TrueBytesClip
<1>12. y \in Seq(Byte) /\ Len(y) = hi - lo /\ \A q \in 1 .. hi - lo : y[q] = w[lo + q]
  BY <1>1, <1>2, <1>9, TrueBytesClip
<1>13. PICK z : z = SubSeq(y, m + 1, n)
  OBVIOUS
<1>14. z \in Seq(Byte) /\ Len(z) = n - m /\ \A q \in 1 .. n - m : z[q] = y[m + q]
  <2>1. n <= Len(y)
    BY <1>2, <1>12
  <2> QED
    BY <1>12, <1>13, <2>1, Part
<1>15. ASSUME NEW q \in 1 .. n - m PROVE x[q] = z[q]
  <2>1. PICK r : r = m + q /\ r \in 1 .. hi - lo /\ lo + r = (lo + m) + q
    BY <1>2
  <2>2. y[r] = w[lo + r]
    BY <1>12, <2>1
  <2> QED
    BY <1>11, <1>14, <2>1, <2>2
<1>16. x = z
  BY <1>11, <1>14, <1>15, SameSeq
<1> QED
  BY <1>1, <1>7, <1>8, <1>9, <1>13, <1>16

----------------------------------------------------------------------------
(* The invariant *)

\* A text that consists of whole characters.
Coded(s) ==
    \E cc \in Seq(Seq(Byte)) : /\ \A i \in 1 .. Len(cc) : \E c \in Chars : cc[i] = Encode[c]
                               /\ s = FlattenSeq(cc)

LEMMA CodedBytes ==
    ASSUME NEW string \in Seq(Chars)
    PROVE  /\ Bytes(string) \in Seq(Byte) /\ LeadsFirst(Bytes(string))
           /\ Coded(Bytes(string))
<1>1. PICK cc : cc = [i \in DOMAIN string |-> Encode[string[i]]]
  OBVIOUS
<1>2. PICK n : n = Len(string) /\ n \in Nat /\ DOMAIN string = 1 .. n
  OBVIOUS
<1>3. \A i \in 1 .. n : string[i] \in Chars
  BY <1>2
<1>4. \A i \in 1 .. n : cc[i] = Encode[string[i]] /\ cc[i] \in Seq(Byte)
  BY <1>1, <1>2, <1>3, Characters
<1>5. cc \in Seq(Seq(Byte)) /\ Len(cc) = n
  <2>1. PICK S : S = Seq(Byte)
    OBVIOUS
  <2>2. cc = [i \in 1 .. n |-> cc[i]]
    BY <1>1, <1>2, Zenon
  <2>3. cc \in [1 .. n -> S]
    BY <1>4, <2>1, <2>2, Zenon
  <2>4. cc \in Seq(S) /\ Len(cc) = n
    BY <1>2, <2>3
  <2> QED
    BY <2>1, <2>4
<1>6. Bytes(string) = FlattenSeq(cc)
  BY <1>1, Zenon DEF Bytes
<1>7. \A i \in 1 .. Len(cc) : LeadsFirst(cc[i])
  <2>1. ASSUME NEW i \in 1 .. n PROVE LeadsFirst(cc[i])
    <3>1. PICK c \in Chars : cc[i] = Encode[c]
      BY <1>3, <1>4
    <3>2. Encode[c][1] \in Continuation <=> 1 > 1
      BY Characters
    <3>3. Encode[c][1] \notin Continuation
      BY <3>2
    <3> QED
      BY <3>1, <3>3 DEF LeadsFirst
  <2> QED
    BY <1>5, <2>1
<1>8. LeadsFirst(FlattenSeq(cc)) /\ FlattenSeq(cc) \in Seq(Byte)
  BY <1>5, <1>7, FlattenLeads, FlattenType
<1>9. Coded(FlattenSeq(cc))
  <2>1. \A i \in 1 .. Len(cc) : \E c \in Chars : cc[i] = Encode[c]
    BY <1>3, <1>4, <1>5
  <2> QED
    BY <1>5, <2>1 DEF Coded
<1> QED
  BY <1>6, <1>8, <1>9

\* Whole characters joined are whole characters.
LEMMA CodedConcat ==
    ASSUME NEW s, NEW t, Coded(s), Coded(t)
    PROVE  Coded(s \o t)
<1>1. PICK cc \in Seq(Seq(Byte)) : /\ \A i \in 1 .. Len(cc) : \E c \in Chars : cc[i] = Encode[c]
                                   /\ s = FlattenSeq(cc)
  BY DEF Coded
<1>2. PICK dd \in Seq(Seq(Byte)) : /\ \A i \in 1 .. Len(dd) : \E c \in Chars : dd[i] = Encode[c]
                                   /\ t = FlattenSeq(dd)
  BY DEF Coded
<1>3. PICK ee : ee = cc \o dd
  OBVIOUS
<1>4. PICK S : S = Seq(Byte)
  OBVIOUS
<1>5. PICK m, n : m = Len(cc) /\ n = Len(dd)
  OBVIOUS
<1>6. ee \in Seq(S) /\ Len(ee) = m + n /\ m \in Nat /\ n \in Nat
  BY <1>3, <1>4, <1>5
<1>7. s \o t = FlattenSeq(ee)
  BY <1>1, <1>2, <1>3, FlattenConcat
<1>8. ASSUME NEW i \in 1 .. m + n PROVE \E c \in Chars : ee[i] = Encode[c]
  <2>1. CASE i \in 1 .. m
    <3>1. ee[i] = cc[i]
      BY <1>3, <1>4, <1>5, <2>1
    <3> QED
      BY <1>1, <1>5, <2>1, <3>1
  <2>2. CASE i \notin 1 .. m
    <3>1. PICK j : j = i - m /\ j \in 1 .. n
      BY <1>6, <2>2
    <3>2. ee[i] = dd[j]
      BY <1>3, <1>4, <1>5, <2>2, <3>1
    <3> QED
      BY <1>2, <1>5, <3>1, <3>2
  <2> QED
    BY <2>1, <2>2
<1> QED
  BY <1>4, <1>6, <1>7, <1>8 DEF Coded

LEMMA CodedFlatten ==
    ASSUME NEW tt \in Seq(Seq(Byte)), \A i \in 1 .. Len(tt) : Coded(tt[i])
    PROVE  Coded(FlattenSeq(tt))
<1>1. PICK M : M = {i \in 0 .. Len(tt) : Coded(Through(tt, i))}
  OBVIOUS
<1>2. Len(tt) \in Nat
  OBVIOUS
<1>3. 0 \in M
  <2>1. PICK cc : cc = <<>>
    OBVIOUS
  <2>2. cc \in Seq(Seq(Byte)) /\ Len(cc) = 0 /\ FlattenSeq(cc) = <<>>
    BY <2>1, FlattenNone
  <2>3. \A i \in 1 .. Len(cc) : \E c \in Chars : cc[i] = Encode[c]
    BY <2>2
  <2>4. Coded(<<>>)
    BY <2>2, <2>3 DEF Coded
  <2>5. Through(tt, 0) = <<>>
    BY ThroughSteps
  <2> QED
    BY <1>1, <1>2, <2>4, <2>5
<1>4. ASSUME NEW i \in 1 .. Len(tt), i - 1 \in M PROVE i \in M
  <2>1. Through(tt, i) = Through(tt, i - 1) \o tt[i]
    BY ThroughSteps
  <2>2. Coded(Through(tt, i - 1))
    BY <1>1, <1>4
  <2>3. Coded(Through(tt, i))
    BY <2>1, <2>2, CodedConcat
  <2> QED
    BY <1>1, <1>2, <2>3
<1>5. Len(tt) \in M
  <2>1. \A i \in 0 .. Len(tt) : i \in M
    BY <1>2, <1>3, <1>4, UpTo
  <2> QED
    BY <1>2, <2>1
<1>6. Coded(Through(tt, Len(tt)))
  BY <1>1, <1>5
<1> QED
  BY <1>6, ThroughSteps

\* Whatever was sliced, text is a part of the text of its node, which consists
\* of whole characters and has offsets.
Inv ==
    /\ status \in {"ok", "panicked"}
    /\ ViewInv(text) /\ ViewInv(other) /\ Fits(text)
    /\ Coded(FlattenSeq(text.tokens)) /\ Coded(FlattenSeq(other.tokens))

LEMMA StringsAreSequences ==
    ASSUME NEW s \in Strings
    PROVE  s \in Seq(Chars)
<1>1. PICK k \in 0 .. MaxChars : s \in [1 .. k -> Chars]
  BY DEF Strings
<1>2. MaxChars \in Nat
  BY SyntaxTextAssumption DEF SyntaxTextAssumption
<1>3. k \in Nat
  BY <1>1, <1>2
<1> QED
  BY <1>1, <1>3

LEMMA NewView ==
    ASSUME NEW ts \in Tokenised, NEW from \in Nat, NEW v,
           v = View([i \in DOMAIN ts |-> Bytes(ts[i])], from)
    PROVE  /\ ViewInv(v) /\ Coded(FlattenSeq(v.tokens)) /\ v.from = from
           /\ v.tokens = [i \in DOMAIN ts |-> Bytes(ts[i])]
<1>1. PICK tt : tt = [i \in DOMAIN ts |-> Bytes(ts[i])]
  OBVIOUS
<1>2. PICK n : n \in Nat /\ ts \in [1 .. n -> Strings]
  <2>1. PICK k \in 0 .. MaxTokens : ts \in [1 .. k -> Strings]
    BY DEF Tokenised
  <2>2. MaxTokens \in Nat
    BY SyntaxTextAssumption DEF SyntaxTextAssumption
  <2> QED
    BY <2>1, <2>2
<1>3. ASSUME NEW s \in Strings PROVE s \in Seq(Chars)
  BY StringsAreSequences
<1>4. \A i \in 1 .. n : tt[i] \in Seq(Byte) /\ LeadsFirst(tt[i]) /\ Coded(tt[i])
  <2>1. ASSUME NEW i \in 1 .. n PROVE tt[i] \in Seq(Byte) /\ LeadsFirst(tt[i]) /\ Coded(tt[i])
    <3>1. ts[i] \in Seq(Chars) /\ tt[i] = Bytes(ts[i])
      BY <1>1, <1>2, <1>3
    <3> QED
      BY <3>1, CodedBytes
  <2> QED
    BY <2>1
<1>5. tt \in Seq(Seq(Byte)) /\ Len(tt) = n
  <2>1. PICK S : S = Seq(Byte)
    OBVIOUS
  <2>2. tt = [i \in 1 .. n |-> tt[i]]
    BY <1>1, <1>2, Zenon
  <2>3. tt \in [1 .. n -> S]
    BY <1>4, <2>1, <2>2, Zenon
  <2>4. tt \in Seq(S) /\ Len(tt) = n
    BY <1>2, <2>3
  <2> QED
    BY <2>1, <2>4
<1>6. PICK l : l = TextLen(tt) /\ l \in Nat
  <2>1. FlattenSeq(tt) \in Seq(Byte)
    BY <1>5, FlattenType
  <2> QED
    BY <2>1 DEF TextLen
<1>7. v = [tokens |-> tt, from |-> from, start |-> from, end |-> from + l]
  BY <1>1, <1>6, Zenon DEF View
<1>8. PICK e : e = from + l /\ e \in Nat
  BY <1>6
<1>9. /\ v.tokens = tt /\ v.from = from /\ v.start = from /\ v.end = e
      /\ v \in [tokens : Seq(Seq(Byte)), from : Nat, start : Nat, end : Nat]
  BY <1>5, <1>7, <1>8
<1>10. from <= e /\ e <= from + l
  BY <1>6, <1>8
<1>11. ViewInv(v)
  <2>1. \A i \in 1 .. Len(v.tokens) : LeadsFirst(v.tokens[i])
    BY <1>4, <1>5, <1>9
  <2>2. from <= from
    OBVIOUS
  <2> QED
    BY <1>6, <1>9, <1>10, <2>1, <2>2 DEF ViewInv
<1>12. Coded(FlattenSeq(tt))
  BY <1>4, <1>5, CodedFlatten
<1> QED
  BY <1>1, <1>9, <1>11, <1>12

LEMMA InitInv == Init => Inv
<1> SUFFICES ASSUME Init PROVE Inv
  OBVIOUS
<1>1. NodeStart \in Nat /\ 0 \in Nat
  BY SyntaxTextAssumption DEF SyntaxTextAssumption
<1>2. PICK ts \in Tokenised : text = View([i \in DOMAIN ts |-> Bytes(ts[i])], NodeStart)
  BY DEF Init
<1>3. PICK us \in Tokenised : other = View([i \in DOMAIN us |-> Bytes(us[i])], 0)
  BY DEF Init
<1>4. /\ ViewInv(text) /\ Coded(FlattenSeq(text.tokens)) /\ text.from = NodeStart
      /\ text.tokens = [i \in DOMAIN ts |-> Bytes(ts[i])]
  BY <1>1, <1>2, NewView
<1>5. ViewInv(other) /\ Coded(FlattenSeq(other.tokens))
  BY <1>1, <1>3, NewView
<1>6. Fits(text)
  <2>1. NodeStart + TextLen([i \in DOMAIN ts |-> Bytes(ts[i])]) < U32
    BY <1>2, OffsetsFit DEF OffsetsFit
  <2> QED
    BY <1>4, <2>1 DEF Fits
<1> QED
  BY <1>4, <1>5, <1>6 DEF Init, Inv

LEMMA NextInv == Inv /\ [Next]_vars => Inv'
<1> SUFFICES ASSUME Inv, [Next]_vars PROVE Inv'
  OBVIOUS
<1>1. CASE UNCHANGED vars
  BY <1>1, Zenon DEF vars, Inv
<1>2. ASSUME NEW from \in Bounds, NEW to \in Bounds, Slice(from, to) PROVE Inv'
  <2>1. other' = other
    BY <1>2 DEF Slice
  <2>2. CASE status' = "panicked" /\ UNCHANGED text
    BY <2>1, <2>2, Zenon DEF Inv
  <2>3. CASE ~ SlicePanics(text, from, to) /\ text' = Sliced(text, from, to) /\ UNCHANGED status
    <3>1. PICK v, m, n, s : /\ v = text /\ m = SliceStart(v, from) /\ n = SliceEnd(v, to)
                            /\ s = Sliced(v, from, to)
      OBVIOUS
    <3>6. ViewInv(v) /\ Fits(v) /\ ~ SlicePanics(v, from, to)
      BY <2>3, <3>1, Zenon DEF Inv
    <3>2. /\ m \in Nat /\ n \in Nat /\ m <= n /\ n <= ViewLen(v)
          /\ s = Ranged(v, m, n)
      <4>1. /\ m \in Nat /\ n \in Nat
            /\ m <= n /\ n <= ViewLen(v) => /\ ~ SlicePanics(v, from, to)
                                            /\ s = Ranged(v, m, n)
            /\ ~ (m <= n /\ n <= ViewLen(v)) => SlicePanics(v, from, to)
        <5>1. /\ m = SliceStart(v, from) /\ n = SliceEnd(v, to) /\ s = Sliced(v, from, to)
              /\ ViewInv(v) /\ Fits(v)
          BY <3>1, <3>6
        <5> QED
          BY <1>2, <5>1, SliceRange
      <4> QED
        BY <3>6, <4>1, Zenon
    <3>3. ViewInv(s) /\ s.tokens = v.tokens /\ s.from = v.from
      BY <3>2, <3>6, SliceBytes
    <3>4. Fits(s) /\ Coded(FlattenSeq(s.tokens))
      BY <3>1, <3>3, Zenon DEF Fits, Inv
    <3>5. text' = s /\ status' = status
      BY <2>3, <3>1
    <3> QED
      BY <2>1, <3>3, <3>4, <3>5, Zenon DEF Inv
  <2> QED
    BY <1>2, <2>2, <2>3 DEF Slice
<1> QED
  BY <1>1, <1>2 DEF Next

LEMMA Invariance == Spec => []Inv
<1>1. QED
  BY InitInv, NextInv, PTL DEF Spec

----------------------------------------------------------------------------
(* Boundaries of texts that agree *)

\* s is the text of the characters cc.
Spelled(cc, s) ==
    /\ cc \in Seq(Seq(Byte)) /\ s = FlattenSeq(cc) /\ s \in Seq(Byte)
    /\ \A i \in 1 .. Len(cc) : \E c \in Chars : cc[i] = Encode[c]

LEMMA Spelling ==
    ASSUME NEW s, Coded(s)
    PROVE  \E cc : Spelled(cc, s)
<1>1. PICK cc \in Seq(Seq(Byte)) : /\ \A i \in 1 .. Len(cc) : \E c \in Chars : cc[i] = Encode[c]
                                   /\ s = FlattenSeq(cc)
  BY DEF Coded
<1>2. s \in Seq(Byte)
  BY <1>1, FlattenType
<1> QED
  BY <1>1, <1>2 DEF Spelled

\* A character with its place and its end.
Spells(cc, s, k, c, p, e) ==
    /\ c \in Chars /\ cc[k] = Encode[c]
    /\ p = Len(Through(cc, k - 1)) /\ e = Len(Through(cc, k))
    /\ p \in Nat /\ e \in Nat /\ p < e /\ e <= Len(s)
    /\ Len(Encode[c]) = e - p
    /\ \A j \in 1 .. e - p : s[p + j] = Encode[c][j]
    /\ \A j \in 1 .. e - p : s[p + j] \in Continuation <=> j > 1

LEMMA Character ==
    ASSUME NEW cc, NEW s, Spelled(cc, s), NEW k \in 1 .. Len(cc)
    PROVE  \E c, p, e : Spells(cc, s, k, c, p, e)
<1>1. /\ cc \in Seq(Seq(Byte)) /\ s = FlattenSeq(cc)
      /\ \A i \in 1 .. Len(cc) : \E c \in Chars : cc[i] = Encode[c]
  BY DEF Spelled
<1>2. PICK c \in Chars : cc[k] = Encode[c]
  BY <1>1
<1>3. PICK p, e, q, m : Stands(cc, s, k, p, e, q, m)
  BY <1>1, Standing
<1>4. /\ p = Len(Through(cc, k - 1)) /\ e = Len(Through(cc, k)) /\ q = Encode[c] /\ m = Len(q)
      /\ p \in Nat /\ m \in Nat /\ e \in Nat /\ e = p + m /\ e <= Len(s)
      /\ \A r \in 1 .. m : s[p + r] = q[r]
  BY <1>2, <1>3 DEF Stands
<1>5. Len(q) > 0 /\ \A j \in 1 .. Len(q) : q[j] \in Continuation <=> j > 1
  BY <1>4, Characters
<1>6. p \in Nat /\ m \in Nat /\ e = p + m /\ m > 0
  BY <1>4, <1>5
<1>7. e - p = m /\ p < e
  BY <1>6
<1>8. \A j \in 1 .. m : s[p + j] \in Continuation <=> j > 1
  BY <1>4, <1>5
<1>9. Spells(cc, s, k, c, p, e)
  BY <1>2, <1>4, <1>7, <1>8, Zenon DEF Spells
<1> QED
  BY <1>9

\* At a boundary a character begins, or the text is over.
LEMMA BeginsAt ==
    ASSUME NEW cc, NEW s, Spelled(cc, s), NEW n \in Nat, n <= Len(s), IsBoundary(s, n)
    PROVE  \E k \in 0 .. Len(cc) : n = Len(Through(cc, k))
<1>1. /\ cc \in Seq(Seq(Byte)) /\ s = FlattenSeq(cc) /\ s \in Seq(Byte)
  BY DEF Spelled
<1>2. Len(cc) \in Nat /\ Len(s) \in Nat
  BY <1>1
<1>3. CASE n = Len(s)
  <2>1. Through(cc, Len(cc)) = s
    BY <1>1, ThroughSteps
  <2>2. Len(cc) \in 0 .. Len(cc)
    BY <1>2
  <2> QED
    BY <1>3, <2>1, <2>2
<1>4. CASE n < Len(s)
  <2>1. PICK k \in 1 .. Len(cc) : Len(Through(cc, k - 1)) <= n /\ n < Len(Through(cc, k))
    BY <1>1, <1>4, Inside
  <2>2. PICK c, p, e : Spells(cc, s, k, c, p, e)
    BY Character
  <2>3. /\ p = Len(Through(cc, k - 1)) /\ e = Len(Through(cc, k)) /\ p \in Nat /\ e \in Nat
        /\ \A j \in 1 .. e - p : s[p + j] \in Continuation <=> j > 1
    BY <2>2 DEF Spells
  <2>4. PICK j : j = (n - p) + 1 /\ j \in 1 .. e - p /\ p + j = n + 1
    BY <2>1, <2>3
  <2>5. s[n + 1] \in Continuation <=> j > 1
    BY <2>3, <2>4
  <2>6. n = 0 \/ s[n + 1] \notin Continuation
    BY <1>4, <1>2 DEF IsBoundary
  <2>7. n = p
    <3>1. CASE n = 0
      BY <2>1, <2>3, <3>1
    <3>2. CASE s[n + 1] \notin Continuation
      <4>1. ~ (j > 1)
        BY <2>5, <3>2
      <4> QED
        BY <2>3, <2>4, <4>1
    <3> QED
      BY <2>6, <3>1, <3>2
  <2>8. k - 1 \in 0 .. Len(cc)
    BY <1>2
  <2> QED
    BY <2>3, <2>7, <2>8
<1> QED
  BY <1>2, <1>3, <1>4

\* The other way round.
LEMMA SpelledBoundary ==
    ASSUME NEW cc, NEW s, Spelled(cc, s)
    PROVE  \A i \in 1 .. Len(cc) : LeadsFirst(cc[i])
<1>1. ASSUME NEW i \in 1 .. Len(cc) PROVE LeadsFirst(cc[i])
  <2>1. PICK c \in Chars : cc[i] = Encode[c]
    BY DEF Spelled
  <2>2. Len(Encode[c]) \in Nat /\ Len(Encode[c]) > 0
        /\ \A j \in 1 .. Len(Encode[c]) : Encode[c][j] \in Continuation <=> j > 1
    BY Characters
  <2>3. 1 \in 1 .. Len(Encode[c]) /\ ~ (1 > 1)
    BY <2>2
  <2>4. Encode[c][1] \notin Continuation
    BY <2>2, <2>3
  <2> QED
    BY <2>1, <2>4 DEF LeadsFirst
<1> QED
  BY <1>1

\* s and t are the same up to n.
Agree(s, t, n) == \A q \in 1 .. n : s[q] = t[q]

\* Texts that are the same up to a boundary of one have a boundary there both:
\* no character begins another one.
LEMMA SameBoundary ==
    ASSUME NEW s, NEW t, Coded(s), Coded(t), NEW n \in Nat, n <= Len(s), n <= Len(t),
           Agree(s, t, n), IsBoundary(s, n)
    PROVE  IsBoundary(t, n)
<1>1. SUFFICES ASSUME ~ IsBoundary(t, n) PROVE FALSE
  OBVIOUS
<1>2. PICK cc : Spelled(cc, s)
  BY Spelling
<1>3. PICK dd : Spelled(dd, t)
  BY Spelling
<1>4. /\ cc \in Seq(Seq(Byte)) /\ s = FlattenSeq(cc) /\ s \in Seq(Byte)
      /\ dd \in Seq(Seq(Byte)) /\ t = FlattenSeq(dd) /\ t \in Seq(Byte)
  BY <1>2, <1>3 DEF Spelled
<1>5. Len(s) \in Nat /\ Len(t) \in Nat
  BY <1>4
<1>6. PICK i \in 1 .. Len(dd) : Len(Through(dd, i - 1)) < n /\ n < Len(Through(dd, i))
  <2>1. \A k \in 1 .. Len(dd) : LeadsFirst(dd[k])
    BY <1>3, SpelledBoundary
  <2> QED
    BY <1>1, <1>4, <2>1, Crossing
<1>7. PICK d, p, e : Spells(dd, t, i, d, p, e)
  BY <1>3, Character
<1>8. /\ d \in Chars /\ p \in Nat /\ e \in Nat /\ p < n /\ n < e /\ e <= Len(t)
      /\ Len(Encode[d]) = e - p
  BY <1>6, <1>7 DEF Spells
<1>9. \A j \in 1 .. e - p : t[p + j] = Encode[d][j] /\ (t[p + j] \in Continuation <=> j > 1)
  BY <1>7 DEF Spells
<1>10. s[p + 1] = t[p + 1] /\ t[p + 1] \notin Continuation
  <2>1. p + 1 \in 1 .. n /\ 1 \in 1 .. e - p /\ ~ (1 > 1)
    BY <1>8
  <2> QED
    BY <1>9, <2>1 DEF Agree
<1>11. PICK k \in 1 .. Len(cc) : Len(Through(cc, k - 1)) <= p /\ p < Len(Through(cc, k))
  <2>1. p < Len(s)
    BY <1>5, <1>8
  <2> QED
    BY <1>4, <1>8, <2>1, Inside
<1>12. PICK c, a, b : Spells(cc, s, k, c, a, b)
  BY <1>2, Character
<1>13. /\ c \in Chars /\ a \in Nat /\ b \in Nat /\ a <= p /\ p < b /\ b <= Len(s)
       /\ Len(Encode[c]) = b - a
  BY <1>11, <1>12 DEF Spells
<1>14. \A j \in 1 .. b - a : s[a + j] = Encode[c][j] /\ (s[a + j] \in Continuation <=> j > 1)
  BY <1>12 DEF Spells
<1>15. a = p
  <2>1. PICK j : j = (p - a) + 1 /\ j \in 1 .. b - a /\ a + j = p + 1
    BY <1>8, <1>13
  <2>2. ~ (j > 1)
    BY <1>10, <1>14, <2>1
  <2> QED
    BY <1>8, <1>13, <2>1, <2>2
<1>16. b <= n
  <2>1. SUFFICES ASSUME n < b PROVE FALSE
    BY <1>13
  <2>2. PICK j : j = (n - p) + 1 /\ j \in 1 .. b - a /\ a + j = n + 1 /\ j > 1
    BY <1>8, <1>13, <1>15, <2>1
  <2>3. s[n + 1] \in Continuation
    BY <1>14, <2>2
  <2>4. n # 0 /\ n # Len(s)
    BY <1>5, <1>8, <1>13, <2>1
  <2> QED
    BY <2>3, <2>4 DEF IsBoundary
<1>17. PICK x, y : x = Encode[c] /\ y = Encode[d]
  OBVIOUS
<1>18. x \in Seq(Byte) /\ y \in Seq(Byte) /\ Len(x) < Len(y)
  <2>1. b - a < e - p
    BY <1>8, <1>13, <1>15, <1>16
  <2> QED
    BY <1>8, <1>13, <1>17, <2>1, Characters
<1>19. ASSUME NEW j \in 1 .. b - a PROVE y[j] = x[j]
  <2>1. p + j \in 1 .. n /\ j \in 1 .. e - p
    BY <1>8, <1>13, <1>15, <1>16
  <2>2. s[p + j] = t[p + j]
    BY <2>1 DEF Agree
  <2> QED
    BY <1>9, <1>14, <1>15, <1>17, <2>1, <2>2
<1>20. IsPrefix(x, y)
  <2>1. Len(x) \in Nat /\ Len(y) \in Nat
    BY <1>18
  <2>2. Len(x) <= Len(y)
    BY <1>18, <2>1
  <2>3. \A j \in 1 .. Len(x) : y[j] = x[j]
    BY <1>13, <1>17, <1>19
  <2> QED
    BY <1>18, <2>2, <2>3, PrefixElements
<1>21. c = d
  BY <1>8, <1>13, <1>17, <1>20, SyntaxTextAssumption DEF SyntaxTextAssumption
<1>22. Len(x) = Len(y) /\ Len(x) \in Nat
  BY <1>17, <1>18, <1>21
<1> QED
  BY <1>18, <1>22

\* Cut between characters, whole characters remain.
LEMMA CodedCut ==
    ASSUME NEW s, Coded(s), NEW lo \in Nat, NEW hi \in Nat, lo <= hi, hi <= Len(s),
           IsBoundary(s, lo), IsBoundary(s, hi)
    PROVE  Coded(SubSeq(s, lo + 1, hi))
<1>1. PICK cc : Spelled(cc, s)
  BY Spelling
<1>2. /\ cc \in Seq(Seq(Byte)) /\ s = FlattenSeq(cc) /\ s \in Seq(Byte)
      /\ \A i \in 1 .. Len(cc) : \E c \in Chars : cc[i] = Encode[c]
  BY <1>1 DEF Spelled
<1>3. Len(s) \in Nat /\ lo <= Len(s)
  BY <1>2
<1>4. PICK a \in 0 .. Len(cc) : lo = Len(Through(cc, a))
  BY <1>1, <1>3, BeginsAt
<1>5. PICK b \in 0 .. Len(cc) : hi = Len(Through(cc, b))
  BY <1>1, BeginsAt
<1>6. PICK y : y = SubSeq(s, lo + 1, hi)
  OBVIOUS
<1>7. y \in Seq(Byte) /\ Len(y) = hi - lo /\ \A i \in 1 .. hi - lo : y[i] = s[lo + i]
  BY <1>2, <1>6, Part
<1>8. CASE a <= b
  <2>1. PICK S, ee : S = Seq(Byte) /\ ee = SubSeq(cc, a + 1, b)
    OBVIOUS
  <2>2. a \in Nat /\ b \in Nat /\ b <= Len(cc) /\ Len(cc) \in Nat /\ cc \in Seq(S)
    BY <1>2, <2>1
  <2>3. ee \in Seq(S) /\ Len(ee) = b - a /\ \A i \in 1 .. b - a : ee[i] = cc[a + i]
    <3>1. /\ SubSeq(cc, a + 1, b) \in Seq(S)
          /\ Len(SubSeq(cc, a + 1, b)) = b - a
          /\ \A i \in 1 .. b - a : SubSeq(cc, a + 1, b)[i] = cc[a + i]
      BY <1>8, <2>2, Part
    <3> QED
      BY <2>1, <3>1, Zenon
  <2>4. Through(cc, b) = Through(cc, a) \o FlattenSeq(ee)
    <3>1. SubSeq(cc, 0 + 1, a) \o SubSeq(cc, a + 1, b) = SubSeq(cc, 0 + 1, b)
      BY <1>8, <2>2, PartsJoin
    <3>2. 0 + 1 = 1
      OBVIOUS
    <3>3. PICK f : f = SubSeq(cc, 1, a) /\ f \in Seq(S)
      <4>1. a <= Len(cc) /\ 0 <= a /\ 0 \in Nat
        BY <2>2
      <4>2. SubSeq(cc, 0 + 1, a) \in Seq(S)
        BY <2>2, <4>1, Part
      <4> QED
        BY <3>2, <4>2
    <3>4. f \o ee = SubSeq(cc, 1, b)
      BY <2>1, <3>1, <3>2, <3>3
    <3>5. FlattenSeq(f \o ee) = FlattenSeq(f) \o FlattenSeq(ee)
      BY <2>1, <2>3, <3>3, FlattenConcat
    <3> QED
      BY <3>3, <3>4, <3>5 DEF Through
  <2>5. s = Through(cc, b) \o FlattenSeq(SubSeq(cc, b + 1, Len(cc)))
    BY <1>2, ThroughRest
  <2>6. PICK u, v, z : u = Through(cc, a) /\ v = FlattenSeq(ee) /\ z = FlattenSeq(SubSeq(cc, b + 1, Len(cc)))
    OBVIOUS
  <2>7. u \in Seq(Byte) /\ v \in Seq(Byte) /\ z \in Seq(Byte)
    <3>1. u \in Seq(Byte)
      BY <1>2, <2>6, ThroughSteps
    <3>2. v \in Seq(Byte)
      BY <2>1, <2>3, <2>6, FlattenType
    <3>3. SubSeq(cc, b + 1, Len(cc)) \in Seq(Seq(Byte))
      BY <1>2, ThroughRest
    <3> QED
      BY <2>6, <3>1, <3>2, <3>3, FlattenType
  <2>8. s = (u \o v) \o z /\ Len(u) = lo /\ Len(u \o v) = hi
    BY <1>4, <1>5, <2>4, <2>5, <2>6
  <2>9. Len(v) = hi - lo
    <3>1. Len(u \o v) = Len(u) + Len(v) /\ Len(v) \in Nat
      BY <2>7
    <3>2. PICK n : n = Len(v) /\ n \in Nat
      BY <3>1
    <3>3. hi = lo + n
      BY <2>8, <3>1, <3>2
    <3> QED
      BY <3>2, <3>3
  <2>10. ASSUME NEW i \in 1 .. hi - lo PROVE y[i] = v[i]
    <3>1. PICK x : x = u \o v
      OBVIOUS
    <3>2. x \in Seq(Byte) /\ s = x \o z /\ Len(x) = hi
      BY <2>7, <2>8, <3>1
    <3>3. PICK j : j = lo + i /\ j \in 1 .. hi /\ j > lo /\ j - lo = i
      OBVIOUS
    <3>4. s[j] = x[j]
      BY <2>7, <3>2, <3>3
    <3>5. x[j] = v[i]
      BY <2>7, <2>8, <2>9, <3>1, <3>3
    <3> QED
      BY <1>7, <3>3, <3>4, <3>5
  <2>11. y = v
    BY <1>7, <2>7, <2>9, <2>10, SameSeq
  <2>12. \A i \in 1 .. Len(ee) : \E c \in Chars : ee[i] = Encode[c]
    <3>1. ASSUME NEW i \in 1 .. b - a PROVE \E c \in Chars : ee[i] = Encode[c]
      <4>1. PICK j : j = a + i /\ j \in 1 .. Len(cc)
        BY <2>2
      <4>2. ee[i] = cc[j]
        BY <2>3, <4>1
      <4> QED
        BY <1>2, <4>1, <4>2
    <3> QED
      BY <2>3, <3>1
  <2> QED
    BY <1>6, <2>1, <2>3, <2>6, <2>11, <2>12 DEF Coded
<1>9. CASE ~ (a <= b)
  <2>1. b \in 0 .. Len(cc) /\ a \in 0 .. Len(cc) /\ b <= a
    BY <1>9
  <2>2. hi <= lo
    BY <1>2, <1>4, <1>5, <2>1, ThroughGrows
  <2>3. y = <<>>
    BY <1>7, <2>2
  <2>4. PICK ee : ee = <<>>
    OBVIOUS
  <2>5. ee \in Seq(Seq(Byte)) /\ Len(ee) = 0 /\ FlattenSeq(ee) = <<>>
    BY <2>4, FlattenNone
  <2>6. \A i \in 1 .. Len(ee) : \E c \in Chars : ee[i] = Encode[c]
    BY <2>5
  <2> QED
    BY <1>6, <2>3, <2>5, <2>6 DEF Coded
<1> QED
  BY <1>8, <1>9

----------------------------------------------------------------------------
(* Comparison with another text *)

\* One side of a comparison: the chunks of a text w of whole characters, which
\* can all be read.
Side(cs, tt, w) ==
    /\ Tiles(cs, tt, w) /\ w \in Seq(Byte) /\ Coded(w)
    /\ \A k \in 1 .. Len(cs) : Readable(cs[k])
    /\ \A k \in 1 .. Len(tt) : LeadsFirst(tt[k])

LEMMA SideOf ==
    ASSUME NEW v, ViewInv(v), OnBoundaries(v), Coded(FlattenSeq(v.tokens)),
           NEW cs, cs = TokensWithRanges(v), NEW tt, tt = Texts(cs), NEW w, w = TrueBytes(v)
    PROVE  Side(cs, tt, w) /\ Len(w) = ViewLen(v)
<1>1. Tiles(cs, tt, w)
  BY Tiled
<1>2. w \in Seq(Byte) /\ Len(w) = ViewLen(v)
  BY TrueBytesClip
<1>3. PICK s, lo, hi : s = FlattenSeq(v.tokens) /\ lo = Low(v) /\ hi = High(v)
  OBVIOUS
<1>4. lo \in Nat /\ hi \in Nat /\ lo <= hi /\ hi <= Len(s)
  BY <1>3, ViewRange
<1>5. IsBoundary(s, lo) /\ IsBoundary(s, hi)
  BY <1>3, Zenon DEF OnBoundaries, Low, High
<1>6. Coded(SubSeq(s, lo + 1, hi))
  BY <1>3, <1>4, <1>5, CodedCut
<1>7. w = SubSeq(s, lo + 1, hi)
  BY <1>3, Zenon DEF TrueBytes, Low, High
<1>8. /\ \A k \in 1 .. Len(cs) : Readable(cs[k])
      /\ \A k \in 1 .. Len(tt) : LeadsFirst(tt[k])
  BY BoundaryView
<1> QED
  BY <1>1, <1>2, <1>6, <1>7, <1>8 DEF Side

\* c is what is left of chunk k when n bytes of the text are done.
Reached(cs, tt, k, c, n) ==
    /\ k \in 1 .. Len(cs) /\ n \in Nat
    /\ Len(Through(tt, k - 1)) <= n /\ n <= Len(Through(tt, k))
    /\ c = Advance(cs[k], n - Len(Through(tt, k - 1)))

Rest == [token : Seq(Byte), start : Nat, end : Int]

\* What is left are the next r bytes of the text, up to a boundary.
Remains(w, c, n, r) ==
    /\ c \in Rest /\ r \in Nat /\ n + r <= Len(w) /\ c.end - c.start = r
    /\ ChunkText(c) \in Seq(Byte) /\ Len(ChunkText(c)) = r
    /\ \A q \in 1 .. r : ChunkText(c)[q] = w[n + q]
    /\ IsBoundary(w, n + r)
    /\ IsBoundary(w, n) => Readable(c)

LEMMA TextBoundary ==
    ASSUME NEW c \in Chunk, Readable(c), NEW j \in Nat, j <= c.end - c.start,
           IsBoundary(ChunkText(c), j)
    PROVE  IsBoundary(c.token, c.start + j)
<1>1. /\ c.token \in Seq(Byte) /\ c.start \in Nat /\ c.end \in Int /\ c.start <= c.end
      /\ c.end <= Len(c.token) /\ Len(ChunkText(c)) = c.end - c.start
      /\ \A q \in 1 .. Len(ChunkText(c)) : ChunkText(c)[q] = c.token[c.start + q]
  BY ChunkTypes DEF Readable
<1>2. PICK s, a, b, p, l : s = ChunkText(c) /\ a = c.start /\ b = c.end /\ p = c.token /\ l = Len(p)
  OBVIOUS
<1>3. /\ p \in Seq(Byte) /\ a \in Nat /\ b \in Int /\ a <= b /\ b <= l /\ l \in Nat
      /\ Len(s) = b - a /\ \A q \in 1 .. b - a : s[q] = p[a + q]
  BY <1>1, <1>2
<1>4. IsBoundary(p, a) /\ IsBoundary(p, b) /\ IsBoundary(s, j) /\ j <= b - a
  BY <1>2 DEF Readable
<1>5. CASE j = 0
  <2>1. a + j = a
    BY <1>3, <1>5
  <2> QED
    BY <1>2, <1>4, <2>1
<1>6. CASE j = b - a
  <2>1. a + j = b
    BY <1>3, <1>6
  <2> QED
    BY <1>2, <1>4, <2>1
<1>7. CASE j # 0 /\ j # b - a
  <2>1. s[j + 1] \notin Continuation
    BY <1>3, <1>4, <1>7 DEF IsBoundary
  <2>2. PICK q : q = j + 1 /\ q \in 1 .. b - a /\ a + q = (a + j) + 1 /\ a + j < l
    BY <1>3, <1>4, <1>7
  <2>3. p[(a + j) + 1] \notin Continuation
    BY <1>3, <2>1, <2>2
  <2> QED
    BY <1>2, <2>2, <2>3 DEF IsBoundary
<1> QED
  BY <1>5, <1>6, <1>7

LEMMA LeftOver ==
    ASSUME NEW cs, NEW tt, NEW w, Side(cs, tt, w), NEW k, NEW c, NEW n, Reached(cs, tt, k, c, n)
    PROVE  /\ Remains(w, c, n, Len(Through(tt, k)) - n)
           /\ Len(Through(tt, k)) \in Nat
<1>1. /\ cs \in Seq(Chunk) /\ tt \in Seq(Seq(Byte)) /\ Len(tt) = Len(cs) /\ FlattenSeq(tt) = w
      /\ \A i \in 1 .. Len(cs) :
             /\ tt[i] = ChunkText(cs[i]) /\ cs[i] \in Chunk /\ cs[i].start <= cs[i].end
             /\ Len(tt[i]) = cs[i].end - cs[i].start
      /\ w \in Seq(Byte)
      /\ \A i \in 1 .. Len(cs) : Readable(cs[i])
      /\ \A i \in 1 .. Len(tt) : LeadsFirst(tt[i])
  BY DEF Side, Tiles
<1>2. k \in 1 .. Len(cs) /\ n \in Nat
      /\ Len(Through(tt, k - 1)) <= n /\ n <= Len(Through(tt, k))
      /\ c = Advance(cs[k], n - Len(Through(tt, k - 1)))
  BY DEF Reached
<1>3. PICK d, a, b, q, m : d = cs[k] /\ Stands(tt, w, k, a, b, q, m)
  BY <1>1, <1>2, Standing
<1>4. /\ a = Len(Through(tt, k - 1)) /\ b = Len(Through(tt, k)) /\ q = tt[k] /\ m = Len(q)
      /\ a \in Nat /\ m \in Nat /\ b \in Nat /\ b = a + m /\ b <= Len(w)
      /\ \A i \in 1 .. m : w[a + i] = q[i]
  BY <1>3 DEF Stands
<1>5. /\ d \in Chunk /\ q = ChunkText(d) /\ Readable(d) /\ d.start <= d.end /\ m = d.end - d.start
  BY <1>1, <1>2, <1>3, <1>4
<1>6. PICK x, y, p : x = d.start /\ y = d.end /\ p = d.token
  OBVIOUS
<1>7. /\ p \in Seq(Byte) /\ x \in Nat /\ y \in Int /\ x <= y /\ y <= Len(p) /\ m = y - x
      /\ q \in Seq(Byte) /\ \A i \in 1 .. m : q[i] = p[x + i]
      /\ d \in [token : Seq(Byte), start : Nat, end : Int]
  <2>1. /\ p \in Seq(Byte) /\ x \in Nat /\ y \in Int /\ x <= y /\ y <= Len(p) /\ m = y - x
        /\ q \in Seq(Byte) /\ Len(q) = m /\ \A i \in 1 .. Len(q) : q[i] = p[x + i]
    BY <1>4, <1>5, <1>6, ChunkTypes
  <2>2. d \in [token : Seq(Byte), start : Nat, end : Int]
    BY <1>5 DEF Chunk
  <2> QED
    BY <2>1, <2>2
<1>8. PICK j, r : j = n - a /\ r = b - n
  OBVIOUS
<1>9. j \in Nat /\ r \in Nat /\ j + r = m /\ n = a + j /\ n + r = b /\ x + j \in Nat /\ x + j <= y
      /\ y - (x + j) = r /\ j <= m
  <2>1. a \in Nat /\ m \in Nat /\ b = a + m /\ n \in Nat /\ a <= n /\ n <= b
    BY <1>2, <1>4
  <2>2. x \in Nat /\ y \in Int /\ m = y - x
    BY <1>7
  <2>3. j \in Nat /\ r \in Nat /\ j + r = m /\ n = a + j /\ n + r = b /\ j <= m
    BY <1>8, <2>1
  <2>4. x + j \in Nat /\ x + j <= y /\ y - (x + j) = r
    BY <2>1, <2>2, <2>3
  <2> QED
    BY <2>3, <2>4
<1>10. c = [d EXCEPT !.start = x + j]
  BY <1>2, <1>3, <1>4, <1>6, <1>8, <1>7 DEF Advance
<1>11. c \in Rest /\ c.start = x + j /\ c.end = y /\ c.token = p
  BY <1>6, <1>7, <1>9, <1>10 DEF Rest
<1>12. PICK e : e = ChunkText(c)
  OBVIOUS
<1>13. e \in Seq(Byte) /\ Len(e) = r /\ \A i \in 1 .. r : e[i] = p[(x + j) + i]
  <2>1. e = SubSeq(p, (x + j) + 1, y)
    BY <1>11, <1>12 DEF ChunkText
  <2>2. PICK z : z = x + j /\ z \in Nat /\ z <= y /\ y \in Nat
    BY <1>7, <1>9
  <2>3. /\ SubSeq(p, z + 1, y) \in Seq(Byte) /\ Len(SubSeq(p, z + 1, y)) = y - z
        /\ \A i \in 1 .. y - z : SubSeq(p, z + 1, y)[i] = p[z + i]
    <3>1. p \in Seq(Byte) /\ y <= Len(p)
      BY <1>7
    <3> QED
      BY <2>2, <3>1, Part
  <2> QED
    BY <1>9, <2>1, <2>2, <2>3
<1>14. ASSUME NEW i \in 1 .. r PROVE e[i] = w[n + i]
  <2>1. PICK h : h = j + i /\ h \in 1 .. m /\ a + h = n + i /\ x + h = (x + j) + i
    <3>1. a \in Nat /\ x \in Nat /\ m \in Nat
      BY <1>4, <1>7
    <3>2. j \in Nat /\ r \in Nat /\ j + r = m /\ n = a + j
      BY <1>9
    <3> QED
      BY <3>1, <3>2
  <2>2. w[a + h] = q[h] /\ q[h] = p[x + h]
    BY <1>4, <1>7, <2>1
  <2> QED
    BY <1>13, <2>1, <2>2
<1>15. IsBoundary(w, n + r)
  <2>1. k \in 0 .. Len(tt)
    BY <1>1, <1>2
  <2>2. IsBoundary(w, b)
    BY <1>1, <1>4, <2>1, PieceBoundary
  <2> QED
    BY <1>9, <2>2
<1>16. ASSUME IsBoundary(w, n) PROVE Readable(c)
  <2>1. j \in 0 .. Len(q) /\ k \in 1 .. Len(tt)
    BY <1>1, <1>2, <1>4, <1>9
  <2>2. IsBoundary(q, j)
    <3>1. IsBoundary(w, a + j)
      BY <1>9, <1>16
    <3> QED
      BY <1>1, <1>4, <2>1, <3>1, PieceBoundaries
  <2>3. IsBoundary(p, x + j)
    <3>1. j <= d.end - d.start
      BY <1>5, <1>9
    <3>2. IsBoundary(d.token, d.start + j)
      BY <1>5, <1>9, <2>2, <3>1, TextBoundary
    <3> QED
      BY <1>6, <3>2
  <2>4. IsBoundary(p, y)
    BY <1>5, <1>6 DEF Readable
  <2> QED
    BY <1>9, <1>11, <2>3, <2>4 DEF Readable
<1>17. n + r <= Len(w) /\ c.end - c.start = r
  BY <1>4, <1>9, <1>11
<1>18. Remains(w, c, n, r)
  BY <1>9, <1>11, <1>12, <1>13, <1>14, <1>15, <1>16, <1>17 DEF Remains
<1> QED
  BY <1>4, <1>8, <1>18

LEMMA AdvanceReaches ==
    ASSUME NEW cs, NEW tt, NEW w, Side(cs, tt, w), NEW k, NEW c, NEW n, Reached(cs, tt, k, c, n),
           NEW m \in Nat, n + m <= Len(Through(tt, k))
    PROVE  Reached(cs, tt, k, Advance(c, m), n + m)
<1>1. PICK a, d : a = Len(Through(tt, k - 1)) /\ d = cs[k]
  OBVIOUS
<1>2. /\ k \in 1 .. Len(cs) /\ n \in Nat /\ a <= n /\ c = Advance(d, n - a)
  BY <1>1 DEF Reached
<1>3. cs \in Seq(Chunk) /\ tt \in Seq(Seq(Byte)) /\ Len(tt) = Len(cs)
  BY DEF Side, Tiles
<1>4. d \in Chunk
  BY <1>1, <1>2, <1>3
<1>5. d \in [token : Seq(Byte), start : Nat, end : Int]
  BY <1>4 DEF Chunk
<1>6. a \in Nat
  <2>1. k \in 1 .. Len(tt)
    BY <1>2, <1>3
  <2> QED
    BY <1>1, <1>3, <2>1, PieceStands
<1>7. PICK x, j : x = d.start /\ x \in Nat /\ j = n - a /\ j \in Nat
  BY <1>2, <1>5, <1>6
<1>8. c = [d EXCEPT !.start = x + j]
  BY <1>2, <1>5, <1>7 DEF Advance
<1>9. Advance(c, m) = [d EXCEPT !.start = (x + j) + m]
  BY <1>5, <1>8 DEF Advance
<1>10. (n + m) - a = j + m /\ (x + j) + m = x + (j + m) /\ n + m \in Nat /\ a <= n + m
  BY <1>2, <1>6, <1>7
<1>11. Advance(d, j + m) = [d EXCEPT !.start = x + (j + m)]
  BY <1>5, <1>7 DEF Advance
<1>12. Advance(c, m) = Advance(d, (n + m) - a)
  BY <1>9, <1>10, <1>11
<1> QED
  BY <1>1, <1>2, <1>10, <1>12 DEF Reached

LEMMA BeginReaches ==
    ASSUME NEW cs, NEW tt, NEW w, Side(cs, tt, w), NEW k \in 1 .. Len(cs), NEW n,
           n = Len(Through(tt, k - 1))
    PROVE  Reached(cs, tt, k, cs[k], n)
<1>1. cs \in Seq(Chunk) /\ tt \in Seq(Seq(Byte)) /\ Len(tt) = Len(cs)
  BY DEF Side, Tiles
<1>2. PICK d : d = cs[k] /\ d \in [token : Seq(Byte), start : Nat, end : Int]
  <2>1. cs[k] \in Chunk
    BY <1>1
  <2> QED
    BY <2>1 DEF Chunk
<1>3. k \in 1 .. Len(tt)
  BY <1>1
<1>4. PICK q : q = Len(tt[k]) /\ q \in Nat /\ n \in Nat /\ Len(Through(tt, k)) = n + q
  BY <1>1, <1>3, PieceStands
<1>5. n <= n /\ n <= Len(Through(tt, k)) /\ n - n = 0
  <2>1. PICK b : b = Len(Through(tt, k)) /\ b = n + q
    BY <1>4
  <2>2. n \in Nat /\ q \in Nat
    BY <1>4
  <2>3. n <= n /\ n <= b /\ n - n = 0
    BY <2>1, <2>2
  <2> QED
    BY <2>1, <2>3
<1>6. d = Advance(d, 0)
  <2>1. d.start + 0 = d.start
    BY <1>2
  <2>2. d = [d EXCEPT !.start = d.start]
    BY <1>2
  <2> QED
    BY <2>1, <2>2 DEF Advance
<1>7. d = Advance(d, n - n)
  BY <1>5, <1>6
<1> QED
  BY <1>2, <1>4, <1>5, <1>7 DEF Reached

\* When all bytes are done the rest of the chunks is empty.
LEMMA EmptyAfter ==
    ASSUME NEW cs, NEW tt, NEW w, Side(cs, tt, w), NEW k \in 0 .. Len(cs),
           Len(Through(tt, k)) = Len(w)
    PROVE  AllEmptyAfter(cs, k)
<1>1. /\ cs \in Seq(Chunk) /\ tt \in Seq(Seq(Byte)) /\ Len(tt) = Len(cs) /\ FlattenSeq(tt) = w
      /\ \A i \in 1 .. Len(cs) :
             /\ cs[i] \in Chunk /\ cs[i].start <= cs[i].end
             /\ Len(tt[i]) = cs[i].end - cs[i].start
  BY DEF Side, Tiles
<1>2. Len(cs) \in Nat
  BY <1>1
<1>3. ASSUME NEW i \in k + 1 .. Len(cs) PROVE IsEmpty(cs[i])
  <2>1. /\ i \in 1 .. Len(tt) /\ k \in 0 .. Len(tt) /\ i - 1 \in 0 .. Len(tt) /\ k <= i - 1
        /\ i \in 1 .. Len(cs)
    BY <1>1, <1>2
  <2>2. PICK a, b, q, m : Stands(tt, w, i, a, b, q, m)
    BY <1>1, <2>1, Standing
  <2>3. /\ a = Len(Through(tt, i - 1)) /\ q = tt[i] /\ m = Len(q)
        /\ a \in Nat /\ m \in Nat /\ a + m <= Len(w)
    BY <2>2 DEF Stands
  <2>4. PICK l : l = Len(w) /\ l \in Nat /\ l <= a
    <3>1. Len(Through(tt, k)) \in Nat /\ Len(Through(tt, k)) <= Len(Through(tt, i - 1))
      BY <1>1, <2>1, ThroughGrows
    <3> QED
      BY <2>3, <3>1
  <2>5. m = 0
    <3>1. a + m <= l
      BY <2>3, <2>4
    <3>2. a \in Nat /\ m \in Nat
      BY <2>3
    <3> QED
      BY <2>4, <3>1, <3>2
  <2>6. PICK x, y : x = cs[i].start /\ y = cs[i].end
    OBVIOUS
  <2>7. x \in Nat /\ y \in Int /\ y - x = 0
    <3>1. cs[i] \in Chunk /\ y - x = 0
      BY <1>1, <2>1, <2>3, <2>5, <2>6
    <3> QED
      BY <2>6, <3>1 DEF Chunk
  <2>8. x = y
    BY <2>7
  <2> QED
    BY <2>6, <2>8 DEF IsEmpty
<1> QED
  BY <1>3 DEF AllEmptyAfter

\* One text begins with the other if they agree as far as both go.
LEMMA PrefixEither ==
    ASSUME NEW x \in Seq(Byte), NEW y \in Seq(Byte), NEW m \in Nat, m <= Len(x), m <= Len(y),
           m = Len(x) \/ m = Len(y)
    PROVE  (IsPrefix(x, y) \/ IsPrefix(y, x)) <=> \A q \in 1 .. m : x[q] = y[q]
<1>0. Len(x) \in Nat /\ Len(y) \in Nat
  OBVIOUS
<1>1. PICK a, b : a = Len(x) /\ b = Len(y) /\ a \in Nat /\ b \in Nat
  BY <1>0
<1>2. IsPrefix(x, y) <=> a <= b /\ \A j \in 1 .. a : y[j] = x[j]
  BY <1>1, PrefixElements
<1>3. IsPrefix(y, x) <=> b <= a /\ \A j \in 1 .. b : x[j] = y[j]
  BY <1>1, PrefixElements
<1>4. CASE a <= b
  <2>1. m = a
    BY <1>1, <1>4
  <2>2. b <= a => a = b
    BY <1>1, <1>4
  <2> QED
    BY <1>2, <1>3, <1>4, <2>1, <2>2
<1>5. CASE b <= a
  <2>1. m = b
    BY <1>1, <1>5
  <2>2. a <= b => a = b
    BY <1>1, <1>5
  <2> QED
    BY <1>2, <1>3, <1>5, <2>1, <2>2
<1> QED
  BY <1>1, <1>4, <1>5

\* Two texts of the same length are compared.
Compared(xs, tt, s, ys, uu, t) ==
    Side(xs, tt, s) /\ Side(ys, uu, t) /\ Len(s) = Len(t)

\* What is left of a chunk of each, when both have been read and found the same
\* up to n.
Together(xs, tt, s, ys, uu, t, z, n) ==
    /\ Reached(xs, tt, z.i, z.x, n) /\ Reached(ys, uu, z.j, z.y, n)
    /\ Agree(s, t, n) /\ IsBoundary(s, n) /\ IsBoundary(t, n)

\* What an outcome says of the texts.
Sound(xs, tt, s, ys, uu, t, z) ==
    /\ z.outcome = "more" => \E n : Together(xs, tt, s, ys, uu, t, z, n)
    /\ z.outcome = "end" => s = t /\ AllEmptyAfter(xs, z.i) /\ AllEmptyAfter(ys, z.j)
    /\ z.outcome = "differ" => s # t

ZipState == [i : Nat, x : Rest, j : Nat, y : Rest, outcome : {"more", "end", "differ"}]

\* When a chunk is used up there is another one, or its text is over.
LEMMA NextChunk ==
    ASSUME NEW cs, NEW tt, NEW w, Side(cs, tt, w), NEW k, NEW c, NEW n, Reached(cs, tt, k, c, n),
           IsEmpty(c)
    PROVE  /\ k = Len(cs) => n = Len(w)
           /\ k # Len(cs) => Reached(cs, tt, k + 1, cs[k + 1], n) /\ cs[k + 1] \in Rest
<1>1. cs \in Seq(Chunk) /\ tt \in Seq(Seq(Byte)) /\ Len(tt) = Len(cs) /\ FlattenSeq(tt) = w
  BY DEF Side, Tiles
<1>2. k \in 1 .. Len(cs) /\ n \in Nat
  BY DEF Reached
<1>3. PICK b, r : b = Len(Through(tt, k)) /\ r = b - n /\ b \in Nat /\ Remains(w, c, n, r)
  BY LeftOver
<1>4. n = b
  <2>1. r = c.end - c.start /\ c \in Rest
    BY <1>3 DEF Remains
  <2>2. PICK x, y : x = c.start /\ y = c.end /\ x \in Nat /\ y \in Int /\ x = y
    BY <2>1 DEF Rest, IsEmpty
  <2>3. r = 0
    BY <2>1, <2>2
  <2> QED
    BY <1>2, <1>3, <2>3
<1>5. k = Len(cs) => n = Len(w)
  <2>1. Through(tt, Len(tt)) = w
    BY <1>1, ThroughSteps
  <2> QED
    BY <1>1, <1>3, <1>4, <2>1
<1>6. ASSUME k # Len(cs) PROVE Reached(cs, tt, k + 1, cs[k + 1], n) /\ cs[k + 1] \in Rest
  <2>0. Len(cs) \in Nat
    BY <1>1
  <2>1. PICK h : h = k + 1 /\ h \in 1 .. Len(cs) /\ h - 1 = k
    BY <1>2, <1>6, <2>0
  <2>2. n = Len(Through(tt, h - 1))
    BY <1>3, <1>4, <2>1
  <2>3. Reached(cs, tt, h, cs[h], n)
    BY <2>1, <2>2, BeginReaches
  <2>4. cs[h] \in Rest
    BY <1>1, <2>1 DEF Chunk, Rest
  <2> QED
    BY <2>1, <2>3, <2>4
<1> QED
  BY <1>5, <1>6

\* When one text is over so is the other, and they were the same.
LEMMA Ending ==
    ASSUME NEW xs, NEW tt, NEW s, NEW ys, NEW uu, NEW t, Compared(xs, tt, s, ys, uu, t),
           NEW i \in 0 .. Len(xs), NEW j \in 0 .. Len(ys), NEW n,
           n = Len(s), Len(Through(tt, i)) >= n, Len(Through(uu, j)) >= n, Agree(s, t, n)
    PROVE  s = t /\ AllEmptyAfter(xs, i) /\ AllEmptyAfter(ys, j)
<1>1. /\ Side(xs, tt, s) /\ Side(ys, uu, t) /\ Len(s) = Len(t)
      /\ s \in Seq(Byte) /\ t \in Seq(Byte)
  BY DEF Compared, Side
<1>2. s = t
  BY <1>1, SameSeq DEF Agree
<1>3. ASSUME NEW cs, NEW vv, NEW w, Side(cs, vv, w), NEW k \in 0 .. Len(cs),
             Len(Through(vv, k)) >= Len(w)
      PROVE  AllEmptyAfter(cs, k)
  <2>1. vv \in Seq(Seq(Byte)) /\ FlattenSeq(vv) = w /\ Len(vv) = Len(cs) /\ w \in Seq(Byte)
    BY <1>3 DEF Side, Tiles
  <2>2. k \in 0 .. Len(vv) /\ Len(vv) \in 0 .. Len(vv) /\ k <= Len(vv) /\ Len(w) \in Nat
    BY <2>1
  <2>3. Len(Through(vv, k)) \in Nat /\ Len(Through(vv, k)) <= Len(Through(vv, Len(vv)))
    BY <2>1, <2>2, ThroughGrows
  <2>4. Through(vv, Len(vv)) = w
    BY <2>1, ThroughSteps
  <2>5. Len(Through(vv, k)) = Len(w)
    <3>1. PICK a, b : a = Len(Through(vv, k)) /\ b = Len(w)
      OBVIOUS
    <3>2. a \in Nat /\ b \in Nat /\ a <= b /\ a >= b
      BY <1>3, <2>2, <2>3, <2>4, <3>1
    <3>3. a = b
      BY <3>2
    <3> QED
      BY <3>1, <3>3
  <2> QED
    BY <1>3, <2>5, EmptyAfter
<1>4. AllEmptyAfter(xs, i)
  BY <1>1, <1>3
<1>5. AllEmptyAfter(ys, j)
  BY <1>1, <1>3
<1> QED
  BY <1>2, <1>4, <1>5

\* How much is left to do.
Left(c) == IF IsEmpty(c) THEN 0 ELSE 1
Work(xs, ys, z) == (2 * (Len(xs) - z.i) + 2 * (Len(ys) - z.j)) + (Left(z.x) + Left(z.y))

LEMMA ZipBegins ==
    ASSUME NEW xs, NEW tt, NEW s, NEW ys, NEW uu, NEW t, Compared(xs, tt, s, ys, uu, t),
           NEW z, z = ZipStart(xs, ys)
    PROVE  /\ z \in ZipState /\ Sound(xs, tt, s, ys, uu, t, z)
           /\ z.outcome = "more" => Work(xs, ys, z) <= ZipTime(xs, ys) - 2
<1>1. /\ Side(xs, tt, s) /\ Side(ys, uu, t) /\ Len(s) = Len(t)
  BY DEF Compared
<1>2. ASSUME NEW cs, NEW vv, NEW w, Side(cs, vv, w)
      PROVE  /\ cs \in Seq(Chunk) /\ vv \in Seq(Seq(Byte)) /\ Len(vv) = Len(cs) /\ Len(cs) \in Nat
             /\ Through(vv, 0) = <<>> /\ Len(w) \in Nat
             /\ cs = <<>> => Len(w) = 0
             /\ Len(cs) > 0 => Len(Through(vv, 1)) \in Nat
  <2>1. cs \in Seq(Chunk) /\ vv \in Seq(Seq(Byte)) /\ Len(vv) = Len(cs) /\ FlattenSeq(vv) = w
        /\ w \in Seq(Byte)
    BY <1>2 DEF Side, Tiles
  <2>2. Through(vv, 0) = <<>> /\ Through(vv, Len(vv)) = w
    BY <2>1, ThroughSteps
  <2>3. cs = <<>> => Len(vv) = 0
    BY <2>1
  <2>4. Len(cs) > 0 => Len(Through(vv, 1)) \in Nat
    <3>1. SUFFICES ASSUME Len(cs) > 0 PROVE Len(Through(vv, 1)) \in Nat
      OBVIOUS
    <3>2. Len(cs) \in Nat
      BY <2>1
    <3>3. 1 \in 0 .. Len(vv) /\ Len(vv) \in 0 .. Len(vv) /\ 1 <= Len(vv)
      BY <2>1, <3>1, <3>2
    <3> QED
      BY <2>1, <3>3, ThroughGrows
  <2>5. Len(cs) \in Nat /\ Len(w) \in Nat
    BY <2>1
  <2>6. cs = <<>> => Len(w) = 0
    BY <2>2, <2>3
  <2> QED
    BY <2>1, <2>2, <2>4, <2>5, <2>6
<1>3. /\ xs \in Seq(Chunk) /\ Len(xs) \in Nat /\ Through(tt, 0) = <<>> /\ Len(s) \in Nat
      /\ xs = <<>> => Len(s) = 0
      /\ Len(xs) > 0 => Len(Through(tt, 1)) \in Nat
  BY <1>1, <1>2
<1>4. /\ ys \in Seq(Chunk) /\ Len(ys) \in Nat /\ Through(uu, 0) = <<>> /\ Len(t) \in Nat
      /\ ys = <<>> => Len(t) = 0
      /\ Len(ys) > 0 => Len(Through(uu, 1)) \in Nat
  BY <1>1, <1>2
<1>5. Agree(s, t, 0)
  BY DEF Agree
<1>6. Len(<<>>) = 0 /\ 0 >= 0
  OBVIOUS
<1>7. NoChunk \in Rest
  BY DEF NoChunk, Rest
<1>8. CASE xs = <<>>
  <2>1. z = Zipped(0, NoChunk, 0, NoChunk, "end")
    BY <1>8 DEF ZipStart
  <2>2. z \in ZipState /\ z.i = 0 /\ z.j = 0 /\ z.outcome = "end"
    BY <1>7, <2>1 DEF Zipped, ZipState
  <2>3. 0 \in 0 .. Len(xs) /\ 0 \in 0 .. Len(ys)
    BY <1>3, <1>4
  <2>4. 0 = Len(s) /\ Len(Through(tt, 0)) >= 0 /\ Len(Through(uu, 0)) >= 0
    BY <1>3, <1>4, <1>6, <1>8
  <2>5. s = t /\ AllEmptyAfter(xs, 0) /\ AllEmptyAfter(ys, 0)
    BY <1>5, <2>3, <2>4, Ending
  <2> QED
    BY <2>2, <2>5 DEF Sound
<1>9. CASE xs # <<>> /\ ys = <<>>
  <2>1. z = Zipped(1, xs[1], 0, NoChunk, "end")
    BY <1>9 DEF ZipStart
  <2>2. Len(xs) > 0 /\ 1 \in 0 .. Len(xs) /\ 0 \in 0 .. Len(ys) /\ xs[1] \in Chunk
    BY <1>3, <1>4, <1>9
  <2>3. z \in ZipState /\ z.i = 1 /\ z.j = 0 /\ z.outcome = "end"
    <3>1. xs[1] \in Rest
      BY <2>2 DEF Chunk, Rest
    <3> QED
      BY <1>7, <2>1, <3>1 DEF Zipped, ZipState
  <2>4. 0 = Len(s) /\ Len(Through(tt, 1)) >= 0 /\ Len(Through(uu, 0)) >= 0
    BY <1>1, <1>3, <1>4, <1>6, <1>9, <2>2
  <2>5. s = t /\ AllEmptyAfter(xs, 1) /\ AllEmptyAfter(ys, 0)
    BY <1>5, <2>2, <2>4, Ending
  <2> QED
    BY <2>3, <2>5 DEF Sound
<1>10. CASE xs # <<>> /\ ys # <<>>
  <2>1. z = Zipped(1, xs[1], 1, ys[1], "more")
    BY <1>10 DEF ZipStart
  <2>2. /\ Len(xs) > 0 /\ 1 \in 1 .. Len(xs) /\ xs[1] \in Chunk
        /\ Len(ys) > 0 /\ 1 \in 1 .. Len(ys) /\ ys[1] \in Chunk
    BY <1>3, <1>4, <1>10
  <2>3. PICK x, y : x = xs[1] /\ y = ys[1] /\ x \in Rest /\ y \in Rest
    <3>1. xs[1] \in Rest /\ ys[1] \in Rest
      BY <2>2 DEF Chunk, Rest
    <3> QED
      BY <3>1
  <2>4. /\ z \in ZipState /\ z.i = 1 /\ z.j = 1 /\ z.x = x /\ z.y = y /\ z.outcome = "more"
    BY <2>1, <2>3 DEF Zipped, ZipState
  <2>5. 0 = Len(Through(tt, 1 - 1)) /\ 0 = Len(Through(uu, 1 - 1))
    <3>1. 1 - 1 = 0
      OBVIOUS
    <3> QED
      BY <1>3, <1>4, <1>6, <3>1
  <2>6. Reached(xs, tt, 1, x, 0) /\ Reached(ys, uu, 1, y, 0)
    BY <1>1, <2>2, <2>3, <2>5, BeginReaches
  <2>7. IsBoundary(s, 0) /\ IsBoundary(t, 0)
    BY DEF IsBoundary
  <2>8. Together(xs, tt, s, ys, uu, t, z, 0)
    BY <1>5, <2>4, <2>6, <2>7 DEF Together
  <2>9. Sound(xs, tt, s, ys, uu, t, z)
    BY <2>4, <2>8 DEF Sound
  <2>10. Work(xs, ys, z) <= ZipTime(xs, ys) - 2
    <3>1. PICK k, l, a, b : k = Len(xs) /\ l = Len(ys) /\ a = Left(x) /\ b = Left(y)
      OBVIOUS
    <3>2. a \in 0 .. 1 /\ b \in 0 .. 1
      BY <3>1 DEF Left
    <3>3. k \in Nat /\ l \in Nat
      BY <1>3, <1>4, <3>1
    <3>4. Work(xs, ys, z) = (2 * (k - 1) + 2 * (l - 1)) + (a + b)
      BY <2>4, <3>1 DEF Work
    <3>5. ZipTime(xs, ys) = 2 * (k + l)
      BY <3>1 DEF ZipTime
    <3>6. (2 * (k - 1) + 2 * (l - 1)) + (a + b) <= 2 * (k + l) - 2
      BY <3>2, <3>3
    <3> QED
      BY <3>4, <3>5, <3>6
  <2> QED
    BY <2>4, <2>9, <2>10
<1> QED
  BY <1>8, <1>9, <1>10

\* A state of the loop that goes on, and what is left of both chunks.
Going(xs, tt, s, ys, uu, t, z, i, x, j, y, n, p, q) ==
    /\ z \in ZipState /\ z.outcome = "more"
    /\ i = z.i /\ x = z.x /\ j = z.j /\ y = z.y
    /\ i \in 1 .. Len(xs) /\ j \in 1 .. Len(ys) /\ n \in Nat
    /\ Reached(xs, tt, i, x, n) /\ Reached(ys, uu, j, y, n)
    /\ Agree(s, t, n) /\ IsBoundary(s, n) /\ IsBoundary(t, n)
    /\ p = Len(Through(tt, i)) - n /\ q = Len(Through(uu, j)) - n
    /\ Len(Through(tt, i)) \in Nat /\ Len(Through(uu, j)) \in Nat
    /\ Remains(s, x, n, p) /\ Remains(t, y, n, q)

LEMMA GoesOn ==
    ASSUME NEW xs, NEW tt, NEW s, NEW ys, NEW uu, NEW t, Compared(xs, tt, s, ys, uu, t),
           NEW z \in ZipState, Sound(xs, tt, s, ys, uu, t, z), z.outcome = "more"
    PROVE  \E i, x, j, y, n, p, q : Going(xs, tt, s, ys, uu, t, z, i, x, j, y, n, p, q)
<1>1. Side(xs, tt, s) /\ Side(ys, uu, t)
  BY DEF Compared
<1>2. PICK n : Together(xs, tt, s, ys, uu, t, z, n)
  BY DEF Sound
<1>3. PICK i, x, j, y : i = z.i /\ x = z.x /\ j = z.j /\ y = z.y
  OBVIOUS
<1>4. /\ Reached(xs, tt, i, x, n) /\ Reached(ys, uu, j, y, n)
      /\ Agree(s, t, n) /\ IsBoundary(s, n) /\ IsBoundary(t, n)
  BY <1>2, <1>3 DEF Together
<1>5. i \in 1 .. Len(xs) /\ j \in 1 .. Len(ys) /\ n \in Nat
  BY <1>4 DEF Reached
<1>6. PICK p, q : p = Len(Through(tt, i)) - n /\ q = Len(Through(uu, j)) - n
  OBVIOUS
<1>7. /\ Remains(s, x, n, p) /\ Len(Through(tt, i)) \in Nat
      /\ Remains(t, y, n, q) /\ Len(Through(uu, j)) \in Nat
  BY <1>1, <1>4, <1>6, LeftOver
<1>8. Going(xs, tt, s, ys, uu, t, z, i, x, j, y, n, p, q)
  BY <1>3, <1>4, <1>5, <1>6, <1>7, Zenon DEF Going
<1> QED
  BY <1>8

\* What a step of the loop has to do.
Steps(xs, tt, s, ys, uu, t, z, u) ==
    /\ u \in ZipState /\ Sound(xs, tt, s, ys, uu, t, u)
    /\ u.outcome = "more" => Work(xs, ys, u) + 1 <= Work(xs, ys, z)

\* The chunk of the first text is used up.
LEMMA StepLeft ==
    ASSUME NEW xs, NEW tt, NEW s, NEW ys, NEW uu, NEW t, Compared(xs, tt, s, ys, uu, t),
           NEW z, NEW i, NEW x, NEW j, NEW y, NEW n, NEW p, NEW q,
           Going(xs, tt, s, ys, uu, t, z, i, x, j, y, n, p, q),
           IsEmpty(x), NEW u, u = ZipStep(xs, ys, z)
    PROVE  Steps(xs, tt, s, ys, uu, t, z, u)
<1>1. /\ z \in ZipState /\ z.outcome = "more"
      /\ i = z.i /\ x = z.x /\ j = z.j /\ y = z.y
      /\ i \in 1 .. Len(xs) /\ j \in 1 .. Len(ys) /\ n \in Nat
      /\ Reached(xs, tt, i, x, n) /\ Reached(ys, uu, j, y, n)
      /\ Agree(s, t, n) /\ IsBoundary(s, n) /\ IsBoundary(t, n)
  BY Zenon DEF Going
<1>2. Side(xs, tt, s) /\ Side(ys, uu, t) /\ Len(s) = Len(t)
  BY DEF Compared
<1>3. /\ i = Len(xs) => n = Len(s)
      /\ i # Len(xs) => Reached(xs, tt, i + 1, xs[i + 1], n) /\ xs[i + 1] \in Rest
  BY <1>1, <1>2, NextChunk
<1>4. u = IF i = Len(xs) THEN [z EXCEPT !.outcome = "end"]
          ELSE [z EXCEPT !.i = i + 1, !.x = xs[i + 1]]
  BY <1>1, Zenon DEF ZipStep
<1>5. Len(xs) \in Nat /\ Len(ys) \in Nat
  BY <1>2 DEF Side, Tiles
<1>6. CASE i = Len(xs)
  <2>1. u = [z EXCEPT !.outcome = "end"]
    BY <1>4, <1>6
  <2>2. u \in ZipState /\ u.i = i /\ u.j = j /\ u.outcome = "end"
    BY <1>1, <2>1 DEF ZipState
  <2>3. Len(Through(tt, i)) >= n /\ Len(Through(uu, j)) >= n
    <3>1. n <= Len(Through(tt, i)) /\ n <= Len(Through(uu, j))
      BY <1>1 DEF Reached
    <3> QED
      BY <3>1
  <2>4. i \in 0 .. Len(xs) /\ j \in 0 .. Len(ys)
    BY <1>1, <1>5
  <2>5. s = t /\ AllEmptyAfter(xs, i) /\ AllEmptyAfter(ys, j)
    BY <1>1, <1>3, <1>6, <2>3, <2>4, Ending
  <2> QED
    BY <2>2, <2>5 DEF Steps, Sound
<1>7. CASE i # Len(xs)
  <2>1. PICK h, c : h = i + 1 /\ c = xs[i + 1] /\ h \in Nat
    BY <1>1, <1>5
  <2>2. Reached(xs, tt, h, c, n) /\ c \in Rest
    BY <1>3, <1>7, <2>1
  <2>3. u = [z EXCEPT !.i = h, !.x = c]
    BY <1>4, <1>7, <2>1
  <2>4. u \in ZipState /\ u.i = h /\ u.x = c /\ u.j = j /\ u.y = y /\ u.outcome = "more"
    BY <1>1, <2>1, <2>2, <2>3 DEF ZipState
  <2>5. Together(xs, tt, s, ys, uu, t, u, n)
    BY <1>1, <2>2, <2>4 DEF Together
  <2>6. Sound(xs, tt, s, ys, uu, t, u)
    BY <2>4, <2>5 DEF Sound
  <2>7. Work(xs, ys, u) + 1 <= Work(xs, ys, z)
    <3>1. PICK k, l, a, b : k = Len(xs) /\ l = Len(ys) /\ a = Left(c) /\ b = Left(y)
      OBVIOUS
    <3>2. a \in 0 .. 1 /\ b \in 0 .. 1 /\ Left(x) = 0
      BY <3>1 DEF Left
    <3>3. k \in Nat /\ l \in Nat /\ i \in Int /\ j \in Int /\ h = i + 1
      BY <1>1, <1>5, <2>1, <3>1
    <3>4. Work(xs, ys, u) = (2 * (k - h) + 2 * (l - j)) + (a + b)
      BY <2>4, <3>1 DEF Work
    <3>5. Work(xs, ys, z) = (2 * (k - i) + 2 * (l - j)) + (0 + b)
      BY <1>1, <3>1, <3>2 DEF Work
    <3>6. ((2 * (k - h) + 2 * (l - j)) + (a + b)) + 1 <= (2 * (k - i) + 2 * (l - j)) + (0 + b)
      BY <3>2, <3>3
    <3> QED
      BY <3>4, <3>5, <3>6
  <2> QED
    BY <2>4, <2>6, <2>7 DEF Steps
<1> QED
  BY <1>6, <1>7

\* The chunk of the second text is.
LEMMA StepRight ==
    ASSUME NEW xs, NEW tt, NEW s, NEW ys, NEW uu, NEW t, Compared(xs, tt, s, ys, uu, t),
           NEW z, NEW i, NEW x, NEW j, NEW y, NEW n, NEW p, NEW q,
           Going(xs, tt, s, ys, uu, t, z, i, x, j, y, n, p, q),
           ~ IsEmpty(x), IsEmpty(y), NEW u, u = ZipStep(xs, ys, z)
    PROVE  Steps(xs, tt, s, ys, uu, t, z, u)
<1>1. /\ z \in ZipState /\ z.outcome = "more"
      /\ i = z.i /\ x = z.x /\ j = z.j /\ y = z.y
      /\ i \in 1 .. Len(xs) /\ j \in 1 .. Len(ys) /\ n \in Nat
      /\ Reached(xs, tt, i, x, n) /\ Reached(ys, uu, j, y, n)
      /\ Agree(s, t, n) /\ IsBoundary(s, n) /\ IsBoundary(t, n)
  BY Zenon DEF Going
<1>2. Side(xs, tt, s) /\ Side(ys, uu, t) /\ Len(s) = Len(t)
  BY DEF Compared
<1>3. /\ j = Len(ys) => n = Len(t)
      /\ j # Len(ys) => Reached(ys, uu, j + 1, ys[j + 1], n) /\ ys[j + 1] \in Rest
  BY <1>1, <1>2, NextChunk
<1>4. u = IF j = Len(ys) THEN [z EXCEPT !.outcome = "end"]
          ELSE [z EXCEPT !.j = j + 1, !.y = ys[j + 1]]
  BY <1>1, Zenon DEF ZipStep
<1>5. Len(xs) \in Nat /\ Len(ys) \in Nat
  BY <1>2 DEF Side, Tiles
<1>6. CASE j = Len(ys)
  <2>1. u = [z EXCEPT !.outcome = "end"]
    BY <1>4, <1>6
  <2>2. u \in ZipState /\ u.i = i /\ u.j = j /\ u.outcome = "end"
    BY <1>1, <2>1 DEF ZipState
  <2>3. Len(Through(tt, i)) >= n /\ Len(Through(uu, j)) >= n
    <3>1. n <= Len(Through(tt, i)) /\ n <= Len(Through(uu, j))
      BY <1>1 DEF Reached
    <3> QED
      BY <3>1
  <2>4. i \in 0 .. Len(xs) /\ j \in 0 .. Len(ys) /\ n = Len(s)
    BY <1>1, <1>2, <1>3, <1>5, <1>6
  <2>5. s = t /\ AllEmptyAfter(xs, i) /\ AllEmptyAfter(ys, j)
    BY <1>1, <2>3, <2>4, Ending
  <2> QED
    BY <2>2, <2>5 DEF Steps, Sound
<1>7. CASE j # Len(ys)
  <2>1. PICK h, c : h = j + 1 /\ c = ys[j + 1] /\ h \in Nat
    BY <1>1, <1>5
  <2>2. Reached(ys, uu, h, c, n) /\ c \in Rest
    BY <1>3, <1>7, <2>1
  <2>3. u = [z EXCEPT !.j = h, !.y = c]
    BY <1>4, <1>7, <2>1
  <2>4. u \in ZipState /\ u.i = i /\ u.x = x /\ u.j = h /\ u.y = c /\ u.outcome = "more"
    BY <1>1, <2>1, <2>2, <2>3 DEF ZipState
  <2>5. Together(xs, tt, s, ys, uu, t, u, n)
    BY <1>1, <2>2, <2>4 DEF Together
  <2>6. Sound(xs, tt, s, ys, uu, t, u)
    BY <2>4, <2>5 DEF Sound
  <2>7. Work(xs, ys, u) + 1 <= Work(xs, ys, z)
    <3>1. PICK k, l, a, b : k = Len(xs) /\ l = Len(ys) /\ a = Left(x) /\ b = Left(c)
      OBVIOUS
    <3>2. a \in 0 .. 1 /\ b \in 0 .. 1 /\ Left(y) = 0
      BY <3>1 DEF Left
    <3>3. k \in Nat /\ l \in Nat /\ i \in Int /\ j \in Int /\ h = j + 1
      BY <1>1, <1>5, <2>1, <3>1
    <3>4. Work(xs, ys, u) = (2 * (k - i) + 2 * (l - h)) + (a + b)
      BY <2>4, <3>1 DEF Work
    <3>5. Work(xs, ys, z) = (2 * (k - i) + 2 * (l - j)) + (a + 0)
      BY <1>1, <3>1, <3>2 DEF Work
    <3>6. ((2 * (k - i) + 2 * (l - h)) + (a + b)) + 1 <= (2 * (k - i) + 2 * (l - j)) + (a + 0)
      BY <3>2, <3>3
    <3> QED
      BY <3>4, <3>5, <3>6
  <2> QED
    BY <2>4, <2>6, <2>7 DEF Steps
<1> QED
  BY <1>6, <1>7

\* m bytes of what is left are taken.
LEMMA Taking ==
    ASSUME NEW w, NEW c, NEW n, NEW r, Remains(w, c, n, r), NEW m \in Nat, m <= r,
           NEW d, d = Advance(c, m)
    PROVE  d \in Rest /\ (IsEmpty(d) <=> m = r) /\ (IsEmpty(c) <=> r = 0)
<1>1. c \in Rest /\ r \in Nat /\ c.end - c.start = r
  BY DEF Remains
<1>2. PICK a, b : a = c.start /\ b = c.end /\ a \in Nat /\ b \in Int /\ b - a = r
  BY <1>1 DEF Rest
<1>3. d = [c EXCEPT !.start = a + m]
  BY <1>1, <1>2 DEF Advance, Rest
<1>4. PICK e : e = a + m /\ e \in Nat
  BY <1>2
<1>5. d \in Rest /\ d.start = e /\ d.end = b
  BY <1>1, <1>2, <1>3, <1>4 DEF Rest
<1>6. e = b <=> m = r
  BY <1>1, <1>2, <1>4
<1>7. a = b <=> r = 0
  BY <1>1, <1>2
<1> QED
  BY <1>2, <1>5, <1>6, <1>7 DEF IsEmpty

\* Both chunks have bytes left.
LEMMA StepBoth ==
    ASSUME NEW xs, NEW tt, NEW s, NEW ys, NEW uu, NEW t, Compared(xs, tt, s, ys, uu, t),
           NEW z, NEW i, NEW x, NEW j, NEW y, NEW n, NEW p, NEW q,
           Going(xs, tt, s, ys, uu, t, z, i, x, j, y, n, p, q),
           ~ IsEmpty(x), ~ IsEmpty(y), NEW u, u = ZipStep(xs, ys, z)
    PROVE  Steps(xs, tt, s, ys, uu, t, z, u)
<1>1. /\ z \in ZipState /\ z.outcome = "more"
      /\ i = z.i /\ x = z.x /\ j = z.j /\ y = z.y
      /\ i \in 1 .. Len(xs) /\ j \in 1 .. Len(ys) /\ n \in Nat
      /\ Reached(xs, tt, i, x, n) /\ Reached(ys, uu, j, y, n)
      /\ Agree(s, t, n) /\ IsBoundary(s, n) /\ IsBoundary(t, n)
      /\ p = Len(Through(tt, i)) - n /\ q = Len(Through(uu, j)) - n
      /\ Len(Through(tt, i)) \in Nat /\ Len(Through(uu, j)) \in Nat
      /\ Remains(s, x, n, p) /\ Remains(t, y, n, q)
  BY Zenon DEF Going
<1>2. /\ Side(xs, tt, s) /\ Side(ys, uu, t) /\ Len(s) = Len(t)
      /\ Coded(s) /\ Coded(t) /\ s \in Seq(Byte) /\ t \in Seq(Byte)
  BY DEF Compared, Side
<1>3. PICK cx, cy : cx = ChunkText(x) /\ cy = ChunkText(y)
  OBVIOUS
<1>4. /\ p \in Nat /\ n + p <= Len(s) /\ x.end - x.start = p
      /\ cx \in Seq(Byte) /\ Len(cx) = p /\ \A r \in 1 .. p : cx[r] = s[n + r]
      /\ IsBoundary(s, n + p) /\ Readable(x)
  BY <1>1, <1>3, Zenon DEF Remains
<1>5. /\ q \in Nat /\ n + q <= Len(t) /\ y.end - y.start = q
      /\ cy \in Seq(Byte) /\ Len(cy) = q /\ \A r \in 1 .. q : cy[r] = t[n + r]
      /\ IsBoundary(t, n + q) /\ Readable(y)
  BY <1>1, <1>3, Zenon DEF Remains
<1>6. PICK m : m = Min({p, q}) /\ m = IF p < q THEN p ELSE q
  <2>1. p \in Int /\ q \in Int
    BY <1>4, <1>5
  <2> QED
    BY <2>1, OfTwo
<1>7. m \in Nat /\ m <= p /\ m <= q /\ (m = p \/ m = q)
  <2>1. p \in Nat /\ q \in Nat
    BY <1>4, <1>5
  <2> QED
    BY <1>6, <2>1
<1>8. PICK d, e : d = Advance(x, m) /\ e = Advance(y, m)
  OBVIOUS
<1>9. PICK same : same = (IsPrefix(cx, cy) \/ IsPrefix(cy, cx))
  OBVIOUS
<1>10. u = IF ~ same THEN [z EXCEPT !.outcome = "differ"]
           ELSE [z EXCEPT !.x = d, !.y = e]
  BY <1>1, <1>3, <1>4, <1>5, <1>6, <1>8, <1>9, Zenon DEF ZipStep
<1>11. same <=> \A r \in 1 .. m : cx[r] = cy[r]
  <2>1. cx \in Seq(Byte) /\ cy \in Seq(Byte) /\ m <= Len(cx) /\ m <= Len(cy)
        /\ (m = Len(cx) \/ m = Len(cy))
    BY <1>4, <1>5, <1>7
  <2>2. (IsPrefix(cx, cy) \/ IsPrefix(cy, cx)) <=> \A r \in 1 .. m : cx[r] = cy[r]
    BY <1>7, <2>1, PrefixEither
  <2> QED
    BY <1>9, <2>2
<1>12. ASSUME NEW r \in 1 .. m PROVE cx[r] = s[n + r] /\ cy[r] = t[n + r]
  <2>1. r \in 1 .. p /\ r \in 1 .. q
    <3>1. p \in Nat /\ q \in Nat
      BY <1>4, <1>5
    <3> QED
      BY <1>7, <3>1
  <2> QED
    BY <1>4, <1>5, <2>1
<1>13. CASE ~ same
  <2>1. u = [z EXCEPT !.outcome = "differ"]
    BY <1>10, <1>13
  <2>2. u \in ZipState /\ u.outcome = "differ"
    BY <1>1, <2>1 DEF ZipState
  <2>3. s # t
    BY <1>11, <1>12, <1>13
  <2> QED
    BY <2>2, <2>3 DEF Steps, Sound
<1>14. CASE same
  <2>1. u = [z EXCEPT !.x = d, !.y = e]
    BY <1>10, <1>14
  <2>2. /\ d \in Rest /\ (IsEmpty(d) <=> m = p)
        /\ e \in Rest /\ (IsEmpty(e) <=> m = q)
    BY <1>1, <1>7, <1>8, Taking
  <2>3. u \in ZipState /\ u.i = i /\ u.x = d /\ u.j = j /\ u.y = e /\ u.outcome = "more"
    BY <1>1, <2>1, <2>2 DEF ZipState
  <2>4. PICK h : h = n + m /\ h \in Nat
    BY <1>1, <1>7
  <2>5. /\ h <= Len(Through(tt, i)) /\ h <= Len(Through(uu, j))
        /\ h <= Len(s) /\ h <= Len(t)
    <3>1. PICK a, b, k, l : /\ a = Len(Through(tt, i)) /\ b = Len(Through(uu, j))
                            /\ k = Len(s) /\ l = Len(t)
      OBVIOUS
    <3>2. /\ a \in Nat /\ b \in Nat /\ p = a - n /\ q = b - n /\ n \in Nat
      BY <1>1, <3>1
    <3>3. k \in Nat /\ l \in Nat /\ n + p <= k /\ n + q <= l
      BY <1>2, <1>4, <1>5, <3>1
    <3>4. h <= a /\ h <= b /\ h <= k /\ h <= l
      BY <1>7, <2>4, <3>2, <3>3
    <3> QED
      BY <3>1, <3>4
  <2>6. Reached(xs, tt, i, d, h)
    BY <1>1, <1>2, <1>7, <1>8, <2>4, <2>5, AdvanceReaches
  <2>7. Reached(ys, uu, j, e, h)
    BY <1>1, <1>2, <1>7, <1>8, <2>4, <2>5, AdvanceReaches
  <2>8. Agree(s, t, h)
    <3>1. ASSUME NEW r \in 1 .. h PROVE s[r] = t[r]
      <4>1. CASE r <= n
        <5>1. r \in 1 .. n
          BY <1>1, <2>4, <4>1
        <5> QED
          BY <1>1, <5>1 DEF Agree
      <4>2. CASE n < r
        <5>1. PICK o : o = r - n /\ o \in 1 .. m /\ n + o = r
          BY <1>1, <1>7, <2>4, <4>2
        <5>2. cx[o] = cy[o] /\ cx[o] = s[n + o] /\ cy[o] = t[n + o]
          BY <1>11, <1>12, <1>14, <5>1
        <5> QED
          BY <5>1, <5>2
      <4> QED
        BY <1>1, <2>4, <4>1, <4>2
    <3> QED
      BY <3>1 DEF Agree
  <2>9. Agree(t, s, h)
    BY <2>8 DEF Agree
  <2>10. IsBoundary(s, h) /\ IsBoundary(t, h)
    <3>1. CASE m = p
      <4>1. IsBoundary(s, h)
        BY <1>4, <2>4, <3>1
      <4> QED
        BY <1>2, <2>4, <2>5, <2>8, <4>1, SameBoundary
    <3>2. CASE m = q
      <4>1. IsBoundary(t, h)
        BY <1>5, <2>4, <3>2
      <4> QED
        BY <1>2, <2>4, <2>5, <2>9, <4>1, SameBoundary
    <3> QED
      BY <1>7, <3>1, <3>2
  <2>11. Together(xs, tt, s, ys, uu, t, u, h)
    BY <2>3, <2>6, <2>7, <2>8, <2>10 DEF Together
  <2>12. Sound(xs, tt, s, ys, uu, t, u)
    BY <2>3, <2>11 DEF Sound
  <2>13. Work(xs, ys, u) + 1 <= Work(xs, ys, z)
    <3>1. PICK w, a, b : /\ w = 2 * (Len(xs) - i) + 2 * (Len(ys) - j)
                         /\ a = Left(d) /\ b = Left(e)
      OBVIOUS
    <3>2. a \in 0 .. 1 /\ b \in 0 .. 1 /\ Left(x) = 1 /\ Left(y) = 1 /\ (a = 0 \/ b = 0)
      BY <1>7, <2>2, <3>1 DEF Left
    <3>3. Work(xs, ys, u) = w + (a + b)
      BY <2>3, <3>1 DEF Work
    <3>4. Work(xs, ys, z) = w + (1 + 1)
      BY <1>1, <3>1, <3>2 DEF Work
    <3>5. w \in Int
      <4>1. PICK k, l : k = Len(xs) /\ l = Len(ys) /\ k \in Nat /\ l \in Nat
        <5>1. xs \in Seq(Chunk) /\ ys \in Seq(Chunk)
          BY <1>2 DEF Side, Tiles
        <5>2. Len(xs) \in Nat /\ Len(ys) \in Nat
          BY <5>1
        <5> QED
          BY <5>2
      <4>2. i \in Int /\ j \in Int
        BY <1>1, <4>1
      <4> QED
        BY <3>1, <4>1, <4>2
    <3>6. (w + (a + b)) + 1 <= w + (1 + 1)
      BY <3>2, <3>5
    <3> QED
      BY <3>3, <3>4, <3>6
  <2> QED
    BY <2>3, <2>12, <2>13 DEF Steps
<1> QED
  BY <1>13, <1>14

\* What holds of every step of the loop.
LEMMA ZipKeeps ==
    ASSUME NEW xs, NEW tt, NEW s, NEW ys, NEW uu, NEW t, Compared(xs, tt, s, ys, uu, t),
           NEW z \in ZipState, Sound(xs, tt, s, ys, uu, t, z), NEW u, u = ZipStep(xs, ys, z)
    PROVE  /\ u \in ZipState /\ Sound(xs, tt, s, ys, uu, t, u)
           /\ u.outcome = "more" => z.outcome = "more" /\ Work(xs, ys, u) + 1 <= Work(xs, ys, z)
<1>1. CASE z.outcome # "more"
  <2>1. u = z
    BY <1>1, Zenon DEF ZipStep
  <2> QED
    BY <1>1, <2>1
<1>2. CASE z.outcome = "more"
  <2>1. PICK i, x, j, y, n, p, q : Going(xs, tt, s, ys, uu, t, z, i, x, j, y, n, p, q)
    BY <1>2, GoesOn
  <2>2. Steps(xs, tt, s, ys, uu, t, z, u)
    <3>1. CASE IsEmpty(x)
      BY <2>1, <3>1, StepLeft
    <3>2. CASE ~ IsEmpty(x) /\ IsEmpty(y)
      BY <2>1, <3>2, StepRight
    <3>3. CASE ~ IsEmpty(x) /\ ~ IsEmpty(y)
      BY <2>1, <3>3, StepBoth
    <3> QED
      BY <3>1, <3>2, <3>3
  <2> QED
    BY <1>2, <2>2 DEF Steps
<1> QED
  BY <1>1, <1>2

\* As long as there is more to do there is work left.
LEMMA WorkLeft ==
    ASSUME NEW xs, NEW tt, NEW s, NEW ys, NEW uu, NEW t, Compared(xs, tt, s, ys, uu, t),
           NEW z \in ZipState, Sound(xs, tt, s, ys, uu, t, z), z.outcome = "more"
    PROVE  Work(xs, ys, z) \in Nat
<1>1. PICK i, x, j, y, n, p, q : Going(xs, tt, s, ys, uu, t, z, i, x, j, y, n, p, q)
  BY GoesOn
<1>2. i = z.i /\ j = z.j /\ i \in 1 .. Len(xs) /\ j \in 1 .. Len(ys)
  BY <1>1, Zenon DEF Going
<1>3. Len(xs) \in Nat /\ Len(ys) \in Nat
  <2>1. xs \in Seq(Chunk) /\ ys \in Seq(Chunk)
    BY DEF Compared, Side, Tiles
  <2> QED
    BY <2>1
<1>4. PICK k, l, a, b : k = Len(xs) /\ l = Len(ys) /\ a = Left(z.x) /\ b = Left(z.y)
  OBVIOUS
<1>5. a \in 0 .. 1 /\ b \in 0 .. 1
  BY <1>4 DEF Left
<1>6. Work(xs, ys, z) = (2 * (k - i) + 2 * (l - j)) + (a + b)
  BY <1>2, <1>4 DEF Work
<1>7. k - i \in Nat /\ l - j \in Nat
  BY <1>2, <1>3, <1>4
<1> QED
  BY <1>5, <1>6, <1>7

\* The values of the loop.
Loop(f, xs, ys) ==
    f = [n \in 0 .. ZipTime(xs, ys) |->
            IF n = 0 THEN ZipStart(xs, ys) ELSE ZipStep(xs, ys, f[n - 1])]

LEMMA LoopExists ==
    ASSUME NEW xs, NEW tt, NEW s, NEW ys, NEW uu, NEW t, Compared(xs, tt, s, ys, uu, t)
    PROVE  \E f : Loop(f, xs, ys)
<1>1. PICK N : N = ZipTime(xs, ys) /\ N \in Nat
  <2>1. xs \in Seq(Chunk) /\ ys \in Seq(Chunk)
    BY DEF Compared, Side, Tiles
  <2>2. Len(xs) \in Nat /\ Len(ys) \in Nat
    BY <2>1
  <2>3. ZipTime(xs, ys) \in Nat
    BY <2>2 DEF ZipTime
  <2> QED
    BY <2>3
<1>2. PICK S : S = {z \in ZipState : Sound(xs, tt, s, ys, uu, t, z)}
  OBVIOUS
<1>3. PICK base : base = ZipStart(xs, ys)
  OBVIOUS
<1>4. base \in S
  BY <1>2, <1>3, ZipBegins
<1>5. ASSUME NEW z \in S PROVE ZipStep(xs, ys, z) \in S
  BY <1>2, ZipKeeps
<1>6. PICK one : one = [z \in S |-> ZipStep(xs, ys, z)]
  OBVIOUS
<1>7. one \in [S -> S]
  BY <1>5, <1>6
<1>8. PICK step : step = [i \in 1 .. N |-> one]
  OBVIOUS
<1>9. step \in [1 .. N -> [S -> S]]
  BY <1>7, <1>8
<1>10. PICK f : Recurs(f, N, S, base, step)
  BY <1>1, <1>4, <1>9, Recursion
<1>11. f \in [0 .. N -> S] /\ f[0] = base /\ \A i \in 1 .. N : f[i] = step[i][f[i - 1]]
  BY <1>10 DEF Recurs
<1>12. ASSUME NEW i \in 0 .. N, i # 0 PROVE f[i] = ZipStep(xs, ys, f[i - 1])
  <2>1. i \in 1 .. N /\ i - 1 \in 0 .. N
    BY <1>1, <1>12
  <2>2. f[i] = step[i][f[i - 1]] /\ f[i - 1] \in S /\ step[i] = one
    BY <1>8, <1>11, <2>1
  <2> QED
    BY <1>6, <2>2
<1>13. f = [n \in 0 .. N |-> IF n = 0 THEN ZipStart(xs, ys) ELSE ZipStep(xs, ys, f[n - 1])]
  <2>1. f = [n \in 0 .. N |-> f[n]]
    BY <1>11
  <2>2. \A n \in 0 .. N :
            f[n] = IF n = 0 THEN ZipStart(xs, ys) ELSE ZipStep(xs, ys, f[n - 1])
    BY <1>3, <1>11, <1>12, Zenon
  <2> QED
    BY <2>1, <2>2, Zenon
<1> QED
  BY <1>1, <1>13, Zenon DEF Loop

\* The loop ends in time, and what it ends with is right.
LEMMA LoopEnds ==
    ASSUME NEW xs, NEW tt, NEW s, NEW ys, NEW uu, NEW t, Compared(xs, tt, s, ys, uu, t),
           NEW f, Loop(f, xs, ys), NEW z, z = f[ZipTime(xs, ys)]
    PROVE  z \in ZipState /\ Sound(xs, tt, s, ys, uu, t, z) /\ z.outcome # "more"
<1>1. PICK N : N = ZipTime(xs, ys) /\ N \in Nat
  <2>1. xs \in Seq(Chunk) /\ ys \in Seq(Chunk)
    BY DEF Compared, Side, Tiles
  <2>2. Len(xs) \in Nat /\ Len(ys) \in Nat
    BY <2>1
  <2>3. ZipTime(xs, ys) \in Nat
    BY <2>2 DEF ZipTime
  <2> QED
    BY <2>3
<1>2. \A n \in 0 .. N : f[n] = IF n = 0 THEN ZipStart(xs, ys) ELSE ZipStep(xs, ys, f[n - 1])
  BY <1>1, Zenon DEF Loop
<1>3. PICK M : M = {n \in 0 .. N :
                       /\ f[n] \in ZipState /\ Sound(xs, tt, s, ys, uu, t, f[n])
                       /\ f[n].outcome = "more" => Work(xs, ys, f[n]) + n <= N - 2}
  OBVIOUS
<1>4. 0 \in M
  <2>1. 0 \in 0 .. N /\ f[0] = ZipStart(xs, ys)
    BY <1>1, <1>2
  <2>2. /\ f[0] \in ZipState /\ Sound(xs, tt, s, ys, uu, t, f[0])
        /\ f[0].outcome = "more" => Work(xs, ys, f[0]) <= N - 2
    BY <1>1, <2>1, ZipBegins
  <2>3. f[0].outcome = "more" => Work(xs, ys, f[0]) \in Nat
    BY <2>2, WorkLeft
  <2>4. f[0].outcome = "more" => Work(xs, ys, f[0]) + 0 <= N - 2
    <3>1. PICK w : w = Work(xs, ys, f[0])
      OBVIOUS
    <3>2. w \in Nat => w + 0 = w
      OBVIOUS
    <3> QED
      BY <2>2, <2>3, <3>1, <3>2
  <2> QED
    BY <1>3, <2>1, <2>2, <2>4
<1>5. ASSUME NEW i \in 1 .. N, i - 1 \in M PROVE i \in M
  <2>1. PICK y, u : y = f[i - 1] /\ u = f[i]
    OBVIOUS
  <2>2. /\ y \in ZipState /\ Sound(xs, tt, s, ys, uu, t, y)
        /\ y.outcome = "more" => Work(xs, ys, y) + (i - 1) <= N - 2
    BY <1>3, <1>5, <2>1
  <2>3. i \in 0 .. N /\ i # 0
    BY <1>1
  <2>4. u = ZipStep(xs, ys, y)
    BY <1>2, <2>1, <2>3
  <2>5. /\ u \in ZipState /\ Sound(xs, tt, s, ys, uu, t, u)
        /\ u.outcome = "more" => y.outcome = "more" /\ Work(xs, ys, u) + 1 <= Work(xs, ys, y)
    BY <2>2, <2>4, ZipKeeps
  <2>6. ASSUME u.outcome = "more" PROVE Work(xs, ys, u) + i <= N - 2
    <3>1. PICK a, b : a = Work(xs, ys, y) /\ b = Work(xs, ys, u)
      OBVIOUS
    <3>2. y.outcome = "more" /\ b + 1 <= a /\ a + (i - 1) <= N - 2
      BY <2>2, <2>5, <2>6, <3>1
    <3>3. a \in Nat /\ b \in Nat
      BY <2>2, <2>5, <2>6, <3>1, <3>2, WorkLeft
    <3>4. b + 1 <= a /\ a + (i - 1) <= N - 2 /\ i \in Nat
      BY <1>1, <3>2
    <3>5. b + i <= N - 2
      BY <1>1, <3>3, <3>4
    <3> QED
      BY <3>1, <3>5
  <2> QED
    BY <1>3, <2>1, <2>3, <2>5, <2>6
<1>6. N \in M
  <2>1. \A n \in 0 .. N : n \in M
    BY <1>1, <1>4, <1>5, UpTo
  <2> QED
    BY <1>1, <2>1
<1>7. /\ z \in ZipState /\ Sound(xs, tt, s, ys, uu, t, z)
      /\ z.outcome = "more" => Work(xs, ys, z) + N <= N - 2
  BY <1>1, <1>3, <1>6
<1>8. z.outcome # "more"
  <2>1. SUFFICES ASSUME z.outcome = "more" PROVE FALSE
    OBVIOUS
  <2>2. PICK w : w = Work(xs, ys, z) /\ w \in Nat
    BY <1>7, <2>1, WorkLeft
  <2>3. w + N <= N - 2
    BY <1>7, <2>1, <2>2
  <2> QED
    BY <1>1, <2>2, <2>3
<1> QED
  BY <1>7, <1>8

LEMMA ZipAnswers ==
    ASSUME NEW xs, NEW tt, NEW s, NEW ys, NEW uu, NEW t, Compared(xs, tt, s, ys, uu, t),
           NEW z, z = ZipTexts(xs, ys)
    PROVE  /\ z.outcome \in {"end", "differ"}
           /\ z.outcome = "end" => s = t /\ AllEmptyAfter(xs, z.i) /\ AllEmptyAfter(ys, z.j)
           /\ z.outcome = "differ" => s # t
<1> DEFINE zip == CHOOSE zip : zip = [n \in 0 .. ZipTime(xs, ys) |->
                       IF n = 0 THEN ZipStart(xs, ys) ELSE ZipStep(xs, ys, zip[n - 1])]
<1>1. z = zip[ZipTime(xs, ys)]
  BY Zenon DEF ZipTexts
<1>2. \E f : f = [n \in 0 .. ZipTime(xs, ys) |->
                      IF n = 0 THEN ZipStart(xs, ys) ELSE ZipStep(xs, ys, f[n - 1])]
  <2>1. PICK g : Loop(g, xs, ys)
    BY LoopExists
  <2> QED
    BY <2>1, Zenon DEF Loop
<1>3. zip = [n \in 0 .. ZipTime(xs, ys) |->
                IF n = 0 THEN ZipStart(xs, ys) ELSE ZipStep(xs, ys, zip[n - 1])]
  BY <1>2, Zenon
<1>4. PICK f : f = zip
  OBVIOUS
<1>5. z = f[ZipTime(xs, ys)] /\ Loop(f, xs, ys)
  <2>1. z = f[ZipTime(xs, ys)]
    BY <1>1, <1>4, Zenon
  <2>2. Loop(f, xs, ys)
    BY <1>3, <1>4, Zenon DEF Loop
  <2> QED
    BY <2>1, <2>2
<1> HIDE DEF zip
<1>6. z \in ZipState /\ Sound(xs, tt, s, ys, uu, t, z) /\ z.outcome # "more"
  BY <1>5, LoopEnds
<1>7. z.outcome \in {"more", "end", "differ"}
  BY <1>6 DEF ZipState
<1> QED
  BY <1>6, <1>7 DEF Sound

\* What == of two texts answers.
LEMMA ViewEq ==
    ASSUME NEW v, ViewInv(v), OnBoundaries(v), Coded(FlattenSeq(v.tokens)),
           NEW w, ViewInv(w), OnBoundaries(w), Coded(FlattenSeq(w.tokens))
    PROVE  Eq(v, w) = Found(TrueBytes(v) = TrueBytes(w))
<1>1. PICK xs, tt, s : xs = TokensWithRanges(v) /\ tt = Texts(xs) /\ s = TrueBytes(v)
  OBVIOUS
<1>2. PICK ys, uu, t : ys = TokensWithRanges(w) /\ uu = Texts(ys) /\ t = TrueBytes(w)
  OBVIOUS
<1>3. Side(xs, tt, s) /\ Len(s) = ViewLen(v)
  BY <1>1, SideOf
<1>4. Side(ys, uu, t) /\ Len(t) = ViewLen(w)
  BY <1>2, SideOf
<1>5. PICK z : z = ZipTexts(xs, ys)
  OBVIOUS
<1>6. Eq(v, w) = IF ViewLen(v) # ViewLen(w) THEN Found(FALSE)
                 ELSE IF z.outcome = "panic" THEN Panics
                 ELSE Found(z.outcome = "end" /\ AllEmptyAfter(xs, z.i) /\ AllEmptyAfter(ys, z.j))
  BY <1>1, <1>2, <1>5, Zenon DEF Eq
<1>7. CASE ViewLen(v) # ViewLen(w)
  <2>1. (s = t) = FALSE
    BY <1>3, <1>4, <1>7
  <2> QED
    BY <1>1, <1>2, <1>6, <1>7, <2>1
<1>8. CASE ViewLen(v) = ViewLen(w)
  <2>1. Compared(xs, tt, s, ys, uu, t)
    BY <1>3, <1>4, <1>8 DEF Compared
  <2>2. /\ z.outcome \in {"end", "differ"}
        /\ z.outcome = "end" => s = t /\ AllEmptyAfter(xs, z.i) /\ AllEmptyAfter(ys, z.j)
        /\ z.outcome = "differ" => s # t
    BY <1>5, <2>1, ZipAnswers
  <2>3. PICK b : b = (z.outcome = "end" /\ AllEmptyAfter(xs, z.i) /\ AllEmptyAfter(ys, z.j))
    OBVIOUS
  <2>4. z.outcome # "panic"
    BY <2>2
  <2>5. Eq(v, w) = Found(b)
    BY <1>6, <1>8, <2>3, <2>4
  <2>6. b = (s = t)
    BY <2>2, <2>3
  <2> QED
    BY <1>1, <1>2, <2>5, <2>6
<1> QED
  BY <1>7, <1>8

----------------------------------------------------------------------------
(* The theorems *)

\* The ranges of both texts lie in their nodes: whatever slices of slices were
\* taken, no offset has wrapped.
THEOREM TypeCorrect == Spec => []TypeOK
<1>1. ASSUME NEW v, ViewInv(v)
      PROVE  v.start \in v.from .. v.end /\ v.end <= v.from + TextLen(v.tokens)
  <2>1. v.start \in Nat /\ v.end \in Nat /\ v.from \in Nat
    BY <1>1 DEF ViewInv
  <2>2. v.from <= v.start /\ v.start <= v.end /\ v.end <= v.from + TextLen(v.tokens)
    BY <1>1, Zenon DEF ViewInv
  <2> QED
    BY <2>1, <2>2
<1>2. Inv => TypeOK
  BY <1>1, Zenon DEF Inv, TypeOK
<1> QED
  BY <1>2, Invariance, PTL

\* try_for_each_chunk and tokens_with_ranges: joined, the chunks are the bytes of
\* the range, and as strs they can be read exactly if the range cuts no character.
THEOREM ChunksCorrect == Spec => []ChunksFaithful
<1>1. Inv => ChunksFaithful
  BY ViewChunks, Zenon DEF Inv, ChunksFaithful
<1> QED
  BY <1>1, Invariance, PTL

\* find_char and char_at: seeing one chunk at a time they find the place, and at
\* the place the character, that the text put together has.
THEOREM SearchCorrect == Spec => []SearchFaithful
<1>1. Inv => SearchFaithful
  <2> SUFFICES ASSUME Inv, OnBoundaries(text)
               PROVE  /\ \A c \in Chars :
                             LET places == Occurrences(TrueBytes(text), c) IN
                             /\ FindChar(text, c) = IF places = {} THEN Nothing ELSE Found(Min(places))
                             /\ \A p \in places : CharAt(text, p) = Found(c)
                      /\ CharAt(text, ViewLen(text)) = Nothing
    BY Zenon DEF SearchFaithful
  <2>1. ViewInv(text)
    BY DEF Inv
  <2>2. ASSUME NEW c \in Chars
        PROVE  LET places == Occurrences(TrueBytes(text), c) IN
               FindChar(text, c) = IF places = {} THEN Nothing ELSE Found(Min(places))
    BY <2>1, ViewFind
  <2>3. ASSUME NEW c \in Chars, NEW p \in Occurrences(TrueBytes(text), c)
        PROVE  CharAt(text, p) = Found(c)
    BY <2>1, ViewCharAt
  <2>4. CharAt(text, ViewLen(text)) = Nothing
    BY <2>1, ViewCharAtEnd
  <2> QED
    BY <2>2, <2>3, <2>4, Zenon
<1> QED
  BY <1>1, Invariance, PTL

\* slice: the same part of the bytes for bounds that lie in the text, a panic for
\* all others, also when the sum of the start and a bound wraps.
THEOREM SliceCorrect == Spec => []SliceFaithful
<1>1. Inv => SliceFaithful
  <2> SUFFICES ASSUME Inv, NEW from \in Bounds, NEW to \in Bounds
               PROVE  LET m == SliceStart(text, from)
                          n == SliceEnd(text, to)
                      IN  IF m <= n /\ n <= ViewLen(text)
                          THEN /\ ~ SlicePanics(text, from, to)
                               /\ TrueBytes(Sliced(text, from, to)) = SubSeq(TrueBytes(text), m + 1, n)
                          ELSE SlicePanics(text, from, to)
    BY Zenon DEF SliceFaithful
  <2>1. PICK v, m, n, s : /\ v = text /\ m = SliceStart(v, from) /\ n = SliceEnd(v, to)
                          /\ s = Sliced(v, from, to)
    OBVIOUS
  <2>2. ViewInv(v) /\ Fits(v)
    BY <2>1, Zenon DEF Inv
  <2>3. /\ m \in Nat /\ n \in Nat
        /\ m <= n /\ n <= ViewLen(v) => /\ ~ SlicePanics(v, from, to)
                                        /\ s = Ranged(v, m, n)
        /\ ~ (m <= n /\ n <= ViewLen(v)) => SlicePanics(v, from, to)
    <3>1. /\ m = SliceStart(v, from) /\ n = SliceEnd(v, to) /\ s = Sliced(v, from, to)
          /\ ViewInv(v) /\ Fits(v)
      BY <2>1, <2>2
    <3> QED
      BY <3>1, SliceRange
  <2>4. m <= n /\ n <= ViewLen(v) => TrueBytes(s) = SubSeq(TrueBytes(v), m + 1, n)
    BY <2>2, <2>3, SliceBytes, Zenon
  <2>5. IF m <= n /\ n <= ViewLen(v)
        THEN ~ SlicePanics(v, from, to) /\ TrueBytes(s) = SubSeq(TrueBytes(v), m + 1, n)
        ELSE SlicePanics(v, from, to)
    BY <2>3, <2>4, Zenon
  <2> QED
    BY <2>1, <2>5, Zenon
<1> QED
  BY <1>1, Invariance, PTL

\* The comparison of two texts, whose chunks end at different places, and of a
\* text with a str: both answer what comparing the bytes would, and never panic,
\* because texts that agree up to a border of chunks cut no character there.
THEOREM EqCorrect == Spec => []EqFaithful
<1>1. Inv => EqFaithful
  <2> SUFFICES ASSUME Inv, OnBoundaries(text), OnBoundaries(other)
               PROVE  /\ Eq(text, other) = Found(TrueBytes(text) = TrueBytes(other))
                      /\ Eq(other, text) = Eq(text, other)
                      /\ \A s \in Strings : EqStr(text, Bytes(s)) = Found(TrueBytes(text) = Bytes(s))
    BY Zenon DEF EqFaithful
  <2>1. /\ ViewInv(text) /\ Coded(FlattenSeq(text.tokens))
        /\ ViewInv(other) /\ Coded(FlattenSeq(other.tokens))
    BY Zenon DEF Inv
  <2>2. Eq(text, other) = Found(TrueBytes(text) = TrueBytes(other))
    BY <2>1, ViewEq
  <2>3. Eq(other, text) = Found(TrueBytes(other) = TrueBytes(text))
    BY <2>1, ViewEq
  <2>4. (TrueBytes(other) = TrueBytes(text)) = (TrueBytes(text) = TrueBytes(other))
    OBVIOUS
  <2>5. Eq(other, text) = Eq(text, other)
    BY <2>2, <2>3, <2>4
  <2>6. ASSUME NEW s \in Strings
        PROVE  EqStr(text, Bytes(s)) = Found(TrueBytes(text) = Bytes(s))
    <3>1. Bytes(s) \in Seq(Byte)
      BY StringsAreSequences, CodedBytes
    <3> QED
      BY <2>1, <3>1, ViewEqStr
  <2> QED
    BY <2>2, <2>5, <2>6
<1> QED
  BY <1>1, Invariance, PTL
=============================================================================
