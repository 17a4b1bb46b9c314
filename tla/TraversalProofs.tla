--------------------------- MODULE TraversalProofs ---------------------------
(***************************************************************************)
(* Navigation in trees of any size: whatever path the client takes, the    *)
(* offset a slot keeps is the one at which its element begins, no          *)
(* assertion fails, and every reference handed out - neighbour, ancestor,  *)
(* iterator item, token before and after, token at an offset, covering     *)
(* element - is the one that the shape of the tree determines.             *)
(***************************************************************************)
EXTENDS Traversal, SequenceFacts

----------------------------------------------------------------------------
(* Sums *)

TotalBy(s, len) ==
    CHOOSE sum : sum = [i \in 0 .. Len(s) |-> IF i = 0 THEN 0 ELSE sum[i - 1] + len[s[i]]]

Adds(f, s, len) ==
    /\ f \in [0 .. Len(s) -> Nat] /\ f[0] = 0
    /\ \A i \in 1 .. Len(s) : f[i] = f[i - 1] + len[s[i]]

LEMMA TotalSteps ==
    ASSUME NEW T, NEW s \in Seq(T), NEW len, \A x \in T : len[x] \in Nat
    PROVE  Adds(TotalBy(s, len), s, len) /\ \A n : Total(s, len, n) = TotalBy(s, len)[n]
<1>1. PICK n \in Nat : n = Len(s)
  OBVIOUS
<1>2. \A i \in 1 .. n : len[s[i]] \in Nat
  BY <1>1
<1>3. PICK step : step = [i \in 1 .. n |-> [m \in Nat |-> m + len[s[i]]]]
  OBVIOUS
<1>4. step \in [1 .. n -> [Nat -> Nat]]
  <2>1. \A i \in 1 .. n : \A m \in Nat : m + len[s[i]] \in Nat
    BY <1>2
  <2> QED
    BY <1>3, <2>1
<1>5. PICK f \in [0 .. n -> Nat] : f[0] = 0 /\ \A i \in 1 .. n : f[i] = step[i][f[i - 1]]
  <2>1. 0 \in Nat
    OBVIOUS
  <2>2. \E f : Recurs(f, n, Nat, 0, step)
    BY <1>4, <2>1, Recursion
  <2> QED
    BY <2>2 DEF Recurs
<1>6. ASSUME NEW i \in 1 .. n PROVE f[i] = f[i - 1] + len[s[i]]
  <2>1. f[i] = step[i][f[i - 1]] /\ f[i - 1] \in Nat
    BY <1>5
  <2> QED
    BY <1>3, <2>1
<1>7. f = [i \in 0 .. n |-> IF i = 0 THEN 0 ELSE f[i - 1] + len[s[i]]]
  <2>1. f = [i \in 0 .. n |-> f[i]]
    BY <1>5
  <2>2. \A i \in 0 .. n : f[i] = IF i = 0 THEN 0 ELSE f[i - 1] + len[s[i]]
    <3>1. ASSUME NEW i \in 0 .. n, i # 0 PROVE i \in 1 .. n
      BY <3>1
    <3> QED
      BY <1>5, <1>6, <3>1, Zenon
  <2> QED
    BY <2>1, <2>2, Zenon
<1>8. PICK P : P = TotalBy(s, len)
  OBVIOUS
<1>9. P = [i \in 0 .. n |-> IF i = 0 THEN 0 ELSE P[i - 1] + len[s[i]]]
  BY <1>1, <1>7, <1>8, Zenon DEF TotalBy
<1>10. P[0] = 0 /\ \A i \in 1 .. n : P[i] = P[i - 1] + len[s[i]]
  <2>1. 0 \in 0 .. n /\ \A i \in 1 .. n : i \in 0 .. n /\ i # 0
    OBVIOUS
  <2> QED
    BY <1>9, <2>1, Zenon
<1>11. \A i \in 0 .. n : P[i] = f[i]
  <2>1. PICK M : M = {i \in 0 .. n : P[i] = f[i]}
    OBVIOUS
  <2>2. 0 \in M
    BY <1>5, <1>10, <2>1
  <2>3. ASSUME NEW i \in 1 .. n, i - 1 \in M PROVE i \in M
    <3>1. P[i] = f[i]
      BY <1>6, <1>10, <2>1, <2>3, Zenon
    <3> QED
      BY <2>1, <3>1
  <2> QED
    BY <2>1, <2>2, <2>3, UpTo
<1>12. P \in [0 .. n -> Nat]
  <2>1. P = [i \in 0 .. n |-> P[i]]
    BY <1>9
  <2> QED
    BY <1>5, <1>11, <2>1
<1>13. Adds(P, s, len)
  BY <1>1, <1>10, <1>12 DEF Adds
<1>14. \A m : Total(s, len, m) = P[m]
  BY <1>8, Zenon DEF Total, TotalBy
<1> QED
  BY <1>8, <1>13, <1>14

SumsUp(s, len) ==
    /\ Total(s, len, 0) = 0
    /\ \A n \in 0 .. Len(s) : Total(s, len, n) \in Nat
    /\ \A n \in 1 .. Len(s) : Total(s, len, n) = Total(s, len, n - 1) + len[s[n]]

LEMMA Totals ==
    ASSUME NEW T, NEW s \in Seq(T), NEW len, \A x \in T : len[x] \in Nat
    PROVE  SumsUp(s, len)
<1>1. PICK f : f = TotalBy(s, len)
  OBVIOUS
<1>2. Adds(f, s, len) /\ \A n : Total(s, len, n) = f[n]
  BY <1>1, TotalSteps
<1> QED
  BY <1>2 DEF Adds, SumsUp

\* Sums agree if the lengths do.
Agree(s, len, t, l, n) ==
    /\ n \in Nat /\ n <= Len(s) /\ n <= Len(t)
    /\ \A i \in 1 .. n : len[s[i]] = l[t[i]]

LEMMA TotalSame ==
    ASSUME NEW T, NEW s \in Seq(T), NEW len, SumsUp(s, len),
           NEW U, NEW t \in Seq(U), NEW l, SumsUp(t, l), NEW n, Agree(s, len, t, l, n)
    PROVE  Total(s, len, n) = Total(t, l, n)
<1> USE DEF Agree
<1>1. PICK M : M = {i \in 0 .. n : Total(s, len, i) = Total(t, l, i)}
  OBVIOUS
<1>3. /\ \A i \in 1 .. Len(s) : Total(s, len, i) = Total(s, len, i - 1) + len[s[i]]
      /\ \A i \in 1 .. Len(t) : Total(t, l, i) = Total(t, l, i - 1) + l[t[i]]
  BY DEF SumsUp
<1>4. 0 \in M
  BY <1>1 DEF SumsUp
<1>5. ASSUME NEW i \in 1 .. n, i - 1 \in M PROVE i \in M
  <2>1. i \in 1 .. Len(s) /\ i \in 1 .. Len(t) /\ i \in 0 .. n
    OBVIOUS
  <2>2. Total(s, len, i) = Total(t, l, i)
    BY <1>1, <1>3, <1>5, <2>1, Zenon
  <2> QED
    BY <1>1, <2>1, <2>2
<1>6. \A i \in 0 .. n : i \in M
  BY <1>4, <1>5, UpTo
<1> QED
  BY <1>1, <1>6

Lengths(T, len) == \A x \in T : len[x] \in Nat

\* The sum of a part is the difference of two sums.
LEMMA TotalPart ==
    ASSUME NEW T, NEW s \in Seq(T), NEW len, Lengths(T, len),
           NEW a \in Nat, a <= Len(s), NEW n \in Nat, a + n <= Len(s)
    PROVE  Total(s, len, a + n) = Total(s, len, a) + Total(SubSeq(s, a + 1, Len(s)), len, n)
<1> USE DEF Lengths
<1>1. PICK t, l : t = SubSeq(s, a + 1, Len(s)) /\ l = Len(s) /\ l \in Nat
  <2>1. Len(s) \in Nat
    OBVIOUS
  <2> QED
    BY <2>1, Zenon
<1>2. t \in Seq(T) /\ Len(t) = l - a /\ \A i \in 1 .. l - a : t[i] = s[a + i]
  BY <1>1, Part
<1>3. PICK M : M = {i \in 0 .. n : Total(s, len, a + i) = Total(s, len, a) + Total(t, len, i)}
  OBVIOUS
<1>4. /\ Total(t, len, 0) = 0
      /\ \A i \in 0 .. l : Total(s, len, i) \in Nat
      /\ \A i \in 1 .. l : Total(s, len, i) = Total(s, len, i - 1) + len[s[i]]
  <2>1. SumsUp(s, len) /\ SumsUp(t, len)
    BY <1>2, Totals
  <2> QED
    BY <1>1, <2>1 DEF SumsUp
<1>5. /\ \A i \in 0 .. l - a : Total(t, len, i) \in Nat
      /\ \A i \in 1 .. l - a : Total(t, len, i) = Total(t, len, i - 1) + len[t[i]]
  <2>1. SumsUp(t, len)
    BY <1>2, Totals
  <2> QED
    BY <1>2, <2>1 DEF SumsUp
<1>6. 0 \in M
  BY <1>1, <1>3, <1>4
<1>7. ASSUME NEW i \in 1 .. n, i - 1 \in M PROVE i \in M
  <2>1. i \in 1 .. l - a /\ a + i \in 1 .. l /\ (a + i) - 1 = a + (i - 1) /\ i \in 0 .. n
    BY <1>1
  <2>2. a \in 0 .. l /\ i - 1 \in 0 .. l - a
    BY <1>1, <2>1
  <2>3. /\ Total(s, len, a + i) = Total(s, len, a + (i - 1)) + len[s[a + i]]
        /\ Total(t, len, i) = Total(t, len, i - 1) + len[t[i]] /\ t[i] = s[a + i]
    BY <1>2, <1>4, <1>5, <2>1
  <2>4. Total(s, len, a + (i - 1)) = Total(s, len, a) + Total(t, len, i - 1)
    BY <1>3, <1>7
  <2>5. Total(s, len, a) \in Nat /\ Total(t, len, i - 1) \in Nat /\ len[s[a + i]] \in Nat
    <3>1. s[a + i] \in T
      BY <1>1, <2>1
    <3> QED
      BY <1>4, <1>5, <2>2, <3>1
  <2>6. Total(s, len, a + i) = Total(s, len, a) + Total(t, len, i)
    BY <2>3, <2>4, <2>5
  <2> QED
    BY <1>3, <2>1, <2>6
<1> QED
  <2>1. \A i \in 0 .. n : i \in M
    BY <1>6, <1>7, UpTo
  <2> QED
    BY <1>1, <1>3, <2>1

\* Backwards from place e, the sums go down.
LEMMA TotalReverse ==
    ASSUME NEW T, NEW s \in Seq(T), NEW len, Lengths(T, len),
           NEW e \in Nat, e <= Len(s), NEW n \in Nat, n <= e
    PROVE  /\ Reverse(SubSeq(s, 1, e)) \in Seq(T)
           /\ Len(Reverse(SubSeq(s, 1, e))) = e
           /\ \A i \in 1 .. e : Reverse(SubSeq(s, 1, e))[i] = s[(e - i) + 1]
           /\ Total(s, len, e) = Total(s, len, e - n) + Total(Reverse(SubSeq(s, 1, e)), len, n)
<1> USE DEF Lengths
<1>1. PICK t, l, u : t = Reverse(SubSeq(s, 1, e)) /\ l = Len(s) /\ l \in Nat /\ u = SubSeq(s, 1, e)
  <2>1. Len(s) \in Nat
    OBVIOUS
  <2> QED
    BY <2>1, Zenon
<1>2. u \in Seq(T) /\ Len(u) = e /\ \A i \in 1 .. e : u[i] = s[i]
  BY <1>1
<1>3. t = [i \in 1 .. e |-> u[(e - i) + 1]]
  BY <1>1, <1>2 DEF Reverse
<1>4. t \in Seq(T) /\ Len(t) = e
  BY <1>2, <1>3
<1>5. \A i \in 1 .. e : t[i] = s[(e - i) + 1]
  BY <1>2, <1>3
<1>6. PICK M : M = {i \in 0 .. n : Total(s, len, e) = Total(s, len, e - i) + Total(t, len, i)}
  OBVIOUS
<1>7. /\ Total(t, len, 0) = 0
      /\ \A i \in 0 .. l : Total(s, len, i) \in Nat
      /\ \A i \in 1 .. l : Total(s, len, i) = Total(s, len, i - 1) + len[s[i]]
  <2>1. SumsUp(s, len) /\ SumsUp(t, len)
    BY <1>4, Totals
  <2> QED
    BY <1>1, <2>1 DEF SumsUp
<1>8. /\ \A i \in 0 .. e : Total(t, len, i) \in Nat
      /\ \A i \in 1 .. e : Total(t, len, i) = Total(t, len, i - 1) + len[t[i]]
  <2>1. SumsUp(t, len)
    BY <1>4, Totals
  <2> QED
    BY <1>4, <2>1 DEF SumsUp
<1>9. 0 \in M
  BY <1>1, <1>6, <1>7
<1>10. ASSUME NEW i \in 1 .. n, i - 1 \in M PROVE i \in M
  <2>1. PICK k : k = (e - i) + 1 /\ k \in 1 .. l /\ e - (i - 1) = k /\ k - 1 = e - i
    BY <1>1
  <2>2. i \in 1 .. e /\ i \in 0 .. n /\ i - 1 \in 0 .. e /\ k - 1 \in 0 .. l
    BY <1>1, <2>1
  <2>3. Total(s, len, k) = Total(s, len, k - 1) + len[s[k]] /\ Total(t, len, i) = Total(t, len, i - 1) + len[s[k]]
    BY <1>5, <1>7, <1>8, <2>1, <2>2
  <2>4. Total(s, len, e) = Total(s, len, k) + Total(t, len, i - 1)
    BY <1>6, <1>10, <2>1
  <2>5. Total(s, len, k - 1) \in Nat /\ Total(t, len, i - 1) \in Nat /\ len[s[k]] \in Nat
    <3>1. s[k] \in T
      BY <1>1, <2>1
    <3> QED
      BY <1>7, <1>8, <2>2, <3>1
  <2>6. Total(s, len, e) = Total(s, len, e - i) + Total(t, len, i)
    BY <2>1, <2>3, <2>4, <2>5
  <2> QED
    BY <1>6, <2>2, <2>6
<1>11. n \in M
  <2>1. \A i \in 0 .. n : i \in M
    BY <1>9, <1>10, UpTo
  <2> QED
    BY <2>1
<1> QED
  BY <1>1, <1>4, <1>5, <1>6, <1>11

----------------------------------------------------------------------------
(* Recursion along a rank *)

\* A function may be defined by its values at elements of lower rank.
Ranked(step, rank, D, N, V) ==
    /\ N \in Nat /\ rank \in [D -> 0 .. N] /\ step \in [D -> [[D -> V] -> V]]
    /\ \A e \in D : \A f, g \in [D -> V] :
           (\A d \in D : rank[d] < rank[e] => f[d] = g[d]) => step[e][f] = step[e][g]

LEMMA RankRecursion ==
    ASSUME NEW D, NEW N, NEW rank, NEW V, NEW v \in V, NEW step, Ranked(step, rank, D, N, V)
    PROVE  \E f \in [D -> V] : \A e \in D : f[e] = step[e][f]
<1> USE DEF Ranked
<1> DEFINE Below(f, m) == \A e \in D : rank[e] < m => f[e] = step[e][f]
<1>1. PICK M : M = {m \in 0 .. N + 1 : \E f \in [D -> V] : Below(f, m)}
  OBVIOUS
<1>2. 0 \in M
  <2>1. PICK f : f = [e \in D |-> v]
    OBVIOUS
  <2>2. f \in [D -> V]
    BY <2>1
  <2>3. Below(f, 0)
    <3>1. \A e \in D : rank[e] \in 0 .. N
      OBVIOUS
    <3>2. \A e \in D : ~ (rank[e] < 0)
      BY <3>1
    <3> QED
      BY <3>2
  <2>4. 0 \in 0 .. N + 1
    OBVIOUS
  <2> HIDE DEF Below
  <2> QED
    BY <1>1, <2>2, <2>3, <2>4
<1>3. ASSUME NEW m \in 1 .. N + 1, m - 1 \in M PROVE m \in M
  <2>1. PICK f \in [D -> V] : Below(f, m - 1)
    <3> HIDE DEF Below
    <3> QED
      BY <1>1, <1>3
  <2>2. PICK g : g = [e \in D |-> IF rank[e] < m - 1 THEN f[e] ELSE step[e][f]]
    OBVIOUS
  <2>3. g \in [D -> V]
    <3>1. \A e \in D : f[e] \in V /\ step[e][f] \in V
      OBVIOUS
    <3> QED
      BY <2>2, <3>1
  <2>4. ASSUME NEW e \in D, rank[e] < m PROVE g[e] = step[e][g]
    <3>1. g[e] = step[e][f]
      BY <2>1, <2>2
    <3>2. \A d \in D : rank[d] < rank[e] => g[d] = f[d]
      <4>1. ASSUME NEW d \in D, rank[d] < rank[e] PROVE g[d] = f[d]
        <5>1. rank[d] \in 0 .. N /\ rank[e] \in 0 .. N /\ m \in Int
          OBVIOUS
        <5>2. rank[d] < m - 1
          BY <2>4, <4>1, <5>1
        <5> QED
          BY <2>2, <5>2
      <4> QED
        BY <4>1
    <3>3. step[e][f] = step[e][g]
      <4>1. \A d \in D : rank[d] < rank[e] => f[d] = g[d]
        BY <3>2
      <4> QED
        BY <2>3, <4>1
    <3> QED
      BY <3>1, <3>3
  <2>5. Below(g, m)
    BY <2>4
  <2> HIDE DEF Below
  <2>6. m \in 0 .. N + 1
    OBVIOUS
  <2> QED
    BY <1>1, <2>3, <2>5, <2>6
<1>4. N + 1 \in M
  <2>1. N + 1 \in Nat
    OBVIOUS
  <2>2. \A i \in 0 .. N + 1 : i \in M
    BY <1>2, <1>3, <2>1, UpTo
  <2> QED
    BY <2>2
<1>5. PICK f \in [D -> V] : Below(f, N + 1)
  <2> HIDE DEF Below
  <2> QED
    BY <1>1, <1>4
<1>6. \A e \in D : rank[e] < N + 1
  <2>1. \A e \in D : rank[e] \in 0 .. N
    OBVIOUS
  <2> QED
    BY <2>1
<1> QED
  BY <1>5, <1>6

----------------------------------------------------------------------------
(* Green trees *)

KidsOf(t) ==
    [p \in 1 .. t.size |->
        Picked([q \in 1 .. t.size |-> q], {q \in 2 .. t.size : t.parent[q] = p})]

TextLensOf(t) ==
    CHOOSE f : f = [p \in 1 .. t.size |->
                       IF p \in DOMAIN t.len THEN t.len[p]
                       ELSE Total(KidsOf(t)[p], f, Len(KidsOf(t)[p]))]

\* A tree in preorder, without the lengths of nodes.
Shaped(t) ==
    /\ t.size \in Nat \ {0}
    /\ t.parent \in [2 .. t.size -> 1 .. t.size]
    /\ DOMAIN t.len \subseteq 2 .. t.size /\ t.len \in [DOMAIN t.len -> Nat]
    /\ \A p \in 2 .. t.size : /\ t.parent[p] < p /\ t.parent[p] \notin DOMAIN t.len
                              /\ \A q \in t.parent[p] + 1 .. p : t.parent[q] >= t.parent[p]

\* Tokens have their length, nodes that of their children.
Measured(size, len, kids, f) ==
    /\ f \in [1 .. size -> Nat]
    /\ \A p \in DOMAIN len : f[p] = len[p]
    /\ \A p \in (1 .. size) \ DOMAIN len : f[p] = Total(kids[p], f, Len(kids[p]))

IsTree(t) ==
    /\ Shaped(t)
    /\ t.kids = KidsOf(t)
    /\ Measured(t.size, t.len, t.kids, t.text_len)

\* The children of a node in order: child number k is the k-th element that has
\* it as its parent.
Childhood(t, p) == {q \in 2 .. t.size : t.parent[q] = p}

LEMMA KidsAre ==
    ASSUME NEW t, Shaped(t), NEW p \in 1 .. t.size
    PROVE  /\ KidsOf(t)[p] \in Seq(2 .. t.size)
           /\ Len(KidsOf(t)[p]) = Count(Childhood(t, p), t.size)
           /\ \A k \in 1 .. Len(KidsOf(t)[p]) :
                  /\ KidsOf(t)[p][k] \in Childhood(t, p)
                  /\ Count(Childhood(t, p), KidsOf(t)[p][k]) = k
           /\ \A q \in Childhood(t, p) :
                  /\ Count(Childhood(t, p), q) \in 1 .. Len(KidsOf(t)[p])
                  /\ KidsOf(t)[p][Count(Childhood(t, p), q)] = q
<1>1. PICK n, all, c, s : /\ n = t.size /\ all = [q \in 1 .. n |-> q] /\ c = Childhood(t, p)
                          /\ s = Picked(all, c)
  OBVIOUS
<1>2. n \in Nat /\ all \in Seq(1 .. n) /\ Len(all) = n /\ \A i \in 1 .. n : all[i] = i
  BY <1>1 DEF Shaped
<1>3. KidsOf(t)[p] = s
  BY <1>1 DEF KidsOf, Childhood
<1>4. Holds(s, all, c, n)
  BY <1>1, <1>2, PickedPlaces
<1>5. c \subseteq 2 .. n
  BY <1>1 DEF Childhood
<1>6. s \in Seq(1 .. n) /\ ToSet(s) = {all[i] : i \in {j \in 1 .. Len(all) : j \in c}}
  <2>1. s = Picked(all, c) /\ all \in Seq(1 .. n)
    BY <1>1, <1>2
  <2> QED
    BY <2>1, PickedElements
<1>7. \A k \in 1 .. Len(s) : s[k] \in c
  <2>1. ASSUME NEW k \in 1 .. Len(s) PROVE s[k] \in c
    <3>1. s[k] \in ToSet(s)
      BY <1>6, <2>1 DEF ToSet
    <3>2. PICK i \in 1 .. n : i \in c /\ s[k] = all[i]
      BY <1>2, <1>6, <3>1
    <3> QED
      BY <1>2, <3>2
  <2> QED
    BY <2>1
<1>8. s \in Seq(2 .. n)
  <2>1. \A k \in 1 .. Len(s) : s[k] \in 2 .. n
    BY <1>5, <1>7
  <2>2. PICK m : m = Len(s) /\ m \in Nat /\ s = [k \in 1 .. m |-> s[k]]
    BY <1>6
  <2>3. s \in [1 .. m -> 2 .. n]
    BY <2>1, <2>2
  <2> QED
    BY <2>2, <2>3
<1>9. ASSUME NEW q \in c PROVE Count(c, q) \in 1 .. Len(s) /\ s[Count(c, q)] = q
  <2>1. q \in 1 .. n /\ all[q] = q
    BY <1>2, <1>5, <1>9
  <2> QED
    BY <1>4, <1>9, <2>1 DEF Holds
<1>10. ASSUME NEW k \in 1 .. Len(s) PROVE s[k] \in c /\ Count(c, s[k]) = k
  <2>1. PICK i \in 1 .. n : i \in c /\ Count(c, i) = k
    BY <1>4, <1>10 DEF Holds
  <2>2. s[k] = i
    BY <1>9, <2>1
  <2> QED
    BY <2>1, <2>2
<1>11. Len(s) = Count(c, n)
  BY <1>4 DEF Holds
<1> QED
  BY <1>1, <1>3, <1>8, <1>9, <1>10, <1>11

LEMMA TextLens ==
    ASSUME NEW t, Shaped(t)
    PROVE  Measured(t.size, t.len, KidsOf(t), TextLensOf(t))
<1>1. PICK n, kids, D, T : n = t.size /\ kids = KidsOf(t) /\ D = 1 .. n /\ T = DOMAIN t.len
  OBVIOUS
<1>2. n \in Nat /\ T \subseteq 2 .. n /\ \A p \in T : t.len[p] \in Nat
  BY <1>1 DEF Shaped
<1>3. \A p \in D : /\ kids[p] \in Seq(2 .. n)
                   /\ \A k \in 1 .. Len(kids[p]) : kids[p][k] \in D /\ kids[p][k] > p
  <2>1. ASSUME NEW p \in D
        PROVE  /\ kids[p] \in Seq(2 .. n)
               /\ \A k \in 1 .. Len(kids[p]) : kids[p][k] \in D /\ kids[p][k] > p
    <3>1. /\ kids[p] \in Seq(2 .. n)
          /\ \A k \in 1 .. Len(kids[p]) : kids[p][k] \in Childhood(t, p)
      BY <1>1, KidsAre
    <3>2. \A q \in Childhood(t, p) : q \in D /\ q > p
      BY <1>1 DEF Childhood, Shaped
    <3> QED
      BY <3>1, <3>2
  <2> QED
    BY <2>1
<1>4. PICK rank : rank = [p \in D |-> n - p]
  OBVIOUS
<1>5. rank \in [D -> 0 .. n]
  <2>1. \A p \in D : n - p \in 0 .. n
    BY <1>1, <1>2
  <2> QED
    BY <1>4, <2>1
<1>6. PICK step : step = [p \in D |-> [f \in [D -> Nat] |->
                             IF p \in T THEN t.len[p] ELSE Total(kids[p], f, Len(kids[p]))]]
  OBVIOUS
<1>7. ASSUME NEW p \in D, NEW f \in [D -> Nat] PROVE Total(kids[p], f, Len(kids[p])) \in Nat
  <2>1. kids[p] \in Seq(2 .. n)
    BY <1>3
  <2>2. SumsUp(kids[p], f)
    <3>1. \A x \in 2 .. n : f[x] \in Nat
      BY <1>1, <1>2
    <3> QED
      BY <2>1, <3>1, Totals
  <2>3. Len(kids[p]) \in 0 .. Len(kids[p])
    BY <2>1
  <2> QED
    BY <2>2, <2>3 DEF SumsUp
<1>8. step \in [D -> [[D -> Nat] -> Nat]]
  <2>1. \A p \in D : \A f \in [D -> Nat] :
            (IF p \in T THEN t.len[p] ELSE Total(kids[p], f, Len(kids[p]))) \in Nat
    BY <1>2, <1>7
  <2> QED
    BY <1>6, <2>1
<1>9. ASSUME NEW p \in D, NEW f \in [D -> Nat], NEW g \in [D -> Nat],
             \A q \in D : rank[q] < rank[p] => f[q] = g[q]
      PROVE  step[p][f] = step[p][g]
  <2>1. kids[p] \in Seq(2 .. n)
    BY <1>3
  <2>2. PICK m : m = Len(kids[p]) /\ m \in Nat
    <3>1. Len(kids[p]) \in Nat
      BY <2>1
    <3> QED
      BY <3>1, Zenon
  <2>3. \A k \in 1 .. m : f[kids[p][k]] = g[kids[p][k]]
    <3>1. ASSUME NEW k \in 1 .. m PROVE f[kids[p][k]] = g[kids[p][k]]
      <4>1. PICK q \in D : q = kids[p][k] /\ q > p
        BY <1>3, <2>2
      <4>2. rank[q] < rank[p]
        BY <1>1, <1>2, <1>4, <4>1
      <4> QED
        BY <1>9, <4>1, <4>2
    <3> QED
      BY <3>1
  <2>4. m <= Len(kids[p])
    BY <2>2
  <2>5. Total(kids[p], f, m) = Total(kids[p], g, m)
    <3>1. \A x \in 2 .. n : f[x] \in Nat
      BY <1>1, <1>2
    <3>2. \A x \in 2 .. n : g[x] \in Nat
      BY <1>1, <1>2
    <3>3. SumsUp(kids[p], f) /\ SumsUp(kids[p], g)
      BY <2>1, <3>1, <3>2, Totals
    <3>4. Agree(kids[p], f, kids[p], g, m)
      BY <2>2, <2>3, <2>4 DEF Agree
    <3> QED
      BY <2>1, <3>3, <3>4, TotalSame
  <2>6. /\ step[p][f] = IF p \in T THEN t.len[p] ELSE Total(kids[p], f, Len(kids[p]))
        /\ step[p][g] = IF p \in T THEN t.len[p] ELSE Total(kids[p], g, Len(kids[p]))
    BY <1>6
  <2>7. Total(kids[p], f, Len(kids[p])) = Total(kids[p], g, Len(kids[p]))
    BY <2>2, <2>5, Zenon
  <2> QED
    BY <2>6, <2>7
<1>10. \E f \in [D -> Nat] : \A p \in D : f[p] = step[p][f]
  <2>1. PICK V, v : V = Nat /\ v \in V
    OBVIOUS
  <2>2. \A e \in D : \A f, g \in [D -> V] :
            (\A d \in D : rank[d] < rank[e] => f[d] = g[d]) => step[e][f] = step[e][g]
    BY <1>9, <2>1
  <2>3. step \in [D -> [[D -> V] -> V]]
    BY <1>8, <2>1
  <2>4. Ranked(step, rank, D, n, V)
    BY <1>2, <1>5, <2>2, <2>3 DEF Ranked
  <2>5. \E f \in [D -> V] : \A p \in D : f[p] = step[p][f]
    BY <2>1, <2>4, RankRecursion
  <2> QED
    BY <2>1, <2>5
<1>11. PICK f \in [D -> Nat] : \A p \in D : f[p] = step[p][f]
  BY <1>10
<1>12. f = [p \in D |-> IF p \in T THEN t.len[p] ELSE Total(kids[p], f, Len(kids[p]))]
  <2>1. f = [p \in D |-> f[p]]
    BY <1>11
  <2>2. \A p \in D : f[p] = IF p \in T THEN t.len[p] ELSE Total(kids[p], f, Len(kids[p]))
    <3>1. ASSUME NEW p \in D
          PROVE  step[p][f] = IF p \in T THEN t.len[p] ELSE Total(kids[p], f, Len(kids[p]))
      BY <1>6, <1>11
    <3> QED
      BY <1>11, <3>1
  <2> QED
    BY <2>1, <2>2, Zenon
<1>13. PICK P : P = TextLensOf(t)
  OBVIOUS
<1>14. P = [p \in D |-> IF p \in T THEN t.len[p] ELSE Total(kids[p], P, Len(kids[p]))]
  <2>1. P = CHOOSE h : h = [p \in D |-> IF p \in T THEN t.len[p] ELSE Total(kids[p], h, Len(kids[p]))]
    BY <1>1, <1>13, Zenon DEF TextLensOf
  <2> QED
    BY <1>12, <2>1, Zenon
<1>15. \A p \in D : P[p] = IF p \in T THEN t.len[p] ELSE Total(kids[p], P, Len(kids[p]))
  BY <1>14, Zenon
<1>16. P = [p \in D |-> P[p]]
  BY <1>14
<1>17. \A p \in D : P[p] \in Nat
  <2>1. PICK M : M = {i \in 0 .. n : \A p \in D : n - p < i => P[p] \in Nat}
    OBVIOUS
  <2>2. 0 \in M
    BY <1>1, <1>2, <2>1
  <2>3. ASSUME NEW i \in 1 .. n, i - 1 \in M PROVE i \in M
    <3>1. ASSUME NEW p \in D, n - p < i PROVE P[p] \in Nat
      <4>1. CASE p \in T
        BY <1>2, <1>15, <4>1
      <4>2. CASE p \notin T
        <5>1. PICK s : s = kids[p] /\ s \in Seq(2 .. n)
          BY <1>3
        <5>2. \A k \in 1 .. Len(s) : P[s[k]] \in Nat
          <6>1. ASSUME NEW k \in 1 .. Len(s) PROVE P[s[k]] \in Nat
            <7>1. PICK q \in D : q = s[k] /\ q > p
              BY <1>3, <5>1
            <7>2. n - q < i - 1
              BY <1>1, <1>2, <3>1, <7>1
            <7> QED
              BY <2>1, <2>3, <7>1, <7>2
          <6> QED
            BY <6>1
        <5>3. PICK U : U = ToSet(s)
          OBVIOUS
        <5>4. s \in Seq(U) /\ \A x \in U : P[x] \in Nat
          <6>1. PICK m : m = Len(s) /\ m \in Nat /\ s = [k \in 1 .. m |-> s[k]]
            <7>1. Len(s) \in Nat /\ s = [k \in 1 .. Len(s) |-> s[k]]
              BY <5>1
            <7> QED
              BY <7>1, Zenon
          <6>2. \A k \in 1 .. m : s[k] \in U
            BY <5>1, <5>3, <6>1 DEF ToSet
          <6>3. s \in [1 .. m -> U]
            BY <6>1, <6>2
          <6>4. s \in Seq(U)
            BY <6>1, <6>3
          <6>5. \A x \in U : P[x] \in Nat
            BY <5>1, <5>2, <5>3 DEF ToSet
          <6> QED
            BY <6>4, <6>5
        <5>5. SumsUp(s, P)
          BY <5>4, Totals
        <5>6. Len(s) \in 0 .. Len(s)
          BY <5>1
        <5>7. Total(s, P, Len(s)) \in Nat
          BY <5>5, <5>6 DEF SumsUp
        <5> QED
          BY <1>15, <4>2, <5>1, <5>7
      <4> QED
        BY <4>1, <4>2
    <3>2. i \in 0 .. n
      OBVIOUS
    <3> QED
      BY <2>1, <3>1, <3>2
  <2>4. n \in M
    <3>1. \A i \in 0 .. n : i \in M
      BY <1>2, <2>2, <2>3, UpTo
    <3> QED
      BY <1>2, <3>1
  <2>5. \A p \in D : n - p < n
    BY <1>1, <1>2
  <2> QED
    BY <2>1, <2>4, <2>5
<1>18. P \in [D -> Nat]
  BY <1>16, <1>17
<1>19. T \subseteq D
  BY <1>1, <1>2
<1>20. Measured(n, t.len, kids, P)
  BY <1>1, <1>15, <1>18, <1>19 DEF Measured
<1> QED
  BY <1>1, <1>13, <1>20, Zenon

LEMMA GreenTreesAreTrees ==
    ASSUME NEW t \in GreenTrees
    PROVE  IsTree(t) /\ t.size \in 1 .. MaxSize
<1>1. MaxSize \in Nat \ {0} /\ TokenLens \subseteq Nat
  BY TraversalAssumption DEF TraversalAssumption
<1>2. PICK n \in 1 .. MaxSize : \E T \in SUBSET (2 .. n) :
           \E g \in [size : {n}, parent : [2 .. n -> 1 .. n], len : [T -> TokenLens]] :
           /\ t = GreenNodes(g)
           /\ \A p \in 2 .. n : /\ g.parent[p] < p /\ g.parent[p] \notin T
                                /\ \A q \in g.parent[p] + 1 .. p : g.parent[q] >= g.parent[p]
  <2> DEFINE Shapes(n, T) ==
          {g \in [size : {n}, parent : [2 .. n -> 1 .. n], len : [T -> TokenLens]] :
              \A p \in 2 .. n : /\ g.parent[p] < p /\ g.parent[p] \notin T
                                /\ \A q \in g.parent[p] + 1 .. p : g.parent[q] >= g.parent[p]}
  <2>1. t \in UNION {UNION {{GreenNodes(g) : g \in Shapes(n, T)} : T \in SUBSET (2 .. n)} : n \in 1 .. MaxSize}
    BY Zenon DEF GreenTrees
  <2>2. \E n \in 1 .. MaxSize : \E T \in SUBSET (2 .. n) : \E g \in Shapes(n, T) : t = GreenNodes(g)
    <3> HIDE DEF Shapes
    <3> QED
      BY <2>1
  <2> QED
    BY <2>2
<1>3. PICK T \in SUBSET (2 .. n) :
           \E g \in [size : {n}, parent : [2 .. n -> 1 .. n], len : [T -> TokenLens]] :
           /\ t = GreenNodes(g)
           /\ \A p \in 2 .. n : /\ g.parent[p] < p /\ g.parent[p] \notin T
                                /\ \A q \in g.parent[p] + 1 .. p : g.parent[q] >= g.parent[p]
  BY <1>2
<1>4. PICK g \in [size : {n}, parent : [2 .. n -> 1 .. n], len : [T -> TokenLens]] :
           /\ t = GreenNodes(g)
           /\ \A p \in 2 .. n : /\ g.parent[p] < p /\ g.parent[p] \notin T
                                /\ \A q \in g.parent[p] + 1 .. p : g.parent[q] >= g.parent[p]
  BY <1>3
<1>5. g.size = n /\ g.parent \in [2 .. n -> 1 .. n] /\ g.len \in [T -> TokenLens] /\ DOMAIN g.len = T
  BY <1>4
<1>6. n \in Nat \ {0}
  BY <1>1, <1>2
<1>7. g.len \in [DOMAIN g.len -> Nat]
  BY <1>1, <1>5
<1>8. Shaped(g)
  BY <1>4, <1>5, <1>6, <1>7 DEF Shaped
<1>9. /\ t.size = g.size /\ t.parent = g.parent /\ t.len = g.len
      /\ t.kids = KidsOf(g) /\ t.text_len = TextLensOf(g)
  <2>1. t = [size |-> g.size, parent |-> g.parent, len |-> g.len,
             kids |-> KidsOf(g), text_len |-> TextLensOf(g)]
    BY <1>4, Zenon DEF GreenNodes, KidsOf, TextLensOf
  <2> QED
    BY <2>1
<1>10. Shaped(t) /\ KidsOf(t) = KidsOf(g)
  BY <1>8, <1>9 DEF Shaped, KidsOf
<1>11. Measured(g.size, g.len, KidsOf(g), TextLensOf(g))
  BY <1>8, TextLens
<1>12. IsTree(t)
  BY <1>9, <1>10, <1>11, Zenon DEF IsTree
<1> QED
  BY <1>2, <1>5, <1>9, <1>12

LEMMA CountMonotone ==
    ASSUME NEW c, NEW m \in Nat, NEW n \in Nat, m <= n
    PROVE  Count(c, m) \in Nat /\ Count(c, n) \in Nat /\ Count(c, m) <= Count(c, n)
<1>1. PICK d \in Nat : n = m + d
  <2>1. n - m \in Nat /\ n = m + (n - m)
    OBVIOUS
  <2> QED
    BY <2>1
<1>2. PICK e : e = [i \in Nat |-> Count(c, i)]
  OBVIOUS
<1>3. e \in [Nat -> Nat]
  BY <1>2, CountSteps
<1>4. \A i \in Nat : e[i] <= e[i + 1]
  <2>1. ASSUME NEW i \in Nat PROVE e[i] <= e[i + 1]
    <3>1. i + 1 \in Nat
      OBVIOUS
    <3>3. Count(c, i) \in Nat
      BY CountSteps
    <3>2. Count(c, i + 1) = IF i + 1 \in c THEN Count(c, i) + 1 ELSE Count(c, i)
      BY CountSteps
    <3> QED
      BY <1>2, <3>1, <3>2, <3>3
  <2> QED
    BY <2>1
<1>5. PICK M : M = {i \in 0 .. d : e[m] <= e[m + i]}
  OBVIOUS
<1>6. 0 \in M
  BY <1>3, <1>5
<1>7. ASSUME NEW i \in 1 .. d, i - 1 \in M PROVE i \in M
  <2>1. PICK j \in Nat : j = m + (i - 1) /\ j + 1 = m + i
    OBVIOUS
  <2>2. e[m] <= e[j] /\ e[j] <= e[j + 1]
    BY <1>4, <1>5, <1>7, <2>1
  <2>3. e[m] \in Nat /\ e[j] \in Nat /\ e[j + 1] \in Nat
    BY <1>3
  <2>4. e[m] <= e[m + i]
    BY <2>1, <2>2, <2>3
  <2> QED
    BY <1>5, <2>4
<1>8. \A i \in 0 .. d : i \in M
  BY <1>6, <1>7, UpTo
<1>9. e[m] <= e[n]
  BY <1>1, <1>5, <1>8
<1> QED
  BY <1>2, <1>3, <1>9

\* The children of a node, in the order of their positions.
KidList(t, p, s) ==
    /\ s \in Seq(2 .. t.size)
    /\ \A k \in 1 .. Len(s) : /\ s[k] \in 2 .. t.size /\ s[k] > p /\ t.parent[s[k]] = p
                              /\ Count(Childhood(t, p), s[k] - 1) = k - 1
    /\ \A q \in 2 .. t.size : t.parent[q] = p => \E k \in 1 .. Len(s) : s[k] = q
    /\ \A j, k \in 1 .. Len(s) : j < k => s[j] < s[k]
    /\ Len(s) \in Nat

LEMMA Kidlists ==
    ASSUME NEW t, IsTree(t), NEW p \in 1 .. t.size
    PROVE  KidList(t, p, t.kids[p])
<1>1. PICK s, c, n, m : s = KidsOf(t)[p] /\ c = Childhood(t, p) /\ n = t.size /\ m = Len(s)
  OBVIOUS
<1>2. /\ n \in Nat \ {0} /\ t.parent \in [2 .. n -> 1 .. n] /\ \A q \in 2 .. n : t.parent[q] < q
      /\ Shaped(t) /\ t.kids = KidsOf(t)
  BY <1>1 DEF IsTree, Shaped
<1>3. s \in Seq(2 .. n)
  BY <1>1, <1>2, KidsAre
<1>4. \A k \in 1 .. m : s[k] \in c /\ Count(c, s[k]) = k
  BY <1>1, <1>2, KidsAre
<1>5. \A q \in c : Count(c, q) \in 1 .. m /\ s[Count(c, q)] = q
  BY <1>1, <1>2, KidsAre
<1>6. \A q \in c : q \in 2 .. n /\ t.parent[q] = p /\ q > p
  BY <1>1, <1>2 DEF Childhood
<1>7. m \in Nat
  BY <1>1, <1>3
<1>8. ASSUME NEW k \in 1 .. m PROVE Count(c, s[k] - 1) = k - 1
  <2>1. PICK j \in Nat : j = s[k] - 1 /\ j + 1 = s[k]
    <3>1. s[k] \in 2 .. n
      BY <1>4, <1>6
    <3>2. s[k] - 1 \in Nat /\ (s[k] - 1) + 1 = s[k]
      BY <1>2, <3>1
    <3> QED
      BY <3>2
  <2>2. Count(c, j) \in Nat /\ Count(c, j + 1) = IF j + 1 \in c THEN Count(c, j) + 1 ELSE Count(c, j)
    BY CountSteps
  <2>3. Count(c, j + 1) = k /\ j + 1 \in c
    BY <1>4, <2>1
  <2>4. Count(c, j) = k - 1
    BY <2>2, <2>3
  <2> QED
    BY <2>1, <2>4
<1>9. ASSUME NEW j \in 1 .. m, NEW k \in 1 .. m, j < k PROVE s[j] < s[k]
  <2>1. s[j] \in Nat /\ s[k] \in Nat
    <3>1. s[j] \in 2 .. n /\ s[k] \in 2 .. n
      BY <1>4, <1>6
    <3> QED
      BY <1>2, <3>1
  <2>2. CASE s[k] <= s[j]
    <3>1. Count(c, s[k]) <= Count(c, s[j])
      BY <2>1, <2>2, CountMonotone
    <3> QED
      BY <1>4, <1>9, <3>1
  <2> QED
    BY <2>1, <2>2
<1>10. \A q \in 2 .. n : t.parent[q] = p => \E k \in 1 .. m : s[k] = q
  <2>1. ASSUME NEW q \in 2 .. n, t.parent[q] = p PROVE \E k \in 1 .. m : s[k] = q
    <3>1. q \in c
      BY <1>1, <2>1 DEF Childhood
    <3> QED
      BY <1>5, <3>1
  <2> QED
    BY <2>1
<1>11. \A k \in 1 .. m : /\ s[k] \in 2 .. n /\ s[k] > p /\ t.parent[s[k]] = p
                         /\ Count(c, s[k] - 1) = k - 1
  BY <1>4, <1>6, <1>8
<1>12. \A j, k \in 1 .. m : j < k => s[j] < s[k]
  BY <1>9
<1>13. KidList(t, p, s)
  BY <1>1, <1>3, <1>7, <1>10, <1>11, <1>12 DEF KidList
<1> QED
  BY <1>1, <1>2, <1>13, Zenon

----------------------------------------------------------------------------
(* The elements below an element, and their bytes *)

\* The elements from p to q are those at and below p.
Block(t, p, q) ==
    /\ q \in p .. t.size
    /\ \A r \in p + 1 .. q : t.parent[r] >= p
    /\ q < t.size => t.parent[q + 1] < p

LEMMA Blocks ==
    ASSUME NEW t, IsTree(t), NEW p \in 1 .. t.size
    PROVE  \E q : Block(t, p, q)
<1>1. PICK n, S : /\ n = t.size /\ n \in Nat \ {0} /\ t.parent \in [2 .. n -> 1 .. n]
                  /\ S = {q \in p .. n : q < n => t.parent[q + 1] < p}
  <2>1. t.size \in Nat \ {0} /\ t.parent \in [2 .. t.size -> 1 .. t.size]
    BY DEF IsTree, Shaped
  <2> QED
    BY <2>1
<1>2. S \in SUBSET Nat /\ n \in S
  BY <1>1
<1>3. PICK q \in S : \A x \in S : q <= x
  BY <1>2, Least
<1>4. \A r \in p + 1 .. q : t.parent[r] >= p
  <2>1. ASSUME NEW r \in p + 1 .. q, ~ (t.parent[r] >= p) PROVE FALSE
    <3>1. PICK x \in p .. n : x = r - 1 /\ x + 1 = r /\ x < q
      <4>1. r - 1 \in p .. n /\ (r - 1) + 1 = r /\ r - 1 < q
        BY <1>1, <1>3
      <4> QED
        BY <4>1
    <3>2. t.parent[r] \in 1 .. n
      BY <1>1, <1>3
    <3>3. t.parent[x + 1] < p
      BY <2>1, <3>1, <3>2
    <3>4. x \in S
      BY <1>1, <3>3
    <3>5. q <= x
      BY <1>3, <3>4
    <3> QED
      BY <1>1, <1>3, <3>1, <3>5
  <2> QED
    BY <2>1
<1> QED
  BY <1>1, <1>3, <1>4 DEF Block

\* Where the elements below child number k end.
KidEnd(s, q, k) == IF k < Len(s) THEN s[k + 1] - 1 ELSE q

LEMMA KidBlocks ==
    ASSUME NEW t, IsTree(t), NEW p \in 1 .. t.size, NEW s, KidList(t, p, s), NEW q, Block(t, p, q)
    PROVE  /\ Len(s) = 0 => q = p
           /\ Len(s) > 0 => s[1] = p + 1
           /\ \A k \in 1 .. Len(s) : Block(t, s[k], KidEnd(s, q, k))
<1>1. PICK n, par, m : n = t.size /\ par = t.parent /\ m = Len(s)
  OBVIOUS
<1>2. /\ n \in Nat \ {0} /\ par \in [2 .. n -> 1 .. n]
      /\ \A r \in 2 .. n : par[r] < r /\ \A x \in par[r] + 1 .. r : par[x] >= par[r]
  BY <1>1 DEF IsTree, Shaped
<1>3. q \in p .. n /\ (\A r \in p + 1 .. q : par[r] >= p) /\ (q < n => par[q + 1] < p)
  BY <1>1 DEF Block
<1>4. m \in Nat /\ \A k \in 1 .. m : s[k] \in 2 .. n /\ s[k] > p /\ par[s[k]] = p
  BY <1>1 DEF KidList
<1>5. \A r \in 2 .. n : par[r] = p => \E k \in 1 .. m : s[k] = r
  BY <1>1 DEF KidList
<1>6. \A j, k \in 1 .. m : j < k => s[j] < s[k]
  BY <1>1 DEF KidList
<1>7. \A k \in 1 .. m : s[k] \in p + 1 .. q
  <2>1. ASSUME NEW k \in 1 .. m, s[k] > q PROVE FALSE
    <3>1. q + 1 \in par[s[k]] + 1 .. s[k]
      BY <1>2, <1>3, <1>4, <2>1
    <3>2. par[q + 1] >= p /\ q < n /\ par[q + 1] \in 1 .. n
      BY <1>2, <1>3, <1>4, <2>1, <3>1
    <3> QED
      BY <1>2, <1>3, <3>2
  <2> QED
    BY <1>2, <1>3, <1>4, <2>1
<1>8. ASSUME q # p PROVE \E k \in 1 .. m : s[k] = p + 1
  <2>1. p + 1 \in 2 .. n /\ p + 1 \in p + 1 .. q
    BY <1>2, <1>3, <1>8
  <2>2. par[p + 1] = p
    BY <1>2, <1>3, <2>1
  <2> QED
    BY <1>5, <2>1, <2>2
<1>9. m = 0 => q = p
  BY <1>8
<1>10. m > 0 => s[1] = p + 1
  <2>1. SUFFICES ASSUME m > 0 PROVE s[1] = p + 1
    OBVIOUS
  <2>2. 1 \in 1 .. m /\ s[1] \in p + 1 .. q
    BY <1>4, <1>7, <2>1
  <2>3. q # p
    BY <1>2, <1>3, <2>2
  <2>4. PICK k \in 1 .. m : s[k] = p + 1
    BY <1>8, <2>3
  <2>5. k = 1 \/ (1 < k /\ s[1] < s[k])
    BY <1>6, <2>2
  <2> QED
    BY <1>3, <2>2, <2>4, <2>5
<1>11. ASSUME NEW k \in 1 .. m PROVE Block(t, s[k], KidEnd(s, q, k))
  <2>1. PICK a, b : a = s[k] /\ b = KidEnd(s, q, k)
    OBVIOUS
  <2>2. a \in p + 1 .. q /\ a \in 2 .. n
    BY <1>4, <1>7, <2>1
  <2>3. /\ b \in a .. q /\ \A j \in 1 .. m : ~ (a < s[j] /\ s[j] <= b)
        /\ b < n => par[b + 1] < a
    <3>1. CASE k < m
      <4>1. k + 1 \in 1 .. m /\ b = s[k + 1] - 1
        BY <1>1, <1>4, <2>1, <3>1 DEF KidEnd
      <4>2. a < s[k + 1] /\ s[k + 1] \in p + 1 .. q /\ par[s[k + 1]] = p
        BY <1>4, <1>6, <1>7, <2>1, <4>1
      <4>3. \A j \in 1 .. m : ~ (a < s[j] /\ s[j] < s[k + 1])
        <5>1. ASSUME NEW j \in 1 .. m, a < s[j], s[j] < s[k + 1] PROVE FALSE
          <6>1. s[j] \in 2 .. n
            BY <1>4
          <6>2. CASE j <= k
            <7>1. j = k \/ s[j] < s[k]
              BY <1>6, <6>2
            <7> QED
              BY <2>1, <2>2, <5>1, <6>1, <7>1
          <6>3. CASE k + 1 <= j
            <7>1. j = k + 1 \/ s[k + 1] < s[j]
              BY <1>6, <4>1, <6>3
            <7> QED
              BY <4>2, <5>1, <6>1, <7>1
          <6> QED
            BY <6>2, <6>3
        <5> QED
          BY <5>1
      <4>4. b \in a .. q /\ b + 1 = s[k + 1]
        BY <1>1, <1>2, <1>3, <2>2, <4>1, <4>2
      <4>5. \A j \in 1 .. m : ~ (a < s[j] /\ s[j] <= b)
        BY <1>4, <4>2, <4>3, <4>4
      <4> QED
        BY <2>2, <4>2, <4>4, <4>5
    <3>2. CASE ~ (k < m)
      <4>1. b = q /\ k = m
        BY <1>1, <1>4, <2>1, <3>2 DEF KidEnd
      <4>2. \A j \in 1 .. m : ~ (a < s[j])
        <5>1. ASSUME NEW j \in 1 .. m, a < s[j] PROVE FALSE
          <6>1. j = k \/ s[j] < s[k]
            BY <1>6, <4>1
          <6>2. s[j] \in 2 .. n
            BY <1>4
          <6> QED
            BY <2>1, <2>2, <5>1, <6>1, <6>2
        <5> QED
          BY <5>1
      <4>3. b \in a .. q
        BY <1>3, <2>2, <4>1
      <4>4. b < n => par[b + 1] < a
        <5>1. ASSUME b < n PROVE par[b + 1] < a
          <6>1. b + 1 \in 2 .. n /\ par[b + 1] \in 1 .. n
            BY <1>2, <1>3, <2>2, <4>1, <5>1
          <6>2. par[b + 1] < p
            BY <1>3, <4>1, <5>1
          <6> QED
            BY <1>3, <2>2, <6>1, <6>2
        <5> QED
          BY <5>1
      <4> QED
        BY <4>2, <4>3, <4>4
    <3> QED
      BY <3>1, <3>2
  <2>4. b \in a .. n
    BY <1>1, <1>2, <1>3, <2>2, <2>3
  <2>5. ASSUME NEW r \in a + 1 .. b, ~ (par[r] >= a) PROVE FALSE
    <3>1. r \in p + 1 .. q /\ r \in 2 .. n
      BY <1>2, <1>3, <2>2, <2>3
    <3>2. par[r] >= p /\ par[r] \in 1 .. n
      BY <1>2, <1>3, <3>1
    <3>3. par[r] # p
      <4>1. ASSUME par[r] = p PROVE FALSE
        <5>1. PICK j \in 1 .. m : s[j] = r
          BY <1>5, <3>1, <4>1
        <5> QED
          BY <2>2, <2>3, <5>1
      <4> QED
        BY <4>1
    <3>4. a \in par[r] + 1 .. r
      BY <2>2, <2>3, <2>5, <3>1, <3>2
    <3>5. par[a] >= par[r]
      BY <1>2, <3>1, <3>4
    <3>6. par[a] = p
      BY <1>4, <2>1
    <3> QED
      BY <3>2, <3>3, <3>5, <3>6
  <2>6. \A r \in a + 1 .. b : par[r] >= a
    BY <2>5
  <2>7. Block(t, a, b)
    BY <1>1, <2>3, <2>4, <2>6 DEF Block
  <2> QED
    BY <2>1, <2>7
<1> QED
  BY <1>1, <1>9, <1>10, <1>11

\* The bytes of the tokens among the first k elements.
OwnLens(t) == [q \in 1 .. t.size |-> IF q \in DOMAIN t.len THEN t.len[q] ELSE 0]
BytesOf(t, k) == Total([q \in 1 .. t.size |-> q], OwnLens(t), k)

LEMMA BytesSteps ==
    ASSUME NEW t, IsTree(t)
    PROVE  /\ \A k \in 0 .. t.size : BytesOf(t, k) \in Nat
           /\ \A k \in 1 .. t.size : BytesOf(t, k) = BytesOf(t, k - 1) + OwnLens(t)[k]
<1>1. PICK n, s, l : n = t.size /\ n \in Nat /\ s = [q \in 1 .. n |-> q] /\ l = OwnLens(t)
  <2>1. t.size \in Nat
    BY DEF IsTree, Shaped
  <2> QED
    BY <2>1
<1>2. s \in Seq(1 .. n) /\ Len(s) = n /\ \A k \in 1 .. n : s[k] = k
  BY <1>1
<1>3. \A x \in 1 .. n : l[x] \in Nat
  <2>1. \A x \in DOMAIN t.len : t.len[x] \in Nat
    BY DEF IsTree, Shaped
  <2> QED
    BY <1>1, <2>1 DEF OwnLens
<1>4. SumsUp(s, l)
  BY <1>2, <1>3, Totals
<1>5. \A k : BytesOf(t, k) = Total(s, l, k)
  BY <1>1 DEF BytesOf
<1>6. \A k \in 0 .. n : BytesOf(t, k) \in Nat
  BY <1>2, <1>4, <1>5 DEF SumsUp
<1>7. ASSUME NEW k \in 1 .. n PROVE BytesOf(t, k) = BytesOf(t, k - 1) + l[k]
  <2>1. Total(s, l, k) = Total(s, l, k - 1) + l[s[k]]
    BY <1>2, <1>4 DEF SumsUp
  <2> QED
    BY <1>2, <1>5, <2>1
<1> QED
  BY <1>1, <1>6, <1>7

\* If it holds for every child that the bytes below it are its length, then it
\* does for the node, and every child begins where those in front of it end.
Fits(t, p) == \A q : Block(t, p, q) => BytesOf(t, q) = BytesOf(t, p - 1) + t.text_len[p]

LEMMA KidsFit ==
    ASSUME NEW t, IsTree(t), NEW p \in (1 .. t.size) \ DOMAIN t.len, NEW s, s = t.kids[p],
           NEW q, Block(t, p, q), \A k \in 1 .. Len(s) : Fits(t, s[k])
    PROVE  /\ \A k \in 1 .. Len(s) : BytesOf(t, s[k] - 1) = BytesOf(t, p - 1) + Total(s, t.text_len, k - 1)
           /\ BytesOf(t, q) = BytesOf(t, p - 1) + Total(s, t.text_len, Len(s))
<1>1. PICK n, m, len : n = t.size /\ n \in Nat /\ m = Len(s) /\ m \in Nat /\ len = t.text_len
  <2>1. t.size \in Nat /\ Len(s) \in Nat
    BY Kidlists DEF IsTree, Shaped, KidList
  <2> QED
    BY <2>1
<1>2. KidList(t, p, s)
  BY Kidlists
<1>3. /\ s \in Seq(2 .. n) /\ \A k \in 1 .. m : s[k] \in 2 .. n
  BY <1>1, <1>2 DEF KidList
<1>4. PICK B : B = [k \in 0 .. n |-> BytesOf(t, k)]
  OBVIOUS
<1>5. B \in [0 .. n -> Nat]
  BY <1>1, <1>4, BytesSteps
<1>6. PICK edge : edge = [k \in 0 .. m |-> IF k = 0 THEN p ELSE KidEnd(s, q, k)]
  OBVIOUS
<1>7. \A x \in 2 .. n : len[x] \in Nat
  BY <1>1 DEF IsTree, Measured
<1>8. SumsUp(s, len)
  BY <1>3, <1>7, Totals
<1>9. B[p] = B[p - 1]
  <2>1. p \in 1 .. n /\ OwnLens(t)[p] = 0
    BY <1>1 DEF OwnLens
  <2> QED
    BY <1>1, <1>4, <1>5, <2>1, BytesSteps
<1>10. q \in 0 .. n /\ p \in 1 .. n
  BY <1>1 DEF Block
<1>11. \A k \in 1 .. m : s[k] - 1 = edge[k - 1] /\ edge[k - 1] \in 0 .. n
  <2>1. ASSUME NEW k \in 1 .. m PROVE s[k] - 1 = edge[k - 1] /\ edge[k - 1] \in 0 .. n
    <3>1. CASE k = 1
      <4>1. s[1] = p + 1
        BY <1>1, <1>2, <3>1, KidBlocks
      <4>2. 0 \in 0 .. m /\ k - 1 = 0
        BY <1>1, <3>1
      <4>3. edge[k - 1] = p
        BY <1>6, <4>2
      <4> QED
        BY <1>1, <1>10, <3>1, <4>1, <4>3
    <3>2. CASE k # 1
      <4>1. PICK j \in 1 .. m : j = k - 1 /\ j + 1 = k /\ j < m
        BY <1>1, <3>2
      <4>2. edge[j] = s[k] - 1
        BY <1>1, <1>6, <4>1 DEF KidEnd
      <4>3. s[k] \in 2 .. n
        BY <1>3
      <4>4. s[k] - 1 \in 0 .. n
        BY <1>1, <4>3
      <4> QED
        BY <4>1, <4>2, <4>4
    <3> QED
      BY <3>1, <3>2
  <2> QED
    BY <2>1
<1>12. \A k \in 1 .. m : edge[k] \in 0 .. n /\ B[edge[k]] = B[edge[k - 1]] + len[s[k]]
  <2>1. ASSUME NEW k \in 1 .. m PROVE edge[k] \in 0 .. n /\ B[edge[k]] = B[edge[k - 1]] + len[s[k]]
    <3>1. edge[k] = KidEnd(s, q, k)
      BY <1>6
    <3>2. Block(t, s[k], edge[k])
      BY <1>1, <1>2, <3>1, KidBlocks
    <3>3. Fits(t, s[k])
      BY <1>1
    <3>4. BytesOf(t, edge[k]) = BytesOf(t, s[k] - 1) + len[s[k]]
      BY <1>1, <3>2, <3>3 DEF Fits
    <3>5. s[k] - 1 = edge[k - 1] /\ edge[k - 1] \in 0 .. n
      BY <1>11
    <3>6. edge[k] \in 0 .. n
      <4>1. s[k] \in 2 .. n /\ edge[k] \in s[k] .. n
        BY <1>1, <1>3, <3>2 DEF Block
      <4> QED
        BY <1>1, <4>1
    <3> QED
      BY <1>4, <3>4, <3>5, <3>6
  <2> QED
    BY <2>1
<1>13. PICK M : M = {k \in 0 .. m : B[edge[k]] = B[p] + Total(s, len, k)}
  OBVIOUS
<1>14. 0 \in M
  BY <1>1, <1>5, <1>6, <1>8, <1>10, <1>13 DEF SumsUp
<1>15. ASSUME NEW k \in 1 .. m, k - 1 \in M PROVE k \in M
  <2>1. B[edge[k - 1]] = B[p] + Total(s, len, k - 1) /\ B[edge[k]] = B[edge[k - 1]] + len[s[k]]
    BY <1>12, <1>13, <1>15
  <2>2. Total(s, len, k) = Total(s, len, k - 1) + len[s[k]] /\ Total(s, len, k - 1) \in Nat
    BY <1>1, <1>8 DEF SumsUp
  <2>3. B[p] \in Nat /\ len[s[k]] \in Nat
    BY <1>3, <1>5, <1>7, <1>10
  <2>4. B[edge[k]] = B[p] + Total(s, len, k)
    BY <2>1, <2>2, <2>3
  <2> QED
    BY <1>13, <2>4
<1>16. \A k \in 0 .. m : k \in M
  BY <1>1, <1>14, <1>15, UpTo
<1>17. \A k \in 1 .. m : BytesOf(t, s[k] - 1) = BytesOf(t, p - 1) + Total(s, len, k - 1)
  <2>1. ASSUME NEW k \in 1 .. m PROVE BytesOf(t, s[k] - 1) = BytesOf(t, p - 1) + Total(s, len, k - 1)
    <3>1. B[edge[k - 1]] = B[p] + Total(s, len, k - 1)
      <4>1. k - 1 \in M
        <5>1. k - 1 \in 0 .. m
          BY <1>1
        <5> QED
          BY <1>16, <5>1
      <4> QED
        BY <1>13, <4>1
    <3>2. edge[k - 1] = s[k] - 1 /\ edge[k - 1] \in 0 .. n
      BY <1>11
    <3>3. p - 1 \in 0 .. n
      BY <1>1, <1>10
    <3> QED
      BY <1>4, <1>9, <3>1, <3>2, <3>3
  <2> QED
    BY <2>1
<1>18. edge[m] = q
  <2>1. CASE m = 0
    <3>1. q = p
      <4>1. Len(s) = 0 /\ p \in 1 .. t.size
        BY <1>1, <2>1
      <4> QED
        BY <1>2, <4>1, KidBlocks
    <3> QED
      BY <1>6, <2>1, <3>1
  <2>2. CASE m # 0
    BY <1>1, <1>6, <2>2 DEF KidEnd
  <2> QED
    BY <2>1, <2>2
<1>19. BytesOf(t, q) = BytesOf(t, p - 1) + Total(s, len, m)
  <2>1. B[q] = B[p] + Total(s, len, m)
    BY <1>1, <1>13, <1>16, <1>18
  <2>2. p - 1 \in 0 .. n
    BY <1>1, <1>10
  <2> QED
    BY <1>4, <1>9, <1>10, <2>1, <2>2
<1> QED
  BY <1>1, <1>17, <1>19

\* The bytes below every element are its length.
LEMMA AllFit ==
    ASSUME NEW t, IsTree(t)
    PROVE  \A p \in 1 .. t.size : Fits(t, p)
<1>1. PICK n : n = t.size /\ n \in Nat
  <2>1. t.size \in Nat
    BY DEF IsTree, Shaped
  <2> QED
    BY <2>1
<1>2. PICK M : M = {i \in 0 .. n : \A p \in 1 .. n : n - p < i => Fits(t, p)}
  OBVIOUS
<1>3. 0 \in M
  BY <1>1, <1>2
<1>4. ASSUME NEW i \in 1 .. n, i - 1 \in M PROVE i \in M
  <2>1. ASSUME NEW p \in 1 .. n, n - p < i PROVE Fits(t, p)
    <3>1. ASSUME NEW q, Block(t, p, q) PROVE BytesOf(t, q) = BytesOf(t, p - 1) + t.text_len[p]
      <4>1. PICK s : s = t.kids[p] /\ KidList(t, p, s)
        BY <1>1, Kidlists
      <4>2. CASE p \in DOMAIN t.len
        <5>1. ~ (Len(s) > 0)
          <6>1. ASSUME Len(s) > 0 PROVE FALSE
            <7>1. 1 \in 1 .. Len(s)
              BY <4>1, <6>1 DEF KidList
            <7>2. s[1] \in 2 .. n /\ t.parent[s[1]] = p
              BY <1>1, <4>1, <7>1 DEF KidList
            <7> QED
              BY <1>1, <4>2, <7>2 DEF IsTree, Shaped
          <6> QED
            BY <6>1
        <5>2. Len(s) = 0
          BY <4>1, <5>1 DEF KidList
        <5>3. q = p
          BY <1>1, <3>1, <4>1, <5>2, KidBlocks
        <5>4. BytesOf(t, p) = BytesOf(t, p - 1) + OwnLens(t)[p]
          BY <1>1, BytesSteps
        <5>5. OwnLens(t)[p] = t.len[p] /\ t.text_len[p] = t.len[p]
          BY <1>1, <4>2 DEF OwnLens, IsTree, Measured
        <5> QED
          BY <5>3, <5>4, <5>5
      <4>3. CASE p \notin DOMAIN t.len
        <5>1. \A k \in 1 .. Len(s) : Fits(t, s[k])
          <6>1. ASSUME NEW k \in 1 .. Len(s) PROVE Fits(t, s[k])
            <7>1. s[k] \in 2 .. n /\ s[k] > p
              BY <1>1, <4>1 DEF KidList
            <7>2. s[k] \in 1 .. n /\ n - s[k] < i - 1
              BY <1>1, <2>1, <7>1
            <7> QED
              BY <1>2, <1>4, <7>2
          <6> QED
            BY <6>1
        <5>2. p \in (1 .. t.size) \ DOMAIN t.len
          BY <1>1, <4>3
        <5>3. BytesOf(t, q) = BytesOf(t, p - 1) + Total(s, t.text_len, Len(s))
          BY <3>1, <4>1, <5>1, <5>2, KidsFit
        <5>4. t.text_len[p] = Total(s, t.text_len, Len(s))
          BY <4>1, <5>2 DEF IsTree, Measured
        <5> QED
          BY <5>3, <5>4
      <4> QED
        BY <4>2, <4>3
    <3> QED
      BY <3>1 DEF Fits
  <2> QED
    BY <1>2, <2>1
<1>5. \A i \in 0 .. n : i \in M
  BY <1>1, <1>3, <1>4, UpTo
<1>6. n \in M /\ \A p \in 1 .. n : n - p < n
  BY <1>1, <1>5
<1> QED
  BY <1>1, <1>2, <1>6

\* Every child begins where those in front of it end, and a node ends where its
\* children do.
LEMMA KidStarts ==
    ASSUME NEW t, IsTree(t), NEW p \in 1 .. t.size, NEW s, s = t.kids[p]
    PROVE  \A k \in 1 .. Len(s) : BytesOf(t, s[k] - 1) = BytesOf(t, p - 1) + Total(s, t.text_len, k - 1)
<1>1. KidList(t, p, s)
  BY Kidlists
<1>2. SUFFICES ASSUME NEW k \in 1 .. Len(s)
               PROVE  BytesOf(t, s[k] - 1) = BytesOf(t, p - 1) + Total(s, t.text_len, k - 1)
  OBVIOUS
<1>3. p \in (1 .. t.size) \ DOMAIN t.len
  <2>1. s[k] \in 2 .. t.size /\ t.parent[s[k]] = p
    BY <1>1 DEF KidList
  <2> QED
    BY <2>1 DEF IsTree, Shaped
<1>4. PICK q : Block(t, p, q)
  BY Blocks
<1>5. \A j \in 1 .. Len(s) : Fits(t, s[j])
  <2>1. \A j \in 1 .. Len(s) : s[j] \in 1 .. t.size
    <3>1. t.size \in Nat
      BY DEF IsTree, Shaped
    <3>2. \A j \in 1 .. Len(s) : s[j] \in 2 .. t.size
      BY <1>1 DEF KidList
    <3> QED
      BY <3>1, <3>2
  <2> QED
    BY <2>1, AllFit
<1> QED
  BY <1>3, <1>4, <1>5, KidsFit

----------------------------------------------------------------------------
(* True references *)

\* The reference to an element that the tree has it by.
Truth(t, p) ==
    [pos |-> p,
     index |-> IF p = 1 THEN 0 ELSE Count(Childhood(t, t.parent[p]), p - 1),
     offset |-> BytesOf(t, p - 1)]

Truths(t) == {Truth(t, p) : p \in 1 .. t.size}
KidTruths(t, p) == {Truth(t, q) : q \in Childhood(t, p)}

LEMMA TreeFacts ==
    ASSUME NEW t, IsTree(t)
    PROVE  /\ t.size \in Nat \ {0} /\ t.parent \in [2 .. t.size -> 1 .. t.size]
           /\ \A p \in 2 .. t.size : /\ t.parent[p] \in 1 .. t.size /\ t.parent[p] < p
                                     /\ \A q \in t.parent[p] + 1 .. p : t.parent[q] >= t.parent[p]
           /\ 1 \in 1 .. t.size /\ 1 \notin DOMAIN t.len
           /\ \A p \in 1 .. t.size : /\ t.text_len[p] \in Nat /\ BytesOf(t, p - 1) \in Nat
                                     /\ p # 1 => p \in 2 .. t.size
<1>1. PICK n : n = t.size /\ n \in Nat \ {0}
  BY DEF IsTree, Shaped
<1>2. /\ t.parent \in [2 .. n -> 1 .. n] /\ DOMAIN t.len \subseteq 2 .. n
      /\ \A p \in 2 .. n : /\ t.parent[p] < p
                           /\ \A q \in t.parent[p] + 1 .. p : t.parent[q] >= t.parent[p]
  BY <1>1 DEF IsTree, Shaped
<1>3. \A p \in 1 .. n : t.text_len[p] \in Nat
  BY <1>1 DEF IsTree, Measured
<1>4. \A p \in 1 .. n : BytesOf(t, p - 1) \in Nat
  <2>1. \A p \in 1 .. n : p - 1 \in 0 .. n
    BY <1>1
  <2> QED
    BY <1>1, <2>1, BytesSteps
<1>5. /\ 1 \in 1 .. n /\ 1 \notin DOMAIN t.len /\ \A p \in 1 .. n : p # 1 => p \in 2 .. n
      /\ \A p \in 2 .. n : t.parent[p] \in 1 .. n
  BY <1>1, <1>2
<1> QED
  BY <1>1, <1>2, <1>3, <1>4, <1>5

\* The sums over the children of a node.
KidSums(t, s) ==
    /\ \A k \in 0 .. Len(s) : Total(s, t.text_len, k) \in Nat
    /\ \A k \in 1 .. Len(s) : /\ Total(s, t.text_len, k) = Total(s, t.text_len, k - 1) + t.text_len[s[k]]
                              /\ t.text_len[s[k]] \in Nat
    /\ Total(s, t.text_len, 0) = 0

LEMMA KidTotals ==
    ASSUME NEW t, IsTree(t), NEW p \in 1 .. t.size, NEW s, s = t.kids[p]
    PROVE  KidSums(t, s)
<1>1. PICK n : n = t.size /\ n \in Nat
  BY TreeFacts
<1>2. s \in Seq(2 .. n) /\ \A k \in 1 .. Len(s) : s[k] \in 2 .. n
  BY <1>1, Kidlists DEF KidList
<1>3. \A x \in 2 .. n : t.text_len[x] \in Nat
  BY <1>1, TreeFacts
<1>4. SumsUp(s, t.text_len)
  BY <1>2, <1>3, Totals
<1> QED
  BY <1>2, <1>3, <1>4 DEF SumsUp, KidSums

\* The reference to child number k, and where it ends.
LEMMA KidTruth ==
    ASSUME NEW t, IsTree(t), NEW p \in 1 .. t.size, NEW s, s = t.kids[p], NEW k \in 1 .. Len(s)
    PROVE  /\ Truth(t, s[k]) = [pos |-> s[k], index |-> k - 1,
                                offset |-> BytesOf(t, p - 1) + Total(s, t.text_len, k - 1)]
           /\ Truth(t, s[k]).offset + t.text_len[s[k]] = BytesOf(t, p - 1) + Total(s, t.text_len, k)
           /\ Truth(t, s[k]) \in KidTruths(t, p) /\ s[k] \in 2 .. t.size /\ t.parent[s[k]] = p
<1>1. KidList(t, p, s)
  BY Kidlists
<1>2. /\ s[k] \in 2 .. t.size /\ t.parent[s[k]] = p
      /\ Count(Childhood(t, p), s[k] - 1) = k - 1
  BY <1>1 DEF KidList
<1>3. BytesOf(t, s[k] - 1) = BytesOf(t, p - 1) + Total(s, t.text_len, k - 1)
  BY KidStarts
<1>4. s[k] # 1
  BY <1>2
<1>5. Truth(t, s[k]) = [pos |-> s[k], index |-> k - 1,
                        offset |-> BytesOf(t, p - 1) + Total(s, t.text_len, k - 1)]
  BY <1>2, <1>3, <1>4 DEF Truth
<1>6. Truth(t, s[k]) \in KidTruths(t, p)
  BY <1>2 DEF KidTruths, Childhood
<1>7. Truth(t, s[k]).offset + t.text_len[s[k]] = BytesOf(t, p - 1) + Total(s, t.text_len, k)
  <2>1. Truth(t, s[k]).offset = BytesOf(t, p - 1) + Total(s, t.text_len, k - 1)
    BY <1>5
  <2>2. BytesOf(t, p - 1) \in Nat
    BY TreeFacts
  <2>3. KidSums(t, s)
    BY KidTotals
  <2>4. /\ Total(s, t.text_len, k) = Total(s, t.text_len, k - 1) + t.text_len[s[k]]
        /\ t.text_len[s[k]] \in Nat
    BY <2>3 DEF KidSums
  <2>5. Total(s, t.text_len, k - 1) \in Nat
    <3>1. k - 1 \in 0 .. Len(s)
      BY <1>1 DEF KidList
    <3> QED
      BY <2>3, <3>1 DEF KidSums
  <2> QED
    BY <2>1, <2>2, <2>4, <2>5
<1> QED
  BY <1>2, <1>5, <1>6, <1>7

\* Every element but the root is a child of its parent.
LEMMA ChildNumber ==
    ASSUME NEW t, IsTree(t), NEW q \in 2 .. t.size
    PROVE  \E k \in 1 .. Len(t.kids[t.parent[q]]) :
               t.kids[t.parent[q]][k] = q /\ Truth(t, q).index = k - 1
<1>1. PICK p \in 1 .. t.size : p = t.parent[q]
  BY TreeFacts
<1>2. PICK s : s = t.kids[p] /\ KidList(t, p, s)
  BY Kidlists
<1>3. PICK k \in 1 .. Len(s) : s[k] = q
  BY <1>1, <1>2 DEF KidList
<1>4. Truth(t, s[k]).index = k - 1
  <2>1. Truth(t, s[k]) = [pos |-> s[k], index |-> k - 1,
                          offset |-> BytesOf(t, p - 1) + Total(s, t.text_len, k - 1)]
    BY <1>2, KidTruth
  <2> QED
    BY <2>1
<1> QED
  BY <1>1, <1>2, <1>3, <1>4

LEMMA TruthFields ==
    ASSUME NEW t, IsTree(t), NEW p \in 1 .. t.size
    PROVE  /\ Truth(t, p).pos = p /\ Truth(t, p).offset = BytesOf(t, p - 1)
           /\ Truth(t, p) \in [pos : 1 .. t.size, index : Nat, offset : Nat] /\ Truth(t, p) # None
           /\ p = 1 => Truth(t, p) = [pos |-> 1, index |-> 0, offset |-> 0]
<1>1. Truth(t, p).pos = p /\ Truth(t, p).offset = BytesOf(t, p - 1)
  BY DEF Truth
<1>2. p # 1 => Count(Childhood(t, t.parent[p]), p - 1) \in Nat
  <2>1. p - 1 \in Nat
    BY TreeFacts
  <2> QED
    BY <2>1, CountSteps
<1>3. BytesOf(t, p - 1) \in Nat
  BY TreeFacts
<1>4. Truth(t, p) \in [pos : 1 .. t.size, index : Nat, offset : Nat]
  BY <1>2, <1>3 DEF Truth
<1>5. Truth(t, p) # None
  <2>1. p # 0 /\ None.pos = 0
    BY DEF None
  <2> QED
    BY <1>1, <2>1
<1>6. p = 1 => Truth(t, p) = [pos |-> 1, index |-> 0, offset |-> 0]
  <2>1. SUFFICES ASSUME p = 1 PROVE Truth(t, p) = [pos |-> 1, index |-> 0, offset |-> 0]
    OBVIOUS
  <2>2. PICK s, l : s = [q \in 1 .. t.size |-> q] /\ l = OwnLens(t)
    OBVIOUS
  <2>3. s \in Seq(1 .. t.size) /\ \A x \in 1 .. t.size : l[x] \in Nat
    <3>1. \A x \in DOMAIN t.len : t.len[x] \in Nat
      BY DEF IsTree, Shaped
    <3>2. s \in Seq(1 .. t.size)
      BY <2>2, TreeFacts
    <3> QED
      BY <2>2, <3>1, <3>2 DEF OwnLens
  <2>4. SumsUp(s, l)
    BY <2>3, Totals
  <2>5. BytesOf(t, 0) = 0
    BY <2>2, <2>4 DEF SumsUp, BytesOf
  <2>6. p - 1 = 0
    BY <2>1
  <2> QED
    BY <2>1, <2>5, <2>6 DEF Truth
<1> QED
  BY <1>1, <1>4, <1>5, <1>6

----------------------------------------------------------------------------
(* Children, forwards and backwards *)

\* Where child number k of a node begins, for k = 0 the node itself.
KidOffset(p, k) == BytesOf(tree, p - 1) + Total(Kids(p), tree.text_len, k)

\* The true references to the children from an index on.
Ahead(p, first, refs) ==
    /\ refs \in Seq(KidTruths(tree, p)) /\ Len(refs) = Len(Kids(p)) - first
    /\ \A j \in 1 .. Len(refs) : refs[j] = Truth(tree, Kids(p)[first + j])

\* The true references to the children before an index, last one first.
Astern(p, end, refs) ==
    /\ refs \in Seq(KidTruths(tree, p)) /\ Len(refs) = end
    /\ \A j \in 1 .. Len(refs) : refs[j] = Truth(tree, Kids(p)[(end - j) + 1])

LEMMA ListType ==
    ASSUME NEW n \in Nat, NEW S, NEW s \in [1 .. n -> S]
    PROVE  s \in Seq(S) /\ Len(s) = n
OBVIOUS

LEMMA Forwards ==
    ASSUME IsTree(tree), NEW p \in Positions, NEW first \in Nat, first <= Len(Kids(p)),
           NEW offset, offset = KidOffset(p, first)
    PROVE  Ahead(p, first, ChildrenFrom(p, first, offset))
<1>1. PICK s, len, l, rest, refs :
          /\ s = Kids(p) /\ len = tree.text_len /\ l = Len(s)
          /\ rest = SubSeq(s, first + 1, l) /\ refs = ChildrenFrom(p, first, offset)
  OBVIOUS
<1>2. p \in 1 .. tree.size /\ s = tree.kids[p]
  BY <1>1 DEF Positions, Kids
<1>3. KidList(tree, p, s) /\ KidSums(tree, s)
  BY <1>2, Kidlists, KidTotals
<1>4. s \in Seq(2 .. tree.size) /\ l \in Nat /\ first <= l
  BY <1>1, <1>3 DEF KidList
<1>5. rest \in Seq(2 .. tree.size) /\ Len(rest) = l - first /\ \A j \in 1 .. l - first : rest[j] = s[first + j]
  <2>1. l <= Len(s) /\ first \in Nat /\ l \in Nat /\ first <= l
    BY <1>1, <1>4
  <2>2. PICK T : T = 2 .. tree.size
    OBVIOUS
  <2>3. s \in Seq(T) /\ rest = SubSeq(s, first + 1, l)
    BY <1>1, <1>4, <2>2
  <2>4. rest \in Seq(T) /\ Len(rest) = l - first /\ \A j \in 1 .. l - first : rest[j] = s[first + j]
    BY <2>1, <2>3, Part
  <2> QED
    BY <2>2, <2>4
<1>6. Lengths(2 .. tree.size, len)
  BY <1>1, TreeFacts DEF Lengths
<1>7. PICK m \in Nat : m = l - first
  BY <1>4
<1>8. DOMAIN rest = 1 .. m
  BY <1>5, <1>7
<1>9. refs = [j \in 1 .. m |-> [pos |-> rest[j], index |-> first + j - 1,
                                offset |-> offset + Total(rest, len, j - 1)]]
  BY <1>1, <1>8 DEF ChildrenFrom
<1>10. ASSUME NEW j \in 1 .. m
       PROVE  refs[j] = Truth(tree, s[first + j]) /\ refs[j] \in KidTruths(tree, p)
  <2>1. PICK k \in 1 .. l : k = first + j /\ rest[j] = s[k]
    BY <1>4, <1>5, <1>7
  <2>2. /\ Truth(tree, s[k]) = [pos |-> s[k], index |-> k - 1,
                                offset |-> BytesOf(tree, p - 1) + Total(s, len, k - 1)]
        /\ Truth(tree, s[k]) \in KidTruths(tree, p)
    <3>1. k \in 1 .. Len(s)
      BY <1>1, <2>1
    <3>2. /\ Truth(tree, s[k]) = [pos |-> s[k], index |-> k - 1,
                                  offset |-> BytesOf(tree, p - 1) + Total(s, tree.text_len, k - 1)]
          /\ Truth(tree, s[k]) \in KidTruths(tree, p)
      BY <1>2, <3>1, KidTruth
    <3>3. len = tree.text_len
      BY <1>1
    <3> QED
      BY <3>2, <3>3, Zenon
  <2>3. Total(s, len, first + (j - 1)) = Total(s, len, first) + Total(rest, len, j - 1)
    <3>1. PICK i \in Nat : i = j - 1
      OBVIOUS
    <3>2. first + i <= Len(s) /\ first <= Len(s)
      BY <1>1, <1>4, <1>7, <3>1
    <3>3. Total(s, len, first + i) = Total(s, len, first) + Total(SubSeq(s, first + 1, Len(s)), len, i)
      BY <1>4, <1>6, <3>2, TotalPart
    <3> QED
      BY <1>1, <3>1, <3>3
  <2>4. /\ Total(s, len, first) \in Nat /\ Total(rest, len, j - 1) \in Nat
        /\ BytesOf(tree, p - 1) \in Nat
    <3>1. SumsUp(rest, len)
      BY <1>5, <1>6, Totals DEF Lengths
    <3>2. first \in 0 .. Len(s) /\ j - 1 \in 0 .. Len(rest)
      BY <1>1, <1>4, <1>5, <1>7
    <3> QED
      BY <1>1, <1>2, <1>3, <3>1, <3>2, TreeFacts DEF SumsUp, KidSums
  <2>5. offset + Total(rest, len, j - 1) = BytesOf(tree, p - 1) + Total(s, len, k - 1)
    <3>1. offset = BytesOf(tree, p - 1) + Total(s, len, first)
      BY <1>1 DEF KidOffset
    <3>2. first + (j - 1) = k - 1
      BY <2>1
    <3> QED
      BY <2>3, <2>4, <3>1, <3>2
  <2>6. refs[j] = [pos |-> s[k], index |-> k - 1, offset |-> BytesOf(tree, p - 1) + Total(s, len, k - 1)]
    <3>1. first + j - 1 = k - 1
      BY <2>1
    <3> QED
      BY <1>9, <2>1, <2>5, <3>1
  <2> QED
    BY <2>1, <2>2, <2>6
<1>11. refs \in Seq(KidTruths(tree, p)) /\ Len(refs) = m
  <2>1. refs = [j \in 1 .. m |-> refs[j]]
    BY <1>9
  <2>2. \A j \in 1 .. m : refs[j] \in KidTruths(tree, p)
    BY <1>10
  <2>3. refs \in [1 .. m -> KidTruths(tree, p)]
    BY <2>1, <2>2
  <2> QED
    BY <2>3, ListType
<1>12. Ahead(p, first, refs)
  BY <1>1, <1>7, <1>10, <1>11 DEF Ahead
<1> QED
  BY <1>1, <1>12

LEMMA Backwards ==
    ASSUME IsTree(tree), NEW p \in Positions, NEW end \in Nat, end <= Len(Kids(p)),
           NEW offset, offset = KidOffset(p, end)
    PROVE  Astern(p, end, ChildrenTo(p, end, offset))
<1>1. PICK s, len, l, rest, refs :
          /\ s = Kids(p) /\ len = tree.text_len /\ l = Len(s)
          /\ rest = Reverse(SubSeq(s, 1, end)) /\ refs = ChildrenTo(p, end, offset)
  OBVIOUS
<1>2. p \in 1 .. tree.size /\ s = tree.kids[p]
  BY <1>1 DEF Positions, Kids
<1>3. KidList(tree, p, s) /\ KidSums(tree, s)
  BY <1>2, Kidlists, KidTotals
<1>4. s \in Seq(2 .. tree.size) /\ l \in Nat /\ end <= l
  BY <1>1, <1>3 DEF KidList
<1>5. Lengths(2 .. tree.size, len)
  BY <1>1, TreeFacts DEF Lengths
<1>6. /\ rest \in Seq(2 .. tree.size) /\ Len(rest) = end
      /\ \A i \in 1 .. end : rest[i] = s[(end - i) + 1]
      /\ \A n \in 0 .. end : Total(s, len, end) = Total(s, len, end - n) + Total(rest, len, n)
  <2>1. end <= Len(s)
    BY <1>1, <1>4
  <2>2. ASSUME NEW n \in Nat, n <= end
        PROVE  /\ rest \in Seq(2 .. tree.size) /\ Len(rest) = end
               /\ \A i \in 1 .. end : rest[i] = s[(end - i) + 1]
               /\ Total(s, len, end) = Total(s, len, end - n) + Total(rest, len, n)
    <3>1. PICK T : T = 2 .. tree.size /\ s \in Seq(T) /\ Lengths(T, len)
      BY <1>4, <1>5
    <3>2. PICK r : r = Reverse(SubSeq(s, 1, end)) /\ rest = r
      BY <1>1
    <3>3. /\ r \in Seq(T) /\ Len(r) = end
          /\ \A i \in 1 .. end : r[i] = s[(end - i) + 1]
          /\ Total(s, len, end) = Total(s, len, end - n) + Total(r, len, n)
      BY <2>1, <2>2, <3>1, <3>2, TotalReverse
    <3> QED
      BY <3>1, <3>2, <3>3
  <2>3. 0 \in Nat /\ 0 <= end
    OBVIOUS
  <2>4. /\ rest \in Seq(2 .. tree.size) /\ Len(rest) = end
        /\ \A i \in 1 .. end : rest[i] = s[(end - i) + 1]
    BY <2>2, <2>3
  <2>5. \A n \in 0 .. end : n \in Nat /\ n <= end
    OBVIOUS
  <2> QED
    BY <2>2, <2>4, <2>5
<1>7. DOMAIN rest = 1 .. end
  BY <1>6
<1>8. refs = [j \in 1 .. end |-> [pos |-> rest[j], index |-> end - j,
                                  offset |-> offset - Total(rest, len, j)]]
  BY <1>1, <1>7 DEF ChildrenTo
<1>9. ASSUME NEW j \in 1 .. end
      PROVE  refs[j] = Truth(tree, s[(end - j) + 1]) /\ refs[j] \in KidTruths(tree, p)
  <2>1. PICK k \in 1 .. l : k = (end - j) + 1 /\ rest[j] = s[k]
    BY <1>4, <1>6
  <2>2. /\ Truth(tree, s[k]) = [pos |-> s[k], index |-> k - 1,
                                offset |-> BytesOf(tree, p - 1) + Total(s, len, k - 1)]
        /\ Truth(tree, s[k]) \in KidTruths(tree, p)
    <3>1. k \in 1 .. Len(s)
      BY <1>1, <2>1
    <3>2. /\ Truth(tree, s[k]) = [pos |-> s[k], index |-> k - 1,
                                  offset |-> BytesOf(tree, p - 1) + Total(s, tree.text_len, k - 1)]
          /\ Truth(tree, s[k]) \in KidTruths(tree, p)
      BY <1>2, <3>1, KidTruth
    <3>3. len = tree.text_len
      BY <1>1
    <3> QED
      BY <3>2, <3>3, Zenon
  <2>3. Total(s, len, end) = Total(s, len, k - 1) + Total(rest, len, j)
    <3>1. j \in 0 .. end /\ end - j = k - 1
      BY <2>1
    <3> QED
      BY <1>6, <3>1
  <2>4. /\ Total(s, len, k - 1) \in Nat /\ Total(rest, len, j) \in Nat
        /\ BytesOf(tree, p - 1) \in Nat
    <3>1. SumsUp(rest, len)
      BY <1>5, <1>6, Totals DEF Lengths
    <3>2. k - 1 \in 0 .. Len(s) /\ j \in 0 .. Len(rest)
      BY <1>1, <1>4, <1>6, <2>1
    <3> QED
      BY <1>1, <1>2, <1>3, <3>1, <3>2, TreeFacts DEF SumsUp, KidSums
  <2>5. offset - Total(rest, len, j) = BytesOf(tree, p - 1) + Total(s, len, k - 1)
    <3>1. offset = BytesOf(tree, p - 1) + Total(s, len, end)
      BY <1>1 DEF KidOffset
    <3> QED
      BY <2>3, <2>4, <3>1
  <2>6. refs[j] = [pos |-> s[k], index |-> k - 1, offset |-> BytesOf(tree, p - 1) + Total(s, len, k - 1)]
    <3>1. end - j = k - 1
      BY <2>1
    <3> QED
      BY <1>8, <2>1, <2>5, <3>1
  <2> QED
    BY <2>1, <2>2, <2>6
<1>10. refs \in Seq(KidTruths(tree, p)) /\ Len(refs) = end
  <2>1. refs = [j \in 1 .. end |-> refs[j]]
    BY <1>8
  <2>2. \A j \in 1 .. end : refs[j] \in KidTruths(tree, p)
    BY <1>9
  <2>3. refs \in [1 .. end -> KidTruths(tree, p)]
    BY <2>1, <2>2
  <2> QED
    BY <2>3, ListType
<1>11. Astern(p, end, refs)
  BY <1>1, <1>9, <1>10 DEF Astern
<1> QED
  BY <1>1, <1>11

\* The first of a sequence, with or without the tokens.
LEMMA FirstOf ==
    ASSUME NEW S, NEW refs \in Seq(S)
    PROVE  /\ First(refs) \in S \cup {None} /\ First(filter_nodes(refs)) \in S \cup {None}
           /\ filter_nodes(refs) \in Seq(S)
<1>1. \A s \in Seq(S) : First(s) \in S \cup {None}
  <2>1. ASSUME NEW s \in Seq(S) PROVE First(s) \in S \cup {None}
    <3>1. CASE s = <<>>
      BY <3>1 DEF First
    <3>2. CASE s # <<>>
      <4>1. Head(s) \in S
        BY <3>2
      <4> QED
        BY <3>2, <4>1 DEF First
    <3> QED
      BY <3>1, <3>2
  <2> QED
    BY <2>1
<1>2. filter_nodes(refs) \in Seq(S)
  BY PickedElements DEF filter_nodes
<1> QED
  BY <1>1, <1>2

----------------------------------------------------------------------------
(* Neighbours *)

KidRefs(p) == KidTruths(tree, p) \cup {None}
SiblingRefs(p) == IF p = Root THEN {None} ELSE KidRefs(tree.parent[p])

\* What an element has in front of it and behind it, in its parent.
Placed(p, e, par) ==
    /\ par \in Positions /\ par = tree.parent[p] /\ p \in Childhood(tree, par)
    /\ e.index \in Nat /\ e.index + 1 <= Len(Kids(par))
    /\ e.offset = KidOffset(par, e.index) /\ End(e) = KidOffset(par, e.index + 1)
    /\ Kids(par)[e.index + 1] = p

LEMMA Places ==
    ASSUME IsTree(tree), NEW p \in Positions, NEW e, e = Truth(tree, p), p # Root
    PROVE  Placed(p, e, tree.parent[p])
<1>1. p \in 2 .. tree.size /\ p \in 1 .. tree.size
  BY TreeFacts DEF Positions, Root
<1>2. PICK par \in 1 .. tree.size : par = tree.parent[p]
  BY <1>1, TreeFacts
<1>3. PICK s : s = tree.kids[par] /\ s = Kids(par) /\ KidList(tree, par, s)
  BY <1>2, Kidlists DEF Kids
<1>4. PICK k \in 1 .. Len(s) : s[k] = p /\ e.index = k - 1
  <2>1. \E k \in 1 .. Len(tree.kids[tree.parent[p]]) :
            tree.kids[tree.parent[p]][k] = p /\ Truth(tree, p).index = k - 1
    BY <1>1, ChildNumber
  <2>2. tree.kids[tree.parent[p]] = s
    BY <1>2, <1>3
  <2> QED
    BY <2>1, <2>2
<1>5. /\ Truth(tree, s[k]) = [pos |-> s[k], index |-> k - 1,
                              offset |-> BytesOf(tree, par - 1) + Total(s, tree.text_len, k - 1)]
      /\ Truth(tree, s[k]).offset + tree.text_len[s[k]] = BytesOf(tree, par - 1) + Total(s, tree.text_len, k)
  <2>1. s = tree.kids[par]
    BY <1>3
  <2> QED
    BY <2>1, KidTruth
<1>6. e.pos = p /\ e.offset = KidOffset(par, k - 1) /\ End(e) = KidOffset(par, k)
  <2>1. e = [pos |-> p, index |-> k - 1,
             offset |-> BytesOf(tree, par - 1) + Total(s, tree.text_len, k - 1)]
    BY <1>4, <1>5
  <2>2. e.offset + tree.text_len[p] = BytesOf(tree, par - 1) + Total(s, tree.text_len, k)
    BY <1>4, <1>5
  <2>3. e.pos = p /\ e.offset = BytesOf(tree, par - 1) + Total(s, tree.text_len, k - 1)
    BY <2>1
  <2> QED
    BY <1>3, <2>2, <2>3 DEF KidOffset, End, TextLen
<1>7. k \in Nat /\ k - 1 \in Nat /\ (k - 1) + 1 = k /\ k <= Len(s)
  BY <1>3, <1>4 DEF KidList
<1>8. par \in Positions /\ p \in Childhood(tree, par)
  BY <1>1, <1>2 DEF Positions, Childhood
<1> QED
  BY <1>2, <1>3, <1>4, <1>6, <1>7, <1>8 DEF Placed

LEMMA Within ==
    ASSUME IsTree(tree), NEW p \in Positions, NEW e, e = Truth(tree, p)
    PROVE  /\ e.pos = p /\ e.offset = KidOffset(p, 0) /\ Len(Kids(p)) \in Nat
           /\ ~ IsToken(p) => End(e) = KidOffset(p, Len(Kids(p)))
<1>1. p \in 1 .. tree.size
  BY DEF Positions
<1>2. e.pos = p /\ e.offset = BytesOf(tree, p - 1) /\ BytesOf(tree, p - 1) \in Nat
  BY <1>1, TruthFields, TreeFacts
<1>3. PICK s : s = tree.kids[p] /\ s = Kids(p) /\ KidList(tree, p, s) /\ KidSums(tree, s)
  BY <1>1, Kidlists, KidTotals DEF Kids
<1>4. e.offset = KidOffset(p, 0)
  BY <1>2, <1>3 DEF KidOffset, KidSums
<1>5. ASSUME ~ IsToken(p) PROVE End(e) = KidOffset(p, Len(s))
  <2>1. p \in (1 .. tree.size) \ DOMAIN tree.len
    BY <1>1, <1>5 DEF IsToken
  <2>2. tree.text_len[p] = Total(s, tree.text_len, Len(s))
    BY <1>3, <2>1 DEF IsTree, Measured
  <2> QED
    BY <1>2, <1>3, <2>2 DEF End, TextLen, KidOffset
<1> QED
  BY <1>2, <1>3, <1>4, <1>5 DEF KidList

\* All the methods for a neighbour find nothing or a true reference.
LEMMA ChildrenTrue ==
    ASSUME IsTree(tree), NEW p \in Positions, NEW e, e = Truth(tree, p)
    PROVE  /\ FirstChild(e) \in KidRefs(p) /\ FirstChildOrToken(e) \in KidRefs(p)
           /\ ~ IsToken(p) => LastChild(e) \in KidRefs(p) /\ LastChildOrToken(e) \in KidRefs(p)
<1>1. /\ e.pos = p /\ e.offset = KidOffset(p, 0) /\ Len(Kids(p)) \in Nat
      /\ ~ IsToken(p) => End(e) = KidOffset(p, Len(Kids(p)))
  BY Within
<1>2. ChildrenFrom(p, 0, e.offset) \in Seq(KidTruths(tree, p))
  <2>1. 0 \in Nat /\ 0 <= Len(Kids(p))
    BY <1>1
  <2>2. Ahead(p, 0, ChildrenFrom(p, 0, e.offset))
    BY <1>1, <2>1, Forwards
  <2> QED
    BY <2>2 DEF Ahead
<1>3. FirstChild(e) \in KidRefs(p) /\ FirstChildOrToken(e) \in KidRefs(p)
  BY <1>1, <1>2, FirstOf DEF FirstChild, FirstChildOrToken, KidRefs
<1>4. ASSUME ~ IsToken(p) PROVE LastChild(e) \in KidRefs(p) /\ LastChildOrToken(e) \in KidRefs(p)
  <2>1. Len(Kids(p)) <= Len(Kids(p))
    BY <1>1
  <2>2. ChildrenTo(p, Len(Kids(p)), End(e)) \in Seq(KidTruths(tree, p))
    BY <1>1, <1>4, <2>1, Backwards DEF Astern
  <2> QED
    BY <1>1, <2>2, FirstOf DEF LastChild, LastChildOrToken, KidRefs
<1> QED
  BY <1>3, <1>4

LEMMA SiblingsTrue ==
    ASSUME IsTree(tree), NEW p \in Positions, NEW e, e = Truth(tree, p)
    PROVE  /\ NextSibling(e) \in SiblingRefs(p) /\ NextSiblingOrToken(e) \in SiblingRefs(p)
           /\ PrevSibling(e) \in SiblingRefs(p) /\ PrevSiblingOrToken(e) \in SiblingRefs(p)
           /\ p # Root =>
                  /\ NextChildAfter(tree.parent[p], e.index, End(e)) \in SiblingRefs(p)
                  /\ PrevChildBefore(tree.parent[p], e.index, e.offset) \in SiblingRefs(p)
<1>1. e.pos = p
  BY Within
<1>2. CASE p = Root
  BY <1>1, <1>2 DEF NextSibling, NextSiblingOrToken, PrevSibling, PrevSiblingOrToken, SiblingRefs
<1>3. CASE p # Root
  <2>1. PICK par, S : par = tree.parent[p] /\ S = KidTruths(tree, par) /\ Placed(p, e, par)
    BY <1>3, Places
  <2>2. ChildrenFrom(par, e.index + 1, End(e)) \in Seq(S)
    <3>1. /\ par \in Positions /\ e.index + 1 \in Nat /\ e.index + 1 <= Len(Kids(par))
          /\ End(e) = KidOffset(par, e.index + 1)
      BY <2>1 DEF Placed
    <3>2. Ahead(par, e.index + 1, ChildrenFrom(par, e.index + 1, End(e)))
      BY <3>1, Forwards
    <3> QED
      BY <2>1, <3>2 DEF Ahead
  <2>3. ChildrenTo(par, e.index, e.offset) \in Seq(S)
    <3>1. /\ par \in Positions /\ e.index \in Nat /\ e.index <= Len(Kids(par))
          /\ e.offset = KidOffset(par, e.index)
      <4>1. par \in Positions /\ e.index \in Nat /\ e.index + 1 <= Len(Kids(par))
        BY <2>1 DEF Placed
      <4>2. Len(Kids(par)) \in Nat
        BY <4>1, Within
      <4> QED
        BY <2>1, <4>1, <4>2 DEF Placed
    <3>2. Astern(par, e.index, ChildrenTo(par, e.index, e.offset))
      BY <3>1, Backwards
    <3> QED
      BY <2>1, <3>2 DEF Astern
  <2>4. SiblingRefs(p) = S \cup {None}
    BY <1>3, <2>1 DEF SiblingRefs, KidRefs
  <2>5. /\ First(ChildrenFrom(par, e.index + 1, End(e))) \in S \cup {None}
        /\ First(filter_nodes(ChildrenFrom(par, e.index + 1, End(e)))) \in S \cup {None}
    BY <2>2, FirstOf
  <2>6. /\ First(ChildrenTo(par, e.index, e.offset)) \in S \cup {None}
        /\ First(filter_nodes(ChildrenTo(par, e.index, e.offset))) \in S \cup {None}
    BY <2>3, FirstOf
  <2> QED
    BY <1>1, <1>3, <2>1, <2>4, <2>5, <2>6, Zenon
       DEF NextSibling, NextSiblingOrToken, PrevSibling, PrevSiblingOrToken,
           NextChildAfter, PrevChildBefore, NextChildOrTokenAfter, PrevChildOrTokenBefore
<1> QED
  BY <1>2, <1>3

----------------------------------------------------------------------------
(* Paths from neighbour to neighbour *)

Goes(next, S) == None \notin S /\ \A e \in S : next[e] \in S \cup {None}

Chain(path, first, next, S) ==
    /\ path \in Seq(S) /\ Len(path) \in Nat
    /\ first = None => path = <<>>
    /\ first # None => Len(path) > 0 /\ path[1] = first
    /\ \A i \in 1 .. Len(path) - 1 : path[i + 1] = next[path[i]]

LEMMA ExtendedChain ==
    ASSUME NEW S, NEW first \in S \cup {None}, NEW next, Goes(next, S),
           NEW path, Chain(path, first, next, S)
    PROVE  Chain(Extended(path, next), first, next, S)
<1>1. CASE path = <<>>
  BY <1>1 DEF Extended
<1>2. CASE path # <<>>
  <2>1. path \in Seq(S) /\ \A i \in 1 .. Len(path) - 1 : path[i + 1] = next[path[i]]
    BY DEF Chain
  <2>2. PICK m \in Nat \ {0} : m = Len(path)
    BY <1>2, <2>1
  <2>3. path[m] \in S /\ Last(path) = path[m]
    BY <2>1, <2>2 DEF Last
  <2>4. PICK e \in S \cup {None} : e = next[path[m]]
    BY <2>3 DEF Goes
  <2>5. CASE e = None
    BY <1>2, <2>3, <2>4, <2>5 DEF Extended
  <2>6. CASE e # None
    <3>1. PICK q : q = Append(path, e) /\ Extended(path, next) = q
      BY <1>2, <2>3, <2>4, <2>6 DEF Extended
    <3>2. e \in S
      BY <2>4, <2>6
    <3>3. q \in Seq(S) /\ Len(q) = m + 1 /\ q[m + 1] = e /\ \A i \in 1 .. m : q[i] = path[i]
      BY <2>1, <2>2, <3>1, <3>2, AppendProperties
    <3>4. first # None /\ path[1] = first
      BY <1>2 DEF Chain
    <3>5. ASSUME NEW i \in 1 .. Len(q) - 1 PROVE q[i + 1] = next[q[i]]
      <4>1. CASE i = m
        BY <2>2, <2>4, <3>3, <4>1
      <4>2. CASE i \in 1 .. m - 1
        <5>1. i \in 1 .. m /\ i + 1 \in 1 .. m
          BY <2>2, <4>2
        <5>2. path[i + 1] = next[path[i]]
          BY <2>1, <2>2, <4>2
        <5> QED
          BY <3>3, <5>1, <5>2
      <4>3. i = m \/ i \in 1 .. m - 1
        BY <2>2, <3>3
      <4> QED
        BY <4>1, <4>2, <4>3
    <3>6. 1 \in 1 .. m /\ Len(q) > 0 /\ Len(q) \in Nat
      BY <2>2, <3>3
    <3>7. Chain(q, first, next, S)
      BY <3>3, <3>4, <3>5, <3>6 DEF Chain
    <3> QED
      BY <3>1, <3>7
  <2> QED
    BY <2>5, <2>6
<1> QED
  BY <1>1, <1>2

\* The paths whose last is that of Successors, each one extending the one before.
Prolongs(P, first, next, n, S) ==
    /\ P[1] = IF first = None THEN <<>> ELSE <<first>>
    /\ \A i \in 2 .. n : P[i] = Extended(P[i - 1], next)
    /\ \A i \in 1 .. n : Chain(P[i], first, next, S)
    /\ Successors(first, next) = P[n]

LEMMA SuccessorsProlong ==
    ASSUME tree.size \in Nat \ {0}, NEW S, NEW first \in S \cup {None}, NEW next, Goes(next, S)
    PROVE  \E P : Prolongs(P, first, next, tree.size, S)
<1>1. PICK n, base, Q : /\ n = tree.size /\ n \in Nat \ {0} /\ Q = {q \in Seq(S) : Chain(q, first, next, S)}
                        /\ base = IF first = None THEN <<>> ELSE <<first>>
  OBVIOUS
<1>2. base \in Q
  <2>1. CASE first = None
    <3>1. base = <<>> /\ base \in Seq(S) /\ Len(base) = 0
      BY <1>1, <2>1
    <3> QED
      BY <1>1, <2>1, <3>1 DEF Chain
  <2>2. CASE first # None
    <3>1. base = <<first>> /\ base \in Seq(S) /\ Len(base) = 1 /\ base[1] = first
      BY <1>1, <2>2
    <3> QED
      BY <1>1, <2>2, <3>1 DEF Chain
  <2> QED
    BY <2>1, <2>2
<1>3. \A q \in Q : Extended(q, next) \in Q
  <2>1. ASSUME NEW q \in Q PROVE Extended(q, next) \in Q
    <3>1. Chain(Extended(q, next), first, next, S)
      BY <1>1, ExtendedChain
    <3>2. Extended(q, next) \in Seq(S)
      BY <3>1 DEF Chain
    <3> QED
      BY <1>1, <3>1, <3>2
  <2> QED
    BY <2>1
<1>4. PICK step : step = [i \in 1 .. n - 1 |-> [q \in Q |-> Extended(q, next)]]
  OBVIOUS
<1>5. step \in [1 .. n - 1 -> [Q -> Q]]
  BY <1>3, <1>4
<1>6. PICK f \in [0 .. n - 1 -> Q] : f[0] = base /\ \A i \in 1 .. n - 1 : f[i] = step[i][f[i - 1]]
  <2>1. n - 1 \in Nat
    BY <1>1
  <2>2. \E f : Recurs(f, n - 1, Q, base, step)
    BY <1>2, <1>5, <2>1, Recursion
  <2> QED
    BY <2>2 DEF Recurs
<1>7. \A i \in 1 .. n - 1 : f[i] = Extended(f[i - 1], next)
  <2>1. ASSUME NEW i \in 1 .. n - 1 PROVE f[i] = Extended(f[i - 1], next)
    <3>1. f[i] = step[i][f[i - 1]]
      BY <1>6
    <3>2. f[i - 1] \in Q
      <4>1. i - 1 \in 0 .. n - 1
        BY <1>1
      <4> QED
        BY <1>6, <4>1
    <3> QED
      BY <1>4, <3>1, <3>2
  <2> QED
    BY <2>1
<1>8. PICK h : h = [i \in 1 .. n |-> f[i - 1]]
  OBVIOUS
<1>9. h = [i \in 1 .. n |-> IF i = 1 THEN base ELSE Extended(h[i - 1], next)]
  <2>1. \A i \in 1 .. n : h[i] = IF i = 1 THEN base ELSE Extended(h[i - 1], next)
    <3>1. ASSUME NEW i \in 1 .. n PROVE h[i] = IF i = 1 THEN base ELSE Extended(h[i - 1], next)
      <4>1. CASE i = 1
        <5>1. h[i] = f[0]
          BY <1>8, <4>1
        <5> QED
          BY <1>6, <4>1, <5>1
      <4>2. CASE i # 1
        <5>1. i - 1 \in 1 .. n /\ i - 1 \in 1 .. n - 1
          BY <1>1, <4>2
        <5>2. h[i] = f[i - 1] /\ h[i - 1] = f[(i - 1) - 1]
          BY <1>8, <5>1
        <5> QED
          BY <1>7, <4>2, <5>1, <5>2
      <4> QED
        BY <4>1, <4>2
    <3> QED
      BY <3>1
  <2>2. h = [i \in 1 .. n |-> h[i]]
    BY <1>8
  <2> QED
    BY <2>1, <2>2, Zenon
<1>10. PICK P : P = CHOOSE g : g = [i \in 1 .. n |-> IF i = 1 THEN base ELSE Extended(g[i - 1], next)]
  OBVIOUS
<1>11. P = [i \in 1 .. n |-> IF i = 1 THEN base ELSE Extended(P[i - 1], next)]
  BY <1>9, <1>10, Zenon
<1>12. Successors(first, next) = P[n]
  BY <1>1, <1>10, Zenon DEF Successors
<1>13. PICK M : M = {i \in 0 .. n - 1 : P[i + 1] \in Q}
  OBVIOUS
<1>14. 0 \in M
  BY <1>1, <1>2, <1>11, <1>13
<1>15. ASSUME NEW i \in 1 .. n - 1, i - 1 \in M PROVE i \in M
  <2>1. i + 1 \in 1 .. n /\ i + 1 # 1 /\ (i + 1) - 1 = i /\ (i - 1) + 1 = i
    BY <1>1
  <2>2. P[i + 1] = Extended(P[i], next)
    BY <1>11, <2>1
  <2>3. P[i] \in Q
    BY <1>13, <1>15, <2>1
  <2> QED
    BY <1>3, <1>13, <2>2, <2>3
<1>16. \A i \in 0 .. n - 1 : i \in M
  <2>1. n - 1 \in Nat
    BY <1>1
  <2> QED
    BY <1>14, <1>15, <2>1, UpTo
<1>17. ASSUME NEW i \in 1 .. n PROVE Chain(P[i], first, next, S)
  <2>1. i - 1 \in 0 .. n - 1 /\ (i - 1) + 1 = i
    BY <1>1
  <2>2. P[i] \in Q
    BY <1>13, <1>16, <2>1
  <2> QED
    BY <1>1, <2>2
<1>18. P[1] = base /\ \A i \in 2 .. n : P[i] = Extended(P[i - 1], next)
  BY <1>1, <1>11
<1> QED
  BY <1>1, <1>12, <1>17, <1>18 DEF Prolongs

LEMMA SuccessorsChain ==
    ASSUME tree.size \in Nat \ {0}, NEW S, NEW first \in S \cup {None}, NEW next, Goes(next, S)
    PROVE  Chain(Successors(first, next), first, next, S)
<1>1. PICK P : Prolongs(P, first, next, tree.size, S)
  BY SuccessorsProlong
<1>2. tree.size \in 1 .. tree.size
  OBVIOUS
<1> QED
  BY <1>1, <1>2 DEF Prolongs

----------------------------------------------------------------------------
(* Child slots *)

\* What is in a slot is true, and the slots above it are filled.
Core ==
    /\ IsTree(tree)
    /\ \A p \in Positions : slot[p] # None => slot[p] = Truth(tree, p)
    /\ \A p \in 2 .. tree.size : slot[p] # None => slot[tree.parent[p]] # None
    /\ slot[Root] # None

\* The parent has its slot filled, or gets it filled along with refs.
Open(r, refs) ==
    \/ r.pos = Root
    \/ slot[tree.parent[r.pos]] # None
    \/ Truth(tree, tree.parent[r.pos]) \in refs

Meets(refs) == \A r \in refs \ {None} : r \in Truths(tree) /\ Open(r, refs)

LEMMA TruthSlot ==
    ASSUME IsTree(tree), NEW r \in Truths(tree)
    PROVE  /\ r.pos \in Positions /\ r = Truth(tree, r.pos) /\ SlotOf(r) = r.pos /\ r # None
           /\ r \in Refs
<1>1. PICK p \in 1 .. tree.size : r = Truth(tree, p)
  BY DEF Truths
<1>2. r.pos = p /\ p \in Positions /\ r # None /\ r \in Refs
  BY <1>1, TruthFields DEF Positions, Refs
<1>3. SlotOf(r) = p
  <2>1. CASE p = Root
    BY <1>2, <2>1 DEF SlotOf
  <2>2. CASE p # Root
    <3>1. Placed(p, r, tree.parent[p])
      BY <1>1, <1>2, <2>2, Places
    <3> QED
      BY <1>2, <2>2, <3>1 DEF SlotOf, Placed
  <2> QED
    BY <2>1, <2>2
<1> QED
  BY <1>1, <1>2, <1>3

\* Slots are filled with what they hold already or what belongs there.
Grown(refs) ==
    /\ tree' = tree /\ status' = "ok" /\ Core'
    /\ \A p \in Positions : slot[p] # None => slot'[p] # None
    /\ \A r \in refs \ {None} : SlotOf(r) \in Positions /\ SlotOf(r) = r.pos /\ slot'[r.pos] # None

LEMMA VisitGrows ==
    ASSUME Core, NEW refs, Meets(refs), Visit(refs)
    PROVE  Grown(refs)
<1>1. PICK met, For : /\ met = refs \ {None}
                      /\ For = [p \in Positions |-> {r \in met : SlotOf(r) = p}]
  OBVIOUS
<1>2. \A r \in met : /\ r \in Truths(tree) /\ Open(r, refs) /\ r.pos \in Positions
                     /\ r = Truth(tree, r.pos) /\ SlotOf(r) = r.pos /\ r # None
  BY <1>1, TruthSlot DEF Core, Meets
<1>3. /\ tree' = tree
      /\ slot' = [p \in Positions |->
                     IF slot[p] = None /\ For[p] # {} THEN CHOOSE r \in For[p] : TRUE ELSE slot[p]]
      /\ status' = IF \A r \in met : slot'[SlotOf(r)].offset = r.offset THEN "ok" ELSE "panicked"
  BY <1>1 DEF Visit
<1>4. ASSUME NEW p \in Positions
      PROVE  /\ slot'[p] # None <=> slot[p] # None \/ Truth(tree, p) \in met
             /\ slot'[p] # None => slot'[p] = Truth(tree, p)
  <2>1. For[p] = {r \in met : SlotOf(r) = p}
    BY <1>1
  <2>2. CASE slot[p] = None /\ For[p] # {}
    <3>1. PICK r : r = slot'[p] /\ r \in For[p]
      <4>1. slot'[p] = CHOOSE r \in For[p] : TRUE
        BY <1>3, <2>2
      <4> QED
        BY <2>2, <4>1
    <3>2. r \in met /\ r = Truth(tree, p) /\ r # None
      BY <1>2, <2>1, <3>1
    <3> QED
      BY <3>1, <3>2
  <2>3. CASE ~ (slot[p] = None /\ For[p] # {})
    <3>1. slot'[p] = slot[p]
      BY <1>3, <2>3
    <3>2. Truth(tree, p) \in met => For[p] # {}
      <4>1. ASSUME Truth(tree, p) \in met PROVE For[p] # {}
        <5>1. Truth(tree, p).pos = p
          BY DEF Truth
        <5> QED
          BY <1>2, <2>1, <4>1, <5>1
      <4> QED
        BY <4>1
    <3> QED
      BY <2>3, <3>1, <3>2 DEF Core
  <2> QED
    BY <2>2, <2>3
<1>5. status' = "ok"
  <2>1. \A r \in met : slot'[SlotOf(r)].offset = r.offset
    BY <1>2, <1>4
  <2> QED
    BY <1>3, <2>1
<1>6. Positions' = Positions /\ tree' = tree
  BY <1>3 DEF Positions
<1>7. \A p \in 2 .. tree.size : slot'[p] # None => slot'[tree.parent[p]] # None
  <2>1. ASSUME NEW p \in 2 .. tree.size, slot'[p] # None PROVE slot'[tree.parent[p]] # None
    <3>1. p \in Positions /\ tree.parent[p] \in Positions /\ p # Root
      BY TreeFacts DEF Core, Positions, Root
    <3>2. CASE slot[p] # None
      BY <1>4, <3>1, <3>2 DEF Core
    <3>3. CASE slot[p] = None
      <4>1. Truth(tree, p) \in met
        BY <1>4, <2>1, <3>1, <3>3
      <4>2. Open(Truth(tree, p), refs) /\ Truth(tree, p).pos = p
        BY <1>2, <4>1 DEF Truth
      <4>3. slot[tree.parent[p]] # None \/ Truth(tree, tree.parent[p]) \in refs
        BY <3>1, <4>2 DEF Open
      <4>4. Truth(tree, tree.parent[p]) # None
        BY <3>1, TruthFields DEF Core, Positions
      <4> QED
        BY <1>1, <1>4, <3>1, <4>3, <4>4
    <3> QED
      BY <3>2, <3>3
  <2> QED
    BY <2>1
<1>8. slot'[Root] # None
  <2>1. Root \in Positions
    BY TreeFacts DEF Core, Positions, Root
  <2> QED
    BY <1>4, <2>1 DEF Core
<1>9. Core'
  BY <1>4, <1>6, <1>7, <1>8 DEF Core
<1> QED
  BY <1>1, <1>2, <1>3, <1>4, <1>5, <1>9 DEF Grown

OpenRefs == {r \in Truths(tree) : Open(r, {})}
KnownRefs == {Truth(tree, p) : p \in {q \in Positions : slot[q] # None}}

LEMMA Kin ==
    ASSUME Core, NEW p \in Positions
    PROVE  /\ KidRefs(p) \subseteq Truths(tree) \cup {None}
           /\ SiblingRefs(p) \subseteq Truths(tree) \cup {None}
           /\ \A r \in KidRefs(p) \ {None} : r.pos # Root /\ tree.parent[r.pos] = p
           /\ \A r \in SiblingRefs(p) \ {None} :
                  p # Root /\ r.pos # Root /\ tree.parent[r.pos] = tree.parent[p]
<1>1. ASSUME NEW q \in Positions
      PROVE  /\ KidRefs(q) \subseteq Truths(tree) \cup {None}
             /\ \A r \in KidRefs(q) \ {None} : r.pos # Root /\ tree.parent[r.pos] = q
  <2>1. ASSUME NEW r \in KidTruths(tree, q)
        PROVE  r \in Truths(tree) /\ r.pos # Root /\ tree.parent[r.pos] = q
    <3>1. PICK x \in Childhood(tree, q) : r = Truth(tree, x)
      BY DEF KidTruths
    <3>2. x \in 2 .. tree.size /\ tree.parent[x] = q
      BY DEF Childhood
    <3>3. x \in 1 .. tree.size /\ x # 1
      BY <3>2, TreeFacts DEF Core
    <3>4. r.pos = x
      BY <3>1 DEF Truth
    <3> QED
      BY <3>1, <3>2, <3>3, <3>4 DEF Truths, Root
  <2> QED
    BY <2>1 DEF KidRefs
<1>2. CASE p = Root
  BY <1>1, <1>2 DEF SiblingRefs
<1>3. CASE p # Root
  <2>1. tree.parent[p] \in Positions
    BY <1>3, TreeFacts DEF Core, Positions, Root
  <2> QED
    BY <1>1, <1>3, <2>1 DEF SiblingRefs
<1> QED
  BY <1>2, <1>3

\* Around an element with its slot filled, every slot can be filled.
LEMMA KinOpen ==
    ASSUME Core, NEW p \in Positions, slot[p] # None
    PROVE  /\ Truth(tree, p) \in OpenRefs /\ KidRefs(p) \subseteq OpenRefs \cup {None}
           /\ SiblingRefs(p) \subseteq OpenRefs \cup {None}
<1>1. p # Root => slot[tree.parent[p]] # None
  BY TreeFacts DEF Core, Positions, Root
<1>2. Truth(tree, p) \in Truths(tree) /\ Truth(tree, p).pos = p
  BY DEF Truths, Positions, Truth
<1>3. Truth(tree, p) \in OpenRefs
  BY <1>1, <1>2 DEF OpenRefs, Open
<1>4. KidRefs(p) \subseteq OpenRefs \cup {None}
  BY Kin DEF OpenRefs, Open
<1>5. SiblingRefs(p) \subseteq OpenRefs \cup {None}
  BY <1>1, Kin DEF OpenRefs, Open
<1> QED
  BY <1>3, <1>4, <1>5

\* A path can be followed if each of its elements is near the one before it.
Steps(path) ==
    \A j \in 1 .. Len(path) :
        \/ path[j] \in OpenRefs
        \/ /\ j > 1
           /\ path[j] \in KidRefs(path[j - 1].pos) \cup SiblingRefs(path[j - 1].pos)

LEMMA PathMeets ==
    ASSUME Core, NEW path \in Seq(Truths(tree)), Steps(path), NEW i \in 0 .. Len(path)
    PROVE  /\ Meets(ToSet(SubSeq(path, 1, i)))
           /\ \A j \in 1 .. i : path[j] \in ToSet(SubSeq(path, 1, i))
<1>1. PICK S, n : S = ToSet(SubSeq(path, 1, i)) /\ n = Len(path) /\ n \in Nat
  <2>1. Len(path) \in Nat
    OBVIOUS
  <2> QED
    BY <2>1, Zenon
<1>2. S = {path[j] : j \in 1 .. i}
  <2>1. PICK s : s = SubSeq(path, 1, i) /\ s \in Seq(Truths(tree)) /\ Len(s) = i /\ \A j \in 1 .. i : s[j] = path[j]
    <3>1. PICK T, a : T = Truths(tree) /\ path \in Seq(T) /\ a = 0 /\ a <= i /\ i <= Len(path) /\ i \in Nat
      BY <1>1
    <3>2. /\ SubSeq(path, a + 1, i) \in Seq(T) /\ Len(SubSeq(path, a + 1, i)) = i - a
          /\ \A j \in 1 .. i - a : SubSeq(path, a + 1, i)[j] = path[a + j]
      BY <3>1, Part
    <3>3. a + 1 = 1 /\ i - a = i /\ \A j \in 1 .. i : a + j = j
      BY <3>1
    <3>4. PICK s : s = SubSeq(path, a + 1, i)
      OBVIOUS
    <3>5. s = SubSeq(path, 1, i)
      BY <3>3, <3>4, Zenon
    <3>6. s \in Seq(Truths(tree)) /\ Len(s) = i /\ \A j \in 1 .. i : s[j] = path[j]
      BY <3>1, <3>2, <3>3, <3>4
    <3> QED
      BY <3>5, <3>6, Zenon
  <2>2. DOMAIN s = 1 .. i
    BY <2>1
  <2> QED
    BY <1>1, <2>1, <2>2 DEF ToSet
<1>3. \A j \in 1 .. i : j \in 1 .. n /\ path[j] \in Truths(tree)
  BY <1>1
<1>4. PICK M : M = {j \in 0 .. i : j > 0 => Open(path[j], S)}
  OBVIOUS
<1>5. 0 \in M
  BY <1>4
<1>6. ASSUME NEW j \in 1 .. i, j - 1 \in M PROVE j \in M
  <2>1. PICK r : r = path[j] /\ r \in Truths(tree)
    BY <1>3
  <2>2. CASE r \in OpenRefs
    <3>1. Open(r, S)
      BY <2>2 DEF OpenRefs, Open
    <3> QED
      BY <1>4, <2>1, <3>1
  <2>3. CASE r \notin OpenRefs
    <3>1. j > 1 /\ r \in KidRefs(path[j - 1].pos) \cup SiblingRefs(path[j - 1].pos)
      BY <1>1, <1>3, <2>1, <2>3 DEF Steps
    <3>2. j - 1 \in 1 .. i
      BY <3>1
    <3>3. PICK q : /\ q = path[j - 1] /\ q \in S /\ q.pos \in Positions /\ q = Truth(tree, q.pos)
                   /\ Open(q, S)
      <4>1. path[j - 1] \in Truths(tree) /\ path[j - 1] \in S
        BY <1>2, <1>3, <3>2
      <4>2. Open(path[j - 1], S)
        BY <1>4, <1>6, <3>2
      <4> QED
        BY <4>1, <4>2, TruthSlot DEF Core
    <3>4. r # None
      BY <2>1, TruthSlot DEF Core
    <3>5. CASE r \in KidRefs(q.pos)
      <4>1. tree.parent[r.pos] = q.pos
        BY <3>3, <3>4, <3>5, Kin
      <4>2. Open(r, S)
        BY <3>3, <4>1 DEF Open
      <4> QED
        BY <1>4, <2>1, <4>2
    <3>6. CASE r \in SiblingRefs(q.pos)
      <4>1. tree.parent[r.pos] = tree.parent[q.pos] /\ q.pos # Root
        BY <3>3, <3>4, <3>6, Kin
      <4>2. Open(r, S)
        BY <3>3, <4>1 DEF Open
      <4> QED
        BY <1>4, <2>1, <4>2
    <3> QED
      BY <3>1, <3>3, <3>5, <3>6
  <2> QED
    BY <2>2, <2>3
<1>7. \A j \in 1 .. i : Open(path[j], S)
  <2>1. \A j \in 0 .. i : j \in M
    <3>1. i \in Nat
      BY <1>1
    <3> QED
      BY <1>5, <1>6, <3>1, UpTo
  <2> QED
    BY <1>4, <2>1
<1>8. Meets(S)
  BY <1>2, <1>3, <1>7 DEF Meets
<1>9. \A j \in 1 .. i : path[j] \in S
  BY <1>2
<1> QED
  BY <1>1, <1>8, <1>9

\* So can the path by which `next' goes on to neighbours.
GoesNear(next, S) ==
    \A e \in S : next[e] \in OpenRefs \cup KidRefs(e.pos) \cup SiblingRefs(e.pos)

LEMMA ChainSteps ==
    ASSUME Core, NEW S \in SUBSET Truths(tree), NEW first, first \in OpenRefs \cup {None}, NEW next,
           GoesNear(next, S), NEW path, Chain(path, first, next, S)
    PROVE  path \in Seq(Truths(tree)) /\ Steps(path)
<1>1. path \in Seq(S) /\ path \in Seq(Truths(tree))
  BY DEF Chain
<1>2. ASSUME NEW j \in 1 .. Len(path)
      PROVE  \/ path[j] \in OpenRefs
             \/ /\ j > 1
                /\ path[j] \in KidRefs(path[j - 1].pos) \cup SiblingRefs(path[j - 1].pos)
  <2>1. CASE j = 1
    <3>1. path # <<>>
      BY <1>1, <2>1
    <3>2. first # None /\ path[1] = first
      BY <3>1 DEF Chain
    <3> QED
      BY <2>1, <3>2
  <2>2. CASE j # 1
    <3>1. PICK i \in 1 .. Len(path) - 1 : i = j - 1 /\ i + 1 = j
      BY <1>1, <2>2
    <3>2. path[j] = next[path[i]] /\ path[i] \in S
      BY <1>1, <3>1 DEF Chain
    <3>3. next[path[i]] \in OpenRefs \cup KidRefs(path[i].pos) \cup SiblingRefs(path[i].pos)
      BY <3>2 DEF GoesNear
    <3> QED
      BY <2>2, <3>1, <3>2, <3>3
  <2> QED
    BY <2>1, <2>2
<1> QED
  BY <1>1, <1>2 DEF Steps

\* Among the true references, a function that finds children or siblings goes on.
LEMMA SuccessorsSteps ==
    ASSUME Core, NEW first, first \in OpenRefs \cup {None}, NEW next,
           \A p \in Positions : next[Truth(tree, p)] \in KidRefs(p) \cup SiblingRefs(p)
    PROVE  /\ Chain(Successors(first, next), first, next, Truths(tree))
           /\ Successors(first, next) \in Seq(Truths(tree)) /\ Steps(Successors(first, next))
<1>1. PICK S : S = Truths(tree)
  OBVIOUS
<1>2. \A e \in S : next[e] \in KidRefs(e.pos) \cup SiblingRefs(e.pos) /\ e.pos \in Positions /\ e # None
  BY <1>1, TruthSlot DEF Core
<1>3. Goes(next, S) /\ GoesNear(next, S)
  BY <1>1, <1>2, Kin DEF Goes, GoesNear
<1>4. tree.size \in Nat \ {0}
  BY TreeFacts DEF Core
<1>5. first \in S \cup {None}
  BY <1>1 DEF OpenRefs
<1>6. Chain(Successors(first, next), first, next, S)
  BY <1>3, <1>4, <1>5, SuccessorsChain
<1>7. S \in SUBSET Truths(tree)
  BY <1>1
<1> QED
  BY <1>1, <1>3, <1>6, <1>7, ChainSteps

LEMMA SiblingPaths ==
    ASSUME Core, NEW e \in OpenRefs, NEW direction
    PROVE  /\ SiblingsWithTokens(e, direction) \in Seq(Truths(tree))
           /\ Steps(SiblingsWithTokens(e, direction))
           /\ SiblingNodes(e, direction) \in Seq(Truths(tree)) /\ Steps(SiblingNodes(e, direction))
<1>1. PICK f, g : /\ f = [r \in Refs |-> SiblingOrToken(r, direction)]
                  /\ g = [r \in Refs |-> IF direction = "Next" THEN NextSibling(r) ELSE PrevSibling(r)]
  OBVIOUS
<1>2. ASSUME NEW p \in Positions
      PROVE  f[Truth(tree, p)] \in SiblingRefs(p) /\ g[Truth(tree, p)] \in SiblingRefs(p)
  <2>1. PICK r : r = Truth(tree, p) /\ r \in Refs
    BY TruthFields DEF Core, Refs, Positions
  <2>2. f[r] = SiblingOrToken(r, direction) /\ g[r] = IF direction = "Next" THEN NextSibling(r) ELSE PrevSibling(r)
    BY <1>1, <2>1
  <2>3. /\ NextSibling(r) \in SiblingRefs(p) /\ NextSiblingOrToken(r) \in SiblingRefs(p)
        /\ PrevSibling(r) \in SiblingRefs(p) /\ PrevSiblingOrToken(r) \in SiblingRefs(p)
    BY <2>1, SiblingsTrue DEF Core
  <2> QED
    BY <2>1, <2>2, <2>3 DEF SiblingOrToken
<1>3. Successors(e, f) \in Seq(Truths(tree)) /\ Steps(Successors(e, f))
  BY <1>2, SuccessorsSteps
<1>4. Successors(e, g) \in Seq(Truths(tree)) /\ Steps(Successors(e, g))
  BY <1>2, SuccessorsSteps
<1> QED
  BY <1>1, <1>3, <1>4, Zenon DEF SiblingsWithTokens, SiblingNodes

\* A descent ends at a token, or with None.
LEMMA Descents ==
    ASSUME Core, NEW e \in OpenRefs \cup {None}, NEW d, d = FirstToken(e) \/ d = LastToken(e)
    PROVE  Meets(ToSet(d)) /\ Last(d) \in ToSet(d)
<1>1. PICK f, g : /\ f = [r \in Refs |-> IF IsToken(r.pos) THEN None ELSE FirstChildOrToken(r)]
                  /\ g = [r \in Refs |-> IF IsToken(r.pos) THEN None ELSE LastChildOrToken(r)]
  OBVIOUS
<1>2. PICK next : (next = f \/ next = g) /\ d = Descent(e, next)
  BY <1>1, Zenon DEF FirstToken, LastToken
<1>3. ASSUME NEW p \in Positions PROVE next[Truth(tree, p)] \in KidRefs(p)
  <2>1. PICK r : r = Truth(tree, p) /\ r \in Refs /\ r.pos = p
    BY TruthFields DEF Core, Refs, Positions
  <2>2. /\ f[r] = IF IsToken(p) THEN None ELSE FirstChildOrToken(r)
        /\ g[r] = IF IsToken(p) THEN None ELSE LastChildOrToken(r)
    BY <1>1, <2>1
  <2>3. FirstChildOrToken(r) \in KidRefs(p) /\ (~ IsToken(p) => LastChildOrToken(r) \in KidRefs(p))
    BY <2>1, ChildrenTrue DEF Core
  <2>4. None \in KidRefs(p)
    BY DEF KidRefs
  <2> QED
    BY <1>2, <2>1, <2>2, <2>3, <2>4
<1>4. PICK path : path = Successors(e, next) /\ path \in Seq(Truths(tree)) /\ Steps(path)
  BY <1>3, SuccessorsSteps
<1>5. PICK n \in Nat : n = Len(path)
  BY <1>4
<1>6. Meets(ToSet(path)) /\ ToSet(path) = {path[j] : j \in 1 .. n}
  <2>1. path = SubSeq(path, 1, n) /\ n \in 0 .. Len(path) /\ DOMAIN path = 1 .. n
    BY <1>4, <1>5
  <2>2. Meets(ToSet(SubSeq(path, 1, n)))
    BY <1>4, <2>1, PathMeets
  <2> QED
    BY <2>1, <2>2 DEF ToSet
<1>7. CASE d = path /\ path # <<>>
  <2>1. n > 0 /\ Last(path) = path[n]
    BY <1>4, <1>5, <1>7 DEF Last
  <2>2. n \in 1 .. n
    BY <1>5, <2>1
  <2>3. Last(path) \in ToSet(path)
    BY <1>6, <2>1, <2>2
  <2> QED
    BY <1>6, <1>7, <2>3, Zenon
<1>8. CASE d = Append(path, None)
  <2>1. PICK U : U = Truths(tree) \cup {None}
    OBVIOUS
  <2>2. path \in Seq(U) /\ None \in U
    BY <1>4, <2>1
  <2>3. d \in Seq(U) /\ Len(d) = n + 1 /\ d[n + 1] = None /\ \A j \in 1 .. n : d[j] = path[j]
    BY <1>5, <1>8, <2>2, AppendProperties
  <2>4. DOMAIN d = 1 .. n + 1
    BY <2>3
  <2>5. ToSet(d) = ToSet(path) \cup {None}
    <3>1. \A j \in 1 .. n + 1 : j \in 1 .. n \/ j = n + 1
      BY <1>5
    <3>2. 1 .. n \subseteq 1 .. n + 1 /\ n + 1 \in 1 .. n + 1
      BY <1>5
    <3> QED
      BY <1>6, <2>3, <2>4, <3>1, <3>2 DEF ToSet
  <2>6. Last(d) = None
    BY <2>3 DEF Last
  <2>7. Meets(ToSet(d))
    BY <1>6, <2>5 DEF Meets, Open
  <2> QED
    BY <2>5, <2>6, <2>7
<1>9. (d = path /\ path # <<>>) \/ d = Append(path, None)
  BY <1>2, <1>4, Zenon DEF Descent
<1> QED
  BY <1>7, <1>8, <1>9, Zenon

\* The ancestors have their slots filled.
LEMMA AncestorPaths ==
    ASSUME Core, NEW p \in Positions, slot[p] # None, NEW e, e = Truth(tree, p)
    PROVE  /\ AncestorNodes(e) \in Seq(KnownRefs) /\ KnownRefs \subseteq OpenRefs
           /\ AncestorNodes(e) \in Seq(Truths(tree)) /\ Steps(AncestorNodes(e))
<1>1. PICK S, f : S = KnownRefs /\ f = [r \in Refs |-> Parent(r)]
  OBVIOUS
<1>2. S \subseteq OpenRefs /\ S \subseteq Truths(tree) /\ None \notin S
  <2>1. ASSUME NEW r \in S PROVE r \in OpenRefs /\ r \in Truths(tree) /\ r # None
    <3>1. PICK q \in Positions : slot[q] # None /\ r = Truth(tree, q)
      BY <1>1 DEF KnownRefs
    <3>2. r \in OpenRefs
      BY <3>1, KinOpen
    <3>3. r \in Truths(tree)
      BY <3>1 DEF Truths, Positions
    <3> QED
      BY <3>2, <3>3, TruthSlot DEF Core
  <2> QED
    BY <2>1
<1>3. ASSUME NEW q \in Positions, slot[q] # None, NEW r, r = Truth(tree, q)
      PROVE  Parent(r) \in S \cup {None} /\ f[r] = Parent(r) /\ r \in S
  <2>1. r \in Refs /\ r.pos = q
    BY <1>3, TruthFields DEF Core, Refs, Positions
  <2>2. Parent(r) \in S \cup {None}
    <3>1. CASE q = Root
      BY <2>1, <3>1 DEF Parent
    <3>2. CASE q # Root
      <4>1. PICK x \in Positions : x = tree.parent[q] /\ slot[x] # None
        BY <1>3, <3>2, TreeFacts DEF Core, Positions, Root
      <4>2. slot[x] \in S
        BY <1>1, <4>1 DEF KnownRefs, Core
      <4> QED
        BY <2>1, <3>2, <4>1, <4>2 DEF Parent
    <3> QED
      BY <3>1, <3>2
  <2> QED
    BY <1>1, <1>3, <2>1, <2>2 DEF KnownRefs
<1>4. Goes(f, S) /\ GoesNear(f, S)
  <2>1. ASSUME NEW r \in S PROVE f[r] \in S \cup {None}
    <3>1. PICK q \in Positions : slot[q] # None /\ r = Truth(tree, q)
      BY <1>1 DEF KnownRefs
    <3> QED
      BY <1>3, <3>1
  <2>2. \A r \in S : None \in KidRefs(r.pos)
    BY DEF KidRefs
  <2> QED
    BY <1>2, <2>1, <2>2 DEF Goes, GoesNear
<1>5. PICK first : first = (IF IsToken(e.pos) THEN Parent(e) ELSE e) /\ first \in S \cup {None}
  BY <1>3
<1>6. PICK path : path = Successors(first, f) /\ Chain(path, first, f, S)
  <2>1. tree.size \in Nat \ {0}
    BY TreeFacts DEF Core
  <2> QED
    BY <1>4, <1>5, <2>1, SuccessorsChain
<1>7. path = AncestorNodes(e)
  BY <1>1, <1>5, <1>6, Zenon DEF AncestorNodes
<1>8. path \in Seq(Truths(tree)) /\ Steps(path)
  BY <1>2, <1>4, <1>5, <1>6, ChainSteps
<1>9. path \in Seq(S)
  BY <1>6 DEF Chain
<1> QED
  BY <1>1, <1>2, <1>7, <1>8, <1>9

LEMMA AncestorsFound ==
    ASSUME Core, NEW p \in Positions, slot[p] # None, NEW e, e = Truth(tree, p), NEW direction
    PROVE  AncestorsFind(e, direction) \in OpenRefs \cup {None}
<1>1. PICK S, path, found :
          /\ S = OpenRefs \cup {None} /\ path = AncestorNodes(e)
          /\ found = [i \in DOMAIN path |-> SiblingOrToken(path[i], direction)]
  OBVIOUS
<1>2. path \in Seq(KnownRefs)
  BY <1>1, AncestorPaths
<1>3. ASSUME NEW r \in KnownRefs PROVE SiblingOrToken(r, direction) \in S
  <2>1. PICK q \in Positions : slot[q] # None /\ r = Truth(tree, q)
    BY DEF KnownRefs
  <2>2. NextSiblingOrToken(r) \in SiblingRefs(q) /\ PrevSiblingOrToken(r) \in SiblingRefs(q)
    BY <2>1, SiblingsTrue DEF Core
  <2>3. SiblingRefs(q) \subseteq S
    BY <1>1, <2>1, KinOpen
  <2> QED
    BY <2>2, <2>3 DEF SiblingOrToken
<1>4. PICK n \in Nat : n = Len(path) /\ DOMAIN path = 1 .. n
  BY <1>2
<1>5. found \in Seq(S)
  <2>1. found = [i \in 1 .. n |-> SiblingOrToken(path[i], direction)]
    BY <1>1, <1>4, Zenon
  <2>2. \A i \in 1 .. n : SiblingOrToken(path[i], direction) \in S
    BY <1>2, <1>3, <1>4
  <2>3. found \in [1 .. n -> S]
    BY <2>1, <2>2
  <2> QED
    BY <2>3, ListType
<1>6. Picked(found, {i \in DOMAIN found : found[i] # None}) \in Seq(S)
  BY <1>5, PickedElements
<1>7. First(Picked(found, {i \in DOMAIN found : found[i] # None})) \in S
  <2>1. First(Picked(found, {i \in DOMAIN found : found[i] # None})) \in S \cup {None}
    BY <1>6, FirstOf
  <2> QED
    BY <1>1, <2>1
<1> QED
  BY <1>1, <1>7, Zenon DEF AncestorsFind

LEMMA TokenPaths ==
    ASSUME Core, NEW p \in Positions, slot[p] # None, NEW e, e = Truth(tree, p),
           NEW d, d = NextToken(e) \/ d = PrevToken(e) \/ d = FirstToken(e) \/ d = LastToken(e)
    PROVE  Meets(ToSet(d)) /\ Last(d) \in ToSet(d)
<1>1. NextSiblingOrToken(e) \in OpenRefs \cup {None} /\ PrevSiblingOrToken(e) \in OpenRefs \cup {None}
  <2>1. NextSiblingOrToken(e) \in SiblingRefs(p) /\ PrevSiblingOrToken(e) \in SiblingRefs(p)
    BY SiblingsTrue DEF Core
  <2> QED
    BY <2>1, KinOpen
<1>2. PICK next, prev :
          /\ next = (IF NextSiblingOrToken(e) # None THEN NextSiblingOrToken(e) ELSE AncestorsFind(e, "Next"))
          /\ prev = (IF PrevSiblingOrToken(e) # None THEN PrevSiblingOrToken(e) ELSE AncestorsFind(e, "Prev"))
  OBVIOUS
<1>3. next \in OpenRefs \cup {None} /\ prev \in OpenRefs \cup {None} /\ e \in OpenRefs \cup {None}
  BY <1>1, <1>2, AncestorsFound, KinOpen
<1>4. NextToken(e) = FirstToken(next) /\ PrevToken(e) = LastToken(prev)
  BY <1>2, Zenon DEF NextToken, PrevToken
<1> QED
  BY <1>3, <1>4, Descents

----------------------------------------------------------------------------
(* Children with tokens, and the search for a range *)

LEMMA KidsOfTruth ==
    ASSUME IsTree(tree), NEW p \in Positions, NEW e, e = Truth(tree, p), NEW kids, kids = ChildrenWithTokens(e)
    PROVE  /\ kids \in Seq(KidTruths(tree, p)) /\ DOMAIN kids = 1 .. Len(Kids(p)) /\ Len(kids) = Len(Kids(p))
           /\ Len(Kids(p)) \in Nat /\ \A j \in 1 .. Len(Kids(p)) : kids[j] = Truth(tree, Kids(p)[j])
           /\ ToSet(kids) \subseteq KidTruths(tree, p)
<1>1. e.pos = p /\ e.offset = KidOffset(p, 0) /\ Len(Kids(p)) \in Nat
  BY Within
<1>2. Ahead(p, 0, kids)
  <2>1. kids = ChildrenFrom(p, 0, e.offset)
    BY <1>1 DEF ChildrenWithTokens
  <2>2. 0 \in Nat /\ 0 <= Len(Kids(p))
    BY <1>1
  <2> QED
    BY <1>1, <2>1, <2>2, Forwards
<1>3. kids \in Seq(KidTruths(tree, p)) /\ Len(kids) = Len(Kids(p))
  BY <1>1, <1>2 DEF Ahead
<1>4. DOMAIN kids = 1 .. Len(Kids(p))
  BY <1>3
<1>5. \A j \in 1 .. Len(Kids(p)) : kids[j] = Truth(tree, Kids(p)[j])
  <2>1. \A j \in 1 .. Len(Kids(p)) : kids[j] = Truth(tree, Kids(p)[0 + j]) /\ 0 + j = j
    BY <1>2, <1>3 DEF Ahead
  <2> QED
    BY <2>1
<1>6. ToSet(kids) \subseteq KidTruths(tree, p)
  BY <1>3, <1>4 DEF ToSet
<1> QED
  BY <1>1, <1>3, <1>4, <1>5, <1>6

\* The first of the elements that are picked is one of them.
LEMMA PickedFirst ==
    ASSUME NEW T, NEW s \in Seq(T), NEW places
    PROVE  First(Picked(s, places)) \in ToSet(s) \cup {None}
<1>1. PICK t : t = Picked(s, places) /\ t \in Seq(T) /\ ToSet(t) \subseteq ToSet(s)
  <2>1. /\ Picked(s, places) \in Seq(T)
        /\ ToSet(Picked(s, places)) = {s[i] : i \in {j \in 1 .. Len(s) : j \in places}}
    BY PickedElements
  <2>2. ToSet(Picked(s, places)) \subseteq ToSet(s)
    <3>1. ToSet(s) = {s[i] : i \in 1 .. Len(s)}
      BY DEF ToSet
    <3> QED
      BY <2>1, <3>1
  <2> QED
    BY <2>1, <2>2, Zenon
<1>2. CASE t = <<>>
  BY <1>1, <1>2 DEF First
<1>3. CASE t # <<>>
  <2>1. First(t) = t[1] /\ 1 \in DOMAIN t
    BY <1>1, <1>3 DEF First
  <2> QED
    BY <1>1, <2>1 DEF ToSet
<1> QED
  BY <1>2, <1>3

LEMMA CoveringMeets ==
    ASSUME Core, NEW p \in Positions, slot[p] # None, NEW e, e = Truth(tree, p), NEW from, NEW to,
           NEW path, path = Covering(e, from, to)
    PROVE  Meets(FoundBy(path)) /\ Last(path) \in FoundBy(path) \cup {e} /\ Last(path) \in Truths(tree)
<1>1. PICK f : f = [r \in Refs |-> ChildCovering(r, from, to)]
  OBVIOUS
<1>2. ASSUME NEW q \in Positions
      PROVE  /\ f[Truth(tree, q)] \in ToSet(ChildrenWithTokens(Truth(tree, q))) \cup {None}
             /\ f[Truth(tree, q)] \in KidRefs(q)
             /\ IsToken(q) => f[Truth(tree, q)] = None
  <2>1. PICK r : r = Truth(tree, q) /\ r \in Refs /\ r.pos = q
    BY TruthFields DEF Core, Refs, Positions
  <2>2. PICK kids : kids = ChildrenWithTokens(r)
    OBVIOUS
  <2>3. kids \in Seq(KidTruths(tree, q)) /\ ToSet(kids) \subseteq KidTruths(tree, q)
    BY <2>1, <2>2, KidsOfTruth DEF Core
  <2>4. First(Picked(kids, {i \in DOMAIN kids : Covers(kids[i], from, to)})) \in ToSet(kids) \cup {None}
    BY <2>3, PickedFirst
  <2>5. f[r] = IF IsToken(q) THEN None
               ELSE First(Picked(kids, {i \in DOMAIN kids : Covers(kids[i], from, to)}))
    <3>1. f[r] = ChildCovering(r, from, to)
      BY <1>1, <2>1
    <3> QED
      BY <2>1, <2>2, <3>1, Zenon DEF ChildCovering
  <2> QED
    BY <2>1, <2>2, <2>3, <2>4, <2>5 DEF KidRefs
<1>3. e \in OpenRefs /\ e # None
  BY KinOpen, TruthFields DEF Core, Positions
<1>4. /\ Chain(path, e, f, Truths(tree)) /\ path \in Seq(Truths(tree))
  <2>1. path = Successors(e, f)
    BY <1>1, Zenon DEF Covering
  <2>2. \A q \in Positions : f[Truth(tree, q)] \in KidRefs(q) \cup SiblingRefs(q)
    BY <1>2
  <2> QED
    BY <1>3, <2>1, <2>2, SuccessorsSteps
<1>5. PICK n : n = Len(path) /\ n \in Nat /\ n > 0 /\ path[1] = e
  BY <1>3, <1>4 DEF Chain
<1>6. \A i \in 1 .. n : path[i] \in Truths(tree) /\ path[i].pos \in Positions /\ path[i] = Truth(tree, path[i].pos)
  BY <1>4, <1>5, TruthSlot DEF Core
<1>7. DOMAIN path = 1 .. n
  BY <1>4, <1>5
<1>8. PICK F : F = FoundBy(path)
  OBVIOUS
<1>9. \A c : c \in F <=> \E i \in 1 .. n : /\ ~ IsToken(path[i].pos)
                                           /\ c \in ToSet(ChildrenWithTokens(path[i]))
                                           /\ i < n => c.pos <= path[i + 1].pos
  BY <1>5, <1>7, <1>8 DEF FoundBy
<1>10. \A i \in 1 .. n : path[i] \in F \cup {e}
  <2>1. ASSUME NEW i \in 1 .. n, i # 1 PROVE path[i] \in F
    <3>1. PICK j \in 1 .. n - 1 : j = i - 1 /\ j + 1 = i
      BY <1>5, <2>1
    <3>2. path[i] = f[path[j]] /\ j \in 1 .. n /\ j < n
      BY <1>4, <1>5, <3>1 DEF Chain
    <3>3. path[i] # None /\ path[i].pos \in Positions
      BY <1>6, TruthSlot DEF Core
    <3>4. ~ IsToken(path[j].pos) /\ path[i] \in ToSet(ChildrenWithTokens(path[j]))
      BY <1>2, <1>6, <3>2, <3>3
    <3>5. path[i].pos <= path[j + 1].pos
      <4>1. path[i].pos \in Int
        BY <3>3, TreeFacts DEF Core, Positions
      <4> QED
        BY <3>1, <4>1
    <3> QED
      BY <1>9, <3>2, <3>4, <3>5
  <2> QED
    BY <1>5, <2>1
<1>11. Meets(F)
  <2>1. ASSUME NEW c \in F PROVE c \in Truths(tree) /\ Open(c, F)
    <3>1. PICK i \in 1 .. n : c \in ToSet(ChildrenWithTokens(path[i]))
      BY <1>9
    <3>2. PICK q \in Positions : q = path[i].pos /\ path[i] = Truth(tree, q)
      BY <1>6
    <3>3. c \in KidTruths(tree, q)
      BY <3>1, <3>2, KidsOfTruth DEF Core
    <3>4. c \in Truths(tree) /\ tree.parent[c.pos] = q
      <4>1. PICK x \in Childhood(tree, q) : c = Truth(tree, x)
        BY <3>3 DEF KidTruths
      <4>2. x \in 1 .. tree.size /\ tree.parent[x] = q /\ c.pos = x
        BY <4>1, TreeFacts DEF Core, Childhood, Truth
      <4> QED
        BY <4>1, <4>2 DEF Truths
    <3>5. Truth(tree, q) \in F \/ slot[q] # None
      <4>1. path[i] = e => q = p
        BY <3>2 DEF Truth
      <4> QED
        BY <1>10, <3>2, <4>1
    <3> QED
      BY <3>4, <3>5 DEF Open
  <2> QED
    BY <2>1 DEF Meets
<1>12. Last(path) = path[n] /\ n \in 1 .. n
  BY <1>5 DEF Last
<1> QED
  BY <1>6, <1>8, <1>10, <1>11, <1>12

----------------------------------------------------------------------------
(* The search for an offset *)

\* Whatever reference a child is found from, it is further back in the tree.
Behind(r) == {x \in Refs : x.pos > r.pos}

LEMMA TouchingBehind ==
    ASSUME IsTree(tree), NEW r \in Refs, NEW offset
    PROVE  /\ ChildrenWithTokens(r) \in Seq(Behind(r)) /\ Touching(r, offset) \in Seq(Behind(r))
           /\ Len(Touching(r, offset)) \in Nat
<1>1. PICK p, s, l, len, a : /\ p = r.pos /\ p \in 1 .. tree.size /\ s = Kids(p) /\ l = Len(s)
                             /\ len = tree.text_len /\ a = 0
  BY DEF Refs, Positions
<1>2. KidList(tree, p, s) /\ r.offset \in Nat
  BY <1>1, Kidlists DEF Refs, Kids
<1>3. s \in Seq(2 .. tree.size) /\ l \in Nat /\ \A k \in 1 .. l : s[k] \in 2 .. tree.size /\ s[k] > p
  BY <1>1, <1>2 DEF KidList
<1>4. PICK rest : rest = SubSeq(s, a + 1, l)
  OBVIOUS
<1>5. rest \in Seq(2 .. tree.size) /\ Len(rest) = l /\ \A k \in 1 .. l : rest[k] \in 2 .. tree.size /\ rest[k] > p
  <2>1. PICK T : T = 2 .. tree.size
    OBVIOUS
  <2>2. s \in Seq(T) /\ a \in Nat /\ l \in Nat /\ a <= l /\ l <= Len(s)
    BY <1>1, <1>3, <2>1
  <2>3. rest \in Seq(T) /\ Len(rest) = l - a /\ \A j \in 1 .. l - a : rest[j] = s[a + j]
    BY <1>4, <2>2, Part
  <2>4. l - a = l /\ \A j \in 1 .. l : a + j = j
    BY <1>1, <1>3
  <2> QED
    BY <1>3, <2>1, <2>3, <2>4
<1>6. SumsUp(rest, len)
  <2>1. \A x \in 2 .. tree.size : len[x] \in Nat
    BY <1>1, TreeFacts
  <2> QED
    BY <1>5, <2>1, Totals
<1>7. PICK kids : kids = ChildrenWithTokens(r)
  OBVIOUS
<1>8. kids = [j \in 1 .. l |-> [pos |-> rest[j], index |-> a + j - 1,
                                offset |-> r.offset + Total(rest, len, j - 1)]]
  <2>1. DOMAIN rest = 1 .. l
    BY <1>5
  <2>2. kids = ChildrenFrom(p, a, r.offset)
    BY <1>1, <1>7 DEF ChildrenWithTokens
  <2> QED
    BY <1>1, <1>4, <2>1, <2>2 DEF ChildrenFrom
<1>9. \A j \in 1 .. l : kids[j] \in Behind(r)
  <2>1. ASSUME NEW j \in 1 .. l PROVE kids[j] \in Behind(r)
    <3>1. j - 1 \in 0 .. Len(rest) /\ a + j - 1 \in Nat
      BY <1>1, <1>3, <1>5
    <3>2. Total(rest, len, j - 1) \in Nat
      BY <1>6, <3>1 DEF SumsUp
    <3>3. rest[j] \in Positions /\ rest[j] > p
      BY <1>5, TreeFacts DEF Positions
    <3>4. r.offset + Total(rest, len, j - 1) \in Nat
      BY <1>2, <3>2
    <3> QED
      BY <1>1, <1>8, <3>1, <3>3, <3>4 DEF Behind, Refs
  <2> QED
    BY <2>1
<1>10. kids \in Seq(Behind(r))
  <2>1. kids \in [1 .. l -> Behind(r)]
    BY <1>8, <1>9
  <2> QED
    BY <1>3, <2>1, ListType
<1>11. Touching(r, offset) \in Seq(Behind(r))
  BY <1>7, <1>10, PickedElements DEF Touching
<1>12. Len(Touching(r, offset)) \in Nat
  BY <1>11
<1> QED
  BY <1>7, <1>10, <1>11, <1>12

MetBy(offset) ==
    CHOOSE met : met =
        [r \in Refs |->
            IF IsToken(r.pos) \/ IsEmpty(r) THEN {}
            ELSE LET touching == Touching(r, offset) IN
                 ToSet(ChildrenWithTokens(r)) \cup UNION {met[touching[i]] : i \in DOMAIN touching}]

MetFrom(r, met, offset) ==
    IF IsToken(r.pos) \/ IsEmpty(r) THEN {}
    ELSE ToSet(ChildrenWithTokens(r)) \cup
             UNION {met[Touching(r, offset)[i]] : i \in DOMAIN Touching(r, offset)}

\* The rank by which the searches end.
LEMMA RefRank ==
    ASSUME IsTree(tree), NEW rank, rank = [r \in Refs |-> tree.size - r.pos]
    PROVE  /\ tree.size \in Nat /\ rank \in [Refs -> 0 .. tree.size]
           /\ \A r \in Refs : \A x \in Behind(r) : x \in Refs /\ rank[x] < rank[r]
<1>1. PICK n \in Nat : n = tree.size
  BY TreeFacts
<1>2. \A r \in Refs : r.pos \in 1 .. n
  BY <1>1 DEF Refs, Positions
<1>3. \A r \in Refs : n - r.pos \in 0 .. n
  BY <1>2
<1>4. rank \in [Refs -> 0 .. n]
  BY <1>1, <1>3
<1>5. ASSUME NEW r \in Refs, NEW x \in Behind(r) PROVE x \in Refs /\ rank[x] < rank[r]
  <2>1. x \in Refs /\ x.pos > r.pos
    BY DEF Behind
  <2>2. r.pos \in 1 .. n /\ x.pos \in 1 .. n
    BY <1>2, <2>1
  <2>3. n - x.pos < n - r.pos
    BY <2>1, <2>2
  <2> QED
    BY <1>1, <2>1, <2>3
<1> QED
  BY <1>1, <1>4, <1>5

LEMMA MetSteps ==
    ASSUME IsTree(tree), NEW offset
    PROVE  \A r \in Refs : MetBy(offset)[r] = MetFrom(r, MetBy(offset), offset)
<1>1. PICK D, V, rank : D = Refs /\ V = SUBSET Refs /\ rank = [r \in Refs |-> tree.size - r.pos]
  OBVIOUS
<1>2. PICK step : step = [r \in D |-> [f \in [D -> V] |-> MetFrom(r, f, offset)]]
  OBVIOUS
<1>3. ASSUME NEW r \in D
      PROVE  /\ DOMAIN Touching(r, offset) = 1 .. Len(Touching(r, offset))
             /\ \A i \in DOMAIN Touching(r, offset) : /\ Touching(r, offset)[i] \in D
                                                      /\ rank[Touching(r, offset)[i]] < rank[r]
             /\ ToSet(ChildrenWithTokens(r)) \subseteq D
  <2>1. PICK t, kids : /\ t = Touching(r, offset) /\ t \in Seq(Behind(r))
                       /\ kids = ChildrenWithTokens(r) /\ kids \in Seq(Behind(r))
    BY <1>1, TouchingBehind
  <2>2. \A x \in Behind(r) : x \in D /\ rank[x] < rank[r]
    BY <1>1, RefRank
  <2>3. ToSet(kids) \subseteq Behind(r)
    BY <2>1 DEF ToSet
  <2>4. DOMAIN t = 1 .. Len(t) /\ \A i \in DOMAIN t : t[i] \in Behind(r)
    BY <2>1
  <2> QED
    BY <2>1, <2>2, <2>3, <2>4
<1>4. \A r \in D : \A f \in [D -> V] : MetFrom(r, f, offset) \in V
  <2>1. ASSUME NEW r \in D, NEW f \in [D -> V] PROVE MetFrom(r, f, offset) \in V
    <3>1. \A i \in DOMAIN Touching(r, offset) : f[Touching(r, offset)[i]] \subseteq D
      BY <1>1, <1>3
    <3> QED
      BY <1>1, <1>3, <3>1 DEF MetFrom
  <2> QED
    BY <2>1
<1>5. step \in [D -> [[D -> V] -> V]]
  BY <1>2, <1>4
<1>6. \A r \in D : \A f, g \in [D -> V] :
          (\A d \in D : rank[d] < rank[r] => f[d] = g[d]) => step[r][f] = step[r][g]
  <2>1. ASSUME NEW r \in D, NEW f \in [D -> V], NEW g \in [D -> V],
               \A d \in D : rank[d] < rank[r] => f[d] = g[d]
        PROVE  step[r][f] = step[r][g]
    <3>1. \A i \in DOMAIN Touching(r, offset) : f[Touching(r, offset)[i]] = g[Touching(r, offset)[i]]
      BY <1>3, <2>1
    <3>2. MetFrom(r, f, offset) = MetFrom(r, g, offset)
      BY <3>1 DEF MetFrom
    <3> QED
      BY <1>2, <3>2
  <2> QED
    BY <2>1
<1>7. PICK f \in [D -> V] : \A r \in D : f[r] = step[r][f]
  <2>1. Ranked(step, rank, D, tree.size, V)
    <3>1. tree.size \in Nat /\ rank \in [D -> 0 .. tree.size]
      BY <1>1, RefRank
    <3> QED
      BY <1>5, <1>6, <3>1 DEF Ranked
  <2>2. {} \in V
    BY <1>1
  <2> QED
    BY <2>1, <2>2, RankRecursion
<1>8. f = [r \in D |-> MetFrom(r, f, offset)]
  <2>1. \A r \in D : f[r] = MetFrom(r, f, offset)
    BY <1>2, <1>7
  <2>2. f = [r \in D |-> f[r]]
    BY <1>7
  <2> QED
    BY <2>1, <2>2, Zenon
<1>9. PICK P : P = MetBy(offset)
  OBVIOUS
<1>10. P = [r \in D |-> MetFrom(r, P, offset)]
  <2>1. P = CHOOSE met : met = [r \in D |-> MetFrom(r, met, offset)]
    BY <1>1, <1>9, Zenon DEF MetBy, MetFrom
  <2> QED
    BY <1>8, <2>1, Zenon
<1> QED
  BY <1>1, <1>9, <1>10, Zenon

SearchBy(offset) ==
    CHOOSE search : search =
        [r \in Refs |->
            LET touching == Touching(r, offset)
                results == [i \in DOMAIN touching |-> search[touching[i]]]
            IN  IF IsToken(r.pos) THEN <<r>>
                ELSE IF IsEmpty(r) THEN <<>>
                ELSE IF Len(touching) = 1 THEN results[1]
                ELSE IF Len(touching) = 2 /\ Len(results[1]) = 1 /\ Len(results[2]) = 1
                THEN results[1] \o results[2]
                ELSE Unreachable]

SearchFrom(r, results, count) ==
    IF IsToken(r.pos) THEN <<r>>
    ELSE IF IsEmpty(r) THEN <<>>
    ELSE IF count = 1 THEN results[1]
    ELSE IF count = 2 /\ Len(results[1]) = 1 /\ Len(results[2]) = 1 THEN results[1] \o results[2]
    ELSE Unreachable

Results(search, touching) == [i \in DOMAIN touching |-> search[touching[i]]]

LEMMA SearchSteps ==
    ASSUME IsTree(tree), NEW offset
    PROVE  \A r \in Refs :
               SearchBy(offset)[r] =
                   SearchFrom(r, Results(SearchBy(offset), Touching(r, offset)), Len(Touching(r, offset)))
<1>1. PICK D, U, V, rank : /\ D = Refs /\ U = Refs \cup {None} /\ V = Seq(U)
                           /\ rank = [r \in Refs |-> tree.size - r.pos]
  OBVIOUS
<1>2. PICK step : step = [r \in D |-> [f \in [D -> V] |->
                     SearchFrom(r, Results(f, Touching(r, offset)), Len(Touching(r, offset)))]]
  OBVIOUS
<1>3. ASSUME NEW r \in D
      PROVE  /\ DOMAIN Touching(r, offset) = 1 .. Len(Touching(r, offset))
             /\ \A i \in DOMAIN Touching(r, offset) : /\ Touching(r, offset)[i] \in D
                                                      /\ rank[Touching(r, offset)[i]] < rank[r]
  <2>1. PICK t : t = Touching(r, offset) /\ t \in Seq(Behind(r))
    BY <1>1, TouchingBehind
  <2>2. \A x \in Behind(r) : x \in D /\ rank[x] < rank[r]
    BY <1>1, RefRank
  <2>3. DOMAIN t = 1 .. Len(t) /\ \A i \in DOMAIN t : t[i] \in Behind(r)
    BY <2>1
  <2> QED
    BY <2>1, <2>2, <2>3
<1>4. \A r \in D : \A f \in [D -> V] :
          SearchFrom(r, Results(f, Touching(r, offset)), Len(Touching(r, offset))) \in V
  <2>1. ASSUME NEW r \in D, NEW f \in [D -> V],
               NEW c, c = Len(Touching(r, offset)), NEW w, w = Results(f, Touching(r, offset))
        PROVE  SearchFrom(r, w, c) \in V
    <3>1. \A i \in 1 .. c : w[i] \in Seq(U)
      BY <1>1, <1>3, <2>1 DEF Results
    <3>2. <<r>> \in Seq(U) /\ <<>> \in Seq(U) /\ Unreachable \in Seq(U)
      BY <1>1 DEF Unreachable
    <3>3. c = 1 => w[1] \in Seq(U)
      BY <3>1
    <3>4. c = 2 => w[1] \in Seq(U) /\ w[2] \in Seq(U)
      BY <3>1
    <3>5. c = 2 => w[1] \o w[2] \in Seq(U)
      BY <3>4
    <3> QED
      BY <1>1, <3>2, <3>3, <3>5, Zenon DEF SearchFrom
  <2> QED
    BY <2>1
<1>5. step \in [D -> [[D -> V] -> V]]
  BY <1>2, <1>4
<1>6. \A r \in D : \A f, g \in [D -> V] :
          (\A d \in D : rank[d] < rank[r] => f[d] = g[d]) => step[r][f] = step[r][g]
  <2>1. ASSUME NEW r \in D, NEW f \in [D -> V], NEW g \in [D -> V],
               \A d \in D : rank[d] < rank[r] => f[d] = g[d]
        PROVE  step[r][f] = step[r][g]
    <3>1. \A i \in DOMAIN Touching(r, offset) : f[Touching(r, offset)[i]] = g[Touching(r, offset)[i]]
      BY <1>3, <2>1
    <3>2. Results(f, Touching(r, offset)) = Results(g, Touching(r, offset))
      BY <3>1 DEF Results
    <3> QED
      BY <1>2, <3>2
  <2> QED
    BY <2>1
<1>7. PICK f \in [D -> V] : \A r \in D : f[r] = step[r][f]
  <2>1. Ranked(step, rank, D, tree.size, V)
    <3>1. tree.size \in Nat /\ rank \in [D -> 0 .. tree.size]
      BY <1>1, RefRank
    <3> QED
      BY <1>5, <1>6, <3>1 DEF Ranked
  <2>2. <<>> \in V
    BY <1>1
  <2> QED
    BY <2>1, <2>2, RankRecursion
<1>8. f = [r \in D |-> SearchFrom(r, Results(f, Touching(r, offset)), Len(Touching(r, offset)))]
  <2>1. \A r \in D : f[r] = SearchFrom(r, Results(f, Touching(r, offset)), Len(Touching(r, offset)))
    BY <1>2, <1>7
  <2>2. f = [r \in D |-> f[r]]
    BY <1>7
  <2> QED
    BY <2>1, <2>2, Zenon
<1>9. PICK P : P = SearchBy(offset)
  OBVIOUS
<1>10. P = [r \in D |-> SearchFrom(r, Results(P, Touching(r, offset)), Len(Touching(r, offset)))]
  <2>1. P = CHOOSE h : h = [r \in D |-> SearchFrom(r, Results(h, Touching(r, offset)), Len(Touching(r, offset)))]
    BY <1>1, <1>9, Zenon DEF SearchBy, SearchFrom, Results
  <2> QED
    BY <1>8, <2>1, Zenon
<1> QED
  BY <1>1, <1>9, <1>10, Zenon

\* From a true reference, the search meets true references, each with the one
\* it is found from.
LEMMA PathTrue ==
    ASSUME IsTree(tree), NEW offset
    PROVE  \A p \in Positions : \A m \in MetBy(offset)[Truth(tree, p)] :
               /\ m \in Truths(tree)
               /\ tree.parent[m.pos] = p \/ Truth(tree, tree.parent[m.pos]) \in MetBy(offset)[Truth(tree, p)]
<1> DEFINE Good(p) == \A m \in MetBy(offset)[Truth(tree, p)] :
               /\ m \in Truths(tree)
               /\ tree.parent[m.pos] = p \/ Truth(tree, tree.parent[m.pos]) \in MetBy(offset)[Truth(tree, p)]
<1>1. PICK n : n = tree.size /\ n \in Nat /\ Positions = 1 .. n
  BY TreeFacts DEF Positions
<1>2. PICK M : M = {i \in 0 .. n : \A p \in 1 .. n : n - p < i => Good(p)}
  OBVIOUS
<1> HIDE DEF Good
<1>3. 0 \in M
  BY <1>1, <1>2
<1>4. ASSUME NEW i \in 1 .. n, i - 1 \in M PROVE i \in M
  <2>1. ASSUME NEW p \in 1 .. n, n - p < i PROVE Good(p)
    <3>1. PICK r, met : r = Truth(tree, p) /\ r \in Refs /\ r.pos = p /\ met = MetBy(offset) /\ p \in Positions
      BY <1>1, TruthFields DEF Refs, Positions
    <3>2. PICK kids, t : kids = ChildrenWithTokens(r) /\ t = Touching(r, offset)
      OBVIOUS
    <3>3. ToSet(kids) \subseteq KidTruths(tree, p) /\ kids \in Seq(KidTruths(tree, p))
      BY <3>1, <3>2, KidsOfTruth
    <3>4. \A c \in KidTruths(tree, p) :
              \E q \in 1 .. n : c = Truth(tree, q) /\ c.pos = q /\ tree.parent[q] = p /\ n - q < i - 1
      <4>1. ASSUME NEW c \in KidTruths(tree, p)
            PROVE  \E q \in 1 .. n : c = Truth(tree, q) /\ c.pos = q /\ tree.parent[q] = p /\ n - q < i - 1
        <5>1. PICK q \in Childhood(tree, p) : c = Truth(tree, q)
          BY DEF KidTruths
        <5>2. q \in 2 .. n /\ tree.parent[q] = p /\ p < q
          BY <1>1, <5>1, TreeFacts DEF Childhood
        <5>3. q \in 1 .. n /\ n - q < i - 1 /\ c.pos = q
          BY <1>1, <2>1, <5>1, <5>2 DEF Truth
        <5> QED
          BY <5>1, <5>2, <5>3
      <4> QED
        BY <4>1
    <3>5. t \in Seq(KidTruths(tree, p)) /\ ToSet(t) \subseteq ToSet(kids) /\ DOMAIN t = 1 .. Len(t)
      <4>1. PICK places : t = Picked(kids, places)
        BY <3>2 DEF Touching
      <4>2. t \in Seq(KidTruths(tree, p)) /\ ToSet(t) = {kids[j] : j \in {k \in 1 .. Len(kids) : k \in places}}
        BY <3>3, <4>1, PickedElements
      <4>3. ToSet(kids) = {kids[j] : j \in 1 .. Len(kids)}
        BY <3>3 DEF ToSet
      <4> QED
        BY <4>2, <4>3
    <3>6. met[r] = MetFrom(r, met, offset)
      BY <3>1, MetSteps
    <3>7. CASE IsToken(p) \/ IsEmpty(r)
      <4>1. met[r] = {}
        BY <3>1, <3>6, <3>7 DEF MetFrom
      <4> QED
        BY <3>1, <4>1 DEF Good
    <3>8. CASE ~ (IsToken(p) \/ IsEmpty(r))
      <4>1. met[r] = ToSet(kids) \cup UNION {met[t[j]] : j \in DOMAIN t}
        BY <3>1, <3>2, <3>6, <3>8 DEF MetFrom
      <4>2. ASSUME NEW m \in met[r]
            PROVE  m \in Truths(tree) /\ (tree.parent[m.pos] = p \/ Truth(tree, tree.parent[m.pos]) \in met[r])
        <5>1. CASE m \in ToSet(kids)
          <6>1. PICK q \in 1 .. n : m = Truth(tree, q) /\ m.pos = q /\ tree.parent[q] = p
            BY <3>3, <3>4, <5>1
          <6> QED
            BY <1>1, <6>1 DEF Truths
        <5>2. CASE m \notin ToSet(kids)
          <6>1. PICK j \in DOMAIN t : m \in met[t[j]]
            BY <4>1, <5>2
          <6>2. t[j] \in KidTruths(tree, p) /\ t[j] \in ToSet(kids)
            <7>1. t[j] \in ToSet(t)
              BY <3>5 DEF ToSet
            <7> QED
              BY <3>3, <3>5, <7>1
          <6>3. PICK q \in 1 .. n : t[j] = Truth(tree, q) /\ n - q < i - 1
            BY <3>4, <6>2
          <6>4. Good(q)
            BY <1>2, <1>4, <6>3
          <6>5. /\ m \in Truths(tree)
                /\ tree.parent[m.pos] = q \/ Truth(tree, tree.parent[m.pos]) \in met[t[j]]
            BY <3>1, <6>1, <6>3, <6>4 DEF Good
          <6>6. met[t[j]] \subseteq met[r] /\ t[j] \in met[r]
            BY <4>1, <6>2
          <6> QED
            BY <6>3, <6>5, <6>6
        <5> QED
          BY <5>1, <5>2
      <4> QED
        BY <3>1, <4>2 DEF Good
    <3> QED
      BY <3>7, <3>8
  <2> QED
    BY <1>2, <2>1
<1>5. \A i \in 0 .. n : i \in M
  BY <1>1, <1>3, <1>4, UpTo
<1>6. n \in M /\ \A p \in 1 .. n : n - p < n
  BY <1>1, <1>5
<1>7. \A p \in Positions : Good(p)
  BY <1>1, <1>2, <1>6
<1> QED
  BY <1>7 DEF Good

\* Where the children of a node end, and the ones that touch an offset.
Rises(ends, m) ==
    /\ m \in Nat /\ ends \in [0 .. m -> Nat]
    /\ \A k \in 1 .. m : ends[k - 1] <= ends[k]

Touches(ends, offset, k) ==
    ends[k - 1] < ends[k] /\ ends[k - 1] <= offset /\ offset <= ends[k]

LEMMA RisesFar ==
    ASSUME NEW ends, NEW m, Rises(ends, m), NEW i \in 0 .. m, NEW j \in 0 .. m, i <= j
    PROVE  ends[i] \in Nat /\ ends[j] \in Nat /\ ends[i] <= ends[j]
<1>1. m \in Nat /\ (\A k \in 0 .. m : ends[k] \in Nat) /\ \A k \in 1 .. m : ends[k - 1] <= ends[k]
  BY DEF Rises
<1>2. PICK M : M = {k \in 0 .. m : i <= k => ends[i] <= ends[k]}
  OBVIOUS
<1>3. 0 \in M
  BY <1>1, <1>2
<1>4. ASSUME NEW k \in 1 .. m, k - 1 \in M PROVE k \in M
  <2>1. k \in 0 .. m /\ k - 1 \in 0 .. m
    BY <1>1
  <2>2. ends[k - 1] <= ends[k] /\ ends[k - 1] \in Nat /\ ends[k] \in Nat /\ ends[i] \in Nat
    BY <1>1, <2>1
  <2>3. CASE i <= k - 1
    BY <1>2, <1>4, <2>1, <2>2, <2>3
  <2>4. CASE ~ (i <= k - 1)
    <3>1. i <= k => i = k
      BY <1>1, <2>4
    <3> QED
      BY <1>2, <2>1, <2>2, <3>1
  <2> QED
    BY <2>3, <2>4
<1>5. \A k \in 0 .. m : k \in M
  BY <1>1, <1>3, <1>4, UpTo
<1> QED
  BY <1>1, <1>2, <1>5

\* Of two children that touch the offset, the first ends and the second starts
\* at it.
LEMMA TouchesTwice ==
    ASSUME NEW ends, NEW m, Rises(ends, m), NEW offset \in Nat, NEW i \in 1 .. m, NEW j \in 1 .. m, i < j,
           Touches(ends, offset, i), Touches(ends, offset, j)
    PROVE  offset = ends[i] /\ offset = ends[j - 1] /\ ends[0] < offset /\ offset < ends[m]
<1>1. m \in Nat
  BY DEF Rises
<1>2. /\ i \in 0 .. m /\ j \in 0 .. m /\ i - 1 \in 0 .. m /\ j - 1 \in 0 .. m /\ 0 \in 0 .. m /\ m \in 0 .. m
      /\ i <= j - 1 /\ 0 <= i - 1 /\ j <= m
  BY <1>1
<1>3. ends[i] \in Nat /\ ends[j - 1] \in Nat /\ ends[i] <= ends[j - 1]
  BY <1>2, RisesFar
<1>4. ends[0] \in Nat /\ ends[i - 1] \in Nat /\ ends[0] <= ends[i - 1]
  BY <1>2, RisesFar
<1>5. ends[j] \in Nat /\ ends[m] \in Nat /\ ends[j] <= ends[m]
  BY <1>2, RisesFar
<1> QED
  BY <1>3, <1>4, <1>5 DEF Touches

LEMMA TouchesOnce ==
    ASSUME NEW ends, NEW m, Rises(ends, m), NEW offset \in Nat,
           ends[0] < ends[m], ends[0] <= offset, offset <= ends[m]
    PROVE  \E k \in 1 .. m : Touches(ends, offset, k)
<1>1. m \in Nat /\ \A k \in 0 .. m : ends[k] \in Nat
  BY DEF Rises
<1>2. PICK C : C = {k \in 1 .. m : offset <= ends[k] /\ ends[0] < ends[k]}
  OBVIOUS
<1>3. m \in C
  <2>1. 0 \in 0 .. m /\ m \in 0 .. m /\ m # 0
    BY <1>1
  <2> QED
    BY <1>1, <1>2, <2>1
<1>4. PICK k \in C : \A i \in C : k <= i
  <2>1. C \subseteq Nat /\ C # {}
    BY <1>2, <1>3
  <2> QED
    BY <2>1, Least
<1>5. k \in 1 .. m /\ k \in 0 .. m /\ k - 1 \in 0 .. m /\ 0 \in 0 .. m
  BY <1>1, <1>2
<1>6. ends[k] \in Nat /\ ends[k - 1] \in Nat /\ ends[0] \in Nat
  BY <1>1, <1>5
<1>7. offset <= ends[k] /\ ends[0] < ends[k]
  BY <1>2
<1>8. CASE k = 1
  <2>1. k - 1 = 0
    BY <1>8
  <2> QED
    BY <1>5, <1>7, <2>1 DEF Touches
<1>9. CASE k # 1
  <2>1. k - 1 \in 1 .. m /\ ~ (k <= k - 1)
    BY <1>1, <1>5, <1>9
  <2>2. ~ (offset <= ends[k - 1] /\ ends[0] < ends[k - 1])
    BY <1>2, <1>4, <2>1
  <2>3. ends[0] <= ends[k - 1]
    <3>1. 0 <= k - 1
      BY <1>5
    <3> QED
      BY <1>5, <3>1, RisesFar
  <2> QED
    BY <1>5, <1>6, <1>7, <2>2, <2>3 DEF Touches
<1> QED
  BY <1>8, <1>9

\* What a picked sequence of at most two elements looks like.
PicksFew(t, s, places, m) ==
    \/ \E i \in 1 .. m : i \in places /\ Len(t) = 1 /\ t[1] = s[i]
    \/ \E i, j \in 1 .. m : i \in places /\ j \in places /\ i < j /\ Len(t) = 2 /\ t[1] = s[i] /\ t[2] = s[j]

LEMMA PickedFew ==
    ASSUME NEW m \in Nat, NEW t, NEW s, NEW places, Holds(t, s, places, m), Len(t) \in Nat,
           \E i \in 1 .. m : i \in places,
           \A i, j, k \in 1 .. m : i \in places /\ j \in places /\ k \in places => ~ (i < j /\ j < k)
    PROVE  PicksFew(t, s, places, m)
<1>1. PICK c : c = [i \in 0 .. m |-> Count(places, i)]
  OBVIOUS
<1>2. /\ \A i \in 1 .. m : i \in places => c[i] \in 1 .. Len(t) /\ t[c[i]] = s[i]
      /\ \A k \in 1 .. Len(t) : \E i \in 1 .. m : i \in places /\ c[i] = k
  <2>1. \A i \in 1 .. m : c[i] = Count(places, i)
    BY <1>1
  <2> QED
    BY <2>1 DEF Holds
<1>3. \A i, j \in 1 .. m : c[i] < c[j] => i < j
  <2>1. ASSUME NEW i \in 1 .. m, NEW j \in 1 .. m, c[i] < c[j], ~ (i < j) PROVE FALSE
    <3>1. i \in Nat /\ j \in Nat /\ j <= i
      BY <2>1
    <3>2. Count(places, j) <= Count(places, i) /\ Count(places, i) \in Nat /\ Count(places, j) \in Nat
      BY <3>1, CountMonotone
    <3>3. c[i] = Count(places, i) /\ c[j] = Count(places, j)
      BY <1>1
    <3> QED
      BY <2>1, <3>2, <3>3
  <2> QED
    BY <2>1
<1>4. PICK l \in Nat : l = Len(t)
  OBVIOUS
<1>5. l >= 1
  BY <1>2, <1>4
<1>6. ~ (l >= 3)
  <2>1. ASSUME l >= 3 PROVE FALSE
    <3>1. 1 \in 1 .. l /\ 2 \in 1 .. l /\ 3 \in 1 .. l
      BY <1>4, <2>1
    <3>2. PICK i \in 1 .. m : i \in places /\ c[i] = 1
      BY <1>2, <1>4, <3>1
    <3>3. PICK j \in 1 .. m : j \in places /\ c[j] = 2
      BY <1>2, <1>4, <3>1
    <3>4. PICK k \in 1 .. m : k \in places /\ c[k] = 3
      BY <1>2, <1>4, <3>1
    <3>5. c[i] < c[j] /\ c[j] < c[k]
      BY <3>2, <3>3, <3>4
    <3>6. i < j /\ j < k
      BY <1>3, <3>5
    <3> QED
      BY <3>2, <3>3, <3>4, <3>6
  <2> QED
    BY <2>1
<1>7. CASE l = 1
  <2>1. PICK i \in 1 .. m : i \in places /\ c[i] = 1
    BY <1>2, <1>4, <1>7
  <2> QED
    BY <1>2, <1>4, <1>7, <2>1 DEF PicksFew
<1>8. CASE l = 2
  <2>1. 1 \in 1 .. l /\ 2 \in 1 .. l
    BY <1>8
  <2>2. PICK i \in 1 .. m : i \in places /\ c[i] = 1
    BY <1>2, <1>4, <2>1
  <2>3. PICK j \in 1 .. m : j \in places /\ c[j] = 2
    BY <1>2, <1>4, <2>1
  <2>4. c[i] < c[j]
    BY <2>2, <2>3
  <2>5. i < j
    BY <1>3, <2>4
  <2>6. t[1] = s[i] /\ t[2] = s[j]
    BY <1>2, <2>2, <2>3
  <2> QED
    BY <1>4, <1>8, <2>2, <2>3, <2>5, <2>6 DEF PicksFew
<1> QED
  BY <1>4, <1>5, <1>6, <1>7, <1>8

\* The children of a node, by where they end.
LEMMA KidEnds ==
    ASSUME IsTree(tree), NEW p \in Positions, NEW m, m = Len(Kids(p)),
           NEW ends, ends = [k \in 0 .. m |-> KidOffset(p, k)]
    PROVE  /\ m \in Nat /\ Rises(ends, m)
           /\ \A k \in 1 .. m : LET c == Truth(tree, Kids(p)[k]) IN
                  /\ c.offset = ends[k - 1] /\ End(c) = ends[k] /\ ends[k] \in Nat /\ ends[k - 1] \in Nat
                  /\ IsEmpty(c) <=> ends[k - 1] = ends[k]
<1>2. m \in Nat
  BY Within
<1>3. p \in 1 .. tree.size
  BY DEF Positions
<1>4. PICK s, b : s = Kids(p) /\ s = tree.kids[p] /\ KidSums(tree, s) /\ b = BytesOf(tree, p - 1) /\ b \in Nat
  <2>1. PICK s : s = Kids(p) /\ s = tree.kids[p]
    BY DEF Kids
  <2> QED
    BY <1>3, <2>1, KidTotals, TreeFacts
<1>5. Rises(ends, m)
  <2>1. /\ \A k \in 0 .. m : Total(s, tree.text_len, k) \in Nat
        /\ \A k \in 1 .. m : /\ Total(s, tree.text_len, k) = Total(s, tree.text_len, k - 1) + tree.text_len[s[k]]
                             /\ tree.text_len[s[k]] \in Nat
    BY <1>4 DEF KidSums
  <2>2. \A k \in 0 .. m : ends[k] = b + Total(s, tree.text_len, k)
    BY <1>4 DEF KidOffset
  <2>3. ASSUME NEW k \in 0 .. m PROVE ends[k] \in Nat
    <3>1. PICK x \in Nat : x = Total(s, tree.text_len, k)
      BY <2>1
    <3>2. ends[k] = b + x
      BY <2>2, <3>1
    <3> QED
      BY <1>4, <3>1, <3>2
  <2>4. ASSUME NEW k \in 1 .. m PROVE ends[k - 1] <= ends[k]
    <3>1. k - 1 \in 0 .. m /\ k \in 0 .. m
      BY <1>2
    <3>2. PICK x, y, z : x = Total(s, tree.text_len, k) /\ y = Total(s, tree.text_len, k - 1) /\ z = tree.text_len[s[k]]
      OBVIOUS
    <3>3. x = y + z /\ y \in Nat /\ z \in Nat
      BY <2>1, <3>1, <3>2
    <3>4. ends[k - 1] = b + y /\ ends[k] = b + x
      BY <2>2, <3>1, <3>2
    <3> QED
      BY <1>4, <3>3, <3>4
  <2>5. ends \in [0 .. m -> Nat]
    BY  <2>3
  <2> QED
    BY <1>2, <2>4, <2>5 DEF Rises
<1>6. ASSUME NEW k \in 1 .. m, NEW c, c = Truth(tree, Kids(p)[k])
      PROVE  /\ c.offset = ends[k - 1] /\ End(c) = ends[k] /\ ends[k] \in Nat /\ ends[k - 1] \in Nat
             /\ IsEmpty(c) <=> ends[k - 1] = ends[k]
  <2>1. k \in 1 .. Len(s) /\ k - 1 \in 0 .. m /\ k \in 0 .. m
    BY <1>2, <1>4
  <2>2. /\ c = [pos |-> s[k], index |-> k - 1, offset |-> b + Total(s, tree.text_len, k - 1)]
        /\ c.offset + tree.text_len[s[k]] = b + Total(s, tree.text_len, k)
        /\ s[k] \in 2 .. tree.size
    <3>1. s = tree.kids[p] /\ c = Truth(tree, s[k])
      BY <1>4, <1>6
    <3>2. /\ Truth(tree, s[k]) = [pos |-> s[k], index |-> k - 1,
                                  offset |-> BytesOf(tree, p - 1) + Total(s, tree.text_len, k - 1)]
          /\ Truth(tree, s[k]).offset + tree.text_len[s[k]] = BytesOf(tree, p - 1) + Total(s, tree.text_len, k)
          /\ s[k] \in 2 .. tree.size
      BY <1>3, <2>1, <3>1, KidTruth
    <3> QED
      BY <1>4, <3>1, <3>2
  <2>3. c.offset = ends[k - 1] /\ c.pos = s[k] /\ ends[k] = b + Total(s, tree.text_len, k)
    BY <1>4, <2>1, <2>2 DEF KidOffset
  <2>4. tree.text_len[s[k]] \in Nat
    BY <1>4, <2>1 DEF KidSums
  <2>5. ends[k - 1] \in Nat /\ ends[k] \in Nat
    BY <1>5, <2>1 DEF Rises
  <2>6. End(c) = ends[k]
    BY <2>2, <2>3 DEF End, TextLen
  <2>7. IsEmpty(c) <=> tree.text_len[s[k]] = 0
    BY <2>3 DEF IsEmpty, TextLen
  <2> QED
    BY <2>2, <2>3, <2>4, <2>5, <2>6, <2>7
<1> QED
  BY <1>2, <1>5, <1>6

\* An offset within a node that has text touches one of its children, or two
\* where the first ends and the second starts.
TouchingOne(p, offset, t) ==
    \E k \in 1 .. Len(Kids(p)) :
        LET c == Truth(tree, Kids(p)[k]) IN
        t = <<c>> /\ c.offset < End(c) /\ c.offset <= offset /\ offset <= End(c)

TouchingTwo(p, offset, t) ==
    \E i, j \in 1 .. Len(Kids(p)) :
        LET c == Truth(tree, Kids(p)[i])
            d == Truth(tree, Kids(p)[j])
        IN  /\ t = <<c, d>> /\ c.offset < End(c) /\ d.offset < End(d)
            /\ c.offset <= offset /\ offset = End(c) /\ offset = d.offset /\ offset <= End(d)

LEMMA TouchingKids ==
    ASSUME IsTree(tree), NEW p \in Positions, ~ IsToken(p), NEW e, e = Truth(tree, p), ~ IsEmpty(e),
           NEW offset \in Nat, e.offset <= offset, offset <= End(e), NEW t, t = Touching(e, offset)
    PROVE  \/ TouchingOne(p, offset, t)
           \/ TouchingTwo(p, offset, t) /\ offset # e.offset /\ offset # End(e)
<1>1. PICK m, ends : m = Len(Kids(p)) /\ ends = [k \in 0 .. m |-> KidOffset(p, k)]
  OBVIOUS
<1>2. /\ e.pos = p /\ e.offset = KidOffset(p, 0) /\ m \in Nat /\ End(e) = KidOffset(p, m)
  BY <1>1, Within
<1>3. p \in 1 .. tree.size
  BY DEF Positions
<1>5. Rises(ends, m)
  BY <1>1, KidEnds
<1>6. ends[0] = e.offset /\ ends[m] = End(e) /\ 0 \in 0 .. m /\ m \in 0 .. m
  BY <1>1, <1>2
<1>7. PICK kids : kids = ChildrenWithTokens(e)
  OBVIOUS
<1>8. /\ kids \in Seq(KidTruths(tree, p)) /\ DOMAIN kids = 1 .. m /\ Len(kids) = m
      /\ \A j \in 1 .. m : kids[j] = Truth(tree, Kids(p)[j])
  BY <1>1, <1>7, KidsOfTruth
<1>9. ASSUME NEW k \in 1 .. m, NEW c, c = Truth(tree, Kids(p)[k])
      PROVE  /\ c.offset = ends[k - 1] /\ End(c) = ends[k] /\ ends[k] \in Nat /\ ends[k - 1] \in Nat
             /\ IsEmpty(c) <=> ends[k - 1] = ends[k]
  BY <1>1, <1>9, KidEnds
<1>10. PICK places : /\ t = Picked(kids, places)
                     /\ \A k \in 1 .. m : k \in places <=> Touches(ends, offset, k)
  <2>1. PICK places : places = {i \in DOMAIN kids : /\ ~ IsEmpty(kids[i])
                                                    /\ kids[i].offset <= offset /\ offset <= End(kids[i])}
    OBVIOUS
  <2>2. t = Picked(kids, places)
    BY <1>7, <2>1 DEF Touching
  <2>3. ASSUME NEW k \in 1 .. m PROVE k \in places <=> Touches(ends, offset, k)
    <3>1. PICK c : c = kids[k] /\ c = Truth(tree, Kids(p)[k])
      BY <1>8
    <3>2. /\ c.offset = ends[k - 1] /\ End(c) = ends[k] /\ ends[k] \in Nat /\ ends[k - 1] \in Nat
          /\ IsEmpty(c) <=> ends[k - 1] = ends[k]
      BY <1>9, <3>1
    <3>3. k \in places <=> (~ IsEmpty(c) /\ c.offset <= offset /\ offset <= End(c))
      BY <1>8, <2>1, <3>1
    <3>4. ends[k - 1] <= ends[k]
      BY <1>5 DEF Rises
    <3> QED
      BY <3>2, <3>3, <3>4 DEF Touches
  <2> QED
    BY <2>2, <2>3
<1>11. t \in Seq(KidTruths(tree, p)) /\ Holds(t, kids, places, m)
  <2>1. PICK T : T = KidTruths(tree, p) /\ kids \in Seq(T)
    BY <1>8
  <2>2. Picked(kids, places) \in Seq(T)
    BY <2>1, PickedElements
  <2>3. Holds(Picked(kids, places), kids, places, Len(kids))
    BY <2>1, PickedPlaces
  <2> QED
    BY <1>8, <1>10, <2>1, <2>2, <2>3
<1>12. \E k \in 1 .. m : k \in places
  <2>1. ends[0] < ends[m]
    <3>1. TextLen(p) \in Nat /\ TextLen(p) # 0 /\ e.offset \in Nat
      BY <1>2, <1>3, <1>6, <1>5, TreeFacts DEF TextLen, IsEmpty, Rises
    <3> QED
      BY <1>2, <1>6, <3>1 DEF End
  <2>2. \E k \in 1 .. m : Touches(ends, offset, k)
    BY <1>5, <1>6, <2>1, TouchesOnce
  <2> QED
    BY <1>10, <2>2
<1>13. \A i, j, k \in 1 .. m : i \in places /\ j \in places /\ k \in places => ~ (i < j /\ j < k)
  <2>1. ASSUME NEW i \in 1 .. m, NEW j \in 1 .. m, NEW k \in 1 .. m,
               i \in places, j \in places, k \in places, i < j, j < k
        PROVE  FALSE
    <3>1. Touches(ends, offset, i) /\ Touches(ends, offset, j) /\ Touches(ends, offset, k)
      BY <1>10, <2>1
    <3>2. offset = ends[j - 1]
      BY <1>5, <2>1, <3>1, TouchesTwice
    <3>3. offset = ends[j]
      BY <1>5, <2>1, <3>1, TouchesTwice
    <3> QED
      BY <3>1, <3>2, <3>3 DEF Touches
  <2> QED
    BY <2>1
<1>14. PicksFew(t, kids, places, m)
  <2>1. Len(t) \in Nat
    BY <1>11
  <2> QED
    BY <1>2, <1>11, <1>12, <1>13, <2>1, PickedFew
<1>15. CASE \E i \in 1 .. m : i \in places /\ Len(t) = 1 /\ t[1] = kids[i]
  <2>1. PICK i \in 1 .. m : i \in places /\ Len(t) = 1 /\ t[1] = kids[i]
    BY <1>15
  <2>2. PICK c : c = Truth(tree, Kids(p)[i]) /\ c = kids[i]
    BY <1>8
  <2>3. t = <<c>>
    BY <1>11, <2>1, <2>2
  <2>4. Touches(ends, offset, i) /\ c.offset = ends[i - 1] /\ End(c) = ends[i]
    BY <1>9, <1>10, <2>1, <2>2
  <2>5. TouchingOne(p, offset, t)
    BY <1>1, <2>2, <2>3, <2>4 DEF TouchingOne, Touches
  <2> QED
    BY <2>5
<1>16. CASE \E i, j \in 1 .. m :
                i \in places /\ j \in places /\ i < j /\ Len(t) = 2 /\ t[1] = kids[i] /\ t[2] = kids[j]
  <2>1. PICK i \in 1 .. m, j \in 1 .. m :
                i \in places /\ j \in places /\ i < j /\ Len(t) = 2 /\ t[1] = kids[i] /\ t[2] = kids[j]
    BY <1>16
  <2>2. PICK c, d : c = Truth(tree, Kids(p)[i]) /\ c = kids[i] /\ d = Truth(tree, Kids(p)[j]) /\ d = kids[j]
    BY <1>8
  <2>3. t = <<c, d>>
    BY <1>11, <2>1, <2>2
  <2>4. Touches(ends, offset, i) /\ c.offset = ends[i - 1] /\ End(c) = ends[i]
    BY <1>9, <1>10, <2>1, <2>2
  <2>5. Touches(ends, offset, j) /\ d.offset = ends[j - 1] /\ End(d) = ends[j]
    BY <1>9, <1>10, <2>1, <2>2
  <2>6. offset = ends[i] /\ offset = ends[j - 1] /\ ends[0] < offset /\ offset < ends[m]
    BY <1>5, <2>1, <2>4, <2>5, TouchesTwice
  <2>7. TouchingTwo(p, offset, t)
    BY <1>1, <2>2, <2>3, <2>4, <2>5, <2>6 DEF TouchingTwo, Touches
  <2>8. offset # e.offset /\ offset # End(e)
    <3>1. ends[0] \in Nat /\ ends[m] \in Nat
      BY <1>5, <1>6 DEF Rises
    <3> QED
      BY <1>6, <2>6, <3>1
  <2> QED
    BY <2>7, <2>8
<1> QED
  BY <1>14, <1>15, <1>16 DEF PicksFew

\* A child lies within its parent.
LEMMA KidWithin ==
    ASSUME IsTree(tree), NEW p \in Positions, ~ IsToken(p), NEW e, e = Truth(tree, p),
           NEW k \in 1 .. Len(Kids(p)), NEW c, c = Truth(tree, Kids(p)[k])
    PROVE  /\ e.offset <= c.offset /\ c.offset <= End(c) /\ End(c) <= End(e)
           /\ c.offset \in Nat /\ e.offset \in Nat /\ End(c) \in Nat /\ End(e) \in Nat
<1>1. PICK m, ends : m = Len(Kids(p)) /\ ends = [j \in 0 .. m |-> KidOffset(p, j)] /\ Rises(ends, m)
  BY KidEnds
<1>2. e.offset = ends[0] /\ End(e) = ends[m] /\ m \in Nat
  BY <1>1, Within
<1>3. c.offset = ends[k - 1] /\ End(c) = ends[k]
  BY <1>1, KidEnds
<1>4. 0 \in 0 .. m /\ m \in 0 .. m /\ k - 1 \in 0 .. m /\ k \in 0 .. m /\ 0 <= k - 1 /\ k - 1 <= k /\ k <= m
  BY <1>1, <1>2
<1> QED
  BY <1>1, <1>2, <1>3, <1>4, RisesFar

\* What the search finds it has met; at either end of an element there is one
\* token.
Searches(p, offset) ==
    LET e == Truth(tree, p)
        found == SearchBy(offset)[e]
    IN  e.offset <= offset /\ offset <= End(e) =>
            /\ found \in Seq(MetBy(offset)[e] \cup {e})
            /\ ~ IsEmpty(e) /\ (offset = e.offset \/ offset = End(e)) => Len(found) = 1

LEMMA SearchTrue ==
    ASSUME IsTree(tree), NEW offset \in Nat
    PROVE  \A p \in Positions : Searches(p, offset)
<1>1. PICK n : n = tree.size /\ n \in Nat /\ Positions = 1 .. n
  BY TreeFacts DEF Positions
<1>2. PICK M : M = {i \in 0 .. n : \A p \in 1 .. n : n - p < i => Searches(p, offset)}
  OBVIOUS
<1>3. 0 \in M
  BY <1>1, <1>2
<1>4. ASSUME NEW i \in 1 .. n, i - 1 \in M PROVE i \in M
  <2>1. ASSUME NEW p \in 1 .. n, n - p < i PROVE Searches(p, offset)
    <3>1. PICK e, met, search : /\ e = Truth(tree, p) /\ e \in Refs /\ e.pos = p /\ p \in Positions
                                /\ met = MetBy(offset) /\ search = SearchBy(offset)
      BY <1>1, TruthFields DEF Refs, Positions
    <3>2. SUFFICES ASSUME e.offset <= offset, offset <= End(e)
                   PROVE  /\ search[e] \in Seq(met[e] \cup {e})
                          /\ ~ IsEmpty(e) /\ (offset = e.offset \/ offset = End(e)) => Len(search[e]) = 1
      BY <3>1 DEF Searches
    <3>3. PICK t, results : t = Touching(e, offset) /\ results = Results(search, t)
      OBVIOUS
    <3>4. search[e] = SearchFrom(e, results, Len(t)) /\ met[e] = MetFrom(e, met, offset)
      <4>1. search[e] = SearchFrom(e, Results(search, Touching(e, offset)), Len(Touching(e, offset)))
        BY <3>1, SearchSteps
      <4>2. met[e] = MetFrom(e, met, offset)
        BY <3>1, MetSteps
      <4> QED
        BY <3>3, <4>1, <4>2
    <3>5. CASE IsToken(p)
      <4>1. search[e] = <<e>>
        BY <3>1, <3>4, <3>5 DEF SearchFrom
      <4> QED
        BY <4>1
    <3>6. CASE ~ IsToken(p) /\ IsEmpty(e)
      <4>1. search[e] = <<>>
        BY <3>1, <3>4, <3>6 DEF SearchFrom
      <4> QED
        BY <3>6, <4>1
    <3>7. CASE ~ IsToken(p) /\ ~ IsEmpty(e)
      <4>1. \A x \in DOMAIN t : met[t[x]] \subseteq met[e]
        BY <3>1, <3>3, <3>4, <3>7 DEF MetFrom
      <4>2. ToSet(ChildrenWithTokens(e)) \subseteq met[e]
        BY <3>1, <3>4, <3>7 DEF MetFrom
      <4>3. ASSUME NEW k \in 1 .. Len(Kids(p)), NEW c, c = Truth(tree, Kids(p)[k]),
                   c.offset <= offset, offset <= End(c)
            PROVE  /\ search[c] \in Seq(met[c] \cup {c}) /\ c \in met[e]
                   /\ c.offset < End(c) /\ (offset = c.offset \/ offset = End(c)) => Len(search[c]) = 1
        <5>1. PICK q : q = Kids(p)[k] /\ q \in 2 .. n /\ tree.parent[q] = p
          <6>1. PICK s : s = tree.kids[p] /\ s = Kids(p)
            BY DEF Kids
          <6>2. s[k] \in 2 .. tree.size /\ tree.parent[s[k]] = p
            <7>1. k \in 1 .. Len(s) /\ p \in 1 .. tree.size
              BY <1>1, <6>1
            <7>2. KidList(tree, p, s)
              BY <6>1, <7>1, Kidlists
            <7> QED
              BY <7>1, <7>2 DEF KidList
          <6> QED
            BY <1>1, <6>1, <6>2
        <5>2. p < q /\ q \in 1 .. n
          BY <1>1, <5>1, TreeFacts
        <5>3. n - q < i - 1
          BY <1>1, <2>1, <5>2
        <5>4. Searches(q, offset)
          BY <1>2, <1>4, <5>2, <5>3
        <5>5. /\ search[c] \in Seq(met[c] \cup {c})
              /\ ~ IsEmpty(c) /\ (offset = c.offset \/ offset = End(c)) => Len(search[c]) = 1
          BY <3>1, <4>3, <5>1, <5>4 DEF Searches
        <5>6. c.offset < End(c) => ~ IsEmpty(c)
          <6>1. c.offset \in Nat
            BY <1>1, <4>3, <5>1, <5>2, TruthFields
          <6> QED
            BY <6>1 DEF IsEmpty, End
        <5>7. c \in ToSet(ChildrenWithTokens(e))
          <6>1. PICK kids : kids = ChildrenWithTokens(e)
            OBVIOUS
          <6>2. DOMAIN kids = 1 .. Len(Kids(p)) /\ \A j \in 1 .. Len(Kids(p)) : kids[j] = Truth(tree, Kids(p)[j])
            BY <3>1, <6>1, KidsOfTruth
          <6> QED
            BY <4>3, <6>1, <6>2 DEF ToSet
        <5> QED
          BY <4>2, <5>5, <5>6, <5>7
      <4>4. ASSUME NEW c \in met[e], met[c] \subseteq met[e], search[c] \in Seq(met[c] \cup {c})
            PROVE  search[c] \in Seq(met[e] \cup {e})
        BY <4>4
      <4>5. CASE TouchingOne(p, offset, t)
        <5>1. PICK k, c : /\ k \in 1 .. Len(Kids(p))
                          /\ c = Truth(tree, Kids(p)[k]) /\ t = <<c>> /\ c.offset < End(c)
                          /\ c.offset <= offset /\ offset <= End(c)
          BY <4>5 DEF TouchingOne
        <5>2. Len(t) = 1 /\ 1 \in DOMAIN t /\ t[1] = c
          BY <5>1
        <5>3. search[e] = search[c]
          <6>1. results[1] = search[c]
            BY <3>3, <5>2 DEF Results
          <6> QED
            BY <3>1, <3>4, <3>7, <5>2, <6>1 DEF SearchFrom
        <5>4. /\ search[c] \in Seq(met[c] \cup {c}) /\ c \in met[e]
              /\ (offset = c.offset \/ offset = End(c)) => Len(search[c]) = 1
          BY <4>3, <5>1
        <5>5. met[c] \subseteq met[e]
          BY <4>1, <5>2
        <5>6. search[e] \in Seq(met[e] \cup {e})
          BY <4>4, <5>3, <5>4, <5>5
        <5>7. (offset = e.offset => offset = c.offset) /\ (offset = End(e) => offset = End(c))
          <6>1. e.offset <= c.offset /\ End(c) <= End(e) /\ c.offset \in Nat /\ e.offset \in Nat
            BY <1>1, <3>1, <3>7, <5>1, KidWithin
          <6>2. End(c) \in Int /\ End(e) \in Int
            BY <1>1, <3>1, <3>7, <5>1, KidWithin
          <6> QED
            BY <3>2, <5>1, <6>1, <6>2
        <5> QED
          BY <5>3, <5>4, <5>6, <5>7
      <4>6. CASE TouchingTwo(p, offset, t) /\ offset # e.offset /\ offset # End(e)
        <5>1. PICK k, l, c, d :
                  /\ k \in 1 .. Len(Kids(p)) /\ l \in 1 .. Len(Kids(p))
                  /\ c = Truth(tree, Kids(p)[k]) /\ d = Truth(tree, Kids(p)[l])
                  /\ t = <<c, d>> /\ c.offset < End(c) /\ d.offset < End(d)
                  /\ c.offset <= offset /\ offset = End(c) /\ offset = d.offset /\ offset <= End(d)
          BY <4>6 DEF TouchingTwo
        <5>2. Len(t) = 2 /\ 1 \in DOMAIN t /\ 2 \in DOMAIN t /\ t[1] = c /\ t[2] = d
          BY <5>1
        <5>3. search[c] \in Seq(met[c] \cup {c}) /\ c \in met[e] /\ Len(search[c]) = 1
          <6>1. offset <= End(c)
            BY <5>1
          <6> QED
            BY <4>3, <5>1, <6>1
        <5>4. search[d] \in Seq(met[d] \cup {d}) /\ d \in met[e] /\ Len(search[d]) = 1
          <6>1. d.offset <= offset
            BY <5>1
          <6> QED
            BY <4>3, <5>1, <6>1
        <5>5. search[e] = search[c] \o search[d]
          <6>1. results[1] = search[c] /\ results[2] = search[d]
            BY <3>3, <5>2 DEF Results
          <6>2. Len(results[1]) = 1 /\ Len(results[2]) = 1 /\ Len(t) = 2 /\ Len(t) # 1
            BY <5>2, <5>3, <5>4, <6>1
          <6>3. search[e] = results[1] \o results[2]
            BY <3>1, <3>4, <3>7, <6>2, Zenon DEF SearchFrom
          <6> QED
            BY <6>1, <6>3
        <5>6. search[c] \in Seq(met[e] \cup {e}) /\ search[d] \in Seq(met[e] \cup {e})
          <6>1. met[c] \subseteq met[e] /\ met[d] \subseteq met[e]
            BY <4>1, <5>2
          <6> QED
            BY <4>4, <5>3, <5>4, <6>1
        <5>7. search[c] \o search[d] \in Seq(met[e] \cup {e})
          BY <5>6
        <5> QED
          BY <4>6, <5>5, <5>7
      <4> QED
        BY <3>1, <3>2, <3>3, <3>7, <4>5, <4>6, TouchingKids
    <3> QED
      BY <3>5, <3>6, <3>7
  <2> QED
    BY <1>2, <2>1
<1>5. \A i \in 0 .. n : i \in M
  BY <1>1, <1>3, <1>4, UpTo
<1>6. n \in M /\ \A p \in 1 .. n : n - p < n
  BY <1>1, <1>5
<1> QED
  BY <1>1, <1>2, <1>6

LEMMA OffsetFound ==
    ASSUME Core, NEW p \in Positions, slot[p] # None, NEW e, e = Truth(tree, p),
           NEW offset \in Nat, e.offset <= offset, offset <= End(e),
           NEW found, found = TokenAtOffset(e, offset), NEW path, path = OffsetPath(e, offset)
    PROVE  /\ found # Unreachable /\ Meets(path)
           /\ \A i \in DOMAIN found : found[i] \in path \cup {e}
<1>1. found = SearchBy(offset)[e]
  BY Zenon DEF TokenAtOffset, SearchBy
<1>2. path = MetBy(offset)[e]
  BY Zenon DEF OffsetPath, MetBy
<1>3. IsTree(tree)
  BY DEF Core
<1>4. found \in Seq(path \cup {e})
  <2>1. Searches(p, offset)
    BY <1>3, SearchTrue
  <2> QED
    BY <1>1, <1>2, <2>1 DEF Searches
<1>5. \A m \in path : m \in Truths(tree) /\ (tree.parent[m.pos] = p \/ Truth(tree, tree.parent[m.pos]) \in path)
  BY <1>2, <1>3, PathTrue
<1>6. Meets(path)
  BY <1>5 DEF Meets, Open
<1>7. e \in Truths(tree) /\ None \notin Truths(tree)
  <2>1. e \in Truths(tree)
    BY DEF Truths, Positions
  <2>2. \A q \in 1 .. tree.size : Truth(tree, q) # None
    BY <1>3, TruthFields
  <2> QED
    BY <2>1, <2>2 DEF Truths
<1>8. found # Unreachable
  <2>1. ASSUME found = Unreachable PROVE FALSE
    <3>1. found[1] = None /\ 1 \in DOMAIN found
      BY <2>1 DEF Unreachable
    <3>2. found[1] \in path \cup {e}
      BY <1>4, <3>1
    <3> QED
      BY <1>5, <1>7, <3>1, <3>2
  <2> QED
    BY <2>1
<1>9. \A i \in DOMAIN found : found[i] \in path \cup {e}
  BY <1>4
<1> QED
  BY <1>6, <1>8, <1>9

----------------------------------------------------------------------------
(* The invariant *)

\* The references an element keeps and what the client holds: its element and
\* those of its iterators have a slot, and the children iterator is at the
\* offset its index says.
Standing == at \in Positions /\ slot[at] # None

Walking ==
    \/ walk = <<>>
    \/ \E from, elem \in Positions : \E tokens, event, seen :
           /\ walk = <<[from |-> from, tokens |-> tokens, event |-> event, elem |-> elem, seen |-> seen]>>
           /\ slot[elem] # None /\ Under(from, elem) /\ event \in {"Enter", "Leave"}

Iterating ==
    \/ iter = <<>>
    \/ \E parent \in Positions : \E tokens, index :
           /\ index \in 0 .. Len(Kids(parent))
           /\ iter = <<[parent |-> parent, tokens |-> tokens, index |-> index,
                        offset |-> KidOffset(parent, index)]>>
           /\ slot[parent] # None

Inv ==
    /\ Core /\ Standing /\ Walking /\ Iterating
    /\ tree \in GreenTrees /\ slot = [p \in Positions |-> slot[p]] /\ status = "ok"

LEMMA Started == Init => Inv
<1>1. SUFFICES ASSUME Init PROVE Inv
  OBVIOUS
<1>2. IsTree(tree) /\ tree \in GreenTrees
  BY <1>1, GreenTreesAreTrees DEF Init
<1>3. tree.size \in Nat \ {0} /\ Root \in Positions
  BY <1>2, TreeFacts DEF Positions, Root
<1>4. \A p \in Positions : slot[p] = IF p = Root THEN [pos |-> Root, index |-> 0, offset |-> 0] ELSE None
  BY <1>1 DEF Init
<1>5. slot[Root] = Truth(tree, Root) /\ slot[Root] # None
  <2>1. Truth(tree, Root) = [pos |-> 1, index |-> 0, offset |-> 0]
    BY <1>2, <1>3, TruthFields DEF Root, Positions
  <2>2. slot[Root] = [pos |-> 1, index |-> 0, offset |-> 0]
    BY <1>3, <1>4 DEF Root
  <2>3. Truth(tree, Root) # None
    BY <1>2, <1>3, TruthFields DEF Positions
  <2> QED
    BY <2>1, <2>2, <2>3
<1>6. \A p \in 2 .. tree.size : slot[p] = None
  BY <1>3, <1>4 DEF Positions, Root
<1>7. Core
  BY <1>2, <1>4, <1>5, <1>6 DEF Core
<1>8. slot = [p \in Positions |-> slot[p]]
  BY <1>1 DEF Init
<1> QED
  BY <1>1, <1>2, <1>3, <1>5, <1>7, <1>8 DEF Init, Inv, Standing, Walking, Iterating

\* What a visit of references that may be met keeps of the invariant.
LEMMA Visited ==
    ASSUME Inv, NEW refs, Meets(refs), Visit(refs)
    PROVE  /\ Core' /\ tree' \in GreenTrees /\ status' = "ok" /\ slot' = [p \in Positions' |-> slot'[p]]
           /\ tree' = tree /\ Positions' = Positions
           /\ \A p \in Positions : slot[p] # None => slot'[p] # None
           /\ \A r \in refs \ {None} : r.pos \in Positions /\ slot'[r.pos] # None
           /\ \A r \in refs \cup KnownRefs \cup {None} : GoTo(r) => Standing'
           /\ UNCHANGED at => Standing'
           /\ UNCHANGED walk => Walking'
           /\ UNCHANGED iter => Iterating'
<1>1. Grown(refs)
  BY VisitGrows DEF Inv
<1>2. Core' /\ tree' \in GreenTrees /\ status' = "ok" /\ tree' = tree
  BY <1>1 DEF Grown, Inv
<1>3. Positions' = Positions
  BY <1>2 DEF Positions
<1>4. slot' = [p \in Positions' |-> slot'[p]]
  <2>1. PICK f : f = [p \in Positions |-> slot'[p]]
    OBVIOUS
  <2>2. slot' = f
    BY <2>1 DEF Visit
  <2> QED
    BY <1>3, <2>1, <2>2
<1>5. /\ \A p \in Positions : slot[p] # None => slot'[p] # None
      /\ \A r \in refs \ {None} : SlotOf(r) = r.pos /\ r.pos \in Positions /\ slot'[r.pos] # None
  BY <1>1 DEF Grown
<1>6. UNCHANGED at => Standing'
  BY <1>3, <1>5 DEF Inv, Standing
<1>7. ASSUME NEW r \in refs \cup KnownRefs \cup {None}, GoTo(r) PROVE Standing'
  <2>1. CASE r = None
    BY <1>6, <1>7, <2>1 DEF GoTo
  <2>2. CASE r # None /\ r \in refs
    BY <1>3, <1>5, <1>7, <2>2 DEF GoTo, Standing
  <2>3. CASE r # None /\ r \in KnownRefs
    <3>1. PICK p \in Positions : r = Truth(tree, p) /\ slot[p] # None
      BY <2>3 DEF KnownRefs
    <3>2. SlotOf(r) = r.pos /\ r.pos = p
      <4>1. r \in Truths(tree) /\ r.pos = p
        BY <3>1 DEF Truths, Positions, Truth
      <4> QED
        BY <4>1, TruthSlot DEF Inv, Core
    <3> QED
      BY <1>3, <1>5, <1>7, <2>3, <3>1, <3>2 DEF GoTo, Standing
  <2> QED
    BY <1>7, <2>1, <2>2, <2>3
<1>8. ASSUME UNCHANGED walk PROVE Walking'
  <2>1. CASE walk = <<>>
    BY <1>8, <2>1 DEF Walking
  <2>2. CASE walk # <<>>
    <3>1. PICK from, elem, tokens, event, seen :
              /\ from \in Positions /\ elem \in Positions
              /\ walk = <<[from |-> from, tokens |-> tokens, event |-> event, elem |-> elem, seen |-> seen]>>
              /\ slot[elem] # None /\ Under(from, elem) /\ event \in {"Enter", "Leave"}
      BY <2>2 DEF Inv, Walking
    <3>2. slot'[elem] # None /\ Under(from, elem)'
      BY <1>2, <1>5, <3>1 DEF Under
    <3> QED
      BY <1>3, <1>8, <3>1, <3>2 DEF Walking
  <2> QED
    BY <2>1, <2>2
<1>9. ASSUME UNCHANGED iter PROVE Iterating'
  <2>1. CASE iter = <<>>
    BY <1>9, <2>1 DEF Iterating
  <2>2. CASE iter # <<>>
    <3>1. PICK parent, tokens, index :
              /\ parent \in Positions /\ index \in 0 .. Len(Kids(parent))
              /\ iter = <<[parent |-> parent, tokens |-> tokens, index |-> index,
                           offset |-> KidOffset(parent, index)]>>
              /\ slot[parent] # None
      BY <2>2 DEF Inv, Iterating
    <3>2. slot'[parent] # None /\ Kids(parent)' = Kids(parent) /\ KidOffset(parent, index)' = KidOffset(parent, index)
      BY <1>2, <1>5, <3>1 DEF KidOffset, Kids
    <3> QED
      BY <1>3, <1>9, <3>1, <3>2 DEF Iterating
  <2> QED
    BY <2>1, <2>2
<1> QED
  BY <1>2, <1>3, <1>4, <1>5, <1>6, <1>7, <1>8, <1>9

----------------------------------------------------------------------------
(* Steps *)

\* The reference the client holds.
LEMMA Holding ==
    ASSUME Inv
    PROVE  /\ Core /\ IsTree(tree) /\ at \in Positions /\ slot[at] # None
           /\ Here = Truth(tree, at) /\ Here.pos = at /\ Here \in OpenRefs /\ Here \in KnownRefs
<1>1. Core /\ IsTree(tree) /\ at \in Positions /\ slot[at] # None /\ Here = Truth(tree, at)
  BY DEF Inv, Core, Standing, Here
<1>2. Here \in OpenRefs
  BY <1>1, KinOpen
<1>3. Here.pos = at
  BY <1>1, Within
<1>4. Here \in KnownRefs
  BY <1>1 DEF KnownRefs
<1> QED
  BY <1>1, <1>2, <1>3, <1>4

LEMMA OpenMeets ==
    ASSUME NEW n, n \in OpenRefs \cup {None}
    PROVE  Meets({n})
BY DEF OpenRefs, Meets, Open

LEMMA MoveKeeps ==
    ASSUME Inv, NEW n, n \in OpenRefs \cup {None}, Move(n)
    PROVE  Inv'
<1>1. Meets({n}) /\ Visit({n}) /\ GoTo(n) /\ UNCHANGED walk /\ UNCHANGED iter
  BY OpenMeets DEF Move
<1>2. /\ Core' /\ tree' \in GreenTrees /\ status' = "ok" /\ slot' = [p \in Positions' |-> slot'[p]]
      /\ Standing' /\ Walking' /\ Iterating'
  BY <1>1, Visited
<1> QED
  BY <1>2 DEF Inv

LEMMA TakeKeeps ==
    ASSUME Inv, NEW path \in Seq(Truths(tree)), Steps(path), Take(path)
    PROVE  Inv'
<1>1. PICK i \in DOMAIN path : Visit(ToSet(SubSeq(path, 1, i))) /\ GoTo(path[i])
  BY DEF Take
<1>2. PICK refs : refs = ToSet(SubSeq(path, 1, i))
  OBVIOUS
<1>3. i \in 0 .. Len(path) /\ i \in 1 .. i
  BY <1>1
<1>4. Meets(refs) /\ path[i] \in refs
  BY <1>2, <1>3, PathMeets DEF Inv
<1>5. UNCHANGED walk /\ UNCHANGED iter
  BY DEF Take
<1>6. /\ Core' /\ tree' \in GreenTrees /\ status' = "ok" /\ slot' = [p \in Positions' |-> slot'[p]]
      /\ Standing' /\ Walking' /\ Iterating'
  BY <1>1, <1>2, <1>4, <1>5, Visited
<1> QED
  BY <1>6 DEF Inv

LEMMA SeekKeeps ==
    ASSUME Inv, NEW path, Meets(ToSet(path)), Last(path) \in ToSet(path), Seek(path)
    PROVE  Inv'
<1>1. PICK refs, e : refs = ToSet(path) /\ e = Last(path)
  OBVIOUS
<1>2. Visit(refs) /\ GoTo(e) /\ e \in refs /\ Meets(refs) /\ UNCHANGED walk /\ UNCHANGED iter
  BY <1>1 DEF Seek
<1>3. /\ Core' /\ tree' \in GreenTrees /\ status' = "ok" /\ slot' = [p \in Positions' |-> slot'[p]]
      /\ Standing' /\ Walking' /\ Iterating'
  BY <1>2, Visited
<1> QED
  BY <1>3 DEF Inv

LEMMA FindOffsetKeeps ==
    ASSUME Inv, NEW offset \in Nat, FindOffset(offset)
    PROVE  Inv'
<1>1. PICK found, refs : found = TokenAtOffset(Here, offset) /\ refs = OffsetPath(Here, offset)
  OBVIOUS
<1>2. Here.offset <= offset /\ offset <= End(Here)
  BY DEF FindOffset
<1>3. found # Unreachable /\ Meets(refs) /\ \A i \in DOMAIN found : found[i] \in refs \cup {Here}
  BY <1>1, <1>2, Holding, OffsetFound
<1>4. Visit(refs) /\ UNCHANGED walk /\ UNCHANGED iter
  BY <1>1, <1>3 DEF FindOffset
<1>5. UNCHANGED at \/ \E i \in DOMAIN found : GoTo(found[i])
  BY <1>1, <1>3 DEF FindOffset
<1>6. Standing'
  <2>1. \A r \in refs \cup {Here} : GoTo(r) => Standing'
    BY <1>3, <1>4, Holding, Visited
  <2>2. UNCHANGED at => Standing'
    BY <1>3, <1>4, Visited
  <2> QED
    BY <1>3, <1>5, <2>1, <2>2
<1>7. /\ Core' /\ tree' \in GreenTrees /\ status' = "ok" /\ slot' = [p \in Positions' |-> slot'[p]]
      /\ Walking' /\ Iterating'
  BY <1>3, <1>4, Visited
<1> QED
  BY <1>6, <1>7 DEF Inv

LEMMA FindCoveringKeeps ==
    ASSUME Inv, NEW from, NEW to, FindCovering(from, to)
    PROVE  Inv'
<1>1. PICK path, refs, e : path = Covering(Here, from, to) /\ refs = FoundBy(path) /\ e = Last(path)
  OBVIOUS
<1>2. Meets(refs) /\ e \in refs \cup {Here}
  BY <1>1, Holding, CoveringMeets
<1>3. Visit(refs) /\ GoTo(e) /\ UNCHANGED walk /\ UNCHANGED iter
  BY <1>1 DEF FindCovering
<1>4. e \in refs \cup KnownRefs \cup {None}
  BY <1>2, Holding
<1>5. /\ Core' /\ tree' \in GreenTrees /\ status' = "ok" /\ slot' = [p \in Positions' |-> slot'[p]]
      /\ Standing' /\ Walking' /\ Iterating'
  BY <1>2, <1>3, <1>4, Visited
<1> QED
  BY <1>5 DEF Inv

\* A step that leaves the tree and its slots alone.
LEMMA Untouched ==
    ASSUME Inv, UNCHANGED <<tree, slot, status>>
    PROVE  /\ Core' /\ tree' \in GreenTrees /\ status' = "ok" /\ slot' = [p \in Positions' |-> slot'[p]]
           /\ Positions' = Positions
           /\ UNCHANGED at => Standing'
           /\ UNCHANGED walk => Walking'
           /\ UNCHANGED iter => Iterating'
<1>1. Positions' = Positions
  BY DEF Positions
<1>2. Core'
  BY <1>1 DEF Inv, Core, Root
<1>3. ASSUME UNCHANGED walk PROVE Walking'
  BY <1>1, <1>3 DEF Inv, Walking, Under
<1>4. ASSUME UNCHANGED iter PROVE Iterating'
  BY <1>1, <1>4 DEF Inv, Iterating, Kids, KidOffset
<1> QED
  BY <1>1, <1>2, <1>3, <1>4 DEF Inv, Standing

LEMMA ChildrenKeeps ==
    ASSUME Inv, NEW tokens, Children(tokens)
    PROVE  Inv'
<1>1. /\ Core' /\ tree' \in GreenTrees /\ status' = "ok" /\ slot' = [p \in Positions' |-> slot'[p]]
      /\ Positions' = Positions /\ Standing' /\ Walking'
  BY Untouched DEF Children
<1>2. tree' = tree /\ slot' = slot
  BY DEF Children
<1>3. slot[at].offset = KidOffset(at, 0) /\ Len(Kids(at)) \in Nat
  BY Holding, Within DEF Here
<1>4. 0 \in 0 .. Len(Kids(at)) /\ at \in Positions /\ slot[at] # None
  BY <1>3, Holding
<1>5. iter' = <<[parent |-> at, tokens |-> tokens, index |-> 0, offset |-> KidOffset(at, 0)]>>
  BY <1>3 DEF Children
<1>6. Iterating'
  BY <1>1, <1>2, <1>4, <1>5 DEF Iterating, KidOffset, Kids
<1> QED
  BY <1>1, <1>6 DEF Inv

LEMMA PreorderKeeps ==
    ASSUME Inv, NEW tokens, Preorder(tokens)
    PROVE  Inv'
<1>1. /\ Core' /\ tree' \in GreenTrees /\ status' = "ok" /\ slot' = [p \in Positions' |-> slot'[p]]
      /\ Positions' = Positions /\ Standing' /\ Iterating'
  BY Untouched DEF Preorder
<1>2. at \in Positions /\ slot[at] # None /\ slot' = slot /\ tree' = tree
  BY Holding DEF Preorder
<1>3. Under(at, at)
  <2>1. at \in Int
    BY <1>2, TreeFacts, Holding DEF Positions
  <2>2. at <= at /\ at + 1 .. at = {}
    BY <2>1
  <2> QED
    BY <2>2 DEF Under
<1>4. Walking'
  <2>1. walk' = <<[from |-> at, tokens |-> tokens, event |-> "Enter", elem |-> at,
                   seen |-> <<<<"Enter", at>>>>]>>
    BY DEF Preorder
  <2> QED
    BY <1>1, <1>2, <1>3, <2>1 DEF Walking, Under
<1> QED
  BY <1>1, <1>4 DEF Inv

LEMMA IterNextKeeps ==
    ASSUME Inv, IterNext
    PROVE  Inv'
<1>0. PICK parent \in Positions : \E tokens, index, it :
          /\ index \in 0 .. Len(Kids(parent))
          /\ it = [parent |-> parent, tokens |-> tokens, index |-> index,
                   offset |-> KidOffset(parent, index)]
          /\ iter = <<it>> /\ slot[parent] # None
  BY DEF Inv, Iterating, IterNext
<1>1. PICK tokens, index, it :
          /\ index \in 0 .. Len(Kids(parent))
          /\ it = [parent |-> parent, tokens |-> tokens, index |-> index,
                   offset |-> KidOffset(parent, index)]
          /\ iter = <<it>> /\ slot[parent] # None
  BY <1>0, Zenon
<1>2. PICK e : e = IterFound(it)
  OBVIOUS
<1>3. it = iter[1]
  BY <1>1
<1>4. /\ Visit({e}) /\ GoTo(e) /\ UNCHANGED walk
      /\ iter' = IF e = None THEN <<>>
                 ELSE <<[it EXCEPT !.index = e.index + 1, !.offset = End(e)]>>
  BY <1>2, <1>3 DEF IterNext
<1>5. IsTree(tree) /\ Len(Kids(parent)) \in Nat /\ Core
  BY Within, Holding
<1>6. e \in KidRefs(parent)
  <2>1. index \in Nat /\ index <= Len(Kids(parent))
    BY <1>1, <1>5
  <2>2. PICK rest : rest = ChildrenFrom(parent, index, KidOffset(parent, index))
    OBVIOUS
  <2>3. Ahead(parent, index, rest)
    BY <1>5, <2>1, <2>2, Forwards
  <2>4. rest \in Seq(KidTruths(tree, parent))
    BY <2>3 DEF Ahead
  <2>5. e = First(IF tokens THEN rest ELSE filter_nodes(rest))
    BY <1>1, <1>2, <2>2 DEF IterFound
  <2>6. First(rest) \in KidRefs(parent) /\ First(filter_nodes(rest)) \in KidRefs(parent)
    BY <2>4, FirstOf DEF KidRefs
  <2> QED
    BY <2>5, <2>6
<1>7. e \in OpenRefs \cup {None}
  BY <1>1, <1>5, <1>6, KinOpen
<1>8. /\ Core' /\ tree' \in GreenTrees /\ status' = "ok" /\ slot' = [p \in Positions' |-> slot'[p]]
      /\ tree' = tree /\ Positions' = Positions /\ slot'[parent] # None /\ Standing' /\ Walking'
  <2>1. Meets({e})
    BY <1>7, OpenMeets
  <2> QED
    BY <1>1, <1>4, <2>1, Visited
<1>9. Iterating'
  <2>1. CASE e = None
    BY <1>4, <2>1 DEF Iterating
  <2>2. CASE e # None
    <3>1. PICK q \in Childhood(tree, parent) : e = Truth(tree, q)
      BY <1>6, <2>2 DEF KidRefs, KidTruths
    <3>2. q \in Positions /\ q # Root /\ tree.parent[q] = parent
      BY <1>5, <3>1, TreeFacts DEF Childhood, Positions, Root
    <3>3. Placed(q, e, parent)
      BY <1>5, <3>1, <3>2, Places
    <3>4. e.index + 1 \in 0 .. Len(Kids(parent)) /\ End(e) = KidOffset(parent, e.index + 1)
      <4>1. e.index \in Nat /\ e.index + 1 <= Len(Kids(parent)) /\ End(e) = KidOffset(parent, e.index + 1)
        BY <3>3 DEF Placed
      <4> QED
        BY <1>5, <4>1
    <3>5. PICK i : i = e.index + 1 /\ i \in 0 .. Len(Kids(parent)) /\ End(e) = KidOffset(parent, i)
      BY <3>4
    <3>6. iter' = <<[parent |-> parent, tokens |-> tokens, index |-> i, offset |-> KidOffset(parent, i)]>>
      <4>1. iter' = <<[it EXCEPT !.index = i, !.offset = KidOffset(parent, i)]>>
        BY <1>4, <2>2, <3>5, Zenon
      <4>2. PICK o : o = KidOffset(parent, i)
        OBVIOUS
      <4>3. [it EXCEPT !.index = i, !.offset = o] =
        [parent |-> parent, tokens |-> tokens, index |-> i, offset |-> o]
        <5>1. PICK c : c = KidOffset(parent, index)
          OBVIOUS
        <5>2. it = [parent |-> parent, tokens |-> tokens, index |-> index, offset |-> c]
          BY <1>1, <5>1
        <5>3. PICK x : x = [it EXCEPT !.index = i]
          OBVIOUS
        <5>4. x = [parent |-> parent, tokens |-> tokens, index |-> i, offset |-> c]
          BY <5>2, <5>3
        <5>5. [it EXCEPT !.index = i, !.offset = o] = [x EXCEPT !.offset = o]
          BY <5>3
        <5> QED
          BY <5>4, <5>5
      <4> QED
        BY <4>1, <4>2, <4>3
    <3>7. Kids(parent)' = Kids(parent) /\ KidOffset(parent, i)' = KidOffset(parent, i)
      BY <1>8 DEF Kids, KidOffset
    <3> QED
      BY <1>1, <1>8, <3>5, <3>6, <3>7 DEF Iterating
  <2> QED
    BY <2>1, <2>2
<1> QED
  BY <1>8, <1>9 DEF Inv

\* A child of an element at or below p is below p, and so is the parent of one.
LEMMA UnderKid ==
    ASSUME IsTree(tree), NEW p \in Positions, NEW q \in Positions, Under(p, q),
           NEW c \in Positions, c # Root, tree.parent[c] = q
    PROVE  Under(p, c)
<1>1. tree.size \in Nat /\ p \in Nat /\ q \in Nat /\ c \in Nat
  BY TreeFacts DEF Positions
<1>2. c \in 2 .. tree.size /\ q < c /\ \A r \in q + 1 .. c : tree.parent[r] >= q
  BY <1>1, TreeFacts DEF Positions, Root
<1>3. p <= q /\ \A r \in p + 1 .. q : tree.parent[r] >= p
  BY DEF Under
<1>4. ASSUME NEW r \in p + 1 .. c PROVE tree.parent[r] >= p
  <2>1. CASE r <= q
    <3>1. r \in p + 1 .. q
      BY <1>1, <2>1
    <3> QED
      BY <1>3, <3>1
  <2>2. CASE ~ (r <= q)
    <3>1. r \in q + 1 .. c /\ r \in 2 .. tree.size
      <4>1. q \in 1 .. tree.size /\ c \in 1 .. tree.size /\ r \in Int
        BY DEF Positions
      <4> QED
        BY <1>1, <2>2, <4>1
    <3>2. tree.parent[r] >= q /\ tree.parent[r] \in 1 .. tree.size
      BY <1>2, <3>1, TreeFacts
    <3> QED
      BY <1>1, <1>3, <3>2
  <2> QED
    BY <2>1, <2>2
<1> QED
  BY <1>1, <1>2, <1>3, <1>4 DEF Under

LEMMA UnderParent ==
    ASSUME IsTree(tree), NEW p \in Positions, NEW q \in Positions, Under(p, q), q # p
    PROVE  q # Root /\ tree.parent[q] \in Positions /\ Under(p, tree.parent[q])
<1>1. tree.size \in Nat /\ p \in 1 .. tree.size /\ q \in 1 .. tree.size
  BY TreeFacts DEF Positions
<1>2. p <= q /\ \A r \in p + 1 .. q : tree.parent[r] >= p
  BY DEF Under
<1>3. q \in p + 1 .. q /\ q \in 2 .. tree.size
  BY <1>1, <1>2
<1>4. PICK b \in 1 .. tree.size : b = tree.parent[q] /\ b < q /\ b >= p
  BY <1>2, <1>3, TreeFacts
<1>5. \A r \in p + 1 .. b : r \in p + 1 .. q
  BY <1>1, <1>4
<1> QED
  BY <1>1, <1>2, <1>3, <1>4, <1>5 DEF Under, Positions, Root

LEMMA WalkNextKeeps ==
    ASSUME Inv, WalkNext
    PROVE  Inv'
<1>0. PICK from \in Positions, elem \in Positions : \E tokens, event, seen, w :
          /\ w = [from |-> from, tokens |-> tokens, event |-> event, elem |-> elem, seen |-> seen]
          /\ walk = <<w>>
          /\ slot[elem] # None /\ Under(from, elem) /\ event \in {"Enter", "Leave"}
  BY DEF Inv, Walking, WalkNext
<1>1. PICK tokens, event, seen, w :
          /\ w = [from |-> from, tokens |-> tokens, event |-> event, elem |-> elem, seen |-> seen]
          /\ walk = <<w>>
          /\ slot[elem] # None /\ Under(from, elem) /\ event \in {"Enter", "Leave"}
  BY <1>0, Zenon
<1>2. w = walk[1] /\ w.from = from /\ w.elem = elem /\ w.event = event
  BY <1>1
<1>3. PICK found : found = WalkFound(w)
  OBVIOUS
<1>4. PICK next, to : /\ next = IF found = None THEN "Leave" ELSE "Enter"
                      /\ to = IF found # None THEN found.pos
                              ELSE IF event = "Enter" THEN elem ELSE tree.parent[elem]
  OBVIOUS
<1>5. Core /\ IsTree(tree) /\ UNCHANGED <<at, iter>>
  BY Holding DEF WalkNext
<1>6. CASE event = "Leave" /\ elem = from
  <2>1. walk' = <<>> /\ UNCHANGED <<slot, status, tree>>
    BY <1>2, <1>6 DEF WalkNext
  <2>2. /\ Core' /\ tree' \in GreenTrees /\ status' = "ok" /\ slot' = [p \in Positions' |-> slot'[p]]
        /\ Standing' /\ Iterating'
    BY <1>5, <2>1, Untouched
  <2> QED
    BY <2>1, <2>2 DEF Inv, Walking
<1>7. CASE ~ (event = "Leave" /\ elem = from)
  <2>1. Visit({found}) /\ walk' = <<[w EXCEPT !.event = next, !.elem = to, !.seen = Append(@, <<next, to>>)]>>
    BY <1>2, <1>3, <1>4, <1>7 DEF WalkNext
  <2>2. PICK s : walk' = <<[from |-> from, tokens |-> tokens, event |-> next, elem |-> to, seen |-> s]>>
    <3>1. PICK x : x = <<next, to>>
      OBVIOUS
    <3>2. [w EXCEPT !.event = next, !.elem = to, !.seen = Append(@, x)] =
          [from |-> from, tokens |-> tokens, event |-> next, elem |-> to, seen |-> Append(seen, x)]
      <4>1. w = [from |-> from, tokens |-> tokens, event |-> event, elem |-> elem, seen |-> seen]
        BY <1>1
      <4>2. PICK v : v = [w EXCEPT !.event = next]
        OBVIOUS
      <4>3. v = [from |-> from, tokens |-> tokens, event |-> next, elem |-> elem, seen |-> seen]
        BY <4>1, <4>2
      <4>4. PICK u : u = [v EXCEPT !.elem = to]
        OBVIOUS
      <4>5. u = [from |-> from, tokens |-> tokens, event |-> next, elem |-> to, seen |-> seen]
        BY <4>3, <4>4
      <4>6. PICK s : s = Append(seen, x)
        OBVIOUS
      <4>7. [u EXCEPT !.seen = s] = [from |-> from, tokens |-> tokens, event |-> next, elem |-> to, seen |-> s]
        BY <4>5
      <4>8. [w EXCEPT !.event = next, !.elem = to, !.seen = Append(@, x)] = [u EXCEPT !.seen = s]
        BY <4>1, <4>2, <4>4, <4>5, <4>6
      <4> QED
        BY <4>6, <4>7, <4>8
    <3>3. walk' = <<[w EXCEPT !.event = next, !.elem = to, !.seen = Append(@, x)]>>
      BY <2>1, <3>1
    <3> QED
      BY <3>2, <3>3, Zenon
  <2>3. PICK e : e = slot[elem] /\ e = Truth(tree, elem) /\ e.pos = elem
    BY <1>1, <1>5, Within DEF Core
  <2>4. /\ event = "Enter" => found \in KidRefs(elem)
        /\ event # "Enter" => found \in SiblingRefs(elem)
    <3>1. /\ FirstChild(e) \in KidRefs(elem) /\ FirstChildOrToken(e) \in KidRefs(elem) /\ None \in KidRefs(elem)
      BY <1>5, <2>3, ChildrenTrue DEF KidRefs
    <3>2. NextSibling(e) \in SiblingRefs(elem) /\ NextSiblingOrToken(e) \in SiblingRefs(elem)
      BY <1>5, <2>3, SiblingsTrue
    <3> QED
      BY <1>2, <1>3, <2>3, <3>1, <3>2 DEF WalkFound
  <2>5. found \in OpenRefs \cup {None}
    BY <1>1, <1>5, <2>4, KinOpen
  <2>6. Meets({found})
    BY <2>5, OpenMeets
  <2>7. /\ Core' /\ tree' \in GreenTrees /\ status' = "ok" /\ slot' = [p \in Positions' |-> slot'[p]]
        /\ tree' = tree /\ Positions' = Positions
        /\ \A p \in Positions : slot[p] # None => slot'[p] # None
        /\ \A r \in {found} \ {None} : r.pos \in Positions /\ slot'[r.pos] # None
        /\ Standing' /\ Iterating'
    BY <1>5, <2>1, <2>6, Visited
  <2>8. to \in Positions /\ slot'[to] # None /\ Under(from, to)
    <3>1. CASE found # None /\ event = "Enter"
      <4>1. to = found.pos /\ to \in Positions /\ slot'[to] # None
        BY <1>4, <2>7, <3>1
      <4>2. to # Root /\ tree.parent[to] = elem
        BY <1>5, <2>4, <3>1, <4>1, Kin
      <4> QED
        BY <1>1, <1>5, <4>1, <4>2, UnderKid
    <3>2. CASE found # None /\ event # "Enter"
      <4>1. to = found.pos /\ to \in Positions /\ slot'[to] # None
        BY <1>4, <2>7, <3>2
      <4>2. to # Root /\ tree.parent[to] = tree.parent[elem]
        BY <1>5, <2>4, <3>2, <4>1, Kin
      <4>3. PICK b \in Positions : b = tree.parent[elem] /\ Under(from, b)
        BY <1>1, <1>5, <1>7, <3>2, UnderParent
      <4> QED
        BY <1>5, <4>1, <4>2, <4>3, UnderKid
    <3>3. CASE found = None /\ event = "Enter"
      <4>1. to = elem
        BY <1>4, <3>3
      <4> QED
        BY <1>1, <2>7, <4>1
    <3>4. CASE found = None /\ event # "Enter"
      <4>1. elem # Root /\ tree.parent[elem] \in Positions /\ Under(from, tree.parent[elem])
        BY <1>1, <1>5, <1>7, <3>4, UnderParent
      <4>2. slot[tree.parent[elem]] # None
        <5>1. elem \in 2 .. tree.size
          BY <1>5, <4>1, TreeFacts DEF Positions, Root
        <5> QED
          BY <1>1, <1>5, <5>1 DEF Core
      <4>3. to = tree.parent[elem]
        BY <1>4, <3>4
      <4> QED
        BY <2>7, <4>1, <4>2, <4>3
    <3> QED
      BY <3>1, <3>2, <3>3, <3>4
  <2>9. Under(from, to)' /\ next \in {"Enter", "Leave"}
    <3>1. tree'.parent = tree.parent
      BY <2>7
    <3> QED
      BY <1>4, <2>8, <3>1 DEF Under
  <2>10. Walking'
    BY <2>2, <2>7, <2>8, <2>9 DEF Walking, Under
  <2> QED
    BY <2>7, <2>10 DEF Inv
<1> QED
  BY <1>6, <1>7

\* Every neighbour the client can ask for is one its position gives a true
\* reference for.
LEMMA NeighboursOpen ==
    ASSUME Inv, NEW n,
           \/ /\ ~ IsToken(at)
              /\ \/ n = FirstChild(Here) \/ n = FirstChildOrToken(Here)
                 \/ n = LastChild(Here) \/ n = LastChildOrToken(Here)
                 \/ n = NextSibling(Here) \/ n = PrevSibling(Here)
           \/ n = NextSiblingOrToken(Here) \/ n = PrevSiblingOrToken(Here) \/ n = Parent(Here)
           \/ /\ at # Root
              /\ \/ n = NextChildAfter(tree.parent[at], Here.index, End(Here))
                 \/ n = PrevChildBefore(tree.parent[at], Here.index, Here.offset)
    PROVE  n \in OpenRefs \cup {None}
<1>1. /\ Core /\ IsTree(tree) /\ at \in Positions /\ slot[at] # None
      /\ Here = Truth(tree, at) /\ Here.pos = at
  BY Holding
<1>2. KidRefs(at) \subseteq OpenRefs \cup {None} /\ SiblingRefs(at) \subseteq OpenRefs \cup {None}
  BY <1>1, KinOpen
<1>3. /\ FirstChild(Here) \in KidRefs(at) /\ FirstChildOrToken(Here) \in KidRefs(at)
      /\ ~ IsToken(at) => LastChild(Here) \in KidRefs(at) /\ LastChildOrToken(Here) \in KidRefs(at)
  BY <1>1, ChildrenTrue
<1>4. /\ NextSibling(Here) \in SiblingRefs(at) /\ NextSiblingOrToken(Here) \in SiblingRefs(at)
      /\ PrevSibling(Here) \in SiblingRefs(at) /\ PrevSiblingOrToken(Here) \in SiblingRefs(at)
      /\ at # Root =>
             /\ NextChildAfter(tree.parent[at], Here.index, End(Here)) \in SiblingRefs(at)
             /\ PrevChildBefore(tree.parent[at], Here.index, Here.offset) \in SiblingRefs(at)
  BY <1>1, SiblingsTrue
<1>5. Parent(Here) \in OpenRefs \cup {None}
  <2>1. CASE at = Root
    BY <1>1, <2>1 DEF Parent
  <2>2. CASE at # Root
    <3>1. at \in 2 .. tree.size
      BY <1>1, <2>2, TreeFacts DEF Positions, Root
    <3>2. PICK b \in Positions : b = tree.parent[at]
      BY <1>1, <3>1, TreeFacts DEF Positions
    <3>3. slot[b] # None /\ slot[b] = Truth(tree, b)
      BY <1>1, <3>1, <3>2 DEF Core
    <3>4. slot[b] \in OpenRefs
      BY <1>1, <3>3, KinOpen
    <3> QED
      BY <1>1, <2>2, <3>2, <3>4 DEF Parent
  <2> QED
    BY <2>1, <2>2
<1> QED
  BY <1>2, <1>3, <1>4, <1>5

\* Every step keeps the invariant.
LEMMA Kept ==
    ASSUME Inv, [Next]_vars
    PROVE  Inv'
<1>1. /\ Core /\ IsTree(tree) /\ at \in Positions /\ slot[at] # None
      /\ Here = Truth(tree, at) /\ Here \in OpenRefs
  BY Holding
<1>2. ASSUME NEW n, n \in OpenRefs \cup {None}, Move(n) PROVE Inv'
  BY <1>2, MoveKeeps
<1>3. CASE ~ IsToken(at) /\ \/ Move(FirstChild(Here)) \/ Move(FirstChildOrToken(Here))
                            \/ Move(LastChild(Here)) \/ Move(LastChildOrToken(Here))
                            \/ Move(NextSibling(Here)) \/ Move(PrevSibling(Here))
  <2>1. PICK n : /\ Move(n)
                 /\ \/ n = FirstChild(Here) \/ n = FirstChildOrToken(Here)
                    \/ n = LastChild(Here) \/ n = LastChildOrToken(Here)
                    \/ n = NextSibling(Here) \/ n = PrevSibling(Here)
    BY <1>3, Zenon
  <2>2. n \in OpenRefs \cup {None}
    BY <1>3, <2>1, NeighboursOpen
  <2> QED
    BY <1>2, <2>1, <2>2
<1>4. CASE Move(NextSiblingOrToken(Here)) \/ Move(PrevSiblingOrToken(Here)) \/ Move(Parent(Here))
  <2>1. PICK n : /\ Move(n)
                 /\ n = NextSiblingOrToken(Here) \/ n = PrevSiblingOrToken(Here) \/ n = Parent(Here)
    BY <1>4, Zenon
  <2>2. n \in OpenRefs \cup {None}
    BY <2>1, NeighboursOpen
  <2> QED
    BY <1>2, <2>1, <2>2
<1>5. CASE at # Root /\ \/ Move(NextChildAfter(tree.parent[at], Here.index, End(Here)))
                        \/ Move(PrevChildBefore(tree.parent[at], Here.index, Here.offset))
  <2>1. PICK n : /\ Move(n)
                 /\ \/ n = NextChildAfter(tree.parent[at], Here.index, End(Here))
                    \/ n = PrevChildBefore(tree.parent[at], Here.index, Here.offset)
    BY <1>5, Zenon
  <2>2. n \in OpenRefs \cup {None}
    BY <1>5, <2>1, NeighboursOpen
  <2> QED
    BY <1>2, <2>1, <2>2
<1>6. ASSUME NEW direction,
             \/ Take(SiblingsWithTokens(Here, direction))
             \/ Take(SiblingNodes(Here, direction))
      PROVE  Inv'
  <2>1. PICK path : Take(path) /\ (path = SiblingsWithTokens(Here, direction) \/ path = SiblingNodes(Here, direction))
    BY <1>6, Zenon
  <2>2. path \in Seq(Truths(tree)) /\ Steps(path)
    BY <1>1, <2>1, SiblingPaths
  <2> QED
    BY <2>1, <2>2, TakeKeeps
<1>7. CASE Take(AncestorNodes(Here))
  <2>1. AncestorNodes(Here) \in Seq(Truths(tree)) /\ Steps(AncestorNodes(Here))
    BY <1>1, AncestorPaths
  <2> QED
    BY <1>7, <2>1, TakeKeeps
<1>8. CASE Seek(FirstToken(Here)) \/ Seek(LastToken(Here)) \/ Seek(NextToken(Here)) \/ Seek(PrevToken(Here))
  <2>1. PICK d : /\ Seek(d)
                 /\ d = NextToken(Here) \/ d = PrevToken(Here) \/ d = FirstToken(Here) \/ d = LastToken(Here)
    BY <1>8, Zenon
  <2>2. Meets(ToSet(d)) /\ Last(d) \in ToSet(d)
    BY <1>1, <2>1, TokenPaths
  <2> QED
    BY <2>1, <2>2, SeekKeeps
<1>9. CASE \E offset \in 0 .. TextLen(Root) : FindOffset(offset)
  <2>1. PICK offset \in 0 .. TextLen(Root) : FindOffset(offset)
    BY <1>9
  <2>2. offset \in Nat
    OBVIOUS
  <2> QED
    BY <2>1, <2>2, FindOffsetKeeps
<1>10. CASE \E to \in 0 .. TextLen(Root) : \E from \in 0 .. to : FindCovering(from, to)
  BY <1>10, FindCoveringKeeps
<1>11. CASE \E tokens \in BOOLEAN : Children(tokens) \/ Preorder(tokens)
  BY <1>11, ChildrenKeeps, PreorderKeeps
<1>12. CASE IterNext
  BY <1>12, IterNextKeeps
<1>13. CASE WalkNext
  BY <1>13, WalkNextKeeps
<1>14. CASE UNCHANGED vars
  <2>1. /\ UNCHANGED <<tree, slot, status>> /\ UNCHANGED at /\ UNCHANGED walk /\ UNCHANGED iter
    BY <1>14 DEF vars
  <2> QED
    BY <2>1, Untouched DEF Inv
<1> QED
  BY <1>3, <1>4, <1>5, <1>6, <1>7, <1>8, <1>9, <1>10, <1>11, <1>12, <1>13, <1>14, Zenon DEF Next

LEMMA Invariance == Spec => []Inv
<1>1. Init => Inv
  BY Started
<1>2. Inv /\ [Next]_vars => Inv'
  BY Kept
<1> QED
  BY <1>1, <1>2, PTL DEF Spec

----------------------------------------------------------------------------
(* Types, slots and assertions *)

\* Every variable keeps its type, whatever the client calls: the references in
\* the slots are references to elements of the tree.
THEOREM TypeCorrect == Spec => []TypeOK
<1>1. ASSUME Inv PROVE TypeOK
  <2>1. tree.size \in 1 .. MaxSize
    BY <1>1, GreenTreesAreTrees DEF Inv
  <2>2. \A p \in Positions : slot[p] \in {None} \cup [pos : Positions, index : Nat, offset : Nat]
    BY <1>1, TruthFields DEF Inv, Core, Positions
  <2>3. slot \in [Positions -> {None} \cup [pos : Positions, index : Nat, offset : Nat]]
    <3>1. PICK R : R = {None} \cup [pos : Positions, index : Nat, offset : Nat]
      OBVIOUS
    <3>2. slot = [p \in Positions |-> slot[p]] /\ \A p \in Positions : slot[p] \in R
      BY <1>1, <2>2, <3>1 DEF Inv
    <3>3. slot \in [Positions -> R]
      BY <3>2
    <3> QED
      BY <3>1, <3>3
  <2>4. Len(walk) <= 1
    <3>1. walk = <<>> \/ \E w : walk = <<w>>
      BY <1>1 DEF Inv, Walking
    <3>2. CASE walk = <<>>
      BY <3>2
    <3>3. CASE \E w : walk = <<w>>
      BY <3>3
    <3> QED
      BY <3>1, <3>2, <3>3
  <2>5. Len(iter) <= 1
    <3>1. iter = <<>> \/ \E it : iter = <<it>>
      BY <1>1 DEF Inv, Iterating
    <3>2. CASE iter = <<>>
      BY <3>2
    <3>3. CASE \E it : iter = <<it>>
      BY <3>3
    <3> QED
      BY <3>1, <3>2, <3>3
  <2> QED
    BY <1>1, <2>1, <2>3, <2>4, <2>5 DEF Inv, Standing, TypeOK
<1> QED
  BY <1>1, Invariance, PTL

\* get_or_add_node and get_or_add_element: whatever path the client takes to an
\* element, forwards or backwards, the index and the offset that its slot keeps
\* for good are those of the element. The index and the offset that a caller
\* passes to next_child_after and its relatives are those of a child.
THEOREM SlotsCorrect == Spec => []SlotsFaithful
<1>1. ASSUME Inv PROVE SlotsFaithful
  <2>1. Core /\ IsTree(tree)
    BY <1>1, Holding
  <2>2. ASSUME NEW p \in Positions, slot[p] # None
        PROVE  slot[p] = [pos |-> p, index |-> Cardinality({q \in Siblings(p) : q < p}),
                          offset |-> TrueStart(p)]
    <3>1. slot[p] = Truth(tree, p) /\ p \in Int /\ tree.size \in Nat
      BY <2>1, <2>2, TreeFacts DEF Core, Positions
    <3>2. TrueStart(p) = BytesOf(tree, p - 1)
      BY Zenon DEF TrueStart, Bytes, BytesOf, OwnLens, Positions, IsToken
    <3>3. Cardinality({q \in Siblings(p) : q < p}) =
          IF p = 1 THEN 0 ELSE Count(Childhood(tree, tree.parent[p]), p - 1)
      <4>1. CASE p = 1
        <5>1. {q \in Siblings(p) : q < p} = {}
          BY <4>1 DEF Siblings, Root
        <5> QED
          BY <4>1, <5>1, FS_EmptySet
      <4>2. CASE p # 1
        <5>1. {q \in Siblings(p) : q < p} = {j \in 1 .. p - 1 : j \in Childhood(tree, tree.parent[p])}
          BY <3>1, <4>2 DEF Siblings, Childhood, Positions, Root
        <5> QED
          BY <4>2, <5>1 DEF Count
      <4> QED
        BY <4>1, <4>2
    <3> QED
      BY <3>1, <3>2, <3>3 DEF Truth
  <2> QED
    BY <2>2 DEF SlotsFaithful
<1> QED
  BY <1>1, Invariance, PTL

\* No assertion of get_or_add_node and get_or_add_element fails, and
\* token_at_offset reaches no unreachable! and no failing unwrap: at every
\* offset of a node that has text there are one or two children that touch it,
\* and two only where one ends and the other begins. The calls keep the callers'
\* contracts: offsets and ranges lie inside the node that is asked, and
\* next_child_after and its relatives are given the index and border of a child.
THEOREM NeverPanicsCorrect == Spec => []NeverPanics
<1>1. Inv => NeverPanics
  BY DEF Inv, NeverPanics
<1> QED
  BY <1>1, Invariance, PTL

----------------------------------------------------------------------------
(* What lies below what *)

\* What is below an element is a segment of positions that begins with it.
LEMMA Segments ==
    ASSUME IsTree(tree), NEW p \in Positions
    PROVE  /\ LastBelow(p) \in p .. tree.size /\ Block(tree, p, LastBelow(p))
           /\ \A q \in Positions : Under(p, q) <=> p <= q /\ q <= LastBelow(p)
<1>1. PICK n \in Nat : n = tree.size /\ p \in 1 .. n /\ Positions = 1 .. n
  BY TreeFacts DEF Positions
<1>2. PICK b : Block(tree, p, b)
  BY <1>1, Blocks
<1>3. /\ b \in p .. n /\ \A r \in p + 1 .. b : tree.parent[r] >= p
      /\ b < n => tree.parent[b + 1] < p
  BY <1>1, <1>2 DEF Block
<1>4. \A q \in 2 .. n : tree.parent[q] \in 1 .. n
  BY <1>1, TreeFacts
<1>5. ASSUME NEW q \in Positions PROVE Under(p, q) <=> p <= q /\ q <= b
  <2>1. ASSUME p <= q, q <= b PROVE Under(p, q)
    <3>1. \A r \in p + 1 .. q : r \in p + 1 .. b
      BY <1>1, <1>3, <2>1
    <3> QED
      BY <1>3, <2>1, <3>1 DEF Under
  <2>2. ASSUME Under(p, q), ~ (q <= b) PROVE FALSE
    <3>1. b + 1 \in p + 1 .. q /\ b < n /\ b + 1 \in 2 .. n
      BY <1>1, <1>3, <2>2
    <3>2. tree.parent[b + 1] >= p /\ tree.parent[b + 1] < p
      BY <1>3, <2>2, <3>1 DEF Under
    <3> QED
      BY <1>1, <1>4, <3>1, <3>2
  <2> QED
    BY <2>1, <2>2 DEF Under
<1>6. LastBelow(p) = b
  <2>1. PICK S : S = {q \in Positions : Under(p, q)}
    OBVIOUS
  <2>2. b \in S /\ \A q \in S : b >= q
    BY <1>1, <1>3, <1>5, <2>1
  <2>3. \A x \in S : (\A q \in S : x >= q) => x = b
    BY <1>1, <2>1, <2>2
  <2>4. Max(S) = CHOOSE x \in S : \A q \in S : x >= q
    BY DEF Max
  <2>5. Max(S) = b
    BY <2>2, <2>3, <2>4
  <2> QED
    BY <2>1, <2>5 DEF LastBelow
<1> QED
  BY <1>1, <1>2, <1>3, <1>5, <1>6

\* Where an element begins and ends, by its reference.
LEMMA TextEnds ==
    ASSUME IsTree(tree), NEW p \in Positions, NEW e, e = Truth(tree, p)
    PROVE  /\ e.pos = p /\ e.offset = TrueStart(p) /\ End(e) = TrueEnd(p)
           /\ TrueStart(p) \in Nat /\ TrueEnd(p) \in Nat /\ TrueStart(p) <= TrueEnd(p)
           /\ TrueStart(p) = BytesOf(tree, p - 1) /\ TrueEnd(p) = BytesOf(tree, LastBelow(p))
           /\ IsEmpty(e) <=> TrueStart(p) = TrueEnd(p)
<1>1. \A k : Bytes(k) = BytesOf(tree, k)
  BY Zenon DEF Bytes, BytesOf, OwnLens, Positions, IsToken
<1>2. TrueStart(p) = BytesOf(tree, p - 1) /\ TrueEnd(p) = BytesOf(tree, LastBelow(p))
  BY <1>1, Zenon DEF TrueStart, TrueEnd
<1>3. p \in 1 .. tree.size /\ tree.text_len[p] \in Nat /\ BytesOf(tree, p - 1) \in Nat
  BY TreeFacts DEF Positions
<1>4. Block(tree, p, LastBelow(p))
  BY Segments
<1>5. BytesOf(tree, LastBelow(p)) = BytesOf(tree, p - 1) + tree.text_len[p]
  BY <1>3, <1>4, AllFit DEF Fits
<1>6. e.pos = p /\ e.offset = BytesOf(tree, p - 1)
  BY <1>3, TruthFields
<1>7. End(e) = BytesOf(tree, p - 1) + tree.text_len[p]
  BY <1>6, Zenon DEF End, TextLen
<1>8. IsEmpty(e) <=> tree.text_len[p] = 0
  BY <1>6, Zenon DEF IsEmpty, TextLen
<1> QED
  BY <1>2, <1>3, <1>5, <1>6, <1>7, <1>8

\* More bytes come before a later position.
LEMMA BytesRise ==
    ASSUME IsTree(tree), NEW i \in 0 .. tree.size, NEW j \in 0 .. tree.size, i <= j
    PROVE  BytesOf(tree, i) \in Nat /\ BytesOf(tree, j) \in Nat /\ BytesOf(tree, i) <= BytesOf(tree, j)
<1>1. PICK n \in Nat : n = tree.size
  BY TreeFacts
<1>2. PICK ends : ends = [k \in 0 .. n |-> BytesOf(tree, k)]
  OBVIOUS
<1>3. Rises(ends, n)
  <2>1. \A k \in 1 .. n : k \in 0 .. n /\ k - 1 \in 0 .. n
    BY <1>1
  <2>2. \A k \in 0 .. n : BytesOf(tree, k) \in Nat
    BY <1>1, BytesSteps
  <2>3. ends \in [0 .. n -> Nat]
    BY <1>2, <2>2
  <2>4. ASSUME NEW k \in 1 .. n PROVE ends[k - 1] <= ends[k]
    <3>1. ends[k] = ends[k - 1] + OwnLens(tree)[k]
      BY <1>1, <1>2, <2>1, BytesSteps
    <3>2. OwnLens(tree)[k] \in Nat
      BY <1>1 DEF OwnLens, IsTree, Shaped
    <3> QED
      BY <2>1, <2>3, <3>1, <3>2
  <2> QED
    BY <1>1, <2>3, <2>4 DEF Rises
<1>4. i \in 0 .. n /\ j \in 0 .. n
  BY <1>1
<1> QED
  BY <1>2, <1>3, <1>4, RisesFar

\* Two elements are one below the other or lie apart, and so do their texts.
LEMMA Nested ==
    ASSUME IsTree(tree), NEW p \in Positions, NEW q \in Positions
    PROVE  /\ Under(p, q) => TrueStart(p) <= TrueStart(q) /\ TrueEnd(q) <= TrueEnd(p)
           /\ p < q /\ ~ Under(p, q) => TrueEnd(p) <= TrueStart(q)
           /\ Under(p, q) => LastBelow(q) <= LastBelow(p)
<1>1. PICK n \in Nat : n = tree.size /\ Positions = 1 .. n
  BY TreeFacts DEF Positions
<1>2. PICK b, c : b = LastBelow(p) /\ c = LastBelow(q)
  OBVIOUS
<1>3. /\ b \in p .. n /\ c \in q .. n
      /\ \A r \in Positions : (Under(p, r) <=> p <= r /\ r <= b) /\ (Under(q, r) <=> q <= r /\ r <= c)
  BY <1>1, <1>2, Segments
<1>4. /\ TrueStart(p) = BytesOf(tree, p - 1) /\ TrueEnd(p) = BytesOf(tree, b)
      /\ TrueStart(q) = BytesOf(tree, q - 1) /\ TrueEnd(q) = BytesOf(tree, c)
  BY <1>2, TextEnds
<1>5. ASSUME Under(p, q) PROVE c <= b
  <2>1. c \in Positions /\ p <= q /\ p <= c
    BY <1>1, <1>3, <1>5
  <2>2. \A r \in p + 1 .. q : tree.parent[r] >= p
    BY <1>5 DEF Under
  <2>3. \A r \in q + 1 .. c : tree.parent[r] >= q
    BY <1>1, <1>3, <2>1 DEF Under
  <2>4. ASSUME NEW r \in p + 1 .. c PROVE tree.parent[r] >= p
    <3>1. r \in 2 .. n /\ tree.parent[r] \in 1 .. n
      BY <1>1, <1>3, TreeFacts
    <3>2. CASE r <= q
      <4>1. r \in p + 1 .. q
        BY <1>1, <3>2
      <4> QED
        BY <2>2, <4>1
    <3>3. CASE ~ (r <= q)
      <4>1. r \in q + 1 .. c
        BY <1>1, <1>3, <3>3
      <4>2. tree.parent[r] >= q
        BY <2>3, <4>1
      <4> QED
        BY <1>1, <2>1, <3>1, <4>2
    <3> QED
      BY <3>2, <3>3
  <2>5. Under(p, c)
    BY <2>1, <2>4 DEF Under
  <2> QED
    BY <1>3, <2>1, <2>5
<1>6. ASSUME Under(p, q) PROVE TrueStart(p) <= TrueStart(q) /\ TrueEnd(q) <= TrueEnd(p)
  <2>1. p - 1 \in 0 .. n /\ q - 1 \in 0 .. n /\ p - 1 <= q - 1
    BY <1>1, <1>3, <1>6
  <2>2. b \in 0 .. n /\ c \in 0 .. n
    BY <1>1, <1>3
  <2>3. BytesOf(tree, p - 1) <= BytesOf(tree, q - 1)
    BY <1>1, <2>1, BytesRise
  <2>4. BytesOf(tree, c) <= BytesOf(tree, b)
    BY <1>1, <1>5, <1>6, <2>2, BytesRise
  <2> QED
    BY <1>4, <2>3, <2>4
<1>7. ASSUME p < q, ~ Under(p, q) PROVE TrueEnd(p) <= TrueStart(q)
  <2>1. b \in 0 .. n /\ q - 1 \in 0 .. n /\ b <= q - 1
    BY <1>1, <1>3, <1>7
  <2> QED
    BY <1>1, <1>4, <2>1, BytesRise
<1> QED
  BY <1>2, <1>5, <1>6, <1>7

\* Below an element, and not it: at or below one of its children.
LEMMA KidToward ==
    ASSUME IsTree(tree), NEW p \in Positions, NEW q \in Positions, Under(p, q), q # p
    PROVE  \E c \in Childhood(tree, p) : Under(c, q)
<1>1. PICK n \in Nat : n = tree.size /\ Positions = 1 .. n
  BY TreeFacts DEF Positions
<1>2. p \in 1 .. n /\ q \in 1 .. n /\ p < q /\ \A r \in p + 1 .. q : tree.parent[r] >= p
  BY <1>1 DEF Under
<1>3. \A r \in 2 .. n : /\ tree.parent[r] \in 1 .. n /\ tree.parent[r] < r
                        /\ \A x \in tree.parent[r] + 1 .. r : tree.parent[x] >= tree.parent[r]
  BY <1>1, TreeFacts
<1>4. PICK S : S = {x \in Nat : q - x \in Childhood(tree, p)}
  OBVIOUS
<1>5. q - (p + 1) \in S
  <2>1. p + 1 \in 2 .. n /\ p + 1 \in p + 1 .. q /\ q - (q - (p + 1)) = p + 1 /\ q - (p + 1) \in Nat
    BY <1>1, <1>2
  <2>2. tree.parent[p + 1] = p
    BY <1>1, <1>2, <1>3, <2>1
  <2> QED
    BY <1>1, <1>4, <2>1, <2>2 DEF Childhood
<1>6. PICK x \in S : \A y \in S : x <= y
  BY <1>4, <1>5, Least
<1>7. PICK c : c = q - x /\ c \in Childhood(tree, p) /\ x \in Nat
  BY <1>4
<1>8. c \in 2 .. n /\ c <= q /\ tree.parent[c] = p /\ p < c
  BY <1>1, <1>3, <1>7 DEF Childhood
<1>9. ASSUME NEW r \in c + 1 .. q PROVE tree.parent[r] >= c
  <2>1. r \in p + 1 .. q /\ r \in 2 .. n /\ c < r
    BY <1>1, <1>2, <1>8
  <2>2. tree.parent[r] # p
    <3>1. ASSUME tree.parent[r] = p PROVE FALSE
      <4>1. r \in Childhood(tree, p)
        BY <1>1, <2>1, <3>1 DEF Childhood
      <4>2. q - r \in Nat /\ q - (q - r) = r /\ q - r < x
        BY <1>2, <1>7, <1>8, <2>1
      <4>3. q - r \in S
        BY <1>4, <4>1, <4>2
      <4> QED
        BY <1>6, <1>7, <4>2, <4>3
    <3> QED
      BY <3>1
  <2>3. PICK b \in 1 .. n : b = tree.parent[r] /\ b < r /\ b > p
    BY <1>2, <1>3, <2>1, <2>2
  <2>4. ASSUME b < c PROVE FALSE
    <3>1. c \in b + 1 .. r
      BY <1>8, <2>1, <2>3, <2>4
    <3>2. tree.parent[c] >= b
      BY <1>3, <2>1, <2>3, <3>1
    <3> QED
      BY <1>2, <1>8, <2>3, <3>2
  <2> QED
    BY <1>8, <2>3, <2>4
<1>10. Under(c, q)
  BY <1>8, <1>9 DEF Under
<1> QED
  BY <1>7, <1>10

\* A path that gets closer to an end with every step goes on until there is no next.
Nears(next, rank, S) ==
    /\ rank \in [S -> 0 .. tree.size - 1]
    /\ \A e \in S : next[e] # None => rank[next[e]] < rank[e]

LEMMA SuccessorsEnd ==
    ASSUME tree.size \in Nat \ {0}, NEW S, NEW first \in S, NEW next, Goes(next, S),
           NEW rank, Nears(next, rank, S)
    PROVE  next[Last(Successors(first, next))] = None
<1>1. PICK n, P : n = tree.size /\ n \in Nat \ {0} /\ Prolongs(P, first, next, n, S)
  BY SuccessorsProlong
<1>2. first # None
  BY DEF Goes
<1>3. ASSUME NEW i \in 1 .. n
      PROVE  /\ P[i] \in Seq(S) /\ Len(P[i]) \in Nat \ {0} /\ P[i] # <<>>
             /\ Last(P[i]) = P[i][Len(P[i])] /\ Last(P[i]) \in S
             /\ next[Last(P[i])] \in S \cup {None}
  <2>1. P[i] \in Seq(S) /\ Len(P[i]) \in Nat \ {0}
    BY <1>1, <1>2 DEF Prolongs, Chain
  <2>2. Last(P[i]) = P[i][Len(P[i])] /\ Last(P[i]) \in S
    BY <2>1 DEF Last
  <2> QED
    BY <2>1, <2>2 DEF Goes
<1>4. PICK M : M = {i \in 0 .. n - 1 : \/ next[Last(P[i + 1])] = None
                                       \/ rank[Last(P[i + 1])] <= (n - 1) - i}
  OBVIOUS
<1>5. 0 \in M
  <2>1. P[1] = <<first>> /\ 1 \in 1 .. n /\ 0 + 1 = 1
    BY <1>1, <1>2 DEF Prolongs
  <2>2. Last(P[1]) \in S
    BY <1>3, <2>1
  <2>3. rank[Last(P[0 + 1])] <= (n - 1) - 0
    BY <1>1, <2>1, <2>2 DEF Nears
  <2> QED
    BY <1>1, <1>4, <2>3
<1>6. ASSUME NEW i \in 1 .. n - 1, i - 1 \in M PROVE i \in M
  <2>1. i + 1 \in 2 .. n /\ (i + 1) - 1 = i /\ (i - 1) + 1 = i /\ i \in 1 .. n /\ i + 1 \in 1 .. n
    BY <1>1
  <2>2. P[i + 1] = Extended(P[i], next)
    BY <1>1, <2>1 DEF Prolongs
  <2>3. PICK e : e = next[Last(P[i])] /\ e \in S \cup {None}
    BY <1>3, <2>1
  <2>4. P[i + 1] = IF e = None THEN P[i] ELSE Append(P[i], e)
    BY <1>3, <2>1, <2>2, <2>3, Zenon DEF Extended
  <2>5. CASE e = None
    <3>1. next[Last(P[i + 1])] = None
      BY <2>3, <2>4, <2>5
    <3>2. i \in 0 .. n - 1
      BY <1>1
    <3> QED
      BY <1>4, <3>1, <3>2
  <2>6. CASE e # None
    <3>1. P[i + 1] = Append(P[i], e) /\ e \in S
      BY <2>3, <2>4, <2>6
    <3>2. Len(P[i + 1]) = Len(P[i]) + 1 /\ P[i + 1][Len(P[i]) + 1] = e
      BY <1>3, <2>1, <3>1, AppendProperties
    <3>3. Last(P[i + 1]) = e
      BY <1>3, <2>1, <3>2
    <3>4. rank[Last(P[i])] <= (n - 1) - (i - 1)
      BY <1>4, <1>6, <2>1, <2>3, <2>6
    <3>5. rank[e] < rank[Last(P[i])]
      BY <1>3, <2>1, <2>3, <2>6 DEF Nears
    <3>6. rank[e] \in 0 .. n - 1 /\ rank[Last(P[i])] \in 0 .. n - 1
      BY <1>1, <1>3, <2>1, <3>1 DEF Nears
    <3>7. rank[Last(P[i + 1])] <= (n - 1) - i
      BY <1>1, <3>3, <3>4, <3>5, <3>6
    <3> QED
      BY <1>1, <1>4, <3>7
  <2> QED
    BY <2>5, <2>6
<1>7. n - 1 \in M /\ (n - 1) + 1 = n /\ n \in 1 .. n
  <2>1. n - 1 \in Nat
    BY <1>1
  <2>2. \A i \in 0 .. n - 1 : i \in M
    BY <1>5, <1>6, <2>1, UpTo
  <2> QED
    BY <1>1, <2>1, <2>2
<1>8. PICK l \in S : l = Last(P[n]) /\ next[l] \in S \cup {None}
  BY <1>3, <1>7
<1>9. next[l] = None \/ rank[l] <= 0
  <2>1. next[Last(P[n])] = None \/ rank[Last(P[n])] <= (n - 1) - (n - 1)
    BY <1>4, <1>7
  <2> QED
    BY <1>1, <1>8, <2>1
<1>10. ASSUME next[l] # None PROVE FALSE
  <2>1. next[l] \in S
    BY <1>8, <1>10
  <2>2. rank[next[l]] \in 0 .. n - 1 /\ rank[l] \in 0 .. n - 1 /\ rank[next[l]] < rank[l]
    BY <1>1, <1>10, <2>1 DEF Nears
  <2> QED
    BY <1>1, <1>9, <1>10, <2>2
<1> QED
  BY <1>1, <1>8, <1>10 DEF Prolongs

----------------------------------------------------------------------------
(* The first of many *)

\* What `find' finds: the first element at one of the places.
LEMMA PickedLeast ==
    ASSUME NEW T, NEW s \in Seq(T), NEW places, NEW e, e = First(Picked(s, places))
    PROVE  \/ e = None /\ \A i \in 1 .. Len(s) : i \notin places
           \/ \E i \in 1 .. Len(s) : i \in places /\ e = s[i] /\ \A j \in 1 .. i - 1 : j \notin places
<1>1. PICK t, n : t = Picked(s, places) /\ n = Len(s) /\ n \in Nat
  OBVIOUS
<1>2. t \in Seq(T) /\ Len(t) \in Nat
  <2>1. t \in Seq(T)
    BY <1>1, PickedElements
  <2> QED
    BY <2>1
<1>3. Holds(t, s, places, n)
  BY <1>1, PickedPlaces
<1>4. CASE t = <<>>
  <2>1. Len(t) = 0 /\ e = None
    BY <1>1, <1>4 DEF First
  <2>2. \A i \in 1 .. n : i \notin places
    BY <1>3, <2>1 DEF Holds
  <2> QED
    BY <1>1, <2>1, <2>2
<1>5. CASE t # <<>>
  <2>1. Len(t) > 0 /\ 1 \in 1 .. Len(t) /\ Head(t) = t[1]
    BY <1>2, <1>5
  <2>2. e = t[1]
    BY <1>1, <1>5, <2>1, Zenon DEF First
  <2>3. PICK i \in 1 .. n : i \in places /\ Count(places, i) = 1
    BY <1>3, <2>1 DEF Holds
  <2>4. t[1] = s[i]
    BY <1>3, <2>3 DEF Holds
  <2>5. ASSUME NEW j \in 1 .. i - 1, j \in places PROVE FALSE
    <3>1. PICK k \in Nat : k + 1 = j
      BY <1>1, <2>5
    <3>2. PICK l \in Nat : l + 1 = i
      BY <1>1, <2>3
    <3>3. Count(places, j) = Count(places, k) + 1 /\ Count(places, k) \in Nat
      BY <2>5, <3>1, CountSteps
    <3>4. Count(places, i) = Count(places, l) + 1
      BY <2>3, <3>2, CountSteps
    <3>5. j \in Nat /\ j <= l
      BY <1>1, <2>5, <3>2
    <3>6. Count(places, j) <= Count(places, l) /\ Count(places, l) \in Nat
      BY <3>2, <3>5, CountMonotone
    <3> QED
      BY <2>3, <3>3, <3>4, <3>6
  <2> QED
    BY <1>1, <2>2, <2>3, <2>4, <2>5
<1> QED
  BY <1>4, <1>5

\* The reference to the first or the last position of a set, None if it is empty.
Leads(e, S) == IF S = {} THEN e = None ELSE \E q \in S : e = Truth(tree, q) /\ \A x \in S : q <= x
Trails(e, S) == IF S = {} THEN e = None ELSE \E q \in S : e = Truth(tree, q) /\ \A x \in S : x <= q

LEMMA Extremes ==
    ASSUME IsTree(tree), NEW S \in SUBSET Positions, NEW e
    PROVE  /\ Leads(e, S) => e.pos = Leftmost(S)
           /\ Trails(e, S) => e.pos = Rightmost(S)
<1>1. S \subseteq Int /\ S \subseteq 1 .. tree.size
  BY TreeFacts DEF Positions
<1>2. CASE S = {}
  BY <1>2 DEF Leads, Trails, Leftmost, Rightmost, None
<1>3. ASSUME NEW q \in S, e = Truth(tree, q), \A x \in S : q <= x PROVE e.pos = Leftmost(S)
  <2>1. e.pos = q
    BY <1>1, <1>3, TruthFields
  <2>2. \A x \in S : (\A y \in S : x <= y) => x = q
    BY <1>1, <1>3
  <2>3. Min(S) = CHOOSE x \in S : \A y \in S : x <= y
    BY DEF Min
  <2>4. Min(S) = q
    BY <1>3, <2>2, <2>3
  <2> QED
    BY <1>3, <2>1, <2>4 DEF Leftmost
<1>4. ASSUME NEW q \in S, e = Truth(tree, q), \A x \in S : x <= q PROVE e.pos = Rightmost(S)
  <2>1. e.pos = q
    BY <1>1, <1>4, TruthFields
  <2>2. \A x \in S : (\A y \in S : x >= y) => x = q
    BY <1>1, <1>4
  <2>3. Max(S) = CHOOSE x \in S : \A y \in S : x >= y
    BY DEF Max
  <2>4. Max(S) = q
    <3>1. \A y \in S : q >= y
      BY <1>1, <1>4
    <3> QED
      BY <1>4, <2>2, <2>3, <3>1
  <2> QED
    BY <1>4, <2>1, <2>4 DEF Rightmost
<1> QED
  BY <1>2, <1>3, <1>4 DEF Leads, Trails

\* A sequence of references in the order of their positions, or the other way.
Rising(refs, S) ==
    /\ refs \in Seq(Truths(tree)) /\ S = {refs[i].pos : i \in 1 .. Len(refs)}
    /\ \A i, j \in 1 .. Len(refs) : i < j => refs[i].pos < refs[j].pos

Falling(refs, S) ==
    /\ refs \in Seq(Truths(tree)) /\ S = {refs[i].pos : i \in 1 .. Len(refs)}
    /\ \A i, j \in 1 .. Len(refs) : i < j => refs[j].pos < refs[i].pos

LEMMA RisingFirst ==
    ASSUME IsTree(tree), NEW refs, NEW S, Rising(refs, S) \/ Falling(refs, S)
    PROVE  /\ Rising(refs, S) => Leads(First(refs), S) /\ Leads(First(filter_nodes(refs)), S \cap Nodes)
           /\ Falling(refs, S) => Trails(First(refs), S) /\ Trails(First(filter_nodes(refs)), S \cap Nodes)
<1>1. refs \in Seq(Truths(tree)) /\ S = {refs[i].pos : i \in 1 .. Len(refs)}
  BY DEF Rising, Falling
<1>2. PICK n \in Nat : n = Len(refs) /\ DOMAIN refs = 1 .. n
  BY <1>1
<1>3. \A i \in 1 .. n : /\ refs[i] \in Truths(tree) /\ refs[i] = Truth(tree, refs[i].pos)
                        /\ refs[i].pos \in Positions /\ refs[i].pos \in Int
  <2>1. ASSUME NEW i \in 1 .. n
        PROVE  /\ refs[i] \in Truths(tree) /\ refs[i] = Truth(tree, refs[i].pos)
               /\ refs[i].pos \in Positions /\ refs[i].pos \in Int
    <3>1. refs[i] \in Truths(tree)
      BY <1>1, <1>2
    <3> QED
      BY <3>1, TruthSlot, TreeFacts DEF Positions
  <2> QED
    BY <2>1
<1>4. PICK f : f = [i \in 1 .. n |-> refs[i].pos]
  OBVIOUS
<1>5. /\ \A i \in 1 .. n : f[i] \in Int /\ f[i] \in Positions /\ refs[i] = Truth(tree, f[i]) /\ f[i] = refs[i].pos
      /\ S = {f[i] : i \in 1 .. n} /\ S \subseteq Positions
      /\ Rising(refs, S) => \A i, j \in 1 .. n : i < j => f[i] < f[j]
      /\ Falling(refs, S) => \A i, j \in 1 .. n : i < j => f[j] < f[i]
  BY <1>1, <1>2, <1>3, <1>4 DEF Rising, Falling
<1>6. ASSUME NEW places, NEW e, NEW X, X = {f[i] : i \in {j \in 1 .. n : j \in places}},
             \/ e = None /\ \A i \in 1 .. n : i \notin places
             \/ \E i \in 1 .. n : i \in places /\ e = refs[i] /\ \A j \in 1 .. i - 1 : j \notin places
      PROVE  (Rising(refs, S) => Leads(e, X)) /\ (Falling(refs, S) => Trails(e, X))
  <2>1. CASE e = None /\ \A i \in 1 .. n : i \notin places
    <3>1. X = {}
      BY <1>6, <2>1
    <3> QED
      BY <2>1, <3>1 DEF Leads, Trails
  <2>2. ASSUME NEW i \in 1 .. n, i \in places, e = refs[i], \A j \in 1 .. i - 1 : j \notin places
        PROVE  (Rising(refs, S) => Leads(e, X)) /\ (Falling(refs, S) => Trails(e, X))
    <3>1. f[i] \in X /\ X # {} /\ e = Truth(tree, f[i])
      BY <1>5, <1>6, <2>2
    <3>2. \A j \in 1 .. n : j \in places => j = i \/ i < j
      BY <2>2
    <3>3. ASSUME Rising(refs, S), NEW x \in X PROVE f[i] <= x
      <4>1. PICK j \in 1 .. n : j \in places /\ x = f[j]
        BY <1>6, <3>3
      <4>2. j = i \/ f[i] < f[j]
        BY <1>5, <3>2, <3>3, <4>1
      <4> QED
        BY <1>5, <4>1, <4>2
    <3>4. ASSUME Falling(refs, S), NEW x \in X PROVE x <= f[i]
      <4>1. PICK j \in 1 .. n : j \in places /\ x = f[j]
        BY <1>6, <3>4
      <4>2. j = i \/ f[j] < f[i]
        BY <1>5, <3>2, <3>4, <4>1
      <4> QED
        BY <1>5, <4>1, <4>2
    <3> QED
      BY <3>1, <3>3, <3>4 DEF Leads, Trails
  <2> QED
    BY <1>6, <2>1, <2>2
<1>7. (Rising(refs, S) => Leads(First(refs), S)) /\ (Falling(refs, S) => Trails(First(refs), S))
  <2>1. PICK all, X : all = 1 .. n /\ X = {f[i] : i \in {j \in 1 .. n : j \in all}}
    OBVIOUS
  <2>2. X = S
    BY <1>5, <2>1
  <2>3. \/ First(refs) = None /\ \A i \in 1 .. n : i \notin all
        \/ \E i \in 1 .. n : i \in all /\ First(refs) = refs[i] /\ \A j \in 1 .. i - 1 : j \notin all
    <3>1. CASE n = 0
      BY <1>1, <1>2, <3>1 DEF First
    <3>2. CASE n # 0
      <4>1. refs # <<>> /\ Head(refs) = refs[1] /\ 1 \in 1 .. n /\ 1 .. 1 - 1 = {}
        BY <1>1, <1>2, <3>2
      <4>2. First(refs) = refs[1]
        BY <4>1 DEF First
      <4> QED
        BY <2>1, <4>1, <4>2
    <3> QED
      BY <3>1, <3>2
  <2> QED
    BY <1>6, <2>1, <2>2, <2>3
<1>8. /\ Rising(refs, S) => Leads(First(filter_nodes(refs)), S \cap Nodes)
      /\ Falling(refs, S) => Trails(First(filter_nodes(refs)), S \cap Nodes)
  <2>1. PICK places, e, X : /\ places = {i \in DOMAIN refs : ~ IsToken(refs[i].pos)}
                            /\ e = First(filter_nodes(refs))
                            /\ X = {f[i] : i \in {j \in 1 .. n : j \in places}}
    OBVIOUS
  <2>2. X = S \cap Nodes
    BY <1>2, <1>5, <2>1 DEF Nodes
  <2>3. e = First(Picked(refs, places))
    BY <2>1, Zenon DEF filter_nodes
  <2>4. \/ e = None /\ \A i \in 1 .. n : i \notin places
        \/ \E i \in 1 .. n : i \in places /\ e = refs[i] /\ \A j \in 1 .. i - 1 : j \notin places
    BY <1>1, <1>2, <2>3, PickedLeast
  <2> QED
    BY <1>6, <2>1, <2>2, <2>4
<1> QED
  BY <1>7, <1>8

----------------------------------------------------------------------------
(* The neighbours found are the nearest ones *)

Right(p) == {q \in Siblings(p) : q > p}
Left(p) == {q \in Siblings(p) : q < p}

\* The children from an index on, and before one, in order.
LEMMA KidOrder ==
    ASSUME IsTree(tree), NEW p \in Positions, NEW k \in 0 .. Len(Kids(p)), NEW refs
    PROVE  /\ Ahead(p, k, refs) => Rising(refs, {q \in Childhood(tree, p) : Count(Childhood(tree, p), q) > k})
           /\ Astern(p, k, refs) => Falling(refs, {q \in Childhood(tree, p) : Count(Childhood(tree, p), q) <= k})
<1>1. PICK s, c, n : s = Kids(p) /\ c = Childhood(tree, p) /\ n = tree.size /\ n \in Nat /\ p \in 1 .. n
  BY TreeFacts DEF Positions
<1>2. s = tree.kids[p] /\ KidList(tree, p, s)
  BY <1>1, Kidlists DEF Kids
<1>3. PICK l \in Nat : l = Len(s) /\ k \in 0 .. l
  BY <1>1, <1>2 DEF KidList
<1>4. /\ \A i \in 1 .. l : s[i] \in c /\ Count(c, s[i]) = i
      /\ \A q \in c : Count(c, q) \in 1 .. l /\ s[Count(c, q)] = q
  <2>1. Shaped(tree) /\ KidsOf(tree)[p] = s
    BY <1>2 DEF IsTree
  <2> QED
    BY <1>1, <1>3, <2>1, KidsAre
<1>5. \A i, j \in 1 .. l : i < j => s[i] < s[j]
  BY <1>2, <1>3 DEF KidList
<1>6. \A i \in 1 .. l : /\ Truth(tree, s[i]) \in KidTruths(tree, p) /\ Truth(tree, s[i]).pos = s[i]
                        /\ Truth(tree, s[i]) \in Truths(tree)
  <2>1. ASSUME NEW i \in 1 .. l
        PROVE  /\ Truth(tree, s[i]) \in KidTruths(tree, p) /\ Truth(tree, s[i]).pos = s[i]
               /\ Truth(tree, s[i]) \in Truths(tree)
    <3>1. s[i] \in c
      BY <1>4
    <3>2. s[i] \in 1 .. tree.size
      BY <1>1, <3>1 DEF Childhood
    <3> QED
      BY <1>1, <3>1, <3>2, TruthFields DEF KidTruths, Truths
  <2> QED
    BY <2>1
<1>7. KidTruths(tree, p) \subseteq Truths(tree)
  BY <1>1 DEF KidTruths, Truths, Childhood
<1>8. ASSUME Ahead(p, k, refs) PROVE Rising(refs, {q \in c : Count(c, q) > k})
  <2>1. /\ refs \in Seq(KidTruths(tree, p)) /\ Len(refs) = l - k
        /\ \A j \in 1 .. l - k : refs[j] = Truth(tree, s[k + j])
    BY <1>1, <1>3, <1>8 DEF Ahead
  <2>2. \A j \in 1 .. l - k : refs[j].pos = s[k + j] /\ k + j \in 1 .. l
    BY <1>3, <1>6, <2>1
  <2>3. PICK X : X = {refs[j].pos : j \in 1 .. l - k}
    OBVIOUS
  <2>4. ASSUME NEW x \in X PROVE x \in c /\ Count(c, x) > k
    <3>1. PICK j \in 1 .. l - k : x = s[k + j] /\ k + j \in 1 .. l
      BY <2>2, <2>3
    <3> QED
      BY <1>3, <1>4, <3>1
  <2>5. ASSUME NEW q \in c, Count(c, q) > k PROVE q \in X
    <3>1. PICK i \in 1 .. l : i = Count(c, q) /\ s[i] = q
      BY <1>4
    <3>2. PICK j \in 1 .. l - k : k + j = i
      <4>1. i - k \in 1 .. l - k /\ k + (i - k) = i
        BY <1>3, <2>5, <3>1
      <4> QED
        BY <4>1
    <3> QED
      BY <2>2, <2>3, <3>1, <3>2
  <2>6. X = {q \in c : Count(c, q) > k}
    BY <2>4, <2>5
  <2>7. refs \in Seq(Truths(tree))
    BY <1>7, <2>1
  <2>8. ASSUME NEW i \in 1 .. l - k, NEW j \in 1 .. l - k, i < j PROVE refs[i].pos < refs[j].pos
    <3>1. k + i < k + j /\ k + i \in 1 .. l /\ k + j \in 1 .. l
      BY <1>3, <2>8
    <3> QED
      BY <1>5, <2>2, <3>1
  <2> QED
    BY <2>1, <2>3, <2>6, <2>7, <2>8 DEF Rising
<1>9. ASSUME Astern(p, k, refs) PROVE Falling(refs, {q \in c : Count(c, q) <= k})
  <2>1. /\ refs \in Seq(KidTruths(tree, p)) /\ Len(refs) = k
        /\ \A j \in 1 .. k : refs[j] = Truth(tree, s[(k - j) + 1])
    BY <1>1, <1>3, <1>9 DEF Astern
  <2>2. \A j \in 1 .. k : refs[j].pos = s[(k - j) + 1] /\ (k - j) + 1 \in 1 .. l
    BY <1>3, <1>6, <2>1
  <2>3. PICK X : X = {refs[j].pos : j \in 1 .. k}
    OBVIOUS
  <2>4. ASSUME NEW x \in X PROVE x \in c /\ Count(c, x) <= k
    <3>1. PICK j \in 1 .. k : x = s[(k - j) + 1] /\ (k - j) + 1 \in 1 .. l
      BY <2>2, <2>3
    <3> QED
      BY <1>3, <1>4, <3>1
  <2>5. ASSUME NEW q \in c, Count(c, q) <= k PROVE q \in X
    <3>1. PICK i \in 1 .. l : i = Count(c, q) /\ s[i] = q
      BY <1>4
    <3>2. PICK j \in 1 .. k : (k - j) + 1 = i
      <4>1. (k - i) + 1 \in 1 .. k /\ (k - ((k - i) + 1)) + 1 = i
        BY <1>3, <2>5, <3>1
      <4> QED
        BY <4>1
    <3> QED
      BY <2>2, <2>3, <3>1, <3>2
  <2>6. X = {q \in c : Count(c, q) <= k}
    BY <2>4, <2>5
  <2>7. refs \in Seq(Truths(tree))
    BY <1>7, <2>1
  <2>8. ASSUME NEW i \in 1 .. k, NEW j \in 1 .. k, i < j PROVE refs[j].pos < refs[i].pos
    <3>1. (k - j) + 1 < (k - i) + 1 /\ (k - i) + 1 \in 1 .. l /\ (k - j) + 1 \in 1 .. l
      BY <1>3, <2>8
    <3> QED
      BY <1>5, <2>2, <3>1
  <2> QED
    BY <2>1, <2>3, <2>6, <2>7, <2>8 DEF Falling
<1> QED
  BY <1>1, <1>8, <1>9

LEMMA SiblingSets ==
    ASSUME IsTree(tree), NEW p \in Positions, p # Root, NEW e, e = Truth(tree, p),
           NEW c, c = Childhood(tree, tree.parent[p])
    PROVE  /\ Right(p) = {q \in c : Count(c, q) > e.index + 1}
           /\ Left(p) = {q \in c : Count(c, q) <= e.index}
<1>1. PICK par, s, n : par = tree.parent[p] /\ s = Kids(par) /\ n = tree.size /\ n \in Nat
  BY TreeFacts
<1>2. par \in 1 .. n /\ par \in Positions /\ p \in c /\ e.index \in Nat /\ e.index + 1 <= Len(s) /\ s[e.index + 1] = p
  BY <1>1, Places DEF Placed, Positions
<1>3. s = tree.kids[par] /\ KidList(tree, par, s)
  BY <1>1, <1>2, Kidlists DEF Kids
<1>4. PICK l \in Nat : l = Len(s)
  BY <1>3 DEF KidList
<1>5. /\ \A i \in 1 .. l : s[i] \in c /\ Count(c, s[i]) = i
      /\ \A q \in c : Count(c, q) \in 1 .. l /\ s[Count(c, q)] = q
  <2>1. Shaped(tree) /\ KidsOf(tree)[par] = s
    BY <1>3 DEF IsTree
  <2>2. c = Childhood(tree, par) /\ par \in 1 .. tree.size
    BY <1>1, <1>2
  <2> QED
    BY <1>4, <2>1, <2>2, KidsAre
<1>6. \A i, j \in 1 .. l : i < j => s[i] < s[j]
  BY <1>3, <1>4 DEF KidList
<1>7. c \subseteq Int /\ \A q : q \in c <=> q \in Siblings(p)
  BY <1>1, <1>2 DEF Childhood, Siblings, Positions, Root
<1>8. PICK k \in 1 .. l : k = e.index + 1 /\ k - 1 = e.index /\ s[k] = p /\ Count(c, p) = k
  <2>1. e.index + 1 \in 1 .. l
    BY <1>2, <1>4
  <2> QED
    BY <1>2, <1>5, <2>1
<1>9. ASSUME NEW q \in c PROVE (q > p <=> Count(c, q) > k) /\ (q < p <=> Count(c, q) <= k - 1)
  <2>1. PICK i \in 1 .. l : i = Count(c, q) /\ s[i] = q
    BY <1>5
  <2>2. (i < k => q < p) /\ (k < i => p < q) /\ (i = k => q = p)
    BY <1>6, <1>8, <2>1
  <2>3. q \in Int /\ p \in Int
    BY <1>2, <1>7
  <2> QED
    BY <1>8, <2>1, <2>2, <2>3
<1> QED
  BY <1>7, <1>8, <1>9 DEF Right, Left

\* A token has no children.
LEMMA TokensAreLeaves ==
    ASSUME IsTree(tree), NEW p \in Positions, IsToken(p)
    PROVE  Childhood(tree, p) = {} /\ Kids(p) = <<>>
<1>1. Childhood(tree, p) = {}
  BY DEF Childhood, IsToken, IsTree, Shaped
<1>2. p \in 1 .. tree.size
  BY DEF Positions
<1>3. PICK s : s = Kids(p) /\ KidList(tree, p, s)
  BY <1>2, Kidlists DEF Kids
<1>4. ASSUME Len(s) # 0 PROVE FALSE
  <2>1. 1 \in 1 .. Len(s)
    BY <1>3, <1>4 DEF KidList
  <2> QED
    BY <1>1, <1>3, <2>1 DEF KidList, Childhood
<1>5. s \in Seq(2 .. tree.size)
  BY <1>3 DEF KidList
<1>6. s = <<>>
  <2>1. PICK T : T = 2 .. tree.size
    OBVIOUS
  <2>2. s \in Seq(T) /\ Len(s) = 0
    BY <1>4, <1>5, <2>1
  <2> QED
    BY <2>2
<1> QED
  BY <1>1, <1>3, <1>6

LEMMA NearestKids ==
    ASSUME IsTree(tree), NEW p \in Positions, NEW e, e = Truth(tree, p),
           NEW c, c = Childhood(tree, p)
    PROVE  /\ Leads(FirstChildOrToken(e), c) /\ Leads(FirstChild(e), c \cap Nodes)
           /\ Trails(LastChildOrToken(e), c) /\ Trails(LastChild(e), c \cap Nodes)
<1>1. /\ e.pos = p /\ e.offset = KidOffset(p, 0) /\ Len(Kids(p)) \in Nat
      /\ ~ IsToken(p) => End(e) = KidOffset(p, Len(Kids(p)))
  BY Within
<1>2. PICK l \in Nat : l = Len(Kids(p)) /\ 0 <= l /\ l <= l /\ 0 \in 0 .. l /\ l \in 0 .. l
  BY <1>1
<1>3. \A q \in c : Count(c, q) > 0 /\ Count(c, q) <= l
  <2>1. p \in 1 .. tree.size /\ Shaped(tree) /\ KidsOf(tree)[p] = Kids(p)
    BY DEF Positions, IsTree, Kids
  <2>2. \A q \in c : Count(c, q) \in 1 .. l
    BY <1>2, <2>1, KidsAre
  <2> QED
    BY <1>2, <2>2
<1>4. Leads(FirstChildOrToken(e), c) /\ Leads(FirstChild(e), c \cap Nodes)
  <2>1. PICK refs : refs = ChildrenFrom(p, 0, e.offset)
    OBVIOUS
  <2>2. Ahead(p, 0, refs)
    BY <1>1, <1>2, <2>1, Forwards
  <2>3. Rising(refs, {q \in c : Count(c, q) > 0})
    BY <1>2, <2>2, KidOrder
  <2>4. {q \in c : Count(c, q) > 0} = c
    BY <1>3
  <2>5. Rising(refs, c)
    BY <2>3, <2>4
  <2>6. Leads(First(refs), c) /\ Leads(First(filter_nodes(refs)), c \cap Nodes)
    BY <2>5, RisingFirst
  <2> QED
    BY <1>1, <2>1, <2>6 DEF FirstChild, FirstChildOrToken
<1>5. Trails(LastChildOrToken(e), c) /\ Trails(LastChild(e), c \cap Nodes)
  <2>1. PICK refs : refs = ChildrenTo(p, l, End(e))
    OBVIOUS
  <2>2. Falling(refs, c)
    <3>1. CASE ~ IsToken(p)
      <4>1. Astern(p, l, refs)
        BY <1>1, <1>2, <2>1, <3>1, Backwards
      <4>2. Falling(refs, {q \in c : Count(c, q) <= l})
        BY <1>2, <4>1, KidOrder
      <4>3. {q \in c : Count(c, q) <= l} = c
        BY <1>3
      <4> QED
        BY <4>2, <4>3
    <3>2. CASE IsToken(p)
      <4>1. c = {} /\ Kids(p) = <<>> /\ l = 0
        BY <1>2, <3>2, TokensAreLeaves
      <4>2. PICK rest : rest = Reverse(SubSeq(Kids(p), 1, l))
        OBVIOUS
      <4>3. Len(rest) = 0 /\ DOMAIN rest = {}
        <5>1. SubSeq(<<>>, 1, 0) = <<>>
          OBVIOUS
        <5>2. rest = Reverse(<<>>)
          BY <4>1, <4>2, <5>1
        <5> QED
          BY <5>2 DEF Reverse
      <4>4. refs = [j \in {} |-> [pos |-> rest[j], index |-> l - j,
                                  offset |-> End(e) - Total(rest, tree.text_len, j)]]
        BY <2>1, <4>2, <4>3 DEF ChildrenTo
      <4>5. refs = <<>>
        BY <4>4
      <4>6. refs \in Seq(Truths(tree)) /\ Len(refs) = 0
        BY <4>5
      <4> QED
        BY <4>1, <4>6 DEF Falling
    <3> QED
      BY <3>1, <3>2
  <2>3. Trails(First(refs), c) /\ Trails(First(filter_nodes(refs)), c \cap Nodes)
    BY <2>2, RisingFirst
  <2> QED
    BY <1>1, <1>2, <2>1, <2>3 DEF LastChild, LastChildOrToken
<1> QED
  BY <1>4, <1>5

LEMMA NearestSiblings ==
    ASSUME IsTree(tree), NEW p \in Positions, NEW e, e = Truth(tree, p)
    PROVE  /\ Leads(NextSiblingOrToken(e), Right(p)) /\ Leads(NextSibling(e), Right(p) \cap Nodes)
           /\ Trails(PrevSiblingOrToken(e), Left(p)) /\ Trails(PrevSibling(e), Left(p) \cap Nodes)
           /\ p # Root =>
                /\ Leads(NextChildAfter(tree.parent[p], e.index, End(e)), Right(p) \cap Nodes)
                /\ Trails(PrevChildBefore(tree.parent[p], e.index, e.offset), Left(p) \cap Nodes)
<1>1. e.pos = p
  BY Within
<1>2. CASE p = Root
  <2>1. Right(p) = {} /\ Left(p) = {}
    BY <1>2 DEF Right, Left, Siblings
  <2>2. /\ NextSiblingOrToken(e) = None /\ NextSibling(e) = None
        /\ PrevSiblingOrToken(e) = None /\ PrevSibling(e) = None
    BY <1>1, <1>2 DEF NextSiblingOrToken, NextSibling, PrevSiblingOrToken, PrevSibling
  <2> QED
    BY <1>2, <2>1, <2>2 DEF Leads, Trails
<1>3. CASE p # Root
  <2>1. PICK par, c : par = tree.parent[p] /\ c = Childhood(tree, par)
    OBVIOUS
  <2>2. /\ par \in Positions /\ e.index \in Nat /\ e.index + 1 <= Len(Kids(par))
        /\ e.offset = KidOffset(par, e.index) /\ End(e) = KidOffset(par, e.index + 1)
        /\ Len(Kids(par)) \in Nat
    <3>1. Placed(p, e, par)
      BY <1>3, <2>1, Places
    <3>2. Len(Kids(par)) \in Nat
      BY <3>1, Within DEF Placed
    <3> QED
      BY <3>1, <3>2 DEF Placed
  <2>3. PICK k \in Nat : k = e.index /\ k + 1 \in Nat /\ k \in 0 .. Len(Kids(par)) /\ k + 1 \in 0 .. Len(Kids(par))
    BY <2>2
  <2>4. PICK ahead, astern : /\ ahead = ChildrenFrom(par, e.index + 1, End(e))
                             /\ astern = ChildrenTo(par, e.index, e.offset)
    OBVIOUS
  <2>5. Ahead(par, k + 1, ahead) /\ Astern(par, k, astern)
    BY <2>2, <2>3, <2>4, Forwards, Backwards
  <2>6. Rising(ahead, {q \in c : Count(c, q) > k + 1}) /\ Falling(astern, {q \in c : Count(c, q) <= k})
    BY <2>1, <2>2, <2>3, <2>5, KidOrder
  <2>7. Rising(ahead, Right(p)) /\ Falling(astern, Left(p))
    <3>1. Right(p) = {q \in c : Count(c, q) > k + 1} /\ Left(p) = {q \in c : Count(c, q) <= k}
      BY <1>3, <2>1, <2>3, SiblingSets
    <3> QED
      BY <2>6, <3>1
  <2>8. /\ Leads(First(ahead), Right(p)) /\ Leads(First(filter_nodes(ahead)), Right(p) \cap Nodes)
        /\ Trails(First(astern), Left(p)) /\ Trails(First(filter_nodes(astern)), Left(p) \cap Nodes)
    BY <2>7, RisingFirst
  <2>9. /\ NextSiblingOrToken(e) = First(ahead) /\ NextSibling(e) = First(filter_nodes(ahead))
        /\ PrevSiblingOrToken(e) = First(astern) /\ PrevSibling(e) = First(filter_nodes(astern))
        /\ NextChildAfter(par, e.index, End(e)) = First(filter_nodes(ahead))
        /\ PrevChildBefore(par, e.index, e.offset) = First(filter_nodes(astern))
    BY <1>1, <1>3, <2>1, <2>4, Zenon
       DEF NextSiblingOrToken, NextSibling, PrevSiblingOrToken, PrevSibling, NextChildAfter, PrevChildBefore,
           NextChildOrTokenAfter, PrevChildOrTokenBefore
  <2> QED
    BY <2>1, <2>8, <2>9
<1> QED
  BY <1>2, <1>3

----------------------------------------------------------------------------
(* From neighbour to neighbour, all of them *)

Before(up, x, y) == IF up THEN x < y ELSE y < x

Nearest(e, T, q, up) ==
    LET rest == {x \in T : Before(up, q, x)} IN
    IF rest = {} THEN e = None
    ELSE \E x \in rest : e = Truth(tree, x) /\ \A y \in rest : y = x \/ Before(up, x, y)

Lists(path, T, up) ==
    /\ path \in Seq(Truths(tree)) /\ T = {path[i].pos : i \in 1 .. Len(path)}
    /\ \A i, j \in 1 .. Len(path) : i < j => Before(up, path[i].pos, path[j].pos)

\* Going to the nearest element of a set in one direction, from the first one in
\* that direction, visits all of it.
LEMMA NearestOfAll ==
    ASSUME IsTree(tree), NEW T \in SUBSET Positions, NEW q \in T, NEW up \in BOOLEAN,
           \A x \in T : x = q \/ Before(up, q, x),
           NEW next, \A x \in T : Nearest(next[Truth(tree, x)], T, x, up),
           NEW path, path = Successors(Truth(tree, q), next)
    PROVE  Lists(path, T, up)
<1>1. PICK size \in Nat \ {0} : size = tree.size /\ Positions = 1 .. size
  BY TreeFacts DEF Positions
<1>2. T \subseteq 1 .. size /\ T \subseteq Int
  BY <1>1
<1>3. PICK S : S = {Truth(tree, x) : x \in T}
  OBVIOUS
<1>4. \A x \in T : Truth(tree, x) \in S /\ Truth(tree, x).pos = x /\ Truth(tree, x) # None
  BY <1>1, <1>2, <1>3, TruthFields
<1>5. S \subseteq Truths(tree) /\ None \notin S
  BY <1>1, <1>2, <1>3, <1>4 DEF Truths
<1>6. \A e \in S : e.pos \in T /\ e = Truth(tree, e.pos) /\ Nearest(next[e], T, e.pos, up)
  BY <1>3, <1>4
<1>7. \A e \in S : next[e] # None => next[e] \in S /\ Before(up, e.pos, next[e].pos)
  <2>1. ASSUME NEW e \in S, next[e] # None PROVE next[e] \in S /\ Before(up, e.pos, next[e].pos)
    <3>1. PICK x \in {y \in T : Before(up, e.pos, y)} : next[e] = Truth(tree, x)
      BY <1>6, <2>1 DEF Nearest
    <3> QED
      BY <1>4, <3>1
  <2> QED
    BY <2>1
<1>8. Goes(next, S)
  BY <1>5, <1>7 DEF Goes
<1>9. PICK first \in S : first = Truth(tree, q) /\ first.pos = q
  BY <1>4
<1>10. Chain(path, first, next, S)
  BY <1>1, <1>8, <1>9, SuccessorsChain
<1>11. next[Last(path)] = None
  <2>1. PICK rank : rank = [e \in S |-> IF up THEN size - e.pos ELSE e.pos - 1]
    OBVIOUS
  <2>2. \A e \in S : e.pos \in 1 .. size
    BY <1>2, <1>6
  <2>3. rank \in [S -> 0 .. size - 1]
    <3>1. ASSUME NEW e \in S PROVE (IF up THEN size - e.pos ELSE e.pos - 1) \in 0 .. size - 1
      BY <1>1, <2>2
    <3> QED
      BY <2>1, <3>1
  <2>4. ASSUME NEW e \in S, next[e] # None PROVE rank[next[e]] < rank[e]
    <3>1. PICK x, y : x = e.pos /\ y = next[e].pos /\ x \in 1 .. size /\ y \in 1 .. size /\ Before(up, x, y)
      BY <1>7, <2>2, <2>4
    <3>2. rank[e] = (IF up THEN size - x ELSE x - 1) /\ rank[next[e]] = (IF up THEN size - y ELSE y - 1)
      BY <1>7, <2>1, <2>4, <3>1
    <3> QED
      BY <1>1, <3>1, <3>2 DEF Before
  <2>5. Nears(next, rank, S)
    BY <1>1, <2>3, <2>4 DEF Nears
  <2> QED
    BY <1>1, <1>8, <1>9, <2>5, SuccessorsEnd
<1>12. PICK n \in Nat \ {0} : n = Len(path) /\ path \in Seq(S) /\ path[1] = first
  BY <1>5, <1>10 DEF Chain
<1>13. PICK f : f = [i \in 1 .. n |-> path[i].pos]
  OBVIOUS
<1>14. ASSUME NEW i \in 1 .. n
       PROVE  /\ path[i] \in S /\ f[i] = path[i].pos /\ f[i] \in T /\ f[i] \in Int
              /\ Nearest(next[path[i]], T, f[i], up)
              /\ i < n => next[path[i]] = path[i + 1] /\ path[i + 1] \in S /\ i + 1 \in 1 .. n
  <2>1. path[i] \in S /\ f[i] = path[i].pos
    BY <1>12, <1>13
  <2>2. ASSUME i < n PROVE next[path[i]] = path[i + 1] /\ path[i + 1] \in S /\ i + 1 \in 1 .. n
    <3>1. i \in 1 .. n - 1 /\ i + 1 \in 1 .. n
      BY <2>2
    <3> QED
      BY <1>10, <1>12, <3>1 DEF Chain
  <2> QED
    BY <1>2, <1>6, <2>1, <2>2
<1>15. \A i \in 1 .. n : i < n => /\ Before(up, f[i], f[i + 1])
                                  /\ \A x \in T : Before(up, f[i], x) => x = f[i + 1] \/ Before(up, f[i + 1], x)
  <2>1. ASSUME NEW i \in 1 .. n, i < n
        PROVE  /\ Before(up, f[i], f[i + 1])
               /\ \A x \in T : Before(up, f[i], x) => x = f[i + 1] \/ Before(up, f[i + 1], x)
    <3>1. next[path[i]] = path[i + 1] /\ path[i + 1] # None /\ f[i + 1] = path[i + 1].pos
      BY <1>5, <1>14, <2>1
    <3>2. PICK x \in {y \in T : Before(up, f[i], y)} :
              path[i + 1] = Truth(tree, x) /\ \A y \in {z \in T : Before(up, f[i], z)} : y = x \/ Before(up, x, y)
      BY <1>14, <3>1 DEF Nearest
    <3>3. f[i + 1] = x
      BY <1>4, <3>1, <3>2
    <3> QED
      BY <3>2, <3>3
  <2> QED
    BY <2>1
<1>16. \A i, j \in 1 .. n : i < j => Before(up, f[i], f[j])
  <2>1. PICK M : M = {m \in 0 .. n : \A i \in 1 .. n : i < m => Before(up, f[i], f[m])}
    OBVIOUS
  <2>2. 0 \in M
    BY <2>1
  <2>3. ASSUME NEW m \in 1 .. n, m - 1 \in M PROVE m \in M
    <3>1. ASSUME NEW i \in 1 .. n, i < m PROVE Before(up, f[i], f[m])
      <4>1. PICK k \in 1 .. n : k = m - 1 /\ k + 1 = m /\ k < n
        BY <3>1
      <4>2. Before(up, f[k], f[m])
        BY <1>15, <4>1
      <4>3. CASE i = k
        BY <4>2, <4>3
      <4>4. CASE i < k
        <5>1. Before(up, f[i], f[k])
          BY <2>1, <2>3, <4>1, <4>4
        <5>2. f[i] \in Int /\ f[k] \in Int /\ f[m] \in Int
          BY <1>14
        <5> QED
          BY <4>2, <5>1, <5>2 DEF Before
      <4> QED
        BY <3>1, <4>1, <4>3, <4>4
    <3> QED
      BY <2>1, <3>1
  <2>4. \A m \in 0 .. n : m \in M
    BY <2>2, <2>3, UpTo
  <2> QED
    BY <2>1, <2>4
<1>17. ASSUME NEW x \in T, \A i \in 1 .. n : x # f[i] PROVE FALSE
  <2>1. PICK M : M = {m \in 0 .. n : m # 0 => Before(up, f[m], x)}
    OBVIOUS
  <2>2. 0 \in M
    BY <2>1
  <2>3. ASSUME NEW m \in 1 .. n, m - 1 \in M PROVE m \in M
    <3>1. CASE m = 1
      <4>1. f[1] = q /\ x # q
        BY <1>9, <1>12, <1>14, <1>17, <3>1
      <4> QED
        BY <2>1, <3>1, <4>1
    <3>2. CASE m # 1
      <4>1. PICK k \in 1 .. n : k = m - 1 /\ k + 1 = m /\ k < n
        BY <3>2
      <4>2. Before(up, f[k], x)
        BY <2>1, <2>3, <4>1
      <4>3. Before(up, f[m], x)
        BY <1>15, <1>17, <4>1, <4>2
      <4> QED
        BY <2>1, <4>3
    <3> QED
      BY <3>1, <3>2
  <2>4. n \in M
    <3>1. \A m \in 0 .. n : m \in M
      BY <2>2, <2>3, UpTo
    <3> QED
      BY <3>1
  <2>5. Before(up, f[n], x) /\ n \in 1 .. n
    BY <2>1, <2>4
  <2>6. Last(path) = path[n] /\ next[path[n]] = None
    BY <1>11, <1>12 DEF Last
  <2>7. x \in {y \in T : Before(up, f[n], y)}
    BY <2>5
  <2>8. PICK y \in T : next[path[n]] = Truth(tree, y)
    BY <1>14, <2>5, <2>7 DEF Nearest
  <2> QED
    BY <1>4, <2>6, <2>8
<1>18. T = {path[i].pos : i \in 1 .. n}
  BY <1>14, <1>17
<1>19. path \in Seq(Truths(tree))
  BY <1>5, <1>12
<1> QED
  BY <1>12, <1>14, <1>16, <1>18, <1>19 DEF Lists

\* A set of positions has one sequence in order.
LEMMA CountNext ==
    ASSUME NEW T, NEW i \in Nat, NEW j \in Nat, i < j, j \in T, \A x \in i + 1 .. j - 1 : x \notin T
    PROVE  Count(T, j) = Count(T, i) + 1
<1>1. PICK k \in Nat : k + 1 = j
  <2>1. j - 1 \in Nat /\ (j - 1) + 1 = j
    OBVIOUS
  <2> QED
    BY <2>1
<1>2. Count(T, j) = Count(T, k) + 1
  BY <1>1, CountSteps
<1>3. {x \in 1 .. k : x \in T} = {x \in 1 .. i : x \in T}
  <2>1. \A x \in 1 .. k : x \in 1 .. i \/ x \in i + 1 .. j - 1
    BY <1>1
  <2>2. \A x \in 1 .. i : x \in 1 .. k
    BY <1>1
  <2> QED
    BY <2>1, <2>2
<1> QED
  BY <1>2, <1>3 DEF Count

LEMMA AscendingIs ==
    ASSUME IsTree(tree), NEW T, NEW s \in Seq(Positions), T = {s[i] : i \in 1 .. Len(s)},
           \A i, j \in 1 .. Len(s) : i < j => s[i] < s[j]
    PROVE  s = Ascending(T) /\ Len(s) = Cardinality(T)
<1>1. PICK size \in Nat \ {0} : size = tree.size /\ Positions = 1 .. size
  BY TreeFacts DEF Positions
<1>2. PICK n \in Nat : n = Len(s) /\ \A i \in 1 .. n : s[i] \in Positions /\ s[i] \in Nat /\ s[i] \in T
  <2>1. Len(s) \in Nat /\ \A i \in 1 .. Len(s) : s[i] \in Positions
    OBVIOUS
  <2> QED
    BY <1>1, <2>1
<1>3. PICK id, a : id = [q \in Positions |-> q] /\ a = Picked(id, T) /\ a = Ascending(T)
  BY DEF Ascending
<1>4. id \in Seq(Positions) /\ Len(id) = size
  <2>1. id \in [1 .. size -> Positions]
    BY <1>1, <1>3
  <2> QED
    BY <2>1, ListType
<1>5. a \in Seq(Positions) /\ Holds(a, id, T, size)
  <2>1. Picked(id, T) \in Seq(Positions)
    BY <1>4, PickedElements
  <2>2. Holds(Picked(id, T), id, T, Len(id))
    BY <1>4, PickedPlaces
  <2> QED
    BY <1>3, <1>4, <2>1, <2>2
<1>6. PICK M : M = {m \in 0 .. n : m # 0 => Count(T, s[m]) = m}
  OBVIOUS
<1>7. \A m \in 0 .. n : m \in M
  <2>1. 0 \in M
    BY <1>6
  <2>2. ASSUME NEW m \in 1 .. n, m - 1 \in M PROVE m \in M
    <3>1. PICK i \in Nat : i = IF m = 1 THEN 0 ELSE s[m - 1]
      BY <1>2
    <3>2. i < s[m] /\ Count(T, i) = m - 1
      <4>1. CASE m = 1
        BY <1>1, <1>2, <3>1, <4>1, CountSteps
      <4>2. CASE m # 1
        <5>1. m - 1 \in 1 .. n /\ m - 1 < m
          BY <4>2
        <5> QED
          BY <1>2, <1>6, <2>2, <3>1, <4>2, <5>1
      <4> QED
        BY <4>1, <4>2
    <3>3. ASSUME NEW x \in i + 1 .. s[m] - 1, x \in T PROVE FALSE
      <4>1. PICK k \in 1 .. n : s[k] = x
        BY <1>2, <3>3
      <4>2. s[k] < s[m] /\ i < s[k]
        BY <1>2, <3>1, <3>3, <4>1
      <4>3. k < m
        <5>1. ASSUME ~ (k < m) PROVE FALSE
          <6>1. k = m \/ s[m] < s[k]
            BY <1>2, <5>1
          <6> QED
            BY <1>2, <4>2, <6>1
        <5> QED
          BY <5>1
      <4>4. m # 1 /\ m - 1 \in 1 .. n /\ i = s[m - 1]
        BY <3>1, <4>3
      <4>5. k = m - 1 \/ s[k] < s[m - 1]
        BY <1>2, <4>3, <4>4
      <4> QED
        BY <1>2, <4>2, <4>4, <4>5
    <3>4. Count(T, s[m]) = Count(T, i) + 1
      BY <1>2, <3>2, <3>3, CountNext
    <3> QED
      BY <1>6, <3>2, <3>4
  <2> QED
    BY <2>1, <2>2, UpTo
<1>8. \A m \in 1 .. n : Count(T, s[m]) = m
  BY <1>6, <1>7
<1>9. Count(T, size) = n
  <2>1. PICK i \in Nat : i = IF n = 0 THEN 0 ELSE s[n]
    BY <1>2
  <2>2. Count(T, i) = n /\ i <= size
    <3>1. CASE n = 0
      BY <2>1, <3>1, CountSteps
    <3>2. CASE n # 0
      <4>1. n \in 1 .. n /\ s[n] \in 1 .. size
        BY <1>1, <1>2, <3>2
      <4> QED
        BY <1>8, <2>1, <3>2, <4>1
    <3> QED
      BY <3>1, <3>2
  <2>3. {x \in 1 .. size : x \in T} = {x \in 1 .. i : x \in T}
    <3>1. ASSUME NEW x \in 1 .. size, x \in T PROVE x \in 1 .. i
      <4>1. PICK k \in 1 .. n : s[k] = x
        BY <1>2, <3>1
      <4>2. n # 0 /\ n \in 1 .. n /\ i = s[n]
        BY <2>1, <4>1
      <4>3. k = n \/ s[k] < s[n]
        BY <1>2, <4>2
      <4> QED
        BY <1>2, <3>1, <4>1, <4>2, <4>3
    <3> QED
      BY <2>2, <3>1
  <2> QED
    BY <2>2, <2>3 DEF Count
<1>10. Len(a) = n
  BY <1>5, <1>9 DEF Holds
<1>11. \A m \in 1 .. n : s[m] = a[m]
  <2>1. ASSUME NEW m \in 1 .. n PROVE s[m] = a[m]
    <3>1. s[m] \in 1 .. size /\ s[m] \in T
      BY <1>1, <1>2
    <3>2. a[Count(T, s[m])] = id[s[m]]
      BY <1>5, <3>1 DEF Holds
    <3> QED
      BY <1>1, <1>3, <1>8, <3>1, <3>2
  <2> QED
    BY <2>1
<1>12. s = a
  BY <1>2, <1>5, <1>10, <1>11, SameSeq
<1>13. {x \in 1 .. size : x \in T} = T
  BY <1>1, <1>2
<1> QED
  BY <1>2, <1>3, <1>9, <1>12, <1>13 DEF Count

LEMMA DescendingIs ==
    ASSUME IsTree(tree), NEW T, NEW s \in Seq(Positions), T = {s[i] : i \in 1 .. Len(s)},
           \A i, j \in 1 .. Len(s) : i < j => s[j] < s[i]
    PROVE  s = Descending(T)
<1>1. PICK n \in Nat : n = Len(s)
  OBVIOUS
<1>2. PICK r : r = [i \in 1 .. n |-> s[(n - i) + 1]]
  OBVIOUS
<1>3. \A i \in 1 .. n : (n - i) + 1 \in 1 .. n /\ (n - ((n - i) + 1)) + 1 = i
  OBVIOUS
<1>4. \A i \in 1 .. n : r[i] = s[(n - i) + 1] /\ r[i] \in Positions /\ r[(n - i) + 1] = s[i]
  BY <1>1, <1>2, <1>3
<1>5. r \in Seq(Positions) /\ Len(r) = n
  <2>1. r \in [1 .. n -> Positions]
    BY <1>2, <1>4
  <2> QED
    BY <2>1, ListType
<1>6. T = {r[i] : i \in 1 .. n}
  BY <1>1, <1>3, <1>4
<1>7. ASSUME NEW i \in 1 .. n, NEW j \in 1 .. n, i < j PROVE r[i] < r[j]
  <2>1. (n - j) + 1 < (n - i) + 1
    BY <1>7
  <2> QED
    BY <1>1, <1>3, <1>4, <2>1
<1>8. r = Ascending(T)
  BY <1>5, <1>6, <1>7, AscendingIs
<1>9. PICK d : d = Reverse(r)
  OBVIOUS
<1>10. d = [i \in 1 .. n |-> r[(n - i) + 1]]
  BY <1>5, <1>9 DEF Reverse
<1>11. d \in Seq(Positions) /\ Len(d) = n
  <2>1. \A i \in 1 .. n : r[(n - i) + 1] \in Positions
    BY <1>3, <1>4
  <2>2. d \in [1 .. n -> Positions]
    BY <1>10, <2>1
  <2> QED
    BY <2>2, ListType
<1>12. s = d
  <2>1. \A i \in 1 .. n : s[i] = d[i]
    BY <1>4, <1>10
  <2> QED
    BY <1>1, <1>11, <2>1, SameSeq
<1> QED
  BY <1>8, <1>9, <1>12 DEF Descending

----------------------------------------------------------------------------
(* The iterators over siblings and ancestors *)

LEMMA ListedPositions ==
    ASSUME IsTree(tree), NEW path, NEW T, NEW up \in BOOLEAN, Lists(path, T, up)
    PROVE  [i \in DOMAIN path |-> path[i].pos] = IF up THEN Ascending(T) ELSE Descending(T)
<1>1. PICK n \in Nat : n = Len(path) /\ path \in Seq(Truths(tree)) /\ DOMAIN path = 1 .. n
  BY DEF Lists
<1>2. PICK s : s = [i \in 1 .. n |-> path[i].pos]
  OBVIOUS
<1>3. \A i \in 1 .. n : s[i] = path[i].pos /\ s[i] \in Positions
  BY <1>1, <1>2, TruthSlot
<1>4. s \in Seq(Positions) /\ Len(s) = n
  <2>1. s \in [1 .. n -> Positions]
    BY <1>2, <1>3
  <2> QED
    BY <2>1, ListType
<1>5. T = {s[i] : i \in 1 .. n}
  BY <1>1, <1>3 DEF Lists
<1>6. \A i, j \in 1 .. n : i < j => Before(up, s[i], s[j])
  BY <1>1, <1>3 DEF Lists
<1>7. CASE up
  <2>1. \A i, j \in 1 .. Len(s) : i < j => s[i] < s[j]
    BY <1>4, <1>6, <1>7 DEF Before
  <2>2. s = Ascending(T)
    BY <1>4, <1>5, <2>1, AscendingIs
  <2> QED
    BY <1>1, <1>2, <1>7, <2>2
<1>8. CASE ~ up
  <2>1. \A i, j \in 1 .. Len(s) : i < j => s[j] < s[i]
    BY <1>4, <1>6, <1>8 DEF Before
  <2>2. s = Descending(T)
    BY <1>4, <1>5, <2>1, DescendingIs
  <2> QED
    BY <1>1, <1>2, <1>8, <2>2
<1> QED
  BY <1>7, <1>8

LEMMA NearestIs ==
    ASSUME IsTree(tree), NEW T \in SUBSET Positions, NEW q \in Positions, NEW e
    PROVE  /\ Leads(e, {x \in T : q < x}) => Nearest(e, T, q, TRUE)
           /\ Trails(e, {x \in T : x < q}) => Nearest(e, T, q, FALSE)
<1>1. T \subseteq Int
  BY TreeFacts DEF Positions
<1>2. /\ {x \in T : Before(TRUE, q, x)} = {x \in T : q < x}
      /\ {x \in T : Before(FALSE, q, x)} = {x \in T : x < q}
  BY DEF Before
<1>3. ASSUME Leads(e, {x \in T : q < x}) PROVE Nearest(e, T, q, TRUE)
  <2>1. PICK S : S = {x \in T : q < x}
    OBVIOUS
  <2>2. CASE S = {}
    BY <1>2, <1>3, <2>1, <2>2 DEF Leads, Nearest
  <2>3. CASE S # {}
    <3>1. PICK x \in S : e = Truth(tree, x) /\ \A y \in S : x <= y
      BY <1>3, <2>1, <2>3 DEF Leads
    <3>2. \A y \in S : y = x \/ Before(TRUE, x, y)
      BY <1>1, <2>1, <3>1 DEF Before
    <3> QED
      BY <1>2, <2>1, <2>3, <3>1, <3>2 DEF Nearest
  <2> QED
    BY <2>2, <2>3
<1>4. ASSUME Trails(e, {x \in T : x < q}) PROVE Nearest(e, T, q, FALSE)
  <2>1. PICK S : S = {x \in T : x < q}
    OBVIOUS
  <2>2. CASE S = {}
    BY <1>2, <1>4, <2>1, <2>2 DEF Trails, Nearest
  <2>3. CASE S # {}
    <3>1. PICK x \in S : e = Truth(tree, x) /\ \A y \in S : y <= x
      BY <1>4, <2>1, <2>3 DEF Trails
    <3>2. \A y \in S : y = x \/ Before(FALSE, x, y)
      BY <1>1, <2>1, <3>1 DEF Before
    <3> QED
      BY <1>2, <2>1, <2>3, <3>1, <3>2 DEF Nearest
  <2> QED
    BY <2>2, <2>3
<1> QED
  BY <1>3, <1>4

\* On one side of p, the siblings further on are those of the sibling reached.
LEMMA Beyond ==
    ASSUME IsTree(tree), NEW p \in Positions, NEW q \in Positions
    PROVE  /\ Right(p) \subseteq Positions /\ Left(p) \subseteq Positions
           /\ q \in {p} \cup Right(p) =>
                /\ {x \in {p} \cup Right(p) : q < x} = Right(q)
                /\ {x \in {p} \cup (Right(p) \cap Nodes) : q < x} = Right(q) \cap Nodes
           /\ q \in {p} \cup Left(p) =>
                /\ {x \in {p} \cup Left(p) : x < q} = Left(q)
                /\ {x \in {p} \cup (Left(p) \cap Nodes) : x < q} = Left(q) \cap Nodes
<1>1. Positions \subseteq Int
  BY TreeFacts DEF Positions
<1>2. Right(p) \subseteq Positions /\ Left(p) \subseteq Positions
  BY DEF Right, Left, Siblings
<1>3. q \in Siblings(p) => Siblings(q) = Siblings(p)
  BY DEF Siblings
<1>4. q \in {p} \cup Right(p) \cup Left(p) => Siblings(q) = Siblings(p)
  BY <1>3 DEF Right, Left
<1>5. Siblings(p) \subseteq Int
  BY <1>1 DEF Siblings
<1>6. ASSUME q \in {p} \cup Right(p)
      PROVE  /\ {x \in {p} \cup Right(p) : q < x} = Right(q)
             /\ {x \in {p} \cup (Right(p) \cap Nodes) : q < x} = Right(q) \cap Nodes
  <2>1. Siblings(q) = Siblings(p) /\ q >= p
    BY <1>1, <1>4, <1>6 DEF Right
  <2> QED
    BY <1>1, <1>5, <2>1 DEF Right
<1>7. ASSUME q \in {p} \cup Left(p)
      PROVE  /\ {x \in {p} \cup Left(p) : x < q} = Left(q)
             /\ {x \in {p} \cup (Left(p) \cap Nodes) : x < q} = Left(q) \cap Nodes
  <2>1. Siblings(q) = Siblings(p) /\ q <= p
    BY <1>1, <1>4, <1>7 DEF Left
  <2> QED
    BY <1>1, <1>5, <2>1 DEF Left
<1> QED
  BY <1>2, <1>6, <1>7

LEMMA SiblingsListed ==
    ASSUME IsTree(tree), NEW p \in Positions, NEW e, e = Truth(tree, p)
    PROVE  /\ Lists(SiblingsWithTokens(e, "Next"), {p} \cup Right(p), TRUE)
           /\ Lists(SiblingsWithTokens(e, "Prev"), {p} \cup Left(p), FALSE)
           /\ Lists(SiblingNodes(e, "Next"), {p} \cup (Right(p) \cap Nodes), TRUE)
           /\ Lists(SiblingNodes(e, "Prev"), {p} \cup (Left(p) \cap Nodes), FALSE)
<1>1. PICK r, l, rn, ln : /\ r = {p} \cup Right(p) /\ rn = {p} \cup (Right(p) \cap Nodes)
                          /\ l = {p} \cup Left(p) /\ ln = {p} \cup (Left(p) \cap Nodes)
  OBVIOUS
<1>2. /\ r \in SUBSET Positions /\ l \in SUBSET Positions /\ rn \in SUBSET r /\ ln \in SUBSET l
      /\ rn \in SUBSET Positions /\ ln \in SUBSET Positions
      /\ p \in r /\ p \in l /\ p \in rn /\ p \in ln
  BY <1>1, Beyond
<1>3. /\ \A x \in r : x = p \/ Before(TRUE, p, x)
      /\ \A x \in l : x = p \/ Before(FALSE, p, x)
  BY <1>1 DEF Before, Right, Left
<1>4. PICK f, g, fn, gn : /\ f = [x \in Refs |-> SiblingOrToken(x, "Next")]
                          /\ g = [x \in Refs |-> SiblingOrToken(x, "Prev")]
                          /\ fn = [x \in Refs |-> IF "Next" = "Next" THEN NextSibling(x) ELSE PrevSibling(x)]
                          /\ gn = [x \in Refs |-> IF "Prev" = "Next" THEN NextSibling(x) ELSE PrevSibling(x)]
  OBVIOUS
<1>5. ASSUME NEW q \in Positions
      PROVE  /\ Leads(f[Truth(tree, q)], Right(q)) /\ Trails(g[Truth(tree, q)], Left(q))
             /\ Leads(fn[Truth(tree, q)], Right(q) \cap Nodes) /\ Trails(gn[Truth(tree, q)], Left(q) \cap Nodes)
  <2>1. PICK x : x = Truth(tree, q) /\ x \in Refs
    BY TruthFields DEF Refs, Positions
  <2>2. /\ f[x] = NextSiblingOrToken(x) /\ g[x] = PrevSiblingOrToken(x)
        /\ fn[x] = NextSibling(x) /\ gn[x] = PrevSibling(x)
    BY <1>4, <2>1 DEF SiblingOrToken
  <2> QED
    BY <2>1, <2>2, NearestSiblings
<1>6. /\ \A x \in r : Nearest(f[Truth(tree, x)], r, x, TRUE)
      /\ \A x \in rn : Nearest(fn[Truth(tree, x)], rn, x, TRUE)
  <2>1. ASSUME NEW x \in r PROVE Nearest(f[Truth(tree, x)], r, x, TRUE)
    <3>1. {y \in r : x < y} = Right(x) /\ x \in Positions
      BY <1>1, <1>2, Beyond
    <3>2. Leads(f[Truth(tree, x)], {y \in r : x < y})
      BY <1>5, <3>1
    <3> QED
      BY <1>2, <3>1, <3>2, NearestIs
  <2>2. ASSUME NEW x \in rn PROVE Nearest(fn[Truth(tree, x)], rn, x, TRUE)
    <3>1. {y \in rn : x < y} = Right(x) \cap Nodes /\ x \in Positions
      BY <1>1, <1>2, Beyond
    <3>2. Leads(fn[Truth(tree, x)], {y \in rn : x < y})
      BY <1>5, <3>1
    <3> QED
      BY <1>2, <3>1, <3>2, NearestIs
  <2> QED
    BY <2>1, <2>2
<1>7. /\ \A x \in l : Nearest(g[Truth(tree, x)], l, x, FALSE)
      /\ \A x \in ln : Nearest(gn[Truth(tree, x)], ln, x, FALSE)
  <2>1. ASSUME NEW x \in l PROVE Nearest(g[Truth(tree, x)], l, x, FALSE)
    <3>1. {y \in l : y < x} = Left(x) /\ x \in Positions
      BY <1>1, <1>2, Beyond
    <3>2. Trails(g[Truth(tree, x)], {y \in l : y < x})
      BY <1>5, <3>1
    <3> QED
      BY <1>2, <3>1, <3>2, NearestIs
  <2>2. ASSUME NEW x \in ln PROVE Nearest(gn[Truth(tree, x)], ln, x, FALSE)
    <3>1. {y \in ln : y < x} = Left(x) \cap Nodes /\ x \in Positions
      BY <1>1, <1>2, Beyond
    <3>2. Trails(gn[Truth(tree, x)], {y \in ln : y < x})
      BY <1>5, <3>1
    <3> QED
      BY <1>2, <3>1, <3>2, NearestIs
  <2> QED
    BY <2>1, <2>2
<1>8. TRUE \in BOOLEAN /\ FALSE \in BOOLEAN
  OBVIOUS
<1>9. Lists(Successors(e, f), r, TRUE)
  BY <1>2, <1>3, <1>6, <1>8, NearestOfAll
<1>10. Lists(Successors(e, g), l, FALSE)
  BY <1>2, <1>3, <1>7, <1>8, NearestOfAll
<1>11. Lists(Successors(e, fn), rn, TRUE)
  BY <1>2, <1>3, <1>6, <1>8, NearestOfAll
<1>12. Lists(Successors(e, gn), ln, FALSE)
  BY <1>2, <1>3, <1>7, <1>8, NearestOfAll
<1> QED
  BY <1>1, <1>4, <1>9, <1>10, <1>11, <1>12, Zenon DEF SiblingsWithTokens, SiblingNodes

Lineage(p) == (IF IsToken(p) THEN {} ELSE {p}) \cup Ancestors(p)

LEMMA Lineages ==
    ASSUME IsTree(tree), NEW p \in Positions, NEW x \in Lineage(p)
    PROVE  /\ x \in Positions /\ Under(x, p) /\ x <= p
           /\ x = Root => \A y \in Lineage(p) : ~ (y < x)
           /\ x # Root => /\ tree.parent[x] \in Lineage(p) /\ tree.parent[x] < x
                          /\ \A y \in Lineage(p) : y < x => y <= tree.parent[x]
<1>1. PICK n \in Nat : n = tree.size /\ Positions = 1 .. n
  BY TreeFacts DEF Positions
<1>2. \A y \in Lineage(p) : y \in 1 .. n /\ y <= p /\ \A r \in y + 1 .. p : tree.parent[r] >= y
  BY <1>1 DEF Lineage, Ancestors, Under
<1>3. x = Root => \A y \in Lineage(p) : ~ (y < x)
  BY <1>1, <1>2 DEF Root
<1>4. ASSUME x # Root
      PROVE  /\ tree.parent[x] \in Lineage(p) /\ tree.parent[x] < x
             /\ \A y \in Lineage(p) : y < x => y <= tree.parent[x]
  <2>1. x \in 2 .. n
    BY <1>2, <1>4 DEF Root
  <2>2. PICK b \in 1 .. n : b = tree.parent[x] /\ b < x /\ \A r \in b + 1 .. x : tree.parent[r] >= b
    BY <1>1, <2>1, TreeFacts
  <2>3. ASSUME NEW r \in b + 1 .. p PROVE tree.parent[r] >= b
    <3>1. CASE r <= x
      <4>1. r \in b + 1 .. x
        BY <1>1, <1>2, <2>2, <3>1
      <4> QED
        BY <2>2, <4>1
    <3>2. CASE ~ (r <= x)
      <4>1. r \in x + 1 .. p /\ r \in 2 .. n
        BY <1>1, <1>2, <2>2, <3>2
      <4>2. tree.parent[r] >= x /\ tree.parent[r] \in 1 .. n
        BY <1>1, <1>2, <4>1, TreeFacts
      <4> QED
        BY <2>1, <2>2, <4>2
    <3> QED
      BY <3>1, <3>2
  <2>4. b \in Ancestors(p)
    BY <1>1, <1>2, <2>2, <2>3 DEF Ancestors, Under
  <2>5. ASSUME NEW y \in Lineage(p), y < x PROVE y <= b
    <3>1. x \in y + 1 .. p
      BY <1>1, <1>2, <2>5
    <3> QED
      BY <1>2, <2>2, <3>1
  <2> QED
    BY <2>2, <2>4, <2>5 DEF Lineage
<1> QED
  BY <1>1, <1>2, <1>3, <1>4 DEF Under

LEMMA LineageFilled ==
    ASSUME Core, NEW p \in Positions, slot[p] # None, NEW x \in Lineage(p)
    PROVE  slot[x] # None
<1>1. IsTree(tree)
  BY DEF Core
<1>2. PICK n \in Nat : n = tree.size /\ Positions = 1 .. n
  BY <1>1, TreeFacts DEF Positions
<1>3. PICK D : D = {d \in Nat : \E y \in Positions : y <= p /\ d = p - y /\ Under(y, p) /\ slot[y] = None}
  OBVIOUS
<1>4. ASSUME D # {} PROVE FALSE
  <2>1. PICK d \in D : \A c \in D : d <= c
    BY <1>3, <1>4, Least
  <2>2. PICK y \in Positions : y <= p /\ d = p - y /\ Under(y, p) /\ slot[y] = None
    BY <1>3
  <2>3. PICK c \in Childhood(tree, y) : Under(c, p)
    BY <1>1, <2>2, KidToward
  <2>4. c \in 2 .. n /\ tree.parent[c] = y /\ y < c /\ c <= p
    BY <1>1, <1>2, <2>3, TreeFacts DEF Childhood, Under
  <2>5. slot[c] = None
    BY <1>2, <2>2, <2>4 DEF Core
  <2>6. p - c \in Nat /\ p - c < d
    BY <1>2, <2>2, <2>4
  <2>7. p - c \in D
    BY <1>2, <1>3, <2>3, <2>4, <2>5, <2>6
  <2> QED
    BY <1>2, <1>3, <2>1, <2>6, <2>7
<1>5. x \in Positions /\ Under(x, p) /\ x <= p
  BY <1>1, Lineages
<1>6. p - x \in Nat
  BY <1>2, <1>5
<1> QED
  BY <1>3, <1>4, <1>5, <1>6

LEMMA AncestorsListed ==
    ASSUME Core, NEW p \in Positions, slot[p] # None, NEW e, e = Truth(tree, p)
    PROVE  Lists(AncestorNodes(e), Lineage(p), FALSE)
<1>1. IsTree(tree) /\ e.pos = p
  BY Within DEF Core
<1>2. PICK n \in Nat : n = tree.size /\ Positions = 1 .. n
  BY <1>1, TreeFacts DEF Positions
<1>3. PICK f, T : f = [r \in Refs |-> Parent(r)] /\ T = Lineage(p) /\ T \in SUBSET Positions
  BY DEF Lineage, Ancestors
<1>4. PICK q : q = IF IsToken(p) THEN tree.parent[p] ELSE p
  OBVIOUS
<1>5. IsToken(p) => p # Root
  BY <1>1, TreeFacts DEF IsToken, Root
<1>6. q \in T /\ \A x \in T : x = q \/ Before(FALSE, q, x)
  <2>1. CASE IsToken(p)
    <3>1. p \in 2 .. n /\ q = tree.parent[p]
      BY <1>2, <1>4, <1>5, <2>1 DEF Root
    <3>2. q \in 1 .. n /\ q < p /\ \A r \in q + 1 .. p : tree.parent[r] >= q
      BY <1>1, <1>2, <3>1, TreeFacts
    <3>3. q \in T
      BY <1>2, <1>3, <3>2 DEF Lineage, Ancestors, Under
    <3>4. ASSUME NEW x \in T PROVE x = q \/ x < q
      <4>1. x \in Positions /\ Under(x, p) /\ x # p
        BY <1>3, <2>1, <3>4 DEF Lineage, Ancestors
      <4>2. p \in x + 1 .. p
        BY <1>2, <4>1 DEF Under
      <4> QED
        BY <1>2, <3>1, <3>2, <4>1, <4>2 DEF Under
    <3> QED
      BY <3>3, <3>4 DEF Before
  <2>2. CASE ~ IsToken(p)
    <3>1. q \in T
      BY <1>3, <1>4, <2>2 DEF Lineage
    <3>2. \A x \in T : x = q \/ x < q
      BY <1>2, <1>3, <1>4, <2>2 DEF Lineage, Ancestors, Under
    <3> QED
      BY <3>1, <3>2 DEF Before
  <2> QED
    BY <2>1, <2>2
<1>7. ASSUME NEW x \in T
      PROVE  /\ f[Truth(tree, x)] = IF x = Root THEN None ELSE slot[tree.parent[x]]
             /\ Nearest(f[Truth(tree, x)], T, x, FALSE)
  <2>1. PICK r : r = Truth(tree, x) /\ r \in Refs /\ r.pos = x /\ x \in Positions
    BY <1>1, <1>3, TruthFields DEF Refs, Positions
  <2>2. f[r] = IF x = Root THEN None ELSE slot[tree.parent[x]]
    BY <1>3, <2>1 DEF Parent
  <2>3. CASE x = Root
    <3>1. f[r] = None /\ {y \in T : Before(FALSE, x, y)} = {}
      BY <1>1, <1>3, <2>2, <2>3, Lineages DEF Before
    <3> QED
      BY <2>1, <2>2, <3>1 DEF Nearest
  <2>4. CASE x # Root
    <3>1. PICK b : /\ b = tree.parent[x] /\ b \in T /\ b < x
                   /\ \A y \in T : y < x => y <= b
      BY <1>1, <1>3, <2>4, Lineages
    <3>2. f[r] = Truth(tree, b)
      BY <1>3, <2>2, <2>4, <3>1, LineageFilled DEF Core
    <3>3. PICK S : S = {y \in T : Before(FALSE, x, y)}
      OBVIOUS
    <3>4. b \in S /\ \A y \in S : y = b \/ Before(FALSE, b, y)
      BY <1>2, <1>3, <3>1, <3>3 DEF Before
    <3>5. Nearest(f[r], T, x, FALSE)
      BY <3>2, <3>3, <3>4 DEF Nearest
    <3> QED
      BY <2>1, <2>2, <3>5
  <2> QED
    BY <2>3, <2>4
<1>8. (IF IsToken(e.pos) THEN Parent(e) ELSE e) = Truth(tree, q)
  <2>1. CASE IsToken(p)
    <3>1. Parent(e) = slot[q]
      BY <1>1, <1>4, <1>5, <2>1 DEF Parent
    <3>2. slot[q] # None /\ q \in Positions
      BY <1>3, <1>6, LineageFilled
    <3> QED
      BY <1>1, <2>1, <3>1, <3>2 DEF Core
  <2>2. CASE ~ IsToken(p)
    BY <1>1, <1>4, <2>2
  <2> QED
    BY <2>1, <2>2
<1>9. AncestorNodes(e) = Successors(Truth(tree, q), f)
  BY <1>3, <1>8, Zenon DEF AncestorNodes
<1>10. FALSE \in BOOLEAN
  OBVIOUS
<1>11. Lists(Successors(Truth(tree, q), f), T, FALSE)
  BY <1>1, <1>3, <1>6, <1>7, <1>10, NearestOfAll
<1> QED
  BY <1>3, <1>9, <1>11

LEMMA Arities ==
    ASSUME IsTree(tree), NEW p \in Positions, NEW e, e.pos = p
    PROVE  /\ Arity(e) = Cardinality(Childhood(tree, p) \cap Nodes)
           /\ ArityWithTokens(e) = Cardinality(Childhood(tree, p))
<1>1. PICK s, c, n : s = Kids(p) /\ c = Childhood(tree, p) /\ n = tree.size /\ n \in Nat /\ p \in 1 .. n
  BY TreeFacts DEF Positions
<1>2. /\ s \in Seq(2 .. n) /\ Len(s) = Count(c, n)
      /\ \A k \in 1 .. Len(s) : s[k] \in c /\ Count(c, s[k]) = k
      /\ \A q \in c : Count(c, q) \in 1 .. Len(s) /\ s[Count(c, q)] = q
  <2>1. Shaped(tree) /\ KidsOf(tree)[p] = s
    BY <1>1 DEF IsTree, Kids
  <2> QED
    BY <1>1, <2>1, KidsAre
<1>3. PICK l \in Nat : l = Len(s) /\ DOMAIN s = 1 .. l
  BY <1>2
<1>4. Cardinality(c) = l
  <2>1. {j \in 1 .. n : j \in c} = c
    BY <1>1 DEF Childhood
  <2> QED
    BY <1>2, <1>3, <2>1 DEF Count
<1>5. PICK A, B : A = {i \in 1 .. l : ~ IsToken(s[i])} /\ B = c \cap Nodes
  OBVIOUS
<1>6. \A i \in A : i \in 1 .. l /\ s[i] \in B /\ Count(c, s[i]) = i
  <2>1. \A q \in c : q \in Positions
    BY <1>1 DEF Childhood, Positions
  <2> QED
    BY <1>2, <1>3, <1>5, <2>1 DEF Nodes
<1>7. \A q \in B : Count(c, q) \in A /\ s[Count(c, q)] = q
  BY <1>2, <1>3, <1>5 DEF Nodes
<1>8. PICK f : f = [i \in A |-> s[i]]
  OBVIOUS
<1>9. f \in Bijection(A, B)
  <2>1. f \in [A -> B] /\ \A i \in A : f[i] = s[i]
    BY <1>6, <1>8
  <2>2. \A i, j \in A : f[i] = f[j] => i = j
    BY <1>6, <2>1
  <2>3. \A q \in B : \E i \in A : f[i] = q
    BY <1>7, <2>1
  <2> QED
    BY <2>1, <2>2, <2>3 DEF Bijection, Injection, Surjection, IsInjective
<1>10. IsFiniteSet(A)
  <2>1. IsFiniteSet(1 .. l)
    BY FS_Interval
  <2> QED
    BY <1>5, <2>1, FS_Subset
<1>11. Cardinality(B) = Cardinality(A)
  BY <1>9, <1>10, FS_Bijection DEF ExistsBijection
<1> QED
  BY <1>1, <1>3, <1>4, <1>5, <1>11 DEF Arity, ArityWithTokens

\* first_child, last_child, next_sibling, prev_sibling and the variants with
\* tokens, next_child_after, prev_child_before, siblings, ancestors, arity: in
\* every tree and from every element the client can stand on, they find the
\* nearest element on their side, or list all of them in order.
THEOREM NeighboursCorrect == Spec => []NeighboursFaithful
<1>1. ASSUME Inv PROVE NeighboursFaithful
  <2>1. /\ Core /\ IsTree(tree) /\ at \in Positions /\ slot[at] # None
        /\ Here = Truth(tree, at) /\ Here.pos = at
    BY <1>1, Holding
  <2>2. PICK kids : kids = {q \in Positions \ {Root} : tree.parent[q] = at}
    OBVIOUS
  <2>3. PICK left, right : left = {q \in Siblings(at) : q < at} /\ right = {q \in Siblings(at) : q > at}
    OBVIOUS
  <2>4. kids = Childhood(tree, at) /\ left = Left(at) /\ right = Right(at)
    <3>1. tree.size \in Nat /\ Positions \ {Root} = 2 .. tree.size
      BY <2>1, TreeFacts DEF Positions, Root
    <3> QED
      BY <2>2, <2>3, <3>1 DEF Childhood, Left, Right
  <2>5. /\ kids \in SUBSET Positions /\ left \in SUBSET Positions /\ right \in SUBSET Positions
        /\ kids \cap Nodes \in SUBSET Positions /\ left \cap Nodes \in SUBSET Positions
        /\ right \cap Nodes \in SUBSET Positions
    BY <2>2, <2>3 DEF Siblings
  <2>6. /\ FirstChildOrToken(Here).pos = Leftmost(kids)
        /\ FirstChild(Here).pos = Leftmost(kids \cap Nodes)
        /\ LastChildOrToken(Here).pos = Rightmost(kids)
        /\ LastChild(Here).pos = Rightmost(kids \cap Nodes)
    <3>1. /\ Leads(FirstChildOrToken(Here), kids) /\ Leads(FirstChild(Here), kids \cap Nodes)
          /\ Trails(LastChildOrToken(Here), kids) /\ Trails(LastChild(Here), kids \cap Nodes)
      BY <2>1, <2>4, NearestKids
    <3> QED
      BY <2>1, <2>5, <3>1, Extremes
  <2>7. /\ NextSiblingOrToken(Here).pos = Leftmost(right)
        /\ NextSibling(Here).pos = Leftmost(right \cap Nodes)
        /\ PrevSiblingOrToken(Here).pos = Rightmost(left)
        /\ PrevSibling(Here).pos = Rightmost(left \cap Nodes)
        /\ at # Root =>
               /\ NextChildAfter(tree.parent[at], Here.index, End(Here)).pos = Leftmost(right \cap Nodes)
               /\ PrevChildBefore(tree.parent[at], Here.index, Here.offset).pos = Rightmost(left \cap Nodes)
    <3>1. /\ Leads(NextSiblingOrToken(Here), right) /\ Leads(NextSibling(Here), right \cap Nodes)
          /\ Trails(PrevSiblingOrToken(Here), left) /\ Trails(PrevSibling(Here), left \cap Nodes)
          /\ at # Root =>
               /\ Leads(NextChildAfter(tree.parent[at], Here.index, End(Here)), right \cap Nodes)
               /\ Trails(PrevChildBefore(tree.parent[at], Here.index, Here.offset), left \cap Nodes)
      BY <2>1, <2>4, NearestSiblings
    <3> QED
      BY <2>1, <2>5, <3>1, Extremes
  <2>8. TRUE \in BOOLEAN /\ FALSE \in BOOLEAN
    OBVIOUS
  <2>9. PICK sn, sp, nn, np, an :
          /\ sn = SiblingsWithTokens(Here, "Next") /\ sp = SiblingsWithTokens(Here, "Prev")
          /\ nn = SiblingNodes(Here, "Next") /\ np = SiblingNodes(Here, "Prev")
          /\ an = AncestorNodes(Here)
    OBVIOUS
  <2>10. /\ [i \in DOMAIN sn |-> sn[i].pos] = Ascending({at} \cup right)
         /\ [i \in DOMAIN sp |-> sp[i].pos] = Descending({at} \cup left)
         /\ [i \in DOMAIN nn |-> nn[i].pos] = Ascending({at} \cup (right \cap Nodes))
         /\ [i \in DOMAIN np |-> np[i].pos] = Descending({at} \cup (left \cap Nodes))
    <3>1. /\ Lists(sn, {at} \cup right, TRUE) /\ Lists(sp, {at} \cup left, FALSE)
          /\ Lists(nn, {at} \cup (right \cap Nodes), TRUE) /\ Lists(np, {at} \cup (left \cap Nodes), FALSE)
      BY <2>1, <2>4, <2>9, SiblingsListed
    <3>2. [i \in DOMAIN sn |-> sn[i].pos] = IF TRUE THEN Ascending({at} \cup right) ELSE Descending({at} \cup right)
      BY <2>1, <2>8, <3>1, ListedPositions
    <3>3. [i \in DOMAIN sp |-> sp[i].pos] = IF FALSE THEN Ascending({at} \cup left) ELSE Descending({at} \cup left)
      BY <2>1, <2>8, <3>1, ListedPositions
    <3>4. PICK R, L : R = {at} \cup (right \cap Nodes) /\ L = {at} \cup (left \cap Nodes)
      OBVIOUS
    <3>5. [i \in DOMAIN nn |-> nn[i].pos] = IF TRUE THEN Ascending(R) ELSE Descending(R)
      BY <2>1, <2>8, <3>1, <3>4, ListedPositions
    <3>6. [i \in DOMAIN np |-> np[i].pos] = IF FALSE THEN Ascending(L) ELSE Descending(L)
      BY <2>1, <2>8, <3>1, <3>4, ListedPositions
    <3> QED
      BY <3>2, <3>3, <3>4, <3>5, <3>6
  <2>11. [i \in DOMAIN an |-> an[i].pos] = Descending((IF IsToken(at) THEN {} ELSE {at}) \cup Ancestors(at))
    <3>1. Lists(an, Lineage(at), FALSE)
      BY <2>1, <2>9, AncestorsListed
    <3>2. [i \in DOMAIN an |-> an[i].pos] = IF FALSE THEN Ascending(Lineage(at)) ELSE Descending(Lineage(at))
      BY <2>1, <2>8, <3>1, ListedPositions
    <3> QED
      BY <3>2 DEF Lineage
  <2>12. Arity(Here) = Cardinality(kids \cap Nodes) /\ ArityWithTokens(Here) = Cardinality(kids)
    BY <2>1, <2>4, Arities
  <2> QED
    BY <2>2, <2>3, <2>6, <2>7, <2>9, <2>10, <2>11, <2>12, Zenon DEF NeighboursFaithful
<1> QED
  BY <1>1, Invariance, PTL

----------------------------------------------------------------------------
(* The search for a range *)

\* The text of an element covers the range.
Spans(q, from, to) == TrueStart(q) <= from /\ to <= TrueEnd(q)

LEMMA ChildSpans ==
    ASSUME IsTree(tree), NEW q \in Positions, NEW r, r = Truth(tree, q), NEW from, NEW to,
           NEW c, c = ChildCovering(r, from, to)
    PROVE  \/ c = None /\ \A x \in Childhood(tree, q) : ~ Spans(x, from, to)
           \/ \E x \in Childhood(tree, q) : c = Truth(tree, x) /\ Spans(x, from, to)
<1>1. r.pos = q
  BY Within
<1>2. CASE IsToken(q)
  <2>1. Childhood(tree, q) = {}
    BY <1>2, TokensAreLeaves
  <2>2. c = None
    BY <1>1, <1>2 DEF ChildCovering
  <2> QED
    BY <2>1, <2>2
<1>3. CASE ~ IsToken(q)
  <2>1. PICK kids, places : kids = ChildrenWithTokens(r) /\ places = {i \in DOMAIN kids : Covers(kids[i], from, to)}
    OBVIOUS
  <2>2. PICK m \in Nat : /\ m = Len(Kids(q)) /\ m = Len(kids) /\ kids \in Seq(KidTruths(tree, q))
                         /\ DOMAIN kids = 1 .. m /\ \A i \in 1 .. m : kids[i] = Truth(tree, Kids(q)[i])
    BY <2>1, KidsOfTruth
  <2>3. /\ \A i \in 1 .. m : Kids(q)[i] \in Childhood(tree, q)
        /\ \A x \in Childhood(tree, q) : \E i \in 1 .. m : Kids(q)[i] = x
    <3>1. PICK s : s = tree.kids[q] /\ s = Kids(q) /\ KidList(tree, q, s)
      BY Kidlists DEF Kids, Positions
    <3> QED
      BY <2>2, <3>1 DEF KidList, Childhood
  <2>4. \A x \in Childhood(tree, q) : x \in Positions
    BY TreeFacts DEF Childhood, Positions
  <2>5. \A i \in 1 .. m : i \in places <=> Spans(Kids(q)[i], from, to)
    <3>1. ASSUME NEW i \in 1 .. m PROVE Covers(kids[i], from, to) <=> Spans(Kids(q)[i], from, to)
      <4>1. PICK x \in Positions : x = Kids(q)[i] /\ kids[i] = Truth(tree, x)
        BY <2>2, <2>3, <2>4
      <4>2. kids[i].offset = TrueStart(x) /\ End(kids[i]) = TrueEnd(x)
        BY <4>1, TextEnds
      <4> QED
        BY <4>1, <4>2 DEF Covers, Spans
    <3> QED
      BY <2>1, <2>2, <3>1
  <2>6. c = First(Picked(kids, places))
    BY <1>1, <1>3, <2>1, Zenon DEF ChildCovering
  <2>7. \/ c = None /\ \A i \in 1 .. m : i \notin places
        \/ \E i \in 1 .. m : i \in places /\ c = kids[i]
    BY <2>2, <2>6, PickedLeast
  <2>8. CASE c = None /\ \A i \in 1 .. m : i \notin places
    BY <2>3, <2>5, <2>8
  <2>9. CASE \E i \in 1 .. m : i \in places /\ c = kids[i]
    BY <2>2, <2>3, <2>5, <2>9
  <2> QED
    BY <2>7, <2>8, <2>9
<1> QED
  BY <1>2, <1>3

LEMMA CoveringEnds ==
    ASSUME IsTree(tree), NEW p \in Positions, NEW e, e = Truth(tree, p), NEW from, NEW to, Spans(p, from, to)
    PROVE  \E q \in Positions : /\ Last(Covering(e, from, to)) = Truth(tree, q)
                                /\ Under(p, q) /\ Spans(q, from, to)
                                /\ \A x \in Childhood(tree, q) : ~ Spans(x, from, to)
<1>1. PICK n \in Nat \ {0} : n = tree.size /\ Positions = 1 .. n
  BY TreeFacts DEF Positions
<1>2. PICK f, Q, S : /\ f = [r \in Refs |-> ChildCovering(r, from, to)]
                     /\ Q = {q \in Positions : Under(p, q) /\ Spans(q, from, to)}
                     /\ S = {Truth(tree, q) : q \in Q}
  OBVIOUS
<1>3. ASSUME NEW q \in Q
      PROVE  LET r == Truth(tree, q) IN
             /\ r.pos = q /\ r # None /\ f[r] = ChildCovering(r, from, to)
             /\ f[r] # None => \E x \in Q : f[r] = Truth(tree, x) /\ q < x
  <2>1. PICK r : r = Truth(tree, q) /\ r.pos = q /\ r # None /\ r \in Refs /\ q \in Positions /\ Under(p, q)
    BY <1>2, TruthFields DEF Refs, Positions
  <2>2. f[r] = ChildCovering(r, from, to)
    BY <1>2, <2>1
  <2>3. ASSUME f[r] # None PROVE \E x \in Q : f[r] = Truth(tree, x) /\ q < x
    <3>1. PICK x \in Childhood(tree, q) : f[r] = Truth(tree, x) /\ Spans(x, from, to)
      BY <2>1, <2>2, <2>3, ChildSpans
    <3>2. x \in 2 .. n /\ x \in Positions /\ x # Root /\ tree.parent[x] = q /\ q < x
      <4>1. x \in 2 .. n /\ tree.parent[x] = q
        BY <1>1, <3>1 DEF Childhood
      <4>2. tree.parent[x] < x
        BY <1>1, <4>1, TreeFacts
      <4> QED
        BY <1>1, <4>1, <4>2 DEF Root
    <3>3. Under(p, x)
      BY <2>1, <3>2, UnderKid
    <3> QED
      BY <1>2, <3>1, <3>2, <3>3
  <2> QED
    BY <2>1, <2>2, <2>3
<1>4. p \in Q /\ e \in S
  <2>1. Under(p, p)
    BY <1>1 DEF Under
  <2> QED
    BY <1>2, <2>1
<1>5. \A r \in S : r.pos \in Q /\ r = Truth(tree, r.pos) /\ r # None
  <2>1. ASSUME NEW r \in S PROVE r.pos \in Q /\ r = Truth(tree, r.pos) /\ r # None
    <3>1. PICK q \in Q : r = Truth(tree, q)
      BY <1>2
    <3>2. r.pos = q /\ r # None
      BY <1>3, <3>1
    <3> QED
      BY <3>1, <3>2
  <2> QED
    BY <2>1
<1>6. \A r \in S : f[r] # None => f[r] \in S /\ r.pos < f[r].pos
  <2>1. ASSUME NEW r \in S, f[r] # None PROVE f[r] \in S /\ r.pos < f[r].pos
    <3>1. PICK x \in Q : f[r] = Truth(tree, x) /\ r.pos < x
      BY <1>3, <1>5, <2>1
    <3>2. f[r].pos = x
      BY <1>3, <3>1
    <3> QED
      BY <1>2, <3>1, <3>2
  <2> QED
    BY <2>1
<1>7. Goes(f, S)
  BY <1>5, <1>6 DEF Goes
<1>8. PICK path : path = Covering(e, from, to) /\ path = Successors(e, f)
  BY <1>2, Zenon DEF Covering
<1>9. f[Last(path)] = None
  <2>1. PICK rank : rank = [r \in S |-> n - r.pos]
    OBVIOUS
  <2>2. \A r \in S : r.pos \in 1 .. n
    BY <1>1, <1>2, <1>5
  <2>3. rank \in [S -> 0 .. n - 1]
    <3>1. \A r \in S : n - r.pos \in 0 .. n - 1
      BY <1>1, <2>2
    <3> QED
      BY <2>1, <3>1
  <2>4. ASSUME NEW r \in S, f[r] # None PROVE rank[f[r]] < rank[r]
    <3>1. rank[r] = n - r.pos /\ rank[f[r]] = n - f[r].pos
      BY <1>6, <2>1, <2>4
    <3>2. r.pos \in 1 .. n /\ f[r].pos \in 1 .. n /\ r.pos < f[r].pos
      BY <1>6, <2>2, <2>4
    <3> QED
      BY <1>1, <3>1, <3>2
  <2>5. Nears(f, rank, S)
    BY <1>1, <2>3, <2>4 DEF Nears
  <2> QED
    BY <1>1, <1>4, <1>7, <1>8, <2>5, SuccessorsEnd
<1>10. Last(path) \in S
  <2>1. Chain(path, e, f, S)
    BY <1>1, <1>4, <1>7, <1>8, SuccessorsChain
  <2>2. PICK l : l = Len(path) /\ l \in Nat /\ path \in Seq(S) /\ l > 0
    BY <1>4, <1>5, <2>1 DEF Chain
  <2>3. l \in 1 .. l /\ Last(path) = path[l]
    BY <2>2 DEF Last
  <2> QED
    BY <2>2, <2>3
<1>11. PICK q \in Q : Last(path) = Truth(tree, q)
  BY <1>2, <1>10
<1>12. f[Truth(tree, q)] = ChildCovering(Truth(tree, q), from, to) /\ q \in Positions
  BY <1>2, <1>3
<1>13. \A x \in Childhood(tree, q) : ~ Spans(x, from, to)
  <2>1. ASSUME NEW x \in Childhood(tree, q), ChildCovering(Truth(tree, q), from, to) = Truth(tree, x) PROVE FALSE
    <3>1. x \in 1 .. tree.size
      BY <1>1 DEF Childhood
    <3>2. Truth(tree, x) # None
      BY <3>1, TruthFields
    <3> QED
      BY <1>9, <1>11, <1>12, <2>1, <3>2
  <2> QED
    BY <1>12, <2>1, ChildSpans
<1> QED
  BY <1>2, <1>8, <1>11, <1>12, <1>13

\* covering_element: in every tree, from every element and for every range within
\* its text, the result covers the range and no child of it does; a range of at
\* least one byte has one deepest element, and that is the result.
THEOREM CoveringCorrect == Spec => []CoveringFaithful
<1>1. ASSUME Inv PROVE CoveringFaithful
  <2>1. /\ IsTree(tree) /\ at \in Positions /\ Here = Truth(tree, at)
    BY <1>1, Holding
  <2>2. TrueStart(at) \in Nat /\ TrueEnd(at) \in Nat
    BY <2>1, TextEnds
  <2>3. ASSUME NEW from \in TrueStart(at) .. TrueEnd(at), NEW to \in TrueStart(at) .. TrueEnd(at), from <= to,
               NEW covering, covering = {q \in Positions : /\ Under(at, q)
                                                           /\ TrueStart(q) <= from /\ to <= TrueEnd(q)},
               NEW found, found = Last(Covering(Here, from, to)).pos
        PROVE  /\ found \in covering
               /\ \A q \in covering : q # Root => tree.parent[q] # found
               /\ from < to => \A q \in covering : Under(q, found)
    <3>1. Spans(at, from, to) /\ from \in Int /\ to \in Int
      BY <2>2, <2>3 DEF Spans
    <3>2. PICK p \in Positions : /\ Last(Covering(Here, from, to)) = Truth(tree, p)
                                 /\ Under(at, p) /\ Spans(p, from, to)
                                 /\ \A x \in Childhood(tree, p) : ~ Spans(x, from, to)
      BY <2>1, <3>1, CoveringEnds
    <3>3. found = p
      BY <2>1, <2>3, <3>2, TextEnds
    <3>4. \A q \in covering : q \in Positions /\ Under(at, q) /\ Spans(q, from, to)
      BY <2>3 DEF Spans
    <3>5. found \in covering
      BY <2>3, <3>2, <3>3 DEF Spans
    <3>6. ASSUME NEW q \in covering, q # Root, tree.parent[q] = found PROVE FALSE
      <4>1. q \in Childhood(tree, p)
        BY <2>1, <3>3, <3>4, <3>6, TreeFacts DEF Childhood, Positions, Root
      <4> QED
        BY <3>2, <3>4, <4>1
    <3>7. ASSUME from < to, NEW q \in covering PROVE Under(q, p)
      <4>1. q \in Positions /\ q \in Int /\ p \in Int
        BY <2>1, <3>4, TreeFacts DEF Positions
      <4>2. /\ TrueStart(q) \in Nat /\ TrueEnd(q) \in Nat /\ TrueStart(p) \in Nat /\ TrueEnd(p) \in Nat
            /\ TrueStart(q) <= from /\ to <= TrueEnd(q) /\ TrueStart(p) <= from /\ to <= TrueEnd(p)
        BY <2>1, <3>2, <3>4, <4>1, TextEnds DEF Spans
      <4>3. CASE q < p
        <5>1. ~ Under(q, p) => TrueEnd(q) <= TrueStart(p)
          BY <2>1, <4>1, <4>3, Nested
        <5> QED
          BY <3>1, <3>7, <4>2, <5>1
      <4>4. CASE q = p
        BY <4>1, <4>4 DEF Under
      <4>5. CASE p < q
        <5>1. ~ Under(p, q) => TrueEnd(p) <= TrueStart(q)
          BY <2>1, <4>1, <4>5, Nested
        <5>2. Under(p, q)
          BY <3>1, <3>7, <4>2, <5>1
        <5>3. PICK c \in Childhood(tree, p) : Under(c, q)
          BY <2>1, <4>1, <4>5, <5>2, KidToward
        <5>4. c \in Positions
          BY <2>1, TreeFacts DEF Childhood, Positions
        <5>5. TrueStart(c) <= TrueStart(q) /\ TrueEnd(q) <= TrueEnd(c) /\ TrueStart(c) \in Nat /\ TrueEnd(c) \in Nat
          BY <2>1, <4>1, <5>3, <5>4, Nested, TextEnds
        <5>6. Spans(c, from, to)
          BY <3>1, <4>2, <5>5 DEF Spans
        <5> QED
          BY <3>2, <5>6
      <4> QED
        BY <4>1, <4>3, <4>4, <4>5
    <3> QED
      BY <3>3, <3>5, <3>6, <3>7
  <2> QED
    BY <2>3, Zenon DEF CoveringFaithful
<1> QED
  BY <1>1, Invariance, PTL

----------------------------------------------------------------------------
(* The tokens at an offset *)

Sought(p, offset) ==
    {q \in TokensIn(p) : /\ TrueStart(q) < TrueEnd(q)
                         /\ TrueStart(q) <= offset /\ offset <= TrueEnd(q)}

LEMMA SoughtFacts ==
    ASSUME IsTree(tree), NEW p \in Positions, NEW offset, NEW q \in Sought(p, offset)
    PROVE  /\ q \in Positions /\ IsToken(q) /\ Under(p, q)
           /\ TrueStart(q) \in Nat /\ TrueEnd(q) \in Nat
           /\ TrueStart(q) < TrueEnd(q) /\ TrueStart(q) <= offset /\ offset <= TrueEnd(q)
           /\ TrueStart(p) <= TrueStart(q) /\ TrueEnd(q) <= TrueEnd(p)
<1>1. q \in Positions /\ IsToken(q) /\ Under(p, q)
  BY DEF Sought, TokensIn
<1> QED
  BY <1>1, Nested, TextEnds DEF Sought

LEMMA KidAt ==
    ASSUME IsTree(tree), NEW p \in Positions, NEW c \in Childhood(tree, p)
    PROVE  /\ c \in Positions /\ p < c /\ tree.parent[c] = p /\ Under(p, c)
           /\ \A q \in Positions : Under(c, q) => Under(p, q)
           /\ \E k \in 1 .. Len(Kids(p)) : Kids(p)[k] = c
<1>1. PICK n \in Nat : n = tree.size /\ Positions = 1 .. n
  BY TreeFacts DEF Positions
<1>2. c \in 2 .. n /\ tree.parent[c] = p
  BY <1>1 DEF Childhood
<1>3. p < c /\ c \in Positions /\ c # Root
  BY <1>1, <1>2, TreeFacts DEF Root
<1>4. Under(p, p)
  BY <1>1 DEF Under
<1>5. Under(p, c)
  BY <1>2, <1>3, <1>4, UnderKid
<1>6. ASSUME NEW q \in Positions, Under(c, q) PROVE Under(p, q)
  <2>1. LastBelow(c) <= LastBelow(p) /\ LastBelow(c) \in c .. n /\ LastBelow(p) \in p .. n
    BY <1>1, <1>3, <1>5, Nested, Segments
  <2>2. c <= q /\ q <= LastBelow(c)
    BY <1>3, <1>6, Segments
  <2>3. p <= q /\ q <= LastBelow(p)
    BY <1>1, <1>3, <2>1, <2>2
  <2> QED
    BY <2>3, Segments
<1>7. \E k \in 1 .. Len(Kids(p)) : Kids(p)[k] = c
  <2>1. PICK s : s = tree.kids[p] /\ s = Kids(p) /\ KidList(tree, p, s)
    BY Kidlists DEF Kids, Positions
  <2> QED
    BY <1>1, <1>2, <2>1 DEF KidList
<1> QED
  BY <1>2, <1>3, <1>5, <1>6, <1>7

LEMMA KidNumber ==
    ASSUME IsTree(tree), NEW p \in Positions, NEW k \in 1 .. Len(Kids(p))
    PROVE  Kids(p)[k] \in Childhood(tree, p)
<1>1. PICK s : s = tree.kids[p] /\ s = Kids(p) /\ KidList(tree, p, s)
  BY Kidlists DEF Kids, Positions
<1> QED
  BY <1>1 DEF KidList, Childhood

\* Every child with text that touches the offset is looked at.
LEMMA TouchingAll ==
    ASSUME IsTree(tree), NEW p \in Positions, NEW e, e = Truth(tree, p), NEW offset,
           NEW t, t = Touching(e, offset), NEW c \in Childhood(tree, p),
           TrueStart(c) < TrueEnd(c), TrueStart(c) <= offset, offset <= TrueEnd(c)
    PROVE  Truth(tree, c) \in ToSet(t)
<1>1. PICK kids, places :
          /\ kids = ChildrenWithTokens(e)
          /\ places = {i \in DOMAIN kids : /\ ~ IsEmpty(kids[i])
                                           /\ kids[i].offset <= offset /\ offset <= End(kids[i])}
  OBVIOUS
<1>2. PICK m \in Nat : /\ m = Len(Kids(p)) /\ m = Len(kids) /\ kids \in Seq(KidTruths(tree, p))
                       /\ DOMAIN kids = 1 .. m /\ \A i \in 1 .. m : kids[i] = Truth(tree, Kids(p)[i])
  BY <1>1, KidsOfTruth
<1>3. PICK k \in 1 .. m : Kids(p)[k] = c
  BY <1>2, KidAt
<1>4. c \in Positions
  BY KidAt
<1>5. /\ kids[k] = Truth(tree, c) /\ kids[k].offset = TrueStart(c) /\ End(kids[k]) = TrueEnd(c)
      /\ IsEmpty(kids[k]) <=> TrueStart(c) = TrueEnd(c)
  BY <1>2, <1>3, <1>4, TextEnds
<1>6. TrueStart(c) \in Nat /\ TrueEnd(c) \in Nat
  BY <1>4, TextEnds
<1>7. k \in places
  BY <1>1, <1>2, <1>5, <1>6
<1>8. t = Picked(kids, places)
  BY <1>1, Zenon DEF Touching
<1>9. ToSet(t) = {kids[i] : i \in {j \in 1 .. Len(kids) : j \in places}}
  BY <1>2, <1>8, PickedElements
<1> QED
  BY <1>2, <1>5, <1>7, <1>9

\* The tokens sought below an element are those sought below its children.
LEMMA SoughtBelow ==
    ASSUME IsTree(tree), NEW p \in Positions, ~ IsToken(p), NEW offset \in Nat
    PROVE  /\ \A c \in Childhood(tree, p) : Sought(c, offset) \subseteq Sought(p, offset)
           /\ \A q \in Sought(p, offset) : \E c \in Childhood(tree, p) :
                  /\ q \in Sought(c, offset) /\ TrueStart(c) < TrueEnd(c)
                  /\ TrueStart(c) <= offset /\ offset <= TrueEnd(c)
<1>1. ASSUME NEW c \in Childhood(tree, p), NEW q \in Sought(c, offset) PROVE q \in Sought(p, offset)
  <2>1. q \in Positions /\ IsToken(q) /\ Under(p, q)
    BY KidAt, SoughtFacts
  <2> QED
    BY <1>1, <2>1 DEF Sought, TokensIn
<1>2. ASSUME NEW q \in Sought(p, offset)
      PROVE  \E c \in Childhood(tree, p) :
                  /\ q \in Sought(c, offset) /\ TrueStart(c) < TrueEnd(c)
                  /\ TrueStart(c) <= offset /\ offset <= TrueEnd(c)
  <2>1. /\ q \in Positions /\ IsToken(q) /\ Under(p, q) /\ TrueStart(q) \in Nat /\ TrueEnd(q) \in Nat
        /\ TrueStart(q) < TrueEnd(q) /\ TrueStart(q) <= offset /\ offset <= TrueEnd(q)
    BY SoughtFacts
  <2>2. PICK c \in Childhood(tree, p) : Under(c, q)
    BY <2>1, KidToward
  <2>3. c \in Positions /\ q \in Sought(c, offset)
    BY <1>2, <2>1, <2>2, KidAt DEF Sought, TokensIn
  <2>4. /\ TrueStart(c) <= TrueStart(q) /\ TrueEnd(q) <= TrueEnd(c)
        /\ TrueStart(c) \in Nat /\ TrueEnd(c) \in Nat
    BY <2>1, <2>2, <2>3, Nested, TextEnds
  <2>5. TrueStart(c) < TrueEnd(c)
    BY <2>1, <2>4
  <2>6. TrueStart(c) <= offset /\ offset <= TrueEnd(c)
    BY <2>1, <2>4
  <2> QED
    BY <2>1, <2>2, <2>3, <2>4, <2>5, <2>6
<1> QED
  BY <1>1, <1>2

\* What the search returns: references to the tokens sought, in order.
Finds(p, offset) ==
    LET e == Truth(tree, p) IN
    (IsToken(p) => ~ IsEmpty(e)) /\ e.offset <= offset /\ offset <= End(e) =>
        Lists(SearchBy(offset)[e], Sought(p, offset), TRUE)

\* Two tokens on the two sides of the offset.
LEMMA TwoSides ==
    ASSUME IsTree(tree), NEW c \in Positions, NEW d \in Positions, NEW offset \in Nat,
           TrueEnd(c) = offset, TrueStart(d) = offset,
           NEW u \in Sought(c, offset), NEW v \in Sought(d, offset)
    PROVE  u < v
<1>1. /\ u \in Positions /\ TrueStart(u) \in Nat /\ TrueEnd(u) \in Nat
      /\ TrueStart(u) < TrueEnd(u) /\ TrueEnd(u) <= offset
  BY SoughtFacts
<1>2. /\ v \in Positions /\ TrueStart(v) \in Nat /\ TrueEnd(v) \in Nat
      /\ TrueStart(v) < TrueEnd(v) /\ offset <= TrueStart(v)
  BY SoughtFacts
<1>3. u # v
  BY <1>1, <1>2
<1>4. CASE v < u
  <2>1. Under(v, u) => TrueStart(v) <= TrueStart(u)
    BY <1>1, <1>2, Nested
  <2>2. ~ Under(v, u) => TrueEnd(v) <= TrueStart(u)
    BY <1>1, <1>2, <1>4, Nested
  <2> QED
    BY <1>1, <1>2, <2>1, <2>2
<1>5. u \in Int /\ v \in Int
  BY <1>1, <1>2, TreeFacts DEF Positions
<1> QED
  BY <1>3, <1>4, <1>5

LEMMA SearchFinds ==
    ASSUME IsTree(tree), NEW offset \in Nat
    PROVE  \A p \in Positions : Finds(p, offset)
<1>1. PICK n : n = tree.size /\ n \in Nat /\ Positions = 1 .. n
  BY TreeFacts DEF Positions
<1>2. PICK M : M = {i \in 0 .. n : \A p \in 1 .. n : n - p < i => Finds(p, offset)}
  OBVIOUS
<1>3. 0 \in M
  BY <1>1, <1>2
<1>4. ASSUME NEW i \in 1 .. n, i - 1 \in M PROVE i \in M
  <2>1. ASSUME NEW p \in 1 .. n, n - p < i PROVE Finds(p, offset)
    <3>1. PICK e, search : e = Truth(tree, p) /\ e \in Refs /\ e.pos = p /\ p \in Positions /\ search = SearchBy(offset)
      BY <1>1, TruthFields DEF Refs, Positions
    <3>2. SUFFICES ASSUME IsToken(p) => ~ IsEmpty(e), e.offset <= offset, offset <= End(e)
                   PROVE  Lists(search[e], Sought(p, offset), TRUE)
      BY <3>1 DEF Finds
    <3>3. PICK t, results : t = Touching(e, offset) /\ results = Results(search, t)
      OBVIOUS
    <3>4. search[e] = SearchFrom(e, results, Len(t))
      BY <3>1, <3>3, SearchSteps
    <3>5. /\ e \in Truths(tree) /\ e.offset = TrueStart(p) /\ End(e) = TrueEnd(p)
          /\ TrueStart(p) \in Nat /\ TrueEnd(p) \in Nat /\ TrueStart(p) <= TrueEnd(p)
          /\ IsEmpty(e) <=> TrueStart(p) = TrueEnd(p)
      BY <1>1, <3>1, TextEnds DEF Truths
    <3>6. CASE IsToken(p)
      <4>1. search[e] = <<e>>
        BY <3>1, <3>4, <3>6 DEF SearchFrom
      <4>2. Sought(p, offset) = {p}
        <5>1. ASSUME NEW q \in Sought(p, offset) PROVE q = p
          <6>1. Childhood(tree, p) = {} /\ q \in Positions /\ Under(p, q)
            BY <3>1, <3>6, <5>1, SoughtFacts, TokensAreLeaves
          <6> QED
            BY <3>1, <6>1, KidToward
        <5>2. Under(p, p)
          BY <1>1 DEF Under
        <5>3. p \in Sought(p, offset)
          BY <3>1, <3>2, <3>5, <3>6, <5>2 DEF Sought, TokensIn
        <5> QED
          BY <5>1, <5>3
      <4>3. PICK path : path = <<e>>
        OBVIOUS
      <4>4. Lists(path, {p}, TRUE)
        <5>1. PICK T : T = Truths(tree) /\ e \in T
          BY <3>5
        <5>2. path \in Seq(T) /\ Len(path) = 1 /\ path[1] = e
          BY <4>3, <5>1
        <5>3. {path[j].pos : j \in 1 .. Len(path)} = {p}
          BY <3>1, <5>2
        <5>4. \A j, m \in 1 .. Len(path) : ~ (j < m)
          BY <5>2
        <5> QED
          BY <5>1, <5>2, <5>3, <5>4 DEF Lists
      <4> QED
        BY <4>1, <4>2, <4>3, <4>4
    <3>7. CASE ~ IsToken(p) /\ IsEmpty(e)
      <4>1. search[e] = <<>>
        BY <3>1, <3>4, <3>7 DEF SearchFrom
      <4>2. Sought(p, offset) = {}
        <5>1. ASSUME NEW q \in Sought(p, offset) PROVE FALSE
          <6>1. /\ TrueStart(q) \in Nat /\ TrueEnd(q) \in Nat /\ TrueStart(q) < TrueEnd(q)
                /\ TrueStart(p) <= TrueStart(q) /\ TrueEnd(q) <= TrueEnd(p)
            BY <3>1, SoughtFacts
          <6> QED
            BY <3>5, <3>7, <6>1
        <5> QED
          BY <5>1
      <4>3. PICK path, T : path = <<>> /\ T = Truths(tree)
        OBVIOUS
      <4>4. Lists(path, {}, TRUE)
        <5>1. path \in Seq(T) /\ Len(path) = 0 /\ 1 .. Len(path) = {}
          BY <4>3
        <5> QED
          BY <4>3, <5>1 DEF Lists
      <4> QED
        BY <4>1, <4>2, <4>3, <4>4
    <3>8. CASE ~ IsToken(p) /\ ~ IsEmpty(e)
      <4>1. ASSUME NEW k \in 1 .. Len(Kids(p)), NEW r, r = Truth(tree, Kids(p)[k]), r.offset < End(r),
                   r.offset <= offset, offset <= End(r)
            PROVE  /\ Kids(p)[k] \in Childhood(tree, p) /\ Kids(p)[k] \in Positions
                   /\ r.offset = TrueStart(Kids(p)[k]) /\ End(r) = TrueEnd(Kids(p)[k])
                   /\ Lists(search[r], Sought(Kids(p)[k], offset), TRUE)
                   /\ (offset = r.offset \/ offset = End(r)) => Len(search[r]) = 1
        <5>1. PICK c : /\ c = Kids(p)[k] /\ c \in Childhood(tree, p) /\ c \in Positions /\ p < c
          BY <3>1, KidNumber, KidAt
        <5>2. /\ r.offset = TrueStart(c) /\ End(r) = TrueEnd(c)
              /\ IsEmpty(r) <=> TrueStart(c) = TrueEnd(c)
              /\ TrueStart(c) \in Nat /\ TrueEnd(c) \in Nat
          BY <4>1, <5>1, TextEnds
        <5>3. ~ IsEmpty(r)
          BY <4>1, <5>2
        <5>4. c \in 1 .. n /\ n - c < i - 1
          BY <1>1, <2>1, <5>1
        <5>5. Finds(c, offset)
          BY <1>2, <1>4, <5>4
        <5>6. Lists(search[r], Sought(c, offset), TRUE)
          BY <3>1, <4>1, <5>1, <5>3, <5>5 DEF Finds
        <5>7. Searches(c, offset)
          BY <5>1, SearchTrue
        <5>8. (offset = r.offset \/ offset = End(r)) => Len(search[r]) = 1
          BY <3>1, <4>1, <5>1, <5>3, <5>7 DEF Searches
        <5> QED
          BY <5>1, <5>2, <5>6, <5>8
      <4>2. ASSUME NEW q \in Sought(p, offset)
            PROVE  \E c \in Childhood(tree, p) : Truth(tree, c) \in ToSet(t) /\ q \in Sought(c, offset)
        <5>1. PICK c \in Childhood(tree, p) :
                  /\ q \in Sought(c, offset) /\ TrueStart(c) < TrueEnd(c)
                  /\ TrueStart(c) <= offset /\ offset <= TrueEnd(c)
          BY <3>1, <3>8, SoughtBelow
        <5>2. Truth(tree, c) \in ToSet(t)
          BY <3>1, <3>3, <5>1, TouchingAll
        <5> QED
          BY <5>1, <5>2
      <4>3. \A c, d \in Childhood(tree, p) : Truth(tree, c) = Truth(tree, d) => c = d
        BY DEF Truth
      <4>4. CASE TouchingOne(p, offset, t)
        <5>1. PICK k, r : /\ k \in 1 .. Len(Kids(p))
                          /\ r = Truth(tree, Kids(p)[k]) /\ t = <<r>> /\ r.offset < End(r)
                          /\ r.offset <= offset /\ offset <= End(r)
          BY <4>4 DEF TouchingOne
        <5>2. Len(t) = 1 /\ 1 \in DOMAIN t /\ t[1] = r /\ ToSet(t) = {r}
          BY <5>1 DEF ToSet
        <5>3. search[e] = search[r]
          <6>1. results[1] = search[r]
            BY <3>3, <5>2 DEF Results
          <6> QED
            BY <3>1, <3>4, <3>8, <5>2, <6>1 DEF SearchFrom
        <5>4. PICK c : /\ c = Kids(p)[k] /\ c \in Childhood(tree, p) /\ r = Truth(tree, c)
                       /\ Lists(search[r], Sought(c, offset), TRUE)
          BY <4>1, <5>1
        <5>5. Sought(c, offset) = Sought(p, offset)
          <6>1. Sought(c, offset) \subseteq Sought(p, offset)
            BY <3>1, <3>8, <5>4, SoughtBelow
          <6>2. ASSUME NEW q \in Sought(p, offset) PROVE q \in Sought(c, offset)
            BY <4>2, <4>3, <5>2, <5>4
          <6> QED
            BY <6>1, <6>2
        <5> QED
          BY <5>3, <5>4, <5>5
      <4>5. CASE TouchingTwo(p, offset, t)
        <5>1. PICK k, l, r, s :
                  /\ k \in 1 .. Len(Kids(p)) /\ l \in 1 .. Len(Kids(p))
                  /\ r = Truth(tree, Kids(p)[k]) /\ s = Truth(tree, Kids(p)[l])
                  /\ t = <<r, s>> /\ r.offset < End(r) /\ s.offset < End(s)
                  /\ r.offset <= offset /\ offset = End(r) /\ offset = s.offset /\ offset <= End(s)
          BY <4>5 DEF TouchingTwo
        <5>2. Len(t) = 2 /\ 1 \in DOMAIN t /\ 2 \in DOMAIN t /\ t[1] = r /\ t[2] = s
          BY <5>1
        <5>3. ToSet(t) = {r, s}
          <6>1. DOMAIN t = {1, 2}
            BY <5>1
          <6> QED
            BY <5>2, <6>1 DEF ToSet
        <5>4. PICK c : /\ c = Kids(p)[k] /\ c \in Childhood(tree, p) /\ c \in Positions /\ r = Truth(tree, c)
                       /\ Lists(search[r], Sought(c, offset), TRUE) /\ Len(search[r]) = 1
                       /\ TrueEnd(c) = offset
          <6>1. offset <= End(r)
            BY <5>1
          <6> QED
            BY <4>1, <5>1, <6>1
        <5>5. PICK d : /\ d = Kids(p)[l] /\ d \in Childhood(tree, p) /\ d \in Positions /\ s = Truth(tree, d)
                       /\ Lists(search[s], Sought(d, offset), TRUE) /\ Len(search[s]) = 1
                       /\ TrueStart(d) = offset
          <6>1. s.offset <= offset
            BY <5>1
          <6> QED
            BY <4>1, <5>1, <6>1
        <5>6. search[e] = search[r] \o search[s]
          <6>1. results[1] = search[r] /\ results[2] = search[s]
            BY <3>3, <5>2 DEF Results
          <6>2. Len(results[1]) = 1 /\ Len(results[2]) = 1 /\ Len(t) = 2 /\ Len(t) # 1
            BY <5>2, <5>4, <5>5, <6>1
          <6>3. search[e] = results[1] \o results[2]
            BY <3>1, <3>4, <3>8, <6>2, Zenon DEF SearchFrom
          <6> QED
            BY <6>1, <6>3
        <5>7. PICK a, b : /\ a = search[r] /\ a \in Seq(Truths(tree)) /\ Len(a) = 1 /\ Sought(c, offset) = {a[1].pos}
                          /\ b = search[s] /\ b \in Seq(Truths(tree)) /\ Len(b) = 1 /\ Sought(d, offset) = {b[1].pos}
          BY <5>4, <5>5 DEF Lists
        <5>8. Sought(p, offset) = {a[1].pos, b[1].pos}
          <6>1. Sought(c, offset) \subseteq Sought(p, offset) /\ Sought(d, offset) \subseteq Sought(p, offset)
            BY <3>1, <3>8, <5>4, <5>5, SoughtBelow
          <6>2. ASSUME NEW q \in Sought(p, offset) PROVE q \in Sought(c, offset) \/ q \in Sought(d, offset)
            BY <4>2, <4>3, <5>3, <5>4, <5>5
          <6> QED
            BY <5>7, <6>1, <6>2
        <5>9. a[1].pos < b[1].pos
          BY <5>4, <5>5, <5>7, TwoSides
        <5>10. PICK x : x = a \o b /\ x \in Seq(Truths(tree)) /\ Len(x) = 2 /\ x[1] = a[1] /\ x[2] = b[1]
          <6>1. PICK T, x : T = Truths(tree) /\ x = a \o b
            OBVIOUS
          <6>2. a \in Seq(T) /\ b \in Seq(T)
            BY <5>7, <6>1
          <6>3. x \in Seq(T) /\ Len(x) = 2 /\ x[1] = a[1] /\ x[2] = b[1]
            <7>1. /\ x \in Seq(T) /\ Len(x) = Len(a) + Len(b)
                  /\ \A j \in 1 .. Len(a) + Len(b) : x[j] = IF j <= Len(a) THEN a[j] ELSE b[j - Len(a)]
              BY <6>1, <6>2, ConcatProperties
            <7>2. Len(a) = 1 /\ Len(b) = 1 /\ 1 \in 1 .. 2 /\ 2 \in 1 .. 2 /\ 2 - 1 = 1
              BY <5>7
            <7>3. Len(x) = 2 /\ \A j \in 1 .. 2 : x[j] = IF j <= 1 THEN a[j] ELSE b[j - 1]
              BY <7>1, <7>2
            <7> QED
              BY <7>1, <7>2, <7>3
          <6> QED
            BY <6>1, <6>3
        <5>11. Lists(x, {a[1].pos, b[1].pos}, TRUE)
          <6>1. 1 .. Len(x) = {1, 2}
            BY <5>10
          <6>2. {x[j].pos : j \in 1 .. Len(x)} = {a[1].pos, b[1].pos}
            BY <5>10, <6>1
          <6>3. \A j, m \in 1 .. Len(x) : j < m => Before(TRUE, x[j].pos, x[m].pos)
            BY <5>9, <5>10, <6>1 DEF Before
          <6> QED
            BY <5>10, <6>2, <6>3 DEF Lists
        <5> QED
          BY <5>6, <5>7, <5>8, <5>10, <5>11
      <4> QED
        BY <3>1, <3>2, <3>3, <3>8, <4>4, <4>5, TouchingKids
    <3> QED
      BY <3>6, <3>7, <3>8
  <2> QED
    BY <1>2, <2>1
<1>5. \A i \in 0 .. n : i \in M
  BY <1>1, <1>3, <1>4, UpTo
<1>6. n \in M /\ \A p \in 1 .. n : n - p < n
  BY <1>1, <1>5
<1> QED
  BY <1>1, <1>2, <1>6

\* token_at_offset: in every tree, from every node and at every offset of its
\* text, the result is the non-empty tokens that touch the offset, the left one
\* first.
THEOREM TokenAtOffsetCorrect == Spec => []TokenAtOffsetFaithful
<1>1. ASSUME Inv PROVE TokenAtOffsetFaithful
  <2>1. IsTree(tree) /\ at \in Positions /\ Here = Truth(tree, at)
    BY <1>1, Holding
  <2>2. TrueStart(at) \in Nat /\ TrueEnd(at) \in Nat /\ Here.offset = TrueStart(at) /\ End(Here) = TrueEnd(at)
    BY <2>1, TextEnds
  <2>3. ASSUME ~ IsToken(at), NEW offset \in TrueStart(at) .. TrueEnd(at),
               NEW found, found = TokenAtOffset(Here, offset)
        PROVE  [i \in DOMAIN found |-> found[i].pos] =
                Ascending({q \in TokensIn(at) :
                     /\ TrueStart(q) < TrueEnd(q)
                     /\ TrueStart(q) <= offset /\ offset <= TrueEnd(q)})
    <3>1. found = SearchBy(offset)[Here]
      BY <2>3, Zenon DEF TokenAtOffset, SearchBy
    <3>2. offset \in Nat /\ Here.offset <= offset /\ offset <= End(Here)
      BY <2>2
    <3>3. Finds(at, offset)
      BY <2>1, <3>2, SearchFinds
    <3>4. Lists(found, Sought(at, offset), TRUE)
      BY <2>1, <2>3, <3>1, <3>2, <3>3 DEF Finds
    <3>5. [i \in DOMAIN found |-> found[i].pos] =
              IF TRUE THEN Ascending(Sought(at, offset)) ELSE Descending(Sought(at, offset))
      BY <2>1, <3>4, ListedPositions
    <3> QED
      BY <3>5 DEF Sought
  <2> QED
    BY <2>3, Zenon DEF TokenAtOffsetFaithful
<1> QED
  BY <1>1, Invariance, PTL

----------------------------------------------------------------------------
(* The first and the last token *)

LEMMA UnderBetween ==
    ASSUME IsTree(tree), NEW p \in Positions, NEW q \in Positions, NEW r \in Positions,
           Under(p, r), p <= q, q <= r
    PROVE  Under(p, q)
<1>1. p \in Int /\ q \in Int /\ r \in Int
  BY TreeFacts DEF Positions
<1> QED
  BY <1>1 DEF Under

\* Two different children of a node are not below one another.
LEMMA KidsApart ==
    ASSUME IsTree(tree), NEW p \in Positions, NEW c \in Childhood(tree, p), NEW d \in Childhood(tree, p),
           NEW q \in Positions, Under(c, q), d <= q
    PROVE  d <= c
<1>1. PICK n \in Nat : n = tree.size /\ Positions = 1 .. n
  BY TreeFacts DEF Positions
<1>2. c \in 1 .. n /\ d \in 1 .. n /\ p < c /\ tree.parent[d] = p
  BY <1>1, KidAt
<1>3. ASSUME c < d PROVE FALSE
  <2>1. d \in c + 1 .. q
    BY <1>1, <1>2, <1>3
  <2>2. tree.parent[d] >= c
    BY <2>1 DEF Under
  <2> QED
    BY <1>1, <1>2, <2>2
<1> QED
  BY <1>1, <1>2, <1>3

LEMMA FirstKid ==
    ASSUME IsTree(tree), NEW p \in Positions, NEW c \in Childhood(tree, p), \A d \in Childhood(tree, p) : c <= d
    PROVE  c = p + 1
<1>1. PICK n \in Nat : n = tree.size /\ Positions = 1 .. n
  BY TreeFacts DEF Positions
<1>2. c \in 1 .. n /\ p < c /\ Under(p, c)
  BY <1>1, KidAt
<1>3. p + 1 \in Positions /\ p <= p + 1 /\ p + 1 <= c /\ p + 1 # p
  BY <1>1, <1>2
<1>4. Under(p, p + 1)
  BY <1>1, <1>2, <1>3, UnderBetween
<1>5. PICK d \in Childhood(tree, p) : Under(d, p + 1)
  BY <1>3, <1>4, KidToward
<1>6. d <= p + 1 /\ d \in 1 .. n
  BY <1>1, <1>5, KidAt DEF Under
<1> QED
  BY <1>1, <1>2, <1>3, <1>5, <1>6

LEMMA LastKid ==
    ASSUME IsTree(tree), NEW p \in Positions, NEW c \in Childhood(tree, p), \A d \in Childhood(tree, p) : d <= c
    PROVE  LastBelow(c) = LastBelow(p)
<1>1. PICK n \in Nat : n = tree.size /\ Positions = 1 .. n
  BY TreeFacts DEF Positions
<1>2. c \in Positions /\ c \in 1 .. n /\ p < c /\ Under(p, c)
  BY <1>1, KidAt
<1>3. PICK b : b = LastBelow(p) /\ b \in p .. n
  BY <1>1, Segments
<1>4. b \in Positions /\ c <= b /\ Under(p, b) /\ b # p
  BY <1>1, <1>2, <1>3, Segments
<1>5. PICK d \in Childhood(tree, p) : Under(d, b)
  BY <1>4, KidToward
<1>6. c <= d /\ d \in 1 .. n
  BY <1>1, <1>4, <1>5, KidsApart, KidAt
<1>7. d = c
  BY <1>1, <1>2, <1>5, <1>6
<1>8. b <= LastBelow(c) /\ LastBelow(c) \in c .. n
  BY <1>1, <1>2, <1>4, <1>5, <1>7, Segments
<1>9. LastBelow(c) <= b
  BY <1>2, <1>3, Nested
<1> QED
  BY <1>1, <1>3, <1>8, <1>9

LEMMA TokenEnds ==
    ASSUME IsTree(tree), NEW p \in Positions, IsToken(p)
    PROVE  LastBelow(p) = p /\ \A q \in Positions : Under(p, q) => q = p
<1>1. PICK n \in Nat : n = tree.size /\ Positions = 1 .. n
  BY TreeFacts DEF Positions
<1>2. \A q \in Positions : Under(p, q) => q = p
  BY KidToward, TokensAreLeaves
<1>3. LastBelow(p) \in p .. n
  BY <1>1, Segments
<1>4. LastBelow(p) \in Positions /\ Under(p, LastBelow(p))
  BY <1>1, <1>3, Segments
<1> QED
  BY <1>2, <1>4

\* A descent from child to child ends at a token where there is one below every
\* node.
LEMMA DescentEnds ==
    ASSUME IsTree(tree), NEW p \in Positions, NEW e, e = Truth(tree, p), NEW f, NEW Q \in SUBSET Positions,
           p \in Q, \A x \in Q : IF IsToken(x) THEN f[Truth(tree, x)] = None
                                 ELSE \E y \in Q : f[Truth(tree, x)] = Truth(tree, y) /\ x < y
    PROVE  \E x \in Q : IsToken(x) /\ Last(Descent(e, f)) = Truth(tree, x)
<1>1. PICK n \in Nat \ {0} : n = tree.size /\ Positions = 1 .. n
  BY TreeFacts DEF Positions
<1>2. PICK S : S = {Truth(tree, q) : q \in Q}
  OBVIOUS
<1>3. \A q \in Q : Truth(tree, q).pos = q /\ Truth(tree, q) # None /\ q \in 1 .. n
  BY <1>1, TruthFields
<1>4. \A r \in S : r.pos \in Q /\ r = Truth(tree, r.pos) /\ r # None
  <2>1. ASSUME NEW r \in S PROVE r.pos \in Q /\ r = Truth(tree, r.pos) /\ r # None
    <3>1. PICK q \in Q : r = Truth(tree, q)
      BY <1>2
    <3>2. r.pos = q /\ r # None
      BY <1>3, <3>1
    <3> QED
      BY <3>1, <3>2
  <2> QED
    BY <2>1
<1>5. \A r \in S : f[r] # None => f[r] \in S /\ r.pos < f[r].pos
  <2>1. ASSUME NEW r \in S, f[r] # None PROVE f[r] \in S /\ r.pos < f[r].pos
    <3>1. PICK y \in Q : f[r] = Truth(tree, y) /\ r.pos < y
      BY <1>4, <2>1
    <3>2. f[r].pos = y
      BY <1>3, <3>1
    <3> QED
      BY <1>2, <3>1, <3>2
  <2> QED
    BY <2>1
<1>6. Goes(f, S) /\ e \in S /\ e # None
  BY <1>2, <1>4, <1>5 DEF Goes
<1>7. PICK path : path = Successors(e, f)
  OBVIOUS
<1>8. f[Last(path)] = None
  <2>1. PICK rank : rank = [r \in S |-> n - r.pos]
    OBVIOUS
  <2>2. \A r \in S : r.pos \in 1 .. n
    BY <1>3, <1>4
  <2>3. rank \in [S -> 0 .. n - 1]
    <3>1. \A r \in S : n - r.pos \in 0 .. n - 1
      BY <1>1, <2>2
    <3> QED
      BY <2>1, <3>1
  <2>4. ASSUME NEW r \in S, f[r] # None PROVE rank[f[r]] < rank[r]
    <3>1. rank[r] = n - r.pos /\ rank[f[r]] = n - f[r].pos
      BY <1>5, <2>1, <2>4
    <3>2. r.pos \in 1 .. n /\ f[r].pos \in 1 .. n /\ r.pos < f[r].pos
      BY <1>5, <2>2, <2>4
    <3> QED
      BY <1>1, <3>1, <3>2
  <2>5. Nears(f, rank, S)
    BY <1>1, <2>3, <2>4 DEF Nears
  <2> QED
    BY <1>1, <1>6, <1>7, <2>5, SuccessorsEnd
<1>9. path # <<>> /\ Last(path) \in S
  <2>1. Chain(path, e, f, S)
    BY <1>1, <1>6, <1>7, SuccessorsChain
  <2>2. PICK l : l = Len(path) /\ l \in Nat /\ path \in Seq(S) /\ l > 0
    BY <1>6, <2>1 DEF Chain
  <2>3. l \in 1 .. l /\ Last(path) = path[l]
    BY <2>2 DEF Last
  <2> QED
    BY <2>2, <2>3
<1>10. PICK x \in Q : Last(path) = Truth(tree, x) /\ Last(path).pos = x
  BY <1>4, <1>9
<1>11. IsToken(x)
  <2>1. ASSUME ~ IsToken(x) PROVE FALSE
    <3>1. PICK y \in Q : f[Truth(tree, x)] = Truth(tree, y)
      BY <2>1
    <3> QED
      BY <1>3, <1>8, <1>10, <3>1
  <2> QED
    BY <2>1
<1>12. Descent(e, f) = path
  BY <1>7, <1>9, <1>10, <1>11, Zenon DEF Descent
<1> QED
  BY <1>10, <1>11, <1>12

LEMMA FirstAndLastToken ==
    ASSUME IsTree(tree), NoEmptySubtree, NEW p \in Positions, NEW e, e = Truth(tree, p)
    PROVE  Leads(Last(FirstToken(e)), TokensIn(p)) /\ Trails(Last(LastToken(e)), TokensIn(p))
<1>1. PICK n \in Nat : n = tree.size /\ Positions = 1 .. n
  BY TreeFacts DEF Positions
<1>2. PICK T : T = TokensIn(p) /\ \A y \in T : y \in 1 .. n /\ IsToken(y) /\ Under(p, y)
  <2>1. \A y \in TokensIn(p) : y \in 1 .. n /\ IsToken(y) /\ Under(p, y)
    BY <1>1 DEF TokensIn
  <2> QED
    BY <2>1
<1>3. PICK f, g : /\ f = [r \in Refs |-> IF IsToken(r.pos) THEN None ELSE FirstChildOrToken(r)]
                  /\ g = [r \in Refs |-> IF IsToken(r.pos) THEN None ELSE LastChildOrToken(r)]
  OBVIOUS
<1>4. FirstToken(e) = Descent(e, f) /\ LastToken(e) = Descent(e, g)
  BY <1>3, Zenon DEF FirstToken, LastToken
<1>5. ASSUME NEW x \in Positions, ~ IsToken(x) PROVE Childhood(tree, x) # {}
  <2>1. PICK y \in Positions : IsToken(y) /\ Under(x, y)
    BY DEF NoEmptySubtree, TokensIn
  <2>2. y # x
    BY <1>5, <2>1
  <2> QED
    BY <2>1, <2>2, KidToward
<1>6. ASSUME NEW x \in Positions, NEW r, r = Truth(tree, x)
      PROVE  /\ f[r] = IF IsToken(x) THEN None ELSE FirstChildOrToken(r)
             /\ g[r] = IF IsToken(x) THEN None ELSE LastChildOrToken(r)
             /\ Leads(FirstChildOrToken(r), Childhood(tree, x)) /\ Trails(LastChildOrToken(r), Childhood(tree, x))
  <2>1. r \in Refs /\ r.pos = x
    BY <1>6, TruthFields DEF Refs, Positions
  <2> QED
    BY <1>3, <1>6, <2>1, NearestKids
<1>7. Leads(Last(FirstToken(e)), T)
  <2>1. PICK Q : Q = {x \in Positions : Under(p, x) /\ \A y \in T : x <= y} /\ Q \in SUBSET Positions
    OBVIOUS
  <2>2. p \in Q
    BY <1>1, <1>2, <2>1 DEF Under
  <2>3. ASSUME NEW x \in Q, ~ IsToken(x)
        PROVE  \E y \in Q : f[Truth(tree, x)] = Truth(tree, y) /\ x < y
    <3>1. x \in Positions /\ x \in Int /\ Under(p, x) /\ \A y \in T : x <= y
      BY <1>1, <2>1
    <3>2. PICK c \in Childhood(tree, x) : f[Truth(tree, x)] = Truth(tree, c) /\ \A d \in Childhood(tree, x) : c <= d
      BY <1>5, <1>6, <2>3, <3>1 DEF Leads
    <3>3. c = x + 1 /\ c \in Positions /\ tree.parent[c] = x /\ x < c
      BY <3>1, <3>2, FirstKid, KidAt
    <3>4. c # Root
      BY <1>1, <3>1, <3>3 DEF Root
    <3>5. Under(p, c)
      BY <3>1, <3>3, <3>4, UnderKid
    <3>6. \A y \in T : c <= y
      <4>1. \A y \in T : y # x /\ x <= y /\ y \in Int
        BY <1>2, <2>3, <3>1
      <4> QED
        BY <3>1, <3>3, <4>1
    <3> QED
      BY <2>1, <3>2, <3>3, <3>5, <3>6
  <2>4. \A x \in Q : IsToken(x) => f[Truth(tree, x)] = None
    BY <1>6, <2>1
  <2>5. PICK x \in Q : IsToken(x) /\ Last(FirstToken(e)) = Truth(tree, x)
    BY <1>4, <2>1, <2>2, <2>3, <2>4, DescentEnds
  <2>6. x \in T /\ \A y \in T : x <= y
    BY <1>2, <2>1, <2>5 DEF TokensIn
  <2> QED
    BY <2>5, <2>6 DEF Leads
<1>8. Trails(Last(LastToken(e)), T)
  <2>1. PICK Q : Q = {x \in Positions : Under(p, x) /\ \A y \in T : y <= LastBelow(x)} /\ Q \in SUBSET Positions
    OBVIOUS
  <2>2. p \in Q
    <3>1. Under(p, p)
      BY <1>1 DEF Under
    <3>2. \A y \in T : y <= LastBelow(p)
      BY <1>1, <1>2, Segments
    <3> QED
      BY <2>1, <3>1, <3>2
  <2>3. ASSUME NEW x \in Q, ~ IsToken(x)
        PROVE  \E y \in Q : g[Truth(tree, x)] = Truth(tree, y) /\ x < y
    <3>1. x \in Positions /\ x \in Int /\ Under(p, x) /\ \A y \in T : y <= LastBelow(x)
      BY <1>1, <2>1
    <3>2. PICK c \in Childhood(tree, x) : g[Truth(tree, x)] = Truth(tree, c) /\ \A d \in Childhood(tree, x) : d <= c
      BY <1>5, <1>6, <2>3, <3>1 DEF Trails
    <3>3. c \in Positions /\ tree.parent[c] = x /\ x < c /\ LastBelow(c) = LastBelow(x)
      BY <3>1, <3>2, LastKid, KidAt
    <3>4. c # Root
      BY <1>1, <3>1, <3>3 DEF Root
    <3>5. Under(p, c)
      BY <3>1, <3>3, <3>4, UnderKid
    <3> QED
      BY <2>1, <3>1, <3>2, <3>3, <3>5
  <2>4. \A x \in Q : IsToken(x) => g[Truth(tree, x)] = None
    BY <1>6, <2>1
  <2>5. PICK x \in Q : IsToken(x) /\ Last(LastToken(e)) = Truth(tree, x)
    BY <1>4, <2>1, <2>2, <2>3, <2>4, DescentEnds
  <2>6. x \in T /\ \A y \in T : y <= x
    BY <1>2, <2>1, <2>5, TokenEnds DEF TokensIn
  <2> QED
    BY <2>5, <2>6 DEF Trails
<1> QED
  BY <1>2, <1>7, <1>8

----------------------------------------------------------------------------
(* From token to token *)

LEMMA SiblingsAre ==
    ASSUME IsTree(tree), NEW p \in Positions
    PROVE  /\ p = Root => Right(p) = {} /\ Left(p) = {}
           /\ p # Root => /\ tree.parent[p] \in Positions /\ tree.parent[p] < p
                          /\ p \in Childhood(tree, tree.parent[p])
                          /\ Right(p) = {q \in Childhood(tree, tree.parent[p]) : q > p}
                          /\ Left(p) = {q \in Childhood(tree, tree.parent[p]) : q < p}
<1>1. PICK n \in Nat : n = tree.size /\ Positions = 1 .. n /\ Positions \ {Root} = 2 .. n
  BY TreeFacts DEF Positions, Root
<1>2. CASE p = Root
  BY <1>2 DEF Right, Left, Siblings
<1>3. CASE p # Root
  <2>1. p \in 2 .. n /\ tree.parent[p] \in Positions /\ tree.parent[p] < p
    BY <1>1, <1>3, TreeFacts
  <2>2. Siblings(p) = Childhood(tree, tree.parent[p])
    BY <1>1, <1>3 DEF Siblings, Childhood
  <2> QED
    BY <1>1, <1>3, <2>1, <2>2 DEF Right, Left, Childhood
<1> QED
  BY <1>2, <1>3

\* Without a sibling on the right up to a, what ends with p ends with a.
LEMMA NothingRight ==
    ASSUME IsTree(tree), NEW p \in Positions, NEW a \in Positions, Under(a, p),
           \A x \in Positions : Under(a, x) /\ Under(x, p) /\ x # a => Right(x) = {}
    PROVE  LastBelow(a) = LastBelow(p)
<1>1. PICK n \in Nat : n = tree.size /\ Positions = 1 .. n
  BY TreeFacts DEF Positions
<1>2. LastBelow(a) \in a .. n /\ LastBelow(p) \in p .. n /\ LastBelow(p) <= LastBelow(a) /\ a <= p
  BY <1>1, Nested, Segments DEF Under
<1>3. ASSUME LastBelow(p) < LastBelow(a) PROVE FALSE
  <2>1. PICK z \in Positions : z = LastBelow(p) + 1 /\ p < z /\ z <= LastBelow(a) /\ z # Root
    BY <1>1, <1>2, <1>3 DEF Root
  <2>2. Under(a, z) /\ ~ Under(p, z) /\ z # a
    BY <1>1, <1>2, <2>1, Segments
  <2>3. PICK b \in Positions : b = tree.parent[z] /\ Under(a, b) /\ b < z
    BY <1>1, <2>1, <2>2, UnderParent, TreeFacts DEF Root
  <2>4. z \in Childhood(tree, b)
    BY <1>1, <2>1, <2>3 DEF Childhood, Root
  <2>5. b < p
    <3>1. ASSUME p <= b PROVE FALSE
      <4>1. Under(p, b)
        <5>1. b <= LastBelow(p)
          BY <1>1, <1>2, <2>1, <2>3
        <5> QED
          BY <3>1, <5>1, Segments
      <4> QED
        BY <2>1, <2>2, <2>3, <4>1, UnderKid
    <3> QED
      BY <1>1, <3>1
  <2>6. Under(b, p)
    <3>1. Under(b, z)
      BY <2>4, KidAt
    <3> QED
      BY <1>1, <2>1, <2>5, <3>1, UnderBetween
  <2>7. PICK x \in Childhood(tree, b) : Under(x, p)
    BY <1>1, <2>5, <2>6, KidToward
  <2>8. x \in Positions /\ b < x /\ x <= p /\ tree.parent[x] = b /\ x # Root
    BY <1>1, <2>7, KidAt DEF Under, Root
  <2>9. Under(a, x) /\ x # a
    BY <1>1, <2>3, <2>8, UnderKid DEF Under
  <2>10. z \in Right(x)
    BY <1>1, <2>1, <2>4, <2>8, SiblingsAre
  <2> QED
    BY <2>7, <2>8, <2>9, <2>10
<1> QED
  BY <1>1, <1>2, <1>3

\* The nearest sibling on the right begins where a ends.
LEMMA NextAfter ==
    ASSUME IsTree(tree), NEW a \in Positions, NEW q \in Right(a), \A x \in Right(a) : q <= x
    PROVE  q \in Positions /\ q = LastBelow(a) + 1
<1>1. PICK n \in Nat : n = tree.size /\ Positions = 1 .. n
  BY TreeFacts DEF Positions
<1>2. PICK b \in Positions : /\ b = tree.parent[a] /\ b < a /\ a \in Childhood(tree, b)
                             /\ Right(a) = {x \in Childhood(tree, b) : x > a}
  BY SiblingsAre
<1>3. q \in Childhood(tree, b) /\ q > a /\ q \in Positions /\ tree.parent[q] = b /\ Under(b, q)
  BY <1>2, KidAt
<1>4. LastBelow(a) \in a .. n
  BY <1>1, Segments
<1>5. LastBelow(a) < q
  <2>1. ~ Under(a, q)
    <3>1. ASSUME Under(a, q) PROVE FALSE
      <4>1. q \in a + 1 .. q /\ tree.parent[q] >= a
        BY <1>1, <1>3, <3>1 DEF Under
      <4> QED
        BY <1>1, <1>2, <1>3, <4>1
    <3> QED
      BY <3>1
  <2> QED
    BY <1>1, <1>3, <1>4, <2>1, Segments
<1>6. PICK z \in Positions : z = LastBelow(a) + 1 /\ a < z /\ z <= q
  BY <1>1, <1>3, <1>4, <1>5
<1>7. Under(b, z) /\ ~ Under(a, z) /\ z # b
  <2>1. b <= z /\ z # b
    BY <1>1, <1>2, <1>6
  <2>2. Under(b, z)
    BY <1>3, <1>6, <2>1, UnderBetween
  <2>3. ~ (z <= LastBelow(a))
    BY <1>1, <1>4, <1>6
  <2> QED
    BY <2>1, <2>2, <2>3, Segments
<1>8. PICK c \in Childhood(tree, b) : Under(c, z)
  BY <1>7, KidToward
<1>9. c \in Positions /\ c <= z /\ c # a
  BY <1>7, <1>8, KidAt DEF Under
<1>10. a <= c
  BY <1>1, <1>2, <1>6, <1>8, KidsApart
<1>11. c \in Right(a)
  BY <1>1, <1>2, <1>8, <1>9, <1>10
<1> QED
  BY <1>1, <1>3, <1>6, <1>9, <1>11

\* Without a sibling on the left below a, there is nothing between a and p but
\* ancestors.
LEMMA NothingLeft ==
    ASSUME IsTree(tree), NEW p \in Positions, NEW a \in Positions, Under(a, p),
           \A x \in Positions : Under(a, x) /\ Under(x, p) /\ x # a => Left(x) = {},
           NEW y \in Positions, a <= y, y < p
    PROVE  Under(y, p)
<1>1. PICK n \in Nat : n = tree.size /\ Positions = 1 .. n
  BY TreeFacts DEF Positions
<1>2. PICK D : D = {d \in Nat : \E x \in Positions : x <= y /\ d = y - x /\ Under(a, x) /\ Under(x, p)}
  OBVIOUS
<1>3. Under(a, a) /\ y - a \in Nat
  BY <1>1 DEF Under
<1>4. y - a \in D
  BY <1>2, <1>3
<1>5. PICK d \in D : \A i \in D : d <= i
  BY <1>2, <1>4, Least
<1>6. PICK b \in Positions : b <= y /\ d = y - b /\ Under(a, b) /\ Under(b, p)
  BY <1>2
<1>7. CASE b = y
  BY <1>6, <1>7
<1>8. CASE b # y
  <2>1. b < y /\ b # p /\ Under(b, y)
    BY <1>1, <1>6, <1>8, UnderBetween
  <2>2. PICK c \in Childhood(tree, b) : Under(c, p)
    BY <1>6, <2>1, KidToward
  <2>3. PICK x \in Childhood(tree, b) : Under(x, y)
    BY <1>8, <2>1, KidToward
  <2>4. /\ c \in Positions /\ b < c /\ tree.parent[c] = b /\ c # Root
        /\ x \in Positions /\ x <= y /\ tree.parent[x] = b
    BY <1>1, <2>2, <2>3, KidAt DEF Under, Root
  <2>5. Under(a, c) /\ c # a
    <3>1. Under(a, c)
      BY <1>6, <2>4, UnderKid
    <3>2. a <= b
      BY <1>6 DEF Under
    <3> QED
      BY <1>1, <2>4, <3>1, <3>2
  <2>6. y < c
    <3>1. ASSUME c <= y PROVE FALSE
      <4>1. y - c \in Nat /\ y - c < d
        BY <1>1, <1>6, <2>4, <3>1
      <4>2. y - c \in D
        BY <1>2, <2>2, <2>4, <2>5, <3>1, <4>1
      <4> QED
        BY <1>1, <1>2, <1>5, <4>1, <4>2
    <3> QED
      BY <1>1, <2>4, <3>1
  <2>7. x \in Left(c)
    BY <1>1, <2>3, <2>4, <2>6, SiblingsAre
  <2> QED
    BY <2>2, <2>4, <2>5, <2>7
<1> QED
  BY <1>7, <1>8

\* The nearest sibling on the left ends where a begins.
LEMMA PrevBefore ==
    ASSUME IsTree(tree), NEW a \in Positions, NEW q \in Left(a), \A x \in Left(a) : x <= q
    PROVE  q \in Positions /\ q < a /\ \A t \in Positions : q <= t /\ t < a => Under(q, t)
<1>1. PICK n \in Nat : n = tree.size /\ Positions = 1 .. n
  BY TreeFacts DEF Positions
<1>2. PICK b \in Positions : /\ b = tree.parent[a] /\ b < a /\ a \in Childhood(tree, b)
                             /\ Left(a) = {x \in Childhood(tree, b) : x < a}
  BY SiblingsAre
<1>3. q \in Childhood(tree, b) /\ q < a /\ q \in Positions /\ b < q /\ Under(b, a)
  BY <1>2, KidAt
<1>4. ASSUME NEW t \in Positions, q <= t, t < a PROVE Under(q, t)
  <2>1. Under(b, t) /\ t # b
    BY <1>1, <1>2, <1>3, <1>4, UnderBetween
  <2>2. PICK c \in Childhood(tree, b) : Under(c, t)
    BY <2>1, KidToward
  <2>3. c \in Positions /\ c <= t
    BY <2>2, KidAt DEF Under
  <2>4. q <= c
    BY <1>3, <1>4, <2>2, KidsApart
  <2>5. c \in Left(a)
    BY <1>1, <1>2, <1>4, <2>2, <2>3
  <2>6. c = q
    BY <1>1, <1>3, <2>3, <2>4, <2>5
  <2> QED
    BY <2>2, <2>6
<1> QED
  BY <1>3, <1>4

\* The sibling of the element itself, or of the nearest ancestor that has one.
LEMMA SiblingSearch ==
    ASSUME Core, NEW p \in Positions, slot[p] # None, IsToken(p), NEW e, e = Truth(tree, p), NEW direction,
           NEW n, n = IF SiblingOrToken(e, direction) # None THEN SiblingOrToken(e, direction)
                                                             ELSE AncestorsFind(e, direction)
    PROVE  \/ n = None /\ \A x \in Positions : Under(x, p) => SiblingOrToken(Truth(tree, x), direction) = None
           \/ \E a \in Positions :
                  /\ Under(a, p) /\ n = SiblingOrToken(Truth(tree, a), direction) /\ n # None
                  /\ \A x \in Positions : Under(a, x) /\ Under(x, p) /\ x # a =>
                         SiblingOrToken(Truth(tree, x), direction) = None
<1>1. PICK size \in Nat : IsTree(tree) /\ size = tree.size /\ Positions = 1 .. size
  BY TreeFacts DEF Core, Positions
<1>2. PICK Sib : Sib = [x \in Positions |-> SiblingOrToken(Truth(tree, x), direction)]
  OBVIOUS
<1>3. \A x \in Positions : Sib[x] = SiblingOrToken(Truth(tree, x), direction)
  BY <1>2
<1>4. \A x, y \in Positions : Under(x, y) => x <= y
  BY DEF Under
<1>5. CASE Sib[p] # None
  <2>1. Under(p, p)
    BY <1>1 DEF Under
  <2>2. n = Sib[p]
    BY <1>3, <1>5
  <2>3. \A x \in Positions : Under(p, x) => x = p
    BY <1>1, TokenEnds
  <2> QED
    BY <1>3, <1>5, <2>1, <2>2, <2>3
<1>6. CASE Sib[p] = None
  <2>1. PICK path, T : path = AncestorNodes(e) /\ T = Lineage(p) /\ Lists(path, T, FALSE)
    BY AncestorsListed
  <2>2. \A x \in Positions : Under(x, p) /\ x # p => x \in T
    BY <2>1 DEF Lineage, Ancestors
  <2>3. \A x \in T : x \in Positions /\ Under(x, p)
    BY <1>1, <2>1, Lineages
  <2>4. PICK m \in Nat : m = Len(path) /\ DOMAIN path = 1 .. m /\ path \in Seq(Truths(tree))
    BY <2>1 DEF Lists
  <2>5. /\ \A i \in 1 .. m : path[i].pos \in T /\ path[i] = Truth(tree, path[i].pos)
        /\ \A x \in T : \E i \in 1 .. m : path[i].pos = x
        /\ \A i, j \in 1 .. m : i < j => path[j].pos < path[i].pos
    <3>1. T = {path[i].pos : i \in 1 .. m} /\ \A i, j \in 1 .. m : i < j => Before(FALSE, path[i].pos, path[j].pos)
      BY <2>1, <2>4 DEF Lists
    <3>2. \A i \in 1 .. m : path[i] = Truth(tree, path[i].pos)
      BY <1>1, <2>4, TruthSlot
    <3> QED
      BY <3>1, <3>2 DEF Before
  <2>6. PICK found : found = [i \in DOMAIN path |-> SiblingOrToken(path[i], direction)]
    OBVIOUS
  <2>7. \A i \in 1 .. m : found[i] = Sib[path[i].pos]
    BY <1>3, <2>3, <2>4, <2>5, <2>6
  <2>8. PICK U : found \in Seq(U) /\ Len(found) = m /\ DOMAIN found = 1 .. m
    <3>1. PICK U : U = {found[i] : i \in 1 .. m}
      OBVIOUS
    <3>2. found \in [1 .. m -> U]
      <4>1. found = [i \in 1 .. m |-> SiblingOrToken(path[i], direction)]
        BY <2>4, <2>6, Zenon
      <4>2. found = [i \in 1 .. m |-> found[i]]
        BY <4>1
      <4> QED
        BY <3>1, <4>2
    <3> QED
      BY <3>2, ListType
  <2>9. n = First(Picked(found, {i \in DOMAIN found : found[i] # None}))
    <3>1. n = AncestorsFind(e, direction)
      BY <1>3, <1>6
    <3> QED
      BY <2>1, <2>6, <3>1, Zenon DEF AncestorsFind
  <2>10. \/ n = None /\ \A i \in 1 .. m : found[i] = None
         \/ \E i \in 1 .. m : found[i] # None /\ n = found[i] /\ \A j \in 1 .. i - 1 : found[j] = None
    <3>1. PICK places : places = {i \in DOMAIN found : found[i] # None}
      OBVIOUS
    <3>2. \A i \in 1 .. m : i \in places <=> found[i] # None
      BY <2>8, <3>1
    <3>3. \/ n = None /\ \A i \in 1 .. m : i \notin places
          \/ \E i \in 1 .. m : i \in places /\ n = found[i] /\ \A j \in 1 .. i - 1 : j \notin places
      BY <2>8, <2>9, <3>1, PickedLeast
    <3>4. \A i \in 1 .. m : \A j \in 1 .. i - 1 : j \in 1 .. m
      OBVIOUS
    <3> QED
      BY <3>2, <3>3, <3>4
  <2>11. CASE n = None /\ \A i \in 1 .. m : found[i] = None
    <3>1. ASSUME NEW x \in Positions, Under(x, p) PROVE Sib[x] = None
      <4>1. CASE x = p
        BY <1>6, <4>1
      <4>2. CASE x # p
        <5>1. PICK i \in 1 .. m : path[i].pos = x
          BY <2>2, <2>5, <3>1, <4>2
        <5> QED
          BY <2>7, <2>11, <5>1
      <4> QED
        BY <4>1, <4>2
    <3> QED
      BY <1>3, <2>11, <3>1
  <2>12. CASE \E i \in 1 .. m : found[i] # None /\ n = found[i] /\ \A j \in 1 .. i - 1 : found[j] = None
    <3>1. PICK i \in 1 .. m : found[i] # None /\ n = found[i] /\ \A j \in 1 .. i - 1 : found[j] = None
      BY <2>12
    <3>2. PICK a \in Positions : a = path[i].pos /\ Under(a, p) /\ n = Sib[a]
      BY <2>3, <2>5, <2>7, <3>1
    <3>3. ASSUME NEW x \in Positions, Under(a, x), Under(x, p), x # a PROVE Sib[x] = None
      <4>1. CASE x = p
        BY <1>6, <4>1
      <4>2. CASE x # p
        <5>1. PICK j \in 1 .. m : path[j].pos = x
          BY <2>2, <2>5, <3>3, <4>2
        <5>2. a < x /\ a \in Int /\ x \in Int
          BY <1>1, <3>3 DEF Under
        <5>3. j # i /\ ~ (i < j)
          BY <2>5, <3>2, <5>1, <5>2
        <5>4. j \in 1 .. i - 1
          BY <5>3
        <5> QED
          BY <2>7, <3>1, <5>1, <5>4
      <4> QED
        BY <4>1, <4>2
    <3> QED
      BY <1>3, <3>1, <3>2, <3>3
  <2> QED
    BY <2>10, <2>11, <2>12
<1> QED
  BY <1>5, <1>6

\* Going on from no reference leads nowhere.
LEMMA NoToken ==
    ASSUME IsTree(tree)
    PROVE  Last(FirstToken(None)) = None /\ Last(LastToken(None)) = None
<1>1. ASSUME NEW f PROVE Last(Descent(None, f)) = None
  <2>1. PICK path : path = Successors(None, f)
    OBVIOUS
  <2>2. path = <<>>
    <3>1. tree.size \in Nat \ {0} /\ None \in {} \cup {None} /\ Goes(f, {})
      BY TreeFacts DEF Goes
    <3>2. Chain(path, None, f, {})
      BY <2>1, <3>1, SuccessorsChain
    <3> QED
      BY <3>2 DEF Chain
  <2>3. Descent(None, f) = Append(path, None)
    BY <2>1, <2>2, Zenon DEF Descent
  <2>4. Descent(None, f) = <<None>>
    BY <2>2, <2>3
  <2> QED
    BY <2>4 DEF Last
<1> QED
  BY <1>1 DEF FirstToken, LastToken

LEMMA NextTokenLeads ==
    ASSUME Core, NoEmptySubtree, NEW p \in Positions, slot[p] # None, IsToken(p), NEW e, e = Truth(tree, p)
    PROVE  Leads(Last(NextToken(e)), {q \in TokensIn(Root) : q > p})
<1>1. PICK size \in Nat : IsTree(tree) /\ size = tree.size /\ Positions = 1 .. size
  BY TreeFacts DEF Core, Positions
<1>2. PICK n : /\ n = IF SiblingOrToken(e, "Next") # None THEN SiblingOrToken(e, "Next") ELSE AncestorsFind(e, "Next")
               /\ NextToken(e) = FirstToken(n)
  <2>1. SiblingOrToken(e, "Next") = NextSiblingOrToken(e)
    BY DEF SiblingOrToken
  <2> QED
    BY <2>1, Zenon DEF NextToken
<1>3. ASSUME NEW x \in Positions PROVE Leads(SiblingOrToken(Truth(tree, x), "Next"), Right(x))
  BY <1>1, NearestSiblings DEF SiblingOrToken
<1>4. ASSUME NEW x \in Positions, SiblingOrToken(Truth(tree, x), "Next") = None PROVE Right(x) = {}
  <2>1. Right(x) \subseteq Positions
    BY <1>1, Beyond
  <2>2. \A q \in Right(x) : Truth(tree, q) # None
    BY <1>1, <2>1, TruthFields
  <2> QED
    BY <1>3, <1>4, <2>2 DEF Leads
<1>5. LastBelow(p) = p
  BY <1>1, TokenEnds
<1>6. PICK T : T = {q \in TokensIn(Root) : q > p}
  OBVIOUS
<1>7. \A q \in T : q \in 1 .. size /\ IsToken(q) /\ q > p
  BY <1>1, <1>6 DEF TokensIn
<1>8. Root \in Positions /\ \A q \in Positions : Under(Root, q)
  <2>1. ASSUME NEW q \in Positions PROVE Under(Root, q)
    <3>1. \A r \in 2 .. q : tree.parent[r] \in 1 .. size
      BY <1>1, TreeFacts
    <3> QED
      BY <1>1, <3>1 DEF Under, Root
  <2> QED
    BY <1>1, <2>1, TreeFacts DEF Root
<1>9. CASE n = None /\ \A x \in Positions : Under(x, p) => SiblingOrToken(Truth(tree, x), "Next") = None
  <2>1. LastBelow(Root) = p
    BY <1>1, <1>4, <1>5, <1>8, <1>9, NothingRight
  <2>2. T = {}
    <3>1. \A q \in Positions : q <= p
      BY <1>1, <1>8, <2>1, Segments
    <3> QED
      BY <1>1, <1>7, <3>1
  <2>3. Last(NextToken(e)) = None
    BY <1>1, <1>2, <1>9, NoToken
  <2> QED
    BY <1>6, <2>2, <2>3 DEF Leads
<1>10. ASSUME NEW a \in Positions, Under(a, p), n = SiblingOrToken(Truth(tree, a), "Next"), n # None,
              \A x \in Positions : Under(a, x) /\ Under(x, p) /\ x # a =>
                         SiblingOrToken(Truth(tree, x), "Next") = None
       PROVE  Leads(Last(NextToken(e)), T)
  <2>1. LastBelow(a) = p
    BY <1>1, <1>4, <1>5, <1>10, NothingRight
  <2>2. PICK q \in Right(a) : n = Truth(tree, q) /\ \A x \in Right(a) : q <= x
    BY <1>3, <1>10 DEF Leads
  <2>3. q \in Positions /\ q = p + 1
    BY <1>1, <2>1, <2>2, NextAfter
  <2>4. Leads(Last(NextToken(e)), TokensIn(q))
    BY <1>1, <1>2, <2>2, <2>3, FirstAndLastToken
  <2>5. PICK t \in TokensIn(q) : Last(NextToken(e)) = Truth(tree, t) /\ \A x \in TokensIn(q) : t <= x
    BY <2>3, <2>4 DEF Leads, NoEmptySubtree
  <2>6. t \in 1 .. size /\ IsToken(t) /\ Under(q, t) /\ q <= t
    BY <1>1, <2>5 DEF TokensIn, Under
  <2>7. t \in T
    BY <1>1, <1>6, <1>8, <2>3, <2>6 DEF TokensIn
  <2>8. ASSUME NEW x \in T PROVE t <= x
    <3>1. x \in Positions /\ IsToken(x) /\ q <= x
      BY <1>1, <1>7, <2>3
    <3>2. CASE x < t
      <4>1. Under(q, x)
        BY <1>1, <2>3, <2>6, <3>1, <3>2, UnderBetween
      <4>2. x \in TokensIn(q)
        BY <3>1, <4>1 DEF TokensIn
      <4> QED
        BY <2>5, <4>2
    <3> QED
      BY <1>1, <2>6, <3>1, <3>2
  <2> QED
    BY <2>5, <2>7, <2>8 DEF Leads
<1> QED
  BY <1>2, <1>6, <1>9, <1>10, SiblingSearch

LEMMA PrevTokenTrails ==
    ASSUME Core, NoEmptySubtree, NEW p \in Positions, slot[p] # None, IsToken(p), NEW e, e = Truth(tree, p)
    PROVE  Trails(Last(PrevToken(e)), {q \in TokensIn(Root) : q < p})
<1>1. PICK size \in Nat : IsTree(tree) /\ size = tree.size /\ Positions = 1 .. size
  BY TreeFacts DEF Core, Positions
<1>2. PICK n : /\ n = IF SiblingOrToken(e, "Prev") # None THEN SiblingOrToken(e, "Prev") ELSE AncestorsFind(e, "Prev")
               /\ PrevToken(e) = LastToken(n)
  <2>1. SiblingOrToken(e, "Prev") = PrevSiblingOrToken(e)
    BY DEF SiblingOrToken
  <2> QED
    BY <2>1, Zenon DEF PrevToken
<1>3. ASSUME NEW x \in Positions PROVE Trails(SiblingOrToken(Truth(tree, x), "Prev"), Left(x))
  BY <1>1, NearestSiblings DEF SiblingOrToken
<1>4. ASSUME NEW x \in Positions, SiblingOrToken(Truth(tree, x), "Prev") = None PROVE Left(x) = {}
  <2>1. Left(x) \subseteq Positions
    BY <1>1, Beyond
  <2>2. \A q \in Left(x) : Truth(tree, q) # None
    BY <1>1, <2>1, TruthFields
  <2> QED
    BY <1>3, <1>4, <2>2 DEF Trails
<1>5. \A x \in Positions : IsToken(x) /\ x # p => ~ Under(x, p)
  BY <1>1, TokenEnds
<1>6. PICK T : T = {q \in TokensIn(Root) : q < p}
  OBVIOUS
<1>7. \A q \in T : q \in Positions /\ q \in 1 .. size /\ IsToken(q) /\ q < p
  BY <1>1, <1>6 DEF TokensIn
<1>8. Root \in Positions /\ \A q \in Positions : Under(Root, q)
  <2>1. ASSUME NEW q \in Positions PROVE Under(Root, q)
    <3>1. \A r \in 2 .. q : tree.parent[r] \in 1 .. size
      BY <1>1, TreeFacts
    <3> QED
      BY <1>1, <3>1 DEF Under, Root
  <2> QED
    BY <1>1, <2>1, TreeFacts DEF Root
<1>9. CASE n = None /\ \A x \in Positions : Under(x, p) => SiblingOrToken(Truth(tree, x), "Prev") = None
  <2>1. T = {}
    <3>1. ASSUME NEW q \in T PROVE FALSE
      <4>1. q \in Positions /\ Root <= q /\ q < p /\ q # p /\ IsToken(q)
        BY <1>1, <1>7 DEF Root
      <4>2. Under(q, p)
        BY <1>1, <1>4, <1>8, <1>9, <4>1, NothingLeft
      <4> QED
        BY <1>5, <4>1, <4>2
    <3> QED
      BY <3>1
  <2>2. Last(PrevToken(e)) = None
    BY <1>1, <1>2, <1>9, NoToken
  <2> QED
    BY <1>6, <2>1, <2>2 DEF Trails
<1>10. ASSUME NEW a \in Positions, Under(a, p), n = SiblingOrToken(Truth(tree, a), "Prev"), n # None,
              \A x \in Positions : Under(a, x) /\ Under(x, p) /\ x # a =>
                         SiblingOrToken(Truth(tree, x), "Prev") = None
       PROVE  Trails(Last(PrevToken(e)), T)
  <2>1. PICK q \in Left(a) : n = Truth(tree, q) /\ \A x \in Left(a) : x <= q
    BY <1>3, <1>10 DEF Trails
  <2>2. q \in Positions /\ q < a /\ a <= p /\ \A t \in Positions : q <= t /\ t < a => Under(q, t)
    BY <1>1, <1>10, <2>1, PrevBefore DEF Under
  <2>3. Trails(Last(PrevToken(e)), TokensIn(q))
    BY <1>1, <1>2, <2>1, <2>2, FirstAndLastToken
  <2>4. PICK t \in TokensIn(q) : Last(PrevToken(e)) = Truth(tree, t) /\ \A x \in TokensIn(q) : x <= t
    BY <2>2, <2>3 DEF Trails, NoEmptySubtree
  <2>5. t \in 1 .. size /\ IsToken(t) /\ Under(q, t) /\ q <= t
    BY <1>1, <2>4 DEF TokensIn, Under
  <2>6. t < a
    <3>1. ~ Under(q, a)
      <4>1. ASSUME Under(q, a) PROVE FALSE
        <5>1. a # Root /\ q \in Childhood(tree, tree.parent[a]) /\ tree.parent[a] \in Positions
          BY <1>1, <2>1, SiblingsAre
        <5>2. tree.parent[a] < q
          BY <1>1, <5>1, KidAt
        <5>3. a \in q + 1 .. a
          BY <1>1, <2>2
        <5>4. tree.parent[a] >= q
          BY <4>1, <5>3 DEF Under
        <5> QED
          BY <1>1, <2>2, <5>1, <5>2, <5>4
      <4> QED
        BY <4>1
    <3>2. a <= t => Under(q, a)
      BY <1>1, <2>2, <2>5, UnderBetween
    <3> QED
      BY <1>1, <2>5, <3>1, <3>2
  <2>7. t \in T
    BY <1>1, <1>6, <1>8, <2>2, <2>5, <2>6 DEF TokensIn
  <2>8. ASSUME NEW x \in T PROVE x <= t
    <3>1. x \in Positions /\ x \in 1 .. size /\ IsToken(x) /\ x < p /\ x # p
      BY <1>1, <1>7
    <3>2. x < a
      <4>1. a <= x => Under(x, p)
        BY <1>1, <1>4, <1>10, <3>1, NothingLeft
      <4> QED
        BY <1>1, <1>5, <3>1, <4>1
    <3>3. CASE q <= x
      <4>1. x \in TokensIn(q)
        BY <2>2, <3>1, <3>2, <3>3 DEF TokensIn
      <4> QED
        BY <2>4, <4>1
    <3> QED
      BY <1>1, <2>2, <2>5, <3>1, <3>3
  <2> QED
    BY <2>4, <2>7, <2>8 DEF Trails
<1> QED
  BY <1>2, <1>6, <1>9, <1>10, SiblingSearch

\* first_token, last_token, next_token and prev_token: in every tree in which
\* every node has a token below it, they visit the tokens in text order, over
\* nodes of any depth.
THEOREM TokensCorrect == Spec => []TokensInOrder
<1>1. ASSUME Inv PROVE TokensInOrder
  <2>1. Core /\ IsTree(tree) /\ at \in Positions /\ slot[at] # None /\ Here = Truth(tree, at)
    BY <1>1, Holding
  <2>2. ASSUME NoEmptySubtree
        PROVE  /\ Last(FirstToken(Here)).pos = Leftmost(TokensIn(at))
               /\ Last(LastToken(Here)).pos = Rightmost(TokensIn(at))
    <3>1. Leads(Last(FirstToken(Here)), TokensIn(at)) /\ Trails(Last(LastToken(Here)), TokensIn(at))
      BY <2>1, <2>2, FirstAndLastToken
    <3>2. TokensIn(at) \in SUBSET Positions
      BY DEF TokensIn
    <3> QED
      BY <2>1, <3>1, <3>2, Extremes
  <2>3. ASSUME NoEmptySubtree, IsToken(at)
        PROVE  /\ Last(NextToken(Here)).pos = Leftmost({q \in TokensIn(Root) : q > at})
               /\ Last(PrevToken(Here)).pos = Rightmost({q \in TokensIn(Root) : q < at})
    <3>1. PICK R, L : R = {q \in TokensIn(Root) : q > at} /\ L = {q \in TokensIn(Root) : q < at}
      OBVIOUS
    <3>2. Leads(Last(NextToken(Here)), R) /\ Trails(Last(PrevToken(Here)), L)
      BY <2>1, <2>3, <3>1, NextTokenLeads, PrevTokenTrails
    <3>3. R \in SUBSET Positions /\ L \in SUBSET Positions
      BY <3>1 DEF TokensIn
    <3> QED
      BY <2>1, <3>1, <3>2, <3>3, Extremes
  <2> QED
    BY <2>2, <2>3 DEF TokensInOrder
<1> QED
  BY <1>1, Invariance, PTL

----------------------------------------------------------------------------
(* The events of a walk *)

KidsWalked(t, p, tokens) ==
    Picked(t.kids[p], {i \in DOMAIN t.kids[p] : tokens \/ t.kids[p][i] \notin DOMAIN t.len})

EventsOf(t) == {"Enter", "Leave"} \X (1 .. t.size)

EventsBy(t, tokens) ==
    CHOOSE events : events =
        [r \in 1 .. t.size |->
            (<<<<"Enter", r>>>> \o FlattenSeq([i \in DOMAIN KidsWalked(t, r, tokens) |->
                                                 events[KidsWalked(t, r, tokens)[i]]]))
             \o <<<<"Leave", r>>>>]

LEMMA EventsAre ==
    ASSUME NEW p, NEW tokens
    PROVE  Events(p, tokens) = EventsBy(tree, tokens)[p]
BY Zenon DEF Events, EventsBy, KidsWalked, Positions, Kids, IsToken

\* The children a walk goes to, in order.
Walked(t, p, tokens) == {q \in Childhood(t, p) : tokens \/ q \notin DOMAIN t.len}

InOrder(s, S) ==
    /\ S = {s[i] : i \in 1 .. Len(s)} /\ Len(s) \in Nat
    /\ \A i, j \in 1 .. Len(s) : i < j => s[i] < s[j]

LEMMA WalkedKids ==
    ASSUME NEW t, IsTree(t), NEW p \in 1 .. t.size, NEW tokens, NEW ks, ks = KidsWalked(t, p, tokens)
    PROVE  ks \in Seq(Childhood(t, p)) /\ InOrder(ks, Walked(t, p, tokens))
<1>1. PICK s, n, places, C :
          /\ s = t.kids[p] /\ KidList(t, p, s) /\ n = Len(s) /\ n \in Nat
          /\ places = {i \in DOMAIN s : tokens \/ s[i] \notin DOMAIN t.len}
          /\ ks = Picked(s, places) /\ C = Childhood(t, p)
  <2>1. KidList(t, p, t.kids[p])
    BY Kidlists
  <2>2. Len(t.kids[p]) \in Nat
    BY <2>1 DEF KidList
  <2> QED
    BY <2>1, <2>2, Zenon DEF KidsWalked
<1>2. s \in Seq(C) /\ DOMAIN s = 1 .. n
  <2>1. s \in Seq(2 .. t.size) /\ DOMAIN s = 1 .. n
    BY <1>1 DEF KidList
  <2>2. \A k \in 1 .. n : s[k] \in C
    BY <1>1 DEF KidList, Childhood
  <2>3. s \in [1 .. n -> C]
    BY <2>1, <2>2
  <2> QED
    BY <1>1, <2>1, <2>3, ListType
<1>3. ks \in Seq(C) /\ ToSet(ks) = {s[i] : i \in {j \in 1 .. n : j \in places}} /\ Len(ks) \in Nat
  <2>1. /\ Picked(s, places) \in Seq(C)
        /\ ToSet(Picked(s, places)) = {s[i] : i \in {j \in 1 .. Len(s) : j \in places}}
    BY <1>2, PickedElements
  <2>2. ks \in Seq(C) /\ ToSet(ks) = {s[i] : i \in {j \in 1 .. n : j \in places}}
    BY <1>1, <2>1
  <2> QED
    BY <2>2
<1>4. Holds(ks, s, places, n)
  BY <1>1, <1>2, PickedPlaces
<1>5. ASSUME NEW i \in 1 .. Len(ks), NEW j \in 1 .. Len(ks), i < j PROVE ks[i] < ks[j]
  <2>1. PICK a \in 1 .. n : a \in places /\ Count(places, a) = i /\ ks[i] = s[a]
    BY <1>4 DEF Holds
  <2>2. PICK b \in 1 .. n : b \in places /\ Count(places, b) = j /\ ks[j] = s[b]
    BY <1>4 DEF Holds
  <2>3. a < b
    <3>1. SUFFICES ASSUME b <= a PROVE FALSE
      BY <1>1
    <3>2. a \in Nat /\ b \in Nat
      BY <1>1
    <3>3. Count(places, b) <= Count(places, a)
      BY <3>1, <3>2, CountMonotone
    <3> QED
      BY <1>5, <2>1, <2>2, <3>3
  <2> QED
    BY <1>1, <2>1, <2>2, <2>3 DEF KidList
<1>6. Walked(t, p, tokens) = {ks[i] : i \in 1 .. Len(ks)}
  <2>1. ToSet(ks) = {ks[i] : i \in 1 .. Len(ks)}
    BY <1>3 DEF ToSet
  <2>2. ASSUME NEW q \in Walked(t, p, tokens) PROVE q \in ToSet(ks)
    <3>1. PICK k \in 1 .. n : s[k] = q
      BY <1>1 DEF KidList, Walked, Childhood
    <3>2. k \in places
      BY <1>1, <1>2, <3>1 DEF Walked
    <3> QED
      BY <1>3, <3>1, <3>2
  <2>3. ASSUME NEW q \in ToSet(ks) PROVE q \in Walked(t, p, tokens)
    <3>1. PICK k \in 1 .. n : k \in places /\ s[k] = q
      BY <1>3
    <3>2. q \in Childhood(t, p)
      BY <1>1, <1>2, <3>1
    <3> QED
      BY <1>1, <3>1, <3>2 DEF Walked
  <2> QED
    BY <2>1, <2>2, <2>3
<1> QED
  BY <1>1, <1>3, <1>5, <1>6 DEF InOrder

EventsFrom(r, inner) == (<<<<"Enter", r>>>> \o FlattenSeq(inner)) \o <<<<"Leave", r>>>>

LEMMA EventsFromType ==
    ASSUME NEW A, NEW r \in A, NEW T, T = {"Enter", "Leave"} \X A, NEW inner \in Seq(Seq(T))
    PROVE  EventsFrom(r, inner) \in Seq(T)
<1>1. PICK f, a, b : f = FlattenSeq(inner) /\ a = <<"Enter", r>> /\ b = <<"Leave", r>>
  OBVIOUS
<1>2. f \in Seq(T) /\ a \in T /\ b \in T
  BY <1>1, FlattenType
<1>3. (<<a>> \o f) \o <<b>> \in Seq(T)
  BY <1>2
<1> QED
  BY <1>1, <1>3 DEF EventsFrom

\* The events below an element are those below its children, between its own.
LEMMA EventsSteps ==
    ASSUME NEW t, IsTree(t), NEW tokens
    PROVE  /\ MapsTo(EventsBy(t, tokens), 1 .. t.size, EventsOf(t))
           /\ \A r \in 1 .. t.size :
                  EventsBy(t, tokens)[r] =
                      EventsFrom(r, Mapped(EventsBy(t, tokens), KidsWalked(t, r, tokens)))
<1>1. PICK n, D, T, V, ks, rank :
          /\ n = t.size /\ n \in Nat /\ D = 1 .. n /\ T = EventsOf(t) /\ V = Seq(T)
          /\ rank = [r \in D |-> n - r]
          /\ ks = [r \in D |-> KidsWalked(t, r, tokens)]
  <2>1. t.size \in Nat
    BY TreeFacts
  <2> QED
    BY <2>1, Zenon
<1>2. T = {"Enter", "Leave"} \X D
  BY <1>1 DEF EventsOf
<1>3. PICK step : step = [r \in D |-> [f \in [D -> V] |-> EventsFrom(r, Mapped(f, ks[r]))]]
  OBVIOUS
<1>4. ASSUME NEW r \in D
      PROVE  /\ ks[r] \in Seq(D) /\ DOMAIN ks[r] = 1 .. Len(ks[r])
             /\ \A i \in DOMAIN ks[r] : ks[r][i] \in D /\ rank[ks[r][i]] < rank[r]
  <2>1. PICK c, C : c = ks[r] /\ C = Childhood(t, r) /\ c \in Seq(C)
    BY <1>1, WalkedKids
  <2>2. \A x \in C : x \in D /\ rank[x] < rank[r]
    <3>1. \A x \in C : x \in 2 .. n /\ t.parent[x] = r
      BY <1>1, <2>1 DEF Childhood
    <3>2. \A x \in C : r < x
      BY <1>1, <3>1, TreeFacts
    <3> QED
      BY <1>1, <3>1, <3>2
  <2>3. DOMAIN c = 1 .. Len(c) /\ \A i \in DOMAIN c : c[i] \in C
    BY <2>1
  <2>4. c \in Seq(D)
    BY <2>1, <2>2
  <2> QED
    BY <2>1, <2>2, <2>3, <2>4
<1>5. \A r \in D : \A f \in [D -> V] : EventsFrom(r, Mapped(f, ks[r])) \in V
  <2>1. ASSUME NEW r \in D, NEW f \in [D -> V] PROVE EventsFrom(r, Mapped(f, ks[r])) \in V
    <3>1. PICK c : c = ks[r] /\ c \in Seq(D)
      BY <1>4
    <3>2. Mapped(f, c) \in Seq(V)
      BY <3>1, MappedType
    <3>3. Mapped(f, c) \in Seq(Seq(T))
      BY <1>1, <3>2
    <3>4. EventsFrom(r, Mapped(f, c)) \in Seq(T)
      BY <1>2, <3>3, EventsFromType
    <3> QED
      BY <1>1, <3>1, <3>4
  <2> QED
    BY <2>1
<1>6. step \in [D -> [[D -> V] -> V]]
  BY <1>3, <1>5
<1>7. \A r \in D : \A f, g \in [D -> V] :
          (\A d \in D : rank[d] < rank[r] => f[d] = g[d]) => step[r][f] = step[r][g]
  <2>1. ASSUME NEW r \in D, NEW f \in [D -> V], NEW g \in [D -> V],
               \A d \in D : rank[d] < rank[r] => f[d] = g[d]
        PROVE  step[r][f] = step[r][g]
    <3>1. \A i \in 1 .. Len(ks[r]) : f[ks[r][i]] = g[ks[r][i]]
      BY <1>4, <2>1
    <3>2. Mapped(f, ks[r]) = Mapped(g, ks[r])
      BY <3>1 DEF Mapped
    <3> QED
      BY <1>3, <3>2
  <2> QED
    BY <2>1
<1>8. PICK f \in [D -> V] : \A r \in D : f[r] = step[r][f]
  <2>1. Ranked(step, rank, D, n, V)
    <3>1. rank \in [D -> 0 .. n]
      BY <1>1
    <3> QED
      BY <1>1, <1>6, <1>7, <3>1 DEF Ranked
  <2>2. <<>> \in V
    BY <1>1
  <2> QED
    BY <2>1, <2>2, RankRecursion
<1>9. f = [r \in D |-> EventsFrom(r, Mapped(f, ks[r]))]
  <2>1. \A r \in D : f[r] = EventsFrom(r, Mapped(f, ks[r]))
    BY <1>3, <1>8
  <2>2. f = [r \in D |-> f[r]]
    BY <1>8
  <2> QED
    BY <2>1, <2>2, Zenon
<1>10. PICK P : P = EventsBy(t, tokens)
  OBVIOUS
<1>11. P = CHOOSE h : h = [r \in D |-> EventsFrom(r, Mapped(h, ks[r]))]
  <2>1. \A h : [r \in D |-> EventsFrom(r, [i \in DOMAIN KidsWalked(t, r, tokens) |->
                                               h[KidsWalked(t, r, tokens)[i]]])] =
               [r \in D |-> EventsFrom(r, Mapped(h, ks[r]))]
    <3>1. ASSUME NEW h, NEW r \in D
          PROVE  EventsFrom(r, [i \in DOMAIN KidsWalked(t, r, tokens) |-> h[KidsWalked(t, r, tokens)[i]]]) =
                 EventsFrom(r, Mapped(h, ks[r]))
      <4>1. KidsWalked(t, r, tokens) = ks[r] /\ DOMAIN ks[r] = 1 .. Len(ks[r])
        BY <1>1, <1>4
      <4> QED
        BY <4>1, Zenon DEF Mapped
    <3> QED
      BY <3>1
  <2>2. P = CHOOSE h : h = [r \in D |-> EventsFrom(r, [i \in DOMAIN KidsWalked(t, r, tokens) |->
                                               h[KidsWalked(t, r, tokens)[i]]])]
    BY <1>1, <1>10, Zenon DEF EventsBy, EventsFrom
  <2> QED
    BY <2>1, <2>2, Zenon
<1>12. P = [r \in D |-> EventsFrom(r, Mapped(P, ks[r]))]
  BY <1>9, <1>11, Zenon
<1>13. P \in [D -> V]
  <2>1. PICK M : M = {i \in 0 .. n : \A r \in D : n - r < i => P[r] \in V}
    OBVIOUS
  <2>2. 0 \in M
    BY <1>1, <2>1
  <2>3. ASSUME NEW i \in 1 .. n, i - 1 \in M PROVE i \in M
    <3>1. ASSUME NEW r \in D, n - r < i PROVE P[r] \in V
      <4>1. PICK c, m, w : c = ks[r] /\ c \in Seq(D) /\ m = Len(c) /\ m \in Nat /\ w = [j \in 1 .. m |-> P[c[j]]]
        <5>1. ks[r] \in Seq(D) /\ Len(ks[r]) \in Nat
          BY <1>4
        <5> QED
          BY <5>1, Zenon
      <4>2. ASSUME NEW j \in 1 .. m PROVE P[c[j]] \in V
        <5>1. c[j] \in D /\ rank[c[j]] < rank[r]
          BY <1>4, <4>1
        <5>2. n - c[j] < i - 1
          BY <1>1, <3>1, <5>1
        <5> QED
          BY <2>1, <2>3, <5>1, <5>2
      <4>3. w \in Seq(Seq(T))
        BY <1>1, <4>1, <4>2
      <4>4. EventsFrom(r, w) \in Seq(T)
        BY <1>2, <4>3, EventsFromType
      <4>5. P[r] = EventsFrom(r, w)
        BY <1>12, <4>1, Zenon DEF Mapped
      <4> QED
        BY <1>1, <4>4, <4>5
    <3> QED
      BY <2>1, <3>1
  <2>4. n \in 0 .. n /\ \A i \in 0 .. n : i \in M
    <3>1. n \in Nat
      BY <1>1
    <3>2. \A i \in 0 .. n : i \in M
      BY <2>2, <2>3, <3>1, UpTo
    <3> QED
      BY <3>1, <3>2
  <2>5. \A r \in D : P[r] \in V
    BY <1>1, <2>1, <2>4
  <2>6. P = [r \in D |-> P[r]]
    <3>1. \A r \in D : P[r] = EventsFrom(r, Mapped(P, ks[r]))
      BY <1>12, Zenon
    <3> QED
      BY <1>12, <3>1, Zenon
  <2> QED
    BY <2>5, <2>6
<1>14. \A r \in D : P[r] = EventsFrom(r, Mapped(P, KidsWalked(t, r, tokens)))
  <2>1. \A r \in D : P[r] = EventsFrom(r, Mapped(P, ks[r]))
    BY <1>12, Zenon
  <2> QED
    BY <1>1, <2>1
<1> QED
  BY <1>1, <1>10, <1>13, <1>14 DEF MapsTo

\* The event after an event, by the elements around.
WalkedRight(p, tokens) == {q \in Right(p) : tokens \/ ~ IsToken(q)}

Follows(a, b, tokens) ==
    LET S == IF a[1] = "Enter" THEN Walked(tree, a[2], tokens) ELSE WalkedRight(a[2], tokens) IN
    IF S = {} THEN b = <<"Leave", IF a[1] = "Enter" THEN a[2] ELSE tree.parent[a[2]]>>
    ELSE \E q \in S : b = <<"Enter", q>> /\ \A x \in S : q <= x

LEMMA OneFollows ==
    ASSUME IsTree(tree), NEW p \in Positions, NEW event, NEW b, NEW c, NEW tokens,
           Follows(<<event, p>>, b, tokens), Follows(<<event, p>>, c, tokens)
    PROVE  b = c
<1>1. PICK a, S : a = <<event, p>> /\ a[1] = event /\ a[2] = p
                  /\ S = IF event = "Enter" THEN Walked(tree, p, tokens) ELSE WalkedRight(p, tokens)
  OBVIOUS
<1>2. \A x \in S : x \in Int
  <2>1. tree.size \in Nat
    BY TreeFacts
  <2> QED
    BY <1>1, <2>1 DEF Walked, WalkedRight, Childhood, Right, Siblings, Positions
<1>3. CASE S = {}
  BY <1>1, <1>3 DEF Follows
<1>4. CASE S # {}
  <2>1. PICK q \in S : b = <<"Enter", q>> /\ \A x \in S : q <= x
    BY <1>1, <1>4 DEF Follows
  <2>2. PICK r \in S : c = <<"Enter", r>> /\ \A x \in S : r <= x
    BY <1>1, <1>4 DEF Follows
  <2>3. q = r
    BY <1>2, <2>1, <2>2
  <2> QED
    BY <2>1, <2>2, <2>3
<1> QED
  BY <1>3, <1>4

\* Events that follow each other, from a to z.
Course(es, a, z, tokens) ==
    /\ es \in Seq(EventsOf(tree)) /\ Len(es) \in Nat \ {0}
    /\ \A i \in 1 .. Len(es) - 1 : Follows(es[i], es[i + 1], tokens)
    /\ es[1] = a /\ es[Len(es)] = z

LEMMA CourseJoin ==
    ASSUME NEW tokens, NEW s, NEW t, NEW a, NEW b, NEW c, NEW d,
           Course(s, a, b, tokens), Course(t, c, d, tokens), Follows(b, c, tokens)
    PROVE  Course(s \o t, a, d, tokens)
<1>1. PICK T, m, n, u : /\ T = EventsOf(tree) /\ m = Len(s) /\ n = Len(t) /\ u = s \o t
                        /\ m \in Nat \ {0} /\ n \in Nat \ {0} /\ s \in Seq(T) /\ t \in Seq(T)
                        /\ s[1] = a /\ s[m] = b /\ t[1] = c /\ t[n] = d
  BY DEF Course
<1>2. u \in Seq(T) /\ Len(u) = m + n /\ \A i \in 1 .. m + n : u[i] = IF i <= m THEN s[i] ELSE t[i - m]
  BY <1>1, ConcatProperties
<1>3. ASSUME NEW i \in 1 .. m + n - 1 PROVE Follows(u[i], u[i + 1], tokens)
  <2>1. CASE i < m
    <3>1. i \in 1 .. m - 1 /\ u[i] = s[i] /\ u[i + 1] = s[i + 1]
      BY <1>1, <1>2, <2>1
    <3> QED
      BY <1>1, <3>1 DEF Course
  <2>2. CASE i = m
    <3>1. u[i] = s[m] /\ u[i + 1] = t[1]
      <4>1. i \in 1 .. m + n /\ i + 1 \in 1 .. m + n /\ ~ (i + 1 <= m) /\ (i + 1) - m = 1
        BY <1>1, <2>2
      <4> QED
        BY <1>2, <2>2, <4>1
    <3> QED
      BY <1>1, <3>1
  <2>3. CASE i > m
    <3>1. PICK j : j = i - m /\ j \in 1 .. n - 1 /\ u[i] = t[j] /\ u[i + 1] = t[j + 1]
      <4>1. i - m \in 1 .. n - 1 /\ (i + 1) - m = (i - m) + 1 /\ ~ (i <= m) /\ ~ (i + 1 <= m)
            /\ i \in 1 .. m + n /\ i + 1 \in 1 .. m + n
        BY <1>1, <2>3
      <4> QED
        BY <1>2, <4>1
    <3> QED
      BY <1>1, <3>1 DEF Course
  <2> QED
    BY <1>1, <2>1, <2>2, <2>3
<1>4. u[1] = s[1] /\ u[Len(u)] = t[n]
  <2>1. 1 \in 1 .. m + n /\ 1 <= m /\ m + n \in 1 .. m + n /\ ~ (m + n <= m) /\ (m + n) - m = n
    BY <1>1
  <2> QED
    BY <1>2, <2>1
<1>5. Course(u, a, d, tokens)
  <2>1. Len(u) \in Nat \ {0} /\ Len(u) - 1 = m + n - 1
    BY <1>1, <1>2
  <2> QED
    BY <1>1, <1>2, <1>3, <1>4, <2>1 DEF Course
<1> QED
  BY <1>1, <1>5

\* After a child comes the next one, after the last one nothing more.
LEMMA AfterKid ==
    ASSUME IsTree(tree), NEW p \in Positions, NEW tokens, NEW ks, ks \in Seq(Childhood(tree, p)),
           InOrder(ks, Walked(tree, p, tokens))
    PROVE  /\ ks = <<>> => Follows(<<"Enter", p>>, <<"Leave", p>>, tokens)
           /\ ks # <<>> => Follows(<<"Enter", p>>, <<"Enter", ks[1]>>, tokens)
           /\ \A k \in 1 .. Len(ks) - 1 : Follows(<<"Leave", ks[k]>>, <<"Enter", ks[k + 1]>>, tokens)
           /\ ks # <<>> => Follows(<<"Leave", ks[Len(ks)]>>, <<"Leave", p>>, tokens)
<1>1. PICK n, C, W : /\ n = Len(ks) /\ n \in Nat /\ C = Childhood(tree, p) /\ W = Walked(tree, p, tokens)
                     /\ W = {ks[i] : i \in 1 .. n}
  BY DEF InOrder
<1>2. \A k \in 1 .. n : ks[k] \in C /\ ks[k] \in W /\ ks[k] \in Int
  <2>1. tree.size \in Nat /\ \A x \in C : x \in Int
    BY <1>1, TreeFacts DEF Childhood
  <2> QED
    BY <1>1, <2>1
<1>3. \A i, j \in 1 .. n : i < j => ks[i] < ks[j]
  BY <1>1 DEF InOrder
<1>4. ASSUME NEW k \in 1 .. n
      PROVE  WalkedRight(ks[k], tokens) = {q \in W : ks[k] < q} /\ tree.parent[ks[k]] = p
  <2>1. PICK c : c = ks[k] /\ c \in C /\ c \in Positions /\ tree.parent[c] = p /\ p < c
    BY <1>1, <1>2, KidAt
  <2>2. c # Root
    BY <2>1, TreeFacts DEF Root, Positions
  <2>3. Right(c) = {q \in C : q > c}
    BY <1>1, <2>1, <2>2, SiblingsAre
  <2>4. WalkedRight(c, tokens) = {q \in W : c < q}
    BY <1>1, <2>3 DEF WalkedRight, Walked, IsToken
  <2> QED
    BY <2>1, <2>4
<1>5. ks = <<>> => Follows(<<"Enter", p>>, <<"Leave", p>>, tokens)
  <2>1. ASSUME ks = <<>> PROVE W = {}
    <3>1. n = 0
      BY <1>1, <2>1
    <3> QED
      BY <1>1, <3>1
  <2> QED
    BY <1>1, <2>1 DEF Follows
<1>6. n # 0 => Follows(<<"Enter", p>>, <<"Enter", ks[1]>>, tokens)
  <2>1. ASSUME n # 0 PROVE ks[1] \in W /\ \A x \in W : ks[1] <= x
    <3>1. 1 \in 1 .. n
      BY <1>1, <2>1
    <3>2. ASSUME NEW i \in 1 .. n PROVE ks[1] <= ks[i]
      BY <1>2, <1>3, <3>1
    <3> QED
      BY <1>1, <1>2, <3>1, <3>2
  <2> QED
    BY <1>1, <2>1 DEF Follows
<1>7. ASSUME NEW k \in 1 .. n - 1 PROVE Follows(<<"Leave", ks[k]>>, <<"Enter", ks[k + 1]>>, tokens)
  <2>1. PICK S : S = WalkedRight(ks[k], tokens) /\ S = {q \in W : ks[k] < q}
    <3>1. k \in 1 .. n
      BY <1>1
    <3> QED
      BY <1>4, <3>1
  <2>2. k \in 1 .. n /\ k + 1 \in 1 .. n /\ k < k + 1
    BY <1>1
  <2>3. ks[k + 1] \in S
    BY <1>2, <1>3, <2>1, <2>2
  <2>4. ASSUME NEW x \in S PROVE ks[k + 1] <= x
    <3>1. PICK i \in 1 .. n : x = ks[i] /\ ks[k] < ks[i]
      BY <1>1, <2>1
    <3>2. ~ (i <= k)
      BY <1>2, <1>3, <2>2, <3>1
    <3>3. i = k + 1 \/ k + 1 < i
      BY <1>1, <2>2, <3>2
    <3> QED
      BY <1>2, <1>3, <2>2, <3>1, <3>3
  <2> QED
    BY <2>1, <2>3, <2>4 DEF Follows
<1>8. n # 0 => Follows(<<"Leave", ks[n]>>, <<"Leave", p>>, tokens)
  <2>1. SUFFICES ASSUME n # 0 PROVE Follows(<<"Leave", ks[n]>>, <<"Leave", p>>, tokens)
    OBVIOUS
  <2>2. n \in 1 .. n
    BY <1>1, <2>1
  <2>3. WalkedRight(ks[n], tokens) = {}
    <3>1. ASSUME NEW i \in 1 .. n PROVE ~ (ks[n] < ks[i])
      BY <1>2, <1>3, <2>2
    <3> QED
      BY <1>1, <1>4, <2>2, <3>1
  <2> QED
    BY <1>4, <2>2, <2>3 DEF Follows
<1>9. ks # <<>> => n # 0
  BY <1>1
<1> QED
  BY <1>1, <1>5, <1>6, <1>7, <1>8, <1>9

Walks(es, p, tokens) == Course(es, <<"Enter", p>>, <<"Leave", p>>, tokens)

\* The events so far: an element is entered, and then one child after the other
\* is entered and left.
Begun(g, p, ks, k) == <<<<"Enter", p>>>> \o FlattenSeq(Mapped(g, SubSeq(ks, 1, k)))

Unfolds(g, p, ks) ==
    /\ Begun(g, p, ks, 0) = <<<<"Enter", p>>>>
    /\ \A k \in 1 .. Len(ks) : Begun(g, p, ks, k) = Begun(g, p, ks, k - 1) \o g[ks[k]]
    /\ EventsFrom(p, Mapped(g, ks)) = Begun(g, p, ks, Len(ks)) \o <<<<"Leave", p>>>>

LEMMA BegunSteps ==
    ASSUME NEW A, NEW T, NEW g, MapsTo(g, A, T), NEW p, <<"Enter", p>> \in T, NEW ks \in Seq(A)
    PROVE  Unfolds(g, p, ks)
<1>1. PICK n, a : n = Len(ks) /\ n \in Nat /\ a = <<<<"Enter", p>>>> /\ a \in Seq(T)
  <2>1. Len(ks) \in Nat /\ <<<<"Enter", p>>>> \in Seq(T)
    OBVIOUS
  <2> QED
    BY <2>1, Zenon
<1>2. Begun(g, p, ks, 0) = a
  <2>1. PICK s : s = SubSeq(ks, 1, 0) /\ s = <<>>
    <3>1. 0 <= Len(ks) /\ 0 \in Nat /\ 0 + 1 = 1 /\ 0 - 0 = 0
      BY <1>1
    <3>2. SubSeq(ks, 0 + 1, 0) \in Seq(A) /\ Len(SubSeq(ks, 0 + 1, 0)) = 0 - 0
      BY <3>1, Part
    <3>3. SubSeq(ks, 1, 0) \in Seq(A) /\ Len(SubSeq(ks, 1, 0)) = 0
      BY <3>1, <3>2
    <3>4. SubSeq(ks, 1, 0) = <<>>
      BY <3>3
    <3> QED
      BY <3>4
  <2>2. Mapped(g, s) = <<>>
    <3>1. Len(s) = 0 /\ 1 .. 0 = {}
      BY <2>1
    <3> QED
      BY <3>1 DEF Mapped
  <2>3. FlattenSeq(Mapped(g, s)) = <<>>
    BY <2>2, FlattenNone
  <2>4. a \o <<>> = a
    BY <1>1
  <2> QED
    BY <1>1, <2>1, <2>3, <2>4, Zenon DEF Begun
<1>3. ASSUME NEW k \in 1 .. n PROVE Begun(g, p, ks, k) = Begun(g, p, ks, k - 1) \o g[ks[k]]
  <2>1. PICK s, x : s = SubSeq(ks, 1, k - 1) /\ s \in Seq(A) /\ x = ks[k] /\ x \in A
    <3>1. PICK j : j = k - 1 /\ j \in Nat /\ 0 + 1 = 1 /\ j - 0 = j /\ 0 <= j /\ j <= Len(ks) /\ 0 \in Nat
      BY <1>1
    <3>2. SubSeq(ks, 0 + 1, j) \in Seq(A)
      BY <3>1, Part
    <3>3. ks[k] \in A
      BY <1>1
    <3> QED
      BY <3>1, <3>2, <3>3
  <2>2. SubSeq(ks, 1, k) = Append(s, x)
    BY <1>1, <2>1
  <2>3. PICK f, y : f = FlattenSeq(Mapped(g, s)) /\ y = g[x]
    OBVIOUS
  <2>4. f \in Seq(T) /\ FlattenSeq(Mapped(g, Append(s, x))) = f \o y
    <3>1. s \in Seq(A) /\ x \in A
      BY <2>1
    <3>2. /\ FlattenSeq(Mapped(g, s)) \in Seq(T)
          /\ FlattenSeq(Mapped(g, Append(s, x))) = FlattenSeq(Mapped(g, s)) \o g[x]
      BY <3>1, FlattenMapped
    <3> QED
      BY <2>3, <3>2, Zenon
  <2>5. y \in Seq(T)
    BY <2>1, <2>3 DEF MapsTo
  <2>6. (a \o f) \o y = a \o (f \o y)
    BY <1>1, <2>4, <2>5, ConcatIsAssociative
  <2>7. Begun(g, p, ks, k) = a \o (f \o y)
    BY <1>1, <2>2, <2>4, Zenon DEF Begun
  <2>8. Begun(g, p, ks, k - 1) = a \o f
    BY <1>1, <2>1, <2>3, Zenon DEF Begun
  <2> QED
    BY <2>1, <2>3, <2>6, <2>7, <2>8, Zenon
<1>4. EventsFrom(p, Mapped(g, ks)) = Begun(g, p, ks, n) \o <<<<"Leave", p>>>>
  <2>1. SubSeq(ks, 1, n) = ks
    BY <1>1
  <2> QED
    BY <2>1, Zenon DEF EventsFrom, Begun
<1> QED
  BY <1>1, <1>2, <1>3, <1>4 DEF Unfolds

LEMMA CourseOfOne ==
    ASSUME NEW tokens, NEW x \in EventsOf(tree)
    PROVE  Course(<<x>>, x, x, tokens)
<1>1. PICK s, T : s = <<x>> /\ T = EventsOf(tree) /\ s \in Seq(T) /\ Len(s) = 1 /\ s[1] = x
  <2>1. PICK T : T = EventsOf(tree) /\ x \in T
    OBVIOUS
  <2>2. <<x>> \in Seq(T) /\ Len(<<x>>) = 1 /\ <<x>>[1] = x
    BY <2>1
  <2> QED
    BY <2>1, <2>2, Zenon
<1>2. 1 .. Len(s) - 1 = {}
  BY <1>1
<1> QED
  BY <1>1, <1>2 DEF Course

\* Within the events of a subtree each one follows the one before.
LEMMA EventsFollow ==
    ASSUME IsTree(tree), NEW tokens
    PROVE  \A p \in Positions : Walks(EventsBy(tree, tokens)[p], p, tokens)
<1>1. PICK n, g, T : /\ n = tree.size /\ n \in Nat /\ Positions = 1 .. n /\ g = EventsBy(tree, tokens)
                     /\ T = EventsOf(tree)
  <2>1. tree.size \in Nat
    BY TreeFacts
  <2> QED
    BY <2>1, Zenon DEF Positions
<1>2. PICK M : M = {i \in 0 .. n : \A p \in 1 .. n : n - p < i => Walks(g[p], p, tokens)}
  OBVIOUS
<1>3. 0 \in M
  BY <1>1, <1>2
<1>4. ASSUME NEW i \in 1 .. n, i - 1 \in M PROVE i \in M
  <2>1. ASSUME NEW p \in 1 .. n, n - p < i PROVE Walks(g[p], p, tokens)
    <3>1. PICK ks, C, m : /\ ks = KidsWalked(tree, p, tokens) /\ C = Childhood(tree, p) /\ ks \in Seq(C)
                          /\ InOrder(ks, Walked(tree, p, tokens)) /\ m = Len(ks) /\ m \in Nat
      <4>1. /\ KidsWalked(tree, p, tokens) \in Seq(Childhood(tree, p))
            /\ InOrder(KidsWalked(tree, p, tokens), Walked(tree, p, tokens))
        BY <1>1, WalkedKids
      <4>2. Len(KidsWalked(tree, p, tokens)) \in Nat
        BY <4>1 DEF InOrder
      <4> QED
        BY <4>1, <4>2, Zenon
    <3>2. \A k \in 1 .. m : ks[k] \in C
      BY <3>1
    <3>3. ASSUME NEW k \in 1 .. m PROVE Walks(g[ks[k]], ks[k], tokens) /\ ks[k] \in Positions
      <4>1. ks[k] \in Positions /\ p < ks[k]
        BY <1>1, <3>1, <3>2, KidAt
      <4>2. ks[k] \in 1 .. n /\ n - ks[k] < i - 1
        BY <1>1, <2>1, <4>1
      <4> QED
        BY <1>2, <1>4, <4>1, <4>2
    <3>4. PICK enter, leave : /\ enter = <<"Enter", p>> /\ leave = <<"Leave", p>>
                              /\ enter \in T /\ leave \in T
      <4>1. <<"Enter", p>> \in T /\ <<"Leave", p>> \in T
        BY <1>1 DEF EventsOf
      <4> QED
        BY <4>1, Zenon
    <3>5. PICK F : F = [k \in 0 .. m |-> Begun(g, p, ks, k)]
      OBVIOUS
    <3>6. /\ F[0] = <<enter>> /\ \A k \in 1 .. m : F[k] = F[k - 1] \o g[ks[k]]
          /\ g[p] = F[m] \o <<leave>>
      <4>1. /\ MapsTo(g, 1 .. n, T) /\ g[p] = EventsFrom(p, Mapped(g, ks))
        BY <1>1, <3>1, EventsSteps
      <4>2. ks \in Seq(1 .. n)
        <5>1. \A k \in 1 .. m : ks[k] \in 1 .. n
          BY <1>1, <3>3
        <5>2. ks \in [1 .. m -> 1 .. n]
          BY <3>1, <5>1
        <5> QED
          BY <3>1, <5>2, ListType
      <4>3. Unfolds(g, p, ks)
        <5>1. <<"Enter", p>> \in T /\ MapsTo(g, 1 .. n, T)
          BY <3>4, <4>1
        <5> QED
          BY <4>2, <5>1, BegunSteps
      <4>4. 0 \in 0 .. m /\ m \in 0 .. m /\ \A k \in 1 .. m : k \in 0 .. m /\ k - 1 \in 0 .. m
        BY <3>1
      <4> QED
        BY <3>1, <3>4, <3>5, <4>1, <4>3, <4>4 DEF Unfolds
    <3>7. /\ ks = <<>> => Follows(enter, leave, tokens)
          /\ ks # <<>> => Follows(enter, <<"Enter", ks[1]>>, tokens)
          /\ \A k \in 1 .. m - 1 : Follows(<<"Leave", ks[k]>>, <<"Enter", ks[k + 1]>>, tokens)
          /\ ks # <<>> => Follows(<<"Leave", ks[m]>>, leave, tokens)
      BY <1>1, <3>1, <3>4, AfterKid
    <3>8. PICK last : last = [k \in 0 .. m |-> IF k = 0 THEN enter ELSE <<"Leave", ks[k]>>]
      OBVIOUS
    <3>9. PICK K : K = {k \in 0 .. m : Course(F[k], enter, last[k], tokens)}
      OBVIOUS
    <3>10. 0 \in K
      <4>1. Course(<<enter>>, enter, enter, tokens)
        BY <1>1, <3>4, CourseOfOne
      <4>2. 0 \in 0 .. m
        BY <3>1
      <4> QED
        BY <3>6, <3>8, <3>9, <4>1, <4>2
    <3>11. ASSUME NEW k \in 1 .. m, k - 1 \in K PROVE k \in K
      <4>1. Course(F[k - 1], enter, last[k - 1], tokens) /\ F[k] = F[k - 1] \o g[ks[k]]
        BY <3>6, <3>9, <3>11
      <4>2. Course(g[ks[k]], <<"Enter", ks[k]>>, <<"Leave", ks[k]>>, tokens)
        BY <3>3 DEF Walks
      <4>3. Follows(last[k - 1], <<"Enter", ks[k]>>, tokens)
        <5>1. CASE k = 1
          <6>1. ks # <<>> /\ k - 1 = 0 /\ 0 \in 0 .. m
            BY <3>1, <5>1
          <6> QED
            BY <3>7, <3>8, <5>1, <6>1
        <5>2. CASE k # 1
          <6>1. k - 1 \in 1 .. m - 1 /\ (k - 1) + 1 = k /\ k - 1 # 0 /\ k - 1 \in 0 .. m
            BY <3>1, <5>2
          <6>2. Follows(<<"Leave", ks[k - 1]>>, <<"Enter", ks[k]>>, tokens)
            BY <3>7, <6>1
          <6> QED
            BY <3>8, <6>1, <6>2
        <5> QED
          BY <5>1, <5>2
      <4>4. Course(F[k - 1] \o g[ks[k]], enter, <<"Leave", ks[k]>>, tokens)
        BY <4>1, <4>2, <4>3, CourseJoin
      <4>5. k \in 0 .. m /\ last[k] = <<"Leave", ks[k]>>
        <5>1. k \in 0 .. m /\ k # 0
          BY <3>1
        <5> QED
          BY <3>8, <5>1
      <4> QED
        BY <3>9, <4>1, <4>4, <4>5
    <3>12. m \in K
      <4>1. m \in Nat
        BY <3>1
      <4>2. \A k \in 0 .. m : k \in K
        BY <3>10, <3>11, <4>1, UpTo
      <4> QED
        BY <4>1, <4>2
    <3>13. Course(F[m], enter, last[m], tokens)
      BY <3>9, <3>12
    <3>14. Course(<<leave>>, leave, leave, tokens)
      BY <1>1, <3>4, CourseOfOne
    <3>15. Follows(last[m], leave, tokens)
      <4>1. m \in 0 .. m /\ (m = 0 <=> ks = <<>>)
        BY <3>1
      <4>2. last[m] = IF ks = <<>> THEN enter ELSE <<"Leave", ks[m]>>
        BY <3>8, <4>1
      <4> QED
        BY <3>7, <4>2
    <3>16. Course(F[m] \o <<leave>>, enter, leave, tokens)
      BY <3>13, <3>14, <3>15, CourseJoin
    <3> QED
      BY <3>4, <3>6, <3>16 DEF Walks
  <2> QED
    BY <1>2, <2>1
<1>5. \A i \in 0 .. n : i \in M
  BY <1>1, <1>3, <1>4, UpTo
<1>6. n \in M /\ \A p \in 1 .. n : n - p < n
  BY <1>1, <1>5
<1> QED
  BY <1>1, <1>2, <1>6

\* A walk has reported the first events of those below its start, the last of
\* them at the element where it is.
Reported(t, seen, es, last) ==
    /\ seen \in Seq(EventsOf(t)) /\ Len(seen) \in 1 .. Len(es)
    /\ \A i \in 1 .. Len(seen) : seen[i] = es[i]
    /\ seen[Len(seen)] = last

InStep ==
    \/ walk = <<>>
    \/ \E from, elem \in Positions : \E tokens \in BOOLEAN : \E event \in {"Enter", "Leave"} : \E seen :
           /\ walk = <<[from |-> from, tokens |-> tokens, event |-> event, elem |-> elem, seen |-> seen]>>
           /\ Reported(tree, seen, EventsBy(tree, tokens)[from], <<event, elem>>)

LEMMA WalkBegins ==
    ASSUME Inv, NEW tokens \in BOOLEAN, Preorder(tokens)
    PROVE  InStep'
<1>1. IsTree(tree) /\ at \in Positions /\ tree' = tree
  BY Holding DEF Preorder
<1>2. PICK a, seen, es, T : /\ a = <<"Enter", at>> /\ seen = <<a>> /\ es = EventsBy(tree, tokens)[at]
                            /\ T = EventsOf(tree) /\ seen \in Seq(T) /\ Len(seen) = 1 /\ seen[1] = a
  <2>1. <<"Enter", at>> \in EventsOf(tree)
    BY <1>1 DEF EventsOf, Positions
  <2>2. PICK a, T : a = <<"Enter", at>> /\ T = EventsOf(tree) /\ a \in T
    BY <2>1
  <2>3. <<a>> \in Seq(T) /\ Len(<<a>>) = 1 /\ <<a>>[1] = a
    BY <2>2
  <2> QED
    BY <2>2, <2>3, Zenon
<1>3. Course(es, a, <<"Leave", at>>, tokens)
  BY <1>1, <1>2, EventsFollow DEF Walks
<1>4. Reported(tree, seen, es, a)
  <2>1. 1 \in 1 .. Len(es) /\ es[1] = a
    BY <1>3 DEF Course
  <2> QED
    BY <1>2, <2>1 DEF Reported
<1>5. walk' = <<[from |-> at, tokens |-> tokens, event |-> "Enter", elem |-> at, seen |-> seen]>>
  BY <1>2 DEF Preorder
<1>6. Reported(tree', seen, EventsBy(tree', tokens)[at], <<"Enter", at>>)
  BY <1>1, <1>2, <1>4
<1>7. Positions' = Positions
  BY <1>1 DEF Positions
<1> QED
  BY <1>1, <1>5, <1>6, <1>7 DEF InStep

\* What the walk finds next is the event that follows.
LEMMA NextFollows ==
    ASSUME IsTree(tree), NEW elem \in Positions, slot[elem] = Truth(tree, elem), NEW tokens \in BOOLEAN,
           NEW event \in {"Enter", "Leave"}, NEW w, w.elem = elem, w.event = event, w.tokens = tokens,
           NEW found, found = WalkFound(w),
           NEW next, next = IF found = None THEN "Leave" ELSE "Enter",
           NEW to, to = IF found # None THEN found.pos
                        ELSE IF event = "Enter" THEN elem ELSE tree.parent[elem]
    PROVE  Follows(<<event, elem>>, <<next, to>>, tokens)
<1>1. PICK e, S : /\ e = Truth(tree, elem) /\ e.pos = elem /\ e = slot[elem]
                  /\ S = IF event = "Enter" THEN Walked(tree, elem, tokens) ELSE WalkedRight(elem, tokens)
  BY Within
<1>2. Leads(found, S)
  <2>1. CASE event = "Enter"
    <3>1. /\ Leads(FirstChildOrToken(e), Childhood(tree, elem))
          /\ Leads(FirstChild(e), Childhood(tree, elem) \cap Nodes)
      BY <1>1, NearestKids
    <3>2. \A q \in Childhood(tree, elem) : q \in Nodes <=> q \notin DOMAIN tree.len
      <4>1. \A q \in Childhood(tree, elem) : q \in Positions
        BY KidAt
      <4> QED
        BY <4>1 DEF Nodes, IsToken
    <3>3. S = IF tokens THEN Childhood(tree, elem) ELSE Childhood(tree, elem) \cap Nodes
      BY <1>1, <2>1, <3>2 DEF Walked
    <3>4. CASE tokens /\ IsToken(elem)
      <4>1. found = None
        BY <1>1, <2>1, <3>4 DEF WalkFound
      <4>2. S = {}
        BY <3>3, <3>4, TokensAreLeaves
      <4> QED
        BY <4>1, <4>2 DEF Leads
    <3>5. CASE tokens /\ ~ IsToken(elem)
      <4>1. found = FirstChildOrToken(e)
        BY <1>1, <2>1, <3>5 DEF WalkFound
      <4> QED
        BY <3>1, <3>3, <3>5, <4>1
    <3>6. CASE ~ tokens
      <4>1. found = FirstChild(e)
        BY <1>1, <2>1, <3>6 DEF WalkFound
      <4> QED
        BY <3>1, <3>3, <3>6, <4>1
    <3> QED
      BY <3>4, <3>5, <3>6
  <2>2. CASE event = "Leave"
    <3>1. Leads(NextSiblingOrToken(e), Right(elem)) /\ Leads(NextSibling(e), Right(elem) \cap Nodes)
      BY <1>1, NearestSiblings
    <3>2. S = IF tokens THEN Right(elem) ELSE Right(elem) \cap Nodes
      BY <1>1, <2>2 DEF WalkedRight, Right, Siblings, Nodes
    <3>3. found = IF tokens THEN NextSiblingOrToken(e) ELSE NextSibling(e)
      BY <1>1, <2>2 DEF WalkFound
    <3> QED
      BY <3>1, <3>2, <3>3
  <2> QED
    BY <2>1, <2>2
<1>3. CASE S = {}
  <2>1. found = None
    BY <1>2, <1>3 DEF Leads
  <2> QED
    BY <1>1, <1>3, <2>1 DEF Follows
<1>4. CASE S # {}
  <2>1. PICK q \in S : found = Truth(tree, q) /\ \A x \in S : q <= x
    BY <1>2, <1>4 DEF Leads
  <2>2. q \in Positions
    <3>1. \A x \in Walked(tree, elem, tokens) : x \in Positions
      BY KidAt DEF Walked
    <3>2. \A x \in WalkedRight(elem, tokens) : x \in Positions
      BY DEF WalkedRight, Right, Siblings
    <3> QED
      BY <1>1, <3>1, <3>2
  <2>3. found # None /\ found.pos = q
    BY <2>1, <2>2, TruthFields DEF Positions
  <2>4. next = "Enter" /\ to = q
    BY <2>3
  <2> QED
    BY <1>1, <1>4, <2>1, <2>4 DEF Follows
<1> QED
  BY <1>3, <1>4

LEMMA ReportedNext ==
    ASSUME IsTree(tree), NEW from \in Positions, NEW elem \in Positions, NEW tokens,
           NEW event \in {"Enter", "Leave"}, ~ (event = "Leave" /\ elem = from),
           NEW seen, NEW es, es = EventsBy(tree, tokens)[from], Reported(tree, seen, es, <<event, elem>>),
           NEW x, Follows(<<event, elem>>, x, tokens)
    PROVE  x \in EventsOf(tree) /\ Reported(tree, Append(seen, x), es, x)
<1>1. Course(es, <<"Enter", from>>, <<"Leave", from>>, tokens)
  BY EventsFollow DEF Walks
<1>2. PICK T, m, n, a : /\ T = EventsOf(tree) /\ m = Len(es) /\ m \in Nat /\ es \in Seq(T) /\ a = <<event, elem>>
                        /\ n = Len(seen) /\ n \in 1 .. m /\ seen \in Seq(T) /\ seen[n] = a /\ es[n] = a
  <2>1. Len(es) \in Nat /\ es \in Seq(EventsOf(tree))
    BY <1>1 DEF Course
  <2>2. Len(seen) \in 1 .. Len(es) /\ seen \in Seq(EventsOf(tree)) /\ seen[Len(seen)] = <<event, elem>>
    BY DEF Reported
  <2>3. Len(seen) \in 1 .. Len(seen)
    BY <2>1, <2>2
  <2>4. es[Len(seen)] = <<event, elem>>
    BY <2>2, <2>3 DEF Reported
  <2> QED
    BY <2>1, <2>2, <2>4, Zenon
<1>3. n # m
  <2>1. SUFFICES ASSUME n = m PROVE FALSE
    OBVIOUS
  <2>2. <<event, elem>> = <<"Leave", from>>
    BY <1>1, <1>2, <2>1 DEF Course
  <2> QED
    BY <2>2
<1>4. n \in 1 .. m - 1 /\ n + 1 \in 1 .. m
  BY <1>2, <1>3
<1>5. Follows(<<event, elem>>, es[n + 1], tokens)
  BY <1>1, <1>2, <1>4 DEF Course
<1>6. es[n + 1] = x
  BY <1>5, OneFollows
<1>7. x \in T
  BY <1>2, <1>4, <1>6
<1>8. PICK s : s = Append(seen, x) /\ s \in Seq(T) /\ Len(s) = n + 1 /\ s[n + 1] = x /\ \A i \in 1 .. n : s[i] = seen[i]
  <2>1. PICK s : s = Append(seen, x)
    OBVIOUS
  <2>2. /\ s \in Seq(T) /\ Len(s) = Len(seen) + 1 /\ s[Len(seen) + 1] = x
        /\ \A i \in 1 .. Len(seen) : s[i] = seen[i]
    BY <1>2, <1>7, <2>1, AppendProperties
  <2> QED
    BY <1>2, <2>1, <2>2
<1>9. ASSUME NEW i \in 1 .. n + 1 PROVE s[i] = es[i]
  <2>1. CASE i = n + 1
    BY <1>6, <1>8, <2>1
  <2>2. CASE i # n + 1
    <3>1. i \in 1 .. n
      BY <1>2, <2>2
    <3> QED
      BY <1>2, <1>8, <3>1 DEF Reported
  <2> QED
    BY <2>1, <2>2
<1> QED
  BY <1>2, <1>4, <1>7, <1>8, <1>9 DEF Reported

LEMMA WalkGoesOn ==
    ASSUME Inv, InStep, WalkNext
    PROVE  InStep'
<1>1. PICK from \in Positions, elem \in Positions, tokens \in BOOLEAN, event \in {"Enter", "Leave"} :
          \E seen : /\ walk = <<[from |-> from, tokens |-> tokens, event |-> event, elem |-> elem, seen |-> seen]>>
                    /\ Reported(tree, seen, EventsBy(tree, tokens)[from], <<event, elem>>)
  <2>1. walk # <<>>
    BY DEF WalkNext
  <2> QED
    BY <2>1 DEF InStep
<1>2. PICK seen, w : /\ w = [from |-> from, tokens |-> tokens, event |-> event, elem |-> elem, seen |-> seen]
                     /\ walk = <<w>>
                     /\ Reported(tree, seen, EventsBy(tree, tokens)[from], <<event, elem>>)
  BY <1>1, Zenon
<1>3. /\ w = walk[1] /\ w.from = from /\ w.elem = elem /\ w.event = event /\ w.tokens = tokens
      /\ w.seen = seen
  BY <1>2
<1>4. PICK found : found = WalkFound(w)
  OBVIOUS
<1>5. PICK next, to : /\ next = IF found = None THEN "Leave" ELSE "Enter"
                      /\ to = IF found # None THEN found.pos
                              ELSE IF event = "Enter" THEN elem ELSE tree.parent[elem]
  OBVIOUS
<1>6. Core /\ IsTree(tree)
  BY Holding
<1>7. slot[elem] = Truth(tree, elem)
  <2>1. slot[elem] # None
    <3>1. \E b, e \in Positions : \E k, v, s :
              /\ walk = <<[from |-> b, tokens |-> k, event |-> v, elem |-> e, seen |-> s]>>
              /\ slot[e] # None
      BY <1>2 DEF Inv, Walking
    <3> QED
      BY <1>3, <3>1
  <2> QED
    BY <1>6, <2>1 DEF Core
<1>8. CASE event = "Leave" /\ elem = from
  <2>1. walk' = <<>>
    BY <1>3, <1>8 DEF WalkNext
  <2> QED
    BY <2>1 DEF InStep
<1>9. CASE ~ (event = "Leave" /\ elem = from)
  <2>1. PICK x : x = <<next, to>>
    OBVIOUS
  <2>2. tree' = tree /\ walk' = <<[w EXCEPT !.event = next, !.elem = to, !.seen = Append(@, x)]>>
    BY <1>3, <1>4, <1>5, <1>9, <2>1 DEF WalkNext, Visit
  <2>3. Follows(<<event, elem>>, x, tokens)
    BY <1>3, <1>4, <1>5, <1>6, <1>7, <2>1, NextFollows
  <2>4. x \in EventsOf(tree) /\ Reported(tree, Append(seen, x), EventsBy(tree, tokens)[from], x)
    BY <1>2, <1>6, <1>9, <2>3, ReportedNext
  <2>5. next \in {"Enter", "Leave"} /\ to \in Positions
    BY <2>1, <2>4 DEF EventsOf, Positions
  <2>6. [w EXCEPT !.event = next, !.elem = to, !.seen = Append(@, x)] =
        [from |-> from, tokens |-> tokens, event |-> next, elem |-> to, seen |-> Append(seen, x)]
    <3>1. PICK v : v = [w EXCEPT !.event = next]
      OBVIOUS
    <3>2. v = [from |-> from, tokens |-> tokens, event |-> next, elem |-> elem, seen |-> seen]
      BY <1>2, <3>1
    <3>3. PICK u : u = [v EXCEPT !.elem = to]
      OBVIOUS
    <3>4. u = [from |-> from, tokens |-> tokens, event |-> next, elem |-> to, seen |-> seen]
      BY <3>2, <3>3
    <3>5. PICK s : s = Append(seen, x)
      OBVIOUS
    <3>6. [u EXCEPT !.seen = s] = [from |-> from, tokens |-> tokens, event |-> next, elem |-> to, seen |-> s]
      BY <3>4
    <3>7. [w EXCEPT !.event = next, !.elem = to, !.seen = Append(@, x)] = [u EXCEPT !.seen = s]
      BY <1>2, <3>1, <3>3, <3>4, <3>5
    <3> QED
      BY <3>5, <3>6, <3>7
  <2>7. PICK s : s = Append(seen, x) /\ Reported(tree', s, EventsBy(tree', tokens)[from], <<next, to>>)
    BY <2>1, <2>2, <2>4
  <2>8. walk' = <<[from |-> from, tokens |-> tokens, event |-> next, elem |-> to, seen |-> s]>>
    BY <2>2, <2>6, <2>7, Zenon
  <2>9. Positions' = Positions
    BY <2>2 DEF Positions
  <2> QED
    BY <2>5, <2>7, <2>8, <2>9 DEF InStep
<1> QED
  BY <1>8, <1>9

\* Other steps leave walks alone.
LEMMA OutsideWalks ==
    ASSUME [Next]_vars
    PROVE  \/ WalkNext
           \/ \E tokens \in BOOLEAN : Preorder(tokens)
           \/ walk' = walk /\ tree' = tree
<1>1. ASSUME NEW n, Move(n) PROVE walk' = walk /\ tree' = tree
  BY <1>1 DEF Move, Visit
<1>2. ASSUME NEW path, Take(path) PROVE walk' = walk /\ tree' = tree
  BY <1>2 DEF Take, Visit
<1>3. ASSUME NEW path, Seek(path) PROVE walk' = walk /\ tree' = tree
  BY <1>3 DEF Seek, Visit
<1>4. ASSUME NEW offset, FindOffset(offset) PROVE walk' = walk /\ tree' = tree
  BY <1>4 DEF FindOffset, Visit
<1>5. ASSUME NEW from, NEW to, FindCovering(from, to) PROVE walk' = walk /\ tree' = tree
  BY <1>5 DEF FindCovering, Visit
<1>6. ASSUME NEW tokens, Children(tokens) PROVE walk' = walk /\ tree' = tree
  BY <1>6 DEF Children
<1>7. ASSUME IterNext PROVE walk' = walk /\ tree' = tree
  BY <1>7 DEF IterNext, Visit
<1>8. ASSUME UNCHANGED vars PROVE walk' = walk /\ tree' = tree
  BY <1>8 DEF vars
<1> QED
  BY <1>1, <1>2, <1>3, <1>4, <1>5, <1>6, <1>7, <1>8, Zenon DEF Next

LEMMA WalksInStep == Spec => []InStep
<1>1. Init => InStep
  BY DEF Init, InStep
<1>2. Inv /\ InStep /\ [Next]_vars => InStep'
  <2>1. SUFFICES ASSUME Inv, InStep, [Next]_vars PROVE InStep'
    OBVIOUS
  <2>2. CASE walk' = walk /\ tree' = tree
    <3>1. Positions' = Positions
      BY <2>2 DEF Positions
    <3> QED
      BY <2>1, <2>2, <3>1 DEF InStep
  <2> QED
    BY <2>1, <2>2, OutsideWalks, WalkGoesOn, WalkBegins
<1>3. Spec => []Inv
  BY Invariance
<1> QED
  BY <1>1, <1>2, <1>3, PTL DEF Spec

LEMMA ReportedPrefix ==
    ASSUME NEW t, NEW seen, NEW es, NEW last, Reported(t, seen, es, last), es \in Seq(EventsOf(t))
    PROVE  IsPrefix(seen, es)
<1>1. PICK T, n, m : /\ T = EventsOf(t) /\ n = Len(seen) /\ m = Len(es) /\ m \in Nat /\ n \in 1 .. m
                     /\ seen \in Seq(T) /\ es \in Seq(T) /\ \A i \in 1 .. n : seen[i] = es[i]
  <2>1. Len(es) \in Nat
    OBVIOUS
  <2> QED
    BY <2>1, Zenon DEF Reported
<1>2. PICK a, b : a = SubSeq(seen, 1, n) /\ b = SubSeq(es, 1, n)
  OBVIOUS
<1>3. /\ a \in Seq(T) /\ Len(a) = n /\ \A i \in 1 .. n : a[i] = seen[i]
      /\ b \in Seq(T) /\ Len(b) = n /\ \A i \in 1 .. n : b[i] = es[i]
  <2>1. /\ n \in Nat /\ 0 \in Nat /\ 0 <= n /\ n <= Len(seen) /\ n <= Len(es) /\ 0 + 1 = 1 /\ n - 0 = n
        /\ \A i \in 1 .. n : 0 + i = i
    BY <1>1
  <2>2. /\ SubSeq(seen, 0 + 1, n) \in Seq(T) /\ Len(SubSeq(seen, 0 + 1, n)) = n - 0
        /\ \A i \in 1 .. n - 0 : SubSeq(seen, 0 + 1, n)[i] = seen[0 + i]
    BY <1>1, <2>1, Part
  <2>3. /\ SubSeq(es, 0 + 1, n) \in Seq(T) /\ Len(SubSeq(es, 0 + 1, n)) = n - 0
        /\ \A i \in 1 .. n - 0 : SubSeq(es, 0 + 1, n)[i] = es[0 + i]
    BY <1>1, <2>1, Part
  <2> QED
    BY <1>2, <2>1, <2>2, <2>3
<1>4. \A i \in 1 .. Len(a) : a[i] = b[i]
  BY <1>1, <1>3
<1>5. a = b
  BY <1>3, <1>4, SameSeq
<1> QED
  BY <1>1, <1>2, <1>5 DEF IsPrefix

\* preorder and preorder_with_tokens: in every tree, whatever the client did
\* before, a walk enters and leaves every element below its start once and in
\* order, although it keeps no stack and only asks for children and siblings.
THEOREM WalksCorrect == Spec => []WalkInOrder
<1>1. ASSUME Inv, InStep PROVE WalkInOrder
  <2>1. ASSUME NEW i \in DOMAIN walk PROVE IsPrefix(walk[i].seen, Events(walk[i].from, walk[i].tokens))
    <3>1. PICK from \in Positions, elem \in Positions, tokens \in BOOLEAN, event \in {"Enter", "Leave"} :
              \E seen :
                  /\ walk = <<[from |-> from, tokens |-> tokens, event |-> event, elem |-> elem, seen |-> seen]>>
                  /\ Reported(tree, seen, EventsBy(tree, tokens)[from], <<event, elem>>)
      <4>1. walk # <<>>
        BY <2>1
      <4> QED
        BY <1>1, <4>1 DEF InStep
    <3>2. PICK seen, es :
              /\ walk = <<[from |-> from, tokens |-> tokens, event |-> event, elem |-> elem, seen |-> seen]>>
              /\ es = EventsBy(tree, tokens)[from] /\ Reported(tree, seen, es, <<event, elem>>)
      BY <3>1, Zenon
    <3>3. walk[i].seen = seen /\ walk[i].from = from /\ walk[i].tokens = tokens
      BY <2>1, <3>2
    <3>4. es \in Seq(EventsOf(tree))
      <4>1. IsTree(tree)
        BY <1>1, Holding
      <4> QED
        BY <3>2, <4>1, EventsFollow DEF Walks, Course
    <3>5. IsPrefix(seen, es)
      BY <3>2, <3>4, ReportedPrefix
    <3> QED
      BY <3>2, <3>3, <3>5, EventsAre
  <2> QED
    BY <2>1 DEF WalkInOrder
<1> QED
  BY <1>1, Invariance, WalksInStep, PTL

----------------------------------------------------------------------------
(* Trees rebuilt *)

\* The green tree at q, from those of its children; at the elements of S there
\* is another one.
Grafted(g, t, q, S, new) ==
    IF q \in S THEN new
    ELSE [label |-> q, kind |-> Kind[q], kids |-> [i \in DOMAIN t.kids[q] |-> g[t.kids[q][i]]]]

Grows(g, t, a, S, new) == g = [q \in a .. t.size |-> Grafted(g, t, q, S, new)]

\* Only what is at the children counts.
LEMMA GraftedSame ==
    ASSUME NEW g, NEW h, NEW t, NEW q, NEW S, NEW new,
           \A i \in DOMAIN t.kids[q] : g[t.kids[q][i]] = h[t.kids[q][i]]
    PROVE  Grafted(g, t, q, S, new) = Grafted(h, t, q, S, new)
<1>1. PICK s : s = t.kids[q]
  OBVIOUS
<1>2. [i \in DOMAIN s |-> g[s[i]]] = [i \in DOMAIN s |-> h[s[i]]]
  BY <1>1
<1> QED
  BY <1>1, <1>2, Zenon DEF Grafted

\* Children come after their parent.
LEMMA KidsBehind ==
    ASSUME NEW t, IsTree(t), NEW q \in 1 .. t.size, NEW i \in DOMAIN t.kids[q]
    PROVE  t.kids[q][i] \in q + 1 .. t.size /\ t.kids[q][i] \in Childhood(t, q)
<1>1. PICK s, n : s = t.kids[q] /\ n = t.size /\ n \in Nat /\ KidList(t, q, s)
  BY Kidlists, TreeFacts
<1>2. /\ s \in Seq(2 .. n) /\ Len(s) \in Nat
      /\ \A k \in 1 .. Len(s) : s[k] \in 2 .. n /\ s[k] > q /\ t.parent[s[k]] = q
  BY <1>1 DEF KidList
<1>3. DOMAIN s = 1 .. Len(s)
  BY <1>2
<1>4. i \in 1 .. Len(s)
  BY <1>1, <1>3
<1>5. s[i] \in q + 1 .. n /\ s[i] \in Childhood(t, q)
  BY <1>1, <1>2, <1>4 DEF Childhood
<1> QED
  BY <1>1, <1>5

\* There are such values, although they are nested as deeply as the tree.
LEMMA SomethingGrows ==
    ASSUME NEW t, IsTree(t), NEW S, NEW new
    PROVE  \E g : Grows(g, t, 1, S, new)
<1>1. PICK n \in Nat : n = t.size
  BY TreeFacts
<1>2. PICK M : M = {k \in 0 .. n : \E g : Grows(g, t, n - k + 1, S, new)}
  OBVIOUS
<1>3. 0 \in M
  <2>1. PICK g : g = [q \in n + 1 .. n |-> 0]
    OBVIOUS
  <2>2. Grows(g, t, n + 1, S, new)
    <3>1. n + 1 .. n = {}
      OBVIOUS
    <3> QED
      BY <1>1, <2>1, <3>1, Zenon DEF Grows
  <2>3. n - 0 + 1 = n + 1
    OBVIOUS
  <2> QED
    BY <1>2, <2>2, <2>3
<1>4. ASSUME NEW k \in 1 .. n, k - 1 \in M PROVE k \in M
  <2>1. PICK a \in 1 .. n : a = n - k + 1 /\ a + 1 = n - (k - 1) + 1
    OBVIOUS
  <2>2. PICK g : Grows(g, t, a + 1, S, new)
    BY <1>2, <1>4, <2>1
  <2>3. PICK h : h = [q \in a .. n |-> IF q = a THEN Grafted(g, t, a, S, new) ELSE g[q]]
    OBVIOUS
  <2>4. ASSUME NEW q \in a .. n PROVE h[q] = Grafted(h, t, q, S, new)
    <3>1. \A i \in DOMAIN t.kids[q] : g[t.kids[q][i]] = h[t.kids[q][i]]
      <4>1. ASSUME NEW i \in DOMAIN t.kids[q] PROVE t.kids[q][i] \in q + 1 .. n
        BY <1>1, <2>1, KidsBehind
      <4> QED
        BY <2>1, <2>3, <4>1
    <3>2. Grafted(g, t, q, S, new) = Grafted(h, t, q, S, new)
      BY <3>1, GraftedSame
    <3>3. CASE q = a
      BY <2>3, <3>2, <3>3
    <3>4. CASE q # a
      <4>1. q \in a + 1 .. n /\ h[q] = g[q]
        BY <2>1, <2>3, <3>4
      <4>2. g[q] = Grafted(g, t, q, S, new)
        BY <1>1, <2>2, <4>1 DEF Grows
      <4> QED
        BY <3>2, <4>1, <4>2
    <3> QED
      BY <3>3, <3>4
  <2>5. h = [q \in a .. n |-> Grafted(h, t, q, S, new)]
    BY <2>3, <2>4
  <2>6. Grows(h, t, n - k + 1, S, new)
    BY <1>1, <2>1, <2>5 DEF Grows
  <2> QED
    BY <1>2, <2>6
<1>5. n \in M
  BY <1>3, <1>4, UpTo
<1>6. n - n + 1 = 1
  OBVIOUS
<1> QED
  BY <1>2, <1>5, <1>6

\* The functions of Substituted and Green, for lemmas to speak of.
GraftBy(t, p, new) ==
    CHOOSE g : g =
        [q \in 1 .. t.size |->
            IF q = p THEN new
            ELSE [label |-> q, kind |-> Kind[q], kids |-> [i \in DOMAIN t.kids[q] |-> g[t.kids[q][i]]]]]

GreenBy(t) ==
    CHOOSE g : g =
        [q \in 1 .. t.size |->
            [label |-> q, kind |-> Kind[q], kids |-> [i \in DOMAIN t.kids[q] |-> g[t.kids[q][i]]]]]

\* They are what the two definitions take their values from.
LEMMA GreensAre ==
    ASSUME NEW p, NEW new
    PROVE  Substituted(p, new) = GraftBy(tree, p, new)[Root] /\ Green(p) = GreenBy(tree)[p]
<1>1. Substituted(p, new) = GraftBy(tree, p, new)[Root]
  BY Zenon DEF Substituted, GraftBy, Positions, Kids
<1>2. Green(p) = GreenBy(tree)[p]
  BY Zenon DEF Green, GreenBy, Positions, Kids
<1> QED
  BY <1>1, <1>2

\* Both satisfy their equations.
LEMMA Grafts ==
    ASSUME NEW t, IsTree(t), NEW p, NEW new
    PROVE  Grows(GraftBy(t, p, new), t, 1, {p}, new) /\ Grows(GreenBy(t), t, 1, {}, new)
<1>1. Grows(GraftBy(t, p, new), t, 1, {p}, new)
  <2>1. PICK g : Grows(g, t, 1, {p}, new)
    BY SomethingGrows
  <2>2. ASSUME NEW f
        PROVE  [q \in 1 .. t.size |-> Grafted(f, t, q, {p}, new)] =
               [q \in 1 .. t.size |->
                  IF q = p THEN new
                  ELSE [label |-> q, kind |-> Kind[q], kids |-> [i \in DOMAIN t.kids[q] |-> f[t.kids[q][i]]]]]
    <3>1. ASSUME NEW q
          PROVE  Grafted(f, t, q, {p}, new) =
                 IF q = p THEN new
                 ELSE [label |-> q, kind |-> Kind[q], kids |-> [i \in DOMAIN t.kids[q] |-> f[t.kids[q][i]]]]
      BY Zenon DEF Grafted
    <3> QED
      BY <3>1, Zenon
  <2>3. g = [q \in 1 .. t.size |->
               IF q = p THEN new
               ELSE [label |-> q, kind |-> Kind[q], kids |-> [i \in DOMAIN t.kids[q] |-> g[t.kids[q][i]]]]]
    BY <2>1, <2>2, Zenon DEF Grows
  <2>4. PICK f : f = GraftBy(t, p, new)
    OBVIOUS
  <2>5. f = [q \in 1 .. t.size |->
               IF q = p THEN new
               ELSE [label |-> q, kind |-> Kind[q], kids |-> [i \in DOMAIN t.kids[q] |-> f[t.kids[q][i]]]]]
    BY <2>3, <2>4, Zenon DEF GraftBy
  <2>6. f = [q \in 1 .. t.size |-> Grafted(f, t, q, {p}, new)]
    BY <2>2, <2>5, Zenon
  <2> QED
    BY <2>4, <2>6, Zenon DEF Grows
<1>2. Grows(GreenBy(t), t, 1, {}, new)
  <2>1. PICK g : Grows(g, t, 1, {}, new)
    BY SomethingGrows
  <2>2. ASSUME NEW f
        PROVE  [q \in 1 .. t.size |-> Grafted(f, t, q, {}, new)] =
               [q \in 1 .. t.size |->
                  [label |-> q, kind |-> Kind[q], kids |-> [i \in DOMAIN t.kids[q] |-> f[t.kids[q][i]]]]]
    <3>1. ASSUME NEW q
          PROVE  Grafted(f, t, q, {}, new) =
                 [label |-> q, kind |-> Kind[q], kids |-> [i \in DOMAIN t.kids[q] |-> f[t.kids[q][i]]]]
      BY Zenon DEF Grafted
    <3> QED
      BY <3>1, Zenon
  <2>3. g = [q \in 1 .. t.size |->
               [label |-> q, kind |-> Kind[q], kids |-> [i \in DOMAIN t.kids[q] |-> g[t.kids[q][i]]]]]
    BY <2>1, <2>2, Zenon DEF Grows
  <2>4. PICK f : f = GreenBy(t)
    OBVIOUS
  <2>5. f = [q \in 1 .. t.size |->
               [label |-> q, kind |-> Kind[q], kids |-> [i \in DOMAIN t.kids[q] |-> f[t.kids[q][i]]]]]
    BY <2>3, <2>4, Zenon DEF GreenBy
  <2>6. f = [q \in 1 .. t.size |-> Grafted(f, t, q, {}, new)]
    BY <2>2, <2>5, Zenon
  <2> QED
    BY <2>4, <2>6, Zenon DEF Grows
<1> QED
  BY <1>1, <1>2

\* Where p is not below, replacing p changes nothing.
LEMMA GraftApart ==
    ASSUME IsTree(tree), NEW p \in Positions, NEW new, NEW h, NEW g,
           Grows(h, tree, 1, {p}, new), Grows(g, tree, 1, {}, new),
           NEW q \in Positions, ~ Under(q, p)
    PROVE  h[q] = g[q]
<1>1. PICK n \in Nat : n = tree.size /\ Positions = 1 .. n
  BY TreeFacts DEF Positions
<1>2. PICK B : B = {x \in Positions : ~ Under(x, p) /\ h[x] # g[x]}
  OBVIOUS
<1>3. SUFFICES ASSUME B # {} PROVE FALSE
  BY <1>2
<1>4. PICK x \in B : \A y \in B : y <= x
  <2>1. PICK T : T = {n - y : y \in B}
    OBVIOUS
  <2>2. T \in SUBSET Nat /\ T # {}
    <3>1. ASSUME NEW y \in B PROVE n - y \in Nat
      BY <1>1, <1>2
    <3>2. \A z \in T : z \in Nat
      BY <2>1, <3>1
    <3> QED
      BY <1>3, <2>1, <3>2
  <2>3. PICK m \in T : \A k \in T : m <= k
    BY <2>2, Least
  <2>4. PICK x \in B : m = n - x
    BY <2>1, <2>3
  <2>5. ASSUME NEW y \in B PROVE y <= x
    <3>1. m <= n - y /\ x \in Nat /\ y \in Nat
      BY <1>1, <1>2, <2>1, <2>3
    <3> QED
      BY <2>4, <3>1
  <2> QED
    BY <2>5
<1>5. x \in Positions /\ ~ Under(x, p) /\ h[x] # g[x]
  BY <1>2
<1>6. ASSUME NEW i \in DOMAIN tree.kids[x] PROVE h[tree.kids[x][i]] = g[tree.kids[x][i]]
  <2>1. PICK c : c = tree.kids[x][i]
    OBVIOUS
  <2>2. c \in x + 1 .. n /\ c \in Childhood(tree, x)
    BY <1>1, <1>5, <2>1, KidsBehind
  <2>3. c \in Positions /\ c > x
    BY <1>1, <1>5, <2>2
  <2>4. ~ Under(c, p)
    BY <1>5, <2>2, KidAt
  <2>5. c \notin B
    BY <1>1, <1>4, <1>5, <2>3
  <2> QED
    BY <1>2, <2>1, <2>3, <2>4, <2>5
<1>7. x # p
  <2>1. Under(p, p)
    BY <1>1 DEF Under
  <2> QED
    BY <1>5, <2>1
<1>8. h[x] = Grafted(h, tree, x, {p}, new) /\ g[x] = Grafted(g, tree, x, {}, new)
  BY <1>1, <1>5 DEF Grows
<1>9. Grafted(h, tree, x, {p}, new) = Grafted(h, tree, x, {}, new)
  BY <1>7, Zenon DEF Grafted
<1>10. Grafted(h, tree, x, {}, new) = Grafted(g, tree, x, {}, new)
  BY <1>6, GraftedSame
<1> QED
  BY <1>5, <1>8, <1>9, <1>10

\* The parent rebuilt around what is at x is what is at the parent.
LEMMA RebuiltGraft ==
    ASSUME Core, NEW p \in Positions, NEW new, NEW h, Grows(h, tree, 1, {p}, new),
           NEW x \in Positions, x # Root, Under(x, p), slot[x] # None
    PROVE  Rebuilt(x, h[x]) = h[tree.parent[x]]
<1>1. IsTree(tree) /\ slot[x] = Truth(tree, x)
  BY DEF Core
<1>2. PICK u, s : u = tree.parent[x] /\ s = tree.kids[u] /\ s = Kids(u)
  BY DEF Kids
<1>3. x \in 2 .. tree.size /\ u \in Positions /\ u < x /\ Positions = 1 .. tree.size /\ tree.size \in Nat
  BY <1>1, <1>2, TreeFacts DEF Positions, Root
<1>4. PICK k \in 1 .. Len(s) : s[k] = x /\ slot[x].index = k - 1
  <2>1. PICK k \in 1 .. Len(tree.kids[tree.parent[x]]) :
            tree.kids[tree.parent[x]][k] = x /\ Truth(tree, x).index = k - 1
    BY <1>1, <1>3, ChildNumber
  <2>2. k \in 1 .. Len(s) /\ s[k] = x /\ slot[x].index = k - 1
    BY <1>1, <1>2, <2>1
  <2> QED
    BY <2>2
<1>5. KidList(tree, u, s) /\ DOMAIN s = 1 .. Len(s) /\ Len(s) \in Nat
  <2>1. KidList(tree, u, s)
    BY <1>1, <1>2, <1>3, Kidlists
  <2> QED
    BY <2>1 DEF KidList
<1>6. slot[x].index + 1 = k
  BY <1>4, <1>5
<1>7. PICK g : g = GreenBy(tree) /\ Grows(g, tree, 1, {}, new)
  BY <1>1, Grafts
<1>8. ASSUME NEW i \in DOMAIN s, i # k PROVE Green(s[i]) = h[s[i]]
  <2>1. PICK c : c = s[i]
    OBVIOUS
  <2>2. c \in Childhood(tree, u) /\ x \in Childhood(tree, u) /\ c # x /\ c \in Positions
    <3>1. c \in u + 1 .. tree.size /\ c \in Childhood(tree, u)
      BY <1>1, <1>2, <1>3, <2>1, KidsBehind
    <3>2. x \in Childhood(tree, u)
      BY <1>2, <1>3 DEF Childhood
    <3>3. c # x
      <4>1. i \in 1 .. Len(s) /\ (i < k \/ k < i)
        BY <1>4, <1>5, <1>8
      <4>2. s[i] < s[k] \/ s[k] < s[i]
        BY <1>4, <1>5, <4>1 DEF KidList
      <4> QED
        BY <1>3, <1>4, <2>1, <4>2
    <3>4. c \in Positions
      BY <1>3, <3>1
    <3> QED
      BY <3>1, <3>2, <3>3, <3>4
  <2>3. ~ Under(c, p)
    <3>1. SUFFICES ASSUME Under(c, p) PROVE FALSE
      OBVIOUS
    <3>2. x <= p /\ c <= p
      BY <3>1 DEF Under
    <3>3. x <= c /\ c <= x
      BY <1>1, <1>3, <2>2, <3>1, <3>2, KidsApart
    <3> QED
      BY <1>3, <2>2, <3>3
  <2>4. h[c] = g[c]
    BY <1>1, <1>7, <2>2, <2>3, GraftApart
  <2>5. Green(c) = g[c]
    BY <1>7, GreensAre
  <2> QED
    BY <2>1, <2>4, <2>5
<1>9. PICK v : v = h[x]
  OBVIOUS
<1>10. [i \in DOMAIN s |-> IF i = slot[x].index + 1 THEN v ELSE Green(s[i])] = [i \in DOMAIN s |-> h[s[i]]]
  <2>1. ASSUME NEW i \in DOMAIN s
        PROVE  (IF i = slot[x].index + 1 THEN v ELSE Green(s[i])) = h[s[i]]
    BY <1>4, <1>6, <1>8, <1>9
  <2> QED
    BY <2>1, Zenon
<1>11. Rebuilt(x, v) = [label |-> u, kind |-> Kind[u], kids |-> [i \in DOMAIN s |-> h[s[i]]]]
  BY <1>2, <1>10, Zenon DEF Rebuilt
<1>12. u # p
  <2>1. x <= p /\ p \in Nat
    BY <1>3 DEF Under
  <2> QED
    BY <1>3, <2>1
<1>13. h[u] = Grafted(h, tree, u, {p}, new)
  BY <1>3 DEF Grows
<1>14. Grafted(h, tree, u, {p}, new) = [label |-> u, kind |-> Kind[u], kids |-> [i \in DOMAIN s |-> h[s[i]]]]
  BY <1>2, <1>12, Zenon DEF Grafted
<1> QED
  BY <1>2, <1>9, <1>11, <1>13, <1>14

\* A way up to the root, through the parents.
Upwards(path, x) ==
    /\ Len(path) \in Nat \ {0} /\ path[1].pos = x
    /\ \A i \in 1 .. Len(path) : path[i].pos \in Positions /\ slot[path[i].pos] # None
    /\ \A i \in 1 .. Len(path) - 1 : /\ path[i].pos # Root
                                     /\ path[i + 1].pos = tree.parent[path[i].pos]
    /\ path[Len(path)].pos = Root

\* The iterator over ancestors goes this way, from the node itself.
LEMMA AncestorsUpwards ==
    ASSUME Core, NEW x \in Positions, ~ IsToken(x), slot[x] # None
    PROVE  Upwards(AncestorNodes(slot[x]), x)
<1>1. IsTree(tree) /\ slot[x] = Truth(tree, x)
  BY DEF Core
<1>2. PICK path, T, n : path = AncestorNodes(slot[x]) /\ T = Lineage(x) /\ n = Len(path)
  OBVIOUS
<1>3. Lists(path, T, FALSE)
  BY <1>1, <1>2, AncestorsListed
<1>4. PICK f : f = [i \in 1 .. n |-> path[i].pos]
  OBVIOUS
<1>5. /\ n \in Nat /\ T = {f[i] : i \in 1 .. n}
      /\ \A i, j \in 1 .. n : i < j => f[j] < f[i]
  <2>1. path \in Seq(Truths(tree)) /\ n \in Nat
    BY <1>2, <1>3 DEF Lists
  <2> QED
    BY <1>2, <1>3, <1>4, <2>1 DEF Lists, Before
<1>6. /\ T \subseteq Positions /\ x \in T /\ Positions \subseteq Nat
      /\ \A y \in T : /\ y <= x /\ slot[y] # None
                      /\ y = Root => \A z \in T : ~ (z < y)
                      /\ y # Root => /\ tree.parent[y] \in T /\ tree.parent[y] < y
                                     /\ \A z \in T : z < y => z <= tree.parent[y]
  <2>1. x \in T
    BY <1>2 DEF Lineage
  <2>2. Positions \subseteq Nat
    BY <1>1, TreeFacts DEF Positions
  <2> QED
    BY <1>1, <1>2, <2>1, <2>2, Lineages, LineageFilled
<1>7. n # 0 /\ f[1] = x
  <2>1. PICK i \in 1 .. n : f[i] = x
    BY <1>5, <1>6
  <2>2. f[1] \in T /\ f[1] <= x
    <3>1. 1 \in 1 .. n
      BY <1>5, <2>1
    <3>2. f[1] \in T
      BY <1>5, <3>1
    <3> QED
      BY <1>6, <3>2
  <2>3. 1 < i => x < f[1]
    BY <1>5, <2>1
  <2> QED
    BY <1>5, <1>6, <2>1, <2>2, <2>3
<1>8. ASSUME NEW i \in 1 .. n - 1 PROVE f[i] # Root /\ f[i + 1] = tree.parent[f[i]]
  <2>1. i \in 1 .. n /\ i + 1 \in 1 .. n /\ f[i] \in T /\ f[i + 1] \in T /\ f[i + 1] < f[i]
    BY <1>5, <1>8
  <2>2. f[i] # Root
    BY <1>6, <2>1
  <2>3. PICK u \in T : u = tree.parent[f[i]] /\ u < f[i] /\ f[i + 1] <= u
    BY <1>6, <2>1, <2>2
  <2>4. PICK j \in 1 .. n : f[j] = u
    BY <1>5, <2>3
  <2>5. i < j
    <3>1. SUFFICES ASSUME j <= i PROVE FALSE
      BY <1>5
    <3>2. j = i \/ j < i
      BY <1>5, <3>1
    <3>3. f[i] \in Nat /\ u \in Nat
      BY <1>6, <2>1, <2>3
    <3> QED
      BY <1>5, <2>1, <2>3, <2>4, <3>2, <3>3
  <2>6. u <= f[i + 1]
    <3>1. j = i + 1 \/ i + 1 < j
      BY <1>5, <2>5
    <3>2. f[i + 1] \in Nat /\ u \in Nat
      BY <1>6, <2>1, <2>3
    <3> QED
      BY <1>5, <2>1, <2>4, <3>1, <3>2
  <2>7. f[i + 1] \in Nat /\ u \in Nat
    BY <1>6, <2>1, <2>3
  <2>8. f[i + 1] = u
    BY <2>3, <2>6, <2>7
  <2> QED
    BY <2>2, <2>3, <2>8
<1>9. f[n] = Root
  <2>1. SUFFICES ASSUME f[n] # Root PROVE FALSE
    OBVIOUS
  <2>2. n \in 1 .. n /\ f[n] \in T
    BY <1>5, <1>7
  <2>3. PICK u \in T : u < f[n]
    BY <1>6, <2>1, <2>2
  <2>4. PICK j \in 1 .. n : f[j] = u
    BY <1>5, <2>3
  <2>5. j = n \/ j < n
    BY <1>5
  <2>6. f[n] \in Nat /\ u \in Nat
    BY <1>6, <2>2, <2>3
  <2> QED
    BY <1>5, <2>2, <2>3, <2>4, <2>5, <2>6
<1>10. /\ n \in Nat \ {0} /\ path[1].pos = x /\ path[n].pos = Root
       /\ \A i \in 1 .. n : path[i].pos \in Positions /\ slot[path[i].pos] # None
       /\ \A i \in 1 .. n - 1 : path[i].pos # Root /\ path[i + 1].pos = tree.parent[path[i].pos]
  <2>1. \A i \in 1 .. n : f[i] \in T /\ f[i] = path[i].pos
    BY <1>4, <1>5
  <2>2. 1 \in 1 .. n /\ n \in 1 .. n /\ \A i \in 1 .. n - 1 : i \in 1 .. n /\ i + 1 \in 1 .. n
    BY <1>5, <1>7
  <2> QED
    BY <1>5, <1>6, <1>7, <1>8, <1>9, <2>1, <2>2
<1> QED
  BY <1>2, <1>10 DEF Upwards

\* The function of ReplaceWith, for lemmas to speak of.
ClimbBy(path, new) ==
    CHOOSE result : result =
        [i \in 0 .. Len(path) |->
            IF i = 0 THEN <<new>>
            ELSE IF result[i - 1] = Panicked THEN Panicked
            ELSE IF result[i - 1][1].kind # Kind[path[i].pos] THEN Panicked
            ELSE IF path[i].pos = Root THEN result[i - 1]
            ELSE <<Rebuilt(path[i].pos, result[i - 1][1])>>]

\* One level of the way up.
Climbed(f, path, i, new) ==
    IF i = 0 THEN <<new>>
    ELSE IF f[i - 1] = Panicked THEN Panicked
    ELSE IF f[i - 1][1].kind # Kind[path[i].pos] THEN Panicked
    ELSE IF path[i].pos = Root THEN f[i - 1]
    ELSE <<Rebuilt(path[i].pos, f[i - 1][1])>>

\* What is made on the way up is what the steps up make.
LEMMA ClimbIs ==
    ASSUME NEW path, Len(path) \in Nat, NEW new, NEW w,
           w = [i \in 0 .. Len(path) |-> Climbed(w, path, i, new)]
    PROVE  ClimbBy(path, new)[Len(path)] = w[Len(path)]
<1>1. PICK n \in Nat : n = Len(path)
  OBVIOUS
<1>2. w = [i \in 0 .. Len(path) |->
             IF i = 0 THEN <<new>>
             ELSE IF w[i - 1] = Panicked THEN Panicked
             ELSE IF w[i - 1][1].kind # Kind[path[i].pos] THEN Panicked
             ELSE IF path[i].pos = Root THEN w[i - 1]
             ELSE <<Rebuilt(path[i].pos, w[i - 1][1])>>]
  BY Zenon DEF Climbed
<1>3. PICK f : f = ClimbBy(path, new)
  OBVIOUS
<1>4. f = [i \in 0 .. Len(path) |->
             IF i = 0 THEN <<new>>
             ELSE IF f[i - 1] = Panicked THEN Panicked
             ELSE IF f[i - 1][1].kind # Kind[path[i].pos] THEN Panicked
             ELSE IF path[i].pos = Root THEN f[i - 1]
             ELSE <<Rebuilt(path[i].pos, f[i - 1][1])>>]
  BY <1>2, <1>3, Zenon DEF ClimbBy
<1>5. \A i \in 0 .. n : f[i] = Climbed(f, path, i, new) /\ w[i] = Climbed(w, path, i, new)
  BY <1>1, <1>2, <1>4, Zenon DEF Climbed
<1>6. PICK M : M = {i \in 0 .. n : f[i] = w[i]}
  OBVIOUS
<1>7. 0 \in M
  <2>1. 0 \in 0 .. n
    OBVIOUS
  <2>2. f[0] = <<new>> /\ w[0] = <<new>>
    BY <1>5, <2>1 DEF Climbed
  <2> QED
    BY <1>6, <2>1, <2>2
<1>8. ASSUME NEW i \in 1 .. n, i - 1 \in M PROVE i \in M
  <2>1. i # 0 /\ i \in 0 .. n /\ f[i - 1] = w[i - 1]
    BY <1>6, <1>8
  <2>2. Climbed(f, path, i, new) = Climbed(w, path, i, new)
    BY <2>1, Zenon DEF Climbed
  <2> QED
    BY <1>5, <1>6, <2>1, <2>2
<1>9. n \in 0 .. n
  OBVIOUS
<1>10. n \in M
  BY <1>7, <1>8, <1>9, UpTo
<1> QED
  BY <1>1, <1>3, <1>6, <1>10

\* A replacement of the same kind leaves every element its kind.
LEMMA KindsStay ==
    ASSUME IsTree(tree), NEW p \in Positions, NEW new, new.kind = Kind[p],
           NEW h, Grows(h, tree, 1, {p}, new), NEW q \in Positions
    PROVE  h[q].kind = Kind[q]
<1>1. h[q] = Grafted(h, tree, q, {p}, new)
  BY DEF Grows, Positions
<1>2. CASE q = p
  BY <1>1, <1>2 DEF Grafted
<1>3. CASE q # p
  <2>1. PICK s : s = [i \in DOMAIN tree.kids[q] |-> h[tree.kids[q][i]]]
    OBVIOUS
  <2>2. h[q] = [label |-> q, kind |-> Kind[q], kids |-> s]
    BY <1>1, <1>3, <2>1, Zenon DEF Grafted
  <2> QED
    BY <2>2
<1> QED
  BY <1>2, <1>3

\* A replacement of another kind fails the first assertion, and what has
\* panicked stays so.
LEMMA MismatchPanics ==
    ASSUME Core, NEW x \in Positions, ~ IsToken(x), slot[x] # None,
           NEW new, new.kind # Kind[x]
    PROVE  ReplaceWith(x, new) = Panicked
<1>1. PICK path, n : path = AncestorNodes(slot[x]) /\ n = Len(path)
  OBVIOUS
<1>2. n \in Nat \ {0} /\ path[1].pos = x
  BY <1>1, AncestorsUpwards DEF Upwards
<1>3. PICK w : w = [i \in 0 .. n |-> IF i = 0 THEN <<new>> ELSE Panicked]
  OBVIOUS
<1>4. <<new>> # Panicked /\ <<new>>[1] = new
  BY DEF Panicked
<1>5. ASSUME NEW i \in 0 .. n PROVE w[i] = Climbed(w, path, i, new)
  <2>1. CASE i = 0
    BY <1>3, <2>1 DEF Climbed
  <2>2. CASE i = 1
    <3>1. w[i] = Panicked /\ w[i - 1] = <<new>>
      BY <1>2, <1>3, <2>2
    <3>2. w[i - 1] # Panicked /\ w[i - 1][1].kind # Kind[path[i].pos]
      BY <1>2, <1>4, <2>2, <3>1
    <3>3. i # 0
      BY <2>2
    <3> QED
      BY <3>1, <3>2, <3>3, Zenon DEF Climbed
  <2>3. CASE i # 0 /\ i # 1
    <3>1. w[i] = Panicked /\ w[i - 1] = Panicked
      BY <1>2, <1>3, <2>3
    <3> QED
      BY <2>3, <3>1, Zenon DEF Climbed
  <2> QED
    BY <2>1, <2>2, <2>3
<1>6. w = [i \in 0 .. Len(path) |-> Climbed(w, path, i, new)]
  <2>1. w = [i \in 0 .. n |-> w[i]]
    BY <1>3
  <2> QED
    BY <1>1, <1>5, <2>1, Zenon
<1>7. ClimbBy(path, new)[Len(path)] = w[Len(path)]
  <2>1. Len(path) \in Nat
    BY <1>1, <1>2
  <2> QED
    BY <1>6, <2>1, ClimbIs
<1>8. ReplaceWith(x, new) = ClimbBy(path, new)[Len(path)]
  BY <1>1, Zenon DEF ReplaceWith, ClimbBy
<1>9. w[n] = Panicked
  BY <1>2, <1>3
<1> QED
  BY <1>1, <1>7, <1>8, <1>9

\* The way up from what is at x ends with what is at the root, past all
\* assertions.
LEMMA ReplaceClimbs ==
    ASSUME Core, NEW p \in Positions, NEW new, new.kind = Kind[p],
           NEW h, Grows(h, tree, 1, {p}, new),
           NEW x \in Positions, ~ IsToken(x), Under(x, p), slot[x] # None
    PROVE  ReplaceWith(x, h[x]) = <<h[Root]>>
<1>1. PICK path, n, v : path = AncestorNodes(slot[x]) /\ n = Len(path) /\ v = h[x]
  OBVIOUS
<1>2. /\ n \in Nat \ {0} /\ path[1].pos = x
      /\ \A i \in 1 .. n : path[i].pos \in Positions /\ slot[path[i].pos] # None
      /\ \A i \in 1 .. n - 1 : path[i].pos # Root /\ path[i + 1].pos = tree.parent[path[i].pos]
      /\ path[n].pos = Root
  <2>1. Upwards(path, x)
    BY <1>1, AncestorsUpwards
  <2> QED
    BY <1>1, <2>1 DEF Upwards
<1>3. IsTree(tree)
  BY DEF Core
<1>4. \A i \in 1 .. n : Under(path[i].pos, p)
  <2>1. PICK M : M = {i \in 0 .. n - 1 : Under(path[i + 1].pos, p)}
    OBVIOUS
  <2>2. 0 \in M
    BY <1>2, <2>1
  <2>3. ASSUME NEW i \in 1 .. n - 1, i - 1 \in M PROVE i \in M
    <3>1. i \in 1 .. n /\ i + 1 \in 1 .. n /\ (i - 1) + 1 = i /\ i \in 0 .. n - 1
      BY <1>2, <2>3
    <3>2. PICK y, u : y = path[i].pos /\ u = path[i + 1].pos
      OBVIOUS
    <3>3. Under(y, p) /\ y \in Positions /\ u \in Positions /\ y # Root /\ u = tree.parent[y]
      BY <1>2, <2>1, <2>3, <3>1, <3>2
    <3>4. y \in Childhood(tree, u)
      <4>1. y \in 2 .. tree.size
        BY <1>3, <3>3, TreeFacts DEF Positions, Root
      <4> QED
        BY <3>3, <4>1 DEF Childhood
    <3>5. Under(u, p)
      BY <1>3, <3>3, <3>4, KidAt
    <3> QED
      BY <2>1, <3>1, <3>2, <3>5
  <2>4. n - 1 \in Nat
    BY <1>2
  <2>5. \A i \in 0 .. n - 1 : i \in M
    BY <2>2, <2>3, <2>4, UpTo
  <2>6. ASSUME NEW i \in 1 .. n PROVE Under(path[i].pos, p)
    <3>1. i - 1 \in 0 .. n - 1 /\ (i - 1) + 1 = i
      BY <1>2
    <3>2. i - 1 \in M
      BY <2>5, <3>1
    <3> QED
      BY <2>1, <3>1, <3>2
  <2> QED
    BY <2>6
<1>5. PICK w : w = [i \in 0 .. n |-> IF i = n THEN <<h[Root]>> ELSE <<h[path[i + 1].pos]>>]
  OBVIOUS
<1>6. ASSUME NEW i \in 0 .. n PROVE w[i] = Climbed(w, path, i, v)
  <2>1. CASE i = 0
    <3>1. w[i] = <<h[path[1].pos]>>
      BY <1>2, <1>5, <2>1
    <3> QED
      BY <1>1, <1>2, <2>1, <3>1 DEF Climbed
  <2>2. CASE i # 0
    <3>1. PICK y : y = path[i].pos
      OBVIOUS
    <3>2. y \in Positions /\ slot[y] # None /\ Under(y, p)
      BY <1>2, <1>4, <2>2, <3>1
    <3>3. w[i - 1] = <<h[y]>>
      BY <1>2, <1>5, <2>2, <3>1
    <3>4. w[i - 1] # Panicked /\ w[i - 1][1] = h[y]
      BY <3>3 DEF Panicked
    <3>5. h[y].kind = Kind[y]
      BY <1>3, <3>2, KindsStay
    <3>6. CASE i = n
      <4>1. w[i] = <<h[Root]>> /\ y = Root
        BY <1>2, <1>5, <3>1, <3>6
      <4> QED
        BY <2>2, <3>1, <3>3, <3>4, <3>5, <4>1, Zenon DEF Climbed
    <3>7. CASE i # n
      <4>1. y # Root /\ path[i + 1].pos = tree.parent[y]
        BY <1>2, <2>2, <3>1, <3>7
      <4>2. w[i] = <<h[tree.parent[y]]>>
        BY <1>2, <1>5, <3>7, <4>1
      <4>3. Rebuilt(y, h[y]) = h[tree.parent[y]]
        BY <3>2, <4>1, RebuiltGraft
      <4>4. Climbed(w, path, i, v) = <<Rebuilt(y, h[y])>>
        BY <2>2, <3>1, <3>4, <3>5, <4>1, Zenon DEF Climbed
      <4> QED
        BY <4>2, <4>3, <4>4
    <3> QED
      BY <3>6, <3>7
  <2> QED
    BY <2>1, <2>2
<1>7. w = [i \in 0 .. n |-> w[i]]
  BY <1>5
<1>8. w = [i \in 0 .. Len(path) |-> Climbed(w, path, i, v)]
  BY <1>1, <1>6, <1>7, Zenon
<1>9. ClimbBy(path, v)[Len(path)] = w[Len(path)]
  <2>1. Len(path) \in Nat
    BY <1>1, <1>2
  <2> QED
    BY <1>8, <2>1, ClimbIs
<1>10. ReplaceWith(x, v) = ClimbBy(path, v)[Len(path)]
  BY <1>1, Zenon DEF ReplaceWith, ClimbBy
<1>11. w[n] = <<h[Root]>>
  BY <1>2, <1>5
<1> QED
  BY <1>1, <1>9, <1>10, <1>11

\* SyntaxNode::replace_with and SyntaxToken::replace_with: in every tree and for
\* every element, the tree rebuilt on the way up, from the indices kept in the
\* slots, is the tree with that element replaced and everything else as it was.
\* The assertion on the kind fails for a replacement of another kind and at no
\* level further up.
THEOREM ReplaceCorrect == Spec => []ReplaceFaithful
<1>1. ASSUME Inv PROVE ReplaceFaithful
  <2>1. Core /\ IsTree(tree) /\ at \in Positions /\ slot[at] # None
    BY <1>1, Holding
  <2>2. Positions = 1 .. tree.size /\ tree.size \in Nat
    BY <2>1, TreeFacts DEF Positions
  <2>3. Under(at, at)
    BY <2>1, <2>2 DEF Under
  <2>4. ASSUME NEW kind \in Kinds, NEW new, new = [label |-> 0, kind |-> kind, kids |-> <<>>]
        PROVE  (IF IsToken(at) THEN ReplaceToken(at, new) ELSE ReplaceWith(at, new))
               = IF kind = Kind[at] THEN <<Substituted(at, new)>> ELSE Panicked
    <3>1. new.kind = kind
      BY <2>4
    <3>2. CASE kind # Kind[at]
      <4>1. CASE IsToken(at)
        BY <3>1, <3>2, <4>1, Zenon DEF ReplaceToken
      <4>2. CASE ~ IsToken(at)
        <5>1. ReplaceWith(at, new) = Panicked
          BY <2>1, <3>1, <3>2, <4>2, MismatchPanics
        <5> QED
          BY <3>2, <4>2, <5>1, Zenon
      <4> QED
        BY <4>1, <4>2
    <3>3. CASE kind = Kind[at]
      <4>1. PICK h : /\ h = GraftBy(tree, at, new) /\ Grows(h, tree, 1, {at}, new)
                     /\ Substituted(at, new) = h[Root]
        BY <2>1, Grafts, GreensAre
      <4>2. h[at] = new
        <5>1. h[at] = Grafted(h, tree, at, {at}, new)
          BY <2>1, <2>2, <4>1 DEF Grows
        <5> QED
          BY <5>1 DEF Grafted
      <4>3. CASE ~ IsToken(at)
        <5>1. ReplaceWith(at, h[at]) = <<h[Root]>>
          BY <2>1, <2>3, <3>1, <3>3, <4>1, <4>3, ReplaceClimbs
        <5> QED
          BY <3>3, <4>1, <4>2, <4>3, <5>1, Zenon
      <4>4. CASE IsToken(at)
        <5>1. PICK u : u = tree.parent[at]
          OBVIOUS
        <5>2. at # Root /\ u \in Positions /\ slot[u] # None /\ Under(u, at) /\ ~ IsToken(u)
          <6>1. at # Root /\ at \in 2 .. tree.size
            BY <2>1, <2>2, <4>4, TreeFacts DEF IsToken, Root
          <6>2. u \in Positions /\ at \in Childhood(tree, u)
            BY <2>1, <2>2, <5>1, <6>1, TreeFacts DEF Childhood
          <6>3. slot[u] # None
            BY <2>1, <5>1, <6>1 DEF Core
          <6>4. Under(u, at)
            BY <2>1, <2>3, <6>2, KidAt
          <6>5. ~ IsToken(u)
            BY <2>1, <6>2, TokensAreLeaves
          <6> QED
            BY <6>1, <6>2, <6>3, <6>4, <6>5
        <5>3. Rebuilt(at, h[at]) = h[u]
          BY <2>1, <2>3, <4>1, <5>1, <5>2, RebuiltGraft
        <5>4. ReplaceWith(u, h[u]) = <<h[Root]>>
          BY <2>1, <3>1, <3>3, <4>1, <5>2, ReplaceClimbs
        <5>5. ReplaceToken(at, new) = ReplaceWith(u, h[u])
          BY <3>1, <3>3, <4>2, <5>1, <5>3, Zenon DEF ReplaceToken
        <5> QED
          BY <3>3, <4>1, <4>4, <5>4, <5>5, Zenon
      <4> QED
        BY <4>3, <4>4
    <3> QED
      BY <3>2, <3>3
  <2> QED
    BY <2>4, Zenon DEF ReplaceFaithful
<1> QED
  BY <1>1, Invariance, PTL
=============================================================================
