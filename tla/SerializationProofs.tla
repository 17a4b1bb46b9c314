------------------------ MODULE SerializationProofs ------------------------
(***************************************************************************)
(* Serialization: a document that is written while data is set and cleared *)
(* is read back without a panic or an error, as the same tree and with     *)
(* data that each node had; and whatever balanced document is accepted is  *)
(* written again as it was.                                                *)
(*                                                                         *)
(* A walk tells the tree: no walk is the beginning of another.  So it is   *)
(* enough that the builder's stack has the events so far as its past, that *)
(* the document is a log of the walk and of values that cells have held,   *)
(* and that counting the flags up to a node counts the data up to it.      *)
(***************************************************************************)
EXTENDS Serialization, SequenceFacts

----------------------------------------------------------------------------
(* Trees *)

LEMMA Levels ==
    ASSUME MaxSteps \in Nat
    PROVE  /\ TreesUpTo[0] = Tokens
           /\ \A h \in 1 .. MaxSteps :
                  TreesUpTo[h] = Tokens \cup [kind : Kinds, trees : Seq(TreesUpTo[h - 1])]
<1> DEFINE Above(S) == Tokens \cup [kind : Kinds, trees : Seq(S)]
           Goes(f, m) == f = [h \in 0 .. m |-> IF h = 0 THEN Tokens ELSE Above(f[h - 1])]
           M == {m \in Nat : m <= MaxSteps => \E f : Goes(f, m)}
<1> HIDE DEF Above
<1>1. 0 \in M
  <2>1. PICK f : f = [h \in 0 .. 0 |-> Tokens]
    OBVIOUS
  <2>2. Goes(f, 0)
    BY <2>1
  <2> QED
    BY <2>2
<1>2. ASSUME NEW m \in M PROVE m + 1 \in M
  <2>1. SUFFICES ASSUME m + 1 <= MaxSteps PROVE \E f : Goes(f, m + 1)
    OBVIOUS
  <2>2. PICK f : Goes(f, m)
    BY <2>1
  <2>3. PICK g : g = [h \in 0 .. m + 1 |-> IF h = 0 THEN Tokens ELSE Above(f[h - 1])]
    OBVIOUS
  <2>4. \A h \in 0 .. m : g[h] = f[h]
    <3>1. \A h \in 0 .. m : h \in 0 .. m + 1
      OBVIOUS
    <3>2. \A h \in 0 .. m : g[h] = IF h = 0 THEN Tokens ELSE Above(f[h - 1])
      BY <2>3, <3>1
    <3>3. \A h \in 0 .. m : f[h] = IF h = 0 THEN Tokens ELSE Above(f[h - 1])
      BY <2>2
    <3> QED
      BY <3>2, <3>3, Zenon
  <2>5. \A h \in 0 .. m + 1 : h # 0 => f[h - 1] = g[h - 1]
    BY <2>4
  <2>6. [h \in 0 .. m + 1 |-> IF h = 0 THEN Tokens ELSE Above(f[h - 1])] =
        [h \in 0 .. m + 1 |-> IF h = 0 THEN Tokens ELSE Above(g[h - 1])]
    BY <2>5, Zenon
  <2> QED
    BY <2>3, <2>6, Zenon
<1>3. \E f : Goes(f, MaxSteps)
  <2> HIDE DEF M
  <2>1. M \in SUBSET Nat
    BY DEF M
  <2>2. MaxSteps \in M
    BY <1>1, <1>2, <2>1, Induct
  <2> QED
    BY <2>2 DEF M
<1>4. TreesUpTo = CHOOSE f : Goes(f, MaxSteps)
  BY Zenon DEF TreesUpTo, Above
<1>5. Goes(TreesUpTo, MaxSteps)
  <2> HIDE DEF Goes
  <2> QED
    BY <1>3, <1>4, Zenon
<1>6. 0 \in 0 .. MaxSteps
  OBVIOUS
<1>7. \A h \in 0 .. MaxSteps : TreesUpTo[h] = IF h = 0 THEN Tokens ELSE Above(TreesUpTo[h - 1])
  BY <1>5
<1>8. TreesUpTo[0] = Tokens
  BY <1>6, <1>7
<1>9. \A h \in 1 .. MaxSteps : TreesUpTo[h] = Above(TreesUpTo[h - 1])
  BY <1>7
<1> QED
  BY <1>8, <1>9 DEF Above

\* A token, or a node and its subtrees.
LEMMA TokenOrNode ==
    ASSUME NEW S, NEW t \in Tokens \cup [kind : Kinds, trees : Seq(S)]
    PROVE  /\ t.kind \in Kinds
           /\ IsToken(t) => t \in Tokens /\ t.text \in Data
           /\ ~ IsToken(t) => t \in [kind : Kinds, trees : Seq(S)] /\ t.trees \in Seq(S)
<1>1. ASSUME t \in Tokens PROVE t.kind \in Kinds /\ IsToken(t) /\ t \in Tokens /\ t.text \in Data
  <2>1. t \in [kind : Kinds, text : Data]
    BY <1>1 DEF Tokens
  <2>2. "text" \in DOMAIN t
    BY <2>1
  <2> QED
    BY <1>1, <2>1, <2>2 DEF IsToken
<1>2. ASSUME t \in [kind : Kinds, trees : Seq(S)] PROVE t.kind \in Kinds /\ ~ IsToken(t) /\ t.trees \in Seq(S)
  <2>1. DOMAIN t = {"kind", "trees"}
    BY <1>2
  <2>2. "text" \notin DOMAIN t
    BY <2>1
  <2> QED
    BY <1>2, <2>2 DEF IsToken
<1> QED
  BY <1>1, <1>2, Zenon

LEMMA NodeMade ==
    ASSUME NEW k, NEW ts
    PROVE  ~ IsToken([kind |-> k, trees |-> ts])
<1>1. DOMAIN [kind |-> k, trees |-> ts] = {"kind", "trees"}
  OBVIOUS
<1>2. "text" \notin {"kind", "trees"}
  OBVIOUS
<1> QED
  BY <1>1, <1>2 DEF IsToken

\* Every level includes those below it.
LEMMA LevelsGrow ==
    ASSUME MaxSteps \in Nat
    PROVE  \A g \in 0 .. MaxSteps : \A h \in 0 .. g : TreesUpTo[h] \subseteq TreesUpTo[g]
<1>1. \A h \in 0 .. MaxSteps - 1 : TreesUpTo[h] \subseteq TreesUpTo[h + 1]
  <2>1. PICK M : M = {m \in 0 .. MaxSteps : m < MaxSteps => TreesUpTo[m] \subseteq TreesUpTo[m + 1]}
    OBVIOUS
  <2>2. 0 \in M
    <3>1. ASSUME 0 < MaxSteps PROVE TreesUpTo[0] \subseteq TreesUpTo[0 + 1]
      <4>1. 0 + 1 \in 1 .. MaxSteps
        BY <3>1
      <4> QED
        BY <4>1, Levels
    <3> QED
      BY <2>1, <3>1
  <2>3. ASSUME NEW m \in 1 .. MaxSteps, m - 1 \in M PROVE m \in M
    <3>1. ASSUME m < MaxSteps PROVE TreesUpTo[m] \subseteq TreesUpTo[m + 1]
      <4>1. m + 1 \in 1 .. MaxSteps /\ (m + 1) - 1 = m /\ (m - 1) + 1 = m
        BY <3>1
      <4>2. PICK S, R : /\ S = TreesUpTo[m - 1] /\ R = TreesUpTo[m] /\ S \subseteq R
                        /\ R = Tokens \cup [kind : Kinds, trees : Seq(S)]
                        /\ TreesUpTo[m + 1] = Tokens \cup [kind : Kinds, trees : Seq(R)]
        <5>1. TreesUpTo[m] = Tokens \cup [kind : Kinds, trees : Seq(TreesUpTo[m - 1])]
          BY Levels
        <5>2. TreesUpTo[m + 1] = Tokens \cup [kind : Kinds, trees : Seq(TreesUpTo[(m + 1) - 1])]
          BY <4>1, Levels
        <5>3. TreesUpTo[m - 1] \subseteq TreesUpTo[m]
          BY <2>1, <2>3, <3>1, <4>1
        <5> QED
          BY <4>1, <5>1, <5>2, <5>3
      <4>3. Seq(S) \subseteq Seq(R)
        BY <4>2
      <4>4. [kind : Kinds, trees : Seq(S)] \subseteq [kind : Kinds, trees : Seq(R)]
        BY <4>3
      <4> QED
        BY <4>2, <4>4
    <3> QED
      BY <2>1, <3>1
  <2>4. \A m \in 0 .. MaxSteps : m \in M
    BY <2>2, <2>3, UpTo
  <2> QED
    BY <2>1, <2>4
<1>2. SUFFICES ASSUME NEW h \in 0 .. MaxSteps
               PROVE  \A g \in 0 .. MaxSteps : h <= g => TreesUpTo[h] \subseteq TreesUpTo[g]
  OBVIOUS
<1>3. PICK M : M = {g \in 0 .. MaxSteps : h <= g => TreesUpTo[h] \subseteq TreesUpTo[g]}
  OBVIOUS
<1>4. 0 \in M
  BY <1>3
<1>5. ASSUME NEW g \in 1 .. MaxSteps, g - 1 \in M PROVE g \in M
  <2>1. TreesUpTo[g - 1] \subseteq TreesUpTo[g]
    <3>1. g - 1 \in 0 .. MaxSteps - 1 /\ (g - 1) + 1 = g
      OBVIOUS
    <3> QED
      BY <1>1, <3>1
  <2>2. h <= g - 1 => TreesUpTo[h] \subseteq TreesUpTo[g - 1]
    BY <1>3, <1>5
  <2>3. h <= g => h = g \/ h <= g - 1
    OBVIOUS
  <2> QED
    BY <1>3, <2>1, <2>2, <2>3
<1> QED
  BY <1>3, <1>4, <1>5, UpTo

\* The subtrees of a tree are trees.
LEMMA Subtrees ==
    ASSUME MaxSteps \in Nat, NEW t \in AllTrees
    PROVE  /\ t.kind \in Kinds
           /\ IsToken(t) => t \in Tokens /\ t.text \in Data
           /\ ~ IsToken(t) => /\ t \in [kind : Kinds, trees : Seq(AllTrees)]
                              /\ t.trees \in Seq(AllTrees)
<1>1. CASE MaxSteps = 0
  <2>1. t \in Tokens \cup [kind : Kinds, trees : Seq(AllTrees)]
    BY <1>1, Levels DEF AllTrees
  <2> QED
    BY <2>1, TokenOrNode
<1>2. CASE MaxSteps \in 1 .. MaxSteps
  <2>1. PICK S : S = TreesUpTo[MaxSteps - 1] /\ S \subseteq AllTrees
    <3>1. MaxSteps \in 0 .. MaxSteps /\ MaxSteps - 1 \in 0 .. MaxSteps
      BY <1>2
    <3> QED
      BY <3>1, LevelsGrow DEF AllTrees
  <2>2. t \in Tokens \cup [kind : Kinds, trees : Seq(S)]
    BY <1>2, <2>1, Levels DEF AllTrees
  <2>3. Seq(S) \subseteq Seq(AllTrees)
    BY <2>1
  <2>4. [kind : Kinds, trees : Seq(S)] \subseteq [kind : Kinds, trees : Seq(AllTrees)]
    BY <2>3
  <2> QED
    BY <2>2, <2>3, <2>4, TokenOrNode
<1> QED
  BY <1>1, <1>2

\* What holds of tokens, and of a node when it holds of its subtrees, holds of
\* every tree.
LEMMA TreeInduct ==
    ASSUME MaxSteps \in Nat, NEW M, Tokens \subseteq M,
           \A t \in AllTrees : ~ IsToken(t) /\ t.trees \in Seq(M) => t \in M
    PROVE  AllTrees \subseteq M
<1>1. PICK L : L = {h \in 0 .. MaxSteps : TreesUpTo[h] \subseteq M}
  OBVIOUS
<1>2. 0 \in L
  <2>1. 0 \in 0 .. MaxSteps /\ TreesUpTo[0] \subseteq M
    BY Levels
  <2> QED
    BY <1>1, <2>1
<1>3. ASSUME NEW h \in 1 .. MaxSteps, h - 1 \in L PROVE h \in L
  <2>1. PICK S : S = TreesUpTo[h - 1] /\ S \subseteq M
    BY <1>1, <1>3
  <2>2. TreesUpTo[h] = Tokens \cup [kind : Kinds, trees : Seq(S)]
    BY <2>1, Levels
  <2>3. h \in 0 .. MaxSteps /\ TreesUpTo[h] \subseteq AllTrees
    <3>1. MaxSteps \in 0 .. MaxSteps /\ h \in 0 .. MaxSteps
      OBVIOUS
    <3> QED
      BY <3>1, LevelsGrow DEF AllTrees
  <2>4. Seq(S) \subseteq Seq(M)
    BY <2>1
  <2>5. ASSUME NEW t \in TreesUpTo[h] PROVE t \in M
    <3>1. t \in AllTrees
      BY <2>3
    <3>2. /\ IsToken(t) => t \in Tokens
          /\ ~ IsToken(t) => t.trees \in Seq(S)
      BY <2>2, <2>5, TokenOrNode
    <3> QED
      BY <2>4, <3>1, <3>2
  <2> QED
    BY <1>1, <2>3, <2>5
<1>4. MaxSteps \in 0 .. MaxSteps /\ \A h \in 0 .. MaxSteps : h \in L
  BY <1>2, <1>3, UpTo
<1> QED
  BY <1>1, <1>4 DEF AllTrees

----------------------------------------------------------------------------
(* Walks *)

Step ==
    [t : {"Enter"}, kind : Kinds \cup {Builder!Outside}]
    \cup [t : {"Token"}, kind : Kinds, text : Data] \cup {LeaveStep}

\* The walk of a tree, from those of its subtrees.
WalkOf(walk, t) ==
    IF IsToken(t) THEN <<TokenStep(t.kind, t.text)>>
    ELSE <<EnterStep(t.kind)>>
             \o FlattenSeq([i \in 1 .. Len(t.trees) |-> walk[t.trees[i]]])
             \o <<LeaveStep>>

LEMMA WalkExists ==
    ASSUME MaxSteps \in Nat
    PROVE  Walk = [t \in AllTrees |-> WalkOf(Walk, t)]
<1> DEFINE Goes(f, h) == f = [t \in TreesUpTo[h] |-> WalkOf(f, t)]
<1>1. PICK M : M = {h \in 0 .. MaxSteps : \E f : Goes(f, h)}
  OBVIOUS
<1>2. 0 \in M
  <2>1. PICK f : f = [t \in TreesUpTo[0] |-> WalkOf(<<>>, t)]
    OBVIOUS
  <2>2. \A t \in TreesUpTo[0] : WalkOf(<<>>, t) = WalkOf(f, t)
    <3>1. \A t \in TreesUpTo[0] : IsToken(t)
      <4> SUFFICES ASSUME NEW t \in Tokens PROVE IsToken(t)
        BY Levels
      <4>1. DOMAIN t = {"kind", "text"}
        BY DEF Tokens
      <4> QED
        BY <4>1 DEF IsToken
    <3> QED
      BY <3>1, Zenon DEF WalkOf
  <2>3. Goes(f, 0)
    <3>1. [t \in TreesUpTo[0] |-> WalkOf(<<>>, t)] = [t \in TreesUpTo[0] |-> WalkOf(f, t)]
      BY <2>2, Zenon
    <3> QED
      BY <2>1, <3>1, Zenon
  <2>4. 0 \in 0 .. MaxSteps
    OBVIOUS
  <2> HIDE DEF Goes
  <2> QED
    BY <1>1, <2>3, <2>4
<1>3. ASSUME NEW h \in 1 .. MaxSteps, h - 1 \in M PROVE h \in M
  <2>1. PICK f : Goes(f, h - 1)
    <3> HIDE DEF Goes
    <3> QED
      BY <1>1, <1>3
  <2>2. PICK S, R : /\ S = TreesUpTo[h - 1] /\ R = TreesUpTo[h] /\ S \subseteq R
                    /\ R = Tokens \cup [kind : Kinds, trees : Seq(S)]
    <3>1. h - 1 \in 0 .. h /\ h \in 0 .. MaxSteps
      OBVIOUS
    <3>2. TreesUpTo[h - 1] \subseteq TreesUpTo[h]
      BY <3>1, LevelsGrow
    <3> QED
      BY <3>2, Levels
  <2>3. f = [t \in S |-> WalkOf(f, t)]
    BY <2>1, <2>2, Zenon
  <2>4. PICK g : g = [t \in R |-> WalkOf(f, t)]
    OBVIOUS
  <2>5. \A t \in S : g[t] = f[t]
    <3>1. \A t \in S : g[t] = WalkOf(f, t)
      BY <2>2, <2>4, Zenon
    <3>2. \A t \in S : f[t] = WalkOf(f, t)
      BY <2>3, Zenon
    <3> QED
      BY <3>1, <3>2, Zenon
  <2>6. ASSUME NEW t \in R PROVE WalkOf(f, t) = WalkOf(g, t)
    <3>1. CASE IsToken(t)
      BY <3>1, Zenon DEF WalkOf
    <3>2. CASE ~ IsToken(t)
      <4>1. t.trees \in Seq(S)
        BY <2>2, <3>2, TokenOrNode
      <4>2. \A i \in 1 .. Len(t.trees) : t.trees[i] \in S
        BY <4>1
      <4>3. [i \in 1 .. Len(t.trees) |-> f[t.trees[i]]] = [i \in 1 .. Len(t.trees) |-> g[t.trees[i]]]
        BY <2>5, <4>2, Zenon
      <4> QED
        BY <4>3, Zenon DEF WalkOf
    <3> QED
      BY <3>1, <3>2
  <2>7. [t \in R |-> WalkOf(f, t)] = [t \in R |-> WalkOf(g, t)]
    BY <2>6, Zenon
  <2>8. Goes(g, h)
    BY <2>2, <2>4, <2>7, Zenon
  <2>9. h \in 0 .. MaxSteps
    OBVIOUS
  <2> HIDE DEF Goes
  <2> QED
    BY <1>1, <2>8, <2>9
<1>4. \E f : Goes(f, MaxSteps)
  <2> HIDE DEF Goes
  <2>1. MaxSteps \in 0 .. MaxSteps /\ \A h \in 0 .. MaxSteps : h \in M
    BY <1>2, <1>3, UpTo
  <2> QED
    BY <1>1, <2>1
<1>5. Walk = CHOOSE f : Goes(f, MaxSteps)
  BY Zenon DEF Walk, WalkOf, AllTrees
<1>6. Goes(Walk, MaxSteps)
  <2> HIDE DEF Goes
  <2> QED
    BY <1>4, <1>5, Zenon
<1> QED
  BY <1>6, Zenon DEF AllTrees

Walks(ts) == FlattenSeq([i \in 1 .. Len(ts) |-> Walk[ts[i]]])

LEMMA WalkIs ==
    ASSUME MaxSteps \in Nat, NEW t \in AllTrees
    PROVE  /\ IsToken(t) => Walk[t] = <<TokenStep(t.kind, t.text)>>
           /\ ~ IsToken(t) => Walk[t] = <<EnterStep(t.kind)>> \o Walks(t.trees) \o <<LeaveStep>>
<1>1. Walk[t] = WalkOf(Walk, t)
  BY WalkExists, Zenon
<1> QED
  BY <1>1, Zenon DEF WalkOf, Walks

LEMMA StepTypes ==
    /\ \A k \in Kinds \cup {Builder!Outside} : EnterStep(k) \in Step /\ EnterStep(k).t = "Enter"
    /\ \A k \in Kinds, text \in Data : TokenStep(k, text) \in Step /\ TokenStep(k, text).t = "Token"
    /\ LeaveStep \in Step /\ LeaveStep.t = "Leave"
    /\ \A s \in Step : s.t \in {"Enter", "Token", "Leave"}
BY DEF Step, EnterStep, TokenStep, LeaveStep

LEMMA FirstOf ==
    ASSUME NEW T, NEW x \in T, NEW y \in T, NEW s \in Seq(T), NEW u \in Seq(T), <<x>> \o s = <<y>> \o u
    PROVE  x = y /\ s = u
<1>1. PICK v, w : v = <<x>> \o s /\ v \in Seq(T) /\ w = <<y>> \o u /\ w \in Seq(T) /\ v = w
  <2>1. <<x>> \o s \in Seq(T) /\ <<y>> \o u \in Seq(T)
    OBVIOUS
  <2> QED
    BY <2>1, Zenon
<1>2. /\ Len(v) = Len(s) + 1 /\ v[1] = x /\ \A i \in 1 .. Len(s) : v[i + 1] = s[i]
      /\ Len(w) = Len(u) + 1 /\ w[1] = y /\ \A i \in 1 .. Len(u) : w[i + 1] = u[i]
  BY <1>1
<1>3. Len(s) = Len(u) /\ x = y
  BY <1>1, <1>2
<1>4. \A i \in 1 .. Len(s) : s[i] = u[i]
  BY <1>1, <1>2, <1>3
<1> QED
  BY <1>3, <1>4, SameSeq

LEMMA WalkFrom ==
    ASSUME NEW T, NEW S, NEW ts \in Seq(AllTrees), \A t \in AllTrees : t \in S => Walk[t] \in Seq(T),
           \A i \in 1 .. Len(ts) : ts[i] \in S
    PROVE  [i \in 1 .. Len(ts) |-> Walk[ts[i]]] \in Seq(Seq(T)) /\ Walks(ts) \in Seq(T)
<1>1. PICK n, ws : n = Len(ts) /\ n \in Nat /\ ws = [i \in 1 .. n |-> Walk[ts[i]]]
  <2>1. Len(ts) \in Nat
    OBVIOUS
  <2> QED
    BY <2>1, Zenon
<1>2. \A i \in 1 .. n : Walk[ts[i]] \in Seq(T)
  <2>1. \A i \in 1 .. n : ts[i] \in AllTrees
    BY <1>1
  <2> QED
    BY <1>1, <2>1
<1>3. ws \in Seq(Seq(T))
  <2>1. PICK Q : Q = Seq(T)
    OBVIOUS
  <2>2. ws \in [1 .. n -> Q]
    BY <1>1, <1>2, <2>1, Zenon
  <2>3. ws \in Seq(Q)
    BY <1>1, <2>2
  <2> QED
    BY <2>1, <2>3
<1>4. FlattenSeq(ws) \in Seq(T)
  BY <1>3, FlattenType
<1> QED
  BY <1>1, <1>3, <1>4 DEF Walks

LEMMA TokensAreTrees ==
    ASSUME MaxSteps \in Nat, NEW t \in Tokens
    PROVE  t \in AllTrees /\ IsToken(t) /\ t.kind \in Kinds /\ t.text \in Data
<1>1. Tokens \subseteq AllTrees
  <2>1. 0 \in 0 .. MaxSteps /\ MaxSteps \in 0 .. MaxSteps
    OBVIOUS
  <2> QED
    BY <2>1, LevelsGrow, Levels DEF AllTrees
<1>2. t \in [kind : Kinds, text : Data]
  BY DEF Tokens
<1>3. "text" \in DOMAIN t
  BY <1>2
<1> QED
  BY <1>1, <1>2, <1>3 DEF IsToken

\* The steps of walks.
Proper ==
    {EnterStep(k) : k \in Kinds} \cup {TokenStep(tok.kind, tok.text) : tok \in Tokens} \cup {LeaveStep}

LEMMA ProperSteps ==
    /\ \A k \in Kinds : EnterStep(k) \in Proper
    /\ \A tok \in Tokens : TokenStep(tok.kind, tok.text) \in Proper
    /\ LeaveStep \in Proper
    /\ Proper \subseteq Step
<1>1. \A tok \in Tokens : tok.kind \in Kinds /\ tok.text \in Data
  BY DEF Tokens
<1> QED
  BY <1>1, StepTypes DEF Proper

LEMMA WalkProper ==
    ASSUME MaxSteps \in Nat
    PROVE  \A t \in AllTrees : Walk[t] \in Seq(Proper)
<1>1. PICK M : M = {t \in AllTrees : Walk[t] \in Seq(Proper)}
  OBVIOUS
<1>2. ASSUME NEW t \in Tokens PROVE t \in M
  <2>1. t \in AllTrees
    BY TokensAreTrees
  <2>2. IsToken(t) /\ t.kind \in Kinds /\ t.text \in Data
    BY TokensAreTrees
  <2>3. TokenStep(t.kind, t.text) \in Proper
    BY <2>2, ProperSteps
  <2>4. <<TokenStep(t.kind, t.text)>> \in Seq(Proper)
    BY <2>3
  <2> QED
    BY <1>1, <2>1, <2>2, <2>4, WalkIs
<1>3. ASSUME NEW t \in AllTrees, ~ IsToken(t), t.trees \in Seq(M) PROVE t \in M
  <2>1. t.kind \in Kinds /\ t.trees \in Seq(AllTrees)
    BY <1>3, Subtrees
  <2>2. PICK ts : ts = t.trees /\ ts \in Seq(AllTrees) /\ \A i \in 1 .. Len(ts) : ts[i] \in M
    <3>1. \A i \in 1 .. Len(t.trees) : t.trees[i] \in M
      BY <1>3
    <3> QED
      BY <2>1, <3>1, Zenon
  <2>3. Walks(ts) \in Seq(Proper)
    <3>1. \A u \in AllTrees : u \in M => Walk[u] \in Seq(Proper)
      BY <1>1
    <3> QED
      BY <2>2, <3>1, WalkFrom
  <2>4. EnterStep(t.kind) \in Proper /\ LeaveStep \in Proper
    BY <2>1, ProperSteps
  <2>5. <<EnterStep(t.kind)>> \o Walks(ts) \o <<LeaveStep>> \in Seq(Proper)
    BY <2>3, <2>4
  <2> QED
    BY <1>1, <1>3, <2>2, <2>5, WalkIs
<1>4. Tokens \subseteq M /\ \A t \in AllTrees : ~ IsToken(t) /\ t.trees \in Seq(M) => t \in M
  BY <1>2, <1>3
<1>5. AllTrees \subseteq M
  BY <1>4, TreeInduct
<1> QED
  BY <1>1, <1>5

LEMMA WalkType ==
    ASSUME MaxSteps \in Nat
    PROVE  \A t \in AllTrees : Walk[t] \in Seq(Step)
<1>1. Seq(Proper) \subseteq Seq(Step)
  BY ProperSteps
<1> QED
  BY <1>1, WalkProper

LEMMA WalksType ==
    ASSUME MaxSteps \in Nat, NEW ts \in Seq(AllTrees)
    PROVE  [i \in 1 .. Len(ts) |-> Walk[ts[i]]] \in Seq(Seq(Step)) /\ Walks(ts) \in Seq(Step)
<1>1. \A i \in 1 .. Len(ts) : ts[i] \in AllTrees
  OBVIOUS
<1>2. \A t \in AllTrees : t \in AllTrees => Walk[t] \in Seq(Step)
  BY WalkType
<1> QED
  BY <1>1, <1>2, WalkFrom

LEMMA WalksOfNone == Walks(<<>>) = <<>>
<1>1. PICK ts : ts = <<>> /\ Len(ts) = 0
  OBVIOUS
<1>2. [i \in 1 .. Len(ts) |-> Walk[ts[i]]] = <<>>
  BY <1>1
<1> QED
  BY <1>1, <1>2, FlattenNone DEF Walks

LEMMA WalksAppend ==
    ASSUME MaxSteps \in Nat, NEW ts \in Seq(AllTrees), NEW t \in AllTrees
    PROVE  Walks(Append(ts, t)) = Walks(ts) \o Walk[t]
<1>1. PICK Q : Q = Seq(Step)
  OBVIOUS
<1>2. Walk \in [AllTrees -> Q]
  <2>1. (\A u \in AllTrees : Walk[u] \in Q) /\ Walk = [u \in AllTrees |-> WalkOf(Walk, u)]
    BY <1>1, WalkType, WalkExists
  <2>2. PICK f : f = [u \in AllTrees |-> WalkOf(Walk, u)]
    OBVIOUS
  <2>3. f = Walk
    BY <2>1, <2>2, Zenon
  <2>4. f = [u \in AllTrees |-> f[u]]
    BY <2>2
  <2> QED
    BY <2>1, <2>3, <2>4, Zenon
<1>3. FlattenSeq(Mapped(Walk, Append(ts, t))) = FlattenSeq(Mapped(Walk, ts)) \o Walk[t]
  <2>1. MapsTo(Walk, AllTrees, Step)
    BY <1>1, <1>2, Zenon DEF MapsTo
  <2> QED
    BY <2>1, FlattenMapped
<1> QED
  BY <1>3, Zenon DEF Walks, Mapped

LEMMA WalksOfOne ==
    ASSUME MaxSteps \in Nat, NEW t \in AllTrees
    PROVE  Walks(<<t>>) = Walk[t]
<1>1. <<>> \in Seq(AllTrees) /\ Append(<<>>, t) = <<t>>
  OBVIOUS
<1>2. Walks(Append(<<>>, t)) = Walks(<<>>) \o Walk[t]
  BY <1>1, WalksAppend
<1>3. Walk[t] \in Seq(Step)
  BY WalkType
<1>4. <<>> \o Walk[t] = Walk[t]
  BY <1>3
<1> QED
  BY <1>1, <1>2, <1>4, WalksOfNone, Zenon

\* The walk of the first of several trees comes first.
LEMMA WalksFirst ==
    ASSUME MaxSteps \in Nat, NEW t \in AllTrees, NEW us \in Seq(AllTrees)
    PROVE  Walks(<<t>> \o us) = Walk[t] \o Walks(us)
<1>1. PICK ts, n : ts = <<t>> \o us /\ ts \in Seq(AllTrees) /\ n = Len(us) /\ n \in Nat
  <2>1. <<t>> \o us \in Seq(AllTrees) /\ Len(us) \in Nat
    OBVIOUS
  <2> QED
    BY <2>1, Zenon
<1>2. Len(ts) = n + 1 /\ ts[1] = t /\ \A i \in 1 .. n : ts[i + 1] = us[i]
  BY <1>1
<1>3. PICK ws, vs : /\ ws = [i \in 1 .. n |-> Walk[us[i]]] /\ ws \in Seq(Seq(Step))
                    /\ vs = [i \in 1 .. n + 1 |-> Walk[ts[i]]] /\ vs \in Seq(Seq(Step))
  BY <1>1, <1>2, WalksType
<1>4. PICK w : w = Walk[t] /\ w \in Seq(Step)
  BY WalkType
<1>5. PICK one : one = <<w>> /\ one \in Seq(Seq(Step))
  <2>1. <<w>> \in Seq(Seq(Step))
    BY <1>4
  <2> QED
    BY <2>1
<1>6. vs = one \o ws
  <2>1. PICK Q : Q = Seq(Step)
    OBVIOUS
  <2>2. ws \in Seq(Q) /\ vs \in Seq(Q) /\ one \in Seq(Q) /\ Len(one) = 1 /\ one[1] = w
    BY <1>3, <1>5, <2>1
  <2>3. Len(ws) = n /\ Len(vs) = n + 1
    BY <1>1, <1>3, <2>2
  <2>4. \A i \in 1 .. n : vs[i + 1] = ws[i]
    BY <1>1, <1>2, <1>3
  <2>5. vs[1] = w
    BY <1>1, <1>2, <1>3, <1>4
  <2>6. PICK xs : xs = one \o ws /\ xs \in Seq(Q) /\ Len(xs) = n + 1 /\ xs[1] = w
                  /\ \A i \in 1 .. n : xs[i + 1] = ws[i]
    <3>1. /\ one \o ws \in Seq(Q) /\ Len(one \o ws) = n + 1 /\ (one \o ws)[1] = w
          /\ \A i \in 1 .. n : (one \o ws)[i + 1] = ws[i]
      <4>1. /\ one \o ws \in Seq(Q) /\ Len(one \o ws) = 1 + n
            /\ \A i \in 1 .. 1 + n : (one \o ws)[i] = IF i <= 1 THEN one[i] ELSE ws[i - 1]
        <5>1. one \in Seq(Q) /\ ws \in Seq(Q)
          BY <2>2
        <5>2. /\ one \o ws \in Seq(Q) /\ Len(one \o ws) = Len(one) + Len(ws)
              /\ \A i \in 1 .. Len(one) + Len(ws) :
                     (one \o ws)[i] = IF i <= Len(one) THEN one[i] ELSE ws[i - Len(one)]
          BY <5>1, ConcatProperties
        <5>3. Len(one) = 1 /\ Len(ws) = n
          BY <2>2, <2>3
        <5> QED
          BY <5>2, <5>3, Zenon
      <4>2. PICK xs : xs = one \o ws
        OBVIOUS
      <4>3. xs[1] = w /\ \A i \in 1 .. n : xs[i + 1] = ws[i]
        <5>1. \A i \in 1 .. 1 + n : xs[i] = IF i <= 1 THEN one[i] ELSE ws[i - 1]
          BY <4>1, <4>2
        <5>2. 1 \in 1 .. 1 + n /\ \A i \in 1 .. n : i + 1 \in 1 .. 1 + n /\ ~(i + 1 <= 1) /\ (i + 1) - 1 = i
          BY <1>1
        <5>3. xs[1] = w
          BY <2>2, <5>1, <5>2
        <5>4. ASSUME NEW i \in 1 .. n PROVE xs[i + 1] = ws[i]
          <6>1. xs[i + 1] = ws[(i + 1) - 1]
            BY <5>1, <5>2
          <6> QED
            BY <5>2, <6>1
        <5> QED
          BY <5>3, <5>4
      <4>4. Len(one \o ws) = n + 1
        BY <1>1, <4>1
      <4> QED
        BY <4>1, <4>2, <4>3, <4>4, Zenon
    <3> QED
      BY <3>1, Zenon
  <2>7. \A i \in 1 .. Len(vs) : vs[i] = xs[i]
    <3> SUFFICES ASSUME NEW i \in 1 .. n + 1 PROVE vs[i] = xs[i]
      BY <2>3
    <3>1. CASE i = 1
      BY <2>5, <2>6, <3>1
    <3>2. CASE i # 1
      <4>1. i - 1 \in 1 .. n /\ (i - 1) + 1 = i
        BY <1>1, <3>2
      <4> QED
        BY <2>4, <2>6, <4>1
    <3> QED
      BY <3>1, <3>2
  <2>8. vs = xs
    BY <2>2, <2>3, <2>6, <2>7, SameSeq
  <2> QED
    BY <2>6, <2>8
<1>7. FlattenSeq(one \o ws) = FlattenSeq(one) \o FlattenSeq(ws)
  BY <1>3, <1>5, FlattenConcat
<1>8. FlattenSeq(one) = w
  <2>1. Walks(<<t>>) = FlattenSeq(one)
    <3>1. [i \in 1 .. Len(<<t>>) |-> Walk[<<t>>[i]]] = <<Walk[t]>>
      OBVIOUS
    <3> QED
      BY <1>4, <1>5, <3>1, Zenon DEF Walks
  <2> QED
    BY <1>4, <2>1, WalksOfOne
<1>9. Walks(ts) = FlattenSeq(vs) /\ Walks(us) = FlattenSeq(ws)
  BY <1>1, <1>2, <1>3, Zenon DEF Walks
<1> QED
  BY <1>1, <1>4, <1>6, <1>7, <1>8, <1>9, Zenon

----------------------------------------------------------------------------
(* A walk tells the tree, and where it ends *)

\* No other tree's walk begins with the walk of `t', or is its beginning.
Decodes(t) ==
    \A u \in AllTrees, a, b \in Seq(Step) : Walk[t] \o a = Walk[u] \o b => t = u /\ a = b

\* The same of several trees before the end of a node.
DecodeAll(ts) ==
    \A us \in Seq(AllTrees), a, b \in Seq(Step) :
        Walks(ts) \o (<<LeaveStep>> \o a) = Walks(us) \o (<<LeaveStep>> \o b) => ts = us /\ a = b

\* What a tree's walk begins with.
Opens(t, a, s, r) ==
    /\ s \in Step /\ r \in Seq(Step) /\ Walk[t] \o a = <<s>> \o r
    /\ IsToken(t) => s = TokenStep(t.kind, t.text) /\ r = a
    /\ ~ IsToken(t) => s = EnterStep(t.kind) /\ r = Walks(t.trees) \o (<<LeaveStep>> \o a)

LEMMA WalkBegins ==
    ASSUME MaxSteps \in Nat, NEW t \in AllTrees, NEW a \in Seq(Step)
    PROVE  \E s, r : Opens(t, a, s, r)
<1>1. CASE IsToken(t)
  <2>1. PICK s \in Step : s = TokenStep(t.kind, t.text)
    <3>1. t.kind \in Kinds /\ t.text \in Data
      BY <1>1, Subtrees
    <3> QED
      BY <3>1, StepTypes
  <2>2. Walk[t] = <<s>>
    BY <1>1, <2>1, WalkIs
  <2>3. Opens(t, a, s, a)
    BY <1>1, <2>1, <2>2 DEF Opens
  <2> QED
    BY <2>3
<1>2. CASE ~ IsToken(t)
  <2>1. PICK s \in Step : s = EnterStep(t.kind)
    <3>1. t.kind \in Kinds
      BY Subtrees
    <3> QED
      BY <3>1, StepTypes
  <2>2. PICK w \in Seq(Step) : w = Walks(t.trees)
    BY <1>2, Subtrees, WalksType
  <2>3. Walk[t] = <<s>> \o w \o <<LeaveStep>>
    BY <1>2, <2>1, <2>2, WalkIs
  <2>4. PICK l \in Step : l = LeaveStep
    BY StepTypes
  <2>5. (<<s>> \o w \o <<l>>) \o a = <<s>> \o (w \o (<<l>> \o a))
    <3>1. PICK x, y, z : x = <<s>> /\ x \in Seq(Step) /\ y = <<l>> /\ y \in Seq(Step) /\ z = x \o w /\ z \in Seq(Step)
      <4>1. <<s>> \in Seq(Step) /\ <<l>> \in Seq(Step)
        OBVIOUS
      <4>2. <<s>> \o w \in Seq(Step)
        BY <4>1
      <4> QED
        BY <4>1, <4>2, Zenon
    <3>2. (z \o y) \o a = z \o (y \o a)
      BY <3>1, ConcatIsAssociative
    <3>3. PICK c : c = y \o a /\ c \in Seq(Step)
      <4>1. y \o a \in Seq(Step)
        BY <3>1
      <4> QED
        BY <4>1, Zenon
    <3>4. (x \o w) \o c = x \o (w \o c)
      BY <3>1, <3>3, ConcatIsAssociative
    <3> QED
      BY <3>1, <3>2, <3>3, <3>4, Zenon
  <2>6. w \o (<<l>> \o a) \in Seq(Step)
    OBVIOUS
  <2>7. Opens(t, a, s, w \o (<<l>> \o a))
    BY <1>2, <2>1, <2>2, <2>3, <2>4, <2>5, <2>6, Zenon DEF Opens
  <2> QED
    BY <2>7
<1> QED
  BY <1>1, <1>2, Zenon

LEMMA TokenDecodes ==
    ASSUME MaxSteps \in Nat, NEW t \in AllTrees, IsToken(t)
    PROVE  Decodes(t)
<1>1. SUFFICES ASSUME NEW u \in AllTrees, NEW a \in Seq(Step), NEW b \in Seq(Step),
                      Walk[t] \o a = Walk[u] \o b
               PROVE  t = u /\ a = b
  BY Zenon DEF Decodes
<1>2. PICK s, q : Opens(t, a, s, q)
  BY WalkBegins, Zenon
<1>3. PICK v, r : Opens(u, b, v, r)
  BY WalkBegins, Zenon
<1>4. s \in Step /\ q \in Seq(Step) /\ v \in Step /\ r \in Seq(Step) /\ <<s>> \o q = <<v>> \o r
  BY <1>1, <1>2, <1>3, Zenon DEF Opens
<1>5. s = v /\ q = r
  BY <1>4, FirstOf
<1>6. s = TokenStep(t.kind, t.text) /\ q = a
  BY <1>2 DEF Opens
<1>7. IsToken(u)
  <2>1. ~ IsToken(u) => v = EnterStep(u.kind)
    BY <1>3 DEF Opens
  <2> QED
    BY <1>5, <1>6, <2>1 DEF TokenStep, EnterStep
<1>8. v = TokenStep(u.kind, u.text) /\ r = b
  BY <1>3, <1>7 DEF Opens
<1>9. t.kind = u.kind /\ t.text = u.text
  <2>1. /\ TokenStep(t.kind, t.text).kind = t.kind /\ TokenStep(t.kind, t.text).text = t.text
        /\ TokenStep(u.kind, u.text).kind = u.kind /\ TokenStep(u.kind, u.text).text = u.text
    BY DEF TokenStep
  <2> QED
    BY <1>5, <1>6, <1>8, <2>1, Zenon
<1>10. t \in [kind : Kinds, text : Data] /\ u \in [kind : Kinds, text : Data]
  <2>1. t \in Tokens /\ u \in Tokens
    BY <1>7, Subtrees
  <2> QED
    BY <2>1 DEF Tokens
<1>11. t = u
  BY <1>9, <1>10
<1> QED
  BY <1>5, <1>6, <1>8, <1>11

LEMMA NodeDecodes ==
    ASSUME MaxSteps \in Nat, NEW t \in AllTrees, ~ IsToken(t), DecodeAll(t.trees)
    PROVE  Decodes(t)
<1>1. SUFFICES ASSUME NEW u \in AllTrees, NEW a \in Seq(Step), NEW b \in Seq(Step),
                      Walk[t] \o a = Walk[u] \o b
               PROVE  t = u /\ a = b
  BY Zenon DEF Decodes
<1>2. PICK s, q : Opens(t, a, s, q)
  BY WalkBegins, Zenon
<1>3. PICK v, r : Opens(u, b, v, r)
  BY WalkBegins, Zenon
<1>4. s \in Step /\ q \in Seq(Step) /\ v \in Step /\ r \in Seq(Step) /\ <<s>> \o q = <<v>> \o r
  BY <1>1, <1>2, <1>3, Zenon DEF Opens
<1>5. s = v /\ q = r
  BY <1>4, FirstOf
<1>6. s = EnterStep(t.kind) /\ q = Walks(t.trees) \o (<<LeaveStep>> \o a)
  BY <1>2 DEF Opens
<1>7. ~ IsToken(u) /\ t.kind = u.kind /\ r = Walks(u.trees) \o (<<LeaveStep>> \o b)
  <2>1. /\ IsToken(u) => v = TokenStep(u.kind, u.text)
        /\ ~ IsToken(u) => v = EnterStep(u.kind) /\ r = Walks(u.trees) \o (<<LeaveStep>> \o b)
    BY <1>3, Zenon DEF Opens
  <2>3. ~ IsToken(u)
    <3>1. TokenStep(u.kind, u.text) # EnterStep(t.kind)
      BY DEF TokenStep, EnterStep
    <3> QED
      BY <1>5, <1>6, <2>1, <3>1, Zenon
  <2>4. EnterStep(u.kind) = EnterStep(t.kind)
    BY <1>5, <1>6, <2>1, <2>3, Zenon
  <2>5. u.kind = t.kind
    BY <2>4 DEF EnterStep
  <2> QED
    BY <2>1, <2>3, <2>5, Zenon
<1>8. t.trees = u.trees /\ a = b
  <2>1. u.trees \in Seq(AllTrees)
    BY <1>7, Subtrees
  <2>2. Walks(t.trees) \o (<<LeaveStep>> \o a) = Walks(u.trees) \o (<<LeaveStep>> \o b)
    BY <1>5, <1>6, <1>7, Zenon
  <2> QED
    BY <2>1, <2>2, Zenon DEF DecodeAll
<1>9. t \in [kind : Kinds, trees : Seq(AllTrees)] /\ u \in [kind : Kinds, trees : Seq(AllTrees)]
  BY <1>7, Subtrees
<1>10. t = u
  <2>1. PICK Q : Q = Seq(AllTrees)
    OBVIOUS
  <2> QED
    BY <1>7, <1>8, <1>9, <2>1
<1> QED
  BY <1>8, <1>10

\* The walk of several trees begins with that of the first.
Starts(ts, a, t, rest) ==
    /\ t \in AllTrees /\ rest \in Seq(AllTrees) /\ Walks(rest) \in Seq(Step)
    /\ ts = <<t>> \o rest /\ t = ts[1] /\ Len(ts) = Len(rest) + 1
    /\ Walks(ts) \o a = Walk[t] \o (Walks(rest) \o a)

LEMMA WalksBegin ==
    ASSUME MaxSteps \in Nat, NEW ts \in Seq(AllTrees), NEW a \in Seq(Step), ts # <<>>
    PROVE  \E t, rest : Starts(ts, a, t, rest)
<1>1. PICK t \in AllTrees : t = ts[1] /\ 1 <= Len(ts)
  OBVIOUS
<1>2. PICK rest \in Seq(AllTrees) : ts = <<t>> \o rest /\ Len(ts) = Len(rest) + 1
  <2>1. PICK u : u = Tail(ts) /\ u \in Seq(AllTrees) /\ Len(u) = Len(ts) - 1 /\ \A i \in 1 .. Len(u) : u[i] = ts[i + 1]
    <3>1. Tail(ts) \in Seq(AllTrees) /\ Len(Tail(ts)) = Len(ts) - 1 /\ \A i \in 1 .. Len(Tail(ts)) : Tail(ts)[i] = ts[i + 1]
      OBVIOUS
    <3> QED
      BY <3>1, Zenon
  <2>2. PICK v : v = <<t>> \o u /\ v \in Seq(AllTrees) /\ Len(v) = Len(u) + 1 /\ v[1] = t /\ \A i \in 1 .. Len(u) : v[i + 1] = u[i]
    <3>1. /\ <<t>> \o u \in Seq(AllTrees) /\ Len(<<t>> \o u) = Len(u) + 1 /\ (<<t>> \o u)[1] = t
          /\ \A i \in 1 .. Len(u) : (<<t>> \o u)[i + 1] = u[i]
      BY <2>1
    <3> QED
      BY <3>1, Zenon
  <2>3. Len(v) = Len(ts)
    BY <1>1, <2>1, <2>2
  <2>4. ASSUME NEW i \in 1 .. Len(ts) PROVE ts[i] = v[i]
    <3>1. CASE i = 1
      BY <1>1, <2>2, <3>1
    <3>2. CASE i # 1
      <4>1. i - 1 \in 1 .. Len(u) /\ (i - 1) + 1 = i
        BY <2>1, <3>2
      <4> QED
        BY <2>1, <2>2, <4>1
    <3> QED
      BY <3>1, <3>2
  <2>5. ts = v
    BY <2>2, <2>3, <2>4, SameSeq
  <2> QED
    BY <1>1, <2>1, <2>2, <2>3, <2>5
<1>3. PICK w, x : w = Walk[t] /\ w \in Seq(Step) /\ x = Walks(rest) /\ x \in Seq(Step)
  BY WalkType, WalksType
<1>4. Walks(ts) = w \o x
  BY <1>2, <1>3, WalksFirst
<1>5. (w \o x) \o a = w \o (x \o a)
  <2>1. w \in Seq(Step) /\ x \in Seq(Step)
    BY <1>3
  <2>2. a \in Seq(Step)
    OBVIOUS
  <2> QED
    BY <2>1, <2>2, ConcatIsAssociative
<1> QED
  BY <1>1, <1>2, <1>3, <1>4, <1>5, Zenon DEF Starts

LEMMA LeaveIsNotFirst ==
    ASSUME MaxSteps \in Nat, NEW t \in AllTrees, NEW a \in Seq(Step), NEW b \in Seq(Step)
    PROVE  Walk[t] \o a # <<LeaveStep>> \o b
<1>1. SUFFICES ASSUME Walk[t] \o a = <<LeaveStep>> \o b PROVE FALSE
  OBVIOUS
<1>2. PICK s, r : Opens(t, a, s, r)
  BY WalkBegins, Zenon
<1>3. PICK l \in Step : l = LeaveStep
  BY StepTypes
<1>4. s \in Step /\ r \in Seq(Step) /\ <<s>> \o r = <<l>> \o b
  BY <1>1, <1>2, <1>3, Zenon DEF Opens
<1>5. s = LeaveStep
  BY <1>3, <1>4, FirstOf
<1>6. s.t = "Enter" \/ s.t = "Token"
  BY <1>2 DEF Opens, EnterStep, TokenStep
<1> QED
  BY <1>5, <1>6 DEF LeaveStep

LEMMA NoneDecode == ASSUME MaxSteps \in Nat PROVE DecodeAll(<<>>)
<1>1. SUFFICES ASSUME NEW us \in Seq(AllTrees), NEW a \in Seq(Step), NEW b \in Seq(Step),
                      Walks(<<>>) \o (<<LeaveStep>> \o a) = Walks(us) \o (<<LeaveStep>> \o b)
               PROVE  <<>> = us /\ a = b
  BY Zenon DEF DecodeAll
<1>2. PICK l \in Step : l = LeaveStep
  BY StepTypes
<1>3. PICK c, d : c = <<l>> \o a /\ c \in Seq(Step) /\ d = <<l>> \o b /\ d \in Seq(Step)
  <2>1. <<l>> \o a \in Seq(Step) /\ <<l>> \o b \in Seq(Step)
    OBVIOUS
  <2> QED
    BY <2>1, Zenon
<1>4. c = Walks(us) \o d
  <2>1. <<>> \o c = c
    BY <1>3
  <2> QED
    BY <1>1, <1>2, <1>3, <2>1, WalksOfNone, Zenon
<1>5. us = <<>>
  <2>1. ASSUME us # <<>> PROVE FALSE
    <3>1. PICK t, rest : Starts(us, d, t, rest)
      BY <1>3, <2>1, WalksBegin
    <3>2. PICK x : t \in AllTrees /\ x \in Seq(Step) /\ c = Walk[t] \o (x \o d)
      BY <1>4, <3>1, Zenon DEF Starts
    <3>3. x \o d \in Seq(Step)
      BY <1>3, <3>2
    <3> QED
      BY <1>2, <1>3, <3>2, <3>3, LeaveIsNotFirst, Zenon
  <2> QED
    BY <2>1
<1>6. <<l>> \o a = <<l>> \o b
  <2>1. <<>> \o d = d
    BY <1>3
  <2> QED
    BY <1>3, <1>4, <1>5, <2>1, WalksOfNone, Zenon
<1>7. a = b
  BY <1>6, FirstOf
<1> QED
  BY <1>5, <1>7

LEMMA OneMoreDecodes ==
    ASSUME MaxSteps \in Nat, NEW t \in AllTrees, NEW rest \in Seq(AllTrees),
           Decodes(t), DecodeAll(rest)
    PROVE  DecodeAll(<<t>> \o rest)
<1>1. PICK ts : ts = <<t>> \o rest
  OBVIOUS
<1>0. SUFFICES DecodeAll(ts)
  BY <1>1
<1>2. SUFFICES ASSUME NEW us \in Seq(AllTrees), NEW a \in Seq(Step), NEW b \in Seq(Step),
                      Walks(ts) \o (<<LeaveStep>> \o a) = Walks(us) \o (<<LeaveStep>> \o b)
               PROVE  ts = us /\ a = b
  BY DEF DecodeAll
<1>3. PICK l \in Step : l = LeaveStep
  BY StepTypes
<1>4. PICK c, d : c = <<l>> \o a /\ c \in Seq(Step) /\ d = <<l>> \o b /\ d \in Seq(Step)
  <2>1. <<l>> \o a \in Seq(Step) /\ <<l>> \o b \in Seq(Step)
    OBVIOUS
  <2> QED
    BY <2>1, Zenon
<1>5. PICK w, x : w = Walk[t] /\ w \in Seq(Step) /\ x = Walks(rest) /\ x \in Seq(Step)
  BY WalkType, WalksType
<1>6. Walks(ts) \o c = w \o (x \o c)
  <2>1. (w \o x) \o c = w \o (x \o c)
    <3>1. w \in Seq(Step) /\ x \in Seq(Step) /\ c \in Seq(Step)
      BY <1>4, <1>5
    <3> QED
      BY <3>1, ConcatIsAssociative
  <2>2. Walks(ts) = w \o x
    BY <1>1, <1>5, WalksFirst
  <2> QED
    BY <2>1, <2>2, Zenon
<1>7. x \o c \in Seq(Step)
  BY <1>4, <1>5
<1>8. us # <<>>
  <2>1. SUFFICES ASSUME us = <<>> PROVE FALSE
    OBVIOUS
  <2>2. <<>> \o d = d
    BY <1>4
  <2>3. w \o (x \o c) = <<l>> \o b
    BY <1>2, <1>3, <1>4, <1>6, <2>1, <2>2, WalksOfNone, Zenon
  <2> QED
    BY <1>3, <1>5, <1>7, <2>3, LeaveIsNotFirst, Zenon
<1>9. PICK u, more : Starts(us, d, u, more)
  BY <1>4, <1>8, WalksBegin
<1>10. /\ u \in AllTrees /\ more \in Seq(AllTrees) /\ us = <<u>> \o more
       /\ Walks(more) \in Seq(Step) /\ Walks(us) \o d = Walk[u] \o (Walks(more) \o d)
  BY <1>9, Zenon DEF Starts
<1>11. Walks(more) \o d \in Seq(Step)
  BY <1>4, <1>10
<1>12. Walk[t] \o (x \o c) = Walk[u] \o (Walks(more) \o d)
  BY <1>2, <1>3, <1>4, <1>5, <1>6, <1>10, Zenon
<1>13. t = u /\ x \o c = Walks(more) \o d
  BY <1>7, <1>10, <1>11, <1>12, Zenon DEF Decodes
<1>14. rest = more /\ a = b
  <2>1. Walks(rest) \o (<<LeaveStep>> \o a) = Walks(more) \o (<<LeaveStep>> \o b)
    BY <1>3, <1>4, <1>5, <1>13, Zenon
  <2> QED
    BY <1>10, <2>1, Zenon DEF DecodeAll
<1> QED
  BY <1>1, <1>10, <1>13, <1>14, Zenon

LEMMA SeveralDecode ==
    ASSUME MaxSteps \in Nat, NEW K, K \subseteq AllTrees, \A t \in K : Decodes(t)
    PROVE  \A ts \in Seq(K) : DecodeAll(ts)
<1>1. PICK M : M = {n \in Nat : \A ts \in Seq(K) : Len(ts) = n => DecodeAll(ts)}
  OBVIOUS
<1>2. 0 \in M
  <2>1. ASSUME NEW ts \in Seq(K), Len(ts) = 0 PROVE DecodeAll(ts)
    <3>1. ts = <<>>
      BY <2>1
    <3> QED
      BY <3>1, NoneDecode
  <2> QED
    BY <1>1, <2>1
<1>3. ASSUME NEW n \in M PROVE n + 1 \in M
  <2>1. ASSUME NEW ts \in Seq(K), Len(ts) = n + 1 PROVE DecodeAll(ts)
    <3>1. n \in Nat /\ \A us \in Seq(K) : Len(us) = n => DecodeAll(us)
      BY <1>1, <1>3
    <3>2. ts \in Seq(AllTrees) /\ ts # <<>> /\ ts[1] \in K
      BY <2>1, <3>1
    <3>3. <<>> \in Seq(Step)
      OBVIOUS
    <3>4. PICK t, rest : Starts(ts, <<>>, t, rest)
      BY <3>2, <3>3, WalksBegin
    <3>5. /\ t \in AllTrees /\ rest \in Seq(AllTrees)
          /\ ts = <<t>> \o rest /\ t = ts[1] /\ Len(ts) = Len(rest) + 1
      BY <3>4, Zenon DEF Starts
    <3>6. rest \in Seq(K) /\ Len(rest) = n
      <4>1. Len(rest) = n
        BY <2>1, <3>1, <3>5
      <4>2. \A i \in 1 .. Len(rest) : rest[i] = ts[i + 1]
        <5>1. PICK v : v = <<t>> \o rest /\ \A i \in 1 .. Len(rest) : v[i + 1] = rest[i]
          <6>1. \A i \in 1 .. Len(rest) : (<<t>> \o rest)[i + 1] = rest[i]
            OBVIOUS
          <6> QED
            BY <6>1, Zenon
        <5> QED
          BY <3>5, <5>1
      <4>3. \A i \in 1 .. Len(rest) : rest[i] \in K
        <5>1. \A i \in 1 .. Len(rest) : i + 1 \in 1 .. Len(ts)
          BY <3>5
        <5>2. \A i \in 1 .. Len(ts) : ts[i] \in K
          OBVIOUS
        <5> QED
          BY <4>2, <5>1, <5>2
      <4> QED
        BY <3>5, <4>1, <4>3
    <3>7. Decodes(t) /\ DecodeAll(rest)
      BY <3>1, <3>2, <3>5, <3>6
    <3> QED
      BY <3>5, <3>7, OneMoreDecodes
  <2> QED
    BY <1>1, <1>3, <2>1
<1>4. M = Nat
  <2>1. M \in SUBSET Nat
    BY <1>1
  <2> QED
    BY <1>2, <1>3, <2>1, Induct
<1>5. SUFFICES ASSUME NEW ts \in Seq(K) PROVE DecodeAll(ts)
  OBVIOUS
<1>6. Len(ts) \in M
  BY <1>4
<1> QED
  BY <1>1, <1>6

LEMMA TreesDecode ==
    ASSUME MaxSteps \in Nat
    PROVE  \A t \in AllTrees : Decodes(t)
<1>1. PICK M : M = {t \in AllTrees : Decodes(t)}
  OBVIOUS
<1>2. ASSUME NEW t \in Tokens PROVE t \in M
  <2>1. t \in AllTrees /\ IsToken(t)
    BY TokensAreTrees
  <2> QED
    BY <1>1, <2>1, TokenDecodes
<1>3. ASSUME NEW t \in AllTrees, ~ IsToken(t), t.trees \in Seq(M) PROVE t \in M
  <2>1. M \subseteq AllTrees /\ \A u \in M : Decodes(u)
    BY <1>1
  <2>2. DecodeAll(t.trees)
    BY <1>3, <2>1, SeveralDecode
  <2> QED
    BY <1>1, <1>3, <2>2, NodeDecodes
<1>4. Tokens \subseteq M /\ \A t \in AllTrees : ~ IsToken(t) /\ t.trees \in Seq(M) => t \in M
  BY <1>2, <1>3
<1>5. AllTrees \subseteq M
  BY <1>4, TreeInduct
<1> QED
  BY <1>1, <1>5

----------------------------------------------------------------------------
(* As many nodes are left as entered *)

Formed(s, form) == {i \in DOMAIN s : s[i].t = form}

LEMMA FormsCounted ==
    ASSUME NEW T, NEW s \in Seq(T), NEW form
    PROVE  /\ OfForm(s, form) \in Seq(T)
           /\ Len(OfForm(s, form)) = Count(Formed(s, form), Len(s))
           /\ Holds(OfForm(s, form), s, Formed(s, form), Len(s))
<1>1. PICK p : p = Formed(s, form) /\ OfForm(s, form) = Picked(s, p)
  BY DEF Formed, OfForm
<1>2. Picked(s, p) \in Seq(T) /\ Len(Picked(s, p)) = Cardinality({i \in 1 .. Len(s) : i \in p})
  BY PickedElements
<1>3. Holds(Picked(s, p), s, p, Len(s))
  BY PickedPlaces
<1> QED
  BY <1>1, <1>2, <1>3, Zenon DEF Count

LEMMA FormsOfNone == ASSUME NEW form PROVE Len(OfForm(<<>>, form)) = 0
<1>1. Picked(<<>>, Formed(<<>>, form)) = <<>>
  BY PickedNone
<1> QED
  BY <1>1 DEF OfForm, Formed

LEMMA FormsJoin ==
    ASSUME NEW T, NEW s \in Seq(T), NEW t \in Seq(T), NEW form
    PROVE  /\ Len(OfForm(s, form)) \in Nat /\ Len(OfForm(t, form)) \in Nat
           /\ Len(OfForm(s \o t, form)) = Len(OfForm(s, form)) + Len(OfForm(t, form))
<1>1. PICK u, m, n : u = s \o t /\ u \in Seq(T) /\ m = Len(s) /\ m \in Nat /\ n = Len(t) /\ n \in Nat
  <2>1. s \o t \in Seq(T) /\ Len(s) \in Nat /\ Len(t) \in Nat
    OBVIOUS
  <2> QED
    BY <2>1, Zenon
<1>2. Len(u) = m + n /\ (\A i \in 1 .. m : u[i] = s[i]) /\ \A i \in 1 .. n : u[m + i] = t[i]
  BY <1>1
<1>3. PICK p, q, r : p = Formed(u, form) /\ q = Formed(t, form) /\ r = Formed(s, form)
  OBVIOUS
<1>4. \A i \in 1 .. m : i \in p <=> i \in r
  BY <1>1, <1>2, <1>3 DEF Formed
<1>5. \A i \in 1 .. n : m + i \in p <=> i \in q
  BY <1>1, <1>2, <1>3 DEF Formed
<1>6. Count(p, m + n) = Count(r, m) + Count(q, n)
  <2>1. m \in Nat /\ n \in Nat
    BY <1>1
  <2>2. Shifted(p, q, r, m, n)
    BY <1>4, <1>5 DEF Shifted
  <2> QED
    BY <2>1, <2>2, CountShift
<1>7. Len(OfForm(u, form)) = Count(p, m + n)
  BY <1>1, <1>2, <1>3, FormsCounted
<1>8. Len(OfForm(s, form)) = Count(r, m) /\ Len(OfForm(t, form)) = Count(q, n)
  BY <1>1, <1>3, FormsCounted
<1>9. Count(r, m) \in Nat /\ Count(q, n) \in Nat
  BY <1>1, CountSteps
<1> QED
  BY <1>1, <1>6, <1>7, <1>8, <1>9

LEMMA FormsOfOne ==
    ASSUME NEW T, NEW x \in T, NEW form
    PROVE  Len(OfForm(<<x>>, form)) = IF x.t = form THEN 1 ELSE 0
<1>1. PICK s, p : s = <<x>> /\ s \in Seq(T) /\ Len(s) = 1 /\ s[1] = x /\ p = Formed(s, form)
  <2>1. <<x>> \in Seq(T) /\ Len(<<x>>) = 1 /\ <<x>>[1] = x
    OBVIOUS
  <2> QED
    BY <2>1, Zenon
<1>2. Len(OfForm(s, form)) = Count(p, 1)
  BY <1>1, FormsCounted
<1>3. Count(p, 0) = 0 /\ Count(p, 0 + 1) = IF 0 + 1 \in p THEN Count(p, 0) + 1 ELSE Count(p, 0)
  BY CountSteps
<1>4. 1 \in p <=> x.t = form
  BY <1>1 DEF Formed
<1>5. Count(p, 1) = IF x.t = form THEN 1 ELSE 0
  BY <1>3, <1>4
<1> QED
  BY <1>1, <1>2, <1>5

\* As many steps into nodes as out of them.
Even(s) == Len(OfForm(s, "Enter")) = Len(OfForm(s, "Leave"))

LEMMA WalkIsEven ==
    ASSUME MaxSteps \in Nat
    PROVE  \A t \in AllTrees : Even(Walk[t])
<1>1. PICK M : M = {t \in AllTrees : Even(Walk[t])}
  OBVIOUS
<1>2. ASSUME NEW t \in Tokens PROVE t \in M
  <2>1. t \in AllTrees /\ IsToken(t) /\ t.kind \in Kinds /\ t.text \in Data
    BY TokensAreTrees
  <2>2. PICK x \in Step : x = TokenStep(t.kind, t.text) /\ x.t = "Token"
    BY <2>1, StepTypes
  <2>3. Len(OfForm(<<x>>, "Enter")) = 0 /\ Len(OfForm(<<x>>, "Leave")) = 0
    BY <2>2, FormsOfOne
  <2>4. Walk[t] = <<x>>
    BY <2>1, <2>2, WalkIs
  <2> QED
    BY <1>1, <2>1, <2>3, <2>4 DEF Even
<1>3. ASSUME NEW ts \in Seq(M) PROVE Walks(ts) \in Seq(Step) /\ Even(Walks(ts))
  <2>1. PICK N : N = {n \in Nat : \A us \in Seq(M) : Len(us) = n => Even(Walks(us))}
    OBVIOUS
  <2>2. 0 \in N
    <3>1. ASSUME NEW us \in Seq(M), Len(us) = 0 PROVE Even(Walks(us))
      <4>1. us = <<>>
        BY <3>1
      <4>2. Even(<<>>)
        BY FormsOfNone DEF Even
      <4> QED
        BY <4>1, <4>2, WalksOfNone, Zenon
    <3> QED
      BY <2>1, <3>1
  <2>3. ASSUME NEW n \in N PROVE n + 1 \in N
    <3>1. ASSUME NEW us \in Seq(M), Len(us) = n + 1 PROVE Even(Walks(us))
      <4>1. n \in Nat /\ \A vs \in Seq(M) : Len(vs) = n => Even(Walks(vs))
        BY <2>1, <2>3
      <4>2. us # <<>>
        BY <3>1, <4>1
      <4>3. PICK front, last : front \in Seq(M) /\ last \in M /\ us = Append(front, last) /\ Len(front) = n
        <5>1. PICK front, last : Ends(us, front, last, M)
          BY <4>2, SeqEnds
        <5>2. front \in Seq(M) /\ last \in M /\ us = Append(front, last) /\ Len(us) = Len(front) + 1
          BY <5>1 DEF Ends
        <5> QED
          BY <3>1, <4>1, <5>2
      <4>4. PICK w, x : w = Walks(front) /\ w \in Seq(Step) /\ x = Walk[last] /\ x \in Seq(Step)
        <5>1. front \in Seq(AllTrees) /\ last \in AllTrees
          BY <1>1, <4>3
        <5> QED
          BY <5>1, WalksType, WalkType, Zenon
      <4>5. Walks(us) = w \o x
        <5>1. front \in Seq(AllTrees) /\ last \in AllTrees
          BY <1>1, <4>3
        <5> QED
          BY <4>3, <4>4, <5>1, WalksAppend
      <4>6. Even(w) /\ Even(x)
        BY <1>1, <4>1, <4>3, <4>4
      <4>7. Even(w \o x)
        <5>1. /\ Len(OfForm(w \o x, "Enter")) = Len(OfForm(w, "Enter")) + Len(OfForm(x, "Enter"))
              /\ Len(OfForm(w \o x, "Leave")) = Len(OfForm(w, "Leave")) + Len(OfForm(x, "Leave"))
          BY <4>4, FormsJoin
        <5> QED
          BY <4>6, <5>1, Zenon DEF Even
      <4> QED
        BY <4>5, <4>7, Zenon
    <3> QED
      BY <2>1, <2>3, <3>1
  <2>4. N = Nat
    <3>1. N \in SUBSET Nat
      BY <2>1
    <3> QED
      BY <2>2, <2>3, <3>1, Induct
  <2>5. ts \in Seq(AllTrees) /\ Len(ts) \in N
    BY <1>1, <2>4
  <2> QED
    BY <2>1, <2>5, WalksType
<1>4. ASSUME NEW t \in AllTrees, ~ IsToken(t), t.trees \in Seq(M) PROVE t \in M
  <2>1. PICK w : w = Walks(t.trees) /\ w \in Seq(Step) /\ Even(w)
    BY <1>3, <1>4
  <2>2. PICK e, l : /\ e = EnterStep(t.kind) /\ e \in Step /\ e.t = "Enter"
                    /\ l = LeaveStep /\ l \in Step /\ l.t = "Leave"
    <3>1. t.kind \in Kinds
      BY Subtrees
    <3> QED
      BY <3>1, StepTypes
  <2>3. Walk[t] = (<<e>> \o w) \o <<l>>
    BY <1>4, <2>1, <2>2, WalkIs
  <2>4. /\ Len(OfForm(<<e>>, "Enter")) = 1 /\ Len(OfForm(<<e>>, "Leave")) = 0
        /\ Len(OfForm(<<l>>, "Enter")) = 0 /\ Len(OfForm(<<l>>, "Leave")) = 1
    BY <2>2, FormsOfOne
  <2>5. PICK x : x = <<e>> \o w /\ x \in Seq(Step)
    <3>1. <<e>> \o w \in Seq(Step)
      BY <2>1, <2>2
    <3> QED
      BY <3>1, Zenon
  <2>6. <<e>> \in Seq(Step) /\ <<l>> \in Seq(Step)
    BY <2>2
  <2>7. /\ Len(OfForm(x, "Enter")) = 1 + Len(OfForm(w, "Enter"))
        /\ Len(OfForm(x, "Leave")) = Len(OfForm(w, "Leave"))
    <3>1. /\ Len(OfForm(<<e>> \o w, "Enter")) = Len(OfForm(<<e>>, "Enter")) + Len(OfForm(w, "Enter"))
          /\ Len(OfForm(<<e>> \o w, "Leave")) = Len(OfForm(<<e>>, "Leave")) + Len(OfForm(w, "Leave"))
          /\ Len(OfForm(w, "Enter")) \in Nat /\ Len(OfForm(w, "Leave")) \in Nat
      BY <2>1, <2>6, FormsJoin
    <3>2. /\ Len(OfForm(x, "Enter")) = 1 + Len(OfForm(w, "Enter"))
          /\ Len(OfForm(x, "Leave")) = 0 + Len(OfForm(w, "Leave"))
      BY <2>4, <2>5, <3>1, Zenon
    <3> QED
      BY <3>1, <3>2
  <2>8. /\ Len(OfForm(x \o <<l>>, "Enter")) = Len(OfForm(x, "Enter"))
        /\ Len(OfForm(x \o <<l>>, "Leave")) = Len(OfForm(x, "Leave")) + 1
    <3>1. /\ Len(OfForm(x \o <<l>>, "Enter")) = Len(OfForm(x, "Enter")) + Len(OfForm(<<l>>, "Enter"))
          /\ Len(OfForm(x \o <<l>>, "Leave")) = Len(OfForm(x, "Leave")) + Len(OfForm(<<l>>, "Leave"))
          /\ Len(OfForm(x, "Enter")) \in Nat /\ Len(OfForm(x, "Leave")) \in Nat
      BY <2>5, <2>6, FormsJoin
    <3>2. /\ Len(OfForm(x \o <<l>>, "Enter")) = Len(OfForm(x, "Enter")) + 0
          /\ Len(OfForm(x \o <<l>>, "Leave")) = Len(OfForm(x, "Leave")) + 1
      BY <2>4, <3>1, Zenon
    <3> QED
      BY <3>1, <3>2
  <2>9. Even(x \o <<l>>)
    <3>1. Len(OfForm(w, "Enter")) \in Nat /\ Len(OfForm(w, "Enter")) = Len(OfForm(w, "Leave"))
      BY <2>1, FormsJoin DEF Even
    <3> QED
      BY <2>7, <2>8, <3>1 DEF Even
  <2> QED
    BY <1>1, <2>3, <2>5, <2>9
<1>5. Tokens \subseteq M /\ \A t \in AllTrees : ~ IsToken(t) /\ t.trees \in Seq(M) => t \in M
  BY <1>2, <1>4
<1>6. AllTrees \subseteq M
  BY <1>5, TreeInduct
<1> QED
  BY <1>1, <1>6

----------------------------------------------------------------------------
(* What the builder makes of the steps so far *)

Frame == [kind : Kinds \cup {Builder!Outside}, trees : Seq(AllTrees)]

\* The steps that lead to an unfinished node, and to a stack of them.
FrameSteps(f) == <<EnterStep(f.kind)>> \o Walks(f.trees)
Past(s) == FlattenSeq([d \in 1 .. Len(s) |-> FrameSteps(s[d])])

LEMMA FrameType ==
    ASSUME MaxSteps \in Nat, NEW f \in Frame
    PROVE  f.kind \in Kinds \cup {Builder!Outside} /\ f.trees \in Seq(AllTrees) /\ FrameSteps(f) \in Seq(Step)
<1>1. f.kind \in Kinds \cup {Builder!Outside} /\ f.trees \in Seq(AllTrees)
  BY DEF Frame
<1>2. PICK e \in Step : e = EnterStep(f.kind)
  BY <1>1, StepTypes
<1>3. PICK w \in Seq(Step) : w = Walks(f.trees)
  BY <1>1, WalksType
<1>4. <<e>> \o w \in Seq(Step)
  OBVIOUS
<1> QED
  BY <1>1, <1>2, <1>3, <1>4 DEF FrameSteps

LEMMA PastAppend ==
    ASSUME MaxSteps \in Nat, NEW s \in Seq(Frame), NEW f \in Frame
    PROVE  Past(s) \in Seq(Step) /\ Past(Append(s, f)) = Past(s) \o FrameSteps(f)
<1>1. PICK g : g = [h \in Frame |-> FrameSteps(h)]
  OBVIOUS
<1>2. MapsTo(g, Frame, Step)
  <2>1. PICK Q : Q = Seq(Step)
    OBVIOUS
  <2>2. \A h \in Frame : FrameSteps(h) \in Q
    BY <2>1, FrameType
  <2>3. g \in [Frame -> Q]
    BY <1>1, <2>2, Zenon
  <2> QED
    BY <2>1, <2>3, Zenon DEF MapsTo
<1>3. /\ FlattenSeq(Mapped(g, s)) \in Seq(Step)
      /\ FlattenSeq(Mapped(g, Append(s, f))) = FlattenSeq(Mapped(g, s)) \o g[f]
  BY <1>2, FlattenMapped
<1>4. ASSUME NEW r \in Seq(Frame) PROVE Past(r) = FlattenSeq(Mapped(g, r))
  <2>1. \A d \in 1 .. Len(r) : r[d] \in Frame
    OBVIOUS
  <2>2. \A d \in 1 .. Len(r) : g[r[d]] = FrameSteps(r[d])
    BY <1>1, <2>1, Zenon
  <2>3. [d \in 1 .. Len(r) |-> FrameSteps(r[d])] = Mapped(g, r)
    BY <2>2, Zenon DEF Mapped
  <2> QED
    BY <2>3, Zenon DEF Past
<1>5. Append(s, f) \in Seq(Frame)
  OBVIOUS
<1>6. g[f] = FrameSteps(f)
  BY <1>1
<1> QED
  BY <1>3, <1>4, <1>5, <1>6, Zenon

LEMMA PastOfOne ==
    ASSUME MaxSteps \in Nat, NEW f \in Frame
    PROVE  Past(<<f>>) = FrameSteps(f)
<1>1. <<>> \in Seq(Frame) /\ Append(<<>>, f) = <<f>>
  OBVIOUS
<1>2. Past(<<>>) = <<>>
  <2>1. PICK r : r = <<>> /\ Len(r) = 0
    OBVIOUS
  <2>2. [d \in 1 .. Len(r) |-> FrameSteps(r[d])] = <<>>
    BY <2>1
  <2> QED
    BY <2>1, <2>2, FlattenNone DEF Past
<1>3. Past(Append(<<>>, f)) = Past(<<>>) \o FrameSteps(f)
  BY <1>1, PastAppend
<1>4. <<>> \o FrameSteps(f) = FrameSteps(f)
  BY FrameType
<1> QED
  BY <1>1, <1>2, <1>3, <1>4, Zenon

\* Frame f with one more tree.
With(f, t) == [f EXCEPT !.trees = Append(@, t)]

LEMMA FrameWith ==
    ASSUME MaxSteps \in Nat, NEW f \in Frame, NEW t \in AllTrees
    PROVE  /\ With(f, t) \in Frame /\ With(f, t).kind = f.kind /\ With(f, t).trees = Append(f.trees, t)
           /\ FrameSteps(With(f, t)) = FrameSteps(f) \o Walk[t]
<1>1. PICK Q : Q = Seq(AllTrees)
  OBVIOUS
<1>2. f \in [kind : Kinds \cup {Builder!Outside}, trees : Q] /\ Append(f.trees, t) \in Q
  <2>1. f.trees \in Seq(AllTrees)
    BY FrameType
  <2>2. Append(f.trees, t) \in Seq(AllTrees)
    BY <2>1
  <2> QED
    BY <1>1, <2>2 DEF Frame
<1>3. /\ With(f, t) \in [kind : Kinds \cup {Builder!Outside}, trees : Q]
      /\ With(f, t).kind = f.kind /\ With(f, t).trees = Append(f.trees, t)
  BY <1>2 DEF With
<1>4. PICK e, w, x : /\ e = EnterStep(f.kind) /\ e \in Step /\ w = Walks(f.trees) /\ w \in Seq(Step)
                     /\ x = Walk[t] /\ x \in Seq(Step)
  BY FrameType, StepTypes, WalksType, WalkType
<1>5. Walks(Append(f.trees, t)) = w \o x
  BY <1>4, FrameType, WalksAppend
<1>6. <<e>> \o (w \o x) = (<<e>> \o w) \o x
  <2>1. <<e>> \in Seq(Step) /\ w \in Seq(Step) /\ x \in Seq(Step)
    BY <1>4
  <2> QED
    BY <2>1, ConcatIsAssociative
<1>7. FrameSteps(With(f, t)) = FrameSteps(f) \o Walk[t]
  BY <1>3, <1>4, <1>5, <1>6, Zenon DEF FrameSteps
<1> QED
  BY <1>1, <1>3, <1>7 DEF Frame

\* Every frame but the outside is a node's, and its trees are nested n deep at most.
Sound(s, n) ==
    /\ s \in Seq(Frame)
    /\ \A d \in 1 .. Len(s) : s[d].trees \in Seq(TreesUpTo[n]) /\ (d # 1 => s[d].kind \in Kinds)

LEMMA SoundStart ==
    ASSUME NEW n \in Nat, NEW f \in Frame, f.trees \in Seq(TreesUpTo[n])
    PROVE  Sound(<<f>>, n)
<1>1. PICK s : s = <<f>> /\ s \in Seq(Frame) /\ Len(s) = 1 /\ s[1] = f
  <2>1. <<f>> \in Seq(Frame) /\ Len(<<f>>) = 1 /\ <<f>>[1] = f
    OBVIOUS
  <2> QED
    BY <2>1, Zenon
<1>2. \A d \in 1 .. Len(s) : d = 1
  BY <1>1
<1> QED
  BY <1>1, <1>2, Zenon DEF Sound

LEMMA SoundAppend ==
    ASSUME NEW n \in Nat, NEW s, Sound(s, n), NEW f \in Frame,
           f.trees \in Seq(TreesUpTo[n]), s # <<>> => f.kind \in Kinds
    PROVE  Sound(Append(s, f), n)
<1>1. PICK r, m : r = Append(s, f) /\ r \in Seq(Frame) /\ m = Len(s) /\ m \in Nat
  <2>1. s \in Seq(Frame)
    BY DEF Sound
  <2>2. Append(s, f) \in Seq(Frame) /\ Len(s) \in Nat
    BY <2>1
  <2> QED
    BY <2>2, Zenon
<1>2. Len(r) = m + 1 /\ r[m + 1] = f /\ \A i \in 1 .. m : r[i] = s[i]
  <2>1. s \in Seq(Frame)
    BY DEF Sound
  <2> QED
    BY <1>1, <2>1, AppendProperties
<1>3. PICK Q : Q = Seq(TreesUpTo[n])
  OBVIOUS
<1>4. m # 0 => f.kind \in Kinds
  <2>1. s = <<>> => m = 0
    BY <1>1
  <2>2. s \in Seq(Frame)
    BY DEF Sound
  <2> QED
    BY <1>1, <2>1, <2>2
<1>5. \A d \in 1 .. m : s[d].trees \in Q /\ (d # 1 => s[d].kind \in Kinds)
  BY <1>1, <1>3 DEF Sound
<1>6. \A d \in 1 .. m + 1 : r[d].trees \in Q /\ (d # 1 => r[d].kind \in Kinds)
  BY <1>1, <1>2, <1>3, <1>4, <1>5
<1> QED
  BY <1>1, <1>2, <1>3, <1>6, Zenon DEF Sound

LEMMA SoundEnds ==
    ASSUME NEW n \in Nat, NEW s, Sound(s, n), NEW front, NEW last, Ends(s, front, last, Frame)
    PROVE  /\ Sound(front, n) /\ last \in Frame /\ last.trees \in Seq(TreesUpTo[n])
           /\ front # <<>> => last.kind \in Kinds
<1>1. PICK m : m = Len(front) /\ m \in Nat /\ front \in Seq(Frame) /\ last \in Frame /\ s = Append(front, last)
  BY DEF Ends
<1>2. Len(s) = m + 1 /\ s[m + 1] = last /\ \A i \in 1 .. m : s[i] = front[i]
  BY <1>1, AppendProperties
<1>3. PICK Q : Q = Seq(TreesUpTo[n])
  OBVIOUS
<1>4. \A d \in 1 .. m + 1 : s[d].trees \in Q /\ (d # 1 => s[d].kind \in Kinds)
  BY <1>2, <1>3, Zenon DEF Sound
<1>5. \A d \in 1 .. m : front[d].trees \in Q /\ (d # 1 => front[d].kind \in Kinds)
  BY <1>1, <1>2, <1>4
<1>6. last.trees \in Q /\ (m # 0 => last.kind \in Kinds)
  BY <1>1, <1>2, <1>4
<1>7. front # <<>> => m # 0
  BY <1>1
<1> QED
  BY <1>1, <1>3, <1>5, <1>6, <1>7, Zenon DEF Sound

LEMMA SoundGrows ==
    ASSUME MaxSteps \in Nat, NEW m \in 0 .. MaxSteps, NEW n \in 0 .. m, NEW s, Sound(s, n)
    PROVE  Sound(s, m)
<1>1. PICK A, B : A = TreesUpTo[n] /\ B = TreesUpTo[m] /\ A \subseteq B
  BY LevelsGrow
<1>2. Seq(A) \subseteq Seq(B)
  BY <1>1
<1>3. PICK Q, R : Q = Seq(A) /\ R = Seq(B)
  OBVIOUS
<1>4. \A d \in 1 .. Len(s) : s[d].trees \in Q
  BY <1>1, <1>3, Zenon DEF Sound
<1>5. \A d \in 1 .. Len(s) : s[d].trees \in R
  BY <1>2, <1>3, <1>4
<1> QED
  BY <1>1, <1>3, <1>5, Zenon DEF Sound

\* The builder records a tree in the innermost frame.
LEMMA RecordedWith ==
    ASSUME MaxSteps \in Nat, NEW s, NEW front, NEW last, Ends(s, front, last, Frame), NEW t \in AllTrees
    PROVE  Builder!Recorded(s, t) = Append(front, With(last, t))
<1>1. PICK m : m = Len(front) /\ m \in Nat /\ front \in Seq(Frame) /\ last \in Frame /\ s = Append(front, last) /\ s \in Seq(Frame)
  BY DEF Ends
<1>2. Len(s) = m + 1 /\ s[m + 1] = last /\ \A i \in 1 .. m : s[i] = front[i]
  BY <1>1, AppendProperties
<1>3. PICK f, r : f = With(last, t) /\ f \in Frame /\ r = [s EXCEPT ![m + 1] = f]
  BY <1>1, FrameWith
<1>4. Builder!Recorded(s, t) = r
  BY <1>2, <1>3, Zenon DEF Builder!Recorded, With
<1>5. r \in Seq(Frame) /\ Len(r) = m + 1 /\ r[m + 1] = f /\ \A i \in 1 .. m : r[i] = s[i]
  <2>1. PICK k \in Nat : k = m + 1 /\ k \in 1 .. k /\ Len(s) = k /\ \A i \in 1 .. m : i \in 1 .. k /\ i # k
    BY <1>1, <1>2
  <2>2. DOMAIN s = 1 .. k /\ s \in Seq(Frame)
    BY <1>1, <2>1
  <2>3. r \in Seq(Frame) /\ Len(r) = k /\ r[k] = f /\ \A i \in 1 .. m : r[i] = s[i]
    <3>1. r = [s EXCEPT ![k] = f]
      BY <1>3, <2>1, Zenon
    <3>2. r = [i \in 1 .. k |-> IF i = k THEN f ELSE s[i]]
      BY <2>2, <3>1
    <3>3. \A i \in 1 .. k : s[i] \in Frame
      BY <2>1, <2>2
    <3>4. PICK F : F = Frame
      OBVIOUS
    <3>5. \A i \in 1 .. k : (IF i = k THEN f ELSE s[i]) \in F
      BY <1>3, <3>3, <3>4, Zenon
    <3>6. r \in Seq(F) /\ Len(r) = k
      BY <2>1, <3>2, <3>5
    <3>7. r[k] = f /\ \A i \in 1 .. m : r[i] = s[i]
      BY <2>1, <3>2
    <3> QED
      BY <3>4, <3>6, <3>7, Zenon
  <2> QED
    BY <2>1, <2>3, Zenon
<1>6. PICK q : q = Append(front, f) /\ q \in Seq(Frame) /\ Len(q) = m + 1 /\ q[m + 1] = f /\ \A i \in 1 .. m : q[i] = front[i]
  <2>1. /\ Append(front, f) \in Seq(Frame) /\ Len(Append(front, f)) = m + 1 /\ Append(front, f)[m + 1] = f
        /\ \A i \in 1 .. m : Append(front, f)[i] = front[i]
    BY <1>1, <1>3, AppendProperties
  <2> QED
    BY <2>1, Zenon
<1>7. \A i \in 1 .. Len(r) : r[i] = q[i]
  <2> SUFFICES ASSUME NEW i \in 1 .. m + 1 PROVE r[i] = q[i]
    BY <1>5
  <2>1. i = m + 1 \/ i \in 1 .. m
    BY <1>1
  <2> QED
    BY <1>2, <1>5, <1>6, <2>1
<1>8. r = q
  BY <1>5, <1>6, <1>7, SameSeq
<1> QED
  BY <1>3, <1>4, <1>6, <1>8, Zenon

\* k - 1 more nodes are entered than left.
Level(p, k) == Len(OfForm(p, "Enter")) + 1 = Len(OfForm(p, "Leave")) + k

LEMMA LevelStep ==
    ASSUME NEW p \in Seq(Step), NEW w \in Step, NEW k \in Nat, Level(p, k)
    PROVE  /\ w.t = "Enter" => Level(p \o <<w>>, k + 1)
           /\ w.t = "Token" => Level(p \o <<w>>, k)
           /\ w.t = "Leave" => Level(p \o <<w>>, k - 1)
<1>1. PICK q : q = <<w>> /\ q \in Seq(Step)
  <2>1. <<w>> \in Seq(Step)
    OBVIOUS
  <2> QED
    BY <2>1
<1>2. PICK a, b, c, d : /\ a = Len(OfForm(p, "Enter")) /\ b = Len(OfForm(p, "Leave"))
                        /\ c = Len(OfForm(q, "Enter")) /\ d = Len(OfForm(q, "Leave"))
  OBVIOUS
<1>3. a \in Nat /\ b \in Nat /\ c \in Nat /\ d \in Nat
  BY <1>1, <1>2, FormsJoin
<1>4. Len(OfForm(p \o q, "Enter")) = a + c /\ Len(OfForm(p \o q, "Leave")) = b + d
  BY <1>1, <1>2, FormsJoin
<1>5. (c = IF w.t = "Enter" THEN 1 ELSE 0) /\ (d = IF w.t = "Leave" THEN 1 ELSE 0)
  BY <1>1, <1>2, FormsOfOne
<1>6. a + 1 = b + k
  BY <1>2 DEF Level
<1>7. ASSUME w.t = "Enter" PROVE (a + c) + 1 = (b + d) + (k + 1)
  BY <1>3, <1>5, <1>6, <1>7
<1>8. ASSUME w.t = "Token" PROVE (a + c) + 1 = (b + d) + k
  BY <1>3, <1>5, <1>6, <1>8
<1>9. ASSUME w.t = "Leave" PROVE (a + c) + 1 = (b + d) + (k - 1)
  BY <1>3, <1>5, <1>6, <1>9
<1> QED
  BY <1>1, <1>4, <1>7, <1>8, <1>9, Zenon DEF Level

\* The stack s is what n steps at most, p, make of an empty one.
Built(s, n, p) ==
    /\ n \in 0 .. MaxSteps /\ Sound(s, n) /\ s # <<>>
    /\ p \in Seq(Step) /\ Past(s) = <<EnterStep(Builder!Outside)>> \o p
    /\ Level(p, Len(s))

LEMMA BuiltFirst == ASSUME MaxSteps \in Nat PROVE Built(Builder!Empty, 0, <<>>)
<1>1. PICK f : f = [kind |-> Builder!Outside, trees |-> <<>>]
  OBVIOUS
<1>2. f.kind = Builder!Outside /\ f.trees = <<>>
  BY <1>1
<1>3. f \in Frame
  <2>1. <<>> \in Seq(AllTrees)
    OBVIOUS
  <2>2. PICK Q : Q = Seq(AllTrees)
    OBVIOUS
  <2> QED
    BY <1>1, <2>1, <2>2 DEF Frame
<1>4. Sound(<<f>>, 0)
  <2>1. <<>> \in Seq(TreesUpTo[0])
    OBVIOUS
  <2> QED
    BY <1>2, <1>3, <2>1, SoundStart
<1>5. Past(<<f>>) = <<EnterStep(Builder!Outside)>> \o <<>>
  BY <1>2, <1>3, PastOfOne, WalksOfNone DEF FrameSteps
<1>6. Level(<<>>, 1)
  <2>1. Len(OfForm(<<>>, "Enter")) = 0 /\ Len(OfForm(<<>>, "Leave")) = 0
    BY FormsOfNone
  <2> QED
    BY <2>1 DEF Level
<1>7. Builder!Empty = <<f>> /\ <<f>> # <<>> /\ Len(<<f>>) = 1 /\ 0 \in 0 .. MaxSteps /\ <<>> \in Seq(Step)
  BY <1>1 DEF Builder!Empty
<1> QED
  BY <1>4, <1>5, <1>6, <1>7, Zenon DEF Built

LEMMA BuiltEnds ==
    ASSUME NEW s, NEW n, NEW p, Built(s, n, p)
    PROVE  \E front, last : Ends(s, front, last, Frame)
<1>1. s \in Seq(Frame) /\ s # <<>>
  BY DEF Built, Sound
<1> QED
  BY <1>1, SeqEnds

\* One more step.
LEMMA PastStep ==
    ASSUME NEW e \in Step, NEW p \in Seq(Step), NEW w \in Step, NEW x, x = <<e>> \o p
    PROVE  x \o <<w>> = <<e>> \o (p \o <<w>>) /\ p \o <<w>> \in Seq(Step)
<1>1. PICK y, z : y = <<e>> /\ y \in Seq(Step) /\ z = <<w>> /\ z \in Seq(Step)
  <2>1. <<e>> \in Seq(Step) /\ <<w>> \in Seq(Step)
    OBVIOUS
  <2> QED
    BY <2>1, Zenon
<1>2. (y \o p) \o z = y \o (p \o z)
  BY <1>1, ConcatIsAssociative
<1>3. p \o z \in Seq(Step)
  BY <1>1
<1> QED
  BY <1>1, <1>2, <1>3, Zenon

LEMMA BuiltEnter ==
    ASSUME MaxSteps \in Nat, NEW s, NEW n, NEW p, Built(s, n, p), n < MaxSteps, NEW k \in Kinds
    PROVE  Built(Append(s, [kind |-> k, trees |-> <<>>]), n + 1, p \o <<EnterStep(k)>>)
<1>1. PICK f : f = [kind |-> k, trees |-> <<>>] /\ f.kind = k /\ f.trees = <<>>
  <2>1. PICK f : f = [kind |-> k, trees |-> <<>>]
    OBVIOUS
  <2>2. f.kind = k /\ f.trees = <<>>
    BY <2>1
  <2> QED
    BY <2>1, <2>2, Zenon
<1>2. f \in Frame
  <2>1. <<>> \in Seq(AllTrees)
    OBVIOUS
  <2>2. PICK Q : Q = Seq(AllTrees)
    OBVIOUS
  <2> QED
    BY <1>1, <2>1, <2>2 DEF Frame
<1>3. /\ n \in 0 .. MaxSteps /\ n + 1 \in 0 .. MaxSteps /\ n \in 0 .. n + 1 /\ n + 1 \in Nat
      /\ s \in Seq(Frame) /\ s # <<>> /\ Len(s) \in Nat
  BY DEF Built, Sound
<1>4. Sound(Append(s, f), n + 1)
  <2>1. Sound(s, n + 1)
    BY <1>3, SoundGrows DEF Built
  <2>2. <<>> \in Seq(TreesUpTo[n + 1])
    OBVIOUS
  <2> QED
    BY <1>1, <1>2, <1>3, <2>1, <2>2, SoundAppend
<1>5. PICK w, e : w = EnterStep(k) /\ w \in Step /\ w.t = "Enter" /\ e = EnterStep(Builder!Outside) /\ e \in Step
  BY StepTypes
<1>6. Past(Append(s, f)) = Past(s) \o <<w>>
  <2>1. Past(Append(s, f)) = Past(s) \o FrameSteps(f)
    BY <1>2, <1>3, PastAppend
  <2>2. FrameSteps(f) = <<w>> \o <<>>
    BY <1>1, <1>5, WalksOfNone, Zenon DEF FrameSteps
  <2>3. <<w>> \o <<>> = <<w>>
    OBVIOUS
  <2> QED
    BY <2>1, <2>2, <2>3, Zenon
<1>7. Past(s) \o <<w>> = <<e>> \o (p \o <<w>>) /\ p \o <<w>> \in Seq(Step)
  BY <1>5, PastStep DEF Built
<1>8. Level(p \o <<w>>, Len(s) + 1)
  BY <1>3, <1>5, LevelStep DEF Built
<1>9. Append(s, f) # <<>> /\ Len(Append(s, f)) = Len(s) + 1
  <2>1. Len(Append(s, f)) = Len(s) + 1
    BY <1>2, <1>3, AppendProperties
  <2>2. Append(s, f) # <<>>
    BY <1>2, <1>3
  <2> QED
    BY <2>1, <2>2
<1> QED
  BY <1>1, <1>3, <1>4, <1>5, <1>6, <1>7, <1>8, <1>9, Zenon DEF Built

\* Recording a tree adds its walk to the past.
LEMMA Records ==
    ASSUME MaxSteps \in Nat, NEW n \in 0 .. MaxSteps, NEW s, Sound(s, n), s # <<>>, NEW t \in TreesUpTo[n]
    PROVE  /\ Sound(Builder!Recorded(s, t), n) /\ Builder!Recorded(s, t) # <<>>
           /\ Len(Builder!Recorded(s, t)) = Len(s)
           /\ Past(Builder!Recorded(s, t)) = Past(s) \o Walk[t]
<1>1. t \in AllTrees
  <2>1. MaxSteps \in 0 .. MaxSteps
    OBVIOUS
  <2> QED
    BY <2>1, LevelsGrow DEF AllTrees
<1>2. PICK front, last : Ends(s, front, last, Frame)
  <2>1. s \in Seq(Frame)
    BY DEF Sound
  <2> QED
    BY <2>1, SeqEnds
<1>3. front \in Seq(Frame) /\ last \in Frame /\ s = Append(front, last)
  BY <1>2 DEF Ends
<1>4. PICK f : /\ f = With(last, t) /\ f \in Frame /\ f.kind = last.kind /\ f.trees = Append(last.trees, t)
               /\ FrameSteps(f) = FrameSteps(last) \o Walk[t]
  BY <1>1, <1>3, FrameWith
<1>5. Builder!Recorded(s, t) = Append(front, f)
  BY <1>1, <1>2, <1>4, RecordedWith
<1>6. /\ Sound(front, n) /\ last.trees \in Seq(TreesUpTo[n]) /\ (front # <<>> => last.kind \in Kinds)
  BY <1>2, SoundEnds
<1>7. Sound(Append(front, f), n)
  <2>1. f.trees \in Seq(TreesUpTo[n])
    <3>1. PICK S, ts : S = TreesUpTo[n] /\ ts = last.trees /\ ts \in Seq(S) /\ t \in S
      BY <1>6
    <3>2. Append(ts, t) \in Seq(S)
      <4>1. ts \in Seq(S) /\ t \in S
        BY <3>1
      <4> QED
        BY <4>1, AppendProperties
    <3> QED
      BY <1>4, <3>1, <3>2, Zenon
  <2>2. front # <<>> => f.kind \in Kinds
    BY <1>4, <1>6, Zenon
  <2>3. n \in Nat /\ f \in Frame /\ Sound(front, n)
    BY <1>4, <1>6
  <2> QED
    BY <2>1, <2>2, <2>3, SoundAppend
<1>8. Past(Append(front, f)) = Past(s) \o Walk[t]
  <2>1. PICK x, y, z : /\ x = Past(front) /\ x \in Seq(Step) /\ y = FrameSteps(last) /\ y \in Seq(Step)
                       /\ z = Walk[t] /\ z \in Seq(Step)
    BY <1>1, <1>3, PastAppend, FrameType, WalkType
  <2>2. Past(Append(front, f)) = x \o FrameSteps(f) /\ Past(s) = x \o y
    BY <1>3, <1>4, <2>1, PastAppend
  <2>3. (x \o y) \o z = x \o (y \o z)
    <3>1. x \in Seq(Step) /\ y \in Seq(Step) /\ z \in Seq(Step)
      BY <2>1
    <3> QED
      BY <3>1, ConcatIsAssociative
  <2> QED
    BY <1>4, <2>1, <2>2, <2>3, Zenon
<1>9. Append(front, f) # <<>> /\ Len(Append(front, f)) = Len(s)
  <2>1. Len(Append(front, f)) = Len(front) + 1
    BY <1>3, <1>4, AppendProperties
  <2>2. Len(s) = Len(front) + 1
    BY <1>2 DEF Ends
  <2>3. Append(front, f) # <<>>
    BY <1>3, <1>4
  <2> QED
    BY <2>1, <2>2, <2>3
<1> QED
  BY <1>5, <1>7, <1>8, <1>9, Zenon

LEMMA BuiltToken ==
    ASSUME MaxSteps \in Nat, NEW s, NEW n, NEW p, Built(s, n, p), n < MaxSteps, NEW t \in Tokens
    PROVE  Built(Builder!Recorded(s, t), n + 1, p \o <<TokenStep(t.kind, t.text)>>)
<1>1. /\ n \in 0 .. MaxSteps /\ n + 1 \in 0 .. MaxSteps /\ n \in 0 .. n + 1
      /\ s \in Seq(Frame) /\ s # <<>> /\ Len(s) \in Nat
  BY DEF Built, Sound
<1>2. Sound(s, n + 1)
  BY <1>1, SoundGrows DEF Built
<1>3. t \in TreesUpTo[n + 1]
  <2>1. 0 \in 0 .. n + 1
    BY <1>1
  <2>2. TreesUpTo[0] \subseteq TreesUpTo[n + 1] /\ TreesUpTo[0] = Tokens
    BY <1>1, <2>1, LevelsGrow, Levels
  <2> QED
    BY <2>2
<1>4. PICK w, e : /\ w = TokenStep(t.kind, t.text) /\ w \in Step /\ w.t = "Token"
                  /\ e = EnterStep(Builder!Outside) /\ e \in Step
  BY TokensAreTrees, StepTypes
<1>5. Walk[t] = <<w>>
  BY <1>4, TokensAreTrees, WalkIs
<1>6. PICK r : /\ r = Builder!Recorded(s, t) /\ Sound(r, n + 1) /\ r # <<>> /\ Len(r) = Len(s)
               /\ Past(r) = Past(s) \o <<w>>
  BY <1>1, <1>2, <1>3, <1>5, Records
<1>7. Past(s) \o <<w>> = <<e>> \o (p \o <<w>>) /\ p \o <<w>> \in Seq(Step)
  BY <1>4, PastStep DEF Built
<1>8. Level(p \o <<w>>, Len(s))
  BY <1>1, <1>4, LevelStep DEF Built
<1> QED
  BY <1>1, <1>4, <1>6, <1>7, <1>8, Zenon DEF Built

\* finish_node makes a tree of the innermost frame and records it in the next.
LEMMA BuiltLeave ==
    ASSUME MaxSteps \in Nat, NEW s, NEW n, NEW p, Built(s, n, p), n < MaxSteps, Len(s) # 1,
           NEW front, NEW last, Ends(s, front, last, Frame)
    PROVE  Built(Builder!Recorded(front, [kind |-> last.kind, trees |-> last.trees]), n + 1, p \o <<LeaveStep>>)
<1>1. /\ n \in 0 .. MaxSteps /\ n + 1 \in 0 .. MaxSteps /\ n + 1 \in 1 .. MaxSteps /\ n \in 0 .. n + 1
      /\ (n + 1) - 1 = n /\ Len(s) \in Nat
  BY DEF Built, Sound
<1>2. /\ Sound(front, n) /\ last \in Frame /\ last.trees \in Seq(TreesUpTo[n])
      /\ front # <<>> => last.kind \in Kinds
  BY <1>1, SoundEnds DEF Built
<1>3. /\ front \in Seq(Frame) /\ s = Append(front, last) /\ Len(s) = Len(front) + 1 /\ front # <<>>
      /\ Len(front) \in Nat
  BY DEF Ends
<1>4. PICK t, S : t = [kind |-> last.kind, trees |-> last.trees] /\ S = TreesUpTo[n]
  OBVIOUS
<1>5. t \in TreesUpTo[n + 1] /\ t.kind = last.kind /\ t.trees = last.trees
  <2>1. t \in [kind : Kinds, trees : Seq(S)]
    BY <1>2, <1>3, <1>4
  <2>2. TreesUpTo[n + 1] = Tokens \cup [kind : Kinds, trees : Seq(S)]
    BY <1>1, <1>4, Levels
  <2> QED
    BY <1>4, <2>1, <2>2
<1>6. t \in AllTrees /\ ~ IsToken(t)
  <2>1. MaxSteps \in 0 .. MaxSteps
    OBVIOUS
  <2>2. t \in AllTrees
    BY <1>1, <1>5, <2>1, LevelsGrow DEF AllTrees
  <2> QED
    BY <1>4, <2>2, NodeMade
<1>7. Sound(front, n + 1)
  BY <1>1, <1>2, SoundGrows
<1>8. PICK r : /\ r = Builder!Recorded(front, t) /\ Sound(r, n + 1) /\ r # <<>> /\ Len(r) = Len(front)
               /\ Past(r) = Past(front) \o Walk[t]
  BY <1>1, <1>3, <1>5, <1>7, Records
<1>9. PICK w, e : w = LeaveStep /\ w \in Step /\ w.t = "Leave" /\ e = EnterStep(Builder!Outside) /\ e \in Step
  BY StepTypes
<1>10. Past(r) = Past(s) \o <<w>>
  <2>1. PICK x, y : /\ x = Past(front) /\ x \in Seq(Step) /\ y = FrameSteps(last) /\ y \in Seq(Step)
                    /\ Past(s) = x \o y
    BY <1>2, <1>3, PastAppend, FrameType
  <2>2. Walk[t] = y \o <<w>>
    <3>1. Walk[t] = <<EnterStep(t.kind)>> \o Walks(t.trees) \o <<LeaveStep>>
      BY <1>6, WalkIs
    <3> QED
      BY <1>5, <1>9, <2>1, <3>1, Zenon DEF FrameSteps
  <2>3. (x \o y) \o <<w>> = x \o (y \o <<w>>)
    <3>1. <<w>> \in Seq(Step)
      BY <1>9
    <3> QED
      BY <2>1, <3>1, ConcatIsAssociative
  <2> QED
    BY <1>8, <2>1, <2>2, <2>3, Zenon
<1>11. Past(s) \o <<w>> = <<e>> \o (p \o <<w>>) /\ p \o <<w>> \in Seq(Step)
  BY <1>9, PastStep DEF Built
<1>12. Level(p \o <<w>>, Len(front))
  <2>1. Level(p \o <<w>>, Len(s) - 1)
    BY <1>1, <1>9, LevelStep DEF Built
  <2>2. Len(s) - 1 = Len(front)
    BY <1>3
  <2> QED
    BY <2>1, <2>2
<1> QED
  BY <1>1, <1>4, <1>8, <1>9, <1>10, <1>11, <1>12, Zenon DEF Built

\* The trees on a stack with nothing but the outside.
LEMMA TreesOnOne ==
    ASSUME NEW s, Len(s) = 1, NEW T, s[1].trees \in Seq(T)
    PROVE  Builder!TreesOn(s) = s[1].trees
<1> DEFINE Joins(f) == f = [j \in 0 .. Len(s) |-> IF j = 0 THEN <<>> ELSE f[j - 1] \o s[j].trees]
<1>1. PICK ts \in Seq(T) : ts = s[1].trees
  OBVIOUS
<1>2. PICK f : f = [j \in 0 .. 1 |-> IF j = 0 THEN <<>> ELSE ts]
  OBVIOUS
<1>3. Joins(f)
  <2>1. 0 .. 1 = {0, 1} /\ f[0] = <<>>
    BY <1>2
  <2>2. <<>> \o ts = ts
    OBVIOUS
  <2>3. \A j \in 0 .. 1 : (IF j = 0 THEN <<>> ELSE f[j - 1] \o s[j].trees) = (IF j = 0 THEN <<>> ELSE ts)
    <3> SUFFICES ASSUME NEW j \in 0 .. 1, j # 0 PROVE f[j - 1] \o s[j].trees = ts
      OBVIOUS
    <3>1. j = 1 /\ j - 1 = 0
      OBVIOUS
    <3> QED
      BY <1>1, <2>1, <2>2, <3>1, Zenon
  <2>4. [j \in 0 .. 1 |-> IF j = 0 THEN <<>> ELSE f[j - 1] \o s[j].trees] = [j \in 0 .. 1 |-> IF j = 0 THEN <<>> ELSE ts]
    BY <2>3, Zenon
  <2> QED
    BY <1>2, <2>4, Zenon
<1>4. PICK J : J = CHOOSE g : Joins(g)
  OBVIOUS
<1>5. Joins(J)
  <2> HIDE DEF Joins
  <2> QED
    BY <1>3, <1>4, Zenon
<1>6. J[0] = <<>> /\ J[1] = J[0] \o ts
  <2>1. 0 \in 0 .. 1 /\ 1 \in 0 .. 1 /\ 1 - 1 = 0 /\ 1 # 0
    OBVIOUS
  <2>2. \A j \in 0 .. 1 : J[j] = IF j = 0 THEN <<>> ELSE J[j - 1] \o s[j].trees
    BY <1>5
  <2> QED
    BY <1>1, <2>1, <2>2, Zenon
<1>7. <<>> \o ts = ts
  OBVIOUS
<1>8. Builder!TreesOn(s) = J[Len(s)]
  BY <1>4, Zenon DEF Builder!TreesOn
<1> QED
  BY <1>1, <1>6, <1>7, <1>8, Zenon

\* When no node is unfinished, the steps walk the trees that are outside.
LEMMA BuiltOne ==
    ASSUME MaxSteps \in Nat, NEW s, NEW n, NEW p, Built(s, n, p), Len(s) = 1
    PROVE  /\ s[1].trees \in Seq(AllTrees) /\ Walks(s[1].trees) = p
           /\ Builder!TreesOn(s) = s[1].trees /\ SubSeq(s, 1, Len(s)) = s
<1>1. s \in Seq(Frame)
  BY DEF Built, Sound
<1>2. PICK f \in Frame : f = s[1] /\ s = <<f>>
  <2>1. s[1] \in Frame
    BY <1>1
  <2>2. <<s[1]>> \in Seq(Frame) /\ Len(<<s[1]>>) = 1 /\ <<s[1]>>[1] = s[1]
    BY <2>1
  <2>3. \A i \in 1 .. Len(s) : s[i] = <<s[1]>>[i]
    BY <2>2
  <2>4. s = <<s[1]>>
    BY <1>1, <2>2, <2>3, SameSeq
  <2> QED
    BY <2>1, <2>4
<1>3. PICK w, e, ts : /\ ts = f.trees /\ ts \in Seq(AllTrees) /\ w = Walks(ts) /\ w \in Seq(Step)
                      /\ e = EnterStep(f.kind) /\ e \in Step
  BY FrameType, StepTypes, WalksType
<1>4. PICK x \in Step : x = EnterStep(Builder!Outside)
  BY StepTypes
<1>5. <<e>> \o w = <<x>> \o p /\ p \in Seq(Step)
  <2>1. Past(s) = <<e>> \o w
    BY <1>2, <1>3, PastOfOne DEF FrameSteps
  <2>2. Past(s) = <<x>> \o p /\ p \in Seq(Step)
    BY <1>4 DEF Built
  <2> QED
    BY <2>1, <2>2, Zenon
<1>6. w = p
  <2>1. e \in Step /\ w \in Seq(Step)
    BY <1>3
  <2> QED
    BY <1>5, <2>1, FirstOf
<1>7. Builder!TreesOn(s) = s[1].trees
  BY <1>2, <1>3, TreesOnOne
<1>8. SubSeq(s, 1, Len(s)) = s
  BY <1>1
<1> QED
  BY <1>2, <1>3, <1>6, <1>7, <1>8, Zenon

LEMMA EvenIsOne ==
    ASSUME NEW s, NEW n, NEW p, Built(s, n, p), Even(p)
    PROVE  Len(s) = 1
<1>1. s \in Seq(Frame) /\ p \in Seq(Step)
  BY DEF Built, Sound
<1>2. Len(s) \in Nat /\ Len(OfForm(p, "Enter")) \in Nat
  BY <1>1, FormsJoin
<1>3. Len(OfForm(p, "Enter")) + 1 = Len(OfForm(p, "Enter")) + Len(s)
  BY Zenon DEF Built, Level, Even
<1>4. PICK a, b : a = Len(OfForm(p, "Enter")) /\ b = Len(s)
  OBVIOUS
<1>5. a \in Nat /\ b \in Nat /\ a + 1 = a + b
  BY <1>2, <1>3, <1>4, Zenon
<1>6. b = 1
  BY <1>5
<1> QED
  BY <1>4, <1>6

LEMMA AllDecode == ASSUME MaxSteps \in Nat PROVE \A ts \in Seq(AllTrees) : DecodeAll(ts)
BY TreesDecode, SeveralDecode

\* The walk of a tree leaves no node that it did not enter ...
LEMMA NotLeft ==
    ASSUME MaxSteps \in Nat, NEW s, NEW n, NEW p, Built(s, n, p),
           NEW t \in AllTrees, NEW a \in Seq(Step), Walk[t] = p \o (<<LeaveStep>> \o a)
    PROVE  Len(s) # 1
<1>1. SUFFICES ASSUME Len(s) = 1 PROVE FALSE
  OBVIOUS
<1>2. PICK ts \in Seq(AllTrees) : Walks(ts) = p
  BY <1>1, BuiltOne
<1>3. PICK l, b, c : /\ l = <<LeaveStep>> /\ l \in Seq(Step) /\ Len(l) = 1
                     /\ b = l \o a /\ b \in Seq(Step) /\ c = a \o l /\ c \in Seq(Step) /\ c # <<>>
  <2>1. PICK x \in Step : x = LeaveStep
    BY StepTypes
  <2>2. <<x>> \in Seq(Step) /\ Len(<<x>>) = 1
    OBVIOUS
  <2>3. <<x>> \o a \in Seq(Step) /\ a \o <<x>> \in Seq(Step) /\ a \o <<x>> # <<>>
    OBVIOUS
  <2> QED
    BY <2>1, <2>2, <2>3, Zenon
<1>4. Walks(ts) \o (l \o c) = Walks(<<t>>) \o (l \o <<>>)
  <2>1. p \in Seq(Step)
    BY DEF Built
  <2>2. (p \o b) \o l = p \o (b \o l)
    <3>1. b \in Seq(Step) /\ l \in Seq(Step)
      BY <1>3
    <3> QED
      BY <2>1, <3>1, ConcatIsAssociative
  <2>3. (l \o a) \o l = l \o (a \o l)
    <3>1. l \in Seq(Step)
      BY <1>3
    <3> QED
      BY <3>1, ConcatIsAssociative
  <2>4. l \o <<>> = l
    BY <1>3
  <2>5. Walks(<<t>>) = Walk[t]
    BY WalksOfOne
  <2> QED
    BY <1>2, <1>3, <2>2, <2>3, <2>4, <2>5, Zenon
<1>5. <<t>> \in Seq(AllTrees) /\ <<>> \in Seq(Step)
  OBVIOUS
<1>6. c = <<>>
  <2>1. DecodeAll(ts)
    BY AllDecode
  <2>2. Walks(ts) \o (<<LeaveStep>> \o c) = Walks(<<t>>) \o (<<LeaveStep>> \o <<>>) /\ c \in Seq(Step)
    BY <1>3, <1>4, Zenon
  <2> QED
    BY <1>5, <2>1, <2>2, Zenon DEF DecodeAll
<1> QED
  BY <1>3, <1>6

\* ... and when it ends, the tree is all that was built.
LEMMA OnlyTree ==
    ASSUME MaxSteps \in Nat, NEW s, NEW n, NEW p, Built(s, n, p), NEW t \in AllTrees, p = Walk[t]
    PROVE  Builder!TreesOn(SubSeq(s, 1, Len(s))) = <<t>>
<1>1. Len(s) = 1
  BY WalkIsEven, EvenIsOne
<1>2. PICK ts \in Seq(AllTrees) : Walks(ts) = p /\ Builder!TreesOn(SubSeq(s, 1, Len(s))) = ts
  <2>1. s[1].trees \in Seq(AllTrees) /\ Walks(s[1].trees) = p /\ Builder!TreesOn(SubSeq(s, 1, Len(s))) = s[1].trees
    BY <1>1, BuiltOne, Zenon
  <2> QED
    BY <2>1, Zenon
<1>3. PICK a \in Seq(Step) : a = <<>>
  <2>1. <<>> \in Seq(Step)
    OBVIOUS
  <2> QED
    BY <2>1, Zenon
<1>4. Walks(ts) \o (<<LeaveStep>> \o a) = Walks(<<t>>) \o (<<LeaveStep>> \o a)
  BY <1>2, WalksOfOne, Zenon
<1>5. <<t>> \in Seq(AllTrees)
  OBVIOUS
<1>6. ts = <<t>>
  <2>1. DecodeAll(ts)
    BY AllDecode
  <2> QED
    BY <1>4, <1>5, <2>1, Zenon DEF DecodeAll
<1> QED
  BY <1>2, <1>6, Zenon

----------------------------------------------------------------------------
(* Events and steps *)

LEMMA RawKinds ==
    /\ \A k \in Kinds : IntoRaw(k) \in Nat /\ IntoRaw(k) < Len(Variants) /\ FromRaw(IntoRaw(k)) = k
    /\ \A raw \in Nat : raw < Len(Variants) => FromRaw(raw) \in Kinds /\ IntoRaw(FromRaw(raw)) = raw
<1>1. PICK n : n = Len(Variants) /\ n \in Nat /\ Variants \in Seq(Kinds) /\ DOMAIN Variants = 1 .. n
  BY SerializationAssumption
<1>2. \A k \in Kinds : \E i \in 1 .. n : Variants[i] = k
  BY <1>1, SerializationAssumption DEF ToSet
<1>3. \A i, j \in 1 .. n : Variants[i] = Variants[j] => i = j
  BY <1>1, SerializationAssumption DEF IsInjective
<1>4. ASSUME NEW k \in Kinds
      PROVE  IntoRaw(k) \in Nat /\ IntoRaw(k) < Len(Variants) /\ FromRaw(IntoRaw(k)) = k
  <2>1. PICK i : i = CHOOSE j \in DOMAIN Variants : Variants[j] = k
    OBVIOUS
  <2>2. i \in 1 .. n /\ Variants[i] = k
    <3>1. \E j \in DOMAIN Variants : Variants[j] = k
      BY <1>1, <1>2
    <3>2. i \in DOMAIN Variants /\ Variants[i] = k
      BY <2>1, <3>1, Zenon
    <3> QED
      BY <1>1, <3>2
  <2>3. IntoRaw(k) = i - 1
    BY <2>1, Zenon DEF IntoRaw
  <2>4. i - 1 \in Nat /\ i - 1 < n /\ (i - 1) + 1 = i
    BY <1>1, <2>2
  <2> QED
    BY <1>1, <2>2, <2>3, <2>4, Zenon DEF FromRaw
<1>5. ASSUME NEW raw \in Nat, raw < Len(Variants)
      PROVE  FromRaw(raw) \in Kinds /\ IntoRaw(FromRaw(raw)) = raw
  <2>1. PICK i : i = raw + 1 /\ i \in 1 .. n /\ i - 1 = raw
    BY <1>1, <1>5
  <2>2. FromRaw(raw) = Variants[i] /\ Variants[i] \in Kinds
    BY <1>1, <2>1 DEF FromRaw
  <2>3. PICK j : j = CHOOSE m \in DOMAIN Variants : Variants[m] = Variants[i]
    OBVIOUS
  <2>4. j = i
    <3>1. \E m \in DOMAIN Variants : Variants[m] = Variants[i]
      BY <1>1, <2>1
    <3>2. j \in DOMAIN Variants /\ Variants[j] = Variants[i]
      BY <2>3, <3>1, Zenon
    <3> QED
      BY <1>1, <1>3, <2>1, <3>2
  <2>5. IntoRaw(Variants[i]) = i - 1
    BY <2>3, <2>4, Zenon DEF IntoRaw
  <2> QED
    BY <2>1, <2>2, <2>5, Zenon
<1> QED
  BY <1>4, <1>5, Zenon

\* The text that the builder gives to a token.
TextRead(k, bytes) == IF StaticData[k] = NoData THEN bytes ELSE StaticData[k]

\* An event that is read without a panic, unless it leaves a node too many.
Good(e) ==
    /\ e \in Events /\ (e.t # "LeaveNode" => e.kind < Len(Variants))
    /\ e.t = "Token" =>
           IF StaticData[FromRaw(e.kind)] = NoData THEN e.payload.bytes \in ValidData
           ELSE DebugAssertions => e.payload.bytes = StaticData[FromRaw(e.kind)]

\* What such an event makes the builder do.
StepOf(e) ==
    IF e.t = "EnterNode" THEN EnterStep(FromRaw(e.kind))
    ELSE IF e.t = "Token" THEN TokenStep(FromRaw(e.kind), TextRead(FromRaw(e.kind), e.payload.bytes))
    ELSE LeaveStep

LEMMA EventForms ==
    ASSUME NEW e \in Events
    PROVE  /\ e.t \in {"EnterNode", "Token", "LeaveNode"}
           /\ e.t = "EnterNode" => e.kind \in Nat /\ e.has_data \in BOOLEAN /\ e = EnterNode(e.kind, e.has_data)
           /\ e.t = "Token" => e.kind \in Nat /\ e.payload.bytes \in Data
           /\ e.t = "LeaveNode" => e = LeaveNode
BY DEF Events, EnterNode, LeaveNode

LEMMA GoodToken ==
    ASSUME NEW e, Good(e), e.t = "Token", NEW k, k = FromRaw(e.kind)
    PROVE  /\ k \in Kinds /\ TextRead(k, e.payload.bytes) \in Data
           /\ [kind |-> k, text |-> TextRead(k, e.payload.bytes)] \in Tokens
           /\ TextOf(k, TextRead(k, e.payload.bytes)) = TextOf(k, e.payload.bytes)
<1>1. e \in Events /\ e.kind \in Nat /\ e.kind < Len(Variants) /\ e.payload.bytes \in Data
  BY EventForms DEF Good
<1>2. k \in Kinds
  BY <1>1, RawKinds
<1>3. StaticData[k] \in Data \cup {NoData} /\ NoData \notin Data /\ ValidData \subseteq Data
  BY <1>2, SerializationAssumption
<1>4. PICK b, x, d : b = e.payload.bytes /\ x = TextRead(k, b) /\ d = StaticData[k]
  OBVIOUS
<1>5. /\ d = NoData => b \in ValidData /\ x = b
      /\ d # NoData => d \in Data /\ x = d /\ (DebugAssertions => b = d)
  BY <1>3, <1>4 DEF Good, TextRead
<1>6. x \in Data
  BY <1>3, <1>5
<1>7. [kind |-> k, text |-> x] \in Tokens
  <2>1. PICK tok : tok = [kind |-> k, text |-> x]
    OBVIOUS
  <2>2. tok \in [kind : Kinds, text : Data] /\ tok.kind = k /\ tok.text = x
    BY <1>2, <1>6, <2>1
  <2>3. IF StaticData[tok.kind] = NoData THEN tok.text \in ValidData ELSE tok.text = StaticData[tok.kind]
    BY <1>4, <1>5, <2>2
  <2> QED
    BY <2>1, <2>2, <2>3 DEF Tokens
<1>8. TextOf(k, x) = TextOf(k, b)
  BY <1>4, <1>5, SerializationAssumption DEF TextOf
<1> QED
  BY <1>2, <1>4, <1>6, <1>7, <1>8, Zenon

LEMMA GoodStep ==
    ASSUME NEW e, Good(e)
    PROVE  /\ StepOf(e) \in Step
           /\ StepOf(e).t = "Enter" <=> e.t = "EnterNode"
           /\ StepOf(e).t = "Leave" <=> e.t = "LeaveNode"
           /\ e.t = "EnterNode" => FromRaw(e.kind) \in Kinds
<1>1. e \in Events /\ e.t \in {"EnterNode", "Token", "LeaveNode"}
  BY EventForms DEF Good
<1>2. CASE e.t = "EnterNode"
  <2>1. FromRaw(e.kind) \in Kinds
    BY <1>1, <1>2, EventForms, RawKinds DEF Good
  <2>2. PICK w : w = EnterStep(FromRaw(e.kind)) /\ w \in Step /\ w.t = "Enter"
    BY <2>1, StepTypes
  <2>3. StepOf(e) = w
    BY <1>2, <2>2, Zenon DEF StepOf
  <2> QED
    BY <1>2, <2>1, <2>2, <2>3
<1>3. CASE e.t = "Token"
  <2>1. PICK k, x : k = FromRaw(e.kind) /\ k \in Kinds /\ x = TextRead(k, e.payload.bytes) /\ x \in Data
    BY <1>3, GoodToken
  <2>2. PICK w : w = TokenStep(k, x) /\ w \in Step /\ w.t = "Token"
    BY <2>1, StepTypes
  <2>3. StepOf(e) = w
    <3>1. e.t # "EnterNode"
      BY <1>3
    <3> QED
      BY <1>3, <2>1, <2>2, <3>1, Zenon DEF StepOf
  <2> QED
    BY <1>3, <2>2, <2>3
<1>4. CASE e.t = "LeaveNode"
  <2>1. PICK w : w = LeaveStep /\ w \in Step /\ w.t = "Leave"
    BY StepTypes
  <2>2. StepOf(e) = w
    BY <1>4, <2>1 DEF StepOf
  <2> QED
    BY <1>4, <2>1, <2>2
<1> QED
  BY <1>1, <1>2, <1>3, <1>4

\* The event for a step of a walk is good, and makes the builder do that step.
LEMMA StepGood ==
    ASSUME NEW w \in Proper, NEW v
    PROVE  /\ Good(EventOf(w, v)) /\ StepOf(EventOf(w, v)) = w
           /\ w.t = "Enter" => EventOf(w, v).has_data = (v # NoValue)
<1>1. CASE w.t = "Enter"
  <2>1. PICK k \in Kinds : w = EnterStep(k)
    BY <1>1 DEF Proper, TokenStep, LeaveStep
  <2>2. PICK raw \in Nat : raw = IntoRaw(k) /\ raw < Len(Variants) /\ FromRaw(raw) = k
    BY RawKinds
  <2>3. PICK e : e = EnterNode(raw, v # NoValue)
    OBVIOUS
  <2>4. EventOf(w, v) = e
    <3>1. w.kind = k
      BY <2>1 DEF EnterStep
    <3> QED
      BY <1>1, <2>2, <2>3, <3>1 DEF EventOf
  <2>5. e.t = "EnterNode" /\ e.kind = raw /\ e.has_data = (v # NoValue) /\ e \in Events
    BY <2>3 DEF EnterNode, Events
  <2> QED
    BY <1>1, <2>1, <2>2, <2>4, <2>5 DEF Good, StepOf
<1>2. CASE w.t = "Token"
  <2>1. PICK tok \in Tokens : w = TokenStep(tok.kind, tok.text)
    BY <1>2 DEF Proper, EnterStep, LeaveStep
  <2>2. PICK k, x : k = tok.kind /\ x = tok.text /\ k \in Kinds /\ x \in Data /\ w = TokenStep(k, x)
                    /\ (IF StaticData[k] = NoData THEN x \in ValidData ELSE x = StaticData[k])
    BY <2>1 DEF Tokens
  <2>3. PICK raw \in Nat : raw = IntoRaw(k) /\ raw < Len(Variants) /\ FromRaw(raw) = k
    BY <2>2, RawKinds
  <2>4. PICK b : b = Payload(x) /\ b \in [form : {"str", "bytes", "seq"}, bytes : Data] /\ b.bytes = x
    <3>1. Payload(x) \in [form : {"str", "bytes", "seq"}, bytes : Data] /\ Payload(x).bytes = x
      BY <2>2 DEF Payload
    <3> QED
      BY <3>1, Zenon
  <2>5. PICK e : e = Token(raw, b) /\ e.t = "Token" /\ e.kind = raw /\ e.payload = b /\ e \in Events
    <3>1. Token(raw, b).t = "Token" /\ Token(raw, b).kind = raw /\ Token(raw, b).payload = b /\ Token(raw, b) \in Events
      BY <2>4 DEF Token, Events
    <3> QED
      BY <3>1, Zenon
  <2>6. EventOf(w, v) = e
    <3>1. w.kind = k /\ w.text = x
      BY <2>2 DEF TokenStep
    <3> QED
      BY <1>2, <2>3, <2>4, <2>5, <3>1 DEF EventOf
  <2>7. TextRead(k, x) = x
    BY <2>2 DEF TextRead
  <2> QED
    BY <1>2, <2>2, <2>3, <2>4, <2>5, <2>6, <2>7 DEF Good, StepOf
<1>3. CASE w.t = "Leave"
  <2>1. w = LeaveStep
    BY <1>3 DEF Proper, EnterStep, TokenStep
  <2>2. EventOf(w, v) = LeaveNode
    BY <1>3 DEF EventOf
  <2>3. LeaveNode.t = "LeaveNode" /\ LeaveNode \in Events
    BY DEF LeaveNode, Events
  <2> QED
    BY <1>3, <2>1, <2>2, <2>3 DEF Good, StepOf
<1>4. w.t \in {"Enter", "Token", "Leave"}
  BY ProperSteps, StepTypes
<1> QED
  BY <1>1, <1>2, <1>3, <1>4

\* Writing what was read gives the same contents.
LEMMA SameContents ==
    ASSUME NEW e, Good(e), NEW v, e.t = "EnterNode" => e.has_data = (v # NoValue)
    PROVE  ContentsOf(EventOf(StepOf(e), v)) = ContentsOf(e)
<1>1. e \in Events /\ e.t \in {"EnterNode", "Token", "LeaveNode"}
  BY EventForms DEF Good
<1>2. CASE e.t = "EnterNode"
  <2>1. PICK raw \in Nat : raw = e.kind /\ IntoRaw(FromRaw(raw)) = raw /\ e = EnterNode(raw, e.has_data)
    BY <1>1, <1>2, EventForms, RawKinds DEF Good
  <2>2. PICK w : w = EnterStep(FromRaw(raw)) /\ w = StepOf(e) /\ w.t = "Enter" /\ w.kind = FromRaw(raw)
    <3>1. EnterStep(FromRaw(raw)) = StepOf(e) /\ EnterStep(FromRaw(raw)).t = "Enter" /\ EnterStep(FromRaw(raw)).kind = FromRaw(raw)
      BY <1>2, <2>1 DEF StepOf, EnterStep
    <3> QED
      BY <3>1, Zenon
  <2>3. EventOf(w, v) = EnterNode(raw, v # NoValue)
    BY <2>1, <2>2 DEF EventOf
  <2>4. EventOf(w, v) = e
    BY <1>2, <2>1, <2>3
  <2> QED
    BY <2>2, <2>4, Zenon
<1>3. CASE e.t = "Token"
  <2>1. PICK raw \in Nat : raw = e.kind /\ IntoRaw(FromRaw(raw)) = raw /\ e.payload.bytes \in Data
    BY <1>1, <1>3, EventForms, RawKinds DEF Good
  <2>2. PICK k, x : /\ k = FromRaw(e.kind) /\ x = TextRead(k, e.payload.bytes)
                    /\ TextOf(k, x) = TextOf(k, e.payload.bytes)
    BY <1>3, GoodToken
  <2>3. PICK w : w = TokenStep(k, x) /\ w = StepOf(e) /\ w.t = "Token" /\ w.kind = k /\ w.text = x
    <3>1. TokenStep(k, x) = StepOf(e) /\ TokenStep(k, x).t = "Token" /\ TokenStep(k, x).kind = k /\ TokenStep(k, x).text = x
      BY <1>3, <2>2 DEF StepOf, TokenStep
    <3> QED
      BY <3>1, Zenon
  <2>4. EventOf(w, v) = Token(raw, Payload(x))
    BY <2>1, <2>2, <2>3 DEF EventOf
  <2>5. PICK u : u = Token(raw, Payload(x)) /\ u.t = "Token" /\ u.kind = raw /\ u.payload.bytes = x
    <3>1. Token(raw, Payload(x)).t = "Token" /\ Token(raw, Payload(x)).kind = raw /\ Token(raw, Payload(x)).payload.bytes = x
      BY DEF Token, Payload
    <3> QED
      BY <3>1, Zenon
  <2>6. ContentsOf(u) = TokenStep(raw, TextOf(k, x)) /\ ContentsOf(e) = TokenStep(raw, TextOf(k, e.payload.bytes))
    BY <1>3, <2>1, <2>2, <2>5 DEF ContentsOf
  <2> QED
    BY <2>2, <2>3, <2>4, <2>5, <2>6, Zenon
<1>4. CASE e.t = "LeaveNode"
  <2>1. e = LeaveNode
    BY <1>1, <1>4, EventForms
  <2>2. StepOf(e) = LeaveStep /\ LeaveStep.t = "Leave"
    BY <1>4 DEF StepOf, LeaveStep
  <2>3. EventOf(LeaveStep, v) = LeaveNode
    BY <2>2 DEF EventOf
  <2> QED
    BY <2>1, <2>2, <2>3, Zenon
<1> QED
  BY <1>1, <1>2, <1>3, <1>4

----------------------------------------------------------------------------
(* The data list and the nodes *)

\* The events make the builder walk the tree.
Makes(es, t) ==
    /\ t \in AllTrees /\ es \in Seq(Events) /\ (\A i \in 1 .. Len(es) : Good(es[i]))
    /\ Walk[t] = [i \in 1 .. Len(es) |-> StepOf(es[i])]

\* The places of nodes, and of those whose flag is raised.
Entered(t) == Formed(Walk[t], "Enter")
Flagged(es) == {i \in 1 .. Len(es) : es[i].t = "EnterNode" /\ es[i].has_data}

LEMMA MakesSame ==
    ASSUME NEW es, NEW t, Makes(es, t)
    PROVE  /\ Walk[t] \in Seq(Step) /\ Len(es) \in Nat /\ Len(Walk[t]) = Len(es)
           /\ Entered(t) = Formed(es, "EnterNode")
           /\ \A i \in 1 .. Len(es) : /\ Walk[t][i] = StepOf(es[i]) /\ Good(es[i])
                                      /\ i \in Entered(t) <=> es[i].t = "EnterNode"
                                      /\ i \in Entered(t) <=> Walk[t][i].t = "Enter"
<1>1. PICK n, w : n = Len(es) /\ n \in Nat /\ es \in Seq(Events) /\ DOMAIN es = 1 .. n /\ w = Walk[t] /\ w = [i \in 1 .. n |-> StepOf(es[i])]
  <2>1. es \in Seq(Events)
    BY DEF Makes
  <2>2. Len(es) \in Nat /\ DOMAIN es = 1 .. Len(es)
    BY <2>1
  <2>3. Walk[t] = [i \in 1 .. Len(es) |-> StepOf(es[i])]
    BY DEF Makes
  <2> QED
    BY <2>1, <2>2, <2>3, Zenon
<1>2. \A i \in 1 .. n : Good(es[i]) /\ StepOf(es[i]) \in Step /\ (StepOf(es[i]).t = "Enter" <=> es[i].t = "EnterNode")
  <2>1. \A i \in 1 .. n : Good(es[i])
    BY <1>1, Zenon DEF Makes
  <2> QED
    BY <2>1, GoodStep
<1>3. w \in Seq(Step) /\ Len(w) = n /\ DOMAIN w = 1 .. n /\ \A i \in 1 .. n : w[i] = StepOf(es[i])
  <2>1. \A i \in 1 .. n : w[i] = StepOf(es[i])
    BY <1>1, Zenon
  <2>2. w \in [1 .. n -> Step]
    BY <1>1, <1>2, Zenon
  <2>3. w \in Seq(Step)
    BY <1>1, <2>2
  <2>4. DOMAIN w = 1 .. n
    BY <1>1, Zenon
  <2>5. Len(w) = n
    BY <1>1, <2>3, <2>4
  <2> QED
    BY <2>1, <2>3, <2>4, <2>5
<1>4. \A i \in 1 .. n : w[i].t = "Enter" <=> es[i].t = "EnterNode"
  BY <1>2, <1>3, Zenon
<1>5. Formed(w, "Enter") = Formed(es, "EnterNode")
  <2>1. Formed(w, "Enter") = {i \in 1 .. n : w[i].t = "Enter"} /\ Formed(es, "EnterNode") = {i \in 1 .. n : es[i].t = "EnterNode"}
    BY <1>1, <1>3, Zenon DEF Formed
  <2> QED
    BY <1>4, <2>1
<1>6. \A i \in 1 .. n : i \in Formed(w, "Enter") <=> w[i].t = "Enter"
  BY <1>3, Zenon DEF Formed
<1> QED
  BY <1>1, <1>2, <1>3, <1>4, <1>5, <1>6, Zenon DEF Entered

LEMMA NodeNumber ==
    ASSUME NEW es, NEW t, Makes(es, t), NEW i \in 1 .. Len(es)
    PROVE  NodeAt(Walk[t], i) = Count(Entered(t), i)
<1>1. PICK n, p, w : n = Len(es) /\ n \in Nat /\ p = Entered(t) /\ w = Walk[t] /\ \A j \in 1 .. n : j \in p <=> w[j].t = "Enter"
  <2>1. Len(es) \in Nat /\ \A j \in 1 .. Len(es) : j \in Entered(t) <=> Walk[t][j].t = "Enter"
    BY MakesSame
  <2> QED
    BY <2>1, Zenon
<1>2. \A j \in 1 .. i : j \in 1 .. n
  BY <1>1
<1>3. {j \in 1 .. i : w[j].t = "Enter"} = {j \in 1 .. i : j \in p}
  BY <1>1, <1>2, Zenon
<1> QED
  BY <1>1, <1>3, Zenon DEF NodeAt, Count

\* Nodes and flags go together, and as many flags are raised up to a node as
\* events up to its own say so.
LEMMA Pairing ==
    ASSUME NEW es, NEW t, Makes(es, t), NEW nodes, nodes = Nodes(t), NEW flags, flags = Flags(es),
           NEW p, p = Entered(t), NEW n, n = Len(es)
    PROVE  /\ nodes \in Seq(Step) /\ DOMAIN flags = 1 .. Len(nodes) /\ Len(flags) = Len(nodes)
           /\ Holds(nodes, Walk[t], p, n)
           /\ \A i \in 1 .. n : i \in p => /\ Count(p, i) \in 1 .. Len(nodes)
                                           /\ flags[Count(p, i)] = es[i].has_data
                                           /\ Raised(flags, Count(p, i)) = Count(Flagged(es), i)
           /\ Zipped(nodes, flags) = Len(nodes)
           /\ Raised(flags, Zipped(nodes, flags)) = Count(Flagged(es), n)
<1>1. PICK w, entered, m : /\ w = Walk[t] /\ w \in Seq(Step) /\ n \in Nat /\ Len(w) = n /\ es \in Seq(Events)
                           /\ p = Formed(w, "Enter") /\ p = Formed(es, "EnterNode")
                           /\ entered = OfForm(es, "EnterNode") /\ m = Count(p, n)
  BY MakesSame, Zenon DEF Makes, Entered
<1>2. nodes \in Seq(Step) /\ Len(nodes) = m /\ Holds(nodes, w, p, n)
  BY <1>1, FormsCounted DEF Nodes
<1>3. entered \in Seq(Events) /\ Len(entered) = m /\ Holds(entered, es, p, n)
  BY <1>1, FormsCounted
<1>4. flags = [i \in 1 .. m |-> entered[i].has_data] /\ m \in Nat
  <2>1. DOMAIN entered = 1 .. m /\ m \in Nat
    BY <1>3
  <2> QED
    BY <1>1, <2>1, Zenon DEF Flags
<1>5. DOMAIN flags = 1 .. m /\ Len(flags) = m
  BY <1>4
<1>6. \A i \in 1 .. n : i \in p => Count(p, i) \in 1 .. m /\ flags[Count(p, i)] = es[i].has_data
  <2>1. \A i \in 1 .. n : i \in p => Count(p, i) \in 1 .. m /\ entered[Count(p, i)] = es[i]
    BY <1>3 DEF Holds
  <2> QED
    BY <1>4, <2>1
<1>7. Zipped(nodes, flags) = m
  <2>1. {Len(nodes), Len(flags)} = {m}
    BY <1>2, <1>5
  <2>2. Min({m}) = m
    BY <1>4 DEF Min
  <2> QED
    BY <2>1, <2>2, Zenon DEF Zipped
<1>8. PICK r, q : r = {k \in 1 .. m : flags[k]} /\ q = Flagged(es)
  OBVIOUS
<1>9. \A i \in 1 .. n : (i \in q <=> i \in p /\ es[i].has_data)
  <2>1. \A i \in 1 .. n : i \in p <=> es[i].t = "EnterNode"
    BY MakesSame
  <2> QED
    BY <1>8, <2>1, Zenon DEF Flagged
<1>10. \A i \in 1 .. n : i \in p => (Count(p, i) \in r <=> i \in q)
  BY <1>6, <1>8, <1>9, Zenon
<1>11. \A i \in 0 .. n : Count(r, Count(p, i)) = Count(q, i)
  <2>1. \A i \in 1 .. n : i \in q => i \in p
    BY <1>9
  <2> QED
    <3>1. Numbers(p, q, r, n) /\ n \in Nat
      BY <1>1, <1>10, <2>1, Zenon DEF Numbers
    <3> QED
      BY <3>1, CountNumbers
<1>12. \A k \in 0 .. m : Raised(flags, k) = Count(r, k)
  <2> SUFFICES ASSUME NEW k \in 0 .. m PROVE Raised(flags, k) = Count(r, k)
    OBVIOUS
  <2>1. \A i \in 1 .. k : i \in 1 .. m
    BY <1>4
  <2>2. {i \in 1 .. k : flags[i]} = {i \in 1 .. k : i \in r}
    BY <1>8, <2>1, Zenon
  <2> QED
    BY <2>2, Zenon DEF Raised, Count
<1>13. \A i \in 1 .. n : i \in p => Raised(flags, Count(p, i)) = Count(q, i)
  <2>1. \A i \in 1 .. n : i \in 0 .. n
    BY <1>1
  <2>2. \A k \in 1 .. m : k \in 0 .. m
    BY <1>4
  <2> QED
    BY <1>6, <1>11, <1>12, <2>1, <2>2, Zenon
<1>14. Raised(flags, m) = Count(q, n)
  <2>1. n \in 0 .. n /\ m \in 0 .. m
    BY <1>1, <1>4
  <2> QED
    BY <1>1, <1>11, <1>12, <2>1, Zenon
<1>15. Len(nodes) = m
  BY <1>2
<1> QED
  BY <1>1, <1>2, <1>5, <1>6, <1>7, <1>8, <1>13, <1>14, <1>15, Zenon

\* What set_data attaches when the list has the right length.
LEMMA Attached ==
    ASSUME NEW es, NEW t, Makes(es, t), NEW data \in Seq(Values),
           DataMatches(Nodes(t), Flags(es), data),
           NEW r, r = Restored(Nodes(t), Flags(es), data)
    PROVE  /\ Len(data) = Count(Flagged(es), Len(es)) /\ DOMAIN r = Cells(t)
           /\ \A i \in 1 .. Len(es) : i \in Entered(t) =>
                  r[Count(Entered(t), i)] = IF es[i].has_data THEN data[Count(Flagged(es), i)] ELSE NoValue
<1>1. PICK n, p, nodes, flags : n = Len(es) /\ p = Entered(t) /\ nodes = Nodes(t) /\ flags = Flags(es)
  OBVIOUS
<1>2. /\ nodes \in Seq(Step) /\ Len(flags) = Len(nodes)
      /\ \A i \in 1 .. n : i \in p => /\ Count(p, i) \in 1 .. Len(nodes)
                                      /\ flags[Count(p, i)] = es[i].has_data
                                      /\ Raised(flags, Count(p, i)) = Count(Flagged(es), i)
      /\ Zipped(nodes, flags) = Len(nodes)
      /\ Raised(flags, Zipped(nodes, flags)) = Count(Flagged(es), n)
  BY <1>1, Pairing
<1>3. PICK m : m = Len(nodes) /\ m \in Nat /\ DOMAIN nodes = 1 .. m
  BY <1>2
<1>4. Len(data) = Count(Flagged(es), n)
  BY <1>1, <1>2, Zenon DEF DataMatches
<1>5. r = [k \in 1 .. m |-> IF k <= m /\ flags[k] THEN data[Raised(flags, k)] ELSE NoValue]
  BY <1>1, <1>2, <1>3, Zenon DEF Restored
<1>6. DOMAIN r = Cells(t)
  BY <1>1, <1>3, <1>5, Zenon DEF Cells
<1>7. \A k \in 1 .. m : r[k] = IF flags[k] THEN data[Raised(flags, k)] ELSE NoValue
  <2>1. \A k \in 1 .. m : k <= m
    BY <1>3
  <2> QED
    BY <1>5, <2>1, Zenon
<1>8. \A i \in 1 .. n : i \in p =>
          r[Count(p, i)] = IF es[i].has_data THEN data[Count(Flagged(es), i)] ELSE NoValue
  BY <1>2, <1>3, <1>7, Zenon
<1> QED
  BY <1>1, <1>4, <1>6, <1>8, Zenon

\* A sequence is what is picked from another if it has its elements at the places.
LEMMA PickedIs ==
    ASSUME NEW T, NEW s \in Seq(T), NEW data \in Seq(T), NEW q,
           Len(data) = Count(q, Len(s)),
           \A i \in 1 .. Len(s) : i \in q => s[i] = data[Count(q, i)]
    PROVE  Picked(s, q) = data
<1>1. PICK u, n : u = Picked(s, q) /\ n = Len(s)
  OBVIOUS
<1>2. u \in Seq(T) /\ Holds(u, s, q, n)
  BY <1>1, PickedElements, PickedPlaces
<1>3. Len(u) = Len(data)
  BY <1>1, <1>2 DEF Holds
<1>4. ASSUME NEW k \in 1 .. Len(u) PROVE u[k] = data[k]
  <2>1. PICK i \in 1 .. n : i \in q /\ Count(q, i) = k
    BY <1>2 DEF Holds
  <2>2. u[k] = s[i]
    BY <1>2, <2>1 DEF Holds
  <2> QED
    BY <1>1, <2>1, <2>2
<1>5. u = data
  BY <1>2, <1>3, <1>4, SameSeq
<1> QED
  BY <1>1, <1>5

\* Nothing of a document is lost when it is accepted.
LEMMA Accepted ==
    ASSUME NEW doc, NEW t, Makes(doc.events, t), doc.data \in Seq(Values),
           DataMatches(Nodes(t), Flags(doc.events), doc.data),
           NEW r, r = Restored(Nodes(t), Flags(doc.events), doc.data)
    PROVE  Contents(Serialized(t, r)) = Contents(doc)
<1>1. PICK es, data, n, p, q, w : /\ es = doc.events /\ data = doc.data /\ data \in Seq(Values) /\ n = Len(es)
                                  /\ p = Entered(t) /\ q = Flagged(es) /\ w = Walk[t]
  OBVIOUS
<1>2. /\ w \in Seq(Step) /\ n \in Nat /\ Len(w) = n /\ DOMAIN w = 1 .. n
      /\ \A i \in 1 .. n : /\ w[i] = StepOf(es[i]) /\ Good(es[i])
                           /\ (i \in p <=> es[i].t = "EnterNode")
                           /\ (i \in p <=> w[i].t = "Enter")
                           /\ NodeAt(w, i) = Count(p, i)
  <2>1. Makes(es, t)
    BY <1>1, Zenon
  <2>2. /\ w \in Seq(Step) /\ n \in Nat /\ Len(w) = n
        /\ \A i \in 1 .. n : /\ w[i] = StepOf(es[i]) /\ Good(es[i])
                             /\ (i \in p <=> es[i].t = "EnterNode")
                             /\ (i \in p <=> w[i].t = "Enter")
    <3>1. /\ Walk[t] \in Seq(Step) /\ Len(es) \in Nat /\ Len(Walk[t]) = Len(es)
          /\ \A i \in 1 .. Len(es) : /\ Walk[t][i] = StepOf(es[i]) /\ Good(es[i])
                                     /\ (i \in Entered(t) <=> es[i].t = "EnterNode")
                                     /\ (i \in Entered(t) <=> Walk[t][i].t = "Enter")
      BY <2>1, MakesSame
    <3> QED
      BY <1>1, <3>1, Zenon
  <2>3. \A i \in 1 .. n : NodeAt(w, i) = Count(p, i)
    BY <1>1, <2>1, NodeNumber, Zenon
  <2>4. DOMAIN w = 1 .. n
    BY <2>2
  <2> QED
    BY <2>2, <2>3, <2>4, Zenon
<1>3. /\ Len(data) = Count(q, n)
      /\ \A i \in 1 .. n : i \in p => r[Count(p, i)] = IF es[i].has_data THEN data[Count(q, i)] ELSE NoValue
  <2>1. /\ Makes(es, t) /\ DataMatches(Nodes(t), Flags(es), data)
        /\ r = Restored(Nodes(t), Flags(es), data)
    BY <1>1, Zenon
  <2>2. /\ Len(data) = Count(Flagged(es), Len(es))
        /\ \A i \in 1 .. Len(es) : i \in Entered(t) =>
               r[Count(Entered(t), i)] = IF es[i].has_data THEN data[Count(Flagged(es), i)] ELSE NoValue
    BY <1>1, <2>1, Attached
  <2> QED
    BY <1>1, <2>2, Zenon
<1>4. \A i \in 1 .. n : i \in q <=> (i \in p /\ es[i].has_data)
  <2>1. \A i \in 1 .. n : i \in q <=> es[i].t = "EnterNode" /\ es[i].has_data
    BY <1>1, Zenon DEF Flagged
  <2> QED
    BY <1>2, <2>1, Zenon
\* The data that is attached to the nodes, by the steps that enter them.
<1>5. PICK vs : vs = [i \in 1 .. n |-> IF w[i].t = "Enter" THEN r[NodeAt(w, i)] ELSE NoValue]
  OBVIOUS
<1>6. \A i \in 1 .. n : vs[i] = IF i \in q THEN data[Count(q, i)] ELSE NoValue
  BY <1>2, <1>3, <1>4, <1>5, Zenon
<1>7. \A i \in 1 .. n : i \in q => data[Count(q, i)] \in Values
  <2>1. \A i \in 1 .. n : i \in q => Count(q, i) \in 1 .. Count(q, n)
    <3>1. PICK u : u = Picked(w, q) /\ Holds(u, w, q, n)
      BY <1>2, PickedPlaces
    <3> QED
      BY <3>1 DEF Holds
  <2>2. \A k \in 1 .. Len(data) : data[k] \in Values
    BY <1>1
  <2> QED
    BY <1>3, <2>1, <2>2
<1>8. NoValue \notin Values
  BY SerializationAssumption
<1>9. \A i \in 1 .. n : (vs[i] # NoValue <=> i \in q) /\ vs[i] \in Values \cup {NoValue}
  BY <1>6, <1>7, <1>8
<1>10. Picked(vs, {i \in 1 .. n : vs[i] # NoValue}) = data
  <2>1. {i \in 1 .. n : vs[i] # NoValue} = q
    <3>1. q \subseteq 1 .. n
      BY <1>1 DEF Flagged
    <3> QED
      BY <1>9, <3>1
  <2>2. PICK V : V = Values \cup {NoValue}
    OBVIOUS
  <2>3. vs \in Seq(V) /\ Len(vs) = n /\ data \in Seq(V)
    <3>1. \A i \in 1 .. n : (IF w[i].t = "Enter" THEN r[NodeAt(w, i)] ELSE NoValue) \in V
      BY <1>5, <1>9, <2>2, Zenon
    <3>2. vs \in Seq(V) /\ Len(vs) = n
      BY <1>2, <1>5, <3>1
    <3>3. Seq(Values) \subseteq Seq(V)
      BY <2>2
    <3> QED
      BY <1>1, <3>2, <3>3
  <2>4. Picked(vs, q) = data
    BY <1>3, <1>6, <2>3, PickedIs
  <2> QED
    BY <2>1, <2>4, Zenon
<1>11. Serialized(t, r) = [events |-> [i \in 1 .. n |-> EventOf(w[i], vs[i])],
                           data |-> Picked(vs, {i \in 1 .. n : vs[i] # NoValue})]
  BY <1>1, <1>2, <1>5, Zenon DEF Serialized
<1>12. PICK new : new = [i \in 1 .. n |-> EventOf(w[i], vs[i])] /\ DOMAIN new = 1 .. n
  <2>1. DOMAIN [i \in 1 .. n |-> EventOf(w[i], vs[i])] = 1 .. n
    OBVIOUS
  <2> QED
    BY <2>1, Zenon
<1>13. \A i \in 1 .. n : ContentsOf(new[i]) = ContentsOf(es[i])
  <2>1. ASSUME NEW i \in 1 .. n PROVE ContentsOf(new[i]) = ContentsOf(es[i])
    <3>1. PICK e, v : e = es[i] /\ v = vs[i] /\ Good(e) /\ new[i] = EventOf(StepOf(e), v)
      BY <1>2, <1>12
    <3>2. e.t = "EnterNode" => e.has_data = (v # NoValue)
      <4>1. e.t = "EnterNode" => e.has_data \in BOOLEAN
        BY <3>1, EventForms DEF Good
      <4>2. e.t = "EnterNode" => (e.has_data <=> v # NoValue)
        BY <1>2, <1>4, <1>9, <3>1
      <4> QED
        BY <4>1, <4>2
    <3>3. ContentsOf(EventOf(StepOf(e), v)) = ContentsOf(e)
      BY <3>1, <3>2, SameContents
    <3> QED
      BY <3>1, <3>3, Zenon
  <2> QED
    BY <2>1
<1>14. [i \in 1 .. n |-> ContentsOf(new[i])] = [i \in 1 .. n |-> ContentsOf(es[i])]
  BY <1>13, Zenon
<1>15. DOMAIN es = 1 .. n
  <2>1. es \in Seq(Events)
    BY <1>1 DEF Makes
  <2> QED
    BY <1>1, <2>1
<1>16. PICK d : d = Serialized(t, r) /\ d.events = new /\ d.data = data
  <2>1. Serialized(t, r) = [events |-> new, data |-> data]
    BY <1>10, <1>11, <1>12, Zenon
  <2> QED
    BY <2>1
<1>17. Contents(d) = [events |-> [i \in 1 .. n |-> ContentsOf(new[i])], data |-> data]
  BY <1>12, <1>16, Zenon DEF Contents
<1>18. Contents(doc) = [events |-> [i \in 1 .. n |-> ContentsOf(es[i])], data |-> data]
  BY <1>1, <1>15, Zenon DEF Contents
<1> QED
  BY <1>14, <1>16, <1>17, <1>18, Zenon

\* The data list that the serialiser writes for values it reads at the steps.
Written(es, t, vs, data) ==
    /\ Makes(es, t) /\ vs \in Seq(Values \cup {NoValue}) /\ Len(vs) = Len(es)
    /\ \A i \in 1 .. Len(es) : IF es[i].t = "EnterNode" THEN es[i].has_data = (vs[i] # NoValue) ELSE vs[i] = NoValue
    /\ data = Picked(vs, {i \in 1 .. Len(es) : vs[i] # NoValue})

\* Every node gets its own element back, or none.
LEMMA GivenBack ==
    ASSUME NEW es, NEW t, NEW vs, NEW data, Written(es, t, vs, data),
           NEW r, r = Restored(Nodes(t), Flags(es), data)
    PROVE  /\ data \in Seq(Values) /\ DataMatches(Nodes(t), Flags(es), data) /\ DOMAIN r = Cells(t)
           /\ \A k \in Cells(t) :
                  \E i \in 1 .. Len(es) : /\ es[i].t = "EnterNode" /\ NodeAt(Walk[t], i) = k /\ r[k] = vs[i]
<1>1. PICK n, p, q, V : n = Len(es) /\ p = Entered(t) /\ q = Flagged(es) /\ V = Values \cup {NoValue}
  OBVIOUS
<1>2. /\ Makes(es, t) /\ vs \in Seq(V) /\ Len(vs) = n
      /\ \A i \in 1 .. n : IF es[i].t = "EnterNode" THEN es[i].has_data = (vs[i] # NoValue) ELSE vs[i] = NoValue
      /\ data = Picked(vs, {i \in 1 .. n : vs[i] # NoValue})
  BY <1>1, Zenon DEF Written
<1>3. n \in Nat /\ \A i \in 1 .. n : i \in p <=> es[i].t = "EnterNode"
  <2>1. Len(es) \in Nat /\ \A i \in 1 .. Len(es) : i \in Entered(t) <=> es[i].t = "EnterNode"
    BY <1>2, MakesSame
  <2> QED
    BY <1>1, <2>1, Zenon
<1>4. \A i \in 1 .. n : (i \in q <=> vs[i] # NoValue)
  <2>1. \A i \in 1 .. n : (i \in q <=> es[i].t = "EnterNode" /\ es[i].has_data)
    BY <1>1, Zenon DEF Flagged
  <2> QED
    BY <1>2, <2>1
<1>5. {i \in 1 .. n : vs[i] # NoValue} = q
  <2>1. q \subseteq 1 .. n
    BY <1>1 DEF Flagged
  <2> QED
    BY <1>4, <2>1
<1>6. data \in Seq(V) /\ Holds(data, vs, q, n)
  <2>1. data = Picked(vs, q)
    BY <1>2, <1>5, Zenon
  <2>2. vs \in Seq(V) /\ Len(vs) = n
    BY <1>2, Zenon
  <2>3. Picked(vs, q) \in Seq(V)
    BY <2>2, PickedElements
  <2>4. Holds(Picked(vs, q), vs, q, Len(vs))
    BY <2>2, PickedPlaces
  <2> QED
    BY <2>1, <2>2, <2>3, <2>4, Zenon
<1>7. data \in Seq(Values)
  <2>1. ASSUME NEW k \in 1 .. Len(data) PROVE data[k] \in Values
    <3>1. PICK i \in 1 .. n : i \in q /\ Count(q, i) = k
      BY <1>6 DEF Holds
    <3>2. data[k] = vs[i]
      BY <1>6, <3>1 DEF Holds
    <3>3. vs[i] \in V /\ vs[i] # NoValue
      BY <1>2, <1>4, <3>1
    <3> QED
      BY <1>1, <3>2, <3>3
  <2> QED
    BY <1>6, <2>1
<1>8. DataMatches(Nodes(t), Flags(es), data)
  <2>1. PICK nodes, flags : nodes = Nodes(t) /\ flags = Flags(es)
    OBVIOUS
  <2>2. Raised(flags, Zipped(nodes, flags)) = Count(q, n)
    BY <1>1, <1>2, <2>1, Pairing
  <2>3. Len(data) = Count(q, n)
    BY <1>6 DEF Holds
  <2> QED
    BY <2>1, <2>2, <2>3, Zenon DEF DataMatches
<1>9. /\ DOMAIN r = Cells(t)
      /\ \A i \in 1 .. n : i \in p => r[Count(p, i)] = IF es[i].has_data THEN data[Count(q, i)] ELSE NoValue
  <2>1. /\ DOMAIN r = Cells(t)
        /\ \A i \in 1 .. Len(es) : i \in Entered(t) =>
               r[Count(Entered(t), i)] = IF es[i].has_data THEN data[Count(Flagged(es), i)] ELSE NoValue
    <3>1. Makes(es, t) /\ r = Restored(Nodes(t), Flags(es), data)
      BY <1>2, Zenon
    <3> QED
      BY <1>7, <1>8, <3>1, Attached
  <2> QED
    BY <1>1, <2>1, Zenon
<1>10. \A i \in 1 .. n : i \in q => data[Count(q, i)] = vs[i]
  BY <1>6 DEF Holds
<1>11. \A i \in 1 .. n : i \in p => r[Count(p, i)] = vs[i]
  <2>1. ASSUME NEW i \in 1 .. n, i \in p PROVE r[Count(p, i)] = vs[i]
    <3>1. es[i].t = "EnterNode" /\ es[i].has_data = (vs[i] # NoValue)
      BY <1>2, <1>3, <2>1
    <3>2. CASE vs[i] # NoValue
      BY <1>4, <1>9, <1>10, <2>1, <3>1, <3>2
    <3>3. CASE vs[i] = NoValue
      BY <1>9, <2>1, <3>1, <3>3
    <3> QED
      BY <3>2, <3>3
  <2> QED
    BY <2>1
<1>12. ASSUME NEW k \in Cells(t)
       PROVE  \E i \in 1 .. n : es[i].t = "EnterNode" /\ NodeAt(Walk[t], i) = k /\ r[k] = vs[i]
  <2>1. PICK nodes : nodes = Nodes(t) /\ k \in 1 .. Len(nodes)
    BY DEF Cells
  <2>2. Holds(nodes, Walk[t], p, n)
    BY <1>1, <1>2, <2>1, Pairing
  <2>3. PICK i \in 1 .. n : i \in p /\ Count(p, i) = k
    BY <2>1, <2>2 DEF Holds
  <2>4. NodeAt(Walk[t], i) = k
    BY <1>1, <1>2, <2>3, NodeNumber, Zenon
  <2>5. r[k] = vs[i]
    BY <1>11, <2>3
  <2>6. es[i].t = "EnterNode"
    BY <1>3, <2>3
  <2> QED
    BY <2>4, <2>5, <2>6
<1> QED
  BY <1>1, <1>7, <1>8, <1>9, <1>12, Zenon

----------------------------------------------------------------------------
(* The invariant *)

AllGood(es) == es \in Seq(Events) /\ \A i \in 1 .. Len(es) : Good(es[i])

\* The steps that the first n events make the builder do.
StepsOf(es, n) == [i \in 1 .. n |-> StepOf(es[i])]

\* A cell holds one of the values it has held.
Held(t, c, h) ==
    /\ c \in [Cells(t) -> Values \cup {NoValue}] /\ h \in [Cells(t) -> SUBSET (Values \cup {NoValue})]
    /\ \A n \in Cells(t) : c[n] \in h[n]

\* The first n steps of the walk are written, with the values in vs.
Logged(t, h, data, doc, vs, n) ==
    /\ vs \in Seq(Values \cup {NoValue}) /\ Len(vs) = n /\ n \in 0 .. Len(Walk[t])
    /\ doc.events = [i \in 1 .. n |-> EventOf(Walk[t][i], vs[i])]
    /\ doc.data = Picked(vs, {i \in 1 .. n : vs[i] # NoValue})
    /\ \A i \in 1 .. n :
           vs[i] \in IF data /\ Walk[t][i].t = "Enter" THEN h[NodeAt(Walk[t], i)] ELSE {NoValue}

\* n events have been read, and all that have arrived can be read.
Reading(es, n, other, s) ==
    /\ AllGood(es) /\ n \in 0 .. Len(es)
    /\ other => n = Len(es) /\ n <= MaxEvents
    /\ Built(s, n, StepsOf(es, n))

\* If as many nodes are left as entered, the result is the tree of the events.
Finished(es, res) ==
    /\ AllGood(es)
    /\ Balanced(es) => \E t : res = <<t>> /\ Makes(es, t)

DocType == document \in [events : Seq(Events), data : Seq(Values)]

StageInv ==
    /\ stage \in {"idle", "writing", "reading", "read", "done", "failed"}
    /\ foreign \in BOOLEAN /\ with_data \in BOOLEAN
    /\ stage \in {"idle", "writing"} => ~ foreign /\ stack = Builder!Empty /\ phase = "building"
    /\ stage = "idle" => walked = 0 /\ document = Empty

LogInv ==
    ~ foreign /\ stage # "idle" =>
        \E vs : Logged(tree, held, with_data, document, vs,
                       IF stage = "writing" THEN walked ELSE Len(Walk[tree]))

ReadInv == stage = "reading" /\ phase = "building" => Reading(document.events, walked, foreign, stack)

FinishInv ==
    stage \in {"read", "done"} =>
        Finished(document.events, result) /\ (~ foreign => result = <<tree>>)

Inv ==
    /\ tree \in Trees /\ Held(tree, cell, held) /\ DocType
    /\ StageInv /\ LogInv /\ ReadInv /\ FinishInv
    /\ TreeRoundTrip /\ DataRoundTrip /\ AcceptedFaithful

----------------------------------------------------------------------------
(* What the parts of the invariant say *)

LEMMA TreeOf == ASSUME NEW t \in Trees
                PROVE  /\ MaxSteps \in Nat /\ t \in AllTrees /\ ~ IsToken(t) /\ Len(Walk[t]) <= MaxSteps
                       /\ Walk[t] \in Seq(Step) /\ Walk[t] \in Seq(Proper)
<1>1. MaxSteps \in Nat /\ t \in AllTrees /\ ~ IsToken(t) /\ Len(Walk[t]) <= MaxSteps
  BY SerializationAssumption
<1> QED
  BY <1>1, WalkType, WalkProper

\* Each step into a node has a cell.
LEMMA CellOfStep ==
    ASSUME NEW t \in Trees, NEW i \in 1 .. Len(Walk[t]), Walk[t][i].t = "Enter"
    PROVE  NodeAt(Walk[t], i) \in Cells(t)
<1>1. PICK w, n, p : w = Walk[t] /\ w \in Seq(Step) /\ n = Len(w) /\ n \in Nat /\ DOMAIN w = 1 .. n /\ p = Formed(w, "Enter")
  <2>1. Walk[t] \in Seq(Step)
    BY TreeOf
  <2>2. Len(Walk[t]) \in Nat /\ DOMAIN Walk[t] = 1 .. Len(Walk[t])
    BY <2>1
  <2> QED
    BY <2>1, <2>2, Zenon
<1>2. \A j \in 1 .. n : j \in p <=> w[j].t = "Enter"
  BY <1>1, Zenon DEF Formed
<1>3. Holds(Nodes(t), w, p, n)
  BY <1>1, FormsCounted DEF Nodes
<1>4. i \in 1 .. n /\ i \in p
  BY <1>1, <1>2
<1>5. Count(p, i) \in Cells(t)
  BY <1>3, <1>4 DEF Holds, Cells
<1>6. NodeAt(w, i) = Count(p, i)
  <2>1. \A j \in 1 .. i : j \in 1 .. n
    BY <1>1
  <2>2. {j \in 1 .. i : w[j].t = "Enter"} = {j \in 1 .. i : j \in p}
    BY <1>2, <2>1, Zenon
  <2> QED
    BY <2>2, Zenon DEF NodeAt, Count
<1> QED
  BY <1>1, <1>5, <1>6, Zenon

LEMMA LogGood ==
    ASSUME NEW t \in Trees, NEW h, NEW data, NEW doc, NEW vs, NEW n, Logged(t, h, data, doc, vs, n)
    PROVE  /\ AllGood(doc.events) /\ Len(doc.events) = n /\ n \in 0 .. Len(Walk[t]) /\ Len(Walk[t]) \in Nat
           /\ \A i \in 1 .. n : /\ StepOf(doc.events[i]) = Walk[t][i] /\ doc.events[i] = EventOf(Walk[t][i], vs[i])
                                /\ (doc.events[i].t = "EnterNode" <=> Walk[t][i].t = "Enter")
                                /\ doc.events[i].t = "EnterNode" => doc.events[i].has_data = (vs[i] # NoValue)
<1>1. PICK w, es : w = Walk[t] /\ w \in Seq(Proper) /\ n \in 0 .. Len(w) /\ es = doc.events
                   /\ es = [i \in 1 .. n |-> EventOf(w[i], vs[i])]
  BY TreeOf DEF Logged
<1>2. Len(w) \in Nat /\ n \in Nat /\ \A i \in 1 .. n : w[i] \in Proper
  BY <1>1
<1>3. \A i \in 1 .. n : es[i] = EventOf(w[i], vs[i])
  BY <1>1, Zenon
<1>4. \A i \in 1 .. n : /\ Good(es[i]) /\ StepOf(es[i]) = w[i]
                        /\ w[i].t = "Enter" => es[i].has_data = (vs[i] # NoValue)
  BY <1>2, <1>3, StepGood
<1>5. \A i \in 1 .. n : es[i] \in Events /\ (w[i].t = "Enter" <=> es[i].t = "EnterNode")
  <2>1. \A i \in 1 .. n : es[i] \in Events
    BY <1>4, Zenon DEF Good
  <2>2. \A i \in 1 .. n : StepOf(es[i]).t = "Enter" <=> es[i].t = "EnterNode"
    BY <1>4, GoodStep
  <2> QED
    BY <1>4, <2>1, <2>2, Zenon
<1>6. es \in Seq(Events) /\ Len(es) = n
  <2>1. \A i \in 1 .. n : EventOf(w[i], vs[i]) \in Events
    BY <1>3, <1>5, Zenon
  <2> QED
    BY <1>1, <1>2, <2>1
<1>7. AllGood(es)
  BY <1>4, <1>6, Zenon DEF AllGood
<1> QED
  BY <1>1, <1>2, <1>3, <1>4, <1>5, <1>6, <1>7, Zenon

\* When the walk is written, the document says what it did.
LEMMA LogMakes ==
    ASSUME NEW t \in Trees, NEW h, NEW data, NEW doc, NEW vs, NEW n, Logged(t, h, data, doc, vs, n),
           n = Len(Walk[t])
    PROVE  Makes(doc.events, t) /\ Written(doc.events, t, vs, doc.data)
<1>1. PICK w, es : w = Walk[t] /\ w \in Seq(Step) /\ es = doc.events /\ n = Len(w) /\ n \in Nat /\ DOMAIN w = 1 .. n
  <2>1. Walk[t] \in Seq(Step)
    BY TreeOf
  <2>2. Len(Walk[t]) \in Nat /\ DOMAIN Walk[t] = 1 .. Len(Walk[t])
    BY <2>1
  <2> QED
    BY <2>1, <2>2, Zenon
<1>2. /\ AllGood(es) /\ Len(es) = n
      /\ \A i \in 1 .. n : /\ StepOf(es[i]) = w[i] /\ (es[i].t = "EnterNode" <=> w[i].t = "Enter")
                           /\ es[i].t = "EnterNode" => es[i].has_data = (vs[i] # NoValue)
  BY <1>1, LogGood
<1>3. w = [i \in 1 .. n |-> StepOf(es[i])]
  <2>1. w = [i \in 1 .. n |-> w[i]]
    BY <1>1
  <2>2. [i \in 1 .. n |-> w[i]] = [i \in 1 .. n |-> StepOf(es[i])]
    BY <1>2, Zenon
  <2> QED
    BY <2>1, <2>2, Zenon
<1>4. t \in AllTrees
  BY TreeOf
<1>5. Makes(es, t)
  BY <1>1, <1>2, <1>3, <1>4, Zenon DEF Makes, AllGood
<1>6. /\ vs \in Seq(Values \cup {NoValue}) /\ Len(vs) = n
      /\ doc.data = Picked(vs, {i \in 1 .. n : vs[i] # NoValue})
      /\ \A i \in 1 .. n : vs[i] \in IF data /\ w[i].t = "Enter" THEN h[NodeAt(w, i)] ELSE {NoValue}
  BY <1>1, Zenon DEF Logged
<1>7. \A i \in 1 .. n : es[i].t # "EnterNode" => vs[i] = NoValue
  BY <1>2, <1>6
<1>8. Written(es, t, vs, doc.data)
  BY <1>1, <1>2, <1>5, <1>6, <1>7, Zenon DEF Written
<1> QED
  BY <1>1, <1>5, <1>8

\* The log stays true when cells come to hold more values.
LEMMA LogHeld ==
    ASSUME NEW t \in Trees, NEW h, NEW g, NEW data, NEW doc, NEW vs, NEW n, Logged(t, h, data, doc, vs, n),
           \A k \in Cells(t) : h[k] \subseteq g[k]
    PROVE  Logged(t, g, data, doc, vs, n)
<1>1. PICK w : w = Walk[t] /\ n \in 0 .. Len(w) /\ Len(w) \in Nat
  BY LogGood
<1>2. \A i \in 1 .. n : vs[i] \in IF data /\ w[i].t = "Enter" THEN h[NodeAt(w, i)] ELSE {NoValue}
  BY <1>1, Zenon DEF Logged
<1>3. ASSUME NEW i \in 1 .. n
      PROVE  vs[i] \in IF data /\ w[i].t = "Enter" THEN g[NodeAt(w, i)] ELSE {NoValue}
  <2>1. CASE data /\ w[i].t = "Enter"
    <3>1. i \in 1 .. Len(w)
      BY <1>1
    <3>2. NodeAt(w, i) \in Cells(t)
      BY <1>1, <2>1, <3>1, CellOfStep
    <3>3. vs[i] \in h[NodeAt(w, i)]
      BY <1>2, <2>1
    <3> QED
      BY <2>1, <3>2, <3>3
  <2>2. CASE ~ (data /\ w[i].t = "Enter")
    BY <1>2, <2>2
  <2> QED
    BY <2>1, <2>2
<1> QED
  BY <1>1, <1>3, Zenon DEF Logged

\* One more step is written.
LEMMA LogStep ==
    ASSUME NEW t \in Trees, NEW h, NEW data, NEW doc, NEW vs, NEW n, Logged(t, h, data, doc, vs, n),
           n < Len(Walk[t]), NEW step, step = Walk[t][n + 1], NEW v \in Values \cup {NoValue},
           v \in IF data /\ step.t = "Enter" THEN h[NodeAt(Walk[t], n + 1)] ELSE {NoValue}
    PROVE  Logged(t, h, data, Pushed(doc, step, v), Append(vs, v), n + 1)
<1>1. PICK w, V : w = Walk[t] /\ V = Values \cup {NoValue}
  OBVIOUS
<1>2. n \in Nat /\ n + 1 \in 0 .. Len(w) /\ Len(w) \in Nat
  <2>1. n \in 0 .. Len(Walk[t]) /\ Len(Walk[t]) \in Nat
    BY LogGood
  <2> QED
    BY <1>1, <2>1
<1>3. /\ vs \in Seq(V) /\ Len(vs) = n
      /\ doc.events = [i \in 1 .. n |-> EventOf(w[i], vs[i])]
      /\ doc.data = Picked(vs, {i \in 1 .. n : vs[i] # NoValue})
      /\ \A i \in 1 .. n : vs[i] \in IF data /\ w[i].t = "Enter" THEN h[NodeAt(w, i)] ELSE {NoValue}
  BY <1>1, Zenon DEF Logged
<1>4. PICK us : us = Append(vs, v) /\ us \in Seq(V) /\ Len(us) = n + 1 /\ us[n + 1] = v /\ \A i \in 1 .. n : us[i] = vs[i]
  <2>1. vs \in Seq(V) /\ v \in V /\ Len(vs) = n
    BY <1>1, <1>3
  <2>2. /\ Append(vs, v) \in Seq(V) /\ Len(Append(vs, v)) = n + 1 /\ Append(vs, v)[n + 1] = v
        /\ \A i \in 1 .. n : Append(vs, v)[i] = vs[i]
    BY <1>2, <2>1, AppendProperties
  <2> QED
    BY <2>2, Zenon
<1>5. Append(doc.events, EventOf(step, v)) = [i \in 1 .. n + 1 |-> EventOf(w[i], us[i])]
  <2>1. PICK es, e : es = doc.events /\ e = EventOf(step, v) /\ es = [i \in 1 .. n |-> EventOf(w[i], vs[i])]
    BY <1>3
  <2>2. PICK fs : fs = [i \in 1 .. n + 1 |-> EventOf(w[i], us[i])]
    OBVIOUS
  <2>3. \A i \in 1 .. n : i \in 1 .. n + 1 /\ fs[i] = es[i]
    <3>1. \A i \in 1 .. n : i \in 1 .. n + 1
      BY <1>2
    <3>2. \A i \in 1 .. n : fs[i] = EventOf(w[i], us[i]) /\ es[i] = EventOf(w[i], vs[i])
      BY <2>1, <2>2, <3>1, Zenon
    <3> QED
      BY <1>4, <3>1, <3>2, Zenon
  <2>4. fs[n + 1] = e
    <3>1. n + 1 \in 1 .. n + 1
      BY <1>2
    <3> QED
      BY <1>1, <1>4, <2>1, <2>2, <3>1, Zenon
  <2>5. Append(es, e) = fs
    <3>1. PICK T : \A i \in 1 .. n + 1 : fs[i] \in T
      <4>1. \A i \in 1 .. n + 1 : fs[i] \in {fs[j] : j \in 1 .. n + 1}
        OBVIOUS
      <4> QED
        BY <4>1, Zenon
    <3>2. fs = [i \in 1 .. n + 1 |-> fs[i]] /\ es = [i \in 1 .. n |-> es[i]]
      BY <2>1, <2>2
    <3>3. fs \in Seq(T) /\ Len(fs) = n + 1
      BY <1>2, <3>1, <3>2
    <3>4. es \in Seq(T) /\ Len(es) = n
      BY <1>2, <2>3, <3>1, <3>2
    <3>5. e \in T
      <4>1. n + 1 \in 1 .. n + 1
        BY <1>2
      <4> QED
        BY <2>4, <3>1, <4>1
    <3>6. PICK gs : gs = Append(es, e) /\ gs \in Seq(T) /\ Len(gs) = n + 1 /\ gs[n + 1] = e /\ \A i \in 1 .. n : gs[i] = es[i]
      <4>1. /\ Append(es, e) \in Seq(T) /\ Len(Append(es, e)) = n + 1 /\ Append(es, e)[n + 1] = e
            /\ \A i \in 1 .. n : Append(es, e)[i] = es[i]
        BY <3>4, <3>5, AppendProperties
      <4> QED
        BY <4>1, Zenon
    <3>7. \A i \in 1 .. Len(gs) : gs[i] = fs[i]
      <4> SUFFICES ASSUME NEW i \in 1 .. n + 1 PROVE gs[i] = fs[i]
        BY <3>6
      <4>1. i = n + 1 \/ i \in 1 .. n
        BY <1>2
      <4> QED
        BY <2>3, <2>4, <3>6, <4>1
    <3>8. gs = fs
      BY <3>3, <3>6, <3>7, SameSeq
    <3> QED
      BY <3>6, <3>8
  <2> QED
    BY <2>1, <2>2, <2>5
<1>6. (IF v = NoValue THEN doc.data ELSE Append(doc.data, v)) = Picked(us, {i \in 1 .. n + 1 : us[i] # NoValue})
  <2>1. PICK p, q : p = {i \in 1 .. n : vs[i] # NoValue} /\ q = {i \in 1 .. n + 1 : us[i] # NoValue}
    OBVIOUS
  <2>2. n + 1 \in q <=> v # NoValue
    BY <1>2, <1>4, <2>1
  <2>3. \A i \in 1 .. n : i \in q <=> i \in p
    BY <1>2, <1>4, <2>1
  <2>4. PICK d : d = doc.data /\ d = Picked(vs, p)
    BY <1>3, <2>1, Zenon
  <2>5. d = Picked(vs, q)
    <3>1. vs \in Seq(V) /\ Len(vs) = n
      BY <1>3
    <3> QED
      BY <2>3, <2>4, <3>1, PickedSame
  <2>6. Picked(Append(vs, v), q) = IF n + 1 \in q THEN Append(Picked(vs, q), v) ELSE Picked(vs, q)
    <3>1. vs \in Seq(V) /\ v \in V /\ Len(vs) = n
      BY <1>1, <1>3
    <3> QED
      BY <3>1, PickedAppend
  <2> QED
    BY <1>4, <2>1, <2>2, <2>4, <2>5, <2>6, Zenon
<1>7. \A i \in 1 .. n + 1 : us[i] \in IF data /\ w[i].t = "Enter" THEN h[NodeAt(w, i)] ELSE {NoValue}
  <2> SUFFICES ASSUME NEW i \in 1 .. n + 1
               PROVE  us[i] \in IF data /\ w[i].t = "Enter" THEN h[NodeAt(w, i)] ELSE {NoValue}
    OBVIOUS
  <2>1. CASE i = n + 1
    BY <1>1, <1>4, <2>1, Zenon
  <2>2. CASE i \in 1 .. n
    BY <1>3, <1>4, <2>2, Zenon
  <2>3. i = n + 1 \/ i \in 1 .. n
    BY <1>2
  <2> QED
    BY <2>1, <2>2, <2>3
<1>8. PICK new : new = Pushed(doc, step, v)
  OBVIOUS
<1>9. /\ new.events = Append(doc.events, EventOf(step, v))
      /\ new.data = IF v = NoValue THEN doc.data ELSE Append(doc.data, v)
  BY <1>8 DEF Pushed
<1>10. /\ new.events = [i \in 1 .. n + 1 |-> EventOf(w[i], us[i])]
       /\ new.data = Picked(us, {i \in 1 .. n + 1 : us[i] # NoValue})
  BY <1>5, <1>6, <1>9, Zenon
<1> QED
  BY <1>1, <1>2, <1>4, <1>7, <1>8, <1>10, Zenon DEF Logged

----------------------------------------------------------------------------
(* Reading *)

LEMMA StepsType ==
    ASSUME NEW es, AllGood(es), NEW n \in 0 .. Len(es)
    PROVE  /\ StepsOf(es, n) \in Seq(Step) /\ Len(StepsOf(es, n)) = n
           /\ \A i \in 1 .. n : StepsOf(es, n)[i] = StepOf(es[i])
<1>1. es \in Seq(Events) /\ Len(es) \in Nat /\ n \in Nat /\ \A i \in 1 .. n : Good(es[i])
  <2>1. es \in Seq(Events) /\ \A i \in 1 .. Len(es) : Good(es[i])
    BY DEF AllGood
  <2>2. Len(es) \in Nat
    BY <2>1
  <2> QED
    BY <2>1, <2>2
<1>2. \A i \in 1 .. n : StepOf(es[i]) \in Step
  BY <1>1, GoodStep
<1>3. PICK p : p = [i \in 1 .. n |-> StepOf(es[i])]
  OBVIOUS
<1>4. p \in Seq(Step) /\ Len(p) = n /\ \A i \in 1 .. n : p[i] = StepOf(es[i])
  BY <1>1, <1>2, <1>3
<1> QED
  BY <1>3, <1>4, Zenon DEF StepsOf

\* The next event adds its step.
LEMMA StepsNext ==
    ASSUME NEW es, AllGood(es), NEW n \in 0 .. Len(es), NEW fs, AllGood(fs), n + 1 \in 0 .. Len(fs),
           \A i \in 1 .. n : fs[i] = es[i]
    PROVE  StepsOf(fs, n + 1) = StepsOf(es, n) \o <<StepOf(fs[n + 1])>>
<1>1. PICK m : m = n + 1 /\ m \in 0 .. Len(fs) /\ m \in 1 .. m /\ n \in Nat /\ m \in Nat
  <2>1. Len(es) \in Nat
    <3>1. es \in Seq(Events)
      BY DEF AllGood
    <3> QED
      BY <3>1
  <2> QED
    BY <2>1
<1>2. PICK p, q, x : p = StepsOf(es, n) /\ q = StepsOf(fs, m) /\ x = StepOf(fs[m])
  OBVIOUS
<1>3. p \in Seq(Step) /\ Len(p) = n /\ \A i \in 1 .. n : p[i] = StepOf(es[i])
  BY <1>2, StepsType
<1>4. q \in Seq(Step) /\ Len(q) = m /\ \A i \in 1 .. m : q[i] = StepOf(fs[i])
  BY <1>1, <1>2, StepsType
<1>5. x \in Step /\ q[m] = x
  <2>1. q[m] = x
    BY <1>1, <1>2, <1>4, Zenon
  <2>2. q[m] \in Step
    BY <1>1, <1>4
  <2> QED
    BY <2>1, <2>2
<1>6. \A i \in 1 .. n : q[i] = p[i]
  <2>1. \A i \in 1 .. n : i \in 1 .. m
    BY <1>1
  <2> QED
    BY <1>3, <1>4, <2>1, Zenon
<1>7. PICK r : r = p \o <<x>> /\ r \in Seq(Step) /\ Len(r) = n + 1 /\ r[n + 1] = x /\ \A i \in 1 .. n : r[i] = p[i]
  <2>1. p \o <<x>> = Append(p, x)
    BY <1>3, <1>5
  <2>2. /\ Append(p, x) \in Seq(Step) /\ Len(Append(p, x)) = n + 1 /\ Append(p, x)[n + 1] = x
        /\ \A i \in 1 .. n : Append(p, x)[i] = p[i]
    BY <1>3, <1>5, AppendProperties
  <2> QED
    BY <2>1, <2>2, Zenon
<1>8. \A i \in 1 .. Len(q) : q[i] = r[i]
  <2> SUFFICES ASSUME NEW i \in 1 .. m PROVE q[i] = r[i]
    BY <1>4
  <2>1. i = m \/ i \in 1 .. n
    BY <1>1
  <2> QED
    BY <1>1, <1>5, <1>6, <1>7, <2>1
<1>9. q = r
  BY <1>1, <1>4, <1>7, <1>8, SameSeq
<1> QED
  BY <1>1, <1>2, <1>7, <1>9, Zenon

LEMMA GoodOrPanics ==
    ASSUME NEW e \in Events
    PROVE  ~ EventPanics(e) <=> Good(e) /\ (e.t = "LeaveNode" => Builder!Depth # 1)
<1>1. /\ e.t \in {"EnterNode", "Token", "LeaveNode"} /\ Len(Variants) \in Nat
      /\ e.t # "LeaveNode" => e.kind \in Nat
  <2>1. Len(Variants) \in Nat
    BY SerializationAssumption
  <2> QED
    BY <2>1, EventForms
<1>2. e.t # "LeaveNode" => (~ FromRawPanics(e.kind) <=> e.kind < Len(Variants))
  BY <1>1 DEF FromRawPanics
<1>3. CASE e.t = "Token"
  <2>1. e.t # "LeaveNode"
    BY <1>3
  <2> QED
    BY <1>2, <1>3, <2>1, SerializationAssumption, Zenon DEF EventPanics, Good
<1>4. CASE e.t # "Token"
  BY <1>2, <1>4, Zenon DEF EventPanics, Good
<1> QED
  BY <1>3, <1>4

\* The call of the builder that an event makes.
Call(e) ==
    \/ e.t = "EnterNode" /\ Builder!StartNode(FromRaw(e.kind))
    \/ e.t = "Token" /\ Builder!Record(FromRaw(e.kind), e.payload.bytes)
    \/ e.t = "LeaveNode" /\ Builder!FinishNode

LEMMA CallBuilds ==
    ASSUME MaxSteps \in Nat, NEW n, NEW p, Built(stack, n, p), n < MaxSteps, NEW e, Good(e),
           e.t = "LeaveNode" => Builder!Depth # 1, Call(e)
    PROVE  Built(stack', n + 1, p \o <<StepOf(e)>>) /\ phase' = phase /\ result' = result
<1>1. e.t \in {"EnterNode", "Token", "LeaveNode"}
  BY EventForms DEF Good
<1>2. CASE e.t = "EnterNode"
  <2>1. Builder!StartNode(FromRaw(e.kind))
    BY <1>2 DEF Call
  <2>2. PICK k \in Kinds : k = FromRaw(e.kind)
    BY <1>2, GoodStep
  <2>3. stack' = Append(stack, [kind |-> k, trees |-> <<>>]) /\ phase' = phase /\ result' = result
    BY <2>1, <2>2 DEF Builder!StartNode
  <2>4. Built(Append(stack, [kind |-> k, trees |-> <<>>]), n + 1, p \o <<EnterStep(k)>>)
    BY BuiltEnter
  <2>5. StepOf(e) = EnterStep(k)
    BY <1>2, <2>2, Zenon DEF StepOf
  <2> QED
    BY <2>3, <2>4, <2>5, Zenon
<1>3. CASE e.t = "Token"
  <2>1. Builder!Record(FromRaw(e.kind), e.payload.bytes)
    BY <1>3 DEF Call
  <2>2. PICK k, x : k = FromRaw(e.kind) /\ x = TextRead(k, e.payload.bytes) /\ [kind |-> k, text |-> x] \in Tokens
    BY <1>3, GoodToken
  <2>3. PICK t \in Tokens : t = [kind |-> k, text |-> x]
    BY <2>2
  <2>4. stack' = Builder!Recorded(stack, t) /\ phase' = phase /\ result' = result
    BY <2>1, <2>2, <2>3, Zenon DEF Builder!Record, TextRead
  <2>5. Built(Builder!Recorded(stack, t), n + 1, p \o <<TokenStep(t.kind, t.text)>>)
    BY BuiltToken
  <2>6. t.kind = k /\ t.text = x
    BY <2>3
  <2>7. StepOf(e) = TokenStep(k, x)
    <3>1. e.t # "EnterNode"
      BY <1>3
    <3> QED
      BY <1>3, <2>2, <3>1, Zenon DEF StepOf
  <2> QED
    BY <2>4, <2>5, <2>6, <2>7, Zenon
<1>4. CASE e.t = "LeaveNode"
  <2>1. Builder!FinishNode
    BY <1>4 DEF Call
  <2>2. PICK front, last : Ends(stack, front, last, Frame)
    BY BuiltEnds
  <2>3. front = SubSeq(stack, 1, Builder!Depth - 1) /\ last = Builder!Top
    BY <2>2 DEF Ends, Builder!Depth, Builder!Top
  <2>4. /\ stack' = Builder!Recorded(front, [kind |-> last.kind, trees |-> last.trees])
        /\ phase' = phase /\ result' = result
    BY <2>1, <2>3, Zenon DEF Builder!FinishNode
  <2>5. Len(stack) # 1
    BY <1>4 DEF Builder!Depth
  <2>6. Built(Builder!Recorded(front, [kind |-> last.kind, trees |-> last.trees]), n + 1, p \o <<LeaveStep>>)
    BY <2>2, <2>5, BuiltLeave
  <2>7. StepOf(e) = LeaveStep
    BY <1>4 DEF StepOf
  <2> QED
    BY <2>4, <2>6, <2>7, Zenon
<1> QED
  BY <1>1, <1>2, <1>3, <1>4

LEMMA BalancedIsEven ==
    ASSUME NEW es, AllGood(es), Balanced(es)
    PROVE  Even(StepsOf(es, Len(es)))
<1>1. PICK n : n = Len(es) /\ n \in Nat /\ n \in 0 .. Len(es) /\ es \in Seq(Events) /\ DOMAIN es = 1 .. n
  <2>1. es \in Seq(Events)
    BY DEF AllGood
  <2>2. Len(es) \in Nat /\ DOMAIN es = 1 .. Len(es) /\ Len(es) \in 0 .. Len(es)
    BY <2>1
  <2> QED
    BY <2>1, <2>2, Zenon
<1>2. PICK p : p = StepsOf(es, n) /\ p \in Seq(Step) /\ Len(p) = n /\ \A i \in 1 .. n : p[i] = StepOf(es[i])
  BY <1>1, StepsType
<1>3. DOMAIN p = 1 .. n
  BY <1>2
<1>4. \A i \in 1 .. n : /\ p[i].t = "Enter" <=> es[i].t = "EnterNode"
                        /\ p[i].t = "Leave" <=> es[i].t = "LeaveNode"
  <2>1. \A i \in 1 .. n : Good(es[i])
    BY <1>1 DEF AllGood
  <2> QED
    BY <1>2, <2>1, GoodStep
<1>5. ASSUME NEW a, NEW b, \A i \in 1 .. n : p[i].t = a <=> es[i].t = b
      PROVE  Len(OfForm(p, a)) = Len(OfForm(es, b))
  <2>1. Len(OfForm(p, a)) = Count(Formed(p, a), n) /\ Len(OfForm(es, b)) = Count(Formed(es, b), n)
    BY <1>1, <1>2, FormsCounted
  <2>2. \A i \in 1 .. n : i \in Formed(p, a) <=> i \in Formed(es, b)
    BY <1>1, <1>3, <1>5, Zenon DEF Formed
  <2> QED
    BY <1>1, <2>1, <2>2, CountSame
<1>6. Len(OfForm(p, "Enter")) = Len(OfForm(es, "EnterNode")) /\ Len(OfForm(p, "Leave")) = Len(OfForm(es, "LeaveNode"))
  BY <1>4, <1>5
<1>7. Even(p)
  BY <1>6, Zenon DEF Even, Balanced
<1> QED
  BY <1>1, <1>2, <1>7, Zenon

\* The one tree that is left of a balanced document is the tree of its events.
LEMMA BalancedMakes ==
    ASSUME MaxSteps \in Nat, NEW s, NEW es, AllGood(es), Built(s, Len(es), StepsOf(es, Len(es))),
           Balanced(es), Len(Builder!TreesOn(SubSeq(s, 1, Len(s)))) = 1
    PROVE  \E t : Builder!TreesOn(SubSeq(s, 1, Len(s))) = <<t>> /\ Makes(es, t)
<1>1. PICK n, p : n = Len(es) /\ p = StepsOf(es, n) /\ Built(s, n, p) /\ Even(p)
  BY BalancedIsEven
<1>2. Len(s) = 1
  BY <1>1, EvenIsOne
<1>3. PICK ts \in Seq(AllTrees) : ts = Builder!TreesOn(SubSeq(s, 1, Len(s))) /\ Walks(ts) = p /\ Len(ts) = 1
  <2>1. /\ s[1].trees \in Seq(AllTrees) /\ Walks(s[1].trees) = p
        /\ Builder!TreesOn(s) = s[1].trees /\ SubSeq(s, 1, Len(s)) = s
    BY <1>1, <1>2, BuiltOne
  <2> QED
    BY <2>1, Zenon
<1>4. PICK t \in AllTrees : ts = <<t>>
  <2>1. PICK T : T = AllTrees
    OBVIOUS
  <2>2. ts \in Seq(T) /\ Len(ts) = 1
    BY <1>3, <2>1
  <2>3. ts[1] \in T /\ ts = <<ts[1]>>
    BY <2>2
  <2> QED
    BY <2>1, <2>3
<1>5. Walk[t] = [i \in 1 .. Len(es) |-> StepOf(es[i])]
  <2>1. Walk[t] = p
    BY <1>3, <1>4, WalksOfOne
  <2> QED
    BY <1>1, <2>1, Zenon DEF StepsOf
<1> QED
  BY <1>3, <1>4, <1>5, Zenon DEF Makes, AllGood

----------------------------------------------------------------------------
(* The invariant holds at first, and every action keeps it *)

LEMMA NothingRead == AllGood(<<>>) /\ Built(Builder!Empty, 0, StepsOf(<<>>, 0)) /\ Len(<<>>) = 0
<1>1. AllGood(<<>>)
  BY DEF AllGood
<1>2. StepsOf(<<>>, 0) = <<>>
  BY DEF StepsOf
<1>3. MaxSteps \in Nat
  BY SerializationAssumption
<1> QED
  BY <1>1, <1>2, <1>3, BuiltFirst

LEMMA InitInv == ASSUME Init PROVE Inv
<1>1. PICK C, V : C = Cells(tree) /\ V = Values
  OBVIOUS
<1>2. Held(tree, cell, held)
  <2>1. cell = [n \in C |-> NoValue] /\ held = [n \in C |-> {NoValue}]
    BY <1>1 DEF Init
  <2>2. /\ cell \in [C -> V \cup {NoValue}] /\ held \in [C -> SUBSET (V \cup {NoValue})]
        /\ \A n \in C : cell[n] \in held[n]
    BY <2>1
  <2> QED
    BY <1>1, <2>2, Zenon DEF Held
<1>3. /\ tree \in Trees /\ with_data = FALSE /\ document = Empty /\ walked = 0
      /\ stack = Builder!Empty /\ phase = "building" /\ result = <<>>
  BY Zenon DEF Init, Builder!TInit
<1>4. (foreign = FALSE /\ stage = "idle") \/ (foreign = TRUE /\ stage = "reading")
  BY Zenon DEF Init
<1>5. document.events = <<>> /\ document.data = <<>> /\ DocType
  BY <1>3 DEF Empty, DocType
<1>6. StageInv
  BY <1>3, <1>4 DEF StageInv
<1>7. LogInv
  BY <1>4 DEF LogInv
<1>8. ReadInv
  <2>1. MaxEvents \in Nat
    BY SerializationAssumption
  <2>2. 0 \in 0 .. 0 /\ 0 <= MaxEvents
    BY <2>1
  <2> QED
    BY <1>3, <1>5, <2>2, NothingRead, Zenon DEF ReadInv, Reading
<1>9. stage \notin {"read", "done", "failed"} /\ phase # "panicked"
  BY <1>3, <1>4
<1>10. FinishInv /\ TreeRoundTrip /\ DataRoundTrip /\ AcceptedFaithful
  BY <1>9 DEF FinishInv, TreeRoundTrip, DataRoundTrip, AcceptedFaithful
<1> QED
  BY <1>2, <1>3, <1>5, <1>6, <1>7, <1>8, <1>10 DEF Inv

LEMMA WriteInv ==
    ASSUME Inv, NEW n \in Cells(tree), NEW value \in Values \cup {NoValue}, Write(n, value)
    PROVE  Inv'
<1>1. /\ UNCHANGED <<tree, stage, foreign, with_data, document, walked, restored>>
      /\ UNCHANGED <<stack, saved, phase, result>> /\ stage \in {"idle", "writing"}
  BY DEF Write, builder
<1>2. stage \notin {"reading", "read", "done", "failed"}
  BY <1>1
<1>3. PICK C, V, h : C = Cells(tree) /\ V = Values \cup {NoValue} /\ h = held'
  OBVIOUS
<1>4. /\ cell \in [C -> V] /\ held \in [C -> SUBSET V] /\ (\A k \in C : cell[k] \in held[k])
  BY <1>3, Zenon DEF Inv, Held
<1>5. cell' = [cell EXCEPT ![n] = value] /\ held' = [held EXCEPT ![n] = held[n] \cup {value}]
  BY DEF Write
<1>6. /\ cell' \in [C -> V] /\ held' \in [C -> SUBSET V] /\ (\A k \in C : cell'[k] \in held'[k])
      /\ \A k \in C : held[k] \subseteq held'[k]
  BY <1>3, <1>4, <1>5
<1>7. Held(tree, cell, held)'
  BY <1>1, <1>3, <1>6, Zenon DEF Held
<1>8. LogInv'
  <2>1. SUFFICES ASSUME ~ foreign, stage = "writing"
                 PROVE  \E vs : Logged(tree, h, with_data, document, vs, walked)
    BY <1>1, <1>2, <1>3, Zenon DEF LogInv
  <2>2. PICK vs : Logged(tree, held, with_data, document, vs, walked)
    BY <2>1, Zenon DEF Inv, LogInv
  <2>3. tree \in Trees
    BY DEF Inv
  <2>4. \A k \in Cells(tree) : held[k] \subseteq h[k]
    BY <1>3, <1>6
  <2> QED
    BY <2>2, <2>3, <2>4, LogHeld
<1>9. StageInv' /\ DocType' /\ tree' \in Trees
  BY <1>1, Zenon DEF Inv, StageInv, DocType
<1>10. ReadInv' /\ FinishInv' /\ TreeRoundTrip' /\ DataRoundTrip' /\ AcceptedFaithful'
  <2>1. stage' \notin {"reading", "read", "done", "failed"} /\ phase' # "panicked"
    <3>1. phase = "building"
      BY <1>1 DEF Inv, StageInv
    <3> QED
      BY <1>1, <1>2, <3>1
  <2> QED
    BY <2>1 DEF ReadInv, FinishInv, TreeRoundTrip, DataRoundTrip, AcceptedFaithful
<1> QED
  BY <1>7, <1>8, <1>9, <1>10 DEF Inv

LEMMA SerializeInv ==
    ASSUME Inv, NEW data \in BOOLEAN, Serialize(data)
    PROVE  Inv'
<1>1. /\ UNCHANGED <<tree, cell, foreign, document, walked, restored>>
      /\ UNCHANGED <<stack, saved, phase, result>>
      /\ stage = "idle" /\ stage' = "writing" /\ with_data' = data
      /\ held' = [n \in Cells(tree) |-> {cell[n]}]
  BY DEF Serialize, builder
<1>2. PICK C, V, t, h, vs : C = Cells(tree) /\ V = Values \cup {NoValue} /\ t = tree /\ h = held' /\ vs = <<>>
  OBVIOUS
<1>3. Held(tree, cell, held)'
  <2>1. cell \in [C -> V]
    BY <1>2, Zenon DEF Inv, Held
  <2>2. held' = [n \in C |-> {cell[n]}]
    BY <1>1, <1>2
  <2>3. held' \in [C -> SUBSET V] /\ \A n \in C : cell[n] \in held'[n]
    BY <2>1, <2>2
  <2> QED
    BY <1>1, <1>2, <2>1, <2>3, Zenon DEF Held
<1>4. walked = 0 /\ document = Empty /\ ~ foreign /\ stack = Builder!Empty /\ phase = "building"
  BY <1>1 DEF Inv, StageInv
<1>5. tree \in Trees /\ DocType
  BY DEF Inv
<1>6. Logged(t, h, data, document, vs, walked)
  <2>1. Len(Walk[t]) \in Nat
    <3>1. Walk[t] \in Seq(Step)
      BY <1>2, <1>5, TreeOf
    <3> QED
      BY <3>1
  <2>2. 0 \in 0 .. Len(Walk[t])
    BY <2>1
  <2>3. vs \in Seq(V) /\ Len(vs) = 0
    BY <1>2
  <2>4. document.events = <<>> /\ document.data = <<>>
    BY <1>4 DEF Empty
  <2>5. \A x : [i \in 1 .. 0 |-> x] = <<>>
    OBVIOUS
  <2>6. [i \in 1 .. 0 |-> EventOf(Walk[t][i], vs[i])] = <<>>
    OBVIOUS
  <2>7. Picked(vs, {i \in 1 .. 0 : vs[i] # NoValue}) = <<>>
    BY <1>2, PickedNone
  <2>8. \A i \in 1 .. 0 : vs[i] \in IF data /\ Walk[t][i].t = "Enter" THEN h[NodeAt(Walk[t], i)] ELSE {NoValue}
    OBVIOUS
  <2> QED
    BY <1>2, <1>4, <2>2, <2>3, <2>4, <2>6, <2>7, <2>8, Zenon DEF Logged
<1>7. LogInv'
  BY <1>1, <1>2, <1>6, Zenon DEF LogInv
<1>8. StageInv'
  <2>1. foreign \in BOOLEAN
    BY DEF Inv, StageInv
  <2> QED
    BY <1>1, <1>4, <2>1 DEF StageInv
<1>9. DocType' /\ tree' \in Trees
  BY <1>1, <1>5, Zenon DEF DocType
<1>10. ReadInv' /\ FinishInv' /\ TreeRoundTrip' /\ DataRoundTrip' /\ AcceptedFaithful'
  <2>1. stage' \notin {"reading", "read", "done", "failed"} /\ phase' # "panicked"
    BY <1>1, <1>4
  <2> QED
    BY <2>1 DEF ReadInv, FinishInv, TreeRoundTrip, DataRoundTrip, AcceptedFaithful
<1> QED
  BY <1>3, <1>7, <1>8, <1>9, <1>10 DEF Inv

LEMMA SerializeEventInv == ASSUME Inv, SerializeEvent PROVE Inv'
<1>1. /\ UNCHANGED <<tree, cell, held, stage, foreign, with_data, restored>>
      /\ UNCHANGED <<stack, saved, phase, result>>
      /\ stage = "writing" /\ walked < Len(Walk[tree]) /\ walked' = walked + 1
  BY DEF SerializeEvent, builder
<1>2. PICK step, n, v : /\ step = Walk[tree][walked + 1] /\ n = NodeAt(Walk[tree], walked + 1)
                        /\ v = IF with_data /\ step.t = "Enter" THEN cell[n] ELSE NoValue
                        /\ document' = Pushed(document, step, v)
  BY Zenon DEF SerializeEvent, GetData
<1>3. tree \in Trees /\ DocType /\ StageInv /\ Held(tree, cell, held) /\ LogInv
  BY Zenon DEF Inv
<1>4. ~ foreign /\ stack = Builder!Empty /\ phase = "building"
  BY <1>1, <1>3 DEF StageInv
<1>5. PICK vs : Logged(tree, held, with_data, document, vs, walked)
  BY <1>1, <1>3, <1>4, Zenon DEF LogInv
<1>6. walked + 1 \in 1 .. Len(Walk[tree])
  <2>1. walked \in 0 .. Len(Walk[tree]) /\ Len(Walk[tree]) \in Nat
    BY <1>3, <1>5, LogGood
  <2> QED
    BY <1>1, <2>1
<1>7. v \in Values \cup {NoValue} /\ v \in IF with_data /\ step.t = "Enter" THEN held[n] ELSE {NoValue}
  <2>1. CASE with_data /\ step.t = "Enter"
    <3>1. n \in Cells(tree)
      BY <1>2, <1>3, <1>6, <2>1, CellOfStep
    <3>2. cell[n] \in held[n]
      BY <1>3, <3>1, Zenon DEF Held
    <3>3. cell \in [Cells(tree) -> Values \cup {NoValue}]
      BY <1>3, Zenon DEF Held
    <3>4. cell[n] \in Values \cup {NoValue}
      BY <3>1, <3>3
    <3> QED
      BY <1>2, <2>1, <3>2, <3>4
  <2>2. CASE ~ (with_data /\ step.t = "Enter")
    BY <1>2, <2>2
  <2> QED
    BY <2>1, <2>2
<1>8. Logged(tree, held, with_data, document', Append(vs, v), walked + 1)
  <2>1. Logged(tree, held, with_data, Pushed(document, step, v), Append(vs, v), walked + 1)
    BY <1>1, <1>2, <1>3, <1>5, <1>7, LogStep
  <2> QED
    BY <1>2, <2>1, Zenon
<1>9. LogInv'
  BY <1>1, <1>8, Zenon DEF LogInv
<1>10. DocType'
  <2>1. document'.events \in Seq(Events)
    BY <1>3, <1>8, LogGood DEF AllGood
  <2>2. document.data \in Seq(Values)
    BY <1>3 DEF DocType
  <2>3. PICK es, ds : document' = [events |-> es, data |-> ds] /\ ds = IF v = NoValue THEN document.data ELSE Append(document.data, v)
    BY <1>2, Zenon DEF Pushed
  <2>4. ds \in Seq(Values)
    BY <1>7, <2>2, <2>3
  <2>5. es \in Seq(Events)
    BY <2>1, <2>3
  <2>6. document' \in [events : Seq(Events), data : Seq(Values)]
    BY <2>3, <2>4, <2>5
  <2> QED
    BY <2>6 DEF DocType
<1>11. StageInv' /\ Held(tree, cell, held)' /\ tree' \in Trees
  <2>1. Held(tree, cell, held)' /\ tree' \in Trees
    BY <1>1, <1>3, Zenon DEF Held
  <2>2. StageInv'
    BY <1>1, <1>3, <1>4 DEF StageInv
  <2> QED
    BY <2>1, <2>2
<1>12. ReadInv' /\ FinishInv' /\ TreeRoundTrip' /\ DataRoundTrip' /\ AcceptedFaithful'
  <2>1. stage' \notin {"reading", "read", "done", "failed"} /\ phase' # "panicked"
    BY <1>1, <1>4
  <2> QED
    BY <2>1 DEF ReadInv, FinishInv, TreeRoundTrip, DataRoundTrip, AcceptedFaithful
<1> QED
  BY <1>9, <1>10, <1>11, <1>12 DEF Inv

LEMMA SerializeEndInv == ASSUME Inv, SerializeEnd PROVE Inv'
<1>1. /\ UNCHANGED <<tree, cell, held, foreign, with_data, document, restored>>
      /\ UNCHANGED <<stack, saved, phase, result>>
      /\ stage = "writing" /\ walked = Len(Walk[tree]) /\ stage' = "reading" /\ walked' = 0
  BY DEF SerializeEnd, builder
<1>2. tree \in Trees /\ DocType /\ StageInv /\ Held(tree, cell, held) /\ LogInv
  BY Zenon DEF Inv
<1>3. ~ foreign /\ stack = Builder!Empty /\ phase = "building"
  BY <1>1, <1>2 DEF StageInv
<1>4. PICK vs : Logged(tree, held, with_data, document, vs, walked)
  BY <1>1, <1>2, <1>3, Zenon DEF LogInv
<1>5. LogInv'
  BY <1>1, <1>4, Zenon DEF LogInv
<1>6. ReadInv'
  <2>1. PICK es : es = document.events /\ AllGood(es) /\ Len(es) \in Nat
    <3>1. AllGood(document.events)
      BY <1>2, <1>4, LogGood
    <3>2. document.events \in Seq(Events)
      BY <3>1 DEF AllGood
    <3>3. Len(document.events) \in Nat
      BY <3>2
    <3> QED
      BY <3>1, <3>3, Zenon
  <2>2. 0 \in 0 .. Len(es)
    BY <2>1
  <2>3. StepsOf(es, 0) = StepsOf(<<>>, 0)
    BY DEF StepsOf
  <2>4. Built(stack, 0, StepsOf(es, 0))
    BY <1>3, <2>3, NothingRead
  <2>5. Reading(es, 0, foreign, stack)
    BY <1>3, <2>1, <2>2, <2>4, Zenon DEF Reading
  <2> QED
    BY <1>1, <2>1, <2>5, Zenon DEF ReadInv
<1>7. StageInv' /\ DocType' /\ Held(tree, cell, held)' /\ tree' \in Trees
  <2>1. Held(tree, cell, held)' /\ DocType' /\ tree' \in Trees
    BY <1>1, <1>2, Zenon DEF Held, DocType
  <2>2. StageInv'
    BY <1>1, <1>2 DEF StageInv
  <2> QED
    BY <2>1, <2>2
<1>8. FinishInv' /\ TreeRoundTrip' /\ DataRoundTrip' /\ AcceptedFaithful'
  <2>1. stage' \notin {"read", "done", "failed"} /\ phase' # "panicked"
    BY <1>1, <1>3
  <2> QED
    BY <2>1 DEF FinishInv, TreeRoundTrip, DataRoundTrip, AcceptedFaithful
<1> QED
  BY <1>5, <1>6, <1>7, <1>8 DEF Inv

\* `p' is the first n elements of `s', which has more.
Begins(p, n, s, T) ==
    /\ s \in Seq(T) /\ n \in Nat /\ n < Len(s)
    /\ p \in Seq(T) /\ Len(p) = n /\ \A i \in 1 .. n : p[i] = s[i]

\* The next element and the rest follow.
LEMMA SplitAt ==
    ASSUME NEW T, NEW s, NEW n, NEW p, Begins(p, n, s, T), NEW x, x = s[n + 1]
    PROVE  \E a \in Seq(T) : s = p \o (<<x>> \o a)
<1>0. /\ s \in Seq(T) /\ n \in Nat /\ n < Len(s)
      /\ p \in Seq(T) /\ Len(p) = n /\ \A i \in 1 .. n : p[i] = s[i]
  BY DEF Begins
<1>1. PICK m : m = Len(s) - (n + 1) /\ m \in Nat /\ Len(s) = m + (n + 1) /\ x \in T
  <2>1. n + 1 \in 1 .. Len(s) /\ Len(s) - (n + 1) \in Nat /\ Len(s) = (Len(s) - (n + 1)) + (n + 1)
    BY <1>0
  <2>2. x \in T
    BY <1>0, <2>1
  <2> QED
    BY <2>1, <2>2
<1>2. \A i \in 1 .. m : s[i + (n + 1)] \in T
  BY <1>0, <1>1
<1>3. PICK a : a = [i \in 1 .. m |-> s[i + (n + 1)]]
  OBVIOUS
<1>4. a \in Seq(T) /\ Len(a) = m /\ \A i \in 1 .. m : a[i] = s[i + (n + 1)]
  <2>1. \A i \in 1 .. m : a[i] = s[i + (n + 1)] /\ a[i] \in T
    BY <1>2, <1>3
  <2>2. a = [i \in 1 .. m |-> a[i]]
    BY <1>3
  <2>3. \A i \in 1 .. m : a[i] \in T
    BY <2>1, Zenon
  <2>4. a \in Seq(T) /\ Len(a) = m
    <3>1. m \in Nat
      BY <1>1
    <3> QED
      BY <3>1, <2>2, <2>3
  <2> QED
    BY <2>1, <2>4
<1>5. PICK b : b = <<x>> \o a /\ b \in Seq(T) /\ Len(b) = m + 1 /\ b[1] = x /\ \A i \in 2 .. m + 1 : b[i] = a[i - 1]
  <2>1. <<x>> \in Seq(T) /\ Len(<<x>>) = 1 /\ <<x>>[1] = x
    BY <1>1
  <2>2. <<x>> \o a \in Seq(T) /\ Len(<<x>> \o a) = m + 1
    BY <1>1, <1>4, <2>1
  <2>3. (<<x>> \o a)[1] = x /\ \A i \in 2 .. m + 1 : (<<x>> \o a)[i] = a[i - 1]
    BY <1>1, <1>4, <2>1
  <2> QED
    BY <2>2, <2>3, Zenon
<1>6. PICK c : /\ c = p \o b /\ c \in Seq(T) /\ Len(c) = n + (m + 1)
               /\ (\A i \in 1 .. n : c[i] = p[i]) /\ \A i \in n + 1 .. n + (m + 1) : c[i] = b[i - n]
  <2>1. p \o b \in Seq(T) /\ Len(p \o b) = n + (m + 1)
    <3>1. p \in Seq(T) /\ b \in Seq(T) /\ Len(p) = n /\ Len(b) = m + 1
      BY <1>0, <1>5
    <3>2. p \o b \in Seq(T) /\ Len(p \o b) = Len(p) + Len(b)
      BY <3>1, ConcatProperties, Zenon
    <3> QED
      BY <3>1, <3>2, Zenon
  <2>2. (\A i \in 1 .. n : (p \o b)[i] = p[i]) /\ \A i \in n + 1 .. n + (m + 1) : (p \o b)[i] = b[i - n]
    BY <1>0, <1>1, <1>5
  <2> QED
    BY <2>1, <2>2, Zenon
<1>7. ASSUME NEW i \in 1 .. Len(s) PROVE s[i] = c[i]
  <2>1. i \in 1 .. n \/ i = n + 1 \/ i \in n + 2 .. n + (m + 1)
    BY <1>0, <1>1
  <2>2. CASE i \in 1 .. n
    BY <1>0, <1>6, <2>2, Zenon
  <2>3. CASE i = n + 1
    <3>1. i \in n + 1 .. n + (m + 1) /\ i - n = 1
      BY <1>0, <1>1, <2>3
    <3>2. c[i] = b[i - n] /\ b[i - n] = x
      BY <1>5, <1>6, <3>1, Zenon
    <3>3. s[i] = x
      BY <2>3
    <3> QED
      BY <3>2, <3>3, Zenon
  <2>4. CASE i \in n + 2 .. n + (m + 1)
    <3>1. /\ i \in n + 1 .. n + (m + 1) /\ i - n \in 2 .. m + 1
          /\ (i - n) - 1 \in 1 .. m /\ ((i - n) - 1) + (n + 1) = i
      BY <1>0, <1>1, <2>4
    <3>2. c[i] = b[i - n] /\ b[i - n] = a[(i - n) - 1]
      BY <1>5, <1>6, <3>1, Zenon
    <3>3. a[(i - n) - 1] = s[((i - n) - 1) + (n + 1)]
      BY <1>4, <3>1, Zenon
    <3> QED
      BY <3>1, <3>2, <3>3, Zenon
  <2> QED
    BY <2>1, <2>2, <2>3, <2>4
<1>8. s = c
  <2>1. Len(s) = Len(c)
    BY <1>0, <1>1, <1>6
  <2>2. s \in Seq(T) /\ c \in Seq(T)
    BY <1>0, <1>6
  <2> QED
    BY <1>7, <2>1, <2>2, SameSeq
<1> QED
  BY <1>4, <1>5, <1>6, <1>8, Zenon

\* The log of a walk: the steps of the events that were written are the walk.
LEMMA LogSteps ==
    ASSUME Inv, ~ foreign, stage = "reading"
    PROVE  /\ AllGood(document.events) /\ Len(document.events) = Len(Walk[tree]) /\ Len(Walk[tree]) \in Nat
           /\ StepsOf(document.events, Len(document.events)) = Walk[tree]
           /\ \A i \in 1 .. Len(Walk[tree]) : StepOf(document.events[i]) = Walk[tree][i]
<1>1. tree \in Trees /\ LogInv
  BY Zenon DEF Inv
<1>2. PICK n, vs : n = Len(Walk[tree]) /\ Logged(tree, held, with_data, document, vs, n)
  BY <1>1, Zenon DEF LogInv
<1>3. Makes(document.events, tree)
  BY <1>1, <1>2, LogMakes
<1>4. Walk[tree] = [i \in 1 .. Len(document.events) |-> StepOf(document.events[i])]
  BY <1>3, Zenon DEF Makes
<1>5. /\ AllGood(document.events) /\ Len(document.events) = n /\ Len(Walk[tree]) \in Nat
      /\ \A i \in 1 .. n : StepOf(document.events[i]) = Walk[tree][i]
  BY <1>1, <1>2, LogGood
<1> QED
  BY <1>2, <1>4, <1>5, Zenon DEF StepsOf

\* What the serialiser wrote can be read.
LEMMA OwnIsRead ==
    ASSUME Inv, ~ foreign, stage = "reading", phase = "building", NEW e \in Incoming
    PROVE  /\ e = document.events[walked + 1] /\ walked + 1 \in 1 .. Len(document.events)
           /\ walked < MaxSteps /\ Good(e) /\ (e.t = "LeaveNode" => Builder!Depth # 1)
<1>1. PICK w, es : w = Walk[tree] /\ es = document.events
  OBVIOUS
<1>2. /\ AllGood(es) /\ Len(es) = Len(w) /\ Len(w) \in Nat
      /\ \A i \in 1 .. Len(w) : StepOf(es[i]) = w[i]
  BY <1>1, LogSteps
<1>3. tree \in Trees /\ Reading(es, walked, foreign, stack)
  BY <1>1, Zenon DEF Inv, ReadInv
<1>4. walked \in 0 .. Len(es) /\ Built(stack, walked, StepsOf(es, walked))
  BY <1>3 DEF Reading
<1>5. walked < Len(es) /\ e = es[walked + 1]
  <2>1. CASE walked < Len(es)
    BY <1>1, <2>1 DEF Incoming
  <2>2. CASE ~ (walked < Len(es))
    BY <1>1, <2>2 DEF Incoming
  <2> QED
    BY <2>1, <2>2
<1>6. walked + 1 \in 1 .. Len(es) /\ walked \in Nat
  BY <1>2, <1>4, <1>5
<1>7. /\ MaxSteps \in Nat /\ tree \in AllTrees /\ Len(w) <= MaxSteps /\ w \in Seq(Step)
  BY <1>1, <1>3, TreeOf
<1>8. walked < MaxSteps
  BY <1>2, <1>5, <1>6, <1>7
<1>9. Good(e)
  BY <1>5, <1>6, <1>2 DEF AllGood
<1>10. ASSUME e.t = "LeaveNode" PROVE Builder!Depth # 1
  <2>1. w[walked + 1] = LeaveStep
    <3>1. w[walked + 1] = StepOf(e)
      BY <1>2, <1>5, <1>6
    <3> QED
      BY <1>10, <3>1 DEF StepOf
  <2>2. PICK p : p = StepsOf(es, walked)
    OBVIOUS
  <2>3. p \in Seq(Step) /\ Len(p) = walked /\ \A i \in 1 .. walked : p[i] = StepOf(es[i])
    BY <1>2, <1>4, <2>2, StepsType
  <2>4. \A i \in 1 .. walked : p[i] = w[i]
    <3>1. \A i \in 1 .. walked : i \in 1 .. Len(w)
      BY <1>2, <1>6
    <3> QED
      BY <1>2, <2>3, <3>1
  <2>5. PICK a \in Seq(Step) : w = p \o (<<LeaveStep>> \o a)
    <3>1. walked < Len(w)
      BY <1>2, <1>5
    <3>2. \E a \in Seq(Step) : w = p \o (<<w[walked + 1]>> \o a)
      <4>1. PICK x : x = w[walked + 1]
        OBVIOUS
      <4>2. Begins(p, walked, w, Step)
        BY <1>6, <1>7, <2>3, <2>4, <3>1 DEF Begins
      <4>3. \E a \in Seq(Step) : w = p \o (<<x>> \o a)
        BY <4>1, <4>2, SplitAt
      <4> QED
        BY <4>1, <4>3, Zenon
    <3> QED
      BY <2>1, <3>2
  <2>6. Len(stack) # 1
    BY <1>1, <1>4, <1>7, <2>2, <2>5, NotLeft
  <2> QED
    BY <2>6 DEF Builder!Depth
<1> QED
  BY <1>1, <1>5, <1>6, <1>8, <1>9, <1>10

\* While events are read the rest of the invariant changes only by what is
\* appended to a document from elsewhere.
LEMMA StillReading ==
    ASSUME Inv, stage = "reading", DocType', (~ foreign => document' = document /\ phase' # "panicked"),
           UNCHANGED <<tree, cell, held, stage, foreign, with_data>>,
           phase' = "building" => Reading(document'.events, walked', foreign, stack')
    PROVE  Inv'
<1>1. tree \in Trees /\ Held(tree, cell, held) /\ StageInv /\ LogInv
  BY Zenon DEF Inv
<1>2. Held(tree, cell, held)' /\ tree' \in Trees
  BY <1>1, Zenon DEF Held
<1>3. StageInv'
  BY <1>1 DEF StageInv
<1>4. LogInv'
  <2>1. SUFFICES ASSUME ~ foreign
                 PROVE  \E vs : Logged(tree, held, with_data, document', vs, Len(Walk[tree]))
    BY Zenon DEF LogInv
  <2>2. PICK vs : Logged(tree, held, with_data, document, vs, Len(Walk[tree]))
    BY <1>1, <2>1, Zenon DEF LogInv
  <2>3. document' = document
    BY <2>1
  <2> QED
    BY <2>2, <2>3, Zenon
<1>5. ReadInv'
  BY Zenon DEF ReadInv
<1>6. FinishInv' /\ TreeRoundTrip' /\ DataRoundTrip' /\ AcceptedFaithful'
  <2>1. stage' \notin {"read", "done", "failed"} /\ (~ foreign' => phase' # "panicked")
    OBVIOUS
  <2> QED
    BY <2>1 DEF FinishInv, TreeRoundTrip, DataRoundTrip, AcceptedFaithful
<1> QED
  BY <1>2, <1>3, <1>4, <1>5, <1>6 DEF Inv

LEMMA ForeignEvent ==
    ASSUME foreign, NEW e \in Incoming
    PROVE  /\ e \in Events /\ walked < MaxEvents
           /\ MaxEvents \in Nat /\ MaxSteps \in Nat /\ MaxEvents <= MaxSteps
<1>1. /\ ForeignEvents \subseteq Events
      /\ MaxEvents \in Nat /\ MaxSteps \in Nat /\ MaxEvents <= MaxSteps
  BY SerializationAssumption
<1>2. Incoming = IF walked < MaxEvents THEN ForeignEvents ELSE {}
  BY DEF Incoming
<1>3. walked < MaxEvents
  BY <1>2
<1> QED
  BY <1>1, <1>2, <1>3

LEMMA ReadEventInv ==
    ASSUME Inv, NEW e \in Incoming, ReadEvent(e)
    PROVE  Inv'
<1>1. /\ UNCHANGED <<tree, cell, held, stage, foreign, with_data>>
      /\ stage = "reading" /\ phase = "building" /\ walked' = walked + 1
      /\ document' = IF foreign THEN [document EXCEPT !.events = Append(document.events, e)] ELSE document
      /\ (EventPanics(e) /\ Builder!Panic) \/ (~ EventPanics(e) /\ Call(e))
  BY Zenon DEF ReadEvent, Call
<1>2. DocType /\ foreign \in BOOLEAN
  BY DEF Inv, StageInv
<1>3. PICK es, fs : es = document.events /\ fs = document'.events
  OBVIOUS
<1>4. /\ AllGood(es) /\ walked \in 0 .. Len(es) /\ (foreign => walked = Len(es))
      /\ Built(stack, walked, StepsOf(es, walked))
  BY <1>1, <1>3, Zenon DEF Inv, ReadInv, Reading
<1>5. es \in Seq(Events) /\ Len(es) \in Nat /\ walked \in Nat
  <2>1. es \in Seq(Events)
    BY <1>4 DEF AllGood
  <2>2. Len(es) \in Nat
    BY <2>1
  <2> QED
    BY <1>4, <2>1, <2>2
<1>6. MaxSteps \in Nat
  BY SerializationAssumption
<1>7. CASE foreign
  <2>1. /\ e \in Events /\ walked < MaxEvents
        /\ MaxEvents \in Nat /\ MaxSteps \in Nat /\ MaxEvents <= MaxSteps
    BY <1>7, ForeignEvent
  <2>2. document \in [events : Seq(Events), data : Seq(Values)]
    BY <1>2 DEF DocType
  <2>3. fs = Append(es, e)
    BY <1>1, <1>3, <1>7, <2>2
  <2>4. /\ fs \in Seq(Events) /\ Len(fs) = walked + 1 /\ fs[walked + 1] = e
        /\ \A i \in 1 .. walked : fs[i] = es[i]
    <3>1. PICK n, T : n = walked /\ T = Events /\ n \in Nat /\ es \in Seq(T) /\ Len(es) = n /\ e \in T
      BY <1>4, <1>5, <1>7, <2>1
    <3>2. /\ Append(es, e) \in Seq(T) /\ Len(Append(es, e)) = n + 1 /\ Append(es, e)[n + 1] = e
          /\ \A i \in 1 .. n : Append(es, e)[i] = es[i]
      BY <3>1, AppendProperties
    <3> QED
      BY <2>3, <3>1, <3>2, Zenon
  <2>5. DocType'
    <3>1. document' = [document EXCEPT !.events = fs]
      BY <1>1, <1>3, <1>7, <2>3, Zenon
    <3>2. document' \in [events : Seq(Events), data : Seq(Values)]
      BY <2>2, <2>4, <3>1
    <3> QED
      BY <3>2, Zenon DEF DocType
  <2>6. CASE EventPanics(e) /\ Builder!Panic
    <3>1. phase' = "panicked"
      BY <2>6 DEF Builder!Panic
    <3>2. phase' # "building"
      BY <3>1
    <3> QED
      BY <1>1, <1>7, <2>5, <3>2, StillReading, Zenon
  <2>7. CASE ~ EventPanics(e) /\ Call(e)
    <3>1. Good(e) /\ (e.t = "LeaveNode" => Builder!Depth # 1)
      BY <2>1, <2>7, GoodOrPanics
    <3>2. PICK p : p = StepsOf(es, walked) /\ Built(stack, walked, p)
      BY <1>4
    <3>3. walked < MaxSteps
      BY <1>5, <2>1
    <3>4. Built(stack', walked + 1, p \o <<StepOf(e)>>)
      BY <1>6, <2>7, <3>1, <3>2, <3>3, CallBuilds
    <3>5. AllGood(fs)
      <4> SUFFICES ASSUME NEW i \in 1 .. walked + 1 PROVE Good(fs[i])
        BY <2>4, Zenon DEF AllGood
      <4>1. i = walked + 1 \/ i \in 1 .. walked
        BY <1>5
      <4>2. CASE i = walked + 1
        BY <2>4, <3>1, <4>2, Zenon
      <4>3. CASE i \in 1 .. walked
        <5>1. Good(es[i])
          BY <1>4, <1>7, <4>3, Zenon DEF AllGood
        <5> QED
          BY <2>4, <4>3, <5>1, Zenon
      <4> QED
        BY <4>1, <4>2, <4>3
    <3>6. walked + 1 \in 0 .. Len(fs) /\ walked + 1 <= MaxEvents
      BY <1>5, <2>1, <2>4
    <3>7. StepsOf(fs, walked + 1) = p \o <<StepOf(e)>>
      <4>1. StepsOf(fs, walked + 1) = StepsOf(es, walked) \o <<StepOf(fs[walked + 1])>>
        BY <1>4, <2>4, <3>5, <3>6, StepsNext
      <4> QED
        BY <2>4, <3>2, <4>1, Zenon
    <3>8. Reading(fs, walked + 1, foreign, stack')
      BY <2>4, <3>4, <3>5, <3>6, <3>7, Zenon DEF Reading
    <3> QED
      BY <1>1, <1>3, <1>7, <2>5, <3>8, StillReading, Zenon
  <2> QED
    BY <1>1, <2>6, <2>7, Zenon
<1>8. CASE ~ foreign
  <2>1. /\ e = es[walked + 1] /\ walked + 1 \in 1 .. Len(es)
        /\ walked < MaxSteps /\ Good(e) /\ (e.t = "LeaveNode" => Builder!Depth # 1)
    BY <1>1, <1>3, <1>8, OwnIsRead
  <2>2. ~ EventPanics(e) /\ Call(e)
    <3>1. e \in Events
      BY <2>1 DEF Good
    <3>2. ~ EventPanics(e)
      BY <2>1, <3>1, GoodOrPanics
    <3> QED
      BY <1>1, <3>2, Zenon
  <2>3. document' = document /\ DocType' /\ fs = es
    <3>1. document' = document
      BY <1>1, <1>8
    <3> QED
      BY <1>2, <1>3, <3>1, Zenon DEF DocType
  <2>4. PICK p : p = StepsOf(es, walked) /\ Built(stack, walked, p)
    BY <1>4
  <2>5. Built(stack', walked + 1, p \o <<StepOf(e)>>) /\ phase' = phase
    BY <1>6, <2>1, <2>2, <2>4, CallBuilds
  <2>6. walked + 1 \in 0 .. Len(es)
    BY <1>5, <2>1
  <2>7. StepsOf(es, walked + 1) = p \o <<StepOf(e)>>
    <3>1. \A i \in 1 .. walked : es[i] = es[i]
      OBVIOUS
    <3>2. StepsOf(es, walked + 1) = StepsOf(es, walked) \o <<StepOf(es[walked + 1])>>
      BY <1>4, <2>6, <3>1, StepsNext
    <3> QED
      BY <2>1, <2>4, <3>2, Zenon
  <2>8. Reading(fs, walked + 1, foreign, stack')
    BY <1>4, <1>8, <2>3, <2>5, <2>6, <2>7, Zenon DEF Reading
  <2>9. phase' # "panicked"
    BY <1>1, <2>5
  <2> QED
    BY <1>1, <1>3, <2>3, <2>8, <2>9, StillReading, Zenon
<1> QED
  BY <1>7, <1>8

LEMMA ReadEndInv == ASSUME Inv, ReadEnd PROVE Inv'
<1>1. /\ UNCHANGED <<tree, cell, held, foreign, with_data, document, walked>>
      /\ stage = "reading" /\ phase = "building" /\ (foreign \/ walked = Len(document.events))
  BY DEF ReadEnd
<1>2. PICK es, ts : es = document.events /\ ts = Builder!TreesOn(SubSeq(stack, 1, Len(stack)))
  OBVIOUS
<1>3. Builder!TreesFrom(1) = ts
  BY <1>2, Zenon DEF Builder!TreesFrom, Builder!Depth
<1>4. \/ Len(ts) = 1 /\ ~ IsToken(ts[1]) /\ Builder!Finish /\ stage' = "read"
      \/ ~ (Len(ts) = 1 /\ ~ IsToken(ts[1])) /\ Builder!Panic /\ stage' = stage
  BY <1>3, Zenon DEF ReadEnd
<1>5. tree \in Trees /\ DocType /\ Held(tree, cell, held) /\ StageInv /\ LogInv /\ foreign \in BOOLEAN
  BY DEF Inv, StageInv
<1>6. AllGood(es) /\ walked = Len(es) /\ Built(stack, walked, StepsOf(es, walked))
  BY <1>1, <1>2, Zenon DEF Inv, ReadInv, Reading
<1>7. MaxSteps \in Nat /\ tree \in AllTrees /\ ~ IsToken(tree)
  BY <1>5, TreeOf
<1>8. ASSUME ~ foreign PROVE ts = <<tree>>
  <2>1. StepsOf(es, walked) = Walk[tree]
    <3>1. StepsOf(es, Len(es)) = Walk[tree]
      BY <1>1, <1>2, <1>8, LogSteps
    <3> QED
      BY <1>6, <3>1, Zenon
  <2> QED
    BY <1>2, <1>6, <1>7, <2>1, OnlyTree
<1>9. CASE Len(ts) = 1 /\ ~ IsToken(ts[1]) /\ Builder!Finish /\ stage' = "read"
  <2>1. result' = ts /\ phase' = "finished"
    BY <1>3, <1>9, Zenon DEF Builder!Finish
  <2>2. Finished(es, ts)
    <3>1. SUFFICES ASSUME Balanced(es) PROVE \E t : ts = <<t>> /\ Makes(es, t)
      BY <1>6, Zenon DEF Finished
    <3>2. Built(stack, Len(es), StepsOf(es, Len(es)))
      BY <1>6, Zenon
    <3>3. Len(Builder!TreesOn(SubSeq(stack, 1, Len(stack)))) = 1
      BY <1>2, <1>9, Zenon
    <3>4. \E t : Builder!TreesOn(SubSeq(stack, 1, Len(stack))) = <<t>> /\ Makes(es, t)
      BY <1>6, <1>7, <3>1, <3>2, <3>3, BalancedMakes
    <3> QED
      BY <1>2, <3>4, Zenon
  <2>3. FinishInv'
    BY <1>1, <1>2, <1>8, <2>1, <2>2, Zenon DEF FinishInv
  <2>4. Held(tree, cell, held)' /\ DocType' /\ tree' \in Trees
    BY <1>1, <1>5, Zenon DEF Held, DocType
  <2>5. StageInv'
    BY <1>1, <1>5, <1>9 DEF StageInv
  <2>6. LogInv'
    <3>1. SUFFICES ASSUME ~ foreign
                   PROVE  \E vs : Logged(tree, held, with_data, document, vs, Len(Walk[tree]))
      BY <1>1, <1>9, Zenon DEF LogInv
    <3> QED
      BY <1>1, <1>5, <3>1, Zenon DEF LogInv
  <2>7. ReadInv' /\ TreeRoundTrip' /\ DataRoundTrip' /\ AcceptedFaithful'
    <3>1. stage' \notin {"reading", "done", "failed"} /\ phase' # "panicked"
      BY <1>9, <2>1
    <3> QED
      BY <3>1 DEF ReadInv, TreeRoundTrip, DataRoundTrip, AcceptedFaithful
  <2> QED
    BY <2>3, <2>4, <2>5, <2>6, <2>7 DEF Inv
<1>10. CASE ~ (Len(ts) = 1 /\ ~ IsToken(ts[1])) /\ Builder!Panic /\ stage' = stage
  <2>1. foreign
    <3>1. SUFFICES ASSUME ~ foreign PROVE FALSE
      OBVIOUS
    <3>2. ts = <<tree>>
      BY <1>8, <3>1
    <3>3. Len(ts) = 1 /\ ts[1] = tree
      BY <3>2
    <3> QED
      BY <1>7, <1>10, <3>3, Zenon
  <2>2. phase' # "building"
    BY <1>10 DEF Builder!Panic
  <2>3. DocType'
    BY <1>1, <1>5, Zenon DEF DocType
  <2> QED
    BY <1>1, <1>10, <2>1, <2>2, <2>3, StillReading, Zenon
<1> QED
  BY <1>4, <1>9, <1>10

\* What is left of a document from elsewhere when serde fails.
LEMMA FailInv ==
    ASSUME Inv, foreign, UNCHANGED <<tree, cell, held, foreign, with_data>>, DocType', stage' = "failed"
    PROVE  Inv'
<1>1. Held(tree, cell, held)' /\ tree' \in Trees
  BY Zenon DEF Inv, Held
<1>2. StageInv'
  <2>1. foreign \in BOOLEAN /\ with_data \in BOOLEAN
    BY DEF Inv, StageInv
  <2> QED
    BY <2>1 DEF StageInv
<1>3. LogInv' /\ ReadInv' /\ FinishInv' /\ TreeRoundTrip' /\ DataRoundTrip' /\ AcceptedFaithful'
  <2>1. foreign' /\ stage' \notin {"reading", "read", "done"}
    OBVIOUS
  <2> QED
    BY <2>1 DEF LogInv, ReadInv, FinishInv, TreeRoundTrip, DataRoundTrip, AcceptedFaithful
<1> QED
  BY <1>1, <1>2, <1>3 DEF Inv

LEMMA ReadMalformedInv == ASSUME Inv, ReadMalformed PROVE Inv'
<1>1. /\ UNCHANGED <<tree, cell, held, foreign, with_data, document>>
      /\ foreign /\ stage' = "failed"
  BY DEF ReadMalformed
<1>2. DocType'
  BY <1>1, Zenon DEF Inv, DocType
<1> QED
  BY <1>1, <1>2, FailInv, Zenon

LEMMA DataListed ==
    ASSUME DocType, NEW data \in DataLists
    PROVE  /\ data \in Seq(Values)
           /\ [document EXCEPT !.data = data] \in [events : Seq(Events), data : Seq(Values)]
           /\ [document EXCEPT !.data = data].events = document.events
           /\ [document EXCEPT !.data = data].data = data
           /\ ~ foreign => data = document.data /\ [document EXCEPT !.data = data] = document
<1>1. PICK E, D : E = Seq(Events) /\ D = Seq(Values) /\ document \in [events : E, data : D]
  BY DEF DocType
<1>2. data \in Seq(Values) /\ (~ foreign => data = document.data)
  <2>1. CASE foreign
    <3>1. data \in UNION {[1 .. n -> Values] : n \in 0 .. MaxData}
      BY <2>1 DEF DataLists
    <3>2. PICK n \in 0 .. MaxData : data \in [1 .. n -> Values]
      BY <3>1
    <3>3. MaxData \in Nat
      BY SerializationAssumption
    <3>4. n \in Nat
      BY <3>2, <3>3
    <3> QED
      BY <2>1, <3>2, <3>4
  <2>2. CASE ~ foreign
    <3>1. data = document.data
      BY <2>2 DEF DataLists
    <3> QED
      BY <1>1, <3>1
  <2> QED
    BY <2>1, <2>2
<1>3. data \in D
  BY <1>1, <1>2, Zenon
<1>4. /\ [document EXCEPT !.data = data] \in [events : E, data : D]
      /\ [document EXCEPT !.data = data].events = document.events
      /\ [document EXCEPT !.data = data].data = data
      /\ data = document.data => [document EXCEPT !.data = data] = document
  BY <1>1, <1>3
<1> QED
  BY <1>1, <1>2, <1>4, Zenon

\* The data list that the serialiser wrote has the right length, and every node
\* gets back one of the values it had.
LEMMA OwnData ==
    ASSUME Inv, ~ foreign, stage = "read",
           NEW r, r = Restored(Nodes(tree), Flags(document.events), document.data)
    PROVE  /\ DataMatches(Nodes(tree), Flags(document.events), document.data)
           /\ DOMAIN r = Cells(tree)
           /\ \A n \in Cells(tree) : r[n] \in IF with_data THEN held[n] ELSE {NoValue}
<1>1. PICK w, es : w = Walk[tree] /\ es = document.events
  OBVIOUS
<1>2. PICK vs, m : m = Len(w) /\ Logged(tree, held, with_data, document, vs, m)
  BY <1>1, Zenon DEF Inv, LogInv
<1>3. tree \in Trees
  BY DEF Inv
<1>4. Written(es, tree, vs, document.data)
  BY <1>1, <1>2, <1>3, LogMakes
<1>5. /\ DataMatches(Nodes(tree), Flags(es), document.data) /\ DOMAIN r = Cells(tree)
      /\ \A k \in Cells(tree) :
             \E i \in 1 .. Len(es) : es[i].t = "EnterNode" /\ NodeAt(w, i) = k /\ r[k] = vs[i]
  BY <1>1, <1>4, GivenBack
<1>6. Len(es) = m /\ \A i \in 1 .. m : (es[i].t = "EnterNode" <=> w[i].t = "Enter")
  BY <1>1, <1>2, <1>3, LogGood
<1>7. \A i \in 1 .. m : vs[i] \in IF with_data /\ w[i].t = "Enter" THEN held[NodeAt(w, i)] ELSE {NoValue}
  BY <1>1, <1>2, Zenon DEF Logged
<1>8. ASSUME NEW k \in Cells(tree) PROVE r[k] \in IF with_data THEN held[k] ELSE {NoValue}
  <2>1. PICK i \in 1 .. m : es[i].t = "EnterNode" /\ NodeAt(w, i) = k /\ r[k] = vs[i]
    BY <1>5, <1>6
  <2>2. w[i].t = "Enter"
    BY <1>6, <2>1
  <2> QED
    BY <1>7, <2>1, <2>2, Zenon
<1> QED
  BY <1>1, <1>5, <1>8

\* Whatever document is accepted, the tree and the data say what it says.
LEMMA AcceptedData ==
    ASSUME NEW es, NEW doc, doc.events = es, doc.data \in Seq(Values), NEW res, Finished(es, res),
           NEW r, r = Restored(Nodes(res[1]), Flags(es), doc.data),
           DataMatches(Nodes(res[1]), Flags(es), doc.data), Balanced(es)
    PROVE  Contents(Serialized(res[1], r)) = Contents(doc)
<1>1. PICK t : res = <<t>> /\ Makes(es, t)
  BY DEF Finished
<1>2. res[1] = t
  BY <1>1
<1> QED
  BY <1>1, <1>2, Accepted

LEMMA ReadDataInv ==
    ASSUME Inv, NEW data \in DataLists, ReadData(data)
    PROVE  Inv'
<1>1. /\ UNCHANGED <<tree, cell, held, foreign, with_data, walked>>
      /\ UNCHANGED <<stack, saved, phase, result>>
      /\ stage = "read" /\ document' = [document EXCEPT !.data = data]
  BY DEF ReadData, builder
<1>2. PICK es, nodes, flags : es = document.events /\ nodes = Nodes(result[1]) /\ flags = Flags(es)
  OBVIOUS
<1>3. \/ DataMatches(nodes, flags, data) /\ stage' = "done" /\ restored' = Restored(nodes, flags, data)
      \/ ~ DataMatches(nodes, flags, data) /\ stage' = "failed"
  BY <1>2, Zenon DEF ReadData
<1>4. tree \in Trees /\ DocType /\ Held(tree, cell, held) /\ StageInv /\ LogInv /\ TreeRoundTrip /\ FinishInv
  BY Zenon DEF Inv
<1>5. /\ data \in Seq(Values) /\ document' \in [events : Seq(Events), data : Seq(Values)]
      /\ document'.events = es /\ document'.data = data
      /\ ~ foreign => data = document.data /\ document' = document
  BY <1>1, <1>2, <1>4, DataListed
<1>6. Finished(es, result) /\ (~ foreign => result = <<tree>>)
  BY <1>1, <1>2, <1>4, Zenon DEF FinishInv
<1>7. ASSUME ~ foreign
      PROVE  /\ nodes = Nodes(tree) /\ phase # "panicked" /\ DataMatches(nodes, flags, data)
             /\ restored' = Restored(nodes, flags, data) =>
                    /\ DOMAIN restored' = Cells(tree)
                    /\ \A n \in Cells(tree) : restored'[n] \in IF with_data THEN held[n] ELSE {NoValue}
  <2>1. result[1] = tree /\ data = document.data
    BY <1>5, <1>6, <1>7
  <2>2. nodes = Nodes(tree) /\ phase # "panicked"
    BY <1>2, <1>4, <1>7, <2>1, Zenon DEF TreeRoundTrip
  <2>3. PICK r : r = Restored(Nodes(tree), Flags(document.events), document.data)
    OBVIOUS
  <2>4. /\ DataMatches(Nodes(tree), Flags(document.events), document.data)
        /\ DOMAIN r = Cells(tree)
        /\ \A n \in Cells(tree) : r[n] \in IF with_data THEN held[n] ELSE {NoValue}
    BY <1>1, <1>7, <2>3, OwnData
  <2> QED
    BY <1>2, <2>1, <2>2, <2>3, <2>4, Zenon
<1>8. DocType' /\ Held(tree, cell, held)' /\ tree' \in Trees
  BY <1>1, <1>4, <1>5, Zenon DEF DocType, Held
<1>9. CASE ~ DataMatches(nodes, flags, data) /\ stage' = "failed"
  <2>1. foreign
    <3>1. foreign \in BOOLEAN
      BY <1>4 DEF StageInv
    <3> QED
      BY <1>7, <1>9, <3>1
  <2> QED
    BY <1>1, <1>8, <1>9, <2>1, FailInv, Zenon
<1>10. CASE DataMatches(nodes, flags, data) /\ stage' = "done" /\ restored' = Restored(nodes, flags, data)
  <2>1. StageInv'
    BY <1>1, <1>4, <1>10 DEF StageInv
  <2>2. LogInv'
    <3>1. SUFFICES ASSUME ~ foreign
                   PROVE  \E vs : Logged(tree, held, with_data, document, vs, Len(Walk[tree]))
      BY <1>1, <1>5, <1>10, Zenon DEF LogInv
    <3> QED
      BY <1>1, <1>4, <3>1, Zenon DEF LogInv
  <2>3. ReadInv'
    BY <1>10 DEF ReadInv
  <2>4. FinishInv'
    BY <1>1, <1>5, <1>6, Zenon DEF FinishInv
  <2>5. TreeRoundTrip'
    BY <1>1, <1>6, <1>7, <1>10 DEF TreeRoundTrip
  <2>6. DataRoundTrip'
    BY <1>1, <1>7, <1>10, Zenon DEF DataRoundTrip
  <2>7. AcceptedFaithful'
    <3>1. PICK doc, r : doc = document' /\ r = restored'
      OBVIOUS
    <3>2. SUFFICES ASSUME Balanced(es) PROVE Contents(Serialized(result[1], r)) = Contents(doc)
      BY <1>1, <1>5, <3>1, Zenon DEF AcceptedFaithful
    <3>3. doc.events = es /\ doc.data = data /\ doc.data \in Seq(Values)
      BY <1>5, <3>1, Zenon
    <3>4. r = Restored(Nodes(result[1]), Flags(es), doc.data) /\ DataMatches(Nodes(result[1]), Flags(es), doc.data)
      BY <1>2, <1>10, <3>1, <3>3, Zenon
    <3> QED
      BY <1>6, <3>2, <3>3, <3>4, AcceptedData
  <2> QED
    BY <1>8, <2>1, <2>2, <2>3, <2>4, <2>5, <2>6, <2>7 DEF Inv
<1> QED
  BY <1>3, <1>9, <1>10

LEMMA NextInv == Inv /\ [Next]_vars => Inv'
<1>1. SUFFICES ASSUME Inv, [Next]_vars PROVE Inv'
  OBVIOUS
<1>2. ASSUME NEW n \in Cells(tree), ClearData(n) PROVE Inv'
  BY <1>1, <1>2, WriteInv DEF ClearData
<1>3. ASSUME NEW n \in Cells(tree), NEW value \in Values, SetData(n, value) \/ TrySetData(n, value)
      PROVE  Inv'
  BY <1>1, <1>3, WriteInv DEF SetData, TrySetData
<1>4. ASSUME UNCHANGED vars PROVE Inv'
  <2>1. /\ UNCHANGED <<tree, cell, held, writes, stage, foreign, with_data, document, walked, restored>>
        /\ UNCHANGED <<stack, saved, phase, result>>
    BY <1>4 DEF vars, builder
  <2>2. StageInv' /\ DocType' /\ Held(tree, cell, held)' /\ tree' \in Trees
    BY <1>1, <2>1, Zenon DEF Inv, StageInv, DocType, Held
  <2>3. LogInv' /\ ReadInv' /\ FinishInv'
    BY <1>1, <2>1, Zenon DEF Inv, LogInv, ReadInv, FinishInv
  <2>4. TreeRoundTrip' /\ DataRoundTrip' /\ AcceptedFaithful'
    BY <1>1, <2>1, Zenon DEF Inv, TreeRoundTrip, DataRoundTrip, AcceptedFaithful
  <2> QED
    BY <2>2, <2>3, <2>4 DEF Inv
<1> QED
  BY <1>1, <1>2, <1>3, <1>4, SerializeInv, SerializeEventInv, SerializeEndInv, ReadEventInv, ReadEndInv,
     ReadMalformedInv, ReadDataInv, Zenon DEF Next

\* The invariant, from the first state on.
THEOREM SerializationInvariant == Spec => []Inv
<1>1. Init => Inv
  BY InitInv
<1>2. Inv /\ [Next]_vars => Inv'
  BY NextInv
<1> QED
  BY <1>1, <1>2, PTL DEF Spec

\* gen_serialize! and visit_seq: what is written while other threads set and
\* clear data is read without a panic or an error, and gives the same tree.
THEOREM TreeRoundTripCorrect == Spec => []TreeRoundTrip
<1>1. Inv => TreeRoundTrip
  BY DEF Inv
<1> QED
  BY <1>1, SerializationInvariant, PTL

\* Every node of the new tree has data that its own node had while it was
\* written, or none if that had none at some time.
THEOREM DataRoundTripCorrect == Spec => []DataRoundTrip
<1>1. Inv => DataRoundTrip
  BY DEF Inv
<1> QED
  BY <1>1, SerializationInvariant, PTL

\* Any balanced document that is accepted, wherever it comes from, is written
\* again as it was.
THEOREM AcceptedCorrect == Spec => []AcceptedFaithful
<1>1. Inv => AcceptedFaithful
  BY DEF Inv
<1> QED
  BY <1>1, SerializationInvariant, PTL

\* What the invariant says nothing about: the bound on writes, and one result.
Small == writes \in 0 .. MaxWrites /\ Len(result) <= 1

LEMMA NextSmall == ASSUME Small, [Next]_vars PROVE Small'
<1>1. MaxWrites \in Nat
  BY SerializationAssumption
<1>2. ASSUME NEW n, NEW value, Write(n, value) PROVE Small'
  BY <1>1, <1>2 DEF Small, Write, builder
<1>3. ASSUME UNCHANGED writes, UNCHANGED result PROVE Small'
  BY <1>3 DEF Small
<1>4. ASSUME NEW n \in Cells(tree),
             ClearData(n) \/ \E value \in Values : SetData(n, value) \/ TrySetData(n, value)
      PROVE  Small'
  BY <1>2, <1>4 DEF ClearData, SetData, TrySetData
<1>5. ASSUME NEW data \in BOOLEAN, Serialize(data) PROVE Small'
  BY <1>3, <1>5 DEF Serialize, builder
<1>6. ASSUME SerializeEvent PROVE Small'
  BY <1>3, <1>6 DEF SerializeEvent, builder
<1>7. ASSUME SerializeEnd PROVE Small'
  BY <1>3, <1>7 DEF SerializeEnd, builder
<1>8. ASSUME NEW e \in Incoming, ReadEvent(e) PROVE Small'
  <2>1. writes' = writes
    BY <1>8 DEF ReadEvent
  <2>2. \/ Builder!Panic \/ Builder!StartNode(FromRaw(e.kind))
        \/ Builder!Record(FromRaw(e.kind), e.payload.bytes) \/ Builder!FinishNode
    BY <1>8, Zenon DEF ReadEvent
  <2>3. result' = result
    BY <2>2, Zenon DEF Builder!Panic, Builder!StartNode, Builder!Record, Builder!FinishNode
  <2> QED
    BY <1>3, <2>1, <2>3
<1>9. ASSUME ReadEnd PROVE Small'
  <2>1. writes' = writes
    BY <1>9 DEF ReadEnd
  <2>2. Builder!Finish \/ Builder!Panic
    BY <1>9, Zenon DEF ReadEnd
  <2>3. CASE Builder!Panic
    <3>1. result' = result
      BY <2>3, Zenon DEF Builder!Panic
    <3> QED
      BY <1>3, <2>1, <3>1
  <2>4. CASE Builder!Finish
    <3>1. Len(result') = 1
      BY <2>4, Zenon DEF Builder!Finish
    <3> QED
      BY <2>1, <3>1 DEF Small
  <2> QED
    BY <2>2, <2>3, <2>4
<1>10. ASSUME ReadMalformed PROVE Small'
  BY <1>3, <1>10 DEF ReadMalformed, builder
<1>11. ASSUME NEW data \in DataLists, ReadData(data) PROVE Small'
  BY <1>3, <1>11 DEF ReadData, builder
<1>12. ASSUME UNCHANGED vars PROVE Small'
  BY <1>3, <1>12 DEF vars, builder
<1> QED
  BY <1>4, <1>5, <1>6, <1>7, <1>8, <1>9, <1>10, <1>11, <1>12, Zenon DEF Next

\* Every variable has its type.
THEOREM TypeCorrect == Spec => []TypeOK
<1>1. Init => Small
  <2> SUFFICES ASSUME Init PROVE Small
    OBVIOUS
  <2>2. writes = 0 /\ result = <<>> /\ MaxWrites \in Nat
    <3>1. MaxWrites \in Nat
      BY SerializationAssumption
    <3> QED
      BY <3>1, Zenon DEF Init, Builder!TInit
  <2> QED
    BY <2>2 DEF Small
<1>2. Small /\ [Next]_vars => Small'
  BY NextSmall
<1>3. Inv /\ Small => TypeOK
  <2> SUFFICES ASSUME Inv, Small PROVE TypeOK
    OBVIOUS
  <2>2. DocType /\ tree \in Trees /\ Held(tree, cell, held) /\ StageInv
    BY Zenon DEF Inv
  <2>3. document.data \in Seq(Values)
    <3>1. PICK E, D : E = Seq(Events) /\ D = Seq(Values) /\ document \in [events : E, data : D]
      BY <2>2 DEF DocType
    <3> QED
      BY <3>1
  <2>4. /\ cell \in [Cells(tree) -> Values \cup {NoValue}]
        /\ held \in [Cells(tree) -> SUBSET (Values \cup {NoValue})]
    BY <2>2, Zenon DEF Held
  <2> QED
    BY <2>2, <2>3, <2>4, Zenon DEF StageInv, Small, TypeOK
<1> QED
  BY <1>1, <1>2, <1>3, SerializationInvariant, PTL DEF Spec
=============================================================================
