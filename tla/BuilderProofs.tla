---------------------------- MODULE BuilderProofs ----------------------------
(***************************************************************************)
(* The builder, its node cache and its interner: type correctness, proper  *)
(* nesting of unfinished nodes, interning, sharing and text lengths, for   *)
(* every language, text, hash function, cache threshold, key space and     *)
(* text-size width, and whatever stale Checkpoints are used.  Then what    *)
(* checkpoints remember, and that the builder implements the abstract      *)
(* builder of trees, for any number of checkpoints, any depth and any      *)
(* sequence of calls, the latter as long as the hash of no two nodes       *)
(* collides.                                                               *)
(***************************************************************************)
EXTENDS BuilderRefinement, SequenceFacts

----------------------------------------------------------------------------
(* Sequences *)

\* A sequence is a sequence of the values it holds.
LEMMA SeqOfItsValues ==
    ASSUME NEW S, NEW s \in Seq(S)
    PROVE  s \in Seq(Range(s))
<1>1. Len(s) \in Nat /\ DOMAIN s = 1 .. Len(s)
  BY LenProperties
<1>2. \A i \in 1 .. Len(s) : s[i] \in Range(s)
  BY <1>1 DEF Range
<1>3. SubSeq(s, 1, Len(s)) \in Seq(Range(s))
  BY <1>1, <1>2, SubSeqProperties
<1>4. SubSeq(s, 1, Len(s)) = s
  BY SubSeqFull
<1>5. QED
  BY <1>3, <1>4

\* Appending an element to a sequence of unknown element type.
LEMMA AppendToRange ==
    ASSUME NEW s, s \in Seq(Range(s)), NEW x
    PROVE  /\ Append(s, x) \in Seq(Range(Append(s, x)))
           /\ Len(s) \in Nat
           /\ Len(Append(s, x)) = Len(s) + 1
           /\ DOMAIN s = 1 .. Len(s)
           /\ DOMAIN Append(s, x) = 1 .. Len(s) + 1
           /\ \A i \in 1 .. Len(s) : Append(s, x)[i] = s[i]
           /\ Append(s, x)[Len(s) + 1] = x
<1> DEFINE T == Range(s) \cup {x}
<1>1. s \in Seq(T)
  BY DEF Range
<1>2. Append(s, x) \in Seq(T)
  BY <1>1
<1>3. Append(s, x) \in Seq(Range(Append(s, x)))
  BY <1>2, SeqOfItsValues
<1> QED
  BY <1>1, <1>3

\* Vec::truncate.
LEMMA PrefixOfSeq ==
    ASSUME NEW T, NEW s \in Seq(T), NEW n \in 0 .. Len(s)
    PROVE  /\ SubSeq(s, 1, n) \in Seq(T)
           /\ Len(SubSeq(s, 1, n)) = n
           /\ DOMAIN SubSeq(s, 1, n) = 1 .. n
           /\ \A i \in 1 .. n : SubSeq(s, 1, n)[i] = s[i]
<1>1. Len(s) \in Nat /\ n \in Int /\ 1 \in Int
  BY LenProperties
<1>2. \A i \in 1 .. n : s[i] \in T
  BY <1>1, ElementOfSeq
<1>3. /\ SubSeq(s, 1, n) \in Seq(T)
      /\ Len(SubSeq(s, 1, n)) = IF 1 <= n THEN n - 1 + 1 ELSE 0
      /\ \A i \in 1 .. n - 1 + 1 : SubSeq(s, 1, n)[i] = s[1 + i - 1]
  BY <1>1, <1>2, SubSeqProperties
<1>4. Len(SubSeq(s, 1, n)) = n
  BY <1>1, <1>3
<1>5. DOMAIN SubSeq(s, 1, n) = 1 .. n
  BY <1>3, <1>4, LenProperties
<1>6. \A i \in 1 .. n : SubSeq(s, 1, n)[i] = s[i]
  BY <1>1, <1>3
<1> QED
  BY <1>3, <1>4, <1>5, <1>6

----------------------------------------------------------------------------
(* Pushing elements *)

\* An allocation appends one well-formed element and disturbs no other.
LEMMA AllocateKeepsElements ==
    ASSUME TypeOK, NEW element,
           element.tag \in {"node", "token"},
           element.kind \in NodeKinds \cup TokenKinds,
           element.key \in 0 .. Len(values'),
           element.children \in Seq(DOMAIN heap),
           values' \in Seq(Data), Len(values) <= Len(values'),
           heap' = Append(heap, element)
    PROVE  /\ heap' \in Seq(Range(heap'))
           /\ \A e \in DOMAIN heap' : ElementOK(e)'
           /\ DOMAIN heap \subseteq DOMAIN heap'
           /\ \A e \in DOMAIN heap : heap'[e] = heap[e]
           /\ Len(heap) + 1 \in DOMAIN heap'
           /\ heap'[Len(heap) + 1] = element
<1>1. /\ heap' \in Seq(Range(heap'))
      /\ Len(heap) \in Nat
      /\ DOMAIN heap = 1 .. Len(heap)
      /\ DOMAIN heap' = 1 .. Len(heap) + 1
      /\ \A i \in 1 .. Len(heap) : heap'[i] = heap[i]
      /\ heap'[Len(heap) + 1] = element
  BY AppendToRange DEF TypeOK
<1>2. ASSUME NEW e \in DOMAIN heap'
      PROVE  ElementOK(e)'
  <2>0. Len(values) \in Nat /\ Len(values') \in Nat
    BY DEF TypeOK
  <2>1. CASE e \in DOMAIN heap
    <3>1. heap'[e] = heap[e] /\ ElementOK(e)
      BY <1>1, <2>1 DEF TypeOK
    <3> QED
      BY <2>0, <3>1 DEF ElementOK
  <2>2. CASE e = Len(heap) + 1
    <3>1. heap'[e] = element
      BY <1>1, <2>2
    <3>2. 1 .. e - 1 = DOMAIN heap
      BY <1>1, <2>2
    <3> QED
      BY <3>1, <3>2 DEF ElementOK
  <2> QED
    BY <1>1, <2>1, <2>2
<1> QED
  BY <1>1, <1>2

\* NodeCache::token pushes an existing token or a new one.
LEMMA PushTokenKeepsType ==
    ASSUME TypeOK, NEW kind \in TokenKinds, NEW key \in 0 .. Len(values'), NEW len,
           values' \in Seq(Data), Len(values) <= Len(values'),
           PushToken(kind, key, len),
           UNCHANGED <<nodes, parents, checkpoints, status, tree>>
    PROVE  TypeOK' /\ Len(children') = Len(children) + 1
<1> DEFINE new == Len(heap) + 1
<1>0. Len(values) \in Nat /\ Len(values') \in Nat
  BY DEF TypeOK
<1>1. CASE \E t \in CachedTokens(kind, key, len) : children' = Append(children, t)
           /\ UNCHANGED <<heap, tokens>>
  <2>1. \A e \in DOMAIN heap' : ElementOK(e)'
    BY <1>0, <1>1 DEF TypeOK, ElementOK
  <2>2. PICK t \in DOMAIN heap : children' = Append(children, t)
    BY <1>1 DEF TypeOK, CachedTokens
  <2>3. children' \in Seq(DOMAIN heap) /\ Len(children') = Len(children) + 1
    BY <2>2 DEF TypeOK
  <2> QED
    BY <1>1, <2>1, <2>3 DEF TypeOK
<1>2. CASE /\ heap' = Append(heap, GreenToken(kind, key, len))
           /\ tokens' = tokens \cup {new}
           /\ children' = Append(children, new)
  <2> DEFINE element == GreenToken(kind, key, len)
  <2>1. /\ element.tag = "token"
        /\ element.kind \in NodeKinds \cup TokenKinds
        /\ element.key \in 0 .. Len(values')
        /\ element.children \in Seq(DOMAIN heap)
    BY DEF GreenToken
  <2> HIDE DEF element
  <2>2. /\ heap' \in Seq(Range(heap'))
        /\ \A e \in DOMAIN heap' : ElementOK(e)'
        /\ DOMAIN heap \subseteq DOMAIN heap'
        /\ \A e \in DOMAIN heap : heap'[e] = heap[e]
        /\ new \in DOMAIN heap'
        /\ heap'[new] = element
    BY <1>2, <2>1, AllocateKeepsElements DEF element
  <2>3. children' \in Seq(DOMAIN heap') /\ Len(children') = Len(children) + 1
    <3>1. children \in Seq(DOMAIN heap')
      BY <2>2, SeqMonotonic DEF TypeOK
    <3> QED
      BY <1>2, <2>2, <3>1
  <2>4. nodes' \subseteq {e \in DOMAIN heap' : heap'[e].tag = "node"}
    BY <2>2 DEF TypeOK
  <2>5. tokens' \subseteq {e \in DOMAIN heap' : heap'[e].tag = "token"}
    BY <1>2, <2>1, <2>2 DEF TypeOK
  <2>6. tree' \in {NoElement} \cup {e \in DOMAIN heap' : heap'[e].tag = "node"}
    BY <2>2 DEF TypeOK
  <2> QED
    BY <2>2, <2>3, <2>4, <2>5, <2>6 DEF TypeOK
<1> QED
  BY <1>1, <1>2 DEF PushToken

\* NodeCache::node pushes an existing node or a new one.
LEMMA PushNodeKeepsType ==
    ASSUME TypeOK, NEW kind \in NodeKinds,
           NEW stay \in Seq(DOMAIN heap), NEW drained \in Seq(DOMAIN heap),
           PushNode(kind, stay, drained),
           parents' \in Seq([kind : NodeKinds, first_child : Nat]),
           UNCHANGED <<tokens, values, checkpoints, status, tree>>
    PROVE  TypeOK' /\ Len(children') = Len(stay) + 1
<1> DEFINE new == Len(heap) + 1
           element == GreenNode(kind, TextLen(drained), HashOf(drained), drained)
<1>0. Len(values) \in Nat
  BY DEF TypeOK
<1>1. CASE (\E n \in nodes : children' = Append(stay, n)) /\ UNCHANGED <<heap, nodes>>
  <2>1. \A e \in DOMAIN heap' : ElementOK(e)'
    BY <1>0, <1>1 DEF TypeOK, ElementOK
  <2>2. PICK n \in DOMAIN heap : children' = Append(stay, n)
    BY <1>1 DEF TypeOK
  <2>3. children' \in Seq(DOMAIN heap) /\ Len(children') = Len(stay) + 1
    BY <2>2
  <2> QED
    BY <1>1, <2>1, <2>3 DEF TypeOK
<1>2. CASE /\ heap' = Append(heap, element)
           /\ children' = Append(stay, new)
           /\ nodes' = nodes \cup {new} \/ nodes' = nodes
  <2>1. /\ element.tag = "node"
        /\ element.kind \in NodeKinds \cup TokenKinds
        /\ element.key \in 0 .. Len(values')
        /\ element.children \in Seq(DOMAIN heap)
    BY <1>0 DEF GreenNode, NoKey
  <2> HIDE DEF element
  <2>2. /\ heap' \in Seq(Range(heap'))
        /\ \A e \in DOMAIN heap' : ElementOK(e)'
        /\ DOMAIN heap \subseteq DOMAIN heap'
        /\ \A e \in DOMAIN heap : heap'[e] = heap[e]
        /\ new \in DOMAIN heap'
        /\ heap'[new] = element
    <3>1. values' \in Seq(Data) /\ Len(values) <= Len(values')
      BY <1>0 DEF TypeOK
    <3> QED
      BY <1>2, <2>1, <3>1, AllocateKeepsElements
  <2>3. children' \in Seq(DOMAIN heap') /\ Len(children') = Len(stay) + 1
    <3>1. stay \in Seq(DOMAIN heap')
      BY <2>2, SeqMonotonic
    <3> QED
      BY <1>2, <2>2, <3>1
  <2>4. nodes' \subseteq {e \in DOMAIN heap' : heap'[e].tag = "node"}
    BY <1>2, <2>1, <2>2 DEF TypeOK
  <2>5. tokens' \subseteq {e \in DOMAIN heap' : heap'[e].tag = "token"}
    BY <2>2 DEF TypeOK
  <2>6. tree' \in {NoElement} \cup {e \in DOMAIN heap' : heap'[e].tag = "node"}
    BY <2>2 DEF TypeOK
  <2> QED
    BY <2>2, <2>3, <2>4, <2>5, <2>6 DEF TypeOK
<1> QED
  BY <1>1, <1>2 DEF PushNode, CachedNodes

\* get_or_intern returns a key of the grown interner.
LEMMA InternType ==
    ASSUME TypeOK, NEW data \in Data, values' = InternedValues(data)
    PROVE  /\ values' \in Seq(Data)
           /\ Len(values) <= Len(values')
           /\ InternedKey(data) \in 0 .. Len(values')
<1>0. values \in Seq(Data) /\ Len(values) \in Nat /\ DOMAIN values = 1 .. Len(values)
  BY DEF TypeOK
<1>1. CASE Interned(data)
  <2>1. values' = values
    BY <1>1 DEF InternedValues
  <2>2. InternedKey(data) \in DOMAIN values
    BY <1>1 DEF Interned, InternedKey
  <2> QED
    BY <1>0, <2>1, <2>2
<1>2. CASE ~ Interned(data)
  BY <1>0, <1>2 DEF InternedValues, InternedKey
<1> QED
  BY <1>1, <1>2

----------------------------------------------------------------------------
(* The invariant.  TypeOK is not inductive by itself: finish_node keeps    *)
(* children[..first_child], and only proper nesting puts first_child       *)
(* inside `children'.                                                      *)

Inv == TypeOK /\ ParentsNested

LEMMA InitInv == Init => Inv
<1> SUFFICES ASSUME Init PROVE Inv
  OBVIOUS
<1>1. heap = <<>> /\ heap \in Seq(Range(heap)) /\ DOMAIN heap = {}
  BY DEF Init
<1>2. TypeOK
  BY <1>1 DEF Init, TypeOK, NoElement
<1>3. ParentsNested
  BY DEF Init, ParentsNested
<1> QED
  BY <1>2, <1>3 DEF Inv

\* The entries of `parents'.
LEMMA ParentType ==
    ASSUME TypeOK
    PROVE  /\ Len(parents) \in Nat /\ DOMAIN parents = 1 .. Len(parents)
           /\ \A i \in DOMAIN parents :
                  parents[i].kind \in NodeKinds /\ parents[i].first_child \in Nat
<1> DEFINE P == [kind : NodeKinds, first_child : Nat]
<1>1. parents \in Seq(P)
  BY DEF TypeOK
<1>2. \A p \in P : p.kind \in NodeKinds /\ p.first_child \in Nat
  OBVIOUS
<1> HIDE DEF P
<1>3. \A i \in 1 .. Len(parents) : parents[i] \in P
  BY <1>1, ElementOfSeq
<1>4. Len(parents) \in Nat /\ DOMAIN parents = 1 .. Len(parents)
  BY <1>1, LenProperties
<1> QED
  BY <1>2, <1>3, <1>4

\* The entries of `checkpoints'.
LEMMA CheckpointType ==
    ASSUME TypeOK
    PROVE  \A i \in DOMAIN checkpoints :
               checkpoints[i].parent_idx \in Nat /\ checkpoints[i].child_idx \in Nat
<1> DEFINE C == [parent_idx : Nat, child_idx : Nat]
<1>1. checkpoints \in Seq(C)
  BY DEF TypeOK
<1>2. \A c \in C : c.parent_idx \in Nat /\ c.child_idx \in Nat
  OBVIOUS
<1> HIDE DEF C
<1>3. \A i \in DOMAIN checkpoints : checkpoints[i] \in C
  BY <1>1, LenProperties, ElementOfSeq
<1> QED
  BY <1>2, <1>3

\* A panic changes nothing but the status.
LEMMA PanicInv == Inv /\ Panic => Inv'
<1> SUFFICES ASSUME Inv, Panic PROVE Inv'
  OBVIOUS
<1> USE DEF Panic, cacheVars, stackVars
<1>1. TypeOK'
  BY DEF Inv, TypeOK, ElementOK
<1>2. ParentsNested'
  BY DEF ParentsNested, Building
<1> QED
  BY <1>1, <1>2 DEF Inv

\* Pushing an element leaves the unfinished nodes inside `children'.
LEMMA PushKeepsNesting ==
    ASSUME Inv, TypeOK', UNCHANGED <<parents, status>>,
           Len(children') = Len(children) + 1
    PROVE  ParentsNested'
<1>1. Len(children) \in Nat
  BY DEF Inv, TypeOK
<1>2. \A i \in DOMAIN parents : parents[i].first_child \in Nat
  BY ParentType DEF Inv
<1> QED
  BY <1>1, <1>2 DEF Inv, ParentsNested, Building

LEMMA RecordTokenInv ==
    ASSUME Inv, NEW kind \in TokenKinds, NEW data \in Data, RecordToken(kind, data)
    PROVE  Inv'
<1> DEFINE static == StaticData[kind]
<1>0. TypeOK /\ values \in Seq(Data) /\ Len(values) \in Nat
  BY DEF Inv, TypeOK
<1>1. CASE Panic
  BY <1>1, PanicInv
<1>2. CASE /\ PushToken(kind, NoKey, ByteLen[static] % U32)
           /\ UNCHANGED <<nodes, values, parents, checkpoints, status, tree>>
  <2>1. /\ NoKey \in 0 .. Len(values')
        /\ values' \in Seq(Data)
        /\ Len(values) <= Len(values')
    BY <1>0, <1>2 DEF NoKey
  <2>2. TypeOK' /\ Len(children') = Len(children) + 1
    BY <1>0, <1>2, <2>1, PushTokenKeepsType
  <2> QED
    BY <1>2, <2>2, PushKeepsNesting DEF Inv
<1>3. CASE /\ values' = InternedValues(data)
           /\ PushToken(kind, InternedKey(data), ByteLen[data] % U32)
           /\ UNCHANGED <<nodes, parents, checkpoints, status, tree>>
  <2>1. /\ values' \in Seq(Data)
        /\ Len(values) <= Len(values')
        /\ InternedKey(data) \in 0 .. Len(values')
    BY <1>0, <1>3, InternType
  <2>2. TypeOK' /\ Len(children') = Len(children) + 1
    BY <1>0, <1>3, <2>1, PushTokenKeepsType
  <2> QED
    BY <1>3, <2>2, PushKeepsNesting DEF Inv
<1> QED
  BY <1>1, <1>2, <1>3 DEF RecordToken

LEMMA StaticTokenInv ==
    ASSUME Inv, NEW kind \in TokenKinds, StaticToken(kind)
    PROVE  Inv'
<1>1. CASE Panic
  BY <1>1, PanicInv
<1>2. CASE /\ PushToken(kind, NoKey, ByteLen[StaticData[kind]] % U32)
           /\ UNCHANGED <<nodes, values, parents, checkpoints, status, tree>>
  <2>1. /\ NoKey \in 0 .. Len(values')
        /\ values' \in Seq(Data)
        /\ Len(values) <= Len(values')
    BY <1>2 DEF NoKey, Inv, TypeOK
  <2>2. TypeOK' /\ Len(children') = Len(children) + 1
    BY <1>2, <2>1, PushTokenKeepsType DEF Inv
  <2> QED
    BY <1>2, <2>2, PushKeepsNesting DEF Inv
<1> QED
  BY <1>1, <1>2 DEF StaticToken

LEMMA InternerMutInv ==
    ASSUME Inv, NEW data \in ValidData, InternerMut(data)
    PROVE  Inv'
<1>1. data \in Data
  BY GreenBuilderAssumption
<1>2. /\ values' \in Seq(Data)
      /\ Len(values) \in Nat /\ Len(values') \in Nat
      /\ Len(values) <= Len(values')
  BY <1>1, InternType DEF InternerMut, Inv, TypeOK
<1>3. UNCHANGED <<heap, nodes, tokens, parents, children, checkpoints, status, tree>>
  BY DEF InternerMut, stackVars
<1>4. TypeOK'
  BY <1>2, <1>3, SMTT(20) DEF Inv, TypeOK, ElementOK
<1>5. ParentsNested'
  BY <1>3 DEF Inv, ParentsNested, Building
<1> QED
  BY <1>4, <1>5 DEF Inv

\* Opening a node at or after the innermost one keeps the nesting.
LEMMA OpenNodeInv ==
    ASSUME Inv, Building, NEW kind \in NodeKinds, NEW first \in Nat,
           first <= Len(children), InsideTopNode(first),
           parents' = Append(parents, [kind |-> kind, first_child |-> first]),
           UNCHANGED <<cacheVars, children, checkpoints, status, tree>>
    PROVE  Inv'
<1> DEFINE open == [kind |-> kind, first_child |-> first]
<1>1. /\ parents \in Seq([kind : NodeKinds, first_child : Nat])
      /\ open \in [kind : NodeKinds, first_child : Nat]
      /\ Len(children) \in Nat
      /\ Len(parents) \in Nat /\ DOMAIN parents = 1 .. Len(parents)
      /\ \A i \in 1 .. Len(parents) : parents[i].first_child \in Nat
  BY ParentType DEF Inv, TypeOK
<1>2. /\ parents' \in Seq([kind : NodeKinds, first_child : Nat])
      /\ DOMAIN parents' = 1 .. Len(parents) + 1
      /\ \A i \in 1 .. Len(parents) : parents'[i] = parents[i]
      /\ parents'[Len(parents) + 1] = open
  BY <1>1
<1>3. TypeOK'
  BY <1>2 DEF Inv, TypeOK, ElementOK, cacheVars
<1>4. \A i \in 1 .. Len(parents) : parents[i].first_child <= first
  <2>1. SUFFICES ASSUME NEW i \in 1 .. Len(parents)
                 PROVE  parents[i].first_child <= first
    OBVIOUS
  <2>2. parents # <<>> /\ Len(parents) \in DOMAIN parents /\ i \in DOMAIN parents
    BY <1>1
  <2>3. parents[i].first_child <= parents[Len(parents)].first_child
    BY <1>1, <2>2 DEF Inv, ParentsNested
  <2> QED
    BY <1>1, <2>2, <2>3 DEF InsideTopNode
<1>5. ParentsNested'
  <2>1. \A i \in DOMAIN parents' : parents'[i].first_child <= Len(children')
    BY <1>1, <1>2, <1>4
  <2>2. \A i, j \in DOMAIN parents' :
           i <= j => parents'[i].first_child <= parents'[j].first_child
    <3>1. SUFFICES ASSUME NEW i \in DOMAIN parents', NEW j \in DOMAIN parents', i <= j
                   PROVE  parents'[i].first_child <= parents'[j].first_child
      OBVIOUS
    <3>2. CASE j = Len(parents) + 1
      BY <1>1, <1>2, <1>4, <3>2
    <3>3. CASE j # Len(parents) + 1
      <4>1. i \in DOMAIN parents /\ j \in DOMAIN parents
        BY <1>1, <1>2, <3>1, <3>3
      <4> QED
        BY <1>1, <1>2, <3>1, <4>1 DEF Inv, ParentsNested
    <3> QED
      BY <3>2, <3>3
  <2> QED
    BY <2>1, <2>2 DEF ParentsNested
<1> QED
  BY <1>3, <1>5 DEF Inv

LEMMA StartNodeInv ==
    ASSUME Inv, NEW kind \in NodeKinds, StartNode(kind)
    PROVE  Inv'
<1>1. Building /\ Len(children) \in Nat
  BY DEF StartNode, Inv, TypeOK
<1>2. InsideTopNode(Len(children))
  <2>1. SUFFICES ASSUME parents # <<>>
                 PROVE  Len(children) >= parents[Len(parents)].first_child
    BY DEF InsideTopNode
  <2>2. Len(parents) \in DOMAIN parents
    BY <2>1 DEF Inv, TypeOK
  <2>3. parents[Len(parents)].first_child \in Nat
    BY <2>2, ParentType DEF Inv
  <2> QED
    BY <1>1, <2>2, <2>3 DEF Inv, ParentsNested
<1> QED
  BY <1>1, <1>2, OpenNodeInv DEF StartNode

LEMMA StartNodeAtInv ==
    ASSUME Inv, NEW i \in DOMAIN checkpoints, NEW kind \in NodeKinds, StartNodeAt(i, kind)
    PROVE  Inv'
<1>1. CASE Panic
  BY <1>1, PanicInv
<1>2. CASE ~ Panic
  <2> DEFINE first == checkpoints[i].child_idx
  <2>1. /\ Building /\ StartAllowed(checkpoints[i])
        /\ parents' = Append(parents, [kind |-> kind, first_child |-> first])
        /\ UNCHANGED <<cacheVars, children, checkpoints, status, tree>>
    BY <1>2 DEF StartNodeAt
  <2>2. first \in Nat
    BY CheckpointType DEF Inv
  <2>3. first <= Len(children) /\ InsideTopNode(first)
    BY <2>1 DEF StartAllowed
  <2> QED
    BY <2>1, <2>2, <2>3, OpenNodeInv
<1> QED
  BY <1>1, <1>2

\* Truncating `parents' keeps the nesting as long as `children' still reaches
\* past every node that stays.
LEMMA TruncateKeepsNesting ==
    ASSUME Inv, NEW depth \in 0 .. Len(parents),
           parents' = SubSeq(parents, 1, depth),
           Len(children') \in Nat,
           \A i \in 1 .. depth : parents[i].first_child <= Len(children'),
           Building
    PROVE  /\ parents' \in Seq([kind : NodeKinds, first_child : Nat])
           /\ ParentsNested'
<1>1. /\ parents \in Seq([kind : NodeKinds, first_child : Nat])
      /\ Len(parents) \in Nat /\ DOMAIN parents = 1 .. Len(parents)
  BY ParentType DEF Inv, TypeOK
<1>2. /\ parents' \in Seq([kind : NodeKinds, first_child : Nat])
      /\ DOMAIN parents' = 1 .. depth
      /\ \A i \in 1 .. depth : parents'[i] = parents[i]
  BY <1>1, PrefixOfSeq
<1>3. \A i \in 1 .. depth : i \in DOMAIN parents
  BY <1>1
<1> QED
  BY <1>2, <1>3 DEF Inv, ParentsNested

LEMMA RevertToInv ==
    ASSUME Inv, NEW i \in DOMAIN checkpoints, RevertTo(i)
    PROVE  Inv'
<1>1. CASE Panic
  BY <1>1, PanicInv
<1>2. CASE ~ Panic
  <2> DEFINE c == checkpoints[i]
  <2>1. /\ Building /\ RevertAllowed(c)
        /\ parents' = SubSeq(parents, 1, c.parent_idx)
        /\ children' = SubSeq(children, 1, c.child_idx)
        /\ UNCHANGED <<cacheVars, checkpoints, status, tree>>
    BY <1>2 DEF RevertTo
  <2>2. c.parent_idx \in Nat /\ c.child_idx \in Nat
    BY CheckpointType DEF Inv
  <2> HIDE DEF c
  <2>3. /\ c.parent_idx <= Len(parents) /\ c.child_idx <= Len(children)
        /\ InsideTopNode(c.child_idx)
    BY <2>1 DEF RevertAllowed
  <2>4. /\ children' \in Seq(DOMAIN heap) /\ Len(children') = c.child_idx
    <3>1. children \in Seq(DOMAIN heap) /\ c.child_idx \in 0 .. Len(children)
      BY <2>2, <2>3 DEF Inv, TypeOK
    <3> QED
      BY <2>1, <3>1, PrefixOfSeq
  <2>5. Len(parents) \in Nat /\ DOMAIN parents = 1 .. Len(parents)
    BY ParentType DEF Inv
  <2>6. \A j \in DOMAIN parents : parents[j].first_child <= c.child_idx
    <3>1. SUFFICES ASSUME NEW j \in DOMAIN parents
                   PROVE  parents[j].first_child <= c.child_idx
      OBVIOUS
    <3>2. parents # <<>> /\ Len(parents) \in DOMAIN parents /\ j <= Len(parents)
      BY <2>5
    <3>3. parents[j].first_child <= parents[Len(parents)].first_child
      BY <2>1, <3>2 DEF Inv, ParentsNested
    <3>4. parents[j].first_child \in Nat /\ parents[Len(parents)].first_child \in Nat
      BY <3>2, ParentType DEF Inv
    <3> QED
      BY <2>2, <2>3, <3>2, <3>3, <3>4 DEF InsideTopNode
  <2>7. /\ parents' \in Seq([kind : NodeKinds, first_child : Nat])
        /\ ParentsNested'
    <3>1. c.parent_idx \in 0 .. Len(parents) /\ Len(children') \in Nat
      BY <2>2, <2>3, <2>4, <2>5
    <3>2. \A j \in 1 .. c.parent_idx : parents[j].first_child <= Len(children')
      BY <2>4, <2>5, <2>6, <3>1
    <3> QED
      BY <2>1, <3>1, <3>2, TruncateKeepsNesting
  <2>8. TypeOK'
    BY <2>1, <2>4, <2>7 DEF Inv, TypeOK, ElementOK, cacheVars
  <2> QED
    BY <2>7, <2>8 DEF Inv
<1> QED
  BY <1>1, <1>2

LEMMA FinishNodeInv == Inv /\ FinishNode => Inv'
<1> SUFFICES ASSUME Inv, FinishNode PROVE Inv'
  OBVIOUS
<1>1. CASE Panic
  BY <1>1, PanicInv
<1>2. CASE ~ Panic
  <2> DEFINE depth == Len(parents)
             top == parents[depth]
             drained == SubSeq(children, top.first_child + 1, Len(children))
             stay == SubSeq(children, 1, top.first_child)
  <2>1. /\ Building /\ parents # <<>>
        /\ parents' = SubSeq(parents, 1, depth - 1)
        /\ \/ status' = "panicked" /\ UNCHANGED <<heap, nodes, children>>
           \/ PushNode(top.kind, stay, drained) /\ UNCHANGED status
        /\ UNCHANGED <<tokens, values, checkpoints, tree>>
    BY <1>2 DEF FinishNode
  <2>2. /\ depth \in Nat \ {0} /\ depth \in DOMAIN parents
        /\ top.kind \in NodeKinds /\ top.first_child \in Nat
        /\ DOMAIN parents = 1 .. depth
        /\ parents \in Seq([kind : NodeKinds, first_child : Nat])
    BY <2>1, ParentType, EmptySeq DEF Inv, TypeOK
  <2>3. children \in Seq(DOMAIN heap) /\ Len(children) \in Nat
        /\ top.first_child <= Len(children)
    BY <2>1, <2>2 DEF Inv, TypeOK, ParentsNested
  <2>4. drained \in Seq(DOMAIN heap) /\ stay \in Seq(DOMAIN heap)
        /\ Len(stay) = top.first_child
    BY <2>2, <2>3
  <2>5. parents' \in Seq([kind : NodeKinds, first_child : Nat])
    <3>1. depth - 1 \in 0 .. Len(parents)
      BY <2>2
    <3> QED
      BY <2>1, <2>2, <3>1, PrefixOfSeq
  <2>6. \A i \in 1 .. depth - 1 : /\ parents[i].first_child <= top.first_child
                                  /\ parents[i].first_child \in Nat
    <3>1. \A i \in 1 .. depth - 1 : i \in DOMAIN parents /\ i <= depth
      BY <2>2
    <3> QED
      BY <2>1, <2>2, <3>1, ParentType DEF Inv, ParentsNested
  <2> HIDE DEF drained, stay, top
  <2>7. CASE status' = "panicked" /\ UNCHANGED <<heap, nodes, children>>
    <3>1. TypeOK'
      BY <2>1, <2>5, <2>7 DEF Inv, TypeOK, ElementOK
    <3> QED
      BY <2>7, <3>1 DEF Inv, ParentsNested, Building
  <2>8. CASE PushNode(top.kind, stay, drained) /\ UNCHANGED status
    <3>1. TypeOK' /\ Len(children') = Len(stay) + 1
      BY <2>1, <2>2, <2>4, <2>5, <2>8, PushNodeKeepsType DEF Inv
    <3>2. \A i \in 1 .. depth - 1 : parents[i].first_child <= Len(children')
      BY <2>2, <2>4, <2>6, <3>1
    <3>3. ParentsNested'
      <4>1. depth - 1 \in 0 .. Len(parents) /\ Len(children') \in Nat
        BY <2>2, <2>4, <3>1
      <4> QED
        BY <2>1, <3>2, <4>1, TruncateKeepsNesting
    <3> QED
      BY <3>1, <3>3 DEF Inv
  <2> QED
    BY <2>1, <2>7, <2>8
<1> QED
  BY <1>1, <1>2

LEMMA TakeCheckpointInv == Inv /\ TakeCheckpoint => Inv'
<1> SUFFICES ASSUME Inv, TakeCheckpoint PROVE Inv'
  OBVIOUS
<1>1. UNCHANGED <<heap, nodes, tokens, values, parents, children, status, tree>>
  BY DEF TakeCheckpoint, cacheVars, stackVars
<1>2. [parent_idx |-> Len(parents), child_idx |-> Len(children)]
        \in [parent_idx : Nat, child_idx : Nat]
  BY DEF Inv, TypeOK
<1>3. checkpoints' \in Seq([parent_idx : Nat, child_idx : Nat])
  BY <1>2 DEF TakeCheckpoint, Inv, TypeOK
<1> QED
  BY <1>1, <1>3 DEF Inv, TypeOK, ElementOK, ParentsNested, Building

LEMMA FinishInv == Inv /\ Finish => Inv'
<1> SUFFICES ASSUME Inv, Finish PROVE Inv'
  OBVIOUS
<1>1. CASE Panic
  BY <1>1, PanicInv
<1>2. CASE ~ Panic
  <2>1. /\ RootComplete /\ tree' = children[1] /\ status' = "finished"
        /\ parents' = <<>> /\ children' = <<>>
        /\ UNCHANGED <<heap, nodes, tokens, values, checkpoints>>
    BY <1>2 DEF Finish, cacheVars
  <2>2. tree' \in DOMAIN heap /\ heap[tree'].tag = "node"
    <3>1. children \in Seq(DOMAIN heap) /\ Len(children) = 1 /\ 1 \in 1 .. Len(children)
      BY <2>1 DEF RootComplete, Inv, TypeOK
    <3>2. children[1] \in DOMAIN heap
      BY <3>1, ElementOfSeq
    <3> QED
      BY <2>1, <3>2 DEF RootComplete, IsNode
  <2>3. TypeOK'
    BY <2>1, <2>2 DEF Inv, TypeOK, ElementOK
  <2> QED
    BY <2>1, <2>3 DEF Inv, ParentsNested, Building
<1> QED
  BY <1>1, <1>2

\* The constructors of the next builder.
LEMMA FreshBuilderInv ==
    ASSUME Inv, FreshBuilder,
           \/ UNCHANGED <<heap, nodes, tokens, values>>
           \/ /\ heap' = <<>> /\ nodes' = {} /\ tokens' = {}
              /\ values' \in Seq(Data)
    PROVE  Inv'
<1>1. ParentsNested'
  BY DEF FreshBuilder, ParentsNested
<1>2. CASE UNCHANGED <<heap, nodes, tokens, values>>
  BY <1>1, <1>2 DEF Inv, TypeOK, ElementOK, FreshBuilder
<1>3. CASE /\ heap' = <<>> /\ nodes' = {} /\ tokens' = {}
           /\ values' \in Seq(Data)
  <2>1. heap' \in Seq(Range(heap')) /\ DOMAIN heap' = {}
    BY <1>3
  <2>2. TypeOK'
    BY <1>3, <2>1 DEF Inv, TypeOK, FreshBuilder
  <2> QED
    BY <1>1, <2>2 DEF Inv
<1> QED
  BY <1>2, <1>3

LEMMA NextInv == Inv /\ [Next]_vars => Inv'
<1> SUFFICES ASSUME Inv, [Next]_vars PROVE Inv'
  OBVIOUS
<1>1. ASSUME NEW k \in TokenKinds, NEW d \in Data, Token(k, d) PROVE Inv'
  BY <1>1, RecordTokenInv DEF Token
<1>2. ASSUME NEW k \in TokenKinds, NEW d \in Data, TokenFromBytes(k, d) PROVE Inv'
  BY <1>2, RecordTokenInv DEF TokenFromBytes
<1>3. ASSUME NEW k \in TokenKinds, StaticToken(k) PROVE Inv'
  BY <1>3, StaticTokenInv
<1>4. ASSUME NEW d \in ValidData, InternerMut(d) PROVE Inv'
  BY <1>4, InternerMutInv
<1>5. ASSUME NEW k \in NodeKinds, StartNode(k) PROVE Inv'
  BY <1>5, StartNodeInv
<1>6. CASE FinishNode
  BY <1>6, FinishNodeInv
<1>7. CASE TakeCheckpoint
  BY <1>7, TakeCheckpointInv
<1>8. ASSUME NEW i \in DOMAIN checkpoints, RevertTo(i) PROVE Inv'
  BY <1>8, RevertToInv
<1>9. ASSUME NEW i \in DOMAIN checkpoints, NEW k \in NodeKinds, StartNodeAt(i, k) PROVE Inv'
  BY <1>9, StartNodeAtInv
<1>10. CASE Finish
  BY <1>10, FinishInv
<1>11. CASE WithCache
  BY <1>11, FreshBuilderInv DEF WithCache, cacheVars
<1>12. CASE WithInterner
  BY <1>12, FreshBuilderInv DEF WithInterner, Inv, TypeOK
<1>13. CASE New
  <2>1. values' \in Seq(Data)
    BY <1>13 DEF New
  <2> QED
    BY <1>13, <2>1, FreshBuilderInv DEF New
<1>14. CASE UNCHANGED vars
  BY <1>14 DEF vars, Inv, TypeOK, ElementOK, ParentsNested, Building
<1> QED
  BY <1>1, <1>2, <1>3, <1>4, <1>5, <1>6, <1>7, <1>8, <1>9, <1>10, <1>11, <1>12,
     <1>13, <1>14 DEF Next

LEMMA Invariance == Spec => []Inv
<1>1. Init => Inv
  BY InitInv
<1>2. Inv /\ [Next]_vars => Inv'
  BY NextInv
<1> QED
  BY <1>1, <1>2, PTL DEF Spec

\* Every variable of the builder keeps its type; in particular the elements on
\* its stack and in its caches exist and every token key resolves.
THEOREM TypeCorrect == Spec => []TypeOK
<1>1. Inv => TypeOK
  BY DEF Inv
<1> QED
  BY <1>1, Invariance, PTL

\* finish_node never drains outside `children', and revert_to and start_node_at
\* keep the unfinished nodes properly nested, whatever checkpoints they are
\* called with: the three assertions are enough.
THEOREM NestingCorrect == Spec => []ParentsNested
<1>1. Inv => ParentsNested
  BY DEF Inv
<1> QED
  BY <1>1, Invariance, PTL

----------------------------------------------------------------------------
(* Remainders *)

LEMMA ModExists ==
    ASSUME NEW a \in Nat, NEW m \in Nat \ {0}
    PROVE  \E q \in Nat : a = m * q + (a % m)
<1> DEFINE S == {n \in Nat : \E q \in Nat, r \in 0 .. m - 1 : n = m * q + r}
<1>1. 0 \in S
  <2>1. 0 = m * 0 + 0 /\ 0 \in 0 .. m - 1
    OBVIOUS
  <2> QED
    BY <2>1
<1>2. ASSUME NEW n \in S PROVE n + 1 \in S
  <2>1. PICK q \in Nat, r \in 0 .. m - 1 : n = m * q + r
    OBVIOUS
  <2>2. CASE r < m - 1
    <3>1. n + 1 = m * q + (r + 1) /\ r + 1 \in 0 .. m - 1
      BY <2>1, <2>2
    <3> QED
      BY <3>1
  <2>3. CASE r = m - 1
    <3>1. m * (q + 1) = m * q + m
      OBVIOUS
    <3>2. n + 1 = m * (q + 1) + 0 /\ 0 \in 0 .. m - 1 /\ q + 1 \in Nat
      BY <2>1, <2>3, <3>1
    <3>3. \E p \in Nat, s \in 0 .. m - 1 : n + 1 = m * p + s
      <4> WITNESS q + 1 \in Nat, 0 \in 0 .. m - 1
      <4> QED
        BY <3>2
    <3> QED
      BY <3>3
  <2> QED
    BY <2>2, <2>3
<1>3. a \in S
  <2> HIDE DEF S
  <2>1. S \in SUBSET Nat
    BY DEF S
  <2> QED
    BY <1>1, <1>2, <2>1, Induct
<1>4. PICK q \in Nat, r \in 0 .. m - 1 : a = m * q + r
  BY <1>3
<1> QED
  BY <1>4, ModUnique

\* Adding a remainder instead of the number changes no remainder.
LEMMA ModAdd ==
    ASSUME NEW a \in Nat, NEW b \in Nat, NEW x \in Nat, NEW m \in Nat \ {0},
           a % m = b % m
    PROVE  (a + (x % m)) % m = (b + x) % m
<1>1. PICK p \in Nat : a = m * p + (a % m)
  BY ModExists
<1>2. PICK q \in Nat : b = m * q + (b % m)
  BY ModExists
<1>3. PICK u \in Nat : x = m * u + (x % m)
  BY ModExists
<1>4. PICK r \in 0 .. m - 1 : r = a % m
  OBVIOUS
<1>5. PICK s \in 0 .. m - 1 : s = x % m
  OBVIOUS
<1>6. PICK v \in Nat : r + s = m * v + ((r + s) % m)
  <2>1. r + s \in Nat
    OBVIOUS
  <2> QED
    BY <2>1, ModExists
<1>7. PICK t \in 0 .. m - 1 : t = (r + s) % m
  OBVIOUS
<1>8. a = m * p + r /\ b = m * q + r /\ x = m * u + s /\ r + s = m * v + t
  BY <1>1, <1>2, <1>3, <1>4, <1>5, <1>6, <1>7
<1>9. \A i \in Nat, j \in Nat : m * i + m * j = m * (i + j)
  OBVIOUS
<1>10. (a + s) % m = t
  <2>1. a + s \in Nat /\ p + v \in Nat /\ a + s = m * (p + v) + t
    BY <1>8, <1>9
  <2> QED
    BY <2>1, ModUnique
<1>11. (b + x) % m = t
  <2>1. b + x = m * q + m * u + (r + s)
    BY <1>8
  <2>2. b + x = (m * q + m * u) + m * v + t
    BY <1>8, <2>1
  <2>3. b + x \in Nat /\ (q + u) + v \in Nat /\ b + x = m * ((q + u) + v) + t
    BY <1>9, <2>2
  <2> QED
    BY <2>3, ModUnique
<1> QED
  BY <1>5, <1>10, <1>11

----------------------------------------------------------------------------
(* The sum of a sequence of lengths *)

PartialSums(lens) ==
    CHOOSE sum : sum = [i \in 0 .. Len(lens) |-> IF i = 0 THEN 0 ELSE sum[i - 1] + lens[i]]

LEMMA SumIsLast == ASSUME NEW lens PROVE SumOf(lens) = PartialSums(lens)[Len(lens)]
BY DEF SumOf, PartialSums

LEMMA PartialSumsExist ==
    ASSUME NEW lens, Len(lens) \in Nat
    PROVE  PartialSums(lens) =
             [i \in 0 .. Len(lens) |-> IF i = 0 THEN 0 ELSE PartialSums(lens)[i - 1] + lens[i]]
<1> DEFINE IsSums(sum, n) ==
               sum = [i \in 0 .. n |-> IF i = 0 THEN 0 ELSE sum[i - 1] + lens[i]]
           S == {n \in Nat : \E sum : IsSums(sum, n)}
<1>1. 0 \in S
  <2>1. IsSums([i \in 0 .. 0 |-> 0], 0)
    OBVIOUS
  <2> QED
    BY <2>1, Zenon
<1>2. ASSUME NEW n \in S PROVE n + 1 \in S
  <2>1. PICK old : IsSums(old, n)
    OBVIOUS
  <2>2. PICK sum : sum = [i \in 0 .. n + 1 |-> IF i = n + 1 THEN old[n] + lens[i] ELSE old[i]]
    OBVIOUS
  <2>3. \A i \in 0 .. n : old[i] = IF i = 0 THEN 0 ELSE old[i - 1] + lens[i]
    BY <2>1
  <2>4. \A i \in 0 .. n + 1 : sum[i] = IF i = 0 THEN 0 ELSE sum[i - 1] + lens[i]
    BY <2>2, <2>3
  <2>5. IsSums(sum, n + 1)
    BY <2>2, <2>4
  <2> HIDE DEF IsSums
  <2> QED
    BY <2>5
<1>3. Len(lens) \in S
  <2> HIDE DEF S
  <2>1. S \in SUBSET Nat
    BY DEF S
  <2> QED
    BY <1>1, <1>2, <2>1, Induct
<1>4. \E sum : IsSums(sum, Len(lens))
  BY <1>3
<1> QED
  BY <1>4 DEF PartialSums

\* The sum of the remainders has the remainder of the sum.
LEMMA SumMod ==
    ASSUME NEW m \in Nat \ {0}, NEW s \in Seq(Nat), NEW t \in Seq(Nat), Len(s) = Len(t),
           \A i \in 1 .. Len(t) : s[i] = t[i] % m
    PROVE  SumOf(s) \in Nat /\ SumOf(t) \in Nat /\ SumOf(s) % m = SumOf(t) % m
<1> DEFINE n == Len(s)
           P == PartialSums(s)
           Q == PartialSums(t)
           S == {k \in Nat : k <= n => P[k] \in Nat /\ Q[k] \in Nat /\ P[k] % m = Q[k] % m}
<1>1. /\ P = [i \in 0 .. n |-> IF i = 0 THEN 0 ELSE P[i - 1] + s[i]]
      /\ Q = [i \in 0 .. n |-> IF i = 0 THEN 0 ELSE Q[i - 1] + t[i]]
  <2>1. Len(s) \in Nat /\ Len(t) \in Nat /\ Len(t) = n
    OBVIOUS
  <2>2. P = [i \in 0 .. n |-> IF i = 0 THEN 0 ELSE P[i - 1] + s[i]]
    BY <2>1, PartialSumsExist
  <2>3. Q = [i \in 0 .. Len(t) |-> IF i = 0 THEN 0 ELSE Q[i - 1] + t[i]]
    BY <2>1, PartialSumsExist
  <2> QED
    BY <2>1, <2>2, <2>3
<1> HIDE DEF P, Q
<1>2. 0 \in S
  BY <1>1
<1>3. ASSUME NEW k \in S PROVE k + 1 \in S
  <2>1. SUFFICES ASSUME k + 1 <= n
                 PROVE  P[k + 1] \in Nat /\ Q[k + 1] \in Nat /\ P[k + 1] % m = Q[k + 1] % m
    OBVIOUS
  <2>2. PICK a \in Nat, b \in Nat : a = P[k] /\ b = Q[k] /\ a % m = b % m
    BY <2>1
  <2>3. PICK x \in Nat : x = t[k + 1] /\ s[k + 1] = x % m
    BY <2>1
  <2>4. P[k + 1] = a + (x % m) /\ Q[k + 1] = b + x
    BY <1>1, <2>1, <2>2, <2>3, SMTT(20)
  <2>5. (a + (x % m)) % m = (b + x) % m
    <3>1. a % m = b % m
      BY <2>2
    <3>2. a \in Nat /\ b \in Nat /\ x \in Nat
      OBVIOUS
    <3> HIDE DEF S, n
    <3> QED
      BY ONLY m \in Nat \ {0}, <3>1, <3>2, ModAdd, ZenonT(20)
  <2>6. a + (x % m) \in Nat /\ b + x \in Nat
    OBVIOUS
  <2> QED
    BY <2>4, <2>5, <2>6
<1>4. n \in S
  <2>1. n \in Nat
    OBVIOUS
  <2> HIDE DEF S, n
  <2>2. S \in SUBSET Nat
    BY DEF S
  <2> QED
    BY <1>2, <1>3, <2>1, <2>2, Induct
<1> QED
  BY <1>4, SumIsLast, SMTT(20) DEF P, Q

----------------------------------------------------------------------------
(* The invariant.  Deduplicated is not inductive by itself: a lookup goes  *)
(* by length and hash and finds what is in the tables, so the tables have  *)
(* to hold everything small, and what is stored with an element has to be  *)
(* determined by its kind and contents.                                    *)

\* The data a token of this kind may have.
TokenDataOK(kind, key, len) ==
    IF StaticData[kind] # NoData
    THEN key = NoKey /\ len = ByteLen[StaticData[kind]] % U32
    ELSE key \in DOMAIN values /\ len = ByteLen[values[key]] % U32

\* Every token is cached.
TokenCached(e) ==
    /\ e \in tokens
    /\ heap[e].kind \in TokenKinds
    /\ heap[e].children = <<>>
    /\ TokenDataOK(heap[e].kind, heap[e].key, heap[e].len)

\* Every small node is cached, and every node's head follows from its children.
NodeCached(e) ==
    /\ Len(heap[e].children) <= CacheThreshold => e \in nodes
    /\ heap[e].key = NoKey
    /\ ~ TextLenPanics(heap[e].children)
    /\ heap[e].len = TextLen(heap[e].children)
    /\ heap[e].hash = HashOf(heap[e].children)

ElementsCached ==
    \A e \in DOMAIN heap : /\ heap[e].tag = "token" => TokenCached(e)
                           /\ heap[e].tag = "node" => NodeCached(e)

CacheInv == KeysDistinct /\ ElementsCached /\ Deduplicated

\* What is stored stays.
ValuesKept == \A k \in DOMAIN values : k \in DOMAIN values' /\ values'[k] = values[k]
HeapKept   == \A e \in DOMAIN heap : e \in DOMAIN heap' /\ heap'[e] = heap[e]

----------------------------------------------------------------------------
(* Interning *)

\* get_or_intern keeps the texts distinct, moves none, and returns a key of
\* the text it was given.
LEMMA InternKeepsValues ==
    ASSUME TypeOK, KeysDistinct, NEW data \in Data, values' = InternedValues(data)
    PROVE  /\ KeysDistinct' /\ ValuesKept
           /\ InternedKey(data) \in DOMAIN values'
           /\ values'[InternedKey(data)] = data
<1>0. values \in Seq(Data) /\ Len(values) \in Nat /\ DOMAIN values = 1 .. Len(values)
  BY DEF TypeOK
<1>1. CASE Interned(data)
  <2>1. values' = values
    BY <1>1 DEF InternedValues
  <2>2. InternedKey(data) \in DOMAIN values /\ values[InternedKey(data)] = data
    BY <1>1 DEF Interned, InternedKey
  <2> QED
    BY <2>1, <2>2 DEF KeysDistinct, ValuesKept
<1>2. CASE ~ Interned(data)
  <2>1. values' = Append(values, data) /\ InternedKey(data) = Len(values) + 1
    BY <1>2 DEF InternedValues, InternedKey
  <2>2. /\ DOMAIN values' = 1 .. Len(values) + 1
        /\ \A k \in 1 .. Len(values) : values'[k] = values[k]
        /\ values'[Len(values) + 1] = data
    BY <1>0, <2>1
  <2>3. \A k \in DOMAIN values : values[k] # data
    BY <1>2 DEF Interned
  <2>4. KeysDistinct'
    <3>1. SUFFICES ASSUME NEW k \in DOMAIN values', NEW l \in DOMAIN values',
                          values'[k] = values'[l]
                   PROVE  k = l
      BY DEF KeysDistinct
    <3>2. \A i \in DOMAIN values' : i \in DOMAIN values \/ i = Len(values) + 1
      BY <1>0, <2>2
    <3>3. CASE k \in DOMAIN values /\ l \in DOMAIN values
      BY <1>0, <2>2, <3>1, <3>3 DEF KeysDistinct
    <3> QED
      BY <1>0, <2>2, <2>3, <3>1, <3>2, <3>3
  <2> QED
    BY <1>0, <2>1, <2>2, <2>4 DEF ValuesKept
<1> QED
  BY <1>1, <1>2

----------------------------------------------------------------------------
(* Heads are computed from elements that do not change. *)

LEMMA HeadsKept ==
    ASSUME NEW elements \in Seq(DOMAIN heap), HeapKept
    PROVE  /\ TotalLen(elements)' = TotalLen(elements)
           /\ TextLen(elements)' = TextLen(elements)
           /\ HashOf(elements)' = HashOf(elements)
<1>1. \A i \in DOMAIN elements : elements[i] \in DOMAIN heap
  BY LenProperties, ElementOfSeq
<1>2. \A i \in DOMAIN elements : heap'[elements[i]] = heap[elements[i]]
  BY <1>1 DEF HeapKept
<1>3. [i \in DOMAIN elements |-> heap'[elements[i]].len]
        = [i \in DOMAIN elements |-> heap[elements[i]].len]
  BY <1>2
<1>4. TotalLen(elements)' = TotalLen(elements)
  BY <1>3, Zenon DEF TotalLen
<1>5. \A i \in DOMAIN elements : HashInput(elements[i])' = HashInput(elements[i])
  BY <1>2 DEF HashInput, IsNode
<1>6. [i \in DOMAIN elements |-> HashInput(elements[i])']
        = [i \in DOMAIN elements |-> HashInput(elements[i])]
  BY <1>5, Zenon
<1>7. HashOf(elements)' = HashOf(elements)
  BY <1>6, Zenon DEF HashOf
<1> QED
  BY <1>4, <1>7 DEF TextLen

\* The children of an element are elements.
LEMMA ChildrenOnHeap ==
    ASSUME TypeOK, NEW e \in DOMAIN heap
    PROVE  heap[e].children \in Seq(DOMAIN heap)
<1>1. heap[e].children \in Seq(1 .. e - 1)
  BY DEF TypeOK, ElementOK
<1>2. 1 .. e - 1 \subseteq DOMAIN heap
  <2>1. DOMAIN heap = 1 .. Len(heap) /\ Len(heap) \in Nat
    BY LenProperties DEF TypeOK
  <2> QED
    BY <2>1
<1> QED
  BY <1>1, <1>2, SeqMonotonic

\* An element that was cached stays cached.
LEMMA CachedKept ==
    ASSUME TypeOK, CacheInv, HeapKept, ValuesKept,
           tokens \subseteq tokens', nodes \subseteq nodes', NEW e \in DOMAIN heap
    PROVE  /\ (heap'[e].tag = "token" => TokenCached(e)')
           /\ (heap'[e].tag = "node" => NodeCached(e)')
<1>1. heap'[e] = heap[e]
  BY DEF HeapKept
<1>2. ASSUME heap[e].tag = "token" PROVE TokenCached(e)'
  <2>1. TokenCached(e)
    BY <1>2 DEF CacheInv, ElementsCached
  <2> QED
    BY <1>1, <2>1 DEF TokenCached, TokenDataOK, ValuesKept
<1>3. ASSUME heap[e].tag = "node" PROVE NodeCached(e)'
  <2>1. NodeCached(e)
    BY <1>3 DEF CacheInv, ElementsCached
  <2>2. PICK elements \in Seq(DOMAIN heap) : elements = heap[e].children
    BY ChildrenOnHeap
  <2>3. /\ TextLen(elements)' = TextLen(elements) /\ HashOf(elements)' = HashOf(elements)
        /\ TextLenPanics(elements)' = TextLenPanics(elements)
    BY HeadsKept DEF TextLenPanics
  <2>4. /\ heap'[e].len = TextLen(elements)' /\ heap'[e].hash = HashOf(elements)'
        /\ ~ TextLenPanics(elements)'
    BY <1>1, <2>1, <2>2, <2>3 DEF NodeCached
  <2> QED
    BY <1>1, <2>1, <2>2, <2>4 DEF NodeCached
<1> QED
  BY <1>1, <1>2, <1>3

----------------------------------------------------------------------------
(* The steps of the cache *)

\* The cache is not touched; the interner may grow.
LEMMA CacheUntouched ==
    ASSUME TypeOK, CacheInv, UNCHANGED <<heap, nodes, tokens>>,
           KeysDistinct', ValuesKept
    PROVE  CacheInv'
<1>1. HeapKept
  BY DEF HeapKept
<1>2. ElementsCached'
  BY <1>1, CachedKept DEF ElementsCached
<1> QED
  BY <1>2 DEF CacheInv, Deduplicated

\* The cache is replaced by an empty one.
LEMMA CacheEmptied ==
    ASSUME heap' = <<>>, KeysDistinct'
    PROVE  CacheInv'
<1>1. DOMAIN heap' = {}
  OBVIOUS
<1> QED
  BY <1>1 DEF CacheInv, ElementsCached, Deduplicated

\* The new element is unlike every other.
LEMMA AllocateDeduplicated ==
    ASSUME TypeOK, CacheInv, NEW element, heap' = Append(heap, element),
           \A f \in DOMAIN heap :
               ~ /\ <<heap[f].tag, heap[f].kind, heap[f].key, heap[f].children>>
                      = <<element.tag, element.kind, element.key, element.children>>
                 /\ Len(element.children) <= CacheThreshold
    PROVE  Deduplicated'
<1> DEFINE new == Len(heap) + 1
<1>1. /\ Len(heap) \in Nat /\ DOMAIN heap = 1 .. Len(heap)
      /\ DOMAIN heap' = 1 .. new
      /\ \A i \in DOMAIN heap : heap'[i] = heap[i]
      /\ heap'[new] = element
  BY AppendToRange DEF TypeOK
<1>2. \A e \in DOMAIN heap' : e \in DOMAIN heap \/ e = new
  BY <1>1
<1> HIDE DEF new
<1>3. SUFFICES ASSUME NEW e \in DOMAIN heap', NEW f \in DOMAIN heap',
                      <<heap'[e].tag, heap'[e].kind, heap'[e].key, heap'[e].children>>
                        = <<heap'[f].tag, heap'[f].kind, heap'[f].key, heap'[f].children>>,
                      Len(heap'[e].children) <= CacheThreshold
               PROVE  e = f
  BY DEF Deduplicated
<1>4. CASE e \in DOMAIN heap /\ f \in DOMAIN heap
  BY <1>1, <1>3, <1>4 DEF CacheInv, Deduplicated
<1>5. CASE e = new /\ f \in DOMAIN heap
  BY <1>1, <1>3, <1>5
<1>6. CASE e \in DOMAIN heap /\ f = new
  BY <1>1, <1>3, <1>6
<1> QED
  BY <1>2, <1>4, <1>5, <1>6

\* NodeCache::token.
LEMMA PushTokenKeepsCache ==
    ASSUME TypeOK, CacheInv, NEW kind \in TokenKinds, NEW key, NEW len,
           PushToken(kind, key, len), TokenDataOK(kind, key, len)',
           UNCHANGED nodes, KeysDistinct', ValuesKept
    PROVE  CacheInv'
<1>new. PICK new : new = Len(heap) + 1
  OBVIOUS
<1> DEFINE element == GreenToken(kind, key, len)
<1>1. CASE UNCHANGED <<heap, tokens>>
  BY <1>1, CacheUntouched
<1>2. CASE /\ CachedTokens(kind, key, len) = {}
           /\ heap' = Append(heap, element)
           /\ tokens' = tokens \cup {new}
  <2>1. /\ element.tag = "token" /\ element.kind = kind /\ element.key = key
        /\ element.len = len /\ element.children = <<>>
    BY DEF GreenToken
  <2> HIDE DEF element
  <2>2. /\ DOMAIN heap = 1 .. Len(heap) /\ DOMAIN heap' = 1 .. new
        /\ Len(heap) \in Nat
        /\ \A i \in DOMAIN heap : heap'[i] = heap[i]
        /\ heap'[new] = element
    BY <1>new, <1>2, AppendToRange DEF TypeOK
  <2>3. HeapKept
    BY <1>new, <2>2 DEF HeapKept
  <2>4. TokenCached(new)'
    BY <1>2, <2>1, <2>2 DEF TokenCached
  <2>5. ElementsCached'
    <3>1. ASSUME NEW e \in DOMAIN heap'
          PROVE  /\ (heap'[e].tag = "token" => TokenCached(e)')
                 /\ (heap'[e].tag = "node" => NodeCached(e)')
      <4>1. CASE e \in DOMAIN heap
        BY <1>2, <2>3, <4>1, CachedKept
      <4>2. CASE e = new
        BY <2>1, <2>2, <2>4, <4>2
      <4> QED
        BY <1>new, <2>2, <4>1, <4>2
    <3> QED
      BY <3>1 DEF ElementsCached
  <2>6. ASSUME NEW f \in DOMAIN heap, heap[f].tag = "token",
               heap[f].kind = kind, heap[f].key = key
        PROVE  FALSE
    <3>1. TokenCached(f)
      BY <2>6 DEF CacheInv, ElementsCached
    <3>2. heap[f].len = len
      BY <2>6, <3>1 DEF TokenCached, TokenDataOK, ValuesKept
    <3> QED
      BY <1>2, <2>6, <3>1, <3>2 DEF TokenCached, CachedTokens
  <2>7. Deduplicated'
    BY <1>2, <2>1, <2>6, AllocateDeduplicated
  <2> QED
    BY <2>5, <2>7 DEF CacheInv
<1> QED
  BY <1>new, <1>1, <1>2 DEF PushToken

\* NodeCache::node.
LEMMA PushNodeKeepsCache ==
    ASSUME TypeOK, CacheInv, NEW kind, NEW stay,
           NEW drained \in Seq(DOMAIN heap), ~ TextLenPanics(drained),
           PushNode(kind, stay, drained), UNCHANGED <<tokens, values>>
    PROVE  CacheInv'
<1>new. PICK new : new = Len(heap) + 1
  OBVIOUS
<1> DEFINE element == GreenNode(kind, TextLen(drained), HashOf(drained), drained)
<1>0. KeysDistinct' /\ ValuesKept
  BY DEF CacheInv, KeysDistinct, ValuesKept
<1>1. CASE UNCHANGED <<heap, nodes>>
  BY <1>0, <1>1, CacheUntouched
<1>2. CASE /\ heap' = Append(heap, element)
           /\ \/ /\ Len(drained) <= CacheThreshold
                 /\ CachedNodes(kind, TextLen(drained), HashOf(drained)) = {}
                 /\ nodes' = nodes \cup {new}
              \/ ~ (Len(drained) <= CacheThreshold) /\ UNCHANGED nodes
  <2>1. /\ element.tag = "node" /\ element.kind = kind /\ element.key = NoKey
        /\ element.len = TextLen(drained) /\ element.hash = HashOf(drained)
        /\ element.children = drained
    BY DEF GreenNode
  <2> HIDE DEF element
  <2>2. /\ DOMAIN heap = 1 .. Len(heap) /\ DOMAIN heap' = 1 .. new
        /\ Len(heap) \in Nat
        /\ \A i \in DOMAIN heap : heap'[i] = heap[i]
        /\ heap'[new] = element
    BY <1>new, <1>2, AppendToRange DEF TypeOK
  <2>3. HeapKept
    BY <1>new, <2>2 DEF HeapKept
  <2>4. /\ TextLen(drained)' = TextLen(drained) /\ HashOf(drained)' = HashOf(drained)
        /\ ~ TextLenPanics(drained)'
    BY <2>3, HeadsKept DEF TextLenPanics
  <2>5. NodeCached(new)'
    <3>1. heap'[new].len = TextLen(drained)' /\ heap'[new].hash = HashOf(drained)'
      BY <2>1, <2>2, <2>4
    <3>2. heap'[new].children = drained /\ heap'[new].key = NoKey
      BY <2>1, <2>2
    <3>3. Len(drained) <= CacheThreshold => new \in nodes'
      BY <1>2
    <3> QED
      BY <2>4, <3>1, <3>2, <3>3 DEF NodeCached
  <2>6. ElementsCached'
    <3>1. ASSUME NEW e \in DOMAIN heap'
          PROVE  /\ (heap'[e].tag = "token" => TokenCached(e)')
                 /\ (heap'[e].tag = "node" => NodeCached(e)')
      <4>1. CASE e \in DOMAIN heap
        BY <1>0, <1>2, <2>3, <4>1, CachedKept
      <4>2. CASE e = new
        BY <2>1, <2>2, <2>5, <4>2
      <4> QED
        BY <1>new, <2>2, <4>1, <4>2
    <3> QED
      BY <3>1 DEF ElementsCached
  <2>7. ASSUME NEW f \in DOMAIN heap, heap[f].tag = "node", heap[f].kind = kind,
               heap[f].children = drained, Len(drained) <= CacheThreshold
        PROVE  FALSE
    <3>1. NodeCached(f)
      BY <2>7 DEF CacheInv, ElementsCached
    <3> QED
      BY <1>2, <2>7, <3>1 DEF NodeCached, CachedNodes
  <2>8. Deduplicated'
    BY <1>2, <2>1, <2>7, AllocateDeduplicated
  <2> QED
    BY <1>0, <2>6, <2>8 DEF CacheInv
<1> QED
  <2>1. Len(drained) \in Nat /\ CacheThreshold \in Nat
    BY GreenBuilderAssumption
  <2> QED
    BY <1>new, <1>1, <1>2, <2>1 DEF PushNode

----------------------------------------------------------------------------
(* The steps of the builder *)

\* An interner that is left alone.
LEMMA SameValues ==
    ASSUME CacheInv, UNCHANGED values
    PROVE  KeysDistinct' /\ ValuesKept
BY DEF CacheInv, KeysDistinct, ValuesKept

LEMMA PanicCache == TypeOK /\ CacheInv /\ Panic => CacheInv' /\ ValuesKept
BY SameValues, CacheUntouched DEF Panic, cacheVars

LEMMA StaticTokenCache ==
    ASSUME TypeOK, CacheInv, NEW kind \in TokenKinds, StaticData[kind] # NoData,
           PushToken(kind, NoKey, ByteLen[StaticData[kind]] % U32),
           UNCHANGED <<nodes, values>>
    PROVE  CacheInv' /\ ValuesKept
<1>1. TokenDataOK(kind, NoKey, ByteLen[StaticData[kind]] % U32)'
  BY DEF TokenDataOK
<1> QED
  BY <1>1, SameValues, PushTokenKeepsCache

LEMMA RecordTokenCache ==
    ASSUME TypeOK, CacheInv, NEW kind \in TokenKinds, NEW data \in Data,
           RecordToken(kind, data)
    PROVE  CacheInv' /\ ValuesKept
<1>1. CASE Panic
  BY <1>1, PanicCache
<1>2. CASE /\ StaticData[kind] # NoData
           /\ PushToken(kind, NoKey, ByteLen[StaticData[kind]] % U32)
           /\ UNCHANGED <<nodes, values>>
  BY <1>2, StaticTokenCache
<1>3. CASE /\ StaticData[kind] = NoData
           /\ values' = InternedValues(data)
           /\ PushToken(kind, InternedKey(data), ByteLen[data] % U32)
           /\ UNCHANGED nodes
  <2>1. PICK key : key = InternedKey(data)
    OBVIOUS
  <2>2. /\ KeysDistinct' /\ ValuesKept
        /\ key \in DOMAIN values' /\ values'[key] = data
    BY <1>3, <2>1, InternKeepsValues DEF CacheInv
  <2>3. TokenDataOK(kind, key, ByteLen[data] % U32)'
    BY <1>3, <2>2 DEF TokenDataOK
  <2> QED
    BY <1>3, <2>1, <2>2, <2>3, PushTokenKeepsCache
<1> QED
  BY <1>1, <1>2, <1>3 DEF RecordToken

LEMMA FinishNodeCache ==
    ASSUME Inv, CacheInv, FinishNode
    PROVE  CacheInv' /\ ValuesKept
<1>1. CASE Panic
  BY <1>1, PanicCache DEF Inv
<1>2. CASE ~ Panic
  <2>1. PICK top, drained, stay :
           /\ top = parents[Len(parents)]
           /\ drained = SubSeq(children, top.first_child + 1, Len(children))
           /\ stay = SubSeq(children, 1, top.first_child)
    OBVIOUS
  <2>2. /\ Building /\ parents # <<>>
        /\ \/ UNCHANGED <<heap, nodes>>
           \/ ~ TextLenPanics(drained) /\ PushNode(top.kind, stay, drained)
        /\ UNCHANGED <<tokens, values>>
    BY <1>2, <2>1 DEF FinishNode
  <2>3. KeysDistinct' /\ ValuesKept
    BY <2>2, SameValues
  <2>4. drained \in Seq(DOMAIN heap)
    <3>1. Len(parents) \in DOMAIN parents /\ top.first_child \in Nat
      BY <2>1, <2>2, ParentType, EmptySeq DEF Inv, TypeOK
    <3>2. children \in Seq(DOMAIN heap) /\ Len(children) \in Nat
      BY DEF Inv, TypeOK
    <3> QED
      BY <2>1, <3>1, <3>2
  <2> QED
    BY <2>2, <2>3, <2>4, CacheUntouched, PushNodeKeepsCache DEF Inv
<1> QED
  BY <1>1, <1>2

\* A builder's steps, other than those that empty the cache.
LEMMA CallKeepsCache ==
    ASSUME Inv, CacheInv, [Next]_vars, ~ WithInterner, ~ New
    PROVE  CacheInv' /\ ValuesKept
<1>0. TypeOK
  BY DEF Inv
<1> DEFINE Goal == CacheInv' /\ ValuesKept
<1>1. ASSUME NEW k \in TokenKinds, NEW d \in Data, RecordToken(k, d) PROVE Goal
  BY <1>0, <1>1, RecordTokenCache
<1>2. ASSUME NEW k \in TokenKinds, StaticToken(k) PROVE Goal
  BY <1>0, <1>2, PanicCache, StaticTokenCache DEF StaticToken
<1>3. ASSUME NEW d \in ValidData, InternerMut(d) PROVE Goal
  <2>1. d \in Data
    BY GreenBuilderAssumption
  <2>2. KeysDistinct' /\ ValuesKept
    BY <1>0, <1>3, <2>1, InternKeepsValues DEF InternerMut, CacheInv
  <2> QED
    BY <1>0, <1>3, <2>2, CacheUntouched DEF InternerMut
<1>4. CASE FinishNode
  BY <1>4, FinishNodeCache
<1>5. CASE UNCHANGED cacheVars
  BY <1>0, <1>5, SameValues, CacheUntouched DEF cacheVars
<1>6. ASSUME NEW k \in NodeKinds, StartNode(k) PROVE UNCHANGED cacheVars
  BY <1>6 DEF StartNode
<1>7. ASSUME NEW i \in DOMAIN checkpoints, RevertTo(i) PROVE UNCHANGED cacheVars
  BY <1>7 DEF RevertTo, Panic
<1>8. ASSUME NEW i \in DOMAIN checkpoints, NEW k \in NodeKinds, StartNodeAt(i, k)
      PROVE  UNCHANGED cacheVars
  BY <1>8 DEF StartNodeAt, Panic
<1>9. CASE TakeCheckpoint \/ Finish \/ WithCache \/ UNCHANGED vars
  <2>1. UNCHANGED cacheVars
    BY <1>9 DEF TakeCheckpoint, Finish, Panic, WithCache, vars, cacheVars
  <2> QED
    BY <1>5, <2>1
<1> QED
  BY <1>1, <1>2, <1>3, <1>4, <1>5, <1>6, <1>7, <1>8, <1>9 DEF Next, Token, TokenFromBytes

LEMMA CacheInit == Init => CacheInv
<1> SUFFICES ASSUME Init PROVE CacheInv
  OBVIOUS
<1>1. DOMAIN heap = {} /\ DOMAIN values = {}
  BY DEF Init
<1> QED
  BY <1>1 DEF CacheInv, KeysDistinct, ElementsCached, Deduplicated

LEMMA CacheNext == Inv /\ CacheInv /\ [Next]_vars => CacheInv'
<1> SUFFICES ASSUME Inv, CacheInv, [Next]_vars PROVE CacheInv'
  OBVIOUS
<1>1. CASE WithInterner
  BY <1>1, SameValues, CacheEmptied DEF WithInterner
<1>2. CASE New
  <2>1. heap' = <<>> /\ DOMAIN values' = {}
    BY <1>2 DEF New
  <2>2. KeysDistinct'
    BY <2>1 DEF KeysDistinct
  <2> QED
    BY <2>1, <2>2, CacheEmptied
<1> QED
  BY <1>1, <1>2, CallKeepsCache

LEMMA CacheInvariance == Spec => [](Inv /\ CacheInv)
<1>1. Init => Inv /\ CacheInv
  BY InitInv, CacheInit
<1>2. (Inv /\ CacheInv) /\ [Next]_vars => (Inv /\ CacheInv)'
  BY NextInv, CacheNext
<1> QED
  BY <1>1, <1>2, PTL DEF Spec

----------------------------------------------------------------------------

\* The interner never gives two keys to one text, and finds every text it knows
\* under its key, also when it has no keys left for others.
THEOREM InterningCorrect == Spec => []InternerInjective
<1>1. CacheInv => InternerInjective
  <2> SUFFICES ASSUME CacheInv PROVE InternerInjective
    OBVIOUS
  <2>1. KeysDistinct
    BY DEF CacheInv
  <2>2. ASSUME NEW k \in DOMAIN values
        PROVE  ~ InternFails(values[k]) /\ InternedKey(values[k]) = k
    <3>1. Interned(values[k])
      BY DEF Interned
    <3>2. PICK l \in DOMAIN values : l = InternedKey(values[k]) /\ values[l] = values[k]
      BY <3>1 DEF InternedKey, Interned
    <3> QED
      BY <2>1, <3>1, <3>2 DEF KeysDistinct, InternFails
  <2> QED
    BY <2>1, <2>2 DEF InternerInjective
<1> QED
  BY <1>1, CacheInvariance, PTL

\* Until the interner is replaced by a new one, a key means the text it was
\* given out for.
THEOREM KeysCorrect == Spec => KeysStable
<1>1. (Inv /\ CacheInv) /\ [Next]_vars =>
        [~ New => \A k \in DOMAIN values : k \in DOMAIN values' /\ values'[k] = values[k]]_vars
  <2> SUFFICES ASSUME Inv, CacheInv, [Next]_vars, ~ New
               PROVE  ValuesKept
    BY DEF ValuesKept
  <2>1. CASE WithInterner
    BY <2>1, SameValues DEF WithInterner
  <2> QED
    BY <2>1, CallKeepsCache
<1> QED
  BY <1>1, CacheInvariance, PTL DEF Spec, KeysStable

\* One allocation per token and per small node, whatever the hash function
\* and the threshold are.
THEOREM SharingCorrect == Spec => []Deduplicated
<1>1. CacheInv => Deduplicated
  BY DEF CacheInv
<1> QED
  BY <1>1, CacheInvariance, PTL

\* Tokens that text_eq takes for equal have the same text: a key is only ever
\* compared with keys of the same interner, and static kinds have no keys.
THEOREM TextEqCorrect == Spec => []TextEqSound
<1>1. Inv /\ CacheInv => TextEqSound
  <2> SUFFICES ASSUME Inv, CacheInv, NEW e \in TokensOnHeap, NEW f \in TokensOnHeap, DataEq(e, f)
               PROVE  TextOf(e) = TextOf(f)
    BY DEF TextEqSound
  <2>1. TokenCached(e) /\ TokenCached(f)
    BY DEF CacheInv, ElementsCached, TokensOnHeap
  <2>2. NoKey \notin DOMAIN values
    BY LenProperties DEF Inv, TypeOK, NoKey
  <2>3. CASE heap[e].key = NoKey
    BY <2>1, <2>2, <2>3 DEF TokenCached, TokenDataOK, DataEq, TextOf
  <2>4. CASE heap[e].key # NoKey
    BY <2>1, <2>2, <2>4 DEF TokenCached, TokenDataOK, DataEq, TextOf
  <2> QED
    BY <2>3, <2>4
<1> QED
  BY <1>1, CacheInvariance, PTL

----------------------------------------------------------------------------
(* Text lengths *)

\* The recursive definition of TrueLen has a solution, because children are
\* older than their parents.
LEMMA TrueLenExists ==
    ASSUME TypeOK
    PROVE  TrueLen = [e \in DOMAIN heap |->
               IF heap[e].tag = "token"
               THEN ByteLen[TextOf(e)]
               ELSE SumOf([i \in DOMAIN heap[e].children |-> TrueLen[heap[e].children[i]]])]
<1> DEFINE N == Len(heap)
           Kids(e) == heap[e].children
           Body(g, e) == IF heap[e].tag = "token"
                         THEN ByteLen[TextOf(e)]
                         ELSE SumOf([i \in DOMAIN Kids(e) |-> g[Kids(e)[i]]])
           IsLens(g, n) == g = [e \in 1 .. n |-> Body(g, e)]
           S == {n \in Nat : n <= N => \E g : IsLens(g, n)}
<1>1. DOMAIN heap = 1 .. N /\ N \in Nat
  BY LenProperties DEF TypeOK
<1>2. \A e \in 1 .. N : \A i \in DOMAIN Kids(e) : Kids(e)[i] \in 1 .. e - 1
  BY <1>1, LenProperties, ElementOfSeq DEF TypeOK, ElementOK
<1>3. ASSUME NEW g, NEW h, NEW n \in Nat, n <= N, \A e \in 1 .. n - 1 : g[e] = h[e]
      PROVE  \A e \in 1 .. n : Body(g, e) = Body(h, e)
  <2>1. SUFFICES ASSUME NEW e \in 1 .. n PROVE Body(g, e) = Body(h, e)
    OBVIOUS
  <2>2. \A i \in DOMAIN Kids(e) : g[Kids(e)[i]] = h[Kids(e)[i]]
    BY <1>1, <1>2, <1>3
  <2>3. [i \in DOMAIN Kids(e) |-> g[Kids(e)[i]]] = [i \in DOMAIN Kids(e) |-> h[Kids(e)[i]]]
    BY <2>2, Zenon
  <2> HIDE DEF Kids
  <2> QED
    BY <2>3, Zenon
<1> HIDE DEF Body
<1>4. 0 \in S
  <2>1. IsLens([e \in 1 .. 0 |-> 0], 0)
    OBVIOUS
  <2> HIDE DEF IsLens
  <2> QED
    BY <2>1
<1>5. ASSUME NEW n \in S PROVE n + 1 \in S
  <2>1. SUFFICES ASSUME n + 1 <= N PROVE \E g : IsLens(g, n + 1)
    OBVIOUS
  <2>2. n \in Nat /\ n <= N
    BY <1>1, <2>1
  <2>3. PICK old : IsLens(old, n)
    BY <2>2
  <2>4. PICK g : g = [e \in 1 .. n + 1 |-> IF e = n + 1 THEN Body(old, e) ELSE old[e]]
    OBVIOUS
  <2>5. \A e \in 1 .. n : g[e] = old[e]
    BY <2>2, <2>4
  <2>6. \A e \in 1 .. n + 1 : Body(g, e) = Body(old, e)
    BY <1>3, <2>1, <2>2, <2>5
  <2>7. \A e \in 1 .. n + 1 : g[e] = Body(old, e)
    BY <2>2, <2>3, <2>4
  <2>8. IsLens(g, n + 1)
    BY <2>4, <2>6, <2>7
  <2> HIDE DEF IsLens
  <2> QED
    BY <2>8
<1>6. N \in S
  <2> HIDE DEF S
  <2>1. S \in SUBSET Nat
    BY DEF S
  <2> QED
    BY <1>1, <1>4, <1>5, <2>1, Induct
<1>7. \E g : IsLens(g, N)
  BY <1>1, <1>6
<1>8. \E g : g = [e \in DOMAIN heap |-> Body(g, e)]
  BY <1>1, <1>7
<1> QED
  BY <1>8, Zenon DEF Body, TrueLen

\* The lengths of the tokens are those of their texts.
LEMMA TokenLen ==
    ASSUME TypeOK, CacheInv, NEW e \in DOMAIN heap, heap[e].tag = "token"
    PROVE  ByteLen[TextOf(e)] \in Nat /\ heap[e].len = ByteLen[TextOf(e)] % U32
           /\ TextOf(e) \in Data
<1>1. TokenCached(e)
  BY DEF CacheInv, ElementsCached
<1>2. TextOf(e) \in Data
  <2>1. CASE StaticData[heap[e].kind] # NoData
    BY <1>1, <2>1, GreenBuilderAssumption DEF TokenCached, TextOf
  <2>2. CASE StaticData[heap[e].kind] = NoData
    <3>1. heap[e].key \in 1 .. Len(values) /\ values \in Seq(Data)
      BY <1>1, <2>2, LenProperties DEF TokenCached, TokenDataOK, TypeOK
    <3> QED
      BY <2>2, <3>1, ElementOfSeq DEF TextOf
  <2> QED
    BY <2>1, <2>2
<1>3. heap[e].len = ByteLen[TextOf(e)] % U32
  BY <1>1 DEF TokenCached, TokenDataOK, TextOf
<1> QED
  BY <1>2, <1>3, GreenBuilderAssumption

\* What is to be shown of the length of an element.
LenOK(e) ==
    /\ heap[e].len \in Nat /\ TrueLen[e] \in Nat
    /\ heap[e].len = TrueLen[e] % U32
    /\ DebugAssertions /\ (\A d \in Data : ByteLen[d] < U32) => heap[e].len = TrueLen[e]

LEMMA NodeLen ==
    ASSUME TypeOK, CacheInv, NEW e \in DOMAIN heap, heap[e].tag = "node",
           \A f \in 1 .. e - 1 : LenOK(f)
    PROVE  LenOK(e)
<1>0. U32 \in Nat \ {0}
  BY GreenBuilderAssumption
<1>1. PICK kids \in Seq(1 .. e - 1) : kids = heap[e].children
  BY DEF TypeOK, ElementOK
<1>2. PICK n \in Nat : n = Len(kids) /\ DOMAIN kids = 1 .. n
  BY LenProperties
<1>3. \A i \in 1 .. n : kids[i] \in 1 .. e - 1
  BY <1>2, ElementOfSeq
<1>4. PICK s, t : s = [i \in 1 .. n |-> heap[kids[i]].len] /\ t = [i \in 1 .. n |-> TrueLen[kids[i]]]
  OBVIOUS
<1>5. /\ s \in Seq(Nat) /\ t \in Seq(Nat) /\ Len(s) = n /\ Len(t) = n
      /\ \A i \in 1 .. n : s[i] = t[i] % U32
  <2>1. \A i \in 1 .. n : s[i] \in Nat /\ t[i] \in Nat /\ s[i] = t[i] % U32
    BY <1>3, <1>4 DEF LenOK
  <2>2. s \in [1 .. n -> Nat] /\ t \in [1 .. n -> Nat]
    BY <1>4, <2>1
  <2> QED
    BY <2>1, <2>2
<1>6. TotalLen(kids) = SumOf(s)
  BY <1>2, <1>4 DEF TotalLen
<1>7. TrueLen[e] = SumOf(t)
  BY <1>1, <1>2, <1>4, TrueLenExists
<1>8. NodeCached(e)
  BY DEF CacheInv, ElementsCached
<1>9. heap[e].len = SumOf(s) % U32
  BY <1>1, <1>6, <1>8 DEF NodeCached, TextLen
<1>10. SumOf(s) \in Nat /\ SumOf(t) \in Nat /\ SumOf(s) % U32 = SumOf(t) % U32
  BY <1>0, <1>5, SumMod
<1>11. ASSUME DebugAssertions, \A d \in Data : ByteLen[d] < U32
       PROVE  heap[e].len = TrueLen[e]
  <2>1. s = t
    BY <1>3, <1>4, <1>11 DEF LenOK
  <2>2. SumOf(s) < U32
    BY <1>0, <1>1, <1>6, <1>8, <1>10, <1>11 DEF NodeCached, TextLenPanics
  <2>3. PICK x \in 0 .. U32 - 1 : x = SumOf(s)
    BY <1>0, <1>10, <2>2
  <2>4. x % U32 = x
    BY <1>0
  <2> QED
    BY <1>7, <1>9, <2>1, <2>3, <2>4
<1>12. SumOf(s) % U32 \in Nat
  BY <1>0, <1>10
<1> QED
  BY <1>7, <1>9, <1>10, <1>11, <1>12 DEF LenOK

\* The length stored with an element is that of its text modulo the width, and
\* in a build with debug assertions, where sums that do not fit panic, that of
\* its text.
THEOREM TextLenCorrect == Spec => []TextLenFaithful
<1>1. Inv /\ CacheInv => TextLenFaithful
  <2> SUFFICES ASSUME Inv, CacheInv PROVE TextLenFaithful
    OBVIOUS
  <2>0. TypeOK /\ U32 \in Nat \ {0}
    BY GreenBuilderAssumption DEF Inv
  <2> DEFINE S == {n \in Nat : \A e \in DOMAIN heap : e <= n => LenOK(e)}
  <2>1. DOMAIN heap \subseteq Nat \ {0}
    BY LenProperties DEF Inv, TypeOK
  <2>2. 0 \in S
    BY <2>1
  <2>3. ASSUME NEW n \in S PROVE n + 1 \in S
    <3>1. SUFFICES ASSUME NEW e \in DOMAIN heap, e = n + 1 PROVE LenOK(e)
      BY <2>1
    <3>2. CASE heap[e].tag = "token"
      <4>1. /\ ByteLen[TextOf(e)] \in Nat /\ TextOf(e) \in Data
            /\ heap[e].len = ByteLen[TextOf(e)] % U32
        BY <2>0, <3>2, TokenLen
      <4>2. TrueLen[e] = ByteLen[TextOf(e)]
        BY <2>0, <3>2, TrueLenExists
      <4>3. PICK x \in Nat : x = TrueLen[e]
        BY <4>1, <4>2
      <4>4. x % U32 \in Nat /\ (x < U32 => x % U32 = x)
        BY <2>0
      <4> QED
        BY <4>1, <4>2, <4>3, <4>4 DEF LenOK
    <3>3. CASE heap[e].tag = "node"
      <4>1. \A f \in 1 .. e - 1 : f \in DOMAIN heap /\ f <= n
        BY <3>1, LenProperties DEF Inv, TypeOK
      <4> QED
        BY <2>0, <3>3, <4>1, NodeLen
    <3> QED
      BY <3>2, <3>3 DEF Inv, TypeOK, ElementOK
  <2>4. S = Nat
    <3> HIDE DEF S
    <3>1. S \in SUBSET Nat
      BY DEF S
    <3> QED
      BY <2>2, <2>3, <3>1, Induct
  <2>5. \A e \in DOMAIN heap : LenOK(e)
    <3>1. \A e \in DOMAIN heap : e \in S /\ e <= e
      BY <2>1, <2>4
    <3> QED
      BY <3>1
  <2> QED
    BY <2>5 DEF TextLenFaithful, LenOK
<1> QED
  BY <1>1, CacheInvariance, PTL

----------------------------------------------------------------------------
(* Checkpoints *)

\* The steps of the history specification are steps of the builder.
LEMMA HNextIsNext == [HNext]_hvars => [Next]_vars
BY DEF HNext, hvars, vars, Next, HFinishNode, HTakeCheckpoint, HRevertTo, HFinish,
       HWithCache, HWithInterner, HNew

\* Nothing in a node of the snapshot starts after the snapshot's elements.
SnapshotsNested ==
    \A i \in DOMAIN taken : taken[i].valid =>
        \A j \in 1 .. checkpoints[i].parent_idx :
            taken[i].parents[j].first_child <= checkpoints[i].child_idx

\* Of two valid checkpoints the earlier one is the shorter prefix.
CheckpointsOrdered ==
    \A i, j \in DOMAIN taken :
        taken[i].valid /\ taken[j].valid /\ i <= j =>
            /\ checkpoints[i].parent_idx <= checkpoints[j].parent_idx
            /\ checkpoints[i].child_idx <= checkpoints[j].child_idx

HInv ==
    /\ Inv
    /\ HistoryOK
    /\ ValidCheckpointsRestore
    /\ SnapshotsNested
    /\ CheckpointsOrdered

\* Sequences that agree on their first n elements have the same prefix.
LEMMA SamePrefix ==
    ASSUME NEW S, NEW T, NEW s \in Seq(S), NEW t \in Seq(T), NEW n \in Nat,
           n <= Len(s), n <= Len(t), \A i \in 1 .. n : s[i] = t[i]
    PROVE  SubSeq(s, 1, n) = SubSeq(t, 1, n)
OBVIOUS

\* The entries of the history.
Entry == [parents : Seq([kind : NodeKinds, first_child : Nat]),
          children : Seq(Nat), documented : BOOLEAN, valid : BOOLEAN]

LEMMA TakenType ==
    ASSUME HistoryOK, TypeOK
    PROVE  /\ taken \in Seq(Entry)
           /\ Len(taken) \in Nat
           /\ DOMAIN taken = 1 .. Len(taken)
           /\ DOMAIN taken = DOMAIN checkpoints
           /\ \A i \in DOMAIN taken : taken[i] \in Entry
           /\ \A i \in DOMAIN taken :
                  checkpoints[i].parent_idx \in Nat /\ checkpoints[i].child_idx \in Nat
<1>1. taken \in Seq(Entry) /\ Len(taken) = Len(checkpoints)
  BY DEF HistoryOK, Entry
<1>2. Len(taken) \in Nat /\ DOMAIN taken = 1 .. Len(taken)
  BY <1>1, LenProperties
<1>3. DOMAIN checkpoints = 1 .. Len(checkpoints)
  BY LenProperties DEF TypeOK
<1>4. \A i \in DOMAIN taken : taken[i] \in Entry
  BY <1>1, <1>2, ElementOfSeq
<1> QED
  BY <1>1, <1>2, <1>3, <1>4, CheckpointType

\* A checkpoint still restores its snapshot after a step that keeps the
\* prefixes it describes.
LEMMA RestoresStable ==
    ASSUME TypeOK, TypeOK', NEW i, Restores(i),
           checkpoints[i].parent_idx \in Nat, checkpoints[i].child_idx \in Nat,
           checkpoints'[i] = checkpoints[i],
           taken'[i].parents = taken[i].parents, taken'[i].children = taken[i].children,
           checkpoints[i].parent_idx <= Len(parents'),
           checkpoints[i].child_idx <= Len(children'),
           \A j \in 1 .. checkpoints[i].parent_idx : parents'[j] = parents[j],
           \A j \in 1 .. checkpoints[i].child_idx : children'[j] = children[j]
    PROVE  Restores(i)'
<1>1. /\ parents \in Seq([kind : NodeKinds, first_child : Nat])
      /\ parents' \in Seq([kind : NodeKinds, first_child : Nat])
      /\ children \in Seq(DOMAIN heap) /\ children' \in Seq(DOMAIN heap')
  BY DEF TypeOK
<1>2. checkpoints[i].parent_idx <= Len(parents) /\ checkpoints[i].child_idx <= Len(children)
  BY DEF Restores
<1>3. SubSeq(parents', 1, checkpoints[i].parent_idx) = SubSeq(parents, 1, checkpoints[i].parent_idx)
  BY <1>1, <1>2, SamePrefix
<1>4. SubSeq(children', 1, checkpoints[i].child_idx) = SubSeq(children, 1, checkpoints[i].child_idx)
  <2> DEFINE A == DOMAIN heap'
             B == DOMAIN heap
  <2>1. children' \in Seq(A) /\ children \in Seq(B)
    BY <1>1
  <2> HIDE DEF A, B
  <2> QED
    BY <1>2, <2>1, SamePrefix
<1> QED
  BY <1>3, <1>4 DEF Restores

\* Keep only ever drops checkpoints, and leaves the snapshots of the others.
LEMMA KeepDrops ==
    ASSUME HistoryOK, TypeOK, NEW D, NEW V, Keep(D, V), UNCHANGED checkpoints
    PROVE  /\ HistoryOK'
           /\ DOMAIN taken' = DOMAIN taken
           /\ \A i \in DOMAIN taken : taken'[i].valid =>
                  /\ taken[i].valid /\ i \in D /\ i \in V /\ taken[i].documented
                  /\ taken'[i].parents = taken[i].parents
                  /\ taken'[i].children = taken[i].children
<1>1. /\ taken \in Seq(Entry) /\ Len(taken) \in Nat /\ DOMAIN taken = 1 .. Len(taken)
      /\ \A i \in DOMAIN taken : taken[i] \in Entry
  BY TakenType
<1>2. DOMAIN taken' = DOMAIN taken
  BY DEF Keep
<1>3. ASSUME NEW i \in DOMAIN taken
      PROVE  \/ /\ taken[i].documented /\ i \in D
                /\ taken'[i] = [taken[i] EXCEPT !.valid = @ /\ i \in V]
             \/ taken'[i] = Forgotten
  BY DEF Keep
<1>4. Forgotten \in Entry
  BY DEF Forgotten, Entry
<1>5. ASSUME NEW i \in DOMAIN taken
      PROVE  taken'[i] \in Entry
  <2>1. CASE taken'[i] = Forgotten
    BY <1>4, <2>1
  <2>2. CASE taken'[i] = [taken[i] EXCEPT !.valid = @ /\ i \in V]
    BY <1>1, <2>2, Zenon DEF Entry
  <2> QED
    BY <1>3, <2>1, <2>2
<1>6. taken' \in Seq(Entry) /\ Len(taken') = Len(taken)
  <2>1. taken' = [i \in 1 .. Len(taken) |-> taken'[i]]
    BY <1>1 DEF Keep
  <2> QED
    BY <1>1, <1>5, <2>1
<1>7. ASSUME NEW i \in DOMAIN taken, taken'[i].documented
      PROVE  /\ taken[i].documented /\ i \in D
             /\ taken'[i].parents = taken[i].parents
             /\ taken'[i].children = taken[i].children
             /\ taken'[i].valid = (taken[i].valid /\ i \in V)
  <2>1. taken'[i] # Forgotten
    BY <1>7 DEF Forgotten
  <2>2. taken[i].documented /\ i \in D
        /\ taken'[i] = [taken[i] EXCEPT !.valid = @ /\ i \in V]
    BY <1>3, <2>1
  <2> QED
    BY <1>1, <2>2 DEF Entry
<1>8. ASSUME NEW i \in DOMAIN taken, taken'[i].valid
      PROVE  taken'[i].documented
  <2>1. taken'[i] # Forgotten
    BY <1>8 DEF Forgotten
  <2>2. taken[i].documented /\ taken'[i] = [taken[i] EXCEPT !.valid = @ /\ i \in V]
    BY <1>3, <2>1
  <2> QED
    BY <1>1, <2>2 DEF Entry
<1>9. HistoryOK'
  BY <1>2, <1>6, <1>7, <1>8 DEF HistoryOK, Entry
<1> QED
  BY <1>2, <1>7, <1>8, <1>9

\* The prefixes that checkpoint i describes survive the step.
PrefixesKept(i) ==
    /\ checkpoints[i].parent_idx <= Len(parents')
    /\ checkpoints[i].child_idx <= Len(children')
    /\ \A j \in 1 .. checkpoints[i].parent_idx : parents'[j] = parents[j]
    /\ \A j \in 1 .. checkpoints[i].child_idx : children'[j] = children[j]

\* A step that hands out no checkpoint keeps the invariant if it keeps the
\* prefixes of every checkpoint that stays valid.
LEMMA HistoryStep ==
    ASSUME HInv, Inv', HistoryOK', UNCHANGED checkpoints,
           DOMAIN taken' = DOMAIN taken,
           \A i \in DOMAIN taken : taken'[i].valid =>
               /\ taken[i].valid
               /\ taken'[i].parents = taken[i].parents
               /\ taken'[i].children = taken[i].children,
           \A i \in DOMAIN taken : taken'[i].valid /\ Building' => Building /\ PrefixesKept(i)
    PROVE  HInv'
<1>1. TypeOK /\ TypeOK' /\ HistoryOK
  BY DEF HInv, Inv
<1>2. \A i \in DOMAIN taken :
          checkpoints[i].parent_idx \in Nat /\ checkpoints[i].child_idx \in Nat
  BY <1>1, TakenType
<1>3. ValidCheckpointsRestore'
  <2>1. SUFFICES ASSUME NEW i \in DOMAIN taken, Building', taken'[i].valid
                 PROVE  Restores(i)'
    BY DEF ValidCheckpointsRestore
  <2>2. Building /\ taken[i].valid /\ PrefixesKept(i)
    BY <2>1
  <2>3. Restores(i)
    BY <2>2 DEF HInv, ValidCheckpointsRestore
  <2>4. /\ taken'[i].parents = taken[i].parents
        /\ taken'[i].children = taken[i].children
        /\ checkpoints'[i] = checkpoints[i]
    BY <2>1
  <2> QED
    BY <1>1, <1>2, <2>2, <2>3, <2>4, RestoresStable DEF PrefixesKept
<1>4. SnapshotsNested'
  BY DEF HInv, SnapshotsNested
<1>5. CheckpointsOrdered'
  BY DEF HInv, CheckpointsOrdered
<1> QED
  BY <1>3, <1>4, <1>5 DEF HInv

\* The same for a step that leaves the history alone.
LEMMA SilentStep ==
    ASSUME HInv, Inv', UNCHANGED <<checkpoints, taken>>,
           Building' => Building,
           \A i \in DOMAIN taken : taken[i].valid /\ Building' => PrefixesKept(i)
    PROVE  HInv'
<1>1. HistoryOK'
  BY DEF HInv, HistoryOK
<1> QED
  BY <1>1, HistoryStep

\* A valid checkpoint of a builder at work lies inside its stack.
LEMMA ValidInside ==
    ASSUME HInv, Building, NEW i \in DOMAIN taken, taken[i].valid
    PROVE  /\ checkpoints[i].parent_idx \in Nat /\ checkpoints[i].child_idx \in Nat
           /\ checkpoints[i].parent_idx <= Len(parents)
           /\ checkpoints[i].child_idx <= Len(children)
           /\ Len(parents) \in Nat /\ Len(children) \in Nat
           /\ parents \in Seq([kind : NodeKinds, first_child : Nat])
           /\ children \in Seq(DOMAIN heap)
<1>1. Restores(i)
  BY DEF HInv, ValidCheckpointsRestore
<1> QED
  BY <1>1, TakenType DEF HInv, Inv, TypeOK, Restores

\* A panic ends the builder.
LEMMA HPanicInv ==
    ASSUME HInv, Inv', Panic, UNCHANGED taken
    PROVE  HInv'
BY SilentStep DEF Panic, Building

\* Recording a token or opening a node only appends.
LEMMA AppendInv ==
    ASSUME HInv, Inv', Building, UNCHANGED <<checkpoints, taken>>,
           \/ UNCHANGED parents
           \/ \E p : parents' = Append(parents, p),
           \/ UNCHANGED children
           \/ \E c : children' = Append(children, c)
    PROVE  HInv'
<1>1. ASSUME NEW i \in DOMAIN taken, taken[i].valid
      PROVE  PrefixesKept(i)
  <2>1. /\ checkpoints[i].parent_idx \in Nat /\ checkpoints[i].child_idx \in Nat
        /\ checkpoints[i].parent_idx <= Len(parents)
        /\ checkpoints[i].child_idx <= Len(children)
        /\ Len(parents) \in Nat /\ Len(children) \in Nat
        /\ parents \in Seq([kind : NodeKinds, first_child : Nat])
        /\ children \in Seq(DOMAIN heap)
    BY <1>1, ValidInside
  <2>2. /\ checkpoints[i].parent_idx <= Len(parents')
        /\ \A j \in 1 .. checkpoints[i].parent_idx : parents'[j] = parents[j]
    BY <2>1
  <2>3. /\ checkpoints[i].child_idx <= Len(children')
        /\ \A j \in 1 .. checkpoints[i].child_idx : children'[j] = children[j]
    BY <2>1, SMTT(20)
  <2> QED
    BY <2>2, <2>3 DEF PrefixesKept
<1> QED
  BY <1>1, SilentStep

\* token, token_from_bytes and static_token.
LEMMA RecordTokenHInv ==
    ASSUME HInv, Inv', Building, UNCHANGED taken,
           NEW kind, NEW data, RecordToken(kind, data)
    PROVE  HInv'
<1>1. CASE Panic
  BY <1>1, HPanicInv
<1>2. CASE ~ Panic
  <2>1. /\ UNCHANGED <<parents, checkpoints>>
        /\ \E key, len : PushToken(kind, key, len)
    BY <1>2 DEF RecordToken
  <2>2. \E c : children' = Append(children, c)
    BY <2>1 DEF PushToken
  <2> QED
    BY <2>1, <2>2, AppendInv
<1> QED
  BY <1>1, <1>2

LEMMA StaticTokenHInv ==
    ASSUME HInv, Inv', UNCHANGED taken, NEW kind, StaticToken(kind)
    PROVE  HInv'
<1>1. CASE Panic
  BY <1>1, HPanicInv
<1>2. CASE ~ Panic
  <2>1. /\ Building /\ UNCHANGED <<parents, checkpoints>>
        /\ PushToken(kind, NoKey, ByteLen[StaticData[kind]] % U32)
    BY <1>2 DEF StaticToken
  <2>2. \E c : children' = Append(children, c)
    BY <2>1 DEF PushToken
  <2> QED
    BY <2>1, <2>2, AppendInv
<1> QED
  BY <1>1, <1>2

LEMMA StartNodeAtHInv ==
    ASSUME HInv, Inv', UNCHANGED taken, NEW i, NEW kind, StartNodeAt(i, kind)
    PROVE  HInv'
<1>1. CASE Panic
  BY <1>1, HPanicInv
<1>2. CASE ~ Panic
  <2>1. /\ Building /\ UNCHANGED <<children, checkpoints>>
        /\ \E p : parents' = Append(parents, p)
    BY <1>2 DEF StartNodeAt
  <2> QED
    BY <2>1, AppendInv
<1> QED
  BY <1>1, <1>2

\* Finishing a node keeps the prefixes of the checkpoints it started behind.
LEMMA FinishNodeHInv ==
    ASSUME HInv, Inv', HFinishNode
    PROVE  HInv'
<1>1. FinishNode /\ Keep(StartedAfter, StartedBehind) /\ UNCHANGED checkpoints
  BY DEF HFinishNode, FinishNode, Panic
<1>2. /\ HistoryOK' /\ DOMAIN taken' = DOMAIN taken
      /\ \A i \in DOMAIN taken : taken'[i].valid =>
             /\ taken[i].valid /\ i \in StartedBehind
             /\ taken'[i].parents = taken[i].parents
             /\ taken'[i].children = taken[i].children
  BY <1>1, KeepDrops DEF HInv, Inv
<1>3. ASSUME NEW i \in DOMAIN taken, taken'[i].valid, Building'
      PROVE  Building /\ PrefixesKept(i)
  <2> DEFINE depth == Len(parents)
             top == parents[depth]
             stay == SubSeq(children, 1, top.first_child)
  <2>1. ~ Panic
    BY <1>3 DEF Panic, Building
  <2>2. /\ Building /\ parents # <<>>
        /\ parents' = SubSeq(parents, 1, depth - 1)
        /\ \E x : children' = Append(stay, x)
    BY <1>1, <1>3, <2>1 DEF FinishNode, PushNode, Building
  <2>3. taken[i].valid /\ depth > checkpoints[i].parent_idx
        /\ top.first_child >= checkpoints[i].child_idx
    BY <1>2, <1>3 DEF StartedBehind, StartedAfter
  <2>4. /\ checkpoints[i].parent_idx \in Nat /\ checkpoints[i].child_idx \in Nat
        /\ checkpoints[i].child_idx <= Len(children)
        /\ depth \in Nat /\ Len(children) \in Nat
        /\ parents \in Seq([kind : NodeKinds, first_child : Nat])
        /\ children \in Seq(DOMAIN heap)
    BY <2>2, <2>3, ValidInside
  <2>5. depth \in DOMAIN parents /\ top.first_child \in Nat
        /\ top.first_child \in 0 .. Len(children)
    <3>1. depth \in DOMAIN parents
      BY <2>3, <2>4
    <3> QED
      BY <2>2, <2>4, <3>1, ParentType, SMTT(20) DEF HInv, Inv, ParentsNested
  <2>6. /\ checkpoints[i].parent_idx <= Len(parents')
        /\ \A j \in 1 .. checkpoints[i].parent_idx : parents'[j] = parents[j]
    <3>1. depth - 1 \in 0 .. Len(parents) /\ checkpoints[i].parent_idx <= depth - 1
      BY <2>3, <2>4
    <3>2. /\ Len(parents') = depth - 1
          /\ \A j \in 1 .. depth - 1 : parents'[j] = parents[j]
      BY <2>2, <2>4, <3>1, PrefixOfSeq
    <3> QED
      BY <2>4, <3>1, <3>2
  <2> HIDE DEF top
  <2>7. /\ checkpoints[i].child_idx <= Len(children')
        /\ \A j \in 1 .. checkpoints[i].child_idx : children'[j] = children[j]
    <3>1. /\ stay \in Seq(DOMAIN heap) /\ Len(stay) = top.first_child
          /\ \A j \in 1 .. top.first_child : stay[j] = children[j]
      BY <2>4, <2>5, PrefixOfSeq
    <3> HIDE DEF stay
    <3>2. /\ Len(children') = top.first_child + 1
          /\ \A j \in 1 .. top.first_child : children'[j] = stay[j]
      BY <2>2, <2>5, <3>1
    <3> QED
      BY <2>3, <2>4, <2>5, <3>1, <3>2
  <2> QED
    BY <2>2, <2>6, <2>7 DEF PrefixesKept
<1> QED
  BY <1>1, <1>2, <1>3, HistoryStep

\* Reverting to a valid checkpoint keeps the prefixes of all earlier ones.
LEMMA RevertToHInv ==
    ASSUME HInv, Inv', NEW i \in DOMAIN checkpoints, HRevertTo(i)
    PROVE  HInv'
<1> DEFINE c == checkpoints[i]
           V == {j \in 1 .. i : taken[i].valid}
<1>1. RevertTo(i) /\ UNCHANGED checkpoints
      /\ Keep({j \in 1 .. i : taken[i].documented}, V)
  BY DEF HRevertTo, RevertTo, Panic
<1>2. /\ HistoryOK' /\ DOMAIN taken' = DOMAIN taken
      /\ \A j \in DOMAIN taken : taken'[j].valid =>
             /\ taken[j].valid /\ j \in V
             /\ taken'[j].parents = taken[j].parents
             /\ taken'[j].children = taken[j].children
  BY <1>1, KeepDrops DEF HInv, Inv
<1>3. i \in DOMAIN taken
  BY TakenType DEF HInv, Inv
<1>4. ASSUME NEW j \in DOMAIN taken, taken'[j].valid, Building'
      PROVE  Building /\ PrefixesKept(j)
  <2>1. taken[j].valid /\ taken[i].valid /\ j <= i
    BY <1>2, <1>4
  <2>2. /\ Building
        /\ parents' = SubSeq(parents, 1, c.parent_idx)
        /\ children' = SubSeq(children, 1, c.child_idx)
    BY <1>1, <1>4 DEF RevertTo, Panic, Building
  <2>3. /\ checkpoints[j].parent_idx <= c.parent_idx
        /\ checkpoints[j].child_idx <= c.child_idx
    BY <1>3, <2>1 DEF HInv, CheckpointsOrdered
  <2>4. checkpoints[j].parent_idx \in Nat /\ checkpoints[j].child_idx \in Nat
    BY <2>1, <2>2, ValidInside
  <2>5. /\ c.parent_idx \in Nat /\ c.child_idx \in Nat
        /\ c.parent_idx <= Len(parents) /\ c.child_idx <= Len(children)
        /\ Len(parents) \in Nat /\ Len(children) \in Nat
        /\ parents \in Seq([kind : NodeKinds, first_child : Nat])
        /\ children \in Seq(DOMAIN heap)
    BY <1>3, <2>1, <2>2, ValidInside
  <2>6. /\ Len(parents') = c.parent_idx
        /\ \A k \in 1 .. c.parent_idx : parents'[k] = parents[k]
    BY <2>2, <2>5, PrefixOfSeq
  <2>7. /\ Len(children') = c.child_idx
        /\ \A k \in 1 .. c.child_idx : children'[k] = children[k]
    BY <2>2, <2>5, PrefixOfSeq
  <2> HIDE DEF c
  <2> QED
    BY <2>2, <2>3, <2>4, <2>5, <2>6, <2>7, SMTT(20) DEF PrefixesKept
<1> QED
  BY <1>1, <1>2, <1>4, HistoryStep

\* A new builder makes every checkpoint of the old one invalid.
LEMMA FreshHInv ==
    ASSUME HInv, Inv', Keep({}, {}), UNCHANGED checkpoints
    PROVE  HInv'
<1>1. /\ HistoryOK' /\ DOMAIN taken' = DOMAIN taken
      /\ \A i \in DOMAIN taken : ~ taken'[i].valid
  <2> DEFINE D == {}
  <2>1. Keep(D, D)
    OBVIOUS
  <2> HIDE DEF D
  <2>2. /\ HistoryOK' /\ DOMAIN taken' = DOMAIN taken
        /\ \A i \in DOMAIN taken : taken'[i].valid => i \in D
    BY <2>1, KeepDrops DEF HInv, Inv
  <2> QED
    BY <2>2 DEF D
<1> QED
  BY <1>1, HistoryStep

\* A new checkpoint describes the whole stack, so every valid one is a prefix
\* of it.
LEMMA TakeCheckpointHInv ==
    ASSUME HInv, Inv', HTakeCheckpoint
    PROVE  HInv'
<1>0. PICK n \in Nat : n = Len(taken)
  BY TakenType DEF HInv, Inv
<1> DEFINE new == [parents |-> parents, children |-> children,
                  documented |-> TRUE, valid |-> TRUE]
           c == [parent_idx |-> Len(parents), child_idx |-> Len(children)]
<1>1. /\ Building /\ Building'
      /\ checkpoints' = Append(checkpoints, c) /\ taken' = Append(taken, new)
      /\ UNCHANGED <<heap, parents, children>>
  BY DEF HTakeCheckpoint, TakeCheckpoint, Remember, Building, cacheVars, stackVars
<1>2. /\ taken \in Seq(Entry) /\ n \in Nat /\ n = Len(checkpoints)
      /\ DOMAIN taken = 1 .. n
      /\ checkpoints \in Seq([parent_idx : Nat, child_idx : Nat])
      /\ \A i \in 1 .. n :
             checkpoints[i].parent_idx \in Nat /\ checkpoints[i].child_idx \in Nat
  BY <1>0, TakenType DEF HInv, Inv, TypeOK, HistoryOK
<1>3. /\ parents \in Seq([kind : NodeKinds, first_child : Nat])
      /\ children \in Seq(DOMAIN heap) /\ children \in Seq(Nat)
      /\ Len(parents) \in Nat /\ Len(children) \in Nat
  <2>1. heap \in Seq(Range(heap)) /\ children \in Seq(DOMAIN heap)
        /\ parents \in Seq([kind : NodeKinds, first_child : Nat])
    BY DEF HInv, Inv, TypeOK
  <2>2. DOMAIN heap \subseteq Nat
    BY <2>1, LenProperties
  <2>3. children \in Seq(Nat)
    BY <2>1, <2>2, SeqMonotonic
  <2> QED
    BY <2>1, <2>3, LenProperties
<1>4. new \in Entry /\ c \in [parent_idx : Nat, child_idx : Nat]
  BY <1>3 DEF Entry
<1>5. /\ taken' \in Seq(Entry) /\ Len(taken') = n + 1
      /\ DOMAIN taken' = 1 .. n + 1
      /\ \A i \in 1 .. n : taken'[i] = taken[i]
      /\ taken'[n + 1] = new
  BY <1>0, <1>1, <1>2, <1>4
<1>6. /\ Len(checkpoints') = n + 1
      /\ \A i \in 1 .. n : checkpoints'[i] = checkpoints[i]
      /\ checkpoints'[n + 1] = c
  BY <1>1, <1>2, <1>4
<1>split. \A i \in 1 .. n + 1 : i \in 1 .. n \/ i = n + 1
  BY <1>2
<1>7. HistoryOK'
  <2>1. \A i \in 1 .. n : taken[i].valid => taken[i].documented
    BY <1>2 DEF HInv, HistoryOK
  <2>2. \A i \in 1 .. n : taken[i].documented =>
           /\ checkpoints[i].parent_idx = Len(taken[i].parents)
           /\ checkpoints[i].child_idx = Len(taken[i].children)
    BY <1>2 DEF HInv, HistoryOK
  <2>3. /\ new.documented /\ c.parent_idx = Len(new.parents)
        /\ c.child_idx = Len(new.children)
    OBVIOUS
  <2> HIDE DEF new, c
  <2>4. \A i \in 1 .. n + 1 : taken'[i].valid => taken'[i].documented
    BY <1>split, <1>5, <2>1, <2>3, Zenon
  <2>5. \A i \in 1 .. n + 1 : taken'[i].documented =>
           /\ checkpoints'[i].parent_idx = Len(taken'[i].parents)
           /\ checkpoints'[i].child_idx = Len(taken'[i].children)
    BY <1>split, <1>5, <1>6, <2>2, <2>3, Zenon
  <2> QED
    BY <1>5, <1>6, <2>4, <2>5 DEF HistoryOK, Entry
<1>8. \A i \in 1 .. n : taken[i].valid => Restores(i)
  BY <1>1, <1>2 DEF HInv, ValidCheckpointsRestore
<1>9. ValidCheckpointsRestore'
  <2>1. ASSUME NEW i \in 1 .. n, taken'[i].valid
        PROVE  Restores(i)'
    BY <1>1, <1>5, <1>6, <1>8, <2>1 DEF Restores
  <2>2. Restores(n + 1)'
    <3>1. SubSeq(parents, 1, Len(parents)) = parents /\ SubSeq(children, 1, Len(children)) = children
      BY <1>3, SubSeqFull
    <3> QED
      <4>1. /\ checkpoints'[n + 1].parent_idx = Len(parents')
            /\ checkpoints'[n + 1].child_idx = Len(children')
            /\ taken'[n + 1].parents = parents' /\ taken'[n + 1].children = children'
        BY <1>1, <1>5, <1>6
      <4>2. Len(parents') \in Nat /\ Len(children') \in Nat
            /\ SubSeq(parents', 1, Len(parents')) = parents'
            /\ SubSeq(children', 1, Len(children')) = children'
        BY <1>1, <1>3, <3>1
      <4>3. Len(parents') <= Len(parents') /\ Len(children') <= Len(children')
        BY <4>2
      <4> QED
        BY <4>1, <4>2, <4>3, Zenon DEF Restores
  <2> QED
    BY <1>split, <1>5, <2>1, <2>2, Zenon DEF ValidCheckpointsRestore
<1>10. SnapshotsNested'
  <2>1. ASSUME NEW i \in 1 .. n, taken'[i].valid,
               NEW j \in 1 .. checkpoints'[i].parent_idx
        PROVE  taken'[i].parents[j].first_child <= checkpoints'[i].child_idx
    BY <1>2, <1>5, <1>6, <2>1 DEF HInv, SnapshotsNested
  <2>2. ASSUME NEW j \in 1 .. Len(parents)
        PROVE  parents[j].first_child <= Len(children)
    BY <1>1, <1>3, LenProperties DEF HInv, Inv, ParentsNested
  <2>3. ASSUME NEW j \in 1 .. checkpoints'[n + 1].parent_idx
        PROVE  taken'[n + 1].parents[j].first_child <= checkpoints'[n + 1].child_idx
    BY <1>5, <1>6, <2>2
  <2> QED
    BY <1>split, <1>5, <2>1, <2>3, Zenon DEF SnapshotsNested
<1>11. CheckpointsOrdered'
  <2>1. ASSUME NEW i \in 1 .. n, taken[i].valid
        PROVE  /\ checkpoints[i].parent_idx <= Len(parents)
               /\ checkpoints[i].child_idx <= Len(children)
    BY <1>8, <2>1 DEF Restores
  <2>2. ASSUME NEW i \in 1 .. n, NEW j \in 1 .. n, taken[i].valid, taken[j].valid, i <= j
        PROVE  /\ checkpoints[i].parent_idx <= checkpoints[j].parent_idx
               /\ checkpoints[i].child_idx <= checkpoints[j].child_idx
    BY <1>2, <2>2 DEF HInv, CheckpointsOrdered
  <2>3. SUFFICES ASSUME NEW i \in 1 .. n + 1, NEW j \in 1 .. n + 1,
                        taken'[i].valid, taken'[j].valid, i <= j
                 PROVE  /\ checkpoints'[i].parent_idx <= checkpoints'[j].parent_idx
                        /\ checkpoints'[i].child_idx <= checkpoints'[j].child_idx
    BY <1>5 DEF CheckpointsOrdered
  <2>4. CASE j \in 1 .. n
    <3>1. i \in 1 .. n
      BY <1>2, <2>3, <2>4
    <3> QED
      BY <1>5, <1>6, <2>2, <2>3, <2>4, <3>1
  <2>5. CASE j = n + 1 /\ i \in 1 .. n
    BY <1>5, <1>6, <2>1, <2>3, <2>5
  <2>6. CASE j = n + 1 /\ i = n + 1
    BY <1>3, <1>6, <2>6
  <2> QED
    BY <1>2, <2>3, <2>4, <2>5, <2>6
<1> QED
  BY <1>7, <1>9, <1>10, <1>11 DEF HInv

LEMMA HInitInv == HInit => HInv
<1> SUFFICES ASSUME HInit PROVE HInv
  OBVIOUS
<1>1. Inv
  BY InitInv DEF HInit
<1>2. taken = <<>> /\ checkpoints = <<>> /\ DOMAIN taken = {}
  BY DEF HInit, Init
<1> QED
  BY <1>1, <1>2 DEF HInv, HistoryOK, ValidCheckpointsRestore, SnapshotsNested,
     CheckpointsOrdered

LEMMA HNextInv == HInv /\ [HNext]_hvars => HInv'
<1> SUFFICES ASSUME HInv, [HNext]_hvars PROVE HInv'
  OBVIOUS
<1>0. Inv'
  BY HNextIsNext, NextInv DEF HInv
<1>1. ASSUME NEW k \in TokenKinds, NEW d \in Data, Token(k, d), UNCHANGED taken PROVE HInv'
  BY <1>0, <1>1, RecordTokenHInv DEF Token
<1>2. ASSUME NEW k \in TokenKinds, NEW d \in Data, TokenFromBytes(k, d), UNCHANGED taken PROVE HInv'
  BY <1>0, <1>2, RecordTokenHInv DEF TokenFromBytes
<1>3. ASSUME NEW k \in TokenKinds, StaticToken(k), UNCHANGED taken PROVE HInv'
  BY <1>0, <1>3, StaticTokenHInv
<1>4. ASSUME NEW d \in ValidData, InternerMut(d), UNCHANGED taken PROVE HInv'
  BY <1>0, <1>4, AppendInv DEF InternerMut, stackVars
<1>5. ASSUME NEW k \in NodeKinds, StartNode(k), UNCHANGED taken PROVE HInv'
  BY <1>0, <1>5, AppendInv DEF StartNode
<1>6. CASE HFinishNode
  BY <1>0, <1>6, FinishNodeHInv
<1>7. CASE HTakeCheckpoint
  BY <1>0, <1>7, TakeCheckpointHInv
<1>8. ASSUME NEW i \in DOMAIN checkpoints, HRevertTo(i) PROVE HInv'
  BY <1>0, <1>8, RevertToHInv
<1>9. ASSUME NEW i \in DOMAIN checkpoints, NEW k \in NodeKinds, StartNodeAt(i, k),
             UNCHANGED taken
      PROVE HInv'
  BY <1>0, <1>9, StartNodeAtHInv
<1>10. CASE HFinish
  BY <1>0, <1>10, FreshHInv DEF HFinish, Finish, Panic
<1>11. CASE HWithCache \/ HWithInterner \/ HNew
  BY <1>0, <1>11, FreshHInv DEF HWithCache, HWithInterner, HNew, WithCache, WithInterner,
     New, FreshBuilder
<1>12. CASE UNCHANGED hvars
  <2>1. UNCHANGED <<checkpoints, taken, parents, children, status>>
    BY <1>12 DEF hvars, vars
  <2>2. \A i \in DOMAIN taken : taken[i].valid /\ Building => PrefixesKept(i)
    BY <2>1, ValidInside DEF PrefixesKept
  <2> QED
    BY <1>0, <2>1, <2>2, SilentStep DEF Building
<1> QED
  BY <1>1, <1>2, <1>3, <1>4, <1>5, <1>6, <1>7, <1>8, <1>9, <1>10, <1>11, <1>12 DEF HNext

LEMMA HInvariance == HSpec => []HInv
<1>1. HInit => HInv
  BY HInitInv
<1>2. HInv /\ [HNext]_hvars => HInv'
  BY HNextInv
<1> QED
  BY <1>1, <1>2, PTL DEF HSpec

\* As long as a checkpoint is valid, the stack it was taken of is a prefix of
\* the builder's: revert_to gives back exactly that state.
THEOREM CheckpointsCorrect == HSpec => []ValidCheckpointsRestore
<1>1. HInv => ValidCheckpointsRestore
  BY DEF HInv
<1> QED
  BY <1>1, HInvariance, PTL

\* No assertion of revert_to or start_node_at fires at a valid checkpoint
\* around which nodes are balanced.
THEOREM BalancedUseCorrect == HSpec => []BalancedUseNeverPanics
<1>1. HInv => BalancedUseNeverPanics
  <2> SUFFICES ASSUME HInv, NEW i \in DOMAIN taken, Building, taken[i].valid,
                      Len(parents) = checkpoints[i].parent_idx
               PROVE  RevertAllowed(checkpoints[i]) /\ StartAllowed(checkpoints[i])
    BY DEF BalancedUseNeverPanics
  <2> DEFINE c == checkpoints[i]
  <2>1. /\ c.parent_idx \in Nat /\ c.child_idx \in Nat
        /\ c.child_idx <= Len(children)
        /\ parents \in Seq([kind : NodeKinds, first_child : Nat])
    BY ValidInside
  <2>2. SubSeq(parents, 1, c.parent_idx) = taken[i].parents
    BY DEF HInv, ValidCheckpointsRestore, Restores
  <2>3. taken[i].parents = parents
    BY <2>1, <2>2, SubSeqFull
  <2>4. InsideTopNode(c.child_idx)
    <3>1. SUFFICES ASSUME parents # <<>>
                   PROVE  c.child_idx >= parents[Len(parents)].first_child
      BY DEF InsideTopNode
    <3>2. Len(parents) \in 1 .. c.parent_idx
      BY <2>1, <3>1, EmptySeq
    <3>3. parents[Len(parents)].first_child <= c.child_idx
      BY <2>3, <3>2 DEF HInv, SnapshotsNested
    <3>4. parents[Len(parents)].first_child \in Nat
      BY <3>2, ParentType DEF HInv, Inv
    <3> QED
      BY <2>1, <3>3, <3>4
  <2> QED
    BY <2>1, <2>4 DEF RevertAllowed, StartAllowed
<1> QED
  BY <1>1, HInvariance, PTL

\* revert_to at a valid checkpoint panics or restores the builder's state.
THEOREM RevertCorrect == HSpec => RevertIsRestore
<1>1. HInv /\ [HNext]_hvars =>
        [\A i \in DOMAIN checkpoints :
            HRevertTo(i) /\ taken[i].valid /\ Building' =>
                parents' = taken[i].parents /\ children' = taken[i].children]_hvars
  <2> SUFFICES ASSUME HInv, NEW i \in DOMAIN checkpoints,
                      HRevertTo(i), taken[i].valid, Building'
               PROVE  parents' = taken[i].parents /\ children' = taken[i].children
    OBVIOUS
  <2>1. /\ Building
        /\ parents' = SubSeq(parents, 1, checkpoints[i].parent_idx)
        /\ children' = SubSeq(children, 1, checkpoints[i].child_idx)
    BY DEF HRevertTo, RevertTo, Panic, Building
  <2>2. i \in DOMAIN taken
    BY TakenType DEF HInv, Inv
  <2>3. Restores(i)
    BY <2>1, <2>2 DEF HInv, ValidCheckpointsRestore
  <2> QED
    BY <2>1, <2>3 DEF Restores
<1> QED
  BY <1>1, HInvariance, PTL DEF HSpec, RevertIsRestore

----------------------------------------------------------------------------
(* The trees on a stack *)

Joined(s) ==
    CHOOSE joined : joined =
        [j \in 0 .. Len(s) |-> IF j = 0 THEN <<>> ELSE joined[j - 1] \o s[j].trees]

LEMMA JoinedIsLast == ASSUME NEW s PROVE Abstract!TreesOn(s) = Joined(s)[Len(s)]
BY DEF Abstract!TreesOn, Joined

LEMMA JoinedExists ==
    ASSUME NEW s, Len(s) \in Nat
    PROVE  Joined(s) =
             [j \in 0 .. Len(s) |-> IF j = 0 THEN <<>> ELSE Joined(s)[j - 1] \o s[j].trees]
<1> DEFINE Joins(f, n) ==
               f = [j \in 0 .. n |-> IF j = 0 THEN <<>> ELSE f[j - 1] \o s[j].trees]
           S == {n \in Nat : \E f : Joins(f, n)}
<1>1. 0 \in S
  <2>1. Joins([j \in 0 .. 0 |-> <<>>], 0)
    OBVIOUS
  <2> QED
    BY <2>1, Zenon
<1>2. ASSUME NEW n \in S PROVE n + 1 \in S
  <2>1. PICK old : Joins(old, n)
    OBVIOUS
  <2>2. PICK f : f = [j \in 0 .. n + 1 |-> IF j = n + 1 THEN old[n] \o s[j].trees ELSE old[j]]
    OBVIOUS
  <2>3. \A j \in 0 .. n : old[j] = IF j = 0 THEN <<>> ELSE old[j - 1] \o s[j].trees
    BY <2>1
  <2>4. \A j \in 0 .. n + 1 : f[j] = IF j = 0 THEN <<>> ELSE f[j - 1] \o s[j].trees
    BY <2>2, <2>3
  <2>5. Joins(f, n + 1)
    BY <2>2, <2>4
  <2> HIDE DEF Joins
  <2> QED
    BY <2>5
<1>3. Len(s) \in S
  <2> HIDE DEF S
  <2>1. S \in SUBSET Nat
    BY DEF S
  <2> QED
    BY <1>1, <1>2, <2>1, Induct
<1>4. \E f : Joins(f, Len(s))
  BY <1>3
<1> QED
  BY <1>4 DEF Joined

\* If the frames of a stack are consecutive parts of one sequence, the trees on
\* the stack are the part from the first frame's start to the last one's end.
LEMMA TreesOnParts ==
    ASSUME NEW T, NEW ts \in Seq(T), NEW s, NEW n \in Nat, n = Len(s),
           NEW b \in [0 .. n -> Nat],
           \A j \in 1 .. n : /\ b[j - 1] <= b[j] /\ b[j] <= Len(ts)
                            /\ s[j].trees = SubSeq(ts, b[j - 1] + 1, b[j]),
           b[0] <= Len(ts)
    PROVE  Abstract!TreesOn(s) = SubSeq(ts, b[0] + 1, b[n])
<1>1. PICK J : J = Joined(s)
  OBVIOUS
<1>2. J[0] = <<>> /\ \A j \in 0 .. n - 1 : J[j + 1] = J[j] \o s[j + 1].trees
  <2>1. J = [j \in 0 .. n |-> IF j = 0 THEN <<>> ELSE J[j - 1] \o s[j].trees]
    BY <1>1, JoinedExists
  <2>2. J[0] = <<>>
    BY <2>1
  <2>3. ASSUME NEW j \in 0 .. n - 1 PROVE J[j + 1] = J[j] \o s[j + 1].trees
    <3>1. PICK k \in 0 .. n : k = j + 1 /\ k # 0 /\ k - 1 = j
      OBVIOUS
    <3>2. J[k] = J[k - 1] \o s[k].trees
      BY <2>1, <3>1, Zenon
    <3> QED
      BY <3>1, <3>2
  <2> QED
    BY <2>2, <2>3
<1>3. /\ \A j \in 0 .. n : b[j] \in Nat
      /\ \A j \in 0 .. n - 1 :
             /\ b[j] <= b[j + 1] /\ b[j + 1] <= Len(ts)
             /\ s[j + 1].trees = SubSeq(ts, b[j] + 1, b[j + 1])
  <2>1. \A j \in 0 .. n - 1 : j + 1 \in 1 .. n /\ (j + 1) - 1 = j
    OBVIOUS
  <2> QED
    BY <2>1
<1> DEFINE S == {j \in Nat : j <= n => /\ J[j] = SubSeq(ts, b[0] + 1, b[j])
                                       /\ b[0] <= b[j] /\ b[j] <= Len(ts)}
<1>4. 0 \in S
  <2>1. PICK x \in Nat : x = b[0]
    BY <1>3
  <2>2. SubSeq(ts, x + 1, x) = <<>>
    BY SubSeqEmpty
  <2>3. J[0] = SubSeq(ts, b[0] + 1, b[0]) /\ b[0] <= b[0]
    BY <1>2, <2>1, <2>2
  <2> QED
    BY <2>3
<1>5. ASSUME NEW j \in S PROVE j + 1 \in S
  <2>1. SUFFICES ASSUME j + 1 <= n
                 PROVE  /\ J[j + 1] = SubSeq(ts, b[0] + 1, b[j + 1])
                        /\ b[0] <= b[j + 1] /\ b[j + 1] <= Len(ts)
    OBVIOUS
  <2>2. j \in 0 .. n - 1 /\ j <= n /\ j \in 0 .. n /\ j + 1 \in 0 .. n /\ 0 \in 0 .. n
    BY <2>1
  <2>3. /\ J[j] = SubSeq(ts, b[0] + 1, b[j])
        /\ b[0] <= b[j] /\ b[j] <= Len(ts)
    BY <2>2
  <2> HIDE DEF S
  <2>4. PICK x \in Nat, y \in Nat, z \in Nat : x = b[0] /\ y = b[j] /\ z = b[j + 1]
    BY <1>3, <2>2
  <2>5. y <= z /\ z <= Len(ts) /\ s[j + 1].trees = SubSeq(ts, y + 1, z)
    BY <1>3, <2>2, <2>4
  <2>6. J[j + 1] = SubSeq(ts, x + 1, y) \o SubSeq(ts, y + 1, z)
    BY <1>2, <2>2, <2>3, <2>4, <2>5
  <2>7. x <= y
    BY <2>3, <2>4
  <2>8. J[j + 1] = SubSeq(ts, x + 1, z)
    BY <2>5, <2>6, <2>7, PartsJoin
  <2> QED
    BY <2>4, <2>5, <2>7, <2>8
<1>6. n \in S
  <2> HIDE DEF S
  <2>1. S \in SUBSET Nat
    BY DEF S
  <2> QED
    BY <1>4, <1>5, <2>1, Induct
<1> QED
  BY <1>1, <1>6, JoinedIsLast

----------------------------------------------------------------------------
(* The frames that unfinished nodes encode *)

ParentT == [kind : NodeKinds, first_child : Nat]
FrameT(T) == [kind : NodeKinds \cup {"outside"}, trees : Seq(T)]

\* The unfinished nodes are nested brackets over n elements.
Nested(ps, n) ==
    /\ ps \in Seq(ParentT)
    /\ \A i \in 1 .. Len(ps) : ps[i].first_child <= n
    /\ \A i, j \in 1 .. Len(ps) : i <= j => ps[i].first_child <= ps[j].first_child

\* Every frame is a part of the trees, and the next one begins where it ends.
LEMMA Bounds ==
    ASSUME NEW T, NEW ts \in Seq(T), NEW ps, Nested(ps, Len(ts)), NEW i \in 0 .. Len(ps)
    PROVE  /\ Len(ps) \in Nat /\ Len(ts) \in Nat
           /\ Start(ps, i) \in Nat /\ End(ps, ts, i) \in Nat
           /\ Start(ps, i) <= End(ps, ts, i) /\ End(ps, ts, i) <= Len(ts)
           /\ i # 0 => Start(ps, i) = End(ps, ts, i - 1) /\ Start(ps, i) = ps[i].first_child
<1>1. ps \in Seq(ParentT) /\ Len(ps) \in Nat /\ Len(ts) \in Nat
  BY DEF Nested
<1>2. \A j \in 1 .. Len(ps) : ps[j].first_child \in Nat /\ ps[j].first_child <= Len(ts)
  <2>1. \A j \in 1 .. Len(ps) : ps[j] \in ParentT
    BY <1>1, ElementOfSeq
  <2> QED
    BY <2>1 DEF Nested, ParentT
<1>3. Start(ps, i) \in Nat /\ Start(ps, i) <= Len(ts)
  BY <1>1, <1>2 DEF Start
<1>4. CASE i = Len(ps)
  BY <1>1, <1>2, <1>3, <1>4 DEF Start, End
<1>5. CASE i # Len(ps)
  <2>1. i + 1 \in 1 .. Len(ps) /\ End(ps, ts, i) = ps[i + 1].first_child
    BY <1>1, <1>5 DEF End
  <2>2. Start(ps, i) <= ps[i + 1].first_child
    <3>1. CASE i = 0
      BY <1>2, <2>1, <3>1 DEF Start
    <3>2. CASE i # 0
      <4>1. i \in 1 .. Len(ps) /\ i <= i + 1
        BY <3>2
      <4> QED
        BY <2>1, <3>2, <4>1 DEF Start, Nested
    <3> QED
      BY <3>1, <3>2
  <2>3. i # 0 => Start(ps, i) = End(ps, ts, i - 1) /\ Start(ps, i) = ps[i].first_child
    BY <1>1 DEF Start, End
  <2> QED
    BY <1>1, <1>2, <1>3, <2>1, <2>2, <2>3
<1> QED
  BY <1>4, <1>5

LEMMA FramesType ==
    ASSUME NEW T, NEW ts \in Seq(T), NEW ps, Nested(ps, Len(ts))
    PROVE  /\ Frames(ps, ts) \in Seq(FrameT(T))
           /\ Len(Frames(ps, ts)) = Len(ps) + 1
           /\ Len(ps) \in Nat
           /\ \A i \in 0 .. Len(ps) :
                  /\ Frames(ps, ts)[i + 1] = Frame(ps, ts, i)
                  /\ Frame(ps, ts, i) \in FrameT(T)
                  /\ Len(Frame(ps, ts, i).trees) = End(ps, ts, i) - Start(ps, i)
<1>1. ps \in Seq(ParentT) /\ Len(ps) \in Nat
  BY DEF Nested
<1>2. ASSUME NEW i \in 0 .. Len(ps)
      PROVE  /\ Frame(ps, ts, i) \in FrameT(T)
             /\ Len(Frame(ps, ts, i).trees) = End(ps, ts, i) - Start(ps, i)
  <2>1. PICK a \in Nat, b \in Nat :
          a = Start(ps, i) /\ b = End(ps, ts, i) /\ a <= b /\ b <= Len(ts)
    BY Bounds
  <2>2. SubSeq(ts, a + 1, b) \in Seq(T) /\ Len(SubSeq(ts, a + 1, b)) = b - a
    BY <2>1, Part
  <2>3. ASSUME i # 0 PROVE ps[i].kind \in NodeKinds
    <3>1. i \in 1 .. Len(ps)
      BY <1>1, <2>3
    <3>2. ps[i] \in ParentT
      BY <1>1, <3>1, ElementOfSeq
    <3> QED
      BY <3>2 DEF ParentT
  <2> QED
    BY <2>1, <2>2, <2>3 DEF Frame, FrameT
<1>3. \A i \in 0 .. Len(ps) : Frames(ps, ts)[i + 1] = Frame(ps, ts, i)
  <2>1. ASSUME NEW i \in 0 .. Len(ps) PROVE Frames(ps, ts)[i + 1] = Frame(ps, ts, i)
    <3>1. i + 1 \in 1 .. Len(ps) + 1 /\ (i + 1) - 1 = i
      BY <1>1
    <3> QED
      BY <3>1 DEF Frames
  <2> QED
    BY <2>1
<1>4. Frames(ps, ts) \in Seq(FrameT(T)) /\ Len(Frames(ps, ts)) = Len(ps) + 1
  <2>1. ASSUME NEW j \in 1 .. Len(ps) + 1 PROVE Frame(ps, ts, j - 1) \in FrameT(T)
    <3>1. j - 1 \in 0 .. Len(ps)
      BY <1>1
    <3> QED
      BY <1>2, <3>1
  <2>2. Frames(ps, ts) \in [1 .. Len(ps) + 1 -> FrameT(T)]
    BY <2>1 DEF Frames
  <2> QED
    BY <1>1, <2>2
<1> QED
  BY <1>1, <1>2, <1>3, <1>4

\* The trees on a part of the stack.
LEMMA FramesTrees ==
    ASSUME NEW T, NEW ts \in Seq(T), NEW ps, Nested(ps, Len(ts)),
           NEW d \in 0 .. Len(ps), NEW e \in 0 .. Len(ps), d <= e
    PROVE  Abstract!TreesOn(SubSeq(Frames(ps, ts), d + 1, e + 1))
             = SubSeq(ts, Start(ps, d) + 1, End(ps, ts, e))
<1>1. PICK n \in Nat : n = e - d + 1
  OBVIOUS
<1>2. PICK s : s = SubSeq(Frames(ps, ts), d + 1, e + 1)
  OBVIOUS
<1>3. /\ Len(s) = n /\ Len(ps) \in Nat
      /\ \A j \in 1 .. n : s[j] = Frame(ps, ts, d + j - 1)
  <2>1. /\ Frames(ps, ts) \in Seq(FrameT(T)) /\ Len(Frames(ps, ts)) = Len(ps) + 1
        /\ Len(ps) \in Nat
        /\ \A i \in 0 .. Len(ps) : Frames(ps, ts)[i + 1] = Frame(ps, ts, i)
    BY FramesType
  <2>2. Len(s) = n /\ \A j \in 1 .. n : s[j] = Frames(ps, ts)[d + j]
    <3>1. e + 1 \in Nat /\ d <= e + 1 /\ e + 1 <= Len(Frames(ps, ts)) /\ (e + 1) - d = n
      BY <1>1, <2>1
    <3> QED
      <4>0. PICK b \in Nat : b = e + 1
        BY <3>1
      <4>1. PICK F : F = Frames(ps, ts) /\ b = e + 1
        BY <4>0
      <4>2. /\ F \in Seq(FrameT(T)) /\ d \in Nat /\ d <= b /\ b <= Len(F)
            /\ s = SubSeq(F, d + 1, b) /\ b - d = n
        BY <1>2, <2>1, <3>1, <4>1
      <4>3. Len(s) = b - d /\ \A j \in 1 .. b - d : s[j] = F[d + j]
        BY ONLY b \in Nat, <4>2, Part
      <4> QED
        BY ONLY <4>1, <4>2, <4>3
  <2>3. ASSUME NEW j \in 1 .. n PROVE s[j] = Frame(ps, ts, d + j - 1)
    <3>1. d + j - 1 \in 0 .. Len(ps) /\ (d + j - 1) + 1 = d + j
      BY <1>1, <2>1
    <3> QED
      BY <2>1, <2>2, <3>1
  <2> QED
    BY <2>1, <2>2, <2>3
<1>4. PICK b : b = [j \in 0 .. n |-> IF j = 0 THEN Start(ps, d) ELSE End(ps, ts, d + j - 1)]
  OBVIOUS
<1>5. ASSUME NEW j \in 1 .. n
      PROVE  /\ b[j] = End(ps, ts, d + j - 1) /\ b[j - 1] = Start(ps, d + j - 1)
             /\ b[j] \in Nat /\ b[j - 1] <= b[j] /\ b[j] <= Len(ts)
             /\ s[j].trees = SubSeq(ts, b[j - 1] + 1, b[j])
  <2>1. PICK i \in 0 .. Len(ps) : i = d + j - 1
    BY <1>1, <1>3
  <2>2. b[j] = End(ps, ts, i)
    BY <1>4, <2>1
  <2>3. /\ Start(ps, i) <= End(ps, ts, i) /\ End(ps, ts, i) <= Len(ts) /\ End(ps, ts, i) \in Nat
        /\ i # 0 => Start(ps, i) = End(ps, ts, i - 1)
    BY Bounds
  <2>4. b[j - 1] = Start(ps, i)
    <3>1. CASE j = 1
      BY <1>4, <2>1, <3>1
    <3>2. CASE j # 1
      <4>1. j - 1 \in 0 .. n /\ j - 1 # 0 /\ d + (j - 1) - 1 = i - 1 /\ i # 0
        BY <2>1, <3>2
      <4> QED
        BY <1>4, <2>3, <4>1
    <3> QED
      BY <3>1, <3>2
  <2>5. s[j].trees = SubSeq(ts, Start(ps, i) + 1, End(ps, ts, i))
    BY <1>3, <2>1 DEF Frame
  <2> QED
    BY <2>1, <2>2, <2>3, <2>4, <2>5
<1>6. b[0] = Start(ps, d) /\ b[0] \in Nat /\ b[0] <= Len(ts)
  <2>1. /\ Start(ps, d) \in Nat /\ End(ps, ts, d) \in Nat /\ Len(ts) \in Nat
        /\ Start(ps, d) <= End(ps, ts, d) /\ End(ps, ts, d) <= Len(ts)
    BY Bounds
  <2> QED
    BY <1>4, <2>1
<1>7. b \in [0 .. n -> Nat]
  <2>1. \A j \in 0 .. n : b[j] \in Nat
    BY <1>5, <1>6
  <2> QED
    BY <1>4, <2>1
<1>8. b[n] = End(ps, ts, e)
  <2>1. n \in 1 .. n /\ d + n - 1 = e
    BY <1>1
  <2> QED
    BY <1>5, <2>1
<1>9. Abstract!TreesOn(s) = SubSeq(ts, b[0] + 1, b[n])
  <2>1. \A j \in 1 .. n : /\ b[j - 1] <= b[j] /\ b[j] <= Len(ts)
                         /\ s[j].trees = SubSeq(ts, b[j - 1] + 1, b[j])
    BY <1>5
  <2>2. n = Len(s)
    BY <1>3
  <2> QED
    BY <1>6, <1>7, <2>1, <2>2, TreesOnParts
<1> QED
  BY <1>2, <1>6, <1>8, <1>9

\* Replacing the trees of one frame.
IsSet(G, F, m, x, T) ==
    /\ G \in Seq(FrameT(T)) /\ Len(G) = Len(F)
    /\ \A i \in 1 .. Len(F) : G[i] = IF i = m THEN [kind |-> F[m].kind, trees |-> x] ELSE F[i]

LEMMA SetTrees ==
    ASSUME NEW T, NEW F \in Seq(FrameT(T)), NEW m \in 1 .. Len(F), NEW x \in Seq(T),
           NEW G, G = [F EXCEPT ![m].trees = x]
    PROVE  IsSet(G, F, m, x, T)
<1>1. DOMAIN F = 1 .. Len(F) /\ Len(F) \in Nat /\ \A i \in 1 .. Len(F) : F[i] \in FrameT(T)
  BY LenProperties, ElementOfSeq
<1>2. G = [F EXCEPT ![m].trees = x]
  OBVIOUS
<1>3. DOMAIN G = 1 .. Len(F) /\ G = [i \in 1 .. Len(F) |-> G[i]]
  BY <1>1, <1>2
<1>4. F[m] \in FrameT(T) /\ G[m] = [F[m] EXCEPT !.trees = x]
  BY <1>1, <1>2
<1>5. G[m] = [kind |-> F[m].kind, trees |-> x] /\ G[m] \in FrameT(T)
  BY <1>4 DEF FrameT
<1>6. \A i \in 1 .. Len(F) : i # m => G[i] = F[i]
  BY <1>1, <1>2
<1>7. \A i \in 1 .. Len(F) : G[i] \in FrameT(T)
  BY <1>1, <1>5, <1>6
<1>8. G \in Seq(FrameT(T)) /\ Len(G) = Len(F)
  <2>1. G \in [1 .. Len(F) -> FrameT(T)]
    BY <1>3, <1>7
  <2> QED
    BY <1>1, <2>1
<1> QED
  BY <1>5, <1>6, <1>8 DEF IsSet

LEMMA PartOfAppend ==
    ASSUME NEW T, NEW ts \in Seq(T), NEW t \in T, NEW a \in Nat, NEW b \in Nat,
           a <= b, b <= Len(ts)
    PROVE  SubSeq(Append(ts, t), a + 1, b) = SubSeq(ts, a + 1, b)
<1>1. /\ Append(ts, t) \in Seq(T) /\ Len(Append(ts, t)) = Len(ts) + 1 /\ Len(ts) \in Nat
      /\ \A i \in 1 .. Len(ts) : Append(ts, t)[i] = ts[i]
  OBVIOUS
<1>2. /\ SubSeq(ts, a + 1, b) \in Seq(T) /\ Len(SubSeq(ts, a + 1, b)) = b - a
      /\ \A i \in 1 .. b - a : SubSeq(ts, a + 1, b)[i] = ts[a + i]
  BY Part
<1>3. /\ SubSeq(Append(ts, t), a + 1, b) \in Seq(T)
      /\ Len(SubSeq(Append(ts, t), a + 1, b)) = b - a
      /\ \A i \in 1 .. b - a : SubSeq(Append(ts, t), a + 1, b)[i] = Append(ts, t)[a + i]
  <2>1. b <= Len(Append(ts, t))
    BY <1>1
  <2> QED
    BY <1>1, <2>1, Part
<1>4. \A i \in 1 .. b - a : a + i \in 1 .. Len(ts)
  BY <1>1
<1>5. \A i \in 1 .. b - a : SubSeq(Append(ts, t), a + 1, b)[i] = SubSeq(ts, a + 1, b)[i]
  BY <1>1, <1>2, <1>3, <1>4
<1> QED
  BY <1>2, <1>3, <1>5, SameSeq

LEMMA LastPartOfAppend ==
    ASSUME NEW T, NEW ts \in Seq(T), NEW t \in T, NEW a \in Nat, a <= Len(ts)
    PROVE  SubSeq(Append(ts, t), a + 1, Len(ts) + 1) = Append(SubSeq(ts, a + 1, Len(ts)), t)
<1>1. PICK n \in Nat : n = Len(ts)
  OBVIOUS
<1>2. PICK u, v, w : u = Append(ts, t) /\ v = SubSeq(u, a + 1, n + 1) /\ w = SubSeq(ts, a + 1, n)
  OBVIOUS
<1>3. u \in Seq(T) /\ Len(u) = n + 1 /\ (\A i \in 1 .. n : u[i] = ts[i]) /\ u[n + 1] = t
  BY <1>1, <1>2
<1>4. v \in Seq(T) /\ Len(v) = n + 1 - a /\ \A i \in 1 .. n + 1 - a : v[i] = u[a + i]
  <2>1. PICK m \in Nat : m = n + 1 /\ a <= m /\ m <= Len(u)
    BY <1>1, <1>3
  <2>2. SubSeq(u, a + 1, m) \in Seq(T) /\ Len(SubSeq(u, a + 1, m)) = m - a
        /\ \A i \in 1 .. m - a : SubSeq(u, a + 1, m)[i] = u[a + i]
    BY <1>3, <2>1, Part
  <2>3. v = SubSeq(u, a + 1, m)
    BY <1>2, <2>1
  <2>4. v \in Seq(T) /\ Len(v) = m - a /\ \A i \in 1 .. m - a : v[i] = u[a + i]
    BY <2>2, <2>3
  <2> QED
    BY <2>1, <2>4
<1>5. w \in Seq(T) /\ Len(w) = n - a /\ \A i \in 1 .. n - a : w[i] = ts[a + i]
  BY <1>1, <1>2, Part
<1>6. /\ Append(w, t) \in Seq(T) /\ Len(Append(w, t)) = n + 1 - a
      /\ (\A i \in 1 .. n - a : Append(w, t)[i] = w[i]) /\ Append(w, t)[n - a + 1] = t
  <2>1. Len(w) \in Nat /\ n - a = Len(w)
    BY <1>5
  <2>2. /\ Append(w, t) \in Seq(T) /\ Len(Append(w, t)) = Len(w) + 1
        /\ (\A i \in 1 .. Len(w) : Append(w, t)[i] = w[i]) /\ Append(w, t)[Len(w) + 1] = t
    BY <1>5, AppendProperties
  <2> QED
    BY <1>1, <2>1, <2>2
<1>7. \A i \in 1 .. n + 1 - a : v[i] = Append(w, t)[i]
  <2>1. ASSUME NEW i \in 1 .. n + 1 - a PROVE v[i] = Append(w, t)[i]
    <3>1. CASE i \in 1 .. n - a
      <4>1. a + i \in 1 .. n
        BY <1>1, <3>1
      <4> QED
        BY <1>3, <1>4, <1>5, <1>6, <3>1, <4>1
    <3>2. CASE i = n - a + 1
      <4>1. a + i = n + 1
        BY <1>1, <3>2
      <4> QED
        BY <1>3, <1>4, <1>6, <3>2, <4>1
    <3>3. i \in 1 .. n - a \/ i = n - a + 1
      <4>1. a <= n /\ i \in Nat /\ i >= 1 /\ i <= n + 1 - a
        BY <1>1
      <4> QED
        BY <4>1
    <3> QED
      BY <3>1, <3>2, <3>3
  <2> QED
    BY <2>1
<1> QED
  BY <1>1, <1>2, <1>4, <1>6, <1>7, SameSeq

\* Recording a tree in the innermost node.
LEMMA FramesRecord ==
    ASSUME NEW T, NEW ts \in Seq(T), NEW ps, Nested(ps, Len(ts)), NEW t \in T
    PROVE  /\ Nested(ps, Len(Append(ts, t)))
           /\ Frames(ps, Append(ts, t)) = Abstract!Recorded(Frames(ps, ts), t)
<1>0. PICK us : us = Append(ts, t)
  OBVIOUS
<1>1. PICK n \in Nat : us = Append(ts, t) /\ n = Len(ps)
  BY <1>0 DEF Nested
<1>2. us \in Seq(T) /\ Len(us) = Len(ts) + 1 /\ Len(ts) \in Nat
  BY <1>1
<1>3. Nested(ps, Len(us))
  <2>1. ASSUME NEW i \in 1 .. Len(ps) PROVE ps[i].first_child <= Len(us)
    <3>1. ps[i] \in ParentT
      BY ElementOfSeq DEF Nested
    <3>2. ps[i].first_child \in Nat
      BY <3>1 DEF ParentT
    <3> QED
      BY <1>2, <3>2 DEF Nested
  <2> QED
    BY <2>1 DEF Nested
<1>4. PICK F, G : F = Frames(ps, ts) /\ G = Frames(ps, us)
  OBVIOUS
<1>5. /\ F \in Seq(FrameT(T)) /\ Len(F) = n + 1
      /\ G \in Seq(FrameT(T)) /\ Len(G) = n + 1
      /\ \A i \in 0 .. n : F[i + 1] = Frame(ps, ts, i) /\ G[i + 1] = Frame(ps, us, i)
      /\ \A i \in 0 .. n : F[i + 1] \in FrameT(T)
  <2>1. /\ F \in Seq(FrameT(T)) /\ Len(F) = n + 1
        /\ \A i \in 0 .. n : F[i + 1] = Frame(ps, ts, i) /\ F[i + 1] \in FrameT(T)
    BY <1>1, <1>4, FramesType
  <2>2. /\ G \in Seq(FrameT(T)) /\ Len(G) = n + 1
        /\ \A i \in 0 .. n : G[i + 1] = Frame(ps, us, i)
    <3>1. us \in Seq(T) /\ Nested(ps, Len(us)) /\ G = Frames(ps, us)
      BY <1>1, <1>2, <1>3, <1>4
    <3>2. /\ Frames(ps, us) \in Seq(FrameT(T)) /\ Len(Frames(ps, us)) = Len(ps) + 1
          /\ \A i \in 0 .. Len(ps) : Frames(ps, us)[i + 1] = Frame(ps, us, i)
      BY ONLY <3>1, FramesType
    <3>3. n = Len(ps)
      BY <1>1
    <3> QED
      BY ONLY <3>1, <3>2, <3>3
  <2> QED
    BY <2>1, <2>2
<1>6. PICK x : x = Append(F[n + 1].trees, t)
  OBVIOUS
<1>7. x \in Seq(T)
  <2>1. F[n + 1] \in FrameT(T)
    BY <1>1, <1>5
  <2>2. F[n + 1].trees \in Seq(T)
    BY <2>1 DEF FrameT
  <2> QED
    BY <1>6, <2>2
<1>8. PICK R : R = [F EXCEPT ![n + 1].trees = x]
  OBVIOUS
<1>9. /\ R \in Seq(FrameT(T)) /\ Len(R) = n + 1
      /\ \A i \in 1 .. n + 1 : R[i] = IF i = n + 1 THEN [kind |-> F[n + 1].kind, trees |-> x] ELSE F[i]
  <2>1. PICK d \in 1 .. Len(F) : d = n + 1
    BY <1>5
  <2>2. IsSet(R, F, d, x, T)
    BY <1>5, <1>7, <1>8, <2>1, SetTrees
  <2> QED
    BY <1>5, <2>1, <2>2 DEF IsSet
<1>10. ASSUME NEW j \in 1 .. n + 1 PROVE G[j] = R[j]
  <2>1. PICK i \in 0 .. n : j = i + 1
    <3>1. j - 1 \in 0 .. n /\ j = (j - 1) + 1
      BY <1>1
    <3> QED
      BY <3>1
  <2>2. /\ Start(ps, i) \in Nat /\ End(ps, ts, i) \in Nat
        /\ Start(ps, i) <= End(ps, ts, i) /\ End(ps, ts, i) <= Len(ts)
    BY <1>1, Bounds
  <2>3. CASE i < n
    <3>1. End(ps, us, i) = End(ps, ts, i)
      BY <1>1, <2>3 DEF End
    <3>2. SubSeq(us, Start(ps, i) + 1, End(ps, ts, i)) = SubSeq(ts, Start(ps, i) + 1, End(ps, ts, i))
      <4>1. PICK a \in Nat, b \in Nat :
              a = Start(ps, i) /\ b = End(ps, ts, i) /\ a <= b /\ b <= Len(ts)
        BY <2>2
      <4>2. SubSeq(us, a + 1, b) = SubSeq(ts, a + 1, b)
        <5>1. ts \in Seq(T) /\ t \in T
          OBVIOUS
        <5>2. SubSeq(Append(ts, t), a + 1, b) = SubSeq(ts, a + 1, b)
          BY ONLY a \in Nat, b \in Nat, <4>1, <5>1, PartOfAppend, SMTT(20)
        <5> QED
          BY ONLY <1>1, <5>2
      <4> QED
        BY <4>1, <4>2
    <3>3. Frame(ps, us, i) = Frame(ps, ts, i)
      BY <3>1, <3>2 DEF Frame
    <3> QED
      BY <1>1, <1>5, <1>9, <2>1, <2>3, <3>3
  <2>4. CASE i = n
    <3>1. End(ps, us, i) = Len(ts) + 1 /\ End(ps, ts, i) = Len(ts)
      BY <1>1, <1>2, <2>4 DEF End
    <3>2. SubSeq(us, Start(ps, i) + 1, Len(ts) + 1)
            = Append(SubSeq(ts, Start(ps, i) + 1, Len(ts)), t)
      BY <1>1, <2>2, <3>1, LastPartOfAppend
    <3>3. Frame(ps, us, i) = [kind |-> Frame(ps, ts, i).kind, trees |-> Append(Frame(ps, ts, i).trees, t)]
      BY <3>1, <3>2 DEF Frame
    <3> QED
      BY <1>1, <1>5, <1>6, <1>9, <2>1, <2>4, <3>3
  <2> QED
    BY <2>3, <2>4
<1>11. G = R
  BY <1>5, <1>9, <1>10, SameSeq
<1>12. R = Abstract!Recorded(F, t)
  BY <1>5, <1>6, <1>8 DEF Abstract!Recorded
<1> QED
  BY <1>1, <1>3, <1>4, <1>11, <1>12

LEMMA PartOfPart ==
    ASSUME NEW T, NEW ts \in Seq(T), NEW x \in Nat, NEW y \in Nat, NEW a \in Nat, NEW b \in Nat,
           x <= y, y <= Len(ts), a <= b, b <= y - x
    PROVE  SubSeq(SubSeq(ts, x + 1, y), a + 1, b) = SubSeq(ts, (x + a) + 1, x + b)
<1>1. PICK u : u = SubSeq(ts, x + 1, y)
  OBVIOUS
<1>2. u \in Seq(T) /\ Len(u) = y - x /\ \A i \in 1 .. y - x : u[i] = ts[x + i]
  BY <1>1, Part
<1>3. PICK v : v = SubSeq(u, a + 1, b)
  OBVIOUS
<1>4. v \in Seq(T) /\ Len(v) = b - a /\ \A i \in 1 .. b - a : v[i] = u[a + i]
  <2>1. u \in Seq(T) /\ b <= Len(u) /\ a \in Nat /\ b \in Nat /\ a <= b
    BY <1>2
  <2> QED
    BY ONLY <1>3, <2>1, Part
<1>5. PICK p \in Nat, q \in Nat : p = x + a /\ q = x + b
  OBVIOUS
<1>6. PICK w : w = SubSeq(ts, p + 1, q)
  OBVIOUS
<1>7. w \in Seq(T) /\ Len(w) = q - p /\ \A i \in 1 .. q - p : w[i] = ts[p + i]
  <2>1. p <= q /\ q <= Len(ts)
    BY <1>5
  <2> QED
    BY <1>6, <2>1, Part
<1>8. q - p = b - a
  BY <1>5
<1>9. \A i \in 1 .. b - a : v[i] = w[i]
  <2>1. ASSUME NEW i \in 1 .. b - a PROVE v[i] = w[i]
    <3>1. a + i \in 1 .. y - x /\ x + (a + i) = p + i
      BY <1>5
    <3> QED
      BY <1>2, <1>4, <1>7, <1>8, <3>1
  <2> QED
    BY <2>1
<1>10. v = w
  BY <1>4, <1>7, <1>8, <1>9, SameSeq
<1> QED
  BY <1>1, <1>3, <1>5, <1>6, <1>10

LEMMA PrefixOfPart ==
    ASSUME NEW T, NEW ts \in Seq(T), NEW x \in Nat, NEW y \in Nat, NEW b \in Nat,
           x <= y, y <= Len(ts), b <= y - x
    PROVE  SubSeq(SubSeq(ts, x + 1, y), 1, b) = SubSeq(ts, x + 1, x + b)
<1>1. PICK a \in Nat : a = 0
  OBVIOUS
<1>2. a <= b /\ a + 1 = 1 /\ (x + a) + 1 = x + 1
  BY <1>1
<1>3. SubSeq(SubSeq(ts, x + 1, y), a + 1, b) = SubSeq(ts, (x + a) + 1, x + b)
  BY <1>2, PartOfPart
<1> QED
  BY <1>2, <1>3

LEMMA SuffixOfPart ==
    ASSUME NEW T, NEW ts \in Seq(T), NEW x \in Nat, NEW y \in Nat, NEW a \in Nat,
           x <= y, y <= Len(ts), a <= y - x
    PROVE  SubSeq(SubSeq(ts, x + 1, y), a + 1, y - x) = SubSeq(ts, (x + a) + 1, y)
<1>1. PICK b \in Nat : b = y - x
  OBVIOUS
<1>2. a <= b /\ b <= y - x /\ x + b = y
  BY <1>1
<1>3. SubSeq(SubSeq(ts, x + 1, y), a + 1, b) = SubSeq(ts, (x + a) + 1, x + b)
  BY <1>2, PartOfPart
<1> QED
  BY <1>1, <1>2, <1>3

\* Dropping the innermost nodes and the last trees.
CutAt(qs, us, ps, ts, p, c, T) ==
    /\ Nested(qs, Len(us))
    /\ qs \in Seq(ParentT) /\ Len(qs) = p
    /\ us \in Seq(T) /\ Len(us) = c
    /\ \A i \in 0 .. p : Frame(qs, us, i) =
           IF i < p THEN Frame(ps, ts, i)
           ELSE [kind |-> Frame(ps, ts, p).kind, trees |-> SubSeq(ts, Start(ps, p) + 1, c)]

LEMMA FramesOfPrefix ==
    ASSUME NEW T, NEW ts \in Seq(T), NEW ps, Nested(ps, Len(ts)),
           NEW p \in 0 .. Len(ps), NEW c \in Nat, Start(ps, p) <= c, c <= Len(ts),
           NEW qs, qs = SubSeq(ps, 1, p), NEW us, us = SubSeq(ts, 1, c)
    PROVE  CutAt(qs, us, ps, ts, p, c, T)
<1>1. qs = SubSeq(ps, 1, p)
  OBVIOUS
<1>2. us = SubSeq(ts, 1, c)
  OBVIOUS
<1>3. ps \in Seq(ParentT) /\ Len(ps) \in Nat /\ Len(ts) \in Nat
  BY DEF Nested
<1>4. /\ qs \in Seq(ParentT) /\ Len(qs) = p /\ \A i \in 1 .. p : qs[i] = ps[i]
      /\ us \in Seq(T) /\ Len(us) = c
  <2>1. p \in 0 .. Len(ps) /\ c \in 0 .. Len(ts)
    BY <1>3
  <2>2. qs \in Seq(ParentT) /\ Len(qs) = p /\ \A i \in 1 .. p : qs[i] = ps[i]
    BY <1>1, <1>3, <2>1, PrefixOfSeq
  <2>3. us \in Seq(T) /\ Len(us) = c
    BY <1>2, <2>1, PrefixOfSeq
  <2> QED
    BY <2>2, <2>3
<1>5. \A i \in 1 .. Len(ps) : ps[i].first_child \in Nat
  <2>1. \A i \in 1 .. Len(ps) : ps[i] \in ParentT
    BY <1>3, ElementOfSeq
  <2> QED
    BY <2>1 DEF ParentT
<1>6. Nested(qs, c)
  <2>1. ASSUME NEW i \in 1 .. p PROVE qs[i].first_child <= c
    <3>1. ps[i].first_child <= ps[p].first_child /\ Start(ps, p) = ps[p].first_child
      <4>1. i \in 1 .. Len(ps) /\ p \in 1 .. Len(ps) /\ i <= p /\ p # 0
        BY <1>3
      <4>2. ps[i].first_child <= ps[p].first_child
        BY <4>1 DEF Nested
      <4> QED
        BY <4>1, <4>2 DEF Start
    <3>2. ps[i].first_child \in Nat /\ ps[p].first_child \in Nat
      BY <1>3, <1>5
    <3> QED
      BY <1>4, <3>1, <3>2
  <2>2. \A i, j \in 1 .. p : i <= j => qs[i].first_child <= qs[j].first_child
    BY <1>3, <1>4 DEF Nested
  <2> QED
    BY <1>4, <2>1, <2>2 DEF Nested
<1>7. ASSUME NEW i \in 0 .. p
      PROVE  Frame(qs, us, i) =
                 IF i < p THEN Frame(ps, ts, i)
                 ELSE [kind |-> Frame(ps, ts, p).kind, trees |-> SubSeq(ts, Start(ps, p) + 1, c)]
  <2>1. /\ Start(qs, i) = Start(ps, i)
        /\ (IF i = 0 THEN "outside" ELSE qs[i].kind) = (IF i = 0 THEN "outside" ELSE ps[i].kind)
    BY <1>4 DEF Start
  <2>2. PICK a \in Nat, b \in Nat :
          a = Start(ps, i) /\ b = End(qs, us, i) /\ a <= b /\ b <= c
    <3>1. Nested(qs, Len(us)) /\ i \in 0 .. Len(qs)
      BY <1>4, <1>6
    <3>2. /\ Start(qs, i) \in Nat /\ End(qs, us, i) \in Nat
          /\ Start(qs, i) <= End(qs, us, i) /\ End(qs, us, i) <= Len(us)
      BY <1>4, <3>1, Bounds
    <3> QED
      BY <1>4, <2>1, <3>2
  <2>3. SubSeq(us, a + 1, b) = SubSeq(ts, a + 1, b)
    <3>1. /\ 0 \in Nat /\ 0 <= c /\ c - 0 = c /\ (0 + a) + 1 = a + 1 /\ 0 + b = b
          /\ 0 + 1 = 1 /\ b <= c - 0
      BY <2>2
    <3>2. SubSeq(SubSeq(ts, 0 + 1, c), a + 1, b) = SubSeq(ts, (0 + a) + 1, 0 + b)
      <4>1. /\ ts \in Seq(T) /\ c \in Nat /\ c <= Len(ts)
            /\ a \in Nat /\ b \in Nat /\ a <= b
        BY <2>2
      <4> QED
        BY ONLY <3>1, <4>1, PartOfPart
    <3> QED
      BY <1>2, <3>1, <3>2
  <2>4. CASE i < p
    <3>1. End(qs, us, i) = End(ps, ts, i)
      BY <1>3, <1>4, <2>4 DEF End
    <3> QED
      BY <2>1, <2>2, <2>3, <2>4, <3>1 DEF Frame
  <2>5. CASE i = p
    <3>1. End(qs, us, i) = c
      BY <1>4, <2>5 DEF End
    <3>2. ~ (i < p)
      BY <1>3, <2>5
    <3>3. Frame(qs, us, p) = [kind |-> Frame(ps, ts, p).kind, trees |-> SubSeq(ts, Start(ps, p) + 1, c)]
      BY <2>1, <2>2, <2>3, <2>5, <3>1 DEF Frame
    <3> QED
      BY <2>5, <3>2, <3>3
  <2>6. i < p \/ i = p
    BY <1>3
  <2> QED
    BY <2>4, <2>5, <2>6
<1> QED
  BY <1>4, <1>6, <1>7 DEF CutAt

\* Opening a node over the trees from position c on.
Opens(qs, ps, ts, n, k, c) ==
    /\ Nested(qs, Len(ts)) /\ Len(qs) = n + 1
    /\ \A i \in 0 .. n + 1 : Frame(qs, ts, i) =
           IF i < n THEN Frame(ps, ts, i)
           ELSE IF i = n
           THEN [kind |-> Frame(ps, ts, n).kind, trees |-> SubSeq(ts, Start(ps, n) + 1, c)]
           ELSE [kind |-> k, trees |-> SubSeq(ts, c + 1, Len(ts))]

LEMMA FramesOpen ==
    ASSUME NEW T, NEW ts \in Seq(T), NEW ps, Nested(ps, Len(ts)), NEW n \in Nat, n = Len(ps),
           NEW k \in NodeKinds, NEW c \in Nat, Start(ps, n) <= c, c <= Len(ts),
           NEW qs, qs = Append(ps, [kind |-> k, first_child |-> c])
    PROVE  Opens(qs, ps, ts, n, k, c)
<1>1. ps \in Seq(ParentT) /\ Len(ts) \in Nat
  BY DEF Nested
<1>2. PICK p \in ParentT : p = [kind |-> k, first_child |-> c]
  BY DEF ParentT
<1>3. p.kind = k /\ p.first_child = c
  BY <1>2
<1>4. /\ qs \in Seq(ParentT) /\ Len(qs) = n + 1
      /\ \A i \in 1 .. n : qs[i] = ps[i]
      /\ qs[n + 1] = p
  BY <1>1, <1>2, AppendProperties
<1>5. \A i \in 1 .. n : ps[i].first_child \in Nat /\ ps[i].first_child <= c
  <2>1. ASSUME NEW i \in 1 .. n PROVE ps[i].first_child \in Nat /\ ps[i].first_child <= c
    <3>1. ps[i] \in ParentT /\ ps[n] \in ParentT /\ n # 0
      BY <1>1, ElementOfSeq
    <3>2. ps[i].first_child <= ps[n].first_child /\ Start(ps, n) = ps[n].first_child
      BY <3>1 DEF Nested, Start
    <3> QED
      BY <3>1, <3>2 DEF ParentT
  <2> QED
    BY <2>1
<1>6. Nested(qs, Len(ts))
  <2>1. \A i \in 1 .. n + 1 : qs[i].first_child \in Nat /\ qs[i].first_child <= c
    BY <1>3, <1>4, <1>5
  <2>2. \A i, j \in 1 .. n + 1 : i <= j => qs[i].first_child <= qs[j].first_child
    <3>1. SUFFICES ASSUME NEW i \in 1 .. n + 1, NEW j \in 1 .. n + 1, i <= j
                   PROVE  qs[i].first_child <= qs[j].first_child
      OBVIOUS
    <3>2. CASE j = n + 1
      BY <1>3, <1>4, <2>1, <3>2
    <3>3. CASE j \in 1 .. n
      <4>1. i \in 1 .. n
        BY <3>1, <3>3
      <4> QED
        BY <1>4, <3>1, <3>3, <4>1 DEF Nested
    <3> QED
      BY <3>2, <3>3
  <2>3. \A i \in 1 .. n + 1 : qs[i].first_child <= Len(ts)
    <3>1. ASSUME NEW x \in Nat, x <= c PROVE x <= Len(ts)
      BY <1>1, <3>1
    <3> QED
      BY <2>1, <3>1
  <2> QED
    BY <1>4, <2>2, <2>3 DEF Nested
<1>7. ASSUME NEW i \in 0 .. n
      PROVE  /\ Start(qs, i) = Start(ps, i)
             /\ (IF i = 0 THEN "outside" ELSE qs[i].kind) = (IF i = 0 THEN "outside" ELSE ps[i].kind)
  BY <1>4 DEF Start
<1>8. ASSUME NEW i \in 0 .. n, i < n PROVE Frame(qs, ts, i) = Frame(ps, ts, i)
  <2>1. End(qs, ts, i) = End(ps, ts, i)
    BY <1>4, <1>8 DEF End
  <2> QED
    BY <1>7, <2>1 DEF Frame
<1>9. Frame(qs, ts, n) = [kind |-> Frame(ps, ts, n).kind, trees |-> SubSeq(ts, Start(ps, n) + 1, c)]
  <2>1. End(qs, ts, n) = c
    BY <1>3, <1>4 DEF End
  <2>2. n \in 0 .. n
    OBVIOUS
  <2>3. /\ Start(qs, n) = Start(ps, n)
        /\ (IF n = 0 THEN "outside" ELSE qs[n].kind) = (IF n = 0 THEN "outside" ELSE ps[n].kind)
    BY <1>7, <2>2
  <2> QED
    BY <2>1, <2>3 DEF Frame
<1>10. Frame(qs, ts, n + 1) = [kind |-> k, trees |-> SubSeq(ts, c + 1, Len(ts))]
  <2>1. Start(qs, n + 1) = c /\ End(qs, ts, n + 1) = Len(ts) /\ n + 1 # 0
    BY <1>3, <1>4 DEF Start, End
  <2> QED
    BY <1>3, <1>4, <2>1 DEF Frame
<1>11. ASSUME NEW i \in 0 .. n + 1
       PROVE  Frame(qs, ts, i) =
                  IF i < n THEN Frame(ps, ts, i)
                  ELSE IF i = n
                  THEN [kind |-> Frame(ps, ts, n).kind, trees |-> SubSeq(ts, Start(ps, n) + 1, c)]
                  ELSE [kind |-> k, trees |-> SubSeq(ts, c + 1, Len(ts))]
  <2>1. (i \in 0 .. n /\ i < n) \/ (i = n /\ ~ (i < n)) \/ (i = n + 1 /\ ~ (i < n) /\ i # n)
    OBVIOUS
  <2> QED
    BY <1>8, <1>9, <1>10, <2>1
<1> QED
  BY <1>4, <1>6, <1>11 DEF Opens

\* ... is Wrap, and StartNode if there are no such trees.
Wraps(G, F, n, k, m) ==
    /\ m <= Len(F[n + 1].trees)
    /\ G = Append([F EXCEPT ![n + 1].trees = SubSeq(@, 1, m)],
                  [kind |-> k, trees |-> SubSeq(F[n + 1].trees, m + 1, Len(F[n + 1].trees))])

LEMMA FramesWrap ==
    ASSUME NEW T, NEW ts \in Seq(T), NEW ps, Nested(ps, Len(ts)), NEW n \in Nat, n = Len(ps),
           NEW k \in NodeKinds, NEW c \in Nat, Start(ps, n) <= c, c <= Len(ts),
           NEW F, F = Frames(ps, ts), NEW m \in Nat, m = c - Start(ps, n),
           NEW G, G = Frames(Append(ps, [kind |-> k, first_child |-> c]), ts)
    PROVE  Wraps(G, F, n, k, m)
<1>1. PICK qs : qs = Append(ps, [kind |-> k, first_child |-> c])
  OBVIOUS
<1>2. G = Frames(qs, ts)
  BY <1>1
<1>3. /\ Nested(qs, Len(ts)) /\ Len(qs) = n + 1
      /\ \A i \in 0 .. n + 1 : Frame(qs, ts, i) =
             IF i < n THEN Frame(ps, ts, i)
             ELSE IF i = n
             THEN [kind |-> Frame(ps, ts, n).kind, trees |-> SubSeq(ts, Start(ps, n) + 1, c)]
             ELSE [kind |-> k, trees |-> SubSeq(ts, c + 1, Len(ts))]
  <2>1. Opens(qs, ps, ts, n, k, c)
    BY <1>1, FramesOpen
  <2> QED
    BY <2>1 DEF Opens
<1>4. /\ F \in Seq(FrameT(T)) /\ Len(F) = n + 1
      /\ \A i \in 0 .. n : F[i + 1] = Frame(ps, ts, i) /\ Frame(ps, ts, i) \in FrameT(T)
  BY FramesType
<1>5. /\ G \in Seq(FrameT(T)) /\ Len(G) = n + 2
      /\ \A i \in 0 .. n + 1 : G[i + 1] = Frame(qs, ts, i)
  <2>1. /\ G \in Seq(FrameT(T)) /\ Len(G) = Len(qs) + 1
        /\ \A i \in 0 .. Len(qs) : G[i + 1] = Frame(qs, ts, i)
    <3>1. Nested(qs, Len(ts))
      BY <1>3
    <3> QED
      BY ONLY ts \in Seq(T), <1>2, <3>1, FramesType
  <2> QED
    BY <1>3, <2>1
<1>6. PICK a \in Nat, z \in Nat : a = Start(ps, n) /\ z = Len(ts) /\ a <= c /\ c <= z /\ m = c - a
  BY Bounds
<1>7. PICK x : x = F[n + 1].trees
  OBVIOUS
<1>8. x = SubSeq(ts, a + 1, z) /\ x \in Seq(T) /\ Len(x) = z - a
  <2>1. End(ps, ts, n) = z
    BY <1>6 DEF End
  <2>2. x = SubSeq(ts, a + 1, z)
    <3>1. n \in 0 .. n
      OBVIOUS
    <3>2. F[n + 1] = Frame(ps, ts, n)
      BY <1>4, <3>1
    <3>3. Frame(ps, ts, n).trees = SubSeq(ts, Start(ps, n) + 1, End(ps, ts, n))
      BY DEF Frame
    <3> QED
      BY <1>6, <1>7, <2>1, <3>2, <3>3
  <2>3. a <= z
    BY <1>6
  <2> QED
    BY <1>6, <2>2, <2>3, Part
<1>9. SubSeq(x, 1, m) = SubSeq(ts, a + 1, c)
  <2>1. m <= z - a /\ a + m = c /\ a <= z /\ z <= Len(ts)
    BY <1>6
  <2>2. SubSeq(SubSeq(ts, a + 1, z), 1, m) = SubSeq(ts, a + 1, a + m)
    BY ONLY ts \in Seq(T), a \in Nat, z \in Nat, m \in Nat, <2>1, PrefixOfPart
  <2> QED
    BY <1>8, <2>1, <2>2
<1>10. SubSeq(x, m + 1, Len(x)) = SubSeq(ts, c + 1, z)
  <2>1. m <= z - a /\ a + m = c /\ a <= z /\ z <= Len(ts)
    BY <1>6
  <2>2. SubSeq(SubSeq(ts, a + 1, z), m + 1, z - a) = SubSeq(ts, (a + m) + 1, z)
    BY ONLY ts \in Seq(T), a \in Nat, z \in Nat, m \in Nat, <2>1, SuffixOfPart
  <2> QED
    BY <1>8, <2>1, <2>2
<1>11. PICK y : y = SubSeq(x, 1, m)
  OBVIOUS
<1>12. y \in Seq(T)
  <2>1. m \in 0 .. Len(x)
    BY <1>6, <1>8
  <2> QED
    BY <1>8, <1>11, <2>1, PrefixOfSeq
<1>13. PICK R : R = [F EXCEPT ![n + 1].trees = y]
  OBVIOUS
<1>14. /\ R \in Seq(FrameT(T)) /\ Len(R) = n + 1
       /\ \A i \in 1 .. n + 1 : R[i] = IF i = n + 1 THEN [kind |-> F[n + 1].kind, trees |-> y] ELSE F[i]
  <2>1. PICK d \in 1 .. Len(F) : d = n + 1
    BY <1>4
  <2>2. IsSet(R, F, d, y, T)
    BY <1>4, <1>12, <1>13, <2>1, SetTrees
  <2> QED
    BY <1>4, <2>1, <2>2 DEF IsSet
<1>15. PICK f : f = [kind |-> k, trees |-> SubSeq(x, m + 1, Len(x))]
  OBVIOUS
<1>16. f = G[n + 2] /\ f \in FrameT(T)
  <2>1. f = [kind |-> k, trees |-> SubSeq(ts, c + 1, Len(ts))]
    BY <1>6, <1>10, <1>15
  <2>2. n + 1 \in 0 .. n + 1 /\ ~ (n + 1 < n) /\ n + 1 # n /\ (n + 1) + 1 = n + 2
    OBVIOUS
  <2>3. f = G[n + 2]
    BY <1>3, <1>5, <2>1, <2>2
  <2>4. n + 2 \in 1 .. Len(G)
    BY <1>5
  <2> QED
    BY <1>5, <2>3, <2>4, ElementOfSeq
<1>17. PICK Q : Q = Append(R, f)
  OBVIOUS
<1>18. /\ Q \in Seq(FrameT(T)) /\ Len(Q) = n + 2
       /\ \A i \in 1 .. n + 1 : Q[i] = R[i]
       /\ Q[n + 2] = f
  <2>1. (n + 1) + 1 = n + 2
    OBVIOUS
  <2> QED
    BY <1>14, <1>16, <1>17, <2>1, AppendProperties
<1>19. ASSUME NEW j \in 1 .. n + 2 PROVE G[j] = Q[j]
  <2>1. CASE j = n + 2
    BY <1>16, <1>18, <2>1
  <2>2. CASE j = n + 1
    <3>1. n \in 0 .. n + 1 /\ n \in 0 .. n /\ ~ (n < n) /\ n + 1 \in 1 .. n + 1
      OBVIOUS
    <3>2. G[j] = [kind |-> F[n + 1].kind, trees |-> y]
      BY <1>3, <1>4, <1>5, <1>6, <1>9, <1>11, <2>2, <3>1
    <3> QED
      BY <1>14, <1>18, <2>2, <3>1, <3>2
  <2>3. CASE j \in 1 .. n
    <3>1. PICK i \in 0 .. n : i + 1 = j /\ i < n /\ i \in 0 .. n + 1
      <4>1. j - 1 \in 0 .. n /\ (j - 1) + 1 = j /\ j - 1 < n /\ j - 1 \in 0 .. n + 1
        BY <2>3
      <4> QED
        BY <4>1
    <3>2. G[j] = F[j]
      BY <1>3, <1>4, <1>5, <3>1
    <3>3. j \in 1 .. n + 1 /\ j # n + 1
      BY <2>3
    <3> QED
      BY <1>14, <1>18, <3>2, <3>3
  <2>4. j = n + 2 \/ j = n + 1 \/ j \in 1 .. n
    OBVIOUS
  <2> QED
    BY <2>1, <2>2, <2>3, <2>4
<1>20. G = Q
  BY <1>5, <1>18, <1>19, SameSeq
<1>21. m <= Len(x)
  BY <1>6, <1>8
<1> QED
  BY <1>7, <1>11, <1>13, <1>15, <1>17, <1>20, <1>21 DEF Wraps

LEMMA FramesStart ==
    ASSUME NEW T, NEW ts \in Seq(T), NEW ps, Nested(ps, Len(ts)), NEW k \in NodeKinds
    PROVE  Frames(Append(ps, [kind |-> k, first_child |-> Len(ts)]), ts)
             = Append(Frames(ps, ts), [kind |-> k, trees |-> <<>>])
<1>1. PICK n \in Nat, c \in Nat : n = Len(ps) /\ c = Len(ts)
  BY DEF Nested
<1>2. PICK F : F = Frames(ps, ts)
  OBVIOUS
<1>3. /\ F \in Seq(FrameT(T)) /\ Len(F) = n + 1
      /\ F[n + 1] = Frame(ps, ts, n) /\ Frame(ps, ts, n) \in FrameT(T)
      /\ Len(Frame(ps, ts, n).trees) = c - Start(ps, n)
      /\ Start(ps, n) \in Nat /\ Start(ps, n) <= c
  <2>1. n \in 0 .. Len(ps) /\ End(ps, ts, n) = c
    BY <1>1 DEF End
  <2>2. /\ F \in Seq(FrameT(T)) /\ Len(F) = Len(ps) + 1
        /\ F[n + 1] = Frame(ps, ts, n) /\ Frame(ps, ts, n) \in FrameT(T)
        /\ Len(Frame(ps, ts, n).trees) = End(ps, ts, n) - Start(ps, n)
    BY <1>2, <2>1, FramesType
  <2>3. Start(ps, n) \in Nat /\ Start(ps, n) <= End(ps, ts, n)
    BY <2>1, Bounds
  <2> QED
    BY <1>1, <2>1, <2>2, <2>3
<1>4. PICK x, m : m \in Nat /\ m = c - Start(ps, n) /\ x = F[n + 1].trees
  BY <1>3
<1>5. x \in Seq(T) /\ Len(x) = m
  BY <1>3, <1>4 DEF FrameT
<1>6. PICK G : G = Frames(Append(ps, [kind |-> k, first_child |-> c]), ts) /\ Wraps(G, F, n, k, m)
  <2>1. c <= Len(ts)
    BY <1>1
  <2> QED
    BY <1>1, <1>2, <1>3, <1>4, <2>1, FramesWrap
<1>7. SubSeq(x, 1, m) = x /\ SubSeq(x, m + 1, m) = <<>>
  BY <1>5, SubSeqFull, SubSeqEmpty
<1>8. [F EXCEPT ![n + 1].trees = x] = F
  <2>1. DOMAIN F = 1 .. n + 1 /\ F = [i \in 1 .. n + 1 |-> F[i]]
    BY <1>3
  <2>2. [F[n + 1] EXCEPT !.trees = x] = F[n + 1]
    BY <1>3, <1>4 DEF FrameT
  <2> QED
    BY <2>1, <2>2
<1> QED
  BY <1>1, <1>2, <1>4, <1>5, <1>6, <1>7, <1>8 DEF Wraps

\* Finishing the innermost node: its frame becomes a tree of the one outside.
Closes(F, ps, ts, n, c, T) ==
    /\ c \in Nat /\ c <= Len(ts)
    /\ Nested(SubSeq(ps, 1, n - 1), Len(SubSeq(ts, 1, c)))
    /\ SubSeq(ts, 1, c) \in Seq(T) /\ Len(SubSeq(ts, 1, c)) = c
    /\ Frames(SubSeq(ps, 1, n - 1), SubSeq(ts, 1, c)) = SubSeq(F, 1, n)
    /\ F[n + 1] = [kind |-> ps[n].kind, trees |-> SubSeq(ts, c + 1, Len(ts))]

LEMMA FramesFinish ==
    ASSUME NEW T, NEW ts \in Seq(T), NEW ps, Nested(ps, Len(ts)),
           NEW n \in Nat, n # 0, n = Len(ps), NEW c, c = ps[n].first_child,
           NEW F, F = Frames(ps, ts)
    PROVE  Closes(F, ps, ts, n, c, T)
<1>1. PICK q \in 0 .. Len(ps) : q = n - 1 /\ q < n /\ q + 1 = n
  OBVIOUS
<1>2. /\ c \in Nat /\ c <= Len(ts) /\ Start(ps, q) <= c /\ Len(ts) \in Nat
      /\ Start(ps, n) = c /\ End(ps, ts, q) = c /\ End(ps, ts, n) = Len(ts)
  <2>1. Start(ps, n) = c /\ End(ps, ts, q) = c /\ End(ps, ts, n) = Len(ts)
    BY <1>1 DEF Start, End
  <2>2. End(ps, ts, q) \in Nat /\ Start(ps, q) <= End(ps, ts, q) /\ End(ps, ts, q) <= Len(ts)
    BY Bounds
  <2> QED
    BY <2>1, <2>2
<1>3. PICK qs, us : qs = SubSeq(ps, 1, q) /\ us = SubSeq(ts, 1, c)
  OBVIOUS
<1>4. /\ Nested(qs, Len(us)) /\ qs \in Seq(ParentT) /\ Len(qs) = q
      /\ us \in Seq(T) /\ Len(us) = c
      /\ \A i \in 0 .. q : Frame(qs, us, i) =
             IF i < q THEN Frame(ps, ts, i)
             ELSE [kind |-> Frame(ps, ts, q).kind, trees |-> SubSeq(ts, Start(ps, q) + 1, c)]
  <2>1. CutAt(qs, us, ps, ts, q, c, T)
    BY <1>2, <1>3, FramesOfPrefix
  <2> QED
    BY <2>1 DEF CutAt
<1>5. \A i \in 0 .. q : Frame(qs, us, i) = Frame(ps, ts, i)
  <2>1. Frame(ps, ts, q) = [kind |-> Frame(ps, ts, q).kind, trees |-> SubSeq(ts, Start(ps, q) + 1, c)]
    BY <1>2 DEF Frame
  <2>2. ASSUME NEW i \in 0 .. q PROVE Frame(qs, us, i) = Frame(ps, ts, i)
    <3>1. i < q \/ (i = q /\ ~ (i < q))
      BY <1>1
    <3> QED
      BY <1>4, <2>1, <3>1
  <2> QED
    BY <2>2
<1>6. /\ F \in Seq(FrameT(T)) /\ Len(F) = n + 1
      /\ \A i \in 0 .. n : F[i + 1] = Frame(ps, ts, i)
  BY FramesType
<1>7. PICK G : G = Frames(qs, us)
  OBVIOUS
<1>8. /\ G \in Seq(FrameT(T)) /\ Len(G) = n
      /\ \A i \in 0 .. q : G[i + 1] = Frame(qs, us, i)
  <2>1. /\ G \in Seq(FrameT(T)) /\ Len(G) = Len(qs) + 1
        /\ \A i \in 0 .. Len(qs) : G[i + 1] = Frame(qs, us, i)
    BY <1>4, <1>7, FramesType
  <2> QED
    BY <1>1, <1>4, <2>1
<1>9. PICK H : H = SubSeq(F, 1, n)
  OBVIOUS
<1>10. H \in Seq(FrameT(T)) /\ Len(H) = n /\ \A i \in 1 .. n : H[i] = F[i]
  <2>1. n \in 0 .. Len(F)
    BY <1>6
  <2> QED
    BY <1>6, <1>9, <2>1, PrefixOfSeq
<1>11. \A j \in 1 .. n : G[j] = H[j]
  <2>1. ASSUME NEW j \in 1 .. n PROVE G[j] = H[j]
    <3>1. PICK i \in 0 .. q : i + 1 = j /\ i \in 0 .. n
      <4>1. j - 1 \in 0 .. q /\ (j - 1) + 1 = j /\ j - 1 \in 0 .. n
        BY <1>1
      <4> QED
        BY <4>1
    <3> QED
      BY <1>5, <1>6, <1>8, <1>10, <3>1
  <2> QED
    BY <2>1
<1>12. G = H
  BY <1>8, <1>10, <1>11, SameSeq
<1>13. F[n + 1] = [kind |-> ps[n].kind, trees |-> SubSeq(ts, c + 1, Len(ts))]
  <2>1. n \in 0 .. n
    OBVIOUS
  <2>2. F[n + 1] = Frame(ps, ts, n)
    BY <1>6, <2>1
  <2> QED
    BY <1>2, <2>2 DEF Frame
<1>14. q = n - 1
  BY <1>1
<1> QED
  BY <1>2, <1>3, <1>4, <1>7, <1>9, <1>12, <1>13, <1>14 DEF Closes

\* Truncating both vectors: the frames from p inwards become one, which is cut.
Merges(G, F, p, x, m) ==
    /\ m <= Len(x) /\ Len(x) \in Nat
    /\ G = [SubSeq(F, 1, p + 1) EXCEPT ![p + 1].trees = SubSeq(x, 1, m)]

LEMMA FramesCut ==
    ASSUME NEW T, NEW ts \in Seq(T), NEW ps, Nested(ps, Len(ts)),
           NEW p \in 0 .. Len(ps), NEW c \in Nat, Start(ps, p) <= c, c <= Len(ts),
           NEW F, F = Frames(ps, ts),
           NEW x, x = Abstract!TreesOn(SubSeq(F, p + 1, Len(F))),
           NEW m \in Nat, m = c - Start(ps, p),
           NEW G, G = Frames(SubSeq(ps, 1, p), SubSeq(ts, 1, c))
    PROVE  Merges(G, F, p, x, m)
<1>1. PICK n \in Nat, a \in Nat, z \in Nat :
        n = Len(ps) /\ a = Start(ps, p) /\ z = Len(ts) /\ p \in 0 .. n
  <2>1. Len(ps) \in Nat /\ Start(ps, p) \in Nat /\ Len(ts) \in Nat
    BY Bounds
  <2> QED
    BY <2>1
<1>2. a <= c /\ c <= z /\ a <= z /\ m = c - a /\ m <= z - a /\ a + m = c
  BY <1>1
<1>3. /\ F \in Seq(FrameT(T)) /\ Len(F) = n + 1
      /\ \A i \in 0 .. n : F[i + 1] = Frame(ps, ts, i)
  BY <1>1, FramesType
<1>4. x = SubSeq(ts, a + 1, z)
  <2>1. n \in 0 .. Len(ps) /\ p <= n /\ End(ps, ts, n) = z
    BY <1>1 DEF End
  <2>2. Abstract!TreesOn(SubSeq(Frames(ps, ts), p + 1, n + 1))
          = SubSeq(ts, Start(ps, p) + 1, End(ps, ts, n))
    BY <2>1, FramesTrees
  <2> QED
    BY <1>1, <1>3, <2>1, <2>2
<1>5. x \in Seq(T) /\ Len(x) = z - a
  <2>1. a <= z /\ z <= Len(ts)
    BY <1>1, <1>2
  <2> QED
    BY ONLY ts \in Seq(T), a \in Nat, z \in Nat, <1>4, <2>1, Part
<1>6. PICK y : y = SubSeq(x, 1, m)
  OBVIOUS
<1>7. y = SubSeq(ts, a + 1, c) /\ y \in Seq(T)
  <2>1. SubSeq(SubSeq(ts, a + 1, z), 1, m) = SubSeq(ts, a + 1, a + m)
    <3>1. z <= Len(ts) /\ a <= z /\ m <= z - a
      BY <1>1, <1>2
    <3> QED
      BY ONLY ts \in Seq(T), a \in Nat, z \in Nat, m \in Nat, <3>1, PrefixOfPart
  <2>2. m \in 0 .. Len(x)
    BY <1>2, <1>5
  <2>3. y \in Seq(T)
    BY <1>5, <1>6, <2>2, PrefixOfSeq
  <2> QED
    BY <1>2, <1>4, <1>6, <2>1, <2>3
<1>8. PICK qs, us : qs = SubSeq(ps, 1, p) /\ us = SubSeq(ts, 1, c)
  OBVIOUS
<1>9. /\ Nested(qs, Len(us)) /\ qs \in Seq(ParentT) /\ Len(qs) = p
      /\ us \in Seq(T) /\ Len(us) = c
      /\ \A i \in 0 .. p : Frame(qs, us, i) =
             IF i < p THEN Frame(ps, ts, i)
             ELSE [kind |-> Frame(ps, ts, p).kind, trees |-> SubSeq(ts, Start(ps, p) + 1, c)]
  <2>1. CutAt(qs, us, ps, ts, p, c, T)
    BY <1>8, FramesOfPrefix
  <2> QED
    BY <2>1 DEF CutAt
<1>10. G = Frames(qs, us)
  BY <1>8
<1>11. /\ G \in Seq(FrameT(T)) /\ Len(G) = p + 1
       /\ \A i \in 0 .. p : G[i + 1] = Frame(qs, us, i)
  <2>1. /\ G \in Seq(FrameT(T)) /\ Len(G) = Len(qs) + 1
        /\ \A i \in 0 .. Len(qs) : G[i + 1] = Frame(qs, us, i)
    BY <1>9, <1>10, FramesType
  <2> QED
    BY <1>9, <2>1
<1>12. PICK H : H = SubSeq(F, 1, p + 1)
  OBVIOUS
<1>13. H \in Seq(FrameT(T)) /\ Len(H) = p + 1 /\ \A i \in 1 .. p + 1 : H[i] = F[i]
  <2>1. PICK d \in 0 .. Len(F) : d = p + 1
    BY <1>1, <1>3
  <2>2. SubSeq(F, 1, d) \in Seq(FrameT(T)) /\ Len(SubSeq(F, 1, d)) = d
        /\ \A i \in 1 .. d : SubSeq(F, 1, d)[i] = F[i]
    BY <1>3, <2>1, PrefixOfSeq
  <2> QED
    BY <1>12, <2>1, <2>2
<1>14. PICK R : R = [H EXCEPT ![p + 1].trees = y]
  OBVIOUS
<1>15. /\ R \in Seq(FrameT(T)) /\ Len(R) = p + 1
       /\ \A i \in 1 .. p + 1 : R[i] = IF i = p + 1 THEN [kind |-> H[p + 1].kind, trees |-> y] ELSE H[i]
  <2>1. PICK d \in 1 .. Len(H) : d = p + 1
    BY <1>1, <1>13
  <2>2. IsSet(R, H, d, y, T)
    BY <1>7, <1>13, <1>14, <2>1, SetTrees
  <2> QED
    BY <1>13, <2>1, <2>2 DEF IsSet
<1>16. ASSUME NEW j \in 1 .. p + 1 PROVE G[j] = R[j]
  <2>1. PICK i \in 0 .. p : i + 1 = j /\ i \in 0 .. n
    <3>1. j - 1 \in 0 .. p /\ (j - 1) + 1 = j /\ j - 1 \in 0 .. n
      BY <1>1
    <3> QED
      BY <3>1
  <2>2. G[j] = Frame(qs, us, i) /\ H[j] = Frame(ps, ts, i)
    BY <1>3, <1>11, <1>13, <2>1
  <2>3. CASE i < p
    <3>1. j # p + 1
      BY <2>1, <2>3
    <3> QED
      BY <1>9, <1>15, <2>2, <2>3, <3>1
  <2>4. CASE i = p
    <3>1. j = p + 1 /\ ~ (i < p)
      BY <1>1, <2>1, <2>4
    <3> QED
      BY <1>1, <1>7, <1>9, <1>15, <2>2, <2>4, <3>1
  <2> QED
    BY <1>1, <2>1, <2>3, <2>4
<1>17. G = R
  BY <1>11, <1>15, <1>16, SameSeq
<1>18. G = [SubSeq(F, 1, p + 1) EXCEPT ![p + 1].trees = SubSeq(x, 1, m)]
  BY <1>6, <1>12, <1>14, <1>17
<1>19. m <= Len(x) /\ Len(x) \in Nat
  BY <1>2, <1>5
<1> QED
  BY ONLY <1>18, <1>19 DEF Merges

----------------------------------------------------------------------------
(* The trees of the elements *)

\* What the recursive definition of TreeOf says.
TreesSolved ==
    TreeOf = [e \in DOMAIN heap |->
        IF IsNode(e)
        THEN [kind |-> heap[e].kind,
              trees |-> [i \in DOMAIN heap[e].children |-> TreeOf[heap[e].children[i]]]]
        ELSE [kind |-> heap[e].kind, text |-> TextOf(e)]]

LEMMA TreeOfExists == TypeOK => TreesSolved
<1> SUFFICES ASSUME TypeOK PROVE TreesSolved
  OBVIOUS
<1> DEFINE N == Len(heap)
           Kids(e) == heap[e].children
           Body(g, e) == IF IsNode(e)
                         THEN [kind |-> heap[e].kind, trees |-> [i \in DOMAIN Kids(e) |-> g[Kids(e)[i]]]]
                         ELSE [kind |-> heap[e].kind, text |-> TextOf(e)]
           Solves(g, n) == g = [e \in 1 .. n |-> Body(g, e)]
           S == {n \in Nat : n <= N => \E g : Solves(g, n)}
<1>1. DOMAIN heap = 1 .. N /\ N \in Nat
  BY LenProperties DEF TypeOK
<1>2. \A e \in 1 .. N : \A i \in DOMAIN Kids(e) : Kids(e)[i] \in 1 .. e - 1
  <2>1. SUFFICES ASSUME NEW e \in 1 .. N, NEW i \in DOMAIN Kids(e)
                 PROVE  Kids(e)[i] \in 1 .. e - 1
    OBVIOUS
  <2>2. Kids(e) \in Seq(1 .. e - 1)
    BY <1>1 DEF TypeOK, ElementOK
  <2> HIDE DEF Kids
  <2> QED
    BY <2>2, LenProperties, ElementOfSeq
<1>3. ASSUME NEW g, NEW h, NEW n \in Nat, n <= N, \A e \in 1 .. n - 1 : g[e] = h[e]
      PROVE  \A e \in 1 .. n : Body(g, e) = Body(h, e)
  <2>1. SUFFICES ASSUME NEW e \in 1 .. n PROVE Body(g, e) = Body(h, e)
    OBVIOUS
  <2>2. \A i \in DOMAIN Kids(e) : g[Kids(e)[i]] = h[Kids(e)[i]]
    BY <1>1, <1>2, <1>3
  <2>3. [i \in DOMAIN Kids(e) |-> g[Kids(e)[i]]] = [i \in DOMAIN Kids(e) |-> h[Kids(e)[i]]]
    BY <2>2, Zenon
  <2> HIDE DEF Kids
  <2> QED
    BY <2>3, Zenon
<1> HIDE DEF Body
<1>4. 0 \in S
  <2>1. Solves([e \in 1 .. 0 |-> 0], 0)
    OBVIOUS
  <2> HIDE DEF Solves
  <2> QED
    BY <2>1
<1>5. ASSUME NEW n \in S PROVE n + 1 \in S
  <2>1. SUFFICES ASSUME n + 1 <= N PROVE \E g : Solves(g, n + 1)
    OBVIOUS
  <2>2. n \in Nat /\ n <= N
    BY <1>1, <2>1
  <2>3. PICK old : Solves(old, n)
    BY <2>2
  <2>4. PICK g : g = [e \in 1 .. n + 1 |-> IF e = n + 1 THEN Body(old, e) ELSE old[e]]
    OBVIOUS
  <2>5. \A e \in 1 .. n : g[e] = old[e]
    BY <2>2, <2>4
  <2>6. \A e \in 1 .. n + 1 : Body(g, e) = Body(old, e)
    BY <1>3, <2>1, <2>2, <2>5
  <2>7. \A e \in 1 .. n + 1 : g[e] = Body(old, e)
    BY <2>2, <2>3, <2>4
  <2>8. Solves(g, n + 1)
    BY <2>4, <2>6, <2>7
  <2> HIDE DEF Solves
  <2> QED
    BY <2>8
<1>6. N \in S
  <2> HIDE DEF S
  <2>1. S \in SUBSET Nat
    BY DEF S
  <2> QED
    BY <1>1, <1>4, <1>5, <2>1, Induct
<1>7. \E g : g = [e \in DOMAIN heap |-> Body(g, e)]
  BY <1>1, <1>6
<1> QED
  BY <1>7, Zenon DEF Body, TreeOf, TreesSolved

LEMMA TreeOfExistsNext == TypeOK' => TreesSolved'
BY TreeOfExists, PTL

\* The text of a token is determined by what never changes.
LEMMA TextKept ==
    ASSUME CacheInv, HeapKept, ValuesKept, NEW e \in DOMAIN heap, ~ IsNode(e), TypeOK
    PROVE  TextOf(e)' = TextOf(e)
<1>1. heap[e].tag = "token"
  BY DEF TypeOK, ElementOK, IsNode
<1>2. TokenDataOK(heap[e].kind, heap[e].key, heap[e].len)
  BY <1>1 DEF CacheInv, ElementsCached, TokenCached
<1>3. heap'[e] = heap[e]
  BY DEF HeapKept
<1>4. CASE StaticData[heap[e].kind] # NoData
  BY <1>3, <1>4 DEF TextOf
<1>5. CASE StaticData[heap[e].kind] = NoData
  <2>1. values'[heap[e].key] = values[heap[e].key]
    BY <1>2, <1>5 DEF TokenDataOK, ValuesKept
  <2> QED
    BY <1>3, <1>5, <2>1 DEF TextOf
<1> QED
  BY <1>4, <1>5

\* An element stands for the same tree as long as it lives.
LEMMA TreeOfKept ==
    ASSUME TypeOK, TypeOK', CacheInv, HeapKept, ValuesKept
    PROVE  \A e \in DOMAIN heap : TreeOf'[e] = TreeOf[e]
<1>1. TreesSolved /\ TreesSolved'
  BY TreeOfExists, TreeOfExistsNext
<1>2. DOMAIN heap \subseteq Nat \ {0} /\ \A e \in DOMAIN heap : e \in DOMAIN heap' /\ heap'[e] = heap[e]
  BY LenProperties DEF TypeOK, HeapKept
<1> DEFINE S == {n \in Nat : \A e \in DOMAIN heap : e <= n => TreeOf'[e] = TreeOf[e]}
<1>3. 0 \in S
  BY <1>2
<1>4. ASSUME NEW n \in S PROVE n + 1 \in S
  <2>1. SUFFICES ASSUME NEW e \in DOMAIN heap, e = n + 1 PROVE TreeOf'[e] = TreeOf[e]
    BY <1>2
  <2>2. heap'[e] = heap[e] /\ e \in DOMAIN heap' /\ (IsNode(e)' <=> IsNode(e))
    BY <1>2 DEF IsNode
  <2>3. CASE ~ IsNode(e)
    <3>1. TextOf(e)' = TextOf(e)
      BY <2>3, TextKept
    <3>2. TreeOf[e] = [kind |-> heap[e].kind, text |-> TextOf(e)]
      BY <1>1, <2>3 DEF TreesSolved
    <3>3. TreeOf'[e] = [kind |-> heap'[e].kind, text |-> TextOf(e)']
      BY <1>1, <2>2, <2>3 DEF TreesSolved
    <3> QED
      BY <2>2, <3>1, <3>2, <3>3
  <2>4. CASE IsNode(e)
    <3>1. PICK kids \in Seq(1 .. e - 1) : kids = heap[e].children
      BY DEF TypeOK, ElementOK
    <3>2. \A i \in DOMAIN kids : TreeOf'[kids[i]] = TreeOf[kids[i]]
      <4>1. ASSUME NEW i \in DOMAIN kids PROVE TreeOf'[kids[i]] = TreeOf[kids[i]]
        <5>1. kids[i] \in 1 .. e - 1
          BY LenProperties, ElementOfSeq
        <5>2. kids[i] \in DOMAIN heap /\ kids[i] <= n
          BY <2>1, <5>1, LenProperties DEF TypeOK
        <5> QED
          BY <5>2
      <4> QED
        BY <4>1
    <3>3. TreeOf[e] = [kind |-> heap[e].kind, trees |-> [i \in DOMAIN kids |-> TreeOf[kids[i]]]]
      BY <1>1, <2>4, <3>1 DEF TreesSolved
    <3>4. TreeOf'[e] = [kind |-> heap[e].kind, trees |-> [i \in DOMAIN kids |-> TreeOf'[kids[i]]]]
      BY <1>1, <2>2, <2>4, <3>1 DEF TreesSolved
    <3>5. [i \in DOMAIN kids |-> TreeOf'[kids[i]]] = [i \in DOMAIN kids |-> TreeOf[kids[i]]]
      BY <3>2, Zenon
    <3> QED
      BY <3>3, <3>4, <3>5, Zenon
  <2> QED
    BY <2>3, <2>4
<1>5. S = Nat
  <2> HIDE DEF S
  <2>1. S \in SUBSET Nat
    BY DEF S
  <2> QED
    BY <1>3, <1>4, <2>1, Induct
<1>6. \A e \in DOMAIN heap : e \in S /\ e <= e
  BY <1>2, <1>5
<1> QED
  BY <1>6

----------------------------------------------------------------------------
(* Reading a sequence of elements as trees, under any reading f *)

Read(f, cs) == [i \in DOMAIN cs |-> f[cs[i]]]

Reading(f, D, T) == \A e \in D : f[e] \in T
IsRead(ts, f, cs, D, T) ==
    /\ ts \in Seq(T) /\ Len(ts) = Len(cs) /\ Len(cs) \in Nat
    /\ \A i \in 1 .. Len(cs) : ts[i] = f[cs[i]] /\ cs[i] \in D

LEMMA ReadType ==
    ASSUME NEW D, NEW T, NEW f, Reading(f, D, T), NEW cs \in Seq(D)
    PROVE  IsRead(Read(f, cs), f, cs, D, T)
<1>1. PICK n \in Nat : n = Len(cs) /\ DOMAIN cs = 1 .. n
  BY LenProperties
<1>2. \A i \in 1 .. n : cs[i] \in D
  BY <1>1, ElementOfSeq
<1>3. Read(f, cs) = [i \in 1 .. n |-> f[cs[i]]]
  BY <1>1 DEF Read
<1>4. [i \in 1 .. n |-> f[cs[i]]] \in [1 .. n -> T]
  BY <1>2 DEF Reading
<1> QED
  BY <1>1, <1>2, <1>3, <1>4 DEF IsRead

LEMMA ReadSame ==
    ASSUME NEW D, NEW f, NEW g, \A e \in D : f[e] = g[e], NEW cs \in Seq(D)
    PROVE  Read(f, cs) = Read(g, cs)
<1>1. \A i \in DOMAIN cs : cs[i] \in D
  BY LenProperties, ElementOfSeq
<1>2. \A i \in DOMAIN cs : f[cs[i]] = g[cs[i]]
  BY <1>1
<1> QED
  BY <1>2, Zenon DEF Read

LEMMA ReadAppend ==
    ASSUME NEW D, NEW T, NEW f, Reading(f, D, T), NEW cs \in Seq(D), NEW x \in D
    PROVE  Read(f, Append(cs, x)) = Append(Read(f, cs), f[x])
<1>1. PICK us, vs : us = Append(cs, x) /\ vs = Append(Read(f, cs), f[x])
  OBVIOUS
<1>2. PICK n \in Nat : n = Len(cs)
  OBVIOUS
<1>3. us \in Seq(D) /\ Len(us) = n + 1 /\ (\A i \in 1 .. n : us[i] = cs[i]) /\ us[n + 1] = x
  BY <1>1, <1>2, AppendProperties
<1>4. /\ Read(f, cs) \in Seq(T) /\ Len(Read(f, cs)) = n
      /\ \A i \in 1 .. n : Read(f, cs)[i] = f[cs[i]]
  BY <1>2, ReadType DEF IsRead
<1>5. f[x] \in T
  BY DEF Reading
<1>6. /\ vs \in Seq(T) /\ Len(vs) = n + 1
      /\ (\A i \in 1 .. n : vs[i] = Read(f, cs)[i]) /\ vs[n + 1] = f[x]
  BY <1>1, <1>4, <1>5, AppendProperties
<1>7. /\ Read(f, us) \in Seq(T) /\ Len(Read(f, us)) = n + 1
      /\ \A i \in 1 .. n + 1 : Read(f, us)[i] = f[us[i]]
  BY <1>3, ReadType DEF IsRead
<1>8. PICK rs : rs = Read(f, us)
  OBVIOUS
<1>9. \A i \in 1 .. n + 1 : rs[i] = vs[i]
  <2>1. \A i \in 1 .. n + 1 : i \in 1 .. n \/ i = n + 1
    OBVIOUS
  <2>2. ASSUME NEW i \in 1 .. n PROVE rs[i] = vs[i]
    <3>1. rs[i] = f[us[i]] /\ us[i] = cs[i]
      BY <1>3, <1>7, <1>8
    <3>2. vs[i] = f[cs[i]]
      BY <1>4, <1>6
    <3> QED
      BY ONLY <3>1, <3>2
  <2>3. rs[n + 1] = vs[n + 1]
    BY <1>3, <1>6, <1>7, <1>8
  <2> QED
    BY ONLY <2>1, <2>2, <2>3
<1>10. rs = vs
  <2>1. rs \in Seq(T) /\ vs \in Seq(T) /\ Len(rs) = n + 1 /\ Len(vs) = n + 1
    BY <1>6, <1>7, <1>8
  <2> QED
    BY ONLY <1>9, <2>1, SameSeq
<1> QED
  BY ONLY <1>1, <1>8, <1>10

LEMMA ReadPart ==
    ASSUME NEW D, NEW T, NEW f, Reading(f, D, T), NEW cs \in Seq(D),
           NEW a \in Nat, NEW b \in Nat, a <= b, b <= Len(cs)
    PROVE  Read(f, SubSeq(cs, a + 1, b)) = SubSeq(Read(f, cs), a + 1, b)
<1>1. PICK us, ts, vs : us = SubSeq(cs, a + 1, b) /\ ts = Read(f, cs) /\ vs = SubSeq(ts, a + 1, b)
  OBVIOUS
<1>2. us \in Seq(D) /\ Len(us) = b - a /\ \A i \in 1 .. b - a : us[i] = cs[a + i]
  BY <1>1, Part
<1>3. /\ ts \in Seq(T) /\ Len(ts) = Len(cs) /\ Len(cs) \in Nat
      /\ \A i \in 1 .. Len(cs) : ts[i] = f[cs[i]]
  BY <1>1, ReadType DEF IsRead
<1>4. vs \in Seq(T) /\ Len(vs) = b - a /\ \A i \in 1 .. b - a : vs[i] = ts[a + i]
  <2>1. b <= Len(ts)
    BY <1>3
  <2> QED
    BY ONLY a \in Nat, b \in Nat, a <= b, <1>1, <1>3, <2>1, Part
<1>5. /\ Read(f, us) \in Seq(T) /\ Len(Read(f, us)) = b - a
      /\ \A i \in 1 .. b - a : Read(f, us)[i] = f[us[i]]
  BY <1>2, ReadType DEF IsRead
<1>6. \A i \in 1 .. b - a : a + i \in 1 .. Len(cs)
  BY <1>3
<1>7. PICK rs, n : rs = Read(f, us) /\ n = b - a
  OBVIOUS
<1>8. \A i \in 1 .. n : rs[i] = vs[i]
  <2>1. ASSUME NEW i \in 1 .. b - a PROVE rs[i] = vs[i]
    <3>1. rs[i] = f[cs[a + i]]
      BY ONLY i \in 1 .. b - a, <1>2, <1>5, <1>7
    <3>2. vs[i] = f[cs[a + i]]
      BY ONLY i \in 1 .. b - a, <1>3, <1>4, <1>6
    <3> QED
      BY ONLY <3>1, <3>2
  <2> QED
    BY <1>7, <2>1
<1>9. rs = vs
  <2>1. rs \in Seq(T) /\ vs \in Seq(T) /\ Len(rs) = n /\ Len(vs) = n
    BY <1>4, <1>5, <1>7
  <2> QED
    BY ONLY <1>8, <2>1, SameSeq
<1> QED
  BY ONLY <1>1, <1>7, <1>9

LEMMA ReadPrefix ==
    ASSUME NEW D, NEW T, NEW f, Reading(f, D, T), NEW cs \in Seq(D),
           NEW c \in Nat, c <= Len(cs)
    PROVE  Read(f, SubSeq(cs, 1, c)) = SubSeq(Read(f, cs), 1, c)
<1>1. PICK a \in Nat : a = 0
  OBVIOUS
<1>2. a <= c /\ a + 1 = 1
  BY <1>1
<1>3. Read(f, SubSeq(cs, a + 1, c)) = SubSeq(Read(f, cs), a + 1, c)
  BY <1>2, ReadPart
<1> QED
  BY <1>2, <1>3

LEMMA TreesRead == ASSUME NEW cs PROVE Trees(cs) = Read(TreeOf, cs)
BY DEF Trees, Read

LEMMA TreesReadNext == ASSUME NEW cs PROVE Trees(cs)' = Read(TreeOf', cs)
BY DEF Trees, Read

----------------------------------------------------------------------------
(* The abstract state *)

LEMMA NothingIsEmpty == Nothing = Abstract!Empty
<1>1. PICK e : e = <<>>
  OBVIOUS
<1>2. Len(e) = 0 /\ SubSeq(e, 0 + 1, 0) = <<>>
  BY <1>1
<1>3. Frame(e, e, 0) = [kind |-> "outside", trees |-> <<>>]
  BY <1>2 DEF Frame, Start, End
<1>4. Frames(e, e) = [j \in 1 .. 1 |-> Frame(e, e, j - 1)]
  BY <1>2 DEF Frames
<1>5. [j \in 1 .. 1 |-> Frame(e, e, j - 1)] = << Frame(e, e, 0) >>
  <2>1. \A j \in 1 .. 1 : j - 1 = 0
    OBVIOUS
  <2>2. PICK x : x = Frame(e, e, 0)
    OBVIOUS
  <2>3. [j \in 1 .. 1 |-> Frame(e, e, j - 1)] = [j \in 1 .. 1 |-> x]
    BY <2>1, <2>2
  <2>4. [j \in 1 .. 1 |-> x] = << x >>
    OBVIOUS
  <2> QED
    BY <2>2, <2>3, <2>4
<1> QED
  BY <1>1, <1>3, <1>4, <1>5 DEF Nothing, Abstract!Empty, Abstract!Outside

LEMMA NestedNow ==
    ASSUME HInv, Building
    PROVE  /\ parents \in Seq(ParentT) /\ children \in Seq(DOMAIN heap)
           /\ Nested(parents, Len(children))
<1>1. parents \in Seq(ParentT) /\ children \in Seq(DOMAIN heap)
  BY DEF HInv, Inv, TypeOK, ParentT
<1>2. DOMAIN parents = 1 .. Len(parents)
  BY <1>1, LenProperties
<1> QED
  BY <1>1, <1>2 DEF HInv, Inv, ParentsNested, Nested

\* The two sides of a step of a builder at work, as constants: the trees f and
\* g of the elements before and after it, the unfinished nodes ps and the trees
\* ts on the stack before it.
Stage(T, f, g, D, E, ps, cs, ts) ==
    /\ f = TreeOf /\ g = TreeOf' /\ D = DOMAIN heap /\ E = DOMAIN heap'
    /\ D \subseteq E /\ (\A e \in D : f[e] = g[e])
    /\ Reading(f, D, T) /\ Reading(g, E, T)
    /\ ps = parents /\ cs = children /\ cs \in Seq(D) /\ cs \in Seq(E)
    /\ ts = Read(f, cs) /\ ts = Read(g, cs)
    /\ ts \in Seq(T) /\ Len(ts) = Len(cs) /\ Len(cs) \in Nat
    /\ Nested(ps, Len(ts))
    /\ AbstractStack = Frames(ps, ts)

LEMMA StageExists ==
    ASSUME HInv, TypeOK', CacheInv, HeapKept, ValuesKept, Building
    PROVE  \E T, f, g, D, E, ps, cs, ts : Stage(T, f, g, D, E, ps, cs, ts)
<1>1. PICK f, g, D, E, ps, cs, ts :
        /\ f = TreeOf /\ g = TreeOf' /\ D = DOMAIN heap /\ E = DOMAIN heap'
        /\ ps = parents /\ cs = children /\ ts = Read(f, cs)
  OBVIOUS
<1>2. PICK T : T = {f[e] : e \in D} \cup {g[e] : e \in E}
  OBVIOUS
<1>3. Reading(f, D, T) /\ Reading(g, E, T)
  BY <1>2 DEF Reading
<1>4. D \subseteq E /\ \A e \in D : f[e] = g[e]
  <2>1. \A e \in DOMAIN heap : TreeOf'[e] = TreeOf[e]
    BY TreeOfKept DEF HInv, Inv
  <2> QED
    BY <1>1, <2>1 DEF HeapKept
<1>5. cs \in Seq(D) /\ Nested(ps, Len(cs))
  BY <1>1, NestedNow
<1>6. cs \in Seq(E)
  BY <1>4, <1>5, SeqMonotonic
<1>7. Read(f, cs) = Read(g, cs)
  BY <1>4, <1>5, ReadSame
<1>8. IsRead(ts, f, cs, D, T)
  BY <1>1, <1>3, <1>5, ReadType
<1>9. Trees(children) = ts
  BY <1>1 DEF Trees, Read
<1>10. AbstractStack = Frames(ps, ts)
  BY <1>1, <1>9 DEF AbstractStack
<1>11. Stage(T, f, g, D, E, ps, cs, ts)
  BY <1>1, <1>3, <1>4, <1>5, <1>6, <1>7, <1>8, <1>10 DEF Stage, IsRead
<1> QED
  BY <1>11

\* The stack after a step that leaves the builder at work.
LEMMA StackNext ==
    ASSUME Building', NEW T, NEW f, NEW g, NEW D, NEW E, NEW ps, NEW cs, NEW ts,
           Stage(T, f, g, D, E, ps, cs, ts), NEW qs, qs = parents', NEW us, us = children'
    PROVE  AbstractStack' = Frames(qs, Read(g, us))
<1>1. g = TreeOf'
  BY DEF Stage
<1>2. Trees(children)' = Read(g, us)
  BY <1>1 DEF Trees, Read
<1> QED
  BY <1>2 DEF AbstractStack

\* What a valid checkpoint is, as a copy of the stack.
SavedIs(i, p, c, ps, ts) ==
    /\ p = checkpoints[i].parent_idx /\ c = checkpoints[i].child_idx
    /\ p \in 0 .. Len(ps) /\ c \in Nat /\ c <= Len(ts) /\ Start(ps, p) <= c
    /\ taken[i].parents = SubSeq(ps, 1, p) /\ taken[i].children \in Seq(DOMAIN heap)
    /\ Read(TreeOf, taken[i].children) = SubSeq(ts, 1, c)
    /\ AbstractSaved[i] = [stack |-> Frames(SubSeq(ps, 1, p), SubSeq(ts, 1, c)), valid |-> TRUE]

LEMMA SavedExists ==
    ASSUME HInv, Building, NEW T, NEW f, NEW g, NEW D, NEW E, NEW ps, NEW cs, NEW ts,
           Stage(T, f, g, D, E, ps, cs, ts), NEW i \in DOMAIN taken, taken[i].valid
    PROVE  \E p, c : SavedIs(i, p, c, ps, ts)
<1>1. PICK p, c : p = checkpoints[i].parent_idx /\ c = checkpoints[i].child_idx
  OBVIOUS
<1>2. /\ p \in Nat /\ c \in Nat /\ p <= Len(ps) /\ c <= Len(cs) /\ Len(ps) \in Nat
      /\ taken[i].parents = SubSeq(ps, 1, p) /\ taken[i].children = SubSeq(cs, 1, c)
  <2>1. Restores(i)
    BY DEF HInv, ValidCheckpointsRestore
  <2> QED
    BY <1>1, <2>1, ValidInside DEF Restores, Stage
<1>3. /\ f = TreeOf /\ D = DOMAIN heap /\ Reading(f, D, T) /\ ps = parents /\ cs \in Seq(D)
      /\ ts = Read(f, cs) /\ Len(ts) = Len(cs) /\ Nested(ps, Len(ts))
  BY DEF Stage
<1>4. Read(f, SubSeq(cs, 1, c)) = SubSeq(ts, 1, c)
  BY <1>2, <1>3, ReadPrefix
<1>5. SubSeq(cs, 1, c) \in Seq(D)
  <2>1. c \in 0 .. Len(cs)
    BY <1>2, <1>3
  <2> QED
    BY <1>3, <2>1, PrefixOfSeq
<1>6. Start(ps, p) <= c
  <2>1. CASE p = 0
    BY <1>2, <2>1 DEF Start
  <2>2. CASE p # 0
    <3>1. p \in 1 .. p /\ p \in 0 .. Len(ps) /\ ps \in Seq(ParentT)
      BY <1>2, <1>3, <2>2 DEF Nested
    <3>2. taken[i].parents[p].first_child <= c
      BY <1>1, <3>1 DEF HInv, SnapshotsNested
    <3>3. SubSeq(ps, 1, p)[p] = ps[p]
      BY <3>1, PrefixOfSeq
    <3> QED
      BY <1>2, <2>2, <3>2, <3>3 DEF Start
  <2> QED
    BY <2>1, <2>2
<1>7. Trees(taken[i].children) = SubSeq(ts, 1, c)
  BY <1>2, <1>3, <1>4 DEF Trees, Read
<1>8. AbstractSaved[i] = [stack |-> Frames(SubSeq(ps, 1, p), SubSeq(ts, 1, c)), valid |-> TRUE]
  BY <1>2, <1>7 DEF AbstractSaved
<1>9. p \in 0 .. Len(ps)
  BY <1>2
<1>10. Read(TreeOf, taken[i].children) = SubSeq(ts, 1, c)
  BY <1>2, <1>3, <1>4
<1>11. SavedIs(i, p, c, ps, ts)
  BY <1>1, <1>2, <1>3, <1>5, <1>6, <1>8, <1>9, <1>10 DEF SavedIs
<1> QED
  BY <1>11

\* The checkpoints in I, and no valid ones outside it, become invalid.
LEMMA SavedKept ==
    ASSUME HInv, Building, Building', DOMAIN taken' = DOMAIN taken,
           NEW T, NEW f, NEW g, NEW D, NEW E, NEW ps, NEW cs, NEW ts,
           Stage(T, f, g, D, E, ps, cs, ts),
           NEW I,
           \A i \in DOMAIN taken : /\ i \in I => ~ taken'[i].valid
                                   /\ i \notin I => taken'[i].valid = taken[i].valid
                                   /\ taken'[i].valid => /\ taken[i].valid
                                                         /\ taken'[i].parents = taken[i].parents
                                                         /\ taken'[i].children = taken[i].children
    PROVE  Abstract!Invalidate(I)
<1>1. DOMAIN AbstractSaved = DOMAIN taken
  BY DEF AbstractSaved
<1>2. Abstract!Invalid = [stack |-> Nothing, valid |-> FALSE]
  BY NothingIsEmpty DEF Abstract!Invalid
<1>3. ASSUME NEW i \in DOMAIN taken
      PROVE  AbstractSaved'[i] = IF i \in I THEN Abstract!Invalid ELSE AbstractSaved[i]
  <2>1. CASE ~ taken'[i].valid
    <3>1. AbstractSaved'[i] = [stack |-> Nothing, valid |-> FALSE]
      BY <2>1 DEF AbstractSaved
    <3>2. i \notin I => ~ taken[i].valid
      BY <2>1
    <3>3. i \notin I => AbstractSaved[i] = [stack |-> Nothing, valid |-> FALSE]
      BY <3>2 DEF AbstractSaved
    <3> QED
      BY <1>2, <3>1, <3>3
  <2>2. CASE taken'[i].valid
    <3>1. /\ i \notin I /\ taken[i].valid
          /\ taken'[i].parents = taken[i].parents /\ taken'[i].children = taken[i].children
      BY <2>2
    <3>2. PICK p, c : SavedIs(i, p, c, ps, ts)
      BY <3>1, SavedExists
    <3>3. PICK qs, us : qs = taken[i].parents /\ us = taken[i].children
      OBVIOUS
    <3>4. us \in Seq(D) /\ f = TreeOf /\ g = TreeOf' /\ \A e \in D : f[e] = g[e]
      BY <3>2, <3>3 DEF SavedIs, Stage
    <3>5. Read(f, us) = Read(g, us)
      BY <3>4, ReadSame
    <3>6. AbstractSaved[i] = [stack |-> Frames(qs, Read(f, us)), valid |-> TRUE]
      <4>1. Trees(taken[i].children) = Read(f, us)
        BY <3>3, <3>4 DEF Trees, Read
      <4> QED
        BY <3>1, <3>3, <4>1 DEF AbstractSaved
    <3>7. AbstractSaved'[i] = [stack |-> Frames(qs, Read(g, us)), valid |-> TRUE]
      <4>1. Trees(taken[i].children)' = Read(g, us)
        BY <3>1, <3>3, <3>4 DEF Trees, Read
      <4>2. taken'[i].parents = qs /\ i \in DOMAIN taken'
        BY <3>1, <3>3
      <4> QED
        BY <2>2, <4>1, <4>2 DEF AbstractSaved
    <3> QED
      BY <3>1, <3>5, <3>6, <3>7
  <2> QED
    BY <2>1, <2>2
<1>4. AbstractSaved' = [i \in DOMAIN taken |-> AbstractSaved'[i]]
  BY DEF AbstractSaved
<1>5. AbstractSaved' = [i \in DOMAIN AbstractSaved |->
                            IF i \in I THEN Abstract!Invalid ELSE AbstractSaved[i]]
  BY <1>1, <1>3, <1>4
<1> QED
  BY <1>5 DEF Abstract!Invalidate

LEMMA SavedSame ==
    ASSUME HInv, Building, Building', taken' = taken,
           NEW T, NEW f, NEW g, NEW D, NEW E, NEW ps, NEW cs, NEW ts,
           Stage(T, f, g, D, E, ps, cs, ts)
    PROVE  AbstractSaved' = AbstractSaved
<1>1. PICK I : I = {}
  OBVIOUS
<1>2. Abstract!Invalidate(I)
  BY <1>1, SavedKept
<1>3. AbstractSaved' = [i \in DOMAIN AbstractSaved |-> AbstractSaved[i]]
  BY <1>1, <1>2 DEF Abstract!Invalidate
<1>4. AbstractSaved = [i \in DOMAIN AbstractSaved |-> AbstractSaved[i]]
  BY DEF AbstractSaved
<1> QED
  BY <1>3, <1>4

\* No checkpoint is valid any more.
LEMMA SavedGone ==
    ASSUME DOMAIN taken' = DOMAIN taken, \A i \in DOMAIN taken : ~ (Building' /\ taken'[i].valid)
    PROVE  Abstract!InvalidateAll
<1>1. DOMAIN AbstractSaved = DOMAIN taken
  BY DEF AbstractSaved
<1>2. Abstract!Invalid = [stack |-> Nothing, valid |-> FALSE]
  BY NothingIsEmpty DEF Abstract!Invalid
<1>3. AbstractSaved' = [i \in DOMAIN taken |-> [stack |-> Nothing, valid |-> FALSE]]
  <2>1. AbstractSaved' = [i \in DOMAIN taken |-> AbstractSaved'[i]]
    BY DEF AbstractSaved
  <2>2. \A i \in DOMAIN taken : AbstractSaved'[i] = [stack |-> Nothing, valid |-> FALSE]
    BY DEF AbstractSaved
  <2> QED
    BY <2>1, <2>2
<1>4. AbstractSaved' = [i \in DOMAIN AbstractSaved |->
                            IF i \in DOMAIN AbstractSaved THEN Abstract!Invalid ELSE AbstractSaved[i]]
  BY <1>1, <1>2, <1>3
<1> QED
  BY <1>4 DEF Abstract!InvalidateAll, Abstract!Invalidate

\* The finished tree does not change.
LEMMA ResultKept ==
    ASSUME TypeOK, TypeOK', CacheInv, HeapKept, ValuesKept, tree' = tree
    PROVE  AbstractResult' = AbstractResult
<1>1. \A e \in DOMAIN heap : TreeOf'[e] = TreeOf[e]
  BY TreeOfKept
<1>2. tree = NoElement \/ tree \in DOMAIN heap
  BY DEF TypeOK
<1> QED
  BY <1>1, <1>2 DEF AbstractResult

\* A panic.
LEMMA PanicRefines ==
    ASSUME HInv, TypeOK', CacheInv, HeapKept, ValuesKept, Building, status' = "panicked",
           DOMAIN taken' = DOMAIN taken, tree' = tree
    PROVE  Abstract!Panic
<1>1. ~ Building'
  BY DEF Building
<1>2. Abstract!InvalidateAll
  BY <1>1, SavedGone
<1>3. AbstractResult' = AbstractResult
  BY ResultKept DEF HInv, Inv
<1>4. AbstractStack' = Abstract!Empty
  BY <1>1, NothingIsEmpty DEF AbstractStack
<1> QED
  BY <1>2, <1>3, <1>4 DEF Abstract!Panic, Building

----------------------------------------------------------------------------
(* The steps of the builder are steps of the abstract builder. *)

\* What the steps below have in common: the client calls a builder at work,
\* whose cache and interner only grow.
AtWork ==
    /\ HInv /\ TypeOK' /\ CacheInv /\ Building
    /\ HeapKept /\ ValuesKept /\ UNCHANGED tree

LEMMA StageNow == AtWork => \E T, f, g, D, E, ps, cs, ts : Stage(T, f, g, D, E, ps, cs, ts)
BY StageExists DEF AtWork

\* Steps of the interner alone are invisible.
LEMMA InvisibleRefines ==
    ASSUME AtWork, UNCHANGED <<parents, children, status, taken>>
    PROVE  UNCHANGED <<AbstractStack, AbstractSaved, status, AbstractResult>>
<1>1. PICK T, f, g, D, E, ps, cs, ts : Stage(T, f, g, D, E, ps, cs, ts)
  BY StageNow
<1>2. Building /\ Building'
  BY DEF AtWork, Building
<1>3. AbstractStack' = Frames(ps, Read(g, cs))
  <2>1. ps = parents' /\ cs = children'
    BY <1>1 DEF Stage
  <2> QED
    BY <1>1, <1>2, <2>1, StackNext
<1>4. AbstractStack' = AbstractStack
  BY <1>1, <1>3 DEF Stage
<1>5. AbstractSaved' = AbstractSaved
  BY <1>1, <1>2, SavedSame DEF AtWork
<1>6. AbstractResult' = AbstractResult
  BY ResultKept DEF AtWork, HInv, Inv
<1> QED
  BY <1>4, <1>5, <1>6

\* Recording a token.
LEMMA RecordRefines ==
    ASSUME AtWork, UNCHANGED <<parents, status, taken>>,
           NEW k \in TokenKinds, NEW d \in Data, NEW x \in DOMAIN heap',
           children' = Append(children, x),
           TreeOf'[x] = [kind |-> k, text |-> IF StaticData[k] = NoData THEN d ELSE StaticData[k]]
    PROVE  Abstract!Record(k, d)
<1>1. PICK T, f, g, D, E, ps, cs, ts : Stage(T, f, g, D, E, ps, cs, ts)
  BY StageNow
<1>2. Building /\ Building'
  BY DEF AtWork, Building
<1>3. PICK t \in T : t = g[x]
  BY <1>1 DEF Stage, Reading
<1>4. AbstractStack' = Frames(ps, Append(ts, t))
  <2>1. ps = parents' /\ Append(cs, x) = children'
    BY <1>1 DEF Stage
  <2>2. AbstractStack' = Frames(ps, Read(g, Append(cs, x)))
    BY <1>1, <1>2, <2>1, StackNext
  <2>3. Reading(g, E, T) /\ cs \in Seq(E) /\ x \in E /\ ts = Read(g, cs)
    BY <1>1 DEF Stage
  <2>4. Read(g, Append(cs, x)) = Append(ts, t)
    BY <1>3, <2>3, ReadAppend
  <2> QED
    BY <2>2, <2>4
<1>5. AbstractStack' = Abstract!Recorded(AbstractStack, t)
  <2>1. ts \in Seq(T) /\ Nested(ps, Len(ts)) /\ AbstractStack = Frames(ps, ts)
    BY <1>1 DEF Stage
  <2>2. Frames(ps, Append(ts, t)) = Abstract!Recorded(Frames(ps, ts), t)
    BY <2>1, FramesRecord
  <2> QED
    BY <1>4, <2>1, <2>2
<1>6. AbstractSaved' = AbstractSaved
  BY <1>1, <1>2, SavedSame DEF AtWork
<1>7. AbstractResult' = AbstractResult
  BY ResultKept DEF AtWork, HInv, Inv
<1>8. t = [kind |-> k, text |-> IF StaticData[k] = NoData THEN d ELSE StaticData[k]]
  BY <1>1, <1>3 DEF Stage
<1> QED
  BY <1>2, <1>5, <1>6, <1>7, <1>8 DEF Abstract!Record, Building

\* What NodeCache::token pushes.
LEMMA PushedToken ==
    ASSUME TypeOK, NEW kind, NEW key, NEW len, PushToken(kind, key, len)
    PROVE  /\ HeapKept
           /\ \E x \in DOMAIN heap' :
                  /\ children' = Append(children, x)
                  /\ heap'[x].tag = "token" /\ heap'[x].kind = kind /\ heap'[x].key = key
<1>1. CASE /\ \E t \in CachedTokens(kind, key, len) : children' = Append(children, t)
           /\ UNCHANGED <<heap, tokens>>
  BY <1>1 DEF CachedTokens, TypeOK, HeapKept
<1>2. CASE /\ heap' = Append(heap, GreenToken(kind, key, len))
           /\ children' = Append(children, Len(heap) + 1)
  <2>1. /\ Len(heap) \in Nat /\ DOMAIN heap = 1 .. Len(heap)
        /\ DOMAIN heap' = 1 .. Len(heap) + 1
        /\ \A i \in 1 .. Len(heap) : heap'[i] = heap[i]
        /\ heap'[Len(heap) + 1] = GreenToken(kind, key, len)
    BY <1>2, AppendToRange DEF TypeOK
  <2>2. HeapKept
    BY <2>1 DEF HeapKept
  <2>3. PICK new : new = Len(heap) + 1
    OBVIOUS
  <2>4. new \in DOMAIN heap' /\ children' = Append(children, new)
    BY <1>2, <2>1, <2>3
  <2>5. heap'[new].tag = "token" /\ heap'[new].kind = kind /\ heap'[new].key = key
    BY <2>1, <2>3 DEF GreenToken
  <2> QED
    BY <2>2, <2>4, <2>5
<1> QED
  BY <1>1, <1>2 DEF PushToken

\* ... and the tree it stands for.
LEMMA TokenTree ==
    ASSUME TypeOK', NEW x \in DOMAIN heap', heap'[x].tag = "token", NEW k, heap'[x].kind = k,
           NEW d, StaticData[k] # NoData \/ values'[heap'[x].key] = d
    PROVE  TreeOf'[x] = [kind |-> k, text |-> IF StaticData[k] = NoData THEN d ELSE StaticData[k]]
<1>1. TreesSolved'
  BY TreeOfExistsNext
<1>2. ~ IsNode(x)'
  BY DEF IsNode
<1>3. TreeOf'[x] = [kind |-> heap'[x].kind, text |-> TextOf(x)']
  BY <1>1, <1>2 DEF TreesSolved
<1>4. TextOf(x)' = IF StaticData[k] = NoData THEN d ELSE StaticData[k]
  BY DEF TextOf
<1> QED
  BY <1>3, <1>4

LEMMA StaticRefines ==
    ASSUME HInv, TypeOK', CacheInv, ValuesKept, Building, UNCHANGED <<parents, status, taken, tree>>,
           NEW k \in TokenKinds, StaticData[k] # NoData, NEW len, PushToken(k, NoKey, len)
    PROVE  Abstract!Record(k, StaticData[k])
<1>1. PICK d \in Data : d = StaticData[k]
  BY GreenBuilderAssumption
<1>2. TypeOK
  BY DEF HInv, Inv
<1>3. PICK x \in DOMAIN heap' :
        /\ children' = Append(children, x)
        /\ heap'[x].tag = "token" /\ heap'[x].kind = k /\ heap'[x].key = NoKey
  BY <1>2, PushedToken
<1>4. AtWork
  BY <1>2, PushedToken DEF AtWork
<1>5. TreeOf'[x] = [kind |-> k, text |-> IF StaticData[k] = NoData THEN d ELSE StaticData[k]]
  BY <1>3, TokenTree
<1>6. Abstract!Record(k, d)
  BY <1>3, <1>4, <1>5, RecordRefines
<1> QED
  BY <1>1, <1>6

\* token and token_from_bytes.
LEMMA RecordTokenRefines ==
    ASSUME HInv, TypeOK', CacheInv, ValuesKept, Building, UNCHANGED taken,
           NEW k \in TokenKinds, NEW d \in Data, RecordToken(k, d)
    PROVE  Abstract!Panic \/ \E e \in Data : Abstract!Record(k, e)
<1>1. TypeOK /\ KeysDistinct
  BY DEF HInv, Inv, CacheInv
<1>2. CASE Panic
  <2>1. HeapKept /\ UNCHANGED tree /\ status' = "panicked"
    BY <1>2 DEF Panic, cacheVars, HeapKept
  <2> QED
    BY <2>1, PanicRefines
<1>3. CASE /\ StaticData[k] # NoData
           /\ PushToken(k, NoKey, ByteLen[StaticData[k]] % U32)
           /\ UNCHANGED <<parents, status, tree>>
  <2>1. Abstract!Record(k, StaticData[k])
    BY <1>3, StaticRefines
  <2>2. StaticData[k] \in Data
    BY <1>3, GreenBuilderAssumption
  <2> QED
    BY <2>1, <2>2
<1>4. CASE /\ StaticData[k] = NoData
           /\ values' = InternedValues(d)
           /\ PushToken(k, InternedKey(d), ByteLen[d] % U32)
           /\ UNCHANGED <<parents, status, tree>>
  <2>1. PICK key : key = InternedKey(d)
    OBVIOUS
  <2>2. values'[key] = d
    BY <1>1, <1>4, <2>1, InternKeepsValues
  <2>3. PICK x \in DOMAIN heap' :
          /\ children' = Append(children, x)
          /\ heap'[x].tag = "token" /\ heap'[x].kind = k /\ heap'[x].key = key
    BY <1>1, <1>4, <2>1, PushedToken
  <2>4. HeapKept
    BY <1>1, <1>4, <2>1, PushedToken
  <2>5. AtWork
    BY <1>4, <2>4 DEF AtWork
  <2>6. TreeOf'[x] = [kind |-> k, text |-> IF StaticData[k] = NoData THEN d ELSE StaticData[k]]
    BY <2>2, <2>3, TokenTree
  <2>7. Abstract!Record(k, d)
    BY <1>4, <2>3, <2>5, <2>6, RecordRefines
  <2> QED
    BY <2>7
<1> QED
  BY <1>2, <1>3, <1>4 DEF RecordToken

LEMMA StaticTokenRefines ==
    ASSUME HInv, TypeOK', CacheInv, ValuesKept, UNCHANGED taken,
           NEW k \in TokenKinds, StaticToken(k)
    PROVE  Abstract!Panic \/ \E e \in Data : Abstract!Record(k, e)
<1>1. CASE Panic
  <2>1. HeapKept /\ UNCHANGED tree /\ status' = "panicked" /\ Building
    BY <1>1 DEF Panic, cacheVars, HeapKept, StaticToken
  <2> QED
    BY <2>1, PanicRefines
<1>2. CASE ~ Panic
  <2>1. Abstract!Record(k, StaticData[k])
    BY <1>2, StaticRefines DEF StaticToken
  <2>2. StaticData[k] \in Data
    BY <1>2, GreenBuilderAssumption DEF StaticToken
  <2> QED
    BY <2>1, <2>2
<1> QED
  BY <1>1, <1>2

\* A builder's step that leaves the cache alone and the builder at work.
LEMMA SameCache ==
    ASSUME HInv, TypeOK', CacheInv, Building, UNCHANGED <<cacheVars, tree>>
    PROVE  AtWork
BY DEF AtWork, cacheVars, HeapKept, ValuesKept

\* start_node.
LEMMA StartNodeRefines ==
    ASSUME HInv, TypeOK', CacheInv, UNCHANGED taken, NEW k \in NodeKinds, StartNode(k)
    PROVE  Abstract!StartNode(k)
<1>1. AtWork /\ Building /\ Building' /\ UNCHANGED <<children, status>>
  BY SameCache DEF StartNode, Building
<1>2. PICK T, f, g, D, E, ps, cs, ts : Stage(T, f, g, D, E, ps, cs, ts)
  BY <1>1, StageNow
<1>3. /\ ts \in Seq(T) /\ Nested(ps, Len(ts)) /\ AbstractStack = Frames(ps, ts)
      /\ ps = parents /\ cs = children /\ ts = Read(g, cs) /\ Len(ts) = Len(cs)
  BY <1>2 DEF Stage
<1>4. PICK qs : qs = Append(ps, [kind |-> k, first_child |-> Len(ts)])
  OBVIOUS
<1>5. AbstractStack' = Frames(qs, ts)
  <2>1. qs = parents' /\ cs = children'
    BY <1>1, <1>3, <1>4 DEF StartNode
  <2> QED
    BY <1>1, <1>2, <1>3, <2>1, StackNext
<1>6. AbstractStack' = Append(AbstractStack, [kind |-> k, trees |-> <<>>])
  BY <1>3, <1>4, <1>5, FramesStart
<1>7. AbstractSaved' = AbstractSaved
  BY <1>1, <1>2, SavedSame DEF AtWork, StartNode
<1>8. AbstractResult' = AbstractResult
  BY <1>1, ResultKept DEF AtWork, HInv, Inv
<1> QED
  BY <1>1, <1>6, <1>7, <1>8 DEF Abstract!StartNode, Building

\* checkpoint.
LEMMA TakeCheckpointRefines ==
    ASSUME HInv, TypeOK', CacheInv, HTakeCheckpoint
    PROVE  Abstract!Save
<1>1. /\ AtWork /\ Building /\ Building' /\ UNCHANGED <<heap, values, parents, children, status>>
      /\ taken' = Append(taken, [parents |-> parents, children |-> children,
                                 documented |-> TRUE, valid |-> TRUE])
  BY SameCache DEF HTakeCheckpoint, TakeCheckpoint, Remember, Building, cacheVars, stackVars
<1>2. PICK T, f, g, D, E, ps, cs, ts : Stage(T, f, g, D, E, ps, cs, ts)
  BY <1>1, StageNow
<1>3. PICK n \in Nat : n = Len(taken) /\ taken \in Seq(Entry) /\ DOMAIN taken = 1 .. n
  BY TakenType DEF HInv, Inv
<1>4. PICK new : new = [parents |-> parents, children |-> children,
                        documented |-> TRUE, valid |-> TRUE]
  OBVIOUS
<1>5. new \in Entry
  <2>1. children \in Seq(Nat) /\ parents \in Seq([kind : NodeKinds, first_child : Nat])
    <3>1. DOMAIN heap \subseteq Nat /\ children \in Seq(DOMAIN heap)
      BY LenProperties DEF HInv, Inv, TypeOK
    <3>2. children \in Seq(Nat)
      BY <3>1, SeqMonotonic
    <3> QED
      BY <3>2 DEF HInv, Inv, TypeOK
  <2> QED
    BY <1>4, <2>1 DEF Entry
<1>6. /\ DOMAIN taken' = 1 .. n + 1 /\ (\A i \in 1 .. n : taken'[i] = taken[i])
      /\ taken'[n + 1] = new
  <2>1. taken' = Append(taken, new)
    BY <1>1, <1>4
  <2>2. /\ taken' \in Seq(Entry) /\ Len(taken') = n + 1
        /\ (\A i \in 1 .. n : taken'[i] = taken[i]) /\ taken'[n + 1] = new
    BY <1>3, <1>5, <2>1, AppendProperties
  <2> QED
    BY <2>2, LenProperties
<1>7. \A e \in DOMAIN heap : TreeOf'[e] = TreeOf[e]
  BY <1>1, TreeOfKept DEF AtWork, HInv, Inv
<1>8. PICK old, fresh : old = AbstractSaved /\ fresh = AbstractSaved'
  OBVIOUS
<1>9. old = [i \in 1 .. n |-> old[i]] /\ fresh = [i \in 1 .. n + 1 |-> fresh[i]]
  BY <1>3, <1>6, <1>8 DEF AbstractSaved
<1>10. ASSUME NEW i \in 1 .. n PROVE fresh[i] = old[i]
  <2>1. taken'[i] = taken[i] /\ i \in DOMAIN taken /\ i \in DOMAIN taken'
    BY <1>3, <1>6
  <2>2. CASE ~ taken[i].valid
    BY <1>8, <2>1, <2>2 DEF AbstractSaved
  <2>3. CASE taken[i].valid
    <3>1. PICK p, c : SavedIs(i, p, c, ps, ts)
      BY <1>1, <1>2, <2>1, <2>3, SavedExists DEF AtWork
    <3>2. PICK us : us = taken[i].children /\ us \in Seq(DOMAIN heap)
      BY <3>1 DEF SavedIs
    <3>3. Read(TreeOf, us) = Read(TreeOf', us)
      BY <1>2, <3>2, ReadSame DEF Stage
    <3>4. Trees(taken[i].children) = Read(TreeOf, us) /\ Trees(taken[i].children)' = Read(TreeOf', us)
      BY <2>1, <3>2 DEF Trees, Read
    <3>5. Trees(taken[i].children)' = Trees(taken[i].children)
      BY <3>3, <3>4
    <3> QED
      BY <1>1, <1>8, <2>1, <2>3, <3>5 DEF AbstractSaved
  <2> QED
    BY <2>2, <2>3
<1>11. AbstractStack' = AbstractStack
  <2>1. ps = parents' /\ cs = children' /\ ts = Read(g, cs) /\ AbstractStack = Frames(ps, ts)
    BY <1>1, <1>2 DEF Stage
  <2>2. AbstractStack' = Frames(ps, Read(g, cs))
    BY <1>1, <1>2, <2>1, StackNext
  <2> QED
    BY <2>1, <2>2
<1>12. fresh[n + 1] = [stack |-> AbstractStack, valid |-> TRUE]
  <2>1. Trees(taken[n + 1].children)' = Trees(children)'
    BY <1>1, <1>4, <1>6 DEF Trees
  <2>2. /\ n + 1 \in DOMAIN taken' /\ taken'[n + 1].valid /\ taken'[n + 1].parents = parents'
    BY <1>1, <1>4, <1>6
  <2>3. fresh[n + 1] = [stack |-> Frames(parents', Trees(children)'), valid |-> TRUE]
    BY <1>1, <1>8, <2>1, <2>2 DEF AbstractSaved
  <2>4. AbstractStack' = Frames(parents', Trees(children)')
    BY <1>1 DEF AbstractStack
  <2> QED
    BY <1>11, <2>3, <2>4
<1>13. fresh = Append(old, [stack |-> AbstractStack, valid |-> TRUE])
  <2>1. PICK y : y = [stack |-> AbstractStack, valid |-> TRUE]
    OBVIOUS
  <2>2. PICK T2 : T2 = {old[i] : i \in 1 .. n} \cup {y}
    OBVIOUS
  <2>3. old \in Seq(T2) /\ Len(old) = n
    <3>1. old \in [1 .. n -> T2]
      BY <1>9, <2>2
    <3> QED
      BY <3>1
  <2>4. /\ Append(old, y) \in Seq(T2) /\ Len(Append(old, y)) = n + 1
        /\ (\A i \in 1 .. n : Append(old, y)[i] = old[i]) /\ Append(old, y)[n + 1] = y
    <3>1. y \in T2
      BY <2>2
    <3> QED
      BY <2>3, <3>1, AppendProperties
  <2>5. \A i \in 1 .. n + 1 : fresh[i] = Append(old, y)[i]
    <3>1. \A i \in 1 .. n + 1 : i \in 1 .. n \/ i = n + 1
      OBVIOUS
    <3> QED
      BY <1>10, <1>12, <2>1, <2>4, <3>1
  <2>6. fresh \in Seq(T2) /\ Len(fresh) = n + 1
    <3>1. \A i \in 1 .. n + 1 : fresh[i] \in T2
      BY <2>4, <2>5, ElementOfSeq
    <3>2. fresh \in [1 .. n + 1 -> T2]
      BY <1>9, <3>1
    <3> QED
      BY <3>2
  <2> QED
    BY <2>1, <2>4, <2>5, <2>6, SameSeq
<1>14. AbstractResult' = AbstractResult
  BY <1>1, ResultKept DEF AtWork, HInv, Inv, HTakeCheckpoint, TakeCheckpoint
<1> QED
  BY <1>1, <1>8, <1>11, <1>13, <1>14 DEF Abstract!Save, Building

\* What Keep is asked to keep, it keeps.
LEMMA KeepKeeps ==
    ASSUME HistoryOK, TypeOK, NEW D, NEW V, Keep(D, V),
           NEW j \in DOMAIN taken, taken[j].valid, j \in D, j \in V
    PROVE  taken'[j].valid
<1>1. taken[j] \in Entry /\ taken[j].documented
  BY TakenType DEF HistoryOK
<1>2. taken'[j] = [taken[j] EXCEPT !.valid = @ /\ j \in V]
  BY <1>1 DEF Keep
<1> QED
  BY <1>1, <1>2 DEF Entry

\* revert_to keeps exactly the checkpoints up to the one it is given, and none
\* if that is not valid.
RevertKeeps(i) ==
    /\ DOMAIN taken' = DOMAIN taken
    /\ \A j \in DOMAIN taken : taken'[j].valid =>
           /\ taken[j].valid
           /\ taken'[j].parents = taken[j].parents
           /\ taken'[j].children = taken[j].children
    /\ ~ taken[i].valid => \A j \in DOMAIN taken : ~ taken'[j].valid
    /\ taken[i].valid => \A j \in DOMAIN taken :
           /\ j > i => ~ taken'[j].valid
           /\ ~ (j > i) => taken'[j].valid = taken[j].valid

LEMMA RevertHistory ==
    ASSUME HInv, NEW i \in DOMAIN taken, HRevertTo(i)
    PROVE  RevertKeeps(i)
<1>1. PICK D, V : /\ D = {j \in 1 .. i : taken[i].documented}
                  /\ V = {j \in 1 .. i : taken[i].valid}
  OBVIOUS
<1>2. /\ Keep(D, V) /\ UNCHANGED checkpoints
      /\ HistoryOK /\ TypeOK
  BY <1>1 DEF HRevertTo, RevertTo, Panic, HInv, Inv
<1>3. /\ DOMAIN taken' = DOMAIN taken
      /\ \A j \in DOMAIN taken : taken'[j].valid =>
             /\ taken[j].valid /\ j \in D /\ j \in V
             /\ taken'[j].parents = taken[j].parents
             /\ taken'[j].children = taken[j].children
  BY <1>2, KeepDrops
<1>4. ~ taken[i].valid => \A j \in DOMAIN taken : ~ taken'[j].valid
  BY <1>1, <1>3
<1>5. ASSUME taken[i].valid, NEW j \in DOMAIN taken, j > i PROVE ~ taken'[j].valid
  <2>1. i \in Nat /\ j \in Nat
    BY <1>2, TakenType
  <2> QED
    BY <1>1, <1>3, <1>5, <2>1
<1>6. ASSUME taken[i].valid, NEW j \in DOMAIN taken, ~ (j > i) PROVE taken'[j].valid = taken[j].valid
  <2>1. taken[i].documented /\ taken[j].valid \in BOOLEAN /\ taken'[j].valid \in BOOLEAN
    <3>1. HistoryOK'
      BY <1>2, KeepDrops
    <3>2. taken[j] \in Entry
      BY <1>2, TakenType
    <3>3. taken' \in Seq(Entry)
      BY <3>1 DEF HistoryOK, Entry
    <3>4. taken'[j] \in Entry
      BY <1>3, <3>3, ElementOfSeq, LenProperties
    <3> QED
      BY <1>2, <1>6, <3>2, <3>4 DEF HistoryOK, Entry
  <2>2. j \in D /\ j \in V
    <3>1. i \in Nat /\ j \in Nat /\ j >= 1
      BY <1>2, TakenType
    <3> QED
      BY <1>1, <1>6, <2>1, <3>1
  <2>3. taken[j].valid => taken'[j].valid
    BY <1>2, <2>2, KeepKeeps
  <2> QED
    BY <1>3, <2>1, <2>3
<1> QED
  BY <1>3, <1>4, <1>5, <1>6 DEF RevertKeeps

\* revert_to.
LEMMA RevertRefines ==
    ASSUME HInv, TypeOK', CacheInv, NEW i \in DOMAIN taken, HRevertTo(i)
    PROVE  Abstract!Panic \/ Abstract!Revert(i) \/ Abstract!RevertInvalid(i)
<1>1. /\ Building /\ AtWork
      /\ RevertKeeps(i) /\ UNCHANGED <<checkpoints, tree>>
  <2>1. Building /\ UNCHANGED <<cacheVars, checkpoints, tree>>
    BY DEF HRevertTo, RevertTo, Panic, Building
  <2> QED
    BY <2>1, SameCache, RevertHistory
<1>2. CASE ~ RevertAllowed(checkpoints[i])
  <2>1. status' = "panicked"
    BY <1>2 DEF HRevertTo, RevertTo, Panic
  <2> QED
    BY <1>1, <2>1, PanicRefines DEF AtWork, RevertKeeps
<1>3. CASE RevertAllowed(checkpoints[i])
  <2>1. PICK p, c : p = checkpoints[i].parent_idx /\ c = checkpoints[i].child_idx
    OBVIOUS
  <2>2. /\ Building' /\ status' = status
        /\ parents' = SubSeq(parents, 1, p) /\ children' = SubSeq(children, 1, c)
    BY <1>1, <1>3, <2>1 DEF HRevertTo, RevertTo, Building
  <2>3. PICK T, f, g, D, E, ps, cs, ts : Stage(T, f, g, D, E, ps, cs, ts)
    BY <1>1, StageNow
  <2>4. /\ ts \in Seq(T) /\ Nested(ps, Len(ts)) /\ AbstractStack = Frames(ps, ts)
        /\ ps = parents /\ cs = children /\ ts = Read(g, cs) /\ Len(ts) = Len(cs)
        /\ cs \in Seq(E) /\ Reading(g, E, T) /\ Len(cs) \in Nat
    BY <2>3 DEF Stage
  <2>5. /\ p \in Nat /\ c \in Nat /\ p <= Len(ps) /\ c <= Len(ts) /\ Len(ps) \in Nat
        /\ ps # <<>> => c >= ps[Len(ps)].first_child
    <3>1. p \in Nat /\ c \in Nat
      BY <2>1, TakenType DEF HInv, Inv
    <3>2. Len(ps) \in Nat
      BY <2>4, LenProperties DEF Nested
    <3> QED
      BY <1>3, <2>1, <2>4, <3>1, <3>2 DEF RevertAllowed, InsideTopNode
  <2>6. PICK qs, us : qs = SubSeq(ps, 1, p) /\ us = SubSeq(ts, 1, c)
    OBVIOUS
  <2>7. AbstractStack' = Frames(qs, us)
    <3>1. PICK vs : vs = SubSeq(cs, 1, c)
      OBVIOUS
    <3>2. Read(g, vs) = us
      <4>1. c \in Nat /\ c <= Len(cs)
        BY <2>4, <2>5
      <4>2. Read(g, SubSeq(cs, 1, c)) = SubSeq(Read(g, cs), 1, c)
        BY ONLY <2>4, <4>1, ReadPrefix
      <4> QED
        BY ONLY <2>4, <2>6, <3>1, <4>2
    <3>3. qs = parents' /\ vs = children'
      BY <2>2, <2>4, <2>6, <3>1
    <3>4. AbstractStack' = Frames(qs, Read(g, vs))
      BY <2>2, <2>3, <3>3, StackNext
    <3> QED
      BY <3>2, <3>4
  <2>8. AbstractResult' = AbstractResult
    BY <1>1, ResultKept DEF AtWork, HInv, Inv
  <2>9. CASE taken[i].valid
    <3>1. PICK q, d : SavedIs(i, q, d, ps, ts)
      BY <1>1, <2>3, <2>9, SavedExists DEF AtWork
    <3>2. AbstractSaved[i] = [stack |-> Frames(qs, us), valid |-> TRUE]
      BY <2>1, <2>6, <3>1 DEF SavedIs
    <3>3. PICK I : I = {j \in DOMAIN AbstractSaved : j > i}
      OBVIOUS
    <3>4. DOMAIN AbstractSaved = DOMAIN taken
      BY DEF AbstractSaved
    <3>5. \A j \in DOMAIN taken : /\ j \in I => ~ taken'[j].valid
                                  /\ j \notin I => taken'[j].valid = taken[j].valid
                                  /\ taken'[j].valid => /\ taken[j].valid
                                                        /\ taken'[j].parents = taken[j].parents
                                                        /\ taken'[j].children = taken[j].children
      BY <1>1, <2>9, <3>3, <3>4 DEF RevertKeeps
    <3>6. DOMAIN taken' = DOMAIN taken
      BY <1>1 DEF RevertKeeps
    <3>7. Abstract!Invalidate(I)
      BY <1>1, <2>2, <2>3, <3>5, <3>6, SavedKept DEF AtWork
    <3> QED
      BY <1>1, <2>2, <2>7, <2>8, <3>2, <3>3, <3>7 DEF Abstract!Revert, Building
  <2>10. CASE ~ taken[i].valid
    <3>1. ~ AbstractSaved[i].valid
      BY <2>10 DEF AbstractSaved
    <3>2. Abstract!InvalidateAll
      BY <1>1, <2>10, SavedGone DEF RevertKeeps
    <3>3. p \in 0 .. Len(ps) /\ Start(ps, p) \in Nat /\ Start(ps, p) <= c
      <4>1. p \in 0 .. Len(ps) /\ (p # 0 => p \in 1 .. Len(ps) /\ Len(ps) \in 1 .. Len(ps))
        BY <2>5
      <4>2. CASE p = 0
        BY <2>5, <4>1, <4>2 DEF Start
      <4>3. CASE p # 0
        <5>1. /\ ps \in Seq(ParentT) /\ ps # <<>> /\ p <= Len(ps)
              /\ ps[p].first_child <= ps[Len(ps)].first_child
          BY <2>4, <2>5, <4>1, <4>3 DEF Nested
        <5>2. ps[p] \in ParentT /\ ps[Len(ps)] \in ParentT
          BY <4>1, <4>3, <5>1, ElementOfSeq
        <5>3. ps[p].first_child \in Nat /\ ps[Len(ps)].first_child \in Nat
          BY <5>2 DEF ParentT
        <5> QED
          BY <2>5, <4>1, <4>3, <5>1, <5>3 DEF Start
      <4> QED
        BY <4>2, <4>3
    <3>4. PICK m \in Nat : m = c - Start(ps, p)
      BY <2>5, <3>3
    <3>5. PICK F, G : F = Frames(ps, ts) /\ G = Frames(SubSeq(ps, 1, p), SubSeq(ts, 1, c))
      OBVIOUS
    <3>6. PICK x : x = Abstract!TreesOn(SubSeq(F, p + 1, Len(F)))
      OBVIOUS
    <3>7. Merges(G, F, p, x, m)
      BY ONLY <2>4, <2>5, <3>3, <3>4, <3>5, <3>6, FramesCut
    <3>8. /\ m <= Len(x) /\ Len(x) \in Nat
          /\ G = [SubSeq(F, 1, p + 1) EXCEPT ![p + 1].trees = SubSeq(x, 1, m)]
      BY <3>7 DEF Merges
    <3>9. Len(F) = Len(ps) + 1
      BY <2>5, <3>5 DEF Frames
    <3>10. PICK d \in 1 .. Len(F) : d = p + 1
      BY <2>5, <3>9
    <3>11. PICK n \in 0 .. Len(x) : n = m
      BY <3>4, <3>8
    <3>12. AbstractStack = F /\ AbstractStack' = G
      BY <2>4, <2>6, <2>7, <3>5
    <3>13. Abstract!Depth = Len(F) /\ Abstract!TreesFrom(d) = x
      BY <3>6, <3>10, <3>12 DEF Abstract!Depth, Abstract!TreesFrom
    <3>14. G = [SubSeq(F, 1, d) EXCEPT ![d].trees = SubSeq(x, 1, n)]
      BY <3>8, <3>10, <3>11
    <3>15. \E e \in 1 .. Abstract!Depth : \E l \in 0 .. Len(Abstract!TreesFrom(e)) :
              AbstractStack' = [SubSeq(AbstractStack, 1, e) EXCEPT ![e].trees =
                                    SubSeq(Abstract!TreesFrom(e), 1, l)]
      BY <3>12, <3>13, <3>14
    <3> QED
      BY <1>1, <2>2, <2>8, <3>1, <3>2, <3>15 DEF Abstract!RevertInvalid, Building
  <2> QED
    BY <2>9, <2>10
<1> QED
  BY <1>2, <1>3

\* The innermost frame of a copy that has all the unfinished nodes.
LEMMA SavedTop ==
    ASSUME NEW T, NEW ts \in Seq(T), NEW ps, Nested(ps, Len(ts)), NEW n \in Nat, n = Len(ps),
           NEW c \in Nat, Start(ps, n) <= c, c <= Len(ts), NEW m \in Nat, m = c - Start(ps, n),
           NEW G, G = Frames(SubSeq(ps, 1, n), SubSeq(ts, 1, c))
    PROVE  Len(G) = n + 1 /\ Len(G[n + 1].trees) = m
<1>1. SubSeq(ps, 1, n) = ps
  BY SubSeqFull DEF Nested
<1>2. PICK us : us = SubSeq(ts, 1, c)
  OBVIOUS
<1>3. us \in Seq(T) /\ Len(us) = c
  <2>1. c \in 0 .. Len(ts)
    BY LenProperties
  <2> QED
    BY <1>2, <2>1, PrefixOfSeq
<1>4. G = Frames(ps, us)
  BY <1>1, <1>2
<1>5. Len(G) = n + 1
  BY <1>4 DEF Frames
<1>6. G[n + 1] = Frame(ps, us, n)
  <2>1. n + 1 \in 1 .. n + 1 /\ (n + 1) - 1 = n
    OBVIOUS
  <2> QED
    BY <1>4, <2>1 DEF Frames
<1>7. PICK a \in Nat : a = Start(ps, n)
  <2>1. n # 0 => n \in 1 .. Len(ps)
    OBVIOUS
  <2>2. n # 0 => ps[n] \in ParentT
    BY <2>1, ElementOfSeq DEF Nested
  <2> QED
    BY <2>2 DEF Start, ParentT
<1>8. G[n + 1].trees = SubSeq(us, a + 1, c)
  BY <1>3, <1>6, <1>7 DEF Frame, End
<1>9. Len(SubSeq(us, a + 1, c)) = c - a
  <2>1. a <= c /\ c <= Len(us)
    BY <1>3, <1>7
  <2> QED
    BY <1>3, <2>1, Part
<1> QED
  BY <1>5, <1>7, <1>8, <1>9

\* start_node_at.
LEMMA StartNodeAtRefines ==
    ASSUME HInv, TypeOK', CacheInv, NEW i \in DOMAIN taken, NEW k \in NodeKinds,
           StartNodeAt(i, k), UNCHANGED taken
    PROVE  Abstract!Panic \/ Abstract!StartNodeAt(i, k) \/ Abstract!StartNodeAtInvalid(i, k)
<1>1. /\ Building /\ AtWork /\ UNCHANGED <<checkpoints, tree>>
  <2>1. Building /\ UNCHANGED <<cacheVars, checkpoints, tree>>
    BY DEF StartNodeAt, Panic, Building
  <2> QED
    BY <2>1, SameCache
<1>2. CASE ~ StartAllowed(checkpoints[i])
  <2>1. status' = "panicked"
    BY <1>2 DEF StartNodeAt, Panic
  <2> QED
    BY <1>1, <2>1, PanicRefines DEF AtWork
<1>3. CASE StartAllowed(checkpoints[i])
  <2>1. PICK p, c : p = checkpoints[i].parent_idx /\ c = checkpoints[i].child_idx
    OBVIOUS
  <2>2. /\ Building' /\ status' = status /\ children' = children
        /\ parents' = Append(parents, [kind |-> k, first_child |-> c])
    BY <1>1, <1>3, <2>1 DEF StartNodeAt, Building
  <2>3. PICK T, f, g, D, E, ps, cs, ts : Stage(T, f, g, D, E, ps, cs, ts)
    BY <1>1, StageNow
  <2>4. /\ ts \in Seq(T) /\ Nested(ps, Len(ts)) /\ AbstractStack = Frames(ps, ts)
        /\ ps = parents /\ cs = children /\ ts = Read(g, cs) /\ Len(ts) = Len(cs)
        /\ Len(cs) \in Nat
    BY <2>3 DEF Stage
  <2>5. /\ p \in Nat /\ c \in Nat /\ p = Len(ps) /\ c <= Len(ts) /\ Len(ps) \in Nat
        /\ ps # <<>> => c >= ps[Len(ps)].first_child
    <3>1. p \in Nat /\ c \in Nat
      BY <2>1, TakenType DEF HInv, Inv
    <3> QED
      BY <1>3, <2>1, <2>4, <3>1 DEF StartAllowed, InsideTopNode
  <2>6. PICK n \in Nat : n = Len(ps)
    BY <2>5
  <2>7. Start(ps, n) \in Nat /\ Start(ps, n) <= c
    <3>1. n = 0 \/ (n # 0 /\ n \in 1 .. Len(ps) /\ ps # <<>>)
      BY <2>6
    <3>2. CASE n = 0
      BY <2>5, <3>2 DEF Start
    <3>3. CASE n # 0
      <4>1. ps[n] \in ParentT
        BY <2>4, <3>1, <3>3, ElementOfSeq DEF Nested
      <4> QED
        BY <2>5, <2>6, <3>1, <3>3, <4>1 DEF Start, ParentT
    <3> QED
      BY <3>2, <3>3
  <2>8. PICK m \in Nat : m = c - Start(ps, n)
    BY <2>5, <2>7
  <2>9. PICK F, G : /\ F = Frames(ps, ts)
                    /\ G = Frames(Append(ps, [kind |-> k, first_child |-> c]), ts)
    OBVIOUS
  <2>10. AbstractStack = F /\ AbstractStack' = G
    <3>1. PICK qs : qs = Append(ps, [kind |-> k, first_child |-> c])
      OBVIOUS
    <3>2. qs = parents' /\ cs = children'
      BY <2>2, <2>4, <3>1
    <3>3. AbstractStack' = Frames(qs, Read(g, cs))
      BY <2>2, <2>3, <3>2, StackNext
    <3> QED
      BY <2>4, <2>9, <3>1, <3>3
  <2>11. Wraps(G, F, n, k, m)
    BY ONLY <2>4, <2>5, <2>6, <2>7, <2>8, <2>9, FramesWrap
  <2>12. Len(F) = n + 1 /\ Len(F[n + 1].trees) \in Nat
    <3>1. Len(F) = n + 1
      BY <2>5, <2>6, <2>9 DEF Frames
    <3>2. n + 1 \in 1 .. n + 1 /\ (n + 1) - 1 = n
      OBVIOUS
    <3>3. F[n + 1] = Frame(ps, ts, n)
      BY <2>6, <2>9, <3>2 DEF Frames
    <3>4. F[n + 1].trees = SubSeq(ts, Start(ps, n) + 1, Len(ts))
      <4>1. End(ps, ts, n) = Len(ts)
        BY <2>6 DEF End
      <4>2. Frame(ps, ts, n).trees = SubSeq(ts, Start(ps, n) + 1, Len(ts))
        BY <4>1 DEF Frame
      <4> QED
        BY ONLY <3>3, <4>2
    <3>5. PICK a \in Nat, b \in Nat : a = Start(ps, n) /\ b = Len(ts) /\ a <= b
      BY <2>4, <2>5, <2>7
    <3>6. SubSeq(ts, a + 1, b) \in Seq(T)
      BY <2>4, <3>5, Part
    <3> QED
      BY <3>1, <3>4, <3>5, <3>6, LenProperties
  <2>13. PICK d : d = n + 1
    OBVIOUS
  <2>14. /\ Abstract!Depth = d /\ Abstract!Top = F[d] /\ m <= Len(F[d].trees)
         /\ Len(F[d].trees) \in Nat
         /\ G = Append([F EXCEPT ![d].trees = SubSeq(@, 1, m)],
                       [kind |-> k, trees |-> SubSeq(F[d].trees, m + 1, Len(F[d].trees))])
    BY <2>10, <2>11, <2>12, <2>13 DEF Abstract!Depth, Abstract!Top, Wraps
  <2>15. Abstract!Wrap(k, m)
    BY <2>10, <2>14 DEF Abstract!Wrap
  <2>16. AbstractResult' = AbstractResult
    BY <1>1, ResultKept DEF AtWork, HInv, Inv
  <2>17. AbstractSaved' = AbstractSaved
    BY <1>1, <2>2, <2>3, SavedSame DEF AtWork
  <2>18. CASE taken[i].valid
    <3>1. PICK q, e : SavedIs(i, q, e, ps, ts)
      BY <1>1, <2>3, <2>18, SavedExists DEF AtWork
    <3>2. PICK H : H = Frames(SubSeq(ps, 1, n), SubSeq(ts, 1, c))
      OBVIOUS
    <3>3. AbstractSaved[i] = [stack |-> H, valid |-> TRUE]
      BY <2>1, <2>5, <2>6, <3>1, <3>2 DEF SavedIs
    <3>4. Len(H) = n + 1 /\ Len(H[n + 1].trees) = m
      BY ONLY <2>4, <2>5, <2>6, <2>7, <2>8, <3>2, SavedTop
    <3>5. /\ AbstractSaved[i].valid /\ Len(AbstractSaved[i].stack) = Abstract!Depth
          /\ Len(AbstractSaved[i].stack[Abstract!Depth].trees) = m
      BY <2>13, <2>14, <3>3, <3>4
    <3> QED
      BY <1>1, <2>2, <2>15, <2>16, <2>17, <3>5 DEF Abstract!StartNodeAt, Building
  <2>19. CASE ~ taken[i].valid
    <3>1. ~ AbstractSaved[i].valid
      BY <2>19 DEF AbstractSaved
    <3>2. m \in 0 .. Len(Abstract!Top.trees)
      BY <2>14
    <3>3. \E l \in 0 .. Len(Abstract!Top.trees) : Abstract!Wrap(k, l)
      BY <2>15, <3>2
    <3> QED
      BY <1>1, <2>2, <2>16, <2>17, <3>1, <3>3 DEF Abstract!StartNodeAtInvalid, Building
  <2> QED
    BY <2>18, <2>19
<1> QED
  BY <1>2, <1>3

----------------------------------------------------------------------------
(* Cache hits *)

\* Elements that feed the same to a hasher stand for the same tree.
SameHead(e, f) == HashInput(e) = HashInput(f) => TreeOf[e] = TreeOf[f]

\* The tree of a node and of a token.
LEMMA TreeOfNode ==
    ASSUME TypeOK, NEW e \in DOMAIN heap, IsNode(e)
    PROVE  TreeOf[e] = [kind |-> heap[e].kind, trees |-> Read(TreeOf, heap[e].children)]
<1>1. TreesSolved
  BY TreeOfExists
<1>2. TreeOf[e] = [kind |-> heap[e].kind,
                   trees |-> [i \in DOMAIN heap[e].children |-> TreeOf[heap[e].children[i]]]]
  BY <1>1 DEF TreesSolved
<1> QED
  BY <1>2 DEF Read

LEMMA TreeOfToken ==
    ASSUME TypeOK, NEW e \in DOMAIN heap, ~ IsNode(e)
    PROVE  TreeOf[e] = [kind |-> heap[e].kind, text |-> TextOf(e)]
BY TreeOfExists DEF TreesSolved

\* Without collisions, equal hashes come from equal subtrees.
LEMMA SameHashSameTrees ==
    ASSUME CollisionFree, NEW s \in Hashed, NEW t \in Hashed, HashOf(s) = HashOf(t),
           \A i \in DOMAIN s : SameHead(s[i], t[i])
    PROVE  Read(TreeOf, s) = Read(TreeOf, t)
<1>1. HashInputs(s) = HashInputs(t)
  BY DEF CollisionFree
<1>2. DOMAIN s = DOMAIN t /\ \A i \in DOMAIN s : HashInput(s[i]) = HashInput(t[i])
  <2>1. PICK u, v : u = HashInputs(s) /\ v = HashInputs(t)
    OBVIOUS
  <2>2. u = v /\ DOMAIN u = DOMAIN s /\ DOMAIN v = DOMAIN t
    BY <1>1, <2>1 DEF HashInputs
  <2>3. \A i \in DOMAIN s : u[i] = HashInput(s[i])
    BY <2>1 DEF HashInputs
  <2>4. \A i \in DOMAIN t : v[i] = HashInput(t[i])
    BY <2>1 DEF HashInputs
  <2> QED
    BY <2>2, <2>3, <2>4
<1>3. \A i \in DOMAIN s : TreeOf[s[i]] = TreeOf[t[i]]
  BY <1>2 DEF SameHead
<1> QED
  BY <1>2, <1>3 DEF Read

LEMMA SameHeadSameTree ==
    ASSUME TypeOK, CacheInv, CollisionFree
    PROVE  \A e, f \in DOMAIN heap : SameHead(e, f)
<1>1. /\ DOMAIN heap \subseteq Nat \ {0}
      /\ \A e \in DOMAIN heap : heap[e].children \in Seq(1 .. e - 1)
  BY LenProperties DEF TypeOK, ElementOK
<1> DEFINE S == {n \in Nat : \A e, f \in DOMAIN heap : e <= n => SameHead(e, f)}
<1>2. 0 \in S
  BY <1>1
<1>3. ASSUME NEW n \in S PROVE n + 1 \in S
  <2>1. SUFFICES ASSUME NEW e \in DOMAIN heap, NEW f \in DOMAIN heap, e <= n + 1,
                        HashInput(e) = HashInput(f)
                 PROVE  TreeOf[e] = TreeOf[f]
    BY DEF SameHead
  <2>2. CASE IsNode(e) /\ IsNode(f)
    <3>1. /\ HashInput(e) = [kind |-> heap[e].kind, len |-> heap[e].len, hash |-> heap[e].hash]
          /\ HashInput(f) = [kind |-> heap[f].kind, len |-> heap[f].len, hash |-> heap[f].hash]
      BY <2>2 DEF HashInput
    <3>2. heap[e].kind = heap[f].kind /\ heap[e].hash = heap[f].hash
      <4>1. HashInput(e).kind = HashInput(f).kind /\ HashInput(e).hash = HashInput(f).hash
        BY ONLY <2>1
      <4> QED
        BY ONLY <3>1, <4>1
    <3>3. PICK s, t : s = heap[e].children /\ t = heap[f].children
      OBVIOUS
    <3>4. s \in Hashed /\ t \in Hashed
      BY <2>2, <3>3 DEF Hashed
    <3>5. HashOf(s) = HashOf(t)
      BY <2>2, <3>2, <3>3 DEF CacheInv, ElementsCached, NodeCached, IsNode
    <3>6. ASSUME NEW i \in DOMAIN s PROVE SameHead(s[i], t[i])
      <4>1. s \in Seq(1 .. e - 1) /\ t \in Seq(DOMAIN heap)
        BY <1>1, <3>3, ChildrenOnHeap
      <4>2. s[i] \in 1 .. e - 1
        BY <4>1, LenProperties, ElementOfSeq
      <4>3. s[i] \in DOMAIN heap /\ s[i] <= n
        <5>1. s \in Seq(DOMAIN heap)
          BY <3>3, ChildrenOnHeap
        <5>2. s[i] \in DOMAIN heap
          BY <5>1, LenProperties, ElementOfSeq
        <5>3. e \in Nat
          BY <1>1
        <5> QED
          BY <2>1, <4>2, <5>2, <5>3
      <4>4. DOMAIN s = DOMAIN t
        <5>1. HashInputs(s) = HashInputs(t)
          BY <3>4, <3>5 DEF CollisionFree
        <5>2. PICK u, v : u = HashInputs(s) /\ v = HashInputs(t)
          OBVIOUS
        <5>3. u = v /\ DOMAIN u = DOMAIN s /\ DOMAIN v = DOMAIN t
          BY <5>1, <5>2 DEF HashInputs
        <5> QED
          BY <5>3
      <4>5. t[i] \in DOMAIN heap
        BY <4>1, <4>4, LenProperties, ElementOfSeq
      <4> QED
        BY <4>3, <4>5
    <3>7. Read(TreeOf, s) = Read(TreeOf, t)
      BY <3>4, <3>5, <3>6, SameHashSameTrees
    <3>8. /\ TreeOf[e] = [kind |-> heap[e].kind, trees |-> Read(TreeOf, s)]
          /\ TreeOf[f] = [kind |-> heap[f].kind, trees |-> Read(TreeOf, t)]
      BY <2>2, <3>3, TreeOfNode
    <3> QED
      BY <3>2, <3>7, <3>8
  <2>3. CASE ~ IsNode(e) /\ ~ IsNode(f)
    <3>1. /\ HashInput(e) = [kind |-> heap[e].kind, key |-> heap[e].key, len |-> heap[e].len]
          /\ HashInput(f) = [kind |-> heap[f].kind, key |-> heap[f].key, len |-> heap[f].len]
      BY <2>3 DEF HashInput
    <3>2. heap[e].kind = heap[f].kind /\ heap[e].key = heap[f].key
      <4>1. HashInput(e).kind = HashInput(f).kind /\ HashInput(e).key = HashInput(f).key
        BY ONLY <2>1
      <4> QED
        BY ONLY <3>1, <4>1
    <3>3. TextOf(e) = TextOf(f)
      BY <3>2 DEF TextOf
    <3> QED
      BY <2>3, <3>2, <3>3, TreeOfToken
  <2>4. \/ IsNode(e) /\ IsNode(f)
        \/ ~ IsNode(e) /\ ~ IsNode(f)
    <3>1. \A a, b, c, x, y, z : [kind |-> a, len |-> b, hash |-> c] # [kind |-> x, key |-> y, len |-> z]
      <4> SUFFICES ASSUME NEW a, NEW b, NEW c, NEW x, NEW y, NEW z
                   PROVE  [kind |-> a, len |-> b, hash |-> c] # [kind |-> x, key |-> y, len |-> z]
        OBVIOUS
      <4>1. PICK r, s : r = [kind |-> a, len |-> b, hash |-> c] /\ s = [kind |-> x, key |-> y, len |-> z]
        OBVIOUS
      <4>2. "hash" \in DOMAIN r /\ "hash" \notin DOMAIN s
        BY <4>1
      <4> QED
        BY <4>1, <4>2
    <3> QED
      BY <2>1, <3>1 DEF HashInput
  <2> QED
    BY <2>2, <2>3, <2>4
<1>4. S = Nat
  <2>1. S \in SUBSET Nat
    OBVIOUS
  <2> HIDE DEF S
  <2> QED
    BY <1>2, <1>3, <2>1, Induct
<1>5. ASSUME NEW e \in DOMAIN heap, NEW f \in DOMAIN heap PROVE SameHead(e, f)
  <2>1. e \in S /\ e <= e
    BY <1>1, <1>4
  <2> QED
    BY <2>1
<1> QED
  BY <1>5

\* What NodeCache::node pushes stands for a node over the drained elements,
\* whether it is new or was found by its hash.
LEMMA PushedNode ==
    ASSUME TypeOK, TypeOK', CacheInv, CollisionFree, NEW kind, NEW stay,
           NEW drained \in Seq(DOMAIN heap), drained \in Hashed,
           PushNode(kind, stay, drained), UNCHANGED values
    PROVE  /\ HeapKept
           /\ \E x \in DOMAIN heap' :
                  /\ children' = Append(stay, x)
                  /\ TreeOf'[x] = [kind |-> kind, trees |-> Read(TreeOf', drained)]
<1>1. ValuesKept
  BY DEF ValuesKept
<1>2. PICK element : element = GreenNode(kind, TextLen(drained), HashOf(drained), drained)
  OBVIOUS
<1>3. \/ /\ \E n \in CachedNodes(kind, TextLen(drained), HashOf(drained)) :
                children' = Append(stay, n)
         /\ UNCHANGED heap
      \/ heap' = Append(heap, element) /\ children' = Append(stay, Len(heap) + 1)
  BY <1>2 DEF PushNode
<1>4. CASE /\ \E n \in CachedNodes(kind, TextLen(drained), HashOf(drained)) :
                 children' = Append(stay, n)
           /\ UNCHANGED heap
  <2>1. PICK n \in nodes : /\ heap[n].kind = kind /\ heap[n].hash = HashOf(drained)
                           /\ children' = Append(stay, n)
    BY <1>4 DEF CachedNodes
  <2>2. n \in DOMAIN heap /\ IsNode(n)
    BY DEF TypeOK, IsNode
  <2>3. PICK s : s = heap[n].children
    OBVIOUS
  <2>4. s \in Hashed /\ s \in Seq(DOMAIN heap)
    BY <2>2, <2>3, ChildrenOnHeap DEF Hashed
  <2>5. HashOf(s) = HashOf(drained)
    BY <2>1, <2>2, <2>3 DEF CacheInv, ElementsCached, NodeCached, IsNode
  <2>6. \A i \in DOMAIN s : SameHead(s[i], drained[i])
    <3>1. DOMAIN s = DOMAIN drained
      <4>1. HashInputs(s) = HashInputs(drained)
        BY <2>4, <2>5 DEF CollisionFree
      <4>2. PICK u, v : u = HashInputs(s) /\ v = HashInputs(drained)
        OBVIOUS
      <4>3. u = v /\ DOMAIN u = DOMAIN s /\ DOMAIN v = DOMAIN drained
        BY <4>1, <4>2 DEF HashInputs
      <4> QED
        BY <4>3
    <3>2. \A i \in DOMAIN s : s[i] \in DOMAIN heap /\ drained[i] \in DOMAIN heap
      BY <2>4, <3>1, LenProperties, ElementOfSeq
    <3> QED
      BY <3>2, SameHeadSameTree
  <2>7. Read(TreeOf, s) = Read(TreeOf, drained)
    BY <2>4, <2>5, <2>6, SameHashSameTrees
  <2>8. TreeOf[n] = [kind |-> kind, trees |-> Read(TreeOf, drained)]
    BY <2>1, <2>2, <2>3, <2>7, TreeOfNode
  <2>9. HeapKept
    BY <1>4 DEF HeapKept
  <2>10. \A e \in DOMAIN heap : TreeOf'[e] = TreeOf[e]
    BY <1>1, <2>9, TreeOfKept
  <2>11. Read(TreeOf', drained) = Read(TreeOf, drained)
    <3>1. PICK f, g : f = TreeOf /\ g = TreeOf'
      OBVIOUS
    <3>2. Read(f, drained) = Read(g, drained)
      BY <2>10, <3>1, ReadSame
    <3> QED
      BY <3>1, <3>2
  <2> QED
    BY <1>4, <2>1, <2>2, <2>8, <2>9, <2>10, <2>11
<1>5. CASE heap' = Append(heap, element) /\ children' = Append(stay, Len(heap) + 1)
  <2>1. PICK x : x = Len(heap) + 1
    OBVIOUS
  <2>2. /\ Len(heap) \in Nat /\ DOMAIN heap = 1 .. Len(heap) /\ DOMAIN heap' = 1 .. x
        /\ (\A i \in DOMAIN heap : heap'[i] = heap[i]) /\ heap'[x] = element
    BY <1>5, <2>1, AppendToRange DEF TypeOK
  <2>3. HeapKept /\ x \in DOMAIN heap'
    BY <2>1, <2>2 DEF HeapKept
  <2>4. heap'[x].tag = "node" /\ heap'[x].kind = kind /\ heap'[x].children = drained
    BY <1>2, <2>2 DEF GreenNode
  <2>5. TreesSolved'
    BY TreeOfExistsNext
  <2>6. TreeOf'[x] = [kind |-> heap'[x].kind,
                      trees |-> [i \in DOMAIN heap'[x].children |-> TreeOf'[heap'[x].children[i]]]]
    BY <2>3, <2>4, <2>5 DEF TreesSolved, IsNode
  <2>7. TreeOf'[x] = [kind |-> kind, trees |-> Read(TreeOf', drained)]
    BY <2>4, <2>6 DEF Read
  <2> QED
    BY <1>5, <2>1, <2>3, <2>7
<1> QED
  BY <1>3, <1>4, <1>5

----------------------------------------------------------------------------
(* finish_node *)

\* The frames hold all the trees, in order.
LEMMA TreesOnFrames ==
    ASSUME NEW T, NEW ts \in Seq(T), NEW ps, Nested(ps, Len(ts))
    PROVE  Abstract!TreesOn(Frames(ps, ts)) = ts
<1>1. PICK n \in Nat : n = Len(ps)
  BY LenProperties DEF Nested
<1>2. PICK d \in 0 .. Len(ps), e \in 0 .. Len(ps) : d = 0 /\ e = n /\ d <= e
  BY <1>1
<1>3. PICK F : F = Frames(ps, ts)
  OBVIOUS
<1>4. Abstract!TreesOn(SubSeq(F, d + 1, e + 1)) = SubSeq(ts, Start(ps, d) + 1, End(ps, ts, e))
  BY <1>2, <1>3, FramesTrees
<1>5. SubSeq(F, d + 1, e + 1) = F
  <2>1. F \in Seq(FrameT(T)) /\ Len(F) = n + 1
    BY <1>1, <1>3, FramesType
  <2>2. SubSeq(F, 1, Len(F)) = F
    BY <2>1, SubSeqFull
  <2>3. d + 1 = 1 /\ e + 1 = Len(F)
    BY <1>2, <2>1
  <2> QED
    BY <2>2, <2>3
<1>6. SubSeq(ts, Start(ps, d) + 1, End(ps, ts, e)) = ts
  <2>1. Start(ps, d) + 1 = 1 /\ End(ps, ts, e) = Len(ts)
    BY <1>1, <1>2 DEF Start, End
  <2> QED
    BY <2>1, SubSeqFull
<1> QED
  BY <1>3, <1>4, <1>5, <1>6

\* The size of a copy of the stack.
LEMMA SavedSize ==
    ASSUME NEW T, NEW ts \in Seq(T), NEW ps, Nested(ps, Len(ts)),
           NEW i, NEW p, NEW c, SavedIs(i, p, c, ps, ts)
    PROVE  /\ Len(AbstractSaved[i].stack) = p + 1
           /\ Len(Abstract!TreesOn(AbstractSaved[i].stack)) = c
<1>1. PICK qs, us : qs = SubSeq(ps, 1, p) /\ us = SubSeq(ts, 1, c)
  OBVIOUS
<1>2. CutAt(qs, us, ps, ts, p, c, T)
  BY <1>1, FramesOfPrefix DEF SavedIs
<1>3. Nested(qs, Len(us)) /\ Len(qs) = p /\ us \in Seq(T) /\ Len(us) = c
  BY <1>2 DEF CutAt
<1>4. AbstractSaved[i].stack = Frames(qs, us)
  BY <1>1 DEF SavedIs
<1>5. Len(Frames(qs, us)) = p + 1 /\ Abstract!TreesOn(Frames(qs, us)) = us
  <2>1. Len(Frames(qs, us)) = p + 1
    BY <1>3, FramesType
  <2>2. Abstract!TreesOn(Frames(qs, us)) = us
    BY <1>3, TreesOnFrames
  <2> QED
    BY <2>1, <2>2
<1> QED
  BY <1>3, <1>4, <1>5

\* Which checkpoints finish_node keeps.
FinishKeeps(n, first) ==
    /\ DOMAIN taken' = DOMAIN taken
    /\ \A i \in DOMAIN taken : taken'[i].valid \in BOOLEAN
    /\ \A i \in DOMAIN taken : taken'[i].valid =>
           /\ taken[i].valid
           /\ taken'[i].parents = taken[i].parents
           /\ taken'[i].children = taken[i].children
    /\ \A i \in DOMAIN taken : taken[i].valid =>
           taken'[i].valid = (n > checkpoints[i].parent_idx /\ first >= checkpoints[i].child_idx)

LEMMA FinishHistory ==
    ASSUME HInv, HFinishNode, NEW n, n = Len(parents), NEW first, first = parents[n].first_child
    PROVE  FinishKeeps(n, first)
<1>1. PICK D, V : D = StartedAfter /\ V = StartedBehind
  OBVIOUS
<1>2. Keep(D, V) /\ UNCHANGED checkpoints /\ HistoryOK /\ TypeOK
  BY <1>1 DEF HFinishNode, FinishNode, Panic, HInv, Inv
<1>3. /\ HistoryOK' /\ DOMAIN taken' = DOMAIN taken
      /\ \A j \in DOMAIN taken : taken'[j].valid =>
             /\ taken[j].valid /\ j \in D /\ j \in V
             /\ taken'[j].parents = taken[j].parents
             /\ taken'[j].children = taken[j].children
  BY <1>2, KeepDrops
<1>4. \A i \in DOMAIN taken :
          i \in V <=> n > checkpoints[i].parent_idx /\ first >= checkpoints[i].child_idx
  BY <1>1 DEF StartedBehind, StartedAfter
<1>5. V \subseteq D
  BY <1>1 DEF StartedBehind
<1>6. \A i \in DOMAIN taken : taken[i].valid /\ i \in V => taken'[i].valid
  BY <1>2, <1>5, KeepKeeps
<1>7. \A i \in DOMAIN taken : taken'[i].valid \in BOOLEAN
  <2>1. taken' \in Seq(Entry)
    BY <1>3 DEF HistoryOK, Entry
  <2>2. \A i \in DOMAIN taken' : taken'[i] \in Entry
    BY <2>1, ElementOfSeq, LenProperties
  <2> QED
    BY <1>3, <2>2 DEF Entry
<1>8. ASSUME NEW i \in DOMAIN taken, taken[i].valid
      PROVE  taken'[i].valid = (n > checkpoints[i].parent_idx /\ first >= checkpoints[i].child_idx)
  <2>1. taken'[i].valid <=> i \in V
    BY <1>3, <1>6, <1>8
  <2> QED
    BY <1>4, <1>7, <2>1
<1> QED
  BY <1>3, <1>7, <1>8 DEF FinishKeeps

\* Which checkpoints the finished node swallows: those that were taken inside
\* it, or that remember more trees than are left outside.
Swallows(I, n, c) ==
    I = {i \in DOMAIN AbstractSaved :
            \/ Len(AbstractSaved[i].stack) >= n + 1
            \/ Len(Abstract!TreesOn(AbstractSaved[i].stack)) > c}

LEMMA FinishSaved ==
    ASSUME HInv, Building, Building',
           NEW T, NEW f, NEW g, NEW D, NEW E, NEW ps, NEW cs, NEW ts,
           Stage(T, f, g, D, E, ps, cs, ts),
           NEW n \in Nat, n = Len(ps), NEW c \in Nat, FinishKeeps(n, c),
           NEW I, Swallows(I, n, c)
    PROVE  Abstract!Invalidate(I)
<1>1. DOMAIN AbstractSaved = DOMAIN taken
  BY DEF AbstractSaved
<1>2. ts \in Seq(T) /\ Nested(ps, Len(ts))
  BY DEF Stage
<1>3. ASSUME NEW i \in DOMAIN taken, taken[i].valid
      PROVE  (i \in I => ~ taken'[i].valid) /\ (i \notin I => taken'[i].valid = taken[i].valid)
  <2>1. PICK p, d : SavedIs(i, p, d, ps, ts)
    BY <1>3, SavedExists
  <2>2. /\ Len(AbstractSaved[i].stack) = p + 1
        /\ Len(Abstract!TreesOn(AbstractSaved[i].stack)) = d
    BY <1>2, <2>1, SavedSize
  <2>3. /\ p = checkpoints[i].parent_idx /\ d = checkpoints[i].child_idx
        /\ p \in Nat /\ d \in Nat
    <3>1. p \in 0 .. Len(ps)
      BY <2>1 DEF SavedIs
    <3> QED
      BY <2>1, <3>1 DEF SavedIs
  <2>4. i \in I <=> (p + 1 >= n + 1 \/ d > c)
    BY <1>1, <2>2 DEF Swallows
  <2>5. i \in I <=> ~ (n > p /\ c >= d)
    BY <2>3, <2>4
  <2>6. taken'[i].valid = (n > p /\ c >= d)
    BY <1>3, <2>3 DEF FinishKeeps
  <2>7. taken[i].valid = TRUE
    <3>1. taken[i] \in Entry
      BY TakenType DEF HInv, Inv
    <3> QED
      BY <1>3, <3>1 DEF Entry
  <2> QED
    BY <2>5, <2>6, <2>7
<1>4. ASSUME NEW i \in DOMAIN taken, ~ taken[i].valid
      PROVE  ~ taken'[i].valid /\ taken'[i].valid = taken[i].valid
  <2>1. ~ taken'[i].valid
    BY <1>4 DEF FinishKeeps
  <2>2. taken[i].valid \in BOOLEAN
    <3>1. taken[i] \in Entry
      BY TakenType DEF HInv, Inv
    <3> QED
      BY <3>1 DEF Entry
  <2>3. taken'[i].valid \in BOOLEAN
    BY DEF FinishKeeps
  <2> QED
    BY <1>4, <2>1, <2>2, <2>3
<1> QED
  BY <1>3, <1>4, SavedKept DEF FinishKeeps

\* What finish_node does to the stack.
Closed(F, G, outside, n, c) ==
    /\ G = Abstract!Recorded(outside, [kind |-> F[n + 1].kind, trees |-> F[n + 1].trees])
    /\ Len(F) = n + 1 /\ c \in Nat
    /\ Len(Abstract!TreesOn(outside)) = c

LEMMA FinishStack ==
    ASSUME HInv, Building, Building',
           NEW T, NEW f, NEW g, NEW D, NEW E, NEW ps, NEW cs, NEW ts,
           Stage(T, f, g, D, E, ps, cs, ts),
           NEW n \in Nat, n # 0, n = Len(ps), NEW c, c = ps[n].first_child,
           NEW drained, drained = SubSeq(cs, c + 1, Len(cs)),
           NEW x \in E, g[x] = [kind |-> ps[n].kind, trees |-> Read(g, drained)],
           parents' = SubSeq(ps, 1, n - 1), children' = Append(SubSeq(cs, 1, c), x),
           NEW outside, outside = SubSeq(AbstractStack, 1, n)
    PROVE  Closed(AbstractStack, AbstractStack', outside, n, c)
<1>1. /\ ts \in Seq(T) /\ Nested(ps, Len(ts)) /\ AbstractStack = Frames(ps, ts)
      /\ ts = Read(g, cs) /\ Len(ts) = Len(cs) /\ Len(cs) \in Nat
      /\ cs \in Seq(E) /\ Reading(g, E, T)
  BY DEF Stage
<1>2. PICK F, qs, us : F = Frames(ps, ts) /\ qs = SubSeq(ps, 1, n - 1) /\ us = SubSeq(ts, 1, c)
  OBVIOUS
<1>3. /\ c \in Nat /\ c <= Len(ts)
      /\ Nested(qs, Len(us)) /\ us \in Seq(T) /\ Len(us) = c
      /\ Frames(qs, us) = SubSeq(F, 1, n)
      /\ F[n + 1] = [kind |-> ps[n].kind, trees |-> SubSeq(ts, c + 1, Len(ts))]
  <2>1. n \in Nat /\ n # 0 /\ n = Len(ps) /\ c = ps[n].first_child
    OBVIOUS
  <2>2. /\ c \in Nat /\ c <= Len(ts)
        /\ Nested(SubSeq(ps, 1, n - 1), Len(SubSeq(ts, 1, c)))
        /\ SubSeq(ts, 1, c) \in Seq(T) /\ Len(SubSeq(ts, 1, c)) = c
        /\ Frames(SubSeq(ps, 1, n - 1), SubSeq(ts, 1, c)) = SubSeq(F, 1, n)
        /\ F[n + 1] = [kind |-> ps[n].kind, trees |-> SubSeq(ts, c + 1, Len(ts))]
    <3>1. ts \in Seq(T) /\ Nested(ps, Len(ts)) /\ F = Frames(ps, ts)
      BY <1>1, <1>2
    <3>2. Closes(F, ps, ts, n, c, T)
      BY ONLY <2>1, <3>1, FramesFinish
    <3> QED
      BY <3>2 DEF Closes
  <2> QED
    BY ONLY <1>2, <2>2
<1>4. PICK b \in Nat : b = Len(cs) /\ c <= b
  BY <1>1, <1>3
<1>5. Read(g, drained) = SubSeq(ts, c + 1, b)
  <2>1. drained = SubSeq(cs, c + 1, b) /\ b <= Len(cs) /\ c \in Nat /\ b \in Nat /\ c <= b
    BY <1>3, <1>4
  <2>2. Read(g, SubSeq(cs, c + 1, b)) = SubSeq(Read(g, cs), c + 1, b)
    BY ONLY <1>1, <2>1, ReadPart
  <2> QED
    BY ONLY <1>1, <2>1, <2>2
<1>6. g[x] = F[n + 1] /\ g[x] \in T
  <2>1. b = Len(ts)
    BY <1>1, <1>4
  <2>2. g[x] \in T
    BY <1>1 DEF Reading
  <2> QED
    BY <1>3, <1>5, <2>1, <2>2
<1>7. PICK stay : stay = SubSeq(cs, 1, c)
  OBVIOUS
<1>8. Read(g, stay) = us /\ stay \in Seq(E)
  <2>1. c <= Len(cs) /\ c \in 0 .. Len(cs)
    BY <1>1, <1>3
  <2>2. Read(g, stay) = us
    <3>1. Read(g, SubSeq(cs, 1, c)) = SubSeq(Read(g, cs), 1, c)
      BY ONLY <1>1, <1>3, <2>1, ReadPrefix
    <3> QED
      BY ONLY <1>1, <1>2, <1>7, <3>1
  <2>3. stay \in Seq(E)
    BY <1>1, <1>7, <2>1, PrefixOfSeq
  <2> QED
    BY <2>2, <2>3
<1>9. Read(g, Append(stay, x)) = Append(us, g[x])
  <2>1. Reading(g, E, T) /\ stay \in Seq(E) /\ x \in E
    BY <1>1, <1>8
  <2>2. Read(g, Append(stay, x)) = Append(Read(g, stay), g[x])
    BY ONLY <2>1, ReadAppend
  <2> QED
    BY ONLY <1>8, <2>2
<1>10. AbstractStack' = Frames(qs, Append(us, g[x]))
  <2>1. PICK vs : vs = Append(stay, x)
    OBVIOUS
  <2>2. qs = parents' /\ vs = children'
    BY <1>2, <1>7, <2>1
  <2>3. AbstractStack' = Frames(qs, Read(g, vs))
    BY <2>2, StackNext
  <2> QED
    BY <1>9, <2>1, <2>3
<1>11. PICK t \in T : t = g[x]
  BY <1>6
<1>12. Frames(qs, Append(us, t)) = Abstract!Recorded(Frames(qs, us), t)
  BY <1>3, FramesRecord
<1>13. outside = SubSeq(F, 1, n) /\ AbstractStack = F
  BY <1>1, <1>2
<1>14. AbstractStack' = Abstract!Recorded(outside, t)
  BY <1>3, <1>10, <1>11, <1>12, <1>13
<1>15. t = [kind |-> AbstractStack[n + 1].kind, trees |-> AbstractStack[n + 1].trees]
  BY <1>3, <1>6, <1>11, <1>13
<1>16. Abstract!TreesOn(outside) = us
  BY <1>3, <1>13, TreesOnFrames
<1>17. Len(AbstractStack) = n + 1
  <2>1. Len(F) = Len(ps) + 1
    BY <1>1, <1>2, FramesType
  <2> QED
    BY <1>13, <2>1
<1> QED
  BY <1>3, <1>14, <1>15, <1>16, <1>17 DEF Closed

LEMMA FinishNodeRefines ==
    ASSUME HInv, TypeOK', CacheInv, CollisionFree, HFinishNode
    PROVE  Abstract!Panic \/ Abstract!FinishNode
<1>1. /\ Building /\ FinishNode /\ UNCHANGED <<values, checkpoints, tree>> /\ ValuesKept
      /\ TypeOK
  BY DEF HFinishNode, FinishNode, Panic, ValuesKept, cacheVars, HInv, Inv
<1>2. PICK n, c, kind : n = Len(parents) /\ c = parents[n].first_child /\ kind = parents[n].kind
  OBVIOUS
<1>3. FinishKeeps(n, c)
  BY <1>2, FinishHistory
<1>4. PICK stay, drained : /\ stay = SubSeq(children, 1, c)
                           /\ drained = SubSeq(children, c + 1, Len(children))
  OBVIOUS
<1>5. CASE status' = "panicked"
  <2>1. HeapKept
    <3>1. UNCHANGED heap \/ (PushNode(kind, stay, drained) /\ UNCHANGED status)
      BY <1>2, <1>4 DEF HFinishNode, FinishNode, Panic, cacheVars
    <3>2. UNCHANGED heap
      BY <1>1, <1>5, <3>1 DEF Building
    <3> QED
      BY <3>2 DEF HeapKept
  <2> QED
    BY <1>1, <1>3, <1>5, <2>1, PanicRefines DEF FinishKeeps
<1>6. CASE status' # "panicked"
  <2>1. /\ parents # <<>> /\ parents' = SubSeq(parents, 1, n - 1)
        /\ PushNode(kind, stay, drained) /\ Building' /\ status' = status
    BY <1>1, <1>2, <1>4, <1>6 DEF FinishNode, Panic, Building
  <2>2. n \in Nat /\ n # 0 /\ n \in 1 .. Len(parents) /\ c \in Nat /\ c <= Len(children)
    <3>1. /\ parents \in Seq(ParentT) /\ Nested(parents, Len(children))
      BY <1>1, NestedNow
    <3>2. n \in Nat /\ n # 0
      BY <1>2, <2>1, <3>1, EmptySeq, LenProperties
    <3>3. n \in 1 .. Len(parents)
      BY <1>2, <3>2
    <3>4. parents[n] \in ParentT
      BY <3>1, <3>3, ElementOfSeq
    <3> QED
      BY <1>2, <3>1, <3>2, <3>3, <3>4 DEF ParentT, Nested
  <2>3. drained \in Seq(DOMAIN heap) /\ drained \in Hashed
    <3>1. children \in Seq(DOMAIN heap)
      BY <1>1 DEF TypeOK
    <3>2. PICK b \in Nat : b = Len(children) /\ c <= b
      BY <2>2, <3>1, LenProperties
    <3>3. drained \in Seq(DOMAIN heap)
      <4>1. drained = SubSeq(children, c + 1, b) /\ b <= Len(children)
        BY <1>4, <3>2
      <4> QED
        BY <2>2, <3>1, <3>2, <4>1, Part
    <3>4. n \in DOMAIN parents \cap {Len(parents)}
      BY <1>1, <1>2, <2>2, LenProperties DEF TypeOK
    <3>5. drained \in Hashed
      BY <1>2, <1>4, <3>4 DEF Hashed
    <3> QED
      BY <3>3, <3>5
  <2>4. /\ HeapKept
        /\ \E x \in DOMAIN heap' :
               /\ children' = Append(stay, x)
               /\ TreeOf'[x] = [kind |-> kind, trees |-> Read(TreeOf', drained)]
    BY <1>1, <2>1, <2>3, PushedNode
  <2>5. AtWork
    BY <1>1, <2>4 DEF AtWork
  <2>6. PICK T, f, g, D, E, ps, cs, ts : Stage(T, f, g, D, E, ps, cs, ts)
    BY <2>5, StageNow
  <2>7. ps = parents /\ cs = children /\ g = TreeOf' /\ E = DOMAIN heap'
    BY <2>6 DEF Stage
  <2>8. PICK x \in E : /\ children' = Append(stay, x)
                       /\ g[x] = [kind |-> ps[n].kind, trees |-> Read(g, drained)]
    BY <1>2, <2>4, <2>7
  <2>9. PICK F, outside : F = AbstractStack /\ outside = SubSeq(F, 1, n)
    OBVIOUS
  <2>10. /\ n = Len(ps) /\ c = ps[n].first_child
         /\ drained = SubSeq(cs, c + 1, Len(cs))
         /\ parents' = SubSeq(ps, 1, n - 1) /\ children' = Append(SubSeq(cs, 1, c), x)
         /\ outside = SubSeq(AbstractStack, 1, n)
    BY <1>2, <1>4, <2>1, <2>7, <2>8, <2>9
  <2>11. /\ AbstractStack' = Abstract!Recorded(outside, [kind |-> F[n + 1].kind, trees |-> F[n + 1].trees])
         /\ Len(F) = n + 1
         /\ Len(Abstract!TreesOn(outside)) = c
    <3>1. Closed(AbstractStack, AbstractStack', outside, n, c)
      BY ONLY HInv, <1>1, <2>1, <2>2, <2>6, <2>8, <2>10, FinishStack
    <3> QED
      BY <2>9, <3>1 DEF Closed
  <2>12. PICK I : Swallows(I, n, c)
    BY DEF Swallows
  <2>13. Abstract!Invalidate(I)
    BY ONLY HInv, <1>1, <1>3, <2>1, <2>2, <2>6, <2>10, <2>12, FinishSaved
  <2>14. AbstractResult' = AbstractResult
    BY <1>1, <2>4, <2>5, ResultKept DEF AtWork
  <2>15. Abstract!Depth = n + 1 /\ Abstract!Depth > 1 /\ Abstract!Depth - 1 = n
         /\ Abstract!Top = F[n + 1]
    BY <2>2, <2>9, <2>11 DEF Abstract!Depth, Abstract!Top
  <2>16. outside = SubSeq(AbstractStack, 1, Abstract!Depth - 1)
    BY <2>9, <2>15
  <2>17. I = {i \in DOMAIN AbstractSaved :
                 \/ Len(AbstractSaved[i].stack) >= Abstract!Depth
                 \/ Len(Abstract!TreesOn(AbstractSaved[i].stack)) > Len(Abstract!TreesOn(outside))}
    BY <2>11, <2>12, <2>15 DEF Swallows
  <2>18. AbstractStack' = Abstract!Recorded(outside, [kind |-> Abstract!Top.kind, trees |-> Abstract!Top.trees])
    BY <2>11, <2>15
  <2> QED
    BY <1>1, <2>1, <2>13, <2>14, <2>15, <2>16, <2>17, <2>18 DEF Abstract!FinishNode, Building
<1> QED
  BY <1>5, <1>6

----------------------------------------------------------------------------
(* finish, and the next builder *)

LEMMA KeepNothing ==
    ASSUME HInv, Keep({}, {}), UNCHANGED checkpoints
    PROVE  DOMAIN taken' = DOMAIN taken /\ \A i \in DOMAIN taken : ~ taken'[i].valid
<1>1. PICK D : D = {}
  OBVIOUS
<1>2. Keep(D, D) /\ HistoryOK /\ TypeOK
  BY <1>1 DEF HInv, Inv
<1>3. DOMAIN taken' = DOMAIN taken /\ \A i \in DOMAIN taken : taken'[i].valid => i \in D
  BY <1>2, KeepDrops
<1> QED
  BY <1>1, <1>3

LEMMA FinishRefines ==
    ASSUME HInv, TypeOK', CacheInv, HFinish
    PROVE  Abstract!Panic \/ Abstract!Finish
<1>1. /\ Building /\ UNCHANGED <<cacheVars, checkpoints>> /\ Keep({}, {}) /\ TypeOK
      /\ HeapKept /\ ValuesKept
  BY DEF HFinish, Finish, Panic, cacheVars, HInv, Inv, HeapKept, ValuesKept
<1>2. DOMAIN taken' = DOMAIN taken /\ \A i \in DOMAIN taken : ~ taken'[i].valid
  BY <1>1, KeepNothing
<1>3. CASE Panic
  BY <1>1, <1>2, <1>3, PanicRefines DEF Panic
<1>4. CASE ~ Panic
  <2>1. /\ RootComplete /\ tree' = children[1]
        /\ status' = "finished" /\ ~ Building'
    BY <1>4 DEF HFinish, Finish, Building
  <2>2. PICK T, f, g, D, E, ps, cs, ts : Stage(T, f, g, D, E, ps, cs, ts)
    BY <1>1, StageExists
  <2>3. /\ g = TreeOf' /\ cs = children /\ cs \in Seq(DOMAIN heap) /\ Len(cs) = 1
        /\ ts \in Seq(T) /\ Nested(ps, Len(ts)) /\ ts = Read(g, cs) /\ Len(ts) = Len(cs)
        /\ AbstractStack = Frames(ps, ts)
    BY <2>1, <2>2 DEF Stage, RootComplete
  <2>4. cs[1] \in DOMAIN heap /\ cs[1] # NoElement /\ tree' = cs[1]
    <3>1. 1 \in 1 .. Len(cs)
      BY <2>3
    <3>2. cs[1] \in DOMAIN heap
      BY <2>3, <3>1, ElementOfSeq
    <3>3. DOMAIN heap \subseteq Nat \ {0}
      BY <1>1, LenProperties DEF TypeOK
    <3> QED
      BY <2>1, <2>3, <3>2, <3>3 DEF NoElement
  <2>5. ts = <<g[cs[1]]>>
    <3>1. DOMAIN cs = 1 .. 1
      BY <2>3, LenProperties
    <3>2. ts[1] = g[cs[1]] /\ ts \in Seq(T) /\ Len(ts) = 1
      BY <2>3, <3>1 DEF Read
    <3>3. ts = <<ts[1]>>
      BY <3>2
    <3> QED
      BY <3>2, <3>3
  <2>6. AbstractResult' = ts
    BY <2>3, <2>4, <2>5 DEF AbstractResult
  <2>7. Abstract!TreesFrom(1) = ts
    <3>1. PICK F : F = Frames(ps, ts)
      OBVIOUS
    <3>2. F \in Seq(FrameT(T))
      BY <2>3, <3>1, FramesType
    <3>3. SubSeq(F, 1, Len(F)) = F
      BY <3>2, SubSeqFull
    <3>4. Abstract!TreesOn(F) = ts
      BY <2>3, <3>1, TreesOnFrames
    <3> QED
      BY <2>3, <3>1, <3>3, <3>4 DEF Abstract!TreesFrom, Abstract!Depth
  <2>8. AbstractStack' = Abstract!Empty
    BY <2>1, NothingIsEmpty DEF AbstractStack, Nothing, Frames, Frame, Start, End
  <2>9. Abstract!InvalidateAll
    BY <1>2, SavedGone
  <2>10. Len(Abstract!TreesFrom(1)) = 1
    BY <2>3, <2>7
  <2> QED
    BY <1>1, <2>1, <2>6, <2>7, <2>8, <2>9, <2>10 DEF Abstract!Finish, Building
<1> QED
  BY <1>3, <1>4

\* with_cache, with_interner and new.
LEMMA NewBuilderRefines ==
    ASSUME HInv, FreshBuilder, Keep({}, {})
    PROVE  Abstract!NewBuilder
<1>1. /\ parents' = <<>> /\ children' = <<>> /\ status' = "building" /\ tree' = NoElement
      /\ UNCHANGED checkpoints
  BY DEF FreshBuilder
<1>2. Abstract!InvalidateAll
  BY <1>1, KeepNothing, SavedGone
<1>3. AbstractResult' = <<>>
  BY <1>1 DEF AbstractResult
<1>4. AbstractStack' = Abstract!Empty
  <2>1. PICK z : z = Trees(children)'
    OBVIOUS
  <2>2. z = <<>>
    BY <1>1, <2>1 DEF Trees
  <2>3. AbstractStack' = Frames(<<>>, <<>>)
    BY <1>1, <2>1, <2>2 DEF AbstractStack, Building
  <2> QED
    BY <2>3, NothingIsEmpty DEF Nothing
<1> QED
  BY <1>1, <1>2, <1>3, <1>4 DEF Abstract!NewBuilder

LEMMA InitRefines ==
    ASSUME HInit
    PROVE  Abstract!TInit
<1>1. /\ parents = <<>> /\ children = <<>> /\ status = "building" /\ tree = NoElement
      /\ taken = <<>>
  BY DEF HInit, Init
<1>2. AbstractResult = <<>>
  BY <1>1 DEF AbstractResult
<1>3. AbstractSaved = <<>>
  BY <1>1 DEF AbstractSaved
<1>4. AbstractStack = Abstract!Empty
  <2>1. Trees(children) = <<>>
    BY <1>1 DEF Trees
  <2> QED
    BY <1>1, <2>1, NothingIsEmpty DEF AbstractStack, Building, Nothing
<1> QED
  BY <1>1, <1>2, <1>3, <1>4 DEF Abstract!TInit

----------------------------------------------------------------------------
(* Every step, and the theorem *)

\* Nothing happens.
LEMMA StutterRefines ==
    ASSUME HInv, TypeOK', CacheInv, UNCHANGED hvars
    PROVE  UNCHANGED <<AbstractStack, AbstractSaved, status, AbstractResult>>
<1>1. UNCHANGED <<heap, values, parents, children, status, tree, taken>>
  BY DEF hvars, vars
<1>2. HeapKept /\ ValuesKept
  BY <1>1 DEF HeapKept, ValuesKept
<1>3. CASE Building
  BY <1>1, <1>2, <1>3, InvisibleRefines DEF AtWork
<1>4. CASE ~ Building
  <2>1. ~ Building'
    BY <1>1, <1>4 DEF Building
  <2>2. AbstractStack' = AbstractStack
    BY <1>4, <2>1 DEF AbstractStack
  <2>3. AbstractSaved' = AbstractSaved
    BY <1>1, <1>4, <2>1 DEF AbstractSaved
  <2>4. AbstractResult' = AbstractResult
    BY <1>1, <1>2, ResultKept DEF HInv, Inv
  <2> QED
    BY <1>1, <2>2, <2>3, <2>4
<1> QED
  BY <1>3, <1>4

\* get_or_intern on the builder's interner.
LEMMA InternerMutRefines ==
    ASSUME HInv, TypeOK', CacheInv, UNCHANGED taken, NEW d \in ValidData, InternerMut(d)
    PROVE  UNCHANGED <<AbstractStack, AbstractSaved, status, AbstractResult>>
<1>1. /\ Building /\ UNCHANGED <<heap, parents, children, status, tree>>
      /\ values' = InternedValues(d)
  BY DEF InternerMut, stackVars
<1>2. ValuesKept
  <2>1. d \in Data
    BY GreenBuilderAssumption
  <2> QED
    BY <1>1, <2>1, InternKeepsValues DEF HInv, Inv, CacheInv
<1>3. HeapKept
  BY <1>1 DEF HeapKept
<1> QED
  BY <1>1, <1>2, <1>3, InvisibleRefines DEF AtWork

\* token and token_from_bytes, static_token.
LEMMA TokenRefines ==
    ASSUME HInv, TypeOK', CacheInv, UNCHANGED taken, NEW k \in TokenKinds, NEW d \in Data,
           Building, RecordToken(k, d)
    PROVE  Abstract!Panic \/ \E e \in Data : Abstract!Record(k, e)
<1>1. ValuesKept
  BY RecordTokenCache DEF HInv, Inv
<1> QED
  BY <1>1, RecordTokenRefines

LEMMA StaticRecordRefines ==
    ASSUME HInv, TypeOK', CacheInv, UNCHANGED taken, NEW k \in TokenKinds, StaticToken(k)
    PROVE  Abstract!Panic \/ \E e \in Data : Abstract!Record(k, e)
<1>1. ValuesKept
  BY DEF StaticToken, Panic, cacheVars, ValuesKept
<1> QED
  BY <1>1, StaticTokenRefines

LEMMA StepRefines ==
    ASSUME HInv, HInv', CacheInv, CollisionFree, [HNext]_hvars
    PROVE  [Abstract!TNext]_(Abstract!tvars)
<1>0. TypeOK' /\ DOMAIN AbstractSaved = DOMAIN taken /\ DOMAIN checkpoints = DOMAIN taken
  BY TakenType DEF HInv, Inv, AbstractSaved
<1> DEFINE Goal == Abstract!TNext \/ UNCHANGED <<AbstractStack, AbstractSaved, status, AbstractResult>>
<1>1. ASSUME NEW k \in TokenKinds, Abstract!Panic \/ \E e \in Data : Abstract!Record(k, e)
      PROVE  Goal
  BY <1>1 DEF Abstract!TNext
<1>2. ASSUME NEW k \in TokenKinds, NEW d \in Data, UNCHANGED taken, Building, RecordToken(k, d)
      PROVE  Goal
  BY <1>0, <1>1, <1>2, TokenRefines
<1>3. ASSUME NEW k \in TokenKinds, NEW d \in Data, Token(k, d), UNCHANGED taken PROVE Goal
  BY <1>2, <1>3 DEF Token
<1>4. ASSUME NEW k \in TokenKinds, NEW d \in Data, TokenFromBytes(k, d), UNCHANGED taken PROVE Goal
  BY <1>2, <1>4 DEF TokenFromBytes
<1>5. ASSUME NEW k \in TokenKinds, StaticToken(k), UNCHANGED taken PROVE Goal
  BY <1>0, <1>1, <1>5, StaticRecordRefines
<1>6. ASSUME NEW d \in ValidData, InternerMut(d), UNCHANGED taken PROVE Goal
  BY <1>0, <1>6, InternerMutRefines
<1>7. ASSUME NEW k \in NodeKinds, StartNode(k), UNCHANGED taken PROVE Goal
  <2>1. Abstract!StartNode(k)
    BY <1>0, <1>7, StartNodeRefines
  <2> QED
    BY <2>1 DEF Abstract!TNext
<1>8. ASSUME HFinishNode PROVE Goal
  <2>1. Abstract!Panic \/ Abstract!FinishNode
    BY <1>0, <1>8, FinishNodeRefines
  <2> QED
    BY <2>1 DEF Abstract!TNext
<1>9. ASSUME HTakeCheckpoint PROVE Goal
  <2>1. Abstract!Save
    BY <1>0, <1>9, TakeCheckpointRefines
  <2> QED
    BY <2>1 DEF Abstract!TNext
<1>10. ASSUME NEW i \in DOMAIN checkpoints, HRevertTo(i) PROVE Goal
  <2>1. PICK j \in DOMAIN taken : j = i
    BY <1>0
  <2>2. Abstract!Panic \/ Abstract!Revert(j) \/ Abstract!RevertInvalid(j)
    BY <1>0, <1>10, <2>1, RevertRefines
  <2> QED
    BY <1>0, <2>2 DEF Abstract!TNext
<1>11. ASSUME NEW i \in DOMAIN checkpoints, NEW k \in NodeKinds, StartNodeAt(i, k), UNCHANGED taken
       PROVE  Goal
  <2>1. PICK j \in DOMAIN taken : j = i
    BY <1>0
  <2>2. Abstract!Panic \/ Abstract!StartNodeAt(j, k) \/ Abstract!StartNodeAtInvalid(j, k)
    BY <1>0, <1>11, <2>1, StartNodeAtRefines
  <2> QED
    BY <1>0, <2>2 DEF Abstract!TNext
<1>12. ASSUME HFinish PROVE Goal
  <2>1. Abstract!Panic \/ Abstract!Finish
    BY <1>0, <1>12, FinishRefines
  <2> QED
    BY <2>1 DEF Abstract!TNext
<1>13. ASSUME HWithCache \/ HWithInterner \/ HNew PROVE Goal
  <2>1. Abstract!NewBuilder
    BY <1>13, NewBuilderRefines
       DEF HWithCache, HWithInterner, HNew, WithCache, WithInterner, New
  <2> QED
    BY <2>1 DEF Abstract!TNext
<1>14. ASSUME UNCHANGED hvars PROVE Goal
  BY <1>0, <1>14, StutterRefines
<1>15. Goal
  <2> HIDE DEF Goal
  <2> QED
    BY <1>3, <1>4, <1>5, <1>6, <1>7, <1>8, <1>9, <1>10, <1>11, <1>12, <1>13, <1>14 DEF HNext
<1> QED
  BY <1>15 DEF Abstract!tvars

\* The node cache stays correct under the history, too.
LEMMA HistoryCache == HSpec => []CacheInv
<1>1. HInit => CacheInv
  BY CacheInit DEF HInit
<1>2. HInv /\ CacheInv /\ [HNext]_hvars => CacheInv'
  BY HNextIsNext, CacheNext DEF HInv
<1> QED
  BY <1>1, <1>2, HInvariance, PTL DEF HSpec

\* As long as no two nodes collide in the 32-bit hash of their children, the
\* builder, its caches, its interner and its index checkpoints implement the
\* builder of trees: what finish returns is the tree the client described.
THEOREM BuilderRefinementCorrect == HSpec /\ []CollisionFree => ImplementsTreeBuilder
<1>1. HInit => Abstract!TInit
  BY InitRefines
<1>2. HInv /\ HInv' /\ CacheInv /\ CollisionFree /\ [HNext]_hvars
        => [Abstract!TNext]_(Abstract!tvars)
  BY StepRefines
<1> QED
  BY <1>1, <1>2, HInvariance, HistoryCache, PTL
     DEF HSpec, ImplementsTreeBuilder, Abstract!TSpec

\* start_node_at at a checkpoint that is still valid: the new node takes over
\* exactly what was recorded since the checkpoint was taken, whatever happened
\* at other checkpoints in between.
THEOREM StartNodeAtCorrect == HSpec => StartNodeAtWraps
<1>1. (HInv /\ CacheInv) /\ HInv' /\ [HNext]_hvars =>
        [\A i \in DOMAIN taken, k \in NodeKinds :
            StartNodeAt(i, k) /\ UNCHANGED taken /\ taken[i].valid /\ Building'
                => Abstract!StartNodeAt(i, k)]_hvars
  <2> SUFFICES ASSUME HInv, CacheInv, HInv', NEW i \in DOMAIN taken, NEW k \in NodeKinds,
                      StartNodeAt(i, k), UNCHANGED taken, taken[i].valid, Building'
               PROVE  Abstract!StartNodeAt(i, k)
    OBVIOUS
  <2>1. Abstract!Panic \/ Abstract!StartNodeAt(i, k) \/ Abstract!StartNodeAtInvalid(i, k)
    <3>1. TypeOK'
      BY DEF HInv, Inv
    <3> QED
      BY <3>1, StartNodeAtRefines
  <2>2. ~ Abstract!Panic
    BY DEF Abstract!Panic, Building
  <2>3. ~ Abstract!StartNodeAtInvalid(i, k)
    <3>1. AbstractSaved[i].valid
      BY DEF AbstractSaved, StartNodeAt, Building
    <3> QED
      BY <3>1 DEF Abstract!StartNodeAtInvalid
  <2> QED
    BY <2>1, <2>2, <2>3
<1> QED
  BY <1>1, HInvariance, HistoryCache, PTL DEF HSpec, StartNodeAtWraps
=============================================================================
