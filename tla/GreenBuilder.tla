---------------------------- MODULE GreenBuilder ----------------------------
(***************************************************************************)
(* The green-tree builder of cstree (green/builder.rs): GreenNodeBuilder,  *)
(* the NodeCache it deduplicates through and the TokenInterner behind it.  *)
(*                                                                         *)
(* Green elements are reference-counted allocations, so the model keeps    *)
(* them in `heap' and an element is its index there: two elements share    *)
(* an allocation iff they are the same index.  A HashMap of the cache is   *)
(* the set of the elements it holds, each filed under its own head or      *)
(* token data.  A panic is a terminal status of the builder.               *)
(***************************************************************************)
EXTENDS Integers, Sequences, Functions

CONSTANTS
    NodeKinds,       \* kinds the client starts nodes with
    TokenKinds,      \* kinds the client records tokens with
    Data,            \* byte strings the client passes as token text
    ValidData,       \* those that S::Data::from_bytes accepts
    NoData,          \* static_data(kind) = None
    StaticData,      \* S::static_data, per token kind
    ByteLen,         \* length in bytes of each byte string
    ChildHash(_),    \* FxHash of a sequence of heads and token data, as u32
    CacheThreshold,  \* CHILDREN_CACHE_THRESHOLD
    MaxKeys,         \* N_INDICES, the size of the interner's key space
    U32,             \* 2^32, the modulus of text lengths
    DebugAssertions, \* whether the build has debug assertions
    MaxDepth,        \* bound: unfinished nodes
    MaxChildren,     \* bound: elements on the builder's stack
    MaxHeap,         \* bound: green elements created through one cache
    MaxCheckpoints   \* bound: checkpoints a client holds

ASSUME GreenBuilderAssumption ==
    /\ ValidData \subseteq Data
    /\ NoData \notin Data
    /\ StaticData \in [TokenKinds -> ValidData \cup {NoData}]
    /\ ByteLen \in [Data -> Nat]
    /\ CacheThreshold \in Nat
    /\ MaxKeys \in Nat
    /\ U32 \in Nat \ {0}
    /\ DebugAssertions \in BOOLEAN
    /\ {MaxDepth, MaxChildren, MaxHeap, MaxCheckpoints} \subseteq Nat

VARIABLES
    heap,        \* every green element created through the current cache
    nodes,       \* NodeCache.nodes: the cached nodes
    tokens,      \* NodeCache.tokens: the cached tokens
    values,      \* TokenInterner.values; key k resolves to values[k]
    parents,     \* GreenNodeBuilder.parents
    children,    \* GreenNodeBuilder.children
    checkpoints, \* the Checkpoints handed out, oldest first
    status,      \* "building", "finished" or "panicked"
    tree         \* the root that finish returned, NoElement before

cacheVars == <<heap, nodes, tokens, values>>
stackVars == <<parents, children>>
vars == <<heap, nodes, tokens, values, parents, children, checkpoints, status, tree>>

NoElement == 0
NoKey == 0  \* the niche of Option<TokenKey>: a TokenKey is a NonZeroU32

----------------------------------------------------------------------------
(* Green elements *)

GreenToken(kind, key, len) ==
    [tag |-> "token", kind |-> kind, key |-> key, len |-> len,
     hash |-> ChildHash(<<>>), children |-> <<>>]

GreenNode(kind, len, hash, elements) ==
    [tag |-> "node", kind |-> kind, key |-> NoKey, len |-> len,
     hash |-> hash, children |-> elements]

IsNode(e) == heap[e].tag = "node"

\* What an element feeds to its parent's hasher: a node its head, a token its data.
HashInput(e) ==
    IF IsNode(e)
    THEN [kind |-> heap[e].kind, len |-> heap[e].len, hash |-> heap[e].hash]
    ELSE [kind |-> heap[e].kind, key |-> heap[e].key, len |-> heap[e].len]

HashOf(elements) == ChildHash([i \in DOMAIN elements |-> HashInput(elements[i])])

\* `text_len += child.text_len()' for every child.
SumOf(lens) ==
    LET sum[i \in 0 .. Len(lens)] == IF i = 0 THEN 0 ELSE sum[i - 1] + lens[i]
    IN  sum[Len(lens)]

TotalLen(elements) == SumOf([i \in DOMAIN elements |-> heap[elements[i]].len])

\* `text_len += child.text_len()' overflows: a panic with debug assertions,
\* a wrap-around without.
TextLenPanics(elements) == DebugAssertions /\ TotalLen(elements) >= U32

\* Mutant: saturates.
TextLen_Saturating(elements) == IF TotalLen(elements) < U32 THEN TotalLen(elements) ELSE U32 - 1

TextLen(elements) == TotalLen(elements) % U32

----------------------------------------------------------------------------
(* TokenInterner *)

Interned(data) == \E k \in DOMAIN values : values[k] = data

\* Mutant: looks whether there are keys left before looking for the text.
InternFails_FullFirst(data) ==
    \/ Len(values) >= MaxKeys
    \/ ~ Interned(data) /\ data \notin ValidData

InternFails(data) ==
    /\ ~ Interned(data)
    /\ Len(values) >= MaxKeys \/ data \notin ValidData

\* Mutant: stores a text again that it already knows.
InternedValues_Again(data) == Append(values, data)

InternedValues(data) == IF Interned(data) THEN values ELSE Append(values, data)

InternedKey(data) ==
    IF Interned(data) THEN CHOOSE k \in DOMAIN values : values[k] = data
                      ELSE Len(values) + 1

----------------------------------------------------------------------------
(* NodeCache *)

CachedTokens(kind, key, len) ==
    {t \in tokens : heap[t].kind = kind /\ heap[t].key = key /\ heap[t].len = len}

\* Mutant: looks nodes up without the hash of their children.
CachedNodes_NoHash(kind, len, hash) == {n \in nodes : heap[n].kind = kind /\ heap[n].len = len}

CachedNodes(kind, len, hash) ==
    {n \in nodes : heap[n].kind = kind /\ heap[n].len = len /\ heap[n].hash = hash}

\* NodeCache::token, and the push of the token it returns.
PushToken(kind, key, len) ==
    LET hits == CachedTokens(kind, key, len)
        new  == Len(heap) + 1
    IN  \/ /\ \E t \in hits : children' = Append(children, t)
           /\ UNCHANGED <<heap, tokens>>
        \/ /\ hits = {}
           /\ new <= MaxHeap
           /\ heap' = Append(heap, GreenToken(kind, key, len))
           /\ tokens' = tokens \cup {new}
           /\ children' = Append(children, new)

\* Mutant: caches only nodes with fewer children than the threshold.
PushNode_Fewer(kind, stay, drained) ==
    LET len  == TextLen(drained)
        hash == HashOf(drained)
        hits == IF Len(drained) < CacheThreshold THEN CachedNodes(kind, len, hash) ELSE {}
        new  == Len(heap) + 1
    IN  /\ Len(stay) < MaxChildren
        /\ \/ /\ \E n \in hits : children' = Append(stay, n)
              /\ UNCHANGED <<heap, nodes>>
           \/ /\ hits = {} /\ new <= MaxHeap
              /\ heap' = Append(heap, GreenNode(kind, len, hash, drained))
              /\ children' = Append(stay, new)
              /\ nodes' = IF Len(drained) < CacheThreshold THEN nodes \cup {new} ELSE nodes

\* NodeCache::node on the drained elements, and the push of its result onto
\* the ones that stay.
PushNode(kind, stay, drained) ==
    LET len  == TextLen(drained)
        hash == HashOf(drained)
        hits == CachedNodes(kind, len, hash)
        new  == Len(heap) + 1
        Allocate ==
            /\ new <= MaxHeap
            /\ heap' = Append(heap, GreenNode(kind, len, hash, drained))
            /\ children' = Append(stay, new)
    IN  /\ Len(stay) < MaxChildren
        /\ \/ /\ Len(drained) <= CacheThreshold
              /\ \E n \in hits : children' = Append(stay, n)
              /\ UNCHANGED <<heap, nodes>>
           \/ /\ Len(drained) <= CacheThreshold
              /\ hits = {}
              /\ Allocate
              /\ nodes' = nodes \cup {new}
           \/ /\ Len(drained) > CacheThreshold
              /\ Allocate
              /\ UNCHANGED nodes

----------------------------------------------------------------------------
(* GreenNodeBuilder *)

Building == status = "building"

Panic ==
    /\ status' = "panicked"
    /\ UNCHANGED <<cacheVars, stackVars, checkpoints, tree>>

Init ==
    /\ heap = <<>> /\ nodes = {} /\ tokens = {} /\ values = <<>>
    /\ parents = <<>> /\ children = <<>> /\ checkpoints = <<>>
    /\ status = "building" /\ tree = NoElement

\* The common body of token and token_from_bytes.
RecordToken(kind, data) ==
    LET static == StaticData[kind] IN
    \/ /\ static # NoData
       /\ DebugAssertions /\ data # static
       /\ Panic
    \/ /\ static # NoData
       /\ DebugAssertions => data = static
       /\ PushToken(kind, NoKey, ByteLen[static] % U32)
       /\ UNCHANGED <<nodes, values, parents, checkpoints, status, tree>>
    \/ /\ static = NoData
       /\ InternFails(data)
       /\ Panic
    \/ /\ static = NoData
       /\ ~ InternFails(data)
       /\ values' = InternedValues(data)
       /\ PushToken(kind, InternedKey(data), ByteLen[data] % U32)
       /\ UNCHANGED <<nodes, parents, checkpoints, status, tree>>

Token(kind, data) ==
    /\ Building /\ Len(children) < MaxChildren
    /\ data \in ValidData
    /\ RecordToken(kind, data)

TokenFromBytes(kind, bytes) ==
    /\ Building /\ Len(children) < MaxChildren
    /\ RecordToken(kind, bytes)

StaticToken(kind) ==
    /\ Building /\ Len(children) < MaxChildren
    /\ \/ /\ StaticData[kind] = NoData
          /\ Panic
       \/ /\ StaticData[kind] # NoData
          /\ PushToken(kind, NoKey, ByteLen[StaticData[kind]] % U32)
          /\ UNCHANGED <<nodes, values, parents, checkpoints, status, tree>>

\* Mutant: reuses the buffer of another text of the same length.
InternerMut_Reuse(data) ==
    /\ Building
    /\ ~ InternFails(data)
    /\ values' = IF Interned(data) THEN values
                 ELSE [k \in DOMAIN values |->
                          IF ByteLen[values[k]] = ByteLen[data] THEN data ELSE values[k]]
    /\ UNCHANGED <<heap, nodes, tokens, stackVars, checkpoints, status, tree>>

\* interner_mut().get_or_intern(data), on the interner the builder uses.
InternerMut(data) ==
    /\ Building
    /\ ~ InternFails(data)
    /\ values' = InternedValues(data)
    /\ UNCHANGED <<heap, nodes, tokens, stackVars, checkpoints, status, tree>>

StartNode(kind) ==
    /\ Building /\ Len(parents) < MaxDepth
    /\ parents' = Append(parents, [kind |-> kind, first_child |-> Len(children)])
    /\ UNCHANGED <<cacheVars, children, checkpoints, status, tree>>

\* Mutant: drains one element too many.
FinishNode_OneMore ==
    /\ Building /\ parents # <<>>
    /\ LET depth   == Len(parents)
           top     == parents[depth]
           first   == IF top.first_child = 0 THEN 0 ELSE top.first_child - 1
           drained == SubSeq(children, first + 1, Len(children))
       IN  /\ ~ TextLenPanics(drained)
           /\ parents' = SubSeq(parents, 1, depth - 1)
           /\ PushNode(top.kind, SubSeq(children, 1, first), drained)
    /\ UNCHANGED <<tokens, values, checkpoints, status, tree>>

FinishNode ==
    /\ Building
    /\ \/ /\ parents = <<>>
          /\ Panic
       \/ /\ parents # <<>>
          /\ LET depth   == Len(parents)
                 top     == parents[depth]
                 drained == SubSeq(children, top.first_child + 1, Len(children))
                 stay    == SubSeq(children, 1, top.first_child)
             IN  /\ parents' = SubSeq(parents, 1, depth - 1)
                 /\ \/ /\ TextLenPanics(drained)
                       /\ status' = "panicked"
                       /\ UNCHANGED <<heap, nodes, children>>
                    \/ /\ ~ TextLenPanics(drained)
                       /\ PushNode(top.kind, stay, drained)
                       /\ UNCHANGED status
          /\ UNCHANGED <<tokens, values, checkpoints, tree>>

TakeCheckpoint ==
    /\ Building /\ Len(checkpoints) < MaxCheckpoints
    /\ checkpoints' = Append(checkpoints,
           [parent_idx |-> Len(parents), child_idx |-> Len(children)])
    /\ UNCHANGED <<cacheVars, stackVars, status, tree>>

\* Mutant: refuses a checkpoint taken right at the start of the node.
InsideTopNode_Strict(child_idx) ==
    parents # <<>> => child_idx > parents[Len(parents)].first_child

\* "checkpoint no longer valid, was an unmatched start_node_at called?"
InsideTopNode(child_idx) ==
    parents # <<>> => child_idx >= parents[Len(parents)].first_child

\* Mutant: does not ask whether the innermost node began later.
RevertAllowed_AnyNode(c) ==
    /\ c.parent_idx <= Len(parents)
    /\ c.child_idx <= Len(children)

\* The assertions of revert_to.
RevertAllowed(c) ==
    /\ c.parent_idx <= Len(parents)
    /\ c.child_idx <= Len(children)
    /\ InsideTopNode(c.child_idx)

\* Mutant: truncates the children only.
RevertTo_ChildrenOnly(i) ==
    LET c == checkpoints[i] IN
    /\ Building
    /\ \/ ~ RevertAllowed(c) /\ Panic
       \/ /\ RevertAllowed(c)
          /\ children' = SubSeq(children, 1, c.child_idx)
          /\ UNCHANGED <<cacheVars, parents, checkpoints, status, tree>>

RevertTo(i) ==
    LET c == checkpoints[i] IN
    /\ Building
    /\ \/ ~ RevertAllowed(c) /\ Panic
       \/ /\ RevertAllowed(c)
          /\ parents' = SubSeq(parents, 1, c.parent_idx)
          /\ children' = SubSeq(children, 1, c.child_idx)
          /\ UNCHANGED <<cacheVars, checkpoints, status, tree>>

\* The assertions of start_node_at.
StartAllowed(c) ==
    /\ c.parent_idx = Len(parents)
    /\ c.child_idx <= Len(children)
    /\ InsideTopNode(c.child_idx)

\* Mutant: starts the node where the builder is instead of at the checkpoint.
StartNodeAt_Here(i, kind) ==
    LET c == checkpoints[i] IN
    /\ Building
    /\ \/ ~ StartAllowed(c) /\ Panic
       \/ /\ StartAllowed(c)
          /\ Len(parents) < MaxDepth
          /\ parents' = Append(parents, [kind |-> kind, first_child |-> Len(children)])
          /\ UNCHANGED <<cacheVars, children, checkpoints, status, tree>>

StartNodeAt(i, kind) ==
    LET c == checkpoints[i] IN
    /\ Building
    /\ \/ ~ StartAllowed(c) /\ Panic
       \/ /\ StartAllowed(c)
          /\ Len(parents) < MaxDepth
          /\ parents' = Append(parents, [kind |-> kind, first_child |-> c.child_idx])
          /\ UNCHANGED <<cacheVars, children, checkpoints, status, tree>>

RootComplete == Len(children) = 1 /\ IsNode(children[1])

\* finish consumes the builder; `parents' is dropped without being looked at.
Finish ==
    /\ Building
    /\ \/ ~ RootComplete /\ Panic
       \/ /\ RootComplete
          /\ tree' = children[1]
          /\ status' = "finished"
          /\ parents' = <<>> /\ children' = <<>>
          /\ UNCHANGED <<cacheVars, checkpoints>>

----------------------------------------------------------------------------
(* The next builder of the same client.  It drops the one it replaces, in  *)
(* whatever state that is, and still holds the old one's Checkpoints.      *)

FreshBuilder ==
    /\ parents' = <<>> /\ children' = <<>>
    /\ status' = "building" /\ tree' = NoElement
    /\ UNCHANGED checkpoints

\* with_cache, or from_cache with the cache that finish returned.
WithCache ==
    /\ FreshBuilder
    /\ UNCHANGED cacheVars

\* with_interner and from_interner: an empty cache on the old interner.
WithInterner ==
    /\ FreshBuilder
    /\ heap' = <<>> /\ nodes' = {} /\ tokens' = {}
    /\ UNCHANGED values

\* Mutant: an empty interner under the old cache.
New_OldCache ==
    /\ FreshBuilder
    /\ values' = <<>>
    /\ UNCHANGED <<heap, nodes, tokens>>

\* new: an empty cache on an empty interner.
New ==
    /\ FreshBuilder
    /\ heap' = <<>> /\ nodes' = {} /\ tokens' = {} /\ values' = <<>>

----------------------------------------------------------------------------
(* Reading tokens *)

\* resolve_data, with the interner the token was built through.
TextOf(e) ==
    IF StaticData[heap[e].kind] # NoData THEN StaticData[heap[e].kind]
                                         ELSE values[heap[e].key]

\* Mutant: compares kinds.
DataEq_Kinds(e, f) == heap[f].kind = heap[e].kind

\* data_eq compares keys, or kinds if the first token has no key; its debug
\* assertions want both kinds to be static then.
DataEq(e, f) ==
    IF heap[e].key # NoKey THEN heap[f].key = heap[e].key
                           ELSE heap[f].kind = heap[e].kind

DataEqPanics(e, f) ==
    /\ DebugAssertions
    /\ heap[e].key = NoKey
    /\ StaticData[heap[e].kind] = NoData \/ StaticData[heap[f].kind] = NoData

----------------------------------------------------------------------------
Next ==
    \/ \E k \in TokenKinds, d \in Data : Token(k, d)
    \/ \E k \in TokenKinds, d \in Data : TokenFromBytes(k, d)
    \/ \E k \in TokenKinds : StaticToken(k)
    \/ \E d \in ValidData : InternerMut(d)
    \/ \E k \in NodeKinds : StartNode(k)
    \/ FinishNode
    \/ TakeCheckpoint
    \/ \E i \in DOMAIN checkpoints : RevertTo(i)
    \/ \E i \in DOMAIN checkpoints, k \in NodeKinds : StartNodeAt(i, k)
    \/ Finish
    \/ WithCache
    \/ WithInterner
    \/ New

Spec == Init /\ [][Next]_vars

----------------------------------------------------------------------------
(* Properties *)

\* An element's kind and key exist and its children are older elements.
ElementOK(e) ==
    /\ heap[e].tag \in {"node", "token"}
    /\ heap[e].kind \in NodeKinds \cup TokenKinds
    /\ heap[e].key \in 0 .. Len(values)
    /\ heap[e].children \in Seq(1 .. e - 1)

\* Every variable has its type: what the builder's stack, the caches and the
\* finished tree refer to exists, with the tag it is used at, and every token
\* key resolves in the interner.
TypeOK ==
    /\ values \in Seq(Data)
    /\ heap \in Seq(Range(heap))
    /\ \A e \in DOMAIN heap : ElementOK(e)
    /\ nodes \subseteq {e \in DOMAIN heap : heap[e].tag = "node"}
    /\ tokens \subseteq {e \in DOMAIN heap : heap[e].tag = "token"}
    /\ parents \in Seq([kind : NodeKinds, first_child : Nat])
    /\ children \in Seq(DOMAIN heap)
    /\ checkpoints \in Seq([parent_idx : Nat, child_idx : Nat])
    /\ status \in {"building", "finished", "panicked"}
    /\ tree \in {NoElement} \cup {e \in DOMAIN heap : heap[e].tag = "node"}

\* The unfinished nodes are properly nested brackets over `children': each one
\* starts inside its parent and none starts past the end.  finish_node drains
\* `children[first_child..]' on the strength of this; it has to survive every
\* use of a stale Checkpoint that the assertions of revert_to and
\* start_node_at let through, another builder's checkpoint included.
ParentsNested ==
    Building =>
        /\ \A i \in DOMAIN parents : parents[i].first_child <= Len(children)
        /\ \A i, j \in DOMAIN parents :
               i <= j => parents[i].first_child <= parents[j].first_child

\* "deduplicates identical tokens and small nodes": within one cache, two
\* tokens with the same kind and text, or two nodes of at most
\* CHILDREN_CACHE_THRESHOLD children with the same kind and children, are the
\* same allocation.
Deduplicated ==
    \A e, f \in DOMAIN heap :
        /\ <<heap[e].tag, heap[e].kind, heap[e].key, heap[e].children>>
             = <<heap[f].tag, heap[f].kind, heap[f].key, heap[f].children>>
        /\ Len(heap[e].children) <= CacheThreshold
        => e = f

KeysDistinct == \A k, l \in DOMAIN values : values[k] = values[l] => k = l

\* The interner gives one key to one text, so that comparing keys compares
\* texts (GreenTokenData is compared, hashed and cached by its key), and it
\* finds every text it knows under that key, also when all keys are used.
InternerInjective ==
    /\ KeysDistinct
    /\ \A k \in DOMAIN values : ~ InternFails(values[k]) /\ InternedKey(values[k]) = k

\* A key that was handed out resolves to the same text for as long as the
\* interner lives, whatever is built through it (TokenInterner only grows).
KeysStable ==
    [][~ New => \A k \in DOMAIN values : k \in DOMAIN values' /\ values'[k] = values[k]]_vars

\* The number of bytes an element covers, counted at its leaves.
TrueLen[e \in DOMAIN heap] ==
    IF heap[e].tag = "token"
    THEN ByteLen[TextOf(e)]
    ELSE SumOf([i \in DOMAIN heap[e].children |-> TrueLen[heap[e].children[i]]])

\* The length stored in every element is the length of the text at its leaves,
\* as a u32; with debug assertions a node never stores a wrapped sum of
\* lengths that fit.
TextLenFaithful ==
    \A e \in DOMAIN heap :
        /\ heap[e].len = TrueLen[e] % U32
        /\ DebugAssertions /\ (\A d \in Data : ByteLen[d] < U32) => heap[e].len = TrueLen[e]

TokensOnHeap == {e \in DOMAIN heap : heap[e].tag = "token"}

\* data_eq (text_eq) never calls two tokens equal that resolve to different
\* texts, although it compares keys and kinds only.
TextEqSound ==
    \A e, f \in TokensOnHeap :
        DataEq(e, f) /\ ~ DataEqPanics(e, f) => TextOf(e) = TextOf(f)

----------------------------------------------------------------------------
(* Statements of the documentation that the code does not keep *)

\* "a kind with static data cannot be equal to one with non-static data": text_eq
\* has an answer, no, when it compares the two.
TextEqAnswers == \A e, f \in TokensOnHeap : ~ DataEqPanics(e, f)

=============================================================================
