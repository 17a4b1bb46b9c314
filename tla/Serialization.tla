--------------------------- MODULE Serialization ---------------------------
(***************************************************************************)
(* serde_impls.rs: a tree becomes a stream of events and a list of the     *)
(* data attached to its nodes, and is built again from them.               *)
(*                                                                         *)
(* The serialiser walks the tree and reads the data of each node when it   *)
(* enters it, while other threads set and clear data; a flag in the event  *)
(* says whether the list has an element for the node.  The deserialiser    *)
(* feeds the events, as they arrive, to a builder (TreeBuilder, which      *)
(* GreenNodeBuilder implements) and hands out the list afterwards.         *)
(*                                                                         *)
(* A document comes from the serialiser or from somewhere else.  Nodes are *)
(* numbered in preorder; trees are the values of TreeBuilder.              *)
(***************************************************************************)
EXTENDS Integers, Picking

CONSTANTS
    NodeKinds, TokenKinds,
    Variants,         \* the kinds in the order of their declaration
    Data,             \* the bytes of tokens
    Utf8,             \* those that are UTF-8
    ValidData,        \* those the interner can decode
    StaticData,       \* the fixed bytes of a kind, or NoData
    NoData,
    Trees,            \* the trees that are serialised
    Values,           \* what may be attached to a node
    NoValue,
    DebugAssertions,
    ForeignEvents,    \* events of documents from elsewhere
    MaxEvents,        \* bound: events of such a document
    MaxData,          \* bound: elements of its data list
    MaxSteps,         \* bound: steps of a walk, and so the nesting of a tree
    MaxWrites         \* bound: calls that change attached data


VARIABLES
    tree,      \* the tree that is serialised
    cell,      \* the data attached to each of its nodes
    held,      \* what each cell has held since serialisation began
    writes,    \* calls made that change cells
    stage,     \* "idle", "writing", "reading", "read", "done" or "failed"
    foreign,   \* whether the document is from elsewhere
    with_data, \* whether attached data is serialised
    document,  \* its events and its data list
    walked,    \* events the serialiser or the deserialiser is past
    restored,  \* the data attached to the nodes of the new tree
    stack, saved, phase, result  \* the deserialiser's builder

builder == <<stack, saved, phase, result>>
vars == <<tree, cell, held, writes, stage, foreign, with_data, document, walked, restored, builder>>

Builder == INSTANCE TreeBuilder

----------------------------------------------------------------------------
(* Trees *)

Kinds == NodeKinds \cup TokenKinds

\* A token of a kind with static text has that text, others have any that can
\* be decoded.
Tokens ==
    {tok \in [kind : Kinds, text : Data] :
        IF StaticData[tok.kind] = NoData THEN tok.text \in ValidData
                                         ELSE tok.text = StaticData[tok.kind]}

\* The trees in which at most h nodes are nested.
TreesUpTo[h \in 0 .. MaxSteps] ==
    IF h = 0 THEN Tokens ELSE Tokens \cup [kind : Kinds, trees : Seq(TreesUpTo[h - 1])]
AllTrees == TreesUpTo[MaxSteps]

IsToken(t) == "text" \in DOMAIN t

EnterStep(k) == [t |-> "Enter", kind |-> k]
TokenStep(k, text) == [t |-> "Token", kind |-> k, text |-> text]
LeaveStep == [t |-> "Leave"]

\* preorder_with_tokens, without the events that leave a token, and with what
\* gen_serialize! takes from each element.
Walk[t \in AllTrees] ==
    IF IsToken(t) THEN <<TokenStep(t.kind, t.text)>>
    ELSE <<EnterStep(t.kind)>>
             \o FlattenSeq([i \in 1 .. Len(t.trees) |-> Walk[t.trees[i]]])
             \o <<LeaveStep>>

\* The steps of a walk, or events of a document, that have a certain form.
OfForm(steps, form) == Picked(steps, {i \in DOMAIN steps : steps[i].t = form})

\* SyntaxNode::descendants: the walk's steps into a node, one for each node.
Nodes(t) == OfForm(Walk[t], "Enter")

\* The number of the node that step i of a walk enters.
NodeAt(walk, i) == Cardinality({j \in 1 .. i : walk[j].t = "Enter"})

Cells(t) == 1 .. Len(Nodes(t))

----------------------------------------------------------------------------
(* Events *)

\* into_raw and from_raw as #[derive(Syntax)] writes them.
IntoRaw(k) == (CHOOSE i \in DOMAIN Variants : Variants[i] = k) - 1
FromRaw(raw) == Variants[raw + 1]
FromRawPanics(raw) == raw >= Len(Variants)

EnterNode(raw, has_data) == [t |-> "EnterNode", kind |-> raw, has_data |-> has_data]
Token(raw, payload) == [t |-> "Token", kind |-> raw, payload |-> payload]
LeaveNode == [t |-> "LeaveNode"]

\* What serde makes an Event of.
Events ==
    [t : {"EnterNode"}, kind : Nat, has_data : BOOLEAN]
    \cup [t : {"Token"}, kind : Nat, payload : [form : {"str", "bytes", "seq"}, bytes : Data]]
    \cup {LeaveNode}

ASSUME SerializationAssumption ==
    /\ Variants \in Seq(Kinds) /\ ToSet(Variants) = Kinds /\ IsInjective(Variants)
    /\ Utf8 \subseteq Data /\ ValidData \subseteq Data
    /\ NoData \notin Data /\ NoValue \notin Values
    /\ StaticData \in [Kinds -> Data \cup {NoData}]
    /\ DebugAssertions \in BOOLEAN
    /\ {MaxEvents, MaxData, MaxWrites, MaxSteps} \subseteq Nat
    /\ ForeignEvents \subseteq Events /\ MaxEvents <= MaxSteps
    /\ \A t \in Trees : t \in AllTrees /\ ~ IsToken(t) /\ Len(Walk[t]) <= MaxSteps

\* Mutant: bytes that are no text are replaced by some text.
Payload_Lossy(bytes) ==
    [form |-> "str", bytes |-> IF bytes \in Utf8 THEN bytes ELSE CHOOSE d \in Utf8 : TRUE]

\* TokenPayload: text if the bytes are UTF-8, bytes otherwise.  The visitor takes
\* either, and a sequence, for what some formats make of bytes.
Payload(bytes) == [form |-> IF bytes \in Utf8 THEN "str" ELSE "bytes", bytes |-> bytes]

\* The event for a step of the walk, with the data read from the node.
EventOf(step, value) ==
    CASE step.t = "Enter" -> EnterNode(IntoRaw(step.kind), value # NoValue)
      [] step.t = "Token" -> Token(IntoRaw(step.kind), Payload(step.text))
      [] step.t = "Leave" -> LeaveNode

Empty == [events |-> <<>>, data |-> <<>>]

\* One item of the iterator in gen_serialize!.
Pushed(doc, step, value) ==
    [events |-> Append(doc.events, EventOf(step, value)),
     data |-> IF value = NoValue THEN doc.data ELSE Append(doc.data, value)]

----------------------------------------------------------------------------
(* The node data cell, and threads that use it *)

Write(n, value) ==
    /\ writes < MaxWrites /\ stage \in {"idle", "writing"}
    /\ cell' = [cell EXCEPT ![n] = value]
    /\ held' = [held EXCEPT ![n] = @ \cup {value}]
    /\ writes' = writes + 1
    /\ UNCHANGED <<tree, stage, foreign, with_data, document, walked, restored, builder>>

GetData(n) == cell[n]
SetData(n, value) == Write(n, value)
TrySetData(n, value) == cell[n] = NoValue /\ Write(n, value)
ClearData(n) == Write(n, NoValue)

----------------------------------------------------------------------------
(* Serialisation *)

\* SerializeWithData and SerializeWithResolver; ResolvedNode::serialize is the
\* latter.
Serialize(data) ==
    /\ stage = "idle"
    /\ stage' = "writing" /\ with_data' = data
    /\ held' = [n \in Cells(tree) |-> {cell[n]}]
    /\ UNCHANGED <<tree, cell, writes, foreign, document, walked, restored, builder>>

\* One step of the walk; get_data is called when a node is entered.
SerializeEvent ==
    LET walk == Walk[tree] IN
    /\ stage = "writing" /\ walked < Len(walk)
    /\ LET step == walk[walked + 1]
           n == NodeAt(walk, walked + 1)
           value == IF with_data /\ step.t = "Enter" THEN GetData(n) ELSE NoValue
       IN  document' = Pushed(document, step, value)
    /\ walked' = walked + 1
    /\ UNCHANGED <<tree, cell, held, writes, stage, foreign, with_data, restored, builder>>

SerializeEnd ==
    /\ stage = "writing" /\ walked = Len(Walk[tree])
    /\ stage' = "reading" /\ walked' = 0
    /\ UNCHANGED <<tree, cell, held, writes, foreign, with_data, document, restored, builder>>

----------------------------------------------------------------------------
(* Deserialisation *)

\* The events that may come next.
Incoming ==
    IF foreign THEN IF walked < MaxEvents THEN ForeignEvents ELSE {}
    ELSE IF walked < Len(document.events) THEN {document.events[walked + 1]} ELSE {}

\* from_raw, token_from_bytes and finish_node assert and unwrap.
EventPanics(e) ==
    \/ e.t # "LeaveNode" /\ FromRawPanics(e.kind)
    \/ /\ e.t = "Token" /\ ~ FromRawPanics(e.kind)
       /\ LET static == StaticData[FromRaw(e.kind)] IN
          IF static = NoData THEN e.payload.bytes \notin ValidData
                             ELSE DebugAssertions /\ e.payload.bytes # static
    \/ e.t = "LeaveNode" /\ Builder!Depth = 1

\* visit_seq: each event is a call of the builder.
ReadEvent(e) ==
    /\ stage = "reading" /\ phase = "building"
    /\ \/ EventPanics(e) /\ Builder!Panic
       \/ /\ ~ EventPanics(e)
          /\ \/ e.t = "EnterNode" /\ Builder!StartNode(FromRaw(e.kind))
             \/ e.t = "Token" /\ Builder!Record(FromRaw(e.kind), e.payload.bytes)
             \/ e.t = "LeaveNode" /\ Builder!FinishNode
    /\ walked' = walked + 1
    /\ document' = IF foreign THEN [document EXCEPT !.events = Append(@, e)] ELSE document
    /\ UNCHANGED <<tree, cell, held, writes, stage, foreign, with_data, restored>>

\* The end of the events: finish() wants one element, and a node.
ReadEnd ==
    /\ stage = "reading" /\ phase = "building"
    /\ foreign \/ walked = Len(document.events)
    /\ LET recorded == Builder!TreesFrom(1) IN
       \/ /\ Len(recorded) = 1 /\ ~ IsToken(recorded[1])
          /\ Builder!Finish /\ stage' = "read"
       \/ /\ ~ (Len(recorded) = 1 /\ ~ IsToken(recorded[1]))
          /\ Builder!Panic /\ UNCHANGED stage
    /\ UNCHANGED <<tree, cell, held, writes, foreign, with_data, document, walked, restored>>

\* Something that is no event, or no data: serde's error is passed on.
ReadMalformed ==
    /\ foreign
    /\ \/ stage = "reading" /\ phase = "building"
       \/ stage = "read"
    /\ stage' = "failed"
    /\ UNCHANGED <<tree, cell, held, writes, foreign, with_data, document, walked, restored, builder>>

\* data_indices
Flags(events) ==
    LET entered == OfForm(events, "EnterNode") IN [i \in DOMAIN entered |-> entered[i].has_data]

\* The flags that are raised up to the n-th.
Raised(flags, n) == Cardinality({i \in 1 .. n : flags[i]})

\* The nodes that are paired with a flag.
Zipped(nodes, flags) == Min({Len(nodes), Len(flags)})

\* Mutant: elements that are left over are ignored.
DataMatches_Fewer(nodes, flags, data) == Raised(flags, Zipped(nodes, flags)) <= Len(data)

\* Neither "invalid serialized tree" nor "too many data elements".
DataMatches(nodes, flags, data) == Raised(flags, Zipped(nodes, flags)) = Len(data)

\* Mutant: counts the flags of other nodes as elements too.
Restored_ByNode(nodes, flags, data) ==
    [n \in DOMAIN nodes |->
        IF n <= Zipped(nodes, flags) /\ flags[n] /\ n <= Len(data) THEN data[n] ELSE NoValue]

\* set_data with the next element for every node whose flag is raised.
Restored(nodes, flags, data) ==
    [n \in DOMAIN nodes |->
        IF n <= Zipped(nodes, flags) /\ flags[n] THEN data[Raised(flags, n)] ELSE NoValue]

\* The data list, and the pairing of flags with the nodes of the new tree.
ReadData(data) ==
    LET nodes == Nodes(result[1])
        flags == Flags(document.events)
    IN  /\ stage = "read"
        /\ document' = [document EXCEPT !.data = data]
        /\ \/ /\ DataMatches(nodes, flags, data)
              /\ stage' = "done" /\ restored' = Restored(nodes, flags, data)
           \/ /\ ~ DataMatches(nodes, flags, data)
              /\ stage' = "failed" /\ UNCHANGED restored
        /\ UNCHANGED <<tree, cell, held, writes, foreign, with_data, walked, builder>>

DataLists == IF foreign THEN UNION {[1 .. n -> Values] : n \in 0 .. MaxData} ELSE {document.data}

----------------------------------------------------------------------------
Init ==
    /\ tree \in Trees
    /\ cell = [n \in Cells(tree) |-> NoValue]
    /\ held = [n \in Cells(tree) |-> {NoValue}]
    /\ writes = 0 /\ with_data = FALSE
    /\ \/ foreign = FALSE /\ stage = "idle"
       \/ foreign = TRUE /\ stage = "reading"
    /\ document = Empty /\ walked = 0 /\ restored = <<>>
    /\ Builder!TInit

Next ==
    \/ \E n \in Cells(tree) :
          \/ ClearData(n)
          \/ \E value \in Values : SetData(n, value) \/ TrySetData(n, value)
    \/ \E data \in BOOLEAN : Serialize(data)
    \/ SerializeEvent
    \/ SerializeEnd
    \/ \E e \in Incoming : ReadEvent(e)
    \/ ReadEnd
    \/ ReadMalformed
    \/ \E data \in DataLists : ReadData(data)

Spec == Init /\ [][Next]_vars

----------------------------------------------------------------------------
(* Properties *)

\* Every variable has its type.
TypeOK ==
    /\ tree \in Trees
    /\ cell \in [Cells(tree) -> Values \cup {NoValue}]
    /\ held \in [Cells(tree) -> SUBSET (Values \cup {NoValue})]
    /\ writes \in 0 .. MaxWrites
    /\ stage \in {"idle", "writing", "reading", "read", "done", "failed"}
    /\ foreign \in BOOLEAN /\ with_data \in BOOLEAN
    /\ document.data \in Seq(Values)
    /\ Len(result) <= 1

\* A document that the serialiser wrote while data was set and cleared is read
\* back without a panic and without an error, so every raised flag has its
\* element, and gives the tree it was written from: every kind, every token
\* with all its bytes, the order and the nesting.
TreeRoundTrip ==
    ~ foreign =>
        /\ stage # "failed" /\ phase # "panicked"
        /\ stage = "done" => result = <<tree>>

\* Every node gets back data that it really had at some time while the tree was
\* serialised, or none if it had none at some time; nothing goes to another
\* node.  Without data nothing is attached.
DataRoundTrip ==
    ~ foreign /\ stage = "done" =>
        /\ DOMAIN restored = Cells(tree)
        /\ \A n \in Cells(tree) : restored[n] \in IF with_data THEN held[n] ELSE {NoValue}

\* What the serialiser would write for a tree and its data, from the top.
Serialized(t, data) ==
    LET walk == Walk[t]
        values == [i \in DOMAIN walk |->
                      IF walk[i].t = "Enter" THEN data[NodeAt(walk, i)] ELSE NoValue]
    IN  [events |-> [i \in DOMAIN walk |-> EventOf(walk[i], values[i])],
         data |-> Picked(values, {i \in DOMAIN walk : values[i] # NoValue})]

\* As many nodes are left as entered.
Balanced(events) == Len(OfForm(events, "LeaveNode")) = Len(OfForm(events, "EnterNode"))

\* The text of a token that is read: only debug builds look at bytes given for
\* a kind with static text.
TextOf(kind, bytes) ==
    IF DebugAssertions \/ StaticData[kind] = NoData THEN bytes ELSE StaticData[kind]

\* A document whatever the form of its payloads.
ContentsOf(e) == IF e.t = "Token" THEN TokenStep(e.kind, TextOf(FromRaw(e.kind), e.payload.bytes)) ELSE e
Contents(doc) ==
    [events |-> [i \in DOMAIN doc.events |-> ContentsOf(doc.events[i])], data |-> doc.data]

\* Whatever a document from elsewhere says: if its nodes are balanced and it is
\* accepted, then nothing in it was lost or invented, for the tree and the data
\* that were read are written as the same document again.  (An unbalanced
\* document can be accepted: finish counts elements, not unfinished nodes.)
AcceptedFaithful ==
    stage = "done" /\ Balanced(document.events) =>
        Contents(Serialized(result[1], restored)) = Contents(document)
=============================================================================
