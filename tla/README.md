# A TLA+ verification of cstree

cstree builds lossless syntax trees. A parser drives a *builder* that produces an immutable *green*
tree, deduplicated through a cache and an interner. A *red* tree of `SyntaxNode`s is laid over it
lazily, with parent pointers and absolute offsets, and is shared between threads under one
reference count. This directory models these parts in TLA+, together with the derive macro, the shared
interners and the resolved views, and checks them with TLC. With TLAPS it proves, for every size of
everything, the safety of the builder, its cache and its interner, of the shared red tree and of the
resolved views, and that the builder, the shared tree and the shared interners implement the abstract
specifications of what they promise.

All paths below are relative to `src/cstree/src/` of the repository, unless they begin with `src/`.

## 1. The system

| Component | State | Operations | What makes it correct |
|---|---|---|---|
| Builder (`green/builder.rs`) | `parents`: unfinished nodes with the index of their first child; `children`: a flat stack of elements | `token`, `token_from_bytes`, `static_token`, `start_node`, `finish_node`, `finish`, the constructors | the two flat vectors always describe properly nested nodes; `finish` returns the tree the calls describe |
| Checkpoints (`green/builder.rs`) | two indices, `Copy`, not tied to a builder | `checkpoint`, `revert_to`, `start_node_at` | stale indices never corrupt the stack; a valid one restores what it saw |
| Node cache (`green/builder.rs`) | a table of tokens and one of small nodes | lookup or insert | identical elements are one allocation, different ones never are (assuming the hash) |
| Interner (`interning/default_interner.rs`) | `values`, `keys` | intern, resolve | one key per text, a key means the same text for ever |
| Shared red tree (`syntax/node.rs`) | one count per tree, one lock and one slot per child, heap boxes | clone, send, lend, drop, fill a slot, tear down | the count is exact, teardown happens once and after every use, nothing leaks, every call returns |
| Navigation (`syntax/{node,token,element,iter}.rs`) | an index and an offset stored in each slot | neighbours, token search, offset search, iterators, walks | stored offsets are right whichever call stored them; searches find what the text says |
| Token text (`syntax/token.rs`) | none | `resolve_data`, `data_eq` | comparing keys compares texts |
| Node data (`syntax/node.rs:386`) | an optional `Arc` behind a lock | set, try_set, get, clear | every call is atomic |
| `SyntaxText`, `SyntaxData` (`syntax/text.rs`) | a range of a subtree | slice, search, comparison, conversion | agrees with the text, which it never puts together |
| Serialisation (`serde_impls.rs`) | an event list and a data list | serialise, deserialise through a builder | round trip, also while data is being set; documents that do not match are refused |
| Shared interners (`interning/lasso_compat/*`) | the tables of an external interner, locks, a counter | intern and resolve from several threads, conversion of keys | one key per text under any interleaving; keys that do not fit are refused and never cut off |
| Resolved views (`syntax/resolved.rs`) | none; a promise about the tree in the type | every navigation method, `try_resolved`, `DerefMut` | every view is of a tree with a resolver |
| Derive macro (`src/cstree-derive`) | the list of errors found so far | parse a definition, check, generate | what it accepts may be transmuted; what it rejects is reported completely |
| Debug and display output (`syntax/{node,token}.rs`) | an indentation level | walk and write | every element once, at its depth |

The parser calls the builder; the builder calls the cache, which calls the interner. A cache or an
interner outlives a builder and is handed to the next. A finished green tree is wrapped into a red
tree; from then on threads share it with no other coordination than the count and the slot locks,
and the lock of each node's data. Serialisation walks a red tree and reads that data;
deserialisation drives a new builder and wraps its result. A tree that was given a resolver can be
used through resolved views, which forward to it. The derive macro generates the conversion between
a language's kinds and raw kinds, which every other part uses.

The hard behaviours are: the race to fill a slot and its compensation of a count that other threads
are changing; the teardown, which decrements the same count below zero; checkpoints used after the
stack under them changed; 32-bit lengths and hashes; offsets that are computed in two directions
and stored by whoever comes first; text compared through two sequences of tokens that end at
different places; a data list that is matched with its nodes by counting; an interner that several
threads fill; a type that stands for a promise checked long ago. `PROJECT.json` lists them as hazards with their lines.

## 2. Modules

| Module | Models | Kind |
|---|---|---|
| `GreenBuilder` | builder, checkpoints, cache, interner, token comparison | component |
| `BuilderHistory` | `GreenBuilder` with a history variable `taken` | for the properties of checkpoints |
| `TreeBuilder` | a builder of trees with saved copies instead of indices | abstract specification |
| `BuilderRefinement` | the mapping of `BuilderHistory` to `TreeBuilder` | composition |
| `SyntaxTree` | the shared red tree, one step per atomic or locked step of the code | component |
| `SharedTree` | a tree that is there while somebody has a handle, with children that are answered in one step | abstract specification |
| `Interner` | a growing one-to-one assignment of keys to texts | abstract specification |
| `SharedInterner` | threads interning through lasso's concurrent interner, with conversion of keys | component |
| `Resolved` | resolved and plain views in the variables of a client | component |
| `DeriveSyntax` | the derive macro from a definition to code or errors | component |
| `Traversal` | slots with offsets, navigation, iterators, walks | component |
| `SyntaxText` | slices of a node's text, search and comparison | component |
| `Serialization` | the node data cells, the serialiser, the deserialiser with an instance of `TreeBuilder` | composition |
| `Picking` | the elements of a sequence at given places | helper |
| `SequenceFacts` | lemmas about numbers, sequences and recursive functions that several proofs use | proofs |
| `BuilderProofs` | theorems about the builder, its cache and its checkpoints, and the refinement | proofs |
| `SyntaxTreeProofs` | theorems about the shared red tree, the refinement, and the guarantee of resolved views | proofs |
| `SharedInternerProofs`, `DeriveSyntaxProofs` | theorems about shared interners and the derive macro | proofs |
| `TraversalProofs` | theorems about the slots and offsets of navigation and about what it finds | proofs |
| `SerializationProofs` | theorems about the round trip of trees and of attached data | proofs |
| `SyntaxTextProofs` | theorems about slices of texts, searching and comparing them | proofs |
| `MCGreenBuilder`, `MCBuilder`, `MCSyntaxTree`, `MCTraversal`, `MCSyntaxText`, `MCSerialization`, `MCSharedInterner`, `MCResolved`, `MCDeriveSyntax` | definitions of constants for TLC | model checking |

Operators named `X_Foo` under a comment `Mutant:` are wrong variants of `X`. They are used only to
confirm that each property fails when the code is changed that way.

### GreenBuilder

| Model | Code |
|---|---|
| `heap`, an index into it | the `Arc` allocations of green elements and their identity |
| `nodes`, `tokens` | the hash tables of `NodeCache`; the key of an entry is the head or data of the element |
| `values` | `TokenInterner::values`; the table `keys` is its inverse |
| `parents`, `children` | the fields of the same name |
| `checkpoints` | every `Checkpoint` the client still has, also those of earlier builders |
| `status` | `panicked` after an assertion, `unwrap` or refused interning; nothing but a new builder follows |

Each public method is one action with its assertions as the guard of a panicking disjunct. `finish`
looks at `children` only, like the code. `DebugAssertions` selects between the two builds: with it
a static token must be given its own text and a length overflow panics, without it the length wraps.
`ChildHash` is a constant operator: what is proved about the cache holds for any hash. A hit in the
node table returns the stored node without comparing children (`green/builder.rs:253`), so which tree
comes out depends on the hash, see `BuilderRefinement`.

### BuilderHistory

`taken[i]` holds the stacks at the time checkpoint `i` was taken and two judgements. `documented` is
the rule of the documentation: lost when a node older than the checkpoint is finished or the builder
is reverted past it. `valid` is stronger: it is also lost when a node that `start_node_at` began
*behind* the checkpoint is finished. The actions are those of `GreenBuilder` with bookkeeping, so the
behaviours are the same.

The documentation makes two statements that the code does not keep; they are the last definitions of
the module, and no configuration names them because the state they speak of is reached within a few
calls. `UnfinishedNodesAreReverted`: `revert_to` should delete "any nodes that were started but not
finished" (`green/builder.rs:542`), but after checkpoint, token, start_node it panics, because it
compares the checkpoint with the node it is about to discard; the Panics section of the same comment
asks for balanced calls. `DocumentedRevertRestores`: a checkpoint is lost when older nodes are
finished (`green/builder.rs:509`), but it is also lost when `start_node_at` of an earlier one wraps
it, and then `revert_to` succeeds with another state. Added to an `INVARIANTS` or `PROPERTIES` line of
`MCBuilder_builder.cfg`, TLC shows the calls.

### TreeBuilder and BuilderRefinement

`TreeBuilder` is the builder as its documentation describes it: a stack of unfinished nodes, each with
the trees recorded in it, where a checkpoint is a copy of the stack. A checkpoint is lost when a node
it was taken in is finished, and also when a node that `start_node_at` opened in front of it is
finished and swallows what it remembers (`FinishNode`). The second half is needed only with several checkpoints:
the attempt to prove the refinement for any number showed it missing, and the `builder` run has two.
At a lost checkpoint the promise is weak, but something remains: no tree is invented,
none moves in front of another.

`BuilderRefinement` reads the one as the other. `TreeOf` is the tree a heap element stands for, and
`Frames` cuts the flat `children` at the `first_child` of every unfinished node; the saved copies are
the frames of the snapshots in `taken`. `CollisionFree` is what the code relies on its 32-bit hash
for: among the nodes that exist and the one `finish_node` is about to make, equal hashes come from equal hash
inputs, the heads of the children. The `builder` run uses the hash inputs themselves as the hash, for which
`CollisionFree` holds by definition. After a collision `finish_node` returns a node with other children,
and no refinement can hold; the code accepts that. What holds nevertheless, `Deduplicated` and
`TextLenFaithful`, is checked in the `cache` run with a hash in which all nodes of the same number of
children collide, and proved for every hash.

### SyntaxTree

The green tree is fixed by constants (`Parent`, `TokenAt`), positions in preorder. A box is named by
its position and the thread that allocated it. A thread's `pc` follows `get_or_add_element`: read the
slot (`GetOrAdd`), take the write lock (`Lock`), store (`Store`) or lose (`Compensate`, `DropNode`,
`DropParent`), read again (`Read`). Every decrement goes through `DropReference`, which is
`SyntaxNode::drop`: whoever takes the count from one to zero tears the tree down, slot by slot in
postorder (`DropSlot`), then the root and the count (`DropRoot`). The decrements of one slot are one
step: by then no thread can reach the tree, which `NoUseAfterFree` and `TornDownOnce` confirm.
Borrowing across threads (`Sync`) and moving (`Send`) follow Rust's rules: a handle that is lent is
neither moved nor dropped.

The atomic operations are `AcqRel` and the slots are guarded by locks, so the model is sequentially
consistent. The count is kept modulo `U32`.

`SharedTree` is the tree as clients see it: asking for a child is one step with one answer, children
are never replaced, and the tree ends with the last handle. The mapping takes what a thread refers to
from its position and the slot there, and forgets count, locks, boxes, losers and the teardown.

### Traversal

A reference is a position with the index and offset a call computed for it. `ChildrenFrom` sums
forwards, `ChildrenTo` subtracts backwards, as the two green iterators do; `Visit` stores what was
computed in empty slots and compares it with what filled slots hold, as the `debug_assert_eq!` of
`get_or_add_element` does. The client moves with any method in any order and keeps the contracts the
code leaves to its callers: the offset given to `token_at_offset` and the range given to
`covering_element` lie in the node, and `next_child_after`, `prev_child_before` and their relatives
are called with the index of a child and the offset at which it ends or starts. These four are public, take any
number and offset, and store what they compute from them for good; with others the tree keeps wrong
offsets or a later debug assertion fails. The reference definitions
(`TrueStart`, `TokensIn`, `Events`, `Substituted`) use the tree alone. `Take` is a use of an iterator
over ancestors or siblings, which follows a chain of neighbours to its end; `Entered` is what the
iterators over descendants keep of a walk, `DebugLines` and `DisplayTokens` are what the recursive
`write_debug` and `write_display` make of it. A line of the debug output is an element with its
indentation. Green trees are values for `ReplaceWith` and `ReplaceToken`, whose result is a sequence of
at most one tree, empty after the panic of `assert_eq!(self.syntax_kind(), replacement.kind())`
(`syntax/node.rs:508`, `syntax/token.rs:137`); the recursion makes this comparison at every level. The
kinds of elements are the constant `Kind`, since nothing else in these modules looks at them.

### SyntaxText

A view is the byte strings of the tokens below a node, the node's offset, and an absolute range;
`Encode` gives characters one or two bytes. `TokensWithRanges` intersects the range with every token,
and keeps tokens that only touch it, as `TextRange::intersect` does. Every method is an operator over
these chunks in the order in which the code meets them; reading a chunk that is not cut between
characters panics, as indexing a `str` does. `Slice` is the one action, so slices of slices are
reached. The reference definition is `TrueBytes`, a part of the concatenated text. `SyntaxData` has
the same slices and chunks but may be cut anywhere (`DataChunks`). `ZipStep` is one step of the loop
of `zip_texts`, which either takes a chunk or empties one, so `ZipTexts` repeats it `ZipTime` times;
that the loop has ended by then is part of the proof.

### Serialization

The client threads' `set_data`, `try_set_data` and `clear_data` interleave with the serialiser, which
takes one step per event of the walk and reads a node's data when it enters it. `held` records what
each cell contained since serialisation began. The deserialiser takes events one by one, as serde's
`SeqAccess` hands them over, and turns each into an action of `TreeBuilder`; a document from
elsewhere is a free choice of each next event and, at the end, of the data list. Trees are values of
any width (`AllTrees`), nested at most `MaxSteps` deep, and `Walk` is what a preorder walk makes of them. Assertions and
`unwrap`s of the builder (`EventPanics`) are its `Panic`. Kinds are written as the numbers that
`#[derive(Syntax)]` gives them, token bytes as text or as bytes. The key space of the interner is not
limited here; `GreenBuilder` has that limit.

### Interner and SharedInterner

The adapters in `interning/lasso_compat` are a few lines each; what has to be right is the combination
with an interner of another crate, used by several threads, whose keys are wider or narrower than a
`TokenKey`. lasso is external, so its part (`Lookup`, `Lock`, `Allocate`, `Store`, `Publish`) is
modelled from its documented structure: texts in shards with a lock each, an atomic counter, a second
look under the lock. `ToTokenKey` and `HasExternalKey` are the two conversions, `Intern` and `Resolve`
the calls with their panicking and their `try_` variants. `KeySpaces` gives the external keys fewer,
as many, and more values than the `TokenKey`. The mapping to `Interner` reads the assignment off
lasso's table of strings, keys without a `TokenKey` left out.

### Resolved

A view is a static type, an element, the variable it borrows from, and whether it comes from a
variable that was assigned. Borrowing is Rust's: what is borrowed is neither dropped nor overwritten.
Methods return any element their group can reach (which one is the subject of `Traversal`); what
matters here is the type around it. `Read` stands for the methods that unwrap the resolver (`data`
and `text` do so only for a token without static data).

### DeriveSyntax

A definition is the forms of its attributes and variants, the parser goes over it as `parse_from_ast`
does, and errors are collected in the `ErrorContext`, which panics if it is dropped unchecked or used
after the check. `Discriminant` is what the compiler gives the variants.

## 3. Runs

Passing runs:

| Run | Question | Instance |
|---|---|---|
| `builder` | can any sequence of calls with stale checkpoints corrupt the stack, what does a valid one restore and wrap, and do the flat vectors implement a builder of trees? | one node kind, 2 interchangeable token kinds, one text, 2 unfinished nodes, 2 elements on the stack, 3 allocations, 2 checkpoints, a hash without collisions, debug assertions |
| `cache` | are cache and interner right across builders, with a full key space, bad bytes, wrapping lengths? | 2 token kinds (one static), 4 byte strings of which one does not decode, 2 keys, 3 allocations, 1 checkpoint, a hash that collides, lengths modulo 4, no debug assertions, threshold 1 |
| `shared_tree` | is the count exact and memory safe in every interleaving, do the threads see one tree, does every call return and is everything freed? | 3 threads, 2 handles, the root, a node in it and a token in that node |
| `navigation` | do offsets, searches, walks and the debug output agree with the text? | every tree of at most 5 elements, token lengths 0 and 2, two kinds in turn |
| `text` | do the methods that see one token at a time agree with the whole text? | every distribution of at most 2 characters (of 1 and 2 bytes) over at most 3 tokens, for both texts; bounds and offsets modulo 8, no overflow checks |
| `serde` | is a tree restored with data it had, and what can a document from elsewhere become? | 2 trees of 3 nodes, 3 concurrent writes of 2 values; every document of at most 6 events out of 9, with at most 2 data elements; walks of at most 8 steps |
| `interner` | do threads that share an interner get one key per text, with keys that do not fit or run out? | 2 threads, 4 texts in 2 shards, undecodable bytes, 2 token keys, 1 to 4 external keys |
| `derive` | is what the macro accepts sound to transmute, and is everything wrong reported? | every definition with 6 lists of `repr`, 5 of `syntax` attributes and at most 2 variants out of 72 |

Why the bounds are enough for the cases meant: a checkpoint stays usable after nodes under and above
it were finished, reverted or wrapped, and after its builder is gone, so with two nodes and two
elements it meets every assertion from both sides; two of them show one wrapped, reverted past or passed
over by the other. Static and undecodable text is the business of the `cache` run.
The token kinds of the `builder` run are a symmetry set: none has static text, no definition tells one
from the other, and the properties speak of states and single steps. A
threshold of one separates cached from uncached nodes with one and two children. Two keys and three
decodable texts fill the key space. A lost race needs two threads on one slot and a third to clone or
drop in the middle. Five elements hold an empty node, an empty token and two tokens on different
levels; lengths 0 and 2 give offsets strictly inside a token and on borders. Three tokens and two characters
put empty tokens before, between and behind, and borders of the two texts at different places. Three
writes set, clear and set again around the moment at which a node is read. Two threads in two shards
give a race for one text, for one lock and for the last key; with two token keys, four external keys
hold one that fits but has no `TokenKey` and one that does not fit. Two variants are enough for a
discriminant that is too small, too large, doubled or the right one written out.

`CHECK_DEADLOCK FALSE` appears
in the builder runs, where the client may stop and where the bounds on the heap stop it, in `text` and
`resolved_guarantee`, which stop after a panic, and in `serde` and `derive`, which end with a result;
`SyntaxTree` has an explicit `Finished` step and `Traversal` never stops, so deadlock is checked there.

Runs in which the code departs from what its documentation, comments or assertions say:

| Run | What it shows |
|---|---|
| `resolved_guarantee` | `*resolved = plain` through `DerefMut` leaves a view whose type promises a resolver on a tree that has none; methods of the view then panic |
| `text_eq_static` | `text_eq` of a static token with an interned one fails a debug assertion, while the other way round it answers no |
| `next_token` | `next_token` is `None` in front of a node without tokens, although tokens follow |
| `iter_len` | the length of the iterator over child nodes counts tokens |

## 4. Properties

* Builder: `ParentsNested`, `ValidCheckpointsRestore`, `BalancedUseNeverPanics`, `RevertIsRestore`,
  and `ImplementsTreeBuilder`, from which the right result of `finish` follows. A refinement says that
  each step is a step of `TreeBuilder`, not which; `StartNodeAtWraps` says it for `start_node_at`.
* Cache: `Deduplicated`, `InternerInjective`, `KeysStable`, `TextLenFaithful`, `TextEqSound`.
* Shared tree: `CountExact` (the count is the number of handles plus what losers of a race still owe),
  `NoUseAfterFree`, `TornDownOnce`, `UnwrapSucceeds`, `NoLeak`, `ImplementsSharedTree` (all threads
  get the same child, which is never replaced while anybody has a handle), `OperationsReturn`,
  `EventuallyFreed`.
* Navigation: `SlotsFaithful`, `NeverPanics`, `NeighboursFaithful`, `TokensInOrder`,
  `TokenAtOffsetFaithful`, `CoveringFaithful`, `WalkInOrder`, `DebugFaithful`, `ReplaceFaithful`.
* Text: `ChunksFaithful`, `SearchFaithful`, `EqFaithful`, `SliceFaithful`. They speak of texts cut between characters; `char_at` at an offset inside a
  character, and reading a text cut there, panic.
* Serialisation: `TreeRoundTrip`, `DataRoundTrip`, `AcceptedFaithful`. A document
  read while data changes is no snapshot: each node has data of some time during the walk, and that
  is all `DataRoundTrip` says. `AcceptedFaithful` is stated for documents that leave as many nodes as
  they enter; others can be accepted, because `finish` counts elements and not unfinished nodes.
* Shared interner: `ImplementsInterner` (keys are one-to-one and for ever, refused texts have none),
  `CallsReturn`.
* Resolved views: `GuaranteedResolver`, which fails, and `GuaranteedUnlessAssigned`, which is proved.
* Derive: `TransmuteSound`, `DefectsReported` (every place with a defect, and no other, also when the
  error context is used wrongly).

`ReplaceFaithful` is about replacements of every kind: one of the kind of the element gives the tree
with the element exchanged, and any other panics at once; no assertion further up ever fails.

`TokensInOrder` is stated for trees in which every node has a token below it; `next_token` shows that
it fails without this.

## 5. Fairness

`SyntaxTree` and `SharedInterner` have liveness properties. `SyntaxTree` assumes weak fairness of `Step(t)`, the continuation of
an operation that thread `t` has begun: the operating system schedules threads, the steps do not wait
for anything except the slot locks, and a `parking_lot` lock is not withheld for ever from a thread
that waits for it. Nothing is assumed of what clients start; in particular no handle need ever be
dropped, and `EventuallyFreed` speaks only of the time after the last one was.

`SharedInterner` assumes the same of the steps of a call, weakly: a lock that others take in turn is
not promised to anyone. While there are keys every holder of a lock publishes a text, and there are
only finitely many. Once they are used up, a thread that waits can be overtaken by threads that fail,
again and again, so `CallsReturn` speaks of the time before.

## 6. Proofs

Every theorem speaks of all values of the constants. The assumptions are those of the modules:
`GreenBuilderAssumption` (any kinds, texts, hash function, cache threshold, key space and bounds),
`SyntaxTreeAssumption` (any finite number of threads and handles, any tree whose tokens are leaves)
with `CountFits` (all references that can exist at once fit the 32-bit count with room for the
teardown; the code leaves overflow to the memory running out first), `SharedInternerAssumption` (any
threads, texts, shards and widths of keys), `TraversalAssumption` (trees of any size, tokens of any
length), `SerializationAssumption` (any kinds and texts, any set of trees whose walks are at most `MaxSteps`
long, any events from elsewhere, with and without debug assertions), `SyntaxTextAssumption` (any
characters and encoding in which the first byte of a character, and only that, is recognised as such,
and no character is the beginning of another; UTF-8 is one; any modulus of offsets, with and without
overflow checks) with `OffsetsFit` (the text of a node ends below the largest offset, which holds of
every node that a tree could give an offset to).

### The builder

`BuilderProofs`, types and nesting
* `TypeCorrect`: `Spec => []TypeOK`. Elements refer to older elements only and every key resolves;
  the interner only grows except when the cache is emptied with it.
* `NestingCorrect`: `Spec => []ParentsNested`. `ParentsNested` is inductive together with `TypeOK`.
  The interesting cases are `RevertTo` and `StartNodeAt` with arbitrary checkpoints: a revert keeps a
  prefix of `parents`, whose first children are at most that of the innermost node, which the last
  assertion of `revert_to` compares with the new length; `start_node_at` is bounded on both sides by
  its assertions. So stale checkpoints, also of other builders, cannot make `finish_node` drain out of
  range.

`BuilderProofs`, checkpoints
* `CheckpointsCorrect`, `BalancedUseCorrect`, `RevertCorrect`: `HSpec` implies
  `[]ValidCheckpointsRestore`, `[]BalancedUseNeverPanics` and `RevertIsRestore`. The inductive
  invariant `HInv` adds to `TypeOK`, `ParentsNested` and the history's type two facts that are lost
  when only indices are kept: no node of a valid snapshot begins behind its elements
  (`SnapshotsNested`), and of two valid checkpoints the earlier is the shorter prefix
  (`CheckpointsOrdered`), without which a revert to one could cut into another. An action keeps
  `HInv` if it only invalidates checkpoints and leaves the prefixes of the others alone; each
  action has a step that shows this. The two state properties follow from `HInv`, the action property
  from `HInv` and the definition of `revert_to`.

`BuilderProofs`, cache and interner
* `InterningCorrect`, `SharingCorrect`: `Spec` implies `[]InternerInjective` and `[]Deduplicated`. A
  known text is also found under its key when no keys are left, since `InternFails` looks for the text
  first and `KeysDistinct` leaves no other key for it to find. For sharing, a
  lookup does not search the heap but a table by kind, length and hash, so the invariant `CacheInv`
  adds `ElementsCached`: every token and every small node is an entry of its table, and what the
  lookup compares is what its children determine. Identical elements therefore meet the same entry,
  whatever the hash; that different ones may meet it too is the collision the refinement excludes.
* `KeysCorrect`: `Spec => KeysStable`, from the lemma that every call of a builder only adds texts.
* `TextEqCorrect`: `Spec => []TextEqSound`. Equal keys of one interner are equal texts by
  `InternerInjective`, and a kind with static text has no key.
* `TextLenCorrect`: `Spec => []TextLenFaithful`. Stored lengths are the true ones modulo the width,
  and the true ones with debug assertions, where a sum that does not fit panics. The true length of
  an element is defined over the elements below it, so this is an induction along the heap.

`BuilderProofs`, refinement
* `BuilderRefinementCorrect`: `HSpec /\ []CollisionFree => ImplementsTreeBuilder`, for any number of
  checkpoints. It uses `HInv` and `CacheInv`. There are three layers of lemmas: how `Frames` of an
  appended, cut or wrapped vector relate to the frames before; that a tree stays what it is while
  heap and values only grow (`TreeOf` in the next state); and `SameHeadSameTree`, that elements with
  the same head stand for the same tree, by induction over the heap. This is where `CollisionFree`
  is used: without it a hit in the node table may be somebody else's node. Then one lemma per action
  shows which step of `TreeBuilder` it is. A call at a checkpoint that is no longer valid becomes
  `RevertInvalid` or `StartNodeAtInvalid`, for which `ParentsNested` provides the frames to merge.
* `StartNodeAtCorrect`: `HSpec => StartNodeAtWraps`, from the lemma for that action: at a valid
  checkpoint the other two steps it could refine to are excluded. It holds for every hash.

### The shared red tree

`SyntaxTreeProofs`
* `TypeCorrect`, `CountCorrect`, `MemoryCorrect`, `TeardownCorrect`, `UnwrapCorrect`, `LeakFree`:
  `Spec` implies `[]TypeOK`, `[]CountExact`, `[]NoUseAfterFree`, `[]TornDownOnce`,
  `[]UnwrapSucceeds` and `[]NoLeak`. No one of them is inductive alone. The invariant `Inv` joins
  them with: a thread between taking and releasing the lock of a slot is the one the lock names
  (`LocksOK`); a filled slot holds an allocated box made for it below a parent that is there
  (`SlotsOK`); a thread in the middle of `get_or_add_element` has a handle, works under such a parent
  and still owns what it made (`WorkOK`); the tree stands exactly while there are handles, and one
  thread takes it down alone (`TeardownOK`); the count during the teardown, which is below zero and
  therefore near the largest `u32`, never comes back to one (`FallingCount`, where `CountFits` is
  used). `CountExact` is about a cardinality that changes by one with each handle and each loser; the
  lemmas under "Counting" say so once.

`SyntaxTreeProofs`, refinement
* `SharedTreeRefinement`: `Spec => ImplementsSharedTree`. `Inv` is extended by `AtOK`, an idle
  thread is where something is. A `Store` by whoever wins is the abstract answer for all; that a loser
  reads the winner's element afterwards is `UnwrapSucceeds` together with `FilledStays`, a filled
  slot does not change while the tree stands.

### Shared interners and resolved views

`SharedInternerProofs`
* `InternerRefinement`: `Spec => ImplementsInterner`. The two tables of lasso are written in two
  steps, so they disagree while a thread publishes (`TablesOK`); that nobody gives a second key to the
  text in between follows from the lock of its shard (`LocksOK`) and from the counter, which gives
  every key to one thread (`KeysOK`). The conversion of keys is one-to-one on the keys it accepts.

`SyntaxTreeProofs`, at its end
* `GuaranteeCorrect`: `Spec => []GuaranteedUnlessAssigned`, for any trees of any shape and any number
  of variables. The invariant is that every view in a variable is of a tree that exists and, if it is
  resolved and not assigned, that has a resolver. It is inductive because whether a tree has a
  resolver never changes once it exists (`PutKeepsViews`), and every method hands on the tree of the
  view it is called on (`StorePreserves`). So the `unsafe` coercions of `syntax/resolved.rs` are
  right, and the assignment through `DerefMut` is the only way to lose the guarantee.

### Serialisation and the derive macro

`SerializationProofs`
* `TreeRoundTripCorrect`, `DataRoundTripCorrect`, `AcceptedCorrect`: `Spec` implies
  `[]TreeRoundTrip`, `[]DataRoundTrip` and `[]AcceptedFaithful`, and `TypeCorrect` the types. The
  invariant `Inv` has three parts for the three stages. While a tree is written, the document is a log
  (`Logged`): event i is the event of step i of the walk with a value that its cell has held, and the
  data list is what is left of these values without the empty ones; a writer only adds to what a cell
  has held, so the log stays true. While events are read, the builder's stack has the steps so far as
  its past (`Built`): the walks of the trees it has recorded, with a step into a node for each
  unfinished one, are the steps so far. At the end the result is the tree of the events (`Finished`).
  What makes this enough is that walks decode (`TreesDecode`): no walk is the beginning of another
  and different trees have different walks, by induction over the nesting of trees. So the serialiser's
  document never leaves a node too many (`NotLeft`) and ends with the one tree (`OnlyTree`), and a
  balanced document that ends with one tree is its walk (`BalancedMakes`). The data list is matched by
  counting (`Pairing`): as many flags are raised up to a node as values were written up to it
  (`GivenBack`, `Accepted`).

`DeriveSyntaxProofs`
* `TransmuteCorrect`, `ReportCorrect`: `Spec` implies `[]TransmuteSound` and `[]DefectsReported`, for
  definitions with any number of variants, attributes and arguments. The invariant says of the part of
  the definition that the parser is past that the places of the recorded errors are exactly the
  defective places in it (`ContextInv`), what is left to be looked at (`ProgressInv`), and what was
  reported when the context was consumed (`ReportInv`). Without a defect every variant is a unit
  without a discriminant, so the compiler numbers them from 0 and the assertion of `from_raw`
  compares with their number.

### Texts

`SyntaxTextProofs`
* `TypeCorrect`, `ChunksCorrect`, `SearchCorrect`, `SliceCorrect`, `EqCorrect`: `Spec` implies
  `[]TypeOK`, `[]ChunksFaithful`, `[]SearchFaithful`, `[]SliceFaithful` and `[]EqFaithful`, for tokens
  and texts of any length. The four properties say what each method answers about the view the
  client has, so the invariant is small: the range lies in the text of the node, that text consists
  of whole characters (`Coded`) and ends below the modulus (`Fits`). The work is in what the methods
  compute.
  - Chunks: putting together the parts of all pieces that a range covers gives the range of the whole
    (`CutJoined`, `ChunksJoined`), although tokens that only touch it take part, and these parts can
    be read if and only if both ends of the range lie between characters (`ChunksReadable`).
  - Searching: a character that occurs in the text lies in one chunk, because chunks are cut between
    characters, so the first chunk that has one has the first one.
  - Slicing: the sum of the view's start and the bound is compared with the range after it may have
    wrapped. By `Fits` a wrapped sum is below the start, and the checks that follow refuse it.
  - Comparing: before each step of the loop both texts agree up to the same place, and what is left of
    both chunks begins there (`Together`). If two chunks differ the texts do; if one iterator is at
    its end so is the other, up to empty chunks, as the lengths are equal (`Ending`). No place is
    inside a character in one text and between characters in the other (`SameBoundary`), so no read
    panics. Each step lowers `Work`, which is less than `ZipTime` at the beginning (`LoopEnds`).

### Navigation

`TraversalProofs`
* `TypeCorrect`, `SlotsCorrect`, `NeverPanicsCorrect`: `Spec` implies `[]TypeOK`, `[]SlotsFaithful`
  and `[]NeverPanics`, for every tree `GreenNode::new` can make and every sequence of calls. The
  invariant `Inv` says that what is in a slot is the true index and offset of the element, and that
  the slots above it are filled (`Core`); that the client, its walk and its iterator stand at elements
  with filled slots (`Standing`, `Walking`, `Iterating`), a walk below the node it started from, an
  iterator at the offset of its next child.
  - Offsets: the elements below a node follow each other without a gap, so its children tile it
    (`AllFit`, `KidTruth`). Summing from the start of the node or of a left neighbour and subtracting
    from its end or from a right neighbour give the same offset (`Forwards`, `Backwards`). If all the
    references a call visits are true and each has a parent whose slot is filled or visited too
    (`Meets`), then `Visit` asserts nothing false and `Core` holds again (`VisitGrows`, `Visited`).
    One lemma per family of methods shows that they visit such references (`KinOpen`, `PathMeets`,
    `SiblingPaths`, `Descents`, `AncestorPaths`, `TokenPaths`, `CoveringMeets`, `PathTrue`).
  - `token_at_offset`: in a node with text, the children with text that touch an offset inside it are
    one, or two of which the first ends where the second begins (`TouchesTwice`, `TouchingKids`).
    Below such a border the search goes on with the last child on the left and the first on the
    right and finds one token on each side, so no level reaches the `unreachable!` (`SearchTrue`).
  - Walks: leaving an element below the start goes to its next sibling or its parent, and both are
    below the start (`UnderKid`, `UnderParent`).
* `NeighboursCorrect`, `CoveringCorrect`, `TokenAtOffsetCorrect` and `TokensCorrect`: at whatever
  element the client stands, what navigation finds is what the shape of the tree determines
  (`[]NeighboursFaithful`, `[]CoveringFaithful`, `[]TokenAtOffsetFaithful`, `[]TokensInOrder`). They
  need `Inv` only for this: the client's reference is true.
  - Neighbours: the first entry of a part of the children that passes a test is the least child that
    passes it, the last entry the greatest (`PickedLeast`, `NearestKids`, `NearestSiblings`). An
    iterator that goes from each entry of a set to the next greater or next smaller one lists the whole
    set in order; there is one such list (`NearestOfAll`, `AscendingIs`, `DescendingIs`).
  - `covering_element`: of the children, which tile the node, at most one covers a range that is not
    empty, and everything that covers it lies below that child (`Nested`, `KidToward`).
  - `token_at_offset`: by induction along the search, the tokens found below an element are all the
    tokens with text below it that touch the offset (`Sought`, `SearchFinds`). At a border between two
    children these are the last one on the left and the first one on the right (`TwoSides`).
  - `first_token` and `last_token` descend to the ends of a subtree (`DescentEnds`). `next_token` climbs
    until there is a right sibling. The element it has climbed to ends where the token ends
    (`NothingRight`) and the sibling begins right after it (`NextAfter`), so the first token below the
    sibling is the next one (`NextTokenLeads`); `prev_token` mirrors it.
* `WalksCorrect`: `Spec` implies `[]WalkInOrder`. `Events` describes a walk from above, as its own
  events around those of the children one after the other; the iterator only ever looks at the element
  where it is. `Follows` says which event comes next by the nearest child or sibling there is, and there
  is only one (`OneFollows`). In the events of a subtree each follows the one before: by induction over
  the size of the subtree, and in it over the children that are walked already (`EventsFollow`,
  `BegunSteps`). The iterator takes the event that follows too (`NextFollows`). So the invariant
  `InStep`, that what a walk has reported is the beginning of the events below its start and ends where
  the walk is, goes on from step to step (`ReportedNext`, `WalkGoesOn`).
* `ReplaceCorrect`: `Spec` implies `[]ReplaceFaithful`, for any kinds. `Grows` says that a function
  gives every element a green tree made from those of its children; such a function exists in spite of
  the nesting, built from the last element to the first (`SomethingGrows`), and changes only above the
  replacement (`GraftApart`). So a rebuilt parent is what the parent of the substituted tree is
  (`RebuiltGraft`), level by level up to the root (`ReplaceClimbs`); each of these has the kind it had
  (`KindsStay`), which is why only the first assertion can fail (`MismatchPanics`).

  Text lengths, the search and the paths are recursive functions along the tree. What they compute is
  proved by induction over a rank that falls with every call (`RankRecursion`).

### What only TLC checks

* `OperationsReturn`, `EventuallyFreed` and `CallsReturn` are liveness under fairness, which the
  prover does not handle.
* `DebugFaithful`.
* What a recursive definition computes for every input needs an induction principle with an operator
  as parameter, which the installed provers cannot instantiate. Where the proofs above need an
  induction (sums of lengths, `TrueLen`, `TreeOf`, `Walk`, the loop of `zip_texts`, navigation), the
  definition is a recursive function or a fold, and they take a smallest counterexample from the
  well-foundedness of finite sets of numbers (`Least`, `Induct` in `SequenceFacts`).
* The invariants of `SerializationProofs`, `DeriveSyntaxProofs`, `SyntaxTextProofs` and
  `TraversalProofs` as a whole: they quantify over all sequences or all trees. TLC checks the properties they contain.

## 7. Plan

1. Done: all components of section 1 as models; the abstract builder, shared tree and interner and
   their refinements; the theorems above.
2. Left: a proof that the debug output shows every element below its start at its depth. With
   `WalksCorrect` the events it is made from are known.

## 8. Not modelled

* `interning/salsa_compat.rs` implements `Interner` without the required `try_get_or_intern_bytes`, so
  it cannot be built at this commit, and forwards to salsa, which is not in the repository.
* lasso itself: `SharedInterner` models it as far as the adapters depend on it. The documentation
  (`interning/traits.rs:211`) says that `Interner` is implemented for `&MultiThreadedTokenInterner`;
  `token_interner.rs` implements it for the interner and for `Arc` of it.
* The packing of green elements into tagged pointers, the thin `Arc` layout and the non-zero encoding
  of keys in memory are representation.
* Payload types: the models know a token's data as bytes and whether they decode. Left out is memory
  alignment: for plain-old-data types `from_bytes` (`interning/traits.rs:152`) dereferences
  `bytemuck::from_bytes`, which panics where the interned bytes happen not to be aligned for the type;
  its contract (`interning/traits.rs:42`) is to rebuild a properly aligned value or return an error.
* The format of one line of debug output, and the wording and spans of the macro's messages.
* Examples, the guide in `getting_started.rs` and the benchmarks use the library and add nothing to it.
