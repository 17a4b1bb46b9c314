----------------------------- MODULE SyntaxTree -----------------------------
(***************************************************************************)
(* The lazily built, shared syntax ("red") tree of cstree (syntax/node.rs, *)
(* syntax/token.rs): one AtomicU32 counts the external SyntaxNodes and     *)
(* SyntaxTokens ("handles") of a whole tree; internal references, those in *)
(* the child slots and from a child to its parent, are not counted, but    *)
(* their drop glue decrements the count like any other.  Threads race to   *)
(* fill the child slots; the thread that drops the last handle tears the   *)
(* tree down.                                                              *)
(*                                                                         *)
(* Positions are the places of the green tree, in preorder.  A NodeData    *)
(* box is named <<position, thread that allocated it>>.  Dereferencing a   *)
(* box that is not in `alive' would be a use after free.                   *)
(***************************************************************************)
EXTENDS Integers, FiniteSets

CONSTANTS
    Threads,
    Handles,     \* bound: names for the external references alive at a time
    NoOwner,     \* the owner of a handle that is not in use
    Creator,     \* the thread that calls new_root
    Size,        \* positions of the green tree; 1 is its root
    Parent,      \* the parent position of every other position
    TokenAt,     \* the positions that are tokens
    U32          \* 2^32, the modulus of the reference count

Positions == 1 .. Size
Slots == 2 .. Size
Root == 1

ASSUME SyntaxTreeAssumption ==
    /\ IsFiniteSet(Threads) /\ IsFiniteSet(Handles) /\ Handles # {}
    /\ Creator \in Threads /\ NoOwner \notin Threads
    /\ Size \in Nat \ {0}
    /\ Parent \in [Slots -> Positions]
    /\ \A p \in Slots : Parent[p] < p /\ Parent[p] \notin TokenAt
    /\ TokenAt \subseteq Slots
    /\ U32 \in Nat

\* As many references as there can be at once do not wrap the count.
ASSUME CountFits ==
    U32 > Cardinality(Handles) + 2 * Cardinality(Threads) + 2 * Size + 1

VARIABLES
    refCount,  \* *ref_count
    counted,   \* whether the box of ref_count is still allocated
    alive,     \* the NodeData boxes that are allocated
    slot,      \* children: what each child slot holds
    lock,      \* child_locks: the thread inside each slot's write section
    owner,     \* the thread that owns each handle
    lender,    \* the thread whose handle a thread works with by reference
    pc,        \* what each thread does next
    at,        \* the position each thread works on
    teardowns  \* how often a drop has started to tear the tree down

vars == <<refCount, counted, alive, slot, lock, owner, lender, pc, at, teardowns>>

RootBox == <<Root, Creator>>
None == <<>>
Box(p, t) == <<p, t>>
Free == NoOwner

\* What stands at a position, None while it has not been asked for.
BoxAt(p) == IF p = Root THEN RootBox ELSE slot[p]
Owned(t) == {h \in Handles : owner[h] = t}
InUse == {h \in Handles : owner[h] # NoOwner}
Lends(t) == \E u \in Threads : lender[u] = t

\* A thread can navigate the tree with a handle of its own or a borrowed one.
CanUse(t) == Owned(t) # {} \/ lender[t] # NoOwner

\* fetch_add and fetch_sub wrap.
Add(n) == (refCount + n) % U32

Sub(n) == (refCount + U32 - n) % U32

\* Mutant: compares the count after the decrement instead of the one before.
DropReference_After(t, next) ==
    /\ refCount' = Sub(1)
    /\ IF refCount' = 1
       THEN pc' = [pc EXCEPT ![t] = "teardown"] /\ teardowns' = teardowns + 1
       ELSE pc' = [pc EXCEPT ![t] = next] /\ UNCHANGED teardowns

\* SyntaxNode::drop: after the decrement, the thread that took the count from
\* 1 starts the teardown and any other goes on with `next'.
DropReference(t, next) ==
    /\ refCount' = Sub(1)
    /\ IF refCount = 1
       THEN pc' = [pc EXCEPT ![t] = "teardown"] /\ teardowns' = teardowns + 1
       ELSE pc' = [pc EXCEPT ![t] = next] /\ UNCHANGED teardowns

Init ==
    /\ refCount = 1 /\ counted = TRUE /\ alive = {RootBox}
    /\ slot = [p \in Slots |-> None]
    /\ lock = [p \in Slots |-> Free]
    /\ \E h \in Handles : owner = [g \in Handles |-> IF g = h THEN Creator ELSE NoOwner]
    /\ lender = [t \in Threads |-> NoOwner]
    /\ pc = [t \in Threads |-> "idle"]
    /\ at = [t \in Threads |-> Root]
    /\ teardowns = 0

----------------------------------------------------------------------------
(* Handles *)

\* SyntaxNode::clone and SyntaxToken::clone.
Clone(t, h) ==
    /\ pc[t] = "idle" /\ CanUse(t)
    /\ owner[h] = NoOwner
    /\ owner' = [owner EXCEPT ![h] = t]
    /\ refCount' = Add(1)
    /\ UNCHANGED <<counted, alive, slot, lock, lender, pc, at, teardowns>>

\* A handle cannot move or be dropped while another thread borrows it.
Movable(t, h) == owner[h] = t /\ (Lends(t) => Owned(t) # {h})

\* SyntaxNode: Send.
SendHandle(t, u, h) ==
    /\ pc[t] = "idle" /\ u # t
    /\ Movable(t, h)
    /\ owner' = [owner EXCEPT ![h] = u]
    /\ UNCHANGED <<refCount, counted, alive, slot, lock, lender, pc, at, teardowns>>

\* SyntaxNode: Sync.  Thread u lends &SyntaxNode to t and gets it back.
Borrow(t, u) ==
    /\ pc[t] = "idle" /\ u # t
    /\ lender[t] = NoOwner /\ Owned(u) # {}
    /\ lender' = [lender EXCEPT ![t] = u]
    /\ UNCHANGED <<refCount, counted, alive, slot, lock, owner, pc, at, teardowns>>

EndBorrow(t) ==
    /\ pc[t] = "idle" /\ lender[t] # NoOwner
    /\ lender' = [lender EXCEPT ![t] = NoOwner]
    /\ UNCHANGED <<refCount, counted, alive, slot, lock, owner, pc, at, teardowns>>

DropHandle(t, h) ==
    /\ pc[t] = "idle"
    /\ Movable(t, h)
    /\ owner' = [owner EXCEPT ![h] = NoOwner]
    /\ DropReference(t, "idle")
    /\ UNCHANGED <<counted, alive, slot, lock, lender, at>>

----------------------------------------------------------------------------
(* get_or_add_node and get_or_add_element *)

\* read(index): a filled slot is the answer.  A miss allocates the element; a
\* token lives in the slot and has no box.
GetOrAdd(t, p) ==
    /\ pc[t] = "idle" /\ CanUse(t)
    /\ BoxAt(Parent[p]) # None
    /\ lock[p] = Free
    /\ at' = [at EXCEPT ![t] = p]
    /\ \/ slot[p] # None /\ UNCHANGED <<pc, alive>>
       \/ /\ slot[p] = None
          /\ pc' = [pc EXCEPT ![t] = "try_write"]
          /\ alive' = alive \cup (IF p \in TokenAt THEN {} ELSE {Box(p, t)})
    /\ UNCHANGED <<refCount, counted, slot, lock, owner, lender, teardowns>>

\* try_write takes the write lock ...
Lock(t) ==
    /\ pc[t] = "try_write"
    /\ lock[at[t]] = Free
    /\ lock' = [lock EXCEPT ![at[t]] = t]
    /\ pc' = [pc EXCEPT ![t] = "write"]
    /\ UNCHANGED <<refCount, counted, alive, slot, owner, lender, at, teardowns>>

Unlocked(t) == [lock EXCEPT ![at[t]] = Free]

\* Mutant: a token replaces the one that is there.
Store_TokenAgain(t) ==
    /\ pc[t] = "write"
    /\ slot[at[t]] = None \/ at[t] \in TokenAt
    /\ slot' = [slot EXCEPT ![at[t]] = Box(at[t], t)]
    /\ lock' = Unlocked(t)
    /\ pc' = [pc EXCEPT ![t] = "read"]
    /\ UNCHANGED <<refCount, counted, alive, owner, lender, at, teardowns>>

\* Mutant: stores nodes and forgets tokens.
Store_NodesOnly(t) ==
    /\ pc[t] = "write"
    /\ slot[at[t]] = None
    /\ slot' = IF at[t] \in TokenAt THEN slot ELSE [slot EXCEPT ![at[t]] = Box(at[t], t)]
    /\ lock' = Unlocked(t)
    /\ pc' = [pc EXCEPT ![t] = "read"]
    /\ UNCHANGED <<refCount, counted, alive, owner, lender, at, teardowns>>

\* ... and the first thread stores its element.
Store(t) ==
    /\ pc[t] = "write"
    /\ slot[at[t]] = None
    /\ slot' = [slot EXCEPT ![at[t]] = Box(at[t], t)]
    /\ lock' = Unlocked(t)
    /\ pc' = [pc EXCEPT ![t] = "read"]
    /\ UNCHANGED <<refCount, counted, alive, owner, lender, at, teardowns>>

\* Mutant: pays for the drop of the element only.
Compensate_One(t) ==
    /\ pc[t] = "write"
    /\ slot[at[t]] # None
    /\ refCount' = Add(1)
    /\ pc' = [pc EXCEPT ![t] = IF at[t] \in TokenAt THEN "drop_parent" ELSE "drop_node"]
    /\ UNCHANGED <<counted, alive, slot, lock, owner, lender, at, teardowns>>

\* Any later one pays for the drops of its own element in advance.
Compensate(t) ==
    /\ pc[t] = "write"
    /\ slot[at[t]] # None
    /\ refCount' = Add(IF at[t] \in TokenAt THEN 1 ELSE 2)
    /\ pc' = [pc EXCEPT ![t] = IF at[t] \in TokenAt THEN "drop_parent" ELSE "drop_node"]
    /\ UNCHANGED <<counted, alive, slot, lock, owner, lender, at, teardowns>>

\* drop(node)
DropNode(t) ==
    /\ pc[t] = "drop_node"
    /\ DropReference(t, "drop_parent")
    /\ UNCHANGED <<counted, alive, slot, lock, owner, lender, at>>

\* Mutant: does not free the box of the element.
DropParent_Leak(t) ==
    /\ pc[t] = "drop_parent"
    /\ DropReference(t, "read")
    /\ lock' = Unlocked(t)
    /\ UNCHANGED <<counted, alive, slot, owner, lender, at>>

\* Mutant: the loser of the race tries to write again.
DropParent_Retry(t) ==
    /\ pc[t] = "drop_parent"
    /\ DropReference(t, "try_write")
    /\ alive' = alive \ {Box(at[t], t)}
    /\ lock' = Unlocked(t)
    /\ UNCHANGED <<counted, slot, owner, lender, at>>

\* drop(Box::from_raw(node_data)) or drop(token): drops the `parent' in it.
DropParent(t) ==
    /\ pc[t] = "drop_parent"
    /\ DropReference(t, "read")
    /\ alive' = alive \ {Box(at[t], t)}
    /\ lock' = Unlocked(t)
    /\ UNCHANGED <<counted, slot, owner, lender, at>>

\* read(index).unwrap()
Read(t) ==
    /\ pc[t] = "read"
    /\ lock[at[t]] = Free
    /\ pc' = [pc EXCEPT ![t] = IF slot[at[t]] = None THEN "panic" ELSE "idle"]
    /\ UNCHANGED <<refCount, counted, alive, slot, lock, owner, lender, at, teardowns>>

----------------------------------------------------------------------------
(* The last drop *)

Filled == {p \in Slots : slot[p] # None}

\* Mutant: empties a slot before the slots below it.
NextToDrop_Preorder(p) == p \in Filled /\ \A q \in Filled : p <= q

\* drop_recursive empties the slots in postorder: the first one in preorder
\* that has none below it that is filled.
Bottom == {p \in Filled : \A q \in Filled : Parent[q] # p}
NextToDrop(p) == p \in Bottom /\ \A q \in Bottom : p <= q

\* One slot: a token drops its parent reference; a node drops itself, then its
\* box and the parent reference in that.
DropSlot(t) ==
    /\ pc[t] = "teardown"
    /\ \E p \in Slots :
          LET drops == IF p \in TokenAt THEN 1 ELSE 2 IN
          /\ NextToDrop(p)
          /\ lock[p] = Free
          /\ slot' = [slot EXCEPT ![p] = None]
          /\ alive' = alive \ {slot[p]}
          /\ refCount' = Sub(drops)
          /\ teardowns' = teardowns + (IF refCount \in 1 .. drops THEN 1 ELSE 0)
    /\ UNCHANGED <<counted, lock, owner, lender, pc, at>>

\* Mutant: does not free the box of the count.
DropRoot_KeepCount(t) ==
    /\ pc[t] = "teardown"
    /\ Filled = {}
    /\ refCount' = Sub(1)
    /\ teardowns' = teardowns + (IF refCount = 1 THEN 1 ELSE 0)
    /\ alive' = alive \ {RootBox}
    /\ pc' = [pc EXCEPT ![t] = "idle"]
    /\ UNCHANGED <<counted, slot, lock, owner, lender, at>>

\* drop(root), then the root's box and the box of the count.
DropRoot(t) ==
    /\ pc[t] = "teardown"
    /\ Filled = {}
    /\ refCount' = Sub(1)
    /\ teardowns' = teardowns + (IF refCount = 1 THEN 1 ELSE 0)
    /\ alive' = alive \ {RootBox}
    /\ counted' = FALSE
    /\ pc' = [pc EXCEPT ![t] = "idle"]
    /\ UNCHANGED <<slot, lock, owner, lender, at>>

----------------------------------------------------------------------------
\* The steps of an operation that has begun.
Step(t) ==
    \/ Lock(t) \/ Store(t) \/ Compensate(t) \/ DropNode(t) \/ DropParent(t) \/ Read(t)
    \/ DropSlot(t) \/ DropRoot(t)

\* What the client may start, or not.
Start(t) ==
    \/ \E h \in Handles : Clone(t, h) \/ DropHandle(t, h)
    \/ \E u \in Threads, h \in Handles : SendHandle(t, u, h)
    \/ \E u \in Threads : Borrow(t, u)
    \/ EndBorrow(t)
    \/ \E p \in Slots : GetOrAdd(t, p)

\* Every handle is gone and every operation has returned.
Finished ==
    /\ InUse = {} /\ \A t \in Threads : pc[t] = "idle"
    /\ UNCHANGED vars

Next == (\E t \in Threads : Step(t) \/ Start(t)) \/ Finished

\* An operation that has begun goes on: threads are scheduled, and parking_lot
\* locks do not starve.  Clients are free never to start anything.
Fairness == \A t \in Threads : WF_vars(Step(t))

Spec == Init /\ [][Next]_vars /\ Fairness

----------------------------------------------------------------------------
(* Properties *)

\* Every variable has its type; the count is a u32.
TypeOK ==
    /\ refCount \in 0 .. U32 - 1 /\ counted \in BOOLEAN /\ teardowns \in Nat
    /\ alive \subseteq Positions \X Threads
    /\ slot \in [Slots -> {None} \cup (Positions \X Threads)]
    /\ lock \in [Slots -> Threads \cup {Free}]
    /\ owner \in [Handles -> Threads \cup {NoOwner}]
    /\ lender \in [Threads -> Threads \cup {NoOwner}]
    /\ pc \in [Threads -> {"idle", "try_write", "write", "drop_node", "drop_parent",
                           "read", "teardown", "panic"}]
    /\ at \in [Threads -> Positions]

\* The decrements that a losing thread has paid for and not yet made.
OwesTwo == {t \in Threads : pc[t] = "drop_node"}
OwesOne == {t \in Threads : pc[t] \in {"drop_node", "drop_parent"}}

TornDown == teardowns > 0

\* Until the teardown, the count is exactly the number of handles plus what the
\* losers of the race for a slot still owe: the compensation of try_write is
\* right at every point of every interleaving.
CountExact ==
    ~ TornDown => refCount = Cardinality(InUse) + Cardinality(OwesTwo) + Cardinality(OwesOne)

\* The boxes that thread t's next step dereferences, the count apart.
Touches(t) ==
    CASE pc[t] \in {"try_write", "write", "read"} -> {BoxAt(Parent[at[t]])}
      [] pc[t] = "drop_node" -> {Box(at[t], t)}
      [] pc[t] = "drop_parent" -> {BoxAt(Parent[at[t]])}
      [] pc[t] = "teardown" -> {RootBox} \cup {slot[p] : p \in Filled \ TokenAt}
                                \cup {BoxAt(Parent[p]) : p \in Filled}
      [] OTHER -> {}

\* No thread dereferences memory that was freed: neither in the middle of an
\* operation, nor at any node it can navigate to while it has a handle.
NoUseAfterFree ==
    \A t \in Threads :
        /\ pc[t] # "idle" => counted /\ Touches(t) \subseteq alive
        /\ CanUse(t) => /\ counted /\ RootBox \in alive
                        /\ \A p \in Filled \ TokenAt : slot[p] \in alive

\* The last drop is unique, and the decrements of the teardown itself, which
\* run the count below zero, never look like another one.
TornDownOnce ==
    /\ teardowns <= 1
    /\ TornDown => InUse = {}

\* What the threads see of the tree.
Phase == IF ~ counted THEN "freed" ELSE IF InUse = {} THEN "falling" ELSE "live"
Child == [p \in Slots |-> IF Phase = "live" THEN slot[p] ELSE None]
Ref(t) ==
    IF ~ CanUse(t) \/ Phase # "live" THEN [at |-> 0, is |-> None]
    ELSE [at |-> at[t], is |-> IF pc[t] = "idle" THEN BoxAt(at[t]) ELSE None]

Shared ==
    INSTANCE SharedTree WITH
        child <- Child, ref <- [t \in Threads |-> Ref(t)], phase <- Phase,
        Elements <- [p \in Slots |-> {Box(p, t) : t \in Threads}]

\* The tree that is built on demand by racing threads looks like one that is
\* there for as long as anybody has a handle: whoever asks for a child gets the
\* same one as everybody else, which is never replaced, no operation sees
\* anything of the teardown, and the tree is freed after the last handle only.
ImplementsSharedTree == Shared!TSpec

\* read(index).unwrap() finds the slot filled, by this thread or by another.
UnwrapSucceeds == \A t \in Threads : pc[t] # "panic"

\* Every box is in a slot, is the root, or belongs to a thread that is about
\* to store or to free it; in the end nothing is left.
NoLeak ==
    /\ \A b \in alive :
           \/ b = RootBox
           \/ \E p \in Slots : slot[p] = b
           \/ \E t \in Threads : /\ pc[t] \in {"try_write", "write", "drop_node", "drop_parent"}
                                 /\ b = Box(at[t], t)
    /\ ~ counted => alive = {}

\* Once the last handle is dropped the whole tree is freed.
EventuallyFreed == (InUse = {}) ~> (alive = {} /\ ~ counted)

\* Every operation that has begun returns.
OperationsReturn == \A t \in Threads : pc[t] # "idle" ~> pc[t] = "idle"
=============================================================================
