--------------------------- MODULE SyntaxTreeProofs ---------------------------
(***************************************************************************)
(* The reference count, the locks and the memory of the shared red tree,   *)
(* and that it implements the abstract shared tree, for every number of    *)
(* threads and handles and every shape of the tree; and the guarantee of   *)
(* the resolved views of the elements of such trees.                       *)
(***************************************************************************)
EXTENDS SyntaxTree, TLAPS, FiniteSetTheorems

\* The resolved views: the client's variables hold views of the elements of
\* trees of the same shape.
CONSTANTS Trees, Variables, NoView
VARIABLES resolver, view, status
Client == INSTANCE Resolved WITH Handles <- Variables

----------------------------------------------------------------------------
(* The inductive invariant *)

\* The steps of get_or_add, and those inside the write section of a slot.
Working == {"try_write", "write", "drop_node", "drop_parent", "read"}
InSection == {"write", "drop_node", "drop_parent"}

\* Whoever lends a handle still has one.
LoansOK == \A t \in Threads : lender[t] # NoOwner => Owned(lender[t]) # {}

\* The lock of a slot is held by the thread that is in its write section.
LocksOK ==
    \A t \in Threads :
        /\ pc[t] \in InSection => lock[at[t]] = t
        /\ \A p \in Slots : lock[p] = t => pc[t] \in InSection /\ at[t] = p

\* A filled slot holds an element made for it, which is allocated, and so is
\* its parent.
SlotOK(p) ==
    /\ \E t \in Threads : slot[p] = Box(p, t)
    /\ p \notin TokenAt => slot[p] \in alive
    /\ BoxAt(Parent[p]) # None

SlotsOK == \A p \in Filled : SlotOK(p)

\* A thread inside get_or_add has a handle, works under a parent that is there,
\* has its own element until it drops or stores it, and knows whether it came
\* second.
WorkerOK(t) ==
    /\ CanUse(t)
    /\ at[t] \in Slots
    /\ BoxAt(Parent[at[t]]) # None
    /\ pc[t] \in {"drop_node", "drop_parent", "read"} => slot[at[t]] # None
    /\ pc[t] # "read" => /\ slot[at[t]] # Box(at[t], t)
                         /\ at[t] \notin TokenAt => Box(at[t], t) \in alive
    /\ pc[t] = "drop_node" => at[t] \notin TokenAt

WorkOK == \A t \in Threads : pc[t] \in Working => WorkerOK(t)

\* The tree stands while there are handles; the last one starts one teardown,
\* which nobody else witnesses.
TeardownOK ==
    /\ ~ TornDown => counted /\ InUse # {}
    /\ TornDown => teardowns = 1 /\ InUse = {}
    /\ \A t \in Threads : pc[t] = "teardown" =>
           TornDown /\ counted /\ \A u \in Threads \ {t} : pc[u] = "idle"
    /\ counted => RootBox \in alive
    /\ TornDown /\ counted => \E t \in Threads : pc[t] = "teardown"
    /\ ~ counted => \A t \in Threads : pc[t] = "idle"

\* The teardown has taken at most two references for every slot it emptied, so
\* that the count, which has gone below zero, stays far from 1.
FallingCount ==
    TornDown /\ counted =>
        refCount = 0 \/ refCount >= U32 - 2 * (Size - 1 - Cardinality(Filled))

Inv ==
    /\ TypeOK /\ LoansOK /\ LocksOK /\ SlotsOK /\ WorkOK /\ CountExact
    /\ TeardownOK /\ FallingCount /\ UnwrapSucceeds /\ NoLeak

----------------------------------------------------------------------------
(* Counting *)

LEMMA ModSmall == ASSUME NEW m \in Nat \ {0}, NEW x \in 0 .. m - 1 PROVE x % m = x
  BY SMT

LEMMA ModWrap == ASSUME NEW m \in Nat \ {0}, NEW x \in 0 .. m - 1 PROVE (x + m) % m = x
  BY SMT

\* fetch_add and fetch_sub where they do not wrap, and fetch_sub at 0.
LEMMA AddExact ==
    ASSUME TypeOK, NEW n \in Nat, refCount + n < U32
    PROVE  Add(n) = refCount + n
<1>1. U32 \in Nat \ {0} /\ refCount + n \in 0 .. U32 - 1
  BY SyntaxTreeAssumption DEF TypeOK
<1> QED
  BY <1>1, ModSmall DEF Add

LEMMA SubExact ==
    ASSUME TypeOK, NEW n \in Nat, n <= refCount
    PROVE  Sub(n) = refCount - n
<1>1. U32 \in Nat \ {0} /\ refCount - n \in 0 .. U32 - 1
  BY SyntaxTreeAssumption DEF TypeOK
<1>2. refCount + U32 - n = (refCount - n) + U32
  BY <1>1 DEF TypeOK
<1> QED
  BY <1>1, <1>2, ModWrap DEF Sub

LEMMA SubBelowZero ==
    ASSUME TypeOK, refCount = 0, NEW n \in 1 .. U32 - 1
    PROVE  Sub(n) = U32 - n
<1>1. U32 \in Nat \ {0} /\ U32 - n \in 0 .. U32 - 1
  BY SyntaxTreeAssumption
<1>2. refCount + U32 - n = U32 - n
  BY <1>1
<1> QED
  BY <1>1, <1>2, ModSmall DEF Sub

\* The sets that are counted are finite, and small against U32.
LEMMA Bounds ==
    ASSUME TypeOK
    PROVE  /\ IsFiniteSet(InUse) /\ IsFiniteSet(OwesTwo) /\ IsFiniteSet(OwesOne)
           /\ IsFiniteSet(Filled)
           /\ Cardinality(InUse) \in Nat /\ Cardinality(OwesTwo) \in Nat
           /\ Cardinality(OwesOne) \in Nat /\ Cardinality(Filled) \in Nat
           /\ Cardinality(InUse) + Cardinality(OwesTwo) + Cardinality(OwesOne) + 3 < U32
           /\ Cardinality(Filled) <= Size - 1
           /\ 2 * Size + 1 < U32
           /\ U32 \in Nat /\ Size \in Nat \ {0}
<1>1. /\ IsFiniteSet(Threads) /\ IsFiniteSet(Handles)
      /\ U32 \in Nat /\ Size \in Nat \ {0}
      /\ Cardinality(Threads) \in Nat /\ Cardinality(Handles) \in Nat
  BY SyntaxTreeAssumption, FS_CardinalityType
<1>2. IsFiniteSet(Slots) /\ Cardinality(Slots) = Size - 1
  <2>1. \A a, b \in Int : /\ IsFiniteSet(a .. b)
                          /\ Cardinality(a .. b) = IF a > b THEN 0 ELSE b - a + 1
    BY FS_Interval
  <2>2. 2 \in Int /\ Size \in Int
    BY <1>1
  <2>3. /\ IsFiniteSet(2 .. Size)
        /\ Cardinality(2 .. Size) = IF 2 > Size THEN 0 ELSE Size - 2 + 1
    BY <2>1, <2>2, Zenon
  <2> QED
    BY <1>1, <2>3 DEF Slots
<1>3. /\ IsFiniteSet(InUse) /\ Cardinality(InUse) <= Cardinality(Handles)
      /\ IsFiniteSet(OwesTwo) /\ Cardinality(OwesTwo) <= Cardinality(Threads)
      /\ IsFiniteSet(OwesOne) /\ Cardinality(OwesOne) <= Cardinality(Threads)
      /\ IsFiniteSet(Filled) /\ Cardinality(Filled) <= Cardinality(Slots)
  <2>1. /\ InUse \in SUBSET Handles /\ OwesTwo \in SUBSET Threads
        /\ OwesOne \in SUBSET Threads /\ Filled \in SUBSET Slots
    BY DEF InUse, OwesTwo, OwesOne, Filled
  <2> QED
    BY <1>1, <1>2, <2>1, FS_Subset
<1>4. /\ Cardinality(InUse) \in Nat /\ Cardinality(OwesTwo) \in Nat
      /\ Cardinality(OwesOne) \in Nat /\ Cardinality(Filled) \in Nat
  BY <1>3, FS_CardinalityType
<1> QED
  BY <1>1, <1>2, <1>3, <1>4, CountFits

\* A handle comes into use.
LEMMA InUseAdd ==
    ASSUME TypeOK, NEW h \in Handles, owner[h] = NoOwner, NEW t \in Threads,
           owner' = [owner EXCEPT ![h] = t]
    PROVE  InUse' # {} /\ Cardinality(InUse') = Cardinality(InUse) + 1
<1>1. InUse' = InUse \cup {h} /\ h \notin InUse
  BY SyntaxTreeAssumption DEF TypeOK, InUse
<1> QED
  BY <1>1, Bounds, FS_AddElement

\* A handle goes out of use.
LEMMA InUseRemove ==
    ASSUME TypeOK, NEW h \in Handles, owner[h] # NoOwner,
           owner' = [owner EXCEPT ![h] = NoOwner]
    PROVE  InUse' = InUse \ {h} /\ Cardinality(InUse') = Cardinality(InUse) - 1
<1>1. InUse' = InUse \ {h} /\ h \in InUse
  BY DEF TypeOK, InUse
<1> QED
  BY <1>1, Bounds, FS_RemoveElement

\* A thread that lends a handle has another one besides any handle it may move.
LEMMA LenderKeepsOne ==
    ASSUME NEW t \in Threads, NEW h \in Handles, Movable(t, h), Lends(t)
    PROVE  Owned(t) \ {h} # {}
BY DEF Movable, Owned

\* A thread that can use the tree proves that a handle is in use.
LEMMA UserHasHandle ==
    ASSUME TypeOK, LoansOK, NEW t \in Threads, CanUse(t)
    PROVE  InUse # {}
BY SyntaxTreeAssumption DEF TypeOK, LoansOK, CanUse, Owned, InUse

\* Nothing goes on besides the teardown once the last handle is gone.
LEMMA WorkersStand ==
    ASSUME Inv, NEW t \in Threads, pc[t] \in Working \/ CanUse(t)
    PROVE  ~ TornDown /\ counted /\ RootBox \in alive
BY UserHasHandle DEF Inv, WorkOK, WorkerOK, TeardownOK

----------------------------------------------------------------------------
(* Handles *)

\* Only the handles and the count change, and the count changes with them.
LEMMA HandlesOnly ==
    ASSUME Inv, TypeOK', LoansOK',
           \A t \in Threads : pc[t] \in Working => CanUse(t)',
           UNCHANGED <<counted, alive, slot, lock, pc, at, teardowns>>,
           ~ TornDown => InUse' # {} /\ CountExact',
           TornDown => InUse' = {} /\ UNCHANGED refCount
    PROVE  Inv'
<1> USE DEF Inv
<1>1. LocksOK'
  BY DEF LocksOK
<1>2. SlotsOK'
  BY DEF SlotsOK, SlotOK, Filled, BoxAt
<1>3. WorkOK'
  BY DEF WorkOK, WorkerOK, BoxAt
<1>4. TeardownOK'
  BY DEF TeardownOK, TornDown
<1>5. FallingCount'
  BY DEF FallingCount, TornDown, Filled
<1>6. UnwrapSucceeds' /\ NoLeak'
  BY DEF UnwrapSucceeds, NoLeak
<1>7. CountExact'
  BY DEF CountExact, TornDown
<1> QED
  BY <1>1, <1>2, <1>3, <1>4, <1>5, <1>6, <1>7

LEMMA CloneInv ==
    ASSUME Inv, NEW t \in Threads, NEW h \in Handles, Clone(t, h)
    PROVE  Inv'
<1> USE DEF Inv
<1>1. ~ TornDown
  BY WorkersStand DEF Clone
<1>2. owner' = [owner EXCEPT ![h] = t] /\ owner[h] = NoOwner
  BY DEF Clone
<1>3. InUse' # {} /\ Cardinality(InUse') = Cardinality(InUse) + 1
  BY <1>2, InUseAdd
<1>4. refCount = Cardinality(InUse) + Cardinality(OwesTwo) + Cardinality(OwesOne)
  BY <1>1 DEF CountExact
<1>5. refCount' = refCount + 1 /\ refCount' < U32
  BY <1>4, Bounds, AddExact DEF Clone, TypeOK
<1>6. TypeOK'
  <2>1. refCount' \in 0 .. U32 - 1
    BY <1>5, SyntaxTreeAssumption DEF TypeOK
  <2> QED
    BY <2>1 DEF Clone, TypeOK
<1>7. \A u \in Threads : Owned(u) \subseteq Owned(u)'
  BY <1>2, SyntaxTreeAssumption DEF TypeOK, Owned
<1>8. LoansOK'
  BY <1>7 DEF Clone, LoansOK, TypeOK
<1>9. \A u \in Threads : CanUse(u) => CanUse(u)'
  BY <1>7 DEF Clone, CanUse
<1>10. CountExact'
  <2>1. UNCHANGED <<OwesTwo, OwesOne>>
    BY DEF Clone, OwesTwo, OwesOne
  <2> QED
    BY <1>3, <1>4, <1>5, <2>1, Bounds DEF CountExact
<1> QED
  BY <1>1, <1>3, <1>6, <1>8, <1>9, <1>10, HandlesOnly DEF Clone, WorkOK, WorkerOK

LEMMA SendHandleInv ==
    ASSUME Inv, NEW t \in Threads, NEW u \in Threads, NEW h \in Handles, SendHandle(t, u, h)
    PROVE  Inv'
<1> USE DEF Inv
<1>1. /\ owner' = [owner EXCEPT ![h] = u] /\ owner[h] = t /\ t # u
      /\ Movable(t, h) /\ pc[t] = "idle"
      /\ UNCHANGED <<refCount, counted, alive, slot, lock, lender, pc, at, teardowns>>
  BY DEF SendHandle, Movable
<1>2. InUse' = InUse
  BY <1>1, SyntaxTreeAssumption DEF TypeOK, InUse
<1>3. TypeOK'
  BY <1>1 DEF TypeOK
<1>4. \A v \in Threads : IF v = t THEN Owned(v)' = Owned(v) \ {h}
                                 ELSE Owned(v) \subseteq Owned(v)'
  BY <1>1 DEF TypeOK, Owned
<1>5. LoansOK'
  <2>1. Lends(t) => Owned(t)' # {}
    BY <1>1, <1>4, LenderKeepsOne
  <2> QED
    BY <1>1, <1>4, <2>1 DEF LoansOK, Lends, TypeOK
<1>6. \A v \in Threads : pc[v] \in Working => CanUse(v)'
  BY <1>1, <1>4 DEF WorkOK, WorkerOK, CanUse, Working
<1>7. CountExact'
  BY <1>1, <1>2 DEF CountExact, TornDown, OwesTwo, OwesOne
<1> QED
  BY <1>1, <1>2, <1>3, <1>5, <1>6, <1>7, HandlesOnly DEF TeardownOK

LEMMA BorrowInv ==
    ASSUME Inv, NEW t \in Threads, NEW u \in Threads, Borrow(t, u)
    PROVE  Inv'
<1> USE DEF Inv
<1>1. /\ lender' = [lender EXCEPT ![t] = u] /\ Owned(u) # {}
      /\ UNCHANGED <<refCount, counted, alive, slot, lock, owner, pc, at, teardowns>>
  BY DEF Borrow
<1>2. TypeOK'
  BY <1>1 DEF TypeOK
<1>3. LoansOK'
  BY <1>1 DEF LoansOK, TypeOK, Owned
<1>4. \A v \in Threads : pc[v] \in Working => CanUse(v)'
  BY <1>1, SyntaxTreeAssumption DEF WorkOK, WorkerOK, CanUse, Owned, TypeOK
<1>5. CountExact' /\ InUse' = InUse
  BY <1>1 DEF CountExact, TornDown, OwesTwo, OwesOne, InUse
<1> QED
  BY <1>1, <1>2, <1>3, <1>4, <1>5, HandlesOnly DEF TeardownOK

LEMMA EndBorrowInv ==
    ASSUME Inv, NEW t \in Threads, EndBorrow(t)
    PROVE  Inv'
<1> USE DEF Inv
<1>1. /\ lender' = [lender EXCEPT ![t] = NoOwner] /\ pc[t] = "idle"
      /\ UNCHANGED <<refCount, counted, alive, slot, lock, owner, pc, at, teardowns>>
  BY DEF EndBorrow
<1>2. TypeOK'
  BY <1>1 DEF TypeOK
<1>3. LoansOK'
  BY <1>1 DEF LoansOK, TypeOK, Owned
<1>4. \A v \in Threads : pc[v] \in Working => CanUse(v)'
  BY <1>1 DEF WorkOK, WorkerOK, CanUse, Owned, TypeOK, Working
<1>5. CountExact' /\ InUse' = InUse
  BY <1>1 DEF CountExact, TornDown, OwesTwo, OwesOne, InUse
<1> QED
  BY <1>1, <1>2, <1>3, <1>4, <1>5, HandlesOnly DEF TeardownOK

\* While nobody but t, which is about to drop its only handle h, has one, nobody
\* is inside get_or_add.
LEMMA LastHandle ==
    ASSUME Inv, NEW t \in Threads, NEW h \in Handles, pc[t] = "idle", Movable(t, h),
           InUse \ {h} = {}
    PROVE  /\ \A u \in Threads : pc[u] = "idle" /\ lender[u] = NoOwner
           /\ OwesTwo = {} /\ OwesOne = {}
<1> USE DEF Inv
<1>1. \A g \in Handles : g # h => owner[g] = NoOwner
  BY DEF InUse
<1>2. owner[h] = t
  BY DEF Movable
<1>3. ~ Lends(t)
  <2>1. Owned(t) \ {h} = {}
    BY <1>1, SyntaxTreeAssumption DEF Owned
  <2> QED
    BY <2>1, LenderKeepsOne
<1>4. \A u \in Threads : lender[u] = NoOwner
  <2>1. \A u \in Threads : lender[u] # NoOwner => lender[u] = t
    BY <1>1, <1>2, SyntaxTreeAssumption DEF LoansOK, Owned, TypeOK
  <2> QED
    BY <1>3, <2>1 DEF Lends
<1>5. \A u \in Threads : pc[u] \notin Working
  <2>1. \A u \in Threads : CanUse(u) => u = t
    BY <1>1, <1>2, <1>4, SyntaxTreeAssumption DEF CanUse, Owned
  <2> QED
    BY <2>1 DEF WorkOK, WorkerOK, Working
<1>6. ~ TornDown
  BY <1>2, SyntaxTreeAssumption DEF TeardownOK, InUse
<1>7. \A u \in Threads : pc[u] = "idle"
  BY <1>5, <1>6 DEF TeardownOK, Working, UnwrapSucceeds, TypeOK
<1> QED
  BY <1>4, <1>7 DEF OwesTwo, OwesOne

LEMMA DropHandleInv ==
    ASSUME Inv, NEW t \in Threads, NEW h \in Handles, DropHandle(t, h)
    PROVE  Inv'
<1> USE DEF Inv
<1>1. /\ owner' = [owner EXCEPT ![h] = NoOwner] /\ owner[h] = t
      /\ Movable(t, h) /\ pc[t] = "idle"
      /\ UNCHANGED <<counted, alive, slot, lock, lender, at>>
      /\ DropReference(t, "idle")
  BY DEF DropHandle, Movable
<1>2. InUse' = InUse \ {h} /\ Cardinality(InUse') = Cardinality(InUse) - 1
  BY <1>1, InUseRemove, SyntaxTreeAssumption
<1>3. h \in InUse /\ ~ TornDown
  BY <1>1, SyntaxTreeAssumption DEF InUse, TeardownOK
<1>4. refCount = Cardinality(InUse) + Cardinality(OwesTwo) + Cardinality(OwesOne)
  BY <1>3 DEF CountExact
<1>5. Cardinality(InUse') \in Nat /\ IsFiniteSet(InUse')
  BY <1>2, Bounds, FS_RemoveElement, FS_CardinalityType
<1>6. refCount' = refCount - 1 /\ refCount' \in 0 .. U32 - 1 /\ refCount \in Nat
  <2>1. 1 <= refCount /\ refCount < U32 /\ U32 \in Nat /\ refCount \in Nat
    BY <1>2, <1>4, <1>5, Bounds DEF TypeOK
  <2> QED
    BY <1>1, <2>1, SubExact DEF DropReference
<1>7. \A v \in Threads : IF v = t THEN Owned(v)' = Owned(v) \ {h} ELSE Owned(v)' = Owned(v)
  BY <1>1, SyntaxTreeAssumption DEF TypeOK, Owned
<1>8. LoansOK'
  <2>1. Lends(t) => Owned(t)' # {}
    BY <1>1, <1>7, LenderKeepsOne
  <2> QED
    BY <1>1, <1>7, <2>1 DEF LoansOK, Lends, TypeOK
<1>9. CASE refCount # 1
  <2>1. UNCHANGED <<pc, teardowns>>
    BY <1>1, <1>9 DEF DropReference, TypeOK
  <2>2. TypeOK'
    BY <1>1, <1>6, <2>1 DEF TypeOK
  <2>3. \A u \in Threads : pc[u] \in Working => CanUse(u)'
    BY <1>1, <1>7 DEF WorkOK, WorkerOK, CanUse, Working
  <2>4. InUse' # {}
    <3>1. SUFFICES ASSUME InUse' = {} PROVE FALSE
      OBVIOUS
    <3>2. OwesTwo = {} /\ OwesOne = {}
      BY <1>1, <1>2, <3>1, LastHandle
    <3>3. Cardinality(InUse) = 1 /\ Cardinality(OwesTwo) = 0 /\ Cardinality(OwesOne) = 0
      <4>1. Cardinality({}) = 0
        BY FS_EmptySet
      <4>2. Cardinality(InUse') = 0
        BY <3>1, <4>1
      <4> QED
        BY <1>2, <3>2, <4>1, <4>2, Bounds
    <3> QED
      BY <1>4, <1>9, <3>3
  <2>5. CountExact'
    <3>1. UNCHANGED <<OwesTwo, OwesOne>>
      BY <2>1 DEF OwesTwo, OwesOne
    <3> QED
      BY <1>2, <1>4, <1>6, <3>1, Bounds DEF CountExact
  <2> QED
    BY <1>1, <1>3, <1>8, <2>1, <2>2, <2>3, <2>4, <2>5, HandlesOnly
<1>10. CASE refCount = 1
  <2>1. pc' = [pc EXCEPT ![t] = "teardown"] /\ teardowns' = 1 /\ refCount' = 0
    BY <1>1, <1>3, <1>6, <1>10 DEF DropReference, TypeOK, TornDown
  <2>2. InUse' = {}
    <3>1. Cardinality(InUse') = 0
      BY <1>2, <1>4, <1>5, <1>10, Bounds
    <3> QED
      BY <1>5, <3>1, FS_EmptySet
  <2>3. \A u \in Threads : pc[u] = "idle" /\ lender[u] = NoOwner
    BY <1>1, <1>2, <2>2, LastHandle
  <2>4. TypeOK'
    BY <1>1, <1>6, <2>1 DEF TypeOK
  <2>5. LocksOK'
    BY <1>1, <2>1, <2>3 DEF LocksOK, InSection, TypeOK
  <2>6. SlotsOK'
    BY <1>1 DEF SlotsOK, SlotOK, Filled, BoxAt
  <2>7. WorkOK'
    BY <2>1, <2>3 DEF WorkOK, WorkerOK, Working, TypeOK
  <2>8. TeardownOK' /\ CountExact'
    BY <1>1, <1>3, <2>1, <2>2, <2>3 DEF TeardownOK, TornDown, TypeOK, CountExact
  <2>9. FallingCount'
    BY <2>1 DEF FallingCount
  <2>10. UnwrapSucceeds'
    BY <2>1, <2>3 DEF UnwrapSucceeds, TypeOK
  <2>11. NoLeak'
    BY <1>1, <1>3, <2>3 DEF NoLeak, TeardownOK
  <2> QED
    BY <1>8, <2>4, <2>5, <2>6, <2>7, <2>8, <2>9, <2>10, <2>11
<1> QED
  BY <1>9, <1>10

----------------------------------------------------------------------------
(* get_or_add *)

\* A step of get_or_add outside the teardown.
LEMMA NotTornDown ==
    ASSUME Inv, ~ TornDown, UNCHANGED <<owner, lender, counted, teardowns>>,
           TypeOK', RootBox \in alive',
           \A t \in Threads : pc'[t] # "teardown"
    PROVE  LoansOK' /\ TeardownOK' /\ FallingCount'
<1> USE DEF Inv
<1>1. LoansOK'
  BY DEF LoansOK, Owned
<1>2. TeardownOK' /\ FallingCount'
  BY DEF TeardownOK, FallingCount, TornDown, InUse
<1> QED
  BY <1>1, <1>2

LEMMA GetOrAddInv ==
    ASSUME Inv, NEW t \in Threads, NEW p \in Slots, GetOrAdd(t, p)
    PROVE  Inv'
<1> USE DEF Inv
<1>1. /\ pc[t] = "idle" /\ CanUse(t) /\ BoxAt(Parent[p]) # None /\ lock[p] = Free
      /\ at' = [at EXCEPT ![t] = p]
      /\ UNCHANGED <<refCount, counted, slot, lock, owner, lender, teardowns>>
  BY DEF GetOrAdd
<1>2. ~ TornDown /\ RootBox \in alive
  BY <1>1, WorkersStand
<1>3. p \in Positions
  BY SyntaxTreeAssumption DEF Slots, Positions
<1>4. \A u \in Threads : pc[u] # "teardown"
  BY <1>2 DEF TeardownOK
<1>5. \A u \in Threads : CanUse(u)' = CanUse(u)
  BY <1>1 DEF CanUse, Owned
<1>6. \A q : BoxAt(q)' = BoxAt(q)
  BY <1>1 DEF BoxAt
<1>7. CASE slot[p] # None /\ UNCHANGED <<pc, alive>>
  <2>1. TypeOK'
    BY <1>1, <1>3, <1>7 DEF TypeOK
  <2>2. LocksOK'
    BY <1>1, <1>7 DEF LocksOK, TypeOK, InSection
  <2>3. SlotsOK'
    BY <1>1, <1>6, <1>7 DEF SlotsOK, SlotOK, Filled
  <2>4. WorkOK'
    BY <1>1, <1>5, <1>6, <1>7 DEF WorkOK, WorkerOK, Working, TypeOK
  <2>5. LoansOK' /\ TeardownOK' /\ FallingCount'
    BY <1>1, <1>2, <1>4, <1>7, <2>1, NotTornDown
  <2>6. CountExact'
    BY <1>1, <1>7 DEF CountExact, TornDown, InUse, OwesTwo, OwesOne
  <2>7. UnwrapSucceeds'
    BY <1>7 DEF UnwrapSucceeds
  <2>8. NoLeak'
    BY <1>1, <1>7 DEF NoLeak, TypeOK
  <2> QED
    BY <2>1, <2>2, <2>3, <2>4, <2>5, <2>6, <2>7, <2>8
<1>8. CASE /\ slot[p] = None
           /\ pc' = [pc EXCEPT ![t] = "try_write"]
           /\ alive' = alive \cup (IF p \in TokenAt THEN {} ELSE {Box(p, t)})
  <2>1. TypeOK'
    BY <1>1, <1>3, <1>8 DEF TypeOK, Box
  <2>2. LocksOK'
    BY <1>1, <1>8 DEF LocksOK, TypeOK, InSection
  <2>3. SlotsOK'
    BY <1>1, <1>6, <1>8 DEF SlotsOK, SlotOK, Filled
  <2>4. WorkOK'
    BY <1>1, <1>5, <1>6, <1>8 DEF WorkOK, WorkerOK, Working, TypeOK, Box, None
  <2>5. LoansOK' /\ TeardownOK' /\ FallingCount'
    BY <1>1, <1>2, <1>4, <1>8, <2>1, NotTornDown DEF TypeOK
  <2>6. CountExact'
    BY <1>1, <1>8 DEF CountExact, TornDown, InUse, OwesTwo, OwesOne, TypeOK
  <2>7. UnwrapSucceeds'
    BY <1>8 DEF UnwrapSucceeds, TypeOK
  <2>8. NoLeak'
    BY <1>1, <1>2, <1>8 DEF NoLeak, TypeOK, TeardownOK
  <2> QED
    BY <2>1, <2>2, <2>3, <2>4, <2>5, <2>6, <2>7, <2>8
<1> QED
  BY <1>7, <1>8 DEF GetOrAdd

\* try_write
LEMMA LockInv ==
    ASSUME Inv, NEW t \in Threads, Lock(t)
    PROVE  Inv'
<1> USE DEF Inv
<1>1. /\ pc[t] = "try_write" /\ lock[at[t]] = Free /\ at[t] \in Slots
      /\ lock' = [lock EXCEPT ![at[t]] = t]
      /\ pc' = [pc EXCEPT ![t] = "write"]
      /\ UNCHANGED <<refCount, counted, alive, slot, owner, lender, at, teardowns>>
  BY DEF Lock, WorkOK, WorkerOK, Working
<1>2. ~ TornDown /\ RootBox \in alive
  BY <1>1, WorkersStand DEF Working
<1>3. TypeOK'
  BY <1>1 DEF TypeOK
<1>4. LocksOK'
  BY <1>1, SyntaxTreeAssumption DEF LocksOK, TypeOK, InSection, Free
<1>5. SlotsOK'
  BY <1>1 DEF SlotsOK, SlotOK, Filled, BoxAt
<1>6. WorkOK'
  BY <1>1 DEF WorkOK, WorkerOK, Working, TypeOK, BoxAt, CanUse, Owned
<1>7. LoansOK' /\ TeardownOK' /\ FallingCount'
  <2>1. \A u \in Threads : pc'[u] # "teardown"
    BY <1>1, <1>2 DEF TeardownOK, TypeOK
  <2> QED
    BY <1>1, <1>2, <1>3, <2>1, NotTornDown
<1>8. CountExact'
  BY <1>1 DEF CountExact, TornDown, InUse, OwesTwo, OwesOne, TypeOK
<1>9. UnwrapSucceeds'
  BY <1>1 DEF UnwrapSucceeds, TypeOK
<1>10. NoLeak'
  BY <1>1 DEF NoLeak, TypeOK
<1> QED
  BY <1>3, <1>4, <1>5, <1>6, <1>7, <1>8, <1>9, <1>10

\* The thread inside the write section of a slot is the only one there.
LEMMA Alone ==
    ASSUME Inv, NEW t \in Threads, pc[t] \in InSection,
           NEW u \in Threads, pc[u] \in InSection, at[u] = at[t]
    PROVE  u = t
BY DEF Inv, LocksOK

\* The first thread stores its element.
LEMMA StoreInv ==
    ASSUME Inv, NEW t \in Threads, Store(t)
    PROVE  Inv'
<1> USE DEF Inv
<1>1. /\ pc[t] = "write" /\ at[t] \in Slots /\ slot[at[t]] = None
      /\ slot' = [slot EXCEPT ![at[t]] = Box(at[t], t)]
      /\ lock' = [lock EXCEPT ![at[t]] = Free]
      /\ pc' = [pc EXCEPT ![t] = "read"]
      /\ UNCHANGED <<refCount, counted, alive, owner, lender, at, teardowns>>
  BY DEF Store, Unlocked, WorkOK, WorkerOK, Working
<1>2. ~ TornDown /\ RootBox \in alive
  BY <1>1, WorkersStand DEF Working
<1>3. Box(at[t], t) # None /\ Box(at[t], t) \in Positions \X Threads
  BY <1>1 DEF Box, None, TypeOK
<1>4. \A q \in Positions : BoxAt(q) # None => BoxAt(q)' # None
  BY <1>1, <1>3 DEF BoxAt, TypeOK, Slots, Positions, Root
<1>5. \A q \in Slots : Parent[q] \in Positions
  BY SyntaxTreeAssumption
<1>6. TypeOK'
  BY <1>1, <1>3 DEF TypeOK
<1>7. LocksOK'
  BY <1>1, Alone, SyntaxTreeAssumption DEF LocksOK, TypeOK, InSection, Free
<1>8. SlotsOK'
  <2>1. SUFFICES ASSUME NEW p \in Filled'
                 PROVE  SlotOK(p)'
    BY DEF SlotsOK
  <2>2. p \in Slots
    BY DEF Filled
  <2>3. CASE p = at[t]
    BY <1>1, <1>3, <1>4, <1>5, <2>2, <2>3 DEF WorkOK, WorkerOK, SlotOK, Working, TypeOK
  <2>4. CASE p # at[t]
    BY <1>1, <1>4, <1>5, <2>2, <2>4 DEF SlotsOK, SlotOK, Filled, TypeOK
  <2> QED
    BY <2>3, <2>4
<1>9. WorkOK'
  <2>1. SUFFICES ASSUME NEW u \in Threads, pc'[u] \in Working
                 PROVE  WorkerOK(u)'
    BY DEF WorkOK
  <2>2. pc[u] \in Working /\ CanUse(u)'
    <3>1. pc[u] \in Working
      BY <1>1, <2>1 DEF Working, TypeOK
    <3> QED
      BY <1>1, <3>1 DEF WorkOK, WorkerOK, CanUse, Owned
  <2>3. at[u] \in Slots /\ BoxAt(Parent[at[u]])' # None
    BY <1>1, <1>4, <1>5, <2>2 DEF WorkOK, WorkerOK
  <2>4. CASE u = t
    BY <1>1, <1>3, <2>2, <2>3, <2>4 DEF WorkOK, WorkerOK, TypeOK, Working
  <2>5. CASE u # t
    <3>1. pc'[u] = pc[u] /\ at'[u] = at[u]
      BY <1>1, <2>5 DEF TypeOK
    <3>2. Box(at[t], t) # Box(at[u], u)
      BY <2>5 DEF Box
    <3> QED
      BY <1>1, <1>3, <2>2, <2>3, <3>1, <3>2 DEF WorkOK, WorkerOK, TypeOK
  <2> QED
    BY <2>4, <2>5
<1>10. LoansOK' /\ TeardownOK' /\ FallingCount'
  <2>1. \A u \in Threads : pc'[u] # "teardown"
    BY <1>1, <1>2 DEF TeardownOK, TypeOK
  <2> QED
    BY <1>1, <1>2, <1>6, <2>1, NotTornDown
<1>11. CountExact'
  BY <1>1 DEF CountExact, TornDown, InUse, OwesTwo, OwesOne, TypeOK
<1>12. UnwrapSucceeds'
  BY <1>1 DEF UnwrapSucceeds, TypeOK
<1>13. NoLeak'
  <2>1. SUFFICES ASSUME NEW b \in alive
                 PROVE  \/ b = RootBox
                        \/ \E p \in Slots : slot'[p] = b
                        \/ \E u \in Threads :
                              /\ pc'[u] \in {"try_write", "write", "drop_node", "drop_parent"}
                              /\ b = Box(at[u], u)
    BY <1>1, <1>2 DEF NoLeak, TeardownOK
  <2>2. CASE b = Box(at[t], t)
    BY <1>1, <2>2 DEF TypeOK
  <2>3. CASE b # Box(at[t], t) /\ \E p \in Slots : slot[p] = b
    <3>1. PICK p \in Slots : slot[p] = b
      BY <2>3
    <3>2. CASE p = at[t]
      <4>1. b \in Positions \X Threads
        BY DEF TypeOK
      <4> QED
        BY <1>1, <3>1, <3>2, <4>1 DEF None
    <3>3. CASE p # at[t]
      BY <1>1, <3>1, <3>3 DEF TypeOK
    <3> QED
      BY <3>2, <3>3
  <2>4. CASE \E u \in Threads :
                /\ pc[u] \in {"try_write", "write", "drop_node", "drop_parent"}
                /\ b = Box(at[u], u)
    BY <1>1, <2>2, <2>4 DEF TypeOK
  <2> QED
    BY <2>2, <2>3, <2>4 DEF NoLeak
<1> QED
  BY <1>6, <1>7, <1>8, <1>9, <1>10, <1>11, <1>12, <1>13

\* The second one pays for the drops of its element.
LEMMA CompensateInv ==
    ASSUME Inv, NEW t \in Threads, Compensate(t)
    PROVE  Inv'
<1> USE DEF Inv
<1> DEFINE next == IF at[t] \in TokenAt THEN "drop_parent" ELSE "drop_node"
           paid == IF at[t] \in TokenAt THEN 1 ELSE 2
<1>1. /\ pc[t] = "write" /\ at[t] \in Slots /\ slot[at[t]] # None
      /\ refCount' = Add(paid)
      /\ pc' = [pc EXCEPT ![t] = next]
      /\ UNCHANGED <<counted, alive, slot, lock, owner, lender, at, teardowns>>
  BY DEF Compensate, WorkOK, WorkerOK, Working
<1>2. ~ TornDown /\ RootBox \in alive
  BY <1>1, WorkersStand DEF Working
<1>3. refCount = Cardinality(InUse) + Cardinality(OwesTwo) + Cardinality(OwesOne)
  BY <1>2 DEF CountExact
<1>4. refCount' = refCount + paid /\ refCount' \in 0 .. U32 - 1
  <2>1. refCount \in Nat /\ paid \in Nat /\ refCount + paid < U32 /\ U32 \in Nat
    BY <1>3, Bounds DEF TypeOK
  <2> QED
    BY <1>1, <2>1, AddExact
<1>5. Cardinality(OwesTwo') = Cardinality(OwesTwo) + paid - 1
  <2>1. CASE at[t] \in TokenAt
    <3>1. OwesTwo' = OwesTwo /\ paid = 1
      BY <1>1, <2>1 DEF OwesTwo, TypeOK
    <3> HIDE DEF paid
    <3> QED
      BY <3>1, Bounds
  <2>2. CASE at[t] \notin TokenAt
    <3>1. OwesTwo' = OwesTwo \cup {t} /\ t \notin OwesTwo /\ paid = 2
      BY <1>1, <2>2 DEF OwesTwo, TypeOK
    <3> HIDE DEF paid
    <3>2. Cardinality(OwesTwo') = Cardinality(OwesTwo) + 1
      BY <3>1, Bounds, FS_AddElement
    <3> QED
      BY <3>1, <3>2, Bounds
  <2> QED
    BY <2>1, <2>2
<1>6. Cardinality(OwesOne') = Cardinality(OwesOne) + 1
  <2>1. OwesOne' = OwesOne \cup {t} /\ t \notin OwesOne
    BY <1>1 DEF OwesOne, TypeOK
  <2> QED
    BY <2>1, Bounds, FS_AddElement
<1>7. TypeOK'
  BY <1>1, <1>4 DEF TypeOK
<1>8. LocksOK'
  BY <1>1 DEF LocksOK, TypeOK, InSection
<1>9. SlotsOK'
  BY <1>1 DEF SlotsOK, SlotOK, Filled, BoxAt
<1>10. WorkOK'
  BY <1>1 DEF WorkOK, WorkerOK, Working, TypeOK, BoxAt, CanUse, Owned
<1>11. LoansOK' /\ TeardownOK' /\ FallingCount'
  <2>1. \A u \in Threads : pc'[u] # "teardown"
    BY <1>1, <1>2 DEF TeardownOK, TypeOK
  <2> QED
    BY <1>1, <1>2, <1>7, <2>1, NotTornDown
<1>12. CountExact'
  <2>1. InUse' = InUse
    BY <1>1 DEF InUse
  <2> QED
    BY <1>3, <1>4, <1>5, <1>6, <2>1, Bounds DEF CountExact
<1>13. UnwrapSucceeds' /\ NoLeak'
  BY <1>1 DEF UnwrapSucceeds, NoLeak, TypeOK
<1> QED
  BY <1>7, <1>8, <1>9, <1>10, <1>11, <1>12, <1>13

\* A drop that was paid for is not the last one.
LEMMA PaidDrop ==
    ASSUME Inv, NEW t \in Threads, pc[t] \in {"drop_node", "drop_parent"},
           NEW next, DropReference(t, next)
    PROVE  /\ ~ TornDown /\ RootBox \in alive /\ at[t] \in Slots
           /\ refCount = Cardinality(InUse) + Cardinality(OwesTwo) + Cardinality(OwesOne)
           /\ refCount' = refCount - 1 /\ refCount' \in 0 .. U32 - 1
           /\ pc' = [pc EXCEPT ![t] = next]
           /\ UNCHANGED teardowns
<1> USE DEF Inv
<1>1. ~ TornDown /\ RootBox \in alive /\ InUse # {}
  BY WorkersStand DEF Working, TeardownOK
<1>2. at[t] \in Slots
  BY DEF WorkOK, WorkerOK, Working
<1>3. refCount = Cardinality(InUse) + Cardinality(OwesTwo) + Cardinality(OwesOne)
  BY <1>1 DEF CountExact
<1>4. Cardinality(InUse) # 0 /\ Cardinality(OwesOne) # 0
  <2>1. t \in OwesOne
    BY DEF OwesOne
  <2> QED
    BY <1>1, <2>1, Bounds, FS_EmptySet
<1>5. refCount >= 2 /\ refCount < U32 /\ refCount \in Nat /\ U32 \in Nat
  BY <1>3, <1>4, Bounds
<1>6. refCount' = refCount - 1
  BY <1>5, SubExact DEF DropReference
<1> QED
  BY <1>1, <1>2, <1>3, <1>5, <1>6 DEF DropReference

\* drop(node)
LEMMA DropNodeInv ==
    ASSUME Inv, NEW t \in Threads, DropNode(t)
    PROVE  Inv'
<1> USE DEF Inv
<1>1. /\ pc[t] = "drop_node" /\ DropReference(t, "drop_parent")
      /\ UNCHANGED <<counted, alive, slot, lock, owner, lender, at>>
  BY DEF DropNode
<1>2. /\ ~ TornDown /\ RootBox \in alive /\ at[t] \in Slots
      /\ refCount = Cardinality(InUse) + Cardinality(OwesTwo) + Cardinality(OwesOne)
      /\ refCount' = refCount - 1 /\ refCount' \in 0 .. U32 - 1
      /\ pc' = [pc EXCEPT ![t] = "drop_parent"]
      /\ UNCHANGED teardowns
  BY <1>1, PaidDrop
<1>3. Cardinality(OwesTwo') = Cardinality(OwesTwo) - 1
  <2>1. OwesTwo' = OwesTwo \ {t} /\ t \in OwesTwo
    BY <1>1, <1>2 DEF OwesTwo, TypeOK
  <2> QED
    BY <2>1, Bounds, FS_RemoveElement
<1>4. OwesOne' = OwesOne /\ InUse' = InUse
  BY <1>1, <1>2 DEF OwesOne, InUse, TypeOK
<1>5. TypeOK'
  BY <1>1, <1>2 DEF TypeOK
<1>6. LocksOK'
  BY <1>1, <1>2 DEF LocksOK, TypeOK, InSection
<1>7. SlotsOK'
  BY <1>1 DEF SlotsOK, SlotOK, Filled, BoxAt
<1>8. WorkOK'
  BY <1>1, <1>2 DEF WorkOK, WorkerOK, Working, TypeOK, BoxAt, CanUse, Owned
<1>9. LoansOK' /\ TeardownOK' /\ FallingCount'
  <2>1. \A u \in Threads : pc'[u] # "teardown"
    BY <1>1, <1>2 DEF TeardownOK, TypeOK
  <2> QED
    BY <1>1, <1>2, <1>5, <2>1, NotTornDown
<1>10. CountExact'
  BY <1>2, <1>3, <1>4, Bounds DEF CountExact
<1>11. UnwrapSucceeds' /\ NoLeak'
  BY <1>1, <1>2 DEF UnwrapSucceeds, NoLeak, TypeOK
<1> QED
  BY <1>5, <1>6, <1>7, <1>8, <1>9, <1>10, <1>11

\* The last drop of the second element, and its box.
LEMMA DropParentInv ==
    ASSUME Inv, NEW t \in Threads, DropParent(t)
    PROVE  Inv'
<1> USE DEF Inv
<1>1. /\ pc[t] = "drop_parent" /\ DropReference(t, "read")
      /\ alive' = alive \ {Box(at[t], t)}
      /\ lock' = [lock EXCEPT ![at[t]] = Free]
      /\ UNCHANGED <<counted, slot, owner, lender, at>>
  BY DEF DropParent, Unlocked
<1>2. /\ ~ TornDown /\ RootBox \in alive /\ at[t] \in Slots
      /\ refCount = Cardinality(InUse) + Cardinality(OwesTwo) + Cardinality(OwesOne)
      /\ refCount' = refCount - 1 /\ refCount' \in 0 .. U32 - 1
      /\ pc' = [pc EXCEPT ![t] = "read"]
      /\ UNCHANGED teardowns
  BY <1>1, PaidDrop
<1>3. Cardinality(OwesOne') = Cardinality(OwesOne) - 1
  <2>1. OwesOne' = OwesOne \ {t} /\ t \in OwesOne
    BY <1>1, <1>2 DEF OwesOne, TypeOK
  <2> QED
    BY <2>1, Bounds, FS_RemoveElement
<1>4. OwesTwo' = OwesTwo /\ InUse' = InUse
  BY <1>1, <1>2 DEF OwesTwo, InUse, TypeOK
<1>5. RootBox # Box(at[t], t)
  BY <1>2 DEF RootBox, Box, Root, Slots
<1>6. TypeOK'
  BY <1>1, <1>2 DEF TypeOK
<1>7. LocksOK'
  BY <1>1, <1>2, Alone, SyntaxTreeAssumption DEF LocksOK, TypeOK, InSection, Free
<1>8. SlotsOK'
  <2>1. SUFFICES ASSUME NEW p \in Filled
                 PROVE  SlotOK(p)'
    BY <1>1 DEF SlotsOK, Filled
  <2>2. SlotOK(p)
    BY DEF SlotsOK
  <2>3. slot[p] # Box(at[t], t)
    <3>1. slot[at[t]] # Box(at[t], t)
      BY <1>1 DEF WorkOK, WorkerOK, Working
    <3> QED
      BY <2>2, <3>1 DEF SlotOK, Box
  <2> QED
    BY <1>1, <2>2, <2>3 DEF SlotOK, BoxAt
<1>9. WorkOK'
  <2>1. SUFFICES ASSUME NEW u \in Threads, pc'[u] \in Working
                 PROVE  WorkerOK(u)'
    BY DEF WorkOK
  <2>2. WorkerOK(u)
    BY <1>1, <1>2, <2>1 DEF WorkOK, Working, TypeOK
  <2>3. CASE u = t
    BY <1>1, <1>2, <2>2, <2>3 DEF WorkerOK, TypeOK, BoxAt, CanUse, Owned
  <2>4. CASE u # t
    <3>1. Box(at[u], u) # Box(at[t], t) /\ pc'[u] = pc[u]
      BY <1>2, <2>4 DEF Box, TypeOK
    <3> QED
      BY <1>1, <2>2, <3>1 DEF WorkerOK, BoxAt, CanUse, Owned
  <2> QED
    BY <2>3, <2>4
<1>10. LoansOK' /\ TeardownOK' /\ FallingCount'
  <2>1. \A u \in Threads : pc'[u] # "teardown"
    BY <1>1, <1>2 DEF TeardownOK, TypeOK
  <2> QED
    BY <1>1, <1>2, <1>5, <1>6, <2>1, NotTornDown
<1>11. CountExact'
  BY <1>2, <1>3, <1>4, Bounds DEF CountExact
<1>12. UnwrapSucceeds'
  BY <1>2 DEF UnwrapSucceeds, TypeOK
<1>13. NoLeak'
  <2>1. counted'
    BY <1>1, <1>2 DEF TeardownOK
  <2> QED
    BY <1>1, <1>2, <2>1 DEF NoLeak, TypeOK
<1> QED
  BY <1>6, <1>7, <1>8, <1>9, <1>10, <1>11, <1>12, <1>13

\* read(index).unwrap()
LEMMA ReadInv ==
    ASSUME Inv, NEW t \in Threads, Read(t)
    PROVE  Inv'
<1> USE DEF Inv
<1>1. slot[at[t]] # None
  BY DEF Read, WorkOK, WorkerOK, Working
<1>2. /\ pc[t] = "read" /\ pc' = [pc EXCEPT ![t] = "idle"]
      /\ UNCHANGED <<refCount, counted, alive, slot, lock, owner, lender, at, teardowns>>
  BY <1>1 DEF Read
<1>3. ~ TornDown /\ RootBox \in alive
  BY <1>2, WorkersStand DEF Working
<1>4. TypeOK'
  BY <1>2 DEF TypeOK
<1>5. LocksOK'
  BY <1>2 DEF LocksOK, TypeOK, InSection
<1>6. SlotsOK'
  BY <1>2 DEF SlotsOK, SlotOK, Filled, BoxAt
<1>7. WorkOK'
  BY <1>2 DEF WorkOK, WorkerOK, Working, TypeOK, BoxAt, CanUse, Owned
<1>8. LoansOK' /\ TeardownOK' /\ FallingCount'
  <2>1. \A u \in Threads : pc'[u] # "teardown"
    BY <1>2, <1>3 DEF TeardownOK, TypeOK
  <2> QED
    BY <1>2, <1>3, <1>4, <2>1, NotTornDown
<1>9. CountExact'
  BY <1>2 DEF CountExact, TornDown, InUse, OwesTwo, OwesOne, TypeOK
<1>10. UnwrapSucceeds' /\ NoLeak'
  BY <1>2 DEF UnwrapSucceeds, NoLeak, TypeOK
<1> QED
  BY <1>4, <1>5, <1>6, <1>7, <1>8, <1>9, <1>10

----------------------------------------------------------------------------
(* The last drop *)

\* What the thread that tears the tree down may rely on: it is alone with it.
LEMMA AloneInTeardown ==
    ASSUME Inv, NEW t \in Threads, pc[t] = "teardown"
    PROVE  /\ TornDown /\ teardowns = 1 /\ counted /\ RootBox \in alive /\ InUse = {}
           /\ \A u \in Threads \ {t} : pc[u] = "idle"
           /\ refCount = 0 \/ refCount >= U32 - 2 * (Size - 1 - Cardinality(Filled))
BY DEF Inv, TeardownOK, FallingCount

\* The count below zero is never mistaken for the last reference.
LEMMA NeverAgain ==
    ASSUME Inv, NEW t \in Threads, pc[t] = "teardown", NEW n \in 1 .. 2
    PROVE  /\ refCount \notin 1 .. n
           /\ Sub(n) = (IF refCount = 0 THEN U32 - n ELSE refCount - n)
           /\ Sub(n) \in 0 .. U32 - 1
<1> USE DEF Inv
<1>1. refCount = 0 \/ refCount >= U32 - 2 * (Size - 1 - Cardinality(Filled))
  BY AloneInTeardown
<1>2. /\ Cardinality(Filled) \in Nat /\ Size \in Nat /\ U32 \in Nat
      /\ 2 * Size + 1 < U32 /\ refCount \in 0 .. U32 - 1 /\ Cardinality(Filled) <= Size - 1
      /\ n \in Nat /\ n \in 1 .. U32 - 1
  BY Bounds DEF TypeOK
<1>3. refCount = 0 \/ refCount > 2
  BY <1>1, <1>2
<1> QED
  BY <1>2, <1>3, SubExact, SubBelowZero

\* One slot of the teardown.
LEMMA DropSlotInv ==
    ASSUME Inv, NEW t \in Threads, DropSlot(t)
    PROVE  Inv'
<1> USE DEF Inv
<1>1. PICK p \in Slots :
        LET drops == IF p \in TokenAt THEN 1 ELSE 2 IN
        /\ NextToDrop(p)
        /\ slot' = [slot EXCEPT ![p] = None]
        /\ alive' = alive \ {slot[p]}
        /\ refCount' = Sub(drops)
        /\ teardowns' = teardowns + (IF refCount \in 1 .. drops THEN 1 ELSE 0)
  BY DEF DropSlot
<1>2. /\ pc[t] = "teardown"
      /\ UNCHANGED <<counted, lock, owner, lender, pc, at>>
  BY DEF DropSlot
<1> DEFINE drops == IF p \in TokenAt THEN 1 ELSE 2
<1>3. /\ TornDown /\ teardowns = 1 /\ counted /\ RootBox \in alive /\ InUse = {}
      /\ \A u \in Threads \ {t} : pc[u] = "idle"
      /\ refCount = 0 \/ refCount >= U32 - 2 * (Size - 1 - Cardinality(Filled))
  BY <1>2, AloneInTeardown
<1>4. /\ drops \in 1 .. 2
      /\ refCount' = (IF refCount = 0 THEN U32 - drops ELSE refCount - drops)
      /\ refCount' \in 0 .. U32 - 1
      /\ teardowns' = teardowns
  <2>1. drops \in 1 .. 2
    OBVIOUS
  <2> HIDE DEF drops
  <2>2. refCount' = Sub(drops) /\ teardowns' = teardowns + (IF refCount \in 1 .. drops THEN 1 ELSE 0)
    BY <1>1 DEF drops
  <2> QED
    BY <1>2, <1>3, <2>1, <2>2, NeverAgain
<1> HIDE DEF drops
<1>5. p \in Filled /\ \A q \in Filled : Parent[q] # p
  BY <1>1 DEF NextToDrop, Bottom
<1>6. Filled' = Filled \ {p}
  BY <1>1 DEF Filled, TypeOK
<1>7. PICK v \in Threads : slot[p] = Box(p, v)
  BY <1>5 DEF SlotsOK, SlotOK
<1>8. RootBox # slot[p]
  BY <1>7 DEF RootBox, Box, Root, Slots
<1>9. TypeOK'
  BY <1>1, <1>2, <1>4 DEF TypeOK
<1>10. LocksOK'
  BY <1>2 DEF LocksOK
<1>11. SlotsOK'
  <2>1. SUFFICES ASSUME NEW q \in Filled, q # p
                 PROVE  SlotOK(q)'
    BY <1>6 DEF SlotsOK
  <2>2. SlotOK(q) /\ slot'[q] = slot[q] /\ q \in Slots
    BY <1>1, <2>1 DEF SlotsOK, Filled, TypeOK
  <2>3. slot[q] # slot[p]
    BY <1>7, <2>1, <2>2 DEF SlotOK, Box
  <2>4. BoxAt(Parent[q])' # None
    BY <1>1, <1>5, <2>2, SyntaxTreeAssumption DEF SlotOK, BoxAt, TypeOK, Slots, Positions, Root
  <2> QED
    BY <1>1, <2>2, <2>3, <2>4 DEF SlotOK
<1>12. WorkOK'
  BY <1>2, <1>3 DEF WorkOK, Working
<1>13. LoansOK' /\ TeardownOK' /\ CountExact'
  BY <1>1, <1>2, <1>3, <1>4, <1>8 DEF LoansOK, Owned, TeardownOK, TornDown, InUse, CountExact
<1>14. FallingCount'
  <2>1. Cardinality(Filled') = Cardinality(Filled) - 1 /\ Cardinality(Filled') \in Nat
    BY <1>5, <1>6, <1>9, Bounds, FS_RemoveElement, FS_CardinalityType
  <2>2. /\ refCount \in Nat /\ U32 \in Nat /\ Size \in Nat /\ Cardinality(Filled) \in Nat
        /\ drops \in 1 .. 2 /\ Cardinality(Filled) <= Size - 1
    BY <1>4, Bounds DEF TypeOK
  <2>3. refCount' >= U32 - 2 * (Size - 1 - Cardinality(Filled'))
    BY <1>3, <1>4, <2>1, <2>2
  <2> QED
    BY <2>3 DEF FallingCount
<1>15. UnwrapSucceeds'
  BY <1>2 DEF UnwrapSucceeds
<1>16. NoLeak'
  <2>1. SUFFICES ASSUME NEW b \in alive, b # slot[p]
                 PROVE  b = RootBox \/ \E q \in Slots : slot'[q] = b
    BY <1>1, <1>2, <1>3 DEF NoLeak
  <2>2. b = RootBox \/ \E q \in Slots : slot[q] = b
    BY <1>2, <1>3, <2>1 DEF NoLeak
  <2> QED
    BY <1>1, <2>1, <2>2 DEF TypeOK
<1> QED
  BY <1>9, <1>10, <1>11, <1>12, <1>13, <1>14, <1>15, <1>16

\* The root, its box and the box of the count.
LEMMA DropRootInv ==
    ASSUME Inv, NEW t \in Threads, DropRoot(t)
    PROVE  Inv'
<1> USE DEF Inv
<1>1. /\ pc[t] = "teardown" /\ Filled = {}
      /\ refCount' = Sub(1)
      /\ teardowns' = teardowns + (IF refCount = 1 THEN 1 ELSE 0)
      /\ alive' = alive \ {RootBox}
      /\ counted' = FALSE
      /\ pc' = [pc EXCEPT ![t] = "idle"]
      /\ UNCHANGED <<slot, lock, owner, lender, at>>
  BY DEF DropRoot
<1>2. /\ TornDown /\ teardowns = 1 /\ counted /\ RootBox \in alive /\ InUse = {}
      /\ \A u \in Threads \ {t} : pc[u] = "idle"
  BY <1>1, AloneInTeardown
<1>3. refCount' \in 0 .. U32 - 1 /\ teardowns' = teardowns
  <2>1. 1 \in 1 .. 2 /\ 1 \in 1 .. 1
    OBVIOUS
  <2> QED
    BY <1>1, <1>2, <2>1, NeverAgain
<1>4. \A u \in Threads : pc'[u] = "idle"
  BY <1>1, <1>2 DEF TypeOK
<1>5. TypeOK'
  BY <1>1, <1>2, <1>3 DEF TypeOK
<1>6. LocksOK'
  BY <1>1, <1>2, <1>4 DEF LocksOK, InSection
<1>7. SlotsOK'
  BY <1>1 DEF SlotsOK, Filled
<1>8. WorkOK' /\ UnwrapSucceeds'
  BY <1>4 DEF WorkOK, Working, UnwrapSucceeds
<1>9. LoansOK' /\ TeardownOK' /\ CountExact' /\ FallingCount'
  BY <1>1, <1>2, <1>3, <1>4
     DEF LoansOK, Owned, TeardownOK, TornDown, InUse, CountExact, FallingCount
<1>10. NoLeak'
  <2>1. \A b \in alive : b = RootBox
    <3>1. SUFFICES ASSUME NEW b \in alive, NEW p \in Slots, slot[p] = b PROVE FALSE
      BY <1>1, <1>2 DEF NoLeak
    <3>2. slot[p] = None
      BY <1>1 DEF Filled
    <3>3. b \in Positions \X Threads
      BY DEF TypeOK
    <3> QED
      BY <3>1, <3>2, <3>3 DEF None
  <2>2. alive' = {}
    BY <1>1, <2>1
  <2> QED
    BY <2>2 DEF NoLeak
<1> QED
  BY <1>5, <1>6, <1>7, <1>8, <1>9, <1>10

----------------------------------------------------------------------------
(* The theorems *)

LEMMA InitInv == Init => Inv
<1> SUFFICES ASSUME Init PROVE Inv
  OBVIOUS
<1>1. PICK h \in Handles : owner = [g \in Handles |-> IF g = h THEN Creator ELSE NoOwner]
  BY DEF Init
<1>2. /\ refCount = 1 /\ counted = TRUE /\ alive = {RootBox} /\ teardowns = 0
      /\ slot = [p \in Slots |-> None] /\ lock = [p \in Slots |-> Free]
      /\ lender = [t \in Threads |-> NoOwner]
      /\ pc = [t \in Threads |-> "idle"] /\ at = [t \in Threads |-> Root]
  BY DEF Init
<1>3. Root \in Positions /\ RootBox \in Positions \X Threads /\ 1 \in 0 .. U32 - 1
  BY SyntaxTreeAssumption, CountFits, FS_CardinalityType DEF Root, RootBox, Positions
<1>4. TypeOK
  BY <1>1, <1>2, <1>3, SyntaxTreeAssumption DEF TypeOK, Free
<1>5. LoansOK /\ LocksOK /\ WorkOK /\ UnwrapSucceeds
  BY <1>2, SyntaxTreeAssumption DEF LoansOK, LocksOK, WorkOK, InSection, Working, UnwrapSucceeds, Free
<1>6. SlotsOK /\ FallingCount /\ NoLeak
  BY <1>2 DEF SlotsOK, Filled, FallingCount, TornDown, NoLeak
<1>7. InUse = {h}
  BY <1>1, SyntaxTreeAssumption DEF InUse
<1>8. TeardownOK
  BY <1>2, <1>7 DEF TeardownOK, TornDown
<1>9. CountExact
  <2>1. OwesTwo = {} /\ OwesOne = {}
    BY <1>2 DEF OwesTwo, OwesOne
  <2>2. Cardinality(InUse) = 1 /\ Cardinality(OwesTwo) = 0 /\ Cardinality(OwesOne) = 0
    BY <1>7, <2>1, FS_Singleton, FS_EmptySet
  <2> QED
    BY <1>2, <2>2 DEF CountExact
<1> QED
  BY <1>4, <1>5, <1>6, <1>8, <1>9 DEF Inv

LEMMA NextInv == Inv /\ [Next]_vars => Inv'
<1> SUFFICES ASSUME Inv, [Next]_vars PROVE Inv'
  OBVIOUS
<1>1. ASSUME NEW t \in Threads, Step(t) PROVE Inv'
  BY <1>1, LockInv, StoreInv, CompensateInv, DropNodeInv, DropParentInv, ReadInv,
     DropSlotInv, DropRootInv DEF Step
<1>2. ASSUME NEW t \in Threads, Start(t) PROVE Inv'
  BY <1>2, CloneInv, DropHandleInv, SendHandleInv, BorrowInv, EndBorrowInv, GetOrAddInv
     DEF Start
<1>3. CASE UNCHANGED vars
  <2>1. UNCHANGED <<refCount, counted, alive, slot, lock, owner, lender, pc, at, teardowns>>
    BY <1>3 DEF vars
  <2>2. TypeOK' /\ LoansOK' /\ CountExact' /\ InUse' = InUse
    BY <2>1 DEF Inv, TypeOK, LoansOK, Owned, CountExact, TornDown, InUse, OwesTwo, OwesOne
  <2>3. \A t \in Threads : pc[t] \in Working => CanUse(t)'
    BY <2>1 DEF Inv, WorkOK, WorkerOK, CanUse, Owned
  <2> QED
    BY <2>1, <2>2, <2>3, HandlesOnly DEF Inv, TeardownOK
<1> QED
  BY <1>1, <1>2, <1>3 DEF Next, Finished

LEMMA Invariance == Spec => []Inv
<1>1. Init => Inv
  BY InitInv
<1>2. Inv /\ [Next]_vars => Inv'
  BY NextInv
<1> QED
  BY <1>1, <1>2, PTL DEF Spec

\* The box at a position that is there is allocated, tokens apart.
LEMMA PresentIsAlive ==
    ASSUME Inv, counted, NEW p \in Positions, p \notin TokenAt, BoxAt(p) # None
    PROVE  BoxAt(p) \in alive
<1>1. CASE p = Root
  BY <1>1 DEF Inv, TeardownOK, BoxAt
<1>2. CASE p # Root
  <2>1. p \in Filled /\ BoxAt(p) = slot[p]
    BY <1>2 DEF BoxAt, Filled, Slots, Positions, Root
  <2> QED
    BY <2>1 DEF Inv, SlotsOK, SlotOK
<1> QED
  BY <1>1, <1>2

LEMMA InvMemory == Inv => NoUseAfterFree
<1> SUFFICES ASSUME Inv, NEW t \in Threads
             PROVE  /\ pc[t] # "idle" => counted /\ Touches(t) \subseteq alive
                    /\ CanUse(t) => /\ counted /\ RootBox \in alive
                                    /\ \A p \in Filled \ TokenAt : slot[p] \in alive
  BY DEF NoUseAfterFree
<1> USE DEF Inv
<1>1. \A p \in Slots : Parent[p] \in Positions /\ Parent[p] \notin TokenAt
  BY SyntaxTreeAssumption
<1>2. \A p \in Filled \ TokenAt : slot[p] \in alive
  BY DEF SlotsOK, SlotOK
<1>3. ASSUME pc[t] \in Working
      PROVE  counted /\ Touches(t) \subseteq alive
  <2>1. counted /\ WorkerOK(t)
    BY <1>3, WorkersStand DEF WorkOK
  <2>2. BoxAt(Parent[at[t]]) \in alive
    BY <1>1, <2>1, PresentIsAlive DEF WorkerOK
  <2>3. pc[t] = "drop_node" => Box(at[t], t) \in alive
    BY <2>1 DEF WorkerOK
  <2>4. Touches(t) = IF pc[t] = "drop_node" THEN {Box(at[t], t)} ELSE {BoxAt(Parent[at[t]])}
    BY <1>3 DEF Touches, Working
  <2> QED
    BY <2>1, <2>2, <2>3, <2>4
<1>4. ASSUME pc[t] = "teardown"
      PROVE  counted /\ Touches(t) \subseteq alive
  <2>1. counted /\ RootBox \in alive
    BY <1>4, AloneInTeardown
  <2>2. \A p \in Filled : BoxAt(Parent[p]) \in alive
    <3>1. \A p \in Filled : p \in Slots /\ BoxAt(Parent[p]) # None
      BY DEF SlotsOK, SlotOK, Filled
    <3> QED
      BY <1>1, <2>1, <3>1, PresentIsAlive
  <2>3. Touches(t) = {RootBox} \cup {slot[p] : p \in Filled \ TokenAt}
                     \cup {BoxAt(Parent[p]) : p \in Filled}
    BY <1>4 DEF Touches
  <2> QED
    BY <1>2, <2>1, <2>2, <2>3
<1>5. pc[t] = "idle" \/ pc[t] = "teardown" \/ pc[t] \in Working
  BY DEF TypeOK, Working, UnwrapSucceeds
<1>6. CanUse(t) => counted /\ RootBox \in alive
  BY WorkersStand
<1> QED
  BY <1>2, <1>3, <1>4, <1>5, <1>6

\* Every variable of the shared tree keeps its type; the count stays a u32.
THEOREM TypeCorrect == Spec => []TypeOK
<1>1. Inv => TypeOK
  BY DEF Inv
<1> QED
  BY <1>1, Invariance, PTL

\* Whatever the threads do, the count is exact until the last handle is
\* dropped: what try_write adds is what the losers of the race take off again.
THEOREM CountCorrect == Spec => []CountExact
<1>1. Inv => CountExact
  BY DEF Inv
<1> QED
  BY <1>1, Invariance, PTL

\* No thread touches a box, the root or the count after it was freed.
THEOREM MemoryCorrect == Spec => []NoUseAfterFree
BY InvMemory, Invariance, PTL

\* SyntaxNode::drop starts one teardown, after the last handle, and no
\* decrement inside it, below zero as the count is, starts another.
THEOREM TeardownCorrect == Spec => []TornDownOnce
<1>1. Inv => TornDownOnce
  BY DEF Inv, TeardownOK, TornDownOnce, TornDown, TypeOK
<1> QED
  BY <1>1, Invariance, PTL

\* After try_write the slot is filled: read(index).unwrap() does not panic.
THEOREM UnwrapCorrect == Spec => []UnwrapSucceeds
<1>1. Inv => UnwrapSucceeds
  BY DEF Inv
<1> QED
  BY <1>1, Invariance, PTL

\* Every box has a place in the tree or an owner, and the teardown frees all.
THEOREM LeakFree == Spec => []NoLeak
<1>1. Inv => NoLeak
  BY DEF Inv
<1> QED
  BY <1>1, Invariance, PTL

----------------------------------------------------------------------------
(* The refinement *)

\* While the tree stands, an idle thread is at a place where something is.
AtOK == ~ TornDown => \A t \in Threads : pc[t] = "idle" => BoxAt(at[t]) # None

RInv == Inv /\ AtOK

LEMMA InitRInv == Init => RInv
<1> SUFFICES ASSUME Init PROVE RInv
  OBVIOUS
<1>1. \A t \in Threads : at[t] = Root
  BY DEF Init
<1>2. AtOK
  BY <1>1 DEF AtOK, BoxAt, RootBox, None
<1> QED
  BY <1>2, InitInv DEF RInv

\* What is there while the tree stands stays there.
LEMMA FilledStays ==
    ASSUME Inv, ~ TornDown, [Next]_vars, NEW p \in Positions, BoxAt(p) # None
    PROVE  BoxAt(p)' # None
<1> USE DEF Inv
<1>1. \A t \in Threads : pc[t] # "teardown"
  BY DEF TeardownOK
<1>2. ASSUME UNCHANGED slot PROVE BoxAt(p)' # None
  BY <1>2 DEF BoxAt
<1>3. ASSUME NEW t \in Threads, Store(t) PROVE BoxAt(p)' # None
  BY <1>3 DEF Store, BoxAt, Box, None, TypeOK, Slots, Positions, Root
<1>4. ASSUME NEW t \in Threads, Step(t) PROVE Store(t) \/ UNCHANGED slot
  BY <1>1, <1>4 DEF Step, Lock, Compensate, DropNode, DropParent, Read, DropSlot, DropRoot
<1>5. ASSUME NEW t \in Threads, Start(t) PROVE UNCHANGED slot
  BY <1>5 DEF Start, Clone, DropHandle, SendHandle, Borrow, EndBorrow, GetOrAdd
<1> QED
  BY <1>2, <1>3, <1>4, <1>5 DEF Next, Finished, vars

\* A thread that becomes idle, or goes elsewhere, is where something is.
LEMMA BecomesIdle ==
    ASSUME Inv, ~ TornDown', [Next]_vars, NEW t \in Threads, pc'[t] = "idle"
    PROVE  \/ pc[t] = "idle" /\ at'[t] = at[t]
           \/ BoxAt(at'[t]) # None
<1> USE DEF Inv
<1>1. ASSUME NEW u \in Threads, Step(u)
      PROVE  (pc[t] = "idle" /\ at'[t] = at[t]) \/ BoxAt(at'[t]) # None
  <2>1. at' = at
    BY <1>1 DEF Step, Lock, Store, Compensate, DropNode, DropParent, Read, DropSlot, DropRoot
  <2>2. CASE u # t
    <3>1. pc'[t] = pc[t]
      BY <1>1, <2>2 DEF Step, Lock, Store, Compensate, DropNode, DropParent, Read, DropSlot,
                        DropRoot, DropReference, TypeOK
    <3> QED
      BY <2>1, <3>1
  <2>3. CASE u = t /\ pc[t] = "read"
    <3>1. slot[at[t]] # None /\ at[t] \in Slots
      BY <2>3 DEF WorkOK, WorkerOK, Working
    <3> QED
      BY <2>1, <3>1 DEF BoxAt, Slots, Root
  <2>4. CASE u = t /\ pc[t] # "read"
    <3>1. DropRoot(t) \/ pc'[t] # "idle" \/ pc[t] = "idle"
      BY <1>1, <2>4 DEF Step, Lock, Store, Compensate, DropNode, DropParent, Read, DropSlot,
                        DropReference, TypeOK
    <3>2. ~ DropRoot(t)
      <4>1. SUFFICES ASSUME DropRoot(t) PROVE FALSE
        OBVIOUS
      <4>2. TornDown /\ teardowns = 1
        BY <4>1, AloneInTeardown DEF DropRoot
      <4>3. teardowns' \in {1, 2}
        BY <4>1, <4>2 DEF DropRoot
      <4> QED
        BY <4>3 DEF TornDown
    <3> QED
      BY <2>1, <3>1, <3>2
  <2> QED
    BY <2>2, <2>3, <2>4
<1>2. ASSUME NEW u \in Threads, Start(u)
      PROVE  (pc[t] = "idle" /\ at'[t] = at[t]) \/ BoxAt(at'[t]) # None
  <2>1. pc[t] = "idle"
    <3>1. ASSUME u # t PROVE pc'[t] = pc[t]
      BY <1>2, <3>1 DEF Start, Clone, DropHandle, SendHandle, Borrow, EndBorrow, GetOrAdd,
                        DropReference, TypeOK
    <3>2. pc[u] = "idle"
      BY <1>2 DEF Start, Clone, DropHandle, SendHandle, Borrow, EndBorrow, GetOrAdd
    <3> QED
      BY <3>1, <3>2
  <2>2. CASE at' = at
    BY <2>1, <2>2
  <2>3. ASSUME NEW p \in Slots, GetOrAdd(u, p)
        PROVE  at'[t] = at[t] \/ BoxAt(at'[t]) # None
    <3>1. CASE u # t
      BY <2>3, <3>1 DEF GetOrAdd, TypeOK
    <3>2. CASE u = t
      <4>1. slot[p] # None /\ at'[t] = p
        BY <2>3, <3>2 DEF GetOrAdd, TypeOK
      <4> QED
        BY <4>1 DEF BoxAt, Slots, Root
    <3> QED
      BY <3>1, <3>2
  <2> QED
    BY <1>2, <2>1, <2>2, <2>3 DEF Start, Clone, DropHandle, SendHandle, Borrow, EndBorrow
<1> QED
  BY <1>1, <1>2 DEF Next, Finished, vars

\* The number of teardowns only grows.
LEMMA NextTeardowns ==
    ASSUME Inv, [Next]_vars
    PROVE  teardowns' >= teardowns
<1> USE DEF Inv
<1>1. ASSUME NEW t \in Threads, Step(t) PROVE teardowns' >= teardowns
  BY <1>1 DEF Step, Lock, Store, Compensate, DropNode, DropParent, Read, DropSlot, DropRoot,
              DropReference, TypeOK
<1>2. ASSUME NEW t \in Threads, Start(t) PROVE teardowns' >= teardowns
  BY <1>2 DEF Start, Clone, DropHandle, SendHandle, Borrow, EndBorrow, GetOrAdd,
              DropReference, TypeOK
<1> QED
  BY <1>1, <1>2 DEF Next, Finished, vars, TypeOK

LEMMA NextRInv == RInv /\ [Next]_vars => RInv'
<1> SUFFICES ASSUME RInv, [Next]_vars PROVE RInv'
  OBVIOUS
<1>1. Inv' /\ Inv
  BY NextInv DEF RInv
<1>2. AtOK'
  <2>1. SUFFICES ASSUME ~ TornDown', NEW t \in Threads, pc'[t] = "idle"
                 PROVE  BoxAt(at[t])' # None
    BY DEF AtOK
  <2>2. ~ TornDown
    <3>1. teardowns' >= teardowns
      BY <1>1, NextTeardowns
    <3> QED
      BY <1>1, <2>1, <3>1 DEF TornDown, Inv, TypeOK
  <2>3. at'[t] \in Positions /\ BoxAt(at'[t]) # None
    BY <1>1, <2>1, <2>2, BecomesIdle DEF RInv, AtOK, Inv, TypeOK
  <2> QED
    BY <1>1, <2>2, <2>3, FilledStays DEF BoxAt
<1> QED
  BY <1>1, <1>2 DEF RInv

----------------------------------------------------------------------------
(* The mapping *)

\* The abstract tree is live until the last handle is dropped.
LEMMA Phases ==
    ASSUME Inv
    PROVE  /\ Phase = (IF ~ TornDown THEN "live" ELSE IF counted THEN "falling" ELSE "freed")
           /\ Child = [p \in Slots |-> IF ~ TornDown THEN slot[p] ELSE None]
           /\ TornDown => \A t \in Threads : ~ CanUse(t)
<1>1. Phase = (IF ~ TornDown THEN "live" ELSE IF counted THEN "falling" ELSE "freed")
  BY DEF Inv, TeardownOK, Phase
<1>2. TornDown => \A t \in Threads : ~ CanUse(t)
  BY WorkersStand
<1> QED
  BY <1>1, <1>2 DEF Child

\* The abstract operators on the mapped variables.
LEMMA Mapped ==
    ASSUME Inv
    PROVE  /\ \A t \in Threads : Shared!CanUse(t) <=> CanUse(t)
           /\ \A t \in Threads, h \in Handles : Shared!Movable(t, h) <=> Movable(t, h)
           /\ Shared!Nobody <=> InUse = {}
           /\ ~ TornDown => \A p \in Positions :
                  /\ Shared!Known(p) <=> BoxAt(p) # None
                  /\ Shared!RefTo(p) = [at |-> p, is |-> BoxAt(p)]
           /\ Shared!NoRef = [at |-> 0, is |-> None]
<1>1. \A t \in Threads : Shared!CanUse(t) <=> CanUse(t)
  BY DEF Shared!CanUse, Shared!Owned, CanUse, Owned
<1>2. \A t \in Threads, h \in Handles : Shared!Movable(t, h) <=> Movable(t, h)
  <2>1. \A t \in Threads : (Shared!Lends(t) <=> Lends(t)) /\ Shared!Owned(t) = Owned(t)
    BY DEF Shared!Lends, Shared!Owned, Lends, Owned
  <2> QED
    BY <2>1 DEF Shared!Movable, Movable
<1>3. Shared!Nobody <=> InUse = {}
  BY DEF Shared!Nobody, InUse
<1>4. ASSUME ~ TornDown, NEW p \in Positions
      PROVE  /\ Shared!Known(p) <=> BoxAt(p) # None
             /\ Shared!RefTo(p) = [at |-> p, is |-> BoxAt(p)]
  <2>1. p # Root => p \in Slots /\ Child[p] = slot[p]
    BY <1>4, Phases DEF Positions, Slots, Root
  <2> QED
    BY <2>1 DEF Shared!Known, Shared!RefTo, Shared!RootRef, Shared!Root, Shared!None,
                BoxAt, RootBox, Root, None
<1>5. Shared!NoRef = [at |-> 0, is |-> None]
  BY DEF Shared!NoRef, Shared!None, None
<1> QED
  BY <1>1, <1>2, <1>3, <1>4, <1>5

\* What a thread refers to, for the three cases it can be in.
RefOK(t) ==
    /\ TornDown \/ ~ CanUse(t) => Ref(t) = [at |-> 0, is |-> None]
    /\ CanUse(t) => /\ ~ TornDown /\ at[t] \in Positions
                    /\ pc[t] = "idle" => /\ Ref(t) = [at |-> at[t], is |-> BoxAt(at[t])]
                                         /\ BoxAt(at[t]) # None
                    /\ pc[t] # "idle" => Ref(t) = [at |-> at[t], is |-> None]

LEMMA Refs == RInv => \A t \in Threads : RefOK(t)
<1> SUFFICES ASSUME RInv, NEW t \in Threads PROVE RefOK(t)
  OBVIOUS
<1> USE DEF RInv
<1>1. CanUse(t) => ~ TornDown /\ Phase = "live"
  BY WorkersStand, Phases
<1>2. TornDown => Phase # "live"
  BY Phases
<1> QED
  BY <1>1, <1>2 DEF RefOK, Ref, AtOK, Inv, TypeOK

LEMMA RefsNext == RInv' => (\A t \in Threads : RefOK(t))'
BY Refs, PTL

\* Which threads wait for an answer.
LEMMA Asking ==
    ASSUME RInv, NEW t \in Threads
    PROVE  Shared!Asking(t) <=> CanUse(t) /\ pc[t] # "idle"
<1>1. Shared!Asking(t) <=> Ref(t) # [at |-> 0, is |-> None] /\ Ref(t).is = None
  BY DEF Shared!Asking, Shared!NoRef, Shared!None, None
<1>2. \A p \in Positions : [at |-> p, is |-> None] # [at |-> 0, is |-> None]
  <2>1. SUFFICES ASSUME NEW p \in Positions, [at |-> p, is |-> None] = [at |-> 0, is |-> None]
                 PROVE  FALSE
    OBVIOUS
  <2>2. [at |-> p, is |-> None].at = [at |-> 0, is |-> None].at
    BY <2>1
  <2> QED
    BY <2>2 DEF Positions
<1> QED
  BY <1>1, <1>2, Refs DEF RefOK

----------------------------------------------------------------------------
(* The steps *)

\* A step of one thread that fills or empties no slot and keeps the handles.
LEMMA RefsKeep ==
    ASSUME RInv, RInv', NEW t \in Threads,
           UNCHANGED <<owner, lender, slot, counted, teardowns>>,
           \A u \in Threads \ {t} : pc'[u] = pc[u] /\ at'[u] = at[u]
    PROVE  /\ UNCHANGED <<Child, Phase>>
           /\ \A u \in Threads \ {t} : Ref(u)' = Ref(u)
<1>1. UNCHANGED <<Child, Phase>>
  BY DEF Child, Phase, InUse
<1>2. \A u \in Threads : CanUse(u)' = CanUse(u)
  BY DEF CanUse, Owned
<1>3. \A p : BoxAt(p)' = BoxAt(p)
  BY DEF BoxAt
<1> QED
  BY <1>1, <1>2, <1>3 DEF Ref, BoxAt

\* Steps of get_or_add that the abstract tree does not see.
LEMMA HiddenStep ==
    ASSUME RInv, RInv', NEW t \in Threads,
           Lock(t) \/ Compensate(t) \/ DropNode(t) \/ DropParent(t)
    PROVE  UNCHANGED Shared!vars
<1> USE DEF RInv, Inv
<1>1. pc[t] \in Working /\ pc[t] # "idle" /\ CanUse(t) /\ ~ TornDown
  BY WorkersStand DEF Lock, Compensate, DropNode, DropParent, WorkOK, WorkerOK, Working
<1>2. UNCHANGED <<owner, lender, slot, counted, at, teardowns>>
  BY PaidDrop DEF Lock, Compensate, DropNode, DropParent
<1>3. /\ \A u \in Threads \ {t} : pc'[u] = pc[u]
      /\ pc'[t] # "idle"
  BY <1>2 DEF Lock, Compensate, DropNode, DropParent, DropReference, TypeOK
<1>4. UNCHANGED <<Child, Phase>> /\ \A u \in Threads \ {t} : Ref(u)' = Ref(u)
  BY <1>2, <1>3, RefsKeep
<1>5. CanUse(t)'
  BY <1>1, <1>2 DEF CanUse, Owned
<1>6. Ref(t)' = Ref(t)
  BY <1>1, <1>2, <1>3, <1>4, <1>5 DEF Ref
<1> QED
  BY <1>2, <1>4, <1>6 DEF Shared!vars

\* A hit answers at once; a miss begins to ask.
LEMMA GetOrAddStep ==
    ASSUME RInv, RInv', NEW t \in Threads, NEW p \in Slots, GetOrAdd(t, p)
    PROVE  Shared!Answer(t, p) \/ Shared!Ask(t, p)
<1> USE DEF RInv, Inv
<1>1. /\ pc[t] = "idle" /\ CanUse(t) /\ BoxAt(Parent[p]) # None
      /\ at' = [at EXCEPT ![t] = p]
      /\ UNCHANGED <<counted, slot, owner, lender, teardowns>>
  BY DEF GetOrAdd
<1>2. ~ TornDown /\ p \in Positions /\ Parent[p] \in Positions
  BY <1>1, WorkersStand, SyntaxTreeAssumption DEF Slots, Positions
<1>3. \A u \in Threads \ {t} : pc'[u] = pc[u] /\ at'[u] = at[u]
  BY <1>1 DEF GetOrAdd, TypeOK
<1>4. UNCHANGED <<Child, Phase>> /\ \A u \in Threads \ {t} : Ref(u)' = Ref(u)
  BY <1>1, <1>3, RefsKeep
<1>5. CanUse(t)' /\ at'[t] = p
  BY <1>1 DEF CanUse, Owned, TypeOK
<1>6. Shared!CanUse(t) /\ ~ Shared!Asking(t) /\ Shared!Known(Parent[p])
  BY <1>1, <1>2, Mapped, Asking
<1>7. CASE pc'[t] = "idle"
  <2>1. slot[p] # None
    BY <1>7 DEF GetOrAdd, TypeOK
  <2>2. BoxAt(p) # None /\ BoxAt(p)' = BoxAt(p)
    BY <1>1, <2>1 DEF BoxAt, Slots, Root
  <2>3. Shared!Known(p) /\ Shared!RefTo(p) = [at |-> p, is |-> BoxAt(p)]
    BY <1>2, <2>2, Mapped
  <2>4. Ref(t)' = Shared!RefTo(p)
    <3>1. Ref(t)' = [at |-> at'[t], is |-> BoxAt(at[t])']
      BY <1>5, <1>7, RefsNext DEF RefOK
    <3>2. BoxAt(at[t])' = BoxAt(p)
      BY <1>1, <1>5 DEF BoxAt
    <3> QED
      BY <1>5, <2>3, <3>1, <3>2
  <2> QED
    BY <1>1, <1>4, <1>6, <2>3, <2>4 DEF Shared!Answer
<1>8. CASE pc'[t] # "idle"
  <2>1. Ref(t)' = [at |-> p, is |-> None]
    BY <1>5, <1>8, RefsNext DEF RefOK
  <2> QED
    BY <1>1, <1>4, <1>6, <2>1 DEF Shared!Ask, Shared!None, None
<1> QED
  BY <1>7, <1>8

\* The thread that is first fills the child.
LEMMA StoreStep ==
    ASSUME RInv, RInv', NEW t \in Threads, Store(t)
    PROVE  Shared!Fill(at[t])
<1> USE DEF RInv, Inv
<1>1. /\ pc[t] = "write" /\ slot[at[t]] = None
      /\ slot' = [slot EXCEPT ![at[t]] = Box(at[t], t)]
      /\ pc' = [pc EXCEPT ![t] = "read"]
      /\ UNCHANGED <<counted, owner, lender, at, teardowns>>
  BY DEF Store
<1>2. CanUse(t) /\ ~ TornDown /\ at[t] \in Slots
  BY <1>1, WorkersStand DEF WorkOK, WorkerOK, Working
<1>3. Phase = "live" /\ Phase' = "live"
  BY <1>1, <1>2, Phases DEF Phase, InUse
<1>4. Shared!Asking(t) /\ Ref(t).at = at[t]
  BY <1>1, <1>2, Asking, Refs DEF RefOK
<1>5. Child = slot /\ Child' = slot'
  BY <1>3 DEF Child, TypeOK
<1>6. \A u \in Threads : Ref(u)' = Ref(u)
  <2>1. SUFFICES ASSUME NEW u \in Threads PROVE Ref(u)' = Ref(u)
    OBVIOUS
  <2>2. CanUse(u)' = CanUse(u)
    BY <1>1 DEF CanUse, Owned
  <2>3. pc'[u] = "idle" <=> pc[u] = "idle"
    BY <1>1 DEF TypeOK
  <2>4. CASE CanUse(u) /\ pc[u] = "idle"
    <3>1. BoxAt(at[u]) # None /\ at[u] \in Positions
      BY <2>4, Refs DEF RefOK
    <3>2. BoxAt(at[u])' = BoxAt(at[u])
      BY <1>1, <1>2, <3>1 DEF BoxAt, TypeOK, Slots, Positions, Root
    <3> QED
      BY <1>1, <1>3, <2>2, <2>3, <2>4, <3>2 DEF Ref
  <2>5. CASE ~ (CanUse(u) /\ pc[u] = "idle")
    BY <1>1, <1>3, <2>2, <2>3, <2>5 DEF Ref
  <2> QED
    BY <2>4, <2>5
<1>7. \E e \in {Box(at[t], u) : u \in Threads} : Child' = [Child EXCEPT ![at[t]] = e]
  BY <1>1, <1>5
<1> QED
  BY <1>1, <1>2, <1>3, <1>4, <1>5, <1>6, <1>7 DEF Shared!Fill, Shared!None, None, Slots

\* The answer to a miss.
LEMMA ReadStep ==
    ASSUME RInv, RInv', NEW t \in Threads, Read(t)
    PROVE  Shared!Answer(t, at[t])
<1> USE DEF RInv, Inv
<1>1. CanUse(t) /\ ~ TornDown /\ at[t] \in Slots /\ slot[at[t]] # None
  BY WorkersStand DEF Read, WorkOK, WorkerOK, Working
<1>2. /\ pc[t] = "read" /\ pc' = [pc EXCEPT ![t] = "idle"]
      /\ UNCHANGED <<counted, slot, owner, lender, at, teardowns>>
  BY <1>1 DEF Read
<1>3. UNCHANGED <<Child, Phase>> /\ \A u \in Threads \ {t} : Ref(u)' = Ref(u)
  BY <1>2, RefsKeep DEF TypeOK
<1>4. Shared!CanUse(t) /\ Ref(t).at = at[t]
  BY <1>1, <1>2, Mapped, Refs DEF RefOK
<1>5. /\ BoxAt(at[t]) # None /\ BoxAt(at[t])' = BoxAt(at[t])
      /\ at[t] \in Positions
  BY <1>1, <1>2 DEF BoxAt, Slots, Positions, Root
<1>6. Shared!Known(at[t]) /\ Shared!RefTo(at[t]) = [at |-> at[t], is |-> BoxAt(at[t])]
  BY <1>1, <1>5, Mapped
<1>7. Ref(t)' = Shared!RefTo(at[t])
  <2>1. CanUse(t)' /\ pc'[t] = "idle"
    BY <1>1, <1>2 DEF CanUse, Owned, TypeOK
  <2> QED
    BY <1>2, <1>5, <1>6, <2>1, RefsNext DEF RefOK
<1> QED
  BY <1>2, <1>3, <1>4, <1>6, <1>7 DEF Shared!Answer

\* The teardown does not show ...
LEMMA DropSlotStep ==
    ASSUME RInv, NEW t \in Threads, DropSlot(t)
    PROVE  UNCHANGED Shared!vars
<1>1. TornDown /\ UNCHANGED <<counted, owner, lender, pc, at>> /\ InUse = {}
  BY AloneInTeardown DEF RInv, DropSlot
<1>2. Phase # "live" /\ Phase' = Phase
  BY <1>1 DEF Phase, InUse
<1>3. Child' = Child
  BY <1>2 DEF Child
<1>4. \A u \in Threads : Ref(u)' = Ref(u)
  BY <1>2 DEF Ref
<1> QED
  BY <1>1, <1>2, <1>3, <1>4 DEF Shared!vars

\* ... until the tree is gone.
LEMMA DropRootStep ==
    ASSUME RInv, NEW t \in Threads, DropRoot(t)
    PROVE  Shared!Free
<1>1. TornDown /\ counted /\ UNCHANGED <<owner, lender>> /\ InUse = {} /\ counted' = FALSE
  BY AloneInTeardown DEF RInv, DropRoot
<1>2. Phase = "falling" /\ Phase' = "freed"
  BY <1>1 DEF Phase
<1>3. Child' = Child
  BY <1>2 DEF Child
<1>4. \A u \in Threads : Ref(u)' = Ref(u)
  BY <1>2 DEF Ref
<1> QED
  BY <1>1, <1>2, <1>3, <1>4 DEF Shared!Free

\* References end, stay or begin with the handles.
LEMMA RefsMove ==
    ASSUME RInv, RInv', ~ TornDown,
           UNCHANGED <<slot, at>>,
           \A t \in Threads : CanUse(t)' => pc'[t] = pc[t]
    PROVE  Shared!References
<1> USE DEF RInv, Inv
<1>1. SUFFICES ASSUME NEW t \in Threads
               PROVE  IF ~ CanUse(t)' THEN Ref(t)' = [at |-> 0, is |-> None]
                      ELSE IF CanUse(t) THEN Ref(t)' = Ref(t)
                      ELSE \E p \in Slots \cup {Root} :
                               Shared!Known(p) /\ Ref(t)' = Shared!RefTo(p)
  <2>1. \A t \in Threads : (Shared!CanUse(t)' <=> CanUse(t)') /\ (Shared!CanUse(t) <=> CanUse(t))
    BY DEF Shared!CanUse, Shared!Owned, CanUse, Owned
  <2> QED
    BY <1>1, <2>1 DEF Shared!References, Shared!NoRef, Shared!None, None,
                      Shared!Slots, Slots, Shared!Root, Root
<1>2. \A p : BoxAt(p)' = BoxAt(p)
  BY DEF BoxAt
<1>3. CASE ~ CanUse(t)'
  BY <1>3, RefsNext DEF RefOK
<1>4. CASE CanUse(t)' /\ CanUse(t)
  BY <1>2, <1>4, Refs, RefsNext DEF RefOK
<1>5. CASE CanUse(t)' /\ ~ CanUse(t)
  <2>1. pc[t] = "idle" /\ at[t] \in Positions
    BY <1>5 DEF WorkOK, WorkerOK, Working, TypeOK, TeardownOK, UnwrapSucceeds
  <2>2. BoxAt(at[t]) # None
    BY <2>1 DEF AtOK
  <2>3. Ref(t)' = [at |-> at[t], is |-> BoxAt(at[t])]
    BY <1>2, <1>5, <2>1, RefsNext DEF RefOK
  <2>4. Shared!Known(at[t]) /\ Ref(t)' = Shared!RefTo(at[t])
    BY <2>1, <2>2, <2>3, Mapped
  <2>5. at[t] \in Slots \cup {Root}
    BY <2>1 DEF Slots, Positions, Root
  <2> QED
    BY <1>5, <2>4, <2>5
<1> QED
  BY <1>3, <1>4, <1>5

LEMMA CloneStep ==
    ASSUME RInv, RInv', NEW t \in Threads, NEW h \in Handles, Clone(t, h)
    PROVE  Shared!Clone(t, h)
<1> USE DEF RInv, Inv
<1>1. /\ pc[t] = "idle" /\ CanUse(t) /\ owner[h] = NoOwner
      /\ owner' = [owner EXCEPT ![h] = t]
      /\ UNCHANGED <<counted, slot, lender, pc, at, teardowns>>
  BY DEF Clone
<1>2. ~ TornDown /\ ~ TornDown'
  BY <1>1, WorkersStand DEF TornDown
<1>3. Phase = "live" /\ Phase' = "live"
  <2>1. InUse # {} /\ InUse' # {} /\ counted
    BY <1>1, <1>2 DEF TeardownOK
  <2> QED
    BY <1>1, <2>1 DEF Phase
<1>4. Child' = Child
  BY <1>1, <1>3 DEF Child
<1>5. \A u \in Threads : CanUse(u)' <=> CanUse(u)
  BY <1>1, SyntaxTreeAssumption DEF CanUse, Owned, TypeOK
<1>6. \A u \in Threads : Ref(u)' = Ref(u)
  <2>1. \A p : BoxAt(p)' = BoxAt(p)
    BY <1>1 DEF BoxAt
  <2> QED
    BY <1>1, <1>3, <1>5, <2>1 DEF Ref, BoxAt
<1>7. Shared!CanUse(t) /\ ~ Shared!Asking(t)
  BY <1>1, Mapped, Asking
<1> QED
  BY <1>1, <1>3, <1>4, <1>6, <1>7 DEF Shared!Clone

\* The handles move and the tree stands.
LEMMA StillLive ==
    ASSUME RInv, RInv', ~ TornDown, UNCHANGED <<slot, counted, teardowns>>
    PROVE  UNCHANGED <<Child, Phase>>
<1>1. Phase = "live"
  BY Phases DEF RInv
<1>2. InUse' # {} /\ counted'
  BY DEF RInv, Inv, TeardownOK, TornDown
<1>3. Phase' = "live"
  BY <1>2 DEF Phase
<1> QED
  BY <1>1, <1>3 DEF Child

LEMMA SendStep ==
    ASSUME RInv, RInv', NEW t \in Threads, NEW u \in Threads, NEW h \in Handles,
           SendHandle(t, u, h)
    PROVE  Shared!Send(t, u, h)
<1> USE DEF RInv, Inv
<1>1. /\ pc[t] = "idle" /\ Movable(t, h) /\ owner' = [owner EXCEPT ![h] = u]
      /\ UNCHANGED <<counted, slot, lender, pc, at, teardowns>>
  BY DEF SendHandle
<1>2. CanUse(t) /\ ~ TornDown
  <2>1. h \in Owned(t)
    BY <1>1 DEF Movable, Owned
  <2> QED
    BY <2>1, WorkersStand DEF CanUse
<1>3. Shared!Movable(t, h) /\ ~ Shared!Asking(t)
  BY <1>1, Mapped, Asking
<1>4. UNCHANGED <<Child, Phase>> /\ Shared!References
  BY <1>1, <1>2, StillLive, RefsMove
<1> QED
  BY <1>1, <1>3, <1>4 DEF Shared!Send

LEMMA BorrowStep ==
    ASSUME RInv, RInv', NEW t \in Threads, NEW u \in Threads, Borrow(t, u)
    PROVE  Shared!Borrow(t, u)
<1> USE DEF RInv, Inv
<1>1. /\ pc[t] = "idle" /\ lender[t] = NoOwner /\ Owned(u) # {}
      /\ lender' = [lender EXCEPT ![t] = u]
      /\ UNCHANGED <<counted, slot, owner, pc, at, teardowns>>
  BY DEF Borrow
<1>2. ~ TornDown
  BY <1>1, WorkersStand DEF CanUse
<1>3. ~ Shared!Asking(t) /\ Shared!Owned(u) # {}
  BY <1>1, Asking DEF Shared!Owned, Owned
<1>4. UNCHANGED <<Child, Phase>> /\ Shared!References
  BY <1>1, <1>2, StillLive, RefsMove
<1> QED
  BY <1>1, <1>3, <1>4 DEF Shared!Borrow

LEMMA EndBorrowStep ==
    ASSUME RInv, RInv', NEW t \in Threads, EndBorrow(t)
    PROVE  Shared!EndBorrow(t)
<1> USE DEF RInv, Inv
<1>1. /\ pc[t] = "idle" /\ lender[t] # NoOwner
      /\ lender' = [lender EXCEPT ![t] = NoOwner]
      /\ UNCHANGED <<counted, slot, owner, pc, at, teardowns>>
  BY DEF EndBorrow
<1>2. ~ TornDown
  BY <1>1, WorkersStand DEF CanUse
<1>3. ~ Shared!Asking(t)
  BY <1>1, Asking
<1>4. UNCHANGED <<Child, Phase>> /\ Shared!References
  BY <1>1, <1>2, StillLive, RefsMove
<1> QED
  BY <1>1, <1>3, <1>4 DEF Shared!EndBorrow

LEMMA DropStep ==
    ASSUME RInv, RInv', NEW t \in Threads, NEW h \in Handles, DropHandle(t, h)
    PROVE  Shared!Drop(t, h)
<1> USE DEF RInv, Inv
<1>1. /\ pc[t] = "idle" /\ Movable(t, h) /\ owner' = [owner EXCEPT ![h] = NoOwner]
      /\ DropReference(t, "idle")
      /\ UNCHANGED <<counted, slot, lender, at>>
  BY DEF DropHandle
<1>2. CanUse(t) /\ ~ TornDown /\ counted
  <2>1. h \in Owned(t)
    BY <1>1 DEF Movable, Owned
  <2> QED
    BY <2>1, WorkersStand DEF CanUse
<1>3. Shared!Movable(t, h) /\ ~ Shared!Asking(t)
  BY <1>1, Mapped, Asking
<1>4. Shared!Nobody' <=> InUse' = {}
  BY DEF Shared!Nobody, InUse
<1>5. CASE refCount # 1
  <2>1. UNCHANGED <<pc, teardowns>>
    BY <1>1, <1>5 DEF DropReference, TypeOK
  <2>2. UNCHANGED <<Child, Phase>> /\ Shared!References
    BY <1>1, <1>2, <2>1, StillLive, RefsMove
  <2>3. InUse' # {}
    BY <1>2, <2>1 DEF TeardownOK, TornDown
  <2> QED
    BY <1>1, <1>3, <1>4, <2>2, <2>3 DEF Shared!Drop
<1>6. CASE refCount = 1
  <2>1. teardowns' = teardowns + 1
    BY <1>1, <1>6 DEF DropReference
  <2>2. TornDown'
    BY <2>1 DEF TornDown, TypeOK
  <2>3. InUse' = {} /\ \A u \in Threads : ~ CanUse(u)'
    BY <2>2, SyntaxTreeAssumption DEF TeardownOK, LoansOK, CanUse, Owned, InUse, TypeOK
  <2>4. Phase' = "falling" /\ Child' = [p \in Slots |-> None]
    BY <1>1, <1>2, <2>3 DEF Phase, Child
  <2>5. Shared!References
    BY <1>1, <1>2, <2>3, RefsMove
  <2> QED
    BY <1>1, <1>3, <1>4, <2>3, <2>4, <2>5 DEF Shared!Drop, Shared!Slots, Slots, Shared!None, None
<1> QED
  BY <1>5, <1>6

----------------------------------------------------------------------------
(* The refinement *)

LEMMA InitSimulates == Init => Shared!Init
<1> SUFFICES ASSUME Init PROVE Shared!Init
  OBVIOUS
<1>1. PICK h \in Handles : owner = [g \in Handles |-> IF g = h THEN Creator ELSE NoOwner]
  BY DEF Init
<1>2. Creator \in Threads /\ NoOwner \notin Threads
  BY SyntaxTreeAssumption
<1>3. InUse = {h} /\ Phase = "live"
  BY <1>1, <1>2 DEF Init, InUse, Phase
<1>4. Child = [p \in Slots |-> None]
  BY <1>3 DEF Init, Child
<1>5. \A t \in Threads : Ref(t) = IF t = Creator THEN Shared!RootRef ELSE Shared!NoRef
  <2>1. \A t \in Threads : CanUse(t) <=> t = Creator
    BY <1>1, <1>2 DEF Init, CanUse, Owned
  <2> QED
    BY <1>3, <2>1 DEF Init, Ref, BoxAt, RootBox, Root, None,
                      Shared!RootRef, Shared!NoRef, Shared!Root, Shared!None
<1> QED
  BY <1>1, <1>3, <1>4, <1>5 DEF Init, Shared!Init, Shared!Slots, Slots, Shared!None, None

LEMMA StepSimulates ==
    ASSUME RInv, RInv', NEW t \in Threads, Step(t)
    PROVE  [Shared!Next]_Shared!vars
<1>1. CASE Lock(t) \/ Compensate(t) \/ DropNode(t) \/ DropParent(t)
  BY <1>1, HiddenStep
<1>2. CASE Store(t)
  <2>1. at[t] \in Slots
    BY <1>2 DEF Store, RInv, Inv, WorkOK, WorkerOK, Working
  <2> QED
    BY <1>2, <2>1, StoreStep DEF Shared!Next, Shared!Slots, Slots
<1>3. CASE Read(t)
  <2>1. at[t] \in Slots
    BY <1>3 DEF Read, RInv, Inv, WorkOK, WorkerOK, Working
  <2> QED
    BY <1>3, <2>1, ReadStep DEF Shared!Next, Shared!Slots, Slots
<1>4. CASE DropSlot(t)
  BY <1>4, DropSlotStep
<1>5. CASE DropRoot(t)
  BY <1>5, DropRootStep DEF Shared!Next
<1> QED
  BY <1>1, <1>2, <1>3, <1>4, <1>5 DEF Step

LEMMA StartSimulates ==
    ASSUME RInv, RInv', NEW t \in Threads, Start(t)
    PROVE  [Shared!Next]_Shared!vars
<1>1. ASSUME NEW h \in Handles, Clone(t, h) PROVE Shared!Next
  BY <1>1, CloneStep DEF Shared!Next
<1>2. ASSUME NEW h \in Handles, DropHandle(t, h) PROVE Shared!Next
  BY <1>2, DropStep DEF Shared!Next
<1>3. ASSUME NEW u \in Threads, NEW h \in Handles, SendHandle(t, u, h) PROVE Shared!Next
  BY <1>3, SendStep DEF Shared!Next
<1>4. ASSUME NEW u \in Threads, Borrow(t, u) PROVE Shared!Next
  BY <1>4, BorrowStep DEF Shared!Next
<1>5. CASE EndBorrow(t)
  BY <1>5, EndBorrowStep DEF Shared!Next
<1>6. ASSUME NEW p \in Slots, GetOrAdd(t, p) PROVE Shared!Next
  BY <1>6, GetOrAddStep DEF Shared!Next, Shared!Slots, Slots
<1> QED
  BY <1>1, <1>2, <1>3, <1>4, <1>5, <1>6 DEF Start

LEMMA NextSimulates == RInv /\ RInv' /\ [Next]_vars => [Shared!Next]_Shared!vars
<1> SUFFICES ASSUME RInv, RInv', [Next]_vars PROVE [Shared!Next]_Shared!vars
  OBVIOUS
<1>1. CASE UNCHANGED vars
  BY <1>1 DEF vars, Shared!vars, Child, Ref, Phase, CanUse, Owned, InUse, BoxAt
<1> QED
  BY <1>1, StepSimulates, StartSimulates DEF Next, Finished

\* The tree that racing threads build on demand, with its count, locks and
\* boxes, is seen as one tree by everybody: a child is the same for all who ask
\* for it and is never replaced, and the tree goes with the last handle.
THEOREM SharedTreeRefinement == Spec => ImplementsSharedTree
<1>1. Init => RInv /\ Shared!Init
  BY InitRInv, InitSimulates
<1>2. RInv /\ [Next]_vars => RInv'
  BY NextRInv
<1>3. RInv /\ RInv' /\ [Next]_vars => [Shared!Next]_Shared!vars
  BY NextSimulates
<1> QED
  BY <1>1, <1>2, <1>3, PTL DEF Spec, ImplementsSharedTree, Shared!TSpec

----------------------------------------------------------------------------
(* The guarantee of the resolved views, for any number of trees, elements  *)
(* and variables of the client.  Whether a tree has a resolver is decided  *)
(* once, so a view keeps the promise it was checked for as long as its     *)
(* element stays in the same tree; every method but the assignment through *)
(* DerefMut leaves it there.                                               *)

\* The promise of one view in a given table of resolvers.
Kept(v, table) == v.type = "Resolved" /\ ~ v.assigned => table[v.tree] = "some"

\* What a client may hold.
Sound(v, table) == v \in Client!Views /\ table[v.tree] # "unborn" /\ Kept(v, table)

ViewInv == Client!TypeOK /\ Client!GuaranteedUnlessAssigned

\* In a good state every variable in use holds a sound view.
LEMMA SoundViews ==
    ASSUME ViewInv, NEW h \in Variables, Client!Used(h)
    PROVE  Sound(view[h], resolver)
<1>1. view[h] \in Client!Views
  BY DEF ViewInv, Client!TypeOK, Client!Used
<1>2. QED
  BY <1>1 DEF ViewInv, Client!TypeOK, Client!GuaranteedUnlessAssigned, Sound, Kept

\* Putting a sound view into a variable keeps the state good, if the resolvers
\* of the trees that exist stay as they are.
LEMMA PutKeepsViews ==
    ASSUME ViewInv, NEW d \in Variables, NEW v, Client!Put(d, v), Sound(v, resolver'),
           resolver' \in [Trees -> {"unborn", "none", "some"}],
           \A t \in Trees : resolver[t] # "unborn" => resolver'[t] = resolver[t],
           status' \in {"ok", "panicked"}
    PROVE  ViewInv'
<1>1. view' = [view EXCEPT ![d] = v] /\ view \in [Variables -> Client!Views \cup {NoView}] /\ v \in Client!Views
  BY DEF Client!Put, ViewInv, Client!TypeOK, Sound
<1>2. view' \in [Variables -> Client!Views \cup {NoView}]
  BY <1>1
<1>3. ASSUME NEW h \in Variables, view'[h] # NoView
      PROVE  Sound(view'[h], resolver')
  <2>1. CASE h = d
    BY <1>1, <2>1
  <2>2. CASE h # d
    <3>1. view'[h] = view[h] /\ Client!Used(h)
      BY <1>1, <1>3, <2>2 DEF Client!Used
    <3>2. Sound(view[h], resolver)
      BY <3>1, SoundViews
    <3>3. view[h].tree \in Trees
      BY <3>2 DEF Sound, Client!Views
    <3>4. QED
      BY <3>1, <3>2, <3>3 DEF Sound, Kept
  <2>3. QED
    BY <2>1, <2>2
<1>4. Client!TypeOK'
  BY <1>2, <1>3 DEF Client!TypeOK, Client!Used, Sound
<1>5. Client!GuaranteedUnlessAssigned'
  BY <1>3 DEF Client!GuaranteedUnlessAssigned, Client!Used, Sound, Kept
<1>6. QED
  BY <1>4, <1>5 DEF ViewInv

\* The steps that leave the resolvers alone: a sound view goes into d.
LEMMA StorePreserves ==
    ASSUME ViewInv, NEW d \in Variables, NEW v, Client!Put(d, v), Sound(v, resolver),
           UNCHANGED <<resolver, status>>
    PROVE  ViewInv'
<1>1. /\ resolver' = resolver /\ status' = status
      /\ resolver \in [Trees -> {"unborn", "none", "some"}] /\ status \in {"ok", "panicked"}
  BY DEF ViewInv, Client!TypeOK
<1>2. QED
  BY <1>1, PutKeepsViews

\* Every step keeps the state good.
LEMMA ClientPreserves ==
    ASSUME ViewInv, [Client!Next]_Client!vars
    PROVE  ViewInv'
<1>1. ASSUME NEW d \in Variables, NEW t \in Trees, Client!NewRoot(d, t)
      PROVE  ViewInv'
  <2> DEFINE v == [type |-> "Syntax", tree |-> t, pos |-> Client!Root, owner |-> d, assigned |-> FALSE]
  <2>1. resolver \in [Trees -> {"unborn", "none", "some"}] /\ status \in {"ok", "panicked"}
    BY DEF ViewInv, Client!TypeOK
  <2>2. resolver' = [resolver EXCEPT ![t] = "none"] /\ resolver[t] = "unborn" /\ Client!Put(d, v)
        /\ status' = status
    BY <1>1 DEF Client!NewRoot
  <2>3. v \in Client!Views /\ v.type = "Syntax" /\ v.tree = t
    BY SyntaxTreeAssumption DEF SyntaxTreeAssumption, Client!Views, Client!Positions, Client!Root
  <2>4. Sound(v, resolver')
    BY <2>1, <2>2, <2>3 DEF Sound, Kept
  <2>5. /\ resolver' \in [Trees -> {"unborn", "none", "some"}]
        /\ \A u \in Trees : resolver[u] # "unborn" => resolver'[u] = resolver[u]
    BY <2>1, <2>2
  <2> HIDE DEF v
  <2>6. QED
    BY <2>1, <2>2, <2>4, <2>5, PutKeepsViews
<1>2. ASSUME NEW d \in Variables, NEW t \in Trees, Client!NewRootWithResolver(d, t)
      PROVE  ViewInv'
  <2> DEFINE v == [type |-> "Resolved", tree |-> t, pos |-> Client!Root, owner |-> d, assigned |-> FALSE]
  <2>1. resolver \in [Trees -> {"unborn", "none", "some"}] /\ status \in {"ok", "panicked"}
    BY DEF ViewInv, Client!TypeOK
  <2>2. resolver' = [resolver EXCEPT ![t] = "some"] /\ resolver[t] = "unborn" /\ Client!Put(d, v)
        /\ status' = status
    BY <1>2 DEF Client!NewRootWithResolver
  <2>3. v \in Client!Views /\ v.tree = t
    BY SyntaxTreeAssumption DEF SyntaxTreeAssumption, Client!Views, Client!Positions, Client!Root
  <2>4. Sound(v, resolver')
    BY <2>1, <2>2, <2>3 DEF Sound, Kept
  <2>5. /\ resolver' \in [Trees -> {"unborn", "none", "some"}]
        /\ \A u \in Trees : resolver[u] # "unborn" => resolver'[u] = resolver[u]
    BY <2>1, <2>2
  <2> HIDE DEF v
  <2>6. QED
    BY <2>1, <2>2, <2>4, <2>5, PutKeepsViews
<1>3. ASSUME NEW h \in Variables, NEW d \in Variables, NEW q \in Client!Positions,
             Client!Navigate(h, d, q) \/ Client!TokenAtOffset(h, d, q)
      PROVE  ViewInv'
  <2>1. Sound(view[h], resolver)
    BY <1>3, SoundViews DEF Client!Navigate, Client!TokenAtOffset
  <2>2. CASE Client!Navigate(h, d, q)
    <3> DEFINE found == [view[h] EXCEPT !.pos = q]
    <3>1. Sound(found, resolver) /\ (found.type = "Resolved" => Client!Coerce(found) = found)
      BY <2>1 DEF Sound, Kept, Client!Views, Client!Coerce
    <3>2. found.type = view[h].type
      BY <2>1 DEF Sound, Client!Views
    <3>3. Client!Put(d, found) /\ UNCHANGED <<resolver, status>>
      BY <2>2, <3>1, <3>2 DEF Client!Navigate
    <3> HIDE DEF found
    <3>4. QED
      BY <3>1, <3>3, StorePreserves
  <2>3. CASE Client!TokenAtOffset(h, d, q)
    <3> DEFINE found == [view[h] EXCEPT !.pos = q, !.owner = d]
    <3>1. Sound(found, resolver)
      BY <2>1 DEF Sound, Kept, Client!Views
    <3>2. Client!Put(d, found) /\ UNCHANGED <<resolver, status>>
      BY <2>3 DEF Client!TokenAtOffset
    <3> HIDE DEF found
    <3>3. QED
      BY <3>1, <3>2, StorePreserves
  <2>4. QED
    BY <1>3, <2>2, <2>3
<1>4. ASSUME NEW h \in Variables, NEW d \in Variables, Client!RootOf(h, d) \/ Client!Syntax(h, d)
      PROVE  ViewInv'
  <2>1. Sound(view[h], resolver)
    BY <1>4, SoundViews DEF Client!RootOf, Client!Syntax
  <2> DEFINE root == [view[h] EXCEPT !.pos = Client!Root, !.type = "Syntax", !.assigned = FALSE]
             plain == [view[h] EXCEPT !.type = "Syntax", !.assigned = FALSE]
  <2>2. Client!Root \in Client!Positions
    BY SyntaxTreeAssumption DEF SyntaxTreeAssumption, Client!Root, Client!Positions
  <2>3. /\ root \in Client!Views /\ root.type = "Syntax" /\ root.tree = view[h].tree
        /\ plain \in Client!Views /\ plain.type = "Syntax" /\ plain.tree = view[h].tree
    BY <2>1, <2>2 DEF Sound, Client!Views
  <2>4. Sound(root, resolver) /\ Sound(plain, resolver)
    BY <2>1, <2>3 DEF Sound, Kept
  <2>5. (Client!Put(d, root) \/ Client!Put(d, plain)) /\ UNCHANGED <<resolver, status>>
    BY <1>4 DEF Client!RootOf, Client!Syntax
  <2> HIDE DEF root, plain
  <2>6. QED
    BY <2>4, <2>5, StorePreserves
<1>5. ASSUME NEW h \in Variables, NEW d \in Variables, Client!TryResolved(h, d)
      PROVE  ViewInv'
  <2>1. Sound(view[h], resolver)
    BY <1>5, SoundViews DEF Client!TryResolved
  <2>2. Sound(Client!Coerce(view[h]), resolver)
    BY <1>5, <2>1 DEF Client!TryResolved, Client!ResolverOf, Sound, Kept, Client!Views, Client!Coerce
  <2>3. Client!Put(d, Client!Coerce(view[h])) /\ UNCHANGED <<resolver, status>>
    BY <1>5 DEF Client!TryResolved
  <2>4. QED
    BY <2>2, <2>3, StorePreserves
<1>6. ASSUME NEW h \in Variables, NEW d \in Variables, Client!Clone(h, d)
      PROVE  ViewInv'
  <2>1. Sound(view[h], resolver)
    BY <1>6, SoundViews DEF Client!Clone
  <2> DEFINE copy == [view[h] EXCEPT !.owner = d]
  <2>2. Sound(copy, resolver)
    BY <2>1 DEF Sound, Kept, Client!Views
  <2>3. Client!Put(d, copy) /\ UNCHANGED <<resolver, status>>
    BY <1>6 DEF Client!Clone
  <2> HIDE DEF copy
  <2>4. QED
    BY <2>2, <2>3, StorePreserves
<1>7. ASSUME NEW h \in Variables, NEW g \in Variables, Client!Assign(h, g)
      PROVE  ViewInv'
  <2>1. Sound(view[g], resolver)
    BY <1>7, SoundViews DEF Client!Assign, Client!Owned
  <2> DEFINE moved == [view[g] EXCEPT !.type = "Resolved", !.owner = h, !.assigned = TRUE]
  <2>2. moved \in Client!Views /\ moved.assigned /\ moved.tree = view[g].tree
    BY <2>1 DEF Sound, Client!Views
  <2>3. view' = [view EXCEPT ![h] = moved, ![g] = NoView] /\ resolver' = resolver /\ status' = status
        /\ g # h
    BY <1>7 DEF Client!Assign
  <2> HIDE DEF moved
  <2>4. view \in [Variables -> Client!Views \cup {NoView}]
    BY DEF ViewInv, Client!TypeOK
  <2>5. ASSUME NEW k \in Variables, view'[k] # NoView
        PROVE  Sound(view'[k], resolver)
    <3>1. CASE k = h
      BY <2>1, <2>2, <2>3, <2>4, <3>1 DEF Sound, Kept
    <3>2. CASE k # h
      <4>1. view'[k] = view[k] /\ Client!Used(k)
        BY <2>3, <2>4, <2>5, <3>2 DEF Client!Used
      <4>2. QED
        BY <4>1, SoundViews
    <3>3. QED
      BY <3>1, <3>2
  <2>6. view' \in [Variables -> Client!Views \cup {NoView}]
    BY <2>2, <2>3, <2>4
  <2>7. QED
    BY <2>3, <2>5, <2>6 DEF ViewInv, Client!TypeOK, Client!GuaranteedUnlessAssigned, Client!Used, Sound, Kept
<1>8. ASSUME NEW h \in Variables, Client!Drop(h)
      PROVE  ViewInv'
  <2>1. view' = [view EXCEPT ![h] = NoView] /\ resolver' = resolver /\ status' = status
    BY <1>8 DEF Client!Drop
  <2>2. view \in [Variables -> Client!Views \cup {NoView}]
    BY DEF ViewInv, Client!TypeOK
  <2>3. \A k \in Variables : view'[k] = view[k] \/ view'[k] = NoView
    BY <2>1, <2>2
  <2>4. view' \in [Variables -> Client!Views \cup {NoView}]
    BY <2>1, <2>2
  <2>5. QED
    BY <2>1, <2>3, <2>4 DEF ViewInv, Client!TypeOK, Client!GuaranteedUnlessAssigned, Client!Used
<1>9. ASSUME NEW h \in Variables, Client!ResolvedPanics(h) \/ Client!Read(h)
      PROVE  ViewInv'
  BY <1>9 DEF Client!ResolvedPanics, Client!Read, ViewInv, Client!TypeOK, Client!GuaranteedUnlessAssigned, Client!Used
<1>10. CASE UNCHANGED Client!vars
  BY <1>10 DEF Client!vars, ViewInv, Client!TypeOK, Client!GuaranteedUnlessAssigned, Client!Used
<1>11. QED
  BY <1>1, <1>2, <1>3, <1>4, <1>5, <1>6, <1>7, <1>8, <1>9, <1>10 DEF Client!Next

\* What try_resolved and new_root_with_resolver establish, no method takes back
\* except an assignment through DerefMut: for any trees and any client, a
\* resolved view that was not assigned is one of a tree with a resolver, so
\* reading its text does not panic.
THEOREM GuaranteeCorrect == Client!Spec => []Client!GuaranteedUnlessAssigned
<1>1. Client!Init => ViewInv
  BY DEF Client!Init, ViewInv, Client!TypeOK, Client!GuaranteedUnlessAssigned, Client!Used
<1>2. ViewInv /\ [Client!Next]_Client!vars => ViewInv'
  BY ClientPreserves
<1>3. ViewInv => Client!GuaranteedUnlessAssigned
  BY DEF ViewInv
<1>4. QED
  BY <1>1, <1>2, <1>3, PTL DEF Client!Spec
=============================================================================
