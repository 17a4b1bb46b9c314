----------------------------- MODULE SharedTree -----------------------------
(***************************************************************************)
(* What a shared syntax tree promises to the threads that use it: the tree *)
(* is there for as long as anybody has a handle; everybody who asks for a  *)
(* child gets the same child, as if asking were one step; and it is freed  *)
(* when, and only when, the last handle is gone.                           *)
(*                                                                         *)
(* There are no counts, locks, boxes or races here.                        *)
(***************************************************************************)
EXTENDS Integers

CONSTANTS
    Threads, Handles, NoOwner, Creator,
    Size, Parent,  \* the shape of the tree; 1 is its root
    Elements       \* identities of elements, as a set for every position

VARIABLES
    owner,   \* the thread that owns each handle
    lender,  \* the thread whose handle a thread works with by reference
    child,   \* the element at each position below the root, once it is known
    ref,     \* the element each thread refers to, or the position it asks for
    phase    \* "live", "falling" after the last handle, "freed"

vars == <<owner, lender, child, ref, phase>>

Root == 1
Slots == 2 .. Size
None == <<>>
NoRef == [at |-> 0, is |-> None]
RootRef == [at |-> Root, is |-> <<Root, Creator>>]

Known(p) == p = Root \/ child[p] # None
RefTo(p) == IF p = Root THEN RootRef ELSE [at |-> p, is |-> child[p]]

Owned(t) == {h \in Handles : owner[h] = t}
Nobody == \A h \in Handles : owner[h] = NoOwner
Lends(t) == \E u \in Threads : lender[u] = t
CanUse(t) == Owned(t) # {} \/ lender[t] # NoOwner
Asking(t) == ref[t] # NoRef /\ ref[t].is = None
Movable(t, h) == owner[h] = t /\ (Lends(t) => Owned(t) # {h})

Init ==
    /\ \E h \in Handles : owner = [g \in Handles |-> IF g = h THEN Creator ELSE NoOwner]
    /\ lender = [t \in Threads |-> NoOwner]
    /\ child = [p \in Slots |-> None]
    /\ ref = [t \in Threads |-> IF t = Creator THEN RootRef ELSE NoRef]
    /\ phase = "live"

\* References after a change of who can use the tree: they stay, end, or begin
\* at an element that is there.
References ==
    \A t \in Threads :
        IF ~ CanUse(t)' THEN ref'[t] = NoRef
        ELSE IF CanUse(t) THEN ref'[t] = ref[t]
        ELSE \E p \in Slots \cup {Root} : Known(p) /\ ref'[t] = RefTo(p)

Clone(t, h) ==
    /\ CanUse(t) /\ ~ Asking(t) /\ owner[h] = NoOwner
    /\ owner' = [owner EXCEPT ![h] = t]
    /\ UNCHANGED <<lender, child, ref, phase>>

Send(t, u, h) ==
    /\ Movable(t, h) /\ ~ Asking(t)
    /\ owner' = [owner EXCEPT ![h] = u] /\ UNCHANGED <<lender, child, phase>>
    /\ References

Borrow(t, u) ==
    /\ lender[t] = NoOwner /\ Owned(u) # {} /\ ~ Asking(t)
    /\ lender' = [lender EXCEPT ![t] = u] /\ UNCHANGED <<owner, child, phase>>
    /\ References

EndBorrow(t) ==
    /\ lender[t] # NoOwner /\ ~ Asking(t)
    /\ lender' = [lender EXCEPT ![t] = NoOwner] /\ UNCHANGED <<owner, child, phase>>
    /\ References

\* The last handle takes all elements with it.
Drop(t, h) ==
    /\ Movable(t, h) /\ ~ Asking(t)
    /\ owner' = [owner EXCEPT ![h] = NoOwner] /\ UNCHANGED lender
    /\ References
    /\ \/ ~ Nobody' /\ UNCHANGED <<child, phase>>
       \/ Nobody' /\ child' = [p \in Slots |-> None] /\ phase' = "falling"

\* A thread asks for a child of an element that is there.
Ask(t, p) ==
    /\ CanUse(t) /\ ~ Asking(t) /\ Known(Parent[p])
    /\ ref' = [ref EXCEPT ![t] = [at |-> p, is |-> None]]
    /\ UNCHANGED <<owner, lender, child, phase>>

\* A child somebody asks for comes into being, once.
Fill(p) ==
    /\ child[p] = None /\ \E t \in Threads : Asking(t) /\ ref[t].at = p
    /\ \E e \in Elements[p] : child' = [child EXCEPT ![p] = e]
    /\ UNCHANGED <<owner, lender, ref, phase>>

\* The answer, at once or later.
Answer(t, p) ==
    /\ CanUse(t) /\ Known(p)
    /\ Asking(t) => ref[t].at = p
    /\ ref' = [ref EXCEPT ![t] = RefTo(p)]
    /\ UNCHANGED <<owner, lender, child, phase>>

Free ==
    /\ phase = "falling" /\ phase' = "freed"
    /\ UNCHANGED <<owner, lender, child, ref>>

Next ==
    \/ \E t \in Threads, h \in Handles :
           Clone(t, h) \/ Drop(t, h) \/ \E u \in Threads : Send(t, u, h)
    \/ \E t \in Threads : EndBorrow(t) \/ \E u \in Threads : Borrow(t, u)
    \/ \E p \in Slots : Fill(p) \/ \E t \in Threads : Ask(t, p) \/ Answer(t, p)
    \/ Free

TSpec == Init /\ [][Next]_vars
=============================================================================
