--------------------------- MODULE SharedInterner ---------------------------
(***************************************************************************)
(* An interner shared by several threads, as cstree adapts it from lasso   *)
(* (interning/lasso_compat): MultiThreadedTokenInterner behind an Arc, and *)
(* any lasso interner with keys of another size, whose keys are converted  *)
(* in both directions.                                                     *)
(*                                                                         *)
(* The interner itself is not in the repository.  ThreadedRodeo keeps a    *)
(* map from texts to keys, split into shards with one lock each, a map     *)
(* from keys to texts, and an atomic counter; keys count up from 0.  A     *)
(* Rodeo is the case of one thread.                                        *)
(*                                                                         *)
(* A TokenKey is a non-zero 32-bit number, one more than the u32 it stands *)
(* for; 0 is the niche of Option.                                          *)
(***************************************************************************)
EXTENDS Integers

CONSTANTS
    Threads,
    Texts,
    BadBytes,   \* bytes that are not UTF-8
    Shards,
    ShardOf,    \* the shard of each text
    U32,        \* 2^32
    KeySpaces   \* the numbers of keys the external key type may have

ASSUME SharedInternerAssumption ==
    /\ BadBytes \notin Texts
    /\ ShardOf \in [Texts -> Shards] /\ "free" \notin Threads
    /\ U32 \in Nat /\ U32 > 1
    /\ KeySpaces \subseteq Nat

VARIABLES
    space,    \* the number of keys of the external key type K
    map,      \* the keys of the texts, as published in the shards
    strings,  \* the texts of the keys
    counter,  \* the next key
    lock,     \* the thread that holds each shard, or Free
    call,     \* the call each thread is in
    answer    \* the last answer each thread got

vars == <<space, map, strings, counter, lock, call, answer>>

Free == "free"
Idle == [pc |-> "idle"]
NoAnswer == [of |-> "nothing"]

\* A table with one more entry.
With(table, x, v) == [y \in DOMAIN table \cup {x} |-> IF y = x THEN v ELSE table[y]]

----------------------------------------------------------------------------
(* Keys *)

TokenKeys == 1 .. U32 - 1
NoKey == 0

\* InternKey::try_from_u32: u32::MAX has no key.
TryFromU32(n) == IF n < U32 - 1 THEN n + 1 ELSE NoKey
IntoU32(k) == k - 1

\* Mutant: `as u32' instead of u32::try_from.
ToTokenKey_Truncated(raw) == TryFromU32(raw % U32)

\* The TokenKey for a key of the external interner, NoKey if there is none.
ToTokenKey(raw) == IF raw < U32 THEN TryFromU32(raw) ELSE NoKey

\* K::try_from_usize for the raw value of a TokenKey.
HasExternalKey(k) == IntoU32(k) < space

\* The answer of try_get_or_intern once the external interner has a key: an
\* error if the key cannot be converted.
AnswerIntern(x, raw) ==
    IF ToTokenKey(raw) = NoKey THEN [of |-> "refuse", text |-> x]
    ELSE [of |-> "intern", text |-> x, key |-> ToTokenKey(raw)]

----------------------------------------------------------------------------
Init ==
    /\ space \in KeySpaces
    /\ map = <<>> /\ strings = <<>> /\ counter = 0
    /\ lock = [s \in Shards |-> Free]
    /\ call = [t \in Threads |-> Idle]
    /\ answer = [t \in Threads |-> NoAnswer]

\* A thread calls one of the methods; get_or_intern and resolve panic where
\* their try_ variants fail, and so do the _bytes variants of both for bytes
\* that are not UTF-8.
Intern(t, x, try) ==
    /\ call[t] = Idle
    /\ call' = [call EXCEPT ![t] = [pc |-> "lookup", text |-> x, try |-> try, raw |-> 0]]
    /\ answer' = [answer EXCEPT ![t] = NoAnswer]
    /\ UNCHANGED <<space, map, strings, counter, lock>>

\* Mutant: tries again where the interner has no key for the text.
Return_Retry(t, a) ==
    IF a.of = "refuse" THEN
        /\ call' = [call EXCEPT ![t].pc = "lookup"]
        /\ UNCHANGED answer
    ELSE
        /\ call' = [call EXCEPT ![t] = Idle]
        /\ answer' = [answer EXCEPT ![t] = a]

\* The end of a call: its answer, or a panic in place of a failure.
Return(t, a) ==
    /\ call' = [call EXCEPT ![t] = Idle]
    /\ answer' = [answer EXCEPT ![t] =
                     IF call[t].try \/ a.of \in {"intern", "resolve"} THEN a ELSE NoAnswer]

At(t, pc) == call[t].pc = pc
GoTo(t, pc) == call' = [call EXCEPT ![t].pc = pc] /\ UNCHANGED answer

Decode(t) ==
    /\ At(t, "lookup") /\ call[t].text = BadBytes
    /\ call' = [call EXCEPT ![t] = Idle]
    /\ UNCHANGED <<space, map, strings, counter, lock, answer>>

\* A first lookup without keeping the shard locked.
Lookup(t) ==
    LET x == call[t].text IN
    /\ At(t, "lookup") /\ x # BadBytes
    /\ \/ x \in DOMAIN map /\ Return(t, AnswerIntern(x, map[x]))
       \/ x \notin DOMAIN map /\ GoTo(t, "lock")
    /\ UNCHANGED <<space, map, strings, counter, lock>>

\* Locks the shard and looks again: another thread may have been faster.
Lock(t) ==
    LET x == call[t].text
        s == ShardOf[x]
    IN  /\ At(t, "lock") /\ lock[s] = Free
        /\ \/ /\ x \in DOMAIN map
              /\ Return(t, AnswerIntern(x, map[x]))
              /\ UNCHANGED lock
           \/ /\ x \notin DOMAIN map
              /\ GoTo(t, "allocate")
              /\ lock' = [lock EXCEPT ![s] = t]
        /\ UNCHANGED <<space, map, strings, counter>>

\* Takes the next key of K; there may be none.  The counter goes on counting
\* behind the last key; the model stops it there.
Allocate(t) ==
    LET x == call[t].text IN
    /\ At(t, "allocate")
    /\ \/ /\ counter < space
          /\ counter' = counter + 1
          /\ call' = [call EXCEPT ![t] = [@ EXCEPT !.pc = "store", !.raw = counter]]
          /\ UNCHANGED <<lock, answer>>
       \/ /\ counter >= space
          /\ Return(t, [of |-> "refuse", text |-> x])
          /\ lock' = [lock EXCEPT ![ShardOf[x]] = Free]
          /\ UNCHANGED counter
    /\ UNCHANGED <<space, map, strings>>

Store(t) ==
    /\ At(t, "store")
    /\ strings' = With(strings, call[t].raw, call[t].text)
    /\ GoTo(t, "publish")
    /\ UNCHANGED <<space, map, counter, lock>>

Publish(t) ==
    LET x == call[t].text IN
    /\ At(t, "publish")
    /\ map' = With(map, x, call[t].raw)
    /\ lock' = [lock EXCEPT ![ShardOf[x]] = Free]
    /\ Return(t, AnswerIntern(x, call[t].raw))
    /\ UNCHANGED <<space, strings, counter>>

\* try_resolve, which fails if the key has no counterpart in K or K no text;
\* resolve panics then.  Any key: clients may hold keys of another interner.
Resolve(t, k, try) ==
    LET found == HasExternalKey(k) /\ IntoU32(k) \in DOMAIN strings IN
    /\ call[t] = Idle
    /\ answer' = [answer EXCEPT ![t] =
                     IF found THEN [of |-> "resolve", key |-> k, text |-> strings[IntoU32(k)]]
                     ELSE IF try THEN [of |-> "unknown", key |-> k] ELSE NoAnswer]
    /\ UNCHANGED <<space, map, strings, counter, lock, call>>

Step(t) == Decode(t) \/ Lookup(t) \/ Lock(t) \/ Allocate(t) \/ Store(t) \/ Publish(t)

Next ==
    \E t \in Threads :
        \/ Step(t)
        \/ \E try \in BOOLEAN :
               \/ \E x \in Texts \cup {BadBytes} : Intern(t, x, try)
               \/ \E k \in TokenKeys : Resolve(t, k, try)

\* Threads that can run do run; a lock is not promised to anyone in particular.
Spec == Init /\ [][Next]_vars /\ \A t \in Threads : WF_vars(Step(t))

----------------------------------------------------------------------------
(* Properties *)

\* The assignment the clients see: the texts whose key has a TokenKey.
Known ==
    LET raws == {raw \in DOMAIN strings : raw \in 0 .. U32 - 2} IN
    [x \in {strings[raw] : raw \in raws} |->
        (CHOOSE raw \in raws : strings[raw] = x) + 1]

Contract == INSTANCE Interner WITH Clients <- Threads, known <- Known

\* Whatever the interleaving, threads that intern the same text get the same
\* key, no two texts get one key, also where the external key is too large for
\* a TokenKey or the key space is used up, a refused text never got a key, and
\* a key leads back to its text for ever.
ImplementsInterner == Contract!ISpec

\* Every call returns as long as there are keys left.  (A thread that waits
\* for a shard can be overtaken by others that find the key space used up, as
\* often as they try again: nothing in the code bounds that.)
CallsReturn == \A t \in Threads : call[t] # Idle ~> (call[t] = Idle \/ counter >= space)
=============================================================================
