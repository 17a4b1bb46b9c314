------------------------- MODULE SharedInternerProofs -------------------------
(***************************************************************************)
(* The shared interner implements the abstract one, for any number of      *)
(* threads, texts and shards, any width of a TokenKey and any number of    *)
(* external keys.                                                          *)
(***************************************************************************)
EXTENDS SharedInterner, TLAPS

----------------------------------------------------------------------------
(* The invariant *)

Calls == [pc : {"lookup", "lock", "allocate", "store", "publish"},
          text : Texts \cup {BadBytes}, try : BOOLEAN, raw : Nat]

TypeOK ==
    /\ space \in Nat /\ counter \in Nat /\ counter <= space
    /\ lock \in [Shards -> Threads \cup {Free}]
    /\ call \in [Threads -> {Idle} \cup Calls]

\* A thread between taking and releasing the lock of a shard adds a text of
\* that shard that was not there.
LocksOK ==
    \A t \in Threads :
        /\ call[t].pc \in {"lock", "allocate", "store", "publish"} => call[t].text \in Texts
        /\ call[t].pc \in {"allocate", "store", "publish"} =>
               /\ lock[ShardOf[call[t].text]] = t
               /\ call[t].text \notin DOMAIN map

\* A key is taken by one thread and then has its text.
KeysOK ==
    /\ \A t \in Threads : At(t, "store") =>
           call[t].raw < counter /\ call[t].raw \notin DOMAIN strings
    /\ \A t \in Threads : At(t, "publish") =>
           call[t].raw \in DOMAIN strings /\ strings[call[t].raw] = call[t].text
    /\ \A t, u \in Threads :
           At(t, "store") /\ At(u, "store") /\ call[t].raw = call[u].raw => t = u

\* The two tables agree, except for texts that are about to be published.
TablesOK ==
    /\ DOMAIN strings \subseteq 0 .. counter - 1
    /\ \A raw \in DOMAIN strings : strings[raw] \in Texts
    /\ \A x \in DOMAIN map : map[x] \in DOMAIN strings /\ strings[map[x]] = x
    /\ \A raw \in DOMAIN strings :
           \/ strings[raw] \in DOMAIN map
           \/ \E t \in Threads : At(t, "publish") /\ call[t].text = strings[raw]

\* No text has two keys.
Injective == \A r, s \in DOMAIN strings : strings[r] = strings[s] => r = s

Inv == TypeOK /\ LocksOK /\ KeysOK /\ TablesOK /\ Injective

----------------------------------------------------------------------------
(* What the invariant says about a thread *)

LEMMA CallType ==
    ASSUME TypeOK, NEW t \in Threads
    PROVE  call[t] = Idle \/ call[t] \in Calls
BY DEF TypeOK

\* The text of a thread that has locked its shard but stored nothing has no key.
LEMMA TextIsNew ==
    ASSUME Inv, NEW t \in Threads, At(t, "allocate") \/ At(t, "store")
    PROVE  \A raw \in DOMAIN strings : strings[raw] # call[t].text
<1> SUFFICES ASSUME NEW raw \in DOMAIN strings, strings[raw] = call[t].text
             PROVE  FALSE
  OBVIOUS
<1>1. lock[ShardOf[call[t].text]] = t /\ call[t].text \notin DOMAIN map
  BY DEF Inv, LocksOK, At
<1>2. PICK u \in Threads : At(u, "publish") /\ call[u].text = call[t].text
  BY <1>1 DEF Inv, TablesOK
<1>3. lock[ShardOf[call[u].text]] = u
  BY <1>2 DEF Inv, LocksOK, At
<1> QED
  BY <1>1, <1>2, <1>3 DEF At

----------------------------------------------------------------------------
(* The invariant is inductive. *)

LEMMA InitInv == Init => Inv
<1> SUFFICES ASSUME Init PROVE Inv
  OBVIOUS
<1>1. DOMAIN map = {} /\ DOMAIN strings = {}
  BY DEF Init
<1>2. \A t \in Threads : call[t] = Idle
  BY DEF Init
<1>3. TypeOK
  BY SharedInternerAssumption DEF Init, TypeOK
<1>4. LocksOK /\ KeysOK
  BY <1>2 DEF LocksOK, KeysOK, At, Idle
<1> QED
  BY <1>1, <1>3, <1>4 DEF Inv, TablesOK, Injective

\* A call that leaves the tables alone, ends where no lock is held and is
\* replaced by one that holds none.
LEMMA CallChangesInv ==
    ASSUME Inv, NEW t \in Threads, NEW c \in {Idle} \cup Calls,
           call[t].pc \notin {"allocate", "store", "publish"},
           c.pc \notin {"allocate", "store", "publish"},
           c.pc = "lock" => c.text \in Texts,
           call' = [call EXCEPT ![t] = c],
           UNCHANGED <<space, map, strings, counter, lock>>
    PROVE  Inv'
<1>1. TypeOK'
  BY DEF Inv, TypeOK
<1>2. \A u \in Threads : u # t => call'[u] = call[u]
  BY DEF Inv, TypeOK
<1>3. call'[t] = c
  BY DEF Inv, TypeOK
<1>4. LocksOK'
  BY <1>2, <1>3 DEF Inv, LocksOK
<1>5. KeysOK'
  BY <1>2, <1>3 DEF Inv, KeysOK, At
<1>6. TablesOK'
  BY <1>2, <1>3 DEF Inv, TablesOK, At
<1> QED
  BY <1>1, <1>4, <1>5, <1>6 DEF Inv, Injective

LEMMA InternInv ==
    ASSUME Inv, NEW t \in Threads, NEW x \in Texts \cup {BadBytes}, NEW try \in BOOLEAN,
           Intern(t, x, try)
    PROVE  Inv'
<1> DEFINE c == [pc |-> "lookup", text |-> x, try |-> try, raw |-> 0]
<1>1. c \in Calls /\ c.pc = "lookup"
  BY DEF Calls
<1>2. call[t].pc = "idle"
  BY DEF Intern, Idle
<1> QED
  BY <1>1, <1>2, CallChangesInv DEF Intern

LEMMA IdleInv ==
    ASSUME Inv, NEW t \in Threads, At(t, "lookup") \/ At(t, "lock"),
           call' = [call EXCEPT ![t] = Idle],
           UNCHANGED <<space, map, strings, counter, lock>>
    PROVE  Inv'
BY CallChangesInv DEF At, Idle

LEMMA LookupInv ==
    ASSUME Inv, NEW t \in Threads, Lookup(t)
    PROVE  Inv'
<1>1. CASE call' = [call EXCEPT ![t] = Idle]
  BY <1>1, IdleInv DEF Lookup
<1>2. CASE GoTo(t, "lock")
  <2>1. call[t] \in Calls
    BY CallType DEF Lookup, At, Idle, Inv
  <2>2. PICK c : c = [call[t] EXCEPT !.pc = "lock"]
    OBVIOUS
  <2>3. c \in Calls /\ c.pc = "lock" /\ c.text \in Texts
    BY <2>1, <2>2 DEF Calls, Lookup
  <2>4. call' = [call EXCEPT ![t] = c]
    BY <1>2, <2>2 DEF GoTo, Inv, TypeOK
  <2> QED
    BY <2>3, <2>4, CallChangesInv DEF Lookup, At
<1> QED
  BY <1>1, <1>2 DEF Lookup, Return

LEMMA LockInv ==
    ASSUME Inv, NEW t \in Threads, Lock(t)
    PROVE  Inv'
<1>1. CASE call' = [call EXCEPT ![t] = Idle] /\ UNCHANGED lock
  BY <1>1, IdleInv DEF Lock
<1>2. CASE /\ call[t].text \notin DOMAIN map
           /\ GoTo(t, "allocate")
           /\ lock' = [lock EXCEPT ![ShardOf[call[t].text]] = t]
  <2>1. PICK c, x, s : c = [call[t] EXCEPT !.pc = "allocate"] /\ x = call[t].text /\ s = ShardOf[x]
    OBVIOUS
  <2>2. x \in Texts /\ s \in Shards /\ lock[s] = Free /\ call[t].pc = "lock"
    BY <2>1, SharedInternerAssumption DEF Lock, At, Inv, LocksOK
  <2>3. c \in Calls /\ c.pc = "allocate" /\ c.text = x
    BY <2>1, <2>2, CallType DEF Calls, Idle, Inv
  <2>4. /\ call'[t] = c /\ \A u \in Threads : u # t => call'[u] = call[u]
        /\ lock'[s] = t /\ \A r \in Shards : r # s => lock'[r] = lock[r]
    BY <1>2, <2>1, <2>2 DEF GoTo, Inv, TypeOK
  <2>5. UNCHANGED <<space, map, strings, counter>>
    BY DEF Lock
  <2>6. TypeOK'
    BY <1>2, <2>1, <2>2, <2>3, <2>5 DEF GoTo, Inv, TypeOK
  <2>7. LocksOK'
    <3>1. ASSUME NEW u \in Threads, u # t, call[u].pc \in {"allocate", "store", "publish"}
          PROVE  lock'[ShardOf[call[u].text]] = u
      <4>1. lock[ShardOf[call[u].text]] = u /\ ShardOf[call[u].text] \in Shards
        BY <3>1, SharedInternerAssumption DEF Inv, LocksOK
      <4>2. ShardOf[call[u].text] # s
        BY <2>2, <4>1, SharedInternerAssumption DEF Free
      <4> QED
        BY <2>4, <4>1, <4>2
    <3>2. ASSUME NEW u \in Threads, u # t
          PROVE  /\ (call'[u].pc \in {"lock", "allocate", "store", "publish"} =>
                         call'[u].text \in Texts)
                 /\ (call'[u].pc \in {"allocate", "store", "publish"} =>
                         /\ lock'[ShardOf[call'[u].text]] = u
                         /\ call'[u].text \notin DOMAIN map')
      BY <2>4, <2>5, <3>1, <3>2 DEF Inv, LocksOK
    <3> QED
      BY <1>2, <2>1, <2>2, <2>3, <2>4, <2>5, <3>2 DEF LocksOK
  <2>8. KeysOK' /\ TablesOK' /\ Injective'
    <3>1. \A u \in Threads : (At(u, "store")' <=> At(u, "store")) /\ (At(u, "publish")' <=> At(u, "publish"))
      BY <2>2, <2>3, <2>4 DEF At
    <3>2. \A u \in Threads : At(u, "store") \/ At(u, "publish") => call'[u] = call[u]
      BY <2>2, <2>4 DEF At
    <3>3. KeysOK'
      BY <2>5, <3>1, <3>2 DEF Inv, KeysOK
    <3>4. TablesOK'
      BY <2>5, <3>1, <3>2 DEF Inv, TablesOK
    <3> QED
      BY <2>5, <3>3, <3>4 DEF Inv, Injective
  <2> QED
    BY <2>6, <2>7, <2>8 DEF Inv
<1> QED
  BY <1>1, <1>2 DEF Lock, Return

\* The shard of a text that a thread is adding is unlocked, and the thread is
\* not in a call any more.
LEMMA UnlockLocksOK ==
    ASSUME Inv, NEW t \in Threads, NEW x, x = call[t].text,
           call[t].pc \in {"allocate", "publish"},
           call' = [call EXCEPT ![t] = Idle],
           lock' = [lock EXCEPT ![ShardOf[x]] = Free],
           DOMAIN map' \subseteq DOMAIN map \cup {x}
    PROVE  LocksOK' /\ call'[t] = Idle /\ \A u \in Threads : u # t => call'[u] = call[u]
<1>1. x \in Texts /\ ShardOf[x] \in Shards /\ lock[ShardOf[x]] = t
  BY SharedInternerAssumption DEF Inv, LocksOK
<1>2. /\ call'[t] = Idle /\ \A u \in Threads : u # t => call'[u] = call[u]
      /\ \A r \in Shards : r # ShardOf[x] => lock'[r] = lock[r]
  BY <1>1 DEF Inv, TypeOK
<1>3. ASSUME NEW u \in Threads, u # t, call[u].pc \in {"allocate", "store", "publish"}
      PROVE  lock'[ShardOf[call[u].text]] = u /\ call[u].text \notin DOMAIN map'
  <2>1. /\ lock[ShardOf[call[u].text]] = u /\ ShardOf[call[u].text] \in Shards
        /\ call[u].text \notin DOMAIN map
    BY <1>3, SharedInternerAssumption DEF Inv, LocksOK
  <2>2. ShardOf[call[u].text] # ShardOf[x]
    BY <1>1, <1>3, <2>1
  <2> QED
    BY <1>2, <2>1, <2>2
<1>4. ASSUME NEW u \in Threads
      PROVE  /\ (call'[u].pc \in {"lock", "allocate", "store", "publish"} =>
                     call'[u].text \in Texts)
             /\ (call'[u].pc \in {"allocate", "store", "publish"} =>
                     /\ lock'[ShardOf[call'[u].text]] = u
                     /\ call'[u].text \notin DOMAIN map')
  <2>1. CASE u = t
    BY <1>2, <2>1 DEF Idle
  <2>2. CASE u # t
    BY <1>2, <1>3, <2>2 DEF Inv, LocksOK
  <2> QED
    BY <2>1, <2>2
<1> QED
  BY <1>2, <1>4 DEF LocksOK

LEMMA AllocateInv ==
    ASSUME Inv, NEW t \in Threads, Allocate(t)
    PROVE  Inv'
<1>0. call[t].pc = "allocate" /\ call[t] \in Calls
  BY CallType DEF Allocate, At, Idle, Inv
<1>1. CASE counter < space
  <2>1. PICK c : c = [call[t] EXCEPT !.pc = "store", !.raw = counter]
    OBVIOUS
  <2>2. /\ counter' = counter + 1
        /\ call' = [call EXCEPT ![t] = c]
        /\ UNCHANGED <<space, map, strings, lock>>
    BY <1>1, <2>1 DEF Allocate, Inv, TypeOK
  <2>3. c \in Calls /\ c.pc = "store" /\ c.raw = counter /\ c.text = call[t].text
    BY <1>0, <2>1 DEF Calls, Inv, TypeOK
  <2>4. call'[t] = c /\ \A u \in Threads : u # t => call'[u] = call[u]
    BY <2>2 DEF Inv, TypeOK
  <2>5. TypeOK'
    BY <1>1, <2>2, <2>3 DEF Inv, TypeOK
  <2>6. LocksOK'
    BY <1>0, <2>2, <2>3, <2>4 DEF Inv, LocksOK
  <2>7. \A raw \in DOMAIN strings : raw \in Nat /\ raw < counter
    BY DEF Inv, TablesOK, TypeOK
  <2>8. \A u \in Threads : u # t => (At(u, "store")' <=> At(u, "store"))
                                /\ (At(u, "publish")' <=> At(u, "publish"))
    BY <2>4 DEF At
  <2>9. At(t, "store")' /\ ~ At(t, "publish")' /\ ~ At(t, "publish")
    BY <1>0, <2>3, <2>4 DEF At
  <2>10. KeysOK'
    <3>0. counter \in Nat /\ \A u \in Threads : At(u, "store") => call[u].raw \in Nat
      BY CallType DEF Inv, TypeOK, At, Calls, Idle
    <3>1. ASSUME NEW u \in Threads, At(u, "store")'
          PROVE  call'[u].raw < counter' /\ call'[u].raw \notin DOMAIN strings'
      <4>1. CASE u = t
        BY <2>2, <2>3, <2>4, <2>7, <3>0, <4>1
      <4>2. CASE u # t
        <5>1. call[u].raw < counter /\ call[u].raw \notin DOMAIN strings /\ call[u].raw \in Nat
          BY <2>8, <3>0, <3>1, <4>2 DEF Inv, KeysOK
        <5> QED
          BY <2>2, <2>4, <3>0, <4>2, <5>1
      <4> QED
        BY <4>1, <4>2
    <3>2. ASSUME NEW u \in Threads, At(u, "publish")'
          PROVE  call'[u].raw \in DOMAIN strings' /\ strings'[call'[u].raw] = call'[u].text
      BY <2>2, <2>4, <2>8, <2>9, <3>2 DEF Inv, KeysOK
    <3>3. ASSUME NEW u \in Threads, NEW v \in Threads, At(u, "store")', At(v, "store")',
                 call'[u].raw = call'[v].raw
          PROVE  u = v
      <4>1. \A w \in Threads : w # t /\ At(w, "store")' => call'[w].raw # counter
        BY <2>4, <2>8, <3>0 DEF Inv, KeysOK
      <4>2. call'[t].raw = counter
        BY <2>3, <2>4
      <4>3. CASE u # t /\ v # t
        BY <2>4, <2>8, <3>3, <4>3 DEF Inv, KeysOK
      <4> QED
        BY <3>3, <4>1, <4>2, <4>3
    <3> QED
      BY <3>1, <3>2, <3>3 DEF KeysOK
  <2>11. TablesOK'
    <3>1. 0 .. counter - 1 \subseteq 0 .. counter' - 1
      BY <2>2 DEF Inv, TypeOK
    <3>2. \A u \in Threads : At(u, "publish") => At(u, "publish")' /\ call'[u] = call[u]
      BY <2>4, <2>8, <2>9
    <3> QED
      BY <2>2, <3>1, <3>2 DEF Inv, TablesOK
  <2> QED
    BY <2>2, <2>5, <2>6, <2>10, <2>11 DEF Inv, Injective
<1>2. CASE counter >= space
  <2>1. /\ call' = [call EXCEPT ![t] = Idle]
        /\ lock' = [lock EXCEPT ![ShardOf[call[t].text]] = Free]
        /\ UNCHANGED <<space, map, strings, counter>>
    BY <1>2 DEF Allocate, Return, Inv, TypeOK
  <2>2. PICK x : x = call[t].text
    OBVIOUS
  <2>3. LocksOK' /\ call'[t] = Idle /\ \A u \in Threads : u # t => call'[u] = call[u]
    BY <1>0, <2>1, <2>2, UnlockLocksOK
  <2>4. TypeOK'
    BY <2>1 DEF Inv, TypeOK
  <2>5. KeysOK'
    BY <2>1, <2>3 DEF Inv, KeysOK, At, Idle
  <2>6. TablesOK'
    BY <1>0, <2>1, <2>3 DEF Inv, TablesOK, At, Idle
  <2> QED
    BY <2>1, <2>3, <2>4, <2>5, <2>6 DEF Inv, Injective
<1> QED
  BY <1>1, <1>2 DEF Inv, TypeOK

LEMMA StoreInv ==
    ASSUME Inv, NEW t \in Threads, Store(t)
    PROVE  Inv'
<1>1. call[t].pc = "store" /\ call[t] \in Calls
  BY CallType DEF Store, At, Idle, Inv
<1>2. PICK c, raw, x : c = [call[t] EXCEPT !.pc = "publish"] /\ raw = call[t].raw /\ x = call[t].text
  OBVIOUS
<1>3. /\ c \in Calls /\ c.pc = "publish" /\ c.raw = raw /\ c.text = x
      /\ raw \in Nat
  BY <1>1, <1>2 DEF Calls
<1>4. /\ call' = [call EXCEPT ![t] = c] /\ strings' = With(strings, raw, x)
      /\ UNCHANGED <<space, map, counter, lock>>
  BY <1>2 DEF Store, GoTo, Inv, TypeOK
<1>5. call'[t] = c /\ \A u \in Threads : u # t => call'[u] = call[u]
  BY <1>4 DEF Inv, TypeOK
<1>6. raw < counter /\ raw \notin DOMAIN strings /\ x \in Texts
  BY <1>1, <1>2 DEF Inv, KeysOK, LocksOK, At
<1>7. /\ DOMAIN strings' = DOMAIN strings \cup {raw} /\ strings'[raw] = x
      /\ \A r \in DOMAIN strings : strings'[r] = strings[r]
  BY <1>4, <1>6 DEF With
<1>8. TypeOK'
  BY <1>3, <1>4 DEF Inv, TypeOK
<1>9. LocksOK'
  BY <1>1, <1>2, <1>3, <1>4, <1>5 DEF Inv, LocksOK
<1>10. KeysOK'
  <2>1. ASSUME NEW u \in Threads, At(u, "store")'
        PROVE  u # t /\ At(u, "store") /\ call'[u] = call[u] /\ call[u].raw # raw
    <3>1. u # t /\ At(u, "store") /\ call'[u] = call[u]
      BY <1>3, <1>5, <2>1 DEF At
    <3>2. At(t, "store")
      BY <1>1 DEF At
    <3> QED
      BY <1>2, <3>1, <3>2 DEF Inv, KeysOK
  <2>2. ASSUME NEW u \in Threads, At(u, "publish")'
        PROVE  call'[u].raw \in DOMAIN strings' /\ strings'[call'[u].raw] = call'[u].text
    BY <1>3, <1>5, <1>7, <2>2 DEF Inv, KeysOK, At
  <2> QED
    BY <1>4, <1>7, <2>1, <2>2 DEF Inv, KeysOK
<1>11. TablesOK'
  <2>1. \A u \in Threads : At(u, "publish") => At(u, "publish")' /\ call'[u] = call[u]
    BY <1>1, <1>5 DEF At
  <2>2. At(t, "publish")' /\ call'[t].text = x
    BY <1>3, <1>5 DEF At
  <2>3. raw \in 0 .. counter - 1
    BY <1>3, <1>6 DEF Inv, TypeOK
  <2> QED
    BY <1>4, <1>6, <1>7, <2>1, <2>2, <2>3 DEF Inv, TablesOK
<1>12. Injective'
  <2>1. \A r \in DOMAIN strings : strings[r] # x
    BY <1>1, <1>2, TextIsNew DEF At
  <2> QED
    BY <1>7, <2>1 DEF Inv, Injective
<1> QED
  BY <1>8, <1>9, <1>10, <1>11, <1>12 DEF Inv

LEMMA PublishInv ==
    ASSUME Inv, NEW t \in Threads, Publish(t)
    PROVE  Inv'
<1>1. call[t].pc = "publish"
  BY DEF Publish, At
<1>2. PICK x, raw : x = call[t].text /\ raw = call[t].raw
  OBVIOUS
<1>3. /\ call' = [call EXCEPT ![t] = Idle]
      /\ lock' = [lock EXCEPT ![ShardOf[x]] = Free]
      /\ map' = With(map, x, raw)
      /\ UNCHANGED <<space, strings, counter>>
  BY <1>2 DEF Publish, Return
<1>4. /\ DOMAIN map' = DOMAIN map \cup {x} /\ map'[x] = raw
      /\ \A y \in DOMAIN map : y # x => map'[y] = map[y]
  BY <1>3 DEF With
<1>5. LocksOK' /\ call'[t] = Idle /\ \A u \in Threads : u # t => call'[u] = call[u]
  BY <1>1, <1>2, <1>3, <1>4, UnlockLocksOK
<1>6. TypeOK'
  BY <1>3 DEF Inv, TypeOK
<1>7. KeysOK'
  BY <1>3, <1>5 DEF Inv, KeysOK, At, Idle
<1>8. TablesOK'
  <2>1. raw \in DOMAIN strings /\ strings[raw] = x
    BY <1>1, <1>2 DEF Inv, KeysOK, At
  <2>2. ASSUME NEW y \in DOMAIN map'
        PROVE  map'[y] \in DOMAIN strings /\ strings[map'[y]] = y
    BY <1>4, <2>1 DEF Inv, TablesOK
  <2>3. ASSUME NEW r \in DOMAIN strings
        PROVE  \/ strings[r] \in DOMAIN map'
               \/ \E u \in Threads : At(u, "publish")' /\ call'[u].text = strings[r]
    BY <1>2, <1>4, <1>5 DEF Inv, TablesOK, At
  <2> QED
    BY <1>3, <2>2, <2>3 DEF Inv, TablesOK
<1> QED
  BY <1>3, <1>5, <1>6, <1>7, <1>8 DEF Inv, Injective

LEMMA NextInv == Inv /\ [Next]_vars => Inv'
<1> SUFFICES ASSUME Inv, [Next]_vars PROVE Inv'
  OBVIOUS
<1>1. ASSUME NEW t \in Threads, Decode(t) PROVE Inv'
  BY <1>1, IdleInv DEF Decode
<1>2. ASSUME NEW t \in Threads, Step(t) PROVE Inv'
  BY <1>1, <1>2, LookupInv, LockInv, AllocateInv, StoreInv, PublishInv DEF Step
<1>3. ASSUME NEW t \in Threads, NEW try \in BOOLEAN, NEW k \in TokenKeys, Resolve(t, k, try)
      PROVE  Inv'
  BY <1>3 DEF Resolve, Inv, TypeOK, LocksOK, KeysOK, TablesOK, Injective, At
<1>4. CASE UNCHANGED vars
  BY <1>4 DEF vars, Inv, TypeOK, LocksOK, KeysOK, TablesOK, Injective, At
<1> QED
  BY <1>2, <1>3, <1>4, InternInv DEF Next

LEMMA Invariance == Spec => []Inv
<1>1. Init => Inv
  BY InitInv
<1>2. Inv /\ [Next]_vars => Inv'
  BY NextInv
<1> QED
  BY <1>1, <1>2, PTL DEF Spec

----------------------------------------------------------------------------
(* The refinement *)

\* The keys that have a TokenKey.
Convertible == {raw \in DOMAIN strings : raw \in 0 .. U32 - 2}

\* The assignment is read off the table of the strings.
KnownOK ==
    /\ DOMAIN Known = {strings[raw] : raw \in Convertible}
    /\ \A raw \in Convertible : Known[strings[raw]] = raw + 1

LEMMA KnownIs == Inv => KnownOK
<1> SUFFICES ASSUME Inv PROVE KnownOK
  OBVIOUS
<1>1. DOMAIN Known = {strings[raw] : raw \in Convertible}
  BY DEF Known, Convertible
<1>2. ASSUME NEW raw \in Convertible PROVE Known[strings[raw]] = raw + 1
  <2>1. Known[strings[raw]] = (CHOOSE r \in Convertible : strings[r] = strings[raw]) + 1
    BY DEF Known, Convertible
  <2>2. \A r \in Convertible : strings[r] = strings[raw] => r = raw
    BY DEF Inv, Injective, Convertible
  <2> QED
    BY <2>1, <2>2
<1> QED
  BY <1>1, <1>2 DEF KnownOK

LEMMA KnownIsNext == Inv' => KnownOK'
BY KnownIs, PTL

\* The conversion is the identity up to the offset, where there is one.
LEMMA ToTokenKeyIs ==
    ASSUME NEW raw \in Nat
    PROVE  /\ raw \in 0 .. U32 - 2 => ToTokenKey(raw) = raw + 1 /\ ToTokenKey(raw) # NoKey
           /\ raw \notin 0 .. U32 - 2 => ToTokenKey(raw) = NoKey
BY SharedInternerAssumption DEF ToTokenKey, TryFromU32, NoKey

\* What a thread answers with the key it found or made is right.
LEMMA InternAnswerRight ==
    ASSUME Inv, NEW raw \in DOMAIN strings, NEW x, strings[raw] = x
    PROVE  AnswerIntern(x, raw) \in Contract!InternAnswers(Known) \cup Contract!Refusals(Known)
<1>1. raw \in Nat /\ x \in Texts
  BY DEF Inv, TablesOK, TypeOK
<1>2. CASE raw \in 0 .. U32 - 2
  <2>1. ToTokenKey(raw) = raw + 1 /\ ToTokenKey(raw) # NoKey
    BY <1>1, <1>2, ToTokenKeyIs
  <2>2. x \in DOMAIN Known /\ Known[x] = raw + 1
    BY <1>2, KnownIs DEF KnownOK, Convertible
  <2>3. AnswerIntern(x, raw) = [of |-> "intern", text |-> x, key |-> Known[x]]
    BY <2>1, <2>2 DEF AnswerIntern
  <2> QED
    BY <2>2, <2>3 DEF Contract!InternAnswers
<1>3. CASE raw \notin 0 .. U32 - 2
  <2>1. AnswerIntern(x, raw) = [of |-> "refuse", text |-> x]
    BY <1>1, <1>3, ToTokenKeyIs DEF AnswerIntern
  <2>2. \A r \in Convertible : strings[r] # x
    BY <1>3 DEF Inv, Injective, Convertible
  <2>3. x \notin DOMAIN Known
    BY <2>2, KnownIs DEF KnownOK
  <2> QED
    BY <1>1, <2>1, <2>3 DEF Contract!Refusals
<1> QED
  BY <1>2, <1>3

\* A thread that is refused or panics, or gets a right answer.
LEMMA ReturnRefines ==
    ASSUME NEW t \in Threads, NEW a, Return(t, a), UNCHANGED strings,
           a \in Contract!InternAnswers(Known) \cup Contract!Refusals(Known)
    PROVE  Contract!Next
<1>1. UNCHANGED Known
  BY DEF Known
<1>2. CASE answer' = [answer EXCEPT ![t] = a]
  BY <1>1, <1>2 DEF Contract!Next, Contract!Answer
<1>3. CASE answer' = [answer EXCEPT ![t] = NoAnswer]
  BY <1>1, <1>3 DEF Contract!Next, Contract!NoReply, NoAnswer, Contract!NoAnswer
<1> QED
  BY <1>2, <1>3 DEF Return

LEMMA StoreRefines ==
    ASSUME Inv, Inv', NEW t \in Threads, Store(t)
    PROVE  [Contract!Next]_<<Known, answer>>
<1>1. PICK raw, x : raw = call[t].raw /\ x = call[t].text
  OBVIOUS
<1>2. /\ raw \in Nat /\ raw \notin DOMAIN strings /\ x \in Texts
      /\ \A r \in DOMAIN strings : strings[r] # x
  <2>1. call[t] \in Calls /\ At(t, "store")
    BY CallType DEF Store, At, Idle, Inv
  <2> QED
    BY <1>1, <2>1, TextIsNew DEF Inv, KeysOK, LocksOK, At, Calls
<1>3. /\ DOMAIN strings' = DOMAIN strings \cup {raw} /\ strings'[raw] = x
      /\ \A r \in DOMAIN strings : strings'[r] = strings[r]
      /\ UNCHANGED answer
  BY <1>1, <1>2 DEF Store, With, GoTo
<1>4. /\ DOMAIN Known = {strings[r] : r \in Convertible}
      /\ \A r \in Convertible : Known[strings[r]] = r + 1
  BY KnownIs DEF KnownOK
<1>5. /\ DOMAIN Known' = {strings'[r] : r \in Convertible'}
      /\ \A r \in Convertible' : Known'[strings'[r]] = r + 1
  BY KnownIsNext DEF KnownOK
<1>6. Known = [y \in DOMAIN Known |-> Known[y]] /\ Known' = [y \in DOMAIN Known' |-> Known'[y]]
  BY DEF Known
<1>7. CASE raw \notin 0 .. U32 - 2
  <2>1. Convertible' = Convertible
    BY <1>3, <1>7 DEF Convertible
  <2>2. \A r \in Convertible : strings'[r] = strings[r]
    BY <1>3 DEF Convertible
  <2>3. DOMAIN Known' = DOMAIN Known
    BY <1>4, <1>5, <2>1, <2>2
  <2>4. \A y \in DOMAIN Known : Known'[y] = Known[y]
    BY <1>4, <1>5, <2>1, <2>2
  <2>5. UNCHANGED Known
    BY <1>6, <2>3, <2>4
  <2> QED
    BY <1>3, <2>5
<1>8. CASE raw \in 0 .. U32 - 2
  <2>1. Convertible' = Convertible \cup {raw}
    BY <1>3, <1>8 DEF Convertible
  <2>2. \A r \in Convertible : strings'[r] = strings[r] /\ strings[r] # x
    BY <1>2, <1>3 DEF Convertible
  <2>3. DOMAIN Known' = DOMAIN Known \cup {x} /\ x \notin DOMAIN Known
    BY <1>3, <1>4, <1>5, <2>1, <2>2
  <2>4. Known'[x] = raw + 1 /\ \A y \in DOMAIN Known : Known'[y] = Known[y]
    BY <1>3, <1>4, <1>5, <2>1, <2>2
  <2>5. Known' = [y \in DOMAIN Known \cup {x} |-> IF y = x THEN raw + 1 ELSE Known[y]]
    BY <1>6, <2>3, <2>4
  <2>6. raw + 1 \in TokenKeys
    BY <1>8, SharedInternerAssumption DEF TokenKeys
  <2>7. \A y \in DOMAIN Known : Known[y] # raw + 1
    <3>1. \A r \in Convertible : r \in Int /\ r # raw
      BY <1>2 DEF Convertible
    <3> QED
      BY <1>2, <1>4, <3>1
  <2>8. Contract!Learn
    BY <1>2, <1>3, <2>3, <2>5, <2>6, <2>7 DEF Contract!Learn, Contract!KeysIn
  <2> QED
    BY <2>8 DEF Contract!Next
<1> QED
  BY <1>7, <1>8

LEMMA ResolveRefines ==
    ASSUME Inv, NEW t \in Threads, NEW k \in TokenKeys, NEW try \in BOOLEAN, Resolve(t, k, try)
    PROVE  Contract!Next
<1>1. UNCHANGED Known
  BY DEF Resolve, Known
<1>2. PICK raw \in 0 .. U32 - 2 : raw = k - 1 /\ k = raw + 1
  BY SharedInternerAssumption DEF TokenKeys
<1>3. CASE raw < space /\ raw \in DOMAIN strings
  <2>1. strings[raw] \in DOMAIN Known /\ Known[strings[raw]] = k
    BY <1>2, <1>3, KnownIs DEF KnownOK, Convertible
  <2>2. answer' = [answer EXCEPT ![t] = [of |-> "resolve", key |-> k, text |-> strings[raw]]]
    BY <1>2, <1>3 DEF Resolve, HasExternalKey, IntoU32
  <2>3. [of |-> "resolve", key |-> k, text |-> strings[raw]] \in Contract!ResolveAnswers(Known)
    BY <2>1 DEF Contract!ResolveAnswers
  <2> QED
    BY <1>1, <2>2, <2>3 DEF Contract!Next, Contract!Answer
<1>4. CASE ~ (raw < space /\ raw \in DOMAIN strings)
  <2>1. raw \notin DOMAIN strings
    BY <1>4 DEF Inv, TablesOK, TypeOK
  <2>2. \A y \in DOMAIN Known : Known[y] # k
    <3>1. \A r \in Convertible : r + 1 # k
      BY <1>2, <2>1 DEF Convertible
    <3> QED
      BY <3>1, KnownIs DEF KnownOK
  <2>3. [of |-> "unknown", key |-> k] \in Contract!Unresolved(Known)
    BY <2>2 DEF Contract!Unresolved, Contract!KeysIn
  <2>4. \/ answer' = [answer EXCEPT ![t] = [of |-> "unknown", key |-> k]]
        \/ answer' = [answer EXCEPT ![t] = NoAnswer]
    BY <1>2, <1>4 DEF Resolve, HasExternalKey, IntoU32
  <2> QED
    BY <1>1, <2>3, <2>4 DEF Contract!Next, Contract!Answer, Contract!NoReply, NoAnswer,
       Contract!NoAnswer
<1> QED
  BY <1>3, <1>4

LEMMA StepRefines ==
    ASSUME Inv, Inv', NEW t \in Threads, Step(t)
    PROVE  [Contract!Next]_<<Known, answer>>
<1>1. PICK x : x = call[t].text
  OBVIOUS
<1>2. CASE UNCHANGED <<strings, answer>>
  BY <1>2 DEF Known
<1>3. CASE x \in DOMAIN map /\ Return(t, AnswerIntern(x, map[x])) /\ UNCHANGED strings
  <2>1. PICK raw \in DOMAIN strings : raw = map[x] /\ strings[raw] = x
    BY <1>3 DEF Inv, TablesOK
  <2> QED
    BY <1>3, <2>1, InternAnswerRight, ReturnRefines
<1>4. CASE At(t, "allocate") /\ Return(t, [of |-> "refuse", text |-> x]) /\ UNCHANGED strings
  <2>1. x \in Texts /\ \A raw \in DOMAIN strings : strings[raw] # x
    BY <1>1, <1>4, TextIsNew DEF Inv, LocksOK, At
  <2>2. x \notin DOMAIN Known
    BY <2>1, KnownIs DEF KnownOK, Convertible
  <2>3. [of |-> "refuse", text |-> x] \in Contract!Refusals(Known)
    BY <2>1, <2>2 DEF Contract!Refusals
  <2> QED
    BY <1>4, <2>3, ReturnRefines
<1>5. CASE Publish(t)
  <2>1. PICK raw \in DOMAIN strings : raw = call[t].raw /\ strings[raw] = x
    BY <1>1, <1>5 DEF Publish, Inv, KeysOK
  <2>2. Return(t, AnswerIntern(x, raw)) /\ UNCHANGED strings
    BY <1>1, <1>5, <2>1 DEF Publish
  <2> QED
    BY <2>1, <2>2, InternAnswerRight, ReturnRefines
<1>6. CASE Store(t)
  BY <1>6, StoreRefines
<1> QED
  BY <1>1, <1>2, <1>3, <1>4, <1>5, <1>6 DEF Step, Decode, Lookup, Lock, Allocate, GoTo

\* Threads that intern through one interner see one growing, one-to-one
\* assignment of keys to texts, in every interleaving: the second look under
\* the lock of the shard is enough, and the conversion of keys refuses what it
\* would otherwise cut off.
THEOREM InternerRefinement == Spec => ImplementsInterner
<1>1. Init => Contract!Init
  <2> SUFFICES ASSUME Init PROVE Contract!Init
    OBVIOUS
  <2>1. strings = <<>> /\ DOMAIN strings = {}
    BY DEF Init
  <2>2. Known = [x \in {} |-> 0]
    BY <2>1 DEF Known
  <2>3. Known = <<>>
    BY <2>2
  <2> QED
    BY <2>3 DEF Init, Contract!Init, NoAnswer, Contract!NoAnswer
<1>2. Inv /\ Inv' /\ [Next]_vars => [Contract!Next]_<<Known, answer>>
  <2> SUFFICES ASSUME Inv, Inv', [Next]_vars PROVE [Contract!Next]_<<Known, answer>>
    OBVIOUS
  <2>1. ASSUME NEW t \in Threads, NEW x, NEW try, Intern(t, x, try) PROVE Contract!Next
    <3>1. UNCHANGED Known /\ answer' = [answer EXCEPT ![t] = NoAnswer]
      BY <2>1 DEF Intern, Known
    <3> QED
      BY <3>1 DEF Contract!Next, Contract!NoReply, NoAnswer, Contract!NoAnswer
  <2>2. CASE UNCHANGED vars
    BY <2>2 DEF vars, Known
  <2> QED
    BY <2>1, <2>2, StepRefines, ResolveRefines DEF Next
<1> QED
  BY <1>1, <1>2, Invariance, PTL DEF Spec, ImplementsInterner, Contract!ISpec
=============================================================================
