------------------------------ MODULE Interner ------------------------------
(***************************************************************************)
(* What the traits Resolver and Interner of cstree (interning/traits.rs)   *)
(* promise to clients that share one interner: a growing, one-to-one       *)
(* assignment of keys to texts.  A text keeps its key for ever, a key is   *)
(* never given to another text, and every answer is right for the          *)
(* assignment of the moment it is given.                                   *)
(***************************************************************************)
EXTENDS Naturals

CONSTANTS
    Clients,   \* the threads that share the interner
    Texts,     \* the texts that can be interned
    TokenKeys  \* the keys a client can hold

VARIABLES
    known,  \* the key of each text interned so far
    answer  \* the last answer each client got

NoAnswer == [of |-> "nothing"]

KeysIn(assigned) == {assigned[x] : x \in DOMAIN assigned}

\* The answers that are right while the interner holds `assigned'.
InternAnswers(assigned) ==
    {[of |-> "intern", text |-> x, key |-> assigned[x]] : x \in DOMAIN assigned}
Refusals(assigned) ==
    {[of |-> "refuse", text |-> x] : x \in Texts \ DOMAIN assigned}
ResolveAnswers(assigned) ==
    {[of |-> "resolve", key |-> assigned[x], text |-> x] : x \in DOMAIN assigned}
Unresolved(assigned) ==
    {[of |-> "unknown", key |-> k] : k \in TokenKeys \ KeysIn(assigned)}

Init == known = <<>> /\ answer = [c \in Clients |-> NoAnswer]

\* A text that has no key gets one that no text has.
Learn ==
    /\ \E x \in Texts \ DOMAIN known, k \in TokenKeys \ KeysIn(known) :
           known' = [y \in DOMAIN known \cup {x} |-> IF y = x THEN k ELSE known[y]]
    /\ UNCHANGED answer

\* try_get_or_intern: the key of the text, or an error if it has none;
\* try_resolve: the text of the key, or nothing if it has none.
Answer(c) ==
    /\ \E a \in InternAnswers(known) \cup Refusals(known)
                \cup ResolveAnswers(known) \cup Unresolved(known) :
           answer' = [answer EXCEPT ![c] = a]
    /\ UNCHANGED known

\* A panic of the client's thread: it gets no answer.
NoReply(c) == answer' = [answer EXCEPT ![c] = NoAnswer] /\ UNCHANGED known

Next == Learn \/ \E c \in Clients : Answer(c) \/ NoReply(c)

ISpec == Init /\ [][Next]_<<known, answer>>
=============================================================================
