----------------------------- MODULE Traversal -----------------------------
(***************************************************************************)
(* Navigation in the syntax ("red") tree of cstree: the methods of         *)
(* SyntaxNode, SyntaxToken and SyntaxElementRef that go from one element   *)
(* to another (syntax/node.rs, syntax/token.rs, syntax/element.rs,         *)
(* syntax/iter.rs).                                                        *)
(*                                                                         *)
(* A green tree stores lengths only.  Where an element starts is computed  *)
(* by the navigation that reaches it first, forwards or backwards, and     *)
(* kept in the child slot of its parent for good; every later navigation   *)
(* computes it again and asserts that it finds the same.                   *)
(*                                                                         *)
(* Elements are positions 1 .. size of the green tree in preorder; `len'   *)
(* gives the byte length of every token and its domain tells which         *)
(* positions are tokens.  A reference to an element is its position, with  *)
(* the child index and the offset it was found at.                         *)
(***************************************************************************)
EXTENDS Integers, Picking

CONSTANTS
    MaxSize,   \* bound: elements of a tree
    TokenLens, \* lengths of tokens; a token may be empty
    Kinds,     \* syntax kinds; only replace_with looks at them
    Kind       \* the kind of the element at each position

ASSUME TraversalAssumption ==
    MaxSize \in Nat \ {0} /\ TokenLens \subseteq Nat /\ Kind \in [1 .. MaxSize -> Kinds]

VARIABLES
    tree,    \* the green tree
    slot,    \* the reference in the child slot of each element, None while empty
    at,      \* the element the client is at
    walk,    \* the preorder iterator the client runs, in a sequence of at most one
    iter,    \* the children iterator the client holds, in a sequence of at most one
    status   \* "ok", or "panicked" after a failed assertion

vars == <<tree, slot, at, walk, iter, status>>

None == [pos |-> 0, index |-> 0, offset |-> 0]

----------------------------------------------------------------------------
(* Green trees *)

Positions == 1 .. tree.size
Root == 1
IsToken(p) == p \in DOMAIN tree.len

\* The lengths of the first n elements of a sequence, added up.
Total(s, len, n) ==
    LET sum[i \in 0 .. Len(s)] == IF i = 0 THEN 0 ELSE sum[i - 1] + len[s[i]] IN sum[n]

\* GreenNode::new: the children of a node in order, and its text_len.
GreenNodes(t) ==
    LET kids == [p \in 1 .. t.size |->
                    Picked([q \in 1 .. t.size |-> q], {q \in 2 .. t.size : t.parent[q] = p})]
        textLen[p \in 1 .. t.size] ==
            IF p \in DOMAIN t.len THEN t.len[p] ELSE Total(kids[p], textLen, Len(kids[p]))
    IN  [size |-> t.size, parent |-> t.parent, len |-> t.len,
         kids |-> kids, text_len |-> textLen]

\* Every tree a builder can make, numbered in preorder: nodes may be empty,
\* tokens may be empty, the root is a node.  Between an element and its parent
\* there are only elements below that parent.
GreenTrees ==
    UNION {UNION {{GreenNodes(t) : t \in
                     {t \in [size : {n}, parent : [2 .. n -> 1 .. n], len : [T -> TokenLens]] :
                        \A p \in 2 .. n : /\ t.parent[p] < p /\ t.parent[p] \notin T
                                          /\ \A q \in t.parent[p] + 1 .. p : t.parent[q] >= t.parent[p]}}
                  : T \in SUBSET (2 .. n)} : n \in 1 .. MaxSize}

Kids(p) == tree.kids[p]
TextLen(p) == tree.text_len[p]

\* The references there may be to elements.
Refs == [pos : Positions, index : Nat, offset : Nat]

\* children_from: the children from an index on, offsets counted upwards.
ChildrenFrom(p, first, offset) ==
    LET rest == SubSeq(Kids(p), first + 1, Len(Kids(p))) IN
    [j \in DOMAIN rest |-> [pos |-> rest[j], index |-> first + j - 1,
                            offset |-> offset + Total(rest, tree.text_len, j - 1)]]

\* Mutant: yields the offset before subtracting the length.
ChildrenTo_SubtractLate(p, end, offset) ==
    LET rest == Reverse(SubSeq(Kids(p), 1, end)) IN
    [j \in DOMAIN rest |-> [pos |-> rest[j], index |-> end - j,
                            offset |-> offset - Total(rest, tree.text_len, j - 1)]]

\* children_to: the children before an index, last one first, offsets counted
\* downwards.
ChildrenTo(p, end, offset) ==
    LET rest == Reverse(SubSeq(Kids(p), 1, end)) IN
    [j \in DOMAIN rest |-> [pos |-> rest[j], index |-> end - j,
                            offset |-> offset - Total(rest, tree.text_len, j)]]

filter_nodes(refs) == Picked(refs, {i \in DOMAIN refs : ~ IsToken(refs[i].pos)})

\* Iterator::next on a fresh iterator.
First(refs) == IF refs = <<>> THEN None ELSE Head(refs)

----------------------------------------------------------------------------
(* Navigation from a reference e *)

End(e) == e.offset + TextLen(e.pos)
IsEmpty(e) == TextLen(e.pos) = 0

FirstChildOrToken(e) == First(ChildrenFrom(e.pos, 0, e.offset))
FirstChild(e) == First(filter_nodes(ChildrenFrom(e.pos, 0, e.offset)))
LastChildOrToken(e) == First(ChildrenTo(e.pos, Len(Kids(e.pos)), End(e)))
LastChild(e) == First(filter_nodes(ChildrenTo(e.pos, Len(Kids(e.pos)), End(e))))

\* The children of node p behind child n, and in front of it; the caller
\* passes the offset at which child n ends or starts. What it passes is stored
\* unchecked in an empty slot; the client below always passes the true one.
NextChildAfter(p, n, offset) == First(filter_nodes(ChildrenFrom(p, n + 1, offset)))
NextChildOrTokenAfter(p, n, offset) == First(ChildrenFrom(p, n + 1, offset))
PrevChildBefore(p, n, offset) == First(filter_nodes(ChildrenTo(p, n, offset)))
PrevChildOrTokenBefore(p, n, offset) == First(ChildrenTo(p, n, offset))

Arity(e) == Cardinality({i \in DOMAIN Kids(e.pos) : ~ IsToken(Kids(e.pos)[i])})
ArityWithTokens(e) == Len(Kids(e.pos))

Parent(e) == IF e.pos = Root THEN None ELSE slot[tree.parent[e.pos]]

\* A token asks its parent, a node does the same by itself.
NextSiblingOrToken(e) ==
    IF e.pos = Root THEN None
    ELSE IF IsToken(e.pos) THEN NextChildOrTokenAfter(tree.parent[e.pos], e.index, End(e))
    ELSE First(ChildrenFrom(tree.parent[e.pos], e.index + 1, End(e)))

PrevSiblingOrToken(e) ==
    IF e.pos = Root THEN None
    ELSE IF IsToken(e.pos) THEN PrevChildOrTokenBefore(tree.parent[e.pos], e.index, e.offset)
    ELSE First(ChildrenTo(tree.parent[e.pos], e.index, e.offset))

\* Mutant: starts at the node itself.
NextSibling_Self(e) ==
    IF e.pos = Root THEN None
    ELSE First(filter_nodes(ChildrenFrom(tree.parent[e.pos], e.index, End(e))))

NextSibling(e) ==
    IF e.pos = Root THEN None
    ELSE First(filter_nodes(ChildrenFrom(tree.parent[e.pos], e.index + 1, End(e))))

PrevSibling(e) ==
    IF e.pos = Root THEN None
    ELSE First(filter_nodes(ChildrenTo(tree.parent[e.pos], e.index, e.offset)))

\* Iter: all the children, offsets accumulated by the iterator.
ChildrenWithTokens(e) == ChildrenFrom(e.pos, 0, e.offset)

\* What `next' finds from the last element of a path.
Extended(path, next) ==
    LET e == IF path = <<>> THEN None ELSE next[Last(path)] IN
    IF e = None THEN path ELSE Append(path, e)

\* iter::successors: an element, what `next' finds from there, and so on.
Successors(first, next) ==
    LET path[n \in 1 .. tree.size] ==
            IF n = 1 THEN IF first = None THEN <<>> ELSE <<first>> ELSE Extended(path[n - 1], next)
    IN  path[tree.size]

\* A descent to a token, as the references it goes through, its result last.
Descent(e, next) ==
    LET path == Successors(e, next) IN
    IF path # <<>> /\ IsToken(Last(path).pos) THEN path ELSE Append(path, None)

FirstToken(e) ==
    Descent(e, [r \in Refs |-> IF IsToken(r.pos) THEN None ELSE FirstChildOrToken(r)])

LastToken(e) ==
    Descent(e, [r \in Refs |-> IF IsToken(r.pos) THEN None ELSE LastChildOrToken(r)])

SiblingOrToken(e, direction) ==
    IF direction = "Next" THEN NextSiblingOrToken(e) ELSE PrevSiblingOrToken(e)

\* siblings_with_tokens and siblings, beginning with the element itself.
SiblingsWithTokens(e, direction) ==
    Successors(e, [r \in Refs |-> SiblingOrToken(r, direction)])

SiblingNodes(e, direction) ==
    Successors(e, [r \in Refs |-> IF direction = "Next" THEN NextSibling(r) ELSE PrevSibling(r)])

\* ancestors: a node and the chain of its parents; a token begins with its parent.
AncestorNodes(e) ==
    Successors(IF IsToken(e.pos) THEN Parent(e) ELSE e, [r \in Refs |-> Parent(r)])

\* Mutant: looks at the parent only.
AncestorsFind_Parent(e, direction) ==
    IF e.pos = Root THEN None ELSE SiblingOrToken(Parent(e), direction)

\* ancestors().find_map(sibling) of a token: the sibling of the nearest ancestor
\* that has one.
AncestorsFind(e, direction) ==
    LET ancestors == AncestorNodes(e)
        found == [i \in DOMAIN ancestors |-> SiblingOrToken(ancestors[i], direction)]
    IN  First(Picked(found, {i \in DOMAIN found : found[i] # None}))

NextToken(e) ==
    LET s == NextSiblingOrToken(e) IN
    FirstToken(IF s # None THEN s ELSE AncestorsFind(e, "Next"))

PrevToken(e) ==
    LET s == PrevSiblingOrToken(e) IN
    LastToken(IF s # None THEN s ELSE AncestorsFind(e, "Prev"))

\* Mutant: takes the end of a child as exclusive.
Touching_HalfOpen(e, offset) ==
    LET kids == ChildrenWithTokens(e) IN
    Picked(kids, {i \in DOMAIN kids : /\ ~ IsEmpty(kids[i])
                                      /\ kids[i].offset <= offset /\ offset < End(kids[i])})

\* The children that token_at_offset keeps: those that touch the offset.
Touching(e, offset) ==
    LET kids == ChildrenWithTokens(e) IN
    Picked(kids, {i \in DOMAIN kids : /\ ~ IsEmpty(kids[i])
                                      /\ kids[i].offset <= offset /\ offset <= End(kids[i])})

\* A failed unwrap, assertion or unreachable! is a result of length 3.
Unreachable == <<None, None, None>>

\* Mutant: no early return for an empty range.
TokenAtOffset_Empty(e, offset) ==
    LET search[r \in Refs] ==
            LET touching == Touching(r, offset)
                results == [i \in DOMAIN touching |-> search[touching[i]]]
            IN  IF IsToken(r.pos) THEN <<r>>
                ELSE IF Len(touching) \in {1, 2} THEN FlattenSeq(results) ELSE Unreachable
    IN  search[e]

\* token_at_offset: no token, one token or the two next to the offset.
TokenAtOffset(e, offset) ==
    LET search[r \in Refs] ==
            LET touching == Touching(r, offset)
                results == [i \in DOMAIN touching |-> search[touching[i]]]
            IN  IF IsToken(r.pos) THEN <<r>>
                ELSE IF IsEmpty(r) THEN <<>>
                ELSE IF Len(touching) = 1 THEN results[1]
                ELSE IF Len(touching) = 2 /\ Len(results[1]) = 1 /\ Len(results[2]) = 1
                THEN results[1] \o results[2]
                ELSE Unreachable
    IN  search[e]

\* The references token_at_offset fills slots with on its way.
OffsetPath(e, offset) ==
    LET met[r \in Refs] ==
            IF IsToken(r.pos) \/ IsEmpty(r) THEN {}
            ELSE LET touching == Touching(r, offset) IN
                 ToSet(ChildrenWithTokens(r)) \cup UNION {met[touching[i]] : i \in DOMAIN touching}
    IN  met[e]

\* Mutant: takes the end of an element as exclusive.
Covers_HalfOpen(e, from, to) == e.offset <= from /\ to < End(e)
Covers(e, from, to) == e.offset <= from /\ to <= End(e)

\* The first child that contains the range.
ChildCovering(e, from, to) ==
    IF IsToken(e.pos) THEN None
    ELSE LET kids == ChildrenWithTokens(e) IN
         First(Picked(kids, {i \in DOMAIN kids : Covers(kids[i], from, to)}))

\* covering_element, as the references it goes through, its result last, and
\* the ones `find' looks at.
Covering(e, from, to) == Successors(e, [r \in Refs |-> ChildCovering(r, from, to)])

FoundBy(path) ==
    UNION {{c \in ToSet(ChildrenWithTokens(path[i])) :
               i < Len(path) => c.pos <= path[i + 1].pos}
           : i \in {j \in DOMAIN path : ~ IsToken(path[j].pos)}}

----------------------------------------------------------------------------
(* Green trees as values, for replace_with *)

\* What tells one green element from another is its label: the position the
\* element has in the tree.
Green(p) ==
    LET green[q \in Positions] ==
            [label |-> q, kind |-> Kind[q], kids |-> [i \in DOMAIN Kids(q) |-> green[Kids(q)[i]]]]
    IN  green[p]

\* Mutant: the rebuilt parent gets the kind of the child that is exchanged.
Rebuilt_ChildKind(p, new) ==
    LET kids == Kids(tree.parent[p]) IN
    [label |-> tree.parent[p],
     kind |-> Kind[p],
     kids |-> [i \in DOMAIN kids |-> IF i = slot[p].index + 1 THEN new ELSE Green(kids[i])]]

\* The parent of p, with something else at the index of p.
Rebuilt(p, new) ==
    LET kids == Kids(tree.parent[p]) IN
    [label |-> tree.parent[p],
     kind |-> Kind[tree.parent[p]],
     kids |-> [i \in DOMAIN kids |-> IF i = slot[p].index + 1 THEN new ELSE Green(kids[i])]]

\* A green tree is returned in a sequence of one; there is none after a panic.
Panicked == <<>>

\* replace_with of a node rebuilds the parent with the replacement, which
\* replaces the parent, and so on up to the root. Each of these calls begins
\* with the assertion that the replacement has the kind of what it replaces.
ReplaceWith(p, new) ==
    LET path == AncestorNodes(slot[p])
        result[i \in 0 .. Len(path)] ==
            IF i = 0 THEN <<new>>
            ELSE IF result[i - 1] = Panicked THEN Panicked
            ELSE IF result[i - 1][1].kind # Kind[path[i].pos] THEN Panicked
            ELSE IF path[i].pos = Root THEN result[i - 1]
            ELSE <<Rebuilt(path[i].pos, result[i - 1][1])>>
    IN  result[Len(path)]

\* SyntaxToken::replace_with, with the same assertion for itself, rebuilds the
\* parent around the new token and has it replaced.
ReplaceToken(p, new) ==
    IF new.kind # Kind[p] THEN Panicked ELSE ReplaceWith(tree.parent[p], Rebuilt(p, new))

----------------------------------------------------------------------------
(* The client *)

Idle == status = "ok" /\ walk = <<>>

\* The element whose slot a reference goes to: child number r.index of the
\* node it was found in.
SlotOf(r) == IF r.pos = Root THEN Root ELSE Kids(tree.parent[r.pos])[r.index + 1]

\* get_or_add_node and get_or_add_element for every reference in refs.
Visit(refs) ==
    LET met == refs \ {None}
        For(p) == {r \in met : SlotOf(r) = p}
    IN  /\ slot' = [p \in Positions |->
                       IF slot[p] = None /\ For(p) # {} THEN CHOOSE r \in For(p) : TRUE
                                                        ELSE slot[p]]
        /\ status' = IF \A r \in met : slot'[SlotOf(r)].offset = r.offset
                     THEN "ok" ELSE "panicked"
        /\ UNCHANGED tree

GoTo(e) == at' = IF e = None THEN at ELSE SlotOf(e)

Init ==
    /\ tree \in GreenTrees
    /\ slot = [p \in Positions |->
                 IF p = Root THEN [pos |-> Root, index |-> 0, offset |-> 0] ELSE None]
    /\ at = Root /\ walk = <<>> /\ iter = <<>> /\ status = "ok"

\* The reference the client holds.
Here == slot[at]

\* Any of the methods that lead to one neighbour.
Move(neighbour) ==
    /\ Idle
    /\ Visit({neighbour}) /\ GoTo(neighbour)
    /\ UNCHANGED <<walk, iter>>

\* siblings and ancestors: the client takes as many elements as it likes.
Take(path) ==
    /\ Idle
    /\ \E i \in DOMAIN path : Visit(ToSet(SubSeq(path, 1, i))) /\ GoTo(path[i])
    /\ UNCHANGED <<walk, iter>>

\* first_token, last_token, next_token and prev_token.
Seek(path) ==
    /\ Idle
    /\ Visit(ToSet(path)) /\ GoTo(Last(path))
    /\ UNCHANGED <<walk, iter>>

FindOffset(offset) ==
    LET found == TokenAtOffset(Here, offset)
    IN  /\ Idle /\ ~ IsToken(at)
        /\ Here.offset <= offset /\ offset <= End(Here)
        /\ \/ /\ found = Unreachable
              /\ status' = "panicked"
              /\ UNCHANGED <<tree, slot, at>>
           \/ /\ found # Unreachable
              /\ Visit(OffsetPath(Here, offset))
              /\ \/ found = <<>> /\ UNCHANGED at
                 \/ \E i \in DOMAIN found : GoTo(found[i])
        /\ UNCHANGED <<walk, iter>>

FindCovering(from, to) ==
    LET path == Covering(Here, from, to) IN
    /\ Idle /\ ~ IsToken(at)
    /\ Covers(Here, from, to)
    /\ Visit(FoundBy(path)) /\ GoTo(Last(path))
    /\ UNCHANGED <<walk, iter>>

\* children() and children_with_tokens(): the iterator holds the index of the
\* next green child and its offset.
Children(tokens) ==
    /\ Idle /\ ~ IsToken(at) /\ iter = <<>>
    /\ iter' = <<[parent |-> at, tokens |-> tokens, index |-> 0, offset |-> slot[at].offset]>>
    /\ UNCHANGED <<tree, slot, at, walk, status>>

\* What next() of the children iterator finds: skips tokens unless asked for.
IterFound(it) ==
    LET rest == ChildrenFrom(it.parent, it.index, it.offset) IN
    First(IF it.tokens THEN rest ELSE filter_nodes(rest))

IterNext ==
    /\ Idle /\ iter # <<>>
    /\ LET it == iter[1]
           e == IterFound(it)
       IN  /\ Visit({e})
           /\ iter' = IF e = None THEN <<>>
                      ELSE <<[it EXCEPT !.index = e.index + 1, !.offset = End(e)]>>
           /\ GoTo(e)
    /\ UNCHANGED walk

\* ExactSizeIterator::len and Iterator::count of the children iterators.
IterLen(it) == Len(ChildrenFrom(it.parent, it.index, it.offset))

\* preorder and preorder_with_tokens, started at the client's element.
Preorder(tokens) ==
    /\ Idle /\ ~ IsToken(at) /\ iter = <<>>
    /\ walk' = <<[from |-> at, tokens |-> tokens, event |-> "Enter", elem |-> at,
                  seen |-> <<<<"Enter", at>>>>]>>
    /\ UNCHANGED <<tree, slot, at, iter, status>>

\* Mutant: skips tokens on the way to the right.
WalkFound_SkipTokens(w) ==
    LET e == slot[w.elem] IN
    IF w.event = "Leave" THEN NextSibling(e)
    ELSE IF IsToken(e.pos) THEN None
    ELSE IF w.tokens THEN FirstChildOrToken(e) ELSE FirstChild(e)

\* The element of the next event.
WalkFound(w) ==
    LET e == slot[w.elem]
        down == IF w.tokens THEN IF IsToken(e.pos) THEN None ELSE FirstChildOrToken(e)
                            ELSE FirstChild(e)
        right == IF w.tokens THEN NextSiblingOrToken(e) ELSE NextSibling(e)
    IN  IF w.event = "Enter" THEN down ELSE right

WalkNext ==
    /\ status = "ok" /\ walk # <<>>
    /\ LET w == walk[1]
           found == WalkFound(w)
           event == IF found = None THEN "Leave" ELSE "Enter"
           elem == IF found # None THEN found.pos
                   ELSE IF w.event = "Enter" THEN w.elem ELSE tree.parent[w.elem]
       IN  \/ /\ w.event = "Leave" /\ w.elem = w.from
              /\ walk' = <<>>
              /\ UNCHANGED <<slot, status, tree>>
           \/ /\ ~ (w.event = "Leave" /\ w.elem = w.from)
              /\ Visit({found})
              /\ walk' = <<[w EXCEPT !.event = event, !.elem = elem,
                                     !.seen = Append(@, <<event, elem>>)]>>
    /\ UNCHANGED <<at, iter>>

\* descendants and descendants_with_tokens: the elements a walk enters.
Entered(events) ==
    LET enters == Picked(events, {i \in DOMAIN events : events[i][1] = "Enter"}) IN
    [i \in DOMAIN enters |-> enters[i][2]]

\* Mutant: leaving a token does not go back a level.
DebugLines_LeaveNodes(events) ==
    FoldLeft(LAMBDA out, ev :
                 IF ev[1] = "Enter"
                 THEN [level |-> out.level + 1, lines |-> Append(out.lines, <<out.level, ev[2]>>)]
                 ELSE [out EXCEPT !.level = IF IsToken(ev[2]) THEN @ ELSE @ - 1],
             [level |-> 0, lines |-> <<>>], events)

\* write_debug, recursively: a line for every element entered, indented by the
\* level, which must be 0 again after the walk.
DebugLines(events) ==
    FoldLeft(LAMBDA out, ev :
                 IF ev[1] = "Enter"
                 THEN [level |-> out.level + 1, lines |-> Append(out.lines, <<out.level, ev[2]>>)]
                 ELSE [out EXCEPT !.level = @ - 1],
             [level |-> 0, lines |-> <<>>], events)

\* write_display: the tokens entered, one after the other.
DisplayTokens(events) ==
    LET entered == Entered(events) IN Picked(entered, {i \in DOMAIN entered : IsToken(entered[i])})

Next ==
    \/ ~ IsToken(at) /\ \/ Move(FirstChild(Here)) \/ Move(FirstChildOrToken(Here))
                        \/ Move(LastChild(Here)) \/ Move(LastChildOrToken(Here))
                        \/ Move(NextSibling(Here)) \/ Move(PrevSibling(Here))
    \/ Move(NextSiblingOrToken(Here)) \/ Move(PrevSiblingOrToken(Here)) \/ Move(Parent(Here))
    \/ at # Root /\ \/ Move(NextChildAfter(tree.parent[at], Here.index, End(Here)))
                    \/ Move(PrevChildBefore(tree.parent[at], Here.index, Here.offset))
    \/ \E direction \in {"Next", "Prev"} :
           \/ Take(SiblingsWithTokens(Here, direction))
           \/ ~ IsToken(at) /\ Take(SiblingNodes(Here, direction))
    \/ Take(AncestorNodes(Here))
    \/ Seek(FirstToken(Here)) \/ Seek(LastToken(Here))
    \/ IsToken(at) /\ (Seek(NextToken(Here)) \/ Seek(PrevToken(Here)))
    \/ \E offset \in 0 .. TextLen(Root) : FindOffset(offset)
    \/ \E to \in 0 .. TextLen(Root) : \E from \in 0 .. to : FindCovering(from, to)
    \/ \E tokens \in BOOLEAN : Children(tokens) \/ Preorder(tokens)
    \/ IterNext
    \/ WalkNext

Spec == Init /\ [][Next]_vars

----------------------------------------------------------------------------
(* Reference definitions, from the tree alone *)

\* The elements at and below p are p and those that follow, up to the first one
\* with a parent in front of p.
Under(p, q) == p <= q /\ \A r \in p + 1 .. q : tree.parent[r] >= p
Ancestors(p) == {q \in Positions \ {p} : Under(q, p)}
LastBelow(p) == Max({q \in Positions : Under(p, q)})
TokensIn(p) == {q \in Positions : IsToken(q) /\ Under(p, q)}

\* The bytes of the tokens among the first n elements.
Bytes(n) ==
    Total([q \in Positions |-> q],
          [q \in Positions |-> IF IsToken(q) THEN tree.len[q] ELSE 0], n)
TrueStart(p) == Bytes(p - 1)
TrueEnd(p) == Bytes(LastBelow(p))
Siblings(p) == {q \in Positions \ {Root} : p # Root /\ tree.parent[q] = tree.parent[p]}
Nodes == {q \in Positions : ~ IsToken(q)}

\* The least and the greatest position of a set, that of None if it is empty.
Leftmost(S) == IF S = {} THEN None.pos ELSE Min(S)
Rightmost(S) == IF S = {} THEN None.pos ELSE Max(S)

\* The positions of a set in order.
Ascending(S) == Picked([q \in Positions |-> q], S)
Descending(S) == Reverse(Ascending(S))

----------------------------------------------------------------------------
(* Properties *)

\* Every variable has its type.
TypeOK ==
    /\ tree.size \in 1 .. MaxSize /\ at \in Positions
    /\ slot \in [Positions -> {None} \cup [pos : Positions, index : Nat, offset : Nat]]
    /\ Len(walk) <= 1 /\ Len(iter) <= 1
    /\ status \in {"ok", "panicked"}

\* Whatever path the client takes, every slot holds the child that belongs
\* there and the offset at which its text really begins: forward sums
\* (children_from, Iter) and backward differences (children_to) agree.
SlotsFaithful ==
    \A p \in Positions : slot[p] # None =>
        slot[p] = [pos |-> p, index |-> Cardinality({q \in Siblings(p) : q < p}),
                   offset |-> TrueStart(p)]

\* No assertion of get_or_add_node, get_or_add_element or token_at_offset
\* fires, and no unwrap or unreachable! in token_at_offset is reached, as long
\* as callers keep the contracts: offsets and ranges lie in the node asked, and
\* next_child_after and its relatives are given the index and border of a child.
NeverPanics == status = "ok"

\* The methods for neighbours find the child or sibling that the tree has
\* there, skipping tokens exactly where they say so; the iterators over siblings
\* and ancestors, which go from neighbour to neighbour, find all of them.
NeighboursFaithful ==
    LET kids == {q \in Positions \ {Root} : tree.parent[q] = at}
        left == {q \in Siblings(at) : q < at}
        right == {q \in Siblings(at) : q > at}
        PositionsOf(refs) == [i \in DOMAIN refs |-> refs[i].pos]
    IN  /\ FirstChildOrToken(Here).pos = Leftmost(kids)
        /\ FirstChild(Here).pos = Leftmost(kids \cap Nodes)
        /\ LastChildOrToken(Here).pos = Rightmost(kids)
        /\ LastChild(Here).pos = Rightmost(kids \cap Nodes)
        /\ NextSiblingOrToken(Here).pos = Leftmost(right)
        /\ NextSibling(Here).pos = Leftmost(right \cap Nodes)
        /\ PrevSiblingOrToken(Here).pos = Rightmost(left)
        /\ PrevSibling(Here).pos = Rightmost(left \cap Nodes)
        /\ at # Root =>
               /\ NextChildAfter(tree.parent[at], Here.index, End(Here)).pos = Leftmost(right \cap Nodes)
               /\ PrevChildBefore(tree.parent[at], Here.index, Here.offset).pos = Rightmost(left \cap Nodes)
        /\ PositionsOf(SiblingsWithTokens(Here, "Next")) = Ascending({at} \cup right)
        /\ PositionsOf(SiblingsWithTokens(Here, "Prev")) = Descending({at} \cup left)
        /\ ~ IsToken(at) =>
               /\ PositionsOf(SiblingNodes(Here, "Next")) = Ascending({at} \cup (right \cap Nodes))
               /\ PositionsOf(SiblingNodes(Here, "Prev")) = Descending({at} \cup (left \cap Nodes))
               /\ Arity(Here) = Cardinality(kids \cap Nodes)
               /\ ArityWithTokens(Here) = Cardinality(kids)
        /\ PositionsOf(AncestorNodes(Here)) =
               Descending((IF IsToken(at) THEN {} ELSE {at}) \cup Ancestors(at))

NoEmptySubtree == \A p \in Positions : TokensIn(p) # {}

\* In a tree in which every node has a token below it, first_token, last_token,
\* next_token and prev_token visit the tokens in text order.
TokensInOrder ==
    NoEmptySubtree =>
        /\ Last(FirstToken(Here)).pos = Leftmost(TokensIn(at))
        /\ Last(LastToken(Here)).pos = Rightmost(TokensIn(at))
        /\ IsToken(at) =>
               /\ Last(NextToken(Here)).pos = Leftmost({q \in TokensIn(Root) : q > at})
               /\ Last(PrevToken(Here)).pos = Rightmost({q \in TokensIn(Root) : q < at})

\* token_at_offset returns exactly the non-empty tokens that touch the offset,
\* left one first, however many empty tokens and nodes lie between them.
TokenAtOffsetFaithful ==
    ~ IsToken(at) =>
        \A offset \in TrueStart(at) .. TrueEnd(at) :
            LET found == TokenAtOffset(Here, offset) IN
            found # Unreachable =>
                [i \in DOMAIN found |-> found[i].pos] =
                 Ascending({q \in TokensIn(at) :
                     /\ TrueStart(q) < TrueEnd(q)
                     /\ TrueStart(q) <= offset /\ offset <= TrueEnd(q)})

\* covering_element returns an element that contains the range and none of
\* whose children does; for a non-empty range it is the deepest one there is.
CoveringFaithful ==
    \A from, to \in TrueStart(at) .. TrueEnd(at) :
        LET covering == {q \in Positions : /\ Under(at, q)
                                           /\ TrueStart(q) <= from /\ to <= TrueEnd(q)}
            found == Last(Covering(Here, from, to)).pos
        IN  from <= to =>
               /\ found \in covering
               /\ \A q \in covering : q # Root => tree.parent[q] # found
               /\ from < to => \A q \in covering : Under(q, found)

\* The events of a depth-first walk below p, from the definition.
Events(p, tokens) ==
    LET events[r \in Positions] ==
            LET kids == Picked(Kids(r), {i \in DOMAIN Kids(r) : tokens \/ ~ IsToken(Kids(r)[i])}) IN
            <<<<"Enter", r>>>> \o FlattenSeq([i \in DOMAIN kids |-> events[kids[i]]])
                               \o <<<<"Leave", r>>>>
    IN  events[p]

\* preorder and preorder_with_tokens, which keep no stack and only step to a
\* neighbour, enter and leave every element of the subtree once and in order.
\* (The events of a subtree are finitely many, and a walk is never stuck, so it
\* ends.)
WalkInOrder ==
    \A i \in DOMAIN walk : IsPrefix(walk[i].seen, Events(walk[i].from, walk[i].tokens))

\* The recursive Debug output indents every element below a node by its depth
\* and the level is back at 0 when the walk ends, as asserted; Display has the
\* tokens below the node in text order.
DebugFaithful ==
    \A i \in DOMAIN walk :
        LET w == walk[i]
            Depth(q) == Cardinality(Ancestors(q))
            below == Ascending({q \in Positions : Under(w.from, q)})
            out == DebugLines(w.seen)
        IN  w.tokens =>
              /\ IsPrefix(out.lines, [j \in DOMAIN below |->
                                        <<Depth(below[j]) - Depth(w.from), below[j]>>])
              /\ Last(w.seen) = <<"Leave", w.from>> =>
                    /\ out.level = 0
                    /\ Len(out.lines) = Len(below)
                    /\ DisplayTokens(w.seen) = Ascending(TokensIn(w.from))

\* Substitution in the tree, from the top.
Substituted(p, new) ==
    LET green[q \in Positions] ==
            IF q = p THEN new
            ELSE [label |-> q, kind |-> Kind[q], kids |-> [i \in DOMAIN Kids(q) |-> green[Kids(q)[i]]]]
    IN  green[Root]

\* replace_with: "Returns a green tree, equal to the green tree this node belongs
\* two, except with this node substitute" if the replacement has the kind of what
\* it replaces; otherwise it panics. The tree is built bottom-up from the stored
\* indices, and none of the assertions on the way up fails.
ReplaceFaithful ==
    \A kind \in Kinds :
        LET new == [label |-> 0, kind |-> kind, kids |-> <<>>]
            result == IF IsToken(at) THEN ReplaceToken(at, new) ELSE ReplaceWith(at, new)
        IN  result = IF kind = Kind[at] THEN <<Substituted(at, new)>> ELSE Panicked

----------------------------------------------------------------------------
(* Statements of the documentation that the code does not keep *)

\* "Returns the next token in the tree": there is none only after the last one.
NextTokenIsNext ==
    IsToken(at) => Last(NextToken(Here)).pos = Leftmost({q \in TokensIn(Root) : q > at})

\* The length of "an iterator over the child nodes" is the number of nodes it
\* will still yield.
IterLenExact ==
    \A i \in DOMAIN iter :
        IterLen(iter[i]) =
            LET rest == ChildrenFrom(iter[i].parent, iter[i].index, iter[i].offset)
            IN  Len(IF iter[i].tokens THEN rest ELSE filter_nodes(rest))
=============================================================================
