------------------------------ MODULE Resolved ------------------------------
(***************************************************************************)
(* ResolvedNode, ResolvedToken and ResolvedElement (syntax/resolved.rs):   *)
(* views of the elements of a tree that stands for the promise that the    *)
(* tree has a resolver, so that its text can be read without passing one.  *)
(*                                                                         *)
(* The types are transparent wrappers.  Nothing in a view says whether the *)
(* promise holds: it is checked once, by try_resolved or by the            *)
(* constructor, and every method afterwards wraps what the method of the   *)
(* plain type returns without looking.  The client holds values in its     *)
(* variables: owned handles, and references that borrow from an owned one. *)
(*                                                                         *)
(* All trees have the shape (Size, Parent, TokenAt).  Which element each   *)
(* method returns is the business of Traversal; here it is any element     *)
(* that the group of methods can reach.                                    *)
(***************************************************************************)
EXTENDS Integers

CONSTANTS
    Trees,    \* syntax trees
    Handles,  \* variables of the client
    NoView,   \* the content of an unused variable
    Size,     \* elements of a tree, numbered in preorder from the root
    Parent,   \* the parent of every other element
    TokenAt   \* the elements that are tokens

VARIABLES
    resolver,  \* per tree: "unborn", "none" or "some", as in Kind::Root
    view,      \* what each variable of the client holds
    status     \* "ok", or "panicked"

vars == <<resolver, view, status>>

Root == 1
Positions == 1 .. Size
IsToken(p) == p \in TokenAt

\* A handle or reference: its static type, the element, the variable it
\* borrows from (itself if it is owned), and whether it comes from a variable
\* that was assigned through DerefMut.
Views == [type : {"Syntax", "Resolved"}, tree : Trees, pos : Positions,
          owner : Handles, assigned : BOOLEAN]

Used(h) == view[h] # NoView
Owned(h) == Used(h) /\ view[h].owner = h
Borrowed(h) == \E g \in Handles \ {h} : Used(g) /\ view[g].owner = h

----------------------------------------------------------------------------
(* Elements the methods of an element lead to *)

Ancestors[p \in Positions] == IF p = Root THEN {} ELSE {Parent[p]} \cup Ancestors[Parent[p]]
Descendants(p) == {q \in Positions : p \in Ancestors[q]}
Siblings(p) == {q \in Positions \ {Root} : p # Root /\ Parent[q] = Parent[p]}
NextToken(p) == {q \in TokenAt : p < q /\ \A r \in TokenAt : ~ (p < r /\ r < q)}
PrevToken(p) == {q \in TokenAt : q < p /\ \A r \in TokenAt : ~ (q < r /\ r < p)}

\* parent, ancestors, the children and siblings of every kind, descendants,
\* the preorders, first_token, last_token and covering_element.
ForwardNode(p) == {p} \cup Ancestors[p] \cup Descendants(p) \cup Siblings(p)

\* parent, ancestors, siblings, next_token and prev_token.
ForwardToken(p) == Ancestors[p] \cup Siblings(p) \cup NextToken(p) \cup PrevToken(p)

\* An element forwards to the node or to the token it is; as first_token and
\* last_token it returns a token itself.
Forward(p) == IF IsToken(p) THEN {p} \cup ForwardToken(p) ELSE ForwardNode(p)

----------------------------------------------------------------------------
(* The client *)

\* A view becomes the content of d.  An owned value that is borrowed cannot be
\* overwritten.
Put(d, v) ==
    /\ ~ Borrowed(d)
    /\ view' = [view EXCEPT ![d] = v]

\* coerce_ref: the wrapper around what the method of the plain type returned.
Coerce(v) == [v EXCEPT !.type = "Resolved"]

Init ==
    /\ resolver = [t \in Trees |-> "unborn"]
    /\ view = [h \in Handles |-> NoView]
    /\ status = "ok"

\* SyntaxNode::new_root
NewRoot(d, t) ==
    /\ resolver[t] = "unborn"
    /\ resolver' = [resolver EXCEPT ![t] = "none"]
    /\ Put(d, [type |-> "Syntax", tree |-> t, pos |-> Root, owner |-> d, assigned |-> FALSE])
    /\ UNCHANGED status

\* SyntaxNode::new_root_with_resolver, ResolvedNode::new_root_with_resolver
NewRootWithResolver(d, t) ==
    /\ resolver[t] = "unborn"
    /\ resolver' = [resolver EXCEPT ![t] = "some"]
    /\ Put(d, [type |-> "Resolved", tree |-> t, pos |-> Root, owner |-> d, assigned |-> FALSE])
    /\ UNCHANGED status

\* Any navigation method of the node, token or element in h; the result
\* borrows from the owner h borrows from, and has the type of h.
Navigate(h, d, q) ==
    /\ Used(h) /\ q \in Forward(view[h].pos) /\ d # view[h].owner
    /\ LET found == [view[h] EXCEPT !.pos = q] IN
       Put(d, IF view[h].type = "Resolved" THEN Coerce(found) ELSE found)
    /\ UNCHANGED <<resolver, status>>

\* token_at_offset returns owned tokens.
TokenAtOffset(h, d, q) ==
    /\ Used(h) /\ ~ IsToken(view[h].pos)
    /\ q \in TokenAt \cap Descendants(view[h].pos)
    /\ Put(d, [view[h] EXCEPT !.pos = q, !.owner = d])
    /\ UNCHANGED <<resolver, status>>

\* root, which a ResolvedNode returns as a SyntaxNode
RootOf(h, d) ==
    /\ Used(h) /\ ~ IsToken(view[h].pos) /\ d # view[h].owner
    /\ Put(d, [view[h] EXCEPT !.pos = Root, !.type = "Syntax", !.assigned = FALSE])
    /\ UNCHANGED <<resolver, status>>

\* syntax, and Deref: the plain element inside.
Syntax(h, d) ==
    /\ Used(h) /\ d # view[h].owner
    /\ Put(d, [view[h] EXCEPT !.type = "Syntax", !.assigned = FALSE])
    /\ UNCHANGED <<resolver, status>>

\* SyntaxNode::resolver: looked up in the root of the tree.
ResolverOf(v) == resolver[v.tree]

\* try_resolved looks for the resolver; on a resolved view it returns self.
TryResolved(h, d) ==
    /\ Used(h) /\ d # view[h].owner
    /\ view[h].type = "Resolved" \/ ResolverOf(view[h]) = "some"
    /\ Put(d, Coerce(view[h]))
    /\ UNCHANGED <<resolver, status>>

\* resolved expects try_resolved to succeed.
ResolvedPanics(h) ==
    /\ Used(h) /\ view[h].type = "Syntax" /\ ResolverOf(view[h]) = "none"
    /\ status' = "panicked"
    /\ UNCHANGED <<resolver, view>>

Clone(h, d) ==
    /\ Used(h) /\ d # h
    /\ Put(d, [view[h] EXCEPT !.owner = d])
    /\ UNCHANGED <<resolver, status>>

\* *h = g through DerefMut: an owned resolved value is overwritten, in place,
\* by an owned plain value of the same kind, which is moved out of g.
Assign(h, g) ==
    /\ Owned(h) /\ view[h].type = "Resolved" /\ ~ Borrowed(h)
    /\ g # h /\ Owned(g) /\ view[g].type = "Syntax" /\ ~ Borrowed(g)
    /\ IsToken(view[h].pos) <=> IsToken(view[g].pos)
    /\ view' = [view EXCEPT ![h] = [view[g] EXCEPT !.type = "Resolved", !.owner = h,
                                                   !.assigned = TRUE],
                            ![g] = NoView]
    /\ UNCHANGED <<resolver, status>>

Drop(h) ==
    /\ Used(h) /\ ~ Borrowed(h)
    /\ view' = [view EXCEPT ![h] = NoView]
    /\ UNCHANGED <<resolver, status>>

\* resolver() and with it Debug, Display, as_serialize_with_data, and data and
\* text of a token without static data: they unwrap the resolver of the tree.
\* The data of other tokens is at hand; reading it changes nothing.
Read(h) ==
    /\ Used(h) /\ view[h].type = "Resolved"
    /\ status' = IF ResolverOf(view[h]) = "some" THEN "ok" ELSE "panicked"
    /\ UNCHANGED <<resolver, view>>

Next ==
    /\ status = "ok"
    /\ \/ \E d \in Handles : \E t \in Trees : NewRoot(d, t) \/ NewRootWithResolver(d, t)
       \/ \E h, d \in Handles : \E q \in Positions : Navigate(h, d, q) \/ TokenAtOffset(h, d, q)
       \/ \E h, d \in Handles : \/ RootOf(h, d) \/ Syntax(h, d) \/ TryResolved(h, d)
                                \/ Clone(h, d) \/ Assign(h, d)
       \/ \E h \in Handles : ResolvedPanics(h) \/ Drop(h) \/ Read(h)

Spec == Init /\ [][Next]_vars

----------------------------------------------------------------------------
(* Properties *)

\* Every variable has its type, and a view is never of a tree that does not
\* exist yet.
TypeOK ==
    /\ resolver \in [Trees -> {"unborn", "none", "some"}]
    /\ view \in [Handles -> Views \cup {NoView}]
    /\ \A h \in Handles : Used(h) => resolver[view[h].tree] # "unborn"
    /\ status \in {"ok", "panicked"}

\* "Nodes, tokens, elements and their references which are guaranteed to belong
\* to trees with associated Resolvers": what the documentation of the module
\* says of every resolved view.
GuaranteedResolver ==
    \A h \in Handles :
        Used(h) /\ view[h].type = "Resolved" => resolver[view[h].tree] = "some"

\* The guarantee with the exception the code makes: it can only be missing from
\* a view that comes from a variable somebody assigned through DerefMut.
GuaranteedUnlessAssigned ==
    \A h \in Handles :
        Used(h) /\ view[h].type = "Resolved" /\ ~ view[h].assigned
            => resolver[view[h].tree] = "some"
=============================================================================
