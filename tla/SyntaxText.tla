----------------------------- MODULE SyntaxText -----------------------------
(***************************************************************************)
(* SyntaxText and SyntaxData (syntax/text.rs): the text below a node, or a *)
(* slice of it, read token by token and never put together.                *)
(*                                                                         *)
(* A view has the texts of the tokens below its node in order, the offset  *)
(* at which the node starts, and an absolute range.  A text is a sequence  *)
(* of bytes; a str may only be cut between characters, and a read that     *)
(* cuts elsewhere panics.                                                  *)
(***************************************************************************)
EXTENDS Integers, Picking

CONSTANTS
    Chars,           \* characters
    Encode,          \* the bytes of each character
    Continuation,    \* the bytes that do not begin a character
    NoBound,         \* start() or end() of an open range
    NodeStart,       \* where the node of the first view begins
    U32,             \* 2^32, the modulus of offsets
    OverflowChecks,  \* whether an overflowing addition panics
    MaxTokens,       \* bound: tokens below a node
    MaxChars         \* bound: characters below a node

ASSUME SyntaxTextAssumption ==
    /\ Encode \in [Chars -> Seq(0 .. 255)]
    /\ \A c \in Chars : /\ Len(Encode[c]) > 0
                        /\ \A i \in DOMAIN Encode[c] : (Encode[c][i] \in Continuation) <=> i > 1
    /\ \A c, d \in Chars : IsPrefix(Encode[c], Encode[d]) => c = d
    /\ NoBound \notin Nat
    /\ {NodeStart, MaxTokens, MaxChars} \subseteq Nat /\ U32 \in Nat \ {0}
    /\ OverflowChecks \in BOOLEAN

VARIABLES
    text,   \* the view the client slices
    other,  \* a view it is compared with
    status  \* "ok", or "panicked" after a failed assertion of slice

vars == <<text, other, status>>

Bytes(string) == FlattenSeq([i \in DOMAIN string |-> Encode[string[i]]])

Strings == UNION {[1 .. n -> Chars] : n \in 0 .. MaxChars}

\* The ways to distribute at most MaxChars characters over tokens.
Tokenised ==
    {ts \in UNION {[1 .. n -> Strings] : n \in 0 .. MaxTokens} :
        Len(FlattenSeq(ts)) <= MaxChars}

TextLen(tokens) == Len(FlattenSeq(tokens))

\* SyntaxText::new
View(tokens, from) ==
    [tokens |-> tokens, from |-> from, start |-> from, end |-> from + TextLen(tokens)]

\* The text of a tree has offsets, so its length fits them.
ASSUME OffsetsFit ==
    \A ts \in Tokenised : NodeStart + TextLen([i \in DOMAIN ts |-> Bytes(ts[i])]) < U32

ViewLen(v) == v.end - v.start

----------------------------------------------------------------------------
(* slice *)

\* The addition of two TextSizes.
Plus(m, n) == (m + n) % U32
PlusPanics(m, n) == OverflowChecks /\ m + n >= U32

SliceStart(v, from) == IF from = NoBound THEN 0 ELSE from
SliceEnd(v, to) == IF to = NoBound THEN ViewLen(v) ELSE to

\* Mutant: forgets where the view starts.
Sliced_FromZero(v, from, to) ==
    [v EXCEPT !.start = v.from + SliceStart(v, from),
              !.end = v.from + SliceStart(v, from) + (SliceEnd(v, to) - SliceStart(v, from))]

\* The range of the slice; its end is meant only if SliceStart <= SliceEnd.
Sliced(v, from, to) ==
    LET start == Plus(v.start, SliceStart(v, from))
        len   == SliceEnd(v, to) - SliceStart(v, from)
    IN  [v EXCEPT !.start = start, !.end = Plus(start, len)]

SlicePanics(v, from, to) ==
    \/ SliceStart(v, from) > SliceEnd(v, to)
    \/ PlusPanics(v.start, SliceStart(v, from))
    \/ LET s == Sliced(v, from, to) IN
       \/ PlusPanics(s.start, SliceEnd(v, to) - SliceStart(v, from))
       \/ s.start > s.end
       \/ ~ (v.start <= s.start /\ s.end <= v.end)

----------------------------------------------------------------------------
(* tokens_with_ranges *)

\* Where token i begins.
TokenStart(v, i) == v.from + TextLen(SubSeq(v.tokens, 1, i - 1))

\* The chunks whose token meets the range.
Meeting(chunks) == Picked(chunks, {i \in DOMAIN chunks : chunks[i].start <= chunks[i].end})

\* Mutant: ranges are not relative to the token.
TokensWithRanges_Absolute(v) ==
    Meeting([i \in DOMAIN v.tokens |->
                [token |-> v.tokens[i], start |-> Max({v.start, TokenStart(v, i)}),
                 end |-> Min({v.end, TokenStart(v, i + 1)})]])

\* The part of every token that lies in the range, relative to the token.  A
\* token that only touches the range contributes an empty part.
TokensWithRanges(v) ==
    Meeting([i \in DOMAIN v.tokens |->
                [token |-> v.tokens[i],
                 start |-> Max({v.start, TokenStart(v, i)}) - TokenStart(v, i),
                 end |-> Min({v.end, TokenStart(v, i + 1)}) - TokenStart(v, i)]])

\* str indexing: both ends have to be character boundaries.
IsBoundary(bytes, i) ==
    i = 0 \/ i = Len(bytes) \/ (i < Len(bytes) /\ bytes[i + 1] \notin Continuation)
Readable(c) == c.start <= c.end /\ IsBoundary(c.token, c.start) /\ IsBoundary(c.token, c.end)
ChunkText(c) == SubSeq(c.token, c.start + 1, c.end)
IsEmpty(c) == c.start = c.end

Texts(chunks) == [i \in DOMAIN chunks |-> ChunkText(chunks[i])]

\* The chunks of SyntaxData, which slices bytes and may cut anywhere.
DataChunks(v) == Texts(TokensWithRanges(v))

\* What a method returns: nothing, a value, or a panic.
Nothing == <<"None">>
Found(x) == <<"Some", x>>
Panics == <<"panic">>

\* try_for_each_chunk stops at the first chunk it cannot read, and at the
\* first one among `stops'.
FirstStop(chunks, stops) ==
    LET S == {i \in DOMAIN chunks : ~ Readable(chunks[i]) \/ i \in stops} IN
    IF S = {} THEN 0 ELSE Min(S)

\* Display, and to_string with it: all chunks in order.
DisplayText(v) ==
    LET chunks == TokensWithRanges(v) IN
    IF FirstStop(chunks, {}) # 0 THEN Panics
    ELSE Found(FlattenSeq(Texts(chunks)))

\* The bytes in front of chunk i.
Before(chunks, i) == TextLen(Texts(SubSeq(chunks, 1, i - 1)))

\* The places in a sequence of bytes where a character is.
Occurrences(bytes, c) ==
    {p \in 0 .. Len(bytes) - 1 : IsPrefix(Encode[c], SubSeq(bytes, p + 1, Len(bytes)))}

\* Mutant: counts from the start of the chunk.
FindChar_InChunk(v, c) ==
    LET chunks == TokensWithRanges(v)
        k == FirstStop(chunks, {i \in DOMAIN chunks : Occurrences(ChunkText(chunks[i]), c) # {}})
    IN  IF k = 0 THEN Nothing ELSE IF ~ Readable(chunks[k]) THEN Panics
        ELSE Found(Min(Occurrences(ChunkText(chunks[k]), c)))

\* find_char; contains_char is whether it finds something.
FindChar(v, c) ==
    LET chunks == TokensWithRanges(v)
        k == FirstStop(chunks, {i \in DOMAIN chunks : Occurrences(ChunkText(chunks[i]), c) # {}})
    IN  IF k = 0 THEN Nothing
        ELSE IF ~ Readable(chunks[k]) THEN Panics
        ELSE Found(Before(chunks, k) + Min(Occurrences(ChunkText(chunks[k]), c)))

HoldsOffset(chunks, i, offset) ==
    Before(chunks, i) <= offset /\ offset < Before(chunks, i) + Len(ChunkText(chunks[i]))

CharAt(v, offset) ==
    LET chunks == TokensWithRanges(v)
        k == FirstStop(chunks, {i \in DOMAIN chunks : HoldsOffset(chunks, i, offset)})
        off == offset - Before(chunks, k)
        here == {c \in Chars : off \in Occurrences(ChunkText(chunks[k]), c)}
    IN  IF k = 0 THEN Nothing
        ELSE IF Readable(chunks[k]) /\ here # {} THEN Found(CHOOSE c \in here : TRUE)
        ELSE Panics

----------------------------------------------------------------------------
(* Comparison *)

\* == with a str, which every chunk shortens by its length.
EqStr(v, rhs) ==
    LET chunks == TokensWithRanges(v)
        Rest(i) == SubSeq(rhs, Before(chunks, i) + 1, Len(rhs))
        k == FirstStop(chunks, {i \in DOMAIN chunks : ~ IsPrefix(ChunkText(chunks[i]), Rest(i))})
    IN  IF k = 0 THEN Found(Rest(Len(chunks) + 1) = <<>>)
        ELSE IF ~ Readable(chunks[k]) THEN Panics
        ELSE Found(FALSE)

\* What is left of a chunk after n bytes.
Advance(c, n) == [c EXCEPT !.start = @ + n]

NoChunk == [token |-> <<>>, start |-> 0, end |-> 0]

\* zip_texts has taken i chunks from one iterator and j from the other, x and y
\* are what is left of the last ones.
Zipped(i, x, j, y, outcome) == [i |-> i, x |-> x, j |-> j, y |-> y, outcome |-> outcome]

ZipStart(xs, ys) ==
    IF xs = <<>> THEN Zipped(0, NoChunk, 0, NoChunk, "end")
    ELSE IF ys = <<>> THEN Zipped(1, xs[1], 0, NoChunk, "end")
    ELSE Zipped(1, xs[1], 1, ys[1], "more")

\* One step of its loop.
ZipStep(xs, ys, z) ==
    LET m == Min({z.x.end - z.x.start, z.y.end - z.y.start}) IN
    IF z.outcome # "more" THEN z
    ELSE IF IsEmpty(z.x)
    THEN IF z.i = Len(xs) THEN [z EXCEPT !.outcome = "end"]
         ELSE [z EXCEPT !.i = z.i + 1, !.x = xs[z.i + 1]]
    ELSE IF IsEmpty(z.y)
    THEN IF z.j = Len(ys) THEN [z EXCEPT !.outcome = "end"]
         ELSE [z EXCEPT !.j = z.j + 1, !.y = ys[z.j + 1]]
    ELSE IF ~ Readable(z.x) \/ ~ Readable(z.y) THEN [z EXCEPT !.outcome = "panic"]
    ELSE IF ~ (IsPrefix(ChunkText(z.x), ChunkText(z.y)) \/ IsPrefix(ChunkText(z.y), ChunkText(z.x)))
    THEN [z EXCEPT !.outcome = "differ"]
    ELSE [z EXCEPT !.x = Advance(z.x, m), !.y = Advance(z.y, m)]

\* Every chunk is taken once and emptied once, so the loop ends in this time.
ZipTime(xs, ys) == 2 * (Len(xs) + Len(ys))

ZipTexts(xs, ys) ==
    LET zip[n \in 0 .. ZipTime(xs, ys)] ==
            IF n = 0 THEN ZipStart(xs, ys) ELSE ZipStep(xs, ys, zip[n - 1])
    IN  zip[ZipTime(xs, ys)]

AllEmptyAfter(chunks, i) == \A k \in i + 1 .. Len(chunks) : IsEmpty(chunks[k])

\* Mutant: relies on the rests alone.
Eq_AnyLength(v, w) ==
    LET xs == TokensWithRanges(v)
        ys == TokensWithRanges(w)
        z  == ZipTexts(xs, ys)
    IN  IF z.outcome = "panic" THEN Panics
        ELSE Found(z.outcome = "end" /\ AllEmptyAfter(xs, z.i) /\ AllEmptyAfter(ys, z.j))

\* == of two texts.
Eq(v, w) ==
    LET xs == TokensWithRanges(v)
        ys == TokensWithRanges(w)
        z  == ZipTexts(xs, ys)
    IN  IF ViewLen(v) # ViewLen(w) THEN Found(FALSE)
        ELSE IF z.outcome = "panic" THEN Panics
        ELSE Found(z.outcome = "end" /\ AllEmptyAfter(xs, z.i) /\ AllEmptyAfter(ys, z.j))

----------------------------------------------------------------------------
\* One view is the text of an inner node and is sliced again and again; the
\* other is the text of a root.
Init ==
    /\ \E ts \in Tokenised : text = View([i \in DOMAIN ts |-> Bytes(ts[i])], NodeStart)
    /\ \E ts \in Tokenised : other = View([i \in DOMAIN ts |-> Bytes(ts[i])], 0)
    /\ status = "ok"

Slice(from, to) ==
    /\ status = "ok"
    /\ \/ SlicePanics(text, from, to) /\ status' = "panicked" /\ UNCHANGED text
       \/ ~ SlicePanics(text, from, to) /\ text' = Sliced(text, from, to) /\ UNCHANGED status
    /\ UNCHANGED other

Bounds == {NoBound} \cup (0 .. U32 - 1)

Next == \E from, to \in Bounds : Slice(from, to)

Spec == Init /\ [][Next]_vars

----------------------------------------------------------------------------
(* Properties *)

\* Every variable has its type, and the range lies within the node's.
TypeOK ==
    /\ status \in {"ok", "panicked"}
    /\ \A v \in {text, other} :
           /\ v.start \in v.from .. v.end
           /\ v.end <= v.from + TextLen(v.tokens)

\* The bytes of a view, from the text put together.
TrueBytes(v) == SubSeq(FlattenSeq(v.tokens), v.start - v.from + 1, v.end - v.from)

\* The view does not begin or end inside a character.
OnBoundaries(v) ==
    /\ IsBoundary(FlattenSeq(v.tokens), v.start - v.from)
    /\ IsBoundary(FlattenSeq(v.tokens), v.end - v.from)

\* The chunks of a view, put together, are its bytes, for SyntaxData wherever
\* it was cut.  As strs they can be read if and only if the view was cut between
\* characters.
ChunksFaithful ==
    /\ FlattenSeq(DataChunks(text)) = TrueBytes(text)
    /\ DisplayText(text) = IF OnBoundaries(text) THEN Found(TrueBytes(text)) ELSE Panics

\* find_char finds the first place of the character in the whole text, in
\* whichever token it is, and nothing only if there is none.  char_at at the
\* place of a character returns it, and nothing behind the end.  (Inside a
\* character char_at slices a str where no character begins and panics.)
SearchFaithful ==
    OnBoundaries(text) =>
        /\ \A c \in Chars :
               LET places == Occurrences(TrueBytes(text), c) IN
               /\ FindChar(text, c) = IF places = {} THEN Nothing ELSE Found(Min(places))
               /\ \A p \in places : CharAt(text, p) = Found(c)
        /\ CharAt(text, ViewLen(text)) = Nothing

\* Two texts are equal exactly when their bytes are, wherever the borders of
\* their tokens lie and however many tokens are empty; likewise with a str.
EqFaithful ==
    OnBoundaries(text) /\ OnBoundaries(other) =>
        /\ Eq(text, other) = Found(TrueBytes(text) = TrueBytes(other))
        /\ Eq(other, text) = Eq(text, other)
        /\ \A s \in Strings : EqStr(text, Bytes(s)) = Found(TrueBytes(text) = Bytes(s))

\* A slice of a view is the same part of its bytes: also of a view that is
\* itself a slice.  Bounds outside the view panic, also those so large that
\* the sum wraps.
SliceFaithful ==
    \A from, to \in Bounds :
        LET m == SliceStart(text, from)
            n == SliceEnd(text, to)
        IN  IF m <= n /\ n <= ViewLen(text)
            THEN /\ ~ SlicePanics(text, from, to)
                 /\ TrueBytes(Sliced(text, from, to)) = SubSeq(TrueBytes(text), m + 1, n)
            ELSE SlicePanics(text, from, to)
=============================================================================
