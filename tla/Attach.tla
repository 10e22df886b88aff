-------------------------------- MODULE Attach --------------------------------
(***************************************************************************)
(* The item protocol of parse.rs: block_items with begin_item,             *)
(* finish_trailing and take_pending.  A token cursor walks the items of    *)
(* nested blocks, a comment cursor hands out the comments between them,    *)
(* each as one run: as leading, trailing or detached comments of an item,  *)
(* or as intro or dangling comments of a block.                            *)
(*                                                                         *)
(* A text is a sequence of lexemes with the lines they stand on.  The      *)
(* tokens of an item are reduced to its first one ("head"), the braces of  *)
(* the blocks in it ("lb", "rb") and its last one ("end"), which an item   *)
(* that ends with a block does not have.  Which tokens stand between those *)
(* is grammar and left out; comments may stand anywhere.  An item is named *)
(* by the position of its head, a block by that of its opening brace.  The *)
(* blank-line flag of begin_item, which only the printer reads, is left    *)
(* out.                                                                    *)
(***************************************************************************)
EXTENDS Integers, Sequences, FiniteSets, SequencesExt

CONSTANTS
    Texts,      \* the texts to parse
    MaxNesting  \* MAX_NESTING

\* Items that end with the brace of their block, if they have one.
Braced == {"message", "oneof", "enum", "service", "rpc"}
\* "alias" is the option allow_alias = true of an enum, "text" a field of an
\* aggregate value.
Leaves == {"syntax", "package", "import", "option", "alias", "field", "value",
           "reserved", "text"}

Tokens == {"head", "lb", "rb", "end", "semi", "eof"}
\* num: the number of a field or an enum value.
Lexemes ==
    [tok : Tokens \cup {"comment"},
     kind : Braced \cup Leaves \cup {"none"}, num : Int, first : Nat, last : Nat]

\* What the lexer makes of a file.
IsText(t) ==
    /\ t \in Seq(Lexemes) /\ t # <<>>
    /\ \A p \in 1..Len(t) : t[p].tok = "eof" <=> p = Len(t)
    /\ \A p \in 1..Len(t) : t[p].first <= t[p].last
    /\ \A p \in 2..Len(t) : t[p-1].last <= t[p].first

\* Assumed by the modules that parse.
TextsAreLexed == MaxNesting \in Nat /\ \A t \in Texts : IsText(t)

VARIABLES
    text,
    toks,      \* the positions of the tokens: the token stream
    comments,  \* the positions of the comments: the comment stream
    ti,        \* the current token
    ci,        \* how many comments have been handed out
    last,      \* the position of the token consumed last
    at,        \* where the parser is
    open,      \* the items and blocks being parsed, outermost first
    depth,
    meta,      \* item -> its span's end and its comments
    block      \* opening brace -> the block; Root -> the file

parsed == <<toks, comments, ti, ci, last, at, open, depth, meta, block>>
vars == <<text, parsed>>
cursor == <<ti, ci, last>>

Root == 0
Heads == {p \in 1..Len(text) : text[p].tok = "head"}
Blocks == {p \in 1..Len(text) : text[p].tok = "lb"}
\* What is being parsed, and what that is in.
Owner == IF open = <<>> THEN Root ELSE open[Len(open)]
Outer == IF Len(open) < 2 THEN Root ELSE open[Len(open) - 1]
Peek == toks[ti]
PeekIs(tok) == text[Peek].tok = tok
Blank(p) == p > 1 /\ text[p].first > text[p-1].last + 1

EmptyMeta == [end |-> 0, leading |-> {}, trailing |-> {}, detached |-> {}]
EmptyBlock == [intro |-> {}, items |-> <<>>, dangling |-> {}]

-----------------------------------------------------------------------------
\* The numbers up to N that are in S.
InOrder(S, N) ==
    LET upTo[n \in 0..N] ==
          IF n = 0 THEN <<>> ELSE IF n \in S THEN Append(upTo[n-1], n) ELSE upTo[n-1]
    IN upTo[N]

\* The lexer's two streams: the places of the lexemes of these sorts.
Stream(t, sorts) == InOrder({p \in 1..Len(t) : t[p].tok \in sorts}, Len(t))

Init ==
    /\ text \in Texts
    /\ toks = Stream(text, Tokens)
    /\ comments = Stream(text, {"comment"})
    /\ ti = 1 /\ ci = 0 /\ last = 0
    /\ at = "items"
    /\ open = <<>>
    /\ depth = 0
    /\ meta = [h \in Heads |-> EmptyMeta]
    /\ block = [b \in Blocks \cup {Root} |-> EmptyBlock]

\* advance: the token at the end of the file is never passed.
Advance ==
    /\ ti' = IF PeekIs("eof") THEN ti ELSE ti + 1
    /\ last' = Peek

\* take_pending: the comments not handed out that stand before the current token.
Pending == {k \in ci + 1 .. Len(comments) : comments[k] < Peek}
Take(S) == ci' = ci + Cardinality(S)

\* MUTANT of Skip: the comments before an empty statement are skipped with it.
SkipWithComments ==
    /\ at = "items" /\ PeekIs("semi")
    /\ Advance /\ Take(Pending)
    /\ UNCHANGED <<text, toks, comments, at, open, depth, meta, block>>

\* An empty statement.
Skip ==
    /\ at = "items" /\ PeekIs("semi")
    /\ Advance
    /\ UNCHANGED <<text, toks, comments, ci, at, open, depth, meta, block>>

\* The pending comments lead the item if they reach the line above it; the
\* leading ones are those after the last blank line among them.
Leading ==
    {k \in Pending :
        /\ text[Peek].first <= text[comments[ci + Cardinality(Pending)]].last + 1
        /\ \A j \in Pending : j > k => ~Blank(comments[j])}

\* begin_item, and the first token of the item.  What does not lead it belongs
\* to the item before it, or to the block.
BeginItem ==
    /\ at = "items" /\ PeekIs("head")
    /\ Take(Pending)
    /\ LET before == block[Owner].items
           toPrev == Pending \ Leading
           detach == toPrev # {} /\ before # <<>>
           with == [meta EXCEPT ![Peek].leading = Leading]
       IN /\ meta' = IF detach THEN [with EXCEPT ![Last(before)].detached = toPrev] ELSE with
          /\ block' = IF toPrev # {} /\ before = <<>>
                      THEN [block EXCEPT ![Owner].intro = toPrev] ELSE block
    /\ open' = Append(open, Peek)
    /\ at' = "item"
    /\ Advance
    /\ UNCHANGED <<text, toks, comments, depth>>

\* A block opens, if it does not nest too deep.
EnterBlock ==
    /\ at = "item" /\ PeekIs("lb")
    /\ depth' = depth + 1
    /\ open' = Append(open, Peek)
    /\ at' = IF depth + 1 > MaxNesting THEN "error" ELSE "items"
    /\ Advance
    /\ UNCHANGED <<text, toks, comments, ci, meta, block>>

Closer == IF open = <<>> THEN "eof" ELSE "rb"

\* The closing brace of a block, or the end of the file.
EndBlock ==
    /\ at = "items" /\ PeekIs(Closer)
    /\ block' = [block EXCEPT ![Owner].dangling = Pending]
    /\ Take(Pending)
    /\ Advance
    /\ IF open = <<>> THEN at' = "done" /\ UNCHANGED <<open, depth>>
       ELSE /\ at' = IF text[Outer].kind \in Braced THEN "finish" ELSE "item"
            /\ open' = Front(open)
            /\ depth' = depth - 1
    /\ UNCHANGED <<text, toks, comments, meta>>

\* The last token of an item that does not end with a block.
EndItem ==
    /\ at = "item" /\ PeekIs("end")
    /\ Advance
    /\ at' = "finish"
    /\ UNCHANGED <<text, toks, comments, ci, open, depth, meta, block>>

\* finish_trailing: the run of pending comments on the line the item ends on.
Trailing ==
    {k \in Pending : \A j \in Pending : j <= k => text[comments[j]].first = text[last].first}

\* The separator after a text field is optional.
WithoutSeparator ==
    /\ at = "item" /\ text[Owner].kind = "text" /\ text[last].tok = "rb"
    /\ ~PeekIs("lb") /\ ~PeekIs("end")

FinishItem ==
    /\ at = "finish" \/ WithoutSeparator
    /\ Take(Trailing)
    /\ meta' = [meta EXCEPT ![Owner].end = last, ![Owner].trailing = Trailing]
    /\ open' = Front(open)
    /\ block' = [block EXCEPT ![Outer].items = Append(@, Owner)]
    /\ at' = "items"
    /\ UNCHANGED <<text, toks, comments, ti, last, depth>>

\* The file ends inside an item.
Unclosed ==
    /\ PeekIs("eof")
    /\ at = "item" \/ (at = "items" /\ open # <<>>)
    /\ at' = "error"
    /\ UNCHANGED <<text, toks, comments, ti, ci, last, open, depth, meta, block>>

Next ==
    \/ Skip \/ BeginItem \/ EnterBlock \/ EndBlock \/ EndItem \/ FinishItem \/ Unclosed

Spec == Init /\ [][Next]_vars
FairSpec == Spec /\ WF_vars(Next)

-----------------------------------------------------------------------------
(* The tree, as the printer and prune walk it.                             *)

\* The block of an item: the one that follows its head, if any.
Opening(h) == CHOOSE p \in h+1..Len(text) :
    text[p].tok # "comment" /\ \A q \in h+1..p-1 : text[q].tok = "comment"
WithBlock == {h \in Heads : text[Opening(h)].tok = "lb"}
Block(o) == IF o = Root THEN block[Root]
            ELSE IF o \in WithBlock THEN block[Opening(o)] ELSE EmptyBlock
Items(o) == Block(o).items
Kind(h) == text[h].kind

-----------------------------------------------------------------------------
(* Correctness.                                                            *)

Streams == 1..Len(comments)

\* How many blocks position p stands in, by counting braces.
Braces(p, tok) == Cardinality({q \in 1..p-1 : text[q].tok = tok})
Nesting(p) == Braces(p, "lb") - Braces(p, "rb")

\* The brace that closes block b.
IsClosing(b, p) ==
    /\ text[p].tok = "rb" /\ Nesting(p) = Nesting(b) + 1
    /\ \A q \in b+1..p-1 : text[q].tok = "rb" => Nesting(q) # Nesting(b) + 1
Closing(b) == CHOOSE p \in b+1..Len(text) : IsClosing(b, p)

\* The token before b.
Before(b) == CHOOSE p \in 1..b-1 :
    text[p].tok # "comment" /\ \A q \in p+1..b-1 : text[q].tok = "comment"

\* Where the printer writes comment k, as the set of the places it is attached
\* at: format.rs writes the intro of a block, each item between its leading
\* comments and its trailing and detached ones, then what dangles.
Places(k) ==
    {4 * h : h \in {x \in Heads : k \in meta[x].leading}}
    \cup {4 * b + 1 : b \in {x \in Blocks \cup {Root} : k \in block[x].intro}}
    \cup {4 * meta[h].end + 2 : h \in {x \in Heads : k \in meta[x].trailing}}
    \cup {4 * meta[h].end + 3 : h \in {x \in Heads : k \in meta[x].detached}}
    \cup {4 * Closing(b) : b \in {x \in Blocks : k \in block[x].dangling}}
    \cup {4 * Len(text) : d \in block[Root].dangling \cap {k}}

\* "Every attachment is a contiguous run of the comment stream": wherever
\* comments stand, each is attached exactly once, and the printer, who sees
\* only attachments, writes them in the order of the source.
CommentsKeepOrder ==
    at = "done" =>
        /\ \A k \in Streams : Cardinality(Places(k)) = 1
        /\ \A j, k \in Streams : j < k =>
              \A p \in Places(j), q \in Places(k) : p <= q

\* A comment between the braces of a block is attached inside that block, one
\* before the header of the block or after its closing brace is not: what deleting
\* an item takes along, and what it leaves, is what a reader sees inside and outside.
CommentsKeepScope ==
    at = "done" => \A b \in Blocks, k \in Streams : \A p \in Places(k) :
        LET inside == 4 * b < p /\ p <= 4 * Closing(b)
        IN /\ b < comments[k] /\ comments[k] < Closing(b) => inside
           /\ comments[k] < Before(b) \/ comments[k] > Closing(b) => ~inside

\* Both, for whatever stands in a text.
CommentsKeepTheirPlace == CommentsKeepOrder /\ CommentsKeepScope

=============================================================================
