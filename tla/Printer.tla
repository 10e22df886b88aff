-------------------------------- MODULE Printer --------------------------------
(***************************************************************************)
(* format.rs: the printer, run on what Attach makes of a text, and run a   *)
(* second time on its own output.  A page is a text in the making with the *)
(* line that comes next.  Wording and indentation are left out: what is    *)
(* printed is lexemes on lines.                                            *)
(*                                                                         *)
(* An item has one block at most here, and a field of an aggregate value   *)
(* ("text") none of its own; the parser takes any number of them.          *)
(***************************************************************************)
EXTENDS Attach

VARIABLES
    stage,
    page,    \* what is printed, the next line, and where the printer stands
    frames,  \* the scopes being written, outermost first
    before   \* the text and the attachments of the first round

ASSUME TextsAssumption == TextsAreLexed

printing == <<stage, page, frames, before>>

\* Where these comments stand.
Standing(S) == InOrder({comments[k] : k \in S}, Len(text))

EmptyPage == [out |-> <<>>, n |-> 1, line |-> "start"]

-----------------------------------------------------------------------------
(* Lines.                                                                  *)

Write(p, x) ==
    [p EXCEPT !.out = Append(@, [x EXCEPT !.first = p.n, !.last = p.n + x.last - x.first]),
              !.n = @ + x.last - x.first]

Nl(p) == [p EXCEPT !.n = @ + 1, !.line = "closed"]

\* Exactly one blank line before what comes next, but none at the start.
BlankLine(p) == IF p.line = "closed" THEN [p EXCEPT !.n = @ + 1, !.line = "blank"] ELSE p

\* The lexeme at q is written on the line that is open, on a line of its own, or on
\* one after the blank line it has in the source.
WriteAt(p, q, how) ==
    LET begun == IF how = "spaced" /\ Blank(q) THEN BlankLine(p) ELSE p
        written == Write(begun, text[q])
    IN IF how = "inline" THEN written ELSE Nl(written)
WriteAll(p, s, how) ==
    LET upTo[n \in 0..Len(s)] == IF n = 0 THEN p ELSE WriteAt(upTo[n-1], s[n], how)
    IN upTo[Len(s)]

\* append_trailing: the line just closed is opened again.
AppendTrailing(p, S) ==
    IF S = {} THEN p ELSE Nl(WriteAll([p EXCEPT !.n = @ - 1], Standing(S), "inline"))

-----------------------------------------------------------------------------
(* write_items.                                                            *)

Intro(p, S) ==
    IF S = {} THEN p
    ELSE WriteAll(WriteAt(p, Standing(S)[1], "line"), Tail(Standing(S)), "spaced")

\* begin_item's flag.
BlankBefore(h) ==
    Blank(IF meta[h].leading = {} THEN h ELSE Standing(meta[h].leading)[1])

\* top_force.
Group(h) == IF Kind(h) \in {"message", "enum", "service"} THEN "definition" ELSE Kind(h)
Forced(g, h) == Group(g) # Group(h) \/ Group(h) = "definition"

\* MUTANT of WantBlank: nothing separates the intro from the first item.
WantBlankTight(o, i) ==
    i > 1 /\ (BlankBefore(Items(o)[i]) \/ (o = Root /\ Forced(Items(o)[i-1], Items(o)[i])))

WantBlank(o, i) ==
    IF i = 1 THEN Block(o).intro # {}
    ELSE \/ BlankBefore(Items(o)[i])
         \/ o = Root /\ Forced(Items(o)[i-1], Items(o)[i])

LeadingLines(p, o, i) ==
    WriteAll(IF WantBlank(o, i) THEN BlankLine(p) ELSE p,
           Standing(meta[Items(o)[i]].leading), "line")

\* MUTANT of Rest: the detached comments come first.
RestSwapped(p, h) ==
    AppendTrailing(WriteAll(p, Standing(meta[h].detached), "spaced"), meta[h].trailing)

\* What follows an item that is written.
Rest(p, h) ==
    WriteAll(AppendTrailing(p, meta[h].trailing), Standing(meta[h].detached), "spaced")

Dangling(p, o) == WriteAll(p, Standing(Block(o).dangling), "spaced")

-----------------------------------------------------------------------------
(* Items.                                                                  *)

IsEmpty(o) == Block(o) = EmptyBlock

\* MUTANT of HasComments: those before the closing brace are not looked at.
HasCommentsAbove(o) ==
    \/ Block(o).intro # {}
    \/ \E h \in Range(Items(o)) : meta[h].leading \cup meta[h].trailing \cup meta[h].detached # {}

HasComments(o) ==
    \/ Block(o).intro \cup Block(o).dangling # {}
    \/ \E h \in Range(Items(o)) : meta[h].leading \cup meta[h].trailing \cup meta[h].detached # {}

\* An item with a block is written on several lines if the block is not empty
\* and, in field options, if it has comments to be given a line.
InOptions(h) == Kind(h) \in {"field", "value"}
ManyLines(h) == h \in WithBlock /\ ~IsEmpty(h) /\ (InOptions(h) => HasComments(h))

\* The tokens of the item, on one line; empty statements are not written.
ItemTokens(h) ==
    InOrder({q \in h..meta[h].end : text[q].tok \in {"head", "lb", "rb", "end"}}, Len(text))

Top == Last(frames)
Item == Items(Top.owner)[Top.i]
Passed == [frames EXCEPT ![Len(frames)].i = @ + 1]
Ahead == stage = "print" /\ Top.i <= Len(Items(Top.owner))
Behind == stage = "print" /\ Top.i > Len(Items(Top.owner))

FormatInit ==
    /\ Init
    /\ stage = "parse"
    /\ page = EmptyPage
    /\ frames = <<>>
    /\ before = [text |-> <<>>, attached |-> <<>>]

Parse == stage = "parse" /\ Next /\ UNCHANGED printing

Start ==
    /\ stage = "parse" /\ at = "done"
    /\ stage' = "print"
    /\ page' = Intro(EmptyPage, block[Root].intro)
    /\ frames' = <<[owner |-> Root, i |-> 1]>>
    /\ UNCHANGED <<vars, before>>

WriteItem ==
    /\ Ahead /\ ~ManyLines(Item)
    /\ LET led == LeadingLines(page, Top.owner, Top.i)
       IN page' = Rest(Nl(WriteAll(led, ItemTokens(Item), "inline")), Item)
    /\ frames' = Passed
    /\ UNCHANGED <<vars, stage, before>>

\* write_braced_block and write_text_msg_block up to the items; the value of a
\* field's option is on a line of its own.
OpenBlock ==
    /\ Ahead /\ ManyLines(Item)
    /\ LET name == Write(LeadingLines(page, Top.owner, Top.i), text[Item])
           brace == Write(IF InOptions(Item) THEN Nl(name) ELSE name, text[Opening(Item)])
       IN page' = Intro(Nl(brace), Block(Item).intro)
    /\ frames' = Append(frames, [owner |-> Item, i |-> 1])
    /\ UNCHANGED <<vars, stage, before>>

CloseBlock ==
    /\ Behind /\ Top.owner # Root
    /\ LET h == Top.owner
           brace == Write(Dangling(page, h), text[Closing(Opening(h))])
           ended == IF Kind(h) \in Braced THEN brace
                    ELSE Write(IF InOptions(h) THEN Nl(brace) ELSE brace, text[meta[h].end])
       IN page' = Rest(Nl(ended), h)
    /\ frames' = [Front(frames) EXCEPT ![Len(frames) - 1].i = @ + 1]
    /\ UNCHANGED <<vars, stage, before>>

-----------------------------------------------------------------------------
(* The attachments of a text, by the number of the item and the comment.   *)

Attached ==
    [i \in 1..Cardinality(Heads) |->
        LET h == InOrder(Heads, Len(text))[i]
        IN [leading |-> meta[h].leading, trailing |-> meta[h].trailing,
            detached |-> meta[h].detached, intro |-> Block(h).intro,
            dangling |-> Block(h).dangling]]
    \o <<block[Root].intro, block[Root].dangling>>

Printed == Write(Dangling(page, Root), text[Len(text)]).out

\* The output is parsed and printed again.
Again ==
    /\ Behind /\ Top.owner = Root /\ before.text = <<>>
    /\ before' = [text |-> text, attached |-> Attached]
    /\ text' = Printed
    /\ toks' = Stream(text', Tokens)
    /\ comments' = Stream(text', {"comment"})
    /\ ti' = 1 /\ ci' = 0 /\ last' = 0 /\ at' = "items" /\ open' = <<>> /\ depth' = 0
    /\ meta' = [h \in Heads' |-> EmptyMeta]
    /\ block' = [b \in Blocks' \cup {Root} |-> EmptyBlock]
    /\ stage' = "parse" /\ page' = EmptyPage /\ frames' = <<>>

Finish ==
    /\ Behind /\ Top.owner = Root /\ before.text # <<>>
    /\ page' = [page EXCEPT !.out = Printed]
    /\ stage' = "done"
    /\ frames' = <<>>
    /\ UNCHANGED <<vars, before>>

FormatNext == Parse \/ Start \/ WriteItem \/ OpenBlock \/ CloseBlock \/ Again \/ Finish

FormatSpec == FormatInit /\ [][FormatNext]_<<vars, printing>>

-----------------------------------------------------------------------------
(* Correctness.                                                            *)

Unplaced(t, keep(_)) == SelectSeq([i \in 1..Len(t) |-> [t[i] EXCEPT !.first = 0, !.last = 0]], keep)

\* "format(format(x)) == format(x)": lexemes, line breaks and blank lines of the
\* output are those of what it is formatted to, wherever comments stand.
Idempotent == stage = "done" => page.out = text

\* "Everything the printer emits comes verbatim from the CST": the output has
\* the tokens of the source but for empty statements, its comments, and both in
\* the order they had.
NothingIsLost ==
    before.text # <<>> =>
        LET Words(t) == Unplaced(t, LAMBDA x : x.tok \notin {"comment", "semi"})
            Remarks(t) == SelectSeq([i \in 1..Len(t) |-> [t[i] EXCEPT !.first = 0, !.last = @ - t[i].first]],
                                    LAMBDA x : x.tok = "comment")
        IN Words(text) = Words(before.text) /\ Remarks(text) = Remarks(before.text)

\* "Comments are printed where the parser attached them, so a second parse
\* attaches them identically."
StableAttachment == before.text # <<>> /\ at = "done" => Attached = before.attached

\* No comment stands inside an item or before an empty statement.
Tidy(t) == \A i \in 1..Len(t) - 1 :
    t[i].tok = "comment" => t[i+1].tok \in {"comment", "head", "rb", "eof"}

\* The same where comments stand between items only.
StableWhereTidy == Tidy(before.text) => StableAttachment
=============================================================================
