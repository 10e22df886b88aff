----------------------------------- MODULE Lex -----------------------------------
(***************************************************************************)
(* The lexer of lex.rs: run() takes one piece of the text after the other, *)
(* a run of white space, a comment or a token, and keeps the line it is on *)
(* and the line the piece before ended on.  An error ends it.              *)
(*                                                                         *)
(* A text is the sequence of its bytes in UTF-8.  Beyond ASCII, which only *)
(* strings and comments have, a byte is like a letter, but at the end of a *)
(* line comment, where all white space of Unicode is trimmed.  Error texts *)
(* and the texts of tokens are left out, except what the parser reads of   *)
(* them: the keyword an identifier is, the value of an integer and whether *)
(* a string reads proto3.                                                  *)
(***************************************************************************)
EXTENDS Swar, TLC

CONSTANTS
    Keywords,  \* the spelling of a keyword -> the keyword: classify_ident
    Proto3     \* the spelling of proto3

VARIABLES
    text,
    i, line,        \* the next byte, and the line it is on
    prev_end_line,  \* the line the last token or comment ended on, or 0
    toks, comments,
    at              \* what the program is doing

lexing == <<i, line, prev_end_line, toks, comments>>

Quotes == {34, 39}
Dot == 46
Slash == 47
Star == 42
Zero == 48
Octals == 48..55
Hexes == Digits \cup (65..70) \cup (97..102)
Ee == {69, 101}
Ff == {70, 102}
Xx == {88, 120}
Signs == {43, 45}
\* The letters abfnrtv, the backslash, both quotes and the question mark.
Escapes == {97, 98, 102, 110, 114, 116, 118, 92, 39, 34, 63}
Punct == 123 :> "{" @@ 125 :> "}" @@ 40 :> "(" @@ 41 :> ")" @@ 91 :> "[" @@ 93 :> "]"
      @@ 60 :> "<" @@ 62 :> ">" @@ 61 :> "=" @@ 59 :> ";" @@ 44 :> "," @@ 58 :> ":"
      @@ 45 :> "-" @@ 43 :> "+" @@ Dot :> "." @@ Slash :> "/"

Past == 256  \* no byte
ByteAt(b, j) == IF j < Len(b) THEN b[j+1] ELSE Past
Cut(b, from, to) == SubSeq(b, from + 1, to)
\* The end of the run of bytes in S at j, of n bytes at most.
RunOf(b, j, S) == NextAt(b, j, LAMBDA c : c \notin S)
UpTo(b, j, S, n) == Least({RunOf(b, j, S), j + n})

-----------------------------------------------------------------------------
\* parse_int: decimal, hexadecimal or octal.  It may fail on what does not fit
\* 64 bits, which the parser's model decides on the value.
Digit(c) == IF c \in Digits THEN c - 48 ELSE IF c \in 65..70 THEN c - 55 ELSE c - 87
Radix(ds, r) ==
    LET upTo[k \in 0..Len(ds)] == IF k = 0 THEN 0 ELSE upTo[k-1] * r + Digit(ds[k])
    IN upTo[Len(ds)]
parse_int(w) ==
    IF Len(w) > 1 /\ w[2] \in Xx THEN Radix(Cut(w, 2, Len(w)), 16)
    ELSE IF Len(w) > 1 /\ w[1] = Zero THEN Radix(Tail(w), 8)
    ELSE Radix(w, 10)

classify_ident(w) == IF w \in DOMAIN Keywords THEN Keywords[w] ELSE "none"

-----------------------------------------------------------------------------
blank_before(start_line) == prev_end_line # 0 /\ start_line > prev_end_line + 1

\* push_tok: the token from i to end.
push_tok(kind, end) ==
    LET w == Cut(text, i, end)
    IN toks' = Append(toks,
         [kind |-> kind, start |-> i, end |-> end, line |-> line, blank |-> blank_before(line),
          kw |-> IF kind = "Ident" THEN classify_ident(w) ELSE "none",
          val |-> IF kind = "Int" THEN parse_int(w)
                  ELSE IF kind = "Str" /\ Cut(w, 1, Len(w) - 1) = Proto3 THEN 1 ELSE 0])

Token(kind, end) ==
    /\ push_tok(kind, end)
    /\ i' = end
    /\ prev_end_line' = line
    /\ UNCHANGED <<line, comments, at>>

Reject == at' = "malformed" /\ UNCHANGED lexing

\* A piece that starts with a byte of S.
StartsWith(S) == at = "lex" /\ ByteAt(text, i) \in S

Whitespace ==
    /\ StartsWith(OtherSpace \cup {NL})
    /\ LET run == scan_ws(text, i)
       IN i' = run.end /\ line' = line + run.lines
    /\ UNCHANGED <<prev_end_line, toks, comments, at>>

SlashThen(S) == StartsWith({Slash}) /\ ByteAt(text, i + 1) \in S

\* The comment from i to end; its text ends where span ends.
Comment(kind, span, end, line_end) ==
    /\ comments' = Append(comments,
         [kind |-> kind, start |-> i, end |-> span, line |-> line, line_end |-> line_end,
          blank |-> blank_before(line)])
    /\ i' = end
    /\ line' = line_end
    /\ prev_end_line' = line_end
    /\ UNCHANGED <<toks, at>>

\* char::is_whitespace, but for the newline: U+0085, U+00A0, U+1680, U+2000 to
\* U+200A, U+2028, U+2029, U+202F, U+205F, U+3000, and the bytes of CLS_WS.
SpaceCharacters ==
    {<<c>> : c \in OtherSpace}
        \cup {<<194, 133>>, <<194, 160>>, <<225, 154, 128>>, <<226, 129, 159>>, <<227, 128, 128>>}
        \cup {<<226, 128, c>> : c \in (128..138) \cup {168, 169, 175}}

\* str::trim_end: where the bytes from..to of b end without white space.
trim_end(b, from, to) ==
    LET back[e \in from..to] ==
          LET spaces == {c \in SpaceCharacters : Len(c) <= e - from /\ Cut(b, e - Len(c), e) = c}
          IN IF spaces = {} THEN e ELSE back[e - Len(CHOOSE c \in spaces : TRUE)]
    IN back[to]

LineComment ==
    /\ SlashThen({Slash})
    /\ LET end == scan_to_newline(text, i + 2)
       IN Comment("line", trim_end(text, i, end), end, line)

\* Past the first closing mark from j on, or past the text when there is none.
Closes(b, k) == ByteAt(b, k-2) = Star /\ ByteAt(b, k-1) = Slash
BlockEnd(b, j) == Least({k \in j+2..Len(b) : Closes(b, k)} \cup {Len(b) + 1})

BlockComment ==
    /\ SlashThen({Star})
    /\ LET end == BlockEnd(text, i + 2)
       IN IF end > Len(text) THEN Reject
          ELSE Comment("block", end, end,
                       line + Cardinality({j \in i+1..end : text[j] = NL}))

SlashToken == SlashThen(({Past} \cup Bytes) \ {Slash, Star}) /\ Token("/", i + 1)

-----------------------------------------------------------------------------
Bad == 2^20  \* no position

\* The end of the escape sequence whose backslash is at j.
Escape(b, j) ==
    LET e == ByteAt(b, j + 1)
        Exactly(n) == IF UpTo(b, j + 2, Hexes, n) = j + 2 + n THEN j + 2 + n ELSE Bad
    IN CASE e \in Escapes -> j + 2
         [] e \in Octals -> UpTo(b, j + 2, Octals, 2)
         [] e \in Xx -> IF ByteAt(b, j + 2) \in Hexes THEN UpTo(b, j + 2, Hexes, 2) ELSE Bad
         [] e = 117 -> Exactly(4)
         [] e = 85 -> Exactly(8)
         [] OTHER -> Bad

\* The end of the string whose quote is at j.
StringEnd(b, j) ==
    LET quote == b[j+1]
        from[k \in j+1..Len(b)] ==
          LET stop == scan_str_body(b, quote, k)
          IN CASE ByteAt(b, stop) = quote -> stop + 1
               [] ByteAt(b, stop) = Backslash ->
                    LET next == Escape(b, stop) IN IF next = Bad THEN Bad ELSE from[next]
               [] OTHER -> Bad  \* a newline, or the end of the text
    IN from[j+1]

StringLiteral ==
    /\ StartsWith(Quotes)
    /\ LET end == StringEnd(text, i)
       IN IF end = Bad THEN Reject ELSE Token("Str", end)

-----------------------------------------------------------------------------
\* MUTANT of Exponent: an e without digits is not given back.
ExponentKept(b, m) ==
    IF ByteAt(b, m) \notin Ee THEN m
    ELSE RunOf(b, IF ByteAt(b, m + 1) \in Signs THEN m + 2 ELSE m + 1, Digits)

\* The end of the exponent at m; an e without digits is none.
Exponent(b, m) ==
    LET digits == IF ByteAt(b, m + 1) \in Signs THEN m + 2 ELSE m + 1
    IN IF ByteAt(b, m) \in Ee /\ ByteAt(b, digits) \in Digits THEN RunOf(b, digits, Digits) ELSE m

\* The number at s, as number() cuts it: its kind and its end.  A dot may lead it.
Number(b, s) ==
    LET int == RunOf(b, s, Digits)
        mantissa == IF ByteAt(b, int) = Dot THEN RunOf(b, int + 1, Digits) ELSE int
        end == Exponent(b, mantissa)
        float == end # int
        suffix == float /\ ByteAt(b, end) \in Ff /\ ~is_ident_continue(ByteAt(b, end + 1))
    IN IF b[s+1] = Zero /\ ByteAt(b, s + 1) \in Xx
       THEN [kind |-> "Int", end |-> IF ByteAt(b, s + 2) \in Hexes THEN RunOf(b, s + 2, Hexes)
                                     ELSE Bad]
       ELSE [kind |-> IF float THEN "Float" ELSE "Int",
             end |-> IF ~float /\ b[s+1] = Zero /\ \E k \in s+1..end : b[k] \notin Octals THEN Bad
                     ELSE IF suffix THEN end + 1 ELSE end]

\* check_number_end: no identifier goes on where a number ends.
NumberLiteral ==
    /\ StartsWith(Digits) \/ (StartsWith({Dot}) /\ ByteAt(text, i + 1) \in Digits)
    /\ LET n == Number(text, i)
       IN IF n.end = Bad \/ is_ident_continue(ByteAt(text, n.end)) THEN Reject
          ELSE Token(n.kind, n.end)

DotToken ==
    /\ StartsWith({Dot}) /\ ByteAt(text, i + 1) \notin Digits
    /\ Token(".", i + 1)

Identifier ==
    /\ StartsWith(Letters \cup {Underscore})
    /\ Token("Ident", scan_ident(text, i + 1))

Punctuation ==
    /\ StartsWith(DOMAIN Punct \ {Dot, Slash})
    /\ Token(Punct[ByteAt(text, i)], i + 1)

UnexpectedCharacter ==
    /\ at = "lex" /\ i < Len(text)
    /\ LET c == ByteAt(text, i)
       IN /\ c \notin OtherSpace \cup {NL} \cup Quotes \cup Digits \cup DOMAIN Punct
          /\ ~is_ident_start(c)
    /\ Reject

EndOfText ==
    /\ at = "lex" /\ i = Len(text)
    /\ push_tok("Eof", i)
    /\ at' = "lexed"
    /\ prev_end_line' = line
    /\ UNCHANGED <<i, line, comments>>

LexStep ==
    \/ Whitespace \/ LineComment \/ BlockComment \/ SlashToken \/ StringLiteral
    \/ NumberLiteral \/ DotToken \/ Identifier \/ Punctuation
    \/ UnexpectedCharacter \/ EndOfText

-----------------------------------------------------------------------------
(***************************************************************************)
(* The lexical grammar: what a word of each kind is, and that a text is    *)
(* cut into the longest ones.                                              *)
(***************************************************************************)
AllIn(w, S) == \A k \in 1..Len(w) : w[k] \in S
From(w, k) == SubSeq(w, k, Len(w))

IsInt(w) ==
    \/ w[1] # Zero /\ AllIn(w, Digits)
    \/ w[1] = Zero /\ AllIn(w, Octals)
    \/ Len(w) > 2 /\ w[1] = Zero /\ w[2] \in Xx /\ AllIn(From(w, 3), Hexes)

HasDot(w) == \E k \in 1..Len(w) : w[k] = Dot
IsDecimal(w) ==
    /\ AllIn(w, Digits \cup {Dot})
    /\ \E k \in 1..Len(w) : w[k] # Dot
    /\ Cardinality({k \in 1..Len(w) : w[k] = Dot}) < 2
IsExponent(w) ==
    w # <<>> => /\ w[1] \in Ee
                /\ LET n == IF Len(w) > 1 /\ w[2] \in Signs THEN 3 ELSE 2
                   IN n <= Len(w) /\ AllIn(From(w, n), Digits)
IsFloat(w) ==
    \E k \in 1..Len(w) : \E m \in k..Len(w) :
        /\ IsDecimal(SubSeq(w, 1, k)) /\ IsExponent(SubSeq(w, k + 1, m))
        /\ HasDot(SubSeq(w, 1, k)) \/ k < m
        /\ m = Len(w) \/ (m + 1 = Len(w) /\ w[Len(w)] \in Ff)

\* A character of a string, plain or escaped.
IsStringPart(u, quote) ==
    \/ Len(u) = 1 /\ u[1] \notin {quote, Backslash, NL}
    \/ /\ Len(u) > 1 /\ u[1] = Backslash
       /\ \/ Len(u) = 2 /\ u[2] \in Escapes
          \/ Len(u) <= 4 /\ AllIn(From(u, 2), Octals)
          \/ Len(u) \in {3, 4} /\ u[2] \in Xx /\ AllIn(From(u, 3), Hexes)
          \/ <<u[2], Len(u)>> \in {<<117, 6>>, <<85, 10>>} /\ AllIn(From(u, 3), Hexes)
IsString(w) ==
    LET n == Len(w)
        body[k \in 1..n] == k = 1 \/ \E j \in 1..k-1 : body[j] /\ IsStringPart(SubSeq(w, j+1, k), w[1])
    IN n > 1 /\ w[1] \in Quotes /\ w[n] = w[1] /\ body[n-1]

IsWord(kind, w) ==
    CASE kind = "space" -> AllIn(w, OtherSpace \cup {NL})
      [] kind = "line" -> Len(w) > 1 /\ w[1] = Slash /\ w[2] = Slash /\ AllIn(w, Bytes \ {NL})
      [] kind = "block" -> /\ Len(w) > 3 /\ w[1] = Slash /\ w[2] = Star
                           /\ {k \in 4..Len(w) : w[k-1] = Star /\ w[k] = Slash} = {Len(w)}
      [] kind = "Ident" -> ~(w[1] \in Digits) /\ \A k \in 1..Len(w) : is_ident_continue(w[k])
      [] kind = "Int" -> IsInt(w)
      [] kind = "Float" -> IsFloat(w)
      [] kind = "Str" -> IsString(w)
      [] OTHER -> Len(w) = 1 /\ w[1] \in DOMAIN Punct /\ Punct[w[1]] = kind

Kinds == {"space", "line", "block", "Ident", "Int", "Float", "Str"}
PieceKinds == Kinds \cup {Punct[c] : c \in DOMAIN Punct}

\* The longest words that may stand at s; at most one.
Longest(b, s) ==
    LET ends == [e \in s+1..Len(b) |-> {kind \in PieceKinds : IsWord(kind, Cut(b, s, e))}]
        e == CHOOSE e \in DOMAIN ends : ends[e] # {} /\ \A f \in DOMAIN ends : f > e => ends[f] = {}
    IN IF \A f \in DOMAIN ends : ends[f] = {} THEN {}
       ELSE {[kind |-> kind, start |-> s, end |-> e] : kind \in ends[e]}

\* The pieces of b from s on; a piece of kind "none" where there is no word, or
\* where a letter or a digit goes on after a number.
PiecesOf(b) ==
    LET none == <<[kind |-> "none", start |-> 0, end |-> 0]>>
        from[s \in 0..Len(b)] ==
          IF s = Len(b) THEN <<[kind |-> "Eof", start |-> s, end |-> s]>>
          ELSE LET words == Longest(b, s)
                   word == CHOOSE x \in words : TRUE
               IN IF Cardinality(words) # 1 THEN none
                  ELSE IF word.kind \in {"Int", "Float"} /\ is_ident_continue(ByteAt(b, word.end))
                  THEN none
                  ELSE <<word>> \o from[word.end]
    IN from[0]

\* A word of white space only.
IsBlank(w) ==
    LET blank[k \in 0..Len(w)] ==
          k = 0 \/ \E j \in 0..k-1 : blank[j] /\ Cut(w, j, k) \in SpaceCharacters
    IN blank[Len(w)]

Newlines(b, from, to) == Cardinality({j \in from+1..to : b[j] = NL})

\* Piece k of ps, a line comment without the white space at its end, with the line
\* it is on and whether two newlines or more part it from the piece before.  White
\* space beyond ASCII that is cut off belongs to no token and no comment.
Located(b, ps, k) ==
    LET p == ps[k]
    IN [kind |-> p.kind, start |-> p.start,
        end |-> IF p.kind # "line" THEN p.end
                ELSE Least({e \in p.start+1..p.end : IsBlank(Cut(b, e, p.end))}),
        line |-> 1 + Newlines(b, 0, p.start),
        blank |-> k > 1 /\ Newlines(b, ps[k-1].end, p.start) > 1]

Where(t) == [kind |-> t.kind, start |-> t.start, end |-> t.end, line |-> t.line, blank |-> t.blank]
Each(s, Op(_)) == [k \in 1..Len(s) |-> Op(s[k])]

\* The lexer accepts a text exactly if it can be cut into the longest words of
\* the lexical grammar, a number never running into a name; and its tokens and
\* comments are those words, each on the line it is on in the text, with its
\* blank-line flag set exactly when an empty line stands before it.
LexIsExact ==
    at \in {"lexed", "malformed"} =>
        LET ps == PiecesOf(text)
            cut == ps[Len(ps)].kind = "Eof"
            words == SelectSeq(ps, LAMBDA p : p.kind # "space")
            located == [k \in 1..Len(words) |-> Located(text, words, k)]
            IsComment(p) == p.kind \in {"line", "block"}
        IN /\ cut = (at = "lexed")
           /\ cut => /\ Each(toks, Where) = SelectSeq(located, LAMBDA p : ~IsComment(p))
                     /\ Each(comments, Where) = SelectSeq(located, IsComment)
                     /\ \A k \in 1..Len(comments) :
                          comments[k].line_end
                            = comments[k].line + Newlines(text, comments[k].start, comments[k].end)

\* The scans that read several bytes at once see what a scan byte by byte sees,
\* wherever in a text they start: no flag is carried from a byte to its neighbour,
\* no newline is missed or counted twice, and the rest of a text that does not
\* fill a word is read like the words before it.
ScansSeeEveryByte == at \in {"lexed", "malformed"} => ScansAgree(text)
=============================================================================
