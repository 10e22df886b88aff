--------------------------------- MODULE Layout ---------------------------------
(***************************************************************************)
(* Texts for model checking Edits and Printer: rows of lexemes without a   *)
(* place yet, comments put between them, and the ways to lay them out.     *)
(***************************************************************************)
EXTENDS Naturals, Sequences

\* A lexeme without its lines: with the line breaks there may be before it and
\* in it.
Piece(tok, kind, num, breaks) == [tok |-> tok, kind |-> kind, num |-> num, breaks |-> breaks]
Begin(kind, num, breaks) == Piece("head", kind, num, breaks \X {0})
Tok(tok, breaks) == Piece(tok, "none", 0, breaks \X {0})
Lb == Tok("lb", {0})
Rb == Tok("rb", {0})
End == Tok("end", {0})
Eof == Tok("eof", {1})
Remark(breaks) == Piece("comment", "none", 0, breaks)

\* Rows with one more comment somewhere before a token of one of these sorts.
AnyTok == {"head", "lb", "rb", "end", "semi", "eof"}
Insert(s, i, x) == SubSeq(s, 1, i) \o <<x>> \o SubSeq(s, i + 1, Len(s))
Remarked(S, before, breaks) ==
    UNION {{Insert(s, i, Remark(breaks)) : i \in {j \in 0..Len(s) - 1 : s[j+1].tok \in before}}
           : s \in S}

\* The texts a row stands for.
Put(t, x, n, tall) ==
    LET line == IF t = <<>> THEN 1 + n ELSE t[Len(t)].last + n
    IN Append(t, [tok |-> x.tok, kind |-> x.kind, num |-> x.num,
                  first |-> line, last |-> line + tall])
Laid(s) ==
    LET upTo[i \in 0..Len(s)] ==
          IF i = 0 THEN {<<>>}
          ELSE {Put(t, s[i], b[1], b[2]) : t \in upTo[i-1], b \in s[i].breaks}
    IN upTo[Len(s)]
=============================================================================
