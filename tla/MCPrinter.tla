------------------------------ MODULE MCPrinter ------------------------------
(***************************************************************************)
(* Texts with every kind of item the printer distinguishes, line breaks    *)
(* varied, and up to two comments anywhere.                                *)
(***************************************************************************)
EXTENDS Printer, Layout

Some == {0, 1, 2}
Breaks == {<<0, 0>>, <<1, 0>>, <<2, 0>>, <<0, 1>>}
Def(b) == Begin("message", 0, b)
Field(b) == <<Begin("field", 1, b), End>>

\* Two fields in a message; definitions, options and imports side by side; an
\* option with an aggregate value; a field with one in its options.
Plain ==
    {<<Def({0}), Lb>> \o Field({1}) \o Field(Some) \o <<Rb, Eof>>,
     <<Begin("syntax", 0, {0}), End, Begin("import", 0, {1}), End, Begin("import", 0, {1, 2}), End,
       Def({1}), Lb, Rb, Def({1}), Lb, Rb, Eof>>,
     <<Begin("option", 0, {0}), Lb, Begin("text", 0, {0, 1}), End, Begin("text", 0, {0, 1}), End,
       Rb, End, Eof>>,
     <<Def({0}), Lb, Begin("field", 1, {0}), Lb, Begin("text", 0, {1}), End, Rb, Tok("end", {0, 1})>>
       \o Field({1}) \o <<Rb, Eof>>}

\* Two messages and an empty statement.
Loose ==
    {<<Def({0}), Lb>> \o Field({1}) \o <<Tok("semi", {0, 1})>> \o Field({0, 1}) \o <<Rb, Eof>>,
     <<Def({0}), Lb>> \o Field({1}) \o <<Tok("semi", {0}), Rb, Def({0, 1}), Lb, Rb, Eof>>}

\* Blocks side by side and nested, within the cap and not; files cut off.
Nested ==
    LET in == Def({0, 1})
    IN {<<Def({0}), Lb, in, Lb, Rb, in, Lb, Rb, Rb, in, Lb, Rb, in, Lb, Rb, Eof>>,
        <<Def({0}), Lb, in, Lb, Rb, in, Lb, in, Lb, in, Lb, Rb, Rb, Rb, Rb, Eof>>,
        <<Def({0}), Lb, in, Lb, Rb, Eof>>, <<Def({0}), Lb, in, Eof>>}

Crowded == Plain \cup Loose
One(S) == Remarked(S, AnyTok, Breaks)
MCTexts ==
    UNION {Laid(s) : s \in Crowded \cup One(Crowded) \cup One(One(Crowded))
                                 \cup Nested \cup One(Nested)}
=============================================================================
