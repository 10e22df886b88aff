-------------------------------- MODULE MCEdits --------------------------------
(***************************************************************************)
(* Texts with every kind of item, on one line and on one line per item,    *)
(* with comments before items and closing braces; and texts with comments  *)
(* anywhere.                                                               *)
(***************************************************************************)
EXTENDS Edits, Layout

\* n: line breaks before an item.
M(n) == Begin("message", 0, {n})
F(num, n) == <<Begin("field", num, {n}), End>>
V(num, n) == <<Begin("value", num, {n}), End>>

\* message { field; oneof { field field } message { field } }
Messages(n) ==
    <<M(n), Lb>> \o F(5, n) \o <<Begin("oneof", 0, {n}), Lb>> \o F(9, n) \o F(2, n) \o <<Rb>>
      \o <<M(n), Lb>> \o F(7, n) \o <<Rb, Rb, Eof>>

\* enum { option allow_alias = true; ... } with two pairs of aliases.
Aliased(n) ==
    <<Begin("enum", 0, {n}), Lb, Begin("alias", 0, {n}), End>>
      \o V(0, n) \o V(2, n) \o V(1, n) \o V(2, n) \o V(0, n) \o <<Rb, Eof>>

\* The values of an option: { text { text { } } } { text }
Aggregates(n) ==
    LET in == Begin("text", 0, {n})
    IN <<Lb, in, Lb, in, Lb, Rb, Rb, Rb, Lb, in, End, Rb>>

\* syntax; import; service { rpc; rpc { option } }
Served(n) ==
    <<Begin("syntax", 0, {n}), End, Begin("import", 0, {n}), End,
      Begin("service", 0, {n}), Lb, Begin("rpc", 0, {n}), End,
      Begin("rpc", 0, {n}), Lb, Begin("option", 0, {n})>> \o Aggregates(n) \o <<End, Rb, Rb>>

\* message { field; enum { value value } field }
Enumed(n) ==
    <<M(n), Lb>> \o F(3, n) \o <<Begin("enum", 0, {n}), Lb>> \o V(0, n) \o V(4, n) \o <<Rb>>
      \o F(1, n) \o <<Rb>>

\* Comments are tried in the parts of the last file apart.
Parts == {Messages(n) : n \in {0, 1}} \cup {Aliased(n) : n \in {0, 1}}
            \cup {Served(n) \o <<Eof>> : n \in {0, 1}} \cup {Enumed(n) \o <<Eof>> : n \in {0, 1}}
Sparse == Parts \cup {Served(n) \o Enumed(n) \o <<Eof>> : n \in {0, 1}}

\* message { field field } message {}
Small(n) == <<M(n), Lb>> \o F(1, n) \o F(2, n) \o <<Rb, M(n), Lb, Rb, Eof>>

\* Comments before items, closing braces and the end of the file.
Breaks == {<<0, 0>>, <<1, 0>>, <<2, 0>>}
Tidy(S) == Remarked(S, {"head", "rb", "eof"}, Breaks)
Smalls == {Small(n) : n \in {0, 1}}

MCTidy == UNION {Laid(s) : s \in Sparse \cup Tidy(Parts) \cup Tidy(Tidy(Smalls))}

\* Comments anywhere.
MCUntidy == UNION {Laid(s) : s \in Remarked(Smalls, AnyTok, Breaks)}
=============================================================================
