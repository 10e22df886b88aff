--------------------------------- MODULE MCParse ---------------------------------
(***************************************************************************)
(* Every short text over the characters that numbers, strings and comments *)
(* are made of, pairs of the bytes at the edges of the byte classes, and a *)
(* few longer texts that go on to the parser; and rows of tokens: one for  *)
(* each part of the grammar, changed in every place.                       *)
(***************************************************************************)
EXTENDS Parse

-----------------------------------------------------------------------------
\* Texts.  Runs of the character set, by the byte each begins with.
Chars == 40 :> "()*+,-./0123456789:;<=>?" @@ 65 :> "ABCDEFGHIJKLMNOPQRSTUVWXYZ"
      @@ 97 :> "abcdefghijklmnopqrstuvwxyz{" @@ NL :> "\n" @@ Space :> " " @@ 39 :> "'"
      @@ 34 :> "\"" @@ Backslash :> "\\" @@ Underscore :> "_" @@ 125 :> "}"
Byte(c) ==
    CHOOSE b \in Bytes :
        \E from \in DOMAIN Chars :
            /\ b - from \in 0..Len(Chars[from]) - 1
            /\ SubSeq(Chars[from], b - from + 1, b - from + 1) = c
Spelled(s) == [k \in 1..Len(s) |-> Byte(SubSeq(s, k, k))]

MCProto3 == <<112, 114, 111, 116, 111, 51>>
MCKeywords == <<115, 121, 110, 116, 97, 120>> :> "syntax" @@ <<101, 110, 117, 109>> :> "enum"
           @@ <<114, 101, 115, 101, 114, 118, 101, 100>> :> "reserved"
           @@ <<116, 111>> :> "to" @@ <<109, 97, 120>> :> "max"

Over(n, A, F) == {{s \in [1..k -> A] : s[1] \in F} : k \in 1..n}
Numbers == {48, 56, 46, 120, 101, 43, 102}  \* 08.xe+f
Strings == {34, 92, 97, 120, 48, 56, NL}    \* "\ax08
Comments == {47, 42, NL, Space, 97, 123}    \* /* a{
Edges == {0, 8, 9, 10, 11, 13, 14, 31, 32, 33, 34, 35, 47, 48, 57, 58, 64, 65, 90, 91, 92, 93,
          94, 95, 96, 97, 122, 123, 127, 128, 129, 138, 160, 162, 220, 223, 255}

Escaped == {Spelled(s) : s \in
    {"'\\u00aF'", "'\\u00a'", "'\\u00aFF'", "'\\U0010FFff'", "'\\U0010FFf'", "'\\'", "'\\x4f7'",
     "'\\1234'", "\"'\\?\"", "1e-8f", "0x1F.5e+8 .8f", "1.8e08ff", "a/**/1/* *//**", "/***/8", "/*/8"}}
Parsed == {Spelled("syntax='proto3';" \o s) : s \in
    {"enum E{A=0x5;B=-08;}", "enum E{A=0x5;B=-07;}", "enum e{to=07;reserved 1to 2;}",
     "enum e{to=06;reserved 1 to 0x4,05 to max;}", "enum max{max=1.0;}", "//\nenum/**/_{x=0;}"}}

\* What may end a comment, in UTF-8: U+00A0, U+3000, U+202F, a space, and U+00E0
\* and U+2020, which are none.
Ends == {<<194, 160>>, <<227, 128, 128>>, <<226, 128, 175>>, <<Space>>, <<195, 160>>, <<226, 128, 160>>}
Trailed == {Spelled("//") \o x \o y \o rest :
              x \in Ends \cup {<<97>>}, y \in Ends \cup {<<>>}, rest \in {<<>>, <<NL>>, <<NL, 97>>}}

MCTexts ==
    {{<<>>} \cup Escaped \cup Parsed, Trailed, [1..2 -> Edges]}
        \cup Over(5, Numbers, {48, 56, 46}) \cup Over(5, Strings, {34}) \cup Over(5, Comments, Comments)

-----------------------------------------------------------------------------
\* Rows.  A token is written as the text it stands for.
KeywordsWritten == {"syntax", "package", "import", "public", "option", "message", "enum", "service",
    "oneof", "reserved", "rpc", "returns", "stream", "to", "max", "repeated", "optional", "map",
    "required", "extend", "group", "inf", "int32", "bytes"}
NumbersWritten == [n \in {"0", "1", "5", "6", "7", "8", "9"} |-> CHOOSE v \in 0..9 : ToString(v) = n]
Tok(s) ==
    CASE s \in KeywordsWritten -> [kind |-> "Ident", kw |-> s, val |-> 0]
      [] s = "x" -> [kind |-> "Ident", kw |-> "none", val |-> 0]
      [] s \in DOMAIN NumbersWritten -> [kind |-> "Int", kw |-> "none", val |-> NumbersWritten[s]]
      [] s = "1.5" -> [kind |-> "Float", kw |-> "none", val |-> 0]
      [] s = "'s'" -> [kind |-> "Str", kw |-> "none", val |-> 0]
      [] s = "'proto3'" -> [kind |-> "Str", kw |-> "none", val |-> 1]
      [] OTHER -> [kind |-> s, kw |-> "none", val |-> 0]
Row(s) == [k \in 1..Len(s) |-> Tok(s[k])]

File(s) == <<"syntax", "=", "'proto3'", ";">> \o s \o <<"Eof">>
Message(s) == <<"message", "x", "{">> \o s \o <<"}">>
Enum(s) == <<"enum", "x", "{">> \o s \o <<"}">>
Service(s) == <<"service", "x", "{">> \o s \o <<"}">>
Set(s) == <<"option", "x", "=">> \o s \o <<";">>
Field == <<"x", "x", "=", "1", ";">>

Bodies ==
    {<<"package", "x", ".", "x", ";", "import", "public", "'s'", ";">>,
     <<"option", "(", "x", ")", ".", "x", "=", "-", "inf", ";", ";", "import", "'s'", ";">>,
     Message(<<".", "x", ".", "x", "x", "=", "1", "[", "x", "=", "x", ",", "x", "=", "1", "]", ";">>),
     Message(<<"repeated", "int32", "x", "=", "5", ";", "optional">> \o Field),
     Message(<<"map", "<", "int32", ",", "x", ">", "x", "=", "1", ";">> \o Field),
     Message(<<"oneof", "x", "{", "int32", "x", "=", "1", ";">> \o Set(<<"x">>) \o <<"}">>),
     Message(<<"reserved", "1", "to", "5", ",", "5", "to", "max", ";", "reserved", "'s'", ",", "'s'", ";">>),
     Message(Message(Field) \o Enum(<<"x", "=", "0", ";">>)),
     Message(Message(Message(<<>>)) \o Message(<<";">>)),
     Enum(<<"x", "=", "-", "7", "[", "x", "=", "x", "]", ";", "stream", "=", "6", ";">>),
     Enum(<<"reserved", "-", "7", "to", "-", "1", ",", "6", ";">> \o Set(<<"1">>)),
     Service(<<"rpc", "x", "(", "stream", "x", ")", "returns", "(", "stream", ")", ";">>),
     Service(<<"rpc", "x", "(", "stream", ".", "x", ")", "returns", "(", "x", ")", "{">>
               \o Set(<<"x">>) \o <<";", "}">>),
     Set(<<"{", "x", ":", "1.5", ",", "x", "{", "x", ":", "'s'", "'s'", "}", ";", "}">>),
     Set(<<"{", "[", "x", "/", "x", ".", "x", "]", "<", "x", ":", "-", "inf", ">", "}">>),
     Set(<<"{", "x", ":", "[", "x", ",", "{", "}", "]", "x", ":", "[", "]", "}">>)}

Inserts == {"x", "message", "repeated", "map", "stream", "option", "int32", "bytes", "to", "max",
            "reserved", "enum", "0", "1", "6", "7", "8", "9", "1.5", "'s'", ".", ";", ",", "{", "}",
            "<", ">", "[", "]", "(", ")", "=", "-", "/", ":"}

Replaced(s) == {[s EXCEPT ![k] = w] : k \in 1..Len(s), w \in Inserts}
Shortened(s) == {SubSeq(s, 1, k-1) \o SubSeq(s, k+1, Len(s)) : k \in 1..Len(s)}
Doubled(s) == {SubSeq(s, 1, k) \o SubSeq(s, k, Len(s)) : k \in 1..Len(s)}
CutShort(s) == {SubSeq(s, 1, k) : k \in 0..Len(s)}
Rest == {<<"Eof">>, <<";", "Eof">>, <<"package", "x", ";", "Eof">>,
         <<";">> \o File(<<>>), File(<<>>), File(<<"syntax", "=", "'proto3'", ";">>),
         <<"package", "x", ";">> \o File(<<>>), <<"syntax", "=", "'s'", ";", "Eof">>,
         File(<<"package", "x", ";", "package", "x", ";">>),
         File(<<"package", ".", "x", ";">>), File(<<"extend", "x", "{", "}">>),
         File(Message(<<"group", "x", "=", "1", ";">>)), File(Message(<<"required">> \o Field)),
         File(Message(<<"repeated", "map", "<", "int32", ",", "x", ">", "x", "=", "1", ";">>)),
         File(Message(<<"map", "<", "int32", ",", "map", "<", "int32", ",", "x", ">", ">", "x", "=", "1", ";">>)),
         File(Message(<<"oneof", "x", "{", "map", "<", "int32", ",", "x", ">", "x", "=", "1", ";", "}">>))}

MCRows ==
    {{Row(s) : s \in Rest}}
        \cup {{Row(File(s)) : s \in Replaced(b) \cup Shortened(b) \cup Doubled(b) \cup CutShort(b)} :
                b \in Bodies}
=============================================================================
