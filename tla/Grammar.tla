--------------------------------- MODULE Grammar ---------------------------------
(***************************************************************************)
(* The proto3 grammar the parser is to accept, as productions: what a      *)
(* symbol may stand for, with no word on how to choose.  Proto3 without    *)
(* extend, as the head of parse.rs narrows it.                             *)
(*                                                                         *)
(* A production is a sequence of symbols, of tokens (by kind, keyword or a *)
(* class of their own) and of the marks of a tree.  Derivations(row) is    *)
(* the set of the trees of a row of tokens, found by following all choices *)
(* at once.                                                                *)
(***************************************************************************)
EXTENDS Integers, Sequences, FiniteSets

CONSTANTS MaxNesting, MaxField, MaxI32

Scalars == {"double", "float", "int32", "int64", "uint32", "uint64", "sint32", "sint64", "fixed32",
            "fixed64", "sfixed32", "sfixed64", "bool", "string", "bytes"}
KeyTypes == Scalars \ {"double", "float", "bytes"}
Labels == {"repeated", "optional"}
\* The names no field of a message or a oneof can begin with.
OneofWords == Labels \cup {"required", "option"}
MessageWords == OneofWords \cup {"message", "enum", "oneof", "reserved", "extend", "extensions", "group"}

\* The classes of tokens.
InClass(c, t) ==
    CASE c = "proto3" -> t.kind = "Str" /\ t.val = 1
      [] c = "FieldNumber" -> t.kind = "Int" /\ 1 <= t.val /\ t.val <= MaxField
      [] c = "Int32" -> t.kind = "Int" /\ t.val <= MaxI32
      [] c = "NegatedInt32" -> t.kind = "Int" /\ t.val <= MaxI32 + 1
      [] c = "ScalarType" -> t.kw \in Scalars
      [] c = "KeyType" -> t.kw \in KeyTypes
      [] c = "TypeName" -> t.kind = "Ident" /\ t.kw \notin Scalars
      [] c = "OneofTypeName" -> t.kind = "Ident" /\ t.kw \notin Scalars \cup OneofWords
      [] c = "FieldTypeName" -> t.kind = "Ident" /\ t.kw \notin Scalars \cup MessageWords
      [] c = "ValueName" -> t.kind = "Ident" /\ t.kw \notin {"option", "reserved"}
      [] c = "Sign" -> t.kind \in {"-", "+"}
      [] c = "Number" -> t.kind \in {"Int", "Float"}
      [] c = "NumberName" -> t.kw \in {"inf", "nan"}
      [] OTHER -> c \in {t.kind, t.kw}

Marks == {"Syntax", "Package", "Import", "Option", "Message", "Enum", "Service", "Rpc", "Oneof",
          "Field", "Value", "Reserved", "Text", "Stream", "Scalar", "Named", "Map", "Optional",
          "Repeated", "Ext", "Max", "End"}

\* What stands between braces, up to the closing one.
Blocks == {"members", "choices", "values", "rpcs", "options", "texts", "angled"}

Productions == [
    file |-> {<<";", "file">>, <<"Syntax", "syntax", "=", "proto3", ";", "decls">>},
    decls |-> {<<"Eof">>, <<"decl", "decls">>, <<"Package", "package", "full", ";", "others">>},
    others |-> {<<"Eof">>, <<"decl", "others">>},
    decl |-> {<<";">>, <<"option_decl">>, <<"message_decl">>, <<"enum_decl">>,
              <<"Import", "import", "Str", ";">>, <<"Import", "import", "public", "Str", ";">>,
              <<"Import", "import", "weak", "Str", ";">>,
              <<"Service", "service", "Ident", "{", "rpcs">>},

    message_decl |-> {<<"Message", "message", "Ident", "{", "members">>},
    members |-> {<<"}", "End">>, <<"member", "members">>},
    member |-> {<<";">>, <<"option_decl">>, <<"message_decl">>, <<"enum_decl">>,
                <<"Oneof", "oneof", "Ident", "{", "choices">>,
                <<"Reserved", "reserved", "spans", ";">>, <<"Reserved", "reserved", "strs", ";">>,
                <<"Field", "field_type", "field">>,
                <<"Field", "repeated", "Repeated", "type", "field">>,
                <<"Field", "optional", "Optional", "type", "field">>,
                <<"Field", "Map", "map", "<", "KeyType", ",", "type", ">", "field">>},
    field |-> {<<"Ident", "=", "FieldNumber", "settings", ";">>},
    settings |-> {<<>>, <<"[", "setting", "]">>},
    setting |-> {<<"name", "=", "value">>, <<"name", "=", "value", ",", "setting">>},
    choices |-> {<<"}", "End">>, <<";", "choices">>, <<"option_decl", "choices">>,
                 <<"Field", "choice_type", "field", "choices">>},

    type |-> {<<"Scalar", "ScalarType">>, <<"Named", "TypeName", "dotted">>,
              <<"Named", ".", "full">>},
    field_type |-> {<<"Scalar", "ScalarType">>, <<"Named", "FieldTypeName", "dotted">>,
                        <<"Named", ".", "full">>},
    choice_type |-> {<<"Scalar", "ScalarType">>, <<"Named", "OneofTypeName", "dotted">>,
                        <<"Named", ".", "full">>},
    full |-> {<<"Ident", "dotted">>},
    dotted |-> {<<>>, <<".", "Ident", "dotted">>},
    reference |-> {<<"full">>, <<".", "full">>},

    spans |-> {<<"span">>, <<"span", ",", "spans">>},
    span |-> {<<"FieldNumber">>, <<"FieldNumber", "to", "FieldNumber">>,
              <<"FieldNumber", "to", "max", "Max">>},
    strs |-> {<<"Str">>, <<"Str", ",", "strs">>},

    enum_decl |-> {<<"Enum", "enum", "Ident", "{", "values">>},
    values |-> {<<"}", "End">>, <<";", "values">>, <<"option_decl", "values">>,
                <<"Reserved", "reserved", "ranges", ";", "values">>,
                <<"Reserved", "reserved", "strs", ";", "values">>,
                <<"Value", "ValueName", "=", "number", "settings", ";", "values">>},
    number |-> {<<"Int32">>, <<"-", "NegatedInt32">>},
    ranges |-> {<<"range">>, <<"range", ",", "ranges">>},
    range |-> {<<"number">>, <<"number", "to", "number">>, <<"number", "to", "max", "Max">>},

    rpcs |-> {<<"}", "End">>, <<";", "rpcs">>, <<"option_decl", "rpcs">>,
              <<"Rpc", "rpc", "Ident", "(", "message_type", ")",
                "returns", "(", "message_type", ")", "rpc_end", "rpcs">>},
    message_type |-> {<<"reference">>, <<"Stream", "stream", "reference">>},
    rpc_end |-> {<<";">>, <<"{", "options">>},
    options |-> {<<"}", "End">>, <<";", "options">>, <<"option_decl", "options">>},

    option_decl |-> {<<"Option", "option", "name", "=", "value", ";">>},
    name |-> {<<"name_part">>, <<"name_part", ".", "name">>},
    name_part |-> {<<"Ident">>, <<"(", "Ext", "reference", ")">>},
    value |-> {<<"literals">>, <<"Number">>, <<"Sign", "Number">>, <<"Sign", "NumberName">>,
               <<"full">>, <<"{", "texts">>},
    literals |-> {<<"Str">>, <<"Str", "literals">>},

    texts |-> {<<"}", "End">>, <<";", "texts">>, <<"text_field", "texts">>},
    angled |-> {<<">", "End">>, <<";", "angled">>, <<"text_field", "angled">>},
    text_field |-> {<<"Text", "text_name", "text_value">>,
                    <<"Text", "text_name", "text_value", ",">>},
    text_name |-> {<<"Ident">>, <<"[", "Ext", "bracketed", "]">>},
    bracketed |-> {<<"joined">>, <<"joined", "bracketed">>},
    joined |-> {<<"Ident">>, <<".">>, <<"/">>},
    text_value |-> {<<"text_message">>, <<":", "text">>, <<":", "[", "]">>,
                    <<":", "[", "texts_listed", "]">>},
    text |-> {<<"literals">>, <<"Number">>, <<"Ident">>, <<"Sign", "Number">>,
              <<"Sign", "NumberName">>, <<"text_message">>},
    texts_listed |-> {<<"text">>, <<"text", ",", "texts_listed">>},
    text_message |-> {<<"{", "texts">>, <<"<", "angled">>}]

Symbols == DOMAIN Productions

\* A parse is what is still to be derived and the marks so far.  Those that p may go
\* on as without a token, up to where each needs one.
RECURSIVE Unfolded(_)
Unfolded(p) ==
    IF p.todo = <<>> THEN {p}
    ELSE LET s == Head(p.todo)
             rest == Tail(p.todo)
         IN IF s \in Marks THEN Unfolded([todo |-> rest, tree |-> Append(p.tree, s)])
            ELSE IF s \in Symbols
            THEN UNION {Unfolded([p EXCEPT !.todo = by \o rest]) : by \in Productions[s]}
            ELSE {p}

Nesting(p) == Cardinality({k \in 1..Len(p.todo) : p.todo[k] \in Blocks})

\* The parses after token t.
After(ps, t) ==
    UNION {Unfolded([p EXCEPT !.todo = Tail(@)]) :
              p \in {p \in ps : p.todo # <<>> /\ InClass(Head(p.todo), t)
                                 /\ Nesting(p) <= MaxNesting}}

Derivations(row) ==
    LET upTo[k \in 0..Len(row)] ==
          IF k = 0 THEN Unfolded([todo |-> <<"file">>, tree |-> <<>>])
          ELSE After(upTo[k-1], row[k])
    IN {p.tree : p \in {p \in upTo[Len(row)] : p.todo = <<>>}}
=============================================================================
