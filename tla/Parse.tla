---------------------------------- MODULE Parse ----------------------------------
(***************************************************************************)
(* The grammar of parse.rs: a parser that goes by the next token, at times *)
(* by the next two.  Its functions are operators that say, from the tokens *)
(* at hand, what is parsed next: a sequence of tokens to take, functions   *)
(* to call and marks to leave in the tree.  The calls that are open are a  *)
(* stack, and the tree is the sequence of its marks, items in the order    *)
(* they begin and End where a block ends.                                  *)
(*                                                                         *)
(* A token is matched by its kind or its keyword.  The places of comments  *)
(* are Attach's.  Integers are small: MaxField stands for 536870911, the   *)
(* others for the largest values of the machine's types.                   *)
(***************************************************************************)
EXTENDS Lex, Integers

CONSTANTS
    Texts, Rows,  \* sets of sets of inputs: texts to lex, rows of tokens
    MaxNesting, MaxField, MaxI32, MaxI64, MaxU64

ASSUME WidthsAssumption ==
    0 < MaxNesting /\ 0 < MaxField /\ MaxField <= MaxI32 /\ MaxI32 < MaxI64 /\ MaxI64 < MaxU64

VARIABLES
    ti,     \* the current token
    stack,  \* what is to be parsed, next first
    depth,  \* how many blocks are open
    tree    \* the marks left so far

parsing == <<ti, stack, depth, tree>>
vars == <<text, lexing, at, parsing>>

Marks == {"Syntax", "Package", "Import", "Option", "Message", "Enum", "Service", "Rpc", "Oneof",
          "Field", "Value", "Reserved", "Text", "Stream", "Scalar", "Named", "Map", "Optional",
          "Repeated", "Ext", "Max", "End"}

peek == toks[ti]
peek2 == toks[Least({ti + 1, Len(toks)})]
At(K) == peek.kind \in K
AtKw(K) == peek.kw \in K

Fail == <<"fail">>
Optionally(condition, symbols) == IF condition THEN symbols ELSE <<>>
Block(items) == <<"enter", items>>

-----------------------------------------------------------------------------
is_map_key_type(kw) ==
    kw \in {"int32", "int64", "uint32", "uint64", "sint32", "sint64", "fixed32", "fixed64",
            "sfixed32", "sfixed64", "bool", "string"}
is_scalar_type(kw) == is_map_key_type(kw) \/ kw \in {"double", "float", "bytes"}

\* int_value and signed_value, and the ranges the callers check.
InU64(t) == t.val <= MaxU64
IsFieldNumber(t) == InU64(t) /\ t.val \in 1..MaxField
IsI32(t, neg) ==
    /\ InU64(t) /\ t.val <= MaxI64 + (IF neg THEN 1 ELSE 0)
    /\ (IF neg THEN -t.val ELSE t.val) \in -(MaxI32 + 1)..MaxI32

\* Whether token t may be taken for symbol s.
Fits(s, t) ==
    CASE s = "any" -> TRUE
      [] s = "proto3" -> t.kind = "Str" /\ t.val = 1
      [] s = "field_number" -> t.kind = "Int" /\ IsFieldNumber(t)
      [] s = "number" -> t.kind = "Int" /\ IsI32(t, FALSE)
      [] s = "negative" -> t.kind = "Int" /\ IsI32(t, TRUE)
      [] OTHER -> s \in {t.kind, t.kw}

-----------------------------------------------------------------------------
\* block_items: what closes a block of items, and the function for an item.
Closer == [top_items |-> "Eof", msg_items |-> "}", oneof_items |-> "}", enum_items |-> "}",
           svc_items |-> "}", rpc_items |-> "}", brace_items |-> "}", angle_items |-> ">"]
Item == [top_items |-> "top_item", msg_items |-> "msg_item", oneof_items |-> "oneof_item",
         enum_items |-> "enum_item", svc_items |-> "svc_item", rpc_items |-> "rpc_item",
         brace_items |-> "text_field", angle_items |-> "text_field"]

block_items(items) ==
    CASE At({";"}) -> <<";", items>>
      [] At({Closer[items]}) -> <<Closer[items]>> \o Optionally(items # "top_items", <<"leave", "End">>)
      [] At({"Eof"}) /\ items # "top_items" -> Fail
      [] OTHER -> <<Item[items], items>>

-----------------------------------------------------------------------------
path == Optionally(At({"."}), <<".">>) \o <<"Ident", "segments">>
segments == Optionally(At({"."}), <<".", "Ident", "segments">>)

option_name == <<"option_name_part", "name_parts">>
name_parts == Optionally(At({"."}), <<".", "option_name_part", "name_parts">>)
option_name_part == IF At({"("}) THEN <<"(", "Ext", "path", ")">> ELSE <<"Ident">>

strlit == <<"Str", "strings">>
strings == Optionally(At({"Str"}), <<"Str", "strings">>)

\* What may stand after a sign.
signed == IF At({"Int", "Float"}) \/ AtKw({"inf", "nan"}) THEN <<"any">> ELSE Fail

text_msg == IF At({"{"}) THEN <<"{">> \o Block("brace_items") ELSE <<"<">> \o Block("angle_items")

constant ==
    CASE At({"Str"}) -> strlit
      [] At({"Int", "Float"}) -> <<"any">>
      [] At({"-", "+"}) -> <<"any", "signed">>
      [] At({"Ident"}) -> path
      [] At({"{"}) -> text_msg
      [] OTHER -> Fail

option_stmt == <<"Option", "option", "option_name", "=", "constant", ";">>

field_options == Optionally(At({"["}), <<"[", "field_option">>)
field_option == <<"option_name", "=", "constant", "more_options">>
more_options == IF At({","}) THEN <<",", "field_option">> ELSE <<"]">>

-----------------------------------------------------------------------------
syntax == <<"Syntax", "syntax", "=", "proto3", ";">>
package == <<"Package", "package", "package_path", ";">>
package_path == path \o Optionally(At({"."}), Fail)
import == <<"Import", "import", "import_kind", "Str", ";">>
import_kind == Optionally(AtKw({"public", "weak"}), <<"any">>)
message == <<"Message", "message", "Ident", "{">> \o Block("msg_items")
oneof == <<"Oneof", "oneof", "Ident", "{">> \o Block("oneof_items")
enum_def == <<"Enum", "enum", "Ident", "{">> \o Block("enum_items")
service == <<"Service", "service", "Ident", "{">> \o Block("svc_items")

map_type == <<"Map", "map", "<", "map_key", ",", "value_type", ">">>
map_key == IF is_map_key_type(peek.kw) THEN <<"any">> ELSE Fail

\* A map that may not stand there is refused once it is parsed.
type_ref(onMap) ==
    CASE is_scalar_type(peek.kw) -> <<"Scalar", "any">>
      [] AtKw({"map"}) /\ peek2.kind = "<" -> map_type \o onMap
      [] OTHER -> IF At({"Ident", "."}) THEN <<"Named", "path">> ELSE Fail

\* in_oneof, in_enum: parameters in the code, which the innermost block sets.
InnermostIs(items) ==
    stack[Least({k \in 1..Len(stack) : stack[k] \in DOMAIN Item})] = items
in_oneof == InnermostIs("oneof_items")
in_enum == InnermostIs("enum_items")

named_and_numbered == <<"Ident", "=", "field_number", "field_options", ";">>

field ==
    CASE AtKw({"required"}) -> Fail
      [] AtKw({"repeated", "optional"}) ->
            IF in_oneof THEN Fail
            ELSE <<"Field", "label", "any", "labelled_type">> \o named_and_numbered
      [] OTHER -> <<"Field", IF in_oneof THEN "oneof_type" ELSE "type">> \o named_and_numbered
label == IF AtKw({"repeated"}) THEN <<"Repeated">> ELSE <<"Optional">>

enum_value == <<"Value", "Ident", "=", "value_number", "field_options", ";">>
value_number == IF At({"-"}) THEN <<"-", "negative">> ELSE <<"number">>

-----------------------------------------------------------------------------
\* MUTANT of eat_stream: a type named stream is taken for the modifier.
eat_stream_always == Optionally(AtKw({"stream"}), <<"Stream", "any">>)

\* The modifier, and not a type named stream.
eat_stream == Optionally(AtKw({"stream"}) /\ peek2.kind \in {"Ident", "."}, <<"Stream", "any">>)

rpc == <<"Rpc", "rpc", "Ident", "(", "eat_stream", "path", ")",
         "returns", "(", "eat_stream", "path", ")", "rpc_body">>
rpc_body == IF At({";"}) THEN <<";">> ELSE <<"{">> \o Block("rpc_items")

\* A bound of a reserved range, as check_reserved_bound takes it.
bound ==
    IF At({"-"}) THEN <<"-", IF in_enum THEN "negative" ELSE "fail">>
    ELSE <<IF in_enum THEN "number" ELSE "field_number">>
upper_bound == IF AtKw({"max"}) THEN <<"max", "Max">> ELSE bound
ranges == bound \o <<"range_end", "more_ranges">>
range_end == Optionally(AtKw({"to"}), <<"to", "upper_bound">>)
more_ranges == IF At({","}) THEN <<",", "ranges">> ELSE <<";">>
more_names == IF At({","}) THEN <<",", "Str", "more_names">> ELSE <<";">>

reserved == <<"Reserved", "reserved", "reserved_kind">>
reserved_kind ==
    CASE At({"Str"}) -> <<"Str", "more_names">>
      [] At({"Int", "-"}) -> ranges
      [] OTHER -> Fail

-----------------------------------------------------------------------------
top_item ==
    CASE AtKw({"syntax"}) -> syntax
      [] AtKw({"package"}) -> package
      [] AtKw({"import"}) -> import
      [] AtKw({"option"}) -> option_stmt
      [] AtKw({"message"}) -> message
      [] AtKw({"enum"}) -> enum_def
      [] AtKw({"service"}) -> service
      [] OTHER -> Fail

msg_item ==
    CASE AtKw({"message"}) -> message
      [] AtKw({"enum"}) -> enum_def
      [] AtKw({"oneof"}) -> oneof
      [] AtKw({"option"}) -> option_stmt
      [] AtKw({"reserved"}) -> reserved
      [] AtKw({"extend", "extensions", "group", "required"}) -> Fail
      [] OTHER -> IF At({"Ident", "."}) THEN field ELSE Fail

oneof_item ==
    CASE AtKw({"option"}) -> option_stmt
      [] OTHER -> IF At({"Ident", "."}) THEN field ELSE Fail

enum_item ==
    CASE AtKw({"option"}) -> option_stmt
      [] AtKw({"reserved"}) -> reserved
      [] OTHER -> IF At({"Ident"}) THEN enum_value ELSE Fail

svc_item ==
    CASE AtKw({"option"}) -> option_stmt
      [] AtKw({"rpc"}) -> rpc
      [] OTHER -> Fail

rpc_item == IF AtKw({"option"}) THEN option_stmt ELSE Fail

-----------------------------------------------------------------------------
\* An extension name in brackets is what identifiers, dots and slashes join to.
InBrackets == At({"Ident", ".", "/"})
bracket_name == IF InBrackets THEN <<"any", "more_brackets">> ELSE Fail
more_brackets == IF InBrackets THEN <<"any", "more_brackets">> ELSE <<"]">>

text_field ==
    <<"Text">> \o (IF At({"["}) THEN <<"[", "Ext", "bracket_name">> ELSE <<"Ident">>)
               \o <<"text_field_value", "separator">>
text_field_value ==
    CASE At({":"}) -> <<":", "text_val">>
      [] At({"{", "<"}) -> text_msg
      [] OTHER -> Fail
separator == Optionally(At({",", ";"}), <<"any">>)

text_val ==
    CASE At({"Str"}) -> strlit
      [] At({"Int", "Float", "Ident"}) -> <<"any">>
      [] At({"-", "+"}) -> <<"any", "signed">>
      [] At({"{", "<"}) -> text_msg
      [] At({"["}) -> <<"[", "list">>
      [] OTHER -> Fail
list == IF At({"]"}) THEN <<"]">> ELSE <<"list_item">>
list_item == IF At({"["}) THEN Fail ELSE <<"text_val", "more_list">>
more_list == IF At({","}) THEN <<",", "list_item">> ELSE <<"]">>

-----------------------------------------------------------------------------
\* The functions called through the stack.
Functions ==
    DOMAIN Item \cup {Item[items] : items \in DOMAIN Item} \cup
    {"path", "segments", "option_name", "name_parts", "option_name_part", "strings", "signed",
     "constant", "field_options", "field_option", "more_options", "package_path", "import_kind",
     "map_key", "type", "oneof_type", "labelled_type", "value_type", "label", "value_number",
     "eat_stream", "rpc_body", "upper_bound", "ranges", "range_end", "more_ranges", "more_names",
     "reserved_kind", "bracket_name", "more_brackets", "text_field_value", "separator",
     "text_val", "list", "list_item", "more_list"}

Does(f) ==
    CASE f \in DOMAIN Item -> block_items(f)
      [] f = "top_item" -> top_item
      [] f = "msg_item" -> msg_item
      [] f = "oneof_item" -> oneof_item
      [] f = "enum_item" -> enum_item
      [] f = "svc_item" -> svc_item
      [] f = "rpc_item" -> rpc_item
      [] f = "text_field" -> text_field
      [] f = "path" -> path
      [] f = "segments" -> segments
      [] f = "option_name" -> option_name
      [] f = "name_parts" -> name_parts
      [] f = "option_name_part" -> option_name_part
      [] f = "strings" -> strings
      [] f = "signed" -> signed
      [] f = "constant" -> constant
      [] f = "field_options" -> field_options
      [] f = "field_option" -> field_option
      [] f = "more_options" -> more_options
      [] f = "package_path" -> package_path
      [] f = "import_kind" -> import_kind
      [] f = "map_key" -> map_key
      [] f = "type" -> type_ref(<<>>)
      [] f \in {"oneof_type", "labelled_type", "value_type"} -> type_ref(Fail)
      [] f = "label" -> label
      [] f = "value_number" -> value_number
      [] f = "eat_stream" -> eat_stream
      [] f = "rpc_body" -> rpc_body
      [] f = "upper_bound" -> upper_bound
      [] f = "ranges" -> ranges
      [] f = "range_end" -> range_end
      [] f = "more_ranges" -> more_ranges
      [] f = "more_names" -> more_names
      [] f = "reserved_kind" -> reserved_kind
      [] f = "bracket_name" -> bracket_name
      [] f = "more_brackets" -> more_brackets
      [] f = "text_field_value" -> text_field_value
      [] f = "separator" -> separator
      [] f = "text_val" -> text_val
      [] f = "list" -> list
      [] f = "list_item" -> list_item
      [] f = "more_list" -> more_list

-----------------------------------------------------------------------------
next == Head(stack)
Parsing(S) == at = "parse" /\ stack # <<>> /\ next \in S
Continue == stack' = Tail(stack) /\ UNCHANGED <<text, lexing, at>>
Refuse == at' = "rejected" /\ UNCHANGED <<text, lexing, parsing>>

Begin ==
    /\ at = "lexed"
    /\ at' = "parse"
    /\ UNCHANGED <<text, lexing, parsing>>

Call ==
    /\ Parsing(Functions)
    /\ stack' = Does(next) \o Tail(stack)
    /\ UNCHANGED <<text, lexing, at, ti, depth, tree>>

\* bump and expect; the token at the end is never passed.
Take ==
    /\ at = "parse" /\ stack # <<>>
    /\ next \notin Functions \cup Marks \cup {"enter", "leave"}
    /\ IF Fits(next, peek)
       THEN /\ ti' = IF peek.kind = "Eof" THEN ti ELSE ti + 1
            /\ Continue /\ UNCHANGED <<depth, tree>>
       ELSE Refuse

Mark ==
    /\ Parsing(Marks)
    /\ tree' = Append(tree, next)
    /\ Continue /\ UNCHANGED <<ti, depth>>

\* The scope nesting cap.
Enter ==
    /\ Parsing({"enter"})
    /\ IF depth + 1 > MaxNesting THEN Refuse
       ELSE depth' = depth + 1 /\ Continue /\ UNCHANGED <<ti, tree>>

Leave ==
    /\ Parsing({"leave"})
    /\ depth' = depth - 1
    /\ Continue /\ UNCHANGED <<ti, tree>>

\* What file() asks of the items of the file.
WellFormed ==
    /\ tree # <<>> /\ tree[1] = "Syntax"
    /\ \A k \in 2..Len(tree) : tree[k] # "Syntax"
    /\ Cardinality({k \in 1..Len(tree) : tree[k] = "Package"}) <= 1

EndOfFile ==
    /\ at = "parse" /\ stack = <<>>
    /\ at' = IF WellFormed THEN "accepted" ELSE "rejected"
    /\ UNCHANGED <<text, lexing, parsing>>

Init ==
    /\ ti = 1 /\ stack = <<"top_items">> /\ depth = 0 /\ tree = <<>>
    /\ i = 0 /\ line = 1 /\ prev_end_line = 0 /\ comments = <<>>
    /\ \/ \E some \in Texts : text \in some /\ toks = <<>> /\ at = "lex"
       \/ \E some \in Rows : text = <<>> /\ toks \in some /\ at = "parse"

Next ==
    \/ LexStep /\ UNCHANGED <<text, parsing>>
    \/ Begin \/ Call \/ Take \/ Mark \/ Enter \/ Leave \/ EndOfFile

Spec == Init /\ [][Next]_vars

-----------------------------------------------------------------------------
G == INSTANCE Grammar

\* The parser accepts a row of tokens exactly if the grammar derives it with no block
\* nested deeper than the cap, and builds a tree the grammar gives it: no choice made
\* on one token or two, or on a keyword, loses a text or misreads one, be it a type
\* named stream, map or message, and no number out of its range gets in.
ParserIsExact ==
    /\ at = "accepted" => tree \in G!Derivations(toks)
    /\ at = "rejected" => G!Derivations(toks) = {}
=============================================================================
