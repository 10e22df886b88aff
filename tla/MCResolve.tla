------------------------------- MODULE MCResolve -------------------------------
(***************************************************************************)
(* Two files whose packages may be nested, equal or unrelated, with nested *)
(* definitions of the same names, and one reference of each sort that may  *)
(* be any path over these names.                                           *)
(***************************************************************************)
EXTENDS Resolve

MCNames == {"a", "b", "f", "g"}
MCBuiltins == {<<"g", "b">>, <<"g", "a">>}
MCBuiltinEnums == {<<"g", "a">>}

D(f, name, kind, parent, refs) ==
    [file |-> f, name |-> name, kind |-> kind, parent |-> parent, refs |-> refs]
Ref1(p) == <<[dot |-> FALSE, segs |-> p]>>

AnyPath == UNION {[1..n -> MCNames] : n \in 1..3}
AnyRef == {[dot |-> d, segs |-> s] : d \in BOOLEAN, s \in AnyPath}
Pkgs == {<<>>, <<"a">>, <<"a", "b">>, <<"b">>}

\* message a { field f; field b; message b { enum f { value g } } } in one file,
\* message b { message a } in the other.
Nested(r) ==
    <<D(1, "a", "message", 0, <<>>), D(1, "f", "field", 1, <<r>>), D(1, "g", "message", 1, <<>>),
      D(1, "b", "field", 3, <<[dot |-> FALSE, segs |-> <<"g">>]>>),
      D(1, "a", "enum", 3, <<>>), D(1, "f", "value", 5, <<>>),
      D(2, "b", "message", 0, <<>>), D(2, "a", "message", 7, <<>>)>>

\* service a { rpc b(r) returns (b); rpc f } and messages b and f.
Called(r) ==
    <<D(1, "a", "service", 0, <<>>), D(1, "b", "method", 1, <<r, [dot |-> FALSE, segs |-> <<"f">>]>>),
      D(1, "f", "message", 0, <<>>),
      D(2, "b", "message", 0, <<>>), D(2, "a", "message", 4, <<>>), D(2, "g", "enum", 0, <<>>)>>

MCInputs ==
    {[pkgs |-> <<p, q>>, decls |-> s] : p, q \in Pkgs,
        s \in {Nested(r) : r \in AnyRef} \cup {Called(r) : r \in AnyRef}}

\* A package called like a field.
MCClashing ==
    {[pkgs |-> <<<<"a">>, <<"a", "f">>, <<"a", "a", "f">>>>, decls |-> s] :
        s \in {<<D(1, "a", "message", 0, <<>>), D(1, "g", "field", 1, <<r>>), D(1, "f", "field", 1, <<>>),
                 D(2, "b", "message", 0, <<>>), D(3, "g", "message", 0, <<>>)>> : r \in AnyRef}}

MCAll == MCInputs \cup MCClashing
=============================================================================
