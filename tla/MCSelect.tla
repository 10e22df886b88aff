------------------------------ MODULE MCSelect ------------------------------
(***************************************************************************)
(* A schema with the shapes that matter: a nested message, mutual          *)
(* recursion, an enum, a builtin, and a method with two references.        *)
(*                                                                         *)
(*    1  google.protobuf.Any                                               *)
(*    2  message A           3  A.b : B       4  A.In   5  A.In.b : B      *)
(*    6  message B           7  B.in : A.In   8  B.any : Any               *)
(*    9  service S          10  S.call (A.In) returns (Any)                *)
(*   11  enum E             12  E.ZERO = 0   13  E.ONE = 1                 *)
(*   14  message C          15  C.e : E                                    *)
(***************************************************************************)
EXTENDS Select

MCKind == <<"message", "message", "field", "message", "field", "message",
            "field", "field", "service", "method", "enum", "value", "value",
            "message", "field">>
MCParent == <<0, 0, 2, 2, 4, 0, 6, 6, 0, 9, 0, 11, 11, 0, 14>>
MCRefs == <<<<>>, <<>>, <<6>>, <<>>, <<6>>, <<>>, <<4>>, <<1>>, <<>>, <<4, 1>>,
            <<>>, <<>>, <<>>, <<>>, <<11>>>>
MCNumber == [s \in 1..15 |-> IF s = 13 THEN 1 ELSE 0]

\* Patterns: one symbol each, everything, everything but the builtins, and
\* every field (`** @field`).
Patterns == {{s} : s \in 1..15} \cup {1..15, {3, 5, 7, 8, 15}}
Rules == [pol : {"keep", "drop", "cascade"}, hits : Patterns]

\* Every sequence of at most two rules.
MCPairs == {<<>>} \cup {<<x>> : x \in Rules} \cup (Rules \X Rules)

\* And every sequence of three over the patterns that reach each other.
Few == [pol : {"keep", "drop", "cascade"},
        hits : {{s} : s \in {1, 2, 4, 5, 6, 7, 9, 10}} \cup {{3, 5, 7, 8, 15}}]
MCRuleSets == MCPairs \cup (Few \X Few \X Few)
=============================================================================
