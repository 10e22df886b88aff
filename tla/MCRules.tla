-------------------------------- MODULE MCRules --------------------------------
(***************************************************************************)
(* Files of up to four lines of one of these shapes, and of one rule with  *)
(* any pattern of up to four segments, in a scope or not.                  *)
(***************************************************************************)
EXTENDS Rules

MCNames == {"a", "b"}

Close0 == [is |-> "close"]
Scope(p) == [is |-> "open", pattern |-> p]
Rule(m, p, k) == [is |-> "rule", marker |-> m, pattern |-> p, kind |-> k]

Shapes ==
    {[is |-> "blank"], Close0, Scope(<<"a">>), Scope(<<"**", "b">>), Scope(<<"a", "">>),
     Rule("+", <<"**">>, "any"), Rule("-!", <<"*", "a">>, "message"), Rule("-", <<"b">>, "unknown"),
     Rule("+!", <<"b">>, "any"), Rule("-", <<"b", "">>, "field")}

MCSources ==
    BoundedSeq(Shapes, 4)
    \cup {<<Rule("+", p, "any")>> : p \in BoundedSeq(MCNames \cup {"*", "**"}, 4)}
    \cup {<<Scope(p), Scope(q), Rule("-", <<"**">>, "any"), Close0, Rule("+", <<"b">>, "any"), Close0>>
          : p, q \in BoundedSeq({"a", "*", "**"}, 2)}

MCPaths == BoundedSeq(MCNames, 4)
=============================================================================
