------------------------------- MODULE MCBridge -------------------------------
(***************************************************************************)
(* Two files a and e that import, bridges b and c that may import each     *)
(* other, a file d that is both bridge and provider, and two well-known    *)
(* paths.  The input has any of the lines of Pool.                         *)
(***************************************************************************)
EXTENDS Bridge

CONSTANTS a, b, c, d, e, v, w

Line(f, t, p) == [from |-> f, to |-> t, public |-> p]

Pool == {Line(a, b, FALSE), Line(a, d, TRUE), Line(e, c, FALSE), Line(b, b, TRUE),
         Line(b, c, TRUE), Line(c, b, TRUE), Line(b, d, TRUE), Line(b, c, FALSE),
         Line(b, w, TRUE), Line(d, v, TRUE)}

MCGraphs == SUBSET Pool

MCRefSets == SUBSET {<<a, d>>, <<a, w>>, <<e, v>>}
=============================================================================
