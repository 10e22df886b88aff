------------------------------- MODULE MCSync -------------------------------
(* Small instances of Sync for TLC. *)
EXTENDS Sync, TLC

CONSTANTS r1, r2,      \* calls
          a, b, bad,   \* two valid paths and one that validation rejects
          d,           \* a directory of the root
          n            \* a name

\* a is in the root and b in d, under one name; the invalid path would escape.
MCDistinct == (a :> <<Top, n>>) @@ (b :> <<d, n>>) @@ (bad :> <<Away, n>>)

\* Calls are interchangeable (safety only).
MCRunSymmetry == Permutations(Runs)
=============================================================================
