------------------------------ MODULE OwnedDir ------------------------------
(***************************************************************************)
(* What fs::sync promises of an output directory, without saying how: one  *)
(* writer at a time puts its files under their names, takes away only what *)
(* a name on record leads to, and replaces the record only when it holds   *)
(* exactly the names of the writer's own files and nothing is left where   *)
(* the other names of the old record lead.  A writer may stop at any       *)
(* point; the owner acts between writers and never forges a writer's file. *)
(*                                                                         *)
(* Names that lead to one entry are the owner's risk: what a writer put    *)
(* there goes with the outdated name.                                      *)
(***************************************************************************)
CONSTANTS
    Writers,
    Names,     \* what files are asked for and recorded by
    Entries,
    Outside,   \* the entries that are not below the directory
    Absent, Link, \* no entry, a symlink
    NoWriter

VARIABLES
    disk,      \* what each entry holds; a writer stands for its text
    where,     \* the entry each name leads to
    recorded,  \* the names on record
    writer     \* who may change the directory

vars == <<disk, where, recorded, writer>>

Init ==
    /\ \A e \in Entries : disk[e] \notin Writers
    /\ recorded = {}
    /\ writer = NoWriter

Begin ==
    /\ writer = NoWriter
    /\ writer' \in Writers
    /\ UNCHANGED <<disk, where, recorded>>

Put(n) ==
    /\ writer # NoWriter
    /\ where[n] \notin Outside
    /\ disk' = [disk EXCEPT ![where[n]] = writer]
    /\ UNCHANGED <<where, recorded, writer>>

Take(n) ==
    /\ writer # NoWriter
    /\ n \in recorded
    /\ where[n] \notin Outside /\ disk[where[n]] # Link
    /\ disk' = [disk EXCEPT ![where[n]] = Absent]
    /\ UNCHANGED <<where, recorded, writer>>

\* The names of the old record that a new one N drops.
Outdated(N) == recorded \ N

Commit ==
    /\ writer # NoWriter
    /\ \E N \in SUBSET Names :
          /\ \A m \in Outdated(N) : disk[where[m]] = Absent
          /\ \A n \in N : \/ disk[where[n]] = writer
                          \/ \E m \in Outdated(N) : where[m] = where[n]
          /\ \A e \in Entries : disk[e] = writer => \E n \in N : where[n] = e
          /\ recorded' = N
    /\ UNCHANGED <<disk, where, writer>>

End ==
    /\ writer # NoWriter
    /\ writer' = NoWriter
    /\ UNCHANGED <<disk, where, recorded>>

\* The owner edits entries and redirects names.
OwnerEdits ==
    /\ writer = NoWriter
    /\ \A e \in Entries : disk'[e] # disk[e] => disk'[e] \notin Writers
    /\ UNCHANGED <<recorded, writer>>

Next ==
    \/ Begin \/ Commit \/ End \/ OwnerEdits
    \/ \E n \in Names : Put(n) \/ Take(n)

Spec == Init /\ [][Next]_vars
=============================================================================
