--------------------------------- MODULE Pbtrim ---------------------------------
(***************************************************************************)
(* Any number of runs of pbtrim at the same time: fmt, select and prune    *)
(* over the same sources, which their owner goes on saving, and prunes     *)
(* into one output directory.                                              *)
(***************************************************************************)
EXTENDS Fmt, Prune

ASSUME CommandsAssumption ==
    /\ MaxSaves \in Nat
    /\ Starts \subseteq [command : [Runs -> FmtCommands \cup PruneCommands],
                       forms : [Files -> OwnForms]]
    /\ FormsOf \in [Files -> SUBSET OwnForms]

vars == <<shell, fmt, prune>>

Init == ShellInit /\ FmtInit /\ PruneInit

\* fmt in place writes nothing to standard output, and the others at the end.
ClosePipe(r) ==
    /\ r \notin closed /\ ~InPlace(r) /\ at[r] \in {"use", "report"}
    /\ closed' = closed \cup {r}
    /\ UNCHANGED <<disk, saved, command, at, code, stale, fmt, prune>>

\* main: the subcommand decides.
Step(r) ==
    \/ FmtStep(r) /\ UNCHANGED prune
    \/ PruneStep(r) /\ UNCHANGED fmt

Next ==
    \/ \E r \in Runs : Step(r) \/ ClosePipe(r)
    \/ \E f \in Files : Save(f) /\ UNCHANGED <<fmt, prune>>

Spec == Init /\ [][Next]_vars

-----------------------------------------------------------------------------
(* Correctness.                                                            *)

\* Inputs are read before any lock is taken and one after the other, while their
\* owner saves: whatever a prune has put into the output directory, also one that
\* failed half-way, comes from inputs that all parse and go together, and is made
\* of a text its owner saved.  A select, and a prune that stops at its arguments
\* or inputs, leave nothing there.
OutputIsAnalyzed ==
    \A f \in Sources : out[f] \in Runs =>
        LET h == held[out[f]]
            inputs == listed[out[f]] \ Provided
        IN /\ Prunes(out[f]) /\ f \in inputs
           /\ \A g \in inputs \cup {RulesFile} :
                 /\ Parses(h[g])
                 /\ \E i \in DOMAIN saved[g] : h[g] \in {saved[g][i], Formatted(saved[g][i])}
           /\ \A g, k \in inputs : Api[g, h[g].version] = Api[k, h[k].version]

\* "Mirrors files into out_dir": the directory is that of the last run that got
\* the lock, if its sync ends well: its files and no other are recorded, and what
\* is there of any other run comes from one that failed.
Published(r) ==
    Prunes(r) /\ (at[r] \in {"report", "piped", "lost"} \/ (Ended(r) /\ code[r] = 0))

LastOneMirrors ==
    \A r \in Runs : Published(r) /\ lastWriter = r =>
        /\ recorded = Kept(r)
        /\ \A f \in Sources : out[f] = r <=> f \in Kept(r)
        /\ \A f \in Sources : out[f] \in Runs \ {r} =>
                Ended(out[f]) /\ code[out[f]] = 2

\* A prune whose sync ends well, and whose files and rules are since it read them as they
\* were, leaves what a prune of the present files is - unless a later run got the
\* lock, which may have read before it.
OutputIsCurrent ==
    \A r \in Runs : Published(r) /\ lastWriter = r /\ stale[r] = {} =>
        LET now == Keeps[disk[RulesFile].version]
        IN /\ recorded = now
           /\ \A f \in now : out[f] = r /\ held[r][f].version = disk[f].version
=============================================================================
