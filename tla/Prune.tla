--------------------------------- MODULE Prune ---------------------------------
(***************************************************************************)
(* pbtrim select and pbtrim prune (bin/pbtrim.rs): from the arguments over *)
(* the rules file, the listing of the root and one input after the other   *)
(* to the report; prune mirrors the result into the output directory, by   *)
(* the steps of OwnedDir, which Sync implements.  A run takes no lock      *)
(* before it has read everything: its inputs are what each file held at    *)
(* some moment, and its result is published when its turn comes.           *)
(*                                                                         *)
(* What a text says is reduced to its version.  Two texts go together if   *)
(* they are of the same Api; Keeps are the files that a prune by a version *)
(* of the rules leaves (the subject of Select and Bridge).                 *)
(***************************************************************************)
EXTENDS Shell, SequencesExt

CONSTANTS
    RulesFile,
    Sources,   \* the other files, all below the root
    Place,     \* a source's place in the order of their paths
    PathOf,    \* the path of a source from the root
    Provided,  \* the sources under google/protobuf
    Api, Imports, Keeps,
    Root,      \* the canonical path of the root
    Dirs,      \* the paths --out may be given,
    Real,      \*   and their canonical paths
    Absent, Link, NoRun

PruneCommands == [cmd : {"select", "prune"}, given : SUBSET {"rules", "root", "out"}, out : Dirs]

ASSUME FilesAssumption ==
    /\ Files = Sources \cup {RulesFile} /\ RulesFile \notin Sources
    /\ Place \in [Sources -> Nat] /\ Provided \subseteq Sources
    /\ Imports \in [Sources -> SUBSET Sources]
    /\ Keeps \in [0..MaxSaves -> SUBSET (Sources \ Provided)]
    /\ DOMAIN Api = Sources \X (0..MaxSaves)
    /\ Root \in Seq(STRING) /\ Real \in [Dirs -> Seq(STRING)]
    /\ PathOf \in [Sources -> Seq(STRING)]
    /\ {Absent, NoRun} \cap Runs = {}

VARIABLES
    held,     \* run -> the texts it has read; one that is gone was not read
    listed,   \* run -> the sources discover found
    out,      \* source -> what the output directory has under its path; a run
              \* stands for what it made of that source
    recorded, \* the sources on the manifest
    writer,   \* the run that holds the lock
    lastWriter \* the run that held it last

dir == <<out, recorded, writer, lastWriter>>
prune == <<held, listed, dir>>

\* A file of the result is found under its own path: nothing is linked.
Dir == INSTANCE OwnedDir WITH
           Writers <- Runs, Names <- Sources, Entries <- Sources, Outside <- {},
           NoWriter <- NoRun, disk <- out, where <- [f \in Sources |-> f]

Unread == [version |-> 0, form |-> "gone"]
Selects(r) == command[r].cmd = "select"
Prunes(r) == command[r].cmd = "prune"

PruneInit ==
    /\ held = [r \in Runs |-> [f \in Files |-> Unread]]
    /\ listed = [r \in Runs |-> {}]
    /\ out = [f \in Sources |-> Absent]
    /\ Dir!Init
    /\ lastWriter = NoRun

-----------------------------------------------------------------------------
(* The arguments.                                                          *)

PruneMisused(r) ==
    \/ ~ {"rules", "root"} \subseteq command[r].given
    \/ Prunes(r) # ("out" \in command[r].given)

\* MUTANT of Overlaps: the paths are compared as they are given.
OverlapsAsGiven(d) == IsPrefix(d, Root) \/ IsPrefix(Root, d)

\* check_out_root_disjoint: neither is the other or lies in it.
Overlaps(d) == IsPrefix(Real[d], Root) \/ IsPrefix(Root, Real[d])

StartPrune(r) ==
    /\ at[r] = "start" /\ (Selects(r) \/ Prunes(r))
    /\ IF PruneMisused(r) \/ (Prunes(r) /\ Overlaps(command[r].out))
       THEN Exit(r, 2) ELSE Goto(r, "load") /\ UNCHANGED code
    /\ UNCHANGED <<disk, saved, command, prune, closed, stale>>

-----------------------------------------------------------------------------
(* The inputs.                                                             *)

Hold(r, f) == held' = [held EXCEPT ![r][f] = disk[f]] /\ Knows(r, f)

LoadRules(r) ==
    /\ at[r] = "load" /\ disk[RulesFile].form # "gone"
    /\ Hold(r, RulesFile)
    /\ Goto(r, "list")
    /\ UNCHANGED <<disk, saved, command, listed, dir, closed, code>>

\* discover walks the whole tree before it reads a file.
List(r) ==
    /\ at[r] = "list"
    /\ listed' = [listed EXCEPT ![r] = {f \in Sources : disk[f].form # "gone"}]
    /\ stale' = [stale EXCEPT ![r] = @ \ (Sources \ listed'[r])]
    /\ Goto(r, "read")
    /\ UNCHANGED <<disk, saved, command, held, dir, closed, code>>

Unseen(r) == {f \in listed[r] : held[r][f] = Unread}

ReadNext(r, f) ==
    /\ at[r] = "read" /\ f \in Unseen(r) /\ disk[f].form # "gone"
    /\ \A g \in Unseen(r) : Place[f] <= Place[g]
    /\ Hold(r, f)
    /\ UNCHANGED <<disk, saved, command, at, listed, dir, closed, code>>

\* The rules, a file that was listed, or a directory cannot be read; the tree has
\* a symlink or a name that is no import path; a directory cannot be resolved.
LoadFails(r) ==
    /\ at[r] \in {"load", "list", "read"}
    /\ Exit(r, 2)
    /\ UNCHANGED <<disk, saved, command, prune, closed, stale>>

-----------------------------------------------------------------------------
(* The pipeline.                                                           *)

\* Files under google/protobuf never take part.
Inputs(r) == listed[r] \ Provided

\* parse and analyze: imports are found, and what a file refers to is there.
Analyzes(r) ==
    /\ \A f \in Inputs(r) : Imports[f] \subseteq Inputs(r) \cup Provided
    /\ \A f, g \in Inputs(r) : Api[f, held[r][f].version] = Api[g, held[r][g].version]

\* MUTANT of Kept: what was kept once stays.
KeptStill(r) == Keeps[held[r][RulesFile].version] \cup recorded
\* The files of the result.
Kept(r) == Keeps[held[r][RulesFile].version]

\* MUTANT of Builds: a file that does not parse is left out.
BuildsWhatParses(r) ==
    /\ Inputs(r) # {} /\ Parses(held[r][RulesFile])
    /\ \E f \in Inputs(r) : Parses(held[r][f])
    /\ Analyzes(r)
    /\ Kept(r) \subseteq Inputs(r)

\* The rules parse and each hits something, there are inputs, and all of them parse.
Builds(r) ==
    /\ Inputs(r) # {} /\ Parses(held[r][RulesFile])
    /\ \A f \in Inputs(r) : Parses(held[r][f])
    /\ Analyzes(r)
    /\ Kept(r) \subseteq Inputs(r)

Run(r) ==
    /\ at[r] = "read" /\ Unseen(r) = {}
    /\ IF ~Builds(r) THEN Exit(r, 2)
       ELSE Goto(r, IF Prunes(r) THEN "lock" ELSE "report") /\ UNCHANGED code
    /\ UNCHANGED <<disk, saved, command, prune, closed, stale>>

-----------------------------------------------------------------------------
(* fs::sync.                                                               *)

Lock(r) ==
    /\ at[r] = "lock"
    /\ Dir!Begin /\ writer' = r
    /\ lastWriter' = r
    /\ Goto(r, "write")
    /\ UNCHANGED <<disk, saved, command, held, listed, closed, code, stale>>

\* Another run holds the lock, or the lock file cannot be created.
LockFails(r) ==
    /\ at[r] = "lock"
    /\ Exit(r, 2)
    /\ UNCHANGED <<disk, saved, command, prune, closed, stale>>

\* The sources that an output file would be written over.
Under(r, f) == {g \in Sources : Root \o PathOf[g] = Real[command[r].out] \o PathOf[f]}

PutFile(r, f) ==
    /\ at[r] = "write" /\ f \in Kept(r) /\ out[f] # r
    /\ Dir!Put(f)
    /\ disk' = [g \in Files |-> IF g \in Under(r, f) THEN [held[r][f] EXCEPT !.form = "cut"]
                              ELSE disk[g]]
    /\ UNCHANGED <<saved, command, at, held, listed, lastWriter, closed, code, stale>>

\* MUTANT of Written: a file that cannot be written is passed over.
WrittenAny(r) == \E f \in Kept(r) : out[f] = r
Written(r) == \A f \in Kept(r) : out[f] = r

Outdated(r) == {f \in recorded \ Kept(r) : out[f] # Absent}

TakeAway(r, f) ==
    /\ at[r] = "write" /\ Written(r) /\ f \in Outdated(r)
    /\ Dir!Take(f)
    /\ UNCHANGED <<disk, saved, command, at, held, listed, lastWriter, closed, code, stale>>

\* The manifest is replaced.
Record(r) ==
    /\ at[r] = "write" /\ Written(r) /\ Outdated(r) = {}
    /\ Dir!Commit
    /\ Goto(r, "release")
    /\ UNCHANGED <<disk, saved, command, held, listed, lastWriter, closed, code, stale>>

Release(r) ==
    /\ at[r] = "release"
    /\ Dir!End
    /\ Goto(r, "report")
    /\ UNCHANGED <<disk, saved, command, held, listed, lastWriter, closed, code, stale>>

WriteFails(r) ==
    /\ at[r] = "write"
    /\ Dir!End
    /\ Exit(r, 2)
    /\ UNCHANGED <<disk, saved, command, held, listed, lastWriter, closed, stale>>

\* The report is written, if it can be.
Tell(r) ==
    /\ at[r] = "report"
    /\ (r \notin closed /\ Exit(r, 0)) \/ CannotSay(r)
    /\ UNCHANGED <<disk, saved, command, prune, closed, stale>>

PruneStep(r) ==
    \/ StartPrune(r) \/ LoadRules(r) \/ List(r) \/ LoadFails(r)
    \/ Run(r) \/ Lock(r) \/ LockFails(r)
    \/ \E f \in Sources : ReadNext(r, f) \/ PutFile(r, f) \/ TakeAway(r, f)
    \/ Record(r) \/ Release(r) \/ WriteFails(r) \/ Tell(r)

=============================================================================
