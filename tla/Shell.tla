--------------------------------- MODULE Shell ---------------------------------
(***************************************************************************)
(* What the runs of pbtrim (bin/pbtrim.rs) share: the files, which their   *)
(* owner saves new versions of at any time, the arguments, the exit codes, *)
(* and standard output, which its reader may close and which may fail (a   *)
(* full disk).  A text is laid out as the printer would, or otherwise, or  *)
(* cut down by a prune, or it is broken (not parsed), or gone (not there,  *)
(* or not UTF-8).                                                          *)
(***************************************************************************)
EXTENDS Naturals, Sequences

CONSTANTS
    Runs, Files,
    Starts,    \* what the runs are given: their arguments, and the first texts
    FormsOf,   \* the forms in which a file may be saved
    MaxSaves   \* bound on the versions of a file

Forms == {"tidy", "untidy", "cut", "broken", "gone"}
Texts == [version : 0..MaxSaves, form : Forms]
OwnForms == Forms \ {"cut"}  \* what a text of the owner is

VARIABLES
    disk,    \* file -> its text
    saved,   \* file -> the texts its owner saved, the last one at the end
    command, \* run -> its arguments
    at,      \* run -> where it is
    closed,  \* the runs whose output nobody reads any more
    code,    \* run -> its exit code
    stale    \* run -> the files another version of which came since it read
             \* them, or began

shell == <<disk, saved, command, at, closed, code, stale>>

Latest(f) == saved[f][Len(saved[f])]
Formatted(t) == [t EXCEPT !.form = "tidy"]

\* The files a run may read.
Reads(r) == IF command[r].cmd = "fmt" THEN {command[r].files[i] : i \in DOMAIN command[r].files}
            ELSE Files

Parses(t) == t.form \in {"tidy", "untidy", "cut"}

ShellInit ==
    /\ \E s \in Starts :
          /\ command = s.command
          /\ disk = [f \in Files |-> [version |-> 0, form |-> s.forms[f]]]
    /\ saved = [f \in Files |-> <<disk[f]>>]
    /\ at = [r \in Runs |-> "start"]
    /\ closed = {}
    /\ code = [r \in Runs |-> 0]
    /\ stale = [r \in Runs |-> {}]

Goto(r, label) == at' = [at EXCEPT ![r] = label]

\* main: Ok(code) is the code, an error is printed and is 2, a broken pipe is 0.
\* Only standard output gives a subcommand an error to return.
Exit(r, c) == Goto(r, "done") /\ code' = [code EXCEPT ![r] = c]
BrokenPipe(r) == Goto(r, "piped") /\ code' = [code EXCEPT ![r] = 0]
OutputFails(r) == Goto(r, "lost") /\ code' = [code EXCEPT ![r] = 2]

\* A write to standard output that does not succeed ends the run there and then.
CannotSay(r) == IF r \in closed THEN BrokenPipe(r) ELSE OutputFails(r)

\* A run holds the text it has just read of f.
Knows(r, f) == stale' = [stale EXCEPT ![r] = @ \ {f}]

\* A file gets a text, from its owner or from a run.
PutText(f, t) ==
    /\ disk' = [disk EXCEPT ![f] = t]
    /\ stale' = [r \in Runs |->
                    IF at[r] = "start" \/ t.version = disk[f].version THEN stale[r]
                    ELSE stale[r] \cup {f}]

\* Saves of files that no run reads are left out.
Save(f) ==
    /\ \E r \in Runs : f \in Reads(r)
    /\ Len(saved[f]) <= MaxSaves
    /\ \E form \in FormsOf[f] :
          LET t == [version |-> Len(saved[f]), form |-> form]
          IN PutText(f, t) /\ saved' = [saved EXCEPT ![f] = Append(@, t)]
    /\ UNCHANGED <<command, at, closed, code>>

Ended(r) == at[r] = "done"
Lost(r) == at[r] = "lost"

=============================================================================
