---------------------------------- MODULE Fmt ----------------------------------
(***************************************************************************)
(* pbtrim fmt (bin/pbtrim.rs): one file after the other is read, parsed,   *)
(* printed and, unless a flag says otherwise, replaced.  A file that fails *)
(* does not keep the next ones from being tried.  write_atomic, the        *)
(* subject of Sync, is one step that replaces a file or fails.             *)
(***************************************************************************)
EXTENDS Shell

Flags == {"check", "stdout"}
FmtCommands == [cmd : {"fmt"}, flags : SUBSET Flags, files : Seq(Files)]

VARIABLES
    text,         \* run -> the text it holds
    seen,         \* run -> its files so far: the text, and if all went well
    failed,       \* run -> the flag of fmt
    would_change  \* run -> the flag of fmt

flags == <<failed, would_change>>
fmt == <<text, seen, flags>>

Nothing == [version |-> 0, form |-> "gone"]
Formats(r) == command[r].cmd = "fmt"
Check(r) == "check" \in command[r].flags
Stdout(r) == "stdout" \in command[r].flags
InPlace(r) == Formats(r) /\ command[r].flags = {}
File(r) == command[r].files[Len(seen[r]) + 1]
Left(r) == Len(seen[r]) < Len(command[r].files)

FmtInit ==
    /\ text = [r \in Runs |-> Nothing]
    /\ seen = [r \in Runs |-> <<>>]
    /\ failed = [r \in Runs |-> FALSE]
    /\ would_change = [r \in Runs |-> FALSE]

-----------------------------------------------------------------------------
(* The arguments.                                                          *)

FmtMisused(r) == (Check(r) /\ Stdout(r)) \/ command[r].files = <<>>

Begin(r) ==
    /\ at[r] = "start" /\ Formats(r)
    /\ IF FmtMisused(r) THEN Exit(r, 2) ELSE Goto(r, "next") /\ UNCHANGED code
    /\ UNCHANGED <<disk, saved, command, fmt, closed, stale>>

-----------------------------------------------------------------------------
(* One file.                                                               *)

Seen(r, t, well) == seen' = [seen EXCEPT ![r] = Append(@, [text |-> t, well |-> well])]

Read(r) ==
    /\ at[r] = "next" /\ Left(r) /\ Parses(disk[File(r)])
    /\ text' = [text EXCEPT ![r] = disk[File(r)]]
    /\ Goto(r, "use")
    /\ Knows(r, File(r))
    /\ UNCHANGED <<disk, saved, command, seen, flags, closed, code>>

\* The file cannot be read, or not parsed: the next one is tried.
ReadFails(r) ==
    /\ at[r] = "next" /\ Left(r) /\ ~Parses(disk[File(r)])
    /\ Seen(r, disk[File(r)], FALSE)
    /\ failed' = [failed EXCEPT ![r] = TRUE]
    /\ UNCHANGED <<disk, saved, command, at, text, would_change, closed, code, stale>>

NextFile(r) == Goto(r, "next") /\ text' = [text EXCEPT ![r] = Nothing]
Using(r) == at[r] = "use"

\* What is written to standard output; if that fails the other files are not tried.
Say(r) ==
    \/ r \notin closed /\ Seen(r, text[r], TRUE) /\ NextFile(r) /\ UNCHANGED code
    \/ CannotSay(r) /\ UNCHANGED <<seen, text>>

Emit(r) ==
    /\ Using(r) /\ Stdout(r)
    /\ Say(r)
    /\ UNCHANGED <<disk, saved, command, flags, closed, stale>>

Unchanged(r) ==
    /\ Using(r) /\ ~Stdout(r) /\ Formatted(text[r]) = text[r]
    /\ Seen(r, text[r], TRUE) /\ NextFile(r)
    /\ UNCHANGED <<disk, saved, command, flags, closed, code, stale>>

Differs(r) == Using(r) /\ ~Stdout(r) /\ Formatted(text[r]) # text[r]
WouldChange(r) == would_change' = [would_change EXCEPT ![r] = TRUE]

Report(r) ==
    /\ Differs(r) /\ Check(r)
    /\ WouldChange(r)
    /\ Say(r)
    /\ UNCHANGED <<disk, saved, command, failed, closed, stale>>

Replace(r) ==
    /\ Differs(r) /\ ~Check(r)
    /\ WouldChange(r)
    /\ PutText(File(r), Formatted(text[r]))
    /\ Seen(r, text[r], TRUE) /\ NextFile(r)
    /\ UNCHANGED <<saved, command, failed, closed, code>>

\* MUTANT of ReplaceFails: the failure is printed only.
ReplaceFailsQuietly(r) ==
    /\ Differs(r) /\ ~Check(r)
    /\ WouldChange(r)
    /\ Seen(r, text[r], FALSE) /\ NextFile(r)
    /\ UNCHANGED <<disk, saved, command, failed, closed, code, stale>>

ReplaceFails(r) ==
    /\ Differs(r) /\ ~Check(r)
    /\ WouldChange(r)
    /\ failed' = [failed EXCEPT ![r] = TRUE]
    /\ Seen(r, text[r], FALSE) /\ NextFile(r)
    /\ UNCHANGED <<disk, saved, command, closed, code, stale>>

\* MUTANT of Finish: a difference outweighs an error.
FinishOnDrift(r) ==
    /\ at[r] = "next" /\ ~Left(r)
    /\ Exit(r, IF Check(r) /\ would_change[r] THEN 1 ELSE IF failed[r] THEN 2 ELSE 0)
    /\ UNCHANGED <<disk, saved, command, fmt, closed, stale>>

Finish(r) ==
    /\ at[r] = "next" /\ ~Left(r)
    /\ Exit(r, IF failed[r] THEN 2 ELSE IF Check(r) /\ would_change[r] THEN 1 ELSE 0)
    /\ UNCHANGED <<disk, saved, command, fmt, closed, stale>>

FmtStep(r) ==
    \/ Begin(r) \/ Read(r) \/ ReadFails(r)
    \/ Emit(r) \/ Unchanged(r) \/ Report(r) \/ Replace(r) \/ ReplaceFails(r)
    \/ Finish(r)

-----------------------------------------------------------------------------
(* Correctness.                                                            *)

\* "0 success, 1 only for fmt --check drift, 2 any error": unless its reader went
\* away, the code of a run tells of all its files, whichever of them failed and
\* whatever came after it, and of a failure of its output.  Only that keeps a file
\* from being tried, and never in place, where there is no output.
ExitCodeTells ==
    \A r \in Runs : Formats(r) /\ (Ended(r) \/ Lost(r)) =>
        LET wrong == Lost(r) \/ \E i \in DOMAIN seen[r] : ~seen[r][i].well
            drift == \E i \in DOMAIN seen[r] : seen[r][i].text.form = "untidy"
        IN /\ code[r] = 2 <=> FmtMisused(r) \/ wrong
           /\ code[r] = 1 <=> ~FmtMisused(r) /\ ~wrong /\ Check(r) /\ drift
           /\ Len(seen[r]) # Len(command[r].files) => FmtMisused(r) \/ Lost(r)
           /\ Lost(r) => ~InPlace(r)

\* After a run in place with code 0 each of its files is formatted, unless another
\* version of it came after the run read it; what other runs do at the same time
\* does not undo that.
SuccessMeansTidy ==
    \A r \in Runs : (Ended(r) /\ InPlace(r) /\ code[r] = 0) =>
        \A i \in DOMAIN command[r].files :
            command[r].files[i] \notin stale[r] => disk[command[r].files[i]].form = "tidy"

\* A save may be undone by a run that read before it, but a file always has a
\* text its owner saved in it, or that text formatted; one that does not parse
\* stays as it is; and without a run in place the last save stands.  No prune
\* writes to a source.
TextsAreSaved ==
    \A f \in Files :
        /\ \E i \in DOMAIN saved[f] :
              LET t == saved[f][i]
              IN disk[f] = t \/ (t.form = "untidy" /\ disk[f] = Formatted(t))
        /\ (\A r \in Runs : ~InPlace(r)) => disk[f] = Latest(f)
=============================================================================
