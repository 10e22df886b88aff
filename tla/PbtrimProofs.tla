------------------------------ MODULE PbtrimProofs ------------------------------
(***************************************************************************)
(* What holds of Pbtrim for any number of runs, files and saves, under the *)
(* assumptions Prune and Pbtrim name.                                      *)
(***************************************************************************)
EXTENDS Pbtrim, SequenceTheorems, TLAPS

-----------------------------------------------------------------------------
(* Types *)

Labels == {"start", "next", "use", "load", "list", "read", "lock", "write", "release",
           "report", "done", "piped", "lost"}
Verdicts == [text : Texts, well : BOOLEAN]

ShellType ==
    /\ disk \in [Files -> Texts]
    /\ saved \in [Files -> Seq(Texts)]
    /\ command \in [Runs -> FmtCommands \cup PruneCommands]
    /\ at \in [Runs -> Labels]
    /\ closed \in SUBSET Runs
    /\ code \in [Runs -> 0..2]
    /\ stale \in [Runs -> SUBSET Files]

FmtType ==
    /\ text \in [Runs -> Texts]
    /\ seen \in [Runs -> Seq(Verdicts)]
    /\ failed \in [Runs -> BOOLEAN]
    /\ would_change \in [Runs -> BOOLEAN]

PruneType ==
    /\ held \in [Runs -> [Files -> Texts]]
    /\ listed \in [Runs -> SUBSET Sources]
    /\ out \in [Sources -> Runs \cup {Absent}]
    /\ recorded \in SUBSET Sources
    /\ writer \in Runs \cup {NoRun}
    /\ lastWriter \in Runs \cup {NoRun}

TypeOK == ShellType /\ FmtType /\ PruneType

LEMMA TextTypes ==
    /\ Nothing \in Texts /\ Unread \in Texts
    /\ \A t \in Texts : Formatted(t) \in Texts /\ [t EXCEPT !.form = "cut"] \in Texts
  BY CommandsAssumption DEF Nothing, Unread, Texts, Forms, Formatted

\* The arguments of a run of fmt.
LEMMA FmtCommand ==
    ASSUME ShellType, NEW r \in Runs, Formats(r)
    PROVE command[r] \in FmtCommands
  BY DEF ShellType, Formats, FmtCommands, PruneCommands

LEMMA InitType == Init => TypeOK
<1> SUFFICES ASSUME Init PROVE TypeOK
  OBVIOUS
<1>1. PICK s \in Starts : /\ command = s.command
                          /\ disk = [f \in Files |-> [version |-> 0, form |-> s.forms[f]]]
  BY DEF Init, ShellInit
<1>2. command \in [Runs -> FmtCommands \cup PruneCommands] /\ s.forms \in [Files -> OwnForms]
  BY <1>1, CommandsAssumption
<1>3. disk \in [Files -> Texts]
  BY <1>1, <1>2, CommandsAssumption DEF Texts, OwnForms
<1>4. saved \in [Files -> Seq(Texts)]
  BY <1>3 DEF Init, ShellInit
<1>5. ShellType
  BY <1>2, <1>3, <1>4 DEF Init, ShellInit, ShellType, Labels
<1>6. FmtType
  BY TextTypes DEF Init, FmtInit, FmtType
<1>7. PruneType
  BY TextTypes DEF Init, PruneInit, PruneType, Dir!Init
<1> QED
  BY <1>5, <1>6, <1>7 DEF TypeOK

-----------------------------------------------------------------------------
(* What the parts of a step do to the types.                               *)

LEMMA GotoType ==
    ASSUME ShellType, NEW r \in Runs, NEW label \in Labels, Goto(r, label)
    PROVE at' \in [Runs -> Labels] /\ at' = [at EXCEPT ![r] = label]
  BY DEF ShellType, Goto

LEMMA ExitType ==
    ASSUME ShellType, NEW r \in Runs, NEW c \in 0..2, Exit(r, c)
    PROVE /\ at' \in [Runs -> Labels] /\ at' = [at EXCEPT ![r] = "done"]
          /\ code' \in [Runs -> 0..2] /\ code' = [code EXCEPT ![r] = c]
  BY DEF ShellType, Goto, Exit, Labels

LEMMA PipeType ==
    ASSUME ShellType, NEW r \in Runs, CannotSay(r)
    PROVE /\ at' \in [Runs -> Labels] /\ code' \in [Runs -> 0..2]
          /\ \/ at'[r] = "piped" /\ code'[r] = 0
             \/ at'[r] = "lost" /\ code'[r] = 2
<1>1. CASE BrokenPipe(r)
  BY <1>1 DEF ShellType, Goto, BrokenPipe, Labels
<1>2. CASE OutputFails(r)
  BY <1>2 DEF ShellType, Goto, OutputFails, Labels
<1> QED
  BY <1>1, <1>2 DEF CannotSay

LEMMA KnowsType ==
    ASSUME ShellType, NEW r \in Runs, NEW f, Knows(r, f)
    PROVE stale' \in [Runs -> SUBSET Files]
  BY DEF ShellType, Knows

LEMMA PutTextType ==
    ASSUME ShellType, NEW f \in Files, NEW t \in Texts, PutText(f, t)
    PROVE disk' \in [Files -> Texts] /\ stale' \in [Runs -> SUBSET Files]
  BY DEF ShellType, PutText

LEMMA SeenType ==
    ASSUME FmtType, NEW r \in Runs, NEW t \in Texts, NEW well \in BOOLEAN, Seen(r, t, well)
    PROVE /\ seen' \in [Runs -> Seq(Verdicts)]
          /\ seen' = [seen EXCEPT ![r] = Append(seen[r], [text |-> t, well |-> well])]
<1>1. [text |-> t, well |-> well] \in Verdicts /\ seen[r] \in Seq(Verdicts)
  BY DEF FmtType, Verdicts
<1>2. Append(seen[r], [text |-> t, well |-> well]) \in Seq(Verdicts)
  BY <1>1
<1> QED
  BY <1>2 DEF FmtType, Seen

LEMMA NextFileType ==
    ASSUME ShellType, FmtType, NEW r \in Runs, NextFile(r)
    PROVE /\ at' \in [Runs -> Labels] /\ at' = [at EXCEPT ![r] = "next"]
          /\ text' \in [Runs -> Texts]
  BY TextTypes DEF ShellType, FmtType, NextFile, Goto, Labels

LEMMA SayType ==
    ASSUME ShellType, FmtType, NEW r \in Runs, Say(r)
    PROVE /\ at' \in [Runs -> Labels] /\ code' \in [Runs -> 0..2]
          /\ text' \in [Runs -> Texts] /\ seen' \in [Runs -> Seq(Verdicts)]
<1>0. text[r] \in Texts
  BY DEF FmtType
<1>1. CASE Seen(r, text[r], TRUE) /\ NextFile(r) /\ UNCHANGED code
  BY <1>0, <1>1, SeenType, NextFileType DEF ShellType
<1>2. CASE CannotSay(r) /\ UNCHANGED <<seen, text>>
  BY <1>2, PipeType DEF FmtType
<1> QED
  BY <1>1, <1>2 DEF Say

\* The file a run of fmt is at.
LEMMA FileType ==
    ASSUME ShellType, FmtType, NEW r \in Runs, Formats(r), Left(r)
    PROVE /\ Len(seen[r]) + 1 \in DOMAIN command[r].files
          /\ File(r) = command[r].files[Len(seen[r]) + 1]
          /\ File(r) \in Files
<1>1. command[r].files \in Seq(Files) /\ seen[r] \in Seq(Verdicts)
  BY FmtCommand DEF FmtCommands, FmtType
<1> QED
  BY <1>1 DEF File, Left

-----------------------------------------------------------------------------
(* Control: what a run has found out about its arguments by the time it    *)
(* gets somewhere.                                                         *)

ControlInv == \A r \in Runs :
    /\ at[r] \in {"next", "use"} => Formats(r) /\ ~FmtMisused(r)
    /\ at[r] = "use" => Left(r)
    /\ at[r] \in {"load", "list", "read", "lock", "write", "release", "report"} =>
          (Selects(r) \/ Prunes(r)) /\ (Prunes(r) => ~Overlaps(command[r].out))
    /\ at[r] \in {"lock", "write", "release"} => Prunes(r)

-----------------------------------------------------------------------------
(* Every step keeps the types.                                             *)

LEMMA FmtStepType ==
    ASSUME TypeOK, ControlInv, NEW r \in Runs, FmtStep(r), UNCHANGED prune
    PROVE TypeOK'
<1> USE DEF TypeOK
<1>1. PruneType'
  BY DEF PruneType, prune, dir
<1>2. CASE Begin(r)
  <2>1. at' \in [Runs -> Labels] /\ code' \in [Runs -> 0..2]
    <3>1. CASE FmtMisused(r)
      BY <1>2, <3>1, ExitType DEF Begin
    <3>2. CASE ~FmtMisused(r)
      BY <1>2, <3>2, GotoType DEF Begin, Labels, ShellType
    <3> QED
      BY <3>1, <3>2
  <2> QED
    BY <1>1, <1>2, <2>1 DEF Begin, fmt, flags, ShellType, FmtType
<1>3. CASE Read(r)
  <2>1. Formats(r) /\ File(r) \in Files
    BY <1>3, FileType DEF Read, ControlInv
  <2>2. at' \in [Runs -> Labels] /\ stale' \in [Runs -> SUBSET Files]
    BY <1>3, <2>1, GotoType, KnowsType DEF Read, Labels
  <2>3. text' \in [Runs -> Texts]
    BY <1>3, <2>1 DEF Read, ShellType, FmtType
  <2> QED
    BY <1>1, <1>3, <2>2, <2>3 DEF Read, flags, ShellType, FmtType
<1>4. CASE ReadFails(r)
  <2>1. disk[File(r)] \in Texts
    BY <1>4, FileType DEF ReadFails, ControlInv, ShellType
  <2>2. seen' \in [Runs -> Seq(Verdicts)]
    BY <1>4, <2>1, SeenType DEF ReadFails
  <2> QED
    BY <1>1, <1>4, <2>2 DEF ReadFails, ShellType, FmtType
<1>5. CASE Emit(r)
  BY <1>1, <1>5, SayType DEF Emit, flags, ShellType, FmtType
<1>6. CASE Unchanged(r)
  <2>1. text[r] \in Texts
    BY DEF FmtType
  <2> QED
    BY <1>1, <1>6, <2>1, SeenType, NextFileType DEF Unchanged, flags, ShellType, FmtType
<1>7. CASE Report(r)
  <2>1. would_change' \in [Runs -> BOOLEAN]
    BY <1>7 DEF Report, WouldChange, FmtType
  <2> QED
    BY <1>1, <1>7, <2>1, SayType DEF Report, ShellType, FmtType
<1>8. CASE Replace(r)
  <2>1. text[r] \in Texts /\ Formatted(text[r]) \in Texts
    BY TextTypes DEF FmtType
  <2>2. File(r) \in Files
    BY <1>8, FileType DEF Replace, Differs, Using, ControlInv
  <2>3. would_change' \in [Runs -> BOOLEAN]
    BY <1>8 DEF Replace, WouldChange, FmtType
  <2> QED
    BY <1>1, <1>8, <2>1, <2>2, <2>3, SeenType, NextFileType, PutTextType
    DEF Replace, ShellType, FmtType
<1>9. CASE ReplaceFails(r)
  <2>1. text[r] \in Texts
    BY DEF FmtType
  <2>2. would_change' \in [Runs -> BOOLEAN] /\ failed' \in [Runs -> BOOLEAN]
    BY <1>9 DEF ReplaceFails, WouldChange, FmtType
  <2> QED
    BY <1>1, <1>9, <2>1, <2>2, SeenType, NextFileType DEF ReplaceFails, ShellType, FmtType
<1>10. CASE Finish(r)
  BY <1>1, <1>10, ExitType DEF Finish, fmt, flags, ShellType, FmtType
<1> QED
  BY <1>2, <1>3, <1>4, <1>5, <1>6, <1>7, <1>8, <1>9, <1>10 DEF FmtStep

LEMMA PruneStepType ==
    ASSUME TypeOK, NEW r \in Runs, PruneStep(r), UNCHANGED fmt
    PROVE TypeOK'
<1> USE DEF TypeOK
<1>1. FmtType'
  BY DEF FmtType, fmt, flags
<1>2. CASE StartPrune(r)
  <2>1. at' \in [Runs -> Labels] /\ code' \in [Runs -> 0..2]
    <3>1. CASE Exit(r, 2)
      BY <3>1, ExitType
    <3>2. CASE Goto(r, "load") /\ UNCHANGED code
      BY <3>2, GotoType DEF Labels, ShellType
    <3> QED
      BY <1>2, <3>1, <3>2 DEF StartPrune
  <2> QED
    BY <1>1, <1>2, <2>1 DEF StartPrune, prune, dir, ShellType, PruneType
<1>3. ASSUME NEW f \in Files, Hold(r, f)
      PROVE held' \in [Runs -> [Files -> Texts]] /\ stale' \in [Runs -> SUBSET Files]
  <2>1. held' \in [Runs -> [Files -> Texts]]
    BY <1>3 DEF Hold, ShellType, PruneType
  <2> QED
    BY <1>3, <2>1, KnowsType DEF Hold
<1>4. CASE LoadRules(r)
  <2>1. RulesFile \in Files
    BY FilesAssumption
  <2>2. at' \in [Runs -> Labels]
    BY <1>4, GotoType DEF LoadRules, Labels
  <2> QED
    BY <1>1, <1>3, <1>4, <2>1, <2>2 DEF LoadRules, dir, ShellType, PruneType
<1>5. CASE List(r)
  <2>1. at' \in [Runs -> Labels]
    BY <1>5, GotoType DEF List, Labels
  <2>2. stale' \in [Runs -> SUBSET Files]
    BY <1>5 DEF List, ShellType
  <2>3. listed' \in [Runs -> SUBSET Sources]
    BY <1>5 DEF List, PruneType
  <2> QED
    BY <1>1, <1>5, <2>1, <2>2, <2>3 DEF List, dir, ShellType, PruneType
<1>6. ASSUME NEW f \in Sources, ReadNext(r, f) PROVE TypeOK'
  <2>1. f \in Files
    BY FilesAssumption
  <2> QED
    BY <1>1, <1>3, <1>6, <2>1 DEF ReadNext, dir, ShellType, PruneType
<1>7. CASE LoadFails(r)
  BY <1>1, <1>7, ExitType DEF LoadFails, prune, dir, ShellType, PruneType
<1>8. CASE Run(r)
  <2>1. at' \in [Runs -> Labels] /\ code' \in [Runs -> 0..2]
    <3>1. CASE Exit(r, 2)
      BY <3>1, ExitType
    <3>2. CASE Goto(r, IF Prunes(r) THEN "lock" ELSE "report") /\ UNCHANGED code
      BY <3>2, GotoType DEF Labels, ShellType
    <3> QED
      BY <1>8, <3>1, <3>2 DEF Run
  <2> QED
    BY <1>1, <1>8, <2>1 DEF Run, prune, dir, ShellType, PruneType
<1>9. CASE Lock(r)
  <2>1. at' \in [Runs -> Labels]
    BY <1>9, GotoType DEF Lock, Labels
  <2> QED
    BY <1>1, <1>9, <2>1 DEF Lock, Dir!Begin, ShellType, PruneType
<1>10. CASE LockFails(r)
  BY <1>1, <1>10, ExitType DEF LockFails, prune, dir, ShellType, PruneType
<1>11. ASSUME NEW f \in Sources, PutFile(r, f) PROVE TypeOK'
  <2>1. disk' \in [Files -> Texts]
    <3>1. f \in Files
      BY FilesAssumption
    <3>2. held[r][f] \in Texts /\ [held[r][f] EXCEPT !.form = "cut"] \in Texts
      BY <3>1, TextTypes DEF PruneType
    <3> QED
      BY <1>11, <3>2 DEF PutFile, ShellType
  <2>2. out' \in [Sources -> Runs \cup {Absent}] /\ recorded' \in SUBSET Sources
        /\ writer' \in Runs \cup {NoRun}
    BY <1>11 DEF PutFile, Dir!Put, PruneType
  <2> QED
    BY <1>1, <1>11, <2>1, <2>2 DEF PutFile, ShellType, PruneType
<1>12. ASSUME NEW f \in Sources, TakeAway(r, f) PROVE TypeOK'
  <2>1. out' \in [Sources -> Runs \cup {Absent}] /\ recorded' \in SUBSET Sources
        /\ writer' \in Runs \cup {NoRun}
    BY <1>12 DEF TakeAway, Dir!Take, PruneType
  <2> QED
    BY <1>1, <1>12, <2>1 DEF TakeAway, ShellType, PruneType
<1>13. CASE Record(r)
  <2>1. at' \in [Runs -> Labels]
    BY <1>13, GotoType DEF Record, Labels
  <2> QED
    BY <1>1, <1>13, <2>1 DEF Record, Dir!Commit, ShellType, PruneType
<1>14. CASE Release(r)
  <2>1. at' \in [Runs -> Labels]
    BY <1>14, GotoType DEF Release, Labels
  <2> QED
    BY <1>1, <1>14, <2>1 DEF Release, Dir!End, ShellType, PruneType
<1>15. CASE WriteFails(r)
  BY <1>1, <1>15, ExitType DEF WriteFails, Dir!End, ShellType, PruneType
<1>16. CASE Tell(r)
  <2>1. at' \in [Runs -> Labels] /\ code' \in [Runs -> 0..2]
    BY <1>16, ExitType, PipeType DEF Tell
  <2> QED
    BY <1>1, <1>16, <2>1 DEF Tell, prune, dir, ShellType, PruneType
<1> QED
  BY <1>2, <1>4, <1>5, <1>6, <1>7, <1>8, <1>9, <1>10, <1>11, <1>12, <1>13, <1>14, <1>15, <1>16
  DEF PruneStep

LEMMA SaveType ==
    ASSUME TypeOK, NEW f \in Files, Save(f), UNCHANGED <<fmt, prune>>
    PROVE TypeOK'
<1>1. PICK form \in FormsOf[f] :
          LET t == [version |-> Len(saved[f]), form |-> form]
          IN PutText(f, t) /\ saved' = [saved EXCEPT ![f] = Append(saved[f], t)]
  BY DEF Save
<1> DEFINE t == [version |-> Len(saved[f]), form |-> form]
<1>2. t \in Texts
  <2>1. saved[f] \in Seq(Texts) /\ Len(saved[f]) <= MaxSaves
    BY DEF Save, TypeOK, ShellType
  <2> QED
    BY <2>1, CommandsAssumption DEF Texts, OwnForms
<1>3. saved' \in [Files -> Seq(Texts)]
  BY <1>1, <1>2 DEF TypeOK, ShellType
<1>4. disk' \in [Files -> Texts] /\ stale' \in [Runs -> SUBSET Files]
  BY <1>1, <1>2, PutTextType DEF TypeOK
<1> QED
  BY <1>3, <1>4 DEF Save, TypeOK, ShellType, FmtType, PruneType, fmt, flags, prune, dir

LEMMA StepType == TypeOK /\ ControlInv /\ [Next]_vars => TypeOK'
<1> SUFFICES ASSUME TypeOK, ControlInv, [Next]_vars PROVE TypeOK'
  OBVIOUS
<1>1. CASE UNCHANGED vars
  BY <1>1 DEF TypeOK, ShellType, FmtType, PruneType, vars, shell, fmt, flags, prune, dir
<1>2. ASSUME NEW r \in Runs, ClosePipe(r) PROVE TypeOK'
  BY <1>2 DEF ClosePipe, TypeOK, ShellType, FmtType, PruneType, fmt, flags, prune, dir
<1> QED
  BY <1>1, <1>2, FmtStepType, PruneStepType, SaveType DEF Next, Step

-----------------------------------------------------------------------------
(* What a step leaves alone: nothing of another run but what it knows to   *)
(* be stale, and nobody's arguments.                                       *)

Own(r) == <<command[r], at[r], code[r], text[r], seen[r], failed[r], would_change[r],
            held[r], listed[r]>>

LEMMA FmtStepFrame ==
    ASSUME TypeOK, NEW r \in Runs, FmtStep(r), UNCHANGED prune
    PROVE /\ UNCHANGED <<saved, command, closed>>
          /\ \A q \in Runs \ {r} : UNCHANGED Own(q)
<1>1. UNCHANGED <<saved, command, closed>>
  BY DEF FmtStep, Begin, Read, ReadFails, Emit, Unchanged, Report, Replace, ReplaceFails, Finish
<1> SUFFICES ASSUME NEW q \in Runs \ {r} PROVE UNCHANGED Own(q)
  BY <1>1
<1>2. UNCHANGED <<command[q], held[q], listed[q]>>
  BY <1>1 DEF prune
<1>3. UNCHANGED <<at[q], code[q]>>
  BY DEF TypeOK, ShellType, FmtStep, Begin, Read, ReadFails, Emit, Unchanged, Report, Replace,
    ReplaceFails, Finish, Goto, Exit, BrokenPipe, CannotSay, OutputFails, NextFile, Say
<1>4. UNCHANGED <<text[q], seen[q]>>
  BY DEF TypeOK, FmtType, FmtStep, Begin, Read, ReadFails, Emit, Unchanged, Report, Replace,
    ReplaceFails, Finish, NextFile, Say, Seen, fmt
<1>5. UNCHANGED <<failed[q], would_change[q]>>
  BY DEF TypeOK, FmtType, FmtStep, Begin, Read, ReadFails, Emit, Unchanged, Report, Replace,
    ReplaceFails, Finish, WouldChange, flags, fmt
<1> QED
  BY <1>2, <1>3, <1>4, <1>5 DEF Own

LEMMA PruneStepFrame ==
    ASSUME TypeOK, NEW r \in Runs, PruneStep(r), UNCHANGED fmt
    PROVE /\ UNCHANGED <<saved, command, closed>>
          /\ \A q \in Runs \ {r} : UNCHANGED Own(q)
<1>1. UNCHANGED <<saved, command, closed>>
  BY DEF PruneStep, StartPrune, LoadRules, List, ReadNext, LoadFails, Run, Lock, LockFails,
    PutFile, TakeAway, Record, Release, WriteFails, Tell
<1> SUFFICES ASSUME NEW q \in Runs \ {r} PROVE UNCHANGED Own(q)
  BY <1>1
<1>2. UNCHANGED <<command[q], text[q], seen[q], failed[q], would_change[q]>>
  BY <1>1 DEF fmt, flags
<1>3. UNCHANGED <<at[q], code[q]>>
  BY DEF TypeOK, ShellType, PruneStep, StartPrune, LoadRules, List, ReadNext, LoadFails, Run, Lock,
    LockFails, PutFile, TakeAway, Record, Release, WriteFails, Tell, Goto, Exit, BrokenPipe, CannotSay, OutputFails
<1>4. UNCHANGED <<held[q], listed[q]>>
  BY DEF TypeOK, PruneType, PruneStep, StartPrune, LoadRules, List, ReadNext, LoadFails, Run, Lock,
    LockFails, PutFile, TakeAway, Record, Release, WriteFails, Tell, Hold, prune
<1> QED
  BY <1>2, <1>3, <1>4 DEF Own

LEMMA Frame ==
    ASSUME TypeOK, NEW r \in Runs, Step(r)
    PROVE /\ UNCHANGED <<saved, command, closed>>
          /\ \A q \in Runs \ {r} : UNCHANGED Own(q)
  BY FmtStepFrame, PruneStepFrame DEF Step

\* Nor do the owner and the reader of the output touch what a run has.
LEMMA OwnerFrame ==
    ASSUME NEW q \in Runs,
           \/ \E f \in Files : Save(f) /\ UNCHANGED <<fmt, prune>>
           \/ \E r \in Runs : ClosePipe(r)
           \/ UNCHANGED vars
    PROVE UNCHANGED Own(q) /\ UNCHANGED <<command, dir>>
  BY DEF Own, Save, ClosePipe, vars, shell, fmt, flags, prune, dir

-----------------------------------------------------------------------------
LEMMA StepControl == TypeOK /\ ControlInv /\ [Next]_vars => ControlInv'
<1> SUFFICES ASSUME TypeOK, ControlInv, [Next]_vars, NEW q \in Runs
             PROVE /\ at'[q] \in {"next", "use"} => Formats(q)' /\ ~FmtMisused(q)'
                   /\ at'[q] = "use" => Left(q)'
                   /\ at'[q] \in {"load", "list", "read", "lock", "write", "release", "report"} =>
                         (Selects(q) \/ Prunes(q))' /\ (Prunes(q) => ~Overlaps(command[q].out))'
                   /\ at'[q] \in {"lock", "write", "release"} => Prunes(q)'
  BY DEF ControlInv
<1>1. CASE UNCHANGED Own(q)
  BY <1>1 DEF ControlInv, Own, Formats, FmtMisused, Check, Stdout, Left, Selects, Prunes, Overlaps
<1>2. CASE Step(q)
  <2>1. UNCHANGED command
    BY <1>2, Frame
  <2>2. /\ Formats(q)' = Formats(q) /\ FmtMisused(q)' = FmtMisused(q)
        /\ Selects(q)' = Selects(q) /\ Prunes(q)' = Prunes(q)
        /\ Overlaps(command[q].out)' = Overlaps(command[q].out)
    BY <2>1 DEF Formats, FmtMisused, Check, Stdout, Selects, Prunes, Overlaps
  <2>3. at \in [Runs -> Labels]
    BY DEF TypeOK, ShellType
  <2>4. CASE FmtStep(q)
    <3>1. at'[q] = "use" => Left(q)'
      <4>1. CASE Read(q)
        BY <2>1, <4>1 DEF Read, Left
      <4>2. CASE ReadFails(q)
        BY <4>2 DEF ReadFails
      <4> QED
        BY <2>3, <2>4, <4>1, <4>2 DEF FmtStep, Begin, Emit, Unchanged, Report, Replace,
          ReplaceFails, Finish, Goto, Exit, BrokenPipe, CannotSay, OutputFails, NextFile, Say
    <3> QED
      BY <2>2, <2>3, <2>4, <3>1 DEF ControlInv, FmtStep, Begin, Read, ReadFails, Emit, Unchanged,
        Report, Replace, ReplaceFails, Finish, Goto, Exit, BrokenPipe, CannotSay, OutputFails, NextFile, Say, Using, Differs
  <2>5. CASE PruneStep(q) /\ UNCHANGED fmt
    <3>1. at'[q] \notin {"next", "use"} \/ at'[q] = at[q]
      BY <2>3, <2>5 DEF PruneStep, StartPrune, LoadRules, List, ReadNext, LoadFails, Run, Lock,
        LockFails, PutFile, TakeAway, Record, Release, WriteFails, Tell, Goto, Exit, BrokenPipe, CannotSay, OutputFails
    <3>2. Left(q)' = Left(q)
      BY <2>1, <2>5 DEF Left, fmt
    <3> QED
      BY <2>2, <2>3, <2>5, <3>1, <3>2 DEF ControlInv, PruneStep, StartPrune, LoadRules, List,
        ReadNext, LoadFails, Run, Lock, LockFails, PutFile, TakeAway, Record, Release, WriteFails,
        Tell, Goto, Exit, BrokenPipe, CannotSay, OutputFails
  <2> QED
    BY <1>2, <2>4, <2>5 DEF Step
<1> QED
  BY <1>1, <1>2, Frame, OwnerFrame DEF Next

LEMMA InitControl == Init => ControlInv
  BY DEF Init, ShellInit, ControlInv

\* Every step keeps the types, and the places that the arguments allow.
THEOREM PbtrimTypes == Spec => [](TypeOK /\ ControlInv)
<1>1. Init => TypeOK /\ ControlInv
  BY InitType, InitControl
<1>2. TypeOK /\ ControlInv /\ [Next]_vars => (TypeOK /\ ControlInv)'
  BY StepType, StepControl
<1> QED
  BY <1>1, <1>2, PTL DEF Spec

-----------------------------------------------------------------------------
(* No prune writes to a source: a path under the one directory that is     *)
(* also a path under the other makes one of them lie in the other.         *)

LEMMA CommonPath ==
    ASSUME NEW s \in Seq(STRING), NEW t \in Seq(STRING), Len(s) <= Len(t),
           NEW u \in Seq(STRING), NEW v \in Seq(STRING), s \o u = t \o v
    PROVE IsPrefix(s, t)
<1>1. \A i \in 1..Len(s) : s[i] = t[i]
  <2> SUFFICES ASSUME NEW i \in 1..Len(s) PROVE s[i] = t[i]
    OBVIOUS
  <2>1. (s \o u)[i] = s[i]
    OBVIOUS
  <2>2. (t \o v)[i] = t[i]
    OBVIOUS
  <2> QED
    BY <2>1, <2>2
<1>2. SubSeq(s, 1, Len(s)) = SubSeq(t, 1, Len(s))
  <2>1. /\ SubSeq(s, 1, Len(s)) \in Seq(STRING) /\ Len(SubSeq(s, 1, Len(s))) = Len(s)
        /\ \A i \in 1..Len(s) : SubSeq(s, 1, Len(s))[i] = s[i]
    BY SubSeqProperties
  <2>2. /\ SubSeq(t, 1, Len(s)) \in Seq(STRING) /\ Len(SubSeq(t, 1, Len(s))) = Len(s)
        /\ \A i \in 1..Len(s) : SubSeq(t, 1, Len(s))[i] = t[i]
    BY SubSeqProperties
  <2> QED
    BY <1>1, <2>1, <2>2, SeqEqual
<1> QED
  BY <1>2 DEF IsPrefix

LEMMA NothingUnder ==
    ASSUME TypeOK, ControlInv, NEW r \in Runs, at[r] = "write", NEW f \in Sources
    PROVE Under(r, f) = {}
<1> DEFINE d == Real[command[r].out]
<1>1. command[r].out \in Dirs /\ ~Overlaps(command[r].out)
  BY DEF TypeOK, ShellType, ControlInv, Prunes, FmtCommands, PruneCommands
<1>2. d \in Seq(STRING) /\ Root \in Seq(STRING) /\ ~IsPrefix(d, Root) /\ ~IsPrefix(Root, d)
  BY <1>1, FilesAssumption DEF Overlaps
<1> HIDE DEF d
<1>3. \A g \in Sources : Root \o PathOf[g] # d \o PathOf[f]
  <2> SUFFICES ASSUME NEW g \in Sources, Root \o PathOf[g] = d \o PathOf[f] PROVE FALSE
    OBVIOUS
  <2>1. PathOf[g] \in Seq(STRING) /\ PathOf[f] \in Seq(STRING)
    BY FilesAssumption
  <2>2. CASE Len(Root) <= Len(d)
    BY <1>2, <2>1, <2>2, CommonPath
  <2>3. CASE Len(d) <= Len(Root)
    BY <1>2, <2>1, <2>3, CommonPath
  <2>4. Len(Root) <= Len(d) \/ Len(d) <= Len(Root)
    BY <1>2
  <2> QED
    BY <2>2, <2>3, <2>4
<1> QED
  BY <1>3 DEF Under, d

\* A run writes to the files by the replacement of fmt alone.
LEMMA OnlyReplaceWrites ==
    ASSUME TypeOK, ControlInv, NEW r \in Runs, Step(r)
    PROVE UNCHANGED disk \/ (Replace(r) /\ UNCHANGED prune)
<1>1. CASE FmtStep(r) /\ UNCHANGED prune
  BY <1>1 DEF FmtStep, Begin, Read, ReadFails, Emit, Unchanged, Report, ReplaceFails, Finish
<1>2. ASSUME NEW f \in Sources, PutFile(r, f) PROVE UNCHANGED disk
  <2>1. Under(r, f) = {}
    BY <1>2, NothingUnder DEF PutFile
  <2>2. disk' = [g \in Files |-> disk[g]]
    BY <1>2, <2>1 DEF PutFile
  <2> QED
    BY <2>2 DEF TypeOK, ShellType
<1>3. CASE PruneStep(r)
  BY <1>2, <1>3 DEF PruneStep, StartPrune, LoadRules, List, ReadNext, LoadFails, Run, Lock,
    LockFails, TakeAway, Record, Release, WriteFails, Tell
<1> QED
  BY <1>1, <1>3 DEF Step

-----------------------------------------------------------------------------
(* Where texts come from                                                   *)

\* A text of a file is one its owner saved in it, or that text formatted.
Stems(f, t) ==
    \E i \in DOMAIN saved[f] :
        \/ t = saved[f][i]
        \/ saved[f][i].form = "untidy" /\ t = Formatted(saved[f][i])

Saves == \A f \in Files :
    /\ saved[f] # <<>>
    /\ \A i \in DOMAIN saved[f] : saved[f][i].version = i - 1 /\ saved[f][i].form \in OwnForms

SaveInv ==
    /\ Saves
    /\ \A f \in Files : Stems(f, disk[f])
    /\ \A r \in Runs : at[r] = "use" => Parses(text[r]) /\ Stems(File(r), text[r])
    /\ \A r \in Runs, f \in Files : held[r][f] = Unread \/ Stems(f, held[r][f])
    /\ (\A r \in Runs : ~InPlace(r)) => \A f \in Files : disk[f] = Latest(f)

\* The owner adds one version to one file, the last.
LEMMA SaveAdds ==
    ASSUME TypeOK, NEW f \in Files, Save(f)
    PROVE \E t \in Texts :
              /\ t.version = Len(saved[f]) /\ t.form \in OwnForms
              /\ disk' = [disk EXCEPT ![f] = t]
              /\ saved' = [saved EXCEPT ![f] = Append(saved[f], t)]
<1>1. PICK form \in FormsOf[f] :
          LET t == [version |-> Len(saved[f]), form |-> form]
          IN PutText(f, t) /\ saved' = [saved EXCEPT ![f] = Append(saved[f], t)]
  BY DEF Save
<1> DEFINE t == [version |-> Len(saved[f]), form |-> form]
<1>2. form \in OwnForms
  BY CommandsAssumption
<1>3. t \in Texts
  <2>1. saved[f] \in Seq(Texts) /\ Len(saved[f]) <= MaxSaves
    BY DEF Save, TypeOK, ShellType
  <2> QED
    BY <1>2, <2>1, CommandsAssumption DEF Texts, OwnForms
<1> QED
  BY <1>1, <1>2, <1>3 DEF PutText

LEMMA SavedStay ==
    ASSUME TypeOK, [Next]_vars, NEW f \in Files, NEW i \in DOMAIN saved[f]
    PROVE i \in DOMAIN saved'[f] /\ saved'[f][i] = saved[f][i]
<1>1. ASSUME NEW g \in Files, Save(g) PROVE i \in DOMAIN saved'[f] /\ saved'[f][i] = saved[f][i]
  <2>1. PICK u \in Texts : saved' = [saved EXCEPT ![g] = Append(saved[g], u)]
    BY <1>1, SaveAdds
  <2>2. saved[f] \in Seq(Texts) /\ saved \in [Files -> Seq(Texts)]
    BY DEF TypeOK, ShellType
  <2> QED
    BY <2>1, <2>2
<1> QED
  BY <1>1, Frame DEF Next, ClosePipe, vars, shell

LEMMA StepSaves == TypeOK /\ Saves /\ [Next]_vars => Saves'
<1> SUFFICES ASSUME TypeOK, Saves, [Next]_vars PROVE Saves'
  OBVIOUS
<1>1. CASE UNCHANGED saved
  BY <1>1 DEF Saves
<1>2. ASSUME NEW g \in Files, Save(g) PROVE Saves'
  <2>1. PICK u \in Texts : /\ u.version = Len(saved[g]) /\ u.form \in OwnForms
                           /\ saved' = [saved EXCEPT ![g] = Append(saved[g], u)]
    BY <1>2, SaveAdds
  <2> SUFFICES ASSUME NEW f \in Files
               PROVE /\ saved'[f] # <<>>
                     /\ \A i \in DOMAIN saved'[f] :
                           saved'[f][i].version = i - 1 /\ saved'[f][i].form \in OwnForms
    BY DEF Saves
  <2>2. saved[f] \in Seq(Texts) /\ saved \in [Files -> Seq(Texts)]
    BY DEF TypeOK, ShellType
  <2>3. CASE f = g
    <3>1. saved'[f] = Append(saved[f], u)
      BY <2>1, <2>2, <2>3
    <3> QED
      BY <2>1, <2>2, <2>3, <3>1 DEF Saves
  <2>4. CASE f # g
    BY <2>1, <2>2, <2>4 DEF Saves
  <2> QED
    BY <2>3, <2>4
<1> QED
  BY <1>1, <1>2, Frame DEF Next, ClosePipe, vars, shell

LEMMA InitSave == Init => SaveInv
<1> SUFFICES ASSUME Init PROVE SaveInv
  OBVIOUS
<1>1. PICK s \in Starts : disk = [f \in Files |-> [version |-> 0, form |-> s.forms[f]]]
  BY DEF Init, ShellInit
<1>2. s.forms \in [Files -> OwnForms]
  BY CommandsAssumption
<1>3. \A f \in Files : saved[f] = <<disk[f]>> /\ disk[f].version = 0 /\ disk[f].form \in OwnForms
  BY <1>1, <1>2 DEF Init, ShellInit
<1>4. Saves
  BY <1>3 DEF Saves
<1>5. \A f \in Files : Stems(f, disk[f]) /\ disk[f] = Latest(f)
  BY <1>3 DEF Stems, Latest
<1>6. \A r \in Runs : at[r] = "start" /\ \A f \in Files : held[r][f] = Unread
  BY DEF Init, ShellInit, PruneInit
<1> QED
  BY <1>4, <1>5, <1>6 DEF SaveInv

-----------------------------------------------------------------------------
(* The steps keep SaveInv.                                                 *)

LEMMA ReplaceInPlace ==
    ASSUME TypeOK, ControlInv, NEW r \in Runs, Replace(r)
    PROVE InPlace(r) /\ Left(r) /\ File(r) \in Files
<1>1. Formats(r) /\ Left(r) /\ ~Check(r) /\ ~Stdout(r)
  BY DEF ControlInv, Replace, Differs, Using
<1>2. command[r].flags \subseteq {"check", "stdout"}
  BY <1>1, FmtCommand DEF TypeOK, FmtCommands, Flags
<1> QED
  BY <1>1, <1>2, FileType DEF TypeOK, InPlace, Check, Stdout

\* A run that differs holds a text of the owner that is untidy, and formats that.
LEMMA UntidyText ==
    ASSUME TypeOK, ControlInv, SaveInv, NEW r \in Runs, Differs(r)
    PROVE /\ text[r].form = "untidy"
          /\ \E i \in DOMAIN saved[File(r)] : text[r] = saved[File(r)][i]
<1>1. File(r) \in Files
  BY FileType DEF TypeOK, ControlInv, Differs, Using
<1>2. PICK i \in DOMAIN saved[File(r)] :
          \/ text[r] = saved[File(r)][i]
          \/ saved[File(r)][i].form = "untidy" /\ text[r] = Formatted(saved[File(r)][i])
  BY DEF SaveInv, Stems, Differs, Using
<1>3. saved[File(r)][i] \in Texts /\ saved[File(r)][i].form \in OwnForms
  BY <1>1 DEF TypeOK, ShellType, SaveInv, Saves
<1>4. Formatted(text[r]) # text[r] /\ Parses(text[r])
  BY DEF Differs, Using, SaveInv
<1>5. \A t \in Texts : Formatted(Formatted(t)) = Formatted(t) /\ (t.form = "tidy" => Formatted(t) = t)
  BY DEF Texts, Formatted
<1>6. text[r] = saved[File(r)][i]
  BY <1>2, <1>3, <1>4, <1>5
<1> QED
  BY <1>3, <1>4, <1>5, <1>6 DEF Parses, OwnForms, Forms

LEMMA StepDisk ==
    ASSUME TypeOK, ControlInv, SaveInv, [Next]_vars
    PROVE \A f \in Files : Stems(f, disk[f])'
<1> SUFFICES ASSUME NEW f \in Files PROVE Stems(f, disk[f])'
  OBVIOUS
<1>1. CASE UNCHANGED disk
  <2>1. Stems(f, disk[f])
    BY DEF SaveInv
  <2> DEFINE t == disk[f]
  <2>2. Stems(f, t)
    BY <2>1
  <2> HIDE DEF t
  <2>3. \E i \in DOMAIN saved'[f] :
            \/ t = saved'[f][i]
            \/ saved'[f][i].form = "untidy" /\ t = Formatted(saved'[f][i])
    <3>1. PICK i \in DOMAIN saved[f] :
              \/ t = saved[f][i]
              \/ saved[f][i].form = "untidy" /\ t = Formatted(saved[f][i])
      BY <2>2 DEF Stems
    <3>2. i \in DOMAIN saved'[f] /\ saved'[f][i] = saved[f][i]
      BY SavedStay
    <3> QED
      BY <3>1, <3>2
  <2>4. disk'[f] = t
    BY <1>1 DEF t
  <2> QED
    BY <2>3, <2>4 DEF Stems
<1>2. ASSUME NEW r \in Runs, Replace(r), Step(r) PROVE Stems(f, disk[f])'
  <2>1. UNCHANGED saved /\ File(r) \in Files
    BY <1>2, Frame, ReplaceInPlace
  <2>2. disk' = [disk EXCEPT ![File(r)] = Formatted(text[r])]
    BY <1>2 DEF Replace, PutText
  <2>3. PICK i \in DOMAIN saved[File(r)] : text[r] = saved[File(r)][i] /\ text[r].form = "untidy"
    BY <1>2, UntidyText DEF Replace
  <2>4. CASE f = File(r)
    BY <2>1, <2>2, <2>3, <2>4 DEF Stems, TypeOK, ShellType
  <2>5. CASE f # File(r)
    BY <2>1, <2>2, <2>5 DEF Stems, SaveInv, TypeOK, ShellType
  <2> QED
    BY <2>4, <2>5
<1>3. ASSUME NEW g \in Files, Save(g) PROVE Stems(f, disk[f])'
  <2>1. PICK t \in Texts : /\ disk' = [disk EXCEPT ![g] = t]
                           /\ saved' = [saved EXCEPT ![g] = Append(saved[g], t)]
    BY <1>3, SaveAdds
  <2>2. saved[f] \in Seq(Texts) /\ saved \in [Files -> Seq(Texts)] /\ disk \in [Files -> Texts]
    BY DEF TypeOK, ShellType
  <2>3. CASE f = g
    <3>1. Len(saved'[f]) \in DOMAIN saved'[f] /\ saved'[f][Len(saved'[f])] = disk'[f]
      BY <2>1, <2>2, <2>3
    <3> QED
      BY <3>1 DEF Stems
  <2>4. CASE f # g
    BY <2>1, <2>2, <2>4 DEF Stems, SaveInv
  <2> QED
    BY <2>3, <2>4
<1> QED
  BY <1>1, <1>2, <1>3, OnlyReplaceWrites DEF Next, ClosePipe, vars, shell

\* A run comes to hold a text by reading it.
LEMMA StepText ==
    ASSUME TypeOK, ControlInv, SaveInv, [Next]_vars, NEW q \in Runs, at'[q] = "use"
    PROVE (Parses(text[q]) /\ Stems(File(q), text[q]))'
<1>1. CASE UNCHANGED Own(q)
  <2>1. File(q)' = File(q) /\ text'[q] = text[q] /\ at[q] = "use"
    BY <1>1 DEF Own, File
  <2>2. File(q) \in Files
    BY <2>1, FileType DEF TypeOK, ControlInv
  <2>3. Parses(text[q]) /\ Stems(File(q), text[q])
    BY <2>1 DEF SaveInv
  <2>4. PICK i \in DOMAIN saved[File(q)] :
            \/ text[q] = saved[File(q)][i]
            \/ saved[File(q)][i].form = "untidy" /\ text[q] = Formatted(saved[File(q)][i])
    BY <2>3 DEF Stems
  <2>5. i \in DOMAIN saved'[File(q)] /\ saved'[File(q)][i] = saved[File(q)][i]
    BY <2>2, SavedStay
  <2> QED
    BY <2>1, <2>3, <2>4, <2>5 DEF Stems, Parses
<1>2. CASE Step(q) /\ ~ UNCHANGED Own(q)
  <2>1. Read(q)
    <3>1. at \in [Runs -> Labels]
      BY DEF TypeOK, ShellType
    <3>2. CASE FmtStep(q)
      BY <3>1, <3>2 DEF FmtStep, Begin, ReadFails, Emit, Unchanged, Report, Replace,
        ReplaceFails, Finish, Goto, Exit, BrokenPipe, CannotSay, OutputFails, NextFile, Say
    <3>3. CASE PruneStep(q) /\ UNCHANGED fmt
      <4>1. UNCHANGED command
        BY <1>2, Frame
      <4>2. at[q] # "use"
        BY <3>3 DEF ControlInv, PruneStep, StartPrune, LoadRules, List, ReadNext, LoadFails, Run,
          Lock, LockFails, PutFile, TakeAway, Record, Release, WriteFails, Tell
      <4> QED
        BY <3>1, <3>3, <4>2 DEF PruneStep, StartPrune, LoadRules, List, ReadNext, LoadFails, Run,
          Lock, LockFails, PutFile, TakeAway, Record, Release, WriteFails, Tell, Goto, Exit,
          BrokenPipe, CannotSay, OutputFails
    <3> QED
      BY <1>2, <3>2, <3>3 DEF Step
  <2>2. Left(q) /\ Formats(q)
    BY <2>1 DEF Read, ControlInv
  <2>3. File(q) \in Files
    BY <2>2, FileType DEF TypeOK
  <2>4. text'[q] = disk[File(q)] /\ File(q)' = File(q) /\ UNCHANGED saved /\ Parses(disk[File(q)])
    BY <2>1 DEF Read, File, TypeOK, FmtType
  <2> QED
    BY <2>3, <2>4 DEF SaveInv, Stems, Parses
<1> QED
  BY <1>1, <1>2, Frame, OwnerFrame DEF Next

LEMMA StepHeld ==
    ASSUME TypeOK, SaveInv, [Next]_vars, NEW q \in Runs, NEW f \in Files, held'[q][f] # Unread
    PROVE Stems(f, held[q][f])'
<1>1. CASE held'[q][f] = held[q][f]
  <2>1. PICK i \in DOMAIN saved[f] :
            \/ held[q][f] = saved[f][i]
            \/ saved[f][i].form = "untidy" /\ held[q][f] = Formatted(saved[f][i])
    BY <1>1 DEF SaveInv, Stems
  <2>2. i \in DOMAIN saved'[f] /\ saved'[f][i] = saved[f][i]
    BY SavedStay
  <2> QED
    BY <1>1, <2>1, <2>2 DEF Stems
<1>2. CASE Step(q) /\ held'[q][f] # held[q][f]
  <2>1. UNCHANGED saved
    BY <1>2, Frame
  <2>2. PruneStep(q)
    BY <1>2 DEF Step, prune
  <2>3. held'[q][f] = disk[f]
    BY <1>2, <2>2 DEF TypeOK, PruneType, PruneStep, StartPrune, LoadRules, List, ReadNext, LoadFails,
      Run, Lock, LockFails, PutFile, TakeAway, Record, Release, WriteFails, Tell, Hold, prune
  <2> QED
    BY <2>1, <2>3 DEF SaveInv, Stems
<1> QED
  BY <1>1, <1>2, Frame, OwnerFrame DEF Next, Own

LEMMA StepLatest ==
    ASSUME TypeOK, ControlInv, SaveInv, [Next]_vars, \A r \in Runs : ~InPlace(r)',
           NEW f \in Files
    PROVE disk'[f] = Latest(f)'
<1>1. UNCHANGED command
  BY Frame DEF Next, ClosePipe, Save, vars, shell
<1>2. \A r \in Runs : ~InPlace(r)
  BY <1>1 DEF InPlace, Formats
<1>3. disk[f] = Latest(f)
  BY <1>2 DEF SaveInv
<1>4. CASE UNCHANGED <<disk, saved>>
  BY <1>3, <1>4 DEF Latest
<1>5. ASSUME NEW g \in Files, Save(g) PROVE disk'[f] = Latest(f)'
  <2>1. PICK t \in Texts : /\ disk' = [disk EXCEPT ![g] = t]
                           /\ saved' = [saved EXCEPT ![g] = Append(saved[g], t)]
    BY <1>5, SaveAdds
  <2>2. saved[f] \in Seq(Texts) /\ saved \in [Files -> Seq(Texts)] /\ disk \in [Files -> Texts]
    BY DEF TypeOK, ShellType
  <2> QED
    BY <1>3, <2>1, <2>2 DEF Latest
<1> QED
  BY <1>2, <1>4, <1>5, Frame, OnlyReplaceWrites, ReplaceInPlace DEF Next, ClosePipe, vars, shell

LEMMA StepSave == TypeOK /\ ControlInv /\ SaveInv /\ [Next]_vars => SaveInv'
<1> SUFFICES ASSUME TypeOK, ControlInv, SaveInv, [Next]_vars PROVE SaveInv'
  OBVIOUS
<1>1. Saves'
  BY StepSaves DEF SaveInv
<1> QED
  BY <1>1, StepDisk, StepText, StepHeld, StepLatest DEF SaveInv

\* What a save has put there is never lost but by the formatting of a text its
\* owner saved, whatever runs do at the same time (write_atomic, fmt_one).
THEOREM SavesSurvive == Spec => []TextsAreSaved
<1>1. Init => TypeOK /\ ControlInv /\ SaveInv
  BY InitType, InitControl, InitSave
<1>2. TypeOK /\ ControlInv /\ SaveInv /\ [Next]_vars => (TypeOK /\ ControlInv /\ SaveInv)'
  BY StepType, StepControl, StepSave
<1>3. SaveInv => TextsAreSaved
  BY DEF SaveInv, Stems, TextsAreSaved
<1> QED
  BY <1>1, <1>2, <1>3, PTL DEF Spec

-----------------------------------------------------------------------------
(* The exit code of fmt: its two flags sum up what it has seen so far.     *)

Wrong(r) == \E i \in DOMAIN seen[r] : ~seen[r][i].well
Drift(r) == \E i \in DOMAIN seen[r] : seen[r][i].text.form = "untidy"

FlagInv == \A r \in Runs : Formats(r) =>
    /\ at[r] = "start" => seen[r] = <<>>
    /\ Len(seen[r]) <= Len(command[r].files)
    /\ failed[r] <=> Wrong(r)
    /\ Check(r) /\ at[r] \notin {"piped", "lost"} => (would_change[r] <=> Drift(r))
    /\ at[r] = "done" =>
          /\ code[r] = IF FmtMisused(r) \/ failed[r] THEN 2
                       ELSE IF Check(r) /\ would_change[r] THEN 1 ELSE 0
          /\ ~FmtMisused(r) => ~Left(r)
    /\ at[r] = "lost" => code[r] = 2 /\ ~InPlace(r)

\* A file more that a run has seen.
LEMMA SeenOneMore ==
    ASSUME TypeOK, NEW r \in Runs, NEW t \in Texts, NEW well \in BOOLEAN, Seen(r, t, well)
    PROVE /\ Len(seen'[r]) = Len(seen[r]) + 1
          /\ Wrong(r)' <=> Wrong(r) \/ ~well
          /\ Drift(r)' <=> Drift(r) \/ t.form = "untidy"
<1> DEFINE v == [text |-> t, well |-> well]
<1>1. seen[r] \in Seq(Verdicts) /\ seen'[r] = Append(seen[r], v)
  BY SeenType DEF TypeOK, FmtType
<1>2. v.text = t /\ v.well = well
  OBVIOUS
<1> HIDE DEF v
<1>3. /\ Len(seen'[r]) = Len(seen[r]) + 1 /\ Len(seen[r]) \in Nat
      /\ seen'[r][Len(seen[r]) + 1] = v
      /\ \A i \in DOMAIN seen[r] : i \in DOMAIN seen'[r] /\ seen'[r][i] = seen[r][i]
      /\ \A i \in DOMAIN seen'[r] : i \in DOMAIN seen[r] \/ i = Len(seen[r]) + 1
      /\ Len(seen[r]) + 1 \in DOMAIN seen'[r]
  BY <1>1
<1>4. Wrong(r)' <=> Wrong(r) \/ ~well
  BY <1>2, <1>3 DEF Wrong
<1>5. Drift(r)' <=> Drift(r) \/ t.form = "untidy"
  BY <1>2, <1>3 DEF Drift
<1> QED
  BY <1>3, <1>4, <1>5

\* A run of fmt goes on by the steps of fmt.
LEMMA FormatsStep ==
    ASSUME TypeOK, ControlInv, NEW r \in Runs, Formats(r), Step(r)
    PROVE FmtStep(r) /\ UNCHANGED prune
<1>1. ~Selects(r) /\ ~Prunes(r)
  BY DEF Formats, Selects, Prunes
<1>2. at[r] \notin {"load", "list", "read", "lock", "write", "release", "report"}
  BY <1>1 DEF ControlInv
<1>3. ~PruneStep(r)
  BY <1>1, <1>2 DEF PruneStep, StartPrune, LoadRules, List, ReadNext, LoadFails, Run, Lock,
    LockFails, PutFile, TakeAway, Record, Release, WriteFails, Tell
<1> QED
  BY <1>3 DEF Step

LEMMA StepFlags ==
    TypeOK /\ ControlInv /\ SaveInv /\ FlagInv /\ [Next]_vars => FlagInv'
<1> SUFFICES ASSUME TypeOK, ControlInv, SaveInv, FlagInv, [Next]_vars, NEW q \in Runs, Formats(q)'
             PROVE (/\ at[q] = "start" => seen[q] = <<>>
                    /\ Len(seen[q]) <= Len(command[q].files)
                    /\ failed[q] <=> Wrong(q)
                    /\ Check(q) /\ at[q] \notin {"piped", "lost"} => (would_change[q] <=> Drift(q))
                    /\ at[q] = "done" =>
                          /\ code[q] = IF FmtMisused(q) \/ failed[q] THEN 2
                                       ELSE IF Check(q) /\ would_change[q] THEN 1 ELSE 0
                          /\ ~FmtMisused(q) => ~Left(q)
                    /\ at[q] = "lost" => code[q] = 2 /\ ~InPlace(q))'
  BY DEF FlagInv
<1>1. UNCHANGED command
  BY Frame DEF Next, ClosePipe, Save, vars, shell
<1>2. /\ Formats(q) /\ FmtMisused(q)' = FmtMisused(q) /\ Check(q)' = Check(q)
      /\ InPlace(q)' = InPlace(q)
  BY <1>1 DEF Formats, FmtMisused, Check, Stdout, InPlace
<1>3. CASE UNCHANGED Own(q)
  <2>1. /\ at'[q] = at[q] /\ seen'[q] = seen[q] /\ failed'[q] = failed[q]
        /\ would_change'[q] = would_change[q] /\ code'[q] = code[q]
    BY <1>3 DEF Own
  <2>2. Wrong(q)' = Wrong(q) /\ Drift(q)' = Drift(q) /\ Left(q)' = Left(q)
    BY <1>1, <2>1 DEF Wrong, Drift, Left
  <2> QED
    BY <1>1, <1>2, <2>1, <2>2 DEF FlagInv
<1>4. CASE FmtStep(q)
  <2>0. /\ at \in [Runs -> Labels] /\ seen \in [Runs -> Seq(Verdicts)] /\ code \in [Runs -> 0..2]
        /\ failed \in [Runs -> BOOLEAN] /\ would_change \in [Runs -> BOOLEAN]
        /\ text[q] \in Texts /\ Len(seen[q]) \in Nat /\ Len(command[q].files) \in Nat
    <3>1. command[q].files \in Seq(Files)
      BY <1>2, FmtCommand DEF TypeOK, FmtCommands
    <3> QED
      BY <3>1 DEF TypeOK, ShellType, FmtType
  <2>1. UNCHANGED seen => Wrong(q)' = Wrong(q) /\ Drift(q)' = Drift(q) /\ Left(q)' = Left(q)
    BY <1>1 DEF Wrong, Drift, Left
  <2>2. Left(q) => Len(seen[q]) + 1 <= Len(command[q].files)
    BY <2>0 DEF Left
  <2>3. CASE Begin(q)
    <3>1. CASE FmtMisused(q)
      BY <1>1, <1>2, <2>0, <2>1, <2>3, <3>1 DEF FlagInv, Begin, Exit, Goto, fmt, flags
    <3>2. CASE ~FmtMisused(q)
      BY <1>1, <1>2, <2>0, <2>1, <2>3, <3>2 DEF FlagInv, Begin, Goto, fmt, flags
    <3> QED
      BY <3>1, <3>2
  <2>4. CASE Read(q)
    BY <1>1, <1>2, <2>0, <2>1, <2>4 DEF FlagInv, Read, Goto, flags
  <2>5. CASE ReadFails(q)
    <3>1. disk[File(q)] \in Texts /\ disk[File(q)].form # "untidy"
      BY <2>5, <1>2, FileType DEF ReadFails, Parses, TypeOK, ShellType
    <3>2. /\ Len(seen'[q]) = Len(seen[q]) + 1
          /\ Wrong(q)' /\ (Drift(q)' <=> Drift(q))
      BY <2>5, <3>1, SeenOneMore DEF ReadFails
    <3> QED
      BY <1>1, <1>2, <2>0, <2>2, <2>5, <3>2 DEF FlagInv, ReadFails
  <2>6. ASSUME Say(q), Using(q)
        PROVE \/ /\ Len(seen'[q]) = Len(seen[q]) + 1 /\ at'[q] = "next"
                 /\ (Wrong(q)' <=> Wrong(q)) /\ (Drift(q)' <=> Drift(q) \/ text[q].form = "untidy")
              \/ at'[q] = "piped" /\ UNCHANGED seen
              \/ at'[q] = "lost" /\ code'[q] = 2 /\ UNCHANGED seen
    <3>1. CASE Seen(q, text[q], TRUE) /\ NextFile(q)
      BY <2>0, <3>1, SeenOneMore DEF NextFile, Goto
    <3>2. CASE CannotSay(q) /\ UNCHANGED <<seen, text>>
      BY <2>0, <3>2 DEF BrokenPipe, CannotSay, OutputFails, Goto
    <3> QED
      BY <2>6, <3>1, <3>2 DEF Say
  <2>7. CASE Emit(q)
    <3>1. ~Check(q) /\ ~InPlace(q)
      BY <1>2, <2>7 DEF Emit, Using, ControlInv, FmtMisused, InPlace, Stdout
    <3> QED
      BY <1>1, <1>2, <2>1, <2>2, <2>6, <2>7, <3>1 DEF FlagInv, Emit, Using, ControlInv, flags
  <2>8. CASE Unchanged(q)
    <3>1. text[q].form # "untidy"
      BY <2>0, <2>8 DEF Unchanged, Formatted, Texts
    <3>2. /\ Len(seen'[q]) = Len(seen[q]) + 1 /\ at'[q] = "next"
          /\ (Wrong(q)' <=> Wrong(q)) /\ (Drift(q)' <=> Drift(q))
      BY <2>0, <2>8, <3>1, SeenOneMore DEF Unchanged, NextFile, Goto
    <3> QED
      BY <1>1, <1>2, <2>2, <2>8, <3>2 DEF FlagInv, Unchanged, Using, ControlInv, flags
  <2>9. CASE Report(q)
    <3>1. text[q].form = "untidy" /\ ~InPlace(q)
      BY <2>9, UntidyText DEF Report, InPlace, Check
    <3>2. would_change'[q] = TRUE /\ failed' = failed
      BY <2>0, <2>9 DEF Report, WouldChange
    <3> QED
      BY <1>1, <1>2, <2>1, <2>2, <2>6, <2>9, <3>1, <3>2
      DEF FlagInv, Report, Differs, Using, ControlInv
  <2>10. CASE Replace(q)
    <3>1. /\ Len(seen'[q]) = Len(seen[q]) + 1 /\ at'[q] = "next" /\ (Wrong(q)' <=> Wrong(q))
      BY <2>0, <2>10, SeenOneMore DEF Replace, NextFile, Goto
    <3> QED
      BY <1>1, <1>2, <2>2, <2>10, <3>1 DEF FlagInv, Replace, Differs, Using, ControlInv
  <2>11. CASE ReplaceFails(q)
    <3>1. /\ Len(seen'[q]) = Len(seen[q]) + 1 /\ at'[q] = "next" /\ Wrong(q)'
      BY <2>0, <2>11, SeenOneMore DEF ReplaceFails, NextFile, Goto
    <3>2. failed'[q] = TRUE
      BY <2>0, <2>11 DEF ReplaceFails
    <3> QED
      BY <1>1, <1>2, <2>2, <2>11, <3>1, <3>2 DEF FlagInv, ReplaceFails, Differs, Using, ControlInv
  <2>12. CASE Finish(q)
    <3>1. ~FmtMisused(q) /\ ~Left(q)
      BY <2>12 DEF ControlInv, Finish
    <3> QED
      BY <1>1, <1>2, <2>0, <2>1, <2>12, <3>1 DEF FlagInv, Finish, Exit, Goto, fmt, flags
  <2> QED
    BY <1>4, <2>3, <2>4, <2>5, <2>7, <2>8, <2>9, <2>10, <2>11, <2>12 DEF FmtStep
<1> QED
  BY <1>2, <1>3, <1>4, Frame, OwnerFrame, FormatsStep DEF Next

LEMMA InitFlags == Init => FlagInv
<1> SUFFICES ASSUME Init, NEW r \in Runs, Formats(r)
             PROVE /\ seen[r] = <<>> /\ at[r] = "start" /\ ~failed[r] /\ ~would_change[r]
                   /\ 0 <= Len(command[r].files)
  BY DEF FlagInv, Wrong, Drift
<1>1. TypeOK
  BY InitType
<1>2. command[r].files \in Seq(Files)
  BY <1>1, FmtCommand DEF TypeOK, FmtCommands
<1> QED
  BY <1>2 DEF Init, ShellInit, FmtInit

\* The exit code of fmt tells of all its files, in whichever order they fail, differ
\* or change under it, and of an output that fails (cmd_fmt).
THEOREM FmtTells == Spec => []ExitCodeTells
<1> DEFINE Inv == TypeOK /\ ControlInv /\ SaveInv /\ FlagInv
<1>1. Init => Inv
  BY InitType, InitControl, InitSave, InitFlags
<1>2. Inv /\ [Next]_vars => Inv'
  BY StepType, StepControl, StepSave, StepFlags
<1>3. Inv => ExitCodeTells
  <2> SUFFICES ASSUME Inv, NEW r \in Runs, Ended(r) \/ Lost(r), Formats(r)
               PROVE /\ code[r] = 2 <=> FmtMisused(r) \/ Lost(r) \/ Wrong(r)
                     /\ code[r] = 1 <=> /\ ~FmtMisused(r) /\ ~(Lost(r) \/ Wrong(r))
                                        /\ Check(r) /\ Drift(r)
                     /\ Len(seen[r]) # Len(command[r].files) => FmtMisused(r) \/ Lost(r)
                     /\ Lost(r) => ~InPlace(r)
    BY DEF ExitCodeTells, Wrong, Drift
  <2>1. Len(seen[r]) \in Nat /\ Len(command[r].files) \in Nat
    <3>1. command[r].files \in Seq(Files)
      BY FmtCommand DEF TypeOK, FmtCommands
    <3> QED
      BY <3>1 DEF TypeOK, FmtType
  <2>2. CASE Ended(r)
    BY <2>1, <2>2 DEF FlagInv, Ended, Lost, Left
  <2>3. CASE Lost(r)
    BY <2>3 DEF FlagInv, Lost
  <2> QED
    BY <2>2, <2>3
<1> QED
  BY <1>1, <1>2, <1>3, PTL DEF Spec

-----------------------------------------------------------------------------
(* What a run knows to be stale                                            *)

\* Only a run's own reading takes a file off its list.
LEMMA Acts ==
    ASSUME TypeOK, [Next]_vars, NEW q \in Runs
    PROVE Step(q) \/ (UNCHANGED Own(q) /\ stale[q] \subseteq stale'[q])
<1>1. ASSUME NEW f, NEW t, PutText(f, t) PROVE stale[q] \subseteq stale'[q]
  BY <1>1 DEF PutText
<1>2. ASSUME NEW r \in Runs \ {q}, Step(r) PROVE stale[q] \subseteq stale'[q]
  <2>0. stale \in [Runs -> SUBSET Files]
    BY DEF TypeOK, ShellType
  <2>1. CASE FmtStep(r)
    BY <1>1, <1>2, <2>0, <2>1 DEF FmtStep, Begin, Read, ReadFails, Emit, Unchanged, Report, Replace,
      ReplaceFails, Finish, Knows
  <2>2. CASE PruneStep(r)
    BY <1>2, <2>0, <2>2 DEF PruneStep, StartPrune, LoadRules, List, ReadNext, LoadFails, Run, Lock,
      LockFails, PutFile, TakeAway, Record, Release, WriteFails, Tell, Hold, Knows
  <2> QED
    BY <1>2, <2>1, <2>2 DEF Step
<1>3. ASSUME NEW f \in Files, Save(f) PROVE stale[q] \subseteq stale'[q]
  BY <1>1, <1>3 DEF Save
<1>4. ASSUME (\E r \in Runs : ClosePipe(r)) \/ UNCHANGED vars PROVE stale[q] \subseteq stale'[q]
  BY <1>4 DEF ClosePipe, vars, shell
<1> QED
  BY <1>2, <1>3, <1>4, Frame, OwnerFrame DEF Next

\* The text of a file of which a run does not know that it is stale has at most
\* been formatted by another run.
LEMMA FreshStays ==
    ASSUME TypeOK, ControlInv, SaveInv, [Next]_vars,
           NEW q \in Runs, at[q] # "start", NEW f \in Files, f \notin stale'[q]
    PROVE disk'[f] \in {disk[f], Formatted(disk[f])}
<1>0. disk \in [Files -> Texts] /\ stale \in [Runs -> SUBSET Files]
  BY DEF TypeOK, ShellType
<1>1. CASE UNCHANGED disk
  BY <1>1
<1>2. ASSUME NEW g \in Files, NEW t \in Texts, PutText(g, t),
             t.form = "tidy" \/ t.version # disk[g].version
      PROVE disk'[f] \in {disk[f], Formatted(disk[f])}
  <2>1. CASE g = f
    <3>1. t.version = disk[f].version
      BY <1>0, <1>2, <2>1 DEF PutText
    <3>2. t = Formatted(disk[f])
      BY <1>0, <1>2, <2>1, <3>1 DEF Formatted, Texts
    <3> QED
      BY <1>0, <1>2, <2>1, <3>2 DEF PutText
  <2>2. CASE g # f
    BY <1>0, <1>2, <2>2 DEF PutText
  <2> QED
    BY <2>1, <2>2
<1>3. ASSUME NEW r \in Runs, Replace(r) PROVE disk'[f] \in {disk[f], Formatted(disk[f])}
  <2>1. File(r) \in Files /\ text[r] \in Texts
    BY <1>3, ReplaceInPlace DEF TypeOK, FmtType
  <2>2. Formatted(text[r]) \in Texts /\ Formatted(text[r]).form = "tidy"
    BY <2>1, TextTypes DEF Formatted, Texts
  <2> QED
    BY <1>2, <1>3, <2>1, <2>2 DEF Replace
<1>4. ASSUME NEW g \in Files, Save(g) PROVE disk'[f] \in {disk[f], Formatted(disk[f])}
  <2>1. PICK form \in FormsOf[g] : PutText(g, [version |-> Len(saved[g]), form |-> form])
    BY <1>4 DEF Save
  <2> DEFINE t == [version |-> Len(saved[g]), form |-> form]
  <2>2. saved[g] \in Seq(Texts) /\ Len(saved[g]) <= MaxSaves
    BY <1>4 DEF Save, TypeOK, ShellType
  <2>3. t \in Texts
    BY <2>2, CommandsAssumption DEF Texts, OwnForms
  <2>4. disk[g].version < Len(saved[g])
    <3>1. PICK i \in DOMAIN saved[g] :
              \/ disk[g] = saved[g][i]
              \/ saved[g][i].form = "untidy" /\ disk[g] = Formatted(saved[g][i])
      BY DEF SaveInv, Stems
    <3>2. saved[g][i] \in Texts /\ saved[g][i].version = i - 1 /\ i \in 1..Len(saved[g])
      BY <2>2 DEF SaveInv, Saves
    <3>3. Formatted(saved[g][i]).version = saved[g][i].version
      BY <3>2 DEF Formatted, Texts
    <3>4. disk[g].version = i - 1
      BY <3>1, <3>2, <3>3
    <3> QED
      BY <3>2, <3>4
  <2>5. t.version # disk[g].version /\ Len(saved[g]) \in Nat
    BY <2>2, <2>4, <1>0 DEF Texts
  <2> QED
    BY <1>2, <2>1, <2>3, <2>5
<1> QED
  BY <1>1, <1>3, <1>4, OnlyReplaceWrites DEF Next, ClosePipe, vars, shell

-----------------------------------------------------------------------------
(* A run in place: what it is through with is tidy.                        *)

TidyInv == \A r \in Runs : InPlace(r) /\ ~failed[r] =>
    /\ \A i \in DOMAIN seen[r] :
          LET f == command[r].files[i]
          IN f \notin stale[r] /\ (at[r] = "use" => f # File(r)) => disk[f].form = "tidy"
    /\ at[r] = "use" /\ File(r) \notin stale[r] => disk[File(r)] \in {text[r], Formatted(text[r])}

LEMMA FormattedForm ==
    /\ \A t \in Texts : /\ Formatted(t).form = "tidy" /\ Formatted(t) \in Texts
                        /\ Formatted(Formatted(t)) = Formatted(t)
                        /\ t.form = "tidy" => Formatted(t) = t
  BY DEF Formatted, Texts, Forms

LEMMA SeenFiles ==
    ASSUME TypeOK, FlagInv, NEW r \in Runs, Formats(r)
    PROVE /\ DOMAIN seen[r] \subseteq DOMAIN command[r].files
          /\ \A i \in DOMAIN seen[r] : command[r].files[i] \in Files
<1>1. command[r].files \in Seq(Files) /\ seen[r] \in Seq(Verdicts)
  BY FmtCommand DEF TypeOK, FmtType, FmtCommands
<1>2. Len(seen[r]) <= Len(command[r].files)
  BY DEF FlagInv
<1> QED
  BY <1>1, <1>2

LEMMA StepTidy ==
    TypeOK /\ ControlInv /\ SaveInv /\ FlagInv /\ TidyInv /\ [Next]_vars => TidyInv'
<1> SUFFICES ASSUME TypeOK, ControlInv, SaveInv, FlagInv, TidyInv, [Next]_vars,
                    NEW q \in Runs, InPlace(q)', ~failed'[q]
             PROVE (/\ \A i \in DOMAIN seen[q] :
                          LET f == command[q].files[i]
                          IN f \notin stale[q] /\ (at[q] = "use" => f # File(q)) =>
                                disk[f].form = "tidy"
                    /\ at[q] = "use" /\ File(q) \notin stale[q] =>
                          disk[File(q)] \in {text[q], Formatted(text[q])})'
  BY DEF TidyInv
<1>0. UNCHANGED command
  BY Frame DEF Next, ClosePipe, Save, vars, shell
<1>1. InPlace(q) /\ Formats(q) /\ ~Check(q) /\ ~Stdout(q)
  BY <1>0 DEF InPlace, Formats, Check, Stdout
<1>2. \A i \in DOMAIN seen[q] : command[q].files[i] \in Files
  BY <1>1, SeenFiles
<1>3. at[q] = "use" => File(q) \in Files
  BY <1>1, FileType DEF TypeOK, ControlInv
<1>4. disk \in [Files -> Texts] /\ text[q] \in Texts /\ at \in [Runs -> Labels]
  BY DEF TypeOK, ShellType, FmtType
\* Files that are not stale stay tidy, or get tidy.
<1>5. ASSUME NEW f \in Files, f \notin stale'[q], at[q] # "start", disk[f].form = "tidy"
      PROVE disk'[f].form = "tidy"
  BY <1>4, <1>5, FreshStays, FormattedForm
<1>6. at[q] = "start" => DOMAIN seen[q] = {}
  BY <1>1 DEF FlagInv
<1>7. CASE UNCHANGED Own(q) /\ stale[q] \subseteq stale'[q]
  <2>1. /\ at'[q] = at[q] /\ seen'[q] = seen[q] /\ failed'[q] = failed[q] /\ text'[q] = text[q]
        /\ File(q)' = File(q)
    BY <1>7 DEF Own, File
  <2>2. ASSUME NEW i \in DOMAIN seen[q], command[q].files[i] \notin stale'[q],
               at[q] = "use" => command[q].files[i] # File(q)
        PROVE disk'[command[q].files[i]].form = "tidy"
    <3>1. disk[command[q].files[i]].form = "tidy"
      BY <1>1, <1>7, <2>1, <2>2 DEF TidyInv
    <3> QED
      BY <1>2, <1>5, <1>6, <2>2, <3>1
  <2>3. ASSUME at[q] = "use", File(q) \notin stale'[q]
        PROVE disk'[File(q)] \in {text[q], Formatted(text[q])}
    <3>1. disk[File(q)] \in {text[q], Formatted(text[q])}
      BY <1>1, <1>7, <2>1, <2>3 DEF TidyInv
    <3>2. disk'[File(q)] \in {disk[File(q)], Formatted(disk[File(q)])}
      BY <1>3, <2>3, FreshStays
    <3> QED
      BY <1>4, <3>1, <3>2, FormattedForm
  <2> QED
    BY <1>0, <2>1, <2>2, <2>3
<1>8. CASE FmtStep(q)
  <2>1. seen \in [Runs -> Seq(Verdicts)] /\ failed \in [Runs -> BOOLEAN]
        /\ stale \in [Runs -> SUBSET Files] /\ text \in [Runs -> Texts]
    BY DEF TypeOK, ShellType, FmtType
  <2>2. CASE Begin(q)
    BY <1>6, <1>4, <2>1, <2>2 DEF Begin, fmt, Exit, Goto
  <2>3. CASE Read(q)
    <3>1. /\ disk' = disk /\ seen' = seen /\ at'[q] = "use" /\ text'[q] = disk[File(q)]
          /\ stale'[q] = stale[q] \ {File(q)} /\ File(q)' = File(q) /\ failed' = failed
          /\ at[q] = "next"
      BY <1>4, <2>1, <2>3 DEF Read, Goto, Knows, File, flags
    <3> QED
      BY <1>0, <1>1, <3>1 DEF TidyInv
  <2>4. ~ReadFails(q) /\ ~ReplaceFails(q)
    BY <2>1 DEF ReadFails, ReplaceFails
  <2>5. ~Emit(q) /\ ~Report(q)
    BY <1>1 DEF Emit, Report
  <2>6. CASE Unchanged(q) \/ Replace(q)
    <3>1. /\ at[q] = "use" /\ at'[q] = "next" /\ seen'[q] = Append(seen[q], [text |-> text[q], well |-> TRUE])
          /\ failed' = failed
      BY <1>4, <2>1, <2>6 DEF Unchanged, Replace, Differs, Using, NextFile, Goto, Seen, flags
    <3>2. stale[q] \subseteq stale'[q] /\ File(q) \in Files /\ failed[q] = FALSE
      BY <1>3, <2>1, <2>6, <3>1 DEF Unchanged, Replace, PutText
    <3>3. File(q) \notin stale'[q] => disk'[File(q)].form = "tidy"
      <4>1. CASE Replace(q)
        BY <1>4, <3>2, <4>1, FormattedForm DEF Replace, PutText
      <4>2. CASE Unchanged(q) /\ File(q) \notin stale[q]
        <5>1. disk[File(q)] \in {text[q], Formatted(text[q])} /\ Formatted(text[q]) = text[q]
          BY <1>1, <3>1, <3>2, <4>2 DEF TidyInv, Unchanged
        <5> QED
          BY <1>4, <4>2, <5>1, FormattedForm DEF Unchanged
      <4> QED
        BY <2>6, <3>2, <4>1, <4>2
    <3>4. ASSUME NEW i \in DOMAIN seen'[q], command[q].files[i] \notin stale'[q]
          PROVE disk'[command[q].files[i]].form = "tidy"
      <4>1. CASE i \in DOMAIN seen[q] /\ command[q].files[i] # File(q)
        <5>1. disk[command[q].files[i]].form = "tidy"
          BY <1>1, <3>2, <3>4, <4>1 DEF TidyInv
        <5> QED
          BY <1>2, <1>5, <3>1, <3>4, <4>1, <5>1
      <4>2. i \in DOMAIN seen[q] \/ i = Len(seen[q]) + 1
        BY <2>1, <3>1
      <4>3. CASE command[q].files[i] = File(q)
        BY <3>3, <3>4, <4>3
      <4> QED
        BY <4>1, <4>2, <4>3 DEF File
    <3> QED
      BY <1>0, <3>1, <3>4
  <2>7. CASE Finish(q)
    <3>1. /\ disk' = disk /\ seen' = seen /\ at'[q] = "done" /\ stale' = stale /\ failed' = failed
          /\ at[q] = "next"
      BY <1>4, <2>7 DEF Finish, Exit, Goto, fmt, flags
    <3> QED
      BY <1>0, <1>1, <3>1 DEF TidyInv
  <2> QED
    BY <1>8, <2>2, <2>3, <2>4, <2>5, <2>6, <2>7 DEF FmtStep
<1> QED
  BY <1>1, <1>7, <1>8, Acts, FormatsStep

LEMMA InitTidy == Init => TidyInv
  BY DEF Init, ShellInit, FmtInit, TidyInv

\* A run in place that reports success leaves its files formatted, also when others
\* work on the same files (cmd_fmt).
THEOREM FmtTidies == Spec => []SuccessMeansTidy
<1> DEFINE Inv == TypeOK /\ ControlInv /\ SaveInv /\ FlagInv /\ TidyInv
<1>1. Init => Inv
  BY InitType, InitControl, InitSave, InitFlags, InitTidy
<1>2. Inv /\ [Next]_vars => Inv'
  BY StepType, StepControl, StepSave, StepFlags, StepTidy
<1>3. Inv => SuccessMeansTidy
  <2> SUFFICES ASSUME Inv, NEW r \in Runs, Ended(r), InPlace(r), code[r] = 0,
                      NEW i \in DOMAIN command[r].files, command[r].files[i] \notin stale[r]
               PROVE disk[command[r].files[i]].form = "tidy"
    BY DEF SuccessMeansTidy
  <2>1. Formats(r) /\ at[r] = "done"
    BY DEF InPlace, Ended
  <2>2. ~failed[r] /\ ~Left(r)
    BY <2>1 DEF FlagInv
  <2>3. command[r].files \in Seq(Files) /\ seen[r] \in Seq(Verdicts)
    BY <2>1, FmtCommand DEF TypeOK, FmtCommands, FmtType
  <2>4. i \in DOMAIN seen[r]
    BY <2>2, <2>3 DEF Left
  <2> QED
    BY <2>1, <2>2, <2>4 DEF TidyInv
<1> QED
  BY <1>1, <1>2, <1>3, PTL DEF Spec

-----------------------------------------------------------------------------
(* The codes and the inputs of a run                                       *)

\* A code is set when a run ends.
CodeInv == \A r \in Runs : at[r] \notin {"done", "piped", "lost"} => code[r] = 0

\* What a run has read, and is not known to be stale, is what is there.
HeldInv == \A r \in Runs :
    /\ at[r] \in {"start", "load"} \/ Formats(r) => \A f \in Files : held[r][f] = Unread
    /\ at[r] = "list" => \A f \in Sources : held[r][f] = Unread
    /\ \A f \in Files : held[r][f] # Unread /\ f \notin stale[r] =>
          held[r][f].version = disk[f].version

LEMMA StepKind ==
    ASSUME TypeOK, ControlInv, NEW r \in Runs, Step(r)
    PROVE \/ Formats(r) /\ FmtStep(r) /\ UNCHANGED prune
          \/ ~Formats(r) /\ PruneStep(r) /\ UNCHANGED fmt
<1>1. CASE Formats(r)
  BY <1>1, FormatsStep
<1>2. CASE ~Formats(r)
  <2>1. at[r] \notin {"next", "use"}
    BY <1>2 DEF ControlInv
  <2>2. ~FmtStep(r)
    BY <1>2, <2>1 DEF FmtStep, Begin, Read, ReadFails, Emit, Unchanged, Report, Replace,
      ReplaceFails, Finish, Using, Differs
  <2> QED
    BY <1>2, <2>2 DEF Step
<1> QED
  BY <1>1, <1>2

LEMMA StepCode == TypeOK /\ CodeInv /\ [Next]_vars => CodeInv'
<1> SUFFICES ASSUME TypeOK, CodeInv, [Next]_vars, NEW q \in Runs, at'[q] \notin {"done", "piped", "lost"}
             PROVE code'[q] = 0
  BY DEF CodeInv
<1>1. CASE UNCHANGED Own(q)
  BY <1>1 DEF CodeInv, Own
<1>2. CASE Step(q)
  <2>0. at \in [Runs -> Labels]
    BY DEF TypeOK, ShellType
  <2>1. CASE FmtStep(q)
    BY <2>0, <2>1 DEF CodeInv, FmtStep, Begin, Read, ReadFails, Emit, Unchanged, Report, Replace,
      ReplaceFails, Finish, Goto, Exit, BrokenPipe, CannotSay, OutputFails, NextFile, Say, Using, Differs
  <2>2. CASE PruneStep(q)
    BY <2>0, <2>2 DEF CodeInv, PruneStep, StartPrune, LoadRules, List, ReadNext, LoadFails, Run,
      Lock, LockFails, PutFile, TakeAway, Record, Release, WriteFails, Tell, Goto, Exit, BrokenPipe, CannotSay, OutputFails
  <2> QED
    BY <1>2, <2>1, <2>2 DEF Step
<1> QED
  BY <1>1, <1>2, Acts

LEMMA StepHeldInv ==
    TypeOK /\ ControlInv /\ SaveInv /\ HeldInv /\ [Next]_vars => HeldInv'
<1> SUFFICES ASSUME TypeOK, ControlInv, SaveInv, HeldInv, [Next]_vars, NEW q \in Runs
             PROVE (/\ at[q] \in {"start", "load"} \/ Formats(q) =>
                          \A f \in Files : held[q][f] = Unread
                    /\ at[q] = "list" => \A f \in Sources : held[q][f] = Unread
                    /\ \A f \in Files : held[q][f] # Unread /\ f \notin stale[q] =>
                          held[q][f].version = disk[f].version)'
  BY DEF HeldInv
<1>0. UNCHANGED command
  BY Frame DEF Next, ClosePipe, Save, vars, shell
<1>1. Formats(q)' = Formats(q)
  BY <1>0 DEF Formats
<1>2. /\ disk \in [Files -> Texts] /\ at \in [Runs -> Labels] /\ held \in [Runs -> [Files -> Texts]]
      /\ stale \in [Runs -> SUBSET Files]
  BY DEF TypeOK, ShellType, PruneType
<1>3. Sources \subseteq Files /\ RulesFile \in Files /\ RulesFile \notin Sources
  BY FilesAssumption
<1>4. CASE UNCHANGED Own(q) /\ stale[q] \subseteq stale'[q]
  <2>1. at'[q] = at[q] /\ held'[q] = held[q]
    BY <1>4 DEF Own
  <2>2. ASSUME NEW f \in Files, held[q][f] # Unread, f \notin stale'[q]
        PROVE held[q][f].version = disk'[f].version
    <3>1. held[q][f].version = disk[f].version /\ at[q] # "start"
      BY <1>4, <2>2 DEF HeldInv
    <3>2. disk'[f] \in {disk[f], Formatted(disk[f])}
      BY <2>2, <3>1, FreshStays
    <3>3. Formatted(disk[f]).version = disk[f].version
      BY <1>2 DEF Formatted, Texts
    <3> QED
      BY <3>1, <3>2, <3>3
  <2> QED
    BY <1>1, <1>3, <2>1, <2>2 DEF HeldInv
<1>5. CASE Formats(q) /\ UNCHANGED prune
  <2>1. held' = held
    BY <1>5 DEF prune
  <2> QED
    BY <1>1, <1>3, <1>5, <2>1 DEF HeldInv
<1>6. CASE ~Formats(q) /\ PruneStep(q) /\ UNCHANGED fmt /\ Step(q)
  <2>1. disk' = disk
    <3>1. ~Replace(q)
      BY <1>6 DEF Replace, Differs, Using, ControlInv
    <3> QED
      BY <1>6, <3>1, OnlyReplaceWrites
  <2>2. CASE LoadRules(q)
    <3>1. /\ at[q] = "load" /\ at'[q] = "list"
          /\ held'[q] = [held[q] EXCEPT ![RulesFile] = disk[RulesFile]]
          /\ stale'[q] = stale[q] \ {RulesFile}
      BY <1>2, <1>3, <2>2 DEF LoadRules, Hold, Knows, Goto
    <3> QED
      BY <1>1, <1>2, <1>3, <1>6, <2>1, <3>1 DEF HeldInv
  <2>3. CASE List(q)
    <3>1. /\ at[q] = "list" /\ at'[q] = "read" /\ held' = held
          /\ stale'[q] = stale[q] \ (Sources \ listed'[q])
      BY <1>2, <2>3 DEF List, Goto
    <3> QED
      BY <1>1, <1>3, <1>6, <2>1, <3>1 DEF HeldInv
  <2>4. ASSUME NEW f \in Sources, ReadNext(q, f)
        PROVE (/\ at[q] \in {"start", "load"} \/ Formats(q) =>
                     \A g \in Files : held[q][g] = Unread
               /\ at[q] = "list" => \A g \in Sources : held[q][g] = Unread
               /\ \A g \in Files : held[q][g] # Unread /\ g \notin stale[q] =>
                     held[q][g].version = disk[g].version)'
    <3>1. /\ at[q] = "read" /\ at' = at
          /\ held'[q] = [held[q] EXCEPT ![f] = disk[f]]
          /\ stale'[q] = stale[q] \ {f}
      BY <1>2, <1>3, <2>4 DEF ReadNext, Hold, Knows
    <3> QED
      BY <1>1, <1>2, <1>3, <1>6, <2>1, <3>1 DEF HeldInv
  <2>5. CASE held' = held /\ stale' = stale /\ at'[q] # "list" /\ (at'[q] = "load" => at[q] = "start")
             /\ at'[q] # "start"
    BY <1>1, <1>6, <2>1, <2>5 DEF HeldInv
  <2> QED
    BY <1>2, <1>6, <2>2, <2>3, <2>4, <2>5 DEF PruneStep, StartPrune, LoadFails, Run, Lock, LockFails,
      PutFile, TakeAway, Record, Release, WriteFails, Tell, Goto, Exit, BrokenPipe, CannotSay, OutputFails, prune
<1> QED
  BY <1>4, <1>5, <1>6, Acts, StepKind

LEMMA InitHeld == Init => CodeInv /\ HeldInv
<1>1. Sources \subseteq Files
  BY FilesAssumption
<1> QED
  BY <1>1 DEF Init, ShellInit, PruneInit, CodeInv, HeldInv

-----------------------------------------------------------------------------
(* The output directory                                                    *)

\* The run in fs::sync is the one with the lock.
LockInv == \A r \in Runs : at[r] \in {"write", "release"} => writer = r /\ lastWriter = r

\* Who writes has analyzed, and writes its own files.
MakerInv ==
    /\ \A r \in Runs : at[r] \in {"lock", "write", "release"} => Builds(r)
    /\ \A f \in Sources : out[f] \in Runs =>
          /\ Prunes(out[f]) /\ Builds(out[f]) /\ f \in Kept(out[f])
          /\ at[out[f]] \in {"write", "release", "report", "done", "piped", "lost"}

\* What a run left there is recorded, unless the run failed.
Failed(r) == at[r] = "done" /\ code[r] = 2

RecordInv == \A f \in Sources :
    out[f] \in Runs /\ at[out[f]] # "write" /\ ~Failed(out[f]) => f \in recorded

\* The last run that got the lock is through with the directory.
Through(r) ==
    /\ Prunes(r) /\ lastWriter = r
    /\ at[r] \in {"release", "report", "piped", "lost"} \/ (at[r] = "done" /\ code[r] = 0)

MirrorInv == \A r \in Runs : Through(r) =>
    /\ Builds(r)
    /\ recorded = Kept(r)
    /\ \A f \in Sources : out[f] = r <=> f \in Kept(r)
    /\ \A f \in Sources : out[f] \in Runs \ {r} => Failed(out[f])

LEMMA Constants == Absent \notin Runs /\ NoRun \notin Runs
  BY FilesAssumption

\* What a step of a run does to the directory.
LEMMA DirMoves ==
    ASSUME TypeOK, ControlInv, LockInv, NEW r \in Runs, Step(r)
    PROVE \/ UNCHANGED dir /\ at[r] \notin {"write", "release"} /\ at'[r] \notin {"write", "release"}
          \/ Lock(r)
          \/ \E f \in Sources : PutFile(r, f) \/ TakeAway(r, f)
          \/ Record(r) \/ Release(r) \/ WriteFails(r)
<1>0. at \in [Runs -> Labels]
  BY DEF TypeOK, ShellType
<1>1. CASE Formats(r) /\ FmtStep(r) /\ UNCHANGED prune
  <2>1. at[r] \notin {"write", "release"}
    BY <1>1 DEF ControlInv, Formats, Prunes
  <2>2. at'[r] \notin {"write", "release"}
    BY <1>0, <1>1, <2>1 DEF FmtStep, Begin, Read, ReadFails, Emit, Unchanged, Report, Replace,
      ReplaceFails, Finish, Goto, Exit, BrokenPipe, CannotSay, OutputFails, NextFile, Say
  <2> QED
    BY <1>1, <2>1, <2>2 DEF prune
<1>2. CASE PruneStep(r)
  BY <1>0, <1>2 DEF PruneStep, StartPrune, LoadRules, List, ReadNext, LoadFails, Run, LockFails,
    Tell, Goto, Exit, BrokenPipe, CannotSay, OutputFails, prune, dir
<1> QED
  BY <1>1, <1>2, StepKind

\* Else nothing happens to it.
LEMMA DirStays ==
    ASSUME TypeOK, [Next]_vars, \A r \in Runs : ~Step(r)
    PROVE UNCHANGED dir /\ \A q \in Runs : UNCHANGED Own(q)
<1>1. UNCHANGED dir
  BY DEF Next, ClosePipe, Save, prune, vars
<1> QED
  BY <1>1, Acts

LEMMA StepLock == TypeOK /\ ControlInv /\ LockInv /\ [Next]_vars => LockInv'
<1> SUFFICES ASSUME TypeOK, ControlInv, LockInv, [Next]_vars,
                    NEW q \in Runs, at'[q] \in {"write", "release"}
             PROVE writer' = q /\ lastWriter' = q
  BY DEF LockInv
<1>0. at \in [Runs -> Labels]
  BY DEF TypeOK, ShellType
<1>1. CASE \A r \in Runs : ~Step(r)
  <2>1. UNCHANGED dir /\ UNCHANGED Own(q)
    BY <1>1, DirStays
  <2> QED
    BY <2>1 DEF LockInv, Own, dir
<1>2. ASSUME NEW r \in Runs, Step(r) PROVE writer' = q /\ lastWriter' = q
  <2>1. q # r => at'[q] = at[q]
    BY <1>2, Frame DEF Own
  <2>2. CASE UNCHANGED dir /\ at'[r] \notin {"write", "release"}
    BY <2>1, <2>2 DEF LockInv, dir
  <2>3. CASE Lock(r)
    BY <2>1, <2>3, Constants DEF LockInv, Lock, Dir!Begin
  <2>4. ASSUME NEW f \in Sources, PutFile(r, f) \/ TakeAway(r, f)
        PROVE writer' = q /\ lastWriter' = q
    BY <2>1, <2>4 DEF LockInv, PutFile, TakeAway, Dir!Put, Dir!Take
  <2>5. CASE Record(r)
    BY <2>1, <2>5 DEF LockInv, Record, Dir!Commit
  <2>6. CASE Release(r) \/ WriteFails(r)
    <3>1. at'[r] \in {"report", "done"} /\ at[r] \in {"write", "release"}
      BY <1>0, <2>6 DEF Release, WriteFails, Goto, Exit
    <3> QED
      BY <2>1, <3>1 DEF LockInv
  <2> QED
    BY <1>2, <2>2, <2>3, <2>4, <2>5, <2>6, DirMoves
<1> QED
  BY <1>1, <1>2

\* After it has got its inputs a run keeps them.
LEMMA InputsStay ==
    ASSUME TypeOK, ControlInv, [Next]_vars, NEW q \in Runs, Prunes(q),
           at[q] \in {"lock", "write", "release", "report", "done", "piped", "lost"}
    PROVE /\ held'[q] = held[q] /\ listed'[q] = listed[q] /\ Prunes(q)'
          /\ Kept(q)' = Kept(q) /\ Builds(q)' = Builds(q)
<1>1. held'[q] = held[q] /\ listed'[q] = listed[q] /\ command'[q] = command[q]
  <2>1. CASE UNCHANGED Own(q)
    BY <2>1 DEF Own
  <2>2. CASE Step(q)
    <3>1. PruneStep(q) /\ UNCHANGED command
      BY <2>2, StepKind, Frame DEF Formats, Prunes
    <3> QED
      BY <3>1 DEF PruneStep, StartPrune, LoadRules, List, ReadNext, LoadFails, Run, Lock, LockFails,
        PutFile, TakeAway, Record, Release, WriteFails, Tell, prune
  <2> QED
    BY <2>1, <2>2, Acts
<1> QED
  BY <1>1 DEF Prunes, Kept, Builds, Inputs, Analyzes

LEMMA StepMaker ==
    TypeOK /\ ControlInv /\ LockInv /\ MakerInv /\ [Next]_vars => MakerInv'
<1> SUFFICES ASSUME TypeOK, ControlInv, LockInv, MakerInv, [Next]_vars PROVE MakerInv'
  OBVIOUS
<1>0. at \in [Runs -> Labels] /\ out \in [Sources -> Runs \cup {Absent}]
  BY DEF TypeOK, ShellType, PruneType
<1>1. ASSUME NEW q \in Runs, at'[q] \in {"lock", "write", "release"} PROVE Builds(q)'
  <2>1. CASE at[q] \in {"lock", "write", "release"}
    <3>1. Prunes(q)
      BY <2>1 DEF ControlInv
    <3> QED
      BY <2>1, <3>1, InputsStay DEF MakerInv
  <2>2. CASE at[q] \notin {"lock", "write", "release"}
    <3>1. Step(q)
      BY <1>1, <2>2, Acts DEF Own
    <3>2. Run(q)
      BY <1>0, <1>1, <2>2, <3>1, StepKind DEF FmtStep, Begin, Read, ReadFails, Emit, Unchanged,
        Report, Replace, ReplaceFails, Finish, NextFile, Say, PruneStep, StartPrune, LoadRules, List,
        ReadNext, LoadFails, Lock, LockFails, PutFile, TakeAway, Record, Release, WriteFails, Tell,
        Goto, Exit, BrokenPipe, CannotSay, OutputFails
    <3>3. UNCHANGED <<held, listed>> /\ Builds(q)
      BY <1>0, <1>1, <3>2 DEF Run, Exit, Goto, prune
    <3> QED
      BY <3>3 DEF Builds, Inputs, Analyzes, Kept
  <2> QED
    BY <2>1, <2>2
<1>2. ASSUME NEW f \in Sources, out'[f] \in Runs
      PROVE (/\ Prunes(out[f]) /\ Builds(out[f]) /\ f \in Kept(out[f])
             /\ at[out[f]] \in {"write", "release", "report", "done", "piped", "lost"})'
  <2>1. PICK q \in Runs : q = out'[f]
    BY <1>2
  <2>2. CASE out[f] = q
    <3>1. /\ Prunes(q) /\ Builds(q) /\ f \in Kept(q)
          /\ at[q] \in {"write", "release", "report", "done", "piped", "lost"}
      BY <2>1, <2>2 DEF MakerInv
    <3>2. at'[q] \in {"write", "release", "report", "done", "piped", "lost"}
      <4>1. CASE Step(q)
        <5>1. PruneStep(q)
          BY <2>1, <3>1, <4>1, StepKind DEF Formats, Prunes
        <5> QED
          BY <1>0, <2>1, <3>1, <5>1 DEF PruneStep, StartPrune, LoadRules, List, ReadNext, LoadFails,
            Run, Lock, LockFails, PutFile, TakeAway, Record, Release, WriteFails, Tell, Goto, Exit,
            BrokenPipe, CannotSay, OutputFails
      <4> QED
        BY <2>1, <3>1, <4>1, Acts DEF Own
    <3>3. Prunes(q)' /\ Builds(q)' /\ f \in Kept(q)'
      BY <2>1, <3>1, InputsStay
    <3> QED
      BY <2>1, <3>2, <3>3 DEF Prunes, Builds, Inputs, Analyzes, Kept
  <2>3. CASE out[f] # q
    <3>1. PICK r \in Runs : Step(r)
      BY <2>1, <2>3, DirStays DEF dir
    <3>2. PICK g \in Sources : PutFile(r, g) \/ TakeAway(r, g)
      BY <2>1, <2>3, <3>1, DirMoves DEF dir, Lock, Record, Release, WriteFails, Dir!Begin,
        Dir!Commit, Dir!End
    <3>3. PutFile(r, g) /\ g = f /\ q = writer
      BY <1>0, <2>1, <2>3, <3>2, Constants DEF PutFile, TakeAway, Dir!Put, Dir!Take
    <3>4. q = r /\ at[q] = "write" /\ f \in Kept(q) /\ at' = at
      BY <3>3 DEF LockInv, PutFile
    <3>5. Prunes(q) /\ Builds(q)
      BY <2>1, <3>4 DEF ControlInv, MakerInv
    <3>6. Prunes(q)' /\ Builds(q)' /\ f \in Kept(q)'
      BY <2>1, <3>4, <3>5, InputsStay
    <3> QED
      BY <2>1, <3>4, <3>6 DEF Prunes, Builds, Inputs, Analyzes, Kept
  <2> QED
    BY <2>2, <2>3
<1> QED
  BY <1>1, <1>2 DEF MakerInv

DirInv == LockInv /\ MakerInv /\ RecordInv /\ MirrorInv

\* A failed run stays failed.
LEMMA FailedStays ==
    ASSUME TypeOK, ControlInv, CodeInv, [Next]_vars, NEW q \in Runs, Failed(q)
    PROVE Failed(q)'
<1>1. at[q] = "done"
  BY DEF Failed
<1>2. ~Step(q)
  <2>1. ~FmtStep(q)
    BY <1>1 DEF FmtStep, Begin, Read, ReadFails, Emit, Unchanged, Report, Replace, ReplaceFails,
      Finish, Using, Differs
  <2>2. ~PruneStep(q)
    BY <1>1 DEF PruneStep, StartPrune, LoadRules, List, ReadNext, LoadFails, Run, Lock, LockFails,
      PutFile, TakeAway, Record, Release, WriteFails, Tell
  <2> QED
    BY <2>1, <2>2 DEF Step
<1> QED
  BY <1>2, Acts DEF Own, Failed

\* With every file under its own name, a commit records the writer's files, and no
\* other file is left of those on record.
LEMMA CommitIs ==
    ASSUME TypeOK, Dir!Commit
    PROVE /\ recorded' = {e \in Sources : out[e] = writer} /\ out' = out
          /\ \A e \in recorded : out[e] \in {writer, Absent}
<1> DEFINE w == [f \in Sources |-> f]
<1>a. recorded \subseteq Sources /\ \A f \in Sources : w[f] = f
  BY DEF TypeOK, PruneType
<1>b. PICK N \in SUBSET Sources :
          /\ \A m \in recorded \ N : out[w[m]] = Absent
          /\ \A n \in N : out[w[n]] = writer \/ \E m \in recorded \ N : w[m] = w[n]
          /\ \A e \in Sources : out[e] = writer => \E n \in N : w[n] = e
          /\ recorded' = N
  BY DEF Dir!Commit, Dir!Outdated
<1> HIDE DEF w
<1>1. /\ \A m \in recorded \ N : out[m] = Absent
      /\ \A n \in N : out[n] = writer
      /\ \A e \in Sources : out[e] = writer => e \in N
      /\ recorded' = N
  BY <1>a, <1>b
<1>2. N = {e \in Sources : out[e] = writer}
  BY <1>1
<1>3. \A e \in recorded : out[e] \in {writer, Absent}
  BY <1>a, <1>1
<1> QED
  BY <1>1, <1>2, <1>3 DEF Dir!Commit

\* The run that made a file is still writing, or has failed, if it is not recorded.
LEMMA StepRecord ==
    TypeOK /\ ControlInv /\ CodeInv /\ LockInv /\ MakerInv /\ RecordInv /\ [Next]_vars
        => RecordInv'
<1> SUFFICES ASSUME TypeOK, ControlInv, CodeInv, LockInv, MakerInv, RecordInv, [Next]_vars,
                    NEW f \in Sources, NEW q \in Runs, out'[f] = q, at'[q] # "write", ~Failed(q)'
             PROVE f \in recorded'
  BY DEF RecordInv
<1>0. /\ at \in [Runs -> Labels] /\ out \in [Sources -> Runs \cup {Absent}]
      /\ code \in [Runs -> 0..2]
  BY DEF TypeOK, ShellType, PruneType
<1>1. ~Failed(q)
  BY FailedStays
<1>2. CASE \A r \in Runs : ~Step(r)
  <2>1. UNCHANGED dir /\ UNCHANGED Own(q)
    BY <1>2, DirStays
  <2> QED
    BY <1>1, <2>1 DEF RecordInv, Failed, Own, dir
<1>3. ASSUME NEW r \in Runs, Step(r) PROVE f \in recorded'
  <2>1. q # r => at'[q] = at[q] /\ code'[q] = code[q]
    BY <1>3, Frame DEF Own
  <2>2. CASE UNCHANGED dir /\ at[r] \notin {"write", "release"}
    BY <1>1, <2>1, <2>2 DEF RecordInv, dir
  <2>3. CASE Lock(r)
    <3>1. q # r
      BY <1>0, <2>3 DEF Lock, Goto
    <3> QED
      BY <1>1, <2>1, <2>3, <3>1 DEF RecordInv, Lock, Dir!Begin
  <2>4. ASSUME NEW g \in Sources, PutFile(r, g) \/ TakeAway(r, g) PROVE f \in recorded'
    <3>1. at' = at /\ at[r] = "write" /\ recorded' = recorded /\ writer = r
      BY <2>4 DEF PutFile, TakeAway, Dir!Put, Dir!Take, LockInv
    <3>2. out[f] = q
      BY <1>0, <2>4, <3>1, Constants DEF PutFile, TakeAway, Dir!Put, Dir!Take
    <3> QED
      BY <1>1, <3>1, <3>2 DEF RecordInv
  <2>5. CASE Record(r)
    <3>1. /\ recorded' = {e \in Sources : out[e] = r} /\ out' = out /\ at[r] = "write"
          /\ \A e \in recorded : out[e] \in {r, Absent}
      BY <2>5, CommitIs DEF Record, LockInv
    <3>2. q = r
      <4>1. SUFFICES ASSUME q # r PROVE FALSE
        OBVIOUS
      <4>2. at[q] # "write"
        BY <2>1, <4>1
      <4>3. f \in recorded
        BY <1>1, <3>1, <4>2 DEF RecordInv
      <4> QED
        BY <3>1, <4>1, <4>3, Constants
    <3> QED
      BY <3>1, <3>2
  <2>6. CASE Release(r)
    <3>1. UNCHANGED <<out, recorded>> /\ at[r] = "release"
      BY <2>6 DEF Release, Dir!End
    <3> QED
      BY <1>1, <2>1, <3>1 DEF RecordInv
  <2>7. CASE WriteFails(r)
    <3>1. UNCHANGED <<out, recorded>> /\ Failed(r)'
      BY <1>0, <2>7 DEF WriteFails, Exit, Goto, Failed, Dir!End
    <3> QED
      BY <1>1, <2>1, <3>1 DEF RecordInv
  <2> QED
    BY <1>3, <2>2, <2>3, <2>4, <2>5, <2>6, <2>7, DirMoves
<1> QED
  BY <1>2, <1>3

LEMMA StepMirror ==
    TypeOK /\ ControlInv /\ CodeInv /\ DirInv /\ [Next]_vars => MirrorInv'
<1> SUFFICES ASSUME TypeOK, ControlInv, CodeInv, DirInv, [Next]_vars, NEW q \in Runs, Through(q)'
             PROVE (/\ Builds(q)
                    /\ recorded = Kept(q)
                    /\ \A f \in Sources : out[f] = q <=> f \in Kept(q)
                    /\ \A f \in Sources : out[f] \in Runs \ {q} => Failed(out[f]))'
  BY DEF MirrorInv
<1> USE DEF DirInv
<1>0. /\ at \in [Runs -> Labels] /\ out \in [Sources -> Runs \cup {Absent}]
      /\ code \in [Runs -> 0..2]
  BY DEF TypeOK, ShellType, PruneType
\* What held of the directory, if nothing has happened to it, still does.
<1>1. CASE Through(q) /\ UNCHANGED <<out, recorded>>
  <2>1. Kept(q)' = Kept(q) /\ Builds(q)'
    BY <1>1, InputsStay DEF Through, MirrorInv
  <2>2. \A f \in Sources : out[f] \in Runs \ {q} => Failed(out[f])'
    BY <1>1, FailedStays DEF MirrorInv
  <2> QED
    BY <1>1, <2>1, <2>2 DEF MirrorInv
<1>2. CASE \A r \in Runs : ~Step(r)
  <2>1. UNCHANGED dir /\ UNCHANGED Own(q)
    BY <1>2, DirStays
  <2> QED
    BY <1>1, <2>1 DEF Through, Prunes, Own, dir
<1>3. ASSUME NEW r \in Runs \ {q}, Step(r)
      PROVE Through(q) /\ UNCHANGED <<out, recorded>>
  <2>1. UNCHANGED Own(q)
    BY <1>3, Frame
  <2>2. /\ lastWriter' = q /\ Prunes(q)
        /\ \/ at[q] \in {"release", "report", "piped", "lost"}
           \/ at[q] = "done" /\ code[q] = 0
    BY <2>1 DEF Through, Prunes, Own
  <2>3. lastWriter = q
    BY <1>3, <2>2, DirMoves DEF dir, Lock, PutFile, TakeAway, Record, Release, WriteFails
  <2>4. at[r] \notin {"write", "release"}
    BY <1>3, <2>3 DEF LockInv
  <2> QED
    BY <1>3, <2>2, <2>3, <2>4, DirMoves
    DEF Through, dir, Lock, PutFile, TakeAway, Record, Release, WriteFails, Dir!Begin
<1>4. CASE Step(q)
  <2>1. Prunes(q) /\ PruneStep(q)
    <3>1. UNCHANGED command
      BY <1>4, Frame
    <3> QED
      BY <1>4, <3>1, StepKind DEF Through, Prunes, Formats
  <2>2. CASE Record(q)
    <3>1. /\ at[q] = "write" /\ out' = out /\ UNCHANGED <<held, code, lastWriter>>
          /\ recorded' = {e \in Sources : out[e] = q}
          /\ \A e \in recorded : out[e] \in {q, Absent}
          /\ \A f \in Kept(q) : out[f] = q
          /\ writer = q
      BY <2>2, CommitIs DEF Record, LockInv, Written
    <3>2. Kept(q)' = Kept(q) /\ Builds(q)'
      BY <2>1, <3>1, InputsStay DEF MakerInv
    <3>3. Kept(q) \subseteq Sources
      BY <3>1 DEF MakerInv, Builds, Inputs, TypeOK, PruneType
    <3>4. \A f \in Sources : out[f] = q <=> f \in Kept(q)
      BY <3>1 DEF MakerInv
    <3>5. ASSUME NEW f \in Sources, out[f] \in Runs \ {q} PROVE Failed(out[f])'
      <4>1. f \notin recorded
        BY <3>1, <3>5, Constants
      <4>2. at[out[f]] # "write"
        BY <3>1, <3>5 DEF LockInv
      <4>3. Failed(out[f])
        BY <3>5, <4>1, <4>2 DEF RecordInv
      <4> QED
        BY <3>1, <3>5, <4>3, FailedStays
    <3> QED
      BY <3>1, <3>2, <3>3, <3>4, <3>5
  <2>3. CASE Release(q)
    <3>1. UNCHANGED <<out, recorded, lastWriter, code>> /\ at[q] = "release"
      BY <2>3 DEF Release, Dir!End
    <3> QED
      BY <1>1, <2>1, <3>1 DEF Through
  <2>4. CASE Tell(q)
    <3>1. UNCHANGED <<out, recorded, lastWriter>> /\ at[q] = "report" /\ code[q] = 0
      BY <2>4 DEF Tell, prune, dir, CodeInv
    <3> QED
      BY <1>1, <2>1, <3>1 DEF Through
  <2>5. ~Through(q)' \/ Record(q) \/ Release(q) \/ Tell(q)
    BY <1>0, <2>1, ControlInv DEF Through, PruneStep, StartPrune, LoadRules, List, ReadNext,
      LoadFails, Run, Lock, LockFails, PutFile, TakeAway, WriteFails, Goto, Exit
  <2> QED
    BY <2>2, <2>3, <2>4, <2>5
<1> QED
  BY <1>1, <1>2, <1>3, <1>4

LEMMA InitDir == Init => DirInv
<1> SUFFICES ASSUME Init PROVE DirInv
  OBVIOUS
<1>1. \A r \in Runs : at[r] = "start"
  BY DEF Init, ShellInit
<1>2. \A f \in Sources : out[f] = Absent
  BY DEF Init, PruneInit
<1> QED
  BY <1>1, <1>2, Constants DEF DirInv, LockInv, MakerInv, RecordInv, MirrorInv, Through

-----------------------------------------------------------------------------
(* The theorems about prune                                                *)

PruneInv == TypeOK /\ ControlInv /\ SaveInv /\ CodeInv /\ HeldInv /\ DirInv

LEMMA PruneInvHolds == Spec => []PruneInv
<1>1. Init => PruneInv
  BY InitType, InitControl, InitSave, InitHeld, InitDir DEF PruneInv
<1>2. PruneInv /\ [Next]_vars => PruneInv'
  <2> SUFFICES ASSUME PruneInv, [Next]_vars PROVE PruneInv'
    OBVIOUS
  <2>1. TypeOK' /\ ControlInv' /\ SaveInv' /\ CodeInv' /\ HeldInv'
    BY StepType, StepControl, StepSave, StepCode, StepHeldInv DEF PruneInv
  <2>2. DirInv'
    BY StepLock, StepMaker, StepRecord, StepMirror DEF PruneInv, DirInv
  <2> QED
    BY <2>1, <2>2 DEF PruneInv
<1> QED
  BY <1>1, <1>2, PTL DEF Spec

\* What builds has parsed, and so was read.
LEMMA BuildsRead ==
    ASSUME TypeOK, NEW r \in Runs, Builds(r)
    PROVE /\ \A g \in Inputs(r) \cup {RulesFile} :
                g \in Files /\ Parses(held[r][g]) /\ held[r][g] # Unread
          /\ Kept(r) \subseteq Inputs(r)
<1>1. Inputs(r) \subseteq Files /\ RulesFile \in Files
  BY FilesAssumption DEF Inputs, TypeOK, PruneType
<1> QED
  BY <1>1 DEF Builds, Parses, Unread

\* Whatever a prune leaves in the output directory, also one that fails on its way,
\* is made of inputs that parse and go together, and that their owner saved
\* (pipeline::run, fs::sync).
THEOREM PruneAnalyzes == Spec => []OutputIsAnalyzed
<1>1. PruneInv => OutputIsAnalyzed
  <2> SUFFICES ASSUME PruneInv, NEW f \in Sources, NEW r \in Runs, out[f] = r
               PROVE /\ Prunes(r) /\ f \in Inputs(r)
                     /\ \A g \in Inputs(r) \cup {RulesFile} :
                           /\ Parses(held[r][g])
                           /\ \E i \in DOMAIN saved[g] :
                                 held[r][g] \in {saved[g][i], Formatted(saved[g][i])}
                     /\ \A g, k \in Inputs(r) :
                           Api[g, held[r][g].version] = Api[k, held[r][k].version]
    BY DEF OutputIsAnalyzed, Inputs
  <2>1. Prunes(r) /\ Builds(r) /\ f \in Kept(r)
    BY DEF PruneInv, DirInv, MakerInv
  <2>2. \A g \in Inputs(r) \cup {RulesFile} :
            g \in Files /\ Parses(held[r][g]) /\ held[r][g] # Unread
    BY <2>1, BuildsRead DEF PruneInv
  <2>3. f \in Inputs(r)
    BY <2>1, BuildsRead DEF PruneInv
  <2>4. \A g \in Inputs(r) \cup {RulesFile} : Stems(g, held[r][g])
    BY <2>2 DEF PruneInv, SaveInv
  <2>5. \A g, k \in Inputs(r) : Api[g, held[r][g].version] = Api[k, held[r][k].version]
    BY <2>1 DEF Builds, Analyzes
  <2> QED
    BY <2>1, <2>2, <2>3, <2>4, <2>5 DEF Stems
<1> QED
  BY <1>1, PruneInvHolds, PTL

\* The last run that got the lock, if it ends well, leaves its own result: what
\* others left is not on the manifest, and comes from runs that failed (fs::sync).
THEOREM PruneMirrors == Spec => []LastOneMirrors
<1>1. PruneInv => LastOneMirrors
  BY DEF PruneInv, DirInv, MirrorInv, LastOneMirrors, Published, Ended, Through, Failed
<1> QED
  BY <1>1, PruneInvHolds, PTL

\* And that is the result for the present files, if none of its inputs has changed
\* since it was read.
THEOREM PruneIsCurrent == Spec => []OutputIsCurrent
<1>1. PruneInv => OutputIsCurrent
  <2> SUFFICES ASSUME PruneInv, NEW r \in Runs, Published(r), lastWriter = r, stale[r] = {}
               PROVE LET now == Keeps[disk[RulesFile].version]
                     IN /\ recorded = now
                        /\ \A f \in now : out[f] = r /\ held[r][f].version = disk[f].version
    BY DEF OutputIsCurrent
  <2>1. /\ recorded = Kept(r)
        /\ \A f \in Sources : out[f] = r <=> f \in Kept(r)
    BY DEF PruneInv, DirInv, MirrorInv, Published, Ended, Through
  <2>2. Builds(r)
    BY DEF PruneInv, DirInv, MirrorInv, Published, Ended, Through
  <2>3. \A g \in Inputs(r) \cup {RulesFile} : held[r][g].version = disk[g].version
    <3>1. \A g \in Inputs(r) \cup {RulesFile} : g \in Files /\ held[r][g] # Unread
      BY <2>2, BuildsRead DEF PruneInv
    <3> QED
      BY <3>1 DEF PruneInv, HeldInv
  <2>4. Kept(r) = Keeps[disk[RulesFile].version]
    BY <2>3 DEF Kept
  <2>5. Kept(r) \subseteq Inputs(r) /\ Inputs(r) \subseteq Sources
    BY <2>2, BuildsRead DEF PruneInv, Inputs, TypeOK, PruneType
  <2> QED
    BY <2>1, <2>3, <2>4, <2>5
<1> QED
  BY <1>1, PruneInvHolds, PTL

=============================================================================
