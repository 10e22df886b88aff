----------------------------- MODULE SyncProofs -----------------------------
(***************************************************************************)
(* What holds of Sync for every set of calls, paths and entries and every  *)
(* assignment of entries to paths, under the assumptions Sync names.       *)
(***************************************************************************)
EXTENDS Sync, TLAPS

-----------------------------------------------------------------------------
(* Types *)

LEMMA InitType == Init => TypeOK
  BY PathsAssumption, ValuesAssumption
  DEF Init, TypeOK, Contents, PCs

\* Each action, under its own step, keeps every variable in its set.
LEMMA NextType == TypeOK /\ [Next]_vars => TypeOK'
<1> SUFFICES ASSUME TypeOK, [Next]_vars PROVE TypeOK'
  OBVIOUS
<1> USE PathsAssumption, ValuesAssumption DEF TypeOK, Contents, PCs
<1>1. CASE UNCHANGED vars
  BY <1>1 DEF vars
<1>2. ASSUME NEW r \in Runs, NEW F \in SUBSET Paths, Call(r, F) PROVE TypeOK'
  BY <1>2 DEF Call, Goto
<1>3. ASSUME NEW r \in Runs, Acquire(r) PROVE TypeOK'
  BY <1>3 DEF Acquire, Goto
<1>4. ASSUME NEW r \in Runs, AcquireFails(r) PROVE TypeOK'
  BY <1>4 DEF AcquireFails, Goto, Return
<1>5. ASSUME NEW r \in Runs, Preflight(r) PROVE TypeOK'
  BY <1>5 DEF Preflight, Goto
<1>6. ASSUME NEW r \in Runs, NEW p \in Paths, WriteTemp(r, p) PROVE TypeOK'
  BY <1>6 DEF WriteTemp, Goto
<1>7. ASSUME NEW r \in Runs, Rename(r) PROVE TypeOK'
  BY <1>7 DEF Rename, Goto
<1>8. ASSUME NEW r \in Runs, EndWrites(r) PROVE TypeOK'
  BY <1>8 DEF EndWrites, Leftovers, Goto
<1>9. ASSUME NEW r \in Runs, NEW p \in Paths, SkipMissing(r, p) PROVE TypeOK'
  BY <1>9 DEF SkipMissing
<1>10. ASSUME NEW r \in Runs, NEW p \in Paths, RemoveOne(r, p) PROVE TypeOK'
  BY <1>10 DEF RemoveOne
<1>11. ASSUME NEW r \in Runs, EndRemovals(r) PROVE TypeOK'
  BY <1>11 DEF EndRemovals, Goto
<1>12. ASSUME NEW r \in Runs, ManifestToTemp(r) PROVE TypeOK'
  BY <1>12 DEF ManifestToTemp, Goto
<1>13. ASSUME NEW r \in Runs, Publish(r) PROVE TypeOK'
  BY <1>13 DEF Publish, Owned, Goto
<1>14. ASSUME NEW r \in Runs, Fail(r) PROVE TypeOK'
  BY <1>14 DEF Fail, Goto
<1>15. ASSUME NEW r \in Runs, Unlock(r) PROVE TypeOK'
  BY <1>15 DEF Unlock, Goto, Return
<1>16. ASSUME NEW r \in Runs, Crash(r) PROVE TypeOK'
  BY <1>16 DEF Crash, Goto, Return
<1>17. CASE Owner
  BY <1>17 DEF Owner, RemoveStaleLock, EditEntry, SwapDirectory,
     DamageManifest
<1>18. ASSUME NEW r \in Runs, NEW p \in Paths, MakeOutside(r, p) PROVE TypeOK'
  BY <1>18 DEF MakeOutside, Goto
<1> QED
  BY <1>1, <1>2, <1>3, <1>4, <1>5, <1>6, <1>7, <1>8, <1>9, <1>10, <1>11,
     <1>12, <1>13, <1>14, <1>15, <1>16, <1>17, <1>18
  DEF Next, Step

\* Every reachable state is well typed: the variables of fs::sync's model
\* never leave their sets.
THEOREM TypeCorrect == Spec => []TypeOK
  BY InitType, NextType, PTL DEF Spec

-----------------------------------------------------------------------------
(* The lock *)

\* Whoever is past acquire and not yet past its drop owns the lock file.
LockInv == \A r \in Runs : Holding(r) => lock = r

LEMMA InitLock == Init => LockInv
  BY DEF Init, LockInv, Holding

LEMMA NextLock == TypeOK /\ LockInv /\ [Next]_vars => LockInv'
<1> SUFFICES ASSUME TypeOK, LockInv, [Next]_vars PROVE LockInv'
  OBVIOUS
<1> USE PathsAssumption, ValuesAssumption DEF TypeOK, LockInv, Holding, PCs, Quiet
<1>1. CASE UNCHANGED vars
  BY <1>1 DEF vars
<1>2. ASSUME NEW r \in Runs, NEW F \in SUBSET Paths, Call(r, F) PROVE LockInv'
  BY <1>2 DEF Call, Goto
<1>3. ASSUME NEW r \in Runs, Acquire(r) PROVE LockInv'
  BY <1>3 DEF Acquire, Goto
<1>4. ASSUME NEW r \in Runs, AcquireFails(r) PROVE LockInv'
  BY <1>4 DEF AcquireFails, Goto, Return
<1>5. ASSUME NEW r \in Runs, Preflight(r) PROVE LockInv'
  BY <1>5 DEF Preflight, Goto
<1>6. ASSUME NEW r \in Runs, NEW p \in Paths, WriteTemp(r, p) PROVE LockInv'
  BY <1>6 DEF WriteTemp, Goto
<1>7. ASSUME NEW r \in Runs, Rename(r) PROVE LockInv'
  BY <1>7 DEF Rename, Goto
<1>8. ASSUME NEW r \in Runs, EndWrites(r) PROVE LockInv'
  BY <1>8 DEF EndWrites, Leftovers, Goto
<1>9. ASSUME NEW r \in Runs, NEW p \in Paths, SkipMissing(r, p) PROVE LockInv'
  BY <1>9 DEF SkipMissing
<1>10. ASSUME NEW r \in Runs, NEW p \in Paths, RemoveOne(r, p) PROVE LockInv'
  BY <1>10 DEF RemoveOne
<1>11. ASSUME NEW r \in Runs, EndRemovals(r) PROVE LockInv'
  BY <1>11 DEF EndRemovals, Goto
<1>12. ASSUME NEW r \in Runs, ManifestToTemp(r) PROVE LockInv'
  BY <1>12 DEF ManifestToTemp, Goto
<1>13. ASSUME NEW r \in Runs, Publish(r) PROVE LockInv'
  BY <1>13 DEF Publish, Owned, Goto
<1>14. ASSUME NEW r \in Runs, Fail(r) PROVE LockInv'
  BY <1>14 DEF Fail, Goto
<1>15. ASSUME NEW r \in Runs, Unlock(r) PROVE LockInv'
  BY <1>15 DEF Unlock, Goto, Return
<1>16. ASSUME NEW r \in Runs, Crash(r) PROVE LockInv'
  BY <1>16 DEF Crash, Goto, Return
<1>17. CASE Owner
  BY <1>17 DEF Owner, RemoveStaleLock, EditEntry, SwapDirectory,
     DamageManifest
<1>18. ASSUME NEW r \in Runs, NEW p \in Paths, MakeOutside(r, p) PROVE LockInv'
  BY <1>18 DEF MakeOutside, Goto
<1> QED
  BY <1>1, <1>2, <1>3, <1>4, <1>5, <1>6, <1>7, <1>8, <1>9, <1>10, <1>11,
     <1>12, <1>13, <1>14, <1>15, <1>16, <1>17, <1>18
  DEF Next, Step

\* One writer at a time: no two calls of sync are ever between
\* DirLock::acquire and the lock's drop together.
THEOREM OneWriter == Spec => []MutualExclusion
<1>1. LockInv => MutualExclusion
  BY DEF LockInv, MutualExclusion
<1> QED
  BY InitType, NextType, InitLock, NextLock, <1>1, PTL DEF Spec

-----------------------------------------------------------------------------
(* The phases of a call *)

LEMMA ResolveIs ==
    ASSUME TypeOK
    PROVE \A p \in Paths : /\ EntryOf[p] \in Entries /\ Resolve(p) \in Entries
                           /\ Resolve(p)[1] = leads[EntryOf[p][1]]
                           /\ Resolve(p)[2] = EntryOf[p][2]
  BY PathsAssumption DEF TypeOK, Resolve, Entries, Places

LEMMA SameWay ==
    ASSUME UNCHANGED leads PROVE \A p \in Paths : Resolve(p)' = Resolve(p)
  BY DEF Resolve

\* A file of this call that is in place, or that an outdated path leads to too.
Kept(r, p) == Inside(Resolve(p)) /\ (disk[Resolve(p)] = r \/ Shadowed(r, p))

\* A removal candidate that has been dealt with.
Gone(p) == disk[Resolve(p)] = Absent

\* What is known of the directory, whoever acts: nothing is left in a directory
\* that is a symlink, and no symlink leads to one.
DirInv ==
    /\ manifest.owned \subseteq ValidPaths
    /\ \A d \in Places : leads[leads[d]] = leads[d]
    /\ \A e \in Entries : leads[e[1]] # e[1] => disk[e] = Absent

\* Until it writes, a call's text is nowhere; while it holds the lock, only
\* where its files go.
FreshInv ==
    \A r \in Runs : \A e \in Entries : disk[e] = r =>
        /\ pc[r] \notin {"idle", "acquire", "preflight"}
        /\ Holding(r) => \E p \in files[r] : Resolve(p) = e

ResultInv ==
    \A r \in Runs :
        pc[r] \notin {"unlock", "done"} => result[r] = "none"

WriteInv ==
    \A r \in Runs : pc[r] \in {"write", "refuse", "rename"} =>
        /\ todo[r] \subseteq files[r]
        /\ \A p \in files[r] \ todo[r] : Kept(r, p)
        /\ pc[r] = "rename" => tmp[r] \in todo[r] /\ Inside(Resolve(tmp[r]))

RemoveInv ==
    \A r \in Runs : pc[r] = "remove" =>
        /\ todo[r] \subseteq old[r] \ files[r]
        /\ \A p \in files[r] : Kept(r, p)
        /\ \A p \in (old[r] \ files[r]) \ todo[r] : Gone(p)

Committing(r) ==
    pc[r] \in {"commit", "publish"} \/ (pc[r] = "unlock" /\ result[r] = "ok")

CommitInv ==
    \A r \in Runs : Committing(r) =>
        /\ \A p \in files[r] : Kept(r, p)
        /\ \A p \in old[r] \ files[r] : Gone(p)
        /\ pc[r] = "unlock" => manifest = [ok |-> TRUE, owned |-> files[r]]

PhaseInv ==
    /\ DirInv /\ NoLostRecord /\ FreshInv /\ ResultInv
    /\ WriteInv /\ RemoveInv /\ CommitInv

IInv == TypeOK /\ LockInv /\ PhaseInv /\ SuccessIsRecorded

LEMMA InitIInv == Init => IInv
<1> SUFFICES ASSUME Init PROVE PhaseInv /\ SuccessIsRecorded
  BY InitType, InitLock DEF IInv
<1> USE PathsAssumption, ValuesAssumption DEF Init
<1>1. DirInv /\ NoLostRecord /\ ResultInv
  <2>1. \A d \in Places : leads[d] = d
    OBVIOUS
  <2>2. \A e \in Entries : e[1] \in Places
    BY DEF Entries
  <2>3. DirInv
    BY <2>1, <2>2 DEF DirInv
  <2> QED
    BY <2>3 DEF NoLostRecord, ResultInv
<1>2. \A r \in Runs : \A e \in Entries : disk[e] # r
  OBVIOUS
<1>3. FreshInv /\ SuccessIsRecorded
  BY <1>2 DEF FreshInv, SuccessIsRecorded
<1>4. WriteInv /\ RemoveInv /\ CommitInv
  BY DEF WriteInv, RemoveInv, CommitInv, Committing
<1> QED
  BY <1>1, <1>3, <1>4 DEF PhaseInv

\* A call that holds the lock is alone: of every other call only the
\* invariants that speak of calls without the lock are at stake.
LEMMA Alone ==
    ASSUME LockInv, NEW r \in Runs, Holding(r), NEW s \in Runs, Holding(s)
    PROVE  s = r
  BY DEF LockInv

\* A file leaves a swapped directory empty, and only valid paths are recorded.
LEMMA NextDirInv == IInv /\ [Next]_vars => DirInv'
<1> SUFFICES ASSUME IInv, [Next]_vars PROVE DirInv'
  OBVIOUS
<1> USE PathsAssumption, ValuesAssumption, Alone
    DEF IInv, PhaseInv, TypeOK, Contents, PCs, DirInv, NoLostRecord,
        Resolve, Holding, Quiet
<1>1. CASE UNCHANGED vars
  BY <1>1 DEF vars
<1>2. ASSUME NEW r \in Runs, NEW F \in SUBSET Paths, Call(r, F) PROVE DirInv'
  BY <1>2 DEF Call, Goto
<1>3. ASSUME NEW r \in Runs, Acquire(r) PROVE DirInv'
  BY <1>3 DEF Acquire, Goto
<1>4. ASSUME NEW r \in Runs, AcquireFails(r) PROVE DirInv'
  BY <1>4 DEF AcquireFails, Goto, Return
<1>5. ASSUME NEW r \in Runs, Preflight(r) PROVE DirInv'
  BY <1>5 DEF Preflight, Goto
<1>6. ASSUME NEW r \in Runs, NEW p \in Paths, WriteTemp(r, p) PROVE DirInv'
  BY <1>6 DEF WriteTemp, Goto
<1>7. ASSUME NEW r \in Runs, Rename(r) PROVE DirInv'
  <2>1. /\ tmp[r] \in Paths /\ UNCHANGED <<leads, manifest>>
        /\ disk' = [disk EXCEPT ![Resolve(tmp[r])] = r]
    BY <1>7 DEF Rename, WriteInv
  <2>2. EntryOf[tmp[r]][1] \in Places /\ leads[Resolve(tmp[r])[1]] = Resolve(tmp[r])[1]
    BY <2>1, ResolveIs DEF Entries
  <2>3. ASSUME NEW e \in Entries, leads[e[1]] # e[1] PROVE disk'[e] = Absent
    BY <2>1, <2>2, <2>3
  <2> QED
    BY <2>1, <2>3
<1>8. ASSUME NEW r \in Runs, EndWrites(r) PROVE DirInv'
  BY <1>8 DEF EndWrites, Leftovers, Goto
<1>9. ASSUME NEW r \in Runs, NEW p \in Paths, SkipMissing(r, p) PROVE DirInv'
  BY <1>9 DEF SkipMissing
<1>10. ASSUME NEW r \in Runs, NEW p \in Paths, RemoveOne(r, p) PROVE DirInv'
  BY <1>10 DEF RemoveOne
<1>11. ASSUME NEW r \in Runs, EndRemovals(r) PROVE DirInv'
  BY <1>11 DEF EndRemovals, Goto
<1>12. ASSUME NEW r \in Runs, ManifestToTemp(r) PROVE DirInv'
  BY <1>12 DEF ManifestToTemp, Goto
<1>13. ASSUME NEW r \in Runs, Publish(r) PROVE DirInv'
  BY <1>13 DEF Publish, Owned, Goto
<1>14. ASSUME NEW r \in Runs, Fail(r) PROVE DirInv'
  BY <1>14 DEF Fail, Goto
<1>15. ASSUME NEW r \in Runs, Unlock(r) PROVE DirInv'
  BY <1>15 DEF Unlock, Goto, Return
<1>16. ASSUME NEW r \in Runs, Crash(r) PROVE DirInv'
  BY <1>16 DEF Crash, Goto, Return
<1>17. CASE Owner
  <2>1. CASE RemoveStaleLock \/ DamageManifest
    BY <2>1 DEF RemoveStaleLock, DamageManifest
  <2>2. ASSUME NEW e \in Entries, NEW c \in {Absent, Foreign, Link}, EditEntry(e, c)
        PROVE  DirInv'
    BY <2>2 DEF EditEntry
  <2>3. ASSUME NEW d \in Dirs \ {Top}, NEW t \in Places, SwapDirectory(d, t)
        PROVE  DirInv'
    <3>1. /\ \A c \in Places : leads'[c] = IF c = d \/ leads[c] = d THEN t ELSE leads[c]
          /\ t = d \/ leads[t] = t
          /\ UNCHANGED manifest
      BY <2>3 DEF SwapDirectory
    <3>2. \A e \in Entries : disk'[e] = IF e[1] = d THEN Absent ELSE disk[e]
      BY <2>3 DEF SwapDirectory
    <3>3. \A c \in Places : leads'[leads'[c]] = leads'[c]
      <4> SUFFICES ASSUME NEW c \in Places PROVE leads'[leads'[c]] = leads'[c]
        OBVIOUS
      <4>1. CASE c = d \/ leads[c] = d
        BY <3>1, <4>1
      <4>2. CASE c # d /\ leads[c] # d
        BY <3>1, <4>2
      <4> QED
        BY <4>1, <4>2
    <3>4. ASSUME NEW e \in Entries, leads'[e[1]] # e[1] PROVE disk'[e] = Absent
      <4>1. e[1] \in Places
        BY DEF Entries
      <4> QED
        BY <3>1, <3>2, <3>4, <4>1
    <3> QED
      BY <3>1, <3>3, <3>4
  <2> QED
    BY <1>17, <2>1, <2>2, <2>3 DEF Owner
<1>18. ASSUME NEW r \in Runs, NEW p \in Paths, MakeOutside(r, p) PROVE DirInv'
  BY <1>18 DEF MakeOutside, Goto
<1> QED
  BY <1>1, <1>2, <1>3, <1>4, <1>5, <1>6, <1>7, <1>8, <1>9, <1>10, <1>11,
     <1>12, <1>13, <1>14, <1>15, <1>16, <1>17, <1>18
  DEF Next, Step

\* The manifest changes only by the hand of the lock's owner.
LEMMA NextNoLostRecord == IInv /\ [Next]_vars => NoLostRecord'
<1> SUFFICES ASSUME IInv, [Next]_vars PROVE NoLostRecord'
  OBVIOUS
<1> USE PathsAssumption, ValuesAssumption, Alone
    DEF IInv, PhaseInv, TypeOK, Contents, PCs, NoLostRecord, Holding, Quiet
<1>1. CASE UNCHANGED vars
  BY <1>1 DEF vars
<1>2. ASSUME NEW r \in Runs, NEW F \in SUBSET Paths, Call(r, F) PROVE NoLostRecord'
  BY <1>2 DEF Call, Goto
<1>3. ASSUME NEW r \in Runs, Acquire(r) PROVE NoLostRecord'
  BY <1>3 DEF Acquire, Goto
<1>4. ASSUME NEW r \in Runs, AcquireFails(r) PROVE NoLostRecord'
  BY <1>4 DEF AcquireFails, Goto, Return
<1>5. ASSUME NEW r \in Runs, Preflight(r) PROVE NoLostRecord'
  BY <1>5 DEF Preflight, Goto
<1>6. ASSUME NEW r \in Runs, NEW p \in Paths, WriteTemp(r, p) PROVE NoLostRecord'
  BY <1>6 DEF WriteTemp, Goto
<1>7. ASSUME NEW r \in Runs, Rename(r) PROVE NoLostRecord'
  BY <1>7 DEF Rename, Goto
<1>8. ASSUME NEW r \in Runs, EndWrites(r) PROVE NoLostRecord'
  BY <1>8 DEF EndWrites, Leftovers, Goto
<1>9. ASSUME NEW r \in Runs, NEW p \in Paths, SkipMissing(r, p) PROVE NoLostRecord'
  BY <1>9 DEF SkipMissing
<1>10. ASSUME NEW r \in Runs, NEW p \in Paths, RemoveOne(r, p) PROVE NoLostRecord'
  BY <1>10 DEF RemoveOne
<1>11. ASSUME NEW r \in Runs, EndRemovals(r) PROVE NoLostRecord'
  BY <1>11 DEF EndRemovals, Goto
<1>12. ASSUME NEW r \in Runs, ManifestToTemp(r) PROVE NoLostRecord'
  BY <1>12 DEF ManifestToTemp, Goto
<1>13. ASSUME NEW r \in Runs, Publish(r) PROVE NoLostRecord'
  BY <1>13 DEF Publish, Owned, Goto
<1>14. ASSUME NEW r \in Runs, Fail(r) PROVE NoLostRecord'
  BY <1>14 DEF Fail, Goto
<1>15. ASSUME NEW r \in Runs, Unlock(r) PROVE NoLostRecord'
  BY <1>15 DEF Unlock, Goto, Return
<1>16. ASSUME NEW r \in Runs, Crash(r) PROVE NoLostRecord'
  BY <1>16 DEF Crash, Goto, Return
<1>17. CASE Owner
  BY <1>17 DEF Owner, RemoveStaleLock, EditEntry, SwapDirectory,
     DamageManifest
<1>18. ASSUME NEW r \in Runs, NEW p \in Paths, MakeOutside(r, p) PROVE NoLostRecord'
  BY <1>18 DEF MakeOutside, Goto
<1> QED
  BY <1>1, <1>2, <1>3, <1>4, <1>5, <1>6, <1>7, <1>8, <1>9, <1>10, <1>11,
     <1>12, <1>13, <1>14, <1>15, <1>16, <1>17, <1>18
  DEF Next, Step

\* A rename puts this call's text at one of its own files.
LEMMA NextFreshInv == IInv /\ [Next]_vars => FreshInv'
<1> SUFFICES ASSUME IInv, [Next]_vars PROVE FreshInv'
  OBVIOUS
<1> USE PathsAssumption, ValuesAssumption, Alone
    DEF IInv, PhaseInv, TypeOK, Contents, PCs, FreshInv, ResultInv,
        WriteInv, Resolve, Holding, Quiet
<1>1. CASE UNCHANGED vars
  BY <1>1 DEF vars
<1>2. ASSUME NEW r \in Runs, NEW F \in SUBSET Paths, Call(r, F) PROVE FreshInv'
  BY <1>2 DEF Call, Goto
<1>3. ASSUME NEW r \in Runs, Acquire(r) PROVE FreshInv'
  BY <1>3 DEF Acquire, Goto
<1>4. ASSUME NEW r \in Runs, AcquireFails(r) PROVE FreshInv'
  BY <1>4 DEF AcquireFails, Goto, Return
<1>5. ASSUME NEW r \in Runs, Preflight(r) PROVE FreshInv'
  BY <1>5 DEF Preflight, Goto
<1>6. ASSUME NEW r \in Runs, NEW p \in Paths, WriteTemp(r, p) PROVE FreshInv'
  BY <1>6 DEF WriteTemp, Goto
<1>7. ASSUME NEW r \in Runs, Rename(r) PROVE FreshInv'
  BY <1>7 DEF Rename, Goto
<1>8. ASSUME NEW r \in Runs, EndWrites(r) PROVE FreshInv'
  BY <1>8 DEF EndWrites, Leftovers, Goto
<1>9. ASSUME NEW r \in Runs, NEW p \in Paths, SkipMissing(r, p) PROVE FreshInv'
  BY <1>9 DEF SkipMissing
<1>10. ASSUME NEW r \in Runs, NEW p \in Paths, RemoveOne(r, p) PROVE FreshInv'
  BY <1>10 DEF RemoveOne
<1>11. ASSUME NEW r \in Runs, EndRemovals(r) PROVE FreshInv'
  BY <1>11 DEF EndRemovals, Goto
<1>12. ASSUME NEW r \in Runs, ManifestToTemp(r) PROVE FreshInv'
  BY <1>12 DEF ManifestToTemp, Goto
<1>13. ASSUME NEW r \in Runs, Publish(r) PROVE FreshInv'
  BY <1>13 DEF Publish, Owned, Goto
<1>14. ASSUME NEW r \in Runs, Fail(r) PROVE FreshInv'
  BY <1>14 DEF Fail, Goto
<1>15. ASSUME NEW r \in Runs, Unlock(r) PROVE FreshInv'
  BY <1>15 DEF Unlock, Goto, Return
<1>16. ASSUME NEW r \in Runs, Crash(r) PROVE FreshInv'
  BY <1>16 DEF Crash, Goto, Return
<1>17. CASE Owner
  BY <1>17 DEF Owner, RemoveStaleLock, EditEntry, SwapDirectory,
     DamageManifest
<1>18. ASSUME NEW r \in Runs, NEW p \in Paths, MakeOutside(r, p) PROVE FreshInv'
  BY <1>18 DEF MakeOutside, Goto
<1> QED
  BY <1>1, <1>2, <1>3, <1>4, <1>5, <1>6, <1>7, <1>8, <1>9, <1>10, <1>11,
     <1>12, <1>13, <1>14, <1>15, <1>16, <1>17, <1>18
  DEF Next, Step

\* No result is set before the lock is dropped.
LEMMA NextResultInv == IInv /\ [Next]_vars => ResultInv'
<1> SUFFICES ASSUME IInv, [Next]_vars PROVE ResultInv'
  OBVIOUS
<1> USE PathsAssumption, ValuesAssumption, Alone
    DEF IInv, PhaseInv, TypeOK, Contents, PCs, ResultInv, Holding
<1>1. CASE UNCHANGED vars
  BY <1>1 DEF vars
<1>2. ASSUME NEW r \in Runs, NEW F \in SUBSET Paths, Call(r, F) PROVE ResultInv'
  BY <1>2 DEF Call, Goto
<1>3. ASSUME NEW r \in Runs, Acquire(r) PROVE ResultInv'
  BY <1>3 DEF Acquire, Goto
<1>4. ASSUME NEW r \in Runs, AcquireFails(r) PROVE ResultInv'
  BY <1>4 DEF AcquireFails, Goto, Return
<1>5. ASSUME NEW r \in Runs, Preflight(r) PROVE ResultInv'
  BY <1>5 DEF Preflight, Goto
<1>6. ASSUME NEW r \in Runs, NEW p \in Paths, WriteTemp(r, p) PROVE ResultInv'
  BY <1>6 DEF WriteTemp, Goto
<1>7. ASSUME NEW r \in Runs, Rename(r) PROVE ResultInv'
  BY <1>7 DEF Rename, Goto
<1>8. ASSUME NEW r \in Runs, EndWrites(r) PROVE ResultInv'
  BY <1>8 DEF EndWrites, Leftovers, Goto
<1>9. ASSUME NEW r \in Runs, NEW p \in Paths, SkipMissing(r, p) PROVE ResultInv'
  BY <1>9 DEF SkipMissing
<1>10. ASSUME NEW r \in Runs, NEW p \in Paths, RemoveOne(r, p) PROVE ResultInv'
  BY <1>10 DEF RemoveOne
<1>11. ASSUME NEW r \in Runs, EndRemovals(r) PROVE ResultInv'
  BY <1>11 DEF EndRemovals, Goto
<1>12. ASSUME NEW r \in Runs, ManifestToTemp(r) PROVE ResultInv'
  BY <1>12 DEF ManifestToTemp, Goto
<1>13. ASSUME NEW r \in Runs, Publish(r) PROVE ResultInv'
  BY <1>13 DEF Publish, Owned, Goto
<1>14. ASSUME NEW r \in Runs, Fail(r) PROVE ResultInv'
  BY <1>14 DEF Fail, Goto
<1>15. ASSUME NEW r \in Runs, Unlock(r) PROVE ResultInv'
  BY <1>15 DEF Unlock, Goto, Return
<1>16. ASSUME NEW r \in Runs, Crash(r) PROVE ResultInv'
  BY <1>16 DEF Crash, Goto, Return
<1>17. CASE Owner
  BY <1>17 DEF Owner, RemoveStaleLock, EditEntry, SwapDirectory,
     DamageManifest
<1>18. ASSUME NEW r \in Runs, NEW p \in Paths, MakeOutside(r, p) PROVE ResultInv'
  BY <1>18 DEF MakeOutside, Goto
<1> QED
  BY <1>1, <1>2, <1>3, <1>4, <1>5, <1>6, <1>7, <1>8, <1>9, <1>10, <1>11,
     <1>12, <1>13, <1>14, <1>15, <1>16, <1>17, <1>18
  DEF Next, Step

\* What has been renamed into place stays there while the rest is written.
LEMMA NextWriteInv == IInv /\ [Next]_vars => WriteInv'
<1> SUFFICES ASSUME IInv, [Next]_vars PROVE WriteInv'
  OBVIOUS
<1> USE PathsAssumption, ValuesAssumption, Alone
    DEF IInv, PhaseInv, TypeOK, Contents, PCs, DirInv, WriteInv,
        NoLostRecord, Kept, Shadowed, Resolve, Holding, Quiet
<1>1. CASE UNCHANGED vars
  BY <1>1 DEF vars
<1>2. ASSUME NEW r \in Runs, NEW F \in SUBSET Paths, Call(r, F) PROVE WriteInv'
  BY <1>2 DEF Call, Goto
<1>3. ASSUME NEW r \in Runs, Acquire(r) PROVE WriteInv'
  BY <1>3 DEF Acquire, Goto
<1>4. ASSUME NEW r \in Runs, AcquireFails(r) PROVE WriteInv'
  BY <1>4 DEF AcquireFails, Goto, Return
<1>5. ASSUME NEW r \in Runs, Preflight(r) PROVE WriteInv'
  BY <1>5 DEF Preflight, Goto
<1>6. ASSUME NEW r \in Runs, NEW p \in Paths, WriteTemp(r, p) PROVE WriteInv'
  BY <1>6 DEF WriteTemp, Goto
<1>7. ASSUME NEW r \in Runs, Rename(r) PROVE WriteInv'
  <2>1. /\ tmp[r] \in Paths /\ UNCHANGED <<leads, old, files>>
        /\ disk' = [disk EXCEPT ![Resolve(tmp[r])] = r]
        /\ todo' = [todo EXCEPT ![r] = todo[r] \ {tmp[r]}]
        /\ pc' = [pc EXCEPT ![r] = "write"]
    BY <1>7 DEF Rename, Goto
  <2>2. \A p \in Paths : Resolve(p)' = Resolve(p) /\ Resolve(p) \in Entries
    BY <2>1, ResolveIs, SameWay
  <2>3. todo[r] \subseteq files[r] /\ Inside(Resolve(tmp[r]))
    BY <1>7 DEF Rename
  <2>4. ASSUME NEW p \in files[r] \ (todo[r] \ {tmp[r]}) PROVE Kept(r, p)'
    <3>1. p = tmp[r] \/ Kept(r, p)
      BY <1>7 DEF Rename
    <3>2. p \in Paths /\ disk \in [Entries -> Contents] /\ \A q \in old[r] : q \in Paths
      OBVIOUS
    <3> HIDE DEF Resolve, IInv
    <3> QED
      BY <2>1, <2>2, <2>3, <3>1, <3>2
  <2>5. ASSUME NEW s \in Runs, pc'[s] \in {"write", "refuse", "rename"} PROVE s = r
    BY <1>7, <2>1, <2>5 DEF Rename
  <2> HIDE DEF Resolve, Kept
  <2> QED
    BY <2>1, <2>3, <2>4, <2>5
<1>8. ASSUME NEW r \in Runs, EndWrites(r) PROVE WriteInv'
  BY <1>8 DEF EndWrites, Leftovers, Goto
<1>9. ASSUME NEW r \in Runs, NEW p \in Paths, SkipMissing(r, p) PROVE WriteInv'
  BY <1>9 DEF SkipMissing
<1>10. ASSUME NEW r \in Runs, NEW p \in Paths, RemoveOne(r, p) PROVE WriteInv'
  BY <1>10 DEF RemoveOne
<1>11. ASSUME NEW r \in Runs, EndRemovals(r) PROVE WriteInv'
  BY <1>11 DEF EndRemovals, Goto
<1>12. ASSUME NEW r \in Runs, ManifestToTemp(r) PROVE WriteInv'
  BY <1>12 DEF ManifestToTemp, Goto
<1>13. ASSUME NEW r \in Runs, Publish(r) PROVE WriteInv'
  BY <1>13 DEF Publish, Owned, Goto
<1>14. ASSUME NEW r \in Runs, Fail(r) PROVE WriteInv'
  BY <1>14 DEF Fail, Goto
<1>15. ASSUME NEW r \in Runs, Unlock(r) PROVE WriteInv'
  BY <1>15 DEF Unlock, Goto, Return
<1>16. ASSUME NEW r \in Runs, Crash(r) PROVE WriteInv'
  BY <1>16 DEF Crash, Goto, Return
<1>17. CASE Owner
  BY <1>17 DEF Owner, RemoveStaleLock, EditEntry, SwapDirectory,
     DamageManifest
<1>18. ASSUME NEW r \in Runs, NEW p \in Paths, MakeOutside(r, p) PROVE WriteInv'
  BY <1>18 DEF MakeOutside, Goto
<1> QED
  BY <1>1, <1>2, <1>3, <1>4, <1>5, <1>6, <1>7, <1>8, <1>9, <1>10, <1>11,
     <1>12, <1>13, <1>14, <1>15, <1>16, <1>17, <1>18
  DEF Next, Step

\* Removing a candidate leaves this call's files alone but where it leads to one
\* of them, and other removed candidates removed in any case.
LEMMA NextRemoveInv == IInv /\ [Next]_vars => RemoveInv'
<1> SUFFICES ASSUME IInv, [Next]_vars PROVE RemoveInv'
  OBVIOUS
<1> USE PathsAssumption, ValuesAssumption, Alone
    DEF IInv, PhaseInv, TypeOK, Contents, PCs, DirInv, WriteInv, RemoveInv,
        NoLostRecord, Kept, Shadowed, Gone, Resolve, Holding, Quiet
<1>1. CASE UNCHANGED vars
  BY <1>1 DEF vars
<1>2. ASSUME NEW r \in Runs, NEW F \in SUBSET Paths, Call(r, F) PROVE RemoveInv'
  BY <1>2 DEF Call, Goto
<1>3. ASSUME NEW r \in Runs, Acquire(r) PROVE RemoveInv'
  BY <1>3 DEF Acquire, Goto
<1>4. ASSUME NEW r \in Runs, AcquireFails(r) PROVE RemoveInv'
  BY <1>4 DEF AcquireFails, Goto, Return
<1>5. ASSUME NEW r \in Runs, Preflight(r) PROVE RemoveInv'
  BY <1>5 DEF Preflight, Goto
<1>6. ASSUME NEW r \in Runs, NEW p \in Paths, WriteTemp(r, p) PROVE RemoveInv'
  BY <1>6 DEF WriteTemp, Goto
<1>7. ASSUME NEW r \in Runs, Rename(r) PROVE RemoveInv'
  BY <1>7 DEF Rename, Goto
<1>8. ASSUME NEW r \in Runs, EndWrites(r) PROVE RemoveInv'
  <2>1. /\ pc' = [pc EXCEPT ![r] = "remove"] /\ pc[r] = "write"
        /\ todo' = [todo EXCEPT ![r] = old[r] \ files[r]] /\ todo[r] = {}
        /\ UNCHANGED <<disk, leads, old, files>>
    BY <1>8 DEF EndWrites, Leftovers, Goto
  <2>2. ASSUME NEW s \in Runs, pc'[s] = "remove" PROVE s = r
    BY <2>1, <2>2
  <2>3. \A p \in files[r] : Kept(r, p)
    <3> HIDE DEF Kept
    <3> QED
      BY <2>1
  <2>4. ASSUME NEW p \in files[r] PROVE Kept(r, p)'
    <3>1. Resolve(p)' = Resolve(p) /\ Inside(Resolve(p))
      BY <2>1, <2>3
    <3>2. disk[Resolve(p)] = r \/ \E q \in old[r] \ files[r] : Resolve(q) = Resolve(p)
      BY <2>3
    <3>3. \A q : Resolve(q)' = Resolve(q)
      BY <2>1
    <3> HIDE DEF Resolve, IInv, TypeOK
    <3> QED
      BY <2>1, <3>1, <3>2, <3>3 DEF Inside
  <2>5. todo'[r] = old[r] \ files[r]
    BY <2>1
  <2> HIDE DEF Kept, Gone
  <2> QED
    BY <2>1, <2>2, <2>4, <2>5
<1>9. ASSUME NEW r \in Runs, NEW p \in Paths, SkipMissing(r, p) PROVE RemoveInv'
  <2>1. /\ pc[r] = "remove" /\ disk[Resolve(p)] = Absent
        /\ todo' = [todo EXCEPT ![r] = todo[r] \ {p}]
        /\ UNCHANGED <<disk, leads, pc, old, files>>
    BY <1>9 DEF SkipMissing
  <2>2. ASSUME NEW s \in Runs, pc[s] = "remove" PROVE s = r
    BY <2>1, <2>2
  <2>3. /\ todo[r] \subseteq old[r] \ files[r]
        /\ \A q \in files[r] : Kept(r, q)
        /\ \A q \in (old[r] \ files[r]) \ todo[r] : Gone(q)
        /\ Gone(p)
    BY <2>1
  <2>4. \A q : Kept(r, q)' = Kept(r, q) /\ Gone(q)' = Gone(q)
    BY <2>1
  <2> HIDE DEF Kept, Gone
  <2> QED
    BY <2>1, <2>2, <2>3, <2>4
<1>10. ASSUME NEW r \in Runs, NEW p \in Paths, RemoveOne(r, p) PROVE RemoveInv'
  <2> SUFFICES ASSUME NEW s \in Runs, pc'[s] = "remove"
               PROVE  /\ todo'[s] \subseteq old'[s] \ files'[s]
                      /\ \A q \in files'[s] : Kept(s, q)'
                      /\ \A q \in (old'[s] \ files'[s]) \ todo'[s] : Gone(q)'
    BY DEF RemoveInv
  <2>1. s = r
    BY <1>10 DEF RemoveOne, Holding
  <2>2. p \in todo[r] /\ todo[r] \subseteq old[r] \ files[r] /\ Resolve(p) \in Entries
    BY <1>10, ResolveIs DEF RemoveOne, RemoveInv
  <2>3. /\ disk' = [disk EXCEPT ![Resolve(p)] = Absent]
        /\ todo'[r] = todo[r] \ {p}
        /\ UNCHANGED <<leads, old, files>>
    BY <1>10 DEF RemoveOne
  <2>4. \A q \in Paths : Resolve(q)' = Resolve(q) /\ Resolve(q) \in Entries
    BY <2>3, ResolveIs, SameWay
  <2>5. ASSUME NEW q \in files[r] PROVE Kept(r, q)'
    <3>1. Kept(r, q) /\ q \in Paths
      BY <1>10 DEF RemoveOne, RemoveInv
    <3>2. CASE Resolve(q) = Resolve(p)
      <4>1. Shadowed(r, q)'
        BY <2>2, <2>3, <2>4, <3>1, <3>2 DEF Shadowed
      <4> QED
        BY <2>4, <3>1, <4>1 DEF Kept
    <3>3. CASE Resolve(q) # Resolve(p)
      <4>1. disk'[Resolve(q)] = disk[Resolve(q)]
        BY <2>2, <2>3, <2>4, <3>1, <3>3
      <4>2. Shadowed(r, q) => Shadowed(r, q)'
        BY <2>3, <2>4, <3>1 DEF Shadowed
      <4> QED
        BY <2>4, <3>1, <4>1, <4>2 DEF Kept
    <3> QED
      BY <3>2, <3>3
  <2>6. ASSUME NEW q \in (old[r] \ files[r]) \ (todo[r] \ {p}) PROVE Gone(q)'
    <3>1. q = p \/ Gone(q)
      BY <1>10 DEF RemoveOne, RemoveInv
    <3> QED
      BY <2>2, <2>3, <2>4, <3>1 DEF Gone
  <2> QED
    BY <2>1, <2>2, <2>3, <2>5, <2>6
<1>11. ASSUME NEW r \in Runs, EndRemovals(r) PROVE RemoveInv'
  BY <1>11 DEF EndRemovals, Goto
<1>12. ASSUME NEW r \in Runs, ManifestToTemp(r) PROVE RemoveInv'
  BY <1>12 DEF ManifestToTemp, Goto
<1>13. ASSUME NEW r \in Runs, Publish(r) PROVE RemoveInv'
  BY <1>13 DEF Publish, Owned, Goto
<1>14. ASSUME NEW r \in Runs, Fail(r) PROVE RemoveInv'
  BY <1>14 DEF Fail, Goto
<1>15. ASSUME NEW r \in Runs, Unlock(r) PROVE RemoveInv'
  BY <1>15 DEF Unlock, Goto, Return
<1>16. ASSUME NEW r \in Runs, Crash(r) PROVE RemoveInv'
  BY <1>16 DEF Crash, Goto, Return
<1>17. CASE Owner
  BY <1>17 DEF Owner, RemoveStaleLock, EditEntry, SwapDirectory,
     DamageManifest
<1>18. ASSUME NEW r \in Runs, NEW p \in Paths, MakeOutside(r, p) PROVE RemoveInv'
  BY <1>18 DEF MakeOutside, Goto
<1> QED
  BY <1>1, <1>2, <1>3, <1>4, <1>5, <1>6, <1>7, <1>8, <1>9, <1>10, <1>11,
     <1>12, <1>13, <1>14, <1>15, <1>16, <1>17, <1>18
  DEF Next, Step

\* Both phases' outcomes last until the call returns.
LEMMA NextCommitInv == IInv /\ [Next]_vars => CommitInv'
<1> SUFFICES ASSUME IInv, [Next]_vars PROVE CommitInv'
  OBVIOUS
<1> USE PathsAssumption, ValuesAssumption, Alone
    DEF IInv, PhaseInv, TypeOK, Contents, PCs, DirInv, RemoveInv, CommitInv,
        Committing, Kept, Shadowed, Gone, Resolve, Holding, Quiet
<1>1. CASE UNCHANGED vars
  BY <1>1 DEF vars
<1>2. ASSUME NEW r \in Runs, NEW F \in SUBSET Paths, Call(r, F) PROVE CommitInv'
  BY <1>2 DEF Call, Goto
<1>3. ASSUME NEW r \in Runs, Acquire(r) PROVE CommitInv'
  BY <1>3 DEF Acquire, Goto
<1>4. ASSUME NEW r \in Runs, AcquireFails(r) PROVE CommitInv'
  BY <1>4 DEF AcquireFails, Goto, Return
<1>5. ASSUME NEW r \in Runs, Preflight(r) PROVE CommitInv'
  BY <1>5 DEF Preflight, Goto
<1>6. ASSUME NEW r \in Runs, NEW p \in Paths, WriteTemp(r, p) PROVE CommitInv'
  BY <1>6 DEF WriteTemp, Goto
<1>7. ASSUME NEW r \in Runs, Rename(r) PROVE CommitInv'
  BY <1>7 DEF Rename, Goto
<1>8. ASSUME NEW r \in Runs, EndWrites(r) PROVE CommitInv'
  BY <1>8 DEF EndWrites, Leftovers, Goto
<1>9. ASSUME NEW r \in Runs, NEW p \in Paths, SkipMissing(r, p) PROVE CommitInv'
  BY <1>9 DEF SkipMissing
<1>10. ASSUME NEW r \in Runs, NEW p \in Paths, RemoveOne(r, p) PROVE CommitInv'
  BY <1>10 DEF RemoveOne
<1>11. ASSUME NEW r \in Runs, EndRemovals(r) PROVE CommitInv'
  <2> SUFFICES ASSUME NEW s \in Runs, Committing(s)'
               PROVE  /\ \A p \in files[s] : Kept(s, p)
                      /\ \A p \in old[s] \ files[s] : Gone(p)
                      /\ pc'[s] # "unlock"
    BY <1>11 DEF EndRemovals, Goto, CommitInv, Kept, Shadowed, Gone, Resolve
  <2>1. s = r
    BY <1>11 DEF EndRemovals, Goto, Committing, Holding
  <2> QED
    BY <1>11, <2>1 DEF EndRemovals, Goto, RemoveInv
<1>12. ASSUME NEW r \in Runs, ManifestToTemp(r) PROVE CommitInv'
  BY <1>12 DEF ManifestToTemp, Goto
<1>13. ASSUME NEW r \in Runs, Publish(r) PROVE CommitInv'
  <2> SUFFICES ASSUME NEW s \in Runs, Committing(s)'
               PROVE  /\ \A p \in files[s] : Kept(s, p)
                      /\ \A p \in old[s] \ files[s] : Gone(p)
                      /\ pc'[s] = "unlock" =>
                           manifest' = [ok |-> TRUE, owned |-> files[s]]
    BY <1>13 DEF Publish, Owned, Goto
  <2>1. s = r
    BY <1>13 DEF Publish, Owned, Goto
  <2> QED
    BY <1>13, <2>1 DEF Publish, Owned
<1>14. ASSUME NEW r \in Runs, Fail(r) PROVE CommitInv'
  BY <1>14 DEF Fail, Goto
<1>15. ASSUME NEW r \in Runs, Unlock(r) PROVE CommitInv'
  BY <1>15 DEF Unlock, Goto, Return
<1>16. ASSUME NEW r \in Runs, Crash(r) PROVE CommitInv'
  BY <1>16 DEF Crash, Goto, Return
<1>17. CASE Owner
  BY <1>17 DEF Owner, RemoveStaleLock, EditEntry, SwapDirectory,
     DamageManifest
<1>18. ASSUME NEW r \in Runs, NEW p \in Paths, MakeOutside(r, p) PROVE CommitInv'
  BY <1>18 DEF MakeOutside, Goto
<1> QED
  BY <1>1, <1>2, <1>3, <1>4, <1>5, <1>6, <1>7, <1>8, <1>9, <1>10, <1>11,
     <1>12, <1>13, <1>14, <1>15, <1>16, <1>17, <1>18
  DEF Next, Step

\* Publishing a manifest forgets no entry that still holds recorded text.
LEMMA NextSuccessIsRecorded == IInv /\ [Next]_vars => SuccessIsRecorded'
<1> SUFFICES ASSUME IInv, [Next]_vars PROVE SuccessIsRecorded'
  OBVIOUS
<1> USE PathsAssumption, ValuesAssumption, Alone
    DEF IInv, PhaseInv, TypeOK, Contents, PCs, SuccessIsRecorded,
        NoLostRecord, FreshInv, ResultInv, WriteInv, RemoveInv, CommitInv,
        Committing, Kept, Gone, Recorded, Resolve, Holding, Quiet
<1>1. CASE UNCHANGED vars
  BY <1>1 DEF vars
<1>2. ASSUME NEW r \in Runs, NEW F \in SUBSET Paths, Call(r, F) PROVE SuccessIsRecorded'
  BY <1>2 DEF Call, Goto
<1>3. ASSUME NEW r \in Runs, Acquire(r) PROVE SuccessIsRecorded'
  BY <1>3 DEF Acquire, Goto
<1>4. ASSUME NEW r \in Runs, AcquireFails(r) PROVE SuccessIsRecorded'
  BY <1>4 DEF AcquireFails, Goto, Return
<1>5. ASSUME NEW r \in Runs, Preflight(r) PROVE SuccessIsRecorded'
  BY <1>5 DEF Preflight, Goto
<1>6. ASSUME NEW r \in Runs, NEW p \in Paths, WriteTemp(r, p) PROVE SuccessIsRecorded'
  BY <1>6 DEF WriteTemp, Goto
<1>7. ASSUME NEW r \in Runs, Rename(r) PROVE SuccessIsRecorded'
  <2>1. /\ UNCHANGED <<manifest, files, result>> /\ result[r] = "none"
        /\ disk' = [disk EXCEPT ![Resolve(tmp[r])] = r]
    BY <1>7 DEF Rename, Goto
  <2> SUFFICES ASSUME NEW s \in Runs, result[s] = "ok", NEW p \in files[s],
                      disk'[EntryOf[p]] = s
               PROVE  \E q \in manifest.owned : EntryOf[q] = EntryOf[p]
    BY <2>1
  <2>2. s # r /\ EntryOf[p] \in Entries
    BY <2>1, ResolveIs
  <2>3. disk[EntryOf[p]] = s
    BY <2>1, <2>2
  <2> QED
    BY <2>3
<1>8. ASSUME NEW r \in Runs, EndWrites(r) PROVE SuccessIsRecorded'
  BY <1>8 DEF EndWrites, Leftovers, Goto
<1>9. ASSUME NEW r \in Runs, NEW p \in Paths, SkipMissing(r, p) PROVE SuccessIsRecorded'
  BY <1>9 DEF SkipMissing
<1>10. ASSUME NEW r \in Runs, NEW p \in Paths, RemoveOne(r, p) PROVE SuccessIsRecorded'
  BY <1>10 DEF RemoveOne
<1>11. ASSUME NEW r \in Runs, EndRemovals(r) PROVE SuccessIsRecorded'
  BY <1>11 DEF EndRemovals, Goto
<1>12. ASSUME NEW r \in Runs, ManifestToTemp(r) PROVE SuccessIsRecorded'
  BY <1>12 DEF ManifestToTemp, Goto
<1>13. ASSUME NEW r \in Runs, Publish(r) PROVE SuccessIsRecorded'
  <2>1. /\ UNCHANGED <<disk, files>> /\ manifest' = [ok |-> TRUE, owned |-> files[r]]
        /\ result' = [result EXCEPT ![r] = "ok"]
        /\ pc[r] = "publish"
    BY <1>13 DEF Publish, Owned, Goto
  <2>2. old[r] = manifest.owned /\ \A q \in old[r] \ files[r] : Gone(q)
    BY <2>1
  <2> SUFFICES ASSUME NEW s \in Runs, result'[s] = "ok", NEW p \in files[s],
                      disk[EntryOf[p]] = s
               PROVE  \E q \in files[r] : EntryOf[q] = EntryOf[p]
    BY <2>1
  <2>3. CASE s = r
    BY <2>3
  <2>4. CASE s # r
    <3>1. PICK q \in manifest.owned : EntryOf[q] = EntryOf[p]
      BY <2>1, <2>4
    <3>2. q \in Paths /\ EntryOf[q] \in Entries /\ disk[EntryOf[q]] # Absent
      BY <3>1, ResolveIs
    <3>3. leads[EntryOf[q][1]] = EntryOf[q][1]
      BY <3>2 DEF DirInv
    <3>4. Resolve(q) = EntryOf[q]
      BY <3>2, <3>3 DEF Entries
    <3>5. ~Gone(q)
      BY <3>2, <3>4
    <3> QED
      BY <2>2, <3>1, <3>5
  <2> QED
    BY <2>3, <2>4
<1>14. ASSUME NEW r \in Runs, Fail(r) PROVE SuccessIsRecorded'
  BY <1>14 DEF Fail, Goto
<1>15. ASSUME NEW r \in Runs, Unlock(r) PROVE SuccessIsRecorded'
  BY <1>15 DEF Unlock, Goto, Return
<1>16. ASSUME NEW r \in Runs, Crash(r) PROVE SuccessIsRecorded'
  BY <1>16 DEF Crash, Goto, Return
<1>17. CASE Owner
  <2>1. /\ UNCHANGED <<files, result>> /\ manifest'.owned = manifest.owned
        /\ \A e \in Entries : disk'[e] \in Runs => disk'[e] = disk[e]
    BY <1>17 DEF Owner, RemoveStaleLock, EditEntry, SwapDirectory, DamageManifest, Entries
  <2>2. \A p \in Paths : EntryOf[p] \in Entries
    BY ResolveIs
  <2> QED
    BY <2>1, <2>2
<1>18. ASSUME NEW r \in Runs, NEW p \in Paths, MakeOutside(r, p) PROVE SuccessIsRecorded'
  BY <1>18 DEF MakeOutside, Goto
<1> QED
  BY <1>1, <1>2, <1>3, <1>4, <1>5, <1>6, <1>7, <1>8, <1>9, <1>10, <1>11,
     <1>12, <1>13, <1>14, <1>15, <1>16, <1>17, <1>18
  DEF Next, Step

-----------------------------------------------------------------------------
(* What follows *)

LEMMA NextIInv == IInv /\ [Next]_vars => IInv'
  BY NextType, NextLock, NextDirInv, NextNoLostRecord, NextFreshInv,
     NextResultInv, NextWriteInv, NextRemoveInv, NextCommitInv,
     NextSuccessIsRecorded DEF IInv, PhaseInv

LEMMA Inductive == Spec => []IInv
  BY InitIInv, NextIInv, PTL DEF Spec

\* The manifest sync read in its preflight is still the one on disk when it
\* replaces it, and everything had been validated before the first write.
THEOREM NoRecordIsLost == Spec => []NoLostRecord
<1>1. IInv => NoLostRecord
  BY DEF IInv, PhaseInv
<1> QED
  BY <1>1, Inductive, PTL

\* A file written by a successful sync stays on the manifest for as long as
\* its text is there, whatever fails or crashes later, however paths map to
\* directory entries and whatever directories are linked.
THEOREM OwnershipIsKept == Spec => []SuccessIsRecorded
<1>1. IInv => SuccessIsRecorded
  BY DEF IInv
<1> QED
  BY <1>1, Inductive, PTL

\* Whatever the file system folds and the symlinks join, sync returns Ok only
\* when the record names exactly its files, nothing an outdated path leads to is
\* left, and each of its files is in place but where such a path leads too.
THEOREM SuccessMirrors == Spec => []MirrorUnlessShadowed
<1>1. IInv => MirrorUnlessShadowed
  <2> SUFFICES ASSUME IInv, NEW r \in Runs, pc[r] = "unlock", result[r] = "ok"
               PROVE  /\ manifest = [ok |-> TRUE, owned |-> files[r]]
                      /\ \A p \in files[r] : Kept(r, p)
                      /\ \A p \in old[r] \ files[r] : Gone(p)
    BY DEF MirrorUnlessShadowed, Kept, Gone
  <2> QED
    BY DEF IInv, PhaseInv, CommitInv, Committing
<1> QED
  BY <1>1, Inductive, PTL

-----------------------------------------------------------------------------
(* Temporary files *)

LEMMA InitTemps == Init => TempsCleaned
  BY DEF Init, TempsCleaned

\* A temporary file is either about to be renamed, or of a call that failed.
LEMMA NextTemps == IInv /\ TempsCleaned /\ [Next]_vars => TempsCleaned'
<1> SUFFICES ASSUME IInv, TempsCleaned, [Next]_vars PROVE TempsCleaned'
  OBVIOUS
<1> USE ValuesAssumption DEF IInv, PhaseInv, ResultInv, TypeOK, PCs, TempsCleaned
<1>1. CASE UNCHANGED vars
  BY <1>1 DEF vars
<1>2. ASSUME NEW r \in Runs, NEW F \in SUBSET Paths, Call(r, F) PROVE TempsCleaned'
  BY <1>2 DEF Call, Goto
<1>3. ASSUME NEW r \in Runs, Acquire(r) PROVE TempsCleaned'
  BY <1>3 DEF Acquire, Goto
<1>4. ASSUME NEW r \in Runs, AcquireFails(r) PROVE TempsCleaned'
  BY <1>4 DEF AcquireFails, Goto, Return
<1>5. ASSUME NEW r \in Runs, Preflight(r) PROVE TempsCleaned'
  BY <1>5 DEF Preflight, Goto
<1>6. ASSUME NEW r \in Runs, NEW p \in Paths, WriteTemp(r, p) PROVE TempsCleaned'
  BY <1>6 DEF WriteTemp, Goto
<1>7. ASSUME NEW r \in Runs, Rename(r) PROVE TempsCleaned'
  BY <1>7 DEF Rename, Goto
<1>8. ASSUME NEW r \in Runs, EndWrites(r) PROVE TempsCleaned'
  BY <1>8 DEF EndWrites, Leftovers, Goto
<1>9. ASSUME NEW r \in Runs, NEW p \in Paths, SkipMissing(r, p) PROVE TempsCleaned'
  BY <1>9 DEF SkipMissing
<1>10. ASSUME NEW r \in Runs, NEW p \in Paths, RemoveOne(r, p) PROVE TempsCleaned'
  BY <1>10 DEF RemoveOne
<1>11. ASSUME NEW r \in Runs, EndRemovals(r) PROVE TempsCleaned'
  BY <1>11 DEF EndRemovals, Goto
<1>12. ASSUME NEW r \in Runs, ManifestToTemp(r) PROVE TempsCleaned'
  BY <1>12 DEF ManifestToTemp, Goto
<1>13. ASSUME NEW r \in Runs, Publish(r) PROVE TempsCleaned'
  BY <1>13 DEF Publish, Owned, Goto
<1>14. ASSUME NEW r \in Runs, Fail(r) PROVE TempsCleaned'
  BY <1>14 DEF Fail, Goto
<1>15. ASSUME NEW r \in Runs, Unlock(r) PROVE TempsCleaned'
  BY <1>15 DEF Unlock, Goto, Return
<1>16. ASSUME NEW r \in Runs, Crash(r) PROVE TempsCleaned'
  BY <1>16 DEF Crash, Goto, Return
<1>17. CASE Owner
  BY <1>17 DEF Owner, RemoveStaleLock, EditEntry, SwapDirectory,
     DamageManifest
<1>18. ASSUME NEW r \in Runs, NEW p \in Paths, MakeOutside(r, p) PROVE TempsCleaned'
  BY <1>18 DEF MakeOutside, Goto
<1> QED
  BY <1>1, <1>2, <1>3, <1>4, <1>5, <1>6, <1>7, <1>8, <1>9, <1>10, <1>11,
     <1>12, <1>13, <1>14, <1>15, <1>16, <1>17, <1>18
  DEF Next, Step

\* write_atomic and its guard: a call that returned Ok, or that never wrote,
\* leaves no temporary file behind.
THEOREM NoStrayTemps == Spec => []TempsCleaned
  BY Inductive, InitTemps, NextTemps, PTL DEF Spec

-----------------------------------------------------------------------------
(* What one step may do to the directory *)

\* What ScopedEffects lets a step do to an entry, and to a name outside.
EntryScoped(e) ==
    disk'[e] # disk[e] =>
        /\ Inside(e)
        /\ \/ /\ disk'[e] = Absent /\ disk[e] # Link
              /\ \E p \in manifest.owned : Resolve(p) = e
           \/ \E r \in Runs : /\ Holding(r) /\ disk'[e] = r
                              /\ \E p \in files[r] : Resolve(p) = e

NameScoped(n) ==
    (n \in outside) # (n \in outside') =>
        \E r \in Runs : \E p \in files[r] :
           /\ pc'[r] = "refuse"
           /\ Resolve(p) = <<Away, n>>

LEMMA NextEntryScoped ==
    ASSUME IInv, [Next]_vars, ~Quiet, NEW e \in Entries PROVE EntryScoped(e)
<1> SUFFICES ASSUME disk'[e] # disk[e] PROVE EntryScoped(e)
  BY DEF EntryScoped
<1> USE DEF IInv
<1>1. ASSUME NEW r \in Runs, Rename(r) PROVE EntryScoped(e)
  <2>1. tmp[r] \in todo[r] /\ Inside(Resolve(tmp[r])) /\ todo[r] \subseteq files[r]
    BY <1>1 DEF Rename, PhaseInv, WriteInv
  <2>2. e = Resolve(tmp[r]) /\ disk'[e] = r
    BY <1>1 DEF Rename, TypeOK
  <2> QED
    BY <1>1, <2>1, <2>2 DEF Rename, Holding, EntryScoped
<1>2. ASSUME NEW r \in Runs, NEW p \in Paths, RemoveOne(r, p) PROVE EntryScoped(e)
  <2>1. p \in manifest.owned
    BY <1>2 DEF RemoveOne, PhaseInv, RemoveInv, NoLostRecord
  <2>2. e = Resolve(p) /\ disk'[e] = Absent
    BY <1>2 DEF RemoveOne, TypeOK
  <2> QED
    BY <1>2, <2>1, <2>2 DEF RemoveOne, EntryScoped
<1>3. ~Owner
  BY DEF Owner, RemoveStaleLock, EditEntry, SwapDirectory, DamageManifest
<1>4. \/ \E r \in Runs : Rename(r)
      \/ \E r \in Runs, p \in Paths : RemoveOne(r, p)
  BY <1>3 DEF Next, Step, vars, Call, Acquire, AcquireFails, Preflight,
     WriteTemp, MakeOutside, EndWrites, SkipMissing, EndRemovals, ManifestToTemp,
     Publish, Fail, Unlock, Crash
<1> QED
  BY <1>1, <1>2, <1>4

LEMMA NextNameScoped ==
    ASSUME IInv, [Next]_vars, ~Quiet, NEW n \in Deep PROVE NameScoped(n)
<1> SUFFICES ASSUME (n \in outside) # (n \in outside') PROVE NameScoped(n)
  BY DEF NameScoped
<1>1. ~Owner
  BY DEF Owner, RemoveStaleLock, EditEntry, SwapDirectory, DamageManifest
<1>2. \E r \in Runs, p \in Paths : MakeOutside(r, p)
  BY <1>1 DEF Next, Step, vars, Call, Acquire, AcquireFails, Preflight,
     WriteTemp, Rename, EndWrites, SkipMissing, RemoveOne, EndRemovals,
     ManifestToTemp, Publish, Fail, Unlock, Crash
<1>3. PICK r \in Runs, p \in Paths : MakeOutside(r, p)
  BY <1>2
<1>4. p \in files[r] /\ pc'[r] = "refuse"
  BY <1>3 DEF MakeOutside, Goto, IInv, TypeOK, PhaseInv, WriteInv
<1>5. Resolve(p) = <<Away, n>>
  <2>1. n = EntryOf[p][2] /\ ~Inside(Resolve(p))
    BY <1>3 DEF MakeOutside
  <2> QED
    BY <2>1 DEF Inside, Resolve
<1> QED
  BY <1>4, <1>5 DEF NameScoped

\* While a call holds the lock, only files below the root change: one goes only
\* where a recorded path leads, one comes only where a path of this call leads;
\* and a directory made outside is one the refused path of a call needs.
THEOREM EffectsAreScoped == Spec => ScopedEffects
<1>1. IInv /\ [Next]_vars =>
         (~Quiet => /\ \A e \in Entries : EntryScoped(e)
                    /\ \A n \in Deep : NameScoped(n))
  BY NextEntryScoped, NextNameScoped
<1> QED
  BY <1>1, Inductive, PTL DEF Spec, ScopedEffects, EntryScoped, NameScoped

-----------------------------------------------------------------------------
(* Refinement *)

LEMMA WriterHolds ==
    ASSUME LockInv, NEW r \in Runs, Holding(r) PROVE Writer = r
<1>1. ~Quiet
  BY DEF Quiet
<1>2. \A s \in Runs : Holding(s) => s = r
  BY DEF LockInv
<1> QED
  BY <1>1, <1>2 DEF Writer

LEMMA WriterHoldsNext ==
    ASSUME LockInv', NEW r \in Runs, Holding(r)' PROVE Writer' = r
<1>1. ~Quiet'
  BY DEF Quiet
<1>2. \A s \in Runs : Holding(s)' => s = r
  BY DEF LockInv
<1> QED
  BY <1>1, <1>2 DEF Writer

\* As long as the same calls hold the lock the writer is the same.
LEMMA SameWriter ==
    ASSUME LockInv, LockInv', \A r \in Runs : Holding(r)' <=> Holding(r)
    PROVE  Writer' = Writer
<1>1. CASE Quiet
  BY <1>1 DEF Writer, Quiet
<1>2. CASE ~Quiet
  <2>1. PICK r \in Runs : Holding(r)
    BY <1>2 DEF Quiet
  <2> QED
    BY <2>1, WriterHolds, WriterHoldsNext
<1> QED
  BY <1>1, <1>2

LEMMA InitDir == Init => Dir!Init
<1> SUFFICES ASSUME Init PROVE Dir!Init
  OBVIOUS
<1>1. Quiet
  BY DEF Init, Quiet, Holding
<1>2. manifest.owned = {}
  BY DEF Init
<1>3. \A e \in Entries : disk[e] \notin Runs
  BY ValuesAssumption DEF Init
<1> QED
  BY <1>1, <1>2, <1>3 DEF Dir!Init, Writer

LEMMA NextDir ==
    ASSUME IInv, IInv', [Next]_vars
    PROVE  [Dir!Next]_(Dir!vars)
<1> USE PathsAssumption, ValuesAssumption DEF IInv
<1>w. ASSUME UNCHANGED leads
      PROVE  [p \in Paths |-> Resolve(p)]' = [p \in Paths |-> Resolve(p)]
  BY <1>w DEF Resolve
<1>1. ASSUME UNCHANGED <<disk, leads, manifest>>, \A s \in Runs : Holding(s)' <=> Holding(s)
      PROVE  UNCHANGED Dir!vars
  BY <1>1, <1>w, SameWriter DEF Dir!vars
<1>2. CASE UNCHANGED vars
  BY <1>1, <1>2 DEF vars, Holding
<1>3. ASSUME NEW r \in Runs, NEW F \in SUBSET Paths, Call(r, F)
      PROVE  UNCHANGED Dir!vars
  BY <1>1, <1>3 DEF Call, Goto, Holding, TypeOK
<1>4. ASSUME NEW r \in Runs, Acquire(r) PROVE Dir!Begin
  <2>1. Quiet
    BY <1>4 DEF Acquire, Quiet, LockInv
  <2>2. Holding(r)'
    BY <1>4 DEF Acquire, Goto, Holding, TypeOK
  <2>3. Writer = NoRun /\ Writer' = r
    BY <2>1, <2>2, WriterHoldsNext DEF Writer
  <2> QED
    BY <1>4, <1>w, <2>3 DEF Acquire, Dir!Begin
<1>5. ASSUME NEW r \in Runs, AcquireFails(r) PROVE UNCHANGED Dir!vars
  BY <1>1, <1>5 DEF AcquireFails, Goto, Return, Holding, TypeOK
<1>6. ASSUME NEW r \in Runs, Preflight(r) PROVE UNCHANGED Dir!vars
  BY <1>1, <1>6 DEF Preflight, Goto, Holding, TypeOK
<1>7. ASSUME NEW r \in Runs, NEW p \in Paths, WriteTemp(r, p)
      PROVE  UNCHANGED Dir!vars
  BY <1>1, <1>7 DEF WriteTemp, Goto, Holding, TypeOK
<1>20. ASSUME NEW r \in Runs, NEW p \in Paths, MakeOutside(r, p)
       PROVE  UNCHANGED Dir!vars
  BY <1>1, <1>20 DEF MakeOutside, Goto, Holding, TypeOK
<1>8. ASSUME NEW r \in Runs, Rename(r)
      PROVE  \E p \in Paths : Dir!Put(p)
  <2>1. Holding(r) /\ Holding(r)'
    BY <1>8 DEF Rename, Goto, Holding, TypeOK
  <2>2. Writer = r /\ Writer' = r
    BY <2>1, WriterHolds, WriterHoldsNext
  <2>3. tmp[r] \in Paths /\ Resolve(tmp[r]) \in Entries /\ Inside(Resolve(tmp[r]))
    BY <1>8, ResolveIs DEF Rename, PhaseInv, WriteInv, TypeOK
  <2>4. disk' = [disk EXCEPT ![Resolve(tmp[r])] = r] /\ UNCHANGED <<leads, manifest>>
    BY <1>8 DEF Rename
  <2>5. Dir!Put(tmp[r])
    BY <1>w, <2>2, <2>3, <2>4, ValuesAssumption DEF Dir!Put
  <2> QED
    BY <2>3, <2>5
<1>9. ASSUME NEW r \in Runs, EndWrites(r) PROVE UNCHANGED Dir!vars
  BY <1>1, <1>9 DEF EndWrites, Leftovers, Goto, Holding, TypeOK
<1>10. ASSUME NEW r \in Runs, NEW p \in Paths, SkipMissing(r, p)
       PROVE  UNCHANGED Dir!vars
  BY <1>1, <1>10 DEF SkipMissing, Holding, TypeOK
<1>11. ASSUME NEW r \in Runs, NEW p \in Paths, RemoveOne(r, p) PROVE Dir!Take(p)
  <2>1. Holding(r) /\ Holding(r)'
    BY <1>11 DEF RemoveOne, Holding
  <2>2. Writer = r /\ Writer' = r
    BY <2>1, WriterHolds, WriterHoldsNext
  <2>3. p \in manifest.owned
    BY <1>11 DEF RemoveOne, PhaseInv, RemoveInv, NoLostRecord
  <2>4. /\ Resolve(p) \in Entries /\ Inside(Resolve(p)) /\ disk[Resolve(p)] # Link
        /\ disk' = [disk EXCEPT ![Resolve(p)] = Absent] /\ UNCHANGED <<leads, manifest>>
    BY <1>11, ResolveIs DEF RemoveOne
  <2> QED
    BY <1>w, <2>2, <2>3, <2>4, ValuesAssumption DEF Dir!Take
<1>12. ASSUME NEW r \in Runs, EndRemovals(r) PROVE UNCHANGED Dir!vars
  BY <1>1, <1>12 DEF EndRemovals, Goto, Holding, TypeOK
<1>13. ASSUME NEW r \in Runs, ManifestToTemp(r) PROVE UNCHANGED Dir!vars
  BY <1>1, <1>13 DEF ManifestToTemp, Goto, Holding, TypeOK
<1>14. ASSUME NEW r \in Runs, Publish(r) PROVE Dir!Commit
  <2>1. Holding(r) /\ Holding(r)'
    BY <1>14 DEF Publish, Owned, Goto, Holding, TypeOK
  <2>2. Writer = r /\ Writer' = r
    BY <2>1, WriterHolds, WriterHoldsNext
  <2>3. /\ \A p \in files[r] : Kept(r, p)
        /\ \A p \in old[r] \ files[r] : Gone(p)
        /\ old[r] = manifest.owned /\ files[r] \in SUBSET Paths
    BY <1>14 DEF Publish, PhaseInv, CommitInv, Committing, NoLostRecord, TypeOK
  <2>4. \A m \in manifest.owned \ files[r] : m \in Paths /\ disk[Resolve(m)] = Absent
    BY <2>3 DEF Gone, TypeOK
  <2>5. \A p \in files[r] :
           p \in Paths /\ (disk[Resolve(p)] = r
                             \/ \E m \in manifest.owned \ files[r] : Resolve(m) = Resolve(p))
    BY <2>3 DEF Kept, Shadowed, TypeOK
  <2>6. \A e \in Entries : disk[e] = r => \E p \in files[r] : p \in Paths /\ Resolve(p) = e
    BY <1>14, <2>1, <2>3 DEF PhaseInv, FreshInv
  <2>7. manifest'.owned = files[r] /\ UNCHANGED <<disk, leads>>
    BY <1>14 DEF Publish, Owned
  <2>8. r # NoRun
    BY ValuesAssumption
  <2> QED
    BY <1>w, <2>2, <2>3, <2>4, <2>5, <2>6, <2>7, <2>8 DEF Dir!Commit, Dir!Outdated
<1>15. ASSUME NEW r \in Runs, Fail(r) PROVE UNCHANGED Dir!vars
  BY <1>1, <1>15 DEF Fail, Goto, Holding, TypeOK
<1>16. ASSUME NEW r \in Runs, Holding(r), pc' = [pc EXCEPT ![r] = "done"],
              UNCHANGED <<disk, leads, manifest>>
       PROVE  Dir!End
  <2>1. \A s \in Runs : ~Holding(s)'
    BY <1>16, Alone DEF Holding, TypeOK
  <2>2. Writer = r /\ Writer' = NoRun
    BY <1>16, <2>1, WriterHolds DEF Writer, Quiet
  <2> QED
    BY <1>16, <1>w, <2>2, ValuesAssumption DEF Dir!End
<1>17. ASSUME NEW r \in Runs, Unlock(r) PROVE Dir!End
  BY <1>16, <1>17 DEF Unlock, Return, Goto, Holding
<1>18. ASSUME NEW r \in Runs, Crash(r) PROVE Dir!End \/ UNCHANGED Dir!vars
  <2>1. CASE Holding(r)
    BY <1>16, <1>18, <2>1 DEF Crash, Return, Goto
  <2>2. CASE ~Holding(r)
    BY <1>1, <1>18, <2>2 DEF Crash, Return, Goto, Holding, TypeOK
  <2> QED
    BY <2>1, <2>2
<1>19. CASE Owner
  <2>1. Quiet /\ Quiet'
    BY <1>19 DEF Owner, RemoveStaleLock, EditEntry, SwapDirectory,
       DamageManifest,
       Quiet, Holding
  <2>2. Writer = NoRun /\ Writer' = NoRun
    BY <2>1 DEF Writer
  <2>3. manifest'.owned = manifest.owned
    BY <1>19 DEF Owner, RemoveStaleLock, EditEntry, SwapDirectory,
       DamageManifest
  <2>4. \A e \in Entries : disk'[e] # disk[e] => disk'[e] \notin Runs
    BY <1>19 DEF Owner, RemoveStaleLock, EditEntry, SwapDirectory,
       DamageManifest,
       TypeOK, Entries
  <2> QED
    BY <2>2, <2>3, <2>4 DEF Dir!OwnerEdits, Dir!Next
<1> QED
  BY <1>2, <1>3, <1>4, <1>5, <1>6, <1>7, <1>8, <1>9, <1>10, <1>11, <1>12,
     <1>13,
     <1>14, <1>15, <1>17, <1>18, <1>19, <1>20 DEF Next, Step, Dir!Next

\* sync implements the abstract directory: every behaviour of Sync is, through
\* the mapping, one of OwnedDir, on every file system and with any symlinks.
THEOREM SyncImplementsOwnedDir == Spec => ImplementsOwnedDir
<1>1. IInv /\ IInv' /\ [Next]_vars => [Dir!Next]_(Dir!vars)
  BY NextDir
<1> QED
  BY <1>1, InitDir, Inductive, PTL DEF Spec, ImplementsOwnedDir, Dir!Spec

=============================================================================
