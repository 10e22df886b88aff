-------------------------------- MODULE Sync --------------------------------
(***************************************************************************)
(* fs::sync: several calls mirror their pruned files into one output       *)
(* directory, under an exclusive lock file and a manifest of what the      *)
(* directory owes to earlier calls.  A call may fail at any I/O step or    *)
(* crash between two of them; between calls the directory's owner edits it *)
(* and removes stale locks by hand.                                        *)
(*                                                                         *)
(* An import path names an entry: a name in a directory of the root        *)
(* (EntryOf).  On a case-sensitive file system distinct paths name         *)
(* distinct entries; elsewhere they need not.  A directory may have been   *)
(* replaced by a symlink, to another directory below the root or to one    *)
(* that is not: Away stands for all that is outside.                       *)
(***************************************************************************)
CONSTANTS
    Runs,        \* calls of sync, each made at most once
    Paths,       \* import paths a caller may pass
    ValidPaths,  \* those that valid_import_path accepts
    Dirs, Top,   \* the directories below the root, and the root itself
    Away,        \* the directory that stands for all that is outside the root
    Names,       \* what a directory may have an entry for
    Deep,        \* the names that lie in a directory of their own (sub/x.proto)
    EntryOf,     \* the entry each import path names
    Absent, Foreign, Link,  \* no entry, a file sync did not write, a symlink
    NoRun,       \* nobody holds the lock
    NoTemp,      \* no temporary file
    ManifestTemp \* the temporary file the manifest is renamed from

ASSUME PathsAssumption ==
    /\ ValidPaths \subseteq Paths
    /\ Top \in Dirs /\ Away \notin Dirs
    /\ Deep \subseteq Names
    /\ EntryOf \in [Paths -> (Dirs \cup {Away}) \X Names]
    /\ \A p \in ValidPaths : EntryOf[p][1] # Away

ASSUME ValuesAssumption ==
    /\ Absent # Foreign /\ Absent # Link /\ Foreign # Link
    /\ Runs \cap {Absent, Foreign, Link, NoRun} = {}
    /\ NoTemp # ManifestTemp
    /\ Paths \cap {NoTemp, ManifestTemp} = {}

VARIABLES
    disk,      \* what each entry holds: a run wrote it, or one of the markers
    leads,     \* the directory each one is in the end, symlinks followed
    outside,   \* the deep names whose directory is there, outside the root
    manifest,  \* .pbtrim-manifest: does it parse, and the paths it records
    lock,      \* .pbtrim-lock: the run that created it
    pc,        \* where each call is
    files,     \* the paths each call was given
    todo,      \* the paths its current phase has not handled yet
    old,       \* the manifest entries it read in its preflight
    tmp,       \* its temporary file: the destination it is meant for
    result     \* what it returned

vars == <<disk, leads, outside, manifest, lock, pc, files, todo, old, tmp, result>>

Places == Dirs \cup {Away}
Entries == Places \X Names

Contents == Runs \cup {Absent, Foreign, Link}

PCs == {"idle", "acquire", "preflight", "write", "refuse", "rename", "remove",
        "commit", "publish", "unlock", "done"}

\* The part of a call during which it owns the lock file.
Holding(r) ==
    pc[r] \in {"preflight", "write", "refuse", "rename", "remove", "commit", "publish",
               "unlock"}

Quiet == \A r \in Runs : ~Holding(r)

\* canonicalize: the entry a path leads to once symlinked directories are followed.
Resolve(p) == <<leads[EntryOf[p][1]], EntryOf[p][2]>>

\* starts_with(out_root)
Inside(e) == e[1] # Away

-----------------------------------------------------------------------------
Init ==
    /\ disk \in [Entries -> {Absent, Foreign, Link}]
    /\ leads = [d \in Places |-> d]
    /\ outside \in SUBSET Deep
    /\ \A n \in Deep \ outside : disk[<<Away, n>>] = Absent
    /\ manifest = [ok |-> TRUE, owned |-> {}]
    /\ lock = NoRun
    /\ pc = [r \in Runs |-> "idle"]
    /\ files = [r \in Runs |-> {}]
    /\ todo = [r \in Runs |-> {}]
    /\ old = [r \in Runs |-> {}]
    /\ tmp = [r \in Runs |-> NoTemp]
    /\ result = [r \in Runs |-> "none"]

Goto(r, label) == pc' = [pc EXCEPT ![r] = label]

\* The call is over and its locals are gone; what was passed to one that
\* succeeds is remembered (SuccessIsRecorded asks for it).
Return(r, value) ==
    /\ Goto(r, "done")
    /\ result' = [result EXCEPT ![r] = value]
    /\ files' = [files EXCEPT ![r] = IF value = "ok" THEN @ ELSE {}]
    /\ todo' = [todo EXCEPT ![r] = {}]
    /\ old' = [old EXCEPT ![r] = {}]

\* sync is called with some list of pruned files; no order among them is assumed.
Call(r, F) ==
    /\ pc[r] = "idle"
    /\ files' = [files EXCEPT ![r] = F]
    /\ Goto(r, "acquire")
    /\ UNCHANGED <<disk, leads, outside, manifest, lock, todo, old, tmp, result>>

\* MUTANT of Acquire: create without O_EXCL.
AcquireAnyway(r) ==
    /\ pc[r] = "acquire"
    /\ lock' = r
    /\ Goto(r, "preflight")
    /\ UNCHANGED <<disk, leads, outside, manifest, files, todo, old, tmp, result>>

\* DirLock::acquire creates the lock file, which must not exist.
Acquire(r) ==
    /\ pc[r] = "acquire"
    /\ lock = NoRun
    /\ lock' = r
    /\ Goto(r, "preflight")
    /\ UNCHANGED <<disk, leads, outside, manifest, files, todo, old, tmp, result>>

\* MUTANT of AcquireFails: wait while somebody holds the lock.
AcquireWaits(r) ==
    /\ pc[r] = "acquire"
    /\ lock = NoRun
    /\ Return(r, "err")
    /\ UNCHANGED <<disk, leads, outside, manifest, lock, tmp>>

\* It exists, or cannot be created: the call returns and leaves it alone.
AcquireFails(r) ==
    /\ pc[r] = "acquire"
    /\ Return(r, IF lock = NoRun THEN "err" ELSE "locked")
    /\ UNCHANGED <<disk, leads, outside, manifest, lock, tmp>>

\* MUTANT of Preflight: act on a manifest that does not parse.
PreflightTrusting(r) ==
    /\ pc[r] = "preflight"
    /\ files[r] \subseteq ValidPaths
    /\ old' = [old EXCEPT ![r] = manifest.owned]
    /\ todo' = [todo EXCEPT ![r] = files[r]]
    /\ Goto(r, "write")
    /\ UNCHANGED <<disk, leads, outside, manifest, lock, files, tmp, result>>

\* Every path and the whole manifest are good: the write phase may begin.
Preflight(r) ==
    /\ pc[r] = "preflight"
    /\ files[r] \subseteq ValidPaths
    /\ manifest.ok
    /\ old' = [old EXCEPT ![r] = manifest.owned]
    /\ todo' = [todo EXCEPT ![r] = files[r]]
    /\ Goto(r, "write")
    /\ UNCHANGED <<disk, leads, outside, manifest, lock, files, tmp, result>>

\* The destination's directory is made if need be and resolves below the root;
\* write_atomic fills a temporary file there.
WriteTemp(r, p) ==
    /\ pc[r] = "write"
    /\ p \in todo[r]
    /\ Inside(Resolve(p))
    /\ tmp' = [tmp EXCEPT ![r] = p]
    /\ Goto(r, "rename")
    /\ UNCHANGED <<disk, leads, outside, manifest, lock, files, todo, old, result>>

\* It resolves outside the root: create_dir_all has made it before the check
\* refuses it.  What is left is Fail.
MakeOutside(r, p) ==
    /\ pc[r] = "write"
    /\ p \in todo[r]
    /\ ~Inside(Resolve(p))
    /\ outside' = outside \cup ({EntryOf[p][2]} \cap Deep)
    /\ Goto(r, "refuse")
    /\ UNCHANGED <<disk, leads, manifest, lock, files, todo, old, tmp, result>>

\* MUTANT of Rename: copy the temporary file and leave it.
RenameByCopy(r) ==
    /\ pc[r] = "rename"
    /\ disk' = [disk EXCEPT ![Resolve(tmp[r])] = r]
    /\ todo' = [todo EXCEPT ![r] = @ \ {tmp[r]}]
    /\ Goto(r, "write")
    /\ UNCHANGED <<leads, outside, manifest, lock, files, old, tmp, result>>

\* write_atomic renames it over the destination, whatever sits there.
Rename(r) ==
    /\ pc[r] = "rename"
    /\ disk' = [disk EXCEPT ![Resolve(tmp[r])] = r]
    /\ todo' = [todo EXCEPT ![r] = @ \ {tmp[r]}]
    /\ tmp' = [tmp EXCEPT ![r] = NoTemp]
    /\ Goto(r, "write")
    /\ UNCHANGED <<leads, outside, manifest, lock, files, old, result>>

\* MUTANT of Leftovers: the difference is taken the wrong way round.
LeftoversSwapped(r) == files[r] \ old[r]

\* The removal candidates are the old manifest's paths this run did not write.
Leftovers(r) == old[r] \ files[r]

EndWrites(r) ==
    /\ pc[r] = "write"
    /\ todo[r] = {}
    /\ todo' = [todo EXCEPT ![r] = Leftovers(r)]
    /\ Goto(r, "remove")
    /\ UNCHANGED <<disk, leads, outside, manifest, lock, files, old, tmp, result>>

\* A candidate that is already gone is skipped.
SkipMissing(r, p) ==
    /\ pc[r] = "remove"
    /\ p \in todo[r]
    /\ disk[Resolve(p)] = Absent
    /\ todo' = [todo EXCEPT ![r] = @ \ {p}]
    /\ UNCHANGED <<disk, leads, outside, manifest, lock, pc, files, old, tmp, result>>

\* MUTANT of RemoveOne: the target's resolved directory is not checked.
RemoveAnywhere(r, p) ==
    /\ pc[r] = "remove"
    /\ p \in todo[r]
    /\ disk[Resolve(p)] \notin {Absent, Link}
    /\ disk' = [disk EXCEPT ![Resolve(p)] = Absent]
    /\ todo' = [todo EXCEPT ![r] = @ \ {p}]
    /\ UNCHANGED <<leads, outside, manifest, lock, pc, files, old, tmp, result>>

\* One that is there, is no symlink and resolves below the root is removed.
\* The checks and the removal are one step: nobody else acts under the lock.
RemoveOne(r, p) ==
    /\ pc[r] = "remove"
    /\ p \in todo[r]
    /\ disk[Resolve(p)] \notin {Absent, Link}
    /\ Inside(Resolve(p))
    /\ disk' = [disk EXCEPT ![Resolve(p)] = Absent]
    /\ todo' = [todo EXCEPT ![r] = @ \ {p}]
    /\ UNCHANGED <<leads, outside, manifest, lock, pc, files, old, tmp, result>>

\* MUTANT of EndRemovals: commit with removals outstanding.
EndRemovalsEarly(r) ==
    /\ pc[r] = "remove"
    /\ Goto(r, "commit")
    /\ UNCHANGED <<disk, leads, outside, manifest, lock, files, todo, old, tmp, result>>

EndRemovals(r) ==
    /\ pc[r] = "remove"
    /\ todo[r] = {}
    /\ Goto(r, "commit")
    /\ UNCHANGED <<disk, leads, outside, manifest, lock, files, todo, old, tmp, result>>

\* MUTANTS of Owned: record where the paths lead; record only what is new.
OwnedEntries(r) == {EntryOf[p] : p \in files[r]}
OwnedNew(r) == files[r] \ old[r]

\* The new manifest names the files of this run by their paths.
Owned(r) == files[r]

\* The new manifest is written aside ...
ManifestToTemp(r) ==
    /\ pc[r] = "commit"
    /\ tmp' = [tmp EXCEPT ![r] = ManifestTemp]
    /\ Goto(r, "publish")
    /\ UNCHANGED <<disk, leads, outside, manifest, lock, files, todo, old, result>>

\* ... and renamed into place, last of all: sync returns Ok.
Publish(r) ==
    /\ pc[r] = "publish"
    /\ manifest' = [ok |-> TRUE, owned |-> Owned(r)]
    /\ tmp' = [tmp EXCEPT ![r] = NoTemp]
    /\ result' = [result EXCEPT ![r] = "ok"]
    /\ Goto(r, "unlock")
    /\ UNCHANGED <<disk, leads, outside, lock, files, todo, old>>

\* A check or an I/O call of any phase fails: sync returns Err at once, and
\* drops its guards.  The temporary file is removed, if that succeeds.
Fail(r) ==
    /\ Holding(r) /\ pc[r] # "unlock"
    /\ \E left \in {tmp[r], NoTemp} : tmp' = [tmp EXCEPT ![r] = left]
    /\ result' = [result EXCEPT ![r] = "err"]
    /\ Goto(r, "unlock")
    /\ UNCHANGED <<disk, leads, outside, manifest, lock, files, todo, old>>

\* DirLock::drop removes the lock file by its path, and ignores a failure.
Unlock(r) ==
    /\ pc[r] = "unlock"
    /\ lock' \in {NoRun, lock}
    /\ Return(r, result[r])
    /\ UNCHANGED <<disk, leads, outside, manifest, tmp>>

\* The process dies: its lock and its temporary file stay behind.
Crash(r) ==
    /\ Holding(r) \/ pc[r] = "acquire"
    /\ Return(r, "crashed")
    /\ UNCHANGED <<disk, leads, outside, manifest, lock, tmp>>

-----------------------------------------------------------------------------
(* The directory's owner, who acts while no call holds the lock (the module *)
(* documentation excludes a racing file system).                            *)

\* "remove it if no run is active"
RemoveStaleLock ==
    /\ Quiet
    /\ lock # NoRun
    /\ lock' = NoRun
    /\ UNCHANGED <<disk, leads, outside, manifest, pc, files, todo, old, tmp, result>>

EditEntry(e, c) ==
    /\ Quiet
    /\ leads[e[1]] = e[1]
    /\ disk' = [disk EXCEPT ![e] = c]
    /\ outside' = outside \cup {n \in Deep : e = <<Away, n>> /\ c # Absent}
    /\ UNCHANGED <<leads, manifest, lock, pc, files, todo, old, tmp, result>>

\* A directory other than the root, with what is in it, is replaced by a symlink
\* to another or to one outside the root, or by an empty directory again.  A
\* link to a link is one to where that leads.
SwapDirectory(d, t) ==
    /\ Quiet
    /\ t = d \/ leads[t] = t
    /\ leads' = [c \in Places |-> IF c = d \/ leads[c] = d THEN t ELSE leads[c]]
    /\ disk' = [e \in Entries |-> IF e[1] = d THEN Absent ELSE disk[e]]
    /\ UNCHANGED <<outside, manifest, lock, pc, files, todo, old, tmp, result>>

\* The manifest stops parsing (a merge conflict, an editor), or is restored.
DamageManifest ==
    /\ Quiet
    /\ \E ok \in BOOLEAN : manifest' = [ok |-> ok, owned |-> manifest.owned]
    /\ UNCHANGED <<disk, leads, outside, lock, pc, files, todo, old, tmp, result>>

-----------------------------------------------------------------------------
\* What the process of call r does by itself, as long as it lives.
Step(r) ==
    \/ Acquire(r) \/ AcquireFails(r) \/ Preflight(r)
    \/ \E p \in Paths : WriteTemp(r, p) \/ MakeOutside(r, p)
    \/ Rename(r) \/ EndWrites(r)
    \/ \E p \in Paths : SkipMissing(r, p) \/ RemoveOne(r, p)
    \/ EndRemovals(r) \/ ManifestToTemp(r) \/ Publish(r)
    \/ Fail(r) \/ Unlock(r)

Owner ==
    \/ RemoveStaleLock
    \/ \E e \in Entries, c \in {Absent, Foreign, Link} : EditEntry(e, c)
    \/ \E d \in Dirs \ {Top}, t \in Places : SwapDirectory(d, t)
    \/ DamageManifest

Next ==
    \/ \E r \in Runs : \E F \in SUBSET Paths : Call(r, F)
    \/ \E r \in Runs : Step(r)
    \/ \E r \in Runs : Crash(r)
    \/ Owner

Spec == Init /\ [][Next]_vars

\* A process that lives keeps running.
FairSpec == Spec /\ \A r \in Runs : WF_vars(Step(r))

-----------------------------------------------------------------------------
(* Correctness.                                                            *)

\* Every variable stays in its set.
TypeOK ==
    /\ disk \in [Entries -> Contents]
    /\ leads \in [Places -> Places]
    /\ outside \in SUBSET Deep
    /\ manifest \in [ok : BOOLEAN, owned : SUBSET Paths]
    /\ lock \in Runs \cup {NoRun}
    /\ pc \in [Runs -> PCs]
    /\ files \in [Runs -> SUBSET Paths]
    /\ todo \in [Runs -> SUBSET Paths]
    /\ old \in [Runs -> SUBSET Paths]
    /\ tmp \in [Runs -> Paths \cup {NoTemp, ManifestTemp}]
    /\ result \in [Runs -> {"none", "ok", "err", "locked", "crashed"}]

\* One writer at a time: two calls are never between acquire and drop at once,
\* through crashes, stale locks removed by hand and lock files that could not
\* be deleted (fs.rs, module documentation).
MutualExclusion ==
    \A r, s \in Runs : Holding(r) /\ Holding(s) => r = s

\* The manifest a call read in its preflight is still the one on disk when it
\* replaces it, so no other call's record is lost; and by then its own input
\* and the manifest had passed validation.
NoLostRecord ==
    \A r \in Runs :
        pc[r] \in {"write", "refuse", "rename", "remove", "commit", "publish"} =>
            /\ manifest.ok
            /\ old[r] = manifest.owned
            /\ files[r] \subseteq ValidPaths

\* When sync is about to return Ok the directory mirrors the pruned set: each
\* file of this run is in place with this run's text, the manifest names
\* exactly these files, and nothing else the old manifest named is left.
\* Where two paths lead to one entry the code does not keep to it (the run
\* sync_linked).
MirrorOnSuccess ==
    \A r \in Runs :
        pc[r] = "unlock" /\ result[r] = "ok" =>
            /\ manifest = [ok |-> TRUE, owned |-> files[r]]
            /\ \A p \in files[r] : disk[Resolve(p)] = r
            /\ \A p \in old[r] \ files[r] : disk[Resolve(p)] = Absent

\* A path of the old manifest that this call was not given leads to the same entry.
Shadowed(r, p) == \E q \in old[r] \ files[r] : Resolve(q) = Resolve(p)

\* What it does keep to, on every file system and whatever the symlinks: the
\* mirror is exact but for the files that an outdated path leads to as well.
MirrorUnlessShadowed ==
    \A r \in Runs :
        pc[r] = "unlock" /\ result[r] = "ok" =>
            /\ manifest = [ok |-> TRUE, owned |-> files[r]]
            /\ \A p \in files[r] :
                  Inside(Resolve(p)) /\ (disk[Resolve(p)] = r \/ Shadowed(r, p))
            /\ \A p \in old[r] \ files[r] : disk[Resolve(p)] = Absent

\* Ownership is never forgotten: a file that a successful call has under its
\* own path is, as long as its text is there, named by the manifest on disk -
\* also while later calls run, fail half-way or crash, and whatever is linked
\* where.  A call that did not succeed can leave files that no later call will
\* clean up; so can one that wrote through a symlink which is gone later.
Recorded(e) == \E p \in manifest.owned : EntryOf[p] = e

SuccessIsRecorded ==
    \A r \in Runs : result[r] = "ok" =>
        \A p \in files[r] : disk[EntryOf[p]] = r => Recorded(EntryOf[p])

\* While a call holds the lock, no file outside the root changes; an entry
\* disappears only if a path on the manifest leads to it; an entry is replaced
\* only by a file this call was asked to write and whose path leads there.  Not
\* quite nothing changes outside: create_dir_all comes before the check, so a
\* directory may come up there, but only one that a path of this call needs and
\* that is then refused.
ScopedEffects ==
    [][ ~Quiet =>
          /\ \A e \in Entries : disk'[e] # disk[e] =>
                /\ Inside(e)
                /\ \/ /\ disk'[e] = Absent /\ disk[e] # Link
                      /\ \E p \in manifest.owned : Resolve(p) = e
                   \/ \E r \in Runs : /\ Holding(r) /\ disk'[e] = r
                                      /\ \E p \in files[r] : Resolve(p) = e
          /\ \A n \in Deep : (n \in outside) # (n \in outside') =>
                \E r \in Runs : \E p \in files[r] :
                   /\ pc'[r] = "refuse"
                   /\ Resolve(p) = <<Away, n>> ]_vars

\* A temporary file outlives its call only if the call failed or crashed.
TempsCleaned ==
    \A r \in Runs : tmp[r] # NoTemp =>
        pc[r] \in {"rename", "publish"} \/ result[r] \in {"err", "crashed"}

\* A call never waits for the lock or for another call: it returns, or its
\* process dies.
EveryCallReturns ==
    \A r \in Runs : (pc[r] = "acquire") ~> (pc[r] = "done")

\* sync implements OwnedDir: the writer is the call that holds the lock, the
\* names are the import paths, each to be found where it leads, and those on
\* record are the manifest's.
Writer == IF Quiet THEN NoRun ELSE CHOOSE r \in Runs : Holding(r)

Dir == INSTANCE OwnedDir WITH
           Writers <- Runs,
           NoWriter <- NoRun,
           Names <- Paths,
           Outside <- {e \in Entries : ~Inside(e)},
           where <- [p \in Paths |-> Resolve(p)],
           recorded <- manifest.owned,
           writer <- Writer

ImplementsOwnedDir == Dir!Spec

=============================================================================
