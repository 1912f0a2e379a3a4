------------------------------ MODULE RegistryLock ------------------------------
(***************************************************************************)
(* The lock file of the global registry (storage/repo-manager.ts): processes *)
(* that add their repository to registry.json, or take it out, under the lock *)
(* registry.json.lock, and take the lock of a dead process away under a second lock file, .reclaim,  *)
(* whose own dead owners are removed by looking and then unlinking.          *)
(*                                                                           *)
(* A process is its pid and its token.  A lock file is created empty and     *)
(* written in a second step, which may fail: the process gives up and leaves *)
(* the empty file.  An empty one counts as stale by its age, which is taken  *)
(* to mean that its creator died or gave up: no process takes two minutes    *)
(* (REGISTRY_LOCK_STALE_MS) for that step.                                   *)
(***************************************************************************)
EXTENDS Naturals

CONSTANTS
  Proc,        \* processes, each of which registers or unregisters a repository
  Removes,     \* those of them that unregister theirs
  MaxCrashes,  \* bound: processes that die
  NoOne        \* no owner: the lock file does not exist

ASSUME RegistryAssumption ==
  NoOne \notin Proc /\ Removes \subseteq Proc /\ MaxCrashes \in Nat

VARIABLES
  main,     \* registry.json.lock: its owner, and whether the record is written
  reclaim,  \* registry.json.lock.reclaim, likewise
  locker,   \* where a process is, the dead owner it saw, the registry it read
  entries,  \* registry.json: the processes whose repository has its entry there
  crashes,  \* how many processes died
  lost      \* a process died, or gave up, while the file .reclaim was its own

registryVars == <<main, reclaim, locker, entries, crashes, lost>>

NoFile == [owner |-> NoOne, written |-> FALSE]
Holding == {"writeMain", "locked", "read", "wrote"}
Reclaiming == {"writeReclaim", "look", "compareMain", "unlinkMain", "dropReclaim"}
Waiting == {"wantMain", "wantReclaim", "sawReclaim", "compareReclaim", "unlinkReclaim"}
Place == Holding \union Reclaiming \union Waiting \union {"done", "failed", "dead"}

LockFile == [owner : Proc \union {NoOne}, written : BOOLEAN]
Locker == [pc : Place, seen : Proc \union {NoOne}, copy : SUBSET Proc]

Init ==
  /\ main = NoFile /\ reclaim = NoFile
  /\ locker = [p \in Proc |-> [pc |-> "wantMain", seen |-> NoOne, copy |-> {}]]
  /\ entries = Removes
  /\ crashes = 0 /\ lost = FALSE

At(p, pc) == locker[p].pc = pc
Goto(p, pc) == locker' = [locker EXCEPT ![p].pc = pc]
Dead(p) == At(p, "dead")

\* acquireRegistryLock: fs.open(lockPath, 'wx').
OpenMain(p) ==
  /\ At(p, "wantMain")
  /\ IF main.owner = NoOne
       THEN main' = [owner |-> p, written |-> FALSE] /\ Goto(p, "writeMain")
       ELSE Goto(p, "wantReclaim") /\ UNCHANGED main
  /\ UNCHANGED <<reclaim, entries, crashes, lost>>

WriteMain(p) ==
  /\ At(p, "writeMain")
  /\ \/ main' = [main EXCEPT !.written = TRUE] /\ Goto(p, "locked")
     \/ UNCHANGED main /\ Goto(p, "failed")
  /\ UNCHANGED <<reclaim, entries, crashes, lost>>

\* acquireExclusiveFile(.reclaim)
OpenReclaim(p) ==
  /\ At(p, "wantReclaim")
  /\ IF reclaim.owner = NoOne
       THEN reclaim' = [owner |-> p, written |-> FALSE] /\ Goto(p, "writeReclaim")
       ELSE Goto(p, "sawReclaim") /\ UNCHANGED reclaim
  /\ UNCHANGED <<main, entries, crashes, lost>>

WriteReclaim(p) ==
  /\ At(p, "writeReclaim")
  /\ \/ reclaim' = [reclaim EXCEPT !.written = TRUE] /\ Goto(p, "look") /\ UNCHANGED lost
     \/ lost' = TRUE /\ Goto(p, "failed") /\ UNCHANGED reclaim
  /\ UNCHANGED <<main, entries, crashes>>

\* Mutant: an empty lock file is removed whatever its age.
Verdict_EmptyIsStale(p, file, compare, unlink, keep) ==
  locker' = [locker EXCEPT
    ![p].pc = CASE file.owner # NoOne /\ Dead(file.owner) /\ file.written -> compare
                [] file.owner # NoOne /\ ~file.written -> unlink
                [] OTHER -> keep,
    ![p].seen = file.owner]

\* A dead owner wrote the file, or nobody will write it any more.
Stale(file) ==
  /\ file.owner # NoOne
  /\ Dead(file.owner) \/ (~file.written /\ At(file.owner, "failed"))

\* What to do about a lock file: a dead owner is compared once more before the
\* file is removed, an old empty file is removed at once.
Verdict(p, file, compare, unlink, keep) ==
  locker' = [locker EXCEPT
    ![p].pc = IF ~Stale(file) THEN keep ELSE IF file.written THEN compare ELSE unlink,
    ![p].seen = file.owner]

ReadReclaim(p) ==
  /\ At(p, "sawReclaim")
  /\ Verdict(p, reclaim, "compareReclaim", "unlinkReclaim", "wantReclaim")
  /\ UNCHANGED <<main, reclaim, entries, crashes, lost>>

\* removeRegistryLockIfOwner
CompareReclaim(p) ==
  /\ At(p, "compareReclaim")
  /\ Goto(p, IF reclaim.owner = locker[p].seen THEN "unlinkReclaim" ELSE "wantReclaim")
  /\ UNCHANGED <<main, reclaim, entries, crashes, lost>>

UnlinkReclaim(p) ==
  /\ At(p, "unlinkReclaim")
  /\ reclaim' = NoFile
  /\ Goto(p, "wantReclaim")
  /\ UNCHANGED <<main, entries, crashes, lost>>

\* tryReclaimRegistryLock, once it has the file .reclaim
ReadMain(p) ==
  /\ At(p, "look")
  /\ Verdict(p, main, "compareMain", "unlinkMain", "dropReclaim")
  /\ UNCHANGED <<main, reclaim, entries, crashes, lost>>

CompareMain(p) ==
  /\ At(p, "compareMain")
  /\ Goto(p, IF main.owner = locker[p].seen THEN "unlinkMain" ELSE "dropReclaim")
  /\ UNCHANGED <<main, reclaim, entries, crashes, lost>>

UnlinkMain(p) ==
  /\ At(p, "unlinkMain")
  /\ main' = NoFile
  /\ Goto(p, "dropReclaim")
  /\ UNCHANGED <<reclaim, entries, crashes, lost>>

\* A file is released by its owner's token only.
DropReclaim(p) ==
  /\ At(p, "dropReclaim")
  /\ reclaim' = IF reclaim.owner = p THEN NoFile ELSE reclaim
  /\ Goto(p, "wantMain")
  /\ UNCHANGED <<main, entries, crashes, lost>>

\* REGISTRY_RECLAIM_LOCK_TIMEOUT_MS and REGISTRY_LOCK_TIMEOUT_MS
GiveUp(p) ==
  /\ locker[p].pc \in {"wantMain", "wantReclaim"}
  /\ Goto(p, IF At(p, "wantMain") THEN "failed" ELSE "wantMain")
  /\ UNCHANGED <<main, reclaim, entries, crashes, lost>>

\* Mutant: a registry that cannot be read counts as empty.
ReadRegistry_Empty(p) ==
  /\ At(p, "locked")
  /\ locker' = [locker EXCEPT ![p].pc = "read", ![p].copy = {}]
  /\ UNCHANGED <<main, reclaim, entries, crashes, lost>>

\* withRegistryMutation: readRegistry, writeRegistry (a rename), release.
ReadRegistry(p) ==
  /\ At(p, "locked")
  /\ locker' = [locker EXCEPT ![p].pc = "read", ![p].copy = entries]
  /\ UNCHANGED <<main, reclaim, entries, crashes, lost>>

\* registerRepo replaces or adds an entry, unregisterRepo filters one out.
Updated(p) ==
  IF p \in Removes THEN locker[p].copy \ {p} ELSE locker[p].copy \union {p}

WriteRegistry(p) ==
  /\ At(p, "read")
  /\ entries' = Updated(p)
  /\ Goto(p, "wrote")
  /\ UNCHANGED <<main, reclaim, crashes, lost>>

\* RegistryNameCollisionError, or the registry cannot be read or written.
Refuse(p) ==
  /\ locker[p].pc \in {"locked", "read"}
  /\ Goto(p, "wrote")
  /\ UNCHANGED <<main, reclaim, entries, crashes, lost>>

ReleaseMain(p) ==
  /\ At(p, "wrote")
  /\ main' = IF main.owner = p THEN NoFile ELSE main
  /\ Goto(p, "done")
  /\ UNCHANGED <<reclaim, entries, crashes, lost>>

Crash(p) ==
  /\ crashes < MaxCrashes
  /\ locker[p].pc \in Holding \union Reclaiming
  /\ crashes' = crashes + 1
  /\ lost' = (lost \/ locker[p].pc \in Reclaiming)
  /\ Goto(p, "dead")
  /\ UNCHANGED <<main, reclaim, entries>>

Step(p) ==
  \/ OpenMain(p) \/ WriteMain(p) \/ OpenReclaim(p) \/ WriteReclaim(p)
  \/ ReadReclaim(p) \/ CompareReclaim(p) \/ UnlinkReclaim(p)
  \/ ReadMain(p) \/ CompareMain(p) \/ UnlinkMain(p) \/ DropReclaim(p) \/ GiveUp(p)
  \/ ReadRegistry(p) \/ WriteRegistry(p) \/ Refuse(p) \/ ReleaseMain(p) \/ Crash(p)

Next == \E p \in Proc : Step(p)

Spec == Init /\ [][Next]_registryVars

-----------------------------------------------------------------------------
(* Properties *)

\* Types of the lock files, the processes and the registry.
TypeOK ==
  /\ main \in LockFile /\ reclaim \in LockFile
  /\ locker \in [Proc -> Locker]
  /\ entries \subseteq Proc
  /\ crashes \in Nat /\ lost \in BOOLEAN

\* Two processes are never both in withRegistryMutation, whatever holders of the
\* lock die or give up and however their lock is taken away, unless a reclaimer
\* died or gave up.
RegistryExclusion ==
  ~lost => \A p, q \in Proc :
    locker[p].pc \in Holding /\ locker[q].pc \in Holding => p = q

\* Under the same condition no update of the registry drops an entry that another
\* process added, or brings one back that another took out: a step that changes
\* the registry changes the one entry of the process that writes.
EntriesKept ==
  [][~lost' /\ entries' # entries =>
       \E p \in Proc : At(p, "read") /\ entries' \in {entries \union {p}, entries \ {p}}
    ]_registryVars
=============================================================================
