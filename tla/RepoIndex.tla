-------------------------------- MODULE RepoIndex --------------------------------
(***************************************************************************)
(* The index of one repository on disk, the analyses that rebuild it and a   *)
(* backend (LocalBackend) that serves it:                                    *)
(*  - `ontoindex analyze' (cli/analyze.ts) takes .ontoindex/analyze.lock; a  *)
(*    worker of the HTTP server does not, its server admits one at a time,   *)
(*    so an analysis of each kind may run beside the other;                  *)
(*  - runFullAnalysis (core/run-analyze.ts) reads the commit, scans the      *)
(*    working tree, removes the database, builds a new one and then writes   *)
(*    meta.json and the registry entry;                                      *)
(*  - ensureRepoInitialized (mcp/local/local-backend-repo-runtime.ts) opens  *)
(*    the database read-only and opens it again when meta.json has changed.  *)
(*                                                                           *)
(* Analysis n is a process of its own; n is also its pid, the token of its   *)
(* lock, the database file it creates and the time stamp `indexedAt' that it *)
(* writes.  Database 0 and stamp 0 are the index there is at the start.      *)
(* Initially that index is complete and of the commit that is checked out,   *)
(* and possibly analysis 0 crashed before it touched it, so that its lock    *)
(* file is left.  The short opening of the old database for cached           *)
(* embeddings is left out.  What went wrong, or what the code does not       *)
(* exclude, is recorded in `upsets' for the properties.                      *)
(***************************************************************************)
EXTENDS Naturals, FiniteSets

CONSTANTS
  MaxAnalyses, \* bound: analyses
  Commits,     \* commits of the repository (bound)
  Writers,     \* who analyses: "cli" processes, workers of the "server"
  Upsets,      \* bound: the sets of upsets that happen in one behaviour
  None         \* no file, no lock, nothing open

ASSUME IndexAssumption ==
  /\ MaxAnalyses \in Nat /\ Commits # {}
  /\ Writers \subseteq {"cli", "server"}
  /\ None \notin Nat

Analyses == 1..MaxAnalyses

VARIABLES
  head,     \* the commit that is checked out
  disk,     \* what the storage directory and the registry say
  file,     \* the database files, the removed ones too
  run,      \* the analyses
  backend,  \* the repo handle and the pool entry of a backend
  upsets    \* "fault": an analysis crashed or failed
            \* "checkout": another commit was checked out while one was read
            \* "overlap": a worker of the server and a CLI analysis at once
            \* "unlinked": the lock of another process than the dead owner went
            \* "refresh": a handle was replaced while its old database is open
            \* "timeout": a changed database could not be closed

vars == <<head, disk, file, run, backend, upsets>>

Db == Analyses \union {0}
Ended == {"ended", "reported", "complete", "crashed"}
Writing == {"loading", "loaded", "saved", "registered"}
Holding == Writing \union
  {"creating", "locked", "uptodate", "read", "scanned", "removed", "closed"}

NewRun == [pc |-> "off", kind |-> "none", seen |-> None, second |-> FALSE, commit |-> None,
           tree |-> None, meta |-> 0, db |-> None, failed |-> FALSE]
\* What a process knew is gone when it ends.
Ending(n, pc) == [run EXCEPT ![n] = [NewRun EXCEPT !.pc = pc]]
Failed(n) ==
  [run EXCEPT ![n] = [NewRun EXCEPT !.pc = "closed", !.kind = run[n].kind, !.failed = TRUE]]

\* An upset is recorded when it happens.
Note(upset, happens) ==
  /\ upsets' = IF happens THEN upsets \union {upset} ELSE upsets
  /\ upsets' \in Upsets

Init ==
  /\ head = CHOOSE c \in Commits : TRUE
  /\ upsets \in Upsets \cap {{}, {"fault"}}
  /\ disk = [db |-> 0, commit |-> head, stamp |-> 0, registered |-> 0,
             lock |-> IF upsets = {} THEN None ELSE 0, written |-> upsets # {}]
  /\ file = [d \in Db |-> [tree |-> head, full |-> d = 0, wal |-> FALSE]]
  /\ run = [n \in Analyses |-> NewRun]
  /\ backend = [pc |-> "idle", stamp |-> 0, read |-> 0, open |-> None, orphan |-> FALSE]

Alive(n) == n \in Analyses /\ run[n].pc \notin Ended \union {"off"}
At(n, pc) == run[n].pc = pc
Goto(n, pc) == run' = [run EXCEPT ![n].pc = pc]
Beside(kind) == \E m \in Analyses : run[m].pc \in Holding /\ run[m].kind # kind

\* Mutant: the database is not locked while the rows are loaded.
WriteLocked_AfterLoad(d) ==
  \E n \in Analyses : run[n].pc \in Writing \ {"loading"} /\ run[n].db = d

\* LadybugDB's file lock: a process that writes a database holds it exclusively.
WriteLocked(d) == \E n \in Analyses : run[n].pc \in Writing /\ run[n].db = d

-----------------------------------------------------------------------------
(* acquireAnalyzeLock *)

\* Another commit is checked out.  An analysis reads the working tree until its
\* rows are loaded (streamAllCSVsToDisk reads the files again).
Commit ==
  /\ \E c \in Commits \ {head} : head' = c
  /\ Note("checkout", \E n \in Analyses : run[n].pc \in {"read", "scanned", "removed", "loading"})
  /\ UNCHANGED <<disk, file, run, backend>>

\* The server's repo lock admits one worker; analyze.lock is for the CLI only.
Start(n) ==
  /\ At(n, "off") /\ (n > 1 => ~At(n - 1, "off"))
  /\ \E kind \in Writers :
       /\ kind = "server" => \A m \in Analyses : run[m].kind # "server"
       /\ run' = [run EXCEPT ![n].pc = IF kind = "cli" THEN "start" ELSE "locked",
                             ![n].kind = kind]
       /\ Note("overlap", kind = "server" /\ Beside("server"))
  /\ UNCHANGED <<head, disk, file, backend>>

\* fs.open(lockPath, 'wx'), and the record is written afterwards.
CreateLock(n) ==
  /\ At(n, "start")
  /\ IF disk.lock = None
       THEN /\ disk' = [disk EXCEPT !.lock = n, !.written = FALSE] /\ Goto(n, "creating")
            /\ Note("overlap", Beside("cli"))
       ELSE Goto(n, "found") /\ UNCHANGED <<disk, upsets>>
  /\ UNCHANGED <<head, file, backend>>

\* (A failing write ends the process and leaves the empty file: Crash.)
WriteLock(n) ==
  /\ At(n, "creating")
  /\ disk' = [disk EXCEPT !.written = (disk.lock = n) \/ @]
  /\ Goto(n, "locked")
  /\ UNCHANGED <<head, file, backend, upsets>>

\* Mutant: the owner's process is not looked at.
ReadLock_AnyOwner(n) ==
  /\ At(n, "found")
  /\ IF disk.lock # None /\ disk.written
       THEN run' = [run EXCEPT ![n].pc = "reclaim", ![n].seen = disk.lock]
       ELSE run' = Ending(n, "ended")
  /\ UNCHANGED <<head, disk, file, backend, upsets>>

\* The record names a dead process: it is removed and a second attempt made.
\* Every other content, an empty one too, is an analysis that runs.
ReadLock(n) ==
  /\ At(n, "found")
  /\ IF disk.lock # None /\ disk.written /\ ~Alive(disk.lock)
       THEN run' = [run EXCEPT ![n].pc = "reclaim", ![n].seen = disk.lock]
       ELSE run' = Ending(n, "ended")
  /\ UNCHANGED <<head, disk, file, backend, upsets>>

\* removeAnalyzeLockIfOwner compares the record and then unlinks the path.
Retried(n) ==
  IF run[n].second THEN Ending(n, "ended")
  ELSE [run EXCEPT ![n].pc = "start", ![n].second = TRUE, ![n].seen = None]
CompareLock(n) ==
  /\ At(n, "reclaim")
  /\ run' = IF disk.lock = run[n].seen THEN [run EXCEPT ![n].pc = "unlink"] ELSE Retried(n)
  /\ UNCHANGED <<head, disk, file, backend, upsets>>

UnlinkLock(n) ==
  /\ At(n, "unlink")
  /\ disk' = [disk EXCEPT !.lock = None]
  /\ run' = Retried(n)
  /\ Note("unlinked", disk.lock \notin {None, run[n].seen})
  /\ UNCHANGED <<head, file, backend>>

\* release(), which compares the token; a worker reports to its server.
Release(n) ==
  /\ At(n, "closed")
  /\ disk' = [disk EXCEPT !.lock = IF @ = n THEN None ELSE @]
  /\ run' = Ending(n, IF run[n].failed \/ run[n].kind = "cli" THEN "ended" ELSE "reported")
  /\ UNCHANGED <<head, file, backend, upsets>>

-----------------------------------------------------------------------------
(* runFullAnalysis *)

\* The commit that is checked out and meta.json are read.  The early return is
\* taken when they agree, without --force.
ReadCommit(n) ==
  /\ At(n, "locked")
  /\ \/ /\ disk.commit = head
        /\ run' = [run EXCEPT ![n].pc = "uptodate", ![n].commit = head, ![n].meta = disk.stamp]
     \/ run' = [run EXCEPT ![n].pc = "read", ![n].commit = head]
  /\ UNCHANGED <<head, disk, file, backend, upsets>>

\* The early return registers the meta.json that was read.
Reregister(n) ==
  /\ At(n, "uptodate")
  /\ disk' = [disk EXCEPT !.registered = run[n].meta]
  /\ Goto(n, "closed")
  /\ UNCHANGED <<head, file, backend, upsets>>

\* The pipeline reads the working tree as it then is.
Scan(n) ==
  /\ At(n, "read")
  /\ run' = [run EXCEPT ![n].pc = "scanned", ![n].tree = head]
  /\ UNCHANGED <<head, disk, file, backend, upsets>>

\* The files of the old database go; who has them open keeps them.
RemoveDb(n) ==
  /\ At(n, "scanned")
  /\ disk' = [disk EXCEPT !.db = None]
  /\ Goto(n, "removed")
  /\ UNCHANGED <<head, file, backend, upsets>>

\* initLbug creates the database.
CreateDb(n) ==
  /\ At(n, "removed") /\ disk.db = None
  /\ disk' = [disk EXCEPT !.db = n]
  /\ file' = [file EXCEPT ![n] = [tree |-> run[n].tree, full |-> FALSE, wal |-> TRUE]]
  /\ run' = [run EXCEPT ![n].pc = "loading", ![n].db = n]
  /\ UNCHANGED <<head, backend, upsets>>

\* initLbug finds the database of an analysis that runs beside this one: it is
\* locked, and this one fails; or the rows go into it, next to those it has
\* (COPY is tried again with IGNORE_ERRORS).
OpenOtherDb(n) ==
  /\ At(n, "removed") /\ disk.db # None
  /\ IF WriteLocked(disk.db) \/ backend.open = disk.db
       THEN run' = Failed(n) /\ UNCHANGED file
       ELSE /\ file' = [file EXCEPT ![disk.db] = [tree |-> None, full |-> FALSE, wal |-> TRUE]]
            /\ run' = [run EXCEPT ![n].pc = "loading", ![n].db = disk.db]
  /\ UNCHANGED <<head, disk, backend, upsets>>

\* The rows hold the text of the files, which is read again.
Load(n) ==
  /\ At(n, "loading")
  /\ file' = [file EXCEPT ![run[n].db].full = TRUE,
                          ![run[n].db].tree = IF run[n].tree = head THEN @ ELSE None]
  /\ Goto(n, "loaded")
  /\ UNCHANGED <<head, disk, backend, upsets>>

\* Mutant: meta.json is written before the rows are loaded.
SaveMeta_Early(n) ==
  /\ run[n].pc \in {"loading", "loaded"}
  /\ disk' = [disk EXCEPT !.commit = run[n].commit, !.stamp = n]
  /\ Goto(n, "saved")
  /\ UNCHANGED <<head, file, backend, upsets>>

SaveMeta(n) ==
  /\ At(n, "loaded")
  /\ disk' = [disk EXCEPT !.commit = run[n].commit, !.stamp = n]
  /\ Goto(n, "saved")
  /\ UNCHANGED <<head, file, backend, upsets>>

Register(n) ==
  /\ At(n, "saved")
  /\ disk' = [disk EXCEPT !.registered = n]
  /\ Goto(n, "registered")
  /\ UNCHANGED <<head, file, backend, upsets>>

\* closeLbug checkpoints the database.
CloseDb(n) ==
  /\ At(n, "registered")
  /\ file' = [file EXCEPT ![run[n].db].wal = FALSE]
  /\ Goto(n, "closed")
  /\ UNCHANGED <<head, disk, backend, upsets>>

\* The write-ahead log of the database that analysis n has open, if any.
Wal(n, left) == [d \in Db |-> IF d = run[n].db THEN [file[d] EXCEPT !.wal = left] ELSE file[d]]

\* An exception closes the database; what was loaded stays.
Fail(n) ==
  /\ run[n].pc \in Holding \ {"creating", "closed"} /\ Note("fault", TRUE)
  /\ run' = Failed(n)
  /\ file' = Wal(n, FALSE)
  /\ UNCHANGED <<head, disk, backend>>

\* The process dies; its write-ahead log may have just been checkpointed.
Crash(n) ==
  /\ run[n].pc \in Holding /\ Note("fault", TRUE)
  /\ run' = Ending(n, "crashed")
  /\ file' = Wal(n, FALSE) \/ UNCHANGED file
  /\ UNCHANGED <<head, disk, backend>>

-----------------------------------------------------------------------------
(* refreshRepos: the handles are replaced by new ones from the registry, while *)
(* initialisations that are under way keep the old ones; no entry is closed.   *)

Refreshed ==
  /\ backend' = [backend EXCEPT !.stamp = disk.registered, !.orphan = backend.pc # "idle"]
  /\ Note("refresh", backend.open # None /\ backend.stamp # disk.registered)

\* backend.init: a repository was not found, or deleted, or queries were held.
Refresh ==
  /\ Refreshed
  /\ UNCHANGED <<head, disk, file, run>>

\* The server reloads its backend before the client has the complete event; a
\* reload that fails or takes too long fails the job.
Reload(n) ==
  /\ At(n, "reported")
  /\ \/ Goto(n, "complete") /\ Refreshed
     \/ Goto(n, "ended") /\ UNCHANGED <<backend, upsets>>
  /\ UNCHANGED <<head, disk, file>>

-----------------------------------------------------------------------------
(* ensureRepoInitialized; withRepoLock runs one at a time.  A call that is     *)
(* answered without looking at meta.json (5 s) changes nothing.                *)

Unchanged == UNCHANGED <<head, disk, file, run>>

\* Mutant: an open entry is never compared with meta.json.
EnsureInitialized_Once ==
  /\ backend.pc = "idle" /\ backend.open = None
  /\ backend' = [backend EXCEPT !.pc = "preflight"]
  /\ Unchanged /\ UNCHANGED upsets

\* The entry is open: meta.json is read and its stamp compared with the handle.
\* Without an entry the first initialisation begins.
EnsureInitialized ==
  /\ backend.pc = "idle"
  /\ \/ /\ backend.open = None
        /\ backend' = [backend EXCEPT !.pc = "preflight"]
     \/ /\ backend.open # None /\ disk.stamp # backend.stamp
        /\ backend' = [backend EXCEPT !.pc = "recheck", !.read = disk.stamp]
  /\ Unchanged /\ UNCHANGED upsets

\* assertIndexCanOpenReadOnly; for a changed index the handle then takes the
\* new stamp, before the old entry is closed.
Preflight ==
  LET analysing == disk.lock # None /\ disk.written /\ Alive(disk.lock)
      sidecar == backend.open = None /\ disk.db # None /\ file[disk.db].wal
  IN /\ backend.pc \in {"preflight", "recheck"}
     /\ backend' =
          CASE analysing \/ sidecar -> [backend EXCEPT !.pc = "idle", !.orphan = FALSE, !.read = 0]
            [] ~(analysing \/ sidecar) /\ backend.pc = "preflight" ->
                 [backend EXCEPT !.pc = "opening"]
            [] OTHER -> [backend EXCEPT !.pc = "closing", !.read = 0,
                           !.stamp = IF backend.orphan THEN @ ELSE backend.read]
     /\ Unchanged /\ UNCHANGED upsets

CloseEntry ==
  /\ backend.pc = "closing"
  /\ backend' = [backend EXCEPT !.pc = "opening", !.open = None]
  /\ Unchanged /\ UNCHANGED upsets

\* Its queries do not end in time: closeLbug throws, and the entry stays.
CloseTimesOut ==
  /\ backend.pc = "closing" /\ backend.open # None
  /\ backend' = [backend EXCEPT !.pc = "idle", !.orphan = FALSE]
  /\ Note("timeout", TRUE)
  /\ Unchanged

\* initLbug of the pool: no file, or a writer that holds the database, is an error.
OpenDb ==
  /\ backend.pc = "opening"
  /\ backend' = [backend EXCEPT !.pc = "idle", !.orphan = FALSE,
                   !.open = IF disk.db = None \/ WriteLocked(disk.db) THEN None ELSE disk.db]
  /\ Unchanged /\ UNCHANGED upsets

\* The pool closes an entry that was not used for five minutes.
IdleClose ==
  /\ backend.open # None
  /\ backend' = [backend EXCEPT !.open = None]
  /\ Unchanged /\ UNCHANGED upsets

-----------------------------------------------------------------------------
Locking(n) == CreateLock(n) \/ WriteLock(n) \/ ReadLock(n) \/ CompareLock(n) \/ UnlinkLock(n)
Analysing(n) ==
  \/ ReadCommit(n) \/ Reregister(n) \/ Scan(n) \/ RemoveDb(n) \/ CreateDb(n) \/ OpenOtherDb(n)
  \/ Load(n) \/ SaveMeta(n) \/ Register(n) \/ CloseDb(n)
Serving == EnsureInitialized \/ Preflight \/ CloseEntry \/ OpenDb

Next ==
  \/ Commit \/ Refresh \/ CloseTimesOut \/ IdleClose \/ Serving
  \/ \E n \in Analyses :
       Start(n) \/ Locking(n) \/ Analysing(n) \/ Release(n) \/ Reload(n) \/ Fail(n) \/ Crash(n)

\* An analysis that started goes on, and the backend is called again and again.
\* Nothing makes an analysis start, a handle be replaced or an entry idle.
Fairness ==
  /\ \A n \in Analyses : WF_vars(Locking(n) \/ Analysing(n) \/ Release(n) \/ Reload(n))
  /\ WF_vars(Serving)

Spec == Init /\ [][Next]_vars /\ Fairness

-----------------------------------------------------------------------------
(* Properties *)

\* "Only one `ontoindex analyze' should rebuild a repo at a time": processes on
\* the command line exclude each other, crashes and reclaimed locks included,
\* until one unlinks a lock that is not the dead owner's any more.
OneAnalyzer ==
  "unlinked" \notin upsets =>
    Cardinality({n \in Analyses : run[n].pc \in Holding /\ run[n].kind = "cli"}) <= 1

\* As long as no analysis crashed, failed or ran beside one of the other kind,
\* meta.json tells the truth whenever no database is being built: it names the
\* one that is there, complete, and the commit is the one whose tree it holds
\* unless another was checked out while the analysis read.
Calm == upsets \cap {"fault", "overlap"} = {}
MetaTellsDb ==
  Calm /\ (\A n \in Analyses : run[n].pc \notin {"removed", "loading", "loaded"}) =>
    /\ disk.db = disk.stamp /\ file[disk.db].full
    /\ "checkout" \notin upsets => file[disk.db].tree = disk.commit

\* A backend never serves a database that is still being built, although its
\* checks and its opening are steps apart.
ServesComplete ==
  backend.open # None => file[backend.open].full \/ "fault" \in upsets

\* Analyses reach a backend that is in use: in the end it serves the database on
\* disk (or has none open), unless its handle was replaced before it looked or
\* the old entry could not be closed.
CatchesUp ==
  <>[](Calm /\ upsets \cap {"refresh", "timeout"} = {} /\ backend.open # None =>
         backend.open = disk.db)

\* "ensures the new repo is queryable when the client receives the SSE complete
\* event": a backend that serves an older database comes to the new one.
CompleteIsQueryable ==
  \A n \in Analyses :
    At(n, "complete") /\ disk.db = n ~> backend.open \in {None, disk.db}

\* "Early-return: already up to date".
UpToDateIsComplete ==
  \A n \in Analyses : At(n, "uptodate") =>
    disk.db # None /\ file[disk.db].full /\ file[disk.db].tree = run[n].commit
=============================================================================
