---------------------------- MODULE RepoIndex_proofs ----------------------------
(***************************************************************************)
(* The index of a repository, for any number of analyses and commits and any *)
(* sets of upsets.                                                           *)
(*                                                                           *)
(* Three arguments, each under the upsets that would break it.  The lock     *)
(* file names the process on the command line that analyses, until somebody  *)
(* unlinks another one's.  Without a crash or a failure a database that is   *)
(* there is complete or locked by the analysis that loads it, whoever runs   *)
(* beside it.  And if besides no two analyses overlap, every step of the one *)
(* there is leaves a known relation between the database, meta.json and what *)
(* it has read and written.                                                  *)
(***************************************************************************)
EXTENDS RepoIndex, FiniteSetTheorems, TLAPS

Places == Ended \union Holding \union {"off", "start", "found", "reclaim", "unlink"}
Trees == Commits \union {None}

RunState == [pc : Places, kind : {"none", "cli", "server"}, seen : Db \union {None},
             second : BOOLEAN, commit : Trees, tree : Trees, meta : Db,
             db : Db \union {None}, failed : BOOLEAN]
FileState == [tree : Trees, full : BOOLEAN, wal : BOOLEAN]
DiskState == [db : Db \union {None}, commit : Trees, stamp : Db, registered : Db,
              lock : Db \union {None}, written : BOOLEAN]
BackendState == [pc : {"idle", "preflight", "recheck", "closing", "opening"}, stamp : Db,
                 read : Db, open : Db \union {None}, orphan : BOOLEAN]

IndexTypes ==
  /\ head \in Commits /\ disk \in DiskState /\ file \in [Db -> FileState]
  /\ run \in [Analyses -> RunState] /\ backend \in BackendState
  /\ \A n \in Analyses : run[n].pc \in Writing => run[n].db # None

-----------------------------------------------------------------------------
(* The parts of the inductive invariant *)

Uncreated == Places \ (Ended \union Writing \union {"closed"})

\* The database of an analysis that has not created it yet is nowhere.
Fresh ==
  \A n \in Analyses : run[n].pc \in Uncreated =>
    disk.db # n /\ backend.open # n /\ \A m \in Analyses : run[m].db # n

Gone(d) == d = 0 \/ (d \in Analyses /\ run[d].pc \in Ended)

\* The lock file names the process on the command line that analyses; who is
\* about to reclaim it has seen a dead owner.
LockTells ==
  /\ \A n \in Analyses : run[n].pc \in Holding /\ run[n].kind = "cli" => disk.lock = n
  /\ \A n \in Analyses : run[n].pc \in {"reclaim", "unlink"} => Gone(run[n].seen)
  /\ disk.lock \in Analyses => run[disk.lock].pc # "off"

\* The database that is open is complete, the one on disk is or is locked.
Served ==
  /\ backend.open # None => file[backend.open].full
  /\ disk.db # None =>
       file[disk.db].full \/ \E n \in Analyses : run[n].pc = "loading" /\ run[n].db = disk.db

\* One analysis at a time, of whatever kind, and nobody has a lock to reclaim.
Exclusive ==
  /\ \A m, n \in Analyses : run[m].pc \in Holding /\ run[n].pc \in Holding => m = n
  /\ \A n \in Analyses : run[n].pc \notin {"reclaim", "unlink"}
  /\ disk.lock # None => disk.lock \in Analyses /\ run[disk.lock].pc \in Holding
  /\ "unlinked" \notin upsets

\* What analysis n read, while no other commit is checked out.
ReadOne(n) ==
  /\ run[n].pc \in {"read", "scanned", "removed", "loading"} => run[n].commit = head
  /\ run[n].pc \in {"scanned", "removed", "loading", "loaded"} => run[n].tree = run[n].commit
  /\ run[n].pc \in {"loading", "loaded"} => file[n].tree = run[n].commit

\* How far analysis n is, and what it has written.
Progressed(n) ==
  /\ run[n].pc = "uptodate" => run[n].commit = disk.commit
  /\ run[n].pc = "removed" => disk.db = None
  /\ run[n].pc \in {"loading", "loaded"} => disk.db = n /\ run[n].db = n
  /\ run[n].pc = "loaded" => file[n].full
  /\ "checkout" \notin upsets => ReadOne(n)

Rebuilding == {"removed", "loading", "loaded"}

MetaTrue ==
  /\ disk.db = disk.stamp /\ file[disk.stamp].full
  /\ "checkout" \notin upsets => file[disk.stamp].tree = disk.commit

\* Unless the database is being rebuilt, meta.json tells the truth.
Settled == (\A n \in Analyses : run[n].pc \notin Rebuilding) => MetaTrue

Told == (\A n \in Analyses : Progressed(n)) /\ Settled

\* The inductive invariant.
IndexInv ==
  /\ IndexTypes /\ Fresh
  /\ "unlinked" \notin upsets => LockTells
  /\ "fault" \notin upsets => Served
  /\ Calm => Exclusive /\ Told

-----------------------------------------------------------------------------
(* Types *)

LEMMA ValuesTyped == 0 \in Db /\ Analyses \subseteq Db /\ Db \subseteq Nat /\ None \notin Db
BY IndexAssumption DEF Db, Analyses

\* A step of analysis n is nobody else's.
Alone(n) == \A m \in Analyses \ {n} : run'[m] = run[m]

LEMMA EndingTyped ==
  ASSUME IndexTypes, NEW n \in Analyses, NEW pc \in Ended, run' = Ending(n, pc)
  PROVE  /\ run' \in [Analyses -> RunState] /\ Alone(n)
         /\ run'[n].pc = pc /\ run'[n].db = None
<1> DEFINE x == [NewRun EXCEPT !.pc = pc]
<1>1. x \in RunState /\ x.pc = pc /\ x.db = None
  BY ValuesTyped DEF NewRun, RunState, Places, Trees
<1>2. run' = [run EXCEPT ![n] = x]
  BY DEF Ending
<1> HIDE DEF x
<1> QED
  BY <1>1, <1>2 DEF IndexTypes, Alone

LEMMA FailedTyped ==
  ASSUME IndexTypes, NEW n \in Analyses, run' = Failed(n)
  PROVE  /\ run' \in [Analyses -> RunState] /\ Alone(n)
         /\ run'[n].pc = "closed" /\ run'[n].db = None /\ run'[n].kind = run[n].kind
<1> DEFINE k == run[n].kind
           x == [NewRun EXCEPT !.pc = "closed", !.kind = k, !.failed = TRUE]
<1>1. k \in {"none", "cli", "server"}
  BY DEF IndexTypes, RunState
<1>2. x \in RunState /\ x.pc = "closed" /\ x.db = None /\ x.kind = k
  BY <1>1, ValuesTyped DEF NewRun, RunState, Places, Trees, Holding
<1>3. run' = [run EXCEPT ![n] = x]
  BY DEF Failed
<1> HIDE DEF x
<1> QED
  BY <1>2, <1>3 DEF IndexTypes, Alone

LEMMA GotoTyped ==
  ASSUME IndexTypes, NEW n \in Analyses, NEW pc \in Places, Goto(n, pc)
  PROVE  /\ run' \in [Analyses -> RunState] /\ Alone(n)
         /\ run'[n] = [run[n] EXCEPT !.pc = pc]
         /\ run'[n].pc = pc /\ run'[n].db = run[n].db /\ run'[n].kind = run[n].kind
         /\ run'[n].seen = run[n].seen
         /\ run'[n].commit = run[n].commit /\ run'[n].tree = run[n].tree
BY DEF Goto, IndexTypes, RunState, Alone

\* Upsets are never forgotten.
LEMMA Noted ==
  ASSUME NEW upset, NEW happens \in BOOLEAN, Note(upset, happens)
  PROVE  upsets \subseteq upsets' /\ (happens => upset \in upsets')
BY DEF Note

LEMMA WalTyped ==
  ASSUME IndexTypes, NEW n, NEW left \in BOOLEAN, file' = Wal(n, left)
  PROVE  /\ file' \in [Db -> FileState]
         /\ \A d \in Db : file'[d].full = file[d].full /\ file'[d].tree = file[d].tree
<1>1. ASSUME NEW d \in Db
      PROVE  /\ file'[d] \in FileState
             /\ file'[d].full = file[d].full /\ file'[d].tree = file[d].tree
  <2>1. file[d] \in FileState
    BY DEF IndexTypes
  <2>2. file'[d] = [file[d] EXCEPT !.wal = left] \/ file'[d] = file[d]
    BY DEF Wal
  <2> QED
    BY <2>1, <2>2 DEF FileState
<1>2. file' = [d \in Db |-> file'[d]]
  BY DEF Wal
<1> QED
  BY <1>1, <1>2

\* The parts of the disk that a step may leave alone.
SameIndex == disk'.db = disk.db /\ disk'.stamp = disk.stamp /\ disk'.commit = disk.commit
SameFiles == \A d \in Db : file'[d].full = file[d].full /\ file'[d].tree = file[d].tree

-----------------------------------------------------------------------------
(* Steps that leave a part of the invariant alone *)

LEMMA FreshStays ==
  ASSUME IndexTypes, Fresh, NEW n \in Analyses, Alone(n),
         disk'.db \in {None, disk.db}, backend'.open = backend.open,
         run'[n].db \in {None, run[n].db, disk.db},
         run'[n].pc \in Uncreated => run[n].pc \in Uncreated
  PROVE  Fresh'
<1> SUFFICES ASSUME NEW k \in Analyses, run'[k].pc \in Uncreated, NEW m \in Analyses
             PROVE  disk'.db # k /\ backend'.open # k /\ run'[m].db # k
  BY DEF Fresh
<1>1. run[k].pc \in Uncreated
  BY DEF Alone
<1>2. disk.db # k /\ backend.open # k /\ \A i \in Analyses : run[i].db # k
  BY <1>1 DEF Fresh
<1>3. k # None
  BY ValuesTyped
<1>4. run'[m].db \in {None, run[m].db, disk.db}
  BY DEF Alone
<1> QED
  BY <1>2, <1>3, <1>4

LEMMA LockStays ==
  ASSUME IndexTypes, LockTells, NEW n \in Analyses, Alone(n), disk'.lock = disk.lock,
         run'[n].pc \in Holding => run[n].pc \in Holding /\ run'[n].kind = run[n].kind,
         run'[n].pc \in {"reclaim", "unlink"} =>
           run[n].pc \in {"reclaim", "unlink"} /\ run'[n].seen = run[n].seen,
         run[n].pc \in Ended => run'[n].pc \in Ended, run'[n].pc # "off"
  PROVE  LockTells'
<1>1. \A m \in Analyses : run'[m].pc \in Holding /\ run'[m].kind = "cli" => disk'.lock = m
  BY DEF LockTells, Alone
<1>2. ASSUME NEW m \in Analyses, run'[m].pc \in {"reclaim", "unlink"}
      PROVE  Gone(run[m].seen)'
  <2>1. run[m].pc \in {"reclaim", "unlink"} /\ run'[m].seen = run[m].seen
    BY <1>2 DEF Alone
  <2>2. Gone(run[m].seen)
    BY <2>1 DEF LockTells
  <2> QED
    BY <2>1, <2>2 DEF Gone, Alone
<1>3. disk'.lock \in Analyses => run'[disk'.lock].pc # "off"
  BY DEF LockTells, Alone
<1> QED
  BY <1>1, <1>2, <1>3 DEF LockTells

LEMMA ServedStays ==
  ASSUME IndexTypes, Served, NEW n \in Analyses, Alone(n),
         disk'.db \in {None, disk.db}, backend'.open = backend.open,
         \A d \in Db : file[d].full => file'[d].full,
         run[n].pc = "loading" => file'[run[n].db].full
  PROVE  Served'
<1>1. backend.open \in Db \union {None} /\ disk.db \in Db \union {None}
  BY DEF IndexTypes, BackendState, DiskState
<1>2. backend'.open # None => file'[backend'.open].full
  BY <1>1 DEF Served
<1>3. ASSUME disk'.db # None
      PROVE  \/ file'[disk'.db].full
             \/ \E m \in Analyses : run'[m].pc = "loading" /\ run'[m].db = disk'.db
  <2>1. disk'.db = disk.db /\ disk.db \in Db /\ disk.db # None
    BY <1>1, <1>3
  <2>2. CASE file[disk.db].full
    BY <2>1, <2>2
  <2>3. ASSUME NEW m \in Analyses, run[m].pc = "loading", run[m].db = disk.db
        PROVE  \/ file'[disk'.db].full
               \/ \E i \in Analyses : run'[i].pc = "loading" /\ run'[i].db = disk'.db
    BY <2>1, <2>3 DEF Alone
  <2> QED
    BY <2>1, <2>2, <2>3 DEF Served
<1> QED
  BY <1>2, <1>3 DEF Served

LEMMA ExclusiveStays ==
  ASSUME Exclusive, NEW n \in Analyses, Alone(n), disk'.lock = disk.lock,
         run'[n].pc \in Holding <=> run[n].pc \in Holding,
         run'[n].pc \notin {"reclaim", "unlink"}, "unlinked" \notin upsets'
  PROVE  Exclusive'
BY DEF Exclusive, Alone

LEMMA ToldStays ==
  ASSUME IndexTypes, Told, NEW n \in Analyses, Alone(n), SameIndex, SameFiles, head' = head,
         upsets \subseteq upsets', Progressed(n)',
         run[n].pc \in Rebuilding => run'[n].pc \in Rebuilding
  PROVE  Told'
<1>1. ASSUME NEW m \in Analyses \ {n} PROVE Progressed(m)'
  <2>1. Progressed(m) /\ run'[m] = run[m] /\ m \in Db
    BY ValuesTyped DEF Told, Alone
  <2>2. file'[m].full = file[m].full /\ file'[m].tree = file[m].tree
    BY <2>1 DEF SameFiles
  <2>3. ReadOne(m) => ReadOne(m)'
    BY <2>1, <2>2 DEF ReadOne
  <2> QED
    BY <2>1, <2>2, <2>3 DEF Progressed, SameIndex
<1>2. Settled'
  <2> SUFFICES ASSUME \A m \in Analyses : run'[m].pc \notin Rebuilding PROVE MetaTrue'
    BY DEF Settled
  <2>1. \A m \in Analyses : run[m].pc \notin Rebuilding
    BY DEF Alone
  <2>2. MetaTrue /\ disk.stamp \in Db
    BY <2>1 DEF Told, Settled, IndexTypes, DiskState
  <2> QED
    BY <2>2 DEF MetaTrue, SameIndex, SameFiles
<1> QED
  BY <1>1, <1>2 DEF Told

\* Analysis n rebuilds the index: nobody else is there.
LEMMA RebuildTells ==
  ASSUME Exclusive, NEW n \in Analyses, Alone(n), run[n].pc \in Holding,
         Progressed(n)', run'[n].pc \in Rebuilding \/ MetaTrue'
  PROVE  Told'
<1>1. ASSUME NEW m \in Analyses \ {n} PROVE Progressed(m)'
  <2>1. run'[m].pc \notin Holding
    BY DEF Exclusive, Alone
  <2>2. {"uptodate", "read", "scanned", "removed", "loading", "loaded"} \subseteq Holding
    BY DEF Holding, Writing
  <2> QED
    BY <2>1, <2>2 DEF Progressed, ReadOne
<1>2. Settled'
  BY DEF Settled
<1> QED
  BY <1>1, <1>2 DEF Told

LEMMA Conclude ==
  ASSUME IndexInv, IndexTypes', Fresh', upsets \subseteq upsets',
         "unlinked" \notin upsets' /\ LockTells => LockTells',
         "fault" \notin upsets' /\ Served => Served',
         Calm' /\ LockTells /\ Exclusive /\ Told => Exclusive' /\ Told'
  PROVE  IndexInv'
<1>1. /\ "unlinked" \notin upsets' => "unlinked" \notin upsets
      /\ "fault" \notin upsets' => "fault" \notin upsets
      /\ Calm' => Calm
  BY DEF Calm
<1>2. Calm => LockTells /\ Exclusive /\ Told
  BY DEF IndexInv, Exclusive
<1> QED
  BY <1>1, <1>2 DEF IndexInv

\* A step of analysis n that leaves the index alone.
LEMMA QuietStep ==
  ASSUME IndexInv, IndexTypes', NEW n \in Analyses, Alone(n), upsets \subseteq upsets',
         head' = head, SameIndex, SameFiles, backend'.open = backend.open,
         run'[n].db \in {None, run[n].db},
         run'[n].pc \in Uncreated => run[n].pc \in Uncreated,
         run[n].pc = "loading" => "fault" \in upsets',
         run[n].pc \in Rebuilding => "fault" \in upsets' \/ run'[n].pc \in Rebuilding,
         Calm' /\ Told => Progressed(n)',
         "unlinked" \notin upsets' /\ LockTells => LockTells',
         Calm' /\ LockTells /\ Exclusive => Exclusive'
  PROVE  IndexInv'
<1>1. IndexTypes /\ Fresh
  BY DEF IndexInv
<1>2. Fresh'
  BY <1>1, FreshStays DEF SameIndex
<1>3. ASSUME "fault" \notin upsets', Served PROVE Served'
  BY <1>1, <1>3, ServedStays DEF SameIndex, SameFiles
<1>4. ASSUME Calm', Told PROVE Told'
  <2>1. "fault" \notin upsets'
    BY <1>4 DEF Calm
  <2> QED
    BY <1>1, <1>4, <2>1, ToldStays
<1> QED
  BY <1>2, <1>3, <1>4, Conclude

-----------------------------------------------------------------------------
(* The steps around the lock *)

LEMMA StartKeeps ==
  ASSUME IndexInv, NEW n \in Analyses, Start(n)
  PROVE  IndexInv'
<1>1. IndexTypes /\ run[n].pc = "off"
  BY DEF IndexInv, Start, At
<1>2. PICK kind \in Writers :
        /\ kind = "server" => \A m \in Analyses : run[m].kind # "server"
        /\ run' = [run EXCEPT ![n].pc = IF kind = "cli" THEN "start" ELSE "locked",
                              ![n].kind = kind]
        /\ Note("overlap", kind = "server" /\ Beside("server"))
  BY DEF Start
<1>3. head' = head /\ disk' = disk /\ file' = file /\ backend' = backend
  BY DEF Start
<1>4. kind \in {"cli", "server"}
  BY IndexAssumption
<1>5. /\ run' \in [Analyses -> RunState] /\ Alone(n)
      /\ run'[n].pc = (IF kind = "cli" THEN "start" ELSE "locked")
      /\ run'[n].kind = kind /\ run'[n].db = run[n].db
  <2> DEFINE pc == IF kind = "cli" THEN "start" ELSE "locked"
  <2>1. run' = [run EXCEPT ![n].pc = pc, ![n].kind = kind] /\ pc \in Places
    BY <1>2 DEF Places, Holding
  <2> HIDE DEF pc
  <2>2. /\ run' \in [Analyses -> RunState] /\ Alone(n)
        /\ run'[n].pc = pc /\ run'[n].kind = kind /\ run'[n].db = run[n].db
    BY <1>1, <1>4, <2>1 DEF IndexTypes, RunState, Alone
  <2> QED
    BY <2>2 DEF pc
<1>6. /\ upsets \subseteq upsets'
      /\ kind = "server" /\ Beside("server") => "overlap" \in upsets'
  BY <1>2, Noted DEF Beside
<1>7. /\ {"start", "locked"} \cap (Writing \union Rebuilding \union {"reclaim", "unlink"}) = {}
      /\ {"off", "start"} \cap Holding = {} /\ "locked" \in Holding
      /\ "off" \in Uncreated /\ "off" \notin Ended \union Rebuilding
  BY DEF Writing, Rebuilding, Holding, Ended, Uncreated, Places
<1>8. IndexTypes'
  BY <1>1, <1>3, <1>5, <1>7 DEF IndexTypes, Alone
<1>9. Progressed(n)'
  BY <1>5 DEF Progressed, ReadOne
<1>10. ASSUME LockTells PROVE LockTells'
  <2>1. \A m \in Analyses : run'[m].pc \in Holding /\ run'[m].kind = "cli" => disk'.lock = m
    BY <1>3, <1>4, <1>5, <1>7, <1>10 DEF LockTells, Alone
  <2>2. ASSUME NEW m \in Analyses, run'[m].pc \in {"reclaim", "unlink"}
        PROVE  Gone(run[m].seen)' /\ run'[m] = run[m]
    <3>1. m # n /\ run'[m] = run[m] /\ Gone(run[m].seen)
      BY <1>5, <1>10, <2>2 DEF LockTells, Alone
    <3> QED
      BY <1>1, <1>5, <1>7, <3>1 DEF Gone, Alone
  <2>3. disk'.lock \in Analyses => run'[disk'.lock].pc # "off"
    BY <1>3, <1>5, <1>10 DEF LockTells, Alone
  <2> QED
    BY <2>1, <2>2, <2>3 DEF LockTells, Gone
<1>11. ASSUME Calm', Exclusive PROVE Exclusive'
  <2>1. kind = "server" => \A m \in Analyses : run[m].pc \notin Holding
    BY <1>2, <1>6, <1>11 DEF Calm, Beside
  <2>2. \A m, k \in Analyses : run'[m].pc \in Holding /\ run'[k].pc \in Holding => m = k
    BY <1>4, <1>5, <1>7, <1>11, <2>1 DEF Exclusive, Alone
  <2>3. "unlinked" \notin upsets'
    BY <1>2, <1>11 DEF Note, Exclusive
  <2>4. disk'.lock # None => disk'.lock \in Analyses /\ run'[disk'.lock].pc \in Holding
    BY <1>1, <1>3, <1>5, <1>7, <1>11 DEF Exclusive, Alone
  <2>5. \A m \in Analyses : run'[m].pc \notin {"reclaim", "unlink"}
    BY <1>5, <1>7, <1>11 DEF Exclusive, Alone
  <2> QED
    BY <2>2, <2>3, <2>4, <2>5 DEF Exclusive
<1>12. SameIndex /\ SameFiles /\ backend'.open = backend.open
  BY <1>3 DEF SameIndex, SameFiles
<1>13. /\ run[n].pc # "loading" /\ run[n].pc \notin Rebuilding /\ run[n].pc \in Uncreated
       /\ run'[n].db \in {None, run[n].db} /\ head' = head
  BY <1>1, <1>3, <1>5, <1>7
<1> QED
  BY <1>5, <1>6, <1>8, <1>9, <1>10, <1>11, <1>12, <1>13, QuietStep

LEMMA CreateLockKeeps ==
  ASSUME IndexInv, NEW n \in Analyses, CreateLock(n)
  PROVE  IndexInv'
<1>1. /\ IndexTypes /\ run[n].pc = "start"
      /\ head' = head /\ file' = file /\ backend' = backend
  BY DEF IndexInv, CreateLock, At
<1>2. /\ {"creating", "found"} \cap (Writing \union Rebuilding \union Ended) = {}
      /\ {"start", "found"} \cap Holding = {} /\ "creating" \in Holding
      /\ "start" \in Uncreated /\ "start" \notin Rebuilding \union Ended
      /\ {"creating", "found"} \subseteq Places
  BY DEF Writing, Rebuilding, Holding, Ended, Uncreated, Places
<1>3. CASE disk.lock = None
  <2>1. /\ Goto(n, "creating") /\ disk' = [disk EXCEPT !.lock = n, !.written = FALSE]
        /\ Note("overlap", Beside("cli"))
    BY <1>3 DEF CreateLock
  <2>2. /\ run' \in [Analyses -> RunState] /\ Alone(n)
        /\ run'[n].pc = "creating" /\ run'[n].db = run[n].db
    BY <1>1, <1>2, <2>1, GotoTyped
  <2>3. disk' \in DiskState /\ disk'.lock = n /\ SameIndex
    BY <1>1, <2>1, ValuesTyped DEF IndexTypes, DiskState, SameIndex
  <2>4. upsets \subseteq upsets' /\ (Beside("cli") => "overlap" \in upsets')
    BY <2>1, Noted DEF Beside
  <2>5. IndexTypes'
    BY <1>1, <1>2, <2>2, <2>3 DEF IndexTypes, Alone
  <2>6. Progressed(n)'
    BY <2>2 DEF Progressed, ReadOne
  <2>7. ASSUME LockTells PROVE LockTells'
    <3>1. \A m \in Analyses : run'[m].pc \in Holding /\ run'[m].kind = "cli" => disk'.lock = m
      BY <1>3, <2>2, <2>3, <2>7, ValuesTyped DEF LockTells, Alone
    <3>2. ASSUME NEW m \in Analyses, run'[m].pc \in {"reclaim", "unlink"}
          PROVE  Gone(run[m].seen)' /\ run'[m] = run[m]
      <4>1. m # n /\ run'[m] = run[m] /\ Gone(run[m].seen)
        BY <2>2, <2>7, <3>2 DEF LockTells, Alone
      <4> QED
        BY <1>1, <1>2, <2>2, <4>1 DEF Gone, Alone
    <3>3. disk'.lock \in Analyses => run'[disk'.lock].pc # "off"
      BY <2>2, <2>3
    <3> QED
      BY <3>1, <3>2, <3>3 DEF LockTells, Gone
  <2>8. ASSUME Calm', Exclusive, LockTells PROVE Exclusive'
    <3>1. \A m \in Analyses : run[m].pc \notin Holding
      BY <1>3, <2>4, <2>8, ValuesTyped DEF Calm, Beside, LockTells
    <3>2. "unlinked" \notin upsets'
      BY <2>1, <2>8 DEF Note, Exclusive
    <3> QED
      BY <1>2, <2>2, <2>3, <2>8, <3>1, <3>2 DEF Exclusive, Alone
  <2>9. SameFiles /\ backend'.open = backend.open
    BY <1>1 DEF SameFiles
  <2> QED
    BY <1>1, <1>2, <2>2, <2>3, <2>4, <2>5, <2>6, <2>7, <2>8, <2>9, QuietStep
<1>4. CASE disk.lock # None
  <2>1. Goto(n, "found") /\ disk' = disk /\ upsets' = upsets
    BY <1>4 DEF CreateLock
  <2>2. /\ run' \in [Analyses -> RunState] /\ Alone(n)
        /\ run'[n].pc = "found" /\ run'[n].db = run[n].db
    BY <1>1, <1>2, <2>1, GotoTyped
  <2>3. IndexTypes'
    BY <1>1, <1>2, <2>1, <2>2 DEF IndexTypes, Alone
  <2>4. Progressed(n)'
    BY <2>2 DEF Progressed, ReadOne
  <2>5. ASSUME LockTells PROVE LockTells'
    BY <1>1, <1>2, <2>1, <2>2, <2>5, LockStays
  <2>6. ASSUME Exclusive PROVE Exclusive'
    BY <1>1, <1>2, <2>1, <2>2, <2>6, ExclusiveStays DEF Exclusive
  <2>7. SameIndex /\ SameFiles /\ backend'.open = backend.open
    BY <1>1, <2>1 DEF SameIndex, SameFiles
  <2> QED
    BY <1>1, <1>2, <2>1, <2>2, <2>3, <2>4, <2>5, <2>6, <2>7, QuietStep
<1> QED
  BY <1>3, <1>4

LEMMA WriteLockKeeps ==
  ASSUME IndexInv, NEW n \in Analyses, WriteLock(n)
  PROVE  IndexInv'
<1>1. /\ IndexTypes /\ run[n].pc = "creating" /\ Goto(n, "locked")
      /\ head' = head /\ file' = file /\ backend' = backend /\ upsets' = upsets
  BY DEF IndexInv, WriteLock, At
<1>2. /\ "locked" \notin Writing \union Rebuilding \union Ended
      /\ {"creating", "locked"} \subseteq Holding \cap Places
      /\ "creating" \in Uncreated /\ "creating" \notin Rebuilding \union Ended
  BY DEF Writing, Rebuilding, Holding, Ended, Uncreated, Places
<1>3. disk' \in DiskState /\ disk'.lock = disk.lock /\ SameIndex
  <2> DEFINE w == (disk.lock = n) \/ disk.written
  <2>1. disk' = [disk EXCEPT !.written = w] /\ w \in BOOLEAN
    BY <1>1 DEF WriteLock, IndexTypes, DiskState
  <2> HIDE DEF w
  <2> QED
    BY <1>1, <2>1 DEF DiskState, IndexTypes, SameIndex
<1>4. /\ run' \in [Analyses -> RunState] /\ Alone(n)
      /\ run'[n].pc = "locked" /\ run'[n].db = run[n].db /\ run'[n].kind = run[n].kind
  BY <1>1, <1>2, GotoTyped
<1>5. IndexTypes'
  BY <1>1, <1>2, <1>3, <1>4 DEF IndexTypes, Alone
<1>6. Progressed(n)'
  BY <1>4 DEF Progressed, ReadOne
<1>7. ASSUME LockTells PROVE LockTells'
  BY <1>1, <1>2, <1>3, <1>4, <1>7, LockStays
<1>8. ASSUME Exclusive PROVE Exclusive'
  BY <1>1, <1>2, <1>3, <1>4, <1>8, ExclusiveStays DEF Exclusive
<1>9. SameFiles /\ backend'.open = backend.open
  BY <1>1 DEF SameFiles
<1> QED
  BY <1>1, <1>2, <1>3, <1>4, <1>5, <1>6, <1>7, <1>8, <1>9, QuietStep

\* A process that looks at the lock of another one: its lock is reclaimed only
\* when that one is dead.
LEMMA ReadLockKeeps ==
  ASSUME IndexInv, NEW n \in Analyses, ReadLock(n)
  PROVE  IndexInv'
<1>1. /\ IndexTypes /\ run[n].pc = "found"
      /\ head' = head /\ disk' = disk /\ file' = file /\ backend' = backend /\ upsets' = upsets
  BY DEF IndexInv, ReadLock, At
<1>2. /\ "ended" \notin Writing \union Rebuilding \union Uncreated \union Holding
      /\ "reclaim" \notin Writing \union Rebuilding \union Holding \union Ended
      /\ "reclaim" \in Places /\ "ended" \in Ended
      /\ "found" \in Uncreated /\ "found" \notin Rebuilding \union Ended \union Holding
  BY DEF Writing, Rebuilding, Holding, Ended, Uncreated, Places
<1>3. SameIndex /\ SameFiles /\ backend'.open = backend.open
  BY <1>1 DEF SameIndex, SameFiles
<1>4. CASE run' = Ending(n, "ended")
  <2>1. /\ run' \in [Analyses -> RunState] /\ Alone(n)
        /\ run'[n].pc = "ended" /\ run'[n].db = None
    BY <1>1, <1>2, <1>4, EndingTyped
  <2>2. IndexTypes'
    BY <1>1, <1>2, <2>1 DEF IndexTypes, Alone
  <2>3. Progressed(n)'
    BY <2>1 DEF Progressed, ReadOne
  <2>4. ASSUME LockTells PROVE LockTells'
    BY <1>1, <1>2, <2>1, <2>4, LockStays
  <2>5. ASSUME Exclusive PROVE Exclusive'
    BY <1>1, <1>2, <2>1, <2>5, ExclusiveStays DEF Exclusive
  <2> QED
    BY <1>1, <1>2, <1>3, <2>1, <2>2, <2>3, <2>4, <2>5, QuietStep
<1>5. CASE /\ disk.lock # None /\ ~Alive(disk.lock)
           /\ run' = [run EXCEPT ![n].pc = "reclaim", ![n].seen = disk.lock]
  <2>1. disk.lock \in Db
    BY <1>1, <1>5 DEF IndexTypes, DiskState
  <2>2. /\ run' \in [Analyses -> RunState] /\ Alone(n)
        /\ run'[n].pc = "reclaim" /\ run'[n].db = run[n].db /\ run'[n].seen = disk.lock
    <3> DEFINE l == disk.lock
    <3>1. run' = [run EXCEPT ![n].pc = "reclaim", ![n].seen = l] /\ l \in Db
      BY <1>5, <2>1
    <3> HIDE DEF l
    <3>2. run \in [Analyses -> RunState] /\ "reclaim" \in Places
      BY <1>1, <1>2 DEF IndexTypes
    <3>3. /\ run' \in [Analyses -> RunState] /\ Alone(n)
          /\ run'[n].pc = "reclaim" /\ run'[n].db = run[n].db /\ run'[n].seen = l
      BY <3>1, <3>2 DEF RunState, Alone
    <3> QED
      BY <3>3 DEF l
  <2>3. IndexTypes'
    BY <1>1, <1>2, <2>2 DEF IndexTypes, Alone
  <2>4. Progressed(n)'
    BY <2>2 DEF Progressed, ReadOne
  <2>5. ASSUME LockTells PROVE LockTells'
    <3>1. Gone(disk.lock)
      BY <1>5, <2>1, <2>5 DEF Alive, Gone, LockTells, Db
    <3>2. \A m \in Analyses : run'[m].pc \in Holding /\ run'[m].kind = "cli" => disk'.lock = m
      BY <1>1, <1>2, <2>2, <2>5 DEF LockTells, Alone
    <3>3. \A d \in Analyses : run[d].pc \in Ended => run'[d].pc \in Ended
      BY <1>1, <1>2, <2>2 DEF Alone
    <3>4. ASSUME NEW m \in Analyses, run'[m].pc \in {"reclaim", "unlink"}
          PROVE  Gone(run[m].seen)'
      <4>1. CASE m = n
        BY <2>2, <3>1, <3>3, <4>1 DEF Gone
      <4>2. CASE m # n
        <5>1. run'[m] = run[m] /\ Gone(run[m].seen)
          BY <2>2, <2>5, <3>4, <4>2 DEF LockTells, Alone
        <5> QED
          BY <3>3, <5>1 DEF Gone
      <4> QED
        BY <4>1, <4>2
    <3>5. disk'.lock \in Analyses => run'[disk'.lock].pc # "off"
      BY <1>1, <2>2, <2>5 DEF LockTells, Alone
    <3> QED
      BY <3>2, <3>4, <3>5 DEF LockTells, Gone
  <2>6. ASSUME Exclusive PROVE FALSE
    <3>1. disk.lock \in Analyses /\ run[disk.lock].pc \in Holding
      BY <1>5, <2>6 DEF Exclusive
    <3>2. Holding \cap (Ended \union {"off"}) = {}
      BY DEF Holding, Writing, Ended
    <3> QED
      BY <1>5, <3>1, <3>2 DEF Alive
  <2> QED
    BY <1>1, <1>2, <1>3, <2>2, <2>3, <2>4, <2>5, <2>6, QuietStep
<1> QED
  BY <1>4, <1>5 DEF ReadLock

LEMMA RetriedTyped ==
  ASSUME IndexTypes, NEW n \in Analyses, run' = Retried(n)
  PROVE  /\ run' \in [Analyses -> RunState] /\ Alone(n)
         /\ run'[n].pc \in {"ended", "start"} /\ run'[n].db \in {None, run[n].db}
<1>1. CASE run' = Ending(n, "ended")
  BY <1>1, EndingTyped DEF Ended
<1>2. CASE run' = [run EXCEPT ![n].pc = "start", ![n].second = TRUE, ![n].seen = None]
  <2>1. run \in [Analyses -> RunState] /\ "start" \in Places
    BY DEF IndexTypes, Places
  <2>2. run[n] \in RunState
    BY <2>1
  <2>3. run' = [run EXCEPT ![n] = [run[n] EXCEPT !.pc = "start", !.second = TRUE, !.seen = None]]
    BY <1>2, <2>1
  <2>4. [run[n] EXCEPT !.pc = "start", !.second = TRUE, !.seen = None] \in RunState
    BY <2>1, <2>2 DEF RunState
  <2> QED
    BY <2>1, <2>2, <2>3, <2>4 DEF Alone, RunState
<1> QED
  BY <1>1, <1>2 DEF Retried

LEMMA CompareLockKeeps ==
  ASSUME IndexInv, NEW n \in Analyses, CompareLock(n)
  PROVE  IndexInv'
<1>1. /\ IndexTypes /\ run[n].pc = "reclaim"
      /\ head' = head /\ disk' = disk /\ file' = file /\ backend' = backend /\ upsets' = upsets
  BY DEF IndexInv, CompareLock, At
<1>2. /\ {"unlink", "start", "ended"} \cap (Writing \union Rebuilding \union Holding) = {}
      /\ "reclaim" \in Uncreated /\ "unlink" \in Places
      /\ "reclaim" \notin Rebuilding \union Ended \union Holding
  BY DEF Writing, Rebuilding, Holding, Ended, Uncreated, Places
<1>3. SameIndex /\ SameFiles /\ backend'.open = backend.open
  BY <1>1 DEF SameIndex, SameFiles
<1>4. /\ run' \in [Analyses -> RunState] /\ Alone(n)
      /\ run'[n].pc \in {"unlink", "ended", "start"} /\ run'[n].db \in {None, run[n].db}
      /\ run'[n].pc = "unlink" => run'[n].seen = run[n].seen
  <2>1. CASE run' = [run EXCEPT ![n].pc = "unlink"]
    <3>1. Goto(n, "unlink") /\ "unlink" \in Places
      BY <2>1 DEF Goto, Places
    <3> QED
      BY <1>1, <3>1, GotoTyped
  <2>2. CASE run' = Retried(n)
    BY <1>1, <2>2, RetriedTyped
  <2> QED
    BY <2>1, <2>2 DEF CompareLock
<1>5. IndexTypes'
  BY <1>1, <1>2, <1>4 DEF IndexTypes, Alone
<1>6. Progressed(n)'
  BY <1>4 DEF Progressed, ReadOne
<1>7. ASSUME LockTells PROVE LockTells'
  BY <1>1, <1>2, <1>4, <1>7, LockStays
<1>8. ASSUME Exclusive PROVE FALSE
  BY <1>1, <1>8 DEF Exclusive
<1> QED
  BY <1>1, <1>2, <1>3, <1>4, <1>5, <1>6, <1>7, <1>8, QuietStep

\* The file that goes is the dead owner's, or an upset is recorded.
LEMMA UnlinkLockKeeps ==
  ASSUME IndexInv, NEW n \in Analyses, UnlinkLock(n)
  PROVE  IndexInv'
<1>1. /\ IndexTypes /\ run[n].pc = "unlink" /\ run' = Retried(n)
      /\ disk' = [disk EXCEPT !.lock = None]
      /\ Note("unlinked", disk.lock \notin {None, run[n].seen})
      /\ head' = head /\ file' = file /\ backend' = backend
  BY DEF IndexInv, UnlinkLock, At
<1>2. /\ {"start", "ended"} \cap (Writing \union Rebuilding \union Holding) = {}
      /\ "unlink" \in Uncreated /\ "unlink" \notin Rebuilding \union Ended \union Holding
  BY DEF Writing, Rebuilding, Holding, Ended, Uncreated, Places
<1>3. disk' \in DiskState /\ disk'.lock = None /\ SameIndex
  BY <1>1 DEF IndexTypes, DiskState, SameIndex
<1>4. SameFiles /\ backend'.open = backend.open
  BY <1>1 DEF SameFiles
<1>5. /\ run' \in [Analyses -> RunState] /\ Alone(n)
      /\ run'[n].pc \in {"ended", "start"} /\ run'[n].db \in {None, run[n].db}
  BY <1>1, RetriedTyped
<1>6. IndexTypes'
  BY <1>1, <1>2, <1>3, <1>5 DEF IndexTypes, Alone
<1>7. Progressed(n)'
  BY <1>5 DEF Progressed, ReadOne
<1>8. /\ upsets \subseteq upsets'
      /\ disk.lock \notin {None, run[n].seen} => "unlinked" \in upsets'
  BY <1>1, Noted
<1>9. ASSUME LockTells, "unlinked" \notin upsets' PROVE LockTells'
  <2>1. Gone(run[n].seen) /\ disk.lock \in {None, run[n].seen}
    BY <1>1, <1>8, <1>9 DEF LockTells
  <2>2. \A m \in Analyses : ~(run[m].pc \in Holding /\ run[m].kind = "cli")
    <3> SUFFICES ASSUME NEW m \in Analyses, run[m].pc \in Holding, run[m].kind = "cli"
                 PROVE  FALSE
      OBVIOUS
    <3>1. disk.lock = m /\ m # None /\ m # 0
      BY <1>9, ValuesTyped, IndexAssumption DEF LockTells, Analyses
    <3>2. run[m].pc \in Ended
      BY <2>1, <3>1 DEF Gone
    <3>3. Holding \cap Ended = {}
      BY DEF Holding, Writing, Ended
    <3> QED
      BY <3>2, <3>3
  <2>3. \A m \in Analyses : ~(run'[m].pc \in Holding /\ run'[m].kind = "cli")
    BY <1>2, <1>5, <2>2 DEF Alone
  <2>4. ASSUME NEW m \in Analyses, run'[m].pc \in {"reclaim", "unlink"}
        PROVE  Gone(run[m].seen)'
    <3>1. run'[m] = run[m] /\ Gone(run[m].seen)
      BY <1>5, <1>9, <2>4 DEF LockTells, Alone
    <3> QED
      BY <1>1, <1>2, <1>5, <3>1 DEF Gone, Alone
  <2>5. disk'.lock \notin Analyses
    BY <1>3, ValuesTyped
  <2> QED
    BY <2>3, <2>4, <2>5 DEF LockTells, Gone
<1>10. ASSUME Exclusive PROVE FALSE
  BY <1>1, <1>10 DEF Exclusive
<1> QED
  BY <1>1, <1>2, <1>3, <1>4, <1>5, <1>6, <1>7, <1>8, <1>9, <1>10, QuietStep

\* The lock of n goes, and with it n.
LEMMA ReleaseKeeps ==
  ASSUME IndexInv, NEW n \in Analyses, Release(n)
  PROVE  IndexInv'
<1>1. /\ IndexTypes /\ run[n].pc = "closed"
      /\ disk' = [disk EXCEPT !.lock = IF @ = n THEN None ELSE @]
      /\ head' = head /\ file' = file /\ backend' = backend /\ upsets' = upsets
  BY DEF IndexInv, Release, At
<1>2. PICK pc \in {"ended", "reported"} : run' = Ending(n, pc)
  BY DEF Release
<1>3. /\ pc \in Ended /\ pc \notin Writing \union Rebuilding \union Uncreated \union Holding
      /\ pc \notin {"uptodate", "read", "scanned", "removed", "loading", "loaded"}
      /\ pc \notin {"reclaim", "unlink", "off"}
      /\ "closed" \notin Rebuilding \union Ended /\ "closed" \in Holding
  BY DEF Writing, Rebuilding, Holding, Ended, Uncreated, Places
<1>4. /\ run' \in [Analyses -> RunState] /\ Alone(n)
      /\ run'[n].pc = pc /\ run'[n].db = None
  BY <1>1, <1>2, <1>3, EndingTyped
<1>5. /\ disk' \in DiskState /\ SameIndex
      /\ disk'.lock = IF disk.lock = n THEN None ELSE disk.lock
  BY <1>1 DEF IndexTypes, DiskState, SameIndex
<1>6. IndexTypes'
  BY <1>1, <1>3, <1>4, <1>5 DEF IndexTypes, Alone
<1>7. Progressed(n)'
  BY <1>3, <1>4 DEF Progressed, ReadOne
<1>8. ASSUME LockTells PROVE LockTells'
  <2>1. \A m \in Analyses : run'[m].pc \in Holding /\ run'[m].kind = "cli" => disk'.lock = m
    BY <1>3, <1>4, <1>5, <1>8 DEF LockTells, Alone
  <2>2. ASSUME NEW m \in Analyses, run'[m].pc \in {"reclaim", "unlink"}
        PROVE  Gone(run[m].seen)'
    <3>1. run'[m] = run[m] /\ Gone(run[m].seen)
      BY <1>3, <1>4, <1>8, <2>2 DEF LockTells, Alone
    <3> QED
      BY <1>3, <1>4, <3>1 DEF Gone, Alone
  <2>3. disk'.lock \in Analyses => run'[disk'.lock].pc # "off"
    BY <1>3, <1>4, <1>5, <1>8, ValuesTyped DEF LockTells, Alone
  <2> QED
    BY <2>1, <2>2, <2>3 DEF LockTells, Gone
<1>9. ASSUME Exclusive PROVE Exclusive'
  <2>1. disk'.lock = None
    BY <1>1, <1>3, <1>5, <1>9 DEF Exclusive
  <2> QED
    BY <1>1, <1>3, <1>4, <1>9, <2>1 DEF Exclusive, Alone
<1>10. SameFiles /\ backend'.open = backend.open
  BY <1>1 DEF SameFiles
<1> QED
  BY <1>1, <1>3, <1>4, <1>5, <1>6, <1>7, <1>8, <1>9, <1>10, QuietStep

-----------------------------------------------------------------------------
(* The steps of an analysis that was let in *)

LEMMA HoldsOn ==
  ASSUME IndexTypes, NEW n \in Analyses, Alone(n), run[n].pc \in Holding, run'[n].pc \in Holding,
         run'[n].kind = run[n].kind, disk'.lock = disk.lock, upsets' = upsets
  PROVE  (LockTells => LockTells') /\ (Exclusive => Exclusive')
<1>1. Holding \cap (Ended \union {"off", "reclaim", "unlink"}) = {}
  BY DEF Holding, Writing, Ended
<1>2. ASSUME LockTells PROVE LockTells'
  BY <1>1, <1>2, LockStays
<1>3. ASSUME Exclusive PROVE Exclusive'
  BY <1>1, <1>3, ExclusiveStays DEF Exclusive
<1> QED
  BY <1>2, <1>3

LEMMA ReadKeeps ==
  ASSUME IndexInv, NEW n \in Analyses, ReadCommit(n) \/ Scan(n)
  PROVE  IndexInv'
<1>1. /\ IndexTypes /\ run[n].pc \in {"locked", "read"}
      /\ head' = head /\ disk' = disk /\ file' = file /\ backend' = backend /\ upsets' = upsets
  BY DEF IndexInv, ReadCommit, Scan, At
<1>2. /\ {"locked", "read", "uptodate", "scanned"} \subseteq Holding \cap Uncreated \cap Places
      /\ {"locked", "read", "uptodate", "scanned"} \cap (Writing \union Rebuilding) = {}
  BY DEF Writing, Rebuilding, Holding, Ended, Uncreated, Places
<1>3. /\ run \in [Analyses -> RunState] /\ run[n] \in RunState /\ head \in Trees
      /\ disk.stamp \in Db
  BY <1>1 DEF IndexTypes, Trees, DiskState
<1>4. \/ /\ run[n].pc = "locked" /\ disk.commit = head
         /\ run' = [run EXCEPT ![n].pc = "uptodate", ![n].commit = head, ![n].meta = disk.stamp]
      \/ run[n].pc = "locked" /\ run' = [run EXCEPT ![n].pc = "read", ![n].commit = head]
      \/ run[n].pc = "read" /\ run' = [run EXCEPT ![n].pc = "scanned", ![n].tree = head]
  BY DEF ReadCommit, Scan, At
<1>5. /\ run' \in [Analyses -> RunState] /\ Alone(n)
      /\ run'[n].db = run[n].db /\ run'[n].kind = run[n].kind
      /\ \/ run'[n].pc = "uptodate" /\ run'[n].commit = disk.commit
         \/ run'[n].pc = "read" /\ run'[n].commit = head
         \/ /\ run[n].pc = "read" /\ run'[n].pc = "scanned"
            /\ run'[n].tree = head /\ run'[n].commit = run[n].commit
  <2>1. CASE /\ disk.commit = head
             /\ run' = [run EXCEPT ![n].pc = "uptodate", ![n].commit = head, ![n].meta = disk.stamp]
    <3> DEFINE s == disk.stamp
               x == [run[n] EXCEPT !.pc = "uptodate", !.commit = head, !.meta = s]
    <3>1. run' = [run EXCEPT ![n] = x] /\ s \in Db
      BY <1>3, <2>1
    <3> HIDE DEF s
    <3>2. /\ x \in RunState /\ x.db = run[n].db /\ x.kind = run[n].kind
          /\ x.pc = "uptodate" /\ x.commit = head
      BY <1>2, <1>3, <3>1 DEF RunState
    <3> HIDE DEF x
    <3> QED
      BY <1>3, <2>1, <3>1, <3>2 DEF Alone
  <2>2. CASE run' = [run EXCEPT ![n].pc = "read", ![n].commit = head]
    BY <1>2, <1>3, <2>2 DEF RunState, Alone
  <2>3. CASE run[n].pc = "read" /\ run' = [run EXCEPT ![n].pc = "scanned", ![n].tree = head]
    BY <1>2, <1>3, <2>3 DEF RunState, Alone
  <2> QED
    BY <1>4, <2>1, <2>2, <2>3
<1>6. IndexTypes'
  BY <1>1, <1>2, <1>5 DEF IndexTypes, Alone
<1>7. Told => Progressed(n)'
  BY <1>1, <1>5 DEF Told, Progressed, ReadOne
<1>8. SameIndex /\ SameFiles /\ backend'.open = backend.open
  BY <1>1 DEF SameIndex, SameFiles
<1>9. (LockTells => LockTells') /\ (Exclusive => Exclusive')
  BY <1>1, <1>2, <1>5, HoldsOn
<1> QED
  BY <1>1, <1>2, <1>5, <1>6, <1>7, <1>8, <1>9, QuietStep

LEMMA FinishKeeps ==
  ASSUME IndexInv, NEW n \in Analyses, Reregister(n) \/ Register(n) \/ CloseDb(n)
  PROVE  IndexInv'
<1>1. /\ IndexTypes /\ run[n].pc \in {"uptodate", "saved", "registered"}
      /\ head' = head /\ backend' = backend /\ upsets' = upsets
  BY DEF IndexInv, Reregister, Register, CloseDb, At
<1>2. /\ {"uptodate", "saved", "registered", "closed"} \subseteq Holding \cap Places
      /\ {"uptodate", "saved", "registered", "closed"} \cap Rebuilding = {}
      /\ {"registered", "closed"} \cap Uncreated = {} /\ "saved" \in Writing
      /\ "closed" \notin Writing
  BY DEF Writing, Rebuilding, Holding, Ended, Uncreated, Places
<1>3. PICK pc \in {"registered", "closed"} :
        Goto(n, pc) /\ (pc = "registered" => run[n].pc = "saved")
  BY DEF Reregister, Register, CloseDb, At
<1>4. /\ run' \in [Analyses -> RunState] /\ Alone(n)
      /\ run'[n].pc = pc /\ run'[n].db = run[n].db /\ run'[n].kind = run[n].kind
  BY <1>1, <1>2, <1>3, GotoTyped
<1>5. disk' \in DiskState /\ disk'.lock = disk.lock /\ SameIndex
  <2>1. run[n].meta \in Db /\ n \in Db /\ disk \in DiskState
    BY <1>1, ValuesTyped DEF IndexTypes, RunState
  <2>2. PICK s \in Db : disk' = [disk EXCEPT !.registered = s] \/ disk' = disk
    BY <2>1 DEF Reregister, Register, CloseDb
  <2> QED
    BY <2>1, <2>2 DEF DiskState, SameIndex
<1>6. file' \in [Db -> FileState] /\ SameFiles
  <2>1. CASE file' = file
    BY <1>1, <2>1 DEF IndexTypes, SameFiles
  <2>2. CASE run[n].pc = "registered" /\ file' = [file EXCEPT ![run[n].db].wal = FALSE]
    <3>1. run[n].db \in Db /\ file \in [Db -> FileState]
      BY <1>1, <2>2 DEF IndexTypes, RunState, Writing
    <3> QED
      BY <2>2, <3>1 DEF FileState, SameFiles
  <2> QED
    BY <2>1, <2>2 DEF Reregister, Register, CloseDb, At
<1>7. IndexTypes'
  BY <1>1, <1>2, <1>3, <1>4, <1>5, <1>6 DEF IndexTypes, Alone
<1>8. Progressed(n)'
  BY <1>4 DEF Progressed, ReadOne
<1>9. (LockTells => LockTells') /\ (Exclusive => Exclusive')
  BY <1>1, <1>2, <1>4, <1>5, HoldsOn
<1> QED
  BY <1>1, <1>2, <1>4, <1>5, <1>6, <1>7, <1>8, <1>9, QuietStep

\* A crash or a failure: only the lock file can still be relied on.
LEMMA FaultKeeps ==
  ASSUME IndexInv, NEW n \in Analyses, Fail(n) \/ Crash(n)
  PROVE  IndexInv'
<1>1. /\ IndexTypes /\ run[n].pc \in Holding /\ Note("fault", TRUE)
      /\ head' = head /\ disk' = disk /\ backend' = backend
  BY DEF IndexInv, Fail, Crash
<1>2. upsets \subseteq upsets' /\ "fault" \in upsets'
  BY <1>1, Noted
<1>3. /\ "closed" \notin Writing \union Rebuilding \union Ended \union Uncreated
      /\ "crashed" \in Ended /\ "closed" \in Holding
      /\ "crashed" \notin Writing \union Rebuilding \union Uncreated \union Holding
  BY DEF Writing, Rebuilding, Holding, Ended, Uncreated, Places
<1>4. /\ run' \in [Analyses -> RunState] /\ Alone(n) /\ run'[n].db = None
      /\ \/ run'[n].pc = "closed" /\ run'[n].kind = run[n].kind
         \/ run'[n].pc = "crashed"
  <2>1. CASE run' = Failed(n)
    BY <1>1, <2>1, FailedTyped
  <2>2. CASE run' = Ending(n, "crashed")
    BY <1>1, <1>3, <2>2, EndingTyped
  <2> QED
    BY <2>1, <2>2 DEF Fail, Crash
<1>5. file' \in [Db -> FileState] /\ SameFiles
  <2>1. CASE file' = Wal(n, FALSE)
    BY <1>1, <2>1, WalTyped DEF SameFiles
  <2>2. CASE file' = file
    BY <1>1, <2>2 DEF IndexTypes, SameFiles
  <2> QED
    BY <2>1, <2>2 DEF Fail, Crash
<1>6. IndexTypes'
  BY <1>1, <1>3, <1>4, <1>5 DEF IndexTypes, Alone
<1>7. ~Calm'
  BY <1>2 DEF Calm
<1>8. ASSUME LockTells PROVE LockTells'
  <2>1. Holding \cap (Ended \union {"reclaim", "unlink"}) = {}
    BY DEF Holding, Writing, Ended
  <2> QED
    BY <1>1, <1>3, <1>4, <1>8, <2>1, LockStays
<1>9. SameIndex /\ backend'.open = backend.open
  BY <1>1 DEF SameIndex
<1> QED
  BY <1>1, <1>2, <1>3, <1>4, <1>5, <1>6, <1>7, <1>8, <1>9, QuietStep

-----------------------------------------------------------------------------
(* The steps that rebuild the database *)

\* What such a step of analysis n starts from and keeps.
Rebuilds(n) ==
  /\ IndexInv /\ IndexTypes /\ Fresh /\ run[n].pc \in Holding
  /\ head' = head /\ backend' = backend /\ upsets' = upsets

LEMMA RebuildStep ==
  ASSUME NEW n \in Analyses, Rebuilds(n), IndexTypes', Alone(n), run'[n].pc \in Holding,
         run'[n].kind = run[n].kind, disk'.lock = disk.lock, Fresh',
         "fault" \notin upsets /\ Served => Served',
         Exclusive /\ Told => Progressed(n)' /\ (run'[n].pc \in Rebuilding \/ MetaTrue')
  PROVE  IndexInv'
<1>1. (LockTells => LockTells') /\ (Exclusive => Exclusive')
  BY HoldsOn DEF Rebuilds
<1>2. ASSUME Exclusive, Told PROVE Told'
  BY <1>2, RebuildTells DEF Rebuilds
<1> QED
  BY <1>1, <1>2, Conclude DEF Rebuilds

LEMMA RemoveDbKeeps ==
  ASSUME IndexInv, NEW n \in Analyses, RemoveDb(n)
  PROVE  IndexInv'
<1>1. /\ Rebuilds(n) /\ run[n].pc = "scanned" /\ file' = file /\ Goto(n, "removed")
      /\ IndexTypes /\ Fresh /\ backend' = backend
  BY DEF IndexInv, Rebuilds, RemoveDb, At, Holding
<1>2. "removed" \in Holding \cap Places \cap Rebuilding /\ "removed" \notin Writing
      /\ "scanned" \in Uncreated
  BY DEF Holding, Places, Rebuilding, Writing, Uncreated, Ended
<1>3. /\ run' \in [Analyses -> RunState] /\ Alone(n)
      /\ run'[n].pc = "removed" /\ run'[n].db = run[n].db /\ run'[n].kind = run[n].kind
      /\ run'[n].commit = run[n].commit /\ run'[n].tree = run[n].tree
  BY <1>1, <1>2, GotoTyped
<1>4. disk' \in DiskState /\ disk'.lock = disk.lock /\ disk'.db = None
  BY <1>1 DEF RemoveDb, IndexTypes, DiskState
<1>5. IndexTypes'
  BY <1>1, <1>2, <1>3, <1>4 DEF Rebuilds, IndexTypes, Alone
<1>6. Fresh'
  BY <1>1, <1>2, <1>3, <1>4, FreshStays
<1>7. ASSUME Served PROVE Served'
  BY <1>1, <1>3, <1>4, <1>7, ServedStays
<1>8. ASSUME Told PROVE Progressed(n)'
  BY <1>1, <1>3, <1>4, <1>8 DEF Rebuilds, Told, Progressed, ReadOne
<1> QED
  BY <1>1, <1>2, <1>3, <1>4, <1>5, <1>6, <1>7, <1>8, RebuildStep

\* The new database is nobody's yet, and it is locked until it is complete.
LEMMA CreateDbKeeps ==
  ASSUME IndexInv, NEW n \in Analyses, CreateDb(n)
  PROVE  IndexInv'
<1> DEFINE x == [tree |-> run[n].tree, full |-> FALSE, wal |-> TRUE]
           r == [run[n] EXCEPT !.pc = "loading", !.db = n]
<1>1. /\ Rebuilds(n) /\ run[n].pc = "removed" /\ disk.db = None
      /\ IndexTypes /\ Fresh /\ backend' = backend
      /\ disk' = [disk EXCEPT !.db = n] /\ file' = [file EXCEPT ![n] = x]
  BY DEF IndexInv, Rebuilds, CreateDb, At, Holding
<1>2. /\ "loading" \in Holding \cap Places \cap Rebuilding /\ "loading" \notin Uncreated
      /\ "removed" \in Uncreated
  BY DEF Holding, Places, Rebuilding, Writing, Uncreated, Ended
<1>3. n \in Db /\ n # None /\ run[n] \in RunState /\ run \in [Analyses -> RunState]
  BY <1>1, ValuesTyped DEF IndexTypes
<1>4. /\ run' \in [Analyses -> RunState] /\ Alone(n)
      /\ run'[n].pc = "loading" /\ run'[n].db = n /\ run'[n].kind = run[n].kind
      /\ run'[n].commit = run[n].commit /\ run'[n].tree = run[n].tree
  <2>1. run' = [run EXCEPT ![n] = r]
    BY <1>3 DEF CreateDb
  <2>2. /\ r \in RunState /\ r.pc = "loading" /\ r.db = n /\ r.kind = run[n].kind
        /\ r.commit = run[n].commit /\ r.tree = run[n].tree
    BY <1>2, <1>3 DEF RunState
  <2> HIDE DEF r
  <2> QED
    BY <1>3, <2>1, <2>2 DEF Alone
<1>5. disk' \in DiskState /\ disk'.lock = disk.lock /\ disk'.db = n
  BY <1>1, <1>3 DEF IndexTypes, DiskState
<1>6. /\ file' \in [Db -> FileState] /\ file'[n].tree = run[n].tree
      /\ \A d \in Db \ {n} : file'[d] = file[d]
  <2>1. x \in FileState /\ x.tree = run[n].tree
    BY <1>3 DEF RunState, FileState
  <2> HIDE DEF x
  <2> QED
    BY <1>1, <1>3, <2>1 DEF IndexTypes
<1>7. IndexTypes'
  BY <1>1, <1>3, <1>4, <1>5, <1>6 DEF Rebuilds, IndexTypes, Alone
<1>8. Fresh'
  <2> SUFFICES ASSUME NEW k \in Analyses, run'[k].pc \in Uncreated, NEW m \in Analyses
               PROVE  disk'.db # k /\ backend'.open # k /\ run'[m].db # k
    BY DEF Fresh
  <2>1. k # n /\ run[k].pc \in Uncreated
    BY <1>2, <1>4 DEF Alone
  <2>2. backend.open # k /\ run[m].db # k
    BY <1>1, <2>1 DEF Fresh
  <2> QED
    BY <1>1, <1>4, <1>5, <2>1, <2>2 DEF Alone
<1>9. ASSUME Served PROVE Served'
  <2>1. backend.open # n
    BY <1>1, <1>2 DEF Fresh
  <2>2. backend.open # None => backend.open \in Db
    BY <1>1 DEF IndexTypes, BackendState
  <2> QED
    BY <1>1, <1>4, <1>5, <1>6, <1>9, <2>1, <2>2 DEF Served
<1>10. ASSUME Told PROVE Progressed(n)'
  BY <1>1, <1>4, <1>5, <1>6, <1>10 DEF Rebuilds, Told, Progressed, ReadOne
<1> QED
  BY <1>1, <1>2, <1>4, <1>5, <1>7, <1>8, <1>9, <1>10, RebuildStep

LEMMA LoadKeeps ==
  ASSUME IndexInv, NEW n \in Analyses, Load(n)
  PROVE  IndexInv'
<1> DEFINE d == run[n].db
           t == IF run[n].tree = head THEN file[d].tree ELSE None
<1>1. /\ Rebuilds(n) /\ run[n].pc = "loading" /\ Goto(n, "loaded") /\ disk' = disk
      /\ IndexTypes /\ Fresh /\ backend' = backend
      /\ file' = [file EXCEPT ![d].full = TRUE, ![d].tree = IF run[n].tree = head THEN @ ELSE None]
  BY DEF IndexInv, Rebuilds, Load, At, Holding, Writing
<1>2. /\ {"loading", "loaded"} \subseteq Holding \cap Places \cap Rebuilding \cap Writing
      /\ "loaded" \notin Uncreated
  BY DEF Holding, Places, Rebuilding, Writing, Uncreated
<1>3. d \in Db /\ d # None /\ file \in [Db -> FileState] /\ file[d] \in FileState
  BY <1>1, <1>2 DEF IndexTypes, RunState
<1>4. /\ run' \in [Analyses -> RunState] /\ Alone(n)
      /\ run'[n].pc = "loaded" /\ run'[n].db = d /\ run'[n].kind = run[n].kind
      /\ run'[n].commit = run[n].commit /\ run'[n].tree = run[n].tree
  BY <1>1, <1>2, GotoTyped
<1>5. /\ file' \in [Db -> FileState] /\ file'[d].full /\ file'[d].tree = t
      /\ \A e \in Db \ {d} : file'[e] = file[e]
  <2> DEFINE x == [file[d] EXCEPT !.full = TRUE, !.tree = t]
  <2>1. t \in Trees
    BY <1>3 DEF FileState, Trees
  <2>2. x \in FileState /\ x.full /\ x.tree = t
    <3> HIDE DEF t
    <3> QED
      BY <1>3, <2>1 DEF FileState
  <2>3. file' = [file EXCEPT ![d] = x]
    BY <1>1, <1>3 DEF FileState
  <2> HIDE DEF x, d
  <2> QED
    BY <1>3, <2>2, <2>3
<1> HIDE DEF d
<1>6. IndexTypes'
  BY <1>1, <1>3, <1>4, <1>5 DEF Rebuilds, IndexTypes, Alone
<1>7. Fresh'
  BY <1>1, <1>2, <1>4, FreshStays DEF d
<1>8. ASSUME Served PROVE Served'
  <2>1. \A e \in Db : file[e].full => file'[e].full
    BY <1>5
  <2>2. file'[run[n].db].full
    BY <1>5 DEF d
  <2> QED
    BY <1>1, <1>4, <1>8, <2>1, <2>2, ServedStays
<1>9. ASSUME Told PROVE Progressed(n)'
  <2>1. disk.db = n /\ d = n /\ ("checkout" \notin upsets => ReadOne(n))
    BY <1>1, <1>9 DEF Told, Progressed, d
  <2>2. ReadOne(n) => ReadOne(n)'
    BY <1>1, <1>4, <1>5, <2>1 DEF Rebuilds, ReadOne
  <2> QED
    BY <1>1, <1>4, <1>5, <2>1, <2>2 DEF Rebuilds, Progressed
<1>10. run[n].pc = "loading" /\ disk'.lock = disk.lock
  BY <1>1
<1> QED
  BY <1>1, <1>2, <1>4, <1>6, <1>7, <1>8, <1>9, <1>10, RebuildStep

LEMMA SaveMetaKeeps ==
  ASSUME IndexInv, NEW n \in Analyses, SaveMeta(n)
  PROVE  IndexInv'
<1>1. /\ Rebuilds(n) /\ run[n].pc = "loaded" /\ Goto(n, "saved") /\ file' = file
      /\ IndexTypes /\ Fresh /\ backend' = backend
      /\ disk' = [disk EXCEPT !.commit = run[n].commit, !.stamp = n]
  BY DEF IndexInv, Rebuilds, SaveMeta, At, Holding, Writing
<1>2. /\ {"loaded", "saved"} \subseteq Holding \cap Places \cap Writing
      /\ "saved" \notin Uncreated
  BY DEF Holding, Places, Writing, Uncreated
<1>3. /\ run' \in [Analyses -> RunState] /\ Alone(n)
      /\ run'[n].pc = "saved" /\ run'[n].db = run[n].db /\ run'[n].kind = run[n].kind
  BY <1>1, <1>2, GotoTyped
<1>4. /\ disk' \in DiskState /\ disk'.lock = disk.lock /\ disk'.db = disk.db
      /\ disk'.stamp = n /\ disk'.commit = run[n].commit
  <2>1. run[n].commit \in Trees /\ n \in Db /\ disk \in DiskState
    BY <1>1, ValuesTyped DEF IndexTypes, RunState
  <2> QED
    BY <1>1, <2>1 DEF DiskState
<1>5. IndexTypes'
  BY <1>1, <1>2, <1>3, <1>4 DEF Rebuilds, IndexTypes, Alone
<1>6. Fresh'
  BY <1>1, <1>2, <1>3, <1>4, FreshStays
<1>7. ASSUME Served PROVE Served'
  BY <1>1, <1>3, <1>4, <1>7, ServedStays
<1>8. ASSUME Told PROVE Progressed(n)' /\ MetaTrue'
  <2>1. /\ disk.db = n /\ file[n].full
        /\ "checkout" \notin upsets => file[n].tree = run[n].commit
    BY <1>1, <1>8 DEF Told, Progressed, ReadOne
  <2>2. MetaTrue'
    BY <1>1, <1>4, <2>1 DEF Rebuilds, MetaTrue
  <2> QED
    BY <1>3, <2>2 DEF Progressed, ReadOne
<1> QED
  BY <1>1, <1>2, <1>3, <1>4, <1>5, <1>6, <1>7, <1>8, RebuildStep

\* The database of another analysis is there: the two overlap, or something went
\* wrong.  Nobody has it open or locked, and from now on it is locked.
LEMMA OpenOtherDbKeeps ==
  ASSUME IndexInv, NEW n \in Analyses, OpenOtherDb(n)
  PROVE  IndexInv'
<1> DEFINE d == disk.db
           x == [tree |-> None, full |-> FALSE, wal |-> TRUE]
           r == [run[n] EXCEPT !.pc = "loading", !.db = d]
<1>1. /\ IndexTypes /\ Fresh /\ run[n].pc = "removed" /\ d # None
      /\ head' = head /\ disk' = disk /\ backend' = backend /\ upsets' = upsets
  BY DEF IndexInv, OpenOtherDb, At
<1>2. /\ {"removed", "loading", "closed"} \subseteq Holding \cap Places
      /\ {"loading", "closed"} \cap Uncreated = {} /\ "closed" \notin Writing
      /\ "loading" # "closed"
  BY DEF Holding, Places, Writing, Uncreated
<1>3. d \in Db /\ run[n] \in RunState /\ run \in [Analyses -> RunState] /\ disk \in DiskState
  BY <1>1 DEF IndexTypes, DiskState
<1>4. ~Told
  BY <1>1 DEF Told, Progressed
<1>5. CASE run' = Failed(n) /\ file' = file
  <2>1. /\ run' \in [Analyses -> RunState] /\ Alone(n)
        /\ run'[n].pc = "closed" /\ run'[n].db = None /\ run'[n].kind = run[n].kind
    BY <1>1, <1>5, FailedTyped
  <2>2. IndexTypes'
    BY <1>1, <1>2, <1>5, <2>1 DEF IndexTypes, Alone
  <2>3. Fresh'
    BY <1>1, <1>2, <2>1, FreshStays
  <2>4. LockTells => LockTells'
    BY <1>1, <1>2, <2>1, HoldsOn
  <2>5. ASSUME Served PROVE Served'
    BY <1>1, <1>5, <2>1, <2>5, ServedStays
  <2> QED
    BY <1>1, <1>4, <2>2, <2>3, <2>4, <2>5, Conclude
<1>6. CASE /\ backend.open # d /\ file' = [file EXCEPT ![d] = x]
           /\ run' = [run EXCEPT ![n].pc = "loading", ![n].db = d]
  <2>1. /\ run' \in [Analyses -> RunState] /\ Alone(n)
        /\ run'[n].pc = "loading" /\ run'[n].db = d /\ run'[n].kind = run[n].kind
    <3>1. run' = [run EXCEPT ![n] = r]
      BY <1>3, <1>6
    <3>2. r \in RunState /\ r.pc = "loading" /\ r.db = d /\ r.kind = run[n].kind
      <4> HIDE DEF d
      <4> QED
        BY <1>2, <1>3 DEF RunState
    <3> HIDE DEF r
    <3> QED
      BY <1>3, <3>1, <3>2 DEF Alone
  <2>2. file' \in [Db -> FileState] /\ \A e \in Db \ {d} : file'[e] = file[e]
    <3>1. x \in FileState
      BY DEF FileState, Trees
    <3> HIDE DEF x
    <3> QED
      BY <1>1, <1>3, <1>6, <3>1 DEF IndexTypes
  <2>3. IndexTypes'
    BY <1>1, <2>1, <2>2 DEF IndexTypes, Alone
  <2>4. Fresh'
    BY <1>1, <1>2, <2>1, FreshStays
  <2>5. LockTells => LockTells'
    BY <1>1, <1>2, <2>1, HoldsOn
  <2>6. ASSUME Served PROVE Served'
    <3>1. backend.open # None => backend.open \in Db
      BY <1>1 DEF IndexTypes, BackendState
    <3> QED
      BY <1>1, <1>6, <2>1, <2>2, <2>6, <3>1 DEF Served
  <2> QED
    BY <1>1, <1>4, <2>3, <2>4, <2>5, <2>6, Conclude
<1> QED
  BY <1>5, <1>6 DEF OpenOtherDb

-----------------------------------------------------------------------------
(* The working tree and the backend *)

LEMMA CommitKeeps ==
  ASSUME IndexInv, Commit
  PROVE  IndexInv'
<1>1. /\ IndexTypes /\ Fresh /\ head' \in Commits
      /\ disk' = disk /\ file' = file /\ run' = run /\ backend' = backend
      /\ Note("checkout", \E n \in Analyses :
                            run[n].pc \in {"read", "scanned", "removed", "loading"})
  BY DEF IndexInv, Commit
<1>2. /\ upsets \subseteq upsets' /\ ("unlinked" \in upsets' => "unlinked" \in upsets)
      /\ "checkout" \notin upsets' => \A n \in Analyses :
           run[n].pc \notin {"read", "scanned", "removed", "loading"}
  BY <1>1 DEF Note
<1>3. IndexTypes' /\ Fresh'
  BY <1>1 DEF IndexTypes, Fresh
<1>4. (LockTells => LockTells') /\ (Served => Served') /\ (Exclusive => Exclusive')
  BY <1>1, <1>2 DEF LockTells, Gone, Served, Exclusive
<1>5. ASSUME Told PROVE Told'
  <2>1. ASSUME NEW n \in Analyses PROVE Progressed(n)'
    BY <1>1, <1>2, <1>5 DEF Told, Progressed, ReadOne
  <2>2. Settled'
    BY <1>1, <1>2, <1>5 DEF Told, Settled, MetaTrue
  <2> QED
    BY <2>1, <2>2 DEF Told
<1> QED
  BY <1>2, <1>3, <1>4, <1>5, Conclude

\* A step of the backend opens at most a database that is complete.
LEMMA BackendKeeps ==
  ASSUME IndexInv, backend' \in BackendState, UNCHANGED <<head, disk, file, run>>,
         upsets \subseteq upsets', "unlinked" \in upsets' => "unlinked" \in upsets,
         \/ backend'.open \in {None, backend.open}
         \/ disk.db # None /\ ~WriteLocked(disk.db) /\ backend'.open = disk.db
  PROVE  IndexInv'
<1>1. IndexTypes /\ Fresh
  BY DEF IndexInv
<1>2. IndexTypes'
  BY <1>1 DEF IndexTypes
<1>3. Fresh'
  <2> SUFFICES ASSUME NEW k \in Analyses, run[k].pc \in Uncreated
               PROVE  disk.db # k /\ backend'.open # k /\ \A m \in Analyses : run[m].db # k
    BY DEF Fresh
  <2>1. k # None
    BY ValuesTyped
  <2> QED
    BY <1>1, <2>1 DEF Fresh
<1>4. (LockTells => LockTells') /\ (Exclusive => Exclusive')
  BY DEF LockTells, Gone, Exclusive
<1>5. ASSUME Served PROVE Served'
  <2>1. ~WriteLocked(disk.db) =>
          ~ \E n \in Analyses : run[n].pc = "loading" /\ run[n].db = disk.db
    BY DEF WriteLocked, Writing
  <2> QED
    BY <1>5, <2>1 DEF Served
<1>6. ASSUME Told PROVE Told'
  <2>1. ASSUME NEW n \in Analyses PROVE Progressed(n)'
    BY <1>6 DEF Told, Progressed, ReadOne
  <2>2. Settled'
    BY <1>6 DEF Told, Settled, MetaTrue
  <2> QED
    BY <2>1, <2>2 DEF Told
<1> QED
  BY <1>2, <1>3, <1>4, <1>5, <1>6, Conclude

LEMMA RefreshedTyped ==
  ASSUME IndexTypes, Refreshed
  PROVE  /\ backend' \in BackendState /\ backend'.open = backend.open
         /\ upsets \subseteq upsets' /\ ("unlinked" \in upsets' => "unlinked" \in upsets)
<1> DEFINE s == disk.registered
           o == backend.pc # "idle"
<1>1. backend' = [backend EXCEPT !.stamp = s, !.orphan = o]
  BY DEF Refreshed
<1>2. s \in Db /\ backend \in BackendState /\ o \in BOOLEAN
  BY DEF IndexTypes, DiskState
<1>3. backend' \in BackendState /\ backend'.open = backend.open
  <2> HIDE DEF s, o
  <2> QED
    BY <1>1, <1>2 DEF BackendState
<1> QED
  BY <1>3 DEF Refreshed, Note

\* The server's reload: its analysis has ended, the handle is a new one.
LEMMA ReloadKeeps ==
  ASSUME IndexInv, NEW n \in Analyses, Reload(n)
  PROVE  IndexInv'
<1>1. /\ IndexTypes /\ Fresh /\ run[n].pc = "reported"
      /\ head' = head /\ disk' = disk /\ file' = file
  BY DEF IndexInv, Reload, At
<1>2. PICK pc \in {"complete", "ended"} : Goto(n, pc)
  BY DEF Reload
<1>3. /\ backend' \in BackendState /\ backend'.open = backend.open
      /\ upsets \subseteq upsets' /\ ("unlinked" \in upsets' => "unlinked" \in upsets)
  BY <1>1, RefreshedTyped DEF Reload, IndexTypes
<1>4. /\ {"complete", "ended", "reported"} \subseteq Ended \cap Places
      /\ {"complete", "ended", "reported"} \cap (Writing \union Rebuilding) = {}
      /\ {"complete", "ended", "reported"} \cap Holding = {}
      /\ {"complete", "ended", "reported"} \cap Uncreated = {}
  BY DEF Writing, Rebuilding, Holding, Ended, Uncreated, Places
<1>5. /\ run' \in [Analyses -> RunState] /\ Alone(n)
      /\ run'[n].pc = pc /\ run'[n].db = run[n].db
  BY <1>1, <1>2, <1>4, GotoTyped
<1>6. IndexTypes'
  BY <1>1, <1>3, <1>4, <1>5 DEF IndexTypes, Alone
<1>7. Progressed(n)'
  BY <1>5 DEF Progressed, ReadOne
<1>8. ASSUME LockTells PROVE LockTells'
  BY <1>1, <1>4, <1>5, <1>8, LockStays
<1>9. ASSUME Exclusive PROVE Exclusive'
  BY <1>1, <1>3, <1>4, <1>5, <1>9, ExclusiveStays DEF Exclusive
<1>10. SameIndex /\ SameFiles
  BY <1>1 DEF SameIndex, SameFiles
<1> QED
  BY <1>1, <1>3, <1>4, <1>5, <1>6, <1>7, <1>8, <1>9, <1>10, QuietStep

LEMMA BackendStepKeeps ==
  ASSUME IndexInv, Refresh \/ CloseTimesOut \/ IdleClose \/ Serving
  PROVE  IndexInv'
<1>1. backend \in BackendState /\ disk \in DiskState /\ IndexTypes
  BY DEF IndexInv, IndexTypes
<1>2. UNCHANGED <<head, disk, file, run>>
  BY DEF Refresh, CloseTimesOut, IdleClose, Serving, EnsureInitialized, Preflight, CloseEntry,
         OpenDb, Unchanged
<1>3. CASE Refresh
  BY <1>1, <1>2, <1>3, RefreshedTyped, BackendKeeps DEF Refresh
<1>4. CASE CloseTimesOut
  <2>1. /\ backend' = [backend EXCEPT !.pc = "idle", !.orphan = FALSE]
        /\ Note("timeout", TRUE)
    BY <1>4 DEF CloseTimesOut
  <2>2. backend' \in BackendState /\ backend'.open = backend.open
    BY <1>1, <2>1 DEF BackendState
  <2>3. upsets \subseteq upsets' /\ ("unlinked" \in upsets' => "unlinked" \in upsets)
    BY <2>1 DEF Note
  <2> QED
    BY <1>2, <2>2, <2>3, BackendKeeps
<1>5. CASE IdleClose \/ CloseEntry
  <2>1. /\ upsets' = upsets
        /\ \/ backend' = [backend EXCEPT !.open = None]
           \/ backend' = [backend EXCEPT !.pc = "opening", !.open = None]
    BY <1>5 DEF IdleClose, CloseEntry
  <2>2. backend' \in BackendState /\ backend'.open = None
    BY <1>1, <2>1 DEF BackendState
  <2> QED
    BY <1>2, <2>1, <2>2, BackendKeeps
<1>6. CASE EnsureInitialized
  <2>1. /\ upsets' = upsets
        /\ \/ backend' = [backend EXCEPT !.pc = "preflight"]
           \/ backend' = [backend EXCEPT !.pc = "recheck", !.read = disk.stamp]
    BY <1>6 DEF EnsureInitialized
  <2>2. disk.stamp \in Db
    BY <1>1 DEF DiskState
  <2>3. backend' \in BackendState /\ backend'.open = backend.open
    BY <1>1, <2>1, <2>2 DEF BackendState
  <2> QED
    BY <1>2, <2>1, <2>3, BackendKeeps
<1>7. CASE Preflight
  <2> DEFINE s == IF backend.orphan THEN backend.stamp ELSE backend.read
  <2>1. upsets' = upsets /\ s \in Db
    BY <1>1, <1>7 DEF Preflight, BackendState
  <2>2. \/ backend' = [backend EXCEPT !.pc = "idle", !.orphan = FALSE, !.read = 0]
        \/ backend' = [backend EXCEPT !.pc = "opening"]
        \/ backend' = [backend EXCEPT !.pc = "closing", !.read = 0, !.stamp = s]
    BY <1>1, <1>7 DEF Preflight, BackendState
  <2> HIDE DEF s
  <2>3. backend' \in BackendState /\ backend'.open = backend.open
    BY <1>1, <2>1, <2>2, ValuesTyped DEF BackendState
  <2> QED
    BY <1>2, <2>1, <2>3, BackendKeeps
<1>8. CASE OpenDb
  <2> DEFINE e == IF disk.db = None \/ WriteLocked(disk.db) THEN None ELSE disk.db
  <2>1. /\ upsets' = upsets /\ e \in Db \union {None}
        /\ backend' = [backend EXCEPT !.pc = "idle", !.orphan = FALSE, !.open = e]
    BY <1>1, <1>8 DEF OpenDb, DiskState
  <2>2. e = None \/ (disk.db # None /\ ~WriteLocked(disk.db) /\ e = disk.db)
    OBVIOUS
  <2> HIDE DEF e
  <2>3. backend' \in BackendState /\ backend'.open = e
    BY <1>1, <2>1 DEF BackendState
  <2> QED
    BY <1>2, <2>1, <2>2, <2>3, BackendKeeps
<1> QED
  BY <1>3, <1>4, <1>5, <1>6, <1>7, <1>8 DEF Serving

-----------------------------------------------------------------------------
(* The invariant *)

LEMMA IndexStarts ==
  ASSUME Init
  PROVE  IndexInv
<1> DEFINE l == IF upsets = {} THEN None ELSE 0
           w == upsets # {}
<1>1. head \in Commits /\ upsets \in {{}, {"fault"}}
  BY IndexAssumption DEF Init
<1>2. /\ disk = [db |-> 0, commit |-> head, stamp |-> 0, registered |-> 0, lock |-> l,
                 written |-> w]
      /\ l \in Db \union {None} /\ w \in BOOLEAN
  BY ValuesTyped DEF Init
<1>3. disk \in DiskState /\ disk.db = 0 /\ disk.stamp = 0 /\ disk.commit = head /\ disk.lock = l
  <2> HIDE DEF l, w
  <2> QED
    BY <1>1, <1>2, ValuesTyped DEF DiskState, Trees
<1>4. /\ file \in [Db -> FileState] /\ file[0].full /\ file[0].tree = head
  <2>1. ASSUME NEW d \in Db, NEW b \in BOOLEAN
        PROVE  [tree |-> head, full |-> b, wal |-> FALSE] \in FileState
    BY <1>1 DEF FileState, Trees
  <2>2. file = [d \in Db |-> [tree |-> head, full |-> d = 0, wal |-> FALSE]]
    BY DEF Init
  <2>3. \A d \in Db : (d = 0) \in BOOLEAN
    OBVIOUS
  <2>4. file \in [Db -> FileState]
    BY <2>1, <2>2, <2>3
  <2> QED
    BY <2>2, <2>4, ValuesTyped
<1>5. /\ run \in [Analyses -> RunState]
      /\ \A n \in Analyses : run[n].pc = "off" /\ run[n].db = None
  <2>1. NewRun \in RunState /\ NewRun.pc = "off" /\ NewRun.db = None
    BY ValuesTyped DEF NewRun, RunState, Places, Trees
  <2>2. run = [n \in Analyses |-> NewRun]
    BY DEF Init
  <2> HIDE DEF NewRun
  <2> QED
    BY <2>1, <2>2
<1>6. backend \in BackendState /\ backend.open = None
  BY ValuesTyped DEF Init, BackendState
<1>7. /\ "off" \notin Holding \union Writing \union Rebuilding
      /\ \A n \in Analyses : n # None /\ n # 0
  BY ValuesTyped, IndexAssumption DEF Holding, Writing, Rebuilding, Analyses
<1>8. IndexTypes
  BY <1>1, <1>3, <1>4, <1>5, <1>6, <1>7 DEF IndexTypes
<1>9. Fresh
  BY <1>3, <1>5, <1>6, <1>7 DEF Fresh
<1>10. LockTells /\ Served
  BY <1>3, <1>4, <1>5, <1>6, <1>7, ValuesTyped DEF LockTells, Served
<1>11. ASSUME Calm PROVE Exclusive /\ Told
  <2>1. upsets = {} /\ disk.lock = None
    BY <1>1, <1>3, <1>11 DEF Calm
  <2>2. Exclusive
    BY <1>5, <1>7, <2>1 DEF Exclusive
  <2>3. Told
    BY <1>3, <1>4, <1>5 DEF Told, Progressed, ReadOne, Settled, MetaTrue
  <2> QED
    BY <2>2, <2>3
<1> QED
  BY <1>8, <1>9, <1>10, <1>11 DEF IndexInv

LEMMA IndexInvKept ==
  ASSUME IndexInv, [Next]_vars
  PROVE  IndexInv'
<1>1. CASE UNCHANGED vars
  <2>1. UNCHANGED <<head, disk, file, run, backend, upsets>>
    BY <1>1 DEF vars
  <2>2. backend' \in BackendState
    BY <2>1 DEF IndexInv, IndexTypes
  <2> QED
    BY <2>1, <2>2, BackendKeeps
<1>2. ASSUME NEW n \in Analyses, Locking(n) PROVE IndexInv'
  BY <1>2, CreateLockKeeps, WriteLockKeeps, ReadLockKeeps, CompareLockKeeps, UnlinkLockKeeps
  DEF Locking
<1>3. ASSUME NEW n \in Analyses, Analysing(n) PROVE IndexInv'
  BY <1>3, ReadKeeps, FinishKeeps, RemoveDbKeeps, CreateDbKeeps, OpenOtherDbKeeps, LoadKeeps,
     SaveMetaKeeps
  DEF Analysing
<1>4. ASSUME NEW n \in Analyses,
             Start(n) \/ Release(n) \/ Reload(n) \/ Fail(n) \/ Crash(n)
      PROVE  IndexInv'
  BY <1>4, StartKeeps, ReleaseKeeps, ReloadKeeps, FaultKeeps
<1> QED
  BY <1>1, <1>2, <1>3, <1>4, CommitKeeps, BackendStepKeeps DEF Next

\* The lock file, the databases and meta.json agree with what every analysis has
\* done, each as long as nothing happened that the code lets break it.
THEOREM IndexInvHolds == Spec => []IndexInv
<1>1. Init => IndexInv
  BY IndexStarts
<1>2. IndexInv /\ [Next]_vars => IndexInv'
  BY IndexInvKept
<1> QED
  BY <1>1, <1>2, PTL DEF Spec

-----------------------------------------------------------------------------
(* Theorems *)

LEMMA OneAtMost ==
  ASSUME NEW S, \A m, n \in S : m = n
  PROVE  Cardinality(S) <= 1
<1>1. CASE S = {}
  BY <1>1, FS_EmptySet
<1>2. CASE S # {}
  <2>1. PICK n \in S : TRUE
    BY <1>2
  <2>2. S = {n}
    BY <2>1
  <2>3. Cardinality(S) = 1
    BY <2>2, FS_Singleton
  <2> QED
    BY <2>3
<1> QED
  BY <1>1, <1>2

\* Two processes on the command line never analyse at once, whatever crashed and
\* whoever runs beside them, until one unlinks a lock that is not the dead
\* owner's any more.
THEOREM OneAnalyzerAtATime == Spec => []OneAnalyzer
<1>1. IndexInv => OneAnalyzer
  <2> SUFFICES ASSUME IndexInv, "unlinked" \notin upsets
               PROVE  Cardinality({n \in Analyses :
                                     run[n].pc \in Holding /\ run[n].kind = "cli"}) <= 1
    BY DEF OneAnalyzer
  <2> DEFINE S == {n \in Analyses : run[n].pc \in Holding /\ run[n].kind = "cli"}
  <2>1. \A m, n \in S : m = n
    BY DEF IndexInv, LockTells
  <2> HIDE DEF S
  <2>2. Cardinality(S) <= 1
    BY <2>1, OneAtMost
  <2> QED
    BY <2>2 DEF S
<1> QED
  BY <1>1, IndexInvHolds, PTL

\* Unless an analysis crashed, failed or overlapped another one, meta.json names
\* the complete database that is there whenever none is being built, and the
\* commit is that of its tree unless another was checked out meanwhile.
THEOREM MetaTellsTheDb == Spec => []MetaTellsDb
<1>1. IndexInv => MetaTellsDb
  BY DEF IndexInv, Told, Settled, Rebuilding, MetaTrue, MetaTellsDb
<1> QED
  BY <1>1, IndexInvHolds, PTL

\* A backend never serves a database that is still being built, although its
\* checks and its opening are steps apart and analyses overlap.
THEOREM BackendServesComplete == Spec => []ServesComplete
<1>1. IndexInv => ServesComplete
  BY DEF IndexInv, Served, ServesComplete
<1> QED
  BY <1>1, IndexInvHolds, PTL

\* An analysis that ends early because the index is up to date leaves a complete
\* database of the commit that it saw, unless an analysis crashed, failed or
\* overlapped another one, or another commit was checked out while one read.
THEOREM UpToDateWhenCalm ==
  Spec => [](Calm /\ "checkout" \notin upsets => UpToDateIsComplete)
<1>1. IndexInv => (Calm /\ "checkout" \notin upsets => UpToDateIsComplete)
  <2> SUFFICES ASSUME IndexInv, Calm, "checkout" \notin upsets,
                      NEW n \in Analyses, run[n].pc = "uptodate"
               PROVE  disk.db # None /\ file[disk.db].full /\ file[disk.db].tree = run[n].commit
    BY DEF UpToDateIsComplete, At
  <2>1. Exclusive /\ Told /\ disk.stamp \in Db
    BY DEF IndexInv, IndexTypes, DiskState
  <2>2. run[n].commit = disk.commit
    BY <2>1 DEF Told, Progressed
  <2>3. ASSUME NEW m \in Analyses, run[m].pc \in Rebuilding PROVE FALSE
    <3>1. run[m].pc \in Holding /\ run[n].pc \in Holding
      BY <2>3 DEF Rebuilding, Holding, Writing
    <3>2. m = n
      BY <2>1, <3>1 DEF Exclusive
    <3> QED
      BY <2>3, <3>2 DEF Rebuilding
  <2>4. MetaTrue /\ disk.stamp # None
    BY <2>1, <2>3, ValuesTyped DEF Told, Settled
  <2> QED
    BY <2>2, <2>4 DEF MetaTrue
<1> QED
  BY <1>1, IndexInvHolds, PTL
=============================================================================
