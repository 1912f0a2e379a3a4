----------------------------- MODULE Services_proofs -----------------------------
(***************************************************************************)
(* What is proved of each service holds of all of them side by side: a step *)
(* is a step of one service, of the phase runner or of the resolution of     *)
(* methods (MethodResolution_proofs), and leaves the others alone.  The      *)
(* theorems are about the definitions the run `services' checks, for every   *)
(* value of the constants; the phase runner's about the program's lists and  *)
(* all lists of three phases with any number of dependencies each.           *)
(***************************************************************************)
EXTENDS Services, MethodResolution_proofs, DistinctQueues, FunctionTheorems, FiniteSetTheorems, TLAPS

-----------------------------------------------------------------------------
(* The registry lock.  It excludes, for any processes and any number of crashes,
   as long as no process dies or gives up while the file .reclaim is its own.  A
   holder owns the lock file, a reclaimer owns .reclaim, and the owner of .reclaim
   is a reclaimer, hence at work: .reclaim is never taken away.  So one reclaimer
   at a time compares and unlinks, and the owner of what it unlinks died or gave
   up. *)

Gone(p) == Dead(p) \/ At(p, "failed")

HoldersOwnMain ==
  \A p \in Proc : locker[p].pc \in Holding => main.owner = p

ReclaimersOwnReclaim ==
  \A p \in Proc : locker[p].pc \in Reclaiming => reclaim.owner = p

ReclaimOwnerReclaims ==
  \A p \in Proc : reclaim.owner = p => locker[p].pc \in Reclaiming

ReclaimNeverStale ==
  \A p \in Proc : locker[p].pc \notin {"compareReclaim", "unlinkReclaim"}

SeenIsGone ==
  \A p \in Proc : At(p, "compareMain") => locker[p].seen \in Proc /\ Gone(locker[p].seen)

UnlinksOfGone ==
  \A p \in Proc : At(p, "unlinkMain") => main.owner \in Proc /\ Gone(main.owner)

CopyIsCurrent ==
  \A p \in Proc : At(p, "read") => locker[p].copy = entries

\* What holds until a reclaimer dies, and the inductive invariant.
Protected ==
  /\ HoldersOwnMain /\ ReclaimersOwnReclaim /\ ReclaimOwnerReclaims
  /\ ReclaimNeverStale /\ SeenIsGone /\ UnlinksOfGone /\ CopyIsCurrent

LockInv == TypeOK /\ (~lost => Protected)

-----------------------------------------------------------------------------
(* The registry lock: types *)

LEMMA LockPlaces ==
  /\ Holding \subseteq Place /\ Reclaiming \subseteq Place /\ Waiting \subseteq Place
  /\ "done" \in Place /\ "failed" \in Place /\ "dead" \in Place
  /\ "writeMain" \in Place /\ "locked" \in Place /\ "read" \in Place /\ "wrote" \in Place
  /\ "writeReclaim" \in Place /\ "look" \in Place /\ "compareMain" \in Place
  /\ "unlinkMain" \in Place /\ "dropReclaim" \in Place
  /\ "wantMain" \in Place /\ "wantReclaim" \in Place /\ "sawReclaim" \in Place
  /\ "compareReclaim" \in Place /\ "unlinkReclaim" \in Place
BY DEF Place, Holding, Reclaiming, Waiting

LEMMA NoFileType == NoFile \in LockFile
BY DEF NoFile, LockFile

LEMMA InitTypes == Init => TypeOK
<1> SUFFICES ASSUME Init PROVE TypeOK
  OBVIOUS
<1>1. main \in LockFile /\ reclaim \in LockFile
  BY NoFileType DEF Init
<1>2. [pc |-> "wantMain", seen |-> NoOne, copy |-> {}] \in Locker
  BY LockPlaces DEF Locker
<1>3. locker \in [Proc -> Locker]
  BY <1>2 DEF Init
<1> QED
  BY <1>1, <1>3, RegistryAssumption DEF Init, TypeOK

LEMMA GotoTypes ==
  ASSUME TypeOK, NEW p \in Proc, NEW pc \in Place, Goto(p, pc)
  PROVE  locker' \in [Proc -> Locker]
<1>1. [locker[p] EXCEPT !.pc = pc] \in Locker
  BY DEF TypeOK, Locker
<1> QED
  BY <1>1 DEF TypeOK, Goto

LEMMA VerdictTypes ==
  ASSUME TypeOK, NEW p \in Proc, NEW file \in LockFile, NEW compare \in Place,
         NEW unlink \in Place, NEW keep \in Place, Verdict(p, file, compare, unlink, keep)
  PROVE  locker' \in [Proc -> Locker]
<1> DEFINE pc == IF ~Stale(file) THEN keep ELSE IF file.written THEN compare ELSE unlink
<1>1. pc \in Place
  OBVIOUS
<1>2. file.owner \in Proc \union {NoOne}
  BY DEF LockFile
<1>3. locker' = [locker EXCEPT ![p].pc = pc, ![p].seen = file.owner]
  BY DEF Verdict
<1> HIDE DEF pc
<1>4. [locker[p] EXCEPT !.pc = pc, !.seen = file.owner] \in Locker
  <2> DEFINE l == locker[p]
             owner == file.owner
  <2>1. l \in Locker /\ owner \in Proc \union {NoOne}
    BY <1>2 DEF TypeOK
  <2> HIDE DEF l, owner
  <2>2. [l EXCEPT !.pc = pc, !.seen = owner] \in Locker
    BY <1>1, <2>1 DEF Locker
  <2> QED
    BY <2>2 DEF l, owner
<1> QED
  BY <1>3, <1>4 DEF TypeOK

LEMMA WrittenType ==
  ASSUME NEW file \in LockFile
  PROVE  [file EXCEPT !.written = TRUE] \in LockFile
BY DEF LockFile

\* Every action of a process keeps the types.
LEMMA StepTypes ==
  ASSUME TypeOK, NEW p \in Proc, Step(p)
  PROVE  TypeOK'
<1> USE LockPlaces
<1> main \in LockFile /\ reclaim \in LockFile
  BY DEF TypeOK
<1> [owner |-> p, written |-> FALSE] \in LockFile
  BY DEF LockFile
<1>1. CASE OpenMain(p)
  BY <1>1, GotoTypes DEF OpenMain, TypeOK
<1>2. CASE WriteMain(p)
  BY <1>2, GotoTypes, WrittenType DEF WriteMain, TypeOK
<1>3. CASE OpenReclaim(p)
  BY <1>3, GotoTypes DEF OpenReclaim, TypeOK
<1>4. CASE WriteReclaim(p)
  BY <1>4, GotoTypes, WrittenType DEF WriteReclaim, TypeOK
<1>5. CASE ReadReclaim(p)
  <2>1. locker' \in [Proc -> Locker]
    BY <1>5, VerdictTypes DEF ReadReclaim
  <2> QED
    BY <1>5, <2>1 DEF ReadReclaim, TypeOK
<1>6. CASE CompareReclaim(p)
  BY <1>6, GotoTypes DEF CompareReclaim, TypeOK
<1>7. CASE UnlinkReclaim(p)
  BY <1>7, GotoTypes, NoFileType DEF UnlinkReclaim, TypeOK
<1>8. CASE ReadMain(p)
  <2>1. locker' \in [Proc -> Locker]
    BY <1>8, VerdictTypes DEF ReadMain
  <2> QED
    BY <1>8, <2>1 DEF ReadMain, TypeOK
<1>9. CASE CompareMain(p)
  BY <1>9, GotoTypes DEF CompareMain, TypeOK
<1>10. CASE UnlinkMain(p)
  BY <1>10, GotoTypes, NoFileType DEF UnlinkMain, TypeOK
<1>11. CASE DropReclaim(p)
  BY <1>11, GotoTypes, NoFileType DEF DropReclaim, TypeOK
<1>12. CASE GiveUp(p)
  BY <1>12, GotoTypes DEF GiveUp, TypeOK
<1>13. CASE ReadRegistry(p)
  <2>1. locker[p] \in Locker /\ entries \in SUBSET Proc /\ "read" \in Place
    BY DEF TypeOK
  <2>2. [locker[p] EXCEPT !.pc = "read", !.copy = entries] \in Locker
    BY <2>1 DEF Locker
  <2>3. locker' \in [Proc -> Locker]
    BY <1>13, <2>2 DEF ReadRegistry, TypeOK
  <2> QED
    BY <1>13, <2>3 DEF ReadRegistry, TypeOK
<1>14. CASE WriteRegistry(p)
  <2>1. locker[p].copy \subseteq Proc
    BY DEF TypeOK, Locker
  <2> QED
    BY <1>14, <2>1, GotoTypes DEF WriteRegistry, Updated, TypeOK
<1>15. CASE ReleaseMain(p)
  BY <1>15, GotoTypes, NoFileType DEF ReleaseMain, TypeOK
<1>16. CASE Refuse(p)
  BY <1>16, GotoTypes DEF Refuse, TypeOK
<1>17. CASE Crash(p)
  <2>1. crashes' \in Nat /\ lost' \in BOOLEAN
    BY <1>17 DEF Crash, TypeOK
  <2> QED
    BY <1>17, <2>1, GotoTypes DEF Crash, TypeOK
<1> QED
  BY <1>1, <1>2, <1>3, <1>4, <1>5, <1>6, <1>7, <1>8, <1>9, <1>10, <1>11, <1>12,
     <1>13, <1>14, <1>15, <1>16, <1>17 DEF Step

-----------------------------------------------------------------------------
(* The registry lock: who owns what *)

LEMMA InitProtected == Init => LockInv
<1> SUFFICES ASSUME Init PROVE Protected
  BY InitTypes DEF LockInv
<1>1. \A p \in Proc : locker[p].pc = "wantMain" /\ reclaim.owner # p
  BY RegistryAssumption DEF Init, NoFile
<1> QED
  BY <1>1 DEF Protected, HoldersOwnMain, ReclaimersOwnReclaim, ReclaimOwnerReclaims,
     ReclaimNeverStale, SeenIsGone, UnlinksOfGone, CopyIsCurrent, Holding, Reclaiming, At

\* What moving one process leaves alone.
LEMMA GotoElsewhere ==
  ASSUME TypeOK, NEW p \in Proc, NEW pc, Goto(p, pc)
  PROVE  /\ locker'[p].pc = pc /\ locker'[p].seen = locker[p].seen
         /\ locker'[p].copy = locker[p].copy
         /\ \A q \in Proc \ {p} : locker'[q] = locker[q]
BY DEF TypeOK, Goto, Locker

\* A file that is not kept has an owner that died or gave up.
LEMMA VerdictCases ==
  ASSUME TypeOK, NEW p \in Proc, NEW file \in LockFile, NEW compare, NEW unlink, NEW keep,
         Verdict(p, file, compare, unlink, keep)
  PROVE  /\ \A q \in Proc \ {p} : locker'[q] = locker[q]
         /\ locker'[p].copy = locker[p].copy /\ locker'[p].seen = file.owner
         /\ \/ locker'[p].pc = keep
            \/ /\ locker'[p].pc \in {compare, unlink}
               /\ file.owner \in Proc /\ Gone(file.owner)
<1>1. file.written \in BOOLEAN /\ file.owner \in Proc \union {NoOne}
  BY DEF LockFile
<1> DEFINE pc == IF ~Stale(file) THEN keep ELSE IF file.written THEN compare ELSE unlink
<1>2. pc = keep \/ (pc \in {compare, unlink} /\ file.owner \in Proc /\ Gone(file.owner))
  BY <1>1 DEF Stale, Gone
<1>3. locker' = [locker EXCEPT ![p].pc = pc, ![p].seen = file.owner]
  BY DEF Verdict
<1> HIDE DEF pc
<1>4. locker'[p].pc = pc
  BY <1>3 DEF TypeOK, Locker
<1>5. locker'[p].copy = locker[p].copy /\ locker'[p].seen = file.owner
  BY <1>3 DEF TypeOK, Locker
<1>6. \A q \in Proc \ {p} : locker'[q] = locker[q]
  BY <1>3 DEF TypeOK
<1> QED
  BY <1>2, <1>4, <1>5, <1>6

LEMMA LockFileFields ==
  /\ NoFile.owner = NoOne
  /\ \A q : [owner |-> q, written |-> FALSE].owner = q
  /\ \A file \in LockFile : [file EXCEPT !.written = TRUE].owner = file.owner
BY DEF NoFile, LockFile

\* A step of a process, while the lock is protected, keeps it so.
LEMMA StepProtected ==
  ASSUME TypeOK, Protected, NEW p \in Proc, Step(p), ~lost'
  PROVE  Protected'
<1> USE LockFileFields
<1> NoOne \notin Proc
  BY RegistryAssumption
<1> USE DEF HoldersOwnMain, ReclaimersOwnReclaim, ReclaimOwnerReclaims,
     ReclaimNeverStale, SeenIsGone, UnlinksOfGone, CopyIsCurrent, Protected,
     Holding, Reclaiming, At, Dead, Gone
<1> main \in LockFile /\ reclaim \in LockFile
  BY DEF TypeOK
<1>1. CASE OpenMain(p)
  BY <1>1, GotoElsewhere DEF OpenMain
<1>2. CASE WriteMain(p)
  <2>1. /\ At(p, "writeMain") /\ main'.owner = main.owner
        /\ reclaim' = reclaim /\ entries' = entries
    BY <1>2 DEF WriteMain
  <2>2. CASE Goto(p, "locked")
    BY <2>1, <2>2, GotoElsewhere
  <2>3. CASE Goto(p, "failed")
    BY <2>1, <2>3, GotoElsewhere
  <2> QED
    BY <1>2, <2>2, <2>3 DEF WriteMain
<1>3. CASE OpenReclaim(p)
  BY <1>3, GotoElsewhere DEF OpenReclaim
\* When the write fails the file .reclaim is left behind.
<1>4. CASE WriteReclaim(p)
  <2>1. /\ Goto(p, "look") /\ At(p, "writeReclaim") /\ reclaim'.owner = reclaim.owner
        /\ main' = main /\ entries' = entries
    BY <1>4 DEF WriteReclaim
  <2> QED
    BY <2>1, GotoElsewhere
<1>5. CASE ReadReclaim(p)
  BY <1>5, VerdictCases DEF ReadReclaim
<1>6. CASE CompareReclaim(p)
  BY <1>6 DEF CompareReclaim
<1>7. CASE UnlinkReclaim(p)
  BY <1>7 DEF UnlinkReclaim
<1>8. CASE ReadMain(p)
  BY <1>8, VerdictCases DEF ReadMain
<1>9. CASE CompareMain(p)
  BY <1>9, GotoElsewhere DEF CompareMain
<1>10. CASE UnlinkMain(p)
  BY <1>10, GotoElsewhere DEF UnlinkMain
<1>11. CASE DropReclaim(p)
  BY <1>11, GotoElsewhere DEF DropReclaim
<1>12. CASE GiveUp(p)
  BY <1>12, GotoElsewhere DEF GiveUp
<1>13. CASE ReadRegistry(p)
  <2>1. /\ locker'[p].pc = "read" /\ locker'[p].copy = entries
        /\ \A q \in Proc \ {p} : locker'[q] = locker[q]
    <3>1. locker[p] \in Locker
      BY DEF TypeOK
    <3>2. [locker[p] EXCEPT !.pc = "read", !.copy = entries].pc = "read"
      BY <3>1 DEF Locker
    <3>3. [locker[p] EXCEPT !.pc = "read", !.copy = entries].copy = entries
      BY <3>1 DEF Locker
    <3>4. locker' = [locker EXCEPT ![p] = [locker[p] EXCEPT !.pc = "read", !.copy = entries]]
      BY <1>13 DEF ReadRegistry, TypeOK
    <3> QED
      BY <3>2, <3>3, <3>4 DEF TypeOK
  <2>2. main' = main /\ reclaim' = reclaim /\ entries' = entries /\ locker[p].pc = "locked"
    BY <1>13 DEF ReadRegistry
  <2>3. HoldersOwnMain' /\ ReclaimersOwnReclaim' /\ ReclaimOwnerReclaims' /\ CopyIsCurrent'
    BY <2>1, <2>2
  <2>4. ReclaimNeverStale' /\ SeenIsGone' /\ UnlinksOfGone'
    BY <2>1, <2>2
  <2> QED
    BY <2>3, <2>4
<1>14. CASE WriteRegistry(p)
  BY <1>14, GotoElsewhere DEF WriteRegistry
<1>15. CASE ReleaseMain(p)
  BY <1>15, GotoElsewhere DEF ReleaseMain
<1>16. CASE Refuse(p)
  BY <1>16, GotoElsewhere DEF Refuse
<1>17. CASE Crash(p)
  <2>1. locker[p].pc \in Holding /\ main' = main /\ reclaim' = reclaim /\ entries' = entries
    BY <1>17 DEF Crash
  <2>2. locker'[p].pc = "dead" /\ \A q \in Proc \ {p} : locker'[q] = locker[q]
    BY <1>17, GotoElsewhere DEF Crash
  <2>3. HoldersOwnMain' /\ ReclaimersOwnReclaim' /\ ReclaimOwnerReclaims' /\ CopyIsCurrent'
    BY <2>1, <2>2
  <2>4. ReclaimNeverStale' /\ SeenIsGone' /\ UnlinksOfGone'
    BY <2>1, <2>2
  <2> QED
    BY <2>3, <2>4
<1> QED
  BY <1>1, <1>2, <1>3, <1>4, <1>5, <1>6, <1>7, <1>8, <1>9, <1>10, <1>11, <1>12,
     <1>13, <1>14, <1>15, <1>16, <1>17 DEF Step

LEMMA LockInvariant ==
  ASSUME LockInv, [Next]_registryVars
  PROVE  LockInv'
<1>1. CASE UNCHANGED registryVars
  <2>1. TypeOK'
    BY <1>1 DEF registryVars, LockInv, TypeOK
  <2>2. ~lost' => Protected'
    BY <1>1 DEF registryVars, LockInv, Protected, HoldersOwnMain, ReclaimersOwnReclaim,
       ReclaimOwnerReclaims, ReclaimNeverStale, SeenIsGone, UnlinksOfGone, CopyIsCurrent,
       At, Dead, Gone
  <2> QED
    BY <2>1, <2>2 DEF LockInv
<1>2. CASE Next
  <2>1. PICK p \in Proc : Step(p)
    BY <1>2 DEF Next
  <2>2. TypeOK'
    BY <2>1, StepTypes DEF LockInv
  <2>3. ~lost' => ~lost
    BY <2>1 DEF Step, OpenMain, WriteMain, OpenReclaim, WriteReclaim, ReadReclaim,
       CompareReclaim, UnlinkReclaim, ReadMain, CompareMain, UnlinkMain, DropReclaim,
       GiveUp, ReadRegistry, WriteRegistry, Refuse, ReleaseMain, Crash
  <2>4. ~lost' => Protected'
    BY <2>1, <2>3, StepProtected DEF LockInv
  <2> QED
    BY <2>2, <2>4 DEF LockInv
<1> QED
  BY <1>1, <1>2

THEOREM LockInvHolds == Spec => []LockInv
<1>1. Init => LockInv
  BY InitProtected
<1>2. LockInv /\ [Next]_registryVars => LockInv'
  BY LockInvariant
<1> QED
  BY <1>1, <1>2, PTL DEF Spec

\* The lock files, the processes and the registry keep their types.
THEOREM RegistryTypes == Spec => []TypeOK
<1>1. LockInv => TypeOK
  BY DEF LockInv
<1> QED
  BY <1>1, LockInvHolds, PTL

LEMMA LockExcludes == LockInv => RegistryExclusion
BY DEF LockInv, RegistryExclusion, Protected, HoldersOwnMain

\* For any number of processes and crashes: at most one process is in
\* withRegistryMutation, unless one died, or gave up, while it owned .reclaim.
THEOREM RegistryExcludes == Spec => []RegistryExclusion
<1>1. LockInv => RegistryExclusion
  BY LockExcludes
<1> QED
  BY <1>1, LockInvHolds, PTL

\* A step that changes the registry is the write of its only holder, whose copy
\* is current.
LEMMA WriteKeepsEntries ==
  ASSUME LockInv, [Next]_registryVars, ~lost', entries' # entries
  PROVE  \E p \in Proc :
           At(p, "read") /\ entries' \in {entries \union {p}, entries \ {p}}
<1>1. CASE UNCHANGED registryVars
  BY <1>1 DEF registryVars
<1>2. CASE Next
  <2>1. PICK p \in Proc : Step(p)
    BY <1>2 DEF Next
  <2>2. CASE WriteRegistry(p)
    <3>1. ~lost
      BY <2>2 DEF WriteRegistry
    <3>2. locker[p].copy = entries
      BY <2>2, <3>1 DEF LockInv, Protected, CopyIsCurrent, WriteRegistry
    <3> QED
      BY <2>2, <3>2 DEF WriteRegistry, Updated
  <2>3. CASE ~WriteRegistry(p)
    BY <2>1, <2>3 DEF Step, OpenMain, WriteMain, OpenReclaim, WriteReclaim, ReadReclaim,
       CompareReclaim, UnlinkReclaim, ReadMain, CompareMain, UnlinkMain, DropReclaim,
       GiveUp, ReadRegistry, Refuse, ReleaseMain, Crash
  <2> QED
    BY <2>2, <2>3
<1> QED
  BY <1>1, <1>2

\* For any number of processes and crashes, registering and unregistering: an update
\* of the registry changes the writer's own entry only, under the same condition.
THEOREM RegistryKeepsEntries == Spec => EntriesKept
<1>1. LockInv /\ [Next]_registryVars
      => [~lost' /\ entries' # entries =>
            \E p \in Proc :
              At(p, "read") /\ entries' \in {entries \union {p}, entries \ {p}}]_registryVars
  BY WriteKeepsEntries
<1> QED
  BY <1>1, LockInvHolds, PTL DEF Spec, EntriesKept

-----------------------------------------------------------------------------
(* The audit store.  As long as nobody died, was too slow or threw after saving,
   the lock file names the one call that is inside, no lock file is removed but by
   its owner, and the loads, saves and projections of the calls do not overlap. *)

InsideOwns == \A a \in Appender : appender[a].pc \in Audit!Inside <=> auditLock.owner = a

\* No lock file is old, so no call removes one, and nobody is dead.
NothingStale ==
  ~auditLock.old /\ \A a \in Appender : appender[a].pc \notin {"rm", "dead"}

CopiesCurrent ==
  \A a \in Appender : appender[a].pc \in {"save", "project"} => appender[a].copy = events

SavedIsThere ==
  \A a \in Appender :
    appender[a].pc \in {"reload", "project", "release", "done"} => a \in events

\* The projection is behind the store only between the save and its own writing.
ProjectedBetween ==
  (\A a \in Appender : appender[a].pc \notin {"reload", "project"}) => projection = events

Undisturbed ==
  /\ InsideOwns /\ NothingStale /\ CopiesCurrent /\ SavedIsThere /\ ProjectedBetween

AuditInv == Audit!TypeOK /\ (faults = 0 => Undisturbed)

AuditPc == Audit!Inside \union {"acquire", "stat", "rm", "done", "failed", "dead"}
AuditCall == [pc : AuditPc, copy : SUBSET Appender]

-----------------------------------------------------------------------------
(* The audit store: types *)

\* A call moves on and keeps what it loaded, or loads.
LEMMA AppenderMoves ==
  ASSUME Audit!TypeOK, NEW a \in Appender, NEW pc \in AuditPc, NEW copy \in SUBSET Appender,
         \/ Audit!Goto(a, pc) /\ copy = appender[a].copy
         \/ appender' = [appender EXCEPT ![a] = [pc |-> pc, copy |-> copy]]
  PROVE  /\ appender' \in [Appender -> AuditCall]
         /\ appender'[a].pc = pc /\ appender'[a].copy = copy
         /\ \A b \in Appender \ {a} : appender'[b] = appender[b]
<1>1. appender \in [Appender -> AuditCall] /\ appender[a] \in AuditCall
  BY DEF Audit!TypeOK, AuditCall, AuditPc
<1>2. CASE Audit!Goto(a, pc) /\ copy = appender[a].copy
  <2>1. [appender[a] EXCEPT !.pc = pc] \in AuditCall
    BY <1>1 DEF AuditCall
  <2> QED
    BY <1>1, <1>2, <2>1 DEF Audit!Goto, AuditCall
<1>3. CASE appender' = [appender EXCEPT ![a] = [pc |-> pc, copy |-> copy]]
  <2>1. [pc |-> pc, copy |-> copy] \in AuditCall
    BY DEF AuditCall
  <2> QED
    BY <1>1, <1>3, <2>1
<1> QED
  BY <1>2, <1>3

LEMMA AuditLockTypes ==
  /\ Audit!NoLock \in [owner : Appender \union {NoOne}, old : BOOLEAN]
  /\ \A a \in Appender : [owner |-> a, old |-> FALSE]
                           \in [owner : Appender \union {NoOne}, old : BOOLEAN]
  /\ \A l \in [owner : Appender \union {NoOne}, old : BOOLEAN] :
       [l EXCEPT !.old = TRUE] \in [owner : Appender \union {NoOne}, old : BOOLEAN]
BY DEF Audit!NoLock

-----------------------------------------------------------------------------
(* The audit store: steps *)

LEMMA AuditStarts ==
  ASSUME NoOne \notin Appender, Audit!Init
  PROVE  AuditInv
<1>1. [pc |-> "acquire", copy |-> {}] \in AuditCall
  BY DEF AuditCall, AuditPc
<1>2. Audit!TypeOK
  BY <1>1, AuditLockTypes DEF Audit!Init, Audit!TypeOK, AuditCall, AuditPc
<1>3. \A a \in Appender : appender[a].pc = "acquire" /\ auditLock.owner # a
  BY DEF Audit!Init, Audit!NoLock
<1>4. InsideOwns /\ NothingStale /\ CopiesCurrent /\ SavedIsThere /\ ProjectedBetween
  BY <1>3 DEF Audit!Init, Audit!NoLock, InsideOwns, NothingStale, CopiesCurrent, SavedIsThere,
              ProjectedBetween, Audit!Inside
<1> QED
  BY <1>2, <1>4 DEF AuditInv, Undisturbed

\* Every step of a call keeps the types.
LEMMA AppenderTypes ==
  ASSUME Audit!TypeOK, NEW a \in Appender, Audit!Step(a)
  PROVE  Audit!TypeOK' /\ (faults' = 0 => faults = 0)
<1> USE AuditLockTypes
<1>moves. ASSUME NEW pc \in AuditPc, Audit!Goto(a, pc) PROVE appender' \in [Appender -> AuditCall]
  <2>1. appender[a].copy \in SUBSET Appender
    BY DEF Audit!TypeOK
  <2> QED
    BY <1>moves, <2>1, AppenderMoves
<1>loads. ASSUME NEW pc \in AuditPc, NEW copy \in SUBSET Appender,
                 appender' = [appender EXCEPT ![a] = [pc |-> pc, copy |-> copy]]
          PROVE  appender' \in [Appender -> AuditCall]
  BY <1>loads, AppenderMoves
<1>1. CASE Audit!Acquire(a)
  BY <1>1, <1>moves DEF Audit!Acquire, Audit!TypeOK, AuditCall, AuditPc, Audit!Inside
<1>2. CASE Audit!Stat(a) \/ Audit!Remove(a) \/ Audit!GiveUp(a)
  BY <1>2, <1>moves DEF Audit!Stat, Audit!Remove, Audit!GiveUp, Audit!TypeOK, AuditCall, AuditPc, Audit!Inside
<1>3. CASE Audit!Load(a) \/ Audit!Reload(a)
  BY <1>3, <1>loads DEF Audit!Load, Audit!Reload, Audit!TypeOK, AuditCall, AuditPc, Audit!Inside
<1>4. CASE Audit!Save(a)
  BY <1>4, <1>moves DEF Audit!Save, Audit!TypeOK, AuditCall, AuditPc, Audit!Inside
<1>5. CASE Audit!Project(a)
  BY <1>5, <1>moves DEF Audit!Project, Audit!TypeOK, AuditCall, AuditPc, Audit!Inside
<1>6. CASE Audit!Release(a)
  BY <1>6, <1>moves DEF Audit!Release, Audit!TypeOK, AuditCall, AuditPc, Audit!Inside
<1>7. CASE Audit!Throw(a) \/ Audit!Crash(a)
  BY <1>7, <1>moves DEF Audit!Throw, Audit!Crash, Audit!TypeOK, AuditCall, AuditPc, Audit!Inside
<1>8. CASE Audit!Slow(a)
  BY <1>8 DEF Audit!Slow, Audit!TypeOK
<1> QED
  BY <1>1, <1>2, <1>3, <1>4, <1>5, <1>6, <1>7, <1>8 DEF Audit!Step

\* Without faults every step of a call keeps the rest.
LEMMA AppenderUndisturbed ==
  ASSUME NoOne \notin Appender, Audit!TypeOK, Undisturbed, NEW a \in Appender, Audit!Step(a), faults' = 0
  PROVE  Undisturbed'
<1> InsideOwns /\ NothingStale /\ CopiesCurrent /\ SavedIsThere /\ ProjectedBetween
  BY DEF Undisturbed
<1> faults = 0 /\ faults' = 0
  BY AppenderTypes
<1>copy. appender[a].copy \in SUBSET Appender /\ events \in SUBSET Appender
  BY DEF Audit!TypeOK
<1>moves. ASSUME NEW pc \in AuditPc, Audit!Goto(a, pc)
          PROVE  /\ appender'[a].pc = pc /\ appender'[a].copy = appender[a].copy
                 /\ \A b \in Appender \ {a} : appender'[b] = appender[b]
  BY <1>copy, <1>moves, AppenderMoves
<1>loads. ASSUME NEW pc \in AuditPc,
                 appender' = [appender EXCEPT ![a] = [pc |-> pc, copy |-> events]]
          PROVE  /\ appender'[a].pc = pc /\ appender'[a].copy = events
                 /\ \A b \in Appender \ {a} : appender'[b] = appender[b]
  BY <1>copy, <1>loads, AppenderMoves
\* Whoever is inside is alone there.
<1>alone. ASSUME appender[a].pc \in Audit!Inside, NEW b \in Appender \ {a}
          PROVE  appender[b].pc \notin Audit!Inside
  BY <1>alone DEF InsideOwns
<1> USE DEF Undisturbed, InsideOwns, NothingStale, CopiesCurrent, SavedIsThere,
            ProjectedBetween
<1>1. CASE Audit!Acquire(a)
  <2>1. CASE auditLock.owner = NoOne
    <3>1. auditLock' = [owner |-> a, old |-> FALSE] /\ Audit!Goto(a, "load")
          /\ UNCHANGED <<events, projection>> /\ appender[a].pc = "acquire"
      BY <1>1, <2>1 DEF Audit!Acquire, Audit!At
    <3>2. /\ appender'[a].pc = "load"
          /\ \A b \in Appender \ {a} : appender'[b] = appender[b]
      BY <1>moves, <3>1 DEF AuditPc, Audit!Inside
    <3> QED
      BY <2>1, <3>1, <3>2 DEF Audit!Inside
  <2>2. CASE auditLock.owner # NoOne
    <3>1. UNCHANGED <<auditLock, events, projection>> /\ Audit!Goto(a, "stat")
          /\ appender[a].pc = "acquire"
      BY <1>1, <2>2 DEF Audit!Acquire, Audit!At
    <3>2. /\ appender'[a].pc = "stat"
          /\ \A b \in Appender \ {a} : appender'[b] = appender[b]
      BY <1>moves, <3>1 DEF AuditPc
    <3> QED
      BY <3>1, <3>2 DEF Audit!Inside
  <2> QED
    BY <2>1, <2>2
<1>2. CASE Audit!Stat(a) \/ Audit!GiveUp(a)
  <2>1. PICK pc \in {"acquire", "failed"} : Audit!Goto(a, pc)
    BY <1>2 DEF Audit!Stat, Audit!GiveUp
  <2>2. UNCHANGED <<auditLock, events, projection>> /\ appender[a].pc \in {"stat", "acquire"}
    BY <1>2 DEF Audit!Stat, Audit!GiveUp, Audit!At
  <2>3. /\ appender'[a].pc = pc
        /\ \A b \in Appender \ {a} : appender'[b] = appender[b]
    BY <1>moves, <2>1 DEF AuditPc
  <2> QED
    BY <2>1, <2>2, <2>3 DEF Audit!Inside
<1>3. CASE Audit!Remove(a)
  BY <1>3 DEF Audit!Remove, Audit!At
<1>4. CASE Audit!Load(a)
  <2>1. UNCHANGED <<auditLock, events, projection>> /\ appender[a].pc = "load"
    BY <1>4 DEF Audit!Load, Audit!At
  <2>2. /\ appender'[a].pc = "save" /\ appender'[a].copy = events
        /\ \A b \in Appender \ {a} : appender'[b] = appender[b]
    BY <1>4, <1>loads DEF Audit!Load, AuditPc, Audit!Inside
  <2> QED
    BY <1>alone, <2>1, <2>2 DEF Audit!Inside
<1>5. CASE Audit!Save(a)
  <2>1. /\ UNCHANGED <<auditLock, projection>> /\ appender[a].pc = "save"
        /\ events' = appender[a].copy \union {a} /\ Audit!Goto(a, "reload")
    BY <1>5 DEF Audit!Save, Audit!At
  <2>2. events' = events \union {a}
    BY <2>1
  <2>3. /\ appender'[a].pc = "reload"
        /\ \A b \in Appender \ {a} : appender'[b] = appender[b]
    BY <1>moves, <2>1 DEF AuditPc, Audit!Inside
  <2> QED
    BY <1>alone, <2>1, <2>2, <2>3 DEF Audit!Inside
<1>6. CASE Audit!Reload(a)
  <2>1. UNCHANGED <<auditLock, events, projection>> /\ appender[a].pc = "reload"
    BY <1>6 DEF Audit!Reload, Audit!At
  <2>2. /\ appender'[a].pc = "project" /\ appender'[a].copy = events
        /\ \A b \in Appender \ {a} : appender'[b] = appender[b]
    BY <1>6, <1>loads DEF Audit!Reload, AuditPc, Audit!Inside
  <2> QED
    BY <1>alone, <2>1, <2>2 DEF Audit!Inside
<1>7. CASE Audit!Project(a)
  <2>1. /\ UNCHANGED <<auditLock, events>> /\ appender[a].pc = "project"
        /\ projection' = appender[a].copy /\ Audit!Goto(a, "release")
    BY <1>7 DEF Audit!Project, Audit!At
  <2>2. projection' = events
    BY <2>1
  <2>3. /\ appender'[a].pc = "release"
        /\ \A b \in Appender \ {a} : appender'[b] = appender[b]
    BY <1>moves, <2>1 DEF AuditPc, Audit!Inside
  <2> QED
    BY <1>alone, <2>1, <2>2, <2>3 DEF Audit!Inside
<1>8. CASE Audit!Release(a)
  <2>1. /\ UNCHANGED <<events, projection>> /\ appender[a].pc \in {"release", "throw"}
        /\ Audit!Goto(a, IF Audit!At(a, "release") THEN "done" ELSE "failed")
    BY <1>8 DEF Audit!Release
  <2>2. auditLock.owner = a
    BY <2>1 DEF Audit!Inside
  <2>3. auditLock' = Audit!NoLock
    BY <1>8, <2>2 DEF Audit!Release
  <2>4. /\ appender'[a].pc = IF appender[a].pc = "release" THEN "done" ELSE "failed"
        /\ \A b \in Appender \ {a} : appender'[b] = appender[b]
    BY <1>moves, <2>1 DEF AuditPc, Audit!At
  <2>5. projection' = events' 
    BY <1>alone, <2>1 DEF Audit!Inside
  <2> QED
    BY <1>alone, <2>1, <2>3, <2>4, <2>5 DEF Audit!Inside, Audit!NoLock
<1>9. CASE Audit!Throw(a)
  <2>1. /\ UNCHANGED <<auditLock, events, projection>> /\ appender[a].pc \in {"load", "save"}
        /\ Audit!Goto(a, "throw")
    BY <1>9 DEF Audit!Throw
  <2>2. /\ appender'[a].pc = "throw"
        /\ \A b \in Appender \ {a} : appender'[b] = appender[b]
    BY <1>moves, <2>1 DEF AuditPc, Audit!Inside
  <2> QED
    BY <1>alone, <2>1, <2>2 DEF Audit!Inside
<1>10. CASE Audit!Crash(a) \/ Audit!Slow(a)
  BY <1>10 DEF Audit!Crash, Audit!Slow
<1> QED
  BY <1>1, <1>2, <1>3, <1>4, <1>5, <1>6, <1>7, <1>8, <1>9, <1>10 DEF Audit!Step

LEMMA AuditMoves ==
  ASSUME NoOne \notin Appender, AuditInv, [Audit!Next]_auditVars
  PROVE  AuditInv'
<1>1. CASE UNCHANGED auditVars
  BY <1>1 DEF auditVars, AuditInv, Audit!TypeOK, Undisturbed, InsideOwns, NothingStale, CopiesCurrent,
              SavedIsThere, ProjectedBetween
<1>2. ASSUME NEW a \in Appender, Audit!Step(a) PROVE AuditInv'
  BY <1>2, AppenderTypes, AppenderUndisturbed DEF AuditInv
<1>3. CASE Audit!Ages
  <2>1. Audit!TypeOK'
    BY <1>3, AuditLockTypes DEF Audit!Ages, AuditInv, Audit!TypeOK
  <2>2. faults' # 0
    BY <1>3 DEF Audit!Ages, Audit!At, AuditInv, Undisturbed, NothingStale
  <2> QED
    BY <2>1, <2>2 DEF AuditInv
<1> QED
  BY <1>1, <1>2, <1>3 DEF Audit!Next

-----------------------------------------------------------------------------
(* MCP over HTTP: how far the sessions can pass their cap.  A handler that has
   passed the test of the cap counts as a session already: registered sessions and
   such handlers together stay within the bound, and registering turns one into
   the other. *)

\* A request is not a session before it is registered.
NotYetRegistered ==
  \A r \in Request :
    request[r] \in {"none", "evicting", "connecting"} => ~Occurs(r, sessions)

\* The sessions there are and those on their way are within the bound.
Reserved == Len(sessions) + Cardinality(Mcp!Pending) <= MaxSessions + peak - 1

McpInv == Mcp!TypeOK /\ NotYetRegistered /\ Reserved

Where == {"none", "evicting", "connecting", "registered", "refused"}

-----------------------------------------------------------------------------
(* The MCP sessions: the map of sessions and the set of handlers *)

\* The operators of the standard modules are the same in the instance.
LEMMA InjectiveIsDistinct ==
  ASSUME NEW w
  PROVE  Mcp!IsInjective(w) <=> Distinct(w)
BY DEF Mcp!IsInjective, Distinct

LEMMA SameCardinality == \A S : Mcp!Cardinality(S) = Cardinality(S)
BY DEF Mcp!Cardinality, Cardinality

LEMMA SameRemoveAt == \A s, i : Mcp!RemoveAt(s, i) = RemoveAt(s, i)
BY DEF Mcp!RemoveAt, RemoveAt

LEMMA RegisteredOccurs ==
  ASSUME Mcp!TypeOK, NEW id
  PROVE  id \in Mcp!Registered <=> Occurs(id, sessions)
BY LenProperties DEF Mcp!TypeOK, Mcp!Registered, Occurs

LEMMA PendingFinite ==
  ASSUME IsFiniteSet(Request)
  PROVE  IsFiniteSet(Mcp!Pending) /\ Cardinality(Mcp!Pending) \in Nat
BY FS_Subset, FS_CardinalityType DEF Mcp!Pending

\* Taking one session out of the map.
LEMMA WithoutSession ==
  ASSUME Mcp!TypeOK, NEW id \in Mcp!Registered
  PROVE  /\ id \in Request
         /\ Mcp!Without(id) \in Seq(Request) /\ Len(Mcp!Without(id)) = Len(sessions) - 1
         /\ Distinct(Mcp!Without(id))
         /\ \A y : Occurs(y, Mcp!Without(id)) <=> y # id /\ Occurs(y, sessions)
<1> DEFINE k == CHOOSE i \in DOMAIN sessions : sessions[i] = id
<1>1. k \in DOMAIN sessions /\ sessions[k] = id
  BY RegisteredOccurs DEF Occurs
<1>2. Distinct(sessions) /\ sessions \in Seq(Request)
  BY InjectiveIsDistinct DEF Mcp!TypeOK
<1>3. id \in Request
  BY <1>1, <1>2, ElementOfSeq, LenProperties
<1>4. Mcp!Without(id) = RemoveAt(sessions, k)
  BY SameRemoveAt DEF Mcp!Without
<1> HIDE DEF k
<1> QED
  BY <1>1, <1>2, <1>3, <1>4, RemoveAtQueue

\* A request moves on.
LEMMA RequestMoves ==
  ASSUME Mcp!TypeOK, NEW r \in Request, NEW where \in Where,
         request' = [request EXCEPT ![r] = where]
  PROVE  /\ request' \in [Request -> Where] /\ request'[r] = where
         /\ \A s \in Request \ {r} : request'[s] = request[s]
BY DEF Mcp!TypeOK, Where

\* A handler passes the test of the cap, waits on, or ends.
LEMMA PendingGains ==
  ASSUME IsFiniteSet(Request), NEW r \in Request \ Mcp!Pending,
         request'[r] \in {"evicting", "connecting"},
         \A s \in Request \ {r} : request'[s] = request[s]
  PROVE  Cardinality(Mcp!Pending') = Cardinality(Mcp!Pending) + 1
<1>1. Mcp!Pending' = Mcp!Pending \union {r}
  BY DEF Mcp!Pending
<1> QED
  BY <1>1, PendingFinite, FS_AddElement

LEMMA PendingWaits ==
  ASSUME NEW r \in Mcp!Pending, request'[r] \in {"evicting", "connecting"},
         \A s \in Request \ {r} : request'[s] = request[s]
  PROVE  Mcp!Pending' = Mcp!Pending
BY DEF Mcp!Pending

LEMMA PendingLoses ==
  ASSUME IsFiniteSet(Request), NEW r \in Mcp!Pending,
         request'[r] \notin {"evicting", "connecting"},
         \A s \in Request \ {r} : request'[s] = request[s]
  PROVE  Cardinality(Mcp!Pending') = Cardinality(Mcp!Pending) - 1
<1>1. Mcp!Pending' = Mcp!Pending \ {r}
  BY DEF Mcp!Pending
<1> QED
  BY <1>1, PendingFinite, FS_RemoveElement

-----------------------------------------------------------------------------
(* The MCP sessions: steps *)

LEMMA McpBegins ==
  ASSUME MaxSessions \in Nat \ {0}, Mcp!Init
  PROVE  McpInv
<1>1. DOMAIN sessions = {} /\ sessions \in Seq(Request) /\ Len(sessions) = 0
  BY EmptySeq DEF Mcp!Init
<1>2. Mcp!Pending = {} /\ Cardinality(Mcp!Pending) = 0
  BY FS_EmptySet DEF Mcp!Init, Mcp!Pending
<1>3. Mcp!TypeOK
  BY <1>1 DEF Mcp!Init, Mcp!TypeOK, Mcp!IsInjective
<1>4. NotYetRegistered
  BY <1>1 DEF NotYetRegistered, Occurs
<1>5. Reserved
  BY <1>1, <1>2 DEF Mcp!Init, Reserved
<1> QED
  BY <1>3, <1>4, <1>5 DEF McpInv

LEMMA AdmitInv ==
  ASSUME IsFiniteSet(Request), MaxSessions \in Nat \ {0}, McpInv,
         NEW r \in Request, Mcp!Admit(r)
  PROVE  McpInv'
<1> Mcp!TypeOK /\ NotYetRegistered /\ Reserved
  BY DEF McpInv
<1>1. Cardinality(Mcp!Pending) \in Nat /\ r \notin Mcp!Pending
  BY PendingFinite DEF Mcp!Admit, Mcp!Pending
<1>2. /\ peak' \in Nat /\ peak' >= Cardinality(Mcp!Pending) + 1 /\ peak' >= peak
  BY <1>1, SameCardinality DEF Mcp!Admit, Mcp!TypeOK
<1>3. sessions \in Seq(Request) /\ Distinct(sessions) /\ Len(sessions) \in Nat
  BY InjectiveIsDistinct, LenProperties DEF Mcp!TypeOK
<1>4. CASE Len(sessions) >= MaxSessions
  <2>1. /\ sessions' = Tail(sessions) /\ closing' = closing \union {Head(sessions)}
        /\ victim' = [victim EXCEPT ![r] = {Head(sessions)}]
        /\ request' = [request EXCEPT ![r] = "evicting"]
    BY <1>4 DEF Mcp!Admit
  <2>2. sessions # <<>>
    BY <1>4, EmptySeq
  <2>3. /\ Head(sessions) \in Request
        /\ sessions' \in Seq(Request) /\ Len(sessions') = Len(sessions) - 1
        /\ Distinct(sessions') /\ \A y : Occurs(y, sessions') => Occurs(y, sessions)
    BY <1>3, <2>1, <2>2, TailQueue, HeadTailProperties
  <2>4. /\ request' \in [Request -> Where] /\ request'[r] = "evicting"
        /\ \A s \in Request \ {r} : request'[s] = request[s]
    BY <2>1, RequestMoves DEF Where
  <2>5. Cardinality(Mcp!Pending') = Cardinality(Mcp!Pending) + 1
    BY <1>1, <2>4, PendingGains
  <2>6. Mcp!TypeOK'
    BY <1>2, <2>1, <2>3, <2>4, InjectiveIsDistinct DEF Mcp!TypeOK, Where
  <2>7. NotYetRegistered'
    BY <2>3, <2>4 DEF NotYetRegistered, Mcp!Admit
  <2>8. Reserved'
    BY <1>1, <1>2, <1>3, <2>3, <2>5 DEF Reserved, Mcp!TypeOK
  <2> QED
    BY <2>6, <2>7, <2>8 DEF McpInv
<1>5. CASE Len(sessions) < MaxSessions
  <2>1. request' = [request EXCEPT ![r] = "connecting"] /\ UNCHANGED <<sessions, closing, victim>>
    BY <1>3, <1>5 DEF Mcp!Admit
  <2>2. /\ request' \in [Request -> Where] /\ request'[r] = "connecting"
        /\ \A s \in Request \ {r} : request'[s] = request[s]
    BY <2>1, RequestMoves DEF Where
  <2>3. Cardinality(Mcp!Pending') = Cardinality(Mcp!Pending) + 1
    BY <1>1, <2>2, PendingGains
  <2>4. Mcp!TypeOK'
    BY <1>2, <2>1, <2>2 DEF Mcp!TypeOK, Where
  <2>5. NotYetRegistered'
    BY <2>1, <2>2 DEF NotYetRegistered, Mcp!Admit
  <2>6. Reserved'
    BY <1>1, <1>2, <1>3, <1>5, <2>1, <2>3 DEF Reserved
  <2> QED
    BY <2>4, <2>5, <2>6 DEF McpInv
<1> QED
  BY <1>3, <1>4, <1>5

LEMMA RegisterInv ==
  ASSUME IsFiniteSet(Request), MaxSessions \in Nat \ {0}, McpInv,
         NEW r \in Request, Mcp!Register(r)
  PROVE  McpInv'
<1> Mcp!TypeOK /\ NotYetRegistered /\ Reserved
  BY DEF McpInv
<1>1. Cardinality(Mcp!Pending) \in Nat /\ r \in Mcp!Pending
  BY PendingFinite DEF Mcp!Register, Mcp!Pending
<1>2. /\ sessions \in Seq(Request) /\ Distinct(sessions) /\ Len(sessions) \in Nat
      /\ ~Occurs(r, sessions)
  BY InjectiveIsDistinct, LenProperties DEF Mcp!TypeOK, NotYetRegistered, Mcp!Register
<1>3. /\ sessions' \in Seq(Request) /\ Len(sessions') = Len(sessions) + 1
      /\ Distinct(sessions') /\ \A y : Occurs(y, sessions') <=> y = r \/ Occurs(y, sessions)
  BY <1>2, AppendQueue, AppendProperties DEF Mcp!Register
<1>4. /\ request' \in [Request -> Where] /\ request'[r] = "registered"
      /\ \A s \in Request \ {r} : request'[s] = request[s]
  BY RequestMoves DEF Where, Mcp!Register
<1>5. Cardinality(Mcp!Pending') = Cardinality(Mcp!Pending) - 1
  BY <1>1, <1>4, PendingLoses
<1>6. Mcp!TypeOK'
  BY <1>3, <1>4, InjectiveIsDistinct DEF Mcp!TypeOK, Where, Mcp!Register
<1>7. NotYetRegistered'
  BY <1>3, <1>4 DEF NotYetRegistered
<1>8. Reserved'
  BY <1>1, <1>2, <1>3, <1>5 DEF Reserved, Mcp!TypeOK, Mcp!Register
<1> QED
  BY <1>6, <1>7, <1>8 DEF McpInv

LEMMA WaitInv ==
  ASSUME IsFiniteSet(Request), MaxSessions \in Nat \ {0}, McpInv,
         NEW r \in Request, Mcp!Evicted(r) \/ Mcp!Refuse(r)
  PROVE  McpInv'
<1> Mcp!TypeOK /\ NotYetRegistered /\ Reserved
  BY DEF McpInv
<1>1. PICK where \in {"connecting", "refused"} : request' = [request EXCEPT ![r] = where]
  BY DEF Mcp!Evicted, Mcp!Refuse
<1>2. UNCHANGED <<sessions, closing, victim, peak>> /\ request[r] \in {"evicting", "connecting"}
  BY DEF Mcp!Evicted, Mcp!Refuse
<1>3. /\ request' \in [Request -> Where] /\ request'[r] = where
      /\ \A s \in Request \ {r} : request'[s] = request[s]
  BY <1>1, RequestMoves DEF Where
<1>4. Cardinality(Mcp!Pending') <= Cardinality(Mcp!Pending) /\ Cardinality(Mcp!Pending') \in Int
  <2>1. r \in Mcp!Pending /\ Cardinality(Mcp!Pending) \in Nat
    BY <1>2, PendingFinite DEF Mcp!Pending
  <2> QED
    BY <1>1, <1>3, <2>1, PendingWaits, PendingLoses
<1>5. Mcp!TypeOK'
  BY <1>2, <1>3 DEF Mcp!TypeOK, Where
<1>6. NotYetRegistered'
  BY <1>2, <1>3 DEF NotYetRegistered
<1>7. Reserved'
  BY <1>2, <1>4, LenProperties, PendingFinite DEF Reserved, Mcp!TypeOK
<1> QED
  BY <1>5, <1>6, <1>7 DEF McpInv

\* The steps that touch registered sessions only.
LEMMA SessionStepInv ==
  ASSUME IsFiniteSet(Request), MaxSessions \in Nat \ {0}, McpInv,
         \/ \E id \in Request : Mcp!Use(id) \/ Mcp!CloseSession(id) \/ Mcp!SessionClosed(id)
         \/ Mcp!CloseAll
  PROVE  McpInv'
<1> Mcp!TypeOK /\ NotYetRegistered /\ Reserved
  BY DEF McpInv
<1>1. UNCHANGED <<request, victim, peak>> /\ closing' \subseteq Request
  BY LenProperties, ElementOfSeq
     DEF Mcp!Use, Mcp!CloseSession, Mcp!SessionClosed, Mcp!CloseAll, Mcp!TypeOK, Mcp!Registered
<1>2. /\ sessions' \in Seq(Request) /\ Distinct(sessions')
      /\ Len(sessions') \in Nat /\ Len(sessions') <= Len(sessions)
      /\ \A y : Occurs(y, sessions') => Occurs(y, sessions)
  <2>1. sessions \in Seq(Request) /\ Distinct(sessions) /\ Len(sessions) \in Nat
    BY InjectiveIsDistinct, LenProperties DEF Mcp!TypeOK
  <2>2. ASSUME NEW id \in Request, Mcp!Use(id)
        PROVE  /\ sessions' \in Seq(Request) /\ Distinct(sessions')
               /\ Len(sessions') = Len(sessions)
               /\ \A y : Occurs(y, sessions') => Occurs(y, sessions)
    <3>1. id \in Mcp!Registered /\ sessions' = Append(Mcp!Without(id), id)
      BY <2>2 DEF Mcp!Use
    <3>2. /\ Mcp!Without(id) \in Seq(Request) /\ Len(Mcp!Without(id)) = Len(sessions) - 1
          /\ Distinct(Mcp!Without(id)) /\ ~Occurs(id, Mcp!Without(id))
          /\ \A y : Occurs(y, Mcp!Without(id)) => Occurs(y, sessions)
      BY <3>1, WithoutSession
    <3>3. /\ sessions' \in Seq(Request) /\ Distinct(sessions')
          /\ Len(sessions') = Len(Mcp!Without(id)) + 1
          /\ \A y : Occurs(y, sessions') <=> y = id \/ Occurs(y, Mcp!Without(id))
      BY <3>1, <3>2, AppendQueue, AppendProperties
    <3>4. Occurs(id, sessions)
      BY <3>1, RegisteredOccurs
    <3> QED
      BY <2>1, <3>2, <3>3, <3>4
  <2>3. ASSUME NEW id \in Request, Mcp!CloseSession(id)
        PROVE  /\ sessions' \in Seq(Request) /\ Distinct(sessions')
               /\ Len(sessions') = Len(sessions) - 1
               /\ \A y : Occurs(y, sessions') => Occurs(y, sessions)
    BY <2>3, WithoutSession DEF Mcp!CloseSession
  <2>4. CASE Mcp!CloseAll
    <3>1. sessions' = <<>> /\ sessions' \in Seq(Request) /\ Len(sessions') = 0
          /\ DOMAIN sessions' = {}
      BY <2>4, EmptySeq DEF Mcp!CloseAll
    <3> QED
      BY <2>1, <3>1 DEF Distinct, Occurs
  <2>5. CASE \E id \in Request : Mcp!SessionClosed(id)
    BY <2>1, <2>5 DEF Mcp!SessionClosed
  <2> QED
    BY <2>1, <2>2, <2>3, <2>4, <2>5, LenProperties
<1>3. Mcp!TypeOK'
  BY <1>1, <1>2, InjectiveIsDistinct DEF Mcp!TypeOK
<1>4. NotYetRegistered'
  BY <1>1, <1>2 DEF NotYetRegistered
<1>5. Reserved'
  <2>1. Mcp!Pending' = Mcp!Pending
    BY <1>1 DEF Mcp!Pending
  <2> QED
    BY <1>1, <1>2, <2>1, LenProperties, PendingFinite DEF Reserved, Mcp!TypeOK
<1> QED
  BY <1>3, <1>4, <1>5 DEF McpInv

LEMMA McpKeeps ==
  ASSUME IsFiniteSet(Request), MaxSessions \in Nat \ {0}, McpInv, [Mcp!Next]_mcpVars
  PROVE  McpInv'
<1>1. CASE UNCHANGED mcpVars
  BY <1>1 DEF McpInv, mcpVars, Mcp!TypeOK, NotYetRegistered, Reserved, Mcp!Pending
<1>2. ASSUME NEW r \in Request, Mcp!Step(r) PROVE McpInv'
  BY <1>2, AdmitInv, RegisterInv, WaitInv, SessionStepInv DEF Mcp!Step
<1>3. CASE Mcp!CloseAll
  BY <1>3, SessionStepInv
<1> QED
  BY <1>1, <1>2, <1>3 DEF Mcp!Next

LEMMA McpBounds ==
  ASSUME IsFiniteSet(Request), MaxSessions \in Nat \ {0}, McpInv
  PROVE  Mcp!SessionsBounded
BY PendingFinite, LenProperties, SameCardinality
   DEF McpInv, Reserved, Mcp!SessionsBounded, Mcp!TypeOK

-----------------------------------------------------------------------------
(* The writable database.  Its promise chain is a lock: who opens or operates is
   the first of the chain, so that nobody else switches, cleans up or closes
   meanwhile. *)

ChainPc == {"queued", "open", "operate", "cleanup"}
WorkingPc == {"open", "operate"}

\* The chain lists exactly the calls that wait for it or have it, each once.
ChainListsWaiting ==
  /\ Distinct(chain)
  /\ \A c \in Caller : Occurs(c, chain) <=> caller[c].pc \in ChainPc

WorkersHaveLock == \A c \in Caller : caller[c].pc \in WorkingPc => Lbug!HasLock(c)

PathsGiven == \A c \in Caller : caller[c].pc # "idle" => caller[c].path \in Path

\* A call pauses, or cleans up before it does, only if it may try again.
AttemptsLeft ==
  \A c \in Caller : caller[c].pc \in {"busy", "cleanup", "pause"} => caller[c].attempt < Attempts

SessionInv ==
  Lbug!TypeOK /\ ChainListsWaiting /\ WorkersHaveLock /\ PathsGiven
  /\ AttemptsLeft /\ Lbug!SwitchExcluded

CallPc == {"idle", "queued", "open", "operate", "busy", "cleanup", "pause", "done", "failed"}
CallRecord == [pc : CallPc, wants : {"operation", "close"},
               path : Path \union {NoPath}, attempt : 1..Attempts]

LEMMA CallerType == Lbug!TypeOK <=> /\ chain \in Seq(Caller)
                               /\ caller \in [Caller -> CallRecord]
                               /\ opened \in [path : Path \union {NoPath}, stale : BOOLEAN]
                               /\ quarantine \subseteq Path /\ down \in BOOLEAN
BY DEF Lbug!TypeOK, CallRecord, CallPc

-----------------------------------------------------------------------------
(* The writable database: joining and leaving the chain *)

\* The call that has the lock is a member of the chain, and only one call has it.
LEMMA LockIsUnique ==
  ASSUME NEW c, NEW d, Lbug!HasLock(c), Lbug!HasLock(d)
  PROVE  c = d
BY DEF Lbug!HasLock

\* A call that joins the end of the chain leaves the lock where it is.
LEMMA AppendKeepsHead ==
  ASSUME NEW S, NEW w \in Seq(S), NEW x \in S, w # <<>>
  PROVE  Head(Append(w, x)) = Head(w)
<1>1. /\ Append(w, x) \in Seq(S) /\ Append(w, x) # <<>>
      /\ \A i \in 1..Len(w) : Append(w, x)[i] = w[i]
  BY AppendProperties
<1>2. 1 \in 1..Len(w)
  BY EmptySeq, LenProperties
<1>3. Head(w) = w[1] /\ Head(Append(w, x)) = Append(w, x)[1]
  OBVIOUS
<1> QED
  BY <1>1, <1>2, <1>3

\* Changing the place of one call.
LEMMA GotoEffect ==
  ASSUME Lbug!TypeOK, NEW c \in Caller, NEW pc \in CallPc, Lbug!Goto(c, pc)
  PROVE  /\ caller' \in [Caller -> CallRecord]
         /\ caller'[c].pc = pc /\ caller'[c].path = caller[c].path
         /\ caller'[c].attempt = caller[c].attempt
         /\ \A d \in Caller \ {c} : caller'[d] = caller[d]
<1>1. caller \in [Caller -> CallRecord] /\ caller' = [caller EXCEPT ![c].pc = pc]
  BY CallerType DEF Lbug!Goto
<1>2. [caller[c] EXCEPT !.pc = pc] \in CallRecord
  BY <1>1 DEF CallRecord
<1>3. caller' = [caller EXCEPT ![c] = [caller[c] EXCEPT !.pc = pc]]
  BY <1>1
<1>4. caller'[c] = [caller[c] EXCEPT !.pc = pc]
  BY <1>1, <1>3
<1>5. caller'[c].pc = pc /\ caller'[c].path = caller[c].path
      /\ caller'[c].attempt = caller[c].attempt
  BY <1>1, <1>4 DEF CallRecord
<1> QED
  BY <1>1, <1>2, <1>3, <1>5

\* A call that waits nowhere joins the chain.
LEMMA JoinInv ==
  ASSUME Lbug!TypeOK, ChainListsWaiting, WorkersHaveLock, NEW c \in Caller,
         caller[c].pc \notin ChainPc, chain' = Append(chain, c),
         caller'[c].pc \in ChainPc \ WorkingPc,
         \A d \in Caller \ {c} : caller'[d] = caller[d]
  PROVE  /\ chain' \in Seq(Caller) /\ ChainListsWaiting' /\ WorkersHaveLock'
         /\ \A d \in Caller : caller'[d].pc = "operate" => d # c /\ caller'[d] = caller[d]
<1>1. chain \in Seq(Caller) /\ Distinct(chain) /\ ~Occurs(c, chain)
  BY DEF Lbug!TypeOK, ChainListsWaiting
<1>2. /\ chain' \in Seq(Caller) /\ chain' # <<>> /\ Distinct(chain')
      /\ \A y : Occurs(y, chain') <=> y = c \/ Occurs(y, chain)
  BY <1>1, AppendQueue
<1>3. ASSUME NEW d \in Caller PROVE Occurs(d, chain') <=> caller'[d].pc \in ChainPc
  <2>1. CASE d = c
    BY <1>2, <2>1
  <2>2. CASE d # c
    BY <1>2, <2>2 DEF ChainListsWaiting
  <2> QED
    BY <2>1, <2>2
<1>4. ASSUME NEW d \in Caller, caller'[d].pc \in WorkingPc
      PROVE  chain' # <<>> /\ Head(chain') = d /\ d # c
  <2>1. d # c /\ caller[d].pc \in WorkingPc
    BY <1>4
  <2>2. chain # <<>> /\ Head(chain) = d
    BY <2>1 DEF WorkersHaveLock, Lbug!HasLock
  <2> QED
    BY <1>1, <1>2, <2>1, <2>2, AppendKeepsHead
<1>5. ChainListsWaiting'
  BY <1>2, <1>3 DEF ChainListsWaiting
<1>6. WorkersHaveLock'
  BY <1>4 DEF WorkersHaveLock, Lbug!HasLock
<1> QED
  BY <1>2, <1>4, <1>5, <1>6 DEF WorkingPc

\* The call that has the lock gives it up.
LEMMA LeaveInv ==
  ASSUME Lbug!TypeOK, ChainListsWaiting, WorkersHaveLock, NEW c \in Caller, Lbug!HasLock(c),
         NEW pc \in CallPc \ ChainPc, Lbug!Leaves(c, pc)
  PROVE  /\ chain' \in Seq(Caller) /\ caller' \in [Caller -> CallRecord]
         /\ ChainListsWaiting' /\ WorkersHaveLock'
         /\ \A d \in Caller : caller'[d].pc # "operate" /\ caller'[d].path = caller[d].path
<1>1. chain \in Seq(Caller) /\ chain # <<>> /\ Distinct(chain) /\ Head(chain) = c
  BY DEF Lbug!TypeOK, ChainListsWaiting, Lbug!HasLock
<1>2. /\ chain' \in Seq(Caller) /\ Distinct(chain')
      /\ \A y : Occurs(y, chain') <=> y # c /\ Occurs(y, chain)
  BY <1>1, TailQueue DEF Lbug!Leaves
<1>3. /\ caller' \in [Caller -> CallRecord]
      /\ caller'[c].pc = pc /\ caller'[c].path = caller[c].path
      /\ \A d \in Caller \ {c} : caller'[d] = caller[d]
  BY GotoEffect DEF Lbug!Leaves
<1>4. ASSUME NEW d \in Caller PROVE Occurs(d, chain') <=> caller'[d].pc \in ChainPc
  <2>1. CASE d = c
    BY <1>2, <1>3, <2>1
  <2>2. CASE d # c
    BY <1>2, <1>3, <2>2 DEF ChainListsWaiting
  <2> QED
    BY <2>1, <2>2
<1>5. ASSUME NEW d \in Caller PROVE caller'[d].pc \notin WorkingPc
  <2>1. CASE d = c
    BY <1>3, <2>1 DEF ChainPc, WorkingPc
  <2>2. CASE d # c
    BY <1>3, <2>2, LockIsUnique DEF WorkersHaveLock
  <2> QED
    BY <2>1, <2>2
<1>6. ChainListsWaiting'
  BY <1>2, <1>4 DEF ChainListsWaiting
<1>7. WorkersHaveLock'
  BY <1>5 DEF WorkersHaveLock
<1> QED
  BY <1>2, <1>3, <1>5, <1>6, <1>7 DEF WorkingPc

\* The call that has the lock goes on with it.
LEMMA WorkInv ==
  ASSUME Lbug!TypeOK, ChainListsWaiting, WorkersHaveLock, NEW c \in Caller, Lbug!HasLock(c),
         caller[c].pc \in ChainPc, NEW pc \in WorkingPc, Lbug!Goto(c, pc), chain' = chain
  PROVE  /\ chain' \in Seq(Caller) /\ caller' \in [Caller -> CallRecord]
         /\ ChainListsWaiting' /\ WorkersHaveLock'
         /\ caller'[c].pc = pc
         /\ \A d \in Caller : caller'[d].path = caller[d].path
         /\ \A d \in Caller : caller'[d].pc = "operate" => d = c
<1> USE DEF WorkingPc, ChainPc, CallPc
<1>1. /\ caller' \in [Caller -> CallRecord]
      /\ caller'[c].pc = pc /\ caller'[c].path = caller[c].path
      /\ \A d \in Caller \ {c} : caller'[d] = caller[d]
  BY GotoEffect
<1>2. ASSUME NEW d \in Caller \ {c} PROVE caller'[d].pc \notin WorkingPc
  BY <1>1, LockIsUnique DEF WorkersHaveLock
<1>3. ChainListsWaiting'
  <2>1. \A d \in Caller : caller'[d].pc \in ChainPc <=> caller[d].pc \in ChainPc
    BY <1>1
  <2> QED
    BY <2>1 DEF ChainListsWaiting
<1>4. WorkersHaveLock'
  BY <1>2 DEF WorkersHaveLock, Lbug!HasLock
<1> QED
  BY <1>1, <1>2, <1>3, <1>4 DEF Lbug!TypeOK

-----------------------------------------------------------------------------
(* The writable database: steps *)

LEMMA LbugStarts ==
  ASSUME Attempts \in Nat \ {0}, Lbug!Init
  PROVE  SessionInv
<1>1. [pc |-> "idle", wants |-> "operation", path |-> NoPath, attempt |-> 1] \in CallRecord
  BY DEF CallRecord, CallPc
<1>2. Lbug!TypeOK
  BY <1>1, CallerType, EmptySeq DEF Lbug!Init, Lbug!Closed
<1>3. \A c \in Caller : caller[c].pc = "idle"
  BY DEF Lbug!Init
<1>4. ChainListsWaiting
  <2>1. DOMAIN chain = {}
    BY EmptySeq DEF Lbug!Init
  <2> QED
    BY <1>3, <2>1 DEF ChainListsWaiting, Distinct, Occurs, ChainPc
<1>5. WorkersHaveLock /\ PathsGiven /\ AttemptsLeft /\ Lbug!SwitchExcluded
  BY <1>3 DEF WorkersHaveLock, PathsGiven, AttemptsLeft, Lbug!SwitchExcluded, WorkingPc, Lbug!At
<1> QED
  BY <1>2, <1>4, <1>5 DEF SessionInv

\* A call is to try again only while attempts are left.
LEMMA LbugAttempts ==
  ASSUME Lbug!TypeOK, AttemptsLeft, NEW c \in Caller, Lbug!Step(c)
  PROVE  AttemptsLeft'
<1> DEFINE Retrying == {"busy", "cleanup", "pause"}
<1>others. \A d \in Caller \ {c} : caller'[d] = caller[d]
  <2>1. CASE Lbug!Call(c) \/ Lbug!Again(c)
    BY <2>1, CallerType DEF Lbug!Call, Lbug!Again
  <2>2. CASE ~Lbug!Call(c) /\ ~Lbug!Again(c)
    <3>1. \E pc \in CallPc : Lbug!Goto(c, pc)
      BY <2>2 DEF Lbug!Step, Lbug!Enter, Lbug!Open, Lbug!OpenFails, Lbug!Succeed, Lbug!Fail, Lbug!TimeOut, Lbug!Busy, Lbug!QueueCleanup,
                  Lbug!Cleanup, Lbug!CloseForPath, Lbug!Leaves, Lbug!Enqueued, CallPc
    <3> QED
      BY <3>1, GotoEffect
  <2> QED
    BY <2>1, <2>2
<1>1. ASSUME caller'[c].pc \in Retrying => caller'[c].attempt < Attempts
      PROVE  AttemptsLeft'
  BY <1>1, <1>others DEF AttemptsLeft
<1>2. CASE Lbug!Call(c) \/ Lbug!Again(c)
  <2>1. caller'[c].pc = "queued"
    BY <1>2, CallerType DEF Lbug!Call, Lbug!Again, CallRecord
  <2> QED
    BY <1>1, <2>1
<1>3. CASE \/ Lbug!Enter(c) \/ Lbug!Open(c) \/ Lbug!OpenFails(c) \/ Lbug!Succeed(c) \/ Lbug!Fail(c) \/ Lbug!TimeOut(c)
           \/ Lbug!CloseForPath(c)
  <2>1. PICK pc \in CallPc \ Retrying : Lbug!Goto(c, pc)
    BY <1>3 DEF Lbug!Enter, Lbug!Open, Lbug!OpenFails, Lbug!Succeed, Lbug!Fail, Lbug!TimeOut, Lbug!CloseForPath, Lbug!Leaves, CallPc
  <2> QED
    BY <1>1, <2>1, GotoEffect
<1>4. CASE Lbug!Busy(c) \/ Lbug!QueueCleanup(c) \/ Lbug!Cleanup(c)
  <2>1. PICK pc \in CallPc : Lbug!Goto(c, pc)
    BY <1>4 DEF Lbug!Busy, Lbug!QueueCleanup, Lbug!Cleanup, Lbug!Leaves, Lbug!Enqueued, CallPc
  <2>2. caller'[c].attempt = caller[c].attempt
    BY <2>1, GotoEffect
  <2>3. caller[c].attempt < Attempts
    BY <1>4 DEF Lbug!Busy, Lbug!QueueCleanup, Lbug!Cleanup, Lbug!At, AttemptsLeft
  <2> QED
    BY <1>1, <2>2, <2>3
<1> QED
  BY <1>2, <1>3, <1>4 DEF Lbug!Step

LEMMA LbugCallMoves ==
  ASSUME Attempts \in Nat \ {0}, SessionInv, NEW c \in Caller, Lbug!Step(c)
  PROVE  SessionInv'
<1> /\ Lbug!TypeOK /\ ChainListsWaiting /\ WorkersHaveLock
    /\ PathsGiven /\ AttemptsLeft /\ Lbug!SwitchExcluded
  BY DEF SessionInv
<1> AttemptsLeft'
  BY LbugAttempts
<1>types. /\ caller \in [Caller -> CallRecord] /\ chain \in Seq(Caller)
          /\ opened \in [path : Path \union {NoPath}, stale : BOOLEAN]
          /\ quarantine \subseteq Path /\ down \in BOOLEAN
          /\ Lbug!Closed \in [path : Path \union {NoPath}, stale : BOOLEAN]
  BY CallerType DEF Lbug!Closed
<1>nobody. ASSUME \A d \in Caller : caller'[d].pc # "operate" PROVE Lbug!SwitchExcluded'
  BY <1>nobody DEF Lbug!SwitchExcluded, Lbug!At
<1>others. ASSUME UNCHANGED <<opened, down>>,
                  \A d \in Caller : caller'[d].pc = "operate" => caller'[d] = caller[d]
           PROVE  Lbug!SwitchExcluded'
  BY <1>others DEF Lbug!SwitchExcluded, Lbug!At
<1>paths. ASSUME caller[c].pc # "idle", \A d \in Caller : caller'[d].path = caller[d].path,
                 \A d \in Caller \ {c} : caller'[d] = caller[d]
          PROVE  PathsGiven'
  BY <1>paths DEF PathsGiven
<1>goto. ASSUME NEW pc \in CallPc, Lbug!Goto(c, pc) PROVE \A d \in Caller \ {c} : caller'[d] = caller[d]
  BY <1>goto, GotoEffect
<1>1. CASE Lbug!Call(c)
  <2>1. PICK path \in Path, wants \in {"operation", "close"} :
          caller' = [caller EXCEPT ![c] =
                      [pc |-> "queued", wants |-> wants, path |-> path, attempt |-> 1]]
    BY <1>1 DEF Lbug!Call
  <2>2. [pc |-> "queued", wants |-> wants, path |-> path, attempt |-> 1] \in CallRecord
    BY DEF CallRecord, CallPc
  <2>3. /\ caller' \in [Caller -> CallRecord]
        /\ caller'[c].pc = "queued" /\ caller'[c].path \in Path
        /\ \A d \in Caller \ {c} : caller'[d] = caller[d]
    BY <1>types, <2>1, <2>2
  <2>4. caller[c].pc \notin ChainPc /\ caller'[c].pc \in ChainPc \ WorkingPc
    BY <1>1, <2>3 DEF Lbug!Call, Lbug!At, ChainPc, WorkingPc
  <2>5. /\ chain' \in Seq(Caller) /\ ChainListsWaiting' /\ WorkersHaveLock'
        /\ \A d \in Caller : caller'[d].pc = "operate" => d # c /\ caller'[d] = caller[d]
    BY <1>1, <2>3, <2>4, JoinInv DEF Lbug!Call
  <2>6. PathsGiven'
    BY <2>3 DEF PathsGiven
  <2> QED
    BY <1>1, <1>types, <1>others, <2>3, <2>5, <2>6, CallerType DEF Lbug!Call, SessionInv, Lbug!TypeOK, CallRecord, CallPc
<1>2. CASE Lbug!Enter(c)
  <2>1. Lbug!HasLock(c) /\ caller[c].pc \in ChainPc /\ chain' = chain
    BY <1>2 DEF Lbug!Enter, Lbug!At, ChainPc
  <2>2. CASE opened.path = caller[c].path
    <3>1. Lbug!Goto(c, "operate") /\ UNCHANGED opened
      BY <1>2, <2>2 DEF Lbug!Enter
    <3>2. /\ chain' \in Seq(Caller) /\ caller' \in [Caller -> CallRecord]
          /\ ChainListsWaiting' /\ WorkersHaveLock'
          /\ \A d \in Caller : caller'[d].path = caller[d].path
          /\ \A d \in Caller : caller'[d].pc = "operate" => d = c
      BY <2>1, <3>1, WorkInv DEF WorkingPc
    <3>3. Lbug!SwitchExcluded'
      BY <2>2, <3>1, <3>2 DEF Lbug!SwitchExcluded, Lbug!At
    <3>4. PathsGiven'
      BY <1>paths, <1>goto, <2>1, <3>1, <3>2 DEF ChainPc, CallPc
    <3> QED
      BY <1>2, <1>types, <3>1, <3>2, <3>3, <3>4 DEF Lbug!Enter, SessionInv, Lbug!TypeOK, CallRecord, CallPc
  <2>3. CASE opened.path # caller[c].path
    <3>1. Lbug!Goto(c, "open") /\ opened' = Lbug!Closed
      BY <1>2, <2>3 DEF Lbug!Enter
    <3>2. /\ chain' \in Seq(Caller) /\ caller' \in [Caller -> CallRecord]
          /\ ChainListsWaiting' /\ WorkersHaveLock' /\ caller'[c].pc = "open"
          /\ \A d \in Caller : caller'[d].path = caller[d].path
          /\ \A d \in Caller : caller'[d].pc = "operate" => d = c
      BY <2>1, <3>1, WorkInv DEF WorkingPc
    <3>3. PathsGiven'
      BY <1>paths, <1>goto, <2>1, <3>1, <3>2 DEF ChainPc, CallPc
    <3>4. Lbug!SwitchExcluded'
      BY <1>nobody, <3>2
    <3> QED
      BY <1>2, <1>types, <3>1, <3>2, <3>3, <3>4 DEF Lbug!Enter, SessionInv, Lbug!TypeOK, CallRecord, CallPc
  <2> QED
    BY <2>2, <2>3
<1>3. CASE Lbug!Open(c)
  <2>1. Lbug!HasLock(c) /\ caller[c].pc \in ChainPc /\ chain' = chain /\ Lbug!Goto(c, "operate")
    BY <1>3 DEF Lbug!Open, Lbug!At, ChainPc
  <2>2. PICK stale \in BOOLEAN : opened' = [path |-> caller[c].path, stale |-> stale]
    BY <1>3 DEF Lbug!Open
  <2>3. opened'.path = caller[c].path
        /\ opened' \in [path : Path \union {NoPath}, stale : BOOLEAN]
    BY <1>types, <2>2 DEF CallRecord
  <2>4. /\ chain' \in Seq(Caller) /\ caller' \in [Caller -> CallRecord]
        /\ ChainListsWaiting' /\ WorkersHaveLock'
        /\ \A d \in Caller : caller'[d].path = caller[d].path
        /\ \A d \in Caller : caller'[d].pc = "operate" => d = c
    BY <2>1, WorkInv DEF WorkingPc
  <2>5. Lbug!SwitchExcluded'
    BY <2>3, <2>4 DEF Lbug!SwitchExcluded, Lbug!At
  <2>6. PathsGiven'
    BY <1>paths, <1>goto, <2>1, <2>4 DEF ChainPc, CallPc
  <2> QED
    BY <1>3, <1>types, <2>3, <2>4, <2>5, <2>6 DEF Lbug!Open, SessionInv, Lbug!TypeOK, CallRecord, CallPc
<1>4. CASE \/ Lbug!OpenFails(c) \/ Lbug!Succeed(c) \/ Lbug!Fail(c) \/ Lbug!TimeOut(c)
           \/ Lbug!Busy(c) \/ Lbug!Cleanup(c) \/ Lbug!CloseForPath(c)
  <2>1. Lbug!HasLock(c) /\ caller[c].pc # "idle"
    BY <1>4 DEF Lbug!OpenFails, Lbug!Succeed, Lbug!Fail, Lbug!TimeOut, Lbug!Busy, Lbug!Cleanup, Lbug!CloseForPath, Lbug!At
  <2>2. PICK pc \in CallPc \ ChainPc : Lbug!Leaves(c, pc)
    BY <1>4 DEF Lbug!OpenFails, Lbug!Succeed, Lbug!Fail, Lbug!TimeOut, Lbug!Busy, Lbug!Cleanup, Lbug!CloseForPath, CallPc, ChainPc
  <2>3. /\ opened' \in [path : Path \union {NoPath}, stale : BOOLEAN]
        /\ down' \in BOOLEAN
    BY <1>4, <1>types
       DEF Lbug!OpenFails, Lbug!Succeed, Lbug!Fail, Lbug!TimeOut, Lbug!Busy, Lbug!Cleanup, Lbug!CloseForPath
  <2>4. quarantine' \subseteq Path
    <3>1. CASE Lbug!TimeOut(c)
      <4>1. caller[c].path \in Path
        BY <2>1 DEF PathsGiven
      <4> QED
        BY <1>types, <3>1, <4>1 DEF Lbug!TimeOut
    <3>2. CASE ~Lbug!TimeOut(c)
      BY <1>4, <1>types, <3>2 DEF Lbug!OpenFails, Lbug!Succeed, Lbug!Fail, Lbug!Busy, Lbug!Cleanup, Lbug!CloseForPath
    <3> QED
      BY <3>1, <3>2
  <2>5. /\ chain' \in Seq(Caller) /\ caller' \in [Caller -> CallRecord]
        /\ ChainListsWaiting' /\ WorkersHaveLock'
        /\ \A d \in Caller : caller'[d].pc # "operate" /\ caller'[d].path = caller[d].path
    BY <2>1, <2>2, LeaveInv
  <2>6. PathsGiven'
    BY <1>paths, <1>goto, <2>1, <2>2, <2>5 DEF Lbug!Leaves
  <2> QED
    BY <1>nobody, <2>3, <2>4, <2>5, <2>6 DEF SessionInv, Lbug!TypeOK, CallRecord, CallPc
<1>5. CASE Lbug!QueueCleanup(c)
  <2>1. Lbug!Goto(c, "cleanup") /\ chain' = Append(chain, c)
    BY <1>5 DEF Lbug!QueueCleanup, Lbug!Enqueued
  <2>2. /\ caller' \in [Caller -> CallRecord] /\ caller'[c].pc = "cleanup"
        /\ caller'[c].path = caller[c].path
        /\ \A d \in Caller \ {c} : caller'[d] = caller[d]
    BY <2>1, GotoEffect DEF CallPc
  <2>3. caller[c].pc \notin ChainPc /\ caller'[c].pc \in ChainPc \ WorkingPc
    BY <1>5, <2>2 DEF Lbug!QueueCleanup, Lbug!At, ChainPc, WorkingPc
  <2>4. /\ chain' \in Seq(Caller) /\ ChainListsWaiting' /\ WorkersHaveLock'
        /\ \A d \in Caller : caller'[d].pc = "operate" => d # c /\ caller'[d] = caller[d]
    BY <2>1, <2>2, <2>3, JoinInv
  <2>5. PathsGiven'
    BY <1>5, <1>paths, <2>2 DEF Lbug!QueueCleanup, Lbug!At
  <2> QED
    BY <1>5, <1>types, <1>others, <2>2, <2>4, <2>5
       DEF Lbug!QueueCleanup, SessionInv, Lbug!TypeOK, CallRecord, CallPc
<1>6. CASE Lbug!Again(c)
  <2>1. [caller[c] EXCEPT !.pc = "queued", !.attempt = @ + 1] \in CallRecord
    <3>1. caller[c] \in CallRecord /\ caller[c].attempt < Attempts
      BY <1>6, <1>types DEF Lbug!Again, Lbug!At, AttemptsLeft
    <3>2. caller[c].attempt + 1 \in 1..Attempts
      BY <3>1 DEF CallRecord
    <3> QED
      BY <3>1, <3>2 DEF CallRecord, CallPc
  <2>2. caller' = [caller EXCEPT ![c] = [caller[c] EXCEPT !.pc = "queued", !.attempt = @ + 1]]
        /\ chain' = Append(chain, c)
    BY <1>6, <1>types DEF Lbug!Again
  <2>3. /\ caller' \in [Caller -> CallRecord] /\ caller'[c].pc = "queued"
        /\ caller'[c].path = caller[c].path
        /\ \A d \in Caller \ {c} : caller'[d] = caller[d]
    BY <1>types, <2>1, <2>2 DEF CallRecord
  <2>4. caller[c].pc \notin ChainPc /\ caller'[c].pc \in ChainPc \ WorkingPc
    BY <1>6, <2>3 DEF Lbug!Again, Lbug!At, ChainPc, WorkingPc
  <2>5. /\ chain' \in Seq(Caller) /\ ChainListsWaiting' /\ WorkersHaveLock'
        /\ \A d \in Caller : caller'[d].pc = "operate" => d # c /\ caller'[d] = caller[d]
    BY <2>2, <2>3, <2>4, JoinInv
  <2>6. PathsGiven'
    BY <1>6, <1>paths, <2>3 DEF Lbug!Again, Lbug!At
  <2> QED
    BY <1>6, <1>types, <1>others, <2>3, <2>5, <2>6 DEF Lbug!Again, SessionInv, Lbug!TypeOK, CallRecord, CallPc
<1> QED
  BY <1>1, <1>2, <1>3, <1>4, <1>5, <1>6 DEF Lbug!Step

LEMMA LbugMoves ==
  ASSUME Attempts \in Nat \ {0}, SessionInv, [Lbug!Next]_lbugVars
  PROVE  SessionInv'
<1>1. CASE UNCHANGED lbugVars
  BY <1>1 DEF SessionInv, lbugVars, Lbug!TypeOK, ChainListsWaiting, WorkersHaveLock, PathsGiven,
              AttemptsLeft, Lbug!SwitchExcluded, Lbug!HasLock, Lbug!At
<1>2. CASE \E c \in Caller : Lbug!Step(c)
  BY <1>2, LbugCallMoves
<1>3. CASE Lbug!QuarantineClosed
  BY <1>3 DEF Lbug!QuarantineClosed, SessionInv, Lbug!TypeOK, ChainListsWaiting, WorkersHaveLock,
              PathsGiven, AttemptsLeft, Lbug!SwitchExcluded, Lbug!HasLock, Lbug!At
<1>4. CASE Lbug!Shutdown
  <2>1. Lbug!Closed \in [path : Path \union {NoPath}, stale : BOOLEAN]
    BY DEF Lbug!Closed
  <2> QED
    BY <1>4, <2>1 DEF Lbug!Shutdown, SessionInv, Lbug!TypeOK, ChainListsWaiting, WorkersHaveLock,
                PathsGiven, AttemptsLeft, Lbug!SwitchExcluded, Lbug!HasLock, Lbug!At
<1> QED
  BY <1>1, <1>2, <1>3, <1>4 DEF Lbug!Next

-----------------------------------------------------------------------------
(* The ledger of the jobs: a save that is due, queued or running writes the jobs as
   they are when it begins, and every change after that asks for another one. *)

\* The inductive invariant: what a running save writes, or else what the last one
\* wrote, is current unless another save is due.
LedgerInv ==
  /\ Ledger!TypeOK
  /\ chained = 0 /\ ~timer =>
       IF writing = NoWrite THEN ~missed => Ledger!Recovered(disk) = Ledger!Recovered(jobs)
       ELSE Ledger!Recovered(writing) = Ledger!Recovered(jobs)

LEMMA LedgerConstants ==
  /\ NoWrite \notin [Jobs -> Ledger!Job]
  /\ MaxSteps \in Nat /\ MaxSaves \in Nat /\ MaxFaults \in Nat
BY ServerAssumption

LEMMA JobFields ==
  /\ Ledger!None \in Ledger!Job /\ Ledger!None \notin Ledger!Active
  /\ \A job \in Ledger!Job \ {Ledger!None} :
       job \in [status : {"active", "complete", "failed"}, step : 0..MaxSteps]
  /\ \A step \in 0..MaxSteps :
       /\ [status |-> "active", step |-> step] \in Ledger!Job
       /\ [status |-> "complete", step |-> step] \in Ledger!Job
       /\ [status |-> "failed", step |-> step] \in Ledger!Job
       /\ [status |-> "failed", step |-> step] \notin Ledger!Active
<1>1. \A job \in Ledger!Active : job.status = "active"
  BY DEF Ledger!Active
<1>2. Ledger!None.status = "none"
  BY DEF Ledger!None
<1>3. Ledger!None \in Ledger!Job /\ Ledger!None \notin Ledger!Active
  BY <1>1, <1>2 DEF Ledger!Job
<1>4. ASSUME NEW job \in Ledger!Job, job # Ledger!None
      PROVE  job \in [status : {"active", "complete", "failed"}, step : 0..MaxSteps]
  <2>1. CASE job \in Ledger!Active
    BY <2>1 DEF Ledger!Active
  <2>2. CASE job \in Ledger!Terminal
    BY <2>2 DEF Ledger!Terminal
  <2> QED
    BY <1>4, <2>1, <2>2 DEF Ledger!Job
<1>5. ASSUME NEW step \in 0..MaxSteps
      PROVE  /\ [status |-> "active", step |-> step] \in Ledger!Job
             /\ [status |-> "complete", step |-> step] \in Ledger!Job
             /\ [status |-> "failed", step |-> step] \in Ledger!Job
  <2>1. [status |-> "active", step |-> step] \in Ledger!Active
    BY DEF Ledger!Active
  <2>2. /\ [status |-> "complete", step |-> step] \in Ledger!Terminal
        /\ [status |-> "failed", step |-> step] \in Ledger!Terminal
    BY DEF Ledger!Terminal
  <2> QED
    BY <2>1, <2>2 DEF Ledger!Job
<1>6. \A step \in 0..MaxSteps : [status |-> "failed", step |-> step] \notin Ledger!Active
  BY <1>1
<1> QED
  BY <1>3, <1>4, <1>5, <1>6

\* Of an active job, recovery keeps the progress.
LEMMA RecoveredJob ==
  ASSUME NEW job \in Ledger!Active
  PROVE  /\ [job EXCEPT !.status = "failed"] \in Ledger!Job
         /\ [job EXCEPT !.status = "failed"] \notin Ledger!Active
<1>1. PICK step \in 0..MaxSteps : job = [status |-> "active", step |-> step]
  BY DEF Ledger!Active
<1>2. [job EXCEPT !.status = "failed"] = [status |-> "failed", step |-> step]
  BY <1>1
<1> QED
  BY <1>2, JobFields

\* A restart finds jobs of the type, none of them active, and a second restart finds
\* the same.
LEMMA RecoveredTypes ==
  ASSUME NEW ledger \in [Jobs -> Ledger!Job] \union {NoWrite}
  PROVE  /\ Ledger!Recovered(ledger) \in [Jobs -> Ledger!Job]
         /\ \A j \in Jobs : Ledger!Recovered(ledger)[j] \notin Ledger!Active
BY JobFields, RecoveredJob DEF Ledger!Recovered

LEMMA RecoveredTwice ==
  ASSUME NEW ledger \in [Jobs -> Ledger!Job] \union {NoWrite}
  PROVE  Ledger!Recovered(Ledger!Recovered(ledger)) = Ledger!Recovered(ledger)
<1> DEFINE once == Ledger!Recovered(ledger)
<1>1. once \in [Jobs -> Ledger!Job] /\ \A j \in Jobs : once[j] \notin Ledger!Active
  BY RecoveredTypes
<1>2. once # NoWrite
  BY <1>1, LedgerConstants
<1> SUFFICES Ledger!Recovered(once) = once
  OBVIOUS
<1> HIDE DEF once
<1>3. Ledger!Recovered(once) = [j \in Jobs |-> once[j]]
  BY <1>1, <1>2 DEF Ledger!Recovered
<1> QED
  BY <1>1, <1>3

LEMMA LedgerStarts == Ledger!Init => LedgerInv
<1> SUFFICES ASSUME Ledger!Init PROVE LedgerInv
  OBVIOUS
<1>1. jobs \in [Jobs -> Ledger!Job] /\ disk = jobs
  BY JobFields DEF Ledger!Init
<1>2. writing = NoWrite /\ chained = 0 /\ timer = FALSE /\ missed = FALSE /\ failures = 0
  BY DEF Ledger!Init
<1>3. {timer, missed} \subseteq BOOLEAN
  BY <1>2
<1>4. chained \in 0..MaxSaves /\ failures \in 0..MaxFaults
  BY <1>2, LedgerConstants
<1>5. Ledger!TypeOK
  BY <1>1, <1>2, <1>3, <1>4 DEF Ledger!TypeOK
<1> QED
  BY <1>1, <1>5 DEF LedgerInv, Ledger!Init

\* A change of the jobs asks for a save.
LEMMA ChangeAsks ==
  ASSUME LedgerInv, NEW immediate \in BOOLEAN, Ledger!ScheduleSave(immediate),
         jobs' \in [Jobs -> Ledger!Job], UNCHANGED <<disk, writing, missed, failures>>
  PROVE  LedgerInv'
<1>1. chained \in 0..MaxSaves /\ missed \in BOOLEAN
  BY DEF LedgerInv, Ledger!TypeOK
<1>2. CASE immediate
  <2>1. chained < MaxSaves /\ timer' = FALSE /\ chained' = chained + 1
    BY <1>2 DEF Ledger!ScheduleSave
  <2>2. chained' \in 0..MaxSaves /\ chained' # 0
    BY <1>1, <2>1, LedgerConstants
  <2> QED
    BY <2>1, <2>2 DEF LedgerInv, Ledger!TypeOK
<1>3. CASE ~immediate
  <2>1. timer' = TRUE /\ chained' = chained
    BY <1>3 DEF Ledger!ScheduleSave
  <2> QED
    BY <2>1 DEF LedgerInv, Ledger!TypeOK
<1> QED
  BY <1>2, <1>3

LEMMA CreateKeeps ==
  ASSUME LedgerInv, NEW j \in Jobs, Ledger!Create(j)
  PROVE  LedgerInv'
<1>1. [status |-> "active", step |-> 0] \in Ledger!Job
  <2>1. 0 \in 0..MaxSteps
    BY LedgerConstants
  <2> QED
    BY <2>1, JobFields
<1>2. jobs' \in [Jobs -> Ledger!Job]
  BY <1>1 DEF Ledger!Create, LedgerInv, Ledger!TypeOK
<1> QED
  BY <1>2, ChangeAsks DEF Ledger!Create

LEMMA ProgressKeeps ==
  ASSUME LedgerInv, NEW j \in Jobs, Ledger!Progress(j)
  PROVE  LedgerInv'
<1>1. jobs[j].step + 1 \in 0..MaxSteps
  BY JobFields, LedgerConstants DEF Ledger!Progress, LedgerInv, Ledger!TypeOK
<1>2. [status |-> "active", step |-> jobs[j].step + 1] \in Ledger!Job
  BY <1>1, JobFields
<1>3. jobs' = [jobs EXCEPT ![j] = [status |-> "active", step |-> jobs[j].step + 1]]
  BY DEF Ledger!Progress
<1>4. jobs' \in [Jobs -> Ledger!Job]
  BY <1>2, <1>3 DEF LedgerInv, Ledger!TypeOK
<1> QED
  BY <1>4, ChangeAsks DEF Ledger!Progress

LEMMA FinishKeeps ==
  ASSUME LedgerInv, NEW j \in Jobs, NEW status \in {"complete", "failed"},
         Ledger!Finish(j, status)
  PROVE  LedgerInv'
<1>1. PICK step \in 0..MaxSteps : jobs[j] = [status |-> "active", step |-> step]
  BY DEF Ledger!Finish, Ledger!Active
<1>2. [jobs[j] EXCEPT !.status = status] = [status |-> status, step |-> step]
  BY <1>1
<1>3. [jobs[j] EXCEPT !.status = status] \in Ledger!Job
  BY <1>2, JobFields
<1>4. jobs' = [jobs EXCEPT ![j] = [jobs[j] EXCEPT !.status = status]]
  BY DEF Ledger!Finish, LedgerInv, Ledger!TypeOK
<1>5. jobs' \in [Jobs -> Ledger!Job]
  BY <1>3, <1>4 DEF LedgerInv, Ledger!TypeOK
<1> QED
  BY <1>5, ChangeAsks DEF Ledger!Finish

LEMMA LedgerCleanupKeeps ==
  ASSUME LedgerInv, Ledger!Cleanup
  PROVE  LedgerInv'
<1>1. jobs' \in [Jobs -> Ledger!Job]
  BY JobFields DEF Ledger!Cleanup, LedgerInv, Ledger!TypeOK
<1> QED
  BY <1>1, ChangeAsks DEF Ledger!Cleanup

LEMMA TimerKeeps ==
  ASSUME LedgerInv, Ledger!TimerFires
  PROVE  LedgerInv'
BY ChangeAsks DEF Ledger!TimerFires, LedgerInv, Ledger!TypeOK

\* A save writes the jobs as they are when it begins.
LEMMA SaveKeeps ==
  ASSUME LedgerInv,
         Ledger!SaveBegins \/ Ledger!SaveRefused \/ Ledger!SaveEnds \/ Ledger!WriteFails
  PROVE  LedgerInv'
<1> USE LedgerConstants DEF LedgerInv, Ledger!TypeOK
<1>1. CASE Ledger!SaveBegins
  <2>1. /\ chained' \in 0..MaxSaves /\ writing' = jobs /\ disk' = NoWrite
        /\ UNCHANGED <<jobs, timer, missed, failures>>
    BY <1>1 DEF Ledger!SaveBegins
  <2> QED
    BY <2>1
<1>2. CASE Ledger!SaveRefused \/ Ledger!WriteFails
  <2>1. /\ chained' \in 0..MaxSaves /\ failures' \in 0..MaxFaults
        /\ missed' = TRUE /\ writing' = NoWrite
        /\ UNCHANGED <<jobs, timer, disk>>
    BY <1>2 DEF Ledger!SaveRefused, Ledger!WriteFails
  <2> QED
    BY <2>1
<1>3. CASE Ledger!SaveEnds
  BY <1>3 DEF Ledger!SaveEnds
<1> QED
  BY <1>1, <1>2, <1>3

LEMMA RestartKeeps ==
  ASSUME LedgerInv, Ledger!Restart
  PROVE  LedgerInv'
<1>1. disk \in [Jobs -> Ledger!Job] \union {NoWrite}
  BY DEF LedgerInv, Ledger!TypeOK
<1>2. jobs' = Ledger!Recovered(disk) /\ disk' = disk
  BY DEF Ledger!Restart
<1>3. /\ jobs' \in [Jobs -> Ledger!Job]
      /\ Ledger!Recovered(disk') = Ledger!Recovered(jobs')
  BY <1>1, <1>2, RecoveredTypes, RecoveredTwice
<1>4. /\ writing' = NoWrite /\ chained' = 0 /\ timer' = FALSE /\ missed' = FALSE
      /\ failures' \in 0..MaxFaults
  BY LedgerConstants DEF Ledger!Restart, LedgerInv, Ledger!TypeOK
<1>5. Ledger!TypeOK'
  <2>1. {timer', missed'} \subseteq BOOLEAN
    BY <1>4
  <2>2. chained' \in 0..MaxSaves
    BY <1>4, LedgerConstants
  <2> QED
    BY <1>1, <1>2, <1>3, <1>4, <2>1, <2>2 DEF Ledger!TypeOK
<1> QED
  BY <1>3, <1>4, <1>5 DEF LedgerInv

LEMMA LedgerMoves ==
  ASSUME LedgerInv, [Ledger!Next]_ledgerVars
  PROVE  LedgerInv'
<1>1. CASE UNCHANGED ledgerVars
  <2>1. UNCHANGED <<jobs, disk, writing, chained, timer, missed, failures>>
    BY <1>1 DEF ledgerVars
  <2>2. Ledger!TypeOK'
    BY <2>1 DEF LedgerInv, Ledger!TypeOK
  <2>3. Ledger!Recovered(jobs)' = Ledger!Recovered(jobs)
    BY <2>1 DEF Ledger!Recovered
  <2> QED
    BY <2>1, <2>2 DEF LedgerInv
<1> QED
  BY <1>1, CreateKeeps, ProgressKeeps, FinishKeeps, LedgerCleanupKeeps, TimerKeeps, SaveKeeps,
     RestartKeeps DEF Ledger!Next

-----------------------------------------------------------------------------
(* Embedding jobs *)

\* The inductive invariant of EmbedJobs: a request whose pipeline does not run has
\* nothing left behind, and one whose job is active can still be told to stop.
EmbedInv ==
  /\ Embeds!TypeOK
  /\ EmbedsUnderLock
  /\ \A e \in Embed : embedTask[e].runs =>
       embedTask[e].job \in Embed /\ (Embeds!Active(embedTask[e].job) => embedTask[e].handler)
  /\ \A e \in Embed : ~embedTask[e].runs =>
       ~embedTask[e].timer /\ ~embedTask[e].handler /\ embedTask[e].job = NoWriter

LEMMA EmbedsStart == Embeds!Init /\ MaxReaders \in Nat => EmbedInv
BY DEF Embeds!Init, Embeds!NoTask, EmbedInv, Embeds!TypeOK, EmbedsUnderLock, Embeds!EmbedsUnderLock,
       Embeds!Active

\* One pipeline runs at a time, and then nobody else has the lock.
LEMMA OneRuns ==
  ASSUME EmbedInv, NEW e \in Embed, NEW f \in Embed, embedTask[e].runs, embedTask[f].runs
  PROVE  e = f
BY DEF EmbedInv, EmbedsUnderLock, Embeds!EmbedsUnderLock

LEMMA NobodyRuns ==
  ASSUME EmbedInv, repoLock.writer \notin Embed \/ repoLock.readers # 0
  PROVE  /\ \A e \in Embed : ~embedTask[e].runs
         /\ \A j \in Embed : ~Embeds!Active(j)
BY DEF EmbedInv, EmbedsUnderLock, Embeds!EmbedsUnderLock

\* What keeps the invariant when neither a job nor a request changes.
LEMMA LockMoves ==
  ASSUME EmbedInv, UNCHANGED <<embedJob, embedTask>>,
         repoLock' \in [writer : Embed \union Deletion \union {Analysis, NoWriter},
                        readers : 0..MaxReaders],
         deletion' \in [Deletion -> {"none", "waiting", "deleting"}],
         repoLock' = repoLock \/ \A e \in Embed : ~embedTask[e].runs
  PROVE  EmbedInv'
BY DEF EmbedInv, Embeds!TypeOK, EmbedsUnderLock, Embeds!EmbedsUnderLock, Embeds!Active, Embeds!NoTask

\* What a step has to show: how the fields of the requests end up.
LEMMA TasksSettle ==
  ASSUME EmbedInv, Embeds!TypeOK', NEW e \in Embed,
         repoLock' = [writer |-> e, readers |-> 0],
         \A f \in Embed \ {e} : /\ ~embedTask'[f].runs /\ ~embedTask'[f].timer
                               /\ ~embedTask'[f].handler /\ embedTask'[f].job = NoWriter,
         embedTask'[e].runs, embedTask'[e].job \in Embed,
         \A j \in Embed : embedJob'[j] = "analyzing" => j = embedTask'[e].job,
         embedJob'[embedTask'[e].job] = "analyzing" => embedTask'[e].handler,
         embedJob'[embedTask'[e].job] = "failed" => embedTask'[e].aborted
  PROVE  EmbedInv'
BY DEF EmbedInv, EmbedsUnderLock, Embeds!EmbedsUnderLock, Embeds!Active

LEMMA PostKeeps ==
  ASSUME EmbedInv, NEW e \in Embed, Embeds!Post(e)
  PROVE  EmbedInv'
<1>1. NoWriter \notin Embed /\ MaxReaders \in Nat
  BY ServerAssumption
<1>2. repoLock.writer = NoWriter /\ repoLock.readers = 0
  BY DEF Embeds!Post, Embeds!Lock, Embeds!Unlocked
<1>3. /\ \A f \in Embed : ~embedTask[f].runs
      /\ \A j \in Embed : ~Embeds!Active(j)
  BY <1>1, <1>2, NobodyRuns
<1>4. Embeds!JobFor(e) = e
  BY <1>3 DEF Embeds!JobFor
<1>5. /\ repoLock' = [writer |-> e, readers |-> 0]
      /\ embedJob' = [embedJob EXCEPT ![e] = "analyzing"]
      /\ deletion' = deletion
  BY <1>2, <1>4 DEF Embeds!Post, Embeds!Lock, EmbedInv, Embeds!TypeOK
<1>6. embedTask' = [f \in Embed |->
         IF f = e THEN [runs |-> TRUE, job |-> e, aborted |-> FALSE, timer |-> TRUE,
                        handler |-> TRUE]
         ELSE embedTask[f]]
  <2>1. \A f \in Embed : embedTask[f].job # e
    BY <1>1, <1>3 DEF EmbedInv
  <2> QED
    BY <1>4, <2>1 DEF Embeds!Post
<1>7. Embeds!TypeOK'
  BY <1>1, <1>5, <1>6 DEF EmbedInv, Embeds!TypeOK
<1>8. \A f \in Embed \ {e} : embedTask'[f] = embedTask[f]
  BY <1>6
<1>9. /\ embedTask'[e].runs /\ embedTask'[e].job = e /\ embedTask'[e].handler
  BY <1>6
<1>10. /\ embedJob'[e] = "analyzing"
       /\ \A j \in Embed : embedJob'[j] = "analyzing" => j = e
  BY <1>3, <1>5 DEF EmbedInv, Embeds!TypeOK, Embeds!Active
<1>11. \A f \in Embed \ {e} : /\ ~embedTask'[f].runs /\ ~embedTask'[f].timer
                              /\ ~embedTask'[f].handler /\ embedTask'[f].job = NoWriter
  BY <1>3, <1>8 DEF EmbedInv
<1> QED
  BY <1>5, <1>7, <1>9, <1>10, <1>11, TasksSettle

LEMMA PipelineEndsKeeps ==
  ASSUME EmbedInv, NEW e \in Embed, NEW status \in {"complete", "failed"},
         Embeds!PipelineEnds(e, status)
  PROVE  EmbedInv'
<1>1. NoWriter \notin Embed /\ MaxReaders \in Nat
  BY ServerAssumption
<1>2. /\ embedTask[e].runs /\ embedTask[e].job \in Embed
      /\ repoLock = [writer |-> e, readers |-> 0]
  BY DEF Embeds!PipelineEnds, EmbedInv, EmbedsUnderLock, Embeds!EmbedsUnderLock
<1>3. \A f \in Embed \ {e} : ~embedTask[f].runs
  BY <1>2, OneRuns
<1>4. \A j \in Embed : Embeds!Active(j) => j = embedTask[e].job
  BY <1>3 DEF EmbedInv, EmbedsUnderLock, Embeds!EmbedsUnderLock
<1>5. /\ repoLock' = [writer |-> NoWriter, readers |-> 0]
      /\ embedTask' = [embedTask EXCEPT ![e] = Embeds!NoTask]
      /\ deletion' = deletion
      /\ embedJob' \in [Embed -> {"none", "analyzing", "complete", "failed"}]
      /\ \A j \in Embed : embedJob'[j] # "analyzing"
  BY <1>2, <1>4 DEF Embeds!PipelineEnds, Embeds!Unlock, EmbedInv, Embeds!TypeOK, Embeds!Active
<1>6. Embeds!TypeOK'
  BY <1>1, <1>5 DEF EmbedInv, Embeds!TypeOK, Embeds!NoTask
<1>7. \A f \in Embed : /\ ~embedTask'[f].runs /\ ~embedTask'[f].timer
                       /\ ~embedTask'[f].handler /\ embedTask'[f].job = NoWriter
  BY <1>3, <1>5 DEF EmbedInv, Embeds!TypeOK, Embeds!NoTask
<1> QED
  BY <1>5, <1>6, <1>7 DEF EmbedInv, EmbedsUnderLock, Embeds!EmbedsUnderLock, Embeds!Active

LEMMA CancelKeeps ==
  ASSUME EmbedInv, NEW j \in Embed, Embeds!Cancel(j)
  PROVE  EmbedInv'
<1>1. PICK e \in Embed : embedTask[e].runs /\ embedTask[e].job = j
  BY DEF Embeds!Cancel, EmbedInv, EmbedsUnderLock, Embeds!EmbedsUnderLock
<1>2. repoLock' = [writer |-> e, readers |-> 0]
  BY <1>1 DEF Embeds!Cancel, Embeds!Cancelled, EmbedInv, EmbedsUnderLock, Embeds!EmbedsUnderLock
<1>3. \A f \in Embed \ {e} : /\ ~embedTask[f].runs /\ ~embedTask[f].timer
                             /\ ~embedTask[f].handler /\ embedTask[f].job = NoWriter
  BY <1>1, OneRuns DEF EmbedInv
<1>4. embedTask[e].handler
  BY <1>1 DEF Embeds!Cancel, EmbedInv
<1>5. embedTask' = [embedTask EXCEPT ![e] = [@ EXCEPT !.aborted = TRUE, !.handler = FALSE]]
  BY <1>1, <1>3, <1>4 DEF Embeds!Cancel, Embeds!Cancelled, EmbedInv, Embeds!TypeOK
<1>6. embedJob' = [embedJob EXCEPT ![j] = "failed"] /\ UNCHANGED <<repoLock, deletion>>
  BY DEF Embeds!Cancel, Embeds!Cancelled
<1>7. Embeds!TypeOK'
  BY <1>5, <1>6 DEF EmbedInv, Embeds!TypeOK
<1>8. \A f \in Embed \ {e} : embedTask'[f] = embedTask[f]
  BY <1>5 DEF EmbedInv, Embeds!TypeOK
<1>9. embedTask'[e].runs /\ embedTask'[e].job = j /\ embedTask'[e].aborted
  BY <1>1, <1>5 DEF EmbedInv, Embeds!TypeOK
<1>10. \A i \in Embed : embedJob'[i] # "analyzing"
  BY <1>1, <1>3, <1>6
     DEF EmbedInv, Embeds!TypeOK, EmbedsUnderLock, Embeds!EmbedsUnderLock, Embeds!Active
<1> QED
  BY <1>2, <1>3, <1>7, <1>8, <1>9, <1>10, TasksSettle

LEMMA TimeOutKeeps ==
  ASSUME EmbedInv, NEW e \in Embed, Embeds!TimeOut(e)
  PROVE  EmbedInv'
<1>1. embedTask[e].runs /\ embedTask[e].job \in Embed
  BY DEF Embeds!TimeOut, EmbedInv
<1>2. repoLock' = [writer |-> e, readers |-> 0]
  BY <1>1 DEF Embeds!TimeOut, EmbedInv, EmbedsUnderLock, Embeds!EmbedsUnderLock
<1>3. \A f \in Embed \ {e} : /\ ~embedTask[f].runs /\ ~embedTask[f].timer
                             /\ ~embedTask[f].handler /\ embedTask[f].job = NoWriter
  BY <1>1, OneRuns DEF EmbedInv
<1>4. embedTask' = [embedTask EXCEPT ![e] =
                      [@ EXCEPT !.timer = FALSE, !.aborted = TRUE, !.handler = FALSE]]
  BY DEF Embeds!TimeOut, EmbedInv, Embeds!TypeOK
<1>5. /\ embedJob' = [embedJob EXCEPT ![embedTask[e].job] = "failed"]
      /\ UNCHANGED <<repoLock, deletion>>
  BY DEF Embeds!TimeOut
<1>6. Embeds!TypeOK'
  <2>1. embedTask[e] \in [runs : BOOLEAN, job : Embed \union {NoWriter}, aborted : BOOLEAN,
                         timer : BOOLEAN, handler : BOOLEAN]
    BY DEF EmbedInv, Embeds!TypeOK
  <2>2. [embedTask[e] EXCEPT !.timer = FALSE, !.aborted = TRUE, !.handler = FALSE]
          \in [runs : BOOLEAN, job : Embed \union {NoWriter}, aborted : BOOLEAN,
               timer : BOOLEAN, handler : BOOLEAN]
    BY <2>1
  <2> QED
    BY <1>1, <1>4, <1>5, <2>2 DEF EmbedInv, Embeds!TypeOK
<1>7. \A f \in Embed \ {e} : embedTask'[f] = embedTask[f]
  BY <1>4 DEF EmbedInv, Embeds!TypeOK
<1>8. embedTask'[e].runs /\ embedTask'[e].job = embedTask[e].job /\ embedTask'[e].aborted
  BY <1>1, <1>4 DEF EmbedInv, Embeds!TypeOK
<1>9. \A i \in Embed : embedJob'[i] # "analyzing"
  BY <1>1, <1>3, <1>5
     DEF EmbedInv, Embeds!TypeOK, EmbedsUnderLock, Embeds!EmbedsUnderLock, Embeds!Active
<1> QED
  BY <1>1, <1>2, <1>3, <1>6, <1>7, <1>8, <1>9, TasksSettle

LEMMA LateTimerKeeps ==
  ASSUME EmbedInv, NEW e \in Embed, Embeds!TimesOutLate(e)
  PROVE  EmbedInv'
<1>1. embedTask[e].runs /\ embedTask[e].job \in Embed /\ ~Embeds!Active(embedTask[e].job)
  BY DEF Embeds!TimesOutLate, EmbedInv
<1>2. /\ embedTask' = [embedTask EXCEPT ![e].timer = FALSE]
      /\ UNCHANGED <<repoLock, embedJob, deletion>>
  BY DEF Embeds!TimesOutLate
<1>3. \A f \in Embed \ {e} : /\ ~embedTask[f].runs /\ ~embedTask[f].timer
                             /\ ~embedTask[f].handler /\ embedTask[f].job = NoWriter
  BY <1>1, OneRuns DEF EmbedInv
<1>4. Embeds!TypeOK'
  BY <1>2 DEF EmbedInv, Embeds!TypeOK
<1>5. \A f \in Embed \ {e} : embedTask'[f] = embedTask[f]
  BY <1>2 DEF EmbedInv, Embeds!TypeOK
<1>6. /\ embedTask'[e].runs /\ embedTask'[e].job = embedTask[e].job
      /\ embedTask'[e].aborted = embedTask[e].aborted
  BY <1>1, <1>2 DEF EmbedInv, Embeds!TypeOK
<1>7. /\ repoLock = [writer |-> e, readers |-> 0]
      /\ embedJob[embedTask[e].job] = "failed" => embedTask[e].aborted
      /\ \A j \in Embed : embedJob[j] # "analyzing"
  BY <1>1, <1>3
     DEF EmbedInv, EmbedsUnderLock, Embeds!EmbedsUnderLock, Embeds!Active
<1> QED
  BY <1>1, <1>2, <1>3, <1>4, <1>5, <1>6, <1>7, TasksSettle

LEMMA CleanupKeeps ==
  ASSUME EmbedInv, NEW j \in Embed, Embeds!Cleanup(j)
  PROVE  EmbedInv'
BY DEF Embeds!Cleanup, EmbedInv, Embeds!TypeOK, EmbedsUnderLock, Embeds!EmbedsUnderLock,
       Embeds!Active, Embeds!NoTask

LEMMA DeletionKeeps ==
  ASSUME EmbedInv, NEW d \in Deletion, Embeds!DeleteStep(d)
  PROVE  EmbedInv'
<1>1. d \notin Embed /\ NoWriter \notin Embed /\ NoWriter \notin Deletion /\ MaxReaders \in Nat
  BY ServerAssumption
<1>2. UNCHANGED <<embedJob, embedTask>>
  BY DEF Embeds!DeleteStep, Embeds!DeleteAsked, Embeds!DeleteBegins, Embeds!DeleteRefused,
         Embeds!DeleteEnds
<1>3. deletion' \in [Deletion -> {"none", "waiting", "deleting"}]
  BY DEF Embeds!DeleteStep, Embeds!DeleteAsked, Embeds!DeleteBegins, Embeds!DeleteRefused,
         Embeds!DeleteEnds, Embeds!Goto, EmbedInv, Embeds!TypeOK
<1>4. /\ repoLock' \in [writer : Embed \union Deletion \union {Analysis, NoWriter},
                        readers : 0..MaxReaders]
      /\ repoLock' = repoLock \/ repoLock.writer \notin Embed
  BY <1>1 DEF Embeds!DeleteStep, Embeds!DeleteAsked, Embeds!DeleteBegins, Embeds!DeleteRefused,
         Embeds!DeleteEnds, Embeds!Lock, Embeds!Unlocked, Embeds!Unlock, EmbedInv, Embeds!TypeOK
<1> QED
  BY <1>2, <1>3, <1>4, NobodyRuns, LockMoves

LEMMA OthersKeep ==
  ASSUME EmbedInv,
         Embeds!AnalysisBegins \/ Embeds!AnalysisEnds \/ Embeds!ReadBegins \/ Embeds!ReadEnds
  PROVE  EmbedInv'
<1>1. Analysis \notin Embed /\ NoWriter \notin Embed /\ MaxReaders \in Nat
  BY ServerAssumption
<1>2. /\ repoLock' \in [writer : Embed \union Deletion \union {Analysis, NoWriter},
                        readers : 0..MaxReaders]
      /\ repoLock.writer \notin Embed \/ repoLock.readers # 0
  BY <1>1 DEF Embeds!AnalysisBegins, Embeds!AnalysisEnds, Embeds!ReadBegins, Embeds!ReadEnds,
         Embeds!Lock, Embeds!Unlocked, Embeds!Unlock, EmbedInv, Embeds!TypeOK
<1>3. UNCHANGED <<embedJob, embedTask, deletion>>
  BY DEF Embeds!AnalysisBegins, Embeds!AnalysisEnds, Embeds!ReadBegins, Embeds!ReadEnds
<1> QED
  BY <1>2, <1>3, NobodyRuns, LockMoves DEF EmbedInv, Embeds!TypeOK

LEMMA EmbedsMove ==
  ASSUME EmbedInv, [Embeds!Next]_embedVars
  PROVE  EmbedInv'
<1>1. CASE UNCHANGED embedVars
  BY <1>1, LockMoves DEF embedVars, EmbedInv, Embeds!TypeOK
<1>2. ASSUME NEW e \in Embed, Embeds!Step(e)
      PROVE  EmbedInv'
  BY <1>2, PostKeeps, PipelineEndsKeeps, CancelKeeps, TimeOutKeeps, LateTimerKeeps, CleanupKeeps
     DEF Embeds!Step
<1> QED
  BY <1>1, <1>2, DeletionKeeps, OthersKeep DEF Embeds!Next

-----------------------------------------------------------------------------
(* The server *)

\* The inductive invariant of the server.
ServerInv == LockInv /\ AuditInv /\ SessionInv /\ McpInv /\ LedgerInv /\ EmbedInv

LEMMA ServerStarts ==
  ASSUME IsFiniteSet(Request), AllIdle
  PROVE  ServerInv
<1>1. Init /\ Audit!Init /\ Lbug!Init /\ Mcp!Init
  BY DEF AllIdle
<1>2. /\ NoOne \notin Appender /\ Attempts \in Nat \ {0} /\ MaxSessions \in Nat \ {0}
      /\ MaxReaders \in Nat
  BY ServerAssumption
<1>3. EmbedInv
  BY <1>2, EmbedsStart DEF AllIdle
<1>4. LedgerInv
  BY LedgerStarts DEF AllIdle
<1> QED
  BY <1>1, <1>2, <1>3, <1>4, InitProtected, AuditStarts, LbugStarts, McpBegins DEF ServerInv

LEMMA ServerMoves ==
  ASSUME IsFiniteSet(Request), ServerInv, [ServerNext]_serverVars
  PROVE  ServerInv'
<1>1. /\ [Next]_registryVars /\ [Audit!Next]_auditVars
      /\ [Lbug!Next]_lbugVars /\ [Mcp!Next]_mcpVars
      /\ [Ledger!Next]_ledgerVars /\ [Embeds!Next]_embedVars
  BY DEF ServerNext, serverVars, RegistryStep, AuditStep, LbugStep, McpStep, LedgerStep,
         EmbedStep, registryVars, auditVars, lbugVars, mcpVars, ledgerVars,
         embedVars
<1>2. NoOne \notin Appender /\ Attempts \in Nat \ {0} /\ MaxSessions \in Nat \ {0}
  BY ServerAssumption
<1>3. LockInv'
  BY <1>1, LockInvariant DEF ServerInv
<1>4. AuditInv'
  BY <1>1, <1>2, AuditMoves DEF ServerInv
<1>5. SessionInv'
  BY <1>1, <1>2, LbugMoves DEF ServerInv
<1>6. McpInv'
  BY <1>1, <1>2, McpKeeps DEF ServerInv
<1>7. EmbedInv'
  BY <1>1, EmbedsMove DEF ServerInv
<1>8. LedgerInv'
  BY <1>1, LedgerMoves DEF ServerInv
<1> QED
  BY <1>3, <1>4, <1>5, <1>6, <1>7, <1>8 DEF ServerInv

\* The services keep their invariants side by side.
THEOREM ServerInvHolds ==
  ASSUME IsFiniteSet(Request)
  PROVE  ServerSpec => []ServerInv
<1>1. ServerInit => ServerInv
  BY ServerStarts DEF ServerInit
<1>2. ServerInv /\ [ServerNext]_serverVars => ServerInv'
  BY ServerMoves
<1> QED
  BY <1>1, <1>2, PTL DEF ServerSpec

LEMMA ServerInvSays ==
  ASSUME IsFiniteSet(Request)
  PROVE  ServerInv => /\ EventsKept /\ ProjectionCurrent /\ SwitchExcluded /\ SessionsBounded
                      /\ LedgerCurrent /\ EmbedsUnderLock /\ ServerTypeOK
<1>1. ServerInv => EventsKept
  BY DEF ServerInv, AuditInv, Undisturbed, SavedIsThere, EventsKept, Audit!EventsKept,
         Audit!At
<1>2. ServerInv => ProjectionCurrent
  BY ServerAssumption
     DEF ServerInv, AuditInv, Undisturbed, InsideOwns, ProjectedBetween, Audit!Inside,
         ProjectionCurrent, Audit!ProjectionCurrent
<1>3. ServerInv => SwitchExcluded
  BY DEF ServerInv, SessionInv, SwitchExcluded
<1>4. ServerInv => SessionsBounded
  BY McpBounds, ServerAssumption DEF ServerInv, SessionsBounded
<1>5. ServerInv => LedgerCurrent
  BY DEF ServerInv, LedgerInv, LedgerCurrent, Ledger!LedgerCurrent
<1>6. ServerInv => EmbedsUnderLock
  BY DEF ServerInv, EmbedInv
<1>7. ServerInv => ServerTypeOK
  BY DEF ServerInv, LockInv, AuditInv, SessionInv, McpInv, LedgerInv, EmbedInv,
     ServerTypeOK
<1> QED
  BY <1>1, <1>2, <1>3, <1>4, <1>5, <1>6, <1>7

\* Acknowledged audit events stay in the store, for any number of overlapping
\* calls, as long as none of them died, was too slow or threw after saving.
THEOREM ServerKeepsEvents ==
  ASSUME IsFiniteSet(Request)
  PROVE  ServerSpec => []EventsKept
<1>1. ServerInv => EventsKept
  BY ServerInvSays
<1> QED
  BY <1>1, ServerInvHolds, PTL

\* Under the same condition the projection shows every event when the lock is free.
THEOREM ServerProjects ==
  ASSUME IsFiniteSet(Request)
  PROVE  ServerSpec => []ProjectionCurrent
<1>1. ServerInv => ProjectionCurrent
  BY ServerInvSays
<1> QED
  BY <1>1, ServerInvHolds, PTL

\* No operation has its database switched, cleaned up or closed under it before
\* the shutdown, for any callers, paths and attempts.
THEOREM ServerExcludesSwitches ==
  ASSUME IsFiniteSet(Request)
  PROVE  ServerSpec => []SwitchExcluded
<1>1. ServerInv => SwitchExcluded
  BY ServerInvSays
<1> QED
  BY <1>1, ServerInvHolds, PTL

\* The sessions of MCP over HTTP pass their cap by at most the handlers that were
\* ever in flight together, less one, for any cap and finite set of requests.
THEOREM ServerBoundsSessions ==
  ASSUME IsFiniteSet(Request)
  PROVE  ServerSpec => []SessionsBounded
<1>1. ServerInv => SessionsBounded
  BY ServerInvSays
<1> QED
  BY <1>1, ServerInvHolds, PTL

\* When no save is due and the last one did not fail, a restart finds every job as it
\* is, but for the active ones, for any jobs and any saves, failures and restarts.
THEOREM ServerLedgerCurrent ==
  ASSUME IsFiniteSet(Request)
  PROVE  ServerSpec => []LedgerCurrent
<1>1. ServerInv => LedgerCurrent
  BY ServerInvSays
<1> QED
  BY <1>1, ServerInvHolds, PTL

\* A pipeline of embeddings has its repository to itself until it ends, whatever
\* becomes of its job meanwhile, for any embeddings, deletions and readers.
THEOREM ServerEmbedsUnderLock ==
  ASSUME IsFiniteSet(Request)
  PROVE  ServerSpec => []EmbedsUnderLock
<1>1. ServerInv => EmbedsUnderLock
  BY ServerInvSays
<1> QED
  BY <1>1, ServerInvHolds, PTL

\* The variables of every service keep their types.
THEOREM ServerTypes ==
  ASSUME IsFiniteSet(Request)
  PROVE  ServerSpec => []ServerTypeOK
<1>1. ServerInv => ServerTypeOK
  BY ServerInvSays
<1> QED
  BY <1>1, ServerInvHolds, PTL

-----------------------------------------------------------------------------
(* What the lists of phases have in common *)

UniqueNames(L) == \A i, j \in DOMAIN L : L[i].name = L[j].name => i = j

\* Each phase names its dependencies in the list, and reads no output of others
\* but theirs; what a phase empties only its dependencies and itself read.
WellFormed(L) ==
  /\ Len(L) \in Nat /\ DOMAIN L = 1..Len(L)
  /\ UniqueNames(L)
  /\ \A p \in ToSet(L) : p.deps \in Seq(ToSet(Names(L)))
  /\ \E m \in Nat : \A p \in ToSet(L) : Len(p.deps) <= m
  /\ \A p \in ToSet(L), n \in Disposable :
       p.reads \intersect Data(n) # {} => n \in ToSet(p.deps)
  /\ \A p, q \in ToSet(L) :
       q.reads \intersect p.empties # {} => q = p \/ q.name \in ToSet(p.deps)

Name == ToSet(Names(list))
Deps(n) == Called(n).deps

\* A name stands for one phase of the list.
LEMMA CalledPhase ==
  ASSUME WellFormed(list)
  PROVE  /\ \A p \in ToSet(list) : p.name \in Name /\ Called(p.name) = p
         /\ \A n \in Name : Called(n) \in ToSet(list) /\ Called(n).name = n
         /\ \A n \in Name : Deps(n) \in Seq(Name)
<1>1. DOMAIN Names(list) = DOMAIN list /\ \A i \in DOMAIN list : Names(list)[i] = list[i].name
  BY DEF Names
<1>2. ASSUME NEW p \in ToSet(list) PROVE p.name \in Name /\ Called(p.name) = p
  <2>1. PICK i \in DOMAIN list : list[i] = p
    BY DEF ToSet
  <2>2. \A q \in ToSet(list) : q.name = p.name => q = p
    BY <2>1 DEF WellFormed, UniqueNames, ToSet
  <2> QED
    BY <1>1, <2>1, <2>2 DEF Name, ToSet, Called
<1>3. ASSUME NEW n \in Name PROVE Called(n) \in ToSet(list) /\ Called(n).name = n
  <2>1. PICK i \in DOMAIN list : list[i].name = n
    BY <1>1 DEF Name, ToSet
  <2> QED
    BY <1>2, <2>1 DEF ToSet
<1> QED
  BY <1>2, <1>3 DEF WellFormed, Deps, Name

\* There are as many names as phases.
LEMMA NamesFinite ==
  ASSUME WellFormed(list)
  PROVE  IsFiniteSet(Name) /\ Cardinality(Name) = Len(list)
<1>1. Names(list) \in Bijection(1..Len(list), Name)
  <2>1. Names(list) \in [1..Len(list) -> Name]
    BY DEF Names, Name, ToSet, WellFormed
  <2>2. \A i, j \in 1..Len(list) : Names(list)[i] = Names(list)[j] => i = j
    BY DEF Names, WellFormed, UniqueNames
  <2>3. \A n \in Name : \E i \in 1..Len(list) : Names(list)[i] = n
    BY DEF Names, Name, ToSet, WellFormed
  <2> QED
    BY <2>1, <2>2, <2>3, Fun_IsBij
<1>2. ExistsBijection(1..Len(list), Name)
  BY <1>1 DEF ExistsBijection
<1>3. IsFiniteSet(1..Len(list)) /\ Cardinality(1..Len(list)) = Len(list)
  BY FS_Interval DEF WellFormed
<1> QED
  BY <1>2, <1>3, FS_Bijection

-----------------------------------------------------------------------------
(* Names in the order of the list *)

\* InListOrder(S) lists each member of S once.
LEMMA InListOrderListsOnce ==
  ASSUME WellFormed(list), NEW S \in SUBSET Name
  PROVE  /\ InListOrder(S) \in Seq(S) /\ Distinct(InListOrder(S))
         /\ \A n : Occurs(n, InListOrder(S)) <=> n \in S
<1> DEFINE earlier(n) == {m \in S : Before(m, n)}
           rank == [n \in S |-> Cardinality(earlier(n))]
           c == Cardinality(S)
           nth(i) == CHOOSE n \in S : Cardinality(earlier(n)) = i - 1
           q == InListOrder(S)
<1>1. IsFiniteSet(S) /\ c \in Nat
  BY NamesFinite, FS_Subset, FS_CardinalityType
<1>2. ASSUME NEW n \in S PROVE n \notin earlier(n)
  BY DEF Before, WellFormed, UniqueNames
<1>3. ASSUME NEW m \in S, NEW n \in S, Before(m, n) PROVE rank[m] < rank[n]
  <2>1. earlier(m) \subseteq earlier(n)
    <3> SUFFICES ASSUME NEW x \in S, Before(x, m) PROVE Before(x, n)
      OBVIOUS
    <3>1. PICK i \in DOMAIN list, j \in DOMAIN list : i < j /\ list[i].name = x /\ list[j].name = m
      BY DEF Before
    <3>2. PICK k \in DOMAIN list, l \in DOMAIN list : k < l /\ list[k].name = m /\ list[l].name = n
      BY <1>3 DEF Before
    <3>3. j = k
      BY <3>1, <3>2 DEF WellFormed, UniqueNames
    <3>4. i < l
      BY <3>1, <3>2, <3>3 DEF WellFormed
    <3> QED
      BY <3>1, <3>2, <3>4 DEF Before
  <2>2. m \in earlier(n) /\ m \notin earlier(m)
    BY <1>2, <1>3
  <2>3. IsFiniteSet(earlier(n)) /\ IsFiniteSet(earlier(m))
    BY <1>1, FS_Subset
  <2>4. Cardinality(earlier(m)) <= Cardinality(earlier(n)) /\ Cardinality(earlier(m)) # Cardinality(earlier(n))
    BY <2>1, <2>2, <2>3, FS_Subset
  <2> QED
    BY <2>3, <2>4, FS_CardinalityType
<1>4. ASSUME NEW m \in S, NEW n \in S, m # n PROVE rank[m] # rank[n]
  <2>1. PICK i \in DOMAIN list, j \in DOMAIN list : list[i].name = m /\ list[j].name = n
    BY DEF Name, Names, ToSet
  <2>2. Before(m, n) \/ Before(n, m)
    BY <1>4, <2>1 DEF Before, WellFormed
  <2>3. rank[m] \in Nat /\ rank[n] \in Nat
    BY <1>1, FS_Subset, FS_CardinalityType
  <2> QED
    BY <1>3, <2>2, <2>3
<1>5. ASSUME NEW n \in S PROVE rank[n] \in 0..(c - 1)
  <2>1. earlier(n) \subseteq S /\ earlier(n) # S
    BY <1>2
  <2>2. IsFiniteSet(earlier(n)) /\ Cardinality(earlier(n)) <= c /\ Cardinality(earlier(n)) # c
    BY <1>1, <2>1, FS_Subset
  <2> QED
    BY <1>1, <2>2, FS_CardinalityType
<1>6. rank \in Surjection(S, 0..(c - 1))
  <2>1. rank \in Injection(S, 0..(c - 1))
    BY <1>4, <1>5, Fun_IsInj
  <2>2. IsFiniteSet(0..(c - 1)) /\ Cardinality(0..(c - 1)) = c
    BY <1>1, FS_Interval
  <2> QED
    BY <1>1, <2>1, <2>2, FS_Injection
<1>7. ASSUME NEW i \in 1..c PROVE nth(i) \in S /\ rank[nth(i)] = i - 1
  <2>1. i - 1 \in 0..(c - 1)
    BY <1>1
  <2>2. \E n \in S : rank[n] = i - 1
    <3> HIDE DEF rank, c
    <3> QED
      BY <1>6, <2>1 DEF Surjection
  <2>3. \E n \in S : Cardinality(earlier(n)) = i - 1
    BY <2>2
  <2>4. nth(i) \in S /\ Cardinality(earlier(nth(i))) = i - 1
    <3> HIDE DEF earlier
    <3> QED
      BY <2>3
  <2> QED
    BY <2>4
<1>8. q = [i \in 1..c |-> nth(i)]
  BY DEF InListOrder
<1> HIDE DEF q, rank, c, nth
<1>9. q \in [1..c -> S] /\ \A i \in 1..c : rank[q[i]] = i - 1
  BY <1>7, <1>8
<1>10. q \in Seq(S) /\ Len(q) = c /\ DOMAIN q = 1..c
  BY <1>1, <1>9
<1>11. Distinct(q)
  <2> SUFFICES ASSUME NEW i \in 1..c, NEW j \in 1..c, q[i] = q[j] PROVE i = j
    BY <1>10 DEF Distinct
  <2>1. i - 1 = j - 1
    BY <1>9
  <2> QED
    BY <1>1, <2>1
<1>12. ASSUME NEW n \in S PROVE Occurs(n, q)
  <2>1. rank[n] \in 0..(c - 1)
    BY <1>5
  <2>2. rank[n] + 1 \in 1..c /\ (rank[n] + 1) - 1 = rank[n]
    BY <1>1, <2>1
  <2>3. q[rank[n] + 1] \in S /\ rank[q[rank[n] + 1]] = rank[n]
    BY <1>9, <2>2
  <2>4. q[rank[n] + 1] = n
    BY <1>4, <2>3
  <2> QED
    BY <1>10, <2>2, <2>4 DEF Occurs
<1>13. \A n : Occurs(n, q) => n \in S
  BY <1>9, <1>10 DEF Occurs
<1> QED
  BY <1>10, <1>11, <1>12, <1>13 DEF q

-----------------------------------------------------------------------------
(* Counting places *)

\* The places where dep is not yet sorted, of the dependencies of n.
Unmet(n) == {i \in DOMAIN Deps(n) : ~Occurs(Deps(n)[i], sorted)}

\* The places where phases name n, from the one after the first r on.
Mentions(n, r) == UNION {{k} \X Places(n, Deps(sorted[k])) : k \in {k \in DOMAIN sorted : k > r}}

\* Taking away the places of one name.
LEMMA FewerPlaces ==
  ASSUME NEW P, IsFiniteSet(P), NEW Q \in SUBSET P
  PROVE  /\ Cardinality(P) \in Nat /\ Cardinality(Q) \in Nat
         /\ IsFiniteSet(P \ Q) /\ Cardinality(P \ Q) = Cardinality(P) - Cardinality(Q)
         /\ Cardinality(P \ Q) \in Nat
<1>1. IsFiniteSet(Q) /\ IsFiniteSet(P \ Q)
  BY FS_Subset
<1>2. P = (P \ Q) \union Q /\ (P \ Q) \intersect Q = {}
  OBVIOUS
<1>3. Cardinality(P) = Cardinality(P \ Q) + Cardinality(Q) - 0
  BY <1>1, <1>2, FS_Union, FS_EmptySet
<1> QED
  BY <1>1, <1>3, FS_CardinalityType

LEMMA PlacesFinite ==
  ASSUME WellFormed(list), NEW n \in Name
  PROVE  /\ DOMAIN Deps(n) = 1..Len(Deps(n)) /\ Len(Deps(n)) \in Nat
         /\ IsFiniteSet(DOMAIN Deps(n)) /\ Cardinality(DOMAIN Deps(n)) = Len(Deps(n))
         /\ IsFiniteSet(Unmet(n))
         /\ \A x : IsFiniteSet(Places(x, Deps(n)))
<1>1. DOMAIN Deps(n) = 1..Len(Deps(n)) /\ Len(Deps(n)) \in Nat
  BY CalledPhase, LenProperties
<1>2. IsFiniteSet(DOMAIN Deps(n)) /\ Cardinality(DOMAIN Deps(n)) = Len(Deps(n))
  <2>1. \A m \in Nat : IsFiniteSet(1..m) /\ Cardinality(1..m) = m
    BY FS_Interval
  <2> QED
    BY <1>1, <2>1
<1>3. Unmet(n) \in SUBSET DOMAIN Deps(n) /\ \A x : Places(x, Deps(n)) \in SUBSET DOMAIN Deps(n)
  BY DEF Unmet, Places
<1> QED
  BY <1>1, <1>2, <1>3, FS_Subset

\* Only finitely many places are waiting.
LEMMA MentionsFinite ==
  ASSUME WellFormed(list), sorted \in Seq(Name), NEW n, NEW r \in Nat
  PROVE  IsFiniteSet(Mentions(n, r))
<1>1. PICK m \in Nat : \A p \in ToSet(list) : Len(p.deps) <= m
  BY DEF WellFormed
<1>2. DOMAIN sorted = 1..Len(sorted) /\ Len(sorted) \in Nat
  BY LenProperties
<1>3. IsFiniteSet((1..Len(sorted)) \X (1..m))
  <2>1. IsFiniteSet(1..Len(sorted)) /\ IsFiniteSet(1..m)
    BY <1>2, FS_Interval
  <2> QED
    BY <2>1, FS_Product
<1>4. Mentions(n, r) \in SUBSET ((1..Len(sorted)) \X (1..m))
  <2> SUFFICES ASSUME NEW k \in DOMAIN sorted, NEW i \in Places(n, Deps(sorted[k]))
               PROVE  <<k, i>> \in (1..Len(sorted)) \X (1..m)
    BY DEF Mentions
  <2>1. sorted[k] \in Name
    BY <1>2
  <2>2. Deps(sorted[k]) \in Seq(Name) /\ Len(Deps(sorted[k])) <= m
    BY <1>1, <2>1, CalledPhase DEF Deps
  <2>3. i \in 1..Len(Deps(sorted[k])) /\ Len(Deps(sorted[k])) \in Nat
    BY <2>2, LenProperties DEF Places
  <2> QED
    BY <1>1, <1>2, <2>2, <2>3
<1> QED
  BY <1>3, <1>4, FS_Subset

\* What waits before and after phase r + 1 has run.
LEMMA MentionsNext ==
  ASSUME WellFormed(list), sorted \in Seq(Name), NEW n, NEW r \in Nat, r < Len(sorted)
  PROVE  LET here == {r + 1} \X Places(n, Deps(sorted[r + 1])) IN
         /\ here \subseteq Mentions(n, r)
         /\ Mentions(n, r + 1) = Mentions(n, r) \ here
         /\ Cardinality(here) = Times(n, Deps(sorted[r + 1]))
         /\ here = {} <=> n \notin ToSet(Deps(sorted[r + 1]))
<1> DEFINE places == Places(n, Deps(sorted[r + 1]))
           here == {r + 1} \X places
<1>1. DOMAIN sorted = 1..Len(sorted) /\ Len(sorted) \in Nat /\ r + 1 \in DOMAIN sorted /\ r + 1 > r
  BY LenProperties
<1>2. here \subseteq Mentions(n, r)
  BY <1>1 DEF Mentions
<1>3. Mentions(n, r + 1) = Mentions(n, r) \ here
  <2>1. ASSUME NEW k \in DOMAIN sorted PROVE k > r <=> k = r + 1 \/ k > r + 1
    BY <1>1
  <2>2. ASSUME NEW x \in Mentions(n, r + 1) PROVE x \in Mentions(n, r) \ here
    <3>1. PICK k \in DOMAIN sorted : k > r + 1 /\ x \in {k} \X Places(n, Deps(sorted[k]))
      BY <2>2 DEF Mentions
    <3>2. k > r /\ k # r + 1
      BY <1>1, <3>1
    <3> QED
      BY <3>1, <3>2 DEF Mentions
  <2>3. ASSUME NEW x \in Mentions(n, r), x \notin here PROVE x \in Mentions(n, r + 1)
    <3>1. PICK k \in DOMAIN sorted : k > r /\ x \in {k} \X Places(n, Deps(sorted[k]))
      BY <2>3 DEF Mentions
    <3>2. k > r + 1
      BY <2>1, <2>3, <3>1
    <3> QED
      BY <3>1, <3>2 DEF Mentions
  <2> QED
    BY <2>2, <2>3
<1>4. Cardinality(here) = Cardinality(places)
  <2> DEFINE f == [i \in places |-> <<r + 1, i>>]
  <2>1. f \in [places -> here]
    OBVIOUS
  <2>2. \A i, j \in places : f[i] = f[j] => i = j
    OBVIOUS
  <2>3. \A x \in here : \E i \in places : f[i] = x
    OBVIOUS
  <2>4. f \in Bijection(places, here)
    BY <2>1, <2>2, <2>3, Fun_IsBij
  <2>5. ExistsBijection(places, here)
    BY <2>4 DEF ExistsBijection
  <2>6. IsFiniteSet(places)
    BY <1>1, PlacesFinite
  <2> QED
    BY <2>5, <2>6, FS_Bijection
<1>5. here = {} <=> n \notin ToSet(Deps(sorted[r + 1]))
  <2>1. here = {} <=> places = {}
    <3> HIDE DEF places
    <3>1. \A i \in places : <<r + 1, i>> \in here
      OBVIOUS
    <3>2. \A x \in here : x[2] \in places
      OBVIOUS
    <3> QED
      BY <3>1, <3>2
  <2>2. places = {} <=> n \notin ToSet(Deps(sorted[r + 1]))
    BY DEF Places, ToSet
  <2> QED
    BY <2>1, <2>2
<1> QED
  BY <1>2, <1>3, <1>4, <1>5 DEF Times

-----------------------------------------------------------------------------
(* The inductive invariant *)

\* The sort: the degree of a phase counts its dependencies that are not sorted, the
\* queue holds the phases without any that are not sorted themselves.
Sorting ==
  /\ WellFormed(list)
  /\ DOMAIN degree = Name /\ \A n \in Name : degree[n] = Cardinality(Unmet(n))
  /\ sorted \in Seq(Name) /\ Distinct(sorted)
  /\ queue \in Seq(Name) /\ Distinct(queue)
  /\ \A n \in Name : Unmet(n) = {} <=> Occurs(n, sorted) \/ Occurs(n, queue)
  /\ \A n \in Name : ~(Occurs(n, sorted) /\ Occurs(n, queue))

\* Every phase is sorted after all it depends on.
Ordered ==
  \A i \in DOMAIN sorted : \A dep \in ToSet(Called(sorted[i]).deps) :
    \E k \in 1..(i - 1) : sorted[k] = dep

\* Once phases run the sort is complete.
Complete ==
  at \in {"run", "failed", "done"} => ToSet(sorted) = ToSet(Names(list)) /\ Len(sorted) = Len(list)

\* What the runner has done by the place where it is.
Progress ==
  /\ at \in {"sort", "search", "cyclic", "run", "failed", "done"}
  /\ ran \in Nat /\ ran <= Len(sorted)
  /\ at \in {"sort", "search", "cyclic"} => ran = 0 /\ cleared = {}
  /\ at = "done" => ran = Len(sorted)
  /\ at = "failed" => DisposeOf({sorted[i] : i \in 1..ran}) \subseteq cleared

\* While phases run, what nobody waits for is cleared, and nothing else.
Disposal ==
  at \in {"run", "done"} =>
    /\ DOMAIN remaining = Name
    /\ \A n \in Name : remaining[n] = Cardinality(Mentions(n, ran))
    /\ \A n \in Disposable :
         (\E k \in DOMAIN sorted : n \in ToSet(Deps(sorted[k]))) /\ Mentions(n, ran) = {} =>
         Data(n) \subseteq cleared
    /\ \A x \in cleared :
         \/ \E n \in Disposable : x \in Data(n) /\ Mentions(n, ran) = {}
         \/ \E k \in 1..ran : x \in Called(sorted[k]).empties

\* What could not be drained depends on something that could not be drained.
Stuck == Left # {} /\ \A n \in Left : \E i \in DOMAIN Deps(n) : Deps(n)[i] \in Left

\* While a cycle is searched: what is visited is on the stack, because no phase is ever
\* popped; each phase on it depends on the next, and what the top one is past was drained.
Trail == Names(search.stack)

Searching ==
  /\ at = "sort" => search = [stack |-> <<>>, visited |-> {}, tried |-> {}]
  /\ at = "search" =>
       /\ Stuck
       /\ search.stack \in Seq([name : Left, next : Nat \ {0}])
       /\ \A i, j \in DOMAIN search.stack : search.stack[i].name = search.stack[j].name => i = j
       /\ search = [stack |-> search.stack, visited |-> ToSet(Trail), tried |-> search.tried]
       /\ search.stack = <<>> => search.tried = {}
       /\ \A i \in 1..(Len(search.stack) - 1) :
            search.stack[i + 1].name \in ToSet(Deps(search.stack[i].name))
       /\ search.stack # <<>> =>
            \A i \in DOMAIN Deps(Last(search.stack).name) :
              i < Last(search.stack).next => Deps(Last(search.stack).name)[i] \notin Left

\* The cycle that is reported is one of the list, closed and without detours.
LeftCloses ==
  at = "cyclic" =>
    /\ Len(cycle) > 1 /\ cycle[1] = Last(cycle) /\ IsInjective(Front(cycle))
    /\ \A i \in 1..(Len(cycle) - 1) : cycle[i + 1] \in ToSet(Deps(cycle[i]))

PhaseInv == Sorting /\ Ordered /\ Complete /\ Progress /\ Disposal /\ Searching /\ LeftCloses

-----------------------------------------------------------------------------
(* The sort *)

LEMMA ZeroDegree ==
  ASSUME Sorting, NEW n \in Name
  PROVE  degree[n] \in Nat /\ (degree[n] = 0 <=> Unmet(n) = {})
BY PlacesFinite, FS_CardinalityType, FS_EmptySet DEF Sorting

LEMMA DrainStep ==
  ASSUME PhaseInv, Drain
  PROVE  PhaseInv'
<1> DEFINE name == Head(queue)
           places(n) == Places(name, Deps(n))
           freed == {n \in DOMAIN degree : degree'[n] = 0 /\ degree[n] > 0}
<1> USE DEF PhaseInv
<1>1. /\ name \in Name /\ Occurs(name, queue) /\ ~Occurs(name, sorted)
      /\ Tail(queue) \in Seq(Name) /\ Distinct(Tail(queue))
      /\ \A n : Occurs(n, Tail(queue)) <=> n # name /\ Occurs(n, queue)
  BY TailQueue DEF Drain, Sorting
<1>2. /\ sorted' = Append(sorted, name)
      /\ degree' = [n \in DOMAIN degree |-> degree[n] - Times(name, Deps(n))]
      /\ queue' = Tail(queue) \o InListOrder(freed)
      /\ at = "sort" /\ UNCHANGED <<list, at, ran, remaining, cleared, search, cycle>>
  BY DEF Drain, Deps, freed
<1>3. Name' = Name /\ WellFormed(list)' /\ \A n : Called(n)' = Called(n) /\ Deps(n)' = Deps(n)
  BY <1>2 DEF Name, Names, Called, Deps, WellFormed, Sorting
<1>4. /\ sorted' \in Seq(Name) /\ Distinct(sorted')
      /\ \A n : Occurs(n, sorted') <=> n = name \/ Occurs(n, sorted)
      /\ Len(sorted') = Len(sorted) + 1 /\ Len(sorted) \in Nat
      /\ \A i \in 1..Len(sorted) : sorted'[i] = sorted[i]
      /\ sorted'[Len(sorted) + 1] = name
  BY <1>1, <1>2, AppendQueue, AppendProperties, LenProperties DEF Sorting
<1>5. ASSUME NEW n \in Name
      PROVE  /\ Unmet(n)' = Unmet(n) \ places(n) /\ places(n) \subseteq Unmet(n)
             /\ degree'[n] = Cardinality(Unmet(n)') /\ IsFiniteSet(Unmet(n)')
             /\ degree[n] = 0 => Unmet(n)' = {}
  <2>1. Unmet(n)' = Unmet(n) \ places(n) /\ places(n) \subseteq Unmet(n)
    BY <1>1, <1>3, <1>4 DEF Unmet, Places
  <2>2. IsFiniteSet(Unmet(n)) /\ degree[n] = Cardinality(Unmet(n))
    BY PlacesFinite DEF Sorting
  <2>3. degree'[n] = Cardinality(Unmet(n)) - Cardinality(places(n))
    BY <1>2, <2>2 DEF Sorting, Times
  <2>4. IsFiniteSet(Unmet(n)') /\ Cardinality(Unmet(n)') = Cardinality(Unmet(n)) - Cardinality(places(n))
    BY <2>1, <2>2, FewerPlaces
  <2>5. degree[n] = 0 => Unmet(n)' = {}
    BY <2>1, ZeroDegree
  <2> QED
    BY <2>1, <2>3, <2>4, <2>5
<1>6. ASSUME NEW n \in Name PROVE n \in freed <=> Unmet(n)' = {} /\ Unmet(n) # {}
  <2>1. degree'[n] = 0 <=> Unmet(n)' = {}
    BY <1>5, FS_EmptySet
  <2>2. degree[n] > 0 <=> Unmet(n) # {}
    BY ZeroDegree
  <2> QED
    BY <2>1, <2>2 DEF Sorting
<1>7. freed \in SUBSET Name
  BY DEF Sorting
<1> HIDE DEF freed
<1>8. /\ InListOrder(freed) \in Seq(Name) /\ Distinct(InListOrder(freed))
      /\ \A n : Occurs(n, InListOrder(freed)) <=> n \in freed
  BY <1>7, InListOrderListsOnce, SeqMonotonic DEF Sorting
<1>9. \A n : Occurs(n, Tail(queue)) => n \notin freed
  BY <1>1, <1>6 DEF Sorting, Occurs
<1>10. queue' \in Seq(Name) /\ Distinct(queue')
       /\ \A n : Occurs(n, queue') <=> Occurs(n, Tail(queue)) \/ n \in freed
  BY <1>1, <1>2, <1>8, <1>9, ConcatQueue
<1>11. Sorting'
  <2>1. \A n \in Name : Unmet(n)' = {} <=> Occurs(n, sorted') \/ Occurs(n, queue')
    BY <1>1, <1>4, <1>5, <1>6, <1>10 DEF Sorting
  <2>2. \A n \in Name : ~(Occurs(n, sorted') /\ Occurs(n, queue'))
    BY <1>1, <1>4, <1>6, <1>10 DEF Sorting
  <2>3. DOMAIN degree' = Name /\ \A n \in Name : degree'[n] = Cardinality(Unmet(n)')
    BY <1>2, <1>5 DEF Sorting
  <2> QED
    BY <1>3, <1>4, <1>10, <2>1, <2>2, <2>3 DEF Sorting
<1>12. Ordered'
  <2> SUFFICES ASSUME NEW i \in DOMAIN sorted', NEW dep \in ToSet(Deps(sorted'[i]))
               PROVE  \E k \in 1..(i - 1) : sorted'[k] = dep
    BY <1>3 DEF Ordered, Deps
  <2>1. DOMAIN sorted' = 1..(Len(sorted) + 1) /\ DOMAIN sorted = 1..Len(sorted)
    BY <1>4, LenProperties DEF Sorting
  <2>2. CASE i \in 1..Len(sorted)
    <3>1. \E k \in 1..(i - 1) : sorted[k] = dep
      BY <1>4, <2>1, <2>2 DEF Ordered, Deps
    <3> QED
      BY <1>4, <2>2, <3>1
  <2>3. CASE i = Len(sorted) + 1
    <3>1. Unmet(name) = {}
      BY <1>1 DEF Sorting
    <3>2. Occurs(dep, sorted)
      BY <1>4, <2>3, <3>1 DEF Unmet, ToSet
    <3> QED
      BY <1>4, <2>1, <2>3, <3>2 DEF Occurs
  <2> QED
    BY <1>4, <2>1, <2>2, <2>3
<1>13. Complete' /\ Progress' /\ Disposal'
  BY <1>2, <1>4 DEF Complete, Progress, Disposal
<1>14. Searching' /\ LeftCloses'
  BY <1>2 DEF Searching, LeftCloses
<1> QED
  BY <1>11, <1>12, <1>13, <1>14

-----------------------------------------------------------------------------
(* The run *)

\* A step that leaves the sort alone.
LEMMA SameSort ==
  ASSUME Sorting, Ordered, UNCHANGED <<list, degree, queue, sorted>>
  PROVE  /\ Name' = Name /\ WellFormed(list)'
         /\ \A n : Called(n)' = Called(n) /\ Deps(n)' = Deps(n)
         /\ \A n, r : Mentions(n, r)' = Mentions(n, r)
         /\ Sorting' /\ Ordered'
<1>1. list' = list /\ degree' = degree /\ queue' = queue /\ sorted' = sorted
  OBVIOUS
<1>2. Name' = Name /\ \A n : Called(n)' = Called(n) /\ Deps(n)' = Deps(n)
  BY <1>1 DEF Name, Names, Called, Deps
<1>3. WellFormed(list)'
  BY <1>1 DEF WellFormed, Names, Sorting
<1>4. \A n : Unmet(n)' = Unmet(n)
  BY <1>1, <1>2 DEF Unmet
<1>5. \A n, r : Mentions(n, r)' = Mentions(n, r)
  BY <1>1, <1>2 DEF Mentions
<1>6. Sorting'
  BY <1>1, <1>2, <1>3, <1>4 DEF Sorting
<1>7. Ordered'
  BY <1>1, <1>2 DEF Ordered
<1> QED
  BY <1>2, <1>3, <1>5, <1>6, <1>7

LEMMA SortEndsStep ==
  ASSUME PhaseInv, SortEnds
  PROVE  PhaseInv'
<1> USE DEF PhaseInv
<1>1. /\ at = "sort" /\ queue = <<>> /\ UNCHANGED <<list, degree, queue, sorted, ran, cleared, search>>
      /\ at' \in {"search", "run"} /\ (at' = "search" => Len(sorted) # Len(list))
      /\ at' = "run" => Len(sorted) = Len(list) /\ remaining' = Dependents
  BY DEF SortEnds
<1>2. /\ Name' = Name /\ \A n : Called(n)' = Called(n) /\ Deps(n)' = Deps(n)
      /\ \A n, r : Mentions(n, r)' = Mentions(n, r)
      /\ Sorting' /\ Ordered'
  BY <1>1, SameSort
<1>4. DOMAIN sorted = 1..Len(sorted) /\ Len(sorted) \in Nat /\ ran = 0 /\ cleared = {}
  BY <1>1, LenProperties DEF Sorting, Progress
<1>5. Complete'
  <2> SUFFICES ASSUME at' = "run" PROVE ToSet(sorted) = Name /\ Len(sorted) = Len(list)
    BY <1>1, <1>2 DEF Complete, Name
  <2>1. Len(sorted) = Len(list)
    BY <1>1
  <2>2. sorted \in [1..Len(sorted) -> Name] /\ \A i, j \in 1..Len(sorted) : sorted[i] = sorted[j] => i = j
    BY <1>4 DEF Sorting, Distinct
  <2>3. sorted \in Injection(1..Len(sorted), Name)
    BY <2>2, Fun_IsInj
  <2>4. IsFiniteSet(Name) /\ Cardinality(Name) = Cardinality(1..Len(sorted))
    <3>1. \A m \in Nat : Cardinality(1..m) = m
      BY FS_Interval
    <3> QED
      BY <1>4, <2>1, <3>1, NamesFinite DEF Sorting
  <2>5. sorted \in Surjection(1..Len(sorted), Name)
    BY <2>3, <2>4, FS_Injection
  <2>6. \A n \in Name : \E i \in 1..Len(sorted) : sorted[i] = n
    BY <2>5 DEF Surjection
  <2> QED
    BY <1>4, <2>1, <2>2, <2>6 DEF ToSet
<1>6. Progress'
  BY <1>1, <1>4 DEF Progress
<1>7. Disposal'
  <2> SUFFICES ASSUME at' = "run"
               PROVE  /\ DOMAIN remaining' = Name
                      /\ \A n \in Name : remaining'[n] = Cardinality(Mentions(n, 0))
                      /\ \A n : (\E k \in DOMAIN sorted : n \in ToSet(Deps(sorted[k]))) => Mentions(n, 0) # {}
    BY <1>1, <1>2, <1>4 DEF Disposal
  <2>1. ASSUME NEW n
        PROVE  Mentions(n, 0) = UNION {{k} \X Places(n, Called(sorted[k]).deps) : k \in DOMAIN sorted}
    <3>1. {k \in DOMAIN sorted : k > 0} = DOMAIN sorted
      BY <1>4
    <3> QED
      BY <3>1 DEF Mentions, Deps
  <2>2. DOMAIN remaining' = Name /\ \A n \in Name : remaining'[n] = Cardinality(Mentions(n, 0))
    BY <1>1, <2>1 DEF Dependents, Sorting
  <2>3. ASSUME NEW n, NEW k \in DOMAIN sorted, n \in ToSet(Deps(sorted[k])) PROVE Mentions(n, 0) # {}
    <3>1. PICK i \in DOMAIN Deps(sorted[k]) : Deps(sorted[k])[i] = n
      BY <2>3 DEF ToSet
    <3>2. <<k, i>> \in {k} \X Places(n, Deps(sorted[k]))
      BY <3>1 DEF Places
    <3>3. k > 0
      BY <1>4
    <3> QED
      BY <3>2, <3>3 DEF Mentions
  <2> QED
    BY <2>2, <2>3
<1>8. ASSUME at' = "search"
      PROVE  Stuck
  <2>1. Len(sorted) # Len(list)
    BY <1>1, <1>8
  <2>2. ASSUME Left = {} PROVE FALSE
    <3>1. \A n \in Name : Occurs(n, sorted)
      <4> SUFFICES ASSUME NEW n \in Name PROVE Occurs(n, sorted)
        OBVIOUS
      <4>1. degree[n] = 0
        BY <2>2, ZeroDegree DEF Left, Sorting
      <4>2. Unmet(n) = {} /\ ~Occurs(n, queue)
        BY <1>1, <4>1, ZeroDegree DEF Occurs
      <4> QED
        BY <4>2 DEF Sorting
    <3>2. /\ sorted \in [1..Len(sorted) -> Name] /\ \A i, j \in 1..Len(sorted) : sorted[i] = sorted[j] => i = j
          /\ \A n \in Name : \E i \in 1..Len(sorted) : sorted[i] = n
      <4>1. DOMAIN sorted = 1..Len(sorted) /\ sorted \in [1..Len(sorted) -> Name]
        BY LenProperties DEF Sorting
      <4>2. \A i, j \in 1..Len(sorted) : sorted[i] = sorted[j] => i = j
        BY <4>1 DEF Sorting, Distinct
      <4> QED
        BY <3>1, <4>1, <4>2 DEF Occurs
    <3>3. ExistsBijection(1..Len(sorted), Name)
      BY <3>2, Fun_IsBij DEF ExistsBijection
    <3>4. IsFiniteSet(1..Len(sorted)) /\ Cardinality(1..Len(sorted)) = Len(sorted)
      <4>1. \A m \in Nat : IsFiniteSet(1..m) /\ Cardinality(1..m) = m
        BY FS_Interval
      <4> QED
        BY <1>4, <4>1
    <3>5. Cardinality(Name) = Len(sorted)
      BY <3>3, <3>4, FS_Bijection
    <3> QED
      BY <2>1, <3>5, NamesFinite DEF Sorting
  <2>3. ASSUME NEW n \in Left PROVE \E i \in DOMAIN Deps(n) : Deps(n)[i] \in Left
    <3>1. n \in Name /\ Unmet(n) # {}
      BY ZeroDegree DEF Left, Sorting
    <3>2. PICK i \in DOMAIN Deps(n) : ~Occurs(Deps(n)[i], sorted)
      BY <3>1 DEF Unmet
    <3>3. Deps(n)[i] \in Name
      BY <3>1, <3>2, CalledPhase DEF Sorting
    <3>4. Unmet(Deps(n)[i]) # {}
      BY <1>1, <3>2, <3>3 DEF Sorting, Occurs
    <3>5. degree[Deps(n)[i]] > 0
      BY <3>3, <3>4, ZeroDegree
    <3> QED
      BY <3>3, <3>5 DEF Left, Sorting
  <2> QED
    BY <2>2, <2>3 DEF Stuck
<1>9. Searching' /\ LeftCloses'
  <2>1. LeftCloses'
    BY <1>1 DEF LeftCloses
  <2>2. search = [stack |-> <<>>, visited |-> {}, tried |-> {}]
    BY <1>1 DEF Searching
  <2>3. search.stack = <<>> /\ search.tried = {} /\ ToSet(Trail) = {}
    BY <2>2 DEF Trail, Names, ToSet
  <2>4. Left' = Left /\ Trail' = Trail /\ Stuck' = Stuck
    BY <1>1, <1>2 DEF Left, Trail, Names, Stuck
  <2>5. /\ <<>> \in Seq([name : Left, next : Nat \ {0}]) /\ DOMAIN <<>> = {} /\ 1..(Len(<<>>) - 1) = {}
    OBVIOUS
  <2>6. at' = "search" => Searching'
    BY <1>1, <1>2, <1>8, <2>2, <2>3, <2>4, <2>5 DEF Searching
  <2> QED
    BY <1>1, <2>1, <2>6 DEF Searching
<1> QED
  BY <1>2, <1>5, <1>6, <1>7, <1>9

LEMMA PhaseSucceedsStep ==
  ASSUME PhaseInv, PhaseSucceeds
  PROVE  PhaseInv'
<1> DEFINE phase == Called(sorted[ran + 1])
           here(n) == {ran + 1} \X Places(n, Deps(sorted[ran + 1]))
           done == {n \in ToSet(phase.deps) : remaining'[n] = 0}
<1> USE DEF PhaseInv
<1>1. /\ at = "run" /\ ran < Len(sorted) /\ ran \in Nat /\ ran' = ran + 1
      /\ remaining' = [n \in DOMAIN remaining |-> remaining[n] - Times(n, phase.deps)]
      /\ UNCHANGED <<list, degree, queue, sorted, at, search, cycle>>
  BY DEF PhaseSucceeds, Progress
<1>2. cleared' = cleared \union phase.empties \union DisposeOf(done)
  BY DEF PhaseSucceeds
<1> HIDE DEF phase, done
<1>3. /\ Name' = Name /\ \A n : Called(n)' = Called(n) /\ Deps(n)' = Deps(n)
      /\ \A n, r : Mentions(n, r)' = Mentions(n, r)
      /\ Sorting' /\ Ordered'
  BY <1>1, SameSort
<1>4. Complete'
  BY <1>1 DEF Complete
<1>5. DOMAIN sorted = 1..Len(sorted) /\ Len(sorted) \in Nat /\ ran + 1 \in DOMAIN sorted
  BY <1>1, LenProperties DEF Sorting
<1>6. Progress'
  BY <1>1, <1>5 DEF Progress
<1>7. sorted[ran + 1] \in Name /\ phase.deps = Deps(sorted[ran + 1])
      /\ phase.deps \in Seq(Name) /\ ToSet(phase.deps) \subseteq Name
  <2>1. sorted[ran + 1] \in Name
    BY <1>5 DEF Sorting
  <2>2. phase.deps = Deps(sorted[ran + 1]) /\ phase.deps \in Seq(Name)
    BY <2>1, CalledPhase DEF Sorting, phase, Deps
  <2> QED
    BY <2>1, <2>2 DEF ToSet
<1>8. ASSUME NEW n
      PROVE  /\ here(n) \subseteq Mentions(n, ran) /\ Mentions(n, ran') = Mentions(n, ran) \ here(n)
             /\ Cardinality(here(n)) = Times(n, phase.deps)
             /\ here(n) = {} <=> n \notin ToSet(phase.deps)
             /\ IsFiniteSet(Mentions(n, ran))
  BY <1>1, <1>7, MentionsNext, MentionsFinite DEF Sorting
<1> HIDE DEF here
<1>9. ASSUME NEW n \in Name
      PROVE  remaining'[n] = Cardinality(Mentions(n, ran')) /\ IsFiniteSet(Mentions(n, ran'))
  <2>1. remaining'[n] = Cardinality(Mentions(n, ran)) - Cardinality(here(n))
    BY <1>1, <1>8 DEF Disposal
  <2> QED
    BY <1>8, <2>1, FewerPlaces
<1>10. ASSUME NEW n \in Disposable, NEW k \in DOMAIN sorted, n \in ToSet(Deps(sorted[k])),
              Mentions(n, ran') = {}
       PROVE  Data(n) \subseteq cleared'
  <2>1. CASE Mentions(n, ran) = {}
    BY <1>1, <1>2, <1>10, <2>1 DEF Disposal
  <2>2. CASE Mentions(n, ran) # {}
    <3>1. n \in ToSet(phase.deps)
      BY <1>8, <1>10, <2>2
    <3>2. n \in done
      BY <1>7, <1>9, <1>10, <3>1, FS_EmptySet DEF done
    <3> QED
      BY <1>2, <3>2 DEF DisposeOf
  <2> QED
    BY <2>1, <2>2
<1>11. ASSUME NEW x \in cleared'
       PROVE  \/ \E n \in Disposable : x \in Data(n) /\ Mentions(n, ran') = {}
              \/ \E k \in 1..ran' : x \in Called(sorted[k]).empties
  <2>1. CASE \E n \in Disposable : x \in Data(n) /\ Mentions(n, ran) = {}
    BY <1>8, <2>1
  <2>2. CASE \E k \in 1..ran : x \in Called(sorted[k]).empties
    BY <1>1, <2>2
  <2>3. CASE x \in phase.empties
    <3>1. ran + 1 \in 1..ran'
      BY <1>1
    <3> QED
      BY <2>3, <3>1 DEF phase
  <2>4. CASE x \in DisposeOf(done)
    <3>1. PICK n \in done : n \in Disposable /\ x \in Data(n)
      BY <2>4 DEF DisposeOf
    <3>2. n \in Name /\ remaining'[n] = 0
      BY <1>7 DEF done
    <3>3. Mentions(n, ran') = {}
      BY <1>9, <3>2, FS_EmptySet
    <3> QED
      BY <3>1, <3>3
  <2> QED
    BY <1>1, <1>2, <2>1, <2>2, <2>3, <2>4 DEF Disposal
<1>12. Disposal'
  <2>1. DOMAIN remaining' = Name
    BY <1>1 DEF Disposal
  <2>2. \A n : Mentions(n, ran)' = Mentions(n, ran')
    BY <1>1 DEF Mentions, Deps, Called
  <2> QED
    BY <1>1, <1>3, <1>9, <1>10, <1>11, <2>1, <2>2 DEF Disposal
<1>13. Searching' /\ LeftCloses'
  BY <1>1 DEF Searching, LeftCloses
<1> QED
  BY <1>3, <1>4, <1>6, <1>12, <1>13

LEMMA OtherSteps ==
  ASSUME PhaseInv, PhaseFails \/ RunEnds \/ UNCHANGED phaseVars
  PROVE  PhaseInv'
<1> USE DEF PhaseInv
<1>1. UNCHANGED <<list, degree, queue, sorted, ran, remaining>>
  BY DEF PhaseFails, RunEnds, phaseVars
<1>2. /\ Name' = Name /\ \A n : Called(n)' = Called(n) /\ Deps(n)' = Deps(n)
      /\ \A n, r : Mentions(n, r)' = Mentions(n, r)
      /\ Sorting' /\ Ordered'
  BY <1>1, SameSort
<1>3. \A n : Mentions(n, ran)' = Mentions(n, ran)
  BY <1>1 DEF Mentions, Deps, Called
<1>4. CASE PhaseFails
  <2>1. at = "run" /\ at' = "failed" /\ DisposeOf({sorted[i] : i \in 1..ran}) \subseteq cleared'
    BY <1>4 DEF PhaseFails
  <2>2. Complete' /\ Disposal'
    BY <1>1, <1>2, <2>1 DEF Complete, Disposal
  <2>3. Progress'
    BY <1>1, <2>1 DEF Progress, DisposeOf
  <2>4. Searching' /\ LeftCloses'
    BY <2>1 DEF Searching, LeftCloses
  <2> QED
    BY <1>2, <2>2, <2>3, <2>4
<1>5. CASE RunEnds
  <2>1. at = "run" /\ at' = "done" /\ ran = Len(sorted) /\ UNCHANGED cleared
    BY <1>5 DEF RunEnds
  <2> QED
    BY <1>1, <1>2, <1>3, <2>1 DEF Complete, Progress, Disposal, Searching, LeftCloses
<1>6. CASE UNCHANGED phaseVars
  <2>1. UNCHANGED <<at, cleared>>
    BY <1>6 DEF phaseVars
  <2>2. Complete' /\ Progress'
    BY <1>1, <2>1 DEF Complete, Progress, DisposeOf
  <2>3. Disposal'
    BY <1>1, <1>2, <1>3, <2>1 DEF Disposal
  <2>4. Searching' /\ LeftCloses'
    <3>1. /\ UNCHANGED <<at, search, cycle>> /\ Left' = Left /\ Trail' = Trail /\ Stuck' = Stuck
          /\ \A x : Deps(x)' = Deps(x)
      BY <1>1, <1>2, <1>6 DEF phaseVars, Left, Trail, Names, Stuck
    <3> QED
      BY <1>2, <3>1 DEF Searching, LeftCloses
  <2> QED
    BY <1>2, <2>2, <2>3, <2>4
<1> QED
  BY <1>4, <1>5, <1>6

-----------------------------------------------------------------------------
(* The search for a cycle *)

\* Replacing the last element of a sequence, and what comes after it.
LEMMA TopOfStack ==
  ASSUME NEW S, NEW s \in Seq(S), s # <<>>
  PROVE  Len(s) \in Nat \ {0} /\ DOMAIN s = 1..Len(s) /\ Last(s) \in S /\ Last(s) = s[Len(s)]
<1>1. Len(s) \in Nat \ {0} /\ DOMAIN s = 1..Len(s) /\ \A i \in 1..Len(s) : s[i] \in S
  BY LenProperties, EmptySeq
<1> QED
  BY <1>1 DEF Last

LEMMA TopReplaced ==
  ASSUME NEW S, NEW s \in Seq(S), s # <<>>, NEW x \in S
  PROVE  LET t == Append(Front(s), x) IN
         /\ Len(s) \in Nat \ {0} /\ DOMAIN s = 1..Len(s) /\ Last(s) \in S /\ Last(s) = s[Len(s)]
         /\ t \in Seq(S) /\ Len(t) = Len(s) /\ DOMAIN t = 1..Len(s) /\ t # <<>>
         /\ \A i \in 1..(Len(s) - 1) : t[i] = s[i]
         /\ t[Len(s)] = x /\ Last(t) = x
<1> DEFINE f == Front(s)
           t == Append(f, x)
<1>1. Len(s) \in Nat \ {0} /\ DOMAIN s = 1..Len(s) /\ \A i \in 1..Len(s) : s[i] \in S
  BY LenProperties, EmptySeq
<1>2. Last(s) = s[Len(s)] /\ Last(s) \in S
  BY <1>1 DEF Last
<1>3. f \in Seq(S) /\ Len(f) = Len(s) - 1 /\ \A i \in 1..(Len(s) - 1) : f[i] = s[i]
  <2>1. /\ SubSeq(s, 1, Len(s) - 1) \in Seq(S)
        /\ Len(SubSeq(s, 1, Len(s) - 1)) = IF 1 <= Len(s) - 1 THEN Len(s) - 1 - 1 + 1 ELSE 0
        /\ \A i \in 1..(Len(s) - 1 - 1 + 1) : SubSeq(s, 1, Len(s) - 1)[i] = s[1 + i - 1]
    <3>1. 1 \in Int /\ Len(s) - 1 \in Int /\ \A i \in 1..(Len(s) - 1) : s[i] \in S
      BY <1>1
    <3> QED
      BY <3>1, SubSeqProperties
  <2> QED
    BY <1>1, <2>1 DEF Front
<1> HIDE DEF f
<1>4. /\ t \in Seq(S) /\ Len(t) = Len(s) /\ t # <<>> /\ t[Len(s)] = x
      /\ \A i \in 1..(Len(s) - 1) : t[i] = s[i]
  <2>1. /\ t \in Seq(S) /\ Len(t) = Len(f) + 1 /\ t # <<>> /\ t[Len(f) + 1] = x
        /\ \A i \in 1..Len(f) : t[i] = f[i]
    BY <1>3, AppendProperties
  <2> QED
    BY <1>1, <1>3, <2>1
<1>5. DOMAIN t = 1..Len(s) /\ Last(t) = x
  BY <1>4, LenProperties DEF Last
<1> QED
  BY <1>1, <1>2, <1>4, <1>5 DEF f

\* The path from the place of dep on, closed by dep, when the last phase of the path
\* depends on dep.
LEMMA PathCloses ==
  ASSUME NEW S, NEW path \in Seq(S), NEW dep \in ToSet(path),
         \A i, j \in DOMAIN path : path[i] = path[j] => i = j,
         \A i \in 1..(Len(path) - 1) : path[i + 1] \in ToSet(Deps(path[i])),
         dep \in ToSet(Deps(path[Len(path)]))
  PROVE  LET c == SubSeq(path, CHOOSE i \in DOMAIN path : path[i] = dep, Len(path)) \o <<dep>> IN
         /\ Len(c) > 1 /\ c[1] = Last(c) /\ IsInjective(Front(c))
         /\ \A i \in 1..(Len(c) - 1) : c[i + 1] \in ToSet(Deps(c[i]))
         /\ c \in Seq(S)
<1> DEFINE k == CHOOSE i \in DOMAIN path : path[i] = dep
           m == Len(path)
           sub == SubSeq(path, k, m)
           c == sub \o <<dep>>
<1>1. m \in Nat /\ DOMAIN path = 1..m /\ \A i \in 1..m : path[i] \in S
  BY LenProperties
<1>2. k \in 1..m /\ path[k] = dep
  BY <1>1 DEF ToSet
<1> HIDE DEF k
<1>3. sub \in Seq(S) /\ Len(sub) = m - k + 1 /\ \A i \in 1..(m - k + 1) : sub[i] = path[k + i - 1]
  <2>1. k \in Int /\ m \in Int /\ k <= m /\ \A i \in k..m : path[i] \in S
    BY <1>1, <1>2
  <2> HIDE DEF m
  <2> QED
    BY <2>1, SubSeqProperties
<1>4. dep \in S
  BY <1>1, <1>2
<1>5. c = Append(sub, dep)
  BY <1>3, <1>4, AppendIsConcat
<1> HIDE DEF sub, c
<1> DEFINE l == m - k + 1
<1>6. l \in Nat \ {0} /\ l <= m
  BY <1>1, <1>2
<1>7. /\ c \in Seq(S) /\ Len(c) = l + 1 /\ c[l + 1] = dep /\ \A i \in 1..l : c[i] = path[k + i - 1]
      /\ Last(c) = dep
  <2>1. /\ c \in Seq(S) /\ Len(c) = Len(sub) + 1 /\ c[Len(sub) + 1] = dep
        /\ \A i \in 1..Len(sub) : c[i] = sub[i]
    <3>1. sub \in Seq(S)
      BY <1>3
    <3> QED
      BY <3>1, <1>4, <1>5, AppendProperties
  <2>2. Last(c) = c[Len(c)]
    BY DEF Last
  <2> QED
    BY <1>3, <2>1, <2>2
<1> HIDE DEF m
<1>8. Len(c) > 1 /\ c[1] = Last(c)
  <2>1. 1 \in 1..l /\ k + 1 - 1 = k
    BY <1>1, <1>2, <1>6
  <2>2. c[1] = path[k]
    BY <1>7, <2>1
  <2> QED
    BY <1>2, <1>6, <1>7, <2>2
<1>9. IsInjective(Front(c))
  <2>1. DOMAIN Front(c) = 1..l /\ \A i \in 1..l : Front(c)[i] = c[i]
    <3>1. Front(c) = SubSeq(c, 1, l)
      BY <1>6, <1>7 DEF Front
    <3>2. \A i \in 1..l : c[i] \in S
      BY <1>6, <1>7, LenProperties
    <3>3. 1 \in Int /\ l \in Int /\ 1 <= l
      BY <1>6
    <3> HIDE DEF l
    <3>4. /\ SubSeq(c, 1, l) \in Seq(S) /\ Len(SubSeq(c, 1, l)) = l - 1 + 1
          /\ \A i \in 1..(l - 1 + 1) : SubSeq(c, 1, l)[i] = c[1 + i - 1]
      BY <3>2, <3>3, SubSeqProperties
    <3>5. l - 1 + 1 = l /\ \A i \in 1..l : 1 + i - 1 = i
      BY <3>3
    <3> QED
      BY <3>1, <3>4, <3>5, LenProperties
  <2> SUFFICES ASSUME NEW i \in 1..l, NEW j \in 1..l, c[i] = c[j] PROVE i = j
    BY <2>1 DEF IsInjective
  <2>2. k + i - 1 \in 1..m /\ k + j - 1 \in 1..m
    BY <1>1, <1>2, <1>6
  <2>3. k + i - 1 = k + j - 1
    BY <1>1, <1>7, <2>2 DEF m
  <2> QED
    BY <1>1, <1>2, <2>3
<1>10. ASSUME NEW i \in 1..l PROVE c[i + 1] \in ToSet(Deps(c[i]))
  <2>1. CASE i = l
    <3>1. k + i - 1 = m
      BY <1>1, <1>2, <2>1
    <3>2. c[i] = path[m] /\ c[i + 1] = dep
      BY <1>6, <1>7, <2>1, <3>1
    <3> QED
      BY <3>2 DEF m
  <2>2. CASE i # l
    <3>1. i + 1 \in 1..l /\ k + i - 1 \in 1..(m - 1) /\ k + (i + 1) - 1 = (k + i - 1) + 1
      BY <1>1, <1>2, <1>6, <2>2
    <3>2. c[i] = path[k + i - 1] /\ c[i + 1] = path[(k + i - 1) + 1]
      BY <1>7, <3>1
    <3> QED
      BY <3>1, <3>2 DEF m
  <2> QED
    BY <2>1, <2>2
<1>11. Len(c) - 1 = l
  BY <1>6, <1>7
<1> HIDE DEF l
<1>12. \A i \in 1..(Len(c) - 1) : c[i + 1] \in ToSet(Deps(c[i]))
  BY <1>10, <1>11
<1> QED
  BY <1>7, <1>8, <1>9, <1>12 DEF c, sub, k, m

\* The search leaves the sort alone.
LEMMA SearchFrame ==
  ASSUME PhaseInv, SearchFrom \/ SearchOn, at' \in {"search", "cyclic"}
  PROVE  /\ Sorting' /\ Ordered' /\ Complete' /\ Progress' /\ Disposal'
         /\ Left' = Left /\ Stuck' = Stuck /\ list' = list
<1> USE DEF PhaseInv
<1>1. at = "search" /\ UNCHANGED <<list, degree, queue, sorted, ran, remaining, cleared>>
  BY DEF SearchFrom, SearchOn
<1>2. Sorting' /\ Ordered' /\ \A n : Deps(n)' = Deps(n)
  BY <1>1, SameSort
<1>3. Left' = Left /\ Stuck' = Stuck
  BY <1>1, <1>2 DEF Left, Stuck
<1>4. Complete' /\ Progress' /\ Disposal'
  BY <1>1 DEF Complete, Progress, Disposal
<1> QED
  BY <1>1, <1>2, <1>3, <1>4

\* A search begins with one phase on the stack, the first that is tried.
LEMMA FirstStartServes ==
  ASSUME PhaseInv, SearchFrom
  PROVE  /\ at = "search" /\ at' = "search" /\ UNCHANGED cycle /\ search.tried = {}
         /\ \E n \in Left :
              search' = [stack |-> <<Frame(n)>>, visited |-> {n}, tried |-> search.tried \union {n}]
<1> USE DEF PhaseInv
<1>1. at = "search" /\ search.stack = <<>> /\ Stuck /\ search.tried = {}
  BY DEF SearchFrom, Searching
<1> DEFINE untried == InListOrder(Left \ search.tried)
<1>2. untried \in Seq(Left) /\ untried # <<>>
  <2>1. Left \in SUBSET Name /\ Left \ search.tried = Left
    BY <1>1 DEF Left, Sorting
  <2>2. untried \in Seq(Left) /\ \A n : Occurs(n, untried) <=> n \in Left
    BY <2>1, InListOrderListsOnce DEF Sorting
  <2>3. PICK n : Occurs(n, untried)
    BY <1>1, <2>2 DEF Stuck
  <2> QED
    BY <2>2, <2>3 DEF Occurs
<1> DEFINE n == untried[1]
<1>3. n \in Left
  BY <1>2, LenProperties, EmptySeq
<1>4. /\ search' = [stack |-> <<Frame(n)>>, visited |-> {n}, tried |-> search.tried \union {n}]
      /\ at' = "search" /\ UNCHANGED cycle
  BY <1>1, <1>2 DEF SearchFrom
<1> QED
  BY <1>1, <1>3, <1>4

LEMMA SearchFromStep ==
  ASSUME PhaseInv, SearchFrom
  PROVE  PhaseInv'
<1> USE DEF PhaseInv
<1>1. at = "search" /\ at' = "search" /\ UNCHANGED cycle /\ Stuck
  BY FirstStartServes DEF Searching
<1>3. PICK n \in Left :
        search' = [stack |-> <<Frame(n)>>, visited |-> {n}, tried |-> search.tried \union {n}]
  BY FirstStartServes
<1>4. /\ search' = [stack |-> <<Frame(n)>>, visited |-> {n}, tried |-> search.tried \union {n}]
      /\ at' = "search" /\ UNCHANGED cycle
  BY <1>1, <1>3
<1>5. /\ Sorting' /\ Ordered' /\ Complete' /\ Progress' /\ Disposal'
      /\ Left' = Left /\ Stuck' /\ list' = list
  BY <1>1, <1>4, SearchFrame
<1>6. Frame(n) \in [name : Left, next : Nat \ {0}] /\ Frame(n).name = n /\ Frame(n).next = 1
  BY <1>3 DEF Frame
<1>7. /\ search'.stack = <<Frame(n)>> /\ search'.visited = {n}
      /\ search' = [stack |-> search'.stack, visited |-> search'.visited, tried |-> search'.tried]
  BY <1>4
<1>8. /\ Len(<<Frame(n)>>) = 1 /\ DOMAIN <<Frame(n)>> = {1} /\ <<Frame(n)>>[1] = Frame(n)
      /\ <<Frame(n)>> # <<>> /\ <<Frame(n)>> \in Seq([name : Left, next : Nat \ {0}])
      /\ Last(<<Frame(n)>>) = Frame(n)
  BY <1>6 DEF Last
<1>9. Trail' = [i \in {1} |-> n] /\ ToSet(Trail') = {n}
  BY <1>6, <1>7, <1>8 DEF Trail, Names, ToSet
<1>10. \A i \in DOMAIN Deps(n) : ~(i < 1)
  <2>1. DOMAIN Deps(n) = 1..Len(Deps(n))
    BY <1>3, PlacesFinite DEF Left, Sorting
  <2> QED
    BY <2>1
<1>11. Searching'
  <2>1. Stuck'
    BY <1>5
  <2>2. search'.stack \in Seq([name : Left', next : Nat \ {0}])
    BY <1>5, <1>7, <1>8
  <2>3. \A i, j \in DOMAIN search'.stack : search'.stack[i].name = search'.stack[j].name => i = j
    BY <1>7, <1>8
  <2>4. search' = [stack |-> search'.stack, visited |-> ToSet(Trail'), tried |-> search'.tried]
    BY <1>7, <1>9
  <2>5. search'.stack # <<>>
    BY <1>7, <1>8
  <2>6. 1..(Len(search'.stack) - 1) = {}
    BY <1>7, <1>8
  <2>7. \A i \in DOMAIN Deps(Last(search'.stack).name) :
          i < Last(search'.stack).next => Deps(Last(search'.stack).name)[i] \notin Left'
    BY <1>5, <1>6, <1>7, <1>8, <1>10
  <2> QED
    BY <1>4, <1>5, <2>1, <2>2, <2>3, <2>4, <2>5, <2>6, <2>7 DEF Searching, Deps, Called
<1>12. LeftCloses'
  BY <1>4 DEF LeftCloses
<1> QED
  BY <1>5, <1>11, <1>12

\* The next dependency of the top phase was drained, closes a cycle or is new.
LEMMA SearchOnStep ==
  ASSUME PhaseInv, SearchOn
  PROVE  /\ PhaseInv' /\ (at' = "cyclic" \/ Len(search'.stack) >= Len(search.stack))
         /\ search'.tried = search.tried
         /\ IF at' = "cyclic" THEN UNCHANGED search /\ cycle' \in Seq(Left)
                              ELSE at' = "search" /\ UNCHANGED cycle
<1> USE DEF PhaseInv
<1> DEFINE S == [name : Left, next : Nat \ {0}]
           frames == search.stack
           top == Last(frames)
           deps == Deps(top.name)
           dep == deps[top.next]
           on == [top EXCEPT !.next = top.next + 1]
           passed == Append(Front(frames), on)
           m == Len(frames)
<1>1. /\ at = "search" /\ frames # <<>> /\ Stuck /\ frames \in Seq(S)
      /\ \A i, j \in DOMAIN frames : frames[i].name = frames[j].name => i = j
      /\ search = [stack |-> frames, visited |-> ToSet(Trail), tried |-> search.tried]
      /\ \A i \in 1..(m - 1) : frames[i + 1].name \in ToSet(Deps(frames[i].name))
      /\ \A i \in DOMAIN deps : i < top.next => deps[i] \notin Left
  BY DEF SearchOn, Searching
<1>2. top.name \in Left /\ top.next \in Nat \ {0} /\ top = frames[m] /\ top \in S
      /\ m \in Nat \ {0} /\ DOMAIN frames = 1..m
  <2>1. m \in Nat \ {0} /\ DOMAIN frames = 1..m /\ top \in S /\ top = frames[m]
    <3> HIDE DEF S, frames
    <3> QED
      BY <1>1, TopOfStack
  <2>2. \A x \in S : x.name \in Left /\ x.next \in Nat \ {0}
    OBVIOUS
  <2> HIDE DEF top, m, S
  <2> QED
    BY <2>1, <2>2
<1>3. DOMAIN deps = 1..Len(deps) /\ Len(deps) \in Nat
  BY <1>2, PlacesFinite DEF Left, Sorting
<1>4. top.next <= Len(deps)
  <2>1. PICK i \in DOMAIN deps : deps[i] \in Left
    BY <1>1, <1>2 DEF Stuck
  <2> QED
    BY <1>1, <1>2, <1>3, <2>1
<1>5. DOMAIN Trail = 1..m /\ \A i \in 1..m : Trail[i] = frames[i].name
  BY <1>2 DEF Trail, Names
<1>6. Trail \in Seq(Left) /\ Len(Trail) = m
  <2>1. \A i \in 1..m : Trail[i] \in Left
    <3>1. \A i \in 1..m : frames[i] \in S
      <4> HIDE DEF S, frames
      <4> QED
        BY <1>1, <1>2, LenProperties
    <3>2. \A x \in S : x.name \in Left
      OBVIOUS
    <3> HIDE DEF S, frames, m
    <3> QED
      BY <1>5, <3>1, <3>2
  <2>2. Trail = [i \in 1..m |-> Trail[i]]
    BY <1>5 DEF Trail, Names
  <2> HIDE DEF m
  <2>3. Trail \in [1..m -> Left]
    BY <2>1, <2>2
  <2>4. Trail \in Seq(Left)
    BY <1>2, <2>3, SeqDef
  <2> QED
    BY <1>2, <1>5, <2>4, LenProperties
<1>7. on \in S /\ on.name = top.name /\ on.next = top.next + 1
  BY <1>2
<1>8. /\ passed \in Seq(S) /\ Len(passed) = m /\ DOMAIN passed = 1..m /\ passed # <<>>
      /\ \A i \in 1..(m - 1) : passed[i] = frames[i]
      /\ passed[m] = on /\ Last(passed) = on
  <2> HIDE DEF S, frames, top, on
  <2> QED
    BY <1>1, <1>7, TopReplaced
<1>9. \A i \in 1..m : passed[i].name = frames[i].name
  BY <1>2, <1>7, <1>8
<1>10. /\ UNCHANGED <<list, degree, queue, sorted, ran, remaining, cleared>>
       /\ IF dep \in Left /\ dep \in ToSet(Trail)
            THEN /\ at' = "cyclic" /\ UNCHANGED search
                 /\ cycle' = SubSeq(Trail, CHOOSE i \in DOMAIN Trail : Trail[i] = dep, Len(Trail)) \o <<dep>>
            ELSE /\ at' = "search" /\ UNCHANGED cycle
                 /\ search' = IF dep \notin Left \/ dep \in search.visited
                                THEN [search EXCEPT !.stack = passed]
                                ELSE [search EXCEPT !.stack = Append(passed, Frame(dep)),
                                                    !.visited = search.visited \union {dep}]
  <2>1. ~(top.next > Len(deps))
    BY <1>2, <1>3, <1>4
  <2>2. deps = Called(top.name).deps /\ Trail = Names(search.stack)
    BY DEF Deps, Trail
  <2> HIDE DEF top, on
  <2>3. on = [top EXCEPT !.next = @ + 1]
    BY DEF on
  <2> QED
    BY <1>1, <2>1, <2>2, <2>3 DEF SearchOn, top
<1> HIDE DEF frames, top, deps, dep, on, passed, m
<1>11. /\ Sorting' /\ Ordered' /\ Complete' /\ Progress' /\ Disposal'
       /\ Left' = Left /\ Stuck' /\ list' = list
  BY <1>1, <1>10, SearchFrame
<1>12. dep \in ToSet(deps)
  BY <1>2, <1>3, <1>4 DEF dep, ToSet
<1>13. CASE dep \in Left /\ dep \in ToSet(Trail)
  <2>1. /\ \A i, j \in DOMAIN Trail : Trail[i] = Trail[j] => i = j
        /\ \A i \in 1..(Len(Trail) - 1) : Trail[i + 1] \in ToSet(Deps(Trail[i]))
    <3>1. \A i \in 1..(m - 1) : i \in 1..m /\ i + 1 \in 1..m
      BY <1>2
    <3> QED
      BY <1>1, <1>2, <1>5, <1>6, <3>1
  <2>2. dep \in ToSet(Deps(Trail[Len(Trail)]))
    <3>1. Trail[Len(Trail)] = top.name
      BY <1>2, <1>5, <1>6
    <3> QED
      BY <1>12, <3>1 DEF deps
  <2>3. /\ Len(cycle') > 1 /\ cycle'[1] = Last(cycle') /\ IsInjective(Front(cycle'))
        /\ \A i \in 1..(Len(cycle') - 1) : cycle'[i + 1] \in ToSet(Deps(cycle'[i]))
        /\ cycle' \in Seq(Left)
    <3>1. cycle' = SubSeq(Trail, CHOOSE i \in DOMAIN Trail : Trail[i] = dep, Len(Trail)) \o <<dep>>
      BY <1>10, <1>13
    <3> HIDE DEF Trail
    <3> DEFINE c == SubSeq(Trail, CHOOSE i \in DOMAIN Trail : Trail[i] = dep, Len(Trail)) \o <<dep>>
    <3>2. /\ Len(c) > 1 /\ c[1] = Last(c) /\ IsInjective(Front(c))
          /\ \A i \in 1..(Len(c) - 1) : c[i + 1] \in ToSet(Deps(c[i]))
          /\ c \in Seq(Left)
      BY <1>6, <1>13, <2>1, <2>2, PathCloses
    <3>3. cycle' = c
      BY <3>1
    <3> HIDE DEF c
    <3> QED
      BY <3>2, <3>3
  <2>4. LeftCloses'
    BY <1>11, <2>3 DEF LeftCloses, Deps, Called
  <2>5. Searching'
    BY <1>10, <1>13 DEF Searching
  <2> QED
    BY <1>10, <1>11, <1>13, <2>3, <2>4, <2>5
<1>14. CASE ~(dep \in Left /\ dep \in ToSet(Trail))
  <2>1. at' = "search" /\ UNCHANGED cycle /\ search.visited = ToSet(Trail) /\ search.stack = frames
    BY <1>1, <1>10, <1>14
  <2>2. LeftCloses'
    BY <2>1 DEF LeftCloses
  <2>3. CASE dep \notin Left
    <3>1. search' = [stack |-> passed, visited |-> ToSet(Trail), tried |-> search.tried]
      BY <1>1, <1>10, <1>14, <2>3
    <3>2. search'.stack = passed
      BY <3>1
    <3>3. Trail' = Trail
      BY <1>2, <1>8, <1>9, <2>1, <3>2 DEF Trail, Names
    <3>4. \A i, j \in DOMAIN passed : passed[i].name = passed[j].name => i = j
      BY <1>1, <1>2, <1>8, <1>9
    <3>5. \A i \in 1..(Len(passed) - 1) : passed[i + 1].name \in ToSet(Deps(passed[i].name))
      <4>1. \A i \in 1..(m - 1) : i \in 1..m /\ i + 1 \in 1..m
        BY <1>2
      <4> QED
        BY <1>1, <1>8, <1>9, <4>1
    <3>6. \A i \in DOMAIN deps : i < top.next + 1 => deps[i] \notin Left
      <4> SUFFICES ASSUME NEW i \in DOMAIN deps, i < top.next + 1 PROVE deps[i] \notin Left
        OBVIOUS
      <4>1. i < top.next \/ i = top.next
        BY <1>2, <1>3
      <4> QED
        BY <1>1, <2>3, <4>1 DEF dep
    <3>7. Last(passed).name = top.name /\ Last(passed).next = top.next + 1
      BY <1>7, <1>8
    <3>8. \A i \in DOMAIN Deps(Last(passed).name) :
            i < Last(passed).next => Deps(Last(passed).name)[i] \notin Left
      BY <3>6, <3>7 DEF deps
    <3>9. passed \in Seq([name : Left', next : Nat \ {0}])
      BY <1>8, <1>11
    <3>10. search' = [stack |-> search'.stack, visited |-> ToSet(Trail'), tried |-> search'.tried]
      BY <3>1, <3>3
    <3>11. Searching'
      <4>1. search'.stack # <<>> /\ search'.stack \in Seq([name : Left', next : Nat \ {0}])
        BY <1>8, <3>2, <3>9
      <4>2. /\ \A i, j \in DOMAIN search'.stack : search'.stack[i].name = search'.stack[j].name => i = j
            /\ \A i \in 1..(Len(search'.stack) - 1) :
                 search'.stack[i + 1].name \in ToSet(Deps(search'.stack[i].name))
        BY <3>2, <3>4, <3>5
      <4>3. \A i \in DOMAIN Deps(Last(search'.stack).name) :
              i < Last(search'.stack).next => Deps(Last(search'.stack).name)[i] \notin Left'
        BY <1>11, <3>2, <3>8
      <4> QED
        BY <1>11, <2>1, <3>10, <4>1, <4>2, <4>3 DEF Searching, Deps, Called
    <3> QED
      BY <1>8, <1>11, <2>1, <2>2, <3>1, <3>2, <3>11 DEF m
  <2>4. CASE dep \in Left
    <3> DEFINE t == Append(passed, Frame(dep))
    <3>1. search' = [stack |-> t, visited |-> ToSet(Trail) \union {dep}, tried |-> search.tried]
      BY <1>1, <1>10, <1>14, <2>1, <2>4
    <3>2. search'.stack = t
      BY <3>1
    <3>3. Frame(dep) \in S /\ Frame(dep).name = dep /\ Frame(dep).next = 1
      BY <2>4 DEF Frame
    <3>4. /\ t \in Seq(S) /\ Len(t) = m + 1 /\ DOMAIN t = 1..(m + 1) /\ t # <<>>
          /\ \A i \in 1..m : t[i] = passed[i]
          /\ t[m + 1] = Frame(dep) /\ Last(t) = Frame(dep)
      <4>1. /\ t \in Seq(S) /\ Len(t) = m + 1 /\ t # <<>> /\ t[m + 1] = Frame(dep)
            /\ \A i \in 1..m : t[i] = passed[i]
        BY <1>8, <3>3, AppendProperties
      <4> QED
        BY <4>1, LenProperties DEF Last
    <3> HIDE DEF t
    <3>5. \A i \in 1..m : t[i].name = Trail[i]
      BY <1>5, <1>9, <3>4
    <3>6. ToSet(Trail') = ToSet(Trail) \union {dep}
      <4>1. DOMAIN Trail' = 1..(m + 1) /\ \A i \in 1..(m + 1) : Trail'[i] = t[i].name
        BY <3>2, <3>4 DEF Trail, Names
      <4>2. 1..(m + 1) = (1..m) \union {m + 1}
        BY <1>2
      <4>3. \A i \in 1..m : Trail'[i] = Trail[i]
        BY <3>5, <4>1, <4>2
      <4>4. Trail'[m + 1] = dep
        BY <3>3, <3>4, <4>1, <4>2
      <4> QED
        BY <1>5, <4>1, <4>2, <4>3, <4>4 DEF ToSet
    <3>7. \A i, j \in DOMAIN t : t[i].name = t[j].name => i = j
      <4> SUFFICES ASSUME NEW i \in 1..(m + 1), NEW j \in 1..(m + 1), t[i].name = t[j].name PROVE i = j
        BY <3>4
      <4>1. \A l \in 1..m : t[l].name # dep
        BY <1>5, <1>14, <2>4, <3>5 DEF ToSet
      <4>2. CASE i \in 1..m /\ j \in 1..m
        BY <1>1, <1>2, <1>5, <3>5, <4>2
      <4>3. CASE i = m + 1 \/ j = m + 1
        BY <1>2, <3>3, <3>4, <4>1, <4>3
      <4> QED
        BY <1>2, <4>2, <4>3
    <3>8. \A i \in 1..(Len(t) - 1) : t[i + 1].name \in ToSet(Deps(t[i].name))
      <4> SUFFICES ASSUME NEW i \in 1..m PROVE t[i + 1].name \in ToSet(Deps(t[i].name))
        BY <1>2, <3>4
      <4>1. CASE i = m
        <5>1. t[i].name = top.name /\ t[i + 1].name = dep
          BY <1>2, <1>5, <3>3, <3>4, <3>5, <4>1
        <5> QED
          BY <1>12, <5>1 DEF deps
      <4>2. CASE i # m
        <5>1. i \in 1..(m - 1) /\ i + 1 \in 1..m
          BY <1>2, <4>2
        <5> QED
          BY <1>1, <1>5, <3>5, <5>1
      <4> QED
        BY <4>1, <4>2
    <3>9. \A i \in DOMAIN Deps(Last(t).name) : i < Last(t).next => Deps(Last(t).name)[i] \notin Left
      <4>1. DOMAIN Deps(dep) = 1..Len(Deps(dep))
        BY <2>4, PlacesFinite DEF Left, Sorting
      <4>2. \A i \in DOMAIN Deps(dep) : ~(i < 1)
        BY <4>1
      <4> QED
        BY <3>3, <3>4, <4>2
    <3>10. t \in Seq([name : Left', next : Nat \ {0}])
      BY <1>11, <3>4 DEF S
    <3>11. search' = [stack |-> search'.stack, visited |-> ToSet(Trail'), tried |-> search'.tried]
      BY <3>1, <3>6
    <3>12. Searching'
      <4>1. search'.stack # <<>> /\ search'.stack \in Seq([name : Left', next : Nat \ {0}])
        BY <3>2, <3>4, <3>10
      <4>2. /\ \A i, j \in DOMAIN search'.stack : search'.stack[i].name = search'.stack[j].name => i = j
            /\ \A i \in 1..(Len(search'.stack) - 1) :
                 search'.stack[i + 1].name \in ToSet(Deps(search'.stack[i].name))
        BY <3>2, <3>7, <3>8
      <4>3. \A i \in DOMAIN Deps(Last(search'.stack).name) :
              i < Last(search'.stack).next => Deps(Last(search'.stack).name)[i] \notin Left'
        BY <1>11, <3>2, <3>9
      <4> QED
        BY <1>11, <2>1, <3>11, <4>1, <4>2, <4>3 DEF Searching, Deps, Called
    <3> QED
      BY <1>2, <1>11, <2>1, <2>2, <3>1, <3>2, <3>4, <3>12 DEF m
  <2> QED
    BY <2>3, <2>4
<1> QED
  BY <1>13, <1>14

LEMMA SearchSteps == PhaseInv /\ (SearchFrom \/ SearchOn) => PhaseInv'
BY SearchFromStep, SearchOnStep

-----------------------------------------------------------------------------
(* What the invariant says of a phase that is about to run, and of a run that ended *)

LEMMA ReadsWhatIsAlive ==
  ASSUME PhaseInv, at = "run", ran < Len(sorted)
  PROVE  Called(sorted[ran + 1]).reads \intersect cleared = {}
<1> DEFINE phase == Called(sorted[ran + 1])
<1> USE DEF PhaseInv
<1>1. DOMAIN sorted = 1..Len(sorted) /\ Len(sorted) \in Nat /\ ran + 1 \in DOMAIN sorted /\ ran \in Nat
  BY LenProperties DEF Sorting, Progress
<1>2. /\ phase \in ToSet(list) /\ phase.name = sorted[ran + 1] /\ phase.deps = Deps(sorted[ran + 1])
      /\ \A k \in DOMAIN sorted : Called(sorted[k]) \in ToSet(list) /\ Called(sorted[k]).name = sorted[k]
  BY <1>1, CalledPhase DEF Sorting, Deps
<1> HIDE DEF phase
<1>3. SUFFICES ASSUME NEW x \in phase.reads, x \in cleared PROVE FALSE
  BY DEF phase
<1>4. CASE \E n \in Disposable : x \in Data(n) /\ Mentions(n, ran) = {}
  <2>1. PICK n \in Disposable : x \in Data(n) /\ Mentions(n, ran) = {}
    BY <1>4
  <2>2. n \in ToSet(phase.deps)
    BY <1>2, <1>3, <2>1 DEF WellFormed, Sorting
  <2>3. {ran + 1} \X Places(n, Deps(sorted[ran + 1])) # {}
    BY <1>1, <1>2, <2>2, MentionsNext DEF Sorting
  <2>4. {ran + 1} \X Places(n, Deps(sorted[ran + 1])) \subseteq Mentions(n, ran)
    BY <1>1, MentionsNext DEF Sorting
  <2> QED
    BY <2>1, <2>3, <2>4
<1>5. CASE \E k \in 1..ran : x \in Called(sorted[k]).empties
  <2>1. PICK k \in 1..ran : x \in Called(sorted[k]).empties
    BY <1>5
  <2>2. k \in DOMAIN sorted /\ k < ran + 1
    BY <1>1
  <2>3. phase = Called(sorted[k]) \/ phase.name \in ToSet(Called(sorted[k]).deps)
    BY <1>2, <1>3, <2>1, <2>2 DEF WellFormed, Sorting
  <2>4. phase # Called(sorted[k])
    BY <1>1, <1>2, <2>2 DEF Sorting, Distinct
  <2>5. PICK m \in 1..(k - 1) : sorted[m] = phase.name
    BY <2>2, <2>3, <2>4 DEF Ordered
  <2>6. m \in DOMAIN sorted /\ m < ran + 1
    BY <1>1, <2>2
  <2> QED
    BY <1>1, <1>2, <2>5, <2>6 DEF Sorting, Distinct
<1> QED
  BY <1>3, <1>4, <1>5 DEF Disposal

LEMMA KeepsNothing ==
  ASSUME PhaseInv, at = "done"
  PROVE  DisposeOf(UNION {ToSet(p.deps) : p \in ToSet(list)}) \subseteq cleared
<1> USE DEF PhaseInv
<1>1. DOMAIN sorted = 1..Len(sorted) /\ Len(sorted) \in Nat /\ ran = Len(sorted)
  BY LenProperties DEF Sorting, Progress
<1>2. SUFFICES ASSUME NEW p \in ToSet(list), NEW n \in ToSet(p.deps), n \in Disposable
               PROVE  Data(n) \subseteq cleared
  BY DEF DisposeOf
<1>3. p.name \in Name /\ Called(p.name) = p
  BY CalledPhase DEF Sorting
<1>4. PICK k \in DOMAIN sorted : sorted[k] = p.name
  BY <1>3 DEF Complete, Name, ToSet
<1>5. n \in ToSet(Deps(sorted[k]))
  BY <1>2, <1>3, <1>4 DEF Deps
<1>6. Mentions(n, ran) = {}
  BY <1>1 DEF Mentions
<1> QED
  BY <1>2, <1>5, <1>6 DEF Disposal

-----------------------------------------------------------------------------
(* The lists are well formed *)


\* The data of each output that can be disposed of.
LEMMA DataTable ==
  /\ Data("scan") = {"scan"} /\ Data("a") = {"a"} /\ Data("b") = {"b"} /\ Data("c") = {"c"}
  /\ Data("structure") = {"structure.files", "structure.paths"}
  /\ Data("parse") = {"routes", "tools", "orm", "parse.paths", "types", "bindings"}
<1>1. "scan" # "structure" /\ "scan" # "parse" /\ "a" # "structure" /\ "a" # "parse"
      /\ "b" # "structure" /\ "b" # "parse" /\ "c" # "structure" /\ "c" # "parse"
      /\ "structure" # "parse"
  OBVIOUS
<1>2. ASSUME NEW n, n # "structure", n # "parse" PROVE Data(n) = {n}
  BY <1>2, Zenon DEF Data
<1>3. Data("structure") = {"structure.files", "structure.paths"}
  BY <1>1, Zenon DEF Data
<1>4. Data("parse") = {"routes", "tools", "orm", "parse.paths", "types", "bindings"}
  BY <1>1, Zenon DEF Data
<1> QED
  BY <1>1, <1>2, <1>3, <1>4

\* Short lists of dependencies.
LEMMA ShortLists ==
  /\ ToSet(<<>>) = {} /\ Len(<<>>) = 0 /\ \A S : <<>> \in Seq(S)
  /\ \A a : ToSet(<<a>>) = {a} /\ Len(<<a>>) = 1 /\ \A S : a \in S => <<a>> \in Seq(S)
  /\ \A a, b : /\ ToSet(<<a, b>>) = {a, b} /\ Len(<<a, b>>) = 2
               /\ \A S : {a, b} \subseteq S => <<a, b>> \in Seq(S)
  /\ \A a, b, c : /\ ToSet(<<a, b, c>>) = {a, b, c} /\ Len(<<a, b, c>>) = 3
                  /\ \A S : {a, b, c} \subseteq S => <<a, b, c>> \in Seq(S)
  /\ \A a, b, c, d : /\ ToSet(<<a, b, c, d>>) = {a, b, c, d} /\ Len(<<a, b, c, d>>) = 4
                     /\ \A S : {a, b, c, d} \subseteq S => <<a, b, c, d>> \in Seq(S)
<1>1. ToSet(<<>>) = {} /\ Len(<<>>) = 0 /\ \A S : <<>> \in Seq(S)
  BY DEF ToSet
<1>2. \A a : ToSet(<<a>>) = {a} /\ Len(<<a>>) = 1 /\ \A S : a \in S => <<a>> \in Seq(S)
  BY DEF ToSet
<1>3. \A a, b : /\ ToSet(<<a, b>>) = {a, b} /\ Len(<<a, b>>) = 2
                /\ \A S : {a, b} \subseteq S => <<a, b>> \in Seq(S)
  BY DEF ToSet
<1>4. \A a, b, c : /\ ToSet(<<a, b, c>>) = {a, b, c} /\ Len(<<a, b, c>>) = 3
                   /\ \A S : {a, b, c} \subseteq S => <<a, b, c>> \in Seq(S)
  BY DEF ToSet
<1>5. \A a, b, c, d : /\ ToSet(<<a, b, c, d>>) = {a, b, c, d} /\ Len(<<a, b, c, d>>) = 4
                      /\ \A S : {a, b, c, d} \subseteq S => <<a, b, c, d>> \in Seq(S)
  BY DEF ToSet
<1> QED
  BY <1>1, <1>2, <1>3, <1>4, <1>5

\* s lists the phases of S, with different names.
Row(s, S) == s \in Seq(S) /\ ToSet(s) = S /\ UniqueNames(s)

LEMMA RowOne == ASSUME NEW p PROVE Row(<<p>>, {p})
BY DEF Row, ToSet, UniqueNames

LEMMA RowConcat ==
  ASSUME NEW S, NEW T, NEW s, NEW t, Row(s, S), Row(t, T), \A p \in S, q \in T : p.name # q.name
  PROVE  Row(s \o t, S \union T)
<1> DEFINE q == s \o t
<1>1. s \in Seq(S \union T) /\ t \in Seq(S \union T)
  BY SeqMonotonic DEF Row
<1>2. /\ q \in Seq(S \union T) /\ Len(q) = Len(s) + Len(t)
      /\ \A i \in 1..(Len(s) + Len(t)) : q[i] = IF i <= Len(s) THEN s[i] ELSE t[i - Len(s)]
  BY <1>1, ConcatProperties
<1>3. /\ DOMAIN s = 1..Len(s) /\ DOMAIN t = 1..Len(t) /\ DOMAIN q = 1..(Len(s) + Len(t))
      /\ Len(s) \in Nat /\ Len(t) \in Nat
  BY <1>1, <1>2, LenProperties
<1> HIDE DEF q
<1>4. ASSUME NEW i \in DOMAIN q
      PROVE  \/ i \in DOMAIN s /\ q[i] = s[i] /\ q[i] \in S
             \/ i - Len(s) \in DOMAIN t /\ q[i] = t[i - Len(s)] /\ q[i] \in T
  <2>1. CASE i <= Len(s)
    <3>1. i \in DOMAIN s /\ q[i] = s[i]
      BY <1>2, <1>3, <2>1
    <3> QED
      BY <3>1 DEF Row, ToSet
  <2>2. CASE ~(i <= Len(s))
    <3>1. i - Len(s) \in DOMAIN t /\ q[i] = t[i - Len(s)]
      BY <1>2, <1>3, <2>2
    <3> QED
      BY <3>1 DEF Row, ToSet
  <2> QED
    BY <2>1, <2>2
<1>5. ASSUME NEW p \in S PROVE \E i \in DOMAIN q : q[i] = p
  <2>1. PICK i \in DOMAIN s : s[i] = p
    BY DEF Row, ToSet
  <2>2. i \in DOMAIN q /\ q[i] = s[i]
    BY <1>2, <1>3, <2>1
  <2> QED
    BY <2>1, <2>2
<1>6. ASSUME NEW p \in T PROVE \E i \in DOMAIN q : q[i] = p
  <2>1. PICK i \in DOMAIN t : t[i] = p
    BY DEF Row, ToSet
  <2>2. i + Len(s) \in DOMAIN q /\ q[i + Len(s)] = t[(i + Len(s)) - Len(s)] /\ (i + Len(s)) - Len(s) = i
    BY <1>2, <1>3, <2>1
  <2> QED
    BY <2>1, <2>2
<1>7. ToSet(q) = S \union T
  BY <1>4, <1>5, <1>6 DEF ToSet
<1>8. ASSUME NEW i \in DOMAIN q, NEW j \in DOMAIN q, q[i].name = q[j].name PROVE i = j
  <2>1. CASE i \in DOMAIN s /\ q[i] = s[i] /\ j \in DOMAIN s /\ q[j] = s[j]
    BY <1>8, <2>1 DEF Row, UniqueNames
  <2>2. CASE i - Len(s) \in DOMAIN t /\ q[i] = t[i - Len(s)] /\ j - Len(s) \in DOMAIN t /\ q[j] = t[j - Len(s)]
    <3>1. i - Len(s) = j - Len(s)
      BY <1>8, <2>2 DEF Row, UniqueNames
    <3> QED
      BY <1>3, <3>1
  <2>3. ~(q[i] \in S /\ q[j] \in T) /\ ~(q[j] \in S /\ q[i] \in T)
    BY <1>8
  <2> QED
    BY <1>4, <2>1, <2>2, <2>3
<1> QED
  BY <1>2, <1>7, <1>8 DEF Row, UniqueNames, q

LEMMA RowWellFormed ==
  ASSUME NEW L, NEW S, Row(L, S), NEW m \in Nat,
         \A p \in S : p.deps \in Seq({q.name : q \in S}) /\ Len(p.deps) <= m,
         \A p \in S, n \in Disposable : p.reads \intersect Data(n) # {} => n \in ToSet(p.deps),
         \A p, q \in S : q.reads \intersect p.empties # {} => q = p \/ q.name \in ToSet(p.deps)
  PROVE  WellFormed(L)
<1>1. Len(L) \in Nat /\ DOMAIN L = 1..Len(L) /\ ToSet(L) = S /\ UniqueNames(L)
  BY LenProperties DEF Row
<1>2. ToSet(Names(L)) = {q.name : q \in S}
  BY <1>1 DEF Names, ToSet
<1> QED
  BY <1>1, <1>2 DEF WellFormed

-----------------------------------------------------------------------------
(* The program's phases *)

Scan == Phase("scan", <<>>, {}, {})
GitMining == Phase("gitMining", <<"scan", "parse">>, {"scan"}, {})
Structure == Phase("structure", <<"scan">>, {"scan"}, {})
Markdown == Phase("markdown", <<"structure">>, Data("structure"), {})
Cobol == Phase("cobol", <<"structure">>, Data("structure"), {})
Parse == Phase("parse", <<"structure", "markdown", "cobol">>, Data("structure"), {"structure.files"})
SymbolsParse == Phase("parse", <<"structure">>, Data("structure"), {"structure.files"})
OptionalPrecision == Phase("optionalPrecision", <<"parse">>, {}, {})
Routes == Phase("routesPhase", <<"parse">>, {"routes", "parse.paths"}, {"routes"})
Tools == Phase("toolsPhase", <<"parse">>, {"tools", "parse.paths"}, {"tools"})
Orm == Phase("ormPhase", <<"parse">>, {"orm"}, {"orm"})
CrossFile == Phase("crossFile", <<"parse", "routesPhase", "toolsPhase", "ormPhase">>, {"types", "parse.paths", "bindings"}, {"bindings"})
PageRank == Phase("pageRank", <<"crossFile">>, {}, {})
Mro == Phase("mro", <<"crossFile", "structure">>, {}, {})
Communities == Phase("communities", <<"mro", "structure">>, {}, {})
Concepts == Phase("concepts", <<"markdown", "communities">>, {}, {})
Processes == Phase("processes", <<"communities", "routesPhase", "toolsPhase", "structure">>, {"communities", "routesPhase", "toolsPhase"}, {})
SummaryTree == Phase("summaryTree", <<"communities", "concepts">>, {"communities"}, {})

BasePhases ==
  {Scan, GitMining, Structure, Markdown, Cobol, Parse, Routes, Tools, Orm, CrossFile, PageRank}
GraphPhases == {Mro, Communities, Concepts, Processes, SummaryTree}
AllPhases == BasePhases \union {OptionalPrecision} \union GraphPhases

\* p has this name, depends on these phases, reads and empties these data.
Describes(p, name, deps, reads, empties) ==
  /\ p.name = name /\ p.reads = reads /\ p.empties = empties
  /\ ToSet(p.deps) = deps

LEMMA PhaseTable ==
  /\ Describes(Scan, "scan", {}, {}, {})
  /\ Describes(GitMining, "gitMining", {"scan", "parse"}, {"scan"}, {})
  /\ Describes(Structure, "structure", {"scan"}, {"scan"}, {})
  /\ Describes(Markdown, "markdown", {"structure"}, {"structure.files", "structure.paths"}, {})
  /\ Describes(Cobol, "cobol", {"structure"}, {"structure.files", "structure.paths"}, {})
  /\ Describes(Parse, "parse", {"structure", "markdown", "cobol"}, {"structure.files", "structure.paths"}, {"structure.files"})
  /\ Describes(SymbolsParse, "parse", {"structure"}, {"structure.files", "structure.paths"}, {"structure.files"})
  /\ Describes(OptionalPrecision, "optionalPrecision", {"parse"}, {}, {})
  /\ Describes(Routes, "routesPhase", {"parse"}, {"routes", "parse.paths"}, {"routes"})
  /\ Describes(Tools, "toolsPhase", {"parse"}, {"tools", "parse.paths"}, {"tools"})
  /\ Describes(Orm, "ormPhase", {"parse"}, {"orm"}, {"orm"})
  /\ Describes(CrossFile, "crossFile", {"parse", "routesPhase", "toolsPhase", "ormPhase"}, {"types", "parse.paths", "bindings"}, {"bindings"})
  /\ Describes(PageRank, "pageRank", {"crossFile"}, {}, {})
  /\ Describes(Mro, "mro", {"crossFile", "structure"}, {}, {})
  /\ Describes(Communities, "communities", {"mro", "structure"}, {}, {})
  /\ Describes(Concepts, "concepts", {"markdown", "communities"}, {}, {})
  /\ Describes(Processes, "processes", {"communities", "routesPhase", "toolsPhase", "structure"}, {"communities", "routesPhase", "toolsPhase"}, {})
  /\ Describes(SummaryTree, "summaryTree", {"communities", "concepts"}, {"communities"}, {})
<1>1. Describes(Scan, "scan", {}, {}, {})
  BY ShortLists DEF Phase, Scan, Describes
<1>2. Describes(GitMining, "gitMining", {"scan", "parse"}, {"scan"}, {})
  BY ShortLists DEF Phase, GitMining, Describes
<1>3. Describes(Structure, "structure", {"scan"}, {"scan"}, {})
  BY ShortLists DEF Phase, Structure, Describes
<1>4. Describes(Markdown, "markdown", {"structure"}, {"structure.files", "structure.paths"}, {})
  BY ShortLists, DataTable DEF Phase, Markdown, Describes
<1>5. Describes(Cobol, "cobol", {"structure"}, {"structure.files", "structure.paths"}, {})
  BY ShortLists, DataTable DEF Phase, Cobol, Describes
<1>6. Describes(Parse, "parse", {"structure", "markdown", "cobol"}, {"structure.files", "structure.paths"}, {"structure.files"})
  BY ShortLists, DataTable DEF Phase, Parse, Describes
<1>7. Describes(SymbolsParse, "parse", {"structure"}, {"structure.files", "structure.paths"}, {"structure.files"})
  BY ShortLists, DataTable DEF Phase, SymbolsParse, Describes
<1>8. Describes(OptionalPrecision, "optionalPrecision", {"parse"}, {}, {})
  BY ShortLists DEF Phase, OptionalPrecision, Describes
<1>9. Describes(Routes, "routesPhase", {"parse"}, {"routes", "parse.paths"}, {"routes"})
  BY ShortLists DEF Phase, Routes, Describes
<1>10. Describes(Tools, "toolsPhase", {"parse"}, {"tools", "parse.paths"}, {"tools"})
  BY ShortLists DEF Phase, Tools, Describes
<1>11. Describes(Orm, "ormPhase", {"parse"}, {"orm"}, {"orm"})
  BY ShortLists DEF Phase, Orm, Describes
<1>12. Describes(CrossFile, "crossFile", {"parse", "routesPhase", "toolsPhase", "ormPhase"}, {"types", "parse.paths", "bindings"}, {"bindings"})
  BY ShortLists DEF Phase, CrossFile, Describes
<1>13. Describes(PageRank, "pageRank", {"crossFile"}, {}, {})
  BY ShortLists DEF Phase, PageRank, Describes
<1>14. Describes(Mro, "mro", {"crossFile", "structure"}, {}, {})
  BY ShortLists DEF Phase, Mro, Describes
<1>15. Describes(Communities, "communities", {"mro", "structure"}, {}, {})
  BY ShortLists DEF Phase, Communities, Describes
<1>16. Describes(Concepts, "concepts", {"markdown", "communities"}, {}, {})
  BY ShortLists DEF Phase, Concepts, Describes
<1>17. Describes(Processes, "processes", {"communities", "routesPhase", "toolsPhase", "structure"}, {"communities", "routesPhase", "toolsPhase"}, {})
  BY ShortLists DEF Phase, Processes, Describes
<1>18. Describes(SummaryTree, "summaryTree", {"communities", "concepts"}, {"communities"}, {})
  BY ShortLists DEF Phase, SummaryTree, Describes
<1> QED
  BY <1>1, <1>2, <1>3, <1>4, <1>5, <1>6, <1>7, <1>8, <1>9,
     <1>10, <1>11, <1>12, <1>13, <1>14, <1>15, <1>16, <1>17, <1>18

LEMMA DependenciesListed ==
  ASSUME NEW p \in AllPhases \union {SymbolsParse}
  PROVE  Len(p.deps) <= 4 /\ \A S : ToSet(p.deps) \subseteq S => p.deps \in Seq(S)
<1>1. \E a, b, c, d : p.deps \in {<<>>, <<a>>, <<a, b>>, <<a, b, c>>, <<a, b, c, d>>}
  BY DEF AllPhases, BasePhases, GraphPhases, Phase,
     Scan, GitMining, Structure, Markdown, Cobol, Parse, SymbolsParse, OptionalPrecision, Routes,
     Tools, Orm, CrossFile, PageRank, Mro, Communities, Concepts, Processes, SummaryTree
<1>2. PICK a, b, c, d : p.deps \in {<<>>, <<a>>, <<a, b>>, <<a, b, c>>, <<a, b, c, d>>}
  BY <1>1
<1>3. CASE p.deps = <<>>
  BY <1>3, ShortLists
<1>4. CASE p.deps = <<a>>
  BY <1>4, ShortLists
<1>5. CASE p.deps = <<a, b>>
  BY <1>5, ShortLists
<1>6. CASE p.deps = <<a, b, c>>
  BY <1>6, ShortLists
<1>7. CASE p.deps = <<a, b, c, d>>
  BY <1>7, ShortLists
<1> QED
  BY <1>2, <1>3, <1>4, <1>5, <1>6, <1>7

\* Who reads data of an output depends on its phase.
LEMMA ReadersDepend ==
  ASSUME NEW p \in AllPhases \union {SymbolsParse}, NEW n \in Disposable, p.reads \intersect Data(n) # {}
  PROVE  n \in ToSet(p.deps)
<1>1. CASE n = "scan"
  BY <1>1, DataTable, PhaseTable DEF Describes, AllPhases, BasePhases, GraphPhases
<1>2. CASE n = "structure"
  BY <1>2, DataTable, PhaseTable DEF Describes, AllPhases, BasePhases, GraphPhases
<1>3. CASE n = "parse"
  BY <1>3, DataTable, PhaseTable DEF Describes, AllPhases, BasePhases, GraphPhases
<1>4. CASE n \in {"a", "b", "c"}
  BY <1>4, DataTable, PhaseTable DEF Describes, AllPhases, BasePhases, GraphPhases
<1> QED
  BY <1>1, <1>2, <1>3, <1>4 DEF Disposable

\* What a phase empties only it and its dependencies read.
LEMMA EmptiesOwnData ==
  ASSUME NEW p \in AllPhases, NEW q \in AllPhases, q.reads \intersect p.empties # {}
  PROVE  q = p \/ q.name \in ToSet(p.deps)
<1>1. ASSUME NEW r \in AllPhases
      PROVE  /\ "structure.files" \in r.reads => r \in {Parse, Markdown, Cobol}
             /\ "routes" \in r.reads => r = Routes
             /\ "tools" \in r.reads => r = Tools
             /\ "orm" \in r.reads => r = Orm
             /\ "bindings" \in r.reads => r = CrossFile
  BY PhaseTable DEF Describes, AllPhases, BasePhases, GraphPhases
<1>2. \/ p = Parse /\ p.empties = {"structure.files"}
      \/ p = Routes /\ p.empties = {"routes"}
      \/ p = Tools /\ p.empties = {"tools"}
      \/ p = Orm /\ p.empties = {"orm"}
      \/ p = CrossFile /\ p.empties = {"bindings"}
      \/ p.empties = {}
  BY PhaseTable DEF Describes, AllPhases, BasePhases, GraphPhases
<1>3. Markdown.name \in ToSet(Parse.deps) /\ Cobol.name \in ToSet(Parse.deps)
  BY PhaseTable DEF Describes
<1> QED
  BY <1>1, <1>2, <1>3

LEMMA SymbolsWellFormed == WellFormed(SymbolsList)
<1> DEFINE S == {Scan, Structure, SymbolsParse}
<1>1. SymbolsList = <<Scan>> \o <<Structure, SymbolsParse>>
  BY DEF SymbolsList, Basis, Scan, Structure, SymbolsParse
<1>2. Row(<<Structure, SymbolsParse>>, {Structure, SymbolsParse})
  BY PhaseTable DEF Describes, Row, ToSet, UniqueNames
<1>3. \A p \in {Scan}, q \in {Structure, SymbolsParse} : p.name # q.name
  BY PhaseTable DEF Describes
<1>4. Row(SymbolsList, {Scan} \union {Structure, SymbolsParse})
  BY <1>1, <1>2, <1>3, RowOne, RowConcat
<1>5. {Scan} \union {Structure, SymbolsParse} = S
  OBVIOUS
<1>6. {q.name : q \in S} = {"scan", "structure", "parse"}
  BY PhaseTable DEF Describes
<1>7. ASSUME NEW p \in S PROVE p.deps \in Seq({q.name : q \in S}) /\ Len(p.deps) <= 4
  BY <1>6, PhaseTable, DependenciesListed DEF Describes, AllPhases, BasePhases
<1>8. \A p \in S, n \in Disposable : p.reads \intersect Data(n) # {} => n \in ToSet(p.deps)
  BY ReadersDepend DEF AllPhases, BasePhases
<1>9. \A p, q \in S : q.reads \intersect p.empties # {} => q = p \/ q.name \in ToSet(p.deps)
  BY PhaseTable DEF Describes
<1> HIDE DEF S
<1> QED
  BY <1>4, <1>5, <1>7, <1>8, <1>9, RowWellFormed

LEMMA ListWellFormed ==
  ASSUME NEW precision \in BOOLEAN, NEW graphPhases \in BOOLEAN
  PROVE  WellFormed(PhaseList(precision, graphPhases))
<1> DEFINE s1 == <<Scan, GitMining>>
           s2 == <<Structure, Markdown, Cobol, Parse>>
           s3 == IF precision THEN <<OptionalPrecision>> ELSE <<>>
           s4 == <<Routes, Tools, Orm, CrossFile, PageRank>>
           s5 == IF graphPhases THEN <<Mro, Communities, Concepts, Processes, SummaryTree>> ELSE <<>>
           S1 == {Scan, GitMining}
           S2 == {Structure, Markdown, Cobol, Parse}
           S3 == IF precision THEN {OptionalPrecision} ELSE {}
           S4 == {Routes, Tools, Orm, CrossFile, PageRank}
           S5 == IF graphPhases THEN GraphPhases ELSE {}
           S == S1 \union S2 \union S3 \union S4 \union S5
           L == PhaseList(precision, graphPhases)
<1>1. L = s1 \o s2 \o s3 \o s4 \o s5
  BY DEF PhaseList, Basis, Scan, GitMining, Structure, Markdown, Cobol, Parse, OptionalPrecision,
     Routes, Tools, Orm, CrossFile, PageRank, Mro, Communities, Concepts, Processes, SummaryTree
<1>2. Row(s1, S1) /\ Row(s2, S2) /\ Row(s3, S3) /\ Row(s4, S4) /\ Row(s5, S5)
  <2>1. Row(s1, S1)
    BY PhaseTable DEF Describes, Row, ToSet, UniqueNames
  <2>2. Row(s2, S2)
    BY PhaseTable DEF Describes, Row, ToSet, UniqueNames
  <2>3. Row(s3, S3)
    <3>1. Row(<<>>, {})
      BY DEF Row, ToSet, UniqueNames
    <3> QED
      BY <3>1, RowOne
  <2>4. Row(s4, S4)
    BY PhaseTable DEF Describes, Row, ToSet, UniqueNames
  <2>5. Row(s5, S5)
    <3>1. Row(<<>>, {})
      BY DEF Row, ToSet, UniqueNames
    <3>2. Row(<<Mro, Communities, Concepts, Processes, SummaryTree>>, GraphPhases)
      BY PhaseTable DEF Describes, Row, ToSet, UniqueNames, GraphPhases
    <3> QED
      BY <3>1, <3>2
  <2> QED
    BY <2>1, <2>2, <2>3, <2>4, <2>5
<1>3. /\ \A p \in S1, q \in S2 \union S3 \union S4 \union S5 : p.name # q.name
      /\ \A p \in S2, q \in S3 \union S4 \union S5 : p.name # q.name
      /\ \A p \in S3, q \in S4 \union S5 : p.name # q.name
      /\ \A p \in S4, q \in S5 : p.name # q.name
  <2>1. \A p \in S5 : p.name \in {"mro", "communities", "concepts", "processes", "summaryTree"}
    BY PhaseTable DEF Describes, GraphPhases
  <2>2. \A p \in S4 : p.name \in {"routesPhase", "toolsPhase", "ormPhase", "crossFile", "pageRank"}
    BY PhaseTable DEF Describes
  <2>3. \A p \in S3 : p.name = "optionalPrecision"
    BY PhaseTable DEF Describes
  <2>4. \A p \in S2 : p.name \in {"structure", "markdown", "cobol", "parse"}
    BY PhaseTable DEF Describes
  <2>5. \A p \in S1 : p.name \in {"scan", "gitMining"}
    BY PhaseTable DEF Describes
  <2> HIDE DEF S1, S2, S3, S4, S5
  <2> QED
    BY <2>1, <2>2, <2>3, <2>4, <2>5
<1>4. Row(L, S)
  <2> HIDE DEF s1, s2, s3, s4, s5, S1, S2, S3, S4, S5, L
  <2>1. Row(s1 \o s2, S1 \union S2)
    BY <1>2, <1>3, RowConcat
  <2>2. Row((s1 \o s2) \o s3, (S1 \union S2) \union S3)
    BY <1>2, <1>3, <2>1, RowConcat
  <2>3. Row(((s1 \o s2) \o s3) \o s4, ((S1 \union S2) \union S3) \union S4)
    BY <1>2, <1>3, <2>2, RowConcat
  <2>4. Row((((s1 \o s2) \o s3) \o s4) \o s5, (((S1 \union S2) \union S3) \union S4) \union S5)
    BY <1>2, <1>3, <2>3, RowConcat
  <2> QED
    BY <1>1, <2>4
<1>5. S \subseteq AllPhases /\ BasePhases \subseteq S
  BY DEF AllPhases, BasePhases
<1>6. ASSUME NEW p \in S PROVE p.deps \in Seq({q.name : q \in S}) /\ Len(p.deps) <= 4
  <2>1. {"scan", "structure", "markdown", "cobol", "parse", "routesPhase", "toolsPhase", "ormPhase", "crossFile"}
        \subseteq {q.name : q \in BasePhases}
    BY PhaseTable DEF Describes, BasePhases
  <2>2. {"mro", "communities", "concepts"} \subseteq {q.name : q \in GraphPhases}
    BY PhaseTable DEF Describes, GraphPhases
  <2>3. CASE p \in BasePhases \union {OptionalPrecision}
    <3> HIDE DEF S
    <3>1. ToSet(p.deps) \subseteq {q.name : q \in BasePhases}
      BY <2>1, <2>3, PhaseTable DEF Describes, BasePhases
    <3>2. {q.name : q \in BasePhases} \subseteq {q.name : q \in S}
      BY <1>5
    <3>3. Len(p.deps) <= 4 /\ \A T : ToSet(p.deps) \subseteq T => p.deps \in Seq(T)
      BY <2>3, DependenciesListed DEF AllPhases
    <3> QED
      BY <3>1, <3>2, <3>3
  <2>4. CASE p \in GraphPhases
    <3>1. graphPhases
      BY <2>1, <2>4, PhaseTable DEF Describes, GraphPhases
    <3>2. GraphPhases \subseteq S
      BY <3>1
    <3> HIDE DEF S
    <3>3. ToSet(p.deps) \subseteq {q.name : q \in BasePhases \union GraphPhases}
      <4>1. ToSet(p.deps) \subseteq {"crossFile", "structure", "markdown", "routesPhase", "toolsPhase",
                                    "mro", "communities", "concepts"}
        BY <2>4, PhaseTable DEF Describes, GraphPhases
      <4>2. ToSet(p.deps) \subseteq {q.name : q \in BasePhases} \union {q.name : q \in GraphPhases}
        BY <2>1, <2>2, <4>1
      <4> QED
        BY <4>2
    <3>4. {q.name : q \in BasePhases \union GraphPhases} \subseteq {q.name : q \in S}
      BY <1>5, <3>2
    <3>5. Len(p.deps) <= 4 /\ \A T : ToSet(p.deps) \subseteq T => p.deps \in Seq(T)
      BY <2>4, DependenciesListed DEF AllPhases
    <3> QED
      BY <3>3, <3>4, <3>5
  <2> QED
    BY <1>5, <2>3, <2>4 DEF AllPhases
<1>7. \A p \in S, n \in Disposable : p.reads \intersect Data(n) # {} => n \in ToSet(p.deps)
  BY <1>5, ReadersDepend
<1>8. \A p, q \in S : q.reads \intersect p.empties # {} => q = p \/ q.name \in ToSet(p.deps)
  BY <1>5, EmptiesOwnData
<1> HIDE DEF S, L
<1>9. WellFormed(L)
  BY <1>4, <1>6, <1>7, <1>8, RowWellFormed
<1> QED
  BY <1>9 DEF L

LEMMA SmallWellFormed ==
  ASSUME MaxDeps \in Nat, NEW deps \in [1..3 -> Dependencies]
  PROVE  WellFormed(SmallList(deps))
<1> DEFINE L == SmallList(deps)
           abc == <<"a", "b", "c">>
<1>1. /\ DOMAIN L = 1..3 /\ Len(L) = 3
      /\ \A i \in 1..3 : /\ L[i].name = abc[i] /\ L[i].deps = deps[i]
                         /\ L[i].reads = ToSet(deps[i]) /\ L[i].empties = {}
  BY DEF SmallList, Phase
<1>2. ToSet(Names(L)) = {"a", "b", "c"}
  BY <1>1 DEF Names, ToSet
<1>3. ASSUME NEW i \in 1..3
      PROVE  /\ deps[i] \in Seq({"a", "b", "c"}) /\ Len(deps[i]) <= MaxDeps
             /\ ToSet(deps[i]) \subseteq {"a", "b", "c"}
  <2>1. PICK n \in 0..MaxDeps : deps[i] \in [1..n -> {"a", "b", "c"}]
    <3>1. deps[i] \in Dependencies
      OBVIOUS
    <3>2. \E s \in {[1..n -> {"a", "b", "c"}] : n \in 0..MaxDeps} : deps[i] \in s
      BY <3>1 DEF Dependencies
    <3> QED
      BY <3>2
  <2>2. deps[i] \in Seq({"a", "b", "c"}) /\ Len(deps[i]) = n
    BY <2>1
  <2> QED
    BY <2>1, <2>2 DEF ToSet
<1>4. \A x \in {"a", "b", "c"}, n \in Disposable : x \in Data(n) => x = n
  BY DataTable DEF Disposable
<1> HIDE DEF L
<1>5. ASSUME NEW p \in ToSet(L)
      PROVE  /\ p.deps \in Seq(ToSet(Names(L))) /\ Len(p.deps) <= MaxDeps /\ p.empties = {}
             /\ \A n \in Disposable : p.reads \intersect Data(n) # {} => n \in ToSet(p.deps)
  <2>1. PICK i \in 1..3 : p = L[i]
    BY <1>1 DEF ToSet
  <2> QED
    BY <1>1, <1>2, <1>3, <1>4, <2>1
<1>6. UniqueNames(L)
  BY <1>1 DEF UniqueNames
<1> QED
  BY <1>1, <1>5, <1>6 DEF WellFormed, L

-----------------------------------------------------------------------------
(* Theorems *)

LEMMA PhaseInit ==
  ASSUME RunnerInit
  PROVE  PhaseInv
<1>1. /\ degree = [n \in Name |-> Len(Deps(n))] /\ queue = InListOrder({n \in DOMAIN degree : degree[n] = 0})
      /\ sorted = <<>> /\ at = "sort" /\ ran = 0 /\ cleared = {}
      /\ search = [stack |-> <<>>, visited |-> {}, tried |-> {}]
  BY DEF RunnerInit, Name, Deps
<1>2. WellFormed(list)
  <2>1. CASE \E precision, graphPhases \in BOOLEAN : list = PhaseList(precision, graphPhases)
    BY <2>1, ListWellFormed
  <2>2. CASE list = SymbolsList
    BY <2>2, SymbolsWellFormed
  <2>3. CASE \E deps \in [1..3 -> Dependencies] : list = SmallList(deps)
    BY <2>3, SmallWellFormed, PhaseAssumption
  <2> QED
    BY <2>1, <2>2, <2>3 DEF RunnerInit, Lists
<1>3. sorted \in Seq(Name) /\ Distinct(sorted) /\ Len(sorted) = 0 /\ DOMAIN sorted = {} /\ \A n : ~Occurs(n, sorted)
  BY <1>1 DEF Distinct, Occurs
<1>4. ASSUME NEW n \in Name
      PROVE  /\ Unmet(n) = DOMAIN Deps(n) /\ degree[n] = Cardinality(Unmet(n))
             /\ degree[n] = 0 <=> Unmet(n) = {}
  <2>1. Unmet(n) = DOMAIN Deps(n)
    BY <1>3 DEF Unmet
  <2>2. degree[n] = Cardinality(Unmet(n)) /\ IsFiniteSet(Unmet(n))
    BY <1>1, <1>2, <2>1, PlacesFinite
  <2> QED
    BY <2>1, <2>2, FS_EmptySet
<1>5. {n \in DOMAIN degree : degree[n] = 0} = {n \in Name : Unmet(n) = {}}
  BY <1>1, <1>4
<1>6. /\ queue \in Seq({n \in Name : Unmet(n) = {}}) /\ Distinct(queue)
      /\ \A n : Occurs(n, queue) <=> n \in {m \in Name : Unmet(m) = {}}
  BY <1>1, <1>2, <1>5, InListOrderListsOnce
<1>7. queue \in Seq(Name)
  BY <1>6, SeqMonotonic
<1>8. Sorting
  BY <1>1, <1>2, <1>3, <1>4, <1>6, <1>7 DEF Sorting
<1>9. Ordered /\ Complete /\ Progress /\ Disposal /\ Searching /\ LeftCloses
  BY <1>1, <1>3 DEF Ordered, Complete, Progress, Disposal, Searching, LeftCloses
<1> QED
  BY <1>8, <1>9 DEF PhaseInv

LEMMA RunnerStep == PhaseInv /\ [RunnerNext]_phaseVars => PhaseInv'
BY DrainStep, SortEndsStep, SearchSteps, PhaseSucceedsStep, OtherSteps DEF RunnerNext

LEMMA PhaseInvSays ==
  PhaseInv => SortCorrect /\ Distinct(sorted) /\ ReadsAlive /\ NothingKept
<1>1. PhaseInv => SortCorrect /\ Distinct(sorted)
  BY DEF PhaseInv, Sorting, Ordered, Complete, LeftCloses, Deps, SortCorrect
<1>2. PhaseInv => ReadsAlive
  BY ReadsWhatIsAlive DEF ReadsAlive
<1>3. PhaseInv => NothingKept
  BY KeepsNothing DEF PhaseInv, Progress, NothingKept
<1> QED
  BY <1>1, <1>2, <1>3

\* Degrees, queue, order and what is cleared fit together in every state.
THEOREM PhaseInvHolds == RunnerSpec => []PhaseInv
<1>1. RunnerInit => PhaseInv
  BY PhaseInit
<1> QED
  BY <1>1, RunnerStep, PTL DEF RunnerSpec

\* Every phase is sorted once, after all it depends on; a sort that gives up has a cycle
\* of the list to report.
THEOREM SortIsCorrect == RunnerSpec => [](SortCorrect /\ Distinct(sorted))
BY PhaseInvSays, PhaseInvHolds, PTL

\* The comment above the fallback of findCyclePath, "unreachable in practice": the first
\* phase that is tried as a start already has a cycle above it, and nothing is popped on
\* the way to it.
FindsCycleAtOnce ==
  [][/\ SearchFrom => at' = "search" /\ search.tried = {}
     /\ SearchOn => at' = "cyclic" \/ Len(search'.stack) >= Len(search.stack)]_phaseVars

THEOREM FallbackIsUnreachable == RunnerSpec => FindsCycleAtOnce
<1>1. PhaseInv /\ [RunnerNext]_phaseVars
      => [/\ SearchFrom => at' = "search" /\ search.tried = {}
          /\ SearchOn => at' = "cyclic" \/ Len(search'.stack) >= Len(search.stack)]_phaseVars
  BY FirstStartServes, SearchOnStep
<1> QED
  BY <1>1, PhaseInvHolds, PTL DEF RunnerSpec, FindsCycleAtOnce

\* No phase is given data that was disposed of, or emptied by another phase, before.
THEOREM ReadsStayAlive == RunnerSpec => []ReadsAlive
BY PhaseInvSays, PhaseInvHolds, PTL

\* After a run, failed or not, no output is kept that nobody will read.
THEOREM NothingIsKept == RunnerSpec => []NothingKept
BY PhaseInvSays, PhaseInvHolds, PTL

-----------------------------------------------------------------------------
(* Types of the runner beside its invariant *)

PhaseTypes ==
  /\ degree = [n \in Name |-> degree[n]] /\ remaining \in [Name -> Nat]
  /\ cycle \in Seq(Name)
  /\ search.stack \in Seq([name : Name, next : Nat])
  /\ search.visited \union search.tried \subseteq Name

LEMMA PhaseTypesInit ==
  ASSUME RunnerInit
  PROVE  PhaseTypes
<1>1. /\ degree = [n \in Name |-> Len(Deps(n))] /\ remaining = [n \in Name |-> 0] /\ cycle = <<>>
      /\ search = [stack |-> <<>>, visited |-> {}, tried |-> {}]
  BY DEF RunnerInit, Name, Deps
<1>2. <<>> \in Seq(Name) /\ <<>> \in Seq([name : Name, next : Nat])
  OBVIOUS
<1> QED
  BY <1>1, <1>2 DEF PhaseTypes

LEMMA PhaseTypesStep ==
  ASSUME PhaseInv, PhaseTypes, [RunnerNext]_phaseVars
  PROVE  PhaseTypes'
<1>1. list' = list /\ Name' = Name
  BY DEF RunnerNext, Drain, SortEnds, SearchFrom, SearchOn, PhaseSucceeds, PhaseFails, RunEnds,
         phaseVars, Name, Names
<1>2. DOMAIN degree = Name /\ Left \subseteq Name
  BY DEF PhaseInv, Sorting, Left
<1>3. CASE Drain
  <2>1. /\ degree' = [n \in Name |-> degree[n] - Times(Head(queue), Called(n).deps)]
        /\ UNCHANGED <<remaining, cycle, search>>
    BY <1>2, <1>3 DEF Drain
  <2>2. degree' = [n \in Name |-> degree'[n]]
    BY <2>1
  <2> QED
    BY <1>1, <2>1, <2>2 DEF PhaseTypes
<1>4. CASE SortEnds
  <2>1. UNCHANGED <<degree, cycle, search, sorted>> /\ PhaseInv'
    BY <1>4, SortEndsStep DEF SortEnds
  <2>2. remaining' \in [Name -> Nat]
    <3>1. CASE remaining' = remaining
      BY <3>1 DEF PhaseTypes
    <3>2. CASE remaining' # remaining
      <4> DEFINE places(n) == UNION {{k} \X Places(n, Called(sorted[k]).deps) : k \in DOMAIN sorted}
      <4>1. remaining' = [n \in Name |-> Cardinality(places(n))]
        BY <1>2, <1>4, <3>2 DEF SortEnds, Dependents
      <4>2. ASSUME NEW n \in Name PROVE Cardinality(places(n)) \in Nat
        <5>1. places(n) = Mentions(n, 0)
          <6>1. \A k \in DOMAIN sorted : k > 0
            BY LenProperties DEF PhaseInv, Sorting
          <6>2. {k \in DOMAIN sorted : k > 0} = DOMAIN sorted
            BY <6>1
          <6> QED
            BY <6>2 DEF Mentions, Deps
        <5>2. IsFiniteSet(Mentions(n, 0))
          BY MentionsFinite DEF PhaseInv, Sorting
        <5> QED
          BY <5>1, <5>2, FS_CardinalityType
      <4> HIDE DEF places
      <4> QED
        BY <4>1, <4>2
    <3> QED
      BY <3>1, <3>2
  <2> QED
    BY <1>1, <2>1, <2>2 DEF PhaseTypes
<1>5. ASSUME PhaseInv', at' = "search"
      PROVE  /\ search'.stack \in Seq([name : Name, next : Nat])
             /\ search'.visited \subseteq Name
  <2>1. /\ search'.stack \in Seq([name : Left', next : Nat \ {0}])
        /\ search'.visited = ToSet(Trail')
    BY <1>5 DEF PhaseInv, Searching
  <2>2. Left' \subseteq Name
    BY <1>1, <1>5 DEF PhaseInv, Sorting, Left
  <2>3. [name : Left', next : Nat \ {0}] \subseteq [name : Name, next : Nat]
    BY <2>2
  <2>4. search'.stack \in Seq([name : Name, next : Nat])
    <3> DEFINE A == [name : Left', next : Nat \ {0}]
               B == [name : Name, next : Nat]
    <3>1. search'.stack \in Seq(A) /\ A \subseteq B
      BY <2>1, <2>3
    <3> HIDE DEF A, B
    <3>2. search'.stack \in Seq(B)
      BY <3>1, SeqMonotonic
    <3> QED
      BY <3>2 DEF B
  <2>5. \A i \in DOMAIN search'.stack : search'.stack[i].name \in Name
    <3> DEFINE B == [name : Name, next : Nat]
    <3>1. \A x \in B : x.name \in Name
      OBVIOUS
    <3>2. search'.stack \in Seq(B)
      BY <2>4
    <3> HIDE DEF B
    <3>3. \A i \in DOMAIN search'.stack : search'.stack[i] \in B
      BY <3>2, LenProperties
    <3> QED
      BY <3>1, <3>3
  <2> QED
    BY <2>1, <2>4, <2>5 DEF Trail, Names, ToSet
<1>6. CASE SearchFrom
  <2>1. at' = "search" /\ PhaseInv' /\ UNCHANGED <<cycle, degree, remaining>>
    BY <1>6, FirstStartServes, SearchFromStep DEF SearchFrom
  <2>2. search'.tried \subseteq Name
    <3>1. PICK n \in Left :
            search' = [stack |-> <<Frame(n)>>, visited |-> {n}, tried |-> search.tried \union {n}]
      BY <1>6, FirstStartServes
    <3> QED
      BY <1>2, <3>1 DEF PhaseTypes
  <2> QED
    BY <1>1, <1>5, <2>1, <2>2 DEF PhaseTypes
<1>7. CASE SearchOn
  <2>1. /\ PhaseInv' /\ UNCHANGED <<degree, remaining>> /\ search'.tried = search.tried
        /\ IF at' = "cyclic" THEN UNCHANGED search /\ cycle' \in Seq(Left)
                             ELSE at' = "search" /\ UNCHANGED cycle
    BY <1>7, SearchOnStep DEF SearchOn
  <2>2. CASE at' = "cyclic"
    <3>1. cycle' \in Seq(Name)
      BY <1>2, <2>1, <2>2, SeqMonotonic
    <3> QED
      BY <1>1, <2>1, <2>2, <3>1 DEF PhaseTypes
  <2>3. CASE at' # "cyclic"
    BY <1>1, <1>5, <2>1, <2>3 DEF PhaseTypes
  <2> QED
    BY <2>2, <2>3
<1>8. CASE PhaseSucceeds
  <2> DEFINE left == [n \in DOMAIN remaining |-> remaining[n] - Times(n, Called(sorted[ran + 1]).deps)]
  <2>1. /\ UNCHANGED <<degree, cycle, search, sorted, at>> /\ at = "run"
        /\ remaining' = left /\ ran' = ran + 1
    BY <1>8 DEF PhaseSucceeds
  <2>2. PhaseInv'
    BY <1>8, PhaseSucceedsStep
  <2>3. ran \in Nat /\ ran + 1 \in Nat
    BY DEF PhaseInv, Progress
  <2>4. \A n, r : Mentions(n, r)' = Mentions(n, r)
    BY <1>8, SameSort DEF PhaseInv, PhaseSucceeds
  <2>5. ASSUME NEW n \in Name PROVE remaining'[n] \in Nat
    <3>1. remaining'[n] = Cardinality(Mentions(n, ran)')
      BY <1>1, <2>1, <2>2 DEF PhaseInv, Disposal
    <3>2. Mentions(n, ran)' = Mentions(n, ran + 1)
      BY <1>8, <2>1, SameSort DEF PhaseInv, PhaseSucceeds, Mentions
    <3>3. IsFiniteSet(Mentions(n, ran + 1))
      BY <2>3, MentionsFinite DEF PhaseInv, Sorting
    <3> QED
      BY <3>1, <3>2, <3>3, FS_CardinalityType
  <2>6. DOMAIN remaining = Name
    BY DEF PhaseTypes
  <2> HIDE DEF left
  <2>7. remaining' = [n \in Name |-> remaining'[n]]
    BY <2>1, <2>6 DEF left
  <2>8. remaining' \in [Name -> Nat]
    BY <2>5, <2>7
  <2> QED
    BY <1>1, <2>1, <2>8 DEF PhaseTypes
<1>9. CASE PhaseFails \/ RunEnds \/ UNCHANGED phaseVars
  <2>1. UNCHANGED <<degree, remaining, cycle, search>>
    BY <1>9 DEF PhaseFails, RunEnds, phaseVars
  <2> QED
    BY <1>1, <2>1 DEF PhaseTypes
<1> QED
  BY <1>3, <1>4, <1>6, <1>7, <1>8, <1>9 DEF RunnerNext

LEMMA PhasesTyped ==
  ASSUME PhaseInv, PhaseTypes
  PROVE  RunnerTypeOK
<1>1. DOMAIN degree = Name
  BY DEF PhaseInv, Sorting
<1>2. \A n \in Name : degree[n] \in Nat
  BY ZeroDegree DEF PhaseInv
<1>3. degree \in [Name -> Nat]
  BY <1>2 DEF PhaseTypes
<1>4. queue \in Seq(Name) /\ sorted \in Seq(Name) /\ Len(sorted) \in Nat
  BY LenProperties DEF PhaseInv, Sorting
<1>5. ran \in 0..Len(sorted) /\ at \in {"sort", "search", "cyclic", "run", "failed", "done"}
  BY <1>4 DEF PhaseInv, Progress
<1>6. ToSet(Names(list)) = Name
  BY DEF Name
<1> QED
  BY <1>1, <1>3, <1>4, <1>5, <1>6 DEF RunnerTypeOK, PhaseTypes

\* Degrees, queue, cycle and counts keep their types, for any number of dependencies.
THEOREM RunnerTypes == RunnerSpec => []RunnerTypeOK
<1>1. RunnerInit => PhaseInv /\ PhaseTypes
  BY PhaseInit, PhaseTypesInit
<1>2. PhaseInv /\ PhaseTypes /\ [RunnerNext]_phaseVars => PhaseInv' /\ PhaseTypes'
  BY RunnerStep, PhaseTypesStep
<1>3. PhaseInv /\ PhaseTypes => RunnerTypeOK
  BY PhasesTyped
<1> QED
  BY <1>1, <1>2, <1>3, PTL DEF RunnerSpec

-----------------------------------------------------------------------------
(* All services side by side *)

ServicesInv == ServerInv /\ PhaseInv /\ PhaseTypes /\ MroInv /\ EdgesInv

LEMMA NothingToRun ==
  ASSUME NoPhases
  PROVE  PhaseInv /\ PhaseTypes
<1>1. /\ list = <<>> /\ degree = <<>> /\ queue = <<>> /\ sorted = <<>> /\ at = "done"
      /\ ran = 0 /\ remaining = <<>> /\ cleared = {} /\ cycle = <<>>
      /\ search = [stack |-> <<>>, visited |-> {}, tried |-> {}]
  BY DEF NoPhases
<1>2. DOMAIN list = {} /\ Len(list) = 0 /\ DOMAIN sorted = {} /\ Len(sorted) = 0 /\ DOMAIN queue = {}
  BY <1>1
<1>3. DOMAIN Names(list) = {} /\ Name = {} /\ ToSet(list) = {} /\ ToSet(sorted) = {}
  BY <1>2 DEF Names, Name, ToSet
<1>4. WellFormed(list)
  BY <1>2, <1>3 DEF WellFormed, UniqueNames
<1>5. queue \in Seq(Name) /\ sorted \in Seq(Name) /\ Distinct(queue) /\ Distinct(sorted)
  BY <1>1, <1>2 DEF Distinct
<1>6. Sorting
  BY <1>1, <1>3, <1>4, <1>5 DEF Sorting
<1>7. Ordered /\ Complete /\ Progress /\ Searching /\ LeftCloses
  BY <1>1, <1>2, <1>3 DEF Ordered, Complete, Progress, Searching, LeftCloses, Name
<1>8. Disposal
  BY <1>1, <1>2, <1>3 DEF Disposal
<1>9. degree = [n \in Name |-> degree[n]] /\ remaining \in [Name -> Nat]
  BY <1>1, <1>3
<1>10. PhaseTypes
  <2>1. <<>> \in Seq(Name) /\ <<>> \in Seq([name : Name, next : Nat])
    OBVIOUS
  <2> QED
    BY <1>1, <1>9, <2>1 DEF PhaseTypes
<1> QED
  BY <1>6, <1>7, <1>8, <1>10 DEF PhaseInv

LEMMA NothingInherited ==
  ASSUME NoClasses
  PROVE  MroInv /\ EdgesInv
<1>1. parents = [c \in Class |-> <<>>] /\ <<>> \in Orders
  BY DEF NoClasses, Orders
<1>2. IsInjective(<<>>) /\ ToSet(<<>>) = {}
  BY DEF IsInjective, ToSet
<1>3. parents \in Hierarchy
  BY <1>1, <1>2 DEF Hierarchy
<1>4. MroInv
  BY <1>3, IdleMroInv DEF NoClasses
<1>5. EdgesInv
  BY IdleEdgesInv DEF NoClasses
<1> QED
  BY <1>4, <1>5

LEMMA ServicesStart ==
  ASSUME IsFiniteSet(Request), ServicesInit
  PROVE  ServicesInv
<1>1. AllIdle
  BY DEF ServicesInit, ServerInit
<1>2. ServerInv
  BY <1>1, ServerStarts
<1>3. PhaseInv /\ PhaseTypes
  BY NothingToRun, PhaseInit, PhaseTypesInit DEF ServicesInit
<1>4. MroInv /\ EdgesInv
  <2>1. CASE NoClasses
    BY <2>1, NothingInherited
  <2>2. CASE MroInit
    BY <2>2, InitMroInv, IdleEdgesInv DEF MroInit
  <2> QED
    BY <2>1, <2>2 DEF ServicesInit
<1> QED
  BY <1>2, <1>3, <1>4 DEF ServicesInv

LEMMA ServicesMove ==
  ASSUME IsFiniteSet(Request), ServicesInv, [ServicesNext]_servicesVars
  PROVE  ServicesInv'
<1>1. [ServerNext]_serverVars /\ [RunnerNext]_phaseVars /\ [MroNext]_mroVars
  BY DEF ServicesNext, PhaseStep, MethodStep, servicesVars
<1>2. ServerInv'
  BY <1>1, ServerMoves DEF ServicesInv
<1>3. PhaseInv' /\ PhaseTypes'
  BY <1>1, RunnerStep, PhaseTypesStep DEF ServicesInv
<1>4. MroInv' /\ EdgesInv'
  BY <1>1, NextMroInv, NextEdgesInv DEF ServicesInv
<1> QED
  BY <1>2, <1>3, <1>4 DEF ServicesInv

\* The services, the runner and the two passes keep their invariants side by side.
THEOREM ServicesInvHolds ==
  ASSUME IsFiniteSet(Request)
  PROVE  ServicesSpec => []ServicesInv
<1>1. ServicesInit => ServicesInv
  BY ServicesStart
<1>2. ServicesInv /\ [ServicesNext]_servicesVars => ServicesInv'
  BY ServicesMove
<1> QED
  BY <1>1, <1>2, PTL DEF ServicesSpec

\* The variables of every service keep their types, for every value of the constants.
THEOREM ServicesTypes ==
  ASSUME IsFiniteSet(Request)
  PROVE  ServicesSpec => []ServicesTypeOK
<1>1. ServicesInv => ServerTypeOK
  BY ServerInvSays DEF ServicesInv
<1>2. ServicesInv => RunnerTypeOK
  BY PhasesTyped DEF ServicesInv
<1>3. ServicesInv => MroTypeOK
  BY DEF ServicesInv, MroInv
<1> QED
  BY <1>1, <1>2, <1>3, ServicesInvHolds, PTL DEF ServicesTypeOK

\* Whichever service a behaviour follows: every invariant that its theorem states of it
\* alone.
THEOREM ServicesAreCorrect ==
  ASSUME IsFiniteSet(Request)
  PROVE  ServicesSpec =>
           [](/\ RegistryExclusion /\ EventsKept /\ ProjectionCurrent /\ SwitchExcluded
              /\ SessionsBounded /\ LedgerCurrent /\ EmbedsUnderLock
              /\ SortCorrect /\ ReadsAlive /\ NothingKept /\ C3Correct /\ EdgesAgreeWithCalls)
<1>1. LockInv => RegistryExclusion
  BY LockExcludes
<1>2. ServerInv => /\ EventsKept /\ ProjectionCurrent /\ SwitchExcluded
                   /\ SessionsBounded /\ LedgerCurrent /\ EmbedsUnderLock
  BY ServerInvSays
<1>3. PhaseInv => SortCorrect /\ ReadsAlive /\ NothingKept
  BY PhaseInvSays
<1>4. MroInv /\ EdgesInv => C3Correct /\ EdgesAgreeWithCalls
  BY InvImpliesC3, InvImpliesEdges
<1> QED
  BY <1>1, <1>2, <1>3, <1>4, ServicesInvHolds, PTL DEF ServicesInv, ServerInv

\* Registering and unregistering change the writer's own entry only, beside the other
\* services too.
THEOREM ServicesKeepEntries ==
  ASSUME IsFiniteSet(Request)
  PROVE  ServicesSpec => EntriesKept
<1>1. LockInv /\ [ServicesNext]_servicesVars
      => [~lost' /\ entries' # entries =>
            \E p \in Proc :
              At(p, "read") /\ entries' \in {entries \union {p}, entries \ {p}}]_registryVars
  <2>1. [ServicesNext]_servicesVars => [Next]_registryVars
    BY DEF ServicesNext, PhaseStep, MethodStep, servicesVars, ServerNext, serverVars, RegistryStep,
           AuditStep, LbugStep, McpStep, LedgerStep, EmbedStep
  <2> QED
    BY <2>1, WriteKeepsEntries
<1>2. ServicesInv => LockInv
  BY DEF ServicesInv, ServerInv
<1> QED
  BY <1>1, <1>2, ServicesInvHolds, PTL DEF ServicesSpec, EntriesKept
=============================================================================
