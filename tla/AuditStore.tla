------------------------------- MODULE AuditStore -------------------------------
(***************************************************************************)
(* LocalAuditEventStore (core/audit-lifecycle/audit-event-store.ts): events  *)
(* are appended to a JSON file under a lock file, and a projection is built  *)
(* from it.  A lock file older than staleLockMs is removed, whether its      *)
(* owner is dead or only slow.                                               *)
(***************************************************************************)
EXTENDS Naturals

CONSTANTS
  Appender,   \* calls of appendEvent, each with an event and an owner id of its own
  MaxFaults,  \* bound: calls that throw, die or hold the lock too long
  NoOne       \* no lock file

VARIABLES
  auditLock,   \* the owner in the lock file, and whether its mtime is too old
  appender,    \* where a call is, and the events it loaded
  events,      \* the event store
  projection,  \* the events the projection was built from
  faults       \* calls that died, were too slow, or threw after saving

auditVars == <<auditLock, appender, events, projection, faults>>

NoLock == [owner |-> NoOne, old |-> FALSE]
Inside == {"load", "save", "reload", "project", "release", "throw"}

Init ==
  /\ auditLock = NoLock
  /\ appender = [a \in Appender |-> [pc |-> "acquire", copy |-> {}]]
  /\ events = {} /\ projection = {}
  /\ faults = 0

At(a, pc) == appender[a].pc = pc
Goto(a, pc) == appender' = [appender EXCEPT ![a].pc = pc]

\* acquireAuditStoreUpdateLock: the file is created exclusively, or looked at.
Acquire(a) ==
  /\ At(a, "acquire")
  /\ IF auditLock.owner = NoOne
       THEN auditLock' = [owner |-> a, old |-> FALSE] /\ Goto(a, "load")
       ELSE Goto(a, "stat") /\ UNCHANGED auditLock
  /\ UNCHANGED <<events, projection, faults>>

\* Mutant: a lock file is removed whatever its age.
Stat_AnyAge(a) ==
  /\ At(a, "stat")
  /\ Goto(a, "rm")
  /\ UNCHANGED <<auditLock, events, projection, faults>>

\* removeStaleAuditStoreUpdateLock: stat, and then rm by path.
Stat(a) ==
  /\ At(a, "stat")
  /\ Goto(a, IF auditLock.old THEN "rm" ELSE "acquire")
  /\ UNCHANGED <<auditLock, events, projection, faults>>

Remove(a) ==
  /\ At(a, "rm")
  /\ auditLock' = NoLock
  /\ Goto(a, "acquire")
  /\ UNCHANGED <<events, projection, faults>>

\* maxAttempts
GiveUp(a) ==
  /\ At(a, "acquire")
  /\ Goto(a, "failed")
  /\ UNCHANGED <<auditLock, events, projection, faults>>

\* appendEvent: load, save (a rename), rebuildAuditProjectionFile, release.
Load(a) ==
  /\ At(a, "load")
  /\ appender' = [appender EXCEPT ![a] = [pc |-> "save", copy |-> events]]
  /\ UNCHANGED <<auditLock, events, projection, faults>>

\* Mutant: the projection is built from the events that were loaded first.
Save_ProjectsOldCopy(a) ==
  /\ At(a, "save")
  /\ events' = appender[a].copy \union {a}
  /\ Goto(a, "project")
  /\ UNCHANGED <<auditLock, projection, faults>>

Save(a) ==
  /\ At(a, "save")
  /\ events' = appender[a].copy \union {a}
  /\ Goto(a, "reload")
  /\ UNCHANGED <<auditLock, projection, faults>>

Reload(a) ==
  /\ At(a, "reload")
  /\ appender' = [appender EXCEPT ![a] = [pc |-> "project", copy |-> events]]
  /\ UNCHANGED <<auditLock, events, projection, faults>>

Project(a) ==
  /\ At(a, "project")
  /\ projection' = appender[a].copy
  /\ Goto(a, "release")
  /\ UNCHANGED <<auditLock, events, faults>>

Release(a) ==
  /\ appender[a].pc \in {"release", "throw"}
  /\ auditLock' = IF auditLock.owner = a THEN NoLock ELSE auditLock
  /\ Goto(a, IF At(a, "release") THEN "done" ELSE "failed")
  /\ UNCHANGED <<events, projection, faults>>

\* A file cannot be read or written: harmless before the events are saved.
Throw(a) ==
  /\ \/ appender[a].pc \in {"load", "save"} /\ UNCHANGED faults
     \/ /\ appender[a].pc \in {"reload", "project"} /\ faults < MaxFaults
        /\ faults' = faults + 1
  /\ Goto(a, "throw")
  /\ UNCHANGED <<auditLock, events, projection>>

\* The process of a call dies, or the call takes more than 30 seconds.
Crash(a) ==
  /\ faults < MaxFaults /\ appender[a].pc \in Inside
  /\ Goto(a, "dead")
  /\ faults' = faults + 1
  /\ UNCHANGED <<auditLock, events, projection>>

Slow(a) ==
  /\ faults < MaxFaults /\ appender[a].pc \in Inside
  /\ auditLock.owner = a /\ ~auditLock.old
  /\ auditLock' = [auditLock EXCEPT !.old = TRUE]
  /\ faults' = faults + 1
  /\ UNCHANGED <<appender, events, projection>>

\* The lock of a dead process grows old.
Ages ==
  /\ \E a \in Appender : auditLock.owner = a /\ At(a, "dead")
  /\ ~auditLock.old
  /\ auditLock' = [auditLock EXCEPT !.old = TRUE]
  /\ UNCHANGED <<appender, events, projection, faults>>

Step(a) ==
  \/ Acquire(a) \/ Stat(a) \/ Remove(a) \/ GiveUp(a)
  \/ Load(a) \/ Save(a) \/ Reload(a) \/ Project(a) \/ Release(a)
  \/ Throw(a) \/ Crash(a) \/ Slow(a)

Next == (\E a \in Appender : Step(a)) \/ Ages

Spec == Init /\ [][Next]_auditVars

-----------------------------------------------------------------------------
(* Properties *)

\* Types of the lock file, the calls and the two files.
TypeOK ==
  /\ auditLock \in [owner : Appender \union {NoOne}, old : BOOLEAN]
  /\ appender \in [Appender -> [pc : Inside \union {"acquire", "stat", "rm", "done",
                                                    "failed", "dead"},
                                copy : SUBSET Appender]]
  /\ events \subseteq Appender /\ projection \subseteq Appender
  /\ faults \in Nat

\* As long as no call died, was too slow or threw after saving, every event that was
\* acknowledged stays in the store, however the calls overlap.
EventsKept ==
  faults = 0 => \A a \in Appender : At(a, "done") => a \in events

\* Whenever nobody updates the store, the projection shows all of its events,
\* under the same condition.
ProjectionCurrent ==
  faults = 0 /\ auditLock.owner = NoOne => projection = events
=============================================================================
