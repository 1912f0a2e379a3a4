------------------------------ MODULE LbugSession ------------------------------
(***************************************************************************)
(* The one writable database of a server process (core/lbug/lbug-adapter.ts): *)
(* module globals db, conn and currentDbPath, switched between repositories  *)
(* under a lock that is a chain of promises.  Calls of withLbugDb run an     *)
(* operation and retry when the database is busy; closeLbugForPath closes a  *)
(* database that is to be deleted; closeLbug, at shutdown, takes no lock.    *)
(***************************************************************************)
EXTENDS Naturals, Sequences

CONSTANTS
  Caller,    \* calls of withLbugDb and closeLbugForPath
  Path,      \* database paths
  Attempts,  \* DB_LOCK_RETRY_ATTEMPTS
  NoPath     \* currentDbPath = null

VARIABLES
  chain,       \* the calls in the promise chain; the first one has the lock
  caller,      \* what a call wants, where it is, its attempt
  opened,      \* currentDbPath, and whether its handles are useless: the file
               \* was locked when they were made, and only the queries notice
  quarantine,  \* paths whose timed out handles are being closed in the background
  down         \* shutdown has called closeLbug

lbugVars == <<chain, caller, opened, quarantine, down>>

Closed == [path |-> NoPath, stale |-> FALSE]

Init ==
  /\ chain = <<>> /\ opened = Closed /\ quarantine = {} /\ down = FALSE
  /\ caller = [c \in Caller |->
                 [pc |-> "idle", wants |-> "operation", path |-> NoPath, attempt |-> 1]]

HasLock(c) == chain # <<>> /\ Head(chain) = c
At(c, pc) == caller[c].pc = pc
Goto(c, pc) == caller' = [caller EXCEPT ![c].pc = pc]

\* runWithSessionLock: a call waits for the promise that was last when it came,
\* and lets the next one go when its operation has settled.
Enqueued(c, pc) == chain' = Append(chain, c) /\ Goto(c, pc)
Leaves(c, pc) == chain' = Tail(chain) /\ Goto(c, pc)

Call(c) ==
  /\ At(c, "idle")
  /\ \E path \in Path, wants \in {"operation", "close"} :
       caller' = [caller EXCEPT ![c] =
                    [pc |-> "queued", wants |-> wants, path |-> path, attempt |-> 1]]
  /\ chain' = Append(chain, c)
  /\ UNCHANGED <<opened, quarantine, down>>

\* ensureLbugInitialized, and doInitLbug's closing of the database before.
Enter(c) ==
  /\ HasLock(c) /\ At(c, "queued") /\ caller[c].wants = "operation"
  /\ IF opened.path = caller[c].path
       THEN Goto(c, "operate") /\ UNCHANGED opened
       ELSE Goto(c, "open") /\ opened' = Closed
  /\ UNCHANGED <<chain, quarantine, down>>

\* doInitLbug opens its own path.  Schema queries that fail because the file is
\* locked are only logged: the useless handles stay.
Open(c) ==
  /\ HasLock(c) /\ At(c, "open")
  /\ \E stale \in BOOLEAN :
       /\ caller[c].path \in quarantine => stale
       /\ opened' = [path |-> caller[c].path, stale |-> stale]
  /\ Goto(c, "operate")
  /\ UNCHANGED <<chain, quarantine, down>>

\* Any error but a busy one, or a busy one of the last attempt.
OpenFails(c) ==
  /\ HasLock(c) /\ At(c, "open")
  /\ Leaves(c, "failed")
  /\ UNCHANGED <<opened, quarantine, down>>

Succeed(c) ==
  /\ HasLock(c) /\ At(c, "operate") /\ ~opened.stale
  /\ Leaves(c, "done")
  /\ UNCHANGED <<opened, quarantine, down>>

Fail(c) ==
  /\ HasLock(c) /\ At(c, "operate")
  /\ Leaves(c, "failed")
  /\ UNCHANGED <<opened, quarantine, down>>

\* withLbugNativeTimeout, while opening or operating: retireTimedOutLbugSession
\* forgets the handles at once and closes them in the background.
TimeOut(c) ==
  /\ HasLock(c) /\ caller[c].pc \in {"open", "operate"}
  /\ opened' = Closed
  /\ quarantine' = quarantine \union {caller[c].path}
  /\ Leaves(c, "failed")
  /\ UNCHANGED down

QuarantineClosed ==
  /\ \E path \in quarantine : quarantine' = quarantine \ {path}
  /\ UNCHANGED <<chain, caller, opened, down>>

\* Mutant: the last attempt is repeated too.
Busy_Forever(c) ==
  /\ HasLock(c) /\ caller[c].pc \in {"open", "operate"}
  /\ Leaves(c, "busy")
  /\ UNCHANGED <<opened, quarantine, down>>

\* A busy error, while opening or operating, gives the lock up, and the catch block
\* takes it again to close the handles; the pause comes after, without the lock.
Busy(c) ==
  /\ HasLock(c) /\ caller[c].pc \in {"open", "operate"} /\ caller[c].attempt < Attempts
  /\ Leaves(c, "busy")
  /\ UNCHANGED <<opened, quarantine, down>>

\* Mutant: the handles are closed without the lock.
QueueCleanup_ClosesAtOnce(c) ==
  /\ At(c, "busy")
  /\ opened' = Closed
  /\ Goto(c, "pause")
  /\ UNCHANGED <<chain, quarantine, down>>

QueueCleanup(c) ==
  /\ At(c, "busy")
  /\ Enqueued(c, "cleanup")
  /\ UNCHANGED <<opened, quarantine, down>>

Cleanup(c) ==
  /\ HasLock(c) /\ At(c, "cleanup")
  /\ opened' = Closed
  /\ Leaves(c, "pause")
  /\ UNCHANGED <<quarantine, down>>

Again(c) ==
  /\ At(c, "pause")
  /\ caller' = [caller EXCEPT ![c].pc = "queued", ![c].attempt = @ + 1]
  /\ chain' = Append(chain, c)
  /\ UNCHANGED <<opened, quarantine, down>>

CloseForPath(c) ==
  /\ HasLock(c) /\ At(c, "queued") /\ caller[c].wants = "close"
  /\ opened' = IF opened.path = caller[c].path THEN Closed ELSE opened
  /\ Leaves(c, "done")
  /\ UNCHANGED <<quarantine, down>>

\* closeLbug
Shutdown ==
  /\ ~down /\ down' = TRUE
  /\ opened' = Closed
  /\ UNCHANGED <<chain, caller, quarantine>>

Step(c) ==
  \/ Call(c) \/ Enter(c) \/ Open(c) \/ OpenFails(c)
  \/ Succeed(c) \/ Fail(c) \/ TimeOut(c)
  \/ Busy(c) \/ QueueCleanup(c) \/ Cleanup(c) \/ Again(c) \/ CloseForPath(c)

Next == (\E c \in Caller : Step(c)) \/ QuarantineClosed \/ Shutdown

Spec == Init /\ [][Next]_lbugVars

-----------------------------------------------------------------------------
(* Properties *)

\* Types of the chain, the calls and the handles.
TypeOK ==
  /\ chain \in Seq(Caller)
  /\ caller \in [Caller -> [pc : {"idle", "queued", "open", "operate", "busy", "cleanup",
                                  "pause", "done", "failed"},
                            wants : {"operation", "close"},
                            path : Path \union {NoPath}, attempt : 1..Attempts]]
  /\ opened \in [path : Path \union {NoPath}, stale : BOOLEAN]
  /\ quarantine \subseteq Path /\ down \in BOOLEAN

\* While an operation runs, the open database is the one it was given, whatever
\* the other calls retry, clean up, close or switch to meanwhile: "no DB switch
\* can happen while an operation is running" (lbug-adapter.ts).  Only closeLbug,
\* at shutdown, may take it away.
SwitchExcluded ==
  ~down => \A c \in Caller : At(c, "operate") => opened.path = caller[c].path
=============================================================================
