------------------------------- MODULE AnalyzeJobs -------------------------------
(***************************************************************************)
(* Analysis jobs of the HTTP server: the JobManager of                      *)
(* server/analyze-job.ts, the POST handler of server/api-analyze-routes.ts  *)
(* that clones a repository, locks it and forks a worker, the worker        *)
(* process of server/analyze-worker.ts, and the repo locks of server/api.ts *)
(* that the analysis shares with readers and with other writers (embedding, *)
(* deletion of a repo).                                                     *)
(*                                                                          *)
(* The server is one JavaScript thread: each of its actions is one event    *)
(* handler.  The worker is a process of its own.  What it sends arrives in  *)
(* order, but Node may report its exit before its last messages: an exit    *)
(* and the messages are separate events (the handler of `error' messages    *)
(* asks for this case itself, by looking at workerProcessActive).           *)
(*                                                                          *)
(* Left out: percentages and wording, SSE streams, the job ledger on disk   *)
(* and server restarts, and the embed routes, which appear as another       *)
(* writer.  Durations are left out: a timer that is set may fire at any     *)
(* moment, except that the messages of a dead worker are read before the    *)
(* retry timer (at least one second) fires.                                 *)
(***************************************************************************)
EXTENDS Naturals, SequencesExt, FiniteSets

CONSTANTS
  Job,         \* identities of job records
  Repo,        \* storage paths, the keys of the repo locks
  None,        \* "no writer"
  Other,       \* a writer that is not an analysis
  MaxRetries,  \* MAX_WORKER_RETRIES
  MaxReaders,  \* bound: concurrent readers of one repo
  MaxIpc       \* bound: progress is sent only while fewer messages are unread

ASSUME JobsAssumption ==
  /\ None # Other /\ {None, Other} \intersect Job = {}
  /\ {MaxRetries, MaxReaders, MaxIpc} \subseteq Nat

VARIABLES
  job,    \* job[j]: the record the JobManager keeps
  task,   \* task[j]: what the closure of the POST handler keeps
  child,  \* child[j]: the worker process of j, its unread messages and its timers
  lock    \* lock[r]: the entry of activeRepoPaths

vars == <<job, task, child, lock>>

\* `source' says which request created the job.
JobState == [status : {"none", "cloning", "analyzing", "complete", "failed"},
             source : {"url", "path"}, repo : Repo \union {None},
             retries : 0..MaxRetries]
TaskState == [cloning   : BOOLEAN,                       \* cloneOrPull is pending
              released  : BOOLEAN,                       \* lockReleased
              active    : BOOLEAN,                       \* workerProcessActive
              completed : BOOLEAN,                       \* workerCompleted
              timer     : BOOLEAN,                       \* retryTimer is set
              reload    : BOOLEAN,                       \* backend.init() is pending
              handler   : {"none", "clone", "worker"}]   \* registered cancel handler
Message == {"progress", "complete", "error"}
ChildState == [proc    : {"none", "starting", "working", "finished", "dead"},
               ipc     : Seq(Message),  \* sent and not yet handled
               sigterm : BOOLEAN,       \* SIGTERM sent and not yet handled
               doomed  : BOOLEAN,       \* process.exit is scheduled
               timeout : BOOLEAN,       \* the 30 minute timer is set
               kill    : {"unset", "set", "fired"}]      \* killTimers entry
LockState == [writer : Job \union {None, Other}, readers : 0..MaxReaders]

NoJob == [status |-> "none", source |-> "path", repo |-> None, retries |-> 0]
NoTask == [cloning |-> FALSE, released |-> FALSE, active |-> FALSE, completed |-> FALSE,
           timer |-> FALSE, reload |-> FALSE, handler |-> "none"]
NoChild == [proc |-> "none", ipc |-> <<>>, sigterm |-> FALSE, doomed |-> FALSE,
            timeout |-> FALSE, kill |-> "unset"]
NewChild == [NoChild EXCEPT !.proc = "starting", !.timeout = TRUE]

Init ==
  /\ job = [j \in Job |-> NoJob]
  /\ task = [j \in Job |-> NoTask]
  /\ child = [j \in Job |-> NoChild]
  /\ lock = [r \in Repo |-> [writer |-> None, readers |-> 0]]

-----------------------------------------------------------------------------
(* The repo locks *)

Unlocked(r) == lock[r].writer = None /\ lock[r].readers = 0

\* releaseRepoLock looks at the token, here the job.
Freed(j) ==
  [r \in Repo |-> IF lock[r].writer = j THEN [lock[r] EXCEPT !.writer = None] ELSE lock[r]]

ReadBegins(r) ==
  /\ lock[r].writer = None /\ lock[r].readers < MaxReaders
  /\ lock' = [lock EXCEPT ![r].readers = @ + 1]
  /\ UNCHANGED <<job, task, child>>

ReadEnds(r) ==
  /\ lock[r].readers > 0
  /\ lock' = [lock EXCEPT ![r].readers = @ - 1]
  /\ UNCHANGED <<job, task, child>>

OtherWriterBegins(r) ==
  /\ Unlocked(r)
  /\ lock' = [lock EXCEPT ![r].writer = Other]
  /\ UNCHANGED <<job, task, child>>

OtherWriterEnds(r) ==
  /\ lock[r].writer = Other
  /\ lock' = [lock EXCEPT ![r].writer = None]
  /\ UNCHANGED <<job, task, child>>

-----------------------------------------------------------------------------
(* Jobs *)

Terminal(j) == job[j].status \in {"complete", "failed"}
Active(j) == job[j].status \in {"cloning", "analyzing"}

\* createJob's dedup: a job made from a URL gets its path when the lock is
\* acquired, with its status `analyzing'.
SameRequest(j, source, r) ==
  /\ job[j].repo = r
  /\ job[j].source = source \/ (source = "path" /\ job[j].status = "analyzing")

NewJob(j, source, r) ==
  /\ job[j].status = "none"
  /\ ~\E i \in Job : Active(i) /\ SameRequest(i, source, r)

\* updateJob to a terminal status drops the cancel handler.
Failed(rec) == [rec EXCEPT !.status = "failed"]

\* What releaseAnalyzeLock leaves of the closure.
Released_KeepsTimer(t) ==
  IF t.released THEN t ELSE [t EXCEPT !.released = TRUE, !.handler = "none"]

Released(t) ==
  IF t.released THEN t
  ELSE [t EXCEPT !.released = TRUE, !.timer = FALSE, !.handler = "none"]

\* The lock after releaseAnalyzeLock.
LockReleased(j) == IF task[j].released THEN lock ELSE Freed(j)

\* acquireRepoLock and the first forkWorker, or the refusal of the lock.
LockAndFork(j, rec) ==
  IF Unlocked(rec.repo)
  THEN /\ lock' = [lock EXCEPT ![rec.repo].writer = j]
       /\ job' = [job EXCEPT ![j] = [rec EXCEPT !.status = "analyzing"]]
       /\ task' = [task EXCEPT ![j] = [NoTask EXCEPT !.active = TRUE, !.handler = "worker"]]
       /\ child' = [child EXCEPT ![j] = NewChild]
  ELSE /\ job' = [job EXCEPT ![j] = Failed(rec)]
       /\ task' = [task EXCEPT ![j] = NoTask]
       /\ UNCHANGED <<child, lock>>

PostPath(j, r) ==
  /\ NewJob(j, "path", r)
  /\ LockAndFork(j, [NoJob EXCEPT !.repo = r])

PostUrl(j, r) ==
  /\ NewJob(j, "url", r)
  /\ job' = [job EXCEPT ![j] = [NoJob EXCEPT !.repo = r, !.source = "url", !.status = "cloning"]]
  /\ task' = [task EXCEPT ![j] = [NoTask EXCEPT !.cloning = TRUE, !.handler = "clone"]]
  /\ UNCHANGED <<child, lock>>

\* A cancelled clone has lost its handler and never succeeds: runGit rejects
\* when its signal is aborted, whatever git returned.
CloneSucceeds(j) ==
  /\ task[j].cloning /\ task[j].handler = "clone"
  /\ LockAndFork(j, job[j])

CloneFails(j) ==
  /\ task[j].cloning
  /\ job' = [job EXCEPT ![j] = Failed(@)]
  /\ task' = [task EXCEPT ![j] = NoTask]
  /\ UNCHANGED <<child, lock>>

\* forkWorker, called by the retry timer
RetryFires(j) ==
  /\ task[j].timer /\ child[j].proc = "none" /\ child[j].ipc = <<>>
  /\ IF Terminal(j)
     THEN /\ task' = [task EXCEPT ![j] = Released(@)]
          /\ lock' = LockReleased(j)
          /\ UNCHANGED child
     ELSE /\ task' = [task EXCEPT ![j].timer = FALSE, ![j].active = TRUE]
          /\ child' = [child EXCEPT ![j] = NewChild]
          /\ UNCHANGED lock
  /\ UNCHANGED job

\* cancelJob: the cancel handler, SIGTERM with its kill timer, and the status.
Cancelled(j, c) ==
  LET byWorker == task[j].handler = "worker"
      t == CASE byWorker /\ task[j].active -> [task[j] EXCEPT !.timer = FALSE]
             [] byWorker /\ ~task[j].active -> Released(task[j])
             [] OTHER -> task[j]
  IN  /\ job' = [job EXCEPT ![j] = Failed(@)]
      /\ task' = [task EXCEPT ![j] = [t EXCEPT !.handler = "none"]]
      /\ lock' = IF byWorker /\ ~task[j].active THEN LockReleased(j) ELSE lock
      /\ child' = [child EXCEPT ![j] =
           IF c.proc = "none" THEN c
           ELSE [c EXCEPT !.sigterm = c.proc # "dead",
                          !.kill = IF @ = "unset" THEN "set" ELSE @]]

Cancel(j) == Active(j) /\ Cancelled(j, child[j])

JobTimeout_Never(j) == FALSE /\ UNCHANGED vars

JobTimeout(j) ==
  /\ child[j].timeout
  /\ IF Active(j)
     THEN Cancelled(j, [child[j] EXCEPT !.timeout = FALSE])
     ELSE child' = [child EXCEPT ![j].timeout = FALSE] /\ UNCHANGED <<job, task, lock>>

\* cleanup() deletes a terminal job an hour later, when its worker is long
\* gone; the identity may serve a new job.
Quiet(j) ==
  /\ child[j] = NoChild
  /\ ~task[j].timer /\ ~task[j].reload /\ ~task[j].cloning

Cleanup(j) ==
  /\ Terminal(j) /\ Quiet(j)
  /\ job' = [job EXCEPT ![j] = NoJob]
  /\ task' = [task EXCEPT ![j] = NoTask]
  /\ UNCHANGED <<child, lock>>

-----------------------------------------------------------------------------
(* The worker process *)

Alive(j) == child[j].proc \in {"starting", "working", "finished"}
Unread(j, m) == Append(child[j].ipc, m)

WorkerStarts(j) ==
  /\ child[j].proc = "starting"
  /\ child' = [child EXCEPT ![j].proc = "working"]
  /\ UNCHANGED <<job, task, lock>>

WorkerProgress(j) ==
  /\ child[j].proc = "working" /\ Len(child[j].ipc) < MaxIpc
  /\ child' = [child EXCEPT ![j].ipc = Unread(j, "progress")]
  /\ UNCHANGED <<job, task, lock>>

\* runFullAnalysis returns or throws; the process exits half a second later.
WorkerFinishes(j) ==
  /\ child[j].proc = "working"
  /\ \E m \in {"complete", "error"} :
       child' = [child EXCEPT ![j].proc = "finished", ![j].ipc = Unread(j, m)]
  /\ UNCHANGED <<job, task, lock>>

\* uncaughtException, unhandledRejection: the analysis may go on until the exit.
WorkerUncaught(j) ==
  /\ child[j].proc \in {"working", "finished"} /\ ~child[j].doomed
  /\ child' = [child EXCEPT ![j].doomed = TRUE, ![j].ipc = Unread(j, "error")]
  /\ UNCHANGED <<job, task, lock>>

\* The SIGTERM handler reports at once and exits after closeLbug; a process
\* that has not installed it yet is killed.
WorkerSigterm(j) ==
  /\ child[j].sigterm /\ Alive(j)
  /\ child' = [child EXCEPT ![j] =
       IF @.proc = "starting" THEN [@ EXCEPT !.proc = "dead", !.sigterm = FALSE]
       ELSE [@ EXCEPT !.sigterm = FALSE, !.doomed = TRUE, !.ipc = Unread(j, "error")]]
  /\ UNCHANGED <<job, task, lock>>

WorkerExits(j) ==
  /\ child[j].proc = "finished" \/ (Alive(j) /\ child[j].doomed)
  /\ child' = [child EXCEPT ![j].proc = "dead", ![j].sigterm = FALSE]
  /\ UNCHANGED <<job, task, lock>>

\* A process that dies abruptly may take the messages sent last with it.
Died(c) ==
  {[c EXCEPT !.proc = "dead", !.sigterm = FALSE, !.ipc = SubSeq(c.ipc, 1, n)] :
     n \in 0..Len(c.ipc)}

WorkerCrashes(j) ==
  /\ Alive(j)
  /\ \E c \in Died(child[j]) : child' = [child EXCEPT ![j] = c]
  /\ UNCHANGED <<job, task, lock>>

\* The kill timer of cancelJob: SIGKILL if the job is (still) terminal.
KillTimerFires(j) ==
  /\ child[j].kill = "set"
  /\ LET c == [child[j] EXCEPT !.kill = "fired"]
     IN  IF Terminal(j) /\ Alive(j)
         THEN \E d \in Died(c) : child' = [child EXCEPT ![j] = d]
         ELSE child' = [child EXCEPT ![j] = c]
  /\ UNCHANGED <<job, task, lock>>

-----------------------------------------------------------------------------
(* What the server does with the events of the worker *)

Receives(j, m) ==
  /\ child[j].ipc # <<>> /\ Head(child[j].ipc) = m
  /\ child' = [child EXCEPT ![j].ipc = Tail(@)]

OnProgress(j) ==
  /\ Receives(j, "progress")
  /\ job' = [job EXCEPT ![j].status = "analyzing"]
  /\ UNCHANGED <<task, lock>>

OnComplete(j) ==
  /\ Receives(j, "complete")
  /\ task' = [task EXCEPT ![j] = [Released(@) EXCEPT !.completed = TRUE, !.reload = TRUE]]
  /\ lock' = LockReleased(j)
  /\ UNCHANGED job

\* The lock is kept while the process is alive.
OnError_Unlocks(j) ==
  /\ Receives(j, "error")
  /\ job' = [job EXCEPT ![j] = Failed(@)]
  /\ task' = [task EXCEPT ![j] = [Released(@) EXCEPT !.handler = "none"]]
  /\ lock' = LockReleased(j)

OnError(j) ==
  /\ Receives(j, "error")
  /\ job' = [job EXCEPT ![j] = Failed(@)]
  /\ LET t == IF task[j].active THEN task[j] ELSE Released(task[j])
     IN  task' = [task EXCEPT ![j] = [t EXCEPT !.handler = "none"]]
  /\ lock' = IF task[j].active THEN lock ELSE LockReleased(j)

\* The `error' event of the child: it could not be spawned, or it died at once,
\* its start message could not be sent, and its exit is still to be reported.
\* (That kill() fails for a child that is alive is left out.)
OnSpawnError(j) ==
  /\ child[j].proc = "starting"
  /\ \E c \in {NoChild, [child[j] EXCEPT !.proc = "dead", !.sigterm = FALSE]} :
       child' = [child EXCEPT ![j] = c]
  /\ job' = [job EXCEPT ![j] = Failed(@)]
  /\ task' = [task EXCEPT ![j] = Released(@)]
  /\ lock' = LockReleased(j)

\* The exit listeners of forkWorker and of registerChild, in this order: a
\* worker that neither completed nor failed is retried, and the lock of a
\* terminal job is released.
OnExit_Forgets(j) ==
  /\ child[j].proc = "dead"
  /\ child' = [child EXCEPT ![j] = [NoChild EXCEPT !.ipc = child[j].ipc]]
  /\ task' = [task EXCEPT ![j].active = FALSE]
  /\ UNCHANGED <<job, lock>>

OnExit(j) ==
  /\ child[j].proc = "dead"
  /\ child' = [child EXCEPT ![j] = [NoChild EXCEPT !.ipc = child[j].ipc]]
  /\ LET t == [task[j] EXCEPT !.active = FALSE]
         over == t.completed \/ Terminal(j)
     IN  IF ~over /\ job[j].retries < MaxRetries
         THEN /\ job' = [job EXCEPT ![j].retries = @ + 1, ![j].status = "analyzing"]
              /\ task' = [task EXCEPT ![j] = [t EXCEPT !.timer = TRUE]]
              /\ UNCHANGED lock
         ELSE /\ job' = IF over THEN job ELSE [job EXCEPT ![j] = Failed(@)]
              /\ task' = [task EXCEPT ![j] = Released(t)]
              /\ lock' = LockReleased(j)

\* backend.init() ends, or its time limit.
ReloadEnds(j) ==
  /\ task[j].reload
  /\ \/ job' = [job EXCEPT ![j].status = IF @ = "failed" THEN @ ELSE "complete"]
     \/ job' = [job EXCEPT ![j] = Failed(@)]
  /\ task' = [task EXCEPT ![j].reload = FALSE, ![j].handler = "none"]
  /\ UNCHANGED <<child, lock>>

-----------------------------------------------------------------------------
WorkerStep(j) ==
  \/ WorkerStarts(j) \/ WorkerProgress(j) \/ WorkerFinishes(j) \/ WorkerUncaught(j)
  \/ WorkerSigterm(j) \/ WorkerExits(j) \/ WorkerCrashes(j)

OnMessage(j) == OnProgress(j) \/ OnComplete(j) \/ OnError(j)

ServerStep(j) ==
  \/ CloneSucceeds(j) \/ CloneFails(j) \/ RetryFires(j) \/ Cancel(j) \/ JobTimeout(j)
  \/ Cleanup(j) \/ KillTimerFires(j) \/ OnMessage(j) \/ OnSpawnError(j) \/ OnExit(j)
  \/ ReloadEnds(j)

LockStep(r) ==
  ReadBegins(r) \/ ReadEnds(r) \/ OtherWriterBegins(r) \/ OtherWriterEnds(r)

Next ==
  \/ \E j \in Job, r \in Repo : PostPath(j, r) \/ PostUrl(j, r)
  \/ \E j \in Job : WorkerStep(j) \/ ServerStep(j)
  \/ \E r \in Repo : LockStep(r)

Spec == Init /\ [][Next]_vars

(***************************************************************************)
(* Fairness: the timers of the server fire, it handles the events it gets,  *)
(* and a worker whose analysis ended exits half a second later.  Nothing    *)
(* forces an analysis to end or crash, or a worker to handle SIGTERM: that  *)
(* is what the 30 minute timer and the kill timer are for.                  *)
(***************************************************************************)
Fairness == \A j \in Job :
  /\ WF_vars(RetryFires(j)) /\ WF_vars(JobTimeout(j)) /\ WF_vars(KillTimerFires(j))
  /\ WF_vars(OnMessage(j)) /\ WF_vars(OnExit(j))
  /\ WF_vars(child[j].proc = "finished" /\ WorkerExits(j))

FairSpec == Spec /\ Fairness

-----------------------------------------------------------------------------
(* Properties *)

\* Every variable has its type; in particular a job is retried at most
\* MaxRetries times, whatever its workers report and in whatever order.
TypeOK ==
  /\ job \in [Job -> JobState]
  /\ task \in [Job -> TaskState]
  /\ child \in [Job -> ChildState]
  /\ lock \in [Repo -> LockState]

\* While a worker process may work on a repository, its job holds the
\* repository's lock: through cancellation, errors reported before the exit,
\* retries, timeouts, and exits reported before the last messages.  A lock has
\* one writer, so this also means one worker per repository.
LockCoversWork ==
  \A j \in Job : child[j].proc \in {"starting", "working"} => lock[job[j].repo].writer = j

\* A job that no event will ever release does not hold the lock: there is
\* its process, a message of it, or a retry to come.
LockHolderReleases ==
  \A j \in Job, r \in Repo : lock[r].writer = j =>
    child[j].proc # "none" \/ child[j].ipc # <<>> \/ task[j].timer

\* A worker whose `complete' message arrived is never run again, even when
\* its exit came first and had scheduled a retry.
CompletedNeverReruns ==
  [][\A j \in Job : task[j].completed /\ child[j].proc = "none"
       => child'[j].proc = "none" \/ ~task'[j].completed]_vars

\* No timer will end the worker of j any more: the 30 minute timer has fired, and
\* either it found the job failed by an uncaught error that did not end the worker,
\* or the kill timer found it revived by a progress message that was read late.
OutOfReach(j) ==
  /\ child[j].proc = "working" /\ ~child[j].timeout
  /\ (child[j].kill = "unset" /\ child[j].doomed) \/ child[j].kill = "fired"

\* Every job gives its lock back, even if the analysis hangs and SIGTERM with it:
\* a lock is only kept by a worker that no timer reaches.
LockComesBack ==
  \A j \in Job, r \in Repo : <>[](lock[r].writer = j) => <>[]OutOfReach(j)
=============================================================================
