-------------------------------- MODULE EmbedJobs --------------------------------
(***************************************************************************)
(* Embedding jobs of the HTTP server (server/api-embed-routes.ts) and the    *)
(* deletion of a repository (DELETE /api/repo in server/api.ts), as users of *)
(* the lock of one repository that they share with analyses and readers.     *)
(*                                                                           *)
(* A request for an embedding runs a pipeline in the server's own process.   *)
(* Cancelling only asks it to stop: the signal is looked at between batches, *)
(* so a pipeline goes on for a while, or ends as if nothing had happened,    *)
(* while its job has failed, or was even dropped an hour later.  A refused   *)
(* request changes nothing and is not an action.                             *)
(***************************************************************************)
EXTENDS Naturals

CONSTANTS
  Embed,       \* requests for an embedding, and the ids of the jobs they create
  Deletion,    \* requests for the deletion of the repository
  Analysis,    \* another writer
  NoWriter,    \* writer: null
  MaxReaders   \* bound: concurrent readers

VARIABLES
  repoLock,   \* the repository's entry in activeRepoPaths
  embedJob,   \* status of the job in embedJobManager
  embedTask,  \* the closure of a request
  deletion    \* where a deletion is

embedVars == <<repoLock, embedJob, embedTask, deletion>>

NoTask == [runs |-> FALSE, job |-> NoWriter, aborted |-> FALSE, timer |-> FALSE,
           handler |-> FALSE]

Init ==
  /\ repoLock = [writer |-> NoWriter, readers |-> 0]
  /\ embedJob = [e \in Embed |-> "none"]
  /\ embedTask = [e \in Embed |-> NoTask]
  /\ deletion = [d \in Deletion |-> "none"]

-----------------------------------------------------------------------------
(* The lock *)

Unlocked == repoLock.writer = NoWriter /\ repoLock.readers = 0
Lock(writer) == Unlocked /\ repoLock' = [repoLock EXCEPT !.writer = writer]

\* releaseRepoLock compares the token.
Unlock(writer) ==
  repoLock' = IF repoLock.writer = writer THEN [repoLock EXCEPT !.writer = NoWriter] ELSE repoLock

AnalysisBegins == Lock(Analysis) /\ UNCHANGED <<embedJob, embedTask, deletion>>

AnalysisEnds ==
  /\ repoLock.writer = Analysis
  /\ Unlock(Analysis)
  /\ UNCHANGED <<embedJob, embedTask, deletion>>

ReadBegins ==
  /\ repoLock.writer = NoWriter /\ repoLock.readers < MaxReaders
  /\ repoLock' = [repoLock EXCEPT !.readers = @ + 1]
  /\ UNCHANGED <<embedJob, embedTask, deletion>>

ReadEnds ==
  /\ repoLock.readers > 0
  /\ repoLock' = [repoLock EXCEPT !.readers = @ - 1]
  /\ UNCHANGED <<embedJob, embedTask, deletion>>

-----------------------------------------------------------------------------
(* Embedding *)

Active(j) == embedJob[j] = "analyzing"

\* createJob answers an active job of the repository if there is one.
JobFor(e) ==
  IF \E j \in Embed : Active(j) THEN CHOOSE j \in Embed : Active(j) ELSE e

\* The lock, the job, the timeout and the cancel handler, and the pipeline.
Post(e) ==
  /\ embedJob[e] = "none" /\ ~embedTask[e].runs
  /\ Lock(e)
  /\ embedJob' = [embedJob EXCEPT ![JobFor(e)] = "analyzing"]
  /\ embedTask' = [f \in Embed |->
       IF f = e THEN [runs |-> TRUE, job |-> JobFor(e), aborted |-> FALSE, timer |-> TRUE,
                      handler |-> TRUE]
       ELSE IF embedTask[f].job = JobFor(e) THEN [embedTask[f] EXCEPT !.handler = FALSE]
       ELSE embedTask[f]]
  /\ UNCHANGED deletion

\* The pipeline returns or throws: the timer and the handler go, the lock is
\* released, and a job that has not failed gets its status.
PipelineEnds(e, status) ==
  /\ embedTask[e].runs
  /\ embedTask' = [embedTask EXCEPT ![e] = NoTask]
  /\ Unlock(e)
  /\ embedJob' = [embedJob EXCEPT ![embedTask[e].job] =
                    IF @ \in {"none", "failed"} THEN @ ELSE status]
  /\ UNCHANGED deletion

\* Mutant: cancelling releases the lock although the pipeline still runs.
Cancelled_Unlocks(j) ==
  /\ embedJob' = [embedJob EXCEPT ![j] = "failed"]
  /\ embedTask' = [e \in Embed |->
       IF embedTask[e].job = j /\ embedTask[e].handler
         THEN [embedTask[e] EXCEPT !.aborted = TRUE, !.handler = FALSE] ELSE embedTask[e]]
  /\ Unlock(j)

\* cancelJob: the handler aborts the signal, and the job has failed.
Cancelled(j) ==
  /\ embedJob' = [embedJob EXCEPT ![j] = "failed"]
  /\ embedTask' = [e \in Embed |->
       IF embedTask[e].job = j /\ embedTask[e].handler
         THEN [embedTask[e] EXCEPT !.aborted = TRUE, !.handler = FALSE] ELSE embedTask[e]]
  /\ UNCHANGED repoLock

Cancel(j) == Active(j) /\ Cancelled(j) /\ UNCHANGED deletion

\* The 30 minute timer of a request.
TimeOut(e) ==
  /\ embedTask[e].timer /\ Active(embedTask[e].job)
  /\ embedJob' = [embedJob EXCEPT ![embedTask[e].job] = "failed"]
  /\ embedTask' = [f \in Embed |->
       IF f = e THEN [embedTask[e] EXCEPT !.timer = FALSE, !.aborted = TRUE, !.handler = FALSE]
       ELSE embedTask[f]]
  /\ UNCHANGED <<repoLock, deletion>>

TimesOutLate(e) ==
  /\ embedTask[e].timer /\ ~Active(embedTask[e].job)
  /\ embedTask' = [embedTask EXCEPT ![e].timer = FALSE]
  /\ UNCHANGED <<repoLock, embedJob, deletion>>

\* cleanup: the job is dropped, whether its pipeline has ended or hangs.
Cleanup(j) ==
  /\ embedJob[j] \in {"complete", "failed"}
  /\ embedJob' = [embedJob EXCEPT ![j] = "none"]
  /\ UNCHANGED <<repoLock, embedTask, deletion>>

-----------------------------------------------------------------------------
(* DELETE /api/repo *)

At(d, pc) == deletion[d] = pc
Goto(d, pc) == deletion' = [deletion EXCEPT ![d] = pc]

DeleteAsked(d) ==
  /\ At(d, "none") /\ Goto(d, "waiting")
  /\ UNCHANGED <<repoLock, embedJob, embedTask>>

\* A turn of acquireRepoLockWhenAvailable that gets the lock: handles are closed,
\* files removed and the repository unregistered.
DeleteBegins(d) ==
  /\ At(d, "waiting") /\ Goto(d, "deleting")
  /\ Lock(d)
  /\ UNCHANGED <<embedJob, embedTask>>

\* The client has gone, or ten seconds are over and the lock is not free.
DeleteRefused(d) ==
  /\ At(d, "waiting") /\ Goto(d, "none")
  /\ UNCHANGED <<repoLock, embedJob, embedTask>>

DeleteEnds(d) ==
  /\ At(d, "deleting") /\ Goto(d, "none")
  /\ Unlock(d)
  /\ UNCHANGED <<embedJob, embedTask>>

Step(e) ==
  \/ Post(e) \/ PipelineEnds(e, "complete") \/ PipelineEnds(e, "failed")
  \/ Cancel(e) \/ TimeOut(e) \/ TimesOutLate(e) \/ Cleanup(e)

DeleteStep(d) == DeleteAsked(d) \/ DeleteBegins(d) \/ DeleteRefused(d) \/ DeleteEnds(d)

Next ==
  \/ \E e \in Embed : Step(e)
  \/ \E d \in Deletion : DeleteStep(d)
  \/ AnalysisBegins \/ AnalysisEnds \/ ReadBegins \/ ReadEnds

Spec == Init /\ [][Next]_embedVars

-----------------------------------------------------------------------------
(* Properties *)

\* Types of the lock, the jobs, the closures and the deletions.
TypeOK ==
  /\ repoLock \in [writer : Embed \union Deletion \union {Analysis, NoWriter},
                   readers : 0..MaxReaders]
  /\ embedJob \in [Embed -> {"none", "analyzing", "complete", "failed"}]
  /\ embedTask \in [Embed -> [runs : BOOLEAN, job : Embed \union {NoWriter}, aborted : BOOLEAN,
                              timer : BOOLEAN, handler : BOOLEAN]]
  /\ deletion \in [Deletion -> {"none", "waiting", "deleting"}]

\* A pipeline keeps the repository to itself for as long as it runs, however its
\* job was cancelled, timed out or dropped meanwhile; and an active job always
\* has a pipeline that will settle it, which was told to stop if the job failed.
EmbedsUnderLock ==
  /\ \A e \in Embed : embedTask[e].runs => repoLock = [writer |-> e, readers |-> 0]
  /\ \A j \in Embed : Active(j) => \E e \in Embed : embedTask[e].runs /\ embedTask[e].job = j
  /\ \A e \in Embed :
       embedTask[e].runs /\ embedJob[embedTask[e].job] = "failed" => embedTask[e].aborted
=============================================================================
