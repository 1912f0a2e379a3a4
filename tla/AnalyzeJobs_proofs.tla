---------------------------- MODULE AnalyzeJobs_proofs ----------------------------
(***************************************************************************)
(* The repo locks of the analysis jobs, for any jobs, repositories, retries,  *)
(* readers and messages.  The run `jobs' has one job; here any number of     *)
(* them compete for the locks of any number of repositories.                 *)
(*                                                                           *)
(* The invariant is local: `Sound' says of one job how its record, the       *)
(* closure of its handler, its process and the locks fit together.  A step   *)
(* of one job leaves the others sound, because it frees only its own lock    *)
(* and takes only a free one.                                                *)
(***************************************************************************)
EXTENDS AnalyzeJobs, SequenceTheorems, TLAPS

Sent(c, m) == \E i \in DOMAIN c.ipc : c.ipc[i] = m
Holds(j, jb, t, l) == jb.repo \in Repo /\ l[jb.repo].writer = j /\ ~t.released

\* Who holds a lock has a process or a retry to come, and has not released it.
HolderActs(j, jb, t, c, l) ==
  \A r \in Repo : l[r].writer = j =>
    r = jb.repo /\ ~t.released /\ (c.proc # "none" \/ t.timer)

\* A process that died before it got its start message: its job has failed, and
\* no message of it is left that could change that.
NeverStarted(jb, c) == c.proc = "dead" /\ jb.status = "failed" /\ c.ipc = <<>>

\* The handler knows that its process is there; the lock is held until the
\* `complete' message was read or the start message could not be sent.
WorkerHolds(j, jb, t, c, l) ==
  c.proc # "none" => t.active /\ (t.completed \/ Holds(j, jb, t, l) \/ NeverStarted(jb, c))

\* A retry that is to come has its lock.
RetryHolds(j, jb, t, c, l) ==
  t.timer => Holds(j, jb, t, l) /\ ~t.completed /\ ~t.active /\ c.proc = "none"

\* No `complete' is read or unread while the worker works, and nothing is before
\* it starts.
NotYetComplete(t, c) ==
  /\ c.proc \in {"starting", "working"} => ~t.completed /\ ~Sent(c, "complete")
  /\ c.proc = "starting" => c.ipc = <<>>

\* While its clone is pending a job has nothing else.
CloneAlone(jb, t, c) ==
  t.cloning => jb.repo \in Repo /\ c = NoChild /\ ~t.timer /\ t.handler # "worker"

Unused(jb, t, c) == jb.status = "none" => c = NoChild /\ ~t.timer /\ ~t.cloning

Sound(j, jb, t, c, l) ==
  /\ HolderActs(j, jb, t, c, l) /\ WorkerHolds(j, jb, t, c, l) /\ RetryHolds(j, jb, t, c, l)
  /\ NotYetComplete(t, c) /\ CloneAlone(jb, t, c) /\ Unused(jb, t, c)

JobsInv == TypeOK /\ \A j \in Job : Sound(j, job[j], task[j], child[j], lock)

-----------------------------------------------------------------------------
(* Values *)

LEMMA Defaults ==
  /\ NoJob \in JobState /\ NoTask \in TaskState
  /\ NoChild \in ChildState /\ NewChild \in ChildState
  /\ NoChild.proc = "none" /\ NewChild.proc = "starting"
  /\ ~Sent(NewChild, "complete") /\ NoChild.ipc = <<>> /\ NewChild.ipc = <<>>
<1>1. <<>> \in Seq(Message) /\ DOMAIN <<>> = {}
  BY EmptySeq
<1>2. NoChild \in ChildState /\ NoChild.proc = "none" /\ NoChild.ipc = <<>>
  BY <1>1 DEF NoChild, ChildState
<1>3. NewChild \in ChildState /\ NewChild.proc = "starting" /\ NewChild.ipc = <<>>
  BY <1>1, <1>2 DEF NewChild, NoChild, ChildState
<1>4. NoJob \in JobState
  BY JobsAssumption DEF NoJob, JobState
<1>5. NoTask \in TaskState
  BY DEF NoTask, TaskState
<1> QED
  BY <1>1, <1>2, <1>3, <1>4, <1>5 DEF Sent

\* Reading a message brings no `complete' back, and sending another one neither.
LEMMA MessagesLeft ==
  ASSUME NEW w \in Seq(Message), w # <<>>
  PROVE  /\ Tail(w) \in Seq(Message)
         /\ \A m : (\E i \in DOMAIN Tail(w) : Tail(w)[i] = m) => \E i \in DOMAIN w : w[i] = m
<1>1. /\ Tail(w) \in Seq(Message) /\ Len(Tail(w)) = Len(w) - 1
      /\ \A i \in 1..Len(Tail(w)) : Tail(w)[i] = w[i + 1]
  BY HeadTailProperties
<1>2. DOMAIN w = 1..Len(w) /\ DOMAIN Tail(w) = 1..(Len(w) - 1) /\ Len(w) \in Nat
  BY <1>1, LenProperties
<1>3. ASSUME NEW i \in DOMAIN Tail(w) PROVE i + 1 \in DOMAIN w /\ Tail(w)[i] = w[i + 1]
  BY <1>1, <1>2
<1> QED
  BY <1>1, <1>3

LEMMA MessageSent ==
  ASSUME NEW w \in Seq(Message), NEW x \in Message
  PROVE  /\ Append(w, x) \in Seq(Message)
         /\ \A m : (\E i \in DOMAIN Append(w, x) : Append(w, x)[i] = m)
                     => m = x \/ \E i \in DOMAIN w : w[i] = m
<1>1. /\ Append(w, x) \in Seq(Message) /\ Len(Append(w, x)) = Len(w) + 1
      /\ \A i \in 1..Len(w) : Append(w, x)[i] = w[i]
      /\ Append(w, x)[Len(w) + 1] = x
  BY AppendProperties
<1>2. DOMAIN w = 1..Len(w) /\ DOMAIN Append(w, x) = 1..(Len(w) + 1) /\ Len(w) \in Nat
  BY <1>1, LenProperties
<1> QED
  BY <1>1, <1>2

LEMMA MessagesLost ==
  ASSUME NEW w \in Seq(Message), NEW n \in 0..Len(w)
  PROVE  SubSeq(w, 1, n) \in Seq(Message)
<1>1. Len(w) \in Nat
  BY LenProperties
<1>2. \A i \in 1..n : w[i] \in Message
  BY <1>1, ElementOfSeq
<1> QED
  BY <1>1, <1>2, SubSeqProperties

\* What a death leaves of a process.
LEMMA DeathLeaves ==
  ASSUME NEW c \in ChildState, NEW d \in Died(c)
  PROVE  /\ d \in ChildState /\ d.proc = "dead" /\ d.kill = c.kill
<1>1. PICK n \in 0..Len(c.ipc) :
        d = [c EXCEPT !.proc = "dead", !.sigterm = FALSE, !.ipc = SubSeq(c.ipc, 1, n)]
  BY DEF Died
<1>2. SubSeq(c.ipc, 1, n) \in Seq(Message)
  BY MessagesLost DEF ChildState
<1> QED
  BY <1>1, <1>2 DEF ChildState

-----------------------------------------------------------------------------
(* Locks *)

\* Two locks are the same to the other jobs.
SameToOthers(j, k, l) ==
  \A i \in Job \ {j}, r \in Repo : k[r].writer = i <=> l[r].writer = i

LEMMA FreedLock ==
  ASSUME TypeOK, NEW j \in Job
  PROVE  /\ Freed(j) \in [Repo -> LockState]
         /\ \A r \in Repo : Freed(j)[r].writer # j
         /\ SameToOthers(j, Freed(j), lock)
<1>1. ASSUME NEW r \in Repo
      PROVE  /\ Freed(j)[r] \in LockState /\ Freed(j)[r].writer # j
             /\ \A i \in Job \ {j} : Freed(j)[r].writer = i <=> lock[r].writer = i
  <2>1. lock[r] \in LockState
    BY DEF TypeOK
  <2>2. Freed(j)[r] = IF lock[r].writer = j THEN [lock[r] EXCEPT !.writer = None] ELSE lock[r]
    BY DEF Freed
  <2> QED
    BY <2>1, <2>2, JobsAssumption DEF LockState
<1>2. Freed(j) = [r \in Repo |-> Freed(j)[r]]
  BY DEF Freed
<1> QED
  BY <1>1, <1>2 DEF SameToOthers

\* After releaseAnalyzeLock the job holds no lock, whether it was the first call or not.
LEMMA ReleasedLock ==
  ASSUME TypeOK, NEW j \in Job, Sound(j, job[j], task[j], child[j], lock)
  PROVE  /\ LockReleased(j) \in [Repo -> LockState]
         /\ \A r \in Repo : LockReleased(j)[r].writer # j
         /\ SameToOthers(j, LockReleased(j), lock)
<1>1. CASE task[j].released
  <2>1. \A r \in Repo : lock[r].writer # j
    BY <1>1 DEF Sound, HolderActs
  <2> QED
    BY <1>1, <2>1 DEF LockReleased, TypeOK, SameToOthers
<1>2. CASE ~task[j].released
  BY <1>2, FreedLock DEF LockReleased
<1> QED
  BY <1>1, <1>2

LEMMA TakenLock ==
  ASSUME TypeOK, NEW j \in Job, NEW r \in Repo, Unlocked(r),
         \A s \in Repo : lock[s].writer # j
  PROVE  LET l == [lock EXCEPT ![r].writer = j]
         IN  /\ l \in [Repo -> LockState] /\ l[r].writer = j
             /\ \A s \in Repo : l[s].writer = j => s = r
             /\ SameToOthers(j, l, lock)
<1>1. lock[r] \in LockState /\ lock \in [Repo -> LockState]
  BY DEF TypeOK
<1>2. [lock[r] EXCEPT !.writer = j] \in LockState
  BY <1>1 DEF LockState
<1> QED
  BY <1>1, <1>2, JobsAssumption DEF Unlocked, SameToOthers, LockState

-----------------------------------------------------------------------------
(* One job takes a step *)

Changed(j, jb, t, c) ==
  /\ job' = [job EXCEPT ![j] = jb]
  /\ task' = [task EXCEPT ![j] = t]
  /\ child' = [child EXCEPT ![j] = c]

\* A job that is sound after its step, and whose locks are its own business,
\* leaves all jobs sound.
LEMMA Combine ==
  ASSUME JobsInv, NEW j \in Job,
         NEW jb \in JobState, NEW t \in TaskState, NEW c \in ChildState,
         Changed(j, jb, t, c), lock' \in [Repo -> LockState], SameToOthers(j, lock', lock),
         Sound(j, jb, t, c, lock')
  PROVE  JobsInv'
<1>1. /\ job \in [Job -> JobState] /\ task \in [Job -> TaskState]
      /\ child \in [Job -> ChildState]
  BY DEF JobsInv, TypeOK
<1>2. /\ job' \in [Job -> JobState] /\ task' \in [Job -> TaskState]
      /\ child' \in [Job -> ChildState]
  BY <1>1 DEF Changed
<1>3. job'[j] = jb /\ task'[j] = t /\ child'[j] = c
  BY <1>1 DEF Changed
<1>4. ASSUME NEW i \in Job \ {j}
      PROVE  job'[i] = job[i] /\ task'[i] = task[i] /\ child'[i] = child[i]
  BY <1>1 DEF Changed
<1>5. ASSUME NEW i \in Job PROVE Sound(i, job'[i], task'[i], child'[i], lock')
  <2>1. CASE i = j
    BY <1>3, <2>1
  <2>2. CASE i # j
    <3>1. Sound(i, job[i], task[i], child[i], lock)
      BY DEF JobsInv
    <3>2. \A r \in Repo : lock'[r].writer = i <=> lock[r].writer = i
      BY <2>2 DEF SameToOthers
    <3>3. Sound(i, job[i], task[i], child[i], lock')
      BY <3>1, <3>2 DEF Sound, HolderActs, WorkerHolds, NeverStarted, RetryHolds, Holds
    <3> QED
      BY <1>4, <2>2, <3>3
  <2> QED
    BY <2>1, <2>2
<1> QED
  BY <1>2, <1>5 DEF JobsInv, TypeOK

\* The lock stays as it is.
LEMMA CombineSameLock ==
  ASSUME JobsInv, NEW j \in Job,
         NEW jb \in JobState, NEW t \in TaskState, NEW c \in ChildState,
         Changed(j, jb, t, c), lock' = lock, Sound(j, jb, t, c, lock)
  PROVE  JobsInv'
<1>1. lock' \in [Repo -> LockState] /\ SameToOthers(j, lock', lock)
  BY DEF JobsInv, TypeOK, SameToOthers
<1> QED
  BY <1>1, Combine

\* releaseAnalyzeLock: what is left has no lock, no retry, and no process but one
\* that has completed.
LEMMA CombineReleased ==
  ASSUME JobsInv, NEW j \in Job,
         NEW jb \in JobState, NEW t \in TaskState, NEW c \in ChildState,
         Changed(j, jb, t, c), lock' = LockReleased(j), ~t.timer,
         c.proc # "none" => t.active /\ (t.completed \/ NeverStarted(jb, c)),
         c.proc \notin {"starting", "working"},
         CloneAlone(jb, t, c), Unused(jb, t, c)
  PROVE  JobsInv'
<1>1. /\ lock' \in [Repo -> LockState] /\ SameToOthers(j, lock', lock)
      /\ \A r \in Repo : lock'[r].writer # j
  BY ReleasedLock DEF JobsInv
<1>2. Sound(j, jb, t, c, lock')
  BY <1>1 DEF Sound, HolderActs, WorkerHolds, NeverStarted, RetryHolds, NotYetComplete
<1> QED
  BY <1>1, <1>2, Combine

LEMMA ReleasedTask ==
  ASSUME NEW t \in TaskState, t.timer => ~t.released
  PROVE  /\ Released(t) \in TaskState /\ ~Released(t).timer
         /\ Released(t).active = t.active /\ Released(t).cloning = t.cloning
         /\ Released(t).completed = t.completed
         /\ Released(t).handler \in {t.handler, "none"}
BY DEF Released, TaskState

\* What a job's invariant says, and its types, ready for use.
LEMMA JobFacts ==
  ASSUME JobsInv, NEW j \in Job
  PROVE  /\ TypeOK /\ Sound(j, job[j], task[j], child[j], lock)
         /\ job[j] \in JobState /\ task[j] \in TaskState /\ child[j] \in ChildState
         /\ task[j].timer => ~task[j].released
BY DEF JobsInv, TypeOK, Sound, RetryHolds, Holds

\* UNCHANGED, and EXCEPT on a field, as changes of one job.
LEMMA SameValues ==
  ASSUME TypeOK, NEW j \in Job
  PROVE  /\ job = [job EXCEPT ![j] = job[j]]
         /\ task = [task EXCEPT ![j] = task[j]]
         /\ child = [child EXCEPT ![j] = child[j]]
BY DEF TypeOK

-----------------------------------------------------------------------------
(* Requests, clones and retries *)

\* acquireRepoLock and forkWorker, or the refusal.
LEMMA LockAndForkSound ==
  ASSUME JobsInv, NEW j \in Job, NEW rec \in JobState, rec.repo \in Repo,
         child[j] = NoChild, \A r \in Repo : lock[r].writer # j, LockAndFork(j, rec)
  PROVE  JobsInv'
<1>1. TypeOK
  BY DEF JobsInv
<1>2. CASE Unlocked(rec.repo)
  <2> DEFINE jb == [rec EXCEPT !.status = "analyzing"]
             t == [NoTask EXCEPT !.active = TRUE, !.handler = "worker"]
  <2>1. jb \in JobState /\ jb.repo = rec.repo /\ jb.status = "analyzing"
    BY DEF JobState
  <2>2. /\ t \in TaskState /\ t.active /\ ~t.released /\ ~t.completed /\ ~t.timer /\ ~t.cloning
    BY DEF NoTask, TaskState
  <2>3. Changed(j, jb, t, NewChild) /\ lock' = [lock EXCEPT ![rec.repo].writer = j]
    BY <1>2 DEF LockAndFork, Changed
  <2>4. /\ lock' \in [Repo -> LockState] /\ lock'[rec.repo].writer = j
        /\ \A s \in Repo : lock'[s].writer = j => s = rec.repo
        /\ SameToOthers(j, lock', lock)
    BY <1>1, <1>2, <2>3, TakenLock
  <2> HIDE DEF jb, t
  <2>5. Sound(j, jb, t, NewChild, lock')
    BY <2>1, <2>2, <2>4, Defaults
       DEF Sound, HolderActs, WorkerHolds, NeverStarted, RetryHolds, Holds, NotYetComplete, CloneAlone, Unused
  <2> QED
    BY <2>1, <2>2, <2>3, <2>4, <2>5, Defaults, Combine
<1>3. CASE ~Unlocked(rec.repo)
  <2>1. Failed(rec) \in JobState /\ Failed(rec).status = "failed"
    BY DEF Failed, JobState
  <2>2. NoTask \in TaskState /\ ~NoTask.timer /\ ~NoTask.cloning
    BY Defaults DEF NoTask
  <2>3. Changed(j, Failed(rec), NoTask, NoChild) /\ lock' = lock
    BY <1>1, <1>3, SameValues DEF LockAndFork, Changed
  <2>4. Sound(j, Failed(rec), NoTask, NoChild, lock)
    BY <2>1, <2>2, Defaults
       DEF Sound, HolderActs, WorkerHolds, NeverStarted, RetryHolds, NotYetComplete, CloneAlone, Unused
  <2> QED
    BY <2>1, <2>2, <2>3, <2>4, Defaults, CombineSameLock
<1> QED
  BY <1>2, <1>3

\* A job with neither process nor retry holds no lock.
LEMMA IdleHoldsNothing ==
  ASSUME JobsInv, NEW j \in Job, child[j] = NoChild, ~task[j].timer
  PROVE  \A r \in Repo : lock[r].writer # j
BY JobFacts, Defaults DEF Sound, HolderActs

LEMMA PostSound ==
  ASSUME JobsInv, NEW j \in Job, NEW r \in Repo, PostPath(j, r) \/ PostUrl(j, r)
  PROVE  JobsInv'
<1>1. child[j] = NoChild /\ ~task[j].timer /\ TypeOK
  BY JobFacts DEF PostPath, PostUrl, NewJob, Sound, Unused
<1>2. \A s \in Repo : lock[s].writer # j
  BY <1>1, IdleHoldsNothing
<1>3. CASE PostPath(j, r)
  <2>1. [NoJob EXCEPT !.repo = r] \in JobState /\ [NoJob EXCEPT !.repo = r].repo = r
    BY Defaults DEF JobState
  <2> QED
    BY <1>1, <1>2, <1>3, <2>1, LockAndForkSound DEF PostPath
<1>4. CASE PostUrl(j, r)
  <2> DEFINE jb == [NoJob EXCEPT !.repo = r, !.source = "url", !.status = "cloning"]
             t == [NoTask EXCEPT !.cloning = TRUE, !.handler = "clone"]
  <2>1. jb \in JobState /\ jb.repo = r /\ jb.status = "cloning"
    BY Defaults DEF JobState
  <2>2. t \in TaskState /\ ~t.timer /\ t.handler = "clone"
    BY DEF NoTask, TaskState
  <2>3. Changed(j, jb, t, NoChild) /\ lock' = lock
    BY <1>1, <1>4, SameValues DEF PostUrl, Changed
  <2> HIDE DEF jb, t
  <2>4. Sound(j, jb, t, NoChild, lock)
    BY <1>2, <2>1, <2>2, Defaults
       DEF Sound, HolderActs, WorkerHolds, NeverStarted, RetryHolds, NotYetComplete, CloneAlone, Unused
  <2> QED
    BY <2>1, <2>2, <2>3, <2>4, Defaults, CombineSameLock
<1> QED
  BY <1>3, <1>4

LEMMA CloneSound ==
  ASSUME JobsInv, NEW j \in Job, CloneSucceeds(j) \/ CloneFails(j)
  PROVE  JobsInv'
<1>1. /\ job[j] \in JobState /\ job[j].repo \in Repo /\ child[j] = NoChild /\ ~task[j].timer
      /\ TypeOK
  BY JobFacts DEF CloneSucceeds, CloneFails, Sound, CloneAlone
<1>2. \A r \in Repo : lock[r].writer # j
  BY <1>1, IdleHoldsNothing
<1>3. CASE CloneSucceeds(j)
  BY <1>1, <1>2, <1>3, LockAndForkSound DEF CloneSucceeds
<1>4. CASE CloneFails(j)
  <2>1. Failed(job[j]) \in JobState /\ Failed(job[j]).status = "failed"
    BY <1>1 DEF Failed, JobState
  <2>2. NoTask \in TaskState /\ ~NoTask.timer /\ ~NoTask.cloning
    BY Defaults DEF NoTask
  <2>3. Changed(j, Failed(job[j]), NoTask, NoChild) /\ lock' = lock
    BY <1>1, <1>4, SameValues DEF CloneFails, Changed
  <2>4. Sound(j, Failed(job[j]), NoTask, NoChild, lock)
    BY <1>2, <2>1, <2>2, Defaults
       DEF Sound, HolderActs, WorkerHolds, NeverStarted, RetryHolds, NotYetComplete, CloneAlone, Unused
  <2> QED
    BY <2>1, <2>2, <2>3, <2>4, Defaults, CombineSameLock
<1> QED
  BY <1>3, <1>4

LEMMA RetrySound ==
  ASSUME JobsInv, NEW j \in Job, RetryFires(j)
  PROVE  JobsInv'
<1>1. /\ TypeOK /\ job[j] \in JobState /\ task[j] \in TaskState /\ child[j] \in ChildState
      /\ Sound(j, job[j], task[j], child[j], lock)
      /\ task[j].timer /\ ~task[j].released /\ child[j].proc = "none"
  BY JobFacts DEF RetryFires
<1>2. /\ Holds(j, job[j], task[j], lock) /\ ~task[j].completed
      /\ ~task[j].cloning /\ job[j].status # "none"
  BY <1>1 DEF Sound, RetryHolds, CloneAlone, Unused
<1>3. CASE Terminal(j)
  <2>1. /\ Released(task[j]) \in TaskState /\ ~Released(task[j]).timer
        /\ ~Released(task[j]).cloning
    BY <1>1, <1>2, ReleasedTask
  <2>2. Changed(j, job[j], Released(task[j]), child[j]) /\ lock' = LockReleased(j)
    BY <1>1, <1>3, SameValues DEF RetryFires, Changed
  <2>3. CloneAlone(job[j], Released(task[j]), child[j])
        /\ Unused(job[j], Released(task[j]), child[j])
    BY <1>2, <2>1 DEF CloneAlone, Unused
  <2> QED
    BY <1>1, <2>1, <2>2, <2>3, CombineReleased
<1>4. CASE ~Terminal(j)
  <2> DEFINE t == [task[j] EXCEPT !.timer = FALSE, !.active = TRUE]
  <2>1. /\ t \in TaskState /\ ~t.timer /\ t.active /\ ~t.completed /\ ~t.released /\ ~t.cloning
    BY <1>1, <1>2 DEF TaskState
  <2>2. Changed(j, job[j], t, NewChild) /\ lock' = lock
    BY <1>1, <1>4, SameValues DEF RetryFires, Changed, TypeOK
  <2> HIDE DEF t
  <2>3. Sound(j, job[j], t, NewChild, lock)
    BY <1>1, <1>2, <2>1, Defaults
       DEF Sound, HolderActs, WorkerHolds, NeverStarted, RetryHolds, Holds, NotYetComplete, CloneAlone, Unused
  <2> QED
    BY <1>1, <2>1, <2>2, <2>3, Defaults, CombineSameLock
<1> QED
  BY <1>3, <1>4

-----------------------------------------------------------------------------
(* Cancelling *)

\* cancelJob, by a request or by the 30 minute timer (c is the process without it).
LEMMA CancelSound ==
  ASSUME JobsInv, NEW j \in Job, job[j].status # "none", NEW c \in ChildState,
         c.proc = child[j].proc, c.ipc = child[j].ipc, child[j] = NoChild => c = NoChild,
         Cancelled(j, c)
  PROVE  JobsInv'
<1> DEFINE byWorker == task[j].handler = "worker"
           u == CASE byWorker /\ task[j].active -> [task[j] EXCEPT !.timer = FALSE]
                  [] byWorker /\ ~task[j].active -> Released(task[j])
                  [] OTHER -> task[j]
           t == [u EXCEPT !.handler = "none"]
           d == IF c.proc = "none" THEN c
                ELSE [c EXCEPT !.sigterm = c.proc # "dead",
                               !.kill = IF @ = "unset" THEN "set" ELSE @]
           jb == Failed(job[j])
<1>1. /\ TypeOK /\ job[j] \in JobState /\ task[j] \in TaskState /\ child[j] \in ChildState
      /\ Sound(j, job[j], task[j], child[j], lock)
      /\ task[j].timer => ~task[j].released /\ ~task[j].active
  BY JobFacts DEF Sound, RetryHolds
<1>2. jb \in JobState /\ jb.repo = job[j].repo /\ jb.status = "failed"
  BY <1>1 DEF Failed, JobState
<1>3. d \in ChildState /\ d.proc = child[j].proc /\ d.ipc = child[j].ipc
      /\ (child[j] = NoChild => d = NoChild)
  BY Defaults DEF ChildState
<1>4. /\ job' = [job EXCEPT ![j] = jb] /\ task' = [task EXCEPT ![j] = t]
      /\ child' = [child EXCEPT ![j] = d]
      /\ lock' = IF byWorker /\ ~task[j].active THEN LockReleased(j) ELSE lock
  BY <1>1 DEF Cancelled, TypeOK
<1>5. CASE byWorker /\ ~task[j].active
  <2>1. /\ u = Released(task[j]) /\ u \in TaskState /\ ~u.timer /\ u.active = task[j].active
        /\ u.cloning = task[j].cloning
    BY <1>1, <1>5, ReleasedTask
  <2>2. /\ t \in TaskState /\ ~t.timer /\ ~t.active /\ ~t.cloning
    BY <1>1, <1>5, <2>1 DEF TaskState, Sound, CloneAlone
  <2>3. d.proc = "none"
    BY <1>1, <1>3, <1>5 DEF Sound, WorkerHolds, NeverStarted
  <2>4. Changed(j, jb, t, d) /\ lock' = LockReleased(j)
    BY <1>4, <1>5 DEF Changed
  <2>5. CloneAlone(jb, t, d) /\ Unused(jb, t, d)
    BY <1>2, <2>2 DEF CloneAlone, Unused
  <2> HIDE DEF jb, t, d
  <2> QED
    BY <1>2, <1>3, <2>2, <2>3, <2>4, <2>5, CombineReleased
<1>6. CASE ~(byWorker /\ ~task[j].active)
  <2>1. /\ t \in TaskState /\ t.timer = task[j].timer /\ t.active = task[j].active
        /\ t.released = task[j].released /\ t.completed = task[j].completed
        /\ t.cloning = task[j].cloning /\ t.handler = "none"
    BY <1>1, <1>6 DEF TaskState
  <2>2. Changed(j, jb, t, d) /\ lock' = lock
    BY <1>4, <1>6 DEF Changed
  <2> HIDE DEF jb, t, d
  <2>3. Sound(j, jb, t, d, lock)
    BY <1>1, <1>2, <1>3, <2>1, Defaults
       DEF Sound, HolderActs, WorkerHolds, NeverStarted, RetryHolds, Holds, NotYetComplete, Sent, CloneAlone,
           Unused
  <2> QED
    BY <1>2, <1>3, <2>1, <2>2, <2>3, CombineSameLock
<1> QED
  BY <1>5, <1>6

LEMMA CancelOrTimeoutSound ==
  ASSUME JobsInv, NEW j \in Job, Cancel(j) \/ JobTimeout(j)
  PROVE  JobsInv'
<1>1. /\ TypeOK /\ child[j] \in ChildState /\ job[j] \in JobState /\ task[j] \in TaskState
      /\ Sound(j, job[j], task[j], child[j], lock)
  BY JobFacts
<1>2. CASE Cancel(j)
  BY <1>1, <1>2, CancelSound DEF Cancel, Active
<1>3. CASE JobTimeout(j)
  <2> DEFINE c == [child[j] EXCEPT !.timeout = FALSE]
  <2>1. /\ c \in ChildState /\ c.proc = child[j].proc /\ c.ipc = child[j].ipc
        /\ child[j] # NoChild
    <3>1. ~NoChild.timeout
      BY DEF NoChild
    <3>2. child[j].timeout
      BY <1>3 DEF JobTimeout
    <3> QED
      BY <1>1, <3>1, <3>2 DEF ChildState
  <2>2. CASE Active(j)
    <3>1. Cancelled(j, c) /\ job[j].status # "none"
      BY <1>3, <2>2 DEF JobTimeout, Active
    <3> QED
      BY <2>1, <3>1, CancelSound
  <2>3. CASE ~Active(j)
    <3>1. Changed(j, job[j], task[j], c) /\ lock' = lock
      BY <1>1, <1>3, <2>3, SameValues DEF JobTimeout, Changed, TypeOK
    <3> HIDE DEF c
    <3>2. Sound(j, job[j], task[j], c, lock)
      BY <1>1, <2>1
         DEF Sound, HolderActs, WorkerHolds, NeverStarted, RetryHolds, Holds, NotYetComplete, Sent, CloneAlone,
             Unused
    <3> QED
      BY <1>1, <2>1, <3>1, <3>2, CombineSameLock
  <2> QED
    BY <2>2, <2>3
<1> QED
  BY <1>2, <1>3

LEMMA CleanupSound ==
  ASSUME JobsInv, NEW j \in Job, Cleanup(j)
  PROVE  JobsInv'
<1>1. child[j] = NoChild /\ ~task[j].timer /\ TypeOK
  BY JobFacts DEF Cleanup, Quiet
<1>2. \A r \in Repo : lock[r].writer # j
  BY <1>1, IdleHoldsNothing
<1>3. Changed(j, NoJob, NoTask, NoChild) /\ lock' = lock
  BY <1>1, SameValues DEF Cleanup, Changed
<1>4. ~NoTask.timer /\ ~NoTask.cloning
  BY DEF NoTask
<1>5. Sound(j, NoJob, NoTask, NoChild, lock)
  BY <1>2, <1>4, Defaults
     DEF Sound, HolderActs, WorkerHolds, NeverStarted, RetryHolds, NotYetComplete, CloneAlone, Unused
<1> QED
  BY <1>3, <1>5, Defaults, CombineSameLock

-----------------------------------------------------------------------------
(* The worker process, and its kill timer *)

\* A step of the process alone, which stays a process and sends no `complete'
\* before it has finished.
LEMMA ProcessSound ==
  ASSUME JobsInv, NEW j \in Job, NEW c \in ChildState,
         Changed(j, job[j], task[j], c), lock' = lock,
         child[j].proc \notin {"none", "dead"}, c.proc \notin {"none", "starting"},
         c.proc = "working" =>
           /\ child[j].proc \in {"starting", "working"}
           /\ Sent(c, "complete") => Sent(child[j], "complete")
  PROVE  JobsInv'
<1>1. /\ job[j] \in JobState /\ task[j] \in TaskState
      /\ Sound(j, job[j], task[j], child[j], lock)
  BY JobFacts
<1>2. child[j] # NoChild
  BY Defaults
<1>3. Sound(j, job[j], task[j], c, lock)
  BY <1>1, <1>2
     DEF Sound, HolderActs, WorkerHolds, NeverStarted, RetryHolds, Holds, NotYetComplete, CloneAlone, Unused
<1> QED
  BY <1>1, <1>3, CombineSameLock

LEMMA WorkerSound ==
  ASSUME JobsInv, NEW j \in Job, WorkerStep(j)
  PROVE  JobsInv'
<1>1. TypeOK /\ child[j] \in ChildState
  BY JobFacts
<1>2. \A m \in Message :
        /\ Unread(j, m) \in Seq(Message)
        /\ (\E i \in DOMAIN Unread(j, m) : Unread(j, m)[i] = "complete")
             => m = "complete" \/ Sent(child[j], "complete")
  BY <1>1, MessageSent DEF Unread, Sent, ChildState
<1>3. CASE WorkerStarts(j)
  <2> DEFINE c == [child[j] EXCEPT !.proc = "working"]
  <2>1. c \in ChildState /\ c.proc = "working" /\ c.ipc = child[j].ipc
    BY <1>1 DEF ChildState
  <2>2. Changed(j, job[j], task[j], c) /\ lock' = lock /\ child[j].proc = "starting"
    BY <1>1, <1>3, SameValues DEF WorkerStarts, Changed, TypeOK
  <2> HIDE DEF c
  <2> QED
    BY <2>1, <2>2, ProcessSound DEF Sent
<1>4. CASE WorkerProgress(j)
  <2> DEFINE c == [child[j] EXCEPT !.ipc = Unread(j, "progress")]
  <2>1. c \in ChildState /\ c.proc = child[j].proc /\ c.ipc = Unread(j, "progress")
    BY <1>1, <1>2 DEF ChildState, Message
  <2>2. Changed(j, job[j], task[j], c) /\ lock' = lock /\ child[j].proc = "working"
    BY <1>1, <1>4, SameValues DEF WorkerProgress, Changed, TypeOK
  <2>3. Sent(c, "complete") => Sent(child[j], "complete")
    BY <1>2, <2>1 DEF Sent, Message
  <2> HIDE DEF c
  <2> QED
    BY <2>1, <2>2, <2>3, ProcessSound
<1>5. CASE WorkerFinishes(j)
  <2>1. PICK m \in {"complete", "error"} :
          child' = [child EXCEPT ![j].proc = "finished", ![j].ipc = Unread(j, m)]
    BY <1>5 DEF WorkerFinishes
  <2> DEFINE c == [child[j] EXCEPT !.proc = "finished", !.ipc = Unread(j, m)]
  <2>2. c \in ChildState /\ c.proc = "finished"
    BY <1>1, <1>2 DEF ChildState, Message
  <2>3. Changed(j, job[j], task[j], c) /\ lock' = lock /\ child[j].proc = "working"
    BY <1>1, <1>5, <2>1, SameValues DEF WorkerFinishes, Changed, TypeOK
  <2> HIDE DEF c
  <2> QED
    BY <2>2, <2>3, ProcessSound
<1>6. CASE WorkerUncaught(j)
  <2> DEFINE c == [child[j] EXCEPT !.doomed = TRUE, !.ipc = Unread(j, "error")]
  <2>1. c \in ChildState /\ c.proc = child[j].proc /\ c.ipc = Unread(j, "error")
    BY <1>1, <1>2 DEF ChildState, Message
  <2>2. Changed(j, job[j], task[j], c) /\ lock' = lock
        /\ child[j].proc \in {"working", "finished"}
    BY <1>1, <1>6, SameValues DEF WorkerUncaught, Changed, TypeOK
  <2>3. Sent(c, "complete") => Sent(child[j], "complete")
    BY <1>2, <2>1 DEF Sent, Message
  <2> HIDE DEF c
  <2> QED
    BY <2>1, <2>2, <2>3, ProcessSound
<1>7. CASE WorkerSigterm(j)
  <2> DEFINE c == IF child[j].proc = "starting"
                  THEN [child[j] EXCEPT !.proc = "dead", !.sigterm = FALSE]
                  ELSE [child[j] EXCEPT !.sigterm = FALSE, !.doomed = TRUE,
                                        !.ipc = Unread(j, "error")]
  <2>1. /\ c \in ChildState
        /\ \/ c.proc = "dead"
           \/ /\ c.proc = child[j].proc /\ c.proc # "starting"
              /\ c.ipc = Unread(j, "error")
    BY <1>1, <1>2 DEF ChildState, Message
  <2>2. Changed(j, job[j], task[j], c) /\ lock' = lock
        /\ child[j].proc \in {"starting", "working", "finished"}
    BY <1>1, <1>7, SameValues DEF WorkerSigterm, Alive, Changed, TypeOK
  <2>3. c.proc # "dead" => (Sent(c, "complete") => Sent(child[j], "complete"))
    BY <1>2, <2>1 DEF Sent, Message
  <2> HIDE DEF c
  <2> QED
    BY <2>1, <2>2, <2>3, ProcessSound
<1>8. CASE WorkerExits(j)
  <2> DEFINE c == [child[j] EXCEPT !.proc = "dead", !.sigterm = FALSE]
  <2>1. c \in ChildState /\ c.proc = "dead"
    BY <1>1 DEF ChildState
  <2>2. Changed(j, job[j], task[j], c) /\ lock' = lock
        /\ child[j].proc \in {"starting", "working", "finished"}
    BY <1>1, <1>8, SameValues DEF WorkerExits, Alive, Changed, TypeOK
  <2> HIDE DEF c
  <2> QED
    BY <2>1, <2>2, ProcessSound
<1>9. CASE WorkerCrashes(j)
  <2>1. PICK c \in Died(child[j]) : child' = [child EXCEPT ![j] = c]
    BY <1>9 DEF WorkerCrashes
  <2>2. c \in ChildState /\ c.proc = "dead"
    BY <1>1, DeathLeaves
  <2>3. Changed(j, job[j], task[j], c) /\ lock' = lock
        /\ child[j].proc \in {"starting", "working", "finished"}
    BY <1>1, <1>9, <2>1, SameValues DEF WorkerCrashes, Alive, Changed
  <2> QED
    BY <2>2, <2>3, ProcessSound
<1> QED
  BY <1>3, <1>4, <1>5, <1>6, <1>7, <1>8, <1>9 DEF WorkerStep

LEMMA KillTimerSound ==
  ASSUME JobsInv, NEW j \in Job, KillTimerFires(j)
  PROVE  JobsInv'
<1> DEFINE c == [child[j] EXCEPT !.kill = "fired"]
<1>1. /\ TypeOK /\ job[j] \in JobState /\ task[j] \in TaskState /\ child[j] \in ChildState
      /\ Sound(j, job[j], task[j], child[j], lock)
  BY JobFacts
<1>2. /\ c \in ChildState /\ c.proc = child[j].proc /\ c.ipc = child[j].ipc
      /\ child[j] # NoChild
  BY <1>1 DEF KillTimerFires, ChildState, NoChild
<1>3. CASE Terminal(j) /\ Alive(j)
  <2>1. PICK d \in Died(c) : child' = [child EXCEPT ![j] = d]
    BY <1>3 DEF KillTimerFires
  <2>2. d \in ChildState /\ d.proc = "dead"
    BY <1>2, DeathLeaves
  <2>3. Changed(j, job[j], task[j], d) /\ lock' = lock
        /\ child[j].proc \in {"starting", "working", "finished"}
    BY <1>1, <1>3, <2>1, SameValues DEF KillTimerFires, Alive, Changed
  <2> QED
    BY <2>2, <2>3, ProcessSound
<1>4. CASE ~(Terminal(j) /\ Alive(j))
  <2>1. Changed(j, job[j], task[j], c) /\ lock' = lock
    BY <1>1, <1>4, SameValues DEF KillTimerFires, Changed
  <2> HIDE DEF c
  <2>2. Sound(j, job[j], task[j], c, lock)
    BY <1>1, <1>2
       DEF Sound, HolderActs, WorkerHolds, NeverStarted, RetryHolds, Holds, NotYetComplete, Sent, CloneAlone,
           Unused
  <2> QED
    BY <1>1, <1>2, <2>1, <2>2, CombineSameLock
<1> QED
  BY <1>3, <1>4

-----------------------------------------------------------------------------
(* Events of the worker, handled by the server *)

\* A message is read: the process and its timers stay, a `complete' does not appear.
LEMMA ReceiveEffect ==
  ASSUME TypeOK, NEW j \in Job, NEW m \in Message, Receives(j, m)
  PROVE  \E c \in ChildState :
           /\ child' = [child EXCEPT ![j] = c] /\ c.proc = child[j].proc
           /\ Sent(c, "complete") => Sent(child[j], "complete")
           /\ Sent(child[j], m) /\ child[j] # NoChild /\ child[j].ipc # <<>>
<1> DEFINE c == [child[j] EXCEPT !.ipc = Tail(@)]
<1>1. /\ child[j] \in ChildState /\ child[j].ipc \in Seq(Message) /\ child[j].ipc # <<>>
      /\ Head(child[j].ipc) = m
  BY DEF TypeOK, ChildState, Receives
<1>2. /\ Tail(child[j].ipc) \in Seq(Message)
      /\ \A x : (\E i \in DOMAIN Tail(child[j].ipc) : Tail(child[j].ipc)[i] = x)
                 => Sent(child[j], x)
  BY <1>1, MessagesLeft DEF Sent
<1>3. /\ c \in ChildState /\ c.proc = child[j].proc /\ c.ipc = Tail(child[j].ipc)
      /\ child' = [child EXCEPT ![j] = c]
  BY <1>1, <1>2 DEF ChildState, Receives, TypeOK
<1>4. Sent(child[j], m)
  <2>1. 1 \in DOMAIN child[j].ipc /\ child[j].ipc[1] = m
    BY <1>1, EmptySeq, LenProperties
  <2> QED
    BY <2>1 DEF Sent
<1>5. child[j] # NoChild
  BY <1>1 DEF NoChild
<1> HIDE DEF c
<1>6. Sent(c, "complete") => Sent(child[j], "complete")
  BY <1>2, <1>3 DEF Sent
<1> QED
  BY <1>1, <1>3, <1>4, <1>5, <1>6

LEMMA ProgressSound ==
  ASSUME JobsInv, NEW j \in Job, OnProgress(j)
  PROVE  JobsInv'
<1>1. /\ TypeOK /\ job[j] \in JobState /\ task[j] \in TaskState
      /\ Sound(j, job[j], task[j], child[j], lock)
  BY JobFacts
<1>2. PICK c \in ChildState :
        /\ child' = [child EXCEPT ![j] = c] /\ c.proc = child[j].proc
        /\ Sent(c, "complete") => Sent(child[j], "complete")
        /\ child[j] # NoChild /\ child[j].ipc # <<>>
  BY <1>1, ReceiveEffect DEF OnProgress, Message
<1> DEFINE jb == [job[j] EXCEPT !.status = "analyzing"]
<1>3. jb \in JobState /\ jb.repo = job[j].repo /\ jb.status = "analyzing"
  BY <1>1 DEF JobState
<1>4. Changed(j, jb, task[j], c) /\ lock' = lock
  BY <1>1, <1>2, SameValues DEF OnProgress, Changed, TypeOK
<1> HIDE DEF jb
<1>5. Sound(j, jb, task[j], c, lock)
  BY <1>1, <1>2, <1>3
     DEF Sound, HolderActs, WorkerHolds, NeverStarted, RetryHolds, Holds, NotYetComplete, CloneAlone, Unused
<1> QED
  BY <1>1, <1>3, <1>4, <1>5, CombineSameLock

LEMMA CompleteSound ==
  ASSUME JobsInv, NEW j \in Job, OnComplete(j)
  PROVE  JobsInv'
<1>1. /\ TypeOK /\ job[j] \in JobState /\ task[j] \in TaskState
      /\ Sound(j, job[j], task[j], child[j], lock)
      /\ task[j].timer => ~task[j].released
  BY JobFacts
<1>2. PICK c \in ChildState :
        /\ child' = [child EXCEPT ![j] = c] /\ c.proc = child[j].proc
        /\ Sent(child[j], "complete") /\ child[j] # NoChild
  BY <1>1, ReceiveEffect DEF OnComplete, Message
<1> DEFINE u == Released(task[j])
           t == [u EXCEPT !.completed = TRUE, !.reload = TRUE]
<1>3. /\ t \in TaskState /\ ~t.timer /\ t.completed /\ t.active = task[j].active
      /\ t.cloning = task[j].cloning
  <2>1. /\ u \in TaskState /\ ~u.timer /\ u.active = task[j].active
        /\ u.cloning = task[j].cloning
    BY <1>1, ReleasedTask
  <2> HIDE DEF u
  <2> QED
    BY <2>1 DEF TaskState
<1>4. Changed(j, job[j], t, c) /\ lock' = LockReleased(j)
  BY <1>1, <1>2, SameValues DEF OnComplete, Changed, TypeOK
<1> HIDE DEF t
\* The worker has finished: it sends `complete' last.
<1>5. c.proc \notin {"starting", "working"}
  BY <1>1, <1>2 DEF Sound, NotYetComplete
<1>6. c.proc # "none" => t.active
  BY <1>1, <1>2, <1>3 DEF Sound, WorkerHolds, NeverStarted
<1>7. CloneAlone(job[j], t, c) /\ Unused(job[j], t, c)
  BY <1>1, <1>2, <1>3 DEF Sound, CloneAlone, Unused
<1> QED
  BY <1>1, <1>3, <1>4, <1>5, <1>6, <1>7, CombineReleased

LEMMA ErrorSound ==
  ASSUME JobsInv, NEW j \in Job, OnError(j)
  PROVE  JobsInv'
<1>1. /\ TypeOK /\ job[j] \in JobState /\ task[j] \in TaskState
      /\ Sound(j, job[j], task[j], child[j], lock)
      /\ task[j].timer => ~task[j].released
  BY JobFacts
<1>2. PICK c \in ChildState :
        /\ child' = [child EXCEPT ![j] = c] /\ c.proc = child[j].proc
        /\ Sent(c, "complete") => Sent(child[j], "complete")
        /\ child[j] # NoChild /\ child[j].ipc # <<>>
  BY <1>1, ReceiveEffect DEF OnError, Message
<1> DEFINE jb == Failed(job[j])
           u == IF task[j].active THEN task[j] ELSE Released(task[j])
           t == [u EXCEPT !.handler = "none"]
<1>3. jb \in JobState /\ jb.repo = job[j].repo /\ jb.status = "failed"
  BY <1>1 DEF Failed, JobState
<1>4. /\ Changed(j, jb, t, c)
      /\ lock' = IF task[j].active THEN lock ELSE LockReleased(j)
  BY <1>1, <1>2 DEF OnError, Changed, TypeOK
<1>5. ~task[j].cloning
  BY <1>1, <1>2 DEF Sound, CloneAlone
<1>6. CASE task[j].active
  <2>1. /\ t \in TaskState /\ t.timer = task[j].timer /\ t.active = task[j].active
        /\ t.released = task[j].released /\ t.completed = task[j].completed
        /\ t.cloning = task[j].cloning
    BY <1>1, <1>6 DEF TaskState
  <2> HIDE DEF jb, t
  <2>2. Sound(j, jb, t, c, lock)
    BY <1>1, <1>2, <1>3, <1>5, <2>1
       DEF Sound, HolderActs, WorkerHolds, NeverStarted, RetryHolds, Holds, NotYetComplete, CloneAlone, Unused
  <2> QED
    BY <1>3, <1>4, <1>6, <2>1, <2>2, CombineSameLock
<1>7. CASE ~task[j].active
  <2>1. u = Released(task[j])
    BY <1>7
  <2>2. t \in TaskState /\ ~t.timer /\ ~t.cloning
    BY <1>1, <1>5, <2>1, ReleasedTask DEF TaskState
  <2>3. c.proc = "none"
    BY <1>1, <1>2, <1>7 DEF Sound, WorkerHolds, NeverStarted
  <2>4. CloneAlone(jb, t, c) /\ Unused(jb, t, c)
    BY <1>3, <2>2 DEF CloneAlone, Unused
  <2> HIDE DEF jb, t
  <2> QED
    BY <1>3, <1>4, <1>7, <2>2, <2>3, <2>4, CombineReleased
<1> QED
  BY <1>6, <1>7

LEMMA SpawnErrorSound ==
  ASSUME JobsInv, NEW j \in Job, OnSpawnError(j)
  PROVE  JobsInv'
<1>1. /\ TypeOK /\ job[j] \in JobState /\ task[j] \in TaskState
      /\ Sound(j, job[j], task[j], child[j], lock)
      /\ task[j].timer => ~task[j].released
  BY JobFacts
<1> DEFINE jb == Failed(job[j])
           t == Released(task[j])
<1>2. jb \in JobState /\ jb.status = "failed"
  BY <1>1 DEF Failed, JobState
<1>3. /\ t \in TaskState /\ ~t.timer /\ t.cloning = task[j].cloning
      /\ t.active = task[j].active
  BY <1>1, ReleasedTask
<1>4. child[j].proc = "starting" /\ child[j].ipc = <<>> /\ child[j] # NoChild
  BY <1>1, Defaults DEF OnSpawnError, Sound, NotYetComplete
<1>5. ~task[j].cloning /\ task[j].active
  BY <1>1, <1>4 DEF Sound, CloneAlone, WorkerHolds
<1> DEFINE d == [child[j] EXCEPT !.proc = "dead", !.sigterm = FALSE]
<1>6. d \in ChildState /\ d.proc = "dead" /\ d.ipc = <<>>
  BY <1>1, <1>4 DEF TypeOK, ChildState
<1>7. PICK c \in {NoChild, d} : child' = [child EXCEPT ![j] = c]
  BY DEF OnSpawnError
<1>8. Changed(j, jb, t, c) /\ lock' = LockReleased(j)
  BY <1>1, <1>7 DEF OnSpawnError, Changed, TypeOK
<1> HIDE DEF jb, t, d
<1>9. c \in ChildState /\ c.proc \in {"none", "dead"} /\ c.ipc = <<>>
  BY <1>6, <1>7, Defaults
<1>10. CloneAlone(jb, t, c) /\ Unused(jb, t, c)
  BY <1>2, <1>3, <1>5 DEF CloneAlone, Unused
<1>11. c.proc # "none" => t.active /\ NeverStarted(jb, c)
  BY <1>2, <1>3, <1>5, <1>9 DEF NeverStarted
<1> QED
  BY <1>2, <1>3, <1>8, <1>9, <1>10, <1>11, CombineReleased

LEMMA ExitSound ==
  ASSUME JobsInv, NEW j \in Job, OnExit(j)
  PROVE  JobsInv'
<1>1. /\ TypeOK /\ job[j] \in JobState /\ task[j] \in TaskState /\ child[j] \in ChildState
      /\ Sound(j, job[j], task[j], child[j], lock)
  BY JobFacts
<1> DEFINE c == [NoChild EXCEPT !.ipc = child[j].ipc]
           u == [task[j] EXCEPT !.active = FALSE]
           over == u.completed \/ Terminal(j)
<1>2. c \in ChildState /\ c.proc = "none"
  BY <1>1, Defaults DEF ChildState
<1>3. /\ child[j].proc = "dead" /\ child[j] # NoChild
      /\ child' = [child EXCEPT ![j] = c]
  BY Defaults DEF OnExit
<1>4. /\ ~task[j].timer /\ ~task[j].cloning /\ job[j].status # "none"
      /\ \/ task[j].completed \/ Terminal(j)
         \/ Holds(j, job[j], task[j], lock)
  BY <1>1, <1>3
     DEF Sound, WorkerHolds, NeverStarted, RetryHolds, CloneAlone, Unused, Terminal
<1>5. /\ u \in TaskState /\ ~u.active /\ ~u.timer /\ ~u.cloning
      /\ u.completed = task[j].completed /\ u.released = task[j].released
  BY <1>1, <1>4 DEF TaskState
<1>6. CASE ~over /\ job[j].retries < MaxRetries
  <2> DEFINE jb == [job[j] EXCEPT !.retries = @ + 1, !.status = "analyzing"]
             t == [u EXCEPT !.timer = TRUE]
  <2>1. jb \in JobState /\ jb.repo = job[j].repo /\ jb.status = "analyzing"
    <3>1. job[j].retries + 1 \in 0..MaxRetries
      BY <1>1, <1>6, JobsAssumption DEF JobState
    <3> QED
      BY <1>1, <3>1 DEF JobState
  <2>2. /\ t \in TaskState /\ t.timer /\ ~t.active /\ ~t.cloning /\ ~t.completed
        /\ t.released = task[j].released
    BY <1>5, <1>6 DEF TaskState
  <2>3. Changed(j, jb, t, c) /\ lock' = lock
    BY <1>1, <1>3, <1>6 DEF OnExit, Changed, TypeOK
  <2> HIDE DEF jb, t, c, u
  <2>4. Sound(j, jb, t, c, lock)
    BY <1>1, <1>2, <1>4, <1>5, <1>6, <2>1, <2>2
       DEF Sound, HolderActs, WorkerHolds, NeverStarted, RetryHolds, Holds, NotYetComplete, CloneAlone, Unused
  <2> QED
    BY <1>2, <2>1, <2>2, <2>3, <2>4, CombineSameLock
<1>7. CASE ~(~over /\ job[j].retries < MaxRetries)
  <2> DEFINE jb == IF over THEN job[j] ELSE Failed(job[j])
  <2>1. jb \in JobState /\ jb.status # "none"
    BY <1>1, <1>4 DEF Failed, JobState
  <2>2. Released(u) \in TaskState /\ ~Released(u).timer /\ ~Released(u).cloning
    BY <1>5, ReleasedTask
  <2>3. Changed(j, jb, Released(u), c) /\ lock' = LockReleased(j)
    <3>1. job' = [job EXCEPT ![j] = jb]
      BY <1>1, <1>7, SameValues DEF OnExit
    <3>2. task' = [task EXCEPT ![j] = Released(u)] /\ lock' = LockReleased(j)
      BY <1>1, <1>7 DEF OnExit
    <3> QED
      BY <1>3, <3>1, <3>2 DEF Changed
  <2>4. CloneAlone(jb, Released(u), c) /\ Unused(jb, Released(u), c)
    BY <2>1, <2>2 DEF CloneAlone, Unused
  <2> HIDE DEF jb, c, u
  <2> QED
    BY <1>2, <2>1, <2>2, <2>3, <2>4, CombineReleased
<1> QED
  BY <1>6, <1>7

LEMMA ReloadSound ==
  ASSUME JobsInv, NEW j \in Job, ReloadEnds(j)
  PROVE  JobsInv'
<1>1. /\ TypeOK /\ job[j] \in JobState /\ task[j] \in TaskState /\ child[j] \in ChildState
      /\ Sound(j, job[j], task[j], child[j], lock)
  BY JobFacts
<1>2. PICK status \in {"complete", "failed"} :
        /\ job' = [job EXCEPT ![j].status = status]
        /\ job[j].status = "failed" => status = "failed"
  BY <1>1 DEF ReloadEnds, Failed, TypeOK
<1> DEFINE jb == [job[j] EXCEPT !.status = status]
           t == [task[j] EXCEPT !.reload = FALSE, !.handler = "none"]
<1>3. /\ jb \in JobState /\ jb.repo = job[j].repo /\ jb.status # "none"
      /\ job[j].status = "failed" => jb.status = "failed"
  BY <1>1, <1>2 DEF JobState
<1>4. /\ t \in TaskState /\ t.timer = task[j].timer /\ t.active = task[j].active
      /\ t.released = task[j].released /\ t.completed = task[j].completed
      /\ t.cloning = task[j].cloning /\ t.handler = "none"
  BY <1>1 DEF TaskState
<1>5. Changed(j, jb, t, child[j]) /\ lock' = lock
  BY <1>1, <1>2, SameValues DEF ReloadEnds, Changed, TypeOK
<1> HIDE DEF jb, t
<1>6. Sound(j, jb, t, child[j], lock)
  BY <1>1, <1>3, <1>4
     DEF Sound, HolderActs, WorkerHolds, NeverStarted, RetryHolds, Holds, NotYetComplete, CloneAlone, Unused
<1> QED
  BY <1>1, <1>3, <1>4, <1>5, <1>6, CombineSameLock

-----------------------------------------------------------------------------
(* The other users of the locks *)

LEMMA LockStepSound ==
  ASSUME JobsInv, NEW r \in Repo, LockStep(r)
  PROVE  JobsInv'
<1>1. /\ TypeOK /\ lock[r] \in LockState /\ UNCHANGED <<job, task, child>>
  BY DEF JobsInv, TypeOK, LockStep, ReadBegins, ReadEnds, OtherWriterBegins, OtherWriterEnds
<1>2. PICK l \in LockState :
        /\ lock' = [lock EXCEPT ![r] = l]
        /\ \A j \in Job : l.writer = j <=> lock[r].writer = j
  <2>1. CASE ReadBegins(r)
    <3>1. /\ [lock[r] EXCEPT !.readers = @ + 1] \in LockState
          /\ [lock[r] EXCEPT !.readers = @ + 1].writer = lock[r].writer
      BY <1>1, <2>1, JobsAssumption DEF ReadBegins, LockState
    <3> QED
      BY <1>1, <2>1, <3>1 DEF ReadBegins, TypeOK
  <2>2. CASE ReadEnds(r)
    <3>1. /\ [lock[r] EXCEPT !.readers = @ - 1] \in LockState
          /\ [lock[r] EXCEPT !.readers = @ - 1].writer = lock[r].writer
      BY <1>1, <2>2, JobsAssumption DEF ReadEnds, LockState
    <3> QED
      BY <1>1, <2>2, <3>1 DEF ReadEnds, TypeOK
  <2>3. CASE OtherWriterBegins(r)
    <3>1. [lock[r] EXCEPT !.writer = Other] \in LockState /\ lock[r].writer = None
          /\ [lock[r] EXCEPT !.writer = Other].writer = Other
      BY <1>1, <2>3 DEF OtherWriterBegins, Unlocked, LockState
    <3> QED
      BY <1>1, <2>3, <3>1, JobsAssumption DEF OtherWriterBegins, TypeOK
  <2>4. CASE OtherWriterEnds(r)
    <3>1. [lock[r] EXCEPT !.writer = None] \in LockState /\ lock[r].writer = Other
          /\ [lock[r] EXCEPT !.writer = None].writer = None
      BY <1>1, <2>4 DEF OtherWriterEnds, LockState
    <3> QED
      BY <1>1, <2>4, <3>1, JobsAssumption DEF OtherWriterEnds, TypeOK
  <2> QED
    BY <2>1, <2>2, <2>3, <2>4 DEF LockStep
<1>3. /\ lock' \in [Repo -> LockState]
      /\ \A j \in Job, s \in Repo : lock'[s].writer = j <=> lock[s].writer = j
  BY <1>1, <1>2 DEF TypeOK
<1>4. ASSUME NEW j \in Job PROVE Sound(j, job[j], task[j], child[j], lock')
  <2>1. Sound(j, job[j], task[j], child[j], lock)
    BY DEF JobsInv
  <2> QED
    BY <1>3, <2>1 DEF Sound, HolderActs, WorkerHolds, NeverStarted, RetryHolds, Holds
<1> QED
  BY <1>1, <1>3, <1>4 DEF JobsInv, TypeOK

-----------------------------------------------------------------------------
(* Completed jobs *)

\* Only LockAndFork and the retry timer create a process, and neither for a
\* job whose `complete' message was read.
StaysIdle(j) == task[j].completed /\ child[j].proc = "none"
                  => child'[j].proc = "none" \/ ~task'[j].completed

LEMMA ForkForgets ==
  ASSUME TypeOK, NEW i \in Job, NEW j \in Job, NEW rec, LockAndFork(i, rec)
  PROVE  StaysIdle(j)
<1>1. child \in [Job -> ChildState] /\ task \in [Job -> TaskState]
  BY DEF TypeOK
<1>2. CASE Unlocked(rec.repo)
  <2> DEFINE t == [NoTask EXCEPT !.active = TRUE, !.handler = "worker"]
  <2>1. child' = [child EXCEPT ![i] = NewChild] /\ task' = [task EXCEPT ![i] = t]
    BY <1>2 DEF LockAndFork
  <2>2. ~t.completed
    BY DEF NoTask
  <2> HIDE DEF t
  <2>3. i # j => child'[j] = child[j]
    BY <1>1, <2>1
  <2>4. i = j => task'[j] = t
    BY <1>1, <2>1
  <2> QED
    BY <2>2, <2>3, <2>4 DEF StaysIdle
<1>3. CASE ~Unlocked(rec.repo)
  BY <1>3 DEF LockAndFork, StaysIdle
<1> QED
  BY <1>2, <1>3

LEMMA CancelStaysIdle ==
  ASSUME TypeOK, NEW i \in Job, NEW j \in Job, NEW c \in ChildState,
         c.proc = child[i].proc, Cancelled(i, c)
  PROVE  StaysIdle(j)
<1>1. child \in [Job -> ChildState]
  BY DEF TypeOK
<1>2. /\ i # j => child'[j] = child[j]
      /\ i = j /\ c.proc = "none" => child'[j] = c
  BY <1>1 DEF Cancelled
<1> QED
  BY <1>2 DEF StaysIdle

LEMMA ServerStaysIdle ==
  ASSUME JobsInv, NEW i \in Job, NEW j \in Job, ServerStep(i)
  PROVE  StaysIdle(j)
<1>1. /\ TypeOK /\ child \in [Job -> ChildState] /\ child[i] \in ChildState
      /\ Sound(i, job[i], task[i], child[i], lock)
  BY JobFacts DEF TypeOK
<1>2. CASE CloneSucceeds(i)
  BY <1>1, <1>2, ForkForgets DEF CloneSucceeds
<1>3. CASE RetryFires(i)
  BY <1>1, <1>3 DEF RetryFires, Sound, RetryHolds, StaysIdle
<1>4. CASE Cancel(i)
  BY <1>1, <1>4, CancelStaysIdle DEF Cancel
<1>5. CASE JobTimeout(i)
  <2> DEFINE c == [child[i] EXCEPT !.timeout = FALSE]
  <2>1. c \in ChildState /\ c.proc = child[i].proc
    BY <1>1 DEF ChildState
  <2>2. CASE Active(i)
    BY <1>1, <1>5, <2>1, <2>2, CancelStaysIdle DEF JobTimeout
  <2>3. CASE ~Active(i)
    <3>1. child' = [child EXCEPT ![i] = c]
      BY <1>1, <1>5, <2>3 DEF JobTimeout
    <3> QED
      BY <1>1, <2>1, <3>1 DEF StaysIdle
  <2> QED
    BY <2>2, <2>3
<1>6. CASE KillTimerFires(i)
  BY <1>1, <1>6 DEF KillTimerFires, Alive, ChildState, StaysIdle
<1>7. CASE OnMessage(i)
  BY <1>1, <1>7
     DEF OnMessage, OnProgress, OnComplete, OnError, Receives, ChildState, StaysIdle
<1>8. CASE OnSpawnError(i) \/ OnExit(i)
  <2>1. PICK d : child' = [child EXCEPT ![i] = d] /\ child[i].proc # "none"
    BY <1>8 DEF OnSpawnError, OnExit
  <2> QED
    BY <1>1, <2>1 DEF StaysIdle
<1>9. CASE CloneFails(i) \/ Cleanup(i) \/ ReloadEnds(i)
  BY <1>9 DEF CloneFails, Cleanup, ReloadEnds, StaysIdle
<1> QED
  BY <1>2, <1>3, <1>4, <1>5, <1>6, <1>7, <1>8, <1>9 DEF ServerStep

LEMMA NextStaysIdle ==
  ASSUME JobsInv, [Next]_vars, NEW j \in Job
  PROVE  StaysIdle(j)
<1>1. TypeOK /\ child \in [Job -> ChildState]
  BY JobFacts DEF TypeOK
<1>2. CASE UNCHANGED vars
  BY <1>2 DEF vars, StaysIdle
<1>3. ASSUME NEW i \in Job, NEW r \in Repo, PostPath(i, r) PROVE StaysIdle(j)
  BY <1>1, <1>3, ForkForgets DEF PostPath
<1>4. ASSUME NEW i \in Job, NEW r \in Repo, PostUrl(i, r) PROVE StaysIdle(j)
  BY <1>4 DEF PostUrl, StaysIdle
<1>5. ASSUME NEW i \in Job, WorkerStep(i) PROVE StaysIdle(j)
  <2>1. PICK d : child' = [child EXCEPT ![i] = d] /\ child[i].proc # "none"
    BY <1>1, <1>5
       DEF WorkerStep, WorkerStarts, WorkerProgress, WorkerFinishes, WorkerUncaught, WorkerSigterm,
           WorkerExits, WorkerCrashes, Alive
  <2> QED
    BY <1>1, <2>1 DEF StaysIdle
<1>6. ASSUME NEW i \in Job, ServerStep(i) PROVE StaysIdle(j)
  BY <1>6, ServerStaysIdle
<1>7. ASSUME NEW r \in Repo, LockStep(r) PROVE StaysIdle(j)
  BY <1>7
     DEF LockStep, ReadBegins, ReadEnds, OtherWriterBegins, OtherWriterEnds, StaysIdle
<1> QED
  BY <1>2, <1>3, <1>4, <1>5, <1>6, <1>7 DEF Next

-----------------------------------------------------------------------------
(* Theorems *)

LEMMA InitSound == Init => JobsInv
<1> SUFFICES ASSUME Init PROVE JobsInv
  OBVIOUS
<1>1. [writer |-> None, readers |-> 0] \in LockState
  BY JobsAssumption DEF LockState
<1>2. TypeOK
  BY <1>1, Defaults DEF Init, TypeOK
<1>3. ~NoTask.timer /\ ~NoTask.cloning
  BY DEF NoTask
<1>4. ASSUME NEW j \in Job PROVE Sound(j, NoJob, NoTask, NoChild, lock)
  <2>1. \A r \in Repo : lock[r].writer # j
    BY JobsAssumption DEF Init
  <2> QED
    BY <1>3, <2>1, Defaults
       DEF Sound, HolderActs, WorkerHolds, NeverStarted, RetryHolds, NotYetComplete, CloneAlone, Unused
<1> QED
  BY <1>2, <1>4 DEF Init, JobsInv

LEMMA NextSound ==
  ASSUME JobsInv, [Next]_vars
  PROVE  JobsInv'
<1>1. CASE UNCHANGED vars
  BY <1>1 DEF vars, JobsInv, TypeOK
<1>2. ASSUME NEW j \in Job, NEW r \in Repo, PostPath(j, r) \/ PostUrl(j, r) PROVE JobsInv'
  BY <1>2, PostSound
<1>3. ASSUME NEW j \in Job, WorkerStep(j) PROVE JobsInv'
  BY <1>3, WorkerSound
<1>4. ASSUME NEW j \in Job, ServerStep(j) PROVE JobsInv'
  BY <1>4, CloneSound, RetrySound, CancelOrTimeoutSound, CleanupSound, KillTimerSound,
     ProgressSound, CompleteSound, ErrorSound, SpawnErrorSound, ExitSound, ReloadSound
     DEF ServerStep, OnMessage
<1>5. ASSUME NEW r \in Repo, LockStep(r) PROVE JobsInv'
  BY <1>5, LockStepSound
<1> QED
  BY <1>1, <1>2, <1>3, <1>4, <1>5 DEF Next

\* The inductive invariant: every job is sound.
THEOREM JobsInvHolds == Spec => []JobsInv
<1>1. Init => JobsInv
  BY InitSound
<1>2. JobsInv /\ [Next]_vars => JobsInv'
  BY NextSound
<1> QED
  BY <1>1, <1>2, PTL DEF Spec

\* Records, closures, processes and locks keep their types; in particular no job
\* is retried more than MaxRetries times, whatever its workers report.
THEOREM JobTypes == Spec => []TypeOK
<1>1. JobsInv => TypeOK
  BY DEF JobsInv
<1> QED
  BY <1>1, JobsInvHolds, PTL

\* A worker works on a repository only under its job's lock, for any number of
\* jobs and repositories.
THEOREM LockCovers == Spec => []LockCoversWork
<1>1. JobsInv => LockCoversWork
  BY DEF JobsInv, Sound, NotYetComplete, WorkerHolds, NeverStarted, Holds, LockCoversWork
<1> QED
  BY <1>1, JobsInvHolds, PTL

\* A job that holds a lock has a process, a message or a retry that will release it.
THEOREM HolderReleases == Spec => []LockHolderReleases
<1>1. JobsInv => LockHolderReleases
  BY DEF JobsInv, Sound, HolderActs, LockHolderReleases
<1> QED
  BY <1>1, JobsInvHolds, PTL

\* A worker that completed is not run again, whatever retries its exit and its
\* errors left behind.
THEOREM CompletedStays == Spec => CompletedNeverReruns
<1>1. JobsInv /\ [Next]_vars => \A j \in Job : StaysIdle(j)
  BY NextStaysIdle
<1>2. JobsInv /\ [Next]_vars
      => [\A j \in Job : task[j].completed /\ child[j].proc = "none"
            => child'[j].proc = "none" \/ ~task'[j].completed]_vars
  BY <1>1 DEF StaysIdle
<1> QED
  BY <1>2, JobsInvHolds, PTL DEF Spec, CompletedNeverReruns
=============================================================================
