-------------------------------- MODULE JobLedger --------------------------------
(***************************************************************************)
(* The ledger jobs.json of the server's job managers (server/analyze-job.ts): *)
(* updates of a job ask for a save, at once or within a second, saves are    *)
(* chained, the file is truncated and then written, and a server that starts *)
(* takes the jobs from it and marks the active ones as failed.               *)
(*                                                                           *)
(* Only what a save tells apart is kept of a job: its status and how far its *)
(* progress is.  Who may change a job when is the subject of AnalyzeJobs.    *)
(***************************************************************************)
EXTENDS Naturals, FiniteSets

CONSTANTS
  Jobs,      \* jobs
  MaxSteps,  \* bound: progress of a job
  MaxSaves,  \* bound: saves in the chain
  MaxFaults, \* bound: failed writes, and servers that die or exit
  NoWrite    \* no write is going on

VARIABLES
  jobs,    \* the jobs in memory
  disk,    \* jobs.json: the jobs written, or NoWrite for a truncated file
  writing, \* the jobs that a running writeFile writes
  chained, \* saves in the chain of pendingSave that have not begun
  timer,   \* ledgerSaveTimer is set
  missed,  \* the last save failed
  failures   \* faults so far

ledgerVars == <<jobs, disk, writing, chained, timer, missed, failures>>

None == [status |-> "none", step |-> 0]
Active == {[status |-> "active", step |-> s] : s \in 0..MaxSteps}
Terminal == [status : {"complete", "failed"}, step : 0..MaxSteps]
Job == {None} \union Active \union Terminal

Init ==
  /\ jobs = [j \in Jobs |-> None] /\ disk = jobs
  /\ writing = NoWrite /\ chained = 0
  /\ timer = FALSE /\ missed = FALSE /\ failures = 0

-----------------------------------------------------------------------------
\* Mutant: no second save is queued behind the first.
ScheduleSave_Once(immediate) ==
  IF immediate THEN timer' = FALSE /\ chained' = IF writing = NoWrite THEN 1 ELSE chained
  ELSE timer' = TRUE /\ UNCHANGED chained

\* scheduleLedgerSave
ScheduleSave(immediate) ==
  IF immediate THEN chained < MaxSaves /\ timer' = FALSE /\ chained' = chained + 1
  ELSE timer' = TRUE /\ UNCHANGED chained

Create(j) ==
  /\ jobs[j] = None
  /\ jobs' = [jobs EXCEPT ![j] = [status |-> "active", step |-> 0]]
  /\ ScheduleSave(TRUE)
  /\ UNCHANGED <<disk, writing, missed, failures>>

\* updateJob with an active status and progress only; it comes late, too, and
\* makes a job active again that had ended.
Progress(j) ==
  /\ jobs[j] # None /\ jobs[j].step < MaxSteps
  /\ jobs' = [jobs EXCEPT ![j] = [status |-> "active", step |-> @.step + 1]]
  /\ ScheduleSave(FALSE)
  /\ UNCHANGED <<disk, writing, missed, failures>>

Finish(j, status) ==
  /\ jobs[j] \in Active
  /\ jobs' = [jobs EXCEPT ![j].status = status]
  /\ ScheduleSave(TRUE)
  /\ UNCHANGED <<disk, writing, missed, failures>>

\* cleanup: jobs that ended an hour ago are dropped, and one save is asked for.
Cleanup ==
  \E old \in SUBSET {j \in Jobs : jobs[j] \in Terminal} :
    /\ old # {}
    /\ jobs' = [j \in Jobs |-> IF j \in old THEN None ELSE jobs[j]]
    /\ ScheduleSave(TRUE)
    /\ UNCHANGED <<disk, writing, missed, failures>>

\* The second is over, or dispose makes the save that waits for it now.
TimerFires ==
  /\ timer
  /\ ScheduleSave(TRUE)
  /\ UNCHANGED <<jobs, disk, writing, missed, failures>>

\* The next save of the chain: the directory is there, the jobs are put into
\* text, and writeFile has truncated the file.
SaveBegins ==
  /\ chained > 0 /\ writing = NoWrite
  /\ chained' = chained - 1
  /\ writing' = jobs /\ disk' = NoWrite
  /\ UNCHANGED <<jobs, timer, missed, failures>>

\* mkdir or the opening of the file fails: the error is printed only.
SaveRefused ==
  /\ chained > 0 /\ writing = NoWrite /\ failures < MaxFaults
  /\ chained' = chained - 1
  /\ missed' = TRUE /\ failures' = failures + 1
  /\ UNCHANGED <<jobs, disk, writing, timer>>

SaveEnds ==
  /\ writing # NoWrite
  /\ disk' = writing /\ writing' = NoWrite
  /\ missed' = FALSE
  /\ UNCHANGED <<jobs, chained, timer, failures>>

WriteFails ==
  /\ writing # NoWrite /\ failures < MaxFaults
  /\ writing' = NoWrite
  /\ missed' = TRUE /\ failures' = failures + 1
  /\ UNCHANGED <<jobs, disk, chained, timer>>

\* loadLedger: no job is left if the file cannot be read as JSON.
Recovered(ledger) ==
  IF ledger = NoWrite THEN [j \in Jobs |-> None]
  ELSE [j \in Jobs |-> IF ledger[j] \in Active THEN [ledger[j] EXCEPT !.status = "failed"]
                       ELSE ledger[j]]

\* The server dies, or exits after dispose, and the next one starts.
Restart ==
  /\ failures < MaxFaults
  /\ jobs' = Recovered(disk)
  /\ writing' = NoWrite /\ chained' = 0 /\ timer' = FALSE
  /\ missed' = FALSE /\ failures' = failures + 1
  /\ UNCHANGED disk

Next ==
  \/ \E j \in Jobs : Create(j) \/ Progress(j) \/ \E s \in {"complete", "failed"} : Finish(j, s)
  \/ Cleanup \/ TimerFires
  \/ SaveBegins \/ SaveRefused \/ SaveEnds \/ WriteFails \/ Restart

Spec == Init /\ [][Next]_ledgerVars

-----------------------------------------------------------------------------
(* Properties *)

\* Types of the ledger's state.
TypeOK ==
  /\ jobs \in [Jobs -> Job]
  /\ {disk, writing} \subseteq [Jobs -> Job] \union {NoWrite}
  /\ chained \in 0..MaxSaves /\ failures \in 0..MaxFaults /\ {timer, missed} \subseteq BOOLEAN

\* Once no save is due, a restart finds every job as it is, but for active
\* ones, which it marks as failed; unless the last save failed.
LedgerCurrent ==
  chained = 0 /\ writing = NoWrite /\ ~timer /\ ~missed => Recovered(disk) = Recovered(jobs)
=============================================================================
