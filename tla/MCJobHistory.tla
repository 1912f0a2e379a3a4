------------------------------ MODULE MCJobHistory ------------------------------
(***************************************************************************)
(* AnalyzeJobs with a history variable: the jobs that were cancelled.       *)
(***************************************************************************)
EXTENDS AnalyzeJobs

VARIABLE cancelled

HistoryInit == Init /\ cancelled = {}

HistoryNext ==
  /\ Next
  /\ cancelled' = (cancelled \union {j \in Job : Cancel(j)}) \ {j \in Job : job'[j] = NoJob}

HistorySpec == HistoryInit /\ [][HistoryNext]_<<vars, cancelled>>

\* api-analyze-routes.ts:500, "cancel a running analysis job": no worker is
\* started for a job after it has been cancelled.
CancelledNeverRestarts ==
  [][\A j \in cancelled : child[j].proc = "none" => child'[j].proc = "none"]_<<vars, cancelled>>
=============================================================================
