-------------------------------- MODULE ParsePool --------------------------------
(***************************************************************************)
(* The parse worker pool (core/ingestion/workers/worker-pool.ts), the        *)
(* protocol of a worker (workers/parse-worker.ts) and the recovery around    *)
(* it (core/ingestion/parsing-processor.ts), for one chunk of a repository.  *)
(*                                                                           *)
(* A dispatch cuts its files into one piece per worker; a worker gets its    *)
(* piece in sub-batches, answers each with a result part, and is flushed at  *)
(* the end.  When a piece fails, by an error message, the worker's exit or   *)
(* the watchdog, the dispatch is given up: all workers are terminated and    *)
(* replaced, the parts that were streamed are thrown away, and the files are *)
(* parsed again, either sequentially or in windows and halves down to single *)
(* files, which are quarantined if they fail alone.                          *)
(*                                                                           *)
(* The main thread is JavaScript: an action of it is one event handler with  *)
(* the microtasks that follow.  Progress messages, diagnostics and durations *)
(* are left out: the watchdog of a piece may fire whenever it is armed.  The *)
(* sequential parser is one step: a fault that also crashes or hangs the     *)
(* main thread ends the program, and is not modelled.                        *)
(***************************************************************************)
EXTENDS Naturals, SequencesExt, FiniteSetsExt

CONSTANTS
  NFiles,     \* files 1..NFiles, in the order of the list
  Chunk,      \* files read and parsed at a time
  Size,       \* workers of the pool
  Batch,      \* WORKER_SUB_BATCH_SIZE
  Window,     \* PARSE_WORKER_RECOVERY_WINDOW_SIZE
  NWorkers,   \* bound: worker identities, used again once nothing refers to them
  Faults,     \* what parsing a file may do to a worker
  MaxKills,   \* bound: workers that die of themselves (the OOM killer)
  None        \* a hole in the array of workers

ASSUME ParseAssumption ==
  /\ {NFiles, Chunk, Size, Batch, Window, NWorkers} \subseteq Nat \ {0}
  /\ Size <= NWorkers
  /\ MaxKills \in {0, 1}
  /\ Faults \subseteq {"none", "error", "stall"}
  /\ None \notin 1..NWorkers

File == 1..NFiles
Worker == 1..NWorkers
Slot == 1..Size

VARIABLES
  setting,  \* isolation and failure policy of this analysis, faults of the files
  workers,  \* the array `workers'
  proc,     \* proc[w]: the worker thread or process
  piece,    \* piece[i]: the closure of chunk i of the latest dispatch
  stale,    \* closures of earlier dispatches that never settled: slot and worker
  run,      \* the dispatch in progress and the parts it streamed
  todo,     \* files still to be dispatched: the pending calls of the recovery
  graph,    \* graph[f]: how often the results of f were applied to the graph
  skipped   \* quarantined files

vars == <<setting, workers, proc, piece, stale, run, todo, graph, skipped>>

Task == [lo : File, hi : File, kind : {"whole", "recovery"}]
Files(t) == t.lo..t.hi
UpTo(lo, hi, k) == IF lo + k - 1 < hi THEN lo + k - 1 ELSE hi

\* The files lo..hi in tasks of at most k files.
Cut(lo, hi, k, kind) ==
  [j \in 1..((hi - lo + k) \div k) |->
     [lo |-> lo + (j - 1) * k, hi |-> UpTo(lo + (j - 1) * k, hi, k), kind |-> kind]]

Msg(type, files) == [type |-> type, files |-> files]
Flush == [do |-> "flush", lo |-> 0, hi |-> 0]
NoCommand == [Flush EXCEPT !.do = "none"]

Gone == [state |-> "gone", dying |-> FALSE, cmd |-> NoCommand, out |-> <<>>]
Fresh == [Gone EXCEPT !.state = "live"]
NoPiece == [worker |-> None, next |-> 0, hi |-> 0, open |-> FALSE]
NoFiles == [f \in File |-> 0]

\* createWorkerPool, with nothing dispatched yet.
Init ==
  /\ setting \in [isolation : {"thread", "process"}, policy : {"sequential", "quarantine"},
                  fault : [File -> Faults]]
  /\ workers = [i \in Slot |-> i]
  /\ proc = [w \in Worker |-> IF w \in Slot THEN Fresh ELSE Gone]
  /\ piece = [i \in Slot |-> NoPiece]
  /\ stale = {}
  /\ run = [phase |-> "idle", streamed |-> NoFiles, awaiting |-> {}, kills |-> 0]
  /\ todo = Cut(1, NFiles, Chunk, "whole")
  /\ graph = NoFiles
  /\ skipped = {}

-----------------------------------------------------------------------------
(* Workers *)

\* The workers in the array; forEach and map skip holes.
Listed(ws) == ToSet(ws) \ {None}

\* Assigning past the end of an array leaves holes.
WithSlot(ws, i, w) ==
  [k \in 1..(IF i > Len(ws) THEN i ELSE Len(ws)) |->
     IF k = i THEN w ELSE IF k <= Len(ws) THEN ws[k] ELSE None]

Attached(w) == {i \in Slot : piece[i].worker = w /\ piece[i].open}

\* spawnWorker: n identities that nothing refers to (bound: there are NWorkers).
Unused == {w \in Worker : proc[w].state = "gone" /\ w \notin Listed(workers) \union run.awaiting}
CanSpawn(n) == Cardinality(Unused) >= n
Spawned(n) == CHOOSE ws \in [1..n -> Unused] : IsInjective(ws)

\* The message handler of a worker: a sub-batch is answered by its part, or
\* stopped by its first faulty file.
WorkerRuns(w) ==
  LET p == proc[w]
      faulty == {f \in p.cmd.lo..p.cmd.hi : setting.fault[f] # "none"}
      idle == [p EXCEPT !.cmd = NoCommand]
      Sends(ms) == [idle EXCEPT !.out = @ \o ms]
  IN /\ p.state = "live" /\ p.cmd.do # "none"
     /\ proc' = [proc EXCEPT ![w] =
          CASE p.cmd.do = "flush" -> Sends(<<Msg("result", {})>>)
            [] p.cmd.do = "parse" /\ faulty = {} ->
                 Sends(<<Msg("part", p.cmd.lo..p.cmd.hi), Msg("done", {})>>)
            [] OTHER -> IF setting.fault[Min(faulty)] = "error"
                        THEN Sends(<<Msg("error", {})>>)
                        ELSE [idle EXCEPT !.state = "stuck"]]
     /\ UNCHANGED <<setting, workers, piece, stale, run, todo, graph, skipped>>

\* terminate() takes effect; for a child process SIGKILL follows SIGTERM.
WorkerDies(w) ==
  /\ proc[w].state \in {"live", "stuck"} /\ proc[w].dying
  /\ proc' = [proc EXCEPT ![w].state = "dead", ![w].cmd = NoCommand]
  /\ UNCHANGED <<setting, workers, piece, stale, run, todo, graph, skipped>>

\* A worker dies of itself: a child process at any time, a thread when it
\* parses (an idle thread that fails raises `error' with no listener, which
\* ends the program).
WorkerKilled(w) ==
  /\ run.kills < MaxKills
  /\ proc[w].state \in {"live", "stuck"} /\ ~proc[w].dying
  /\ setting.isolation = "thread" => proc[w].cmd.do = "parse"
  /\ proc' = [proc EXCEPT ![w].state = "dead", ![w].cmd = NoCommand]
  /\ run' = [run EXCEPT !.kills = @ + 1]
  /\ UNCHANGED <<setting, workers, piece, stale, todo, graph, skipped>>

-----------------------------------------------------------------------------
(* The dispatch *)

Closed(ps, is) == [i \in Slot |-> IF i \in is THEN NoPiece ELSE ps[i]]
Dying(pc, ws) ==
  [w \in Worker |-> IF w \in ws /\ pc[w].state # "gone" THEN [pc[w] EXCEPT !.dying = TRUE]
                    ELSE pc[w]]

\* Mutant: the failed dispatch forgets its workers without terminating them.
GiveUp_DropsWorkers(ws, pc) ==
  IF run.phase \in {"idle", "running"}
    THEN /\ workers' = <<>>
         /\ proc' = pc
         /\ run' = [run EXCEPT !.phase = "resetting", !.awaiting = Listed(ws),
                               !.streamed = NoFiles]
    ELSE workers' = ws /\ proc' = pc /\ UNCHANGED run

\* The rejection of a piece, with the array and the workers as its handler
\* left them: the first one empties the array and terminates the workers.
GiveUp(ws, pc) ==
  IF run.phase \in {"idle", "running"}
    THEN /\ workers' = <<>>
         /\ proc' = Dying(pc, Listed(ws))
         /\ run' = [run EXCEPT !.phase = "resetting", !.awaiting = Listed(ws),
                               !.streamed = NoFiles]
    ELSE workers' = ws /\ proc' = pc /\ UNCHANGED run

\* dispatch(): the sub-batch of piece i that starts with file lo, or the flush.
SendNext(i, lo, hi) ==
  IF lo > hi THEN Flush ELSE [do |-> "parse", lo |-> lo, hi |-> UpTo(lo, hi, Batch)]

\* One piece per worker: ceil(n / Size) files each.
Pieces(t) == Cut(t.lo, t.hi, (t.hi - t.lo + Size) \div Size, "whole")

\* dispatch() cuts the files of the next task and posts the first sub-batches.
\* A hole makes the piece reject at worker.on(); a child process that is gone,
\* at postMessage, with its watchdog already armed.
StartDispatch ==
  LET pieces == Pieces(Head(todo))
      used == DOMAIN pieces
      holes == {i \in used : i > Len(workers) \/ workers[i] = None}
      throws == {i \in used \ holes : proc[workers[i]].state = "gone"}
      starts == used \ (holes \union throws)
      posted == [w \in Worker |->
                   IF \E i \in starts : workers[i] = w
                     THEN LET i == CHOOSE i \in starts : workers[i] = w
                          IN [proc[w] EXCEPT !.cmd = SendNext(i, pieces[i].lo, pieces[i].hi)]
                     ELSE proc[w]]
  IN /\ run.phase = "idle" /\ todo # <<>>
     /\ piece' = [i \in Slot |->
                    IF i \in starts
                      THEN [worker |-> workers[i], hi |-> pieces[i].hi, open |-> TRUE,
                            next |-> UpTo(pieces[i].lo, pieces[i].hi, Batch) + 1]
                      ELSE NoPiece]
     /\ stale' = stale \union {[slot |-> i, worker |-> None] : i \in throws}
     /\ IF starts = used
          THEN /\ proc' = posted /\ run' = [run EXCEPT !.phase = "running"]
               /\ UNCHANGED workers
          ELSE GiveUp(workers, posted)
     /\ UNCHANGED <<setting, todo, graph, skipped>>

\* All pieces are resolved: the mutations are applied, and the call returns.
Succeed(streamed) ==
  /\ graph' = [f \in File |-> graph[f] + streamed[f]]
  /\ run' = [run EXCEPT !.phase = "idle", !.streamed = NoFiles]
  /\ todo' = Tail(todo)

\* Mutant: late parts go to the buffer of the next dispatch.
OnPart_Late(i, files) ==
  /\ run' = [run EXCEPT !.streamed = [f \in File |-> @[f] + IF f \in files THEN 1 ELSE 0]]
  /\ UNCHANGED <<workers, piece, todo, graph>>

\* A part is buffered for the current dispatch; parts that come after it was
\* given up go to a buffer that nobody reads.
OnPart(i, files) ==
  /\ run' = IF run.phase = "running"
              THEN [run EXCEPT !.streamed = [f \in File |-> @[f] + IF f \in files THEN 1 ELSE 0]]
              ELSE run
  /\ UNCHANGED <<workers, piece, todo, graph>>

OnSubBatchDone(i, received) ==
  LET next == piece[i].next
  IN /\ piece' = [piece EXCEPT ![i].next =
                    IF next > piece[i].hi THEN next ELSE UpTo(next, piece[i].hi, Batch) + 1]
     /\ proc' = [received EXCEPT ![piece[i].worker].cmd = SendNext(i, next, piece[i].hi)]
     /\ UNCHANGED <<workers, run, todo, graph>>

\* Mutant: the dispatch resolves with its first piece.
OnResult_FirstPiece(i) ==
  /\ piece' = Closed(piece, {i})
  /\ IF run.phase = "running" THEN Succeed(run.streamed) ELSE UNCHANGED <<run, todo, graph>>
  /\ UNCHANGED workers

OnResult(i) ==
  /\ piece' = Closed(piece, {i})
  /\ IF run.phase = "running" /\ \A j \in Slot \ {i} : ~piece[j].open
       THEN Succeed(run.streamed) ELSE UNCHANGED <<run, todo, graph>>
  /\ UNCHANGED workers

\* The message handler of the piece that listens to w; without one the message
\* is dropped.
OnMessage(w) ==
  LET m == Head(proc[w].out)
      received == [proc EXCEPT ![w].out = Tail(@)]
      i == CHOOSE i \in Attached(w) : TRUE
  IN /\ proc[w].out # <<>>
     /\ CASE Attached(w) = {} -> /\ proc' = received
                                 /\ UNCHANGED <<workers, piece, run, todo, graph>>
          [] m.type = "part" /\ Attached(w) # {} -> proc' = received /\ OnPart(i, m.files)
          [] m.type = "done" /\ Attached(w) # {} -> OnSubBatchDone(i, received)
          [] m.type = "result" /\ Attached(w) # {} -> proc' = received /\ OnResult(i)
          [] m.type = "error" /\ Attached(w) # {} ->
               /\ piece' = Closed(piece, {i})
               /\ GiveUp(workers, received)
               /\ UNCHANGED <<todo, graph>>
     /\ UNCHANGED <<setting, stale, skipped>>

\* The exit of a worker is reported; a thread's messages come before it.
OnExit(w) ==
  /\ proc[w].state = "dead"
  /\ setting.isolation = "thread" => proc[w].out = <<>>
  /\ piece' = Closed(piece, Attached(w))
  /\ IF Attached(w) # {} THEN GiveUp(workers, [proc EXCEPT ![w] = Gone])
     ELSE proc' = [proc EXCEPT ![w] = Gone] /\ UNCHANGED <<workers, run>>
  /\ stale' = {c \in stale : c.worker # w}
  /\ UNCHANGED <<setting, todo, graph, skipped>>

\* Mutant: the watchdog is never armed.
Watchdog_Never(i) == FALSE /\ UNCHANGED vars

\* The watchdog of piece i: its worker is terminated and replaced.  Nobody
\* listens to the old worker any more, so that it is gone as far as the pool
\* can tell.
Watchdog(i) ==
  LET w == piece[i].worker
      new == Spawned(1)[1]
  IN /\ piece[i].open /\ CanSpawn(1)
     /\ piece' = Closed(piece, {i})
     /\ GiveUp(WithSlot(workers, i, new), [proc EXCEPT ![w] = Gone, ![new] = Fresh])
     /\ UNCHANGED <<setting, stale, todo, graph, skipped>>

\* The same timer, of a piece whose postMessage threw, or that still ran when its
\* dispatch was over, on a worker that the array had lost.
StaleTimer(c) ==
  LET new == Spawned(1)[1]
  IN /\ CanSpawn(1)
     /\ stale' = stale \ {c}
     /\ workers' = WithSlot(workers, c.slot, new)
     /\ proc' = [w \in Worker |-> IF w = new THEN Fresh ELSE IF w = c.worker THEN Gone ELSE proc[w]]
     /\ UNCHANGED <<setting, piece, run, todo, graph, skipped>>

\* Such a piece settles with a result or an error, which no dispatch waits for.
StaleSettles(c) ==
  /\ c.worker # None
  /\ stale' = stale \ {c}
  /\ UNCHANGED <<setting, workers, proc, piece, run, todo, graph, skipped>>

-----------------------------------------------------------------------------
(* Recovery *)

\* What takes the place of a task whose dispatch failed: windows, then halves, down
\* to single files.
Retry(t) ==
  LET n == t.hi - t.lo + 1
  IN CASE t.kind = "whole" -> Cut(t.lo, t.hi, Window, "recovery")
       [] t.kind = "recovery" /\ n = 1 -> <<>>
       [] OTHER -> Cut(t.lo, t.hi, (n + 1) \div 2, "recovery")

\* The terminated workers are gone: new ones are pushed, and the dispatch throws.
\* A piece may be left over, whose worker had lost its slot to a stale timer.
ResetDone ==
  LET t == Head(todo)
      fresh == Spawned(Size)
  IN /\ run.phase = "resetting" /\ \A w \in run.awaiting : proc[w].state = "gone"
     /\ CanSpawn(Size)
     /\ workers' = workers \o fresh
     /\ stale' = stale \union {[slot |-> i, worker |-> piece[i].worker] : i \in {k \in Slot : piece[k].open}}
     /\ piece' = Closed(piece, Slot)
     /\ proc' = [w \in Worker |-> IF w \in ToSet(fresh) THEN Fresh ELSE proc[w]]
     /\ run' = [run EXCEPT !.phase = "idle", !.awaiting = {}]
     /\ IF setting.policy = "sequential"
          THEN /\ graph' = [f \in File |-> graph[f] + IF f >= t.lo THEN 1 ELSE 0]
               /\ todo' = <<>>
               /\ UNCHANGED skipped
          ELSE /\ todo' = Retry(t) \o Tail(todo)
               /\ skipped' = IF Retry(t) = <<>> THEN skipped \union Files(t) ELSE skipped
               /\ UNCHANGED graph
     /\ UNCHANGED setting

\* terminate(), when all files are parsed or the rest is parsed sequentially.
Close ==
  /\ run.phase = "idle" /\ todo = <<>>
  /\ proc' = Dying(proc, Listed(workers))
  /\ run' = [run EXCEPT !.phase = "closing", !.awaiting = Listed(workers)]
  /\ UNCHANGED <<setting, workers, piece, stale, todo, graph, skipped>>

Closes ==
  /\ run.phase = "closing" /\ \A w \in run.awaiting : proc[w].state = "gone"
  /\ workers' = <<>>
  /\ run' = [run EXCEPT !.phase = "done", !.awaiting = {}]
  /\ UNCHANGED <<setting, proc, piece, stale, todo, graph, skipped>>

Done == run.phase = "done" /\ stale = {} /\ UNCHANGED vars

-----------------------------------------------------------------------------

Next ==
  \/ \E w \in Worker : WorkerRuns(w) \/ WorkerDies(w) \/ WorkerKilled(w) \/ OnMessage(w) \/ OnExit(w)
  \/ \E i \in Slot : Watchdog(i)
  \/ \E c \in stale : StaleTimer(c) \/ StaleSettles(c)
  \/ StartDispatch \/ ResetDone \/ Close \/ Closes \/ Done

\* The event loop serves messages, exits and timers, workers run, and terminated
\* workers die; nothing is assumed of a worker that is stuck.  Every step is
\* progress, so that fairness to each kind of step is enough.
Fairness ==
  /\ WF_vars(\E w \in Worker : WorkerRuns(w) \/ WorkerDies(w) \/ OnMessage(w) \/ OnExit(w))
  /\ WF_vars(\E i \in Slot : Watchdog(i))
  /\ WF_vars(StartDispatch \/ ResetDone \/ Close \/ Closes)

Spec == Init /\ [][Next]_vars /\ Fairness

-----------------------------------------------------------------------------
(* Properties *)

\* Every file ends up in the graph exactly once or is quarantined, never both,
\* however often its dispatch was given up and whatever its workers sent late;
\* until then it waits in exactly one task.
Accounted ==
  \A f \in File :
    graph[f] + (IF f \in skipped THEN 1 ELSE 0)
      + Cardinality({k \in DOMAIN todo : f \in Files(todo[k])}) = 1

\* "No silent partial results": the graph only ever takes all the files of the
\* task whose dispatch resolved, or all that the sequential parser takes over.
NoPartialResults ==
  [][graph' # graph =>
       \/ {f \in File : graph'[f] # graph[f]} = Files(Head(todo)) /\ todo' = Tail(todo)
       \/ setting.policy = "sequential" /\ todo' = <<>>]_vars

\* With worker threads a worker that runs and was not terminated is always in
\* the array, so that terminate() reaches it.
NoStrayWorker ==
  setting.isolation = "thread" =>
    \A w \in Worker : proc[w].state \in {"live", "stuck"} /\ ~proc[w].dying => w \in Listed(workers)

\* Every parse comes to an end, whatever hangs or dies.
ParseEnds == <>(run.phase = "done")

\* "Respawn before reject ensures the slot is live for the next dispatch".
SlotsLive ==
  run.phase = "idle" /\ todo # <<>> => \A i \in Slot : i <= Len(workers) /\ workers[i] # None
=============================================================================
