----------------------------- MODULE ParsePool_proofs -----------------------------
(***************************************************************************)
(* The parse worker pool, for any number of files, workers, identities and   *)
(* any sizes of chunks, batches and windows.                                 *)
(*                                                                           *)
(* While a dispatch runs, every file of its task has been streamed once, or  *)
(* one open piece still owes it, or a piece has failed and will end the      *)
(* dispatch; when the last piece ends with its result nothing is owed.  What *)
(* waits is a row of tasks without gaps, of which a dispatch or the recovery *)
(* replaces the first.                                                       *)
(***************************************************************************)
EXTENDS ParsePool, FiniteSetTheorems, TLAPS

-----------------------------------------------------------------------------
(* Types *)

Command == [do : {"none", "parse", "flush"}, lo : Nat, hi : Nat]
Message == [type : {"part", "done", "result", "error"}, files : SUBSET Nat]
ProcState ==
  [state : {"live", "stuck", "dead", "gone"}, dying : BOOLEAN, cmd : Command, out : Seq(Message)]
PieceState == [worker : Worker \union {None}, next : Nat, hi : 0..NFiles, open : BOOLEAN]
RunState ==
  [phase : {"idle", "running", "resetting", "closing", "done"}, streamed : [File -> Nat],
   awaiting : SUBSET Worker, kills : Nat]
StaleState == [slot : Slot, worker : Worker \union {None}]

PoolTypes ==
  /\ setting \in [isolation : {"thread", "process"}, policy : {"sequential", "quarantine"},
                  fault : [File -> Faults]]
  /\ workers \in Seq(Worker \union {None})
  /\ proc \in [Worker -> ProcState]
  /\ piece \in [Slot -> PieceState]
  /\ stale \in SUBSET StaleState
  /\ run \in RunState
  /\ todo \in Seq(Task)
  /\ graph \in [File -> Nat]
  /\ skipped \in SUBSET File

-----------------------------------------------------------------------------
(* The parts of the inductive invariant *)

Waiting(s) == {f \in File : \E k \in DOMAIN s : f \in Files(s[k])}

\* The waiting tasks follow each other, and cover what comes after their beginning.
Tiled(s) ==
  /\ \A k \in DOMAIN s : s[k].lo <= s[k].hi
  /\ \A j, k \in DOMAIN s : j < k => s[j].hi < s[k].lo
  /\ s # <<>> => \A f \in File : f >= s[1].lo => f \in Waiting(s)

\* A file waits, or it is in the graph once, or quarantined.
Booked ==
  \A f \in File :
    /\ f \in Waiting(todo) => graph[f] = 0 /\ f \notin skipped
    /\ f \notin Waiting(todo) => graph[f] = IF f \in skipped THEN 0 ELSE 1

OpenWith(i, w) == piece[i].open /\ piece[i].worker = w

\* Who listens to which worker.
Wired ==
  /\ \A i, j \in DOMAIN workers : workers[i] = workers[j] /\ workers[i] # None => i = j
  /\ \A i, j \in Slot : piece[i].open /\ OpenWith(j, piece[i].worker) => i = j
  /\ \A i \in Slot : piece[i].open =>
       piece[i].worker \in Worker /\ proc[piece[i].worker].state # "gone"
  /\ run.phase # "running" =>
       \A i \in Slot : piece[i].open => \A k \in DOMAIN workers : workers[k] # piece[i].worker
  /\ run.phase \in {"idle", "closing", "done"} => \A i \in Slot : ~piece[i].open
  /\ run.phase \in {"running", "resetting"} => todo # <<>>
  /\ run.phase # "running" => run.streamed = NoFiles

\* A piece left over from an earlier dispatch is alone with its worker.
Leftover ==
  /\ \A c \in stale : c.worker # None =>
       /\ proc[c.worker].state # "gone"
       /\ \A i \in Slot : ~OpenWith(i, c.worker)
       /\ \A k \in DOMAIN workers : workers[k] # c.worker
  /\ \A c, d \in stale : c.worker = d.worker /\ c.worker # None => c = d

\* A worker of the array to whom nobody listens has nothing to do or to say.
Quiet ==
  \A k \in DOMAIN workers :
    workers[k] # None /\ (\A i \in Slot : ~OpenWith(i, workers[k])) =>
      proc[workers[k]].cmd.do = "none" /\ proc[workers[k]].out = <<>>

\* What a piece q and its worker p still have to deliver.
Owed(q, p) ==
  {f \in File : \/ q.next <= f /\ f <= q.hi
                \/ p.cmd.do = "parse" /\ p.cmd.lo <= f /\ f <= p.cmd.hi
                \/ Len(p.out) = 2 /\ f \in p.out[1].files}

Failed(p) == p.cmd.do = "none" /\ (p.out = <<>> \/ (Len(p.out) = 1 /\ p.out[1].type = "error"))

\* Where a piece and its worker are.
Protocol(q, p) ==
  \/ p.cmd.do = "parse" /\ p.out = <<>> /\ p.cmd.hi < q.next
  \/ /\ p.cmd.do = "none" /\ Len(p.out) = 2
     /\ p.out[1].type = "part" /\ p.out[2].type = "done"
     /\ \A f \in p.out[1].files : f < q.next
  \/ p.cmd.do = "none" /\ Len(p.out) = 1 /\ p.out[1].type = "done"
  \/ p.cmd.do = "flush" /\ p.out = <<>> /\ q.next > q.hi
  \/ p.cmd.do = "none" /\ Len(p.out) = 1 /\ p.out[1].type = "result" /\ q.next > q.hi
  \/ Failed(p)

\* What is owed on piece i, and whether it has failed.
Owes(i) == Owed(piece[i], proc[piece[i].worker])
Fails(i) == Failed(proc[piece[i].worker])

\* A file of the task is streamed, or some open piece owes it or has failed.
StreamedNow ==
  /\ \A f \in File : run.streamed[f] \in {0, 1}
  /\ \A f \in File : run.streamed[f] = 1 => f \in Files(Head(todo))
  /\ \A f \in Files(Head(todo)) : run.streamed[f] = 0 =>
       \E i \in Slot : piece[i].open /\ (f \in Owes(i) \/ Fails(i))
  /\ \A i \in Slot : piece[i].open =>
       /\ Protocol(piece[i], proc[piece[i].worker])
       /\ \A f \in Owes(i) : f \in Files(Head(todo)) /\ run.streamed[f] = 0
  /\ \A i, j \in Slot : piece[i].open /\ piece[j].open /\ i # j =>
       \A f \in Owes(i) : f \notin Owes(j)

Streaming == run.phase = "running" => StreamedNow

Threads ==
  setting.isolation = "thread" =>
    /\ stale = {}
    /\ run.phase \in {"idle", "running", "resetting"} =>
         \A k \in DOMAIN workers : workers[k] # None =>
           /\ ~proc[workers[k]].dying
           /\ \/ proc[workers[k]].state = "live"
              \/ /\ run.phase = "running" /\ proc[workers[k]].out = <<>>
                 /\ \E i \in Slot : OpenWith(i, workers[k])
    /\ run.phase = "running" =>
         \A i \in Slot : piece[i].open => i \in DOMAIN workers /\ workers[i] = piece[i].worker
    /\ run.phase = "resetting" =>
         \A i \in Slot : piece[i].open =>
           piece[i].worker \in run.awaiting /\ (i \in DOMAIN workers => workers[i] = None)
    /\ run.phase = "closing" => Listed(workers) \subseteq run.awaiting
    /\ \A w \in Worker : proc[w].state \in {"live", "stuck"} /\ ~proc[w].dying =>
         \E k \in DOMAIN workers : workers[k] = w

ParseInv ==
  PoolTypes /\ Tiled(todo) /\ Booked /\ Wired /\ Leftover /\ Quiet /\ Streaming /\ Threads

-----------------------------------------------------------------------------
(* Cutting a range of files *)

LEMMA Times ==
  ASSUME NEW i \in Nat, NEW j \in Nat, NEW k \in Nat, i <= j
  PROVE  i * k \in Nat /\ i * k <= j * k /\ (i + 1) * k = i * k + k
OBVIOUS

LEMMA Divided ==
  ASSUME NEW a \in Nat, NEW k \in Nat \ {0}
  PROVE  a \div k \in Nat /\ (a \div k) * k <= a /\ a < (a \div k) * k + k
OBVIOUS

LEMMA ConstantsTyped ==
  /\ NFiles \in Nat \ {0} /\ Chunk \in Nat \ {0} /\ Size \in Nat \ {0} /\ Batch \in Nat \ {0}
  /\ Window \in Nat \ {0} /\ NWorkers \in Nat \ {0} /\ None \notin Worker
BY ParseAssumption DEF Worker

\* The tasks of a range cover it, one after the other.
LEMMA CutFacts ==
  ASSUME NEW lo \in File, NEW hi \in File, lo <= hi, NEW k \in Nat \ {0},
         NEW kind \in {"whole", "recovery"}
  PROVE  LET c == Cut(lo, hi, k, kind)
             n == (hi - lo + k) \div k
         IN /\ c \in Seq(Task) /\ DOMAIN c = 1..n /\ n \in Nat \ {0} /\ Len(c) = n
            /\ c[1].lo = lo
            /\ \A j \in 1..n : lo <= c[j].lo /\ c[j].lo <= c[j].hi /\ c[j].hi <= hi
            /\ \A i, j \in 1..n : i < j => c[i].hi < c[j].lo
            /\ \A f \in lo..hi : \E j \in 1..n : f \in Files(c[j])
<1> DEFINE c == Cut(lo, hi, k, kind)
           n == (hi - lo + k) \div k
           L(j) == lo + (j - 1) * k
           H(j) == UpTo(L(j), hi, k)
<1>1. lo \in Nat /\ hi \in Nat /\ 1 <= lo /\ hi <= NFiles /\ hi - lo \in Nat
  BY ConstantsTyped DEF File
<1>2. n \in Nat /\ n * k <= hi - lo + k /\ hi - lo + k < n * k + k
  BY <1>1, Divided
<1>3. n # 0 /\ hi - lo < n * k
  BY <1>1, <1>2, Times
<1>4. (n - 1) * k + k = n * k /\ (n - 1) * k <= hi - lo
  <2>1. n - 1 \in Nat
    BY <1>2, <1>3
  <2>2. ((n - 1) + 1) * k = (n - 1) * k + k /\ (n - 1) * k \in Nat
    BY <2>1, Times
  <2>3. (n - 1) + 1 = n
    BY <1>2
  <2> HIDE DEF n
  <2> QED
    BY <1>1, <1>2, <2>2, <2>3, Times
<1> HIDE DEF n
<1>5. ASSUME NEW j \in 1..n
      PROVE  /\ L(j) \in Nat /\ lo <= L(j) /\ L(j) <= hi
             /\ H(j) \in Nat /\ L(j) <= H(j) /\ H(j) <= hi /\ H(j) <= L(j) + k - 1
  <2>1. j - 1 \in Nat /\ n - 1 \in Nat /\ j - 1 <= n - 1
    BY <1>2
  <2>2. (j - 1) * k \in Nat /\ (j - 1) * k <= (n - 1) * k
    BY <2>1, Times
  <2>3. (n - 1) * k \in Nat
    BY <2>1, Times
  <2>4. L(j) \in Nat /\ lo <= L(j) /\ L(j) <= hi
    BY <1>1, <1>4, <2>2, <2>3
  <2> HIDE DEF L
  <2> QED
    BY <1>1, <2>4 DEF UpTo
<1>6. ASSUME NEW i \in 1..n, NEW j \in 1..n, i < j
      PROVE  H(i) < L(j)
  <2>1. i - 1 \in Nat /\ j - 1 \in Nat /\ i \in Nat /\ i <= j - 1
    BY <1>2, <1>6
  <2>2. i * k <= (j - 1) * k /\ i * k \in Nat /\ (j - 1) * k \in Nat
    BY <2>1, Times
  <2>3. ((i - 1) + 1) * k = (i - 1) * k + k /\ (i - 1) * k \in Nat
    BY <2>1, Times
  <2>4. (i - 1) + 1 = i
    BY <2>1
  <2>5. L(i) + k <= L(j)
    BY <1>1, <2>2, <2>3, <2>4
  <2>6. L(i) \in Nat /\ L(j) \in Nat /\ H(i) \in Nat /\ H(i) <= L(i) + k - 1
    BY <1>5
  <2> HIDE DEF L, H
  <2> QED
    BY <2>5, <2>6
<1>7. ASSUME NEW f \in lo..hi
      PROVE  \E j \in 1..n : L(j) <= f /\ f <= H(j)
  <2> DEFINE q == (f - lo) \div k
  <2>1. f \in Nat /\ f - lo \in Nat
    BY <1>1
  <2>2. q \in Nat /\ q * k <= f - lo /\ f - lo < q * k + k
    BY <2>1, Divided
  <2> HIDE DEF q
  <2>3. q < n
    <3>1. CASE n <= q
      <4>1. n * k <= q * k /\ n * k \in Nat /\ q * k \in Nat
        BY <1>2, <2>2, <3>1, Times
      <4> QED
        BY <1>1, <1>3, <2>1, <2>2, <4>1
    <3> QED
      BY <1>2, <2>2, <3>1
  <2>4. q + 1 \in 1..n /\ L(q + 1) = lo + q * k
    BY <1>2, <2>2, <2>3
  <2>5. L(q + 1) <= f /\ f < L(q + 1) + k /\ L(q + 1) \in Nat
    BY <1>1, <1>5, <2>1, <2>2, <2>4
  <2>6. f <= H(q + 1)
    <3> HIDE DEF L
    <3> QED
      BY <1>1, <2>1, <2>5 DEF UpTo
  <2> QED
    BY <2>4, <2>5, <2>6
<1>8. c = [j \in 1..n |-> [lo |-> L(j), hi |-> H(j), kind |-> kind]]
  BY DEF Cut, n
<1> HIDE DEF L, H
<1>9. \A j \in 1..n : [lo |-> L(j), hi |-> H(j), kind |-> kind] \in Task
  BY <1>1, <1>5, ConstantsTyped DEF Task, File
<1>10. \A j \in 1..n : c[j].lo = L(j) /\ c[j].hi = H(j)
  BY <1>8
<1>11. c \in Seq(Task) /\ DOMAIN c = 1..n /\ Len(c) = n
  <2>1. c \in [1..n -> Task]
    BY <1>8, <1>9
  <2> QED
    BY <1>2, <2>1
<1>12. L(1) = lo
  BY <1>1 DEF L
<1> HIDE DEF c
<1>13. c[1].lo = lo
  BY <1>2, <1>3, <1>10, <1>12
<1>14. \A j \in 1..n : lo <= c[j].lo /\ c[j].lo <= c[j].hi /\ c[j].hi <= hi
  BY <1>5, <1>10
<1>15. \A i, j \in 1..n : i < j => c[i].hi < c[j].lo
  BY <1>6, <1>10
<1>16. \A f \in lo..hi : \E j \in 1..n : f \in Files(c[j])
  <2> TAKE f \in lo..hi
  <2>1. PICK j \in 1..n : L(j) <= f /\ f <= H(j)
    BY <1>7
  <2> QED
    BY <1>1, <1>10, <2>1 DEF Files
<1> QED
  BY <1>2, <1>3, <1>11, <1>13, <1>14, <1>15, <1>16 DEF c, n

-----------------------------------------------------------------------------
(* Rows of tasks *)

\* r divides the files of t.
Divides(r, t) ==
  /\ r # <<>> /\ r[1].lo = t.lo
  /\ \A k \in DOMAIN r : t.lo <= r[k].lo /\ r[k].lo <= r[k].hi /\ r[k].hi <= t.hi
  /\ \A j, k \in DOMAIN r : j < k => r[j].hi < r[k].lo
  /\ \A f \in Files(t) : \E k \in DOMAIN r : f \in Files(r[k])

LEMMA TaskFacts ==
  ASSUME NEW t \in Task
  PROVE  /\ t.lo \in Nat /\ t.hi \in Nat /\ 1 <= t.lo /\ t.hi <= NFiles
         /\ \A f : f \in Files(t) <=> f \in File /\ f \in Nat /\ t.lo <= f /\ f <= t.hi
BY ConstantsTyped DEF Task, File, Files

\* A task taken from the front takes its files along.
LEMMA TailFacts ==
  ASSUME NEW s \in Seq(Task), s # <<>>, Tiled(s)
  PROVE  /\ Tail(s) \in Seq(Task) /\ Tiled(Tail(s)) /\ Head(s) \in Task
         /\ \A f \in File : f \in Waiting(Tail(s)) <=> f \in Waiting(s) /\ f \notin Files(Head(s))
         /\ \A f \in Files(Head(s)) : f \in File /\ f \in Waiting(s)
         /\ \A f \in File : f >= Head(s).lo => f \in Waiting(s)
<1> DEFINE t == Tail(s)
<1>1. /\ Len(s) \in Nat \ {0} /\ DOMAIN s = 1..Len(s) /\ t \in Seq(Task) /\ DOMAIN t = 1..(Len(s) - 1)
      /\ Len(t) = Len(s) - 1
      /\ \A k \in DOMAIN t : t[k] = s[k + 1]
      /\ Head(s) = s[1] /\ Head(s) \in Task
  OBVIOUS
<1>2. \A k \in DOMAIN s : s[k] \in Task
  BY <1>1
<1> HIDE DEF t
<1>3. \A k \in DOMAIN t : k + 1 \in DOMAIN s /\ k + 1 \in Nat
  BY <1>1
<1>4. ASSUME NEW f \in File
      PROVE  f \in Waiting(t) <=> f \in Waiting(s) /\ f \notin Files(Head(s))
  <2>1. ASSUME NEW k \in DOMAIN t, f \in Files(t[k])
        PROVE  f \in Waiting(s) /\ f \notin Files(Head(s))
    <3>1. k + 1 \in DOMAIN s /\ t[k] = s[k + 1] /\ 1 \in DOMAIN s /\ 1 < k + 1
      BY <1>1
    <3>2. s[1].hi < s[k + 1].lo
      BY <3>1 DEF Tiled
    <3>3. s[1] \in Task /\ s[k + 1] \in Task
      BY <1>2, <3>1
    <3>4. f \in File /\ f \in Nat /\ s[k + 1].lo <= f /\ s[k + 1].lo \in Nat /\ s[1].hi \in Nat
      BY <2>1, <3>1, <3>3, TaskFacts
    <3>5. ~(f <= s[1].hi)
      BY <3>2, <3>4
    <3>6. f \notin Files(s[1])
      BY <3>3, <3>5, TaskFacts
    <3> QED
      BY <1>1, <2>1, <3>1, <3>4, <3>6 DEF Waiting
  <2>2. ASSUME NEW k \in DOMAIN s, f \in Files(s[k]), f \notin Files(Head(s))
        PROVE  f \in Waiting(t)
    <3>1. k # 1
      BY <1>1, <2>2
    <3>2. k - 1 \in DOMAIN t /\ t[k - 1] = s[k]
      BY <1>1, <3>1
    <3> QED
      BY <2>2, <3>2 DEF Waiting
  <2> QED
    BY <2>1, <2>2 DEF Waiting
<1>5. \A f \in Files(Head(s)) : f \in File /\ f \in Waiting(s)
  BY <1>1, TaskFacts DEF Waiting
<1>6. \A f \in File : f >= Head(s).lo => f \in Waiting(s)
  BY <1>1 DEF Tiled
<1>7. Tiled(t)
  <2>1. \A k \in DOMAIN t : t[k].lo <= t[k].hi
    BY <1>1, <1>3 DEF Tiled
  <2>2. \A j, k \in DOMAIN t : j < k => t[j].hi < t[k].lo
    <3> TAKE j, k \in DOMAIN t
    <3> HAVE j < k
    <3>1. j + 1 \in DOMAIN s /\ k + 1 \in DOMAIN s /\ j + 1 < k + 1
      BY <1>1
    <3> QED
      BY <1>1, <3>1 DEF Tiled
  <2>3. ASSUME t # <<>>, NEW f \in File, f >= t[1].lo
        PROVE  f \in Waiting(t)
    <3>1. Len(t) # 0
      BY <1>1, <2>3
    <3>2. 1 \in DOMAIN t /\ 2 \in DOMAIN s /\ 1 \in DOMAIN s /\ t[1] = s[2] /\ 1 < 2
      BY <1>1, <3>1
    <3>3. s[1] \in Task /\ s[2] \in Task
      BY <1>2, <3>2
    <3>4. s[1].hi < s[2].lo /\ s[1].lo <= s[1].hi
      BY <3>2 DEF Tiled
    <3>5. f \in Nat
      BY DEF File
    <3>6. f >= s[1].lo /\ s[1].hi < f
      BY <2>3, <3>2, <3>3, <3>4, <3>5, TaskFacts
    <3>7. f \in Waiting(s) /\ f \notin Files(Head(s))
      BY <1>1, <1>6, <3>3, <3>5, <3>6, TaskFacts
    <3> QED
      BY <1>4, <3>7
  <2> QED
    BY <2>1, <2>2, <2>3 DEF Tiled
<1> QED
  BY <1>1, <1>4, <1>5, <1>6, <1>7 DEF t

\* A task may be replaced by tasks that divide it.
LEMMA ReplaceFacts ==
  ASSUME NEW s \in Seq(Task), s # <<>>, Tiled(s), NEW r \in Seq(Task), Divides(r, Head(s))
  PROVE  /\ r \o Tail(s) \in Seq(Task) /\ Tiled(r \o Tail(s)) /\ r \o Tail(s) # <<>>
         /\ \A f \in File : f \in Waiting(r \o Tail(s)) <=> f \in Waiting(s)
<1> DEFINE t == Tail(s)
           u == r \o t
           m == Len(r)
<1>1. /\ t \in Seq(Task) /\ Tiled(t) /\ Head(s) \in Task
      /\ \A f \in File : f \in Waiting(t) <=> f \in Waiting(s) /\ f \notin Files(Head(s))
      /\ \A f \in Files(Head(s)) : f \in File /\ f \in Waiting(s)
      /\ \A f \in File : f >= Head(s).lo => f \in Waiting(s)
  BY TailFacts
<1>2. /\ m \in Nat \ {0} /\ DOMAIN r = 1..m /\ Len(t) \in Nat /\ DOMAIN t = 1..Len(t)
      /\ \A k \in DOMAIN r : r[k] \in Task
  BY <1>1 DEF Divides
<1>3. /\ u \in Seq(Task) /\ DOMAIN u = 1..(m + Len(t)) /\ Len(u) = m + Len(t)
      /\ \A k \in 1..m : u[k] = r[k]
      /\ \A k \in DOMAIN t : u[m + k] = t[k]
  BY <1>1, <1>2
<1>4. \A k \in DOMAIN t : t[k] \in Task /\ Head(s).hi < t[k].lo
  <2> TAKE k \in DOMAIN t
  <2>1. k + 1 \in DOMAIN s /\ t[k] = s[k + 1] /\ Head(s) = s[1] /\ 1 \in DOMAIN s /\ 1 < k + 1
    OBVIOUS
  <2> QED
    BY <1>1, <1>2, <2>1 DEF Tiled
<1> HIDE DEF t, u, m
<1>5. \A k \in DOMAIN u : \/ k \in 1..m
                          \/ k - m \in DOMAIN t /\ u[k] = t[k - m] /\ ~(k \in 1..m)
  <2> TAKE k \in DOMAIN u
  <2>1. CASE k <= m
    BY <1>2, <1>3, <2>1
  <2>2. CASE m < k
    <3>1. k - m \in DOMAIN t /\ m + (k - m) = k
      BY <1>2, <1>3, <2>2
    <3> QED
      BY <1>2, <1>3, <2>2, <3>1
  <2> QED
    BY <1>2, <1>3, <2>1, <2>2
<1>6. ASSUME NEW f \in File
      PROVE  f \in Waiting(u) <=> f \in Waiting(s)
  <2>1. ASSUME NEW k \in DOMAIN u, f \in Files(u[k])
        PROVE  f \in Waiting(s)
    <3>1. CASE k \in 1..m
      <4>1. k \in DOMAIN r /\ u[k] = r[k] /\ r[k] \in Task
        BY <1>2, <1>3, <3>1
      <4>2. Head(s).lo <= r[k].lo /\ r[k].hi <= Head(s).hi
        BY <4>1 DEF Divides
      <4>3. f \in Files(Head(s))
        <5>1. f \in File /\ f \in Nat /\ r[k].lo <= f /\ f <= r[k].hi
          BY <2>1, <4>1, TaskFacts
        <5>2. r[k].lo \in Nat /\ r[k].hi \in Nat
          BY <4>1, TaskFacts
        <5>3. Head(s).lo \in Nat /\ Head(s).hi \in Nat
          BY <1>1, TaskFacts
        <5>4. Head(s).lo <= f /\ f <= Head(s).hi
          BY <4>2, <5>1, <5>2, <5>3
        <5> QED
          BY <1>1, <5>1, <5>4, TaskFacts
      <4> QED
        BY <1>1, <4>3
    <3>2. CASE k - m \in DOMAIN t /\ u[k] = t[k - m]
      <4>1. f \in Waiting(t)
        BY <2>1, <3>2 DEF Waiting
      <4> QED
        BY <1>1, <4>1
    <3> QED
      BY <1>5, <3>1, <3>2
  <2>2. CASE f \in Files(Head(s))
    <3>1. PICK k \in DOMAIN r : f \in Files(r[k])
      BY <2>2 DEF Divides
    <3>2. k \in DOMAIN u /\ u[k] = r[k]
      BY <1>2, <1>3, <3>1
    <3> QED
      BY <1>1, <2>2, <3>1, <3>2 DEF Waiting
  <2>3. CASE f \in Waiting(t)
    <3>1. PICK k \in DOMAIN t : f \in Files(t[k])
      BY <2>3 DEF Waiting
    <3>2. m + k \in DOMAIN u /\ u[m + k] = t[k]
      BY <1>2, <1>3, <3>1
    <3> QED
      BY <1>1, <2>3, <3>1, <3>2 DEF Waiting
  <2>4. f \in Waiting(u) => f \in Waiting(s)
    BY <2>1 DEF Waiting
  <2> QED
    BY <1>1, <2>2, <2>3, <2>4
<1>7. Tiled(u)
  <2>1. \A k \in DOMAIN u : u[k].lo <= u[k].hi
    <3> TAKE k \in DOMAIN u
    <3>1. CASE k \in 1..m
      BY <1>2, <1>3, <3>1 DEF Divides
    <3>2. CASE k - m \in DOMAIN t /\ u[k] = t[k - m]
      BY <1>1, <3>2 DEF Tiled
    <3> QED
      BY <1>5, <3>1, <3>2
  <2>2. \A j, k \in DOMAIN u : j < k => u[j].hi < u[k].lo
    <3> TAKE j, k \in DOMAIN u
    <3> HAVE j < k
    <3>0. j \in Nat /\ k \in Nat
      BY <1>2, <1>3
    <3>1. CASE j \in 1..m /\ k \in 1..m
      <4>1. r[j].hi < r[k].lo
        BY <1>2, <3>1 DEF Divides
      <4> QED
        BY <1>2, <1>3, <3>1, <4>1
    <3>2. CASE j \in 1..m /\ k - m \in DOMAIN t /\ u[k] = t[k - m]
      <4>1. u[j] = r[j] /\ r[j] \in Task /\ r[j].hi <= Head(s).hi /\ Head(s).hi < t[k - m].lo
        BY <1>2, <1>3, <1>4, <3>2 DEF Divides
      <4>2. t[k - m] \in Task
        BY <1>4, <3>2
      <4> QED
        BY <1>1, <3>2, <4>1, <4>2, TaskFacts
    <3>3. CASE j - m \in DOMAIN t /\ u[j] = t[j - m] /\ k - m \in DOMAIN t /\ u[k] = t[k - m]
      <4>1. j - m < k - m
        BY <1>2, <3>0
      <4> QED
        BY <1>1, <3>3, <4>1 DEF Tiled
    <3>4. CASE j - m \in DOMAIN t /\ ~(j \in 1..m) /\ k \in 1..m
      BY <1>2, <3>0, <3>4
    <3> QED
      BY <1>5, <3>1, <3>2, <3>3, <3>4
  <2>3. \A f \in File : f >= u[1].lo => f \in Waiting(u)
    <3>1. u[1].lo = Head(s).lo
      BY <1>2, <1>3 DEF Divides
    <3> QED
      BY <1>1, <1>6, <3>1
  <2> QED
    BY <2>1, <2>2, <2>3 DEF Tiled
<1>8. u # <<>>
  BY <1>2, <1>3
<1> QED
  BY <1>3, <1>6, <1>7, <1>8 DEF t, u

LEMMA CutDivides ==
  ASSUME NEW t \in Task, t.lo <= t.hi, NEW k \in Nat \ {0}, NEW kind \in {"whole", "recovery"}
  PROVE  Cut(t.lo, t.hi, k, kind) \in Seq(Task) /\ Divides(Cut(t.lo, t.hi, k, kind), t)
<1> DEFINE lo == t.lo
           hi == t.hi
           c == Cut(lo, hi, k, kind)
           n == (hi - lo + k) \div k
<1>1. lo \in File /\ hi \in File /\ lo <= hi
  BY DEF Task
<1>3. Files(t) = lo..hi
  BY DEF Files
<1>5. t.lo = lo /\ t.hi = hi
  OBVIOUS
<1> HIDE DEF lo, hi
<1>2. /\ c \in Seq(Task) /\ DOMAIN c = 1..n /\ n \in Nat \ {0} /\ Len(c) = n
      /\ c[1].lo = lo
      /\ \A j \in 1..n : lo <= c[j].lo /\ c[j].lo <= c[j].hi /\ c[j].hi <= hi
      /\ \A i, j \in 1..n : i < j => c[i].hi < c[j].lo
      /\ \A f \in lo..hi : \E j \in 1..n : f \in Files(c[j])
  BY <1>1, CutFacts
<1> HIDE DEF c, n
<1>4. c # <<>>
  BY <1>2
<1> QED
  BY <1>2, <1>3, <1>4, <1>5 DEF Divides, c

\* The recovery of a task divides its files, unless it is one file that failed alone.
LEMMA RetryFacts ==
  ASSUME NEW t \in Task, t.lo <= t.hi
  PROVE  /\ Retry(t) \in Seq(Task)
         /\ Retry(t) = <<>> \/ Divides(Retry(t), t)
<1> DEFINE n == t.hi - t.lo + 1
<1>1. n \in Nat \ {0} /\ t.kind \in {"whole", "recovery"} /\ Window \in Nat \ {0}
  BY TaskFacts, ConstantsTyped DEF Task
<1>2. (n + 1) \div 2 \in Nat \ {0}
  BY <1>1
<1> HIDE DEF n
<1>3. CASE t.kind = "whole"
  <2>1. Retry(t) = Cut(t.lo, t.hi, Window, "recovery")
    BY <1>3 DEF Retry
  <2> QED
    BY <1>1, <2>1, CutDivides
<1>5. CASE t.kind = "recovery" /\ n = 1
  <2>1. Retry(t) = <<>>
    BY <1>5 DEF Retry, n
  <2> QED
    BY <2>1
<1>6. CASE t.kind = "recovery" /\ n # 1
  <2>1. Retry(t) = Cut(t.lo, t.hi, (n + 1) \div 2, "recovery")
    BY <1>6 DEF Retry, n
  <2> QED
    BY <1>2, <2>1, CutDivides
<1> QED
  BY <1>1, <1>3, <1>5, <1>6

\* The first row of tasks has all files.
LEMMA FirstRow ==
  LET s == Cut(1, NFiles, Chunk, "whole")
  IN s \in Seq(Task) /\ Tiled(s) /\ \A f \in File : f \in Waiting(s)
<1> DEFINE t == [lo |-> 1, hi |-> NFiles, kind |-> "whole"]
           s == Cut(1, NFiles, Chunk, "whole")
<1>1. t \in Task /\ t.lo = 1 /\ t.hi = NFiles /\ t.lo <= t.hi
  BY ConstantsTyped DEF Task, File
<1>2. Files(t) = File
  BY <1>1 DEF Files, File
<1> HIDE DEF t
<1>3. s \in Seq(Task) /\ Divides(s, t)
  <2>1. Cut(t.lo, t.hi, Chunk, "whole") \in Seq(Task) /\ Divides(Cut(t.lo, t.hi, Chunk, "whole"), t)
    BY <1>1, ConstantsTyped, CutDivides
  <2> QED
    BY <1>1, <2>1
<1> HIDE DEF s
<1>4. \A f \in File : f \in Waiting(s)
  BY <1>2, <1>3 DEF Waiting, Divides
<1>5. Tiled(s)
  BY <1>3, <1>4 DEF Tiled, Divides
<1> QED
  BY <1>3, <1>4, <1>5 DEF s

\* Of a row of tasks at most one has a file.
LEMMA AtMostOneTask ==
  ASSUME NEW s \in Seq(Task), Tiled(s), NEW f \in File
  PROVE  Cardinality({k \in DOMAIN s : f \in Files(s[k])}) = IF f \in Waiting(s) THEN 1 ELSE 0
<1> DEFINE K == {k \in DOMAIN s : f \in Files(s[k])}
<1>1. CASE f \in Waiting(s)
  <2>1. PICK k \in DOMAIN s : f \in Files(s[k])
    BY <1>1 DEF Waiting
  <2>2. ASSUME NEW j \in DOMAIN s, f \in Files(s[j])
        PROVE  j = k
    <3>1. s[j] \in Task /\ s[k] \in Task /\ j \in Nat /\ k \in Nat
      OBVIOUS
    <3>2. f \in Nat /\ s[j].lo <= f /\ f <= s[j].hi /\ s[k].lo <= f /\ f <= s[k].hi
      BY <2>1, <2>2, <3>1, TaskFacts
    <3>3. s[j].lo \in Nat /\ s[j].hi \in Nat /\ s[k].lo \in Nat /\ s[k].hi \in Nat
      BY <3>1, TaskFacts
    <3>4. (j < k => s[j].hi < s[k].lo) /\ (k < j => s[k].hi < s[j].lo)
      BY DEF Tiled
    <3>5. ~(j < k) /\ ~(k < j)
      BY <3>2, <3>3, <3>4
    <3> QED
      BY <3>1, <3>5
  <2>3. K = {k}
    BY <2>1, <2>2
  <2> QED
    BY <1>1, <2>3, FS_Singleton
<1>2. CASE f \notin Waiting(s)
  <2>1. K = {}
    BY <1>2 DEF Waiting
  <2> QED
    BY <1>2, <2>1, FS_EmptySet
<1> QED
  BY <1>1, <1>2

LEMMA BookedIsAccounted == PoolTypes /\ Tiled(todo) /\ Booked => Accounted
<1> SUFFICES ASSUME PoolTypes, Tiled(todo), Booked, NEW f \in File
             PROVE  graph[f] + (IF f \in skipped THEN 1 ELSE 0)
                      + Cardinality({k \in DOMAIN todo : f \in Files(todo[k])}) = 1
  BY DEF Accounted
<1>1. todo \in Seq(Task) /\ graph[f] \in Nat
  BY DEF PoolTypes
<1>2. Cardinality({k \in DOMAIN todo : f \in Files(todo[k])}) = IF f \in Waiting(todo) THEN 1 ELSE 0
  BY <1>1, AtMostOneTask
<1> HIDE DEF PoolTypes
<1>3. /\ f \in Waiting(todo) => graph[f] = 0 /\ f \notin skipped
      /\ f \notin Waiting(todo) => graph[f] = IF f \in skipped THEN 0 ELSE 1
  BY DEF Booked
<1> QED
  BY <1>1, <1>2, <1>3

-----------------------------------------------------------------------------
(* The operators of the actions *)

LEMMA IsListed ==
  ASSUME NEW ws, NEW w
  PROVE  w \in Listed(ws) <=> w # None /\ \E k \in DOMAIN ws : ws[k] = w
BY DEF Listed, ToSet

LEMMA SlotFacts ==
  ASSUME NEW ws \in Seq(Worker \union {None}), NEW i \in Slot, NEW w \in Worker
  PROVE  LET us == WithSlot(ws, i, w)
         IN /\ us \in Seq(Worker \union {None}) /\ i \in DOMAIN us /\ us[i] = w
            /\ \A k \in DOMAIN us : k # i => us[k] = None \/ (k \in DOMAIN ws /\ us[k] = ws[k])
            /\ \A k \in DOMAIN ws : k # i => k \in DOMAIN us /\ us[k] = ws[k]
<1> DEFINE n == IF i > Len(ws) THEN i ELSE Len(ws)
           us == [k \in 1..n |-> IF k = i THEN w ELSE IF k <= Len(ws) THEN ws[k] ELSE None]
<1>1. i \in Nat \ {0} /\ Len(ws) \in Nat /\ DOMAIN ws = 1..Len(ws)
  BY ConstantsTyped DEF Slot
<1>2. n \in Nat /\ i \in 1..n /\ 1..Len(ws) \subseteq 1..n
  BY <1>1
<1> HIDE DEF n
<1>3. \A k \in 1..Len(ws) : ws[k] \in Worker \union {None}
  BY <1>1
<1>4. us \in [1..n -> Worker \union {None}]
  <2> SUFFICES ASSUME NEW k \in 1..n
               PROVE  (IF k = i THEN w ELSE IF k <= Len(ws) THEN ws[k] ELSE None) \in Worker \union {None}
    OBVIOUS
  <2>1. k <= Len(ws) => k \in 1..Len(ws)
    BY <1>1, <1>2
  <2> QED
    BY <1>3, <2>1
<1>5. us \in Seq(Worker \union {None}) /\ DOMAIN us = 1..n
  BY <1>2, <1>4
<1>6. WithSlot(ws, i, w) = us
  BY DEF WithSlot, n
<1>7. \A k \in 1..n : us[k] = IF k = i THEN w ELSE IF k <= Len(ws) THEN ws[k] ELSE None
  OBVIOUS
<1> HIDE DEF us
<1> QED
  BY <1>1, <1>2, <1>5, <1>6, <1>7

LEMMA DyingFacts ==
  ASSUME NEW pc \in [Worker -> ProcState], NEW ws
  PROVE  LET ps == Dying(pc, ws)
         IN /\ ps \in [Worker -> ProcState]
            /\ \A w \in Worker : /\ ps[w].state = pc[w].state /\ ps[w].cmd = pc[w].cmd /\ ps[w].out = pc[w].out
                                 /\ w \in ws /\ pc[w].state # "gone" => ps[w].dying
                                 /\ ~ps[w].dying => ~pc[w].dying
                                 /\ w \notin ws \/ pc[w].state = "gone" => ps[w] = pc[w]
<1> DEFINE E(w) == IF w \in ws /\ pc[w].state # "gone" THEN [pc[w] EXCEPT !.dying = TRUE] ELSE pc[w]
           ps == [w \in Worker |-> E(w)]
<1>1. ASSUME NEW w \in Worker
      PROVE  /\ E(w) \in ProcState
             /\ E(w).state = pc[w].state /\ E(w).cmd = pc[w].cmd /\ E(w).out = pc[w].out
             /\ w \in ws /\ pc[w].state # "gone" => E(w).dying
             /\ ~E(w).dying => ~pc[w].dying
             /\ w \notin ws \/ pc[w].state = "gone" => E(w) = pc[w]
  <2>1. pc[w] \in ProcState
    OBVIOUS
  <2>2. CASE w \in ws /\ pc[w].state # "gone"
    <3> DEFINE p == pc[w]
    <3>1. p \in ProcState
      BY <2>1
    <3> HIDE DEF p
    <3>2. [p EXCEPT !.dying = TRUE] \in ProcState
      BY <3>1 DEF ProcState
    <3>3. [p EXCEPT !.dying = TRUE].state = p.state /\ [p EXCEPT !.dying = TRUE].cmd = p.cmd
          /\ [p EXCEPT !.dying = TRUE].out = p.out /\ [p EXCEPT !.dying = TRUE].dying
      BY <3>1 DEF ProcState
    <3>4. E(w) = [p EXCEPT !.dying = TRUE]
      BY <2>2 DEF p
    <3> QED
      BY <2>2, <3>2, <3>3, <3>4 DEF p
  <2>3. CASE ~(w \in ws /\ pc[w].state # "gone")
    <3>1. E(w) = pc[w]
      BY <2>3
    <3> QED
      BY <2>1, <2>3, <3>1
  <2> QED
    BY <2>2, <2>3
<1>2. Dying(pc, ws) = ps
  BY DEF Dying
<1> HIDE DEF E
<1> QED
  BY <1>1, <1>2

LEMMA SpawnFacts ==
  ASSUME PoolTypes, NEW n \in Nat, CanSpawn(n)
  PROVE  /\ Spawned(n) \in Seq(Worker) /\ DOMAIN Spawned(n) = 1..n /\ Len(Spawned(n)) = n
         /\ \A k \in 1..n : /\ Spawned(n)[k] \in Worker /\ proc[Spawned(n)[k]].state = "gone"
                            /\ Spawned(n)[k] \notin Listed(workers) /\ Spawned(n)[k] \notin run.awaiting
         /\ \A j, k \in 1..n : Spawned(n)[j] = Spawned(n)[k] => j = k
<1>1. IsFiniteSet(Unused)
  <2>1. IsFiniteSet(Worker)
    BY ConstantsTyped, FS_Interval DEF Worker
  <2> QED
    BY <2>1, FS_Subset DEF Unused
<1>2. Cardinality(Unused) \in Nat /\ Cardinality(Unused) >= n
  BY <1>1, FS_CardinalityType DEF CanSpawn
<1>3. ExistsBijection(1..Cardinality(Unused), Unused)
  BY <1>1, FS_CardinalityType
<1>4. PICK g \in [1..Cardinality(Unused) -> Unused] : IsInjective(g)
  BY <1>3 DEF ExistsBijection, Bijection, Injection
<1> DEFINE f == [k \in 1..n |-> g[k]]
<1>5. 1..n \subseteq 1..Cardinality(Unused)
  BY <1>2
<1>6. f \in [1..n -> Unused]
  BY <1>5
<1>7. IsInjective(f)
  BY <1>4, <1>5 DEF IsInjective
<1> HIDE DEF f
<1>8. Spawned(n) \in [1..n -> Unused] /\ IsInjective(Spawned(n))
  BY <1>6, <1>7 DEF Spawned
<1> DEFINE s == Spawned(n)
<1> HIDE DEF s
<1>9. s \in [1..n -> Unused] /\ IsInjective(s)
  BY <1>8 DEF s
<1>10. s \in Seq(Worker) /\ DOMAIN s = 1..n /\ Len(s) = n
  BY <1>9 DEF Unused
<1>11. \A k \in 1..n : s[k] \in Unused
  BY <1>9
<1>12. \A j, k \in 1..n : s[j] = s[k] => j = k
  BY <1>9 DEF IsInjective
<1> QED
  BY <1>10, <1>11, <1>12 DEF s, Unused

LEMMA CommandTypes ==
  /\ NoCommand \in Command /\ Flush \in Command /\ NoCommand.do = "none" /\ Flush.do = "flush"
  /\ Gone \in ProcState /\ Fresh \in ProcState
  /\ Gone.state = "gone" /\ ~Gone.dying /\ Gone.cmd.do = "none" /\ Gone.out = <<>>
  /\ Fresh.state = "live" /\ ~Fresh.dying /\ Fresh.cmd.do = "none" /\ Fresh.out = <<>>
  /\ NoPiece \in PieceState /\ ~NoPiece.open /\ NoPiece.worker = None
  /\ NoFiles \in [File -> Nat] /\ \A f \in File : NoFiles[f] = 0
<1>1. Flush \in Command /\ Flush.do = "flush"
  BY DEF Flush, Command
<1>2. NoCommand \in Command /\ NoCommand.do = "none"
  BY DEF NoCommand, Flush, Command
<1>3. /\ Gone \in ProcState
      /\ Gone.state = "gone" /\ ~Gone.dying /\ Gone.cmd = NoCommand /\ Gone.out = <<>>
  <2> HIDE DEF NoCommand
  <2>1. <<>> \in Seq(Message)
    OBVIOUS
  <2> QED
    BY <1>2, <2>1 DEF Gone, ProcState
<1>4. /\ Fresh \in ProcState
      /\ Fresh.state = "live" /\ ~Fresh.dying /\ Fresh.cmd = NoCommand /\ Fresh.out = <<>>
  <2>1. /\ Fresh = [Gone EXCEPT !.state = "live"]
    BY DEF Fresh
  <2> QED
    BY <1>3, <2>1 DEF ProcState
<1>5. NoPiece \in PieceState /\ ~NoPiece.open /\ NoPiece.worker = None
  BY ConstantsTyped DEF NoPiece, PieceState
<1>6. NoFiles \in [File -> Nat] /\ \A f \in File : NoFiles[f] = 0
  BY DEF NoFiles
<1> QED
  BY <1>1, <1>2, <1>3, <1>4, <1>5, <1>6

-----------------------------------------------------------------------------
(* What the actions do *)

LEMMA NewOut ==
  ASSUME NEW p \in ProcState, NEW o \in Seq(Message)
  PROVE  /\ [p EXCEPT !.out = o] \in ProcState /\ [p EXCEPT !.out = o].state = p.state
         /\ [p EXCEPT !.out = o].out = o /\ [p EXCEPT !.out = o].cmd = p.cmd
         /\ [p EXCEPT !.out = o].dying => p.dying
         /\ p.dying => [p EXCEPT !.out = o].dying
<1>1. /\ [p EXCEPT !.out = o] \in ProcState /\ [p EXCEPT !.out = o].state = p.state
      /\ [p EXCEPT !.out = o].out = o /\ [p EXCEPT !.out = o].cmd = p.cmd
  BY DEF ProcState
<1>2. /\ [p EXCEPT !.out = o].dying => p.dying
      /\ p.dying => [p EXCEPT !.out = o].dying
  BY DEF ProcState
<1> QED
  BY <1>1, <1>2

LEMMA NewCommand ==
  ASSUME NEW p \in ProcState, NEW c \in Command
  PROVE  /\ [p EXCEPT !.cmd = c] \in ProcState /\ [p EXCEPT !.cmd = c].state = p.state
         /\ [p EXCEPT !.cmd = c].cmd = c /\ [p EXCEPT !.cmd = c].out = p.out
         /\ [p EXCEPT !.cmd = c].dying => p.dying
         /\ p.dying => [p EXCEPT !.cmd = c].dying
<1>1. /\ [p EXCEPT !.cmd = c] \in ProcState /\ [p EXCEPT !.cmd = c].state = p.state
      /\ [p EXCEPT !.cmd = c].cmd = c /\ [p EXCEPT !.cmd = c].out = p.out
  BY DEF ProcState
<1>2. /\ [p EXCEPT !.cmd = c].dying => p.dying
      /\ p.dying => [p EXCEPT !.cmd = c].dying
  BY DEF ProcState
<1> QED
  BY <1>1, <1>2

\* A worker that runs or dies ends its command, and may send something.
WorkerMoved(w) ==
  /\ UNCHANGED <<setting, workers, piece, stale, todo, graph, skipped>>
  /\ run' \in RunState /\ run'.phase = run.phase /\ run'.streamed = run.streamed
  /\ run'.awaiting = run.awaiting
  /\ proc' \in [Worker -> ProcState]
  /\ \A v \in Worker : v # w => proc'[v] = proc[v]
  /\ proc[w].state # "gone" /\ proc'[w].state # "gone" /\ proc'[w].cmd.do = "none"
  /\ ~proc'[w].dying => ~proc[w].dying
  /\ proc'[w].dying => proc[w].dying
  /\ \/ /\ proc'[w].state = "dead" /\ proc'[w].out = proc[w].out
        /\ proc[w].dying \/ setting.isolation # "thread" \/ proc[w].cmd.do = "parse"
     \/ /\ proc[w].cmd.do = "parse" /\ proc'[w].state = "stuck" /\ proc[w].state = "live"
        /\ proc'[w].out = proc[w].out
     \/ /\ proc[w].cmd.do = "flush" /\ proc'[w].state = "live" /\ proc[w].state = "live"
        /\ proc'[w].out = proc[w].out \o <<Msg("result", {})>>
     \/ /\ proc[w].cmd.do = "parse" /\ proc'[w].state = "live" /\ proc[w].state = "live"
        /\ proc'[w].out = proc[w].out
             \o <<Msg("part", proc[w].cmd.lo..proc[w].cmd.hi), Msg("done", {})>>
     \/ /\ proc[w].cmd.do = "parse" /\ proc'[w].state = "live" /\ proc[w].state = "live"
        /\ proc'[w].out = proc[w].out \o <<Msg("error", {})>>

LEMMA WorkerMoves ==
  ASSUME PoolTypes, NEW w \in Worker, WorkerRuns(w) \/ WorkerDies(w) \/ WorkerKilled(w)
  PROVE  WorkerMoved(w)
<1> DEFINE p == proc[w]
<1>1. p \in ProcState /\ run \in RunState /\ proc \in [Worker -> ProcState]
  BY DEF PoolTypes
<1>2. p.cmd \in Command /\ p.out \in Seq(Message) /\ p.state \in {"live", "stuck", "dead", "gone"}
      /\ p.cmd.lo \in Nat /\ p.cmd.hi \in Nat /\ p.cmd.do \in {"none", "parse", "flush"}
  BY <1>1 DEF ProcState, Command
<1>3. CASE WorkerRuns(w)
  <2> DEFINE faulty == {f \in p.cmd.lo..p.cmd.hi : setting.fault[f] # "none"}
             idle == [p EXCEPT !.cmd = NoCommand]
             Sends(ms) == [idle EXCEPT !.out = @ \o ms]
             parts == <<Msg("part", p.cmd.lo..p.cmd.hi), Msg("done", {})>>
             stuck == [idle EXCEPT !.state = "stuck"]
             Result == CASE p.cmd.do = "flush" -> Sends(<<Msg("result", {})>>)
                         [] p.cmd.do = "parse" /\ faulty = {} -> Sends(parts)
                         [] OTHER -> IF setting.fault[Min(faulty)] = "error"
                                     THEN Sends(<<Msg("error", {})>>) ELSE stuck
  <2>1. /\ p.state = "live" /\ p.cmd.do # "none"
        /\ UNCHANGED <<setting, workers, piece, stale, run, todo, graph, skipped>>
    BY <1>3 DEF WorkerRuns
  <2>2. proc' = [proc EXCEPT ![w] = Result]
    BY <1>3 DEF WorkerRuns
  <2> HIDE DEF faulty
  <2>3. <<Msg("result", {})>> \in Seq(Message) /\ parts \in Seq(Message) /\ <<Msg("error", {})>> \in Seq(Message)
    <3>1. p.cmd.lo..p.cmd.hi \in SUBSET Nat
      BY <1>2
    <3>2. Msg("result", {}) \in Message /\ Msg("done", {}) \in Message /\ Msg("error", {}) \in Message
      BY DEF Msg, Message
    <3>3. Msg("part", p.cmd.lo..p.cmd.hi) \in Message
      BY <3>1 DEF Msg, Message
    <3> QED
      BY <3>2, <3>3
  <2>4. idle \in ProcState /\ idle.state = p.state /\ idle.out = p.out /\ idle.cmd = NoCommand
        /\ (idle.dying => p.dying) /\ (p.dying => idle.dying)
    <3> HIDE DEF p
    <3> QED
      BY <1>1, CommandTypes DEF ProcState
  <2> HIDE DEF idle, parts, Result
  <2> HIDE DEF p
  <2>5. ASSUME NEW ms \in Seq(Message)
        PROVE  /\ Sends(ms) \in ProcState /\ Sends(ms).state = p.state /\ Sends(ms).out = p.out \o ms
               /\ Sends(ms).cmd = NoCommand /\ (Sends(ms).dying => p.dying) /\ (p.dying => Sends(ms).dying)
    <3> DEFINE o == idle.out \o ms
               q == [idle EXCEPT !.out = o]
    <3>1. o \in Seq(Message) /\ o = p.out \o ms
      BY <1>2, <2>4
    <3>2. Sends(ms) = q
      OBVIOUS
    <3> HIDE DEF o, Sends
    <3>3. idle \in ProcState
      BY <2>4
    <3>4. /\ q \in ProcState /\ q.state = idle.state /\ q.out = o /\ q.cmd = idle.cmd
          /\ q.dying => idle.dying
          /\ idle.dying => q.dying
      BY <3>1, <3>3, NewOut
    <3> HIDE DEF q
    <3>5. q.state = p.state /\ q.cmd = NoCommand /\ q.out = p.out \o ms
      BY <2>4, <3>1, <3>4
    <3>6. (q.dying => p.dying) /\ (p.dying => q.dying)
      BY <2>4, <3>4, Zenon
    <3> QED
      BY <3>2, <3>4, <3>5, <3>6, Zenon
  <2>6. /\ stuck \in ProcState /\ stuck.state = "stuck" /\ stuck.out = p.out /\ stuck.cmd = NoCommand
        /\ (stuck.dying => p.dying) /\ (p.dying => stuck.dying)
    BY <2>4 DEF ProcState
  <2> HIDE DEF Sends, stuck
  <2>7. proc'[w] = Result /\ \A v \in Worker : v # w => proc'[v] = proc[v]
    BY <1>1, <2>2
  <2>8. \/ p.cmd.do = "flush" /\ proc'[w] = Sends(<<Msg("result", {})>>)
        \/ p.cmd.do = "parse" /\ proc'[w] = Sends(parts)
        \/ p.cmd.do = "parse" /\ proc'[w] = Sends(<<Msg("error", {})>>)
        \/ p.cmd.do = "parse" /\ proc'[w] = stuck
    BY <1>2, <2>1, <2>7 DEF Result
  <2>9. proc'[w] \in ProcState
    BY <2>3, <2>5, <2>6, <2>8
  <2>10. proc' \in [Worker -> ProcState]
    <3>1. DOMAIN proc' = Worker /\ proc' = [v \in DOMAIN proc' |-> proc'[v]]
      BY <1>1, <2>2
    <3>2. \A v \in Worker : proc'[v] \in ProcState
      BY <1>1, <2>7, <2>9
    <3> QED
      BY <3>1, <3>2
  <2>11. NoCommand.do = "none"
    BY CommandTypes
  <2>12. /\ proc'[w].state # "gone" /\ proc'[w].cmd.do = "none"
         /\ ~proc'[w].dying => ~p.dying
         /\ proc'[w].dying => p.dying
    BY <2>1, <2>3, <2>5, <2>6, <2>8, <2>11
  <2>13. \/ p.cmd.do = "parse" /\ proc'[w].state = "stuck" /\ proc'[w].out = p.out
         \/ p.cmd.do = "flush" /\ proc'[w].state = "live" /\ proc'[w].out = p.out \o <<Msg("result", {})>>
         \/ p.cmd.do = "parse" /\ proc'[w].state = "live" /\ proc'[w].out = p.out \o parts
         \/ p.cmd.do = "parse" /\ proc'[w].state = "live" /\ proc'[w].out = p.out \o <<Msg("error", {})>>
    BY <2>1, <2>3, <2>5, <2>6, <2>8
  <2>14. run' \in RunState /\ run'.phase = run.phase /\ run'.streamed = run.streamed /\ run'.awaiting = run.awaiting
    BY <1>1, <2>1
  <2> QED
    BY <2>1, <2>7, <2>10, <2>12, <2>13, <2>14, Zenon DEF p, parts, WorkerMoved
<1>4. CASE WorkerDies(w) \/ WorkerKilled(w)
  <2> DEFINE q == [p EXCEPT !.state = "dead", !.cmd = NoCommand]
  <2>1. /\ p.state \in {"live", "stuck"}
        /\ p.dying \/ setting.isolation # "thread" \/ p.cmd.do = "parse"
        /\ proc' = [proc EXCEPT ![w].state = "dead", ![w].cmd = NoCommand]
        /\ UNCHANGED <<setting, workers, piece, stale, todo, graph, skipped>>
        /\ run' = run \/ run' = [run EXCEPT !.kills = @ + 1]
    BY <1>4 DEF WorkerDies, WorkerKilled
  <2>2. /\ run' \in RunState /\ run'.phase = run.phase /\ run'.streamed = run.streamed
        /\ run'.awaiting = run.awaiting
    BY <1>1, <2>1 DEF RunState
  <2>3. proc'[w] = q /\ \A v \in Worker : v # w => proc'[v] = proc[v]
    BY <1>1, <2>1
  <2>4. q \in ProcState /\ q.state = "dead" /\ q.out = p.out /\ q.cmd = NoCommand
        /\ (q.dying => p.dying) /\ (p.dying => q.dying)
    <3> HIDE DEF p
    <3> QED
      BY <1>1, CommandTypes DEF ProcState
  <2> HIDE DEF p, q
  <2>5. proc' \in [Worker -> ProcState]
    <3>1. DOMAIN proc' = Worker /\ proc' = [v \in DOMAIN proc' |-> proc'[v]]
      BY <1>1, <2>1
    <3>2. \A v \in Worker : proc'[v] \in ProcState
      BY <1>1, <2>3, <2>4
    <3> QED
      BY <3>1, <3>2
  <2>6. NoCommand.do = "none"
    BY CommandTypes
  <2>7. /\ proc'[w].state = "dead" /\ proc'[w].out = p.out /\ proc'[w].cmd.do = "none" /\ p.state # "gone"
        /\ (proc'[w].dying => p.dying) /\ (~proc'[w].dying => ~p.dying)
    BY <2>1, <2>3, <2>4, <2>6
  <2>8. \A v \in Worker : v # w => proc'[v] = proc[v]
    BY <2>3
  <2>9. p.dying \/ setting.isolation # "thread" \/ p.cmd.do = "parse"
    BY <2>1
  <2>10. UNCHANGED <<setting, workers, piece, stale, todo, graph, skipped>>
    BY <2>1
  <2> QED
    BY <2>2, <2>5, <2>7, <2>8, <2>9, <2>10, Zenon DEF p, WorkerMoved
<1> QED
  BY <1>3, <1>4

\* The first rejection of a dispatch empties the array.
GaveUp(ws, pc) ==
  /\ workers' \in Seq(Worker \union {None}) /\ proc' \in [Worker -> ProcState] /\ run' \in RunState
  /\ \A w \in Worker : /\ proc'[w].state = pc[w].state /\ proc'[w].cmd = pc[w].cmd
                       /\ proc'[w].out = pc[w].out
                       /\ ~proc'[w].dying => ~pc[w].dying
  /\ run.phase \in {"idle", "running"} =>
       /\ workers' = <<>> /\ run'.phase = "resetting" /\ run'.awaiting = Listed(ws)
       /\ run'.streamed = NoFiles
       /\ \A w \in Listed(ws) : w \in Worker /\ (pc[w].state # "gone" => proc'[w].dying)
  /\ run.phase \notin {"idle", "running"} => workers' = ws /\ proc' = pc /\ run' = run

LEMMA GiveUpMoves ==
  ASSUME PoolTypes, NEW ws \in Seq(Worker \union {None}), NEW pc \in [Worker -> ProcState], GiveUp(ws, pc)
  PROVE  GaveUp(ws, pc)
<1>1. run \in RunState
  BY DEF PoolTypes
<1>2. Listed(ws) \subseteq Worker
  <2>1. \A k \in DOMAIN ws : ws[k] \in Worker \union {None}
    OBVIOUS
  <2> QED
    BY <2>1, IsListed
<1>3. CASE run.phase \in {"idle", "running"}
  <2>1. /\ workers' = <<>> /\ proc' = Dying(pc, Listed(ws))
        /\ run' = [run EXCEPT !.phase = "resetting", !.awaiting = Listed(ws), !.streamed = NoFiles]
    BY <1>3 DEF GiveUp
  <2>2. run' \in RunState /\ run'.phase = "resetting" /\ run'.awaiting = Listed(ws) /\ run'.streamed = NoFiles
    BY <1>1, <1>2, <2>1, CommandTypes DEF RunState
  <2>3. /\ proc' \in [Worker -> ProcState]
        /\ \A w \in Worker : /\ proc'[w].state = pc[w].state /\ proc'[w].cmd = pc[w].cmd /\ proc'[w].out = pc[w].out
                             /\ w \in Listed(ws) /\ pc[w].state # "gone" => proc'[w].dying
                             /\ ~proc'[w].dying => ~pc[w].dying
    BY <2>1, DyingFacts
  <2>4. workers' \in Seq(Worker \union {None})
    BY <2>1
  <2> QED
    BY <1>2, <1>3, <2>1, <2>2, <2>3, <2>4 DEF GaveUp
<1>4. CASE run.phase \notin {"idle", "running"}
  <2>1. workers' = ws /\ proc' = pc /\ run' = run
    BY <1>4 DEF GiveUp
  <2> QED
    BY <1>1, <1>4, <2>1 DEF GaveUp
<1> QED
  BY <1>3, <1>4

LEMMA ClosedFacts ==
  ASSUME PoolTypes, NEW is
  PROVE  /\ Closed(piece, is) \in [Slot -> PieceState]
         /\ \A i \in Slot : i \in is => Closed(piece, is)[i] = NoPiece /\ ~Closed(piece, is)[i].open
         /\ \A i \in Slot : i \notin is => Closed(piece, is)[i] = piece[i]
<1>1. piece \in [Slot -> PieceState] /\ NoPiece \in PieceState /\ ~NoPiece.open
  BY CommandTypes DEF PoolTypes
<1> QED
  BY <1>1 DEF Closed

LEMMA UpToFacts ==
  ASSUME NEW lo \in Nat, NEW hi \in Nat, lo <= hi, NEW k \in Nat \ {0}
  PROVE  UpTo(lo, hi, k) \in Nat /\ lo <= UpTo(lo, hi, k) /\ UpTo(lo, hi, k) <= hi
BY DEF UpTo

LEMMA SendFacts ==
  ASSUME NEW i, NEW lo \in Nat, NEW hi \in Nat
  PROVE  /\ SendNext(i, lo, hi) \in Command
         /\ lo > hi => SendNext(i, lo, hi).do = "flush"
         /\ lo <= hi => LET c == SendNext(i, lo, hi)
                        IN c.do = "parse" /\ c.lo = lo /\ c.hi = UpTo(lo, hi, Batch)
<1>1. CASE lo > hi
  <2>1. SendNext(i, lo, hi) = Flush /\ ~(lo <= hi)
    BY <1>1 DEF SendNext
  <2> QED
    BY <2>1, CommandTypes
<1>2. CASE lo <= hi
  <2>1. SendNext(i, lo, hi) = [do |-> "parse", lo |-> lo, hi |-> UpTo(lo, hi, Batch)] /\ ~(lo > hi)
    BY <1>2 DEF SendNext
  <2>2. UpTo(lo, hi, Batch) \in Nat
    BY <1>2, UpToFacts, ConstantsTyped
  <2> QED
    BY <1>2, <2>1, <2>2 DEF Command
<1> QED
  BY <1>1, <1>2

\* The pieces of a task divide it, one for each slot at most.
LEMMA PiecesFacts ==
  ASSUME NEW t \in Task, t.lo <= t.hi
  PROVE  Pieces(t) \in Seq(Task) /\ Divides(Pieces(t), t) /\ DOMAIN Pieces(t) \subseteq Slot
<1> DEFINE n == t.hi - t.lo + 1
           k == (t.hi - t.lo + Size) \div Size
           c == (t.hi - t.lo + k) \div k
<1>1. n \in Nat \ {0} /\ Size \in Nat \ {0} /\ n + Size - 1 \in Nat
  BY TaskFacts, ConstantsTyped
<1>2. k = (n + Size - 1) \div Size
  <2>1. t.hi - t.lo + Size = n + Size - 1
    BY <1>1, TaskFacts
  <2> QED
    BY <2>1
<1>3. k \in Nat /\ k * Size <= n + Size - 1 /\ n + Size - 1 < k * Size + Size
  <2> HIDE DEF n, k
  <2> QED
    BY <1>1, <1>2, Divided
<1>4. c = (n - 1 + k) \div k
  <2>1. t.hi - t.lo + k = n - 1 + k
    <3> HIDE DEF k
    <3> QED
      BY <1>3, TaskFacts
  <2> HIDE DEF k
  <2> QED
    BY <2>1
<1>5. Pieces(t) = Cut(t.lo, t.hi, k, "whole") /\ DOMAIN Pieces(t) = 1..c
  BY DEF Pieces, Cut
<1> HIDE DEF n, k, c
<1>6. k # 0 /\ n <= k * Size
  BY <1>1, <1>3
<1>7. c \in Nat /\ c * k <= n - 1 + k
  <2>1. n - 1 + k \in Nat
    BY <1>1, <1>3
  <2> QED
    BY <1>3, <1>4, <1>6, <2>1, Divided
<1>8. c <= Size
  <2>1. CASE Size + 1 <= c
    <3>1. (Size + 1) * k <= c * k /\ (Size + 1) * k = Size * k + k /\ Size * k \in Nat
      BY <1>1, <1>3, <1>7, <2>1, Times
    <3>2. Size * k = k * Size
      BY <1>1, <1>3
    <3> QED
      BY <1>1, <1>3, <1>6, <1>7, <3>1, <3>2
  <2> QED
    BY <1>1, <1>7, <2>1
<1>9. DOMAIN Pieces(t) \subseteq Slot
  BY <1>1, <1>5, <1>7, <1>8 DEF Slot
<1> QED
  BY <1>3, <1>5, <1>6, <1>9, CutDivides

-----------------------------------------------------------------------------
(* Messages *)

Received(w) == [proc EXCEPT ![w].out = Tail(@)]

LEMMA ReceivedFacts ==
  ASSUME PoolTypes, NEW w \in Worker, proc[w].out # <<>>
  PROVE  /\ Received(w) \in [Worker -> ProcState]
         /\ \A v \in Worker : v # w => Received(w)[v] = proc[v]
         /\ Received(w)[w].out = Tail(proc[w].out) /\ Received(w)[w].cmd = proc[w].cmd
         /\ Received(w)[w].state = proc[w].state
         /\ Received(w)[w].dying => proc[w].dying
         /\ proc[w].dying => Received(w)[w].dying
         /\ Head(proc[w].out) \in Message
<1> DEFINE o == Tail(proc[w].out)
           p == proc[w]
           q == [p EXCEPT !.out = o]
<1>1. proc \in [Worker -> ProcState]
  BY DEF PoolTypes
<1>2. p \in ProcState
  BY <1>1
<1>3. p.out \in Seq(Message)
  BY <1>2 DEF ProcState
<1>4. o \in Seq(Message) /\ Head(p.out) \in Message
  BY <1>3
<1>5. Received(w) = [proc EXCEPT ![w] = q]
  BY DEF Received
<1> HIDE DEF o, p
<1>6. /\ q \in ProcState /\ q.state = p.state /\ q.out = o /\ q.cmd = p.cmd
      /\ q.dying => p.dying
      /\ p.dying => q.dying
  BY <1>2, <1>4, NewOut
<1> HIDE DEF q
<1>7. Received(w) \in [Worker -> ProcState] /\ Received(w)[w] = q
      /\ \A v \in Worker : v # w => Received(w)[v] = proc[v]
  BY <1>1, <1>5, <1>6
<1> QED
  BY <1>4, <1>6, <1>7, Zenon DEF p, o

LEMMA MessageMoves ==
  ASSUME PoolTypes, Wired, NEW w \in Worker, OnMessage(w)
  PROVE  /\ proc[w].out # <<>> /\ UNCHANGED <<setting, stale, skipped>>
         /\ \/ /\ \A i \in Slot : ~OpenWith(i, w)
               /\ proc' = Received(w) /\ UNCHANGED <<workers, piece, run, todo, graph>>
            \/ \E i \in Slot :
                 /\ OpenWith(i, w)
                 /\ \/ /\ Head(proc[w].out).type = "part" /\ proc' = Received(w)
                       /\ OnPart(i, Head(proc[w].out).files)
                    \/ Head(proc[w].out).type = "done" /\ OnSubBatchDone(i, Received(w))
                    \/ Head(proc[w].out).type = "result" /\ proc' = Received(w) /\ OnResult(i)
                    \/ /\ Head(proc[w].out).type = "error" /\ piece' = Closed(piece, {i})
                       /\ GiveUp(workers, Received(w)) /\ UNCHANGED <<todo, graph>>
<1> DEFINE m == Head(proc[w].out)
           j == CHOOSE i \in Attached(w) : TRUE
<1>1. /\ proc[w].out # <<>> /\ UNCHANGED <<setting, stale, skipped>>
      /\ CASE Attached(w) = {} -> /\ proc' = Received(w)
                                  /\ UNCHANGED <<workers, piece, run, todo, graph>>
           [] m.type = "part" /\ Attached(w) # {} -> proc' = Received(w) /\ OnPart(j, m.files)
           [] m.type = "done" /\ Attached(w) # {} -> OnSubBatchDone(j, Received(w))
           [] m.type = "result" /\ Attached(w) # {} -> proc' = Received(w) /\ OnResult(j)
           [] m.type = "error" /\ Attached(w) # {} ->
                /\ piece' = Closed(piece, {j})
                /\ GiveUp(workers, Received(w))
                /\ UNCHANGED <<todo, graph>>
  BY DEF OnMessage, Received
<1>2. m.type \in {"part", "done", "result", "error"}
  <2>1. m \in Message
    BY <1>1, ReceivedFacts
  <2> QED
    BY <2>1 DEF Message
<1>3. CASE Attached(w) = {}
  <2>1. \A i \in Slot : ~OpenWith(i, w)
    BY <1>3 DEF Attached, OpenWith
  <2> QED
    BY <1>1, <1>3, <2>1
<1>4. CASE Attached(w) # {}
  <2>1. j \in Attached(w)
    BY <1>4
  <2>2. j \in Slot /\ OpenWith(j, w)
    BY <2>1 DEF Attached, OpenWith
  <2> HIDE DEF j, m
  <2>3. \/ m.type = "part" /\ proc' = Received(w) /\ OnPart(j, m.files)
        \/ m.type = "done" /\ OnSubBatchDone(j, Received(w))
        \/ m.type = "result" /\ proc' = Received(w) /\ OnResult(j)
        \/ /\ m.type = "error" /\ piece' = Closed(piece, {j})
           /\ GiveUp(workers, Received(w)) /\ UNCHANGED <<todo, graph>>
    BY <1>1, <1>2, <1>4
  <2> QED
    BY <1>1, <2>2, <2>3 DEF m
<1> QED
  BY <1>3, <1>4

-----------------------------------------------------------------------------
(* The start of a dispatch *)

\* The pieces whose worker is in the array and alive, as far as the pool knows.
Starters ==
  {i \in DOMAIN Pieces(Head(todo)) :
     i \in DOMAIN workers /\ workers[i] # None /\ proc[workers[i]].state # "gone"}

\* The workers after the first sub-batches were posted.
Posted ==
  [w \in Worker |->
     IF \E i \in Starters : workers[i] = w
       THEN LET i == CHOOSE i \in Starters : workers[i] = w
            IN [proc[w] EXCEPT !.cmd = SendNext(i, Pieces(Head(todo))[i].lo, Pieces(Head(todo))[i].hi)]
       ELSE proc[w]]

WorkersPosted ==
  /\ Posted \in [Worker -> ProcState]
  /\ \A w \in Worker : /\ Posted[w].state = proc[w].state /\ Posted[w].out = proc[w].out
                       /\ Posted[w].dying => proc[w].dying
                       /\ proc[w].dying => Posted[w].dying
                       /\ (\A i \in Starters : workers[i] # w) => Posted[w] = proc[w]
  /\ \A i \in Starters : LET c == Posted[workers[i]].cmd
                             p == Pieces(Head(todo))[i]
                         IN c.do = "parse" /\ c.lo = p.lo /\ c.hi = UpTo(p.lo, p.hi, Batch)

Started ==
  /\ run.phase = "idle" /\ todo # <<>> /\ UNCHANGED <<setting, todo, graph, skipped>>
  /\ piece' \in [Slot -> PieceState]
  /\ \A i \in Slot : i \notin Starters => piece'[i] = NoPiece
  /\ \A i \in Starters : LET p == Pieces(Head(todo))[i]
                         IN /\ piece'[i].worker = workers[i] /\ piece'[i].hi = p.hi /\ piece'[i].open
                            /\ piece'[i].next = UpTo(p.lo, p.hi, Batch) + 1
  /\ stale' \in SUBSET StaleState /\ stale \subseteq stale'
  /\ \A c \in stale' : c \in stale \/ /\ c.worker = None /\ c.slot \in DOMAIN workers
                                      /\ workers[c.slot] # None
                                      /\ proc[workers[c.slot]].state = "gone"
  /\ \/ /\ Starters = DOMAIN Pieces(Head(todo)) /\ proc' = Posted /\ UNCHANGED workers
        /\ run' = [run EXCEPT !.phase = "running"]
     \/ GiveUp(workers, Posted)

LEMMA StarterFacts ==
  ASSUME PoolTypes, Tiled(todo), todo # <<>>
  PROVE  /\ Head(todo) \in Task /\ Head(todo).lo <= Head(todo).hi
         /\ Divides(Pieces(Head(todo)), Head(todo)) /\ DOMAIN Pieces(Head(todo)) \subseteq Slot
         /\ \A i \in DOMAIN Pieces(Head(todo)) :
              LET p == Pieces(Head(todo))[i]
                  u == UpTo(p.lo, p.hi, Batch)
              IN /\ p.lo \in Nat /\ p.hi \in Nat /\ p.lo <= p.hi /\ p.hi \in 0..NFiles
                 /\ u \in Nat /\ p.lo <= u /\ u <= p.hi
         /\ \A i \in Starters : i \in Slot /\ i \in DOMAIN workers /\ workers[i] \in Worker
                                /\ i \in DOMAIN Pieces(Head(todo))
<1> DEFINE t == Head(todo)
           ps == Pieces(t)
<1>1. todo \in Seq(Task) /\ workers \in Seq(Worker \union {None})
  BY DEF PoolTypes
<1>2. t \in Task /\ t.lo <= t.hi
  BY <1>1 DEF Tiled
<1> HIDE DEF t
<1>3. ps \in Seq(Task) /\ Divides(ps, t) /\ DOMAIN ps \subseteq Slot
  BY <1>2, PiecesFacts
<1> HIDE DEF ps
<1>4. ASSUME NEW i \in DOMAIN ps
      PROVE  LET p == ps[i]
                 u == UpTo(p.lo, p.hi, Batch)
             IN /\ p.lo \in Nat /\ p.hi \in Nat /\ p.lo <= p.hi /\ p.hi \in 0..NFiles
                /\ u \in Nat /\ p.lo <= u /\ u <= p.hi
  <2>1. ps[i] \in Task
    BY <1>3
  <2>2. ps[i].lo <= ps[i].hi
    BY <1>3 DEF Divides
  <2> DEFINE lo == ps[i].lo
             hi == ps[i].hi
  <2>3. lo \in Nat /\ hi \in Nat /\ hi <= NFiles
    BY <2>1, TaskFacts
  <2> HIDE DEF lo, hi
  <2>4. lo <= hi
    BY <2>2 DEF lo, hi
  <2>5. UpTo(lo, hi, Batch) \in Nat /\ lo <= UpTo(lo, hi, Batch) /\ UpTo(lo, hi, Batch) <= hi
    BY <2>3, <2>4, UpToFacts, ConstantsTyped
  <2>6. hi \in 0..NFiles
    BY <2>3, ConstantsTyped
  <2> QED
    BY <2>3, <2>4, <2>5, <2>6 DEF lo, hi
<1>5. \A i \in DOMAIN workers : workers[i] \in Worker \union {None}
  BY <1>1
<1>6. \A i \in Starters : i \in Slot /\ i \in DOMAIN workers /\ workers[i] \in Worker /\ i \in DOMAIN ps
  BY <1>3, <1>5 DEF Starters, t, ps
<1> QED
  BY <1>2, <1>3, <1>4, <1>6 DEF t, ps

LEMMA PostFacts ==
  ASSUME PoolTypes, Tiled(todo), Wired, todo # <<>>
  PROVE  WorkersPosted
<1> DEFINE ps == Pieces(Head(todo))
           Cmd(i) == SendNext(i, ps[i].lo, ps[i].hi)
<1>1. proc \in [Worker -> ProcState]
  BY DEF PoolTypes
<1>2. \A i \in Starters : /\ i \in Slot /\ i \in DOMAIN workers /\ workers[i] \in Worker /\ workers[i] # None
                          /\ ps[i].lo \in Nat /\ ps[i].hi \in Nat /\ ps[i].lo <= ps[i].hi
  BY StarterFacts DEF Starters
<1>3. \A i, j \in Starters : workers[i] = workers[j] => i = j
  BY <1>2 DEF Wired
<1> HIDE DEF ps
<1>4. ASSUME NEW i \in Starters
      PROVE  Cmd(i) \in Command /\ Cmd(i).do = "parse" /\ Cmd(i).lo = ps[i].lo
             /\ Cmd(i).hi = UpTo(ps[i].lo, ps[i].hi, Batch)
  BY <1>2, SendFacts
<1> HIDE DEF Cmd
<1>5. ASSUME NEW i \in Starters
      PROVE  /\ Posted[workers[i]] = [proc[workers[i]] EXCEPT !.cmd = Cmd(i)]
             /\ workers[i] \in Worker
  <2>1. (CHOOSE j \in Starters : workers[j] = workers[i]) = i
    BY <1>3
  <2> QED
    BY <1>2, <2>1 DEF Posted, Cmd, ps
<1>6. \A w \in Worker : (\A i \in Starters : workers[i] # w) => Posted[w] = proc[w]
  BY DEF Posted
<1>7. ASSUME NEW i \in Starters
      PROVE  LET w == workers[i]
             IN /\ Posted[w] \in ProcState /\ Posted[w].state = proc[w].state
                /\ Posted[w].out = proc[w].out /\ Posted[w].cmd = Cmd(i)
                /\ Posted[w].dying => proc[w].dying
                /\ proc[w].dying => Posted[w].dying
  <2> DEFINE w == workers[i]
             p == proc[w]
             c == Cmd(i)
             q == [p EXCEPT !.cmd = c]
  <2>1. w \in Worker /\ Posted[w] = q
    BY <1>5
  <2>2. p \in ProcState /\ c \in Command
    BY <1>1, <1>4, <2>1
  <2> HIDE DEF p, c, w
  <2>3. /\ q \in ProcState /\ q.state = p.state /\ q.out = p.out /\ q.cmd = c
        /\ q.dying => p.dying
        /\ p.dying => q.dying
    BY <2>2, NewCommand
  <2> HIDE DEF q
  <2> QED
    BY <2>1, <2>3, Zenon DEF p, c, w
<1>8. \A w \in Worker : Posted[w] \in ProcState
  BY <1>1, <1>6, <1>7
<1>9. Posted \in [Worker -> ProcState]
  BY <1>8 DEF Posted
<1>10. ASSUME NEW w \in Worker
       PROVE  /\ Posted[w].state = proc[w].state /\ Posted[w].out = proc[w].out
              /\ Posted[w].dying => proc[w].dying
              /\ proc[w].dying => Posted[w].dying
  <2>1. CASE \E i \in Starters : workers[i] = w
    BY <1>7, <2>1
  <2>2. CASE \A i \in Starters : workers[i] # w
    <3>1. Posted[w] = proc[w]
      BY <1>6, <2>2
    <3> QED
      BY <3>1
  <2> QED
    BY <2>1, <2>2
<1>11. \A i \in Starters : LET c == Posted[workers[i]].cmd
                           IN c.do = "parse" /\ c.lo = ps[i].lo /\ c.hi = UpTo(ps[i].lo, ps[i].hi, Batch)
  BY <1>4, <1>7
<1> QED
  BY <1>6, <1>9, <1>10, <1>11 DEF WorkersPosted, ps

LEMMA StartMoves ==
  ASSUME PoolTypes, Tiled(todo), StartDispatch
  PROVE  Started
<1> DEFINE t == Head(todo)
           ps == Pieces(t)
           used == DOMAIN ps
           holes == {i \in used : i > Len(workers) \/ workers[i] = None}
           throws == {i \in used \ holes : proc[workers[i]].state = "gone"}
           starts == used \ (holes \union throws)
           posted == [w \in Worker |->
                        IF \E i \in starts : workers[i] = w
                          THEN LET i == CHOOSE i \in starts : workers[i] = w
                               IN [proc[w] EXCEPT !.cmd = SendNext(i, ps[i].lo, ps[i].hi)]
                          ELSE proc[w]]
<1>0. /\ run.phase = "idle" /\ todo # <<>>
      /\ piece' = [i \in Slot |->
                    IF i \in starts
                      THEN [worker |-> workers[i], hi |-> ps[i].hi, open |-> TRUE,
                            next |-> UpTo(ps[i].lo, ps[i].hi, Batch) + 1]
                      ELSE NoPiece]
      /\ stale' = stale \union {[slot |-> i, worker |-> None] : i \in throws}
      /\ IF starts = used
           THEN /\ proc' = posted /\ run' = [run EXCEPT !.phase = "running"]
                /\ UNCHANGED workers
           ELSE GiveUp(workers, posted)
      /\ UNCHANGED <<setting, todo, graph, skipped>>
  BY Zenon DEF StartDispatch
<1> HIDE DEF posted, starts
<1>1. /\ run.phase = "idle" /\ todo # <<>> /\ UNCHANGED <<setting, todo, graph, skipped>>
      /\ stale' = stale \union {[slot |-> i, worker |-> None] : i \in throws}
      /\ \/ /\ starts = used /\ proc' = posted /\ run' = [run EXCEPT !.phase = "running"]
            /\ UNCHANGED workers
         \/ GiveUp(workers, posted)
  BY <1>0
<1>2. workers \in Seq(Worker \union {None}) /\ Len(workers) \in Nat /\ DOMAIN workers = 1..Len(workers)
  BY DEF PoolTypes
<1>3. used \subseteq Slot /\ \A i \in used : i \in Nat /\ 1 <= i
  <2>1. used \subseteq Slot
    <3>1. todo # <<>>
      BY <1>1
    <3> QED
      BY <3>1, StarterFacts, Zenon
  <2> QED
    BY <2>1 DEF Slot
<1>4. \A i \in used : i \notin holes <=> i \in DOMAIN workers /\ workers[i] # None
  BY <1>2, <1>3
<1>5. \A i \in used : i \in throws <=> i \in DOMAIN workers /\ workers[i] # None /\ proc[workers[i]].state = "gone"
  BY <1>4
<1>6. starts = Starters
  BY <1>4, <1>5 DEF Starters, starts
<1>7. posted = Posted
  BY <1>6, Zenon DEF Posted, posted
<1> HIDE DEF holes
<1>8. \A i \in Starters : [worker |-> workers[i], hi |-> ps[i].hi, open |-> TRUE,
                            next |-> UpTo(ps[i].lo, ps[i].hi, Batch) + 1] \in PieceState
  <2> TAKE i \in Starters
  <2>1. workers[i] \in Worker /\ ps[i].hi \in 0..NFiles /\ UpTo(ps[i].lo, ps[i].hi, Batch) \in Nat
    BY <1>1, StarterFacts
  <2> QED
    BY <2>1 DEF PieceState
<1>9. /\ piece' \in [Slot -> PieceState]
      /\ \A i \in Slot : i \notin Starters => piece'[i] = NoPiece
  BY <1>0, <1>6, <1>8, CommandTypes
<1>10. \A i \in Starters : /\ piece'[i].worker = workers[i] /\ piece'[i].hi = ps[i].hi /\ piece'[i].open
                           /\ piece'[i].next = UpTo(ps[i].lo, ps[i].hi, Batch) + 1
  <2> TAKE i \in Starters
  <2>1. i \in Slot
    BY <1>1, StarterFacts
  <2>2. piece'[i] = [worker |-> workers[i], hi |-> ps[i].hi, open |-> TRUE,
                     next |-> UpTo(ps[i].lo, ps[i].hi, Batch) + 1]
    BY <1>0, <1>6, <2>1
  <2> QED
    BY <2>2
<1>11. throws \subseteq Slot
  BY <1>3
<1>12. stale' \in SUBSET StaleState /\ stale \subseteq stale'
  <2>1. stale \in SUBSET StaleState
    BY DEF PoolTypes
  <2>2. \A i \in Slot : [slot |-> i, worker |-> None] \in StaleState
    BY DEF StaleState
  <2> QED
    BY <1>1, <1>11, <2>1, <2>2
<1>13. \A c \in stale' : c \in stale \/ /\ c.worker = None /\ c.slot \in DOMAIN workers
                                        /\ workers[c.slot] # None
                                        /\ proc[workers[c.slot]].state = "gone"
  <2> SUFFICES ASSUME NEW i \in throws
               PROVE  /\ i \in DOMAIN workers /\ workers[i] # None /\ proc[workers[i]].state = "gone"
    BY <1>1
  <2> QED
    BY <1>5
<1>14. \/ /\ Starters = used /\ proc' = Posted /\ UNCHANGED workers
          /\ run' = [run EXCEPT !.phase = "running"]
       \/ GiveUp(workers, Posted)
  BY <1>1, <1>6, <1>7
<1> HIDE DEF ps, throws
<1> QED
  BY <1>1, <1>9, <1>10, <1>12, <1>13, <1>14 DEF Started, ps

-----------------------------------------------------------------------------
(* What is streamed *)

LEMMA OwedInFiles == \A i \in Slot : \A f \in Owes(i) : f \in File
BY DEF Owes, Owed

\* The piece i goes on; what it no longer owes is streamed, or it has failed.
LEMMA PieceMoves ==
  ASSUME Wired, StreamedNow, NEW i \in Slot, piece[i].open, todo' = todo,
         \A j \in Slot : j # i => piece'[j] = piece[j],
         piece'[i].open, piece'[i].worker = piece[i].worker,
         \A v \in Worker : v # piece[i].worker => proc'[v] = proc[v],
         Protocol(piece[i], proc[piece[i].worker])',
         \A f \in File : \/ run'.streamed[f] = run.streamed[f]
                         \/ run'.streamed[f] = 1 /\ f \in Owes(i),
         \A f \in Owes(i) : f \in Owes(i)' \/ Fails(i)' \/ run'.streamed[f] = 1,
         \A f \in Owes(i)' : f \in Owes(i) /\ run'.streamed[f] = run.streamed[f],
         Fails(i) => Fails(i)',
         \A f \in Files(Head(todo)) : f \in File
  PROVE  StreamedNow'
<1>1. \A j \in Slot : piece[j].open => piece[j].worker \in Worker
  BY DEF Wired
<1>2. \A j \in Slot : piece[j].open /\ j # i => piece[j].worker # piece[i].worker
  BY DEF Wired, OpenWith
<1>3. ASSUME NEW j \in Slot, j # i
      PROVE  /\ piece'[j] = piece[j]
             /\ piece[j].open => /\ proc'[piece[j].worker] = proc[piece[j].worker]
                                 /\ Owes(j)' = Owes(j)
                                 /\ Fails(j)' <=> Fails(j)
                                 /\ Protocol(piece[j], proc[piece[j].worker])' <=>
                                      Protocol(piece[j], proc[piece[j].worker])
  <2>1. piece'[j] = piece[j]
    BY <1>3
  <2>2. ASSUME piece[j].open
        PROVE  proc'[piece[j].worker] = proc[piece[j].worker]
    BY <1>1, <1>2, <1>3, <2>2
  <2>3. ASSUME piece[j].open
        PROVE  Owes(j)' = Owes(j)
    BY <2>1, <2>2, <2>3 DEF Owes
  <2>4. ASSUME piece[j].open
        PROVE  Fails(j)' <=> Fails(j)
    BY <2>1, <2>2, <2>4 DEF Fails
  <2>5. ASSUME piece[j].open
        PROVE  Protocol(piece[j], proc[piece[j].worker])' <=> Protocol(piece[j], proc[piece[j].worker])
    BY <2>1, <2>2, <2>5
  <2> QED
    BY <2>1, <2>2, <2>3, <2>4, <2>5
<1>10. Files(Head(todo))' = Files(Head(todo))
  OBVIOUS
<1>4. \A f \in File : run'.streamed[f] \in {0, 1}
  BY DEF StreamedNow
<1>5. \A f \in File : run'.streamed[f] = 1 => f \in Files(Head(todo))
  BY DEF StreamedNow
<1>6. ASSUME NEW f \in Files(Head(todo)), run'.streamed[f] = 0
      PROVE  \E j \in Slot : piece'[j].open /\ (f \in Owes(j)' \/ Fails(j)')
  <2>1. run.streamed[f] = 0 /\ f \in File
    BY <1>6
  <2>2. PICK j \in Slot : piece[j].open /\ (f \in Owes(j) \/ Fails(j))
    BY <2>1 DEF StreamedNow
  <2>3. CASE j = i
    <3>1. f \in Owes(i) => f \in Owes(i)' \/ Fails(i)'
      BY <1>6, <2>1
    <3> QED
      BY <2>2, <2>3, <3>1
  <2>4. CASE j # i
    BY <1>3, <2>2, <2>4
  <2> QED
    BY <2>3, <2>4
<1>7. ASSUME NEW j \in Slot, piece'[j].open
      PROVE  /\ Protocol(piece[j], proc[piece[j].worker])'
             /\ \A f \in Owes(j)' : f \in Files(Head(todo)) /\ run'.streamed[f] = 0
  <2>1. CASE j = i
    BY <2>1 DEF StreamedNow
  <2>2. CASE j # i
    <3>1. piece[j].open /\ Owes(j)' = Owes(j) /\ Protocol(piece[j], proc[piece[j].worker])'
      BY <1>3, <1>7, <2>2 DEF StreamedNow
    <3>2. ASSUME NEW f \in Owes(j)
          PROVE  f \in Files(Head(todo)) /\ run'.streamed[f] = 0
      <4>1. f \in Files(Head(todo)) /\ run.streamed[f] = 0
        BY <3>1 DEF StreamedNow
      <4>2. f \notin Owes(i) /\ f \in File
        BY <2>2, <3>1, OwedInFiles DEF StreamedNow
      <4> QED
        BY <4>1, <4>2
    <3> QED
      BY <3>1, <3>2
  <2> QED
    BY <2>1, <2>2
<1>8. ASSUME NEW j \in Slot, NEW k \in Slot, piece'[j].open, piece'[k].open, j # k, NEW f \in Owes(j)'
      PROVE  f \notin Owes(k)'
  <2>1. CASE j = i
    <3>1. piece[k].open /\ Owes(k)' = Owes(k) /\ f \in Owes(i)
      BY <1>3, <1>8, <2>1
    <3> QED
      BY <1>8, <2>1, <3>1 DEF StreamedNow
  <2>2. CASE k = i
    <3>1. piece[j].open /\ Owes(j)' = Owes(j)
      BY <1>3, <1>8, <2>2
    <3>2. f \notin Owes(i)
      BY <1>8, <2>2, <3>1 DEF StreamedNow
    <3> QED
      BY <2>2, <3>2
  <2>3. CASE j # i /\ k # i
    <3>1. piece[j].open /\ Owes(j)' = Owes(j) /\ piece[k].open /\ Owes(k)' = Owes(k)
      BY <1>3, <1>8, <2>3
    <3> QED
      BY <1>8, <3>1 DEF StreamedNow
  <2> QED
    BY <2>1, <2>2, <2>3
<1> QED
  BY <1>4, <1>5, <1>6, <1>7, <1>8, <1>10 DEF StreamedNow

\* The piece i ends with its result; what is still missing is owed by the others.
LEMMA PieceEnds ==
  ASSUME Wired, StreamedNow, NEW i \in Slot, piece[i].open, todo' = todo,
         \A f \in File : f \notin Owes(i), ~Fails(i),
         \A j \in Slot : j # i => piece'[j] = piece[j], ~piece'[i].open,
         \A v \in Worker : v # piece[i].worker => proc'[v] = proc[v],
         run'.streamed = run.streamed
  PROVE  StreamedNow'
<1>1. \A j \in Slot : piece[j].open => piece[j].worker \in Worker
  BY DEF Wired
<1>2. \A j \in Slot : piece[j].open /\ j # i => piece[j].worker # piece[i].worker
  BY DEF Wired, OpenWith
<1>3. ASSUME NEW j \in Slot, piece'[j].open
      PROVE  /\ j # i /\ piece[j].open /\ Owes(j)' = Owes(j)
             /\ Fails(j)' <=> Fails(j)
             /\ Protocol(piece[j], proc[piece[j].worker])' <=> Protocol(piece[j], proc[piece[j].worker])
  <2>1. j # i /\ piece'[j] = piece[j] /\ piece[j].open
    BY <1>3
  <2>2. proc'[piece[j].worker] = proc[piece[j].worker]
    BY <1>1, <1>2, <2>1
  <2>3. Owes(j)' = Owes(j)
    BY <2>1, <2>2 DEF Owes
  <2>4. Fails(j)' <=> Fails(j)
    BY <2>1, <2>2 DEF Fails
  <2>5. Protocol(piece[j], proc[piece[j].worker])' <=> Protocol(piece[j], proc[piece[j].worker])
    BY <2>1, <2>2
  <2> QED
    BY <2>1, <2>3, <2>4, <2>5
<1>4. Files(Head(todo))' = Files(Head(todo))
  OBVIOUS
<1>5. ASSUME NEW f \in Files(Head(todo)), run.streamed[f] = 0
      PROVE  \E j \in Slot : piece'[j].open /\ (f \in Owes(j)' \/ Fails(j)')
  <2>1. PICK j \in Slot : piece[j].open /\ (f \in Owes(j) \/ Fails(j))
    BY <1>5 DEF StreamedNow
  <2>2. j # i
    BY <2>1, OwedInFiles
  <2>3. piece'[j] = piece[j]
    BY <2>2
  <2> QED
    BY <1>3, <2>1, <2>3
<1>6. ASSUME NEW j \in Slot, piece'[j].open
      PROVE  /\ Protocol(piece[j], proc[piece[j].worker])'
             /\ \A f \in Owes(j)' : f \in Files(Head(todo)) /\ run.streamed[f] = 0
  BY <1>3, <1>6 DEF StreamedNow
<1>7. ASSUME NEW j \in Slot, NEW k \in Slot, piece'[j].open, piece'[k].open, j # k, NEW f \in Owes(j)'
      PROVE  f \notin Owes(k)'
  <2>1. piece[j].open /\ Owes(j)' = Owes(j) /\ piece[k].open /\ Owes(k)' = Owes(k)
    BY <1>3, <1>7
  <2> QED
    BY <1>7, <2>1 DEF StreamedNow
<1>8. /\ \A f \in File : run.streamed[f] \in {0, 1}
      /\ \A f \in File : run.streamed[f] = 1 => f \in Files(Head(todo))
  BY DEF StreamedNow
<1> QED
  BY <1>4, <1>5, <1>6, <1>7, <1>8 DEF StreamedNow

\* When it was the last one, all is streamed.
LEMMA AllStreamed ==
  ASSUME StreamedNow, NEW i \in Slot, \A f \in File : f \notin Owes(i), ~Fails(i),
         \A j \in Slot : j # i => ~piece[j].open,
         \A f \in Files(Head(todo)) : f \in File
  PROVE  \A f \in File : run.streamed[f] = IF f \in Files(Head(todo)) THEN 1 ELSE 0
<1> TAKE f \in File
<1>1. run.streamed[f] \in {0, 1} /\ (run.streamed[f] = 1 => f \in Files(Head(todo)))
  BY DEF StreamedNow
<1>2. ASSUME f \in Files(Head(todo)), run.streamed[f] = 0
      PROVE  FALSE
  <2>1. PICK j \in Slot : piece[j].open /\ (f \in Owes(j) \/ Fails(j))
    BY <1>2 DEF StreamedNow
  <2> QED
    BY <2>1
<1> QED
  BY <1>1, <1>2

\* Nothing happens to what the pieces listen to.
LEMMA SameStream ==
  ASSUME StreamedNow, todo' = todo, piece' = piece, run'.streamed = run.streamed,
         \A i \in Slot : piece[i].open =>
           /\ proc'[piece[i].worker].cmd = proc[piece[i].worker].cmd
           /\ proc'[piece[i].worker].out = proc[piece[i].worker].out
  PROVE  StreamedNow'
<1>1. ASSUME NEW j \in Slot, piece[j].open
      PROVE  /\ Owes(j)' = Owes(j)
             /\ Fails(j)' <=> Fails(j)
             /\ Protocol(piece[j], proc[piece[j].worker])' <=> Protocol(piece[j], proc[piece[j].worker])
  <2>1. /\ proc'[piece[j].worker].cmd = proc[piece[j].worker].cmd
        /\ proc'[piece[j].worker].out = proc[piece[j].worker].out
        /\ piece'[j] = piece[j]
    BY <1>1
  <2>2. Owes(j)' = Owes(j)
    BY <2>1 DEF Owes, Owed
  <2>3. Fails(j)' <=> Fails(j)
    BY <2>1 DEF Fails, Failed
  <2>4. Protocol(piece[j], proc[piece[j].worker])' <=> Protocol(piece[j], proc[piece[j].worker])
    BY <2>1 DEF Protocol, Failed
  <2> QED
    BY <2>2, <2>3, <2>4
<1>2. Files(Head(todo))' = Files(Head(todo))
  OBVIOUS
<1>3. \A j \in Slot : piece'[j].open => piece[j].open
  OBVIOUS
<1>4. ASSUME NEW f \in Files(Head(todo)), run.streamed[f] = 0
      PROVE  \E j \in Slot : piece'[j].open /\ (f \in Owes(j)' \/ Fails(j)')
  <2>1. PICK j \in Slot : piece[j].open /\ (f \in Owes(j) \/ Fails(j))
    BY <1>4 DEF StreamedNow
  <2> QED
    BY <1>1, <2>1
<1>5. ASSUME NEW j \in Slot, piece'[j].open
      PROVE  /\ Protocol(piece[j], proc[piece[j].worker])'
             /\ \A f \in Owes(j)' : f \in Files(Head(todo)) /\ run.streamed[f] = 0
  BY <1>1, <1>3, <1>5 DEF StreamedNow
<1>6. ASSUME NEW j \in Slot, NEW k \in Slot, piece'[j].open, piece'[k].open, j # k, NEW f \in Owes(j)'
      PROVE  f \notin Owes(k)'
  <2>1. piece[j].open /\ Owes(j)' = Owes(j) /\ piece[k].open /\ Owes(k)' = Owes(k)
    BY <1>1, <1>3, <1>6
  <2> QED
    BY <1>6, <2>1 DEF StreamedNow
<1>7. /\ \A f \in File : run.streamed[f] \in {0, 1}
      /\ \A f \in File : run.streamed[f] = 1 => f \in Files(Head(todo))
  BY DEF StreamedNow
<1> QED
  BY <1>2, <1>4, <1>5, <1>6, <1>7 DEF StreamedNow

\* A dispatch whose pieces all start owes the files of its task.
LEMMA FirstStream ==
  ASSUME PoolTypes, Tiled(todo), Wired, Quiet, Started, proc' = Posted, run'.streamed = run.streamed,
         Starters = DOMAIN Pieces(Head(todo))
  PROVE  StreamedNow'
<1> DEFINE t == Head(todo)
           ps == Pieces(t)
<1>1. /\ run.phase = "idle" /\ todo # <<>> /\ todo' = todo
      /\ \A i \in Slot : i \notin Starters => piece'[i] = NoPiece
      /\ \A i \in Starters :
           /\ piece'[i].worker = workers[i] /\ piece'[i].hi = ps[i].hi /\ piece'[i].open
           /\ piece'[i].next = UpTo(ps[i].lo, ps[i].hi, Batch) + 1
  BY DEF Started
<1>2. t \in Task /\ Divides(ps, t) /\ \A i \in Starters : i \in Slot
  BY <1>1, StarterFacts
<1>3. \A i \in Slot : ~piece[i].open
  BY <1>1 DEF Wired
<1>4. ASSUME NEW i \in Starters
      PROVE  /\ workers[i] \in Worker /\ proc'[workers[i]].out = <<>>
             /\ proc'[workers[i]].cmd.do = "parse" /\ proc'[workers[i]].cmd.lo = ps[i].lo
             /\ proc'[workers[i]].cmd.hi = UpTo(ps[i].lo, ps[i].hi, Batch)
  <2>1. i \in DOMAIN workers /\ workers[i] \in Worker /\ workers[i] # None
    BY <1>1, StarterFacts DEF Starters
  <2>2. proc[workers[i]].out = <<>>
    BY <1>3, <2>1 DEF Quiet, OpenWith
  <2>3. WorkersPosted
    BY <1>1, PostFacts
  <2> QED
    BY <2>1, <2>2, <2>3 DEF WorkersPosted
<1>5. ASSUME NEW i \in Starters
      PROVE  /\ \A f \in File : f \in Owes(i)' <=> f \in Files(ps[i])
             /\ Protocol(piece[i], proc[piece[i].worker])'
  <2> DEFINE lo == ps[i].lo
             hi == ps[i].hi
             u == UpTo(ps[i].lo, ps[i].hi, Batch)
             q == piece'[i]
             p == proc'[piece'[i].worker]
  <2>1. lo \in Nat /\ hi \in Nat /\ u \in Nat /\ lo <= u /\ u <= hi
    BY <1>1, StarterFacts
  <2>2. /\ q.hi = hi /\ q.next = u + 1 /\ p.out = <<>>
        /\ p.cmd.do = "parse" /\ p.cmd.lo = lo /\ p.cmd.hi = u
    BY <1>1, <1>4
  <2>3. Owes(i)' = Owed(q, p)
    BY DEF Owes
  <2>4. Protocol(piece[i], proc[piece[i].worker])' <=> Protocol(q, p)
    OBVIOUS
  <2>5. Files(ps[i]) = lo..hi
    BY DEF Files
  <2> HIDE DEF lo, hi, u, q, p
  <2>6. p.cmd.hi < q.next /\ Len(p.out) # 2
    BY <2>1, <2>2
  <2>7. Protocol(q, p)
    BY <2>2, <2>6 DEF Protocol
  <2>8. ASSUME NEW f \in File
        PROVE  f \in Owed(q, p) <=> f \in lo..hi
    <3>1. f \in Nat
      BY DEF File
    <3>2. f \in Owed(q, p) <=> (u + 1 <= f /\ f <= hi) \/ (lo <= f /\ f <= u)
      BY <2>2, <2>6 DEF Owed
    <3> QED
      BY <2>1, <3>1, <3>2
  <2> QED
    BY <2>3, <2>4, <2>5, <2>7, <2>8
<1>6. \A i \in Slot : piece'[i].open <=> i \in Starters
  BY <1>1, CommandTypes
<1>7. \A f \in File : run'.streamed[f] = 0
  BY <1>1, CommandTypes DEF Wired
<1>8. Files(Head(todo))' = Files(t)
  BY <1>1
<1>9. \A f \in Files(t) : f \in File
  BY <1>2, TaskFacts
<1> HIDE DEF ps, t
<1>10. ASSUME NEW f \in Files(t)
       PROVE  \E i \in Slot : piece'[i].open /\ f \in Owes(i)'
  <2>1. PICK i \in DOMAIN ps : f \in Files(ps[i])
    BY <1>2 DEF Divides
  <2>2. i \in Starters
    BY <2>1 DEF ps, t
  <2> QED
    BY <1>2, <1>5, <1>6, <1>9, <2>1, <2>2
<1>11. ASSUME NEW i \in Slot, piece'[i].open
       PROVE  /\ Protocol(piece[i], proc[piece[i].worker])'
              /\ \A f \in Owes(i)' : f \in Files(t) /\ run'.streamed[f] = 0
  <2>1. i \in Starters /\ i \in DOMAIN ps
    BY <1>6, <1>11 DEF ps, t
  <2>2. ASSUME NEW f \in Owes(i)'
        PROVE  f \in Files(t) /\ f \in File
    <3>1. f \in File
      BY DEF Owes, Owed
    <3>2. f \in Files(ps[i])
      BY <1>5, <2>1, <3>1
    <3>3. /\ t.lo <= ps[i].lo /\ ps[i].hi <= t.hi
      BY <1>2, <2>1 DEF Divides
    <3>4. ps[i].lo \in Nat /\ ps[i].hi \in Nat
      BY <1>1, <2>1, StarterFacts DEF ps, t
    <3>5. f \in Nat /\ ps[i].lo <= f /\ f <= ps[i].hi
      BY <3>1, <3>2, <3>4 DEF Files, File
    <3>6. t.lo \in Nat /\ t.hi \in Nat
      BY <1>2, TaskFacts
    <3>7. t.lo <= f /\ f <= t.hi
      BY <3>3, <3>4, <3>5, <3>6
    <3> QED
      BY <1>2, <3>1, <3>5, <3>7, TaskFacts
  <2> QED
    BY <1>5, <1>7, <2>1, <2>2
<1>12. ASSUME NEW i \in Slot, NEW j \in Slot, piece'[i].open, piece'[j].open, i # j, NEW f \in Owes(i)'
       PROVE  f \notin Owes(j)'
  <2>1. i \in Starters /\ i \in DOMAIN ps /\ j \in Starters /\ j \in DOMAIN ps /\ i \in Nat /\ j \in Nat
    BY <1>6, <1>12 DEF ps, t, Slot
  <2>2. f \in File /\ f \in Nat
    BY DEF Owes, Owed, File
  <2>3. SUFFICES ASSUME f \in Files(ps[i]), f \in Files(ps[j])
                 PROVE  FALSE
    BY <1>5, <2>1, <2>2
  <2>4. ps[i].lo \in Nat /\ ps[i].hi \in Nat /\ ps[j].lo \in Nat /\ ps[j].hi \in Nat
    BY <1>1, <2>1, StarterFacts DEF ps, t
  <2>5. ps[i].lo <= f /\ f <= ps[i].hi /\ ps[j].lo <= f /\ f <= ps[j].hi
    BY <2>2, <2>3, <2>4 DEF Files
  <2>6. (i < j => ps[i].hi < ps[j].lo) /\ (j < i => ps[j].hi < ps[i].lo)
    BY <1>2, <2>1 DEF Divides
  <2> QED
    BY <1>12, <2>1, <2>2, <2>4, <2>5, <2>6
<1>13. \A f \in File : run'.streamed[f] \in {0, 1} /\ run'.streamed[f] # 1
  BY <1>7
<1> QED
  BY <1>8, <1>10, <1>11, <1>12, <1>13 DEF StreamedNow

-----------------------------------------------------------------------------
(* Workers keep the invariant *)

LEMMA SameBooks ==
  ASSUME Tiled(todo), Booked, UNCHANGED <<todo, graph, skipped>>
  PROVE  Tiled(todo)' /\ Booked'
BY DEF Tiled, Booked, Waiting

\* A worker of the array to whom nobody listens does not run, and dies only if told.
LEMMA IdleWorker ==
  ASSUME PoolTypes, Quiet, NEW k \in DOMAIN workers, workers[k] # None, WorkerMoved(workers[k]),
         \A i \in Slot : ~OpenWith(i, workers[k])
  PROVE  /\ proc'[workers[k]].state = "dead" /\ proc'[workers[k]].out = <<>>
         /\ proc'[workers[k]].cmd.do = "none"
         /\ proc[workers[k]].dying \/ setting.isolation # "thread"
<1>1. proc[workers[k]].cmd.do = "none" /\ proc[workers[k]].out = <<>>
  BY DEF Quiet
<1> QED
  BY <1>1 DEF WorkerMoved

LEMMA FirstMessages ==
  ASSUME NEW ms \in Seq(Message)
  PROVE  <<>> \o ms = ms
OBVIOUS

\* What a worker does is what its piece expects.
LEMMA WorkerAnswers ==
  ASSUME PoolTypes, NEW i \in Slot, NEW w \in Worker, OpenWith(i, w), WorkerMoved(w),
         Protocol(piece[i], proc[w])
  PROVE  /\ Protocol(piece[i], proc[w])'
         /\ \A f \in Owed(piece[i], proc[w]) : f \in Owed(piece[i], proc[w])' \/ Failed(proc[w])'
         /\ \A f \in Owed(piece[i], proc[w])' : f \in Owed(piece[i], proc[w])
         /\ Failed(proc[w]) => Failed(proc[w])'
         /\ proc[w].cmd.do = "parse" => proc[w].out = <<>>
<1> DEFINE q == piece[i]
           p == proc[w]
           r == proc'[w]
<1>1. q' = q
  BY DEF WorkerMoved
<1>2. p.out \in Seq(Message) /\ p.cmd.do \in {"none", "parse", "flush"} /\ p.cmd.lo \in Nat /\ p.cmd.hi \in Nat
  <2>1. p \in ProcState
    BY DEF PoolTypes
  <2> QED
    BY <2>1 DEF ProcState, Command
<1>12. /\ <<>> \o <<Msg("result", {})>> = <<Msg("result", {})>>
       /\ <<>> \o <<Msg("error", {})>> = <<Msg("error", {})>>
       /\ <<>> \o <<Msg("part", p.cmd.lo..p.cmd.hi), Msg("done", {})>>
            = <<Msg("part", p.cmd.lo..p.cmd.hi), Msg("done", {})>>
  <2>1. p.cmd.lo..p.cmd.hi \in SUBSET Nat
    BY <1>2
  <2>2. /\ Msg("result", {}) \in Message /\ Msg("done", {}) \in Message /\ Msg("error", {}) \in Message
        /\ Msg("part", p.cmd.lo..p.cmd.hi) \in Message
    BY <2>1 DEF Msg, Message
  <2>3. /\ <<Msg("result", {})>> \in Seq(Message) /\ <<Msg("error", {})>> \in Seq(Message)
        /\ <<Msg("part", p.cmd.lo..p.cmd.hi), Msg("done", {})>> \in Seq(Message)
    BY <2>2
  <2> QED
    BY <2>3, FirstMessages, Zenon
<1>3. r.cmd.do = "none"
  BY DEF WorkerMoved
<1>4. \/ r.out = p.out
      \/ p.cmd.do = "flush" /\ r.out = p.out \o <<Msg("result", {})>>
      \/ p.cmd.do = "parse" /\ r.out = p.out \o <<Msg("part", p.cmd.lo..p.cmd.hi), Msg("done", {})>>
      \/ p.cmd.do = "parse" /\ r.out = p.out \o <<Msg("error", {})>>
  BY Zenon DEF WorkerMoved
<1>5. Protocol(q, p)
  OBVIOUS
<1> HIDE DEF p, q, r
<1>6. p.cmd.do \in {"parse", "flush"} => p.out = <<>>
  BY <1>5 DEF Protocol, Failed
<1>7. CASE p.cmd.do = "none"
  <2>1. r.out = p.out
    BY <1>4, <1>7
  <2>2. Protocol(q, r) /\ (Failed(p) => Failed(r))
    BY <1>3, <1>5, <1>7, <2>1 DEF Protocol, Failed
  <2>3. \A f : f \in Owed(q, p) <=> f \in Owed(q, r)
    BY <1>3, <1>7, <2>1 DEF Owed
  <2> QED
    BY <1>1, <1>7, <2>2, <2>3 DEF p, q, r
<1>8. CASE p.cmd.do # "none" /\ r.out = p.out
  <2>1. p.out = <<>>
    BY <1>2, <1>6, <1>8
  <2>2. Failed(r) /\ Protocol(q, r)
    BY <1>3, <1>8, <2>1 DEF Failed, Protocol
  <2>3. \A f : f \in Owed(q, r) => f \in Owed(q, p)
    BY <1>3, <1>8, <2>1 DEF Owed
  <2>4. ~Failed(p)
    BY <1>8 DEF Failed
  <2> QED
    BY <1>1, <2>1, <2>2, <2>3, <2>4 DEF p, q, r
<1>9. CASE p.cmd.do = "flush" /\ r.out = p.out \o <<Msg("result", {})>>
  <2>1. p.out = <<>> /\ r.out = <<Msg("result", {})>>
    BY <1>6, <1>9, <1>12, Zenon
  <2>2. q.next > q.hi
    BY <1>5, <1>9 DEF Protocol, Failed
  <2>3. Len(r.out) = 1 /\ r.out[1].type = "result" /\ Len(p.out) = 0
    BY <2>1 DEF Msg
  <2>4. Protocol(q, r) /\ ~Failed(p)
    BY <1>3, <1>9, <2>2, <2>3 DEF Protocol, Failed
  <2>5. \A f : f \in Owed(q, r) <=> f \in Owed(q, p)
    BY <1>3, <1>9, <2>3 DEF Owed
  <2> QED
    BY <1>1, <2>1, <2>4, <2>5 DEF p, q, r
<1>10. CASE /\ p.cmd.do = "parse"
            /\ r.out = p.out \o <<Msg("part", p.cmd.lo..p.cmd.hi), Msg("done", {})>>
  <2>1. p.out = <<>> /\ r.out = <<Msg("part", p.cmd.lo..p.cmd.hi), Msg("done", {})>>
    BY <1>6, <1>10, <1>12, Zenon
  <2>2. p.cmd.hi < q.next
    BY <1>5, <1>10 DEF Protocol, Failed
  <2>3. /\ Len(r.out) = 2 /\ r.out[1].type = "part" /\ r.out[2].type = "done" /\ Len(p.out) = 0
        /\ r.out[1].files = p.cmd.lo..p.cmd.hi
    BY <2>1 DEF Msg
  <2>4. q.next \in Nat
    <3>1. q \in PieceState
      BY DEF q, PoolTypes
    <3> QED
      BY <3>1 DEF PieceState
  <2>5. \A f \in r.out[1].files : f < q.next
    BY <1>2, <2>2, <2>3, <2>4
  <2>6. Protocol(q, r) /\ ~Failed(p)
    BY <1>3, <1>10, <2>3, <2>5 DEF Protocol, Failed
  <2>7. \A f : f \in Owed(q, r) <=> f \in Owed(q, p)
    <3> TAKE f
    <3>1. f \in File => f \in Nat
      BY DEF File
    <3>2. f \in Nat => (f \in r.out[1].files <=> p.cmd.lo <= f /\ f <= p.cmd.hi)
      BY <1>2, <2>3
    <3> QED
      BY <1>3, <1>10, <2>3, <3>1, <3>2 DEF Owed
  <2> QED
    BY <1>1, <2>1, <2>6, <2>7 DEF p, q, r
<1>11. CASE p.cmd.do = "parse" /\ r.out = p.out \o <<Msg("error", {})>>
  <2>1. p.out = <<>> /\ r.out = <<Msg("error", {})>>
    BY <1>6, <1>11, <1>12, Zenon
  <2>2. Len(r.out) = 1 /\ r.out[1].type = "error" /\ Len(p.out) = 0
    BY <2>1 DEF Msg
  <2>3. Failed(r) /\ Protocol(q, r)
    BY <1>3, <2>2 DEF Failed, Protocol
  <2>4. \A f : f \in Owed(q, r) => f \in Owed(q, p)
    BY <1>3, <2>2 DEF Owed
  <2>5. ~Failed(p)
    BY <1>11 DEF Failed
  <2> QED
    BY <1>1, <2>1, <2>3, <2>4, <2>5 DEF p, q, r
<1> QED
  BY <1>4, <1>7, <1>8, <1>9, <1>10, <1>11

LEMMA HeadIsTask ==
  ASSUME PoolTypes, todo # <<>>
  PROVE  Head(todo) \in Task /\ \A f \in Files(Head(todo)) : f \in File
<1>1. Head(todo) \in Task
  BY DEF PoolTypes
<1> QED
  BY <1>1, TaskFacts

LEMMA WorkerKeeps ==
  ASSUME ParseInv, NEW w \in Worker, WorkerMoved(w)
  PROVE  ParseInv'
<1>1. PoolTypes /\ Tiled(todo) /\ Booked /\ Wired /\ Leftover /\ Quiet /\ Streaming /\ Threads
  BY DEF ParseInv
<1>2. /\ UNCHANGED <<setting, workers, piece, stale, todo, graph, skipped>>
      /\ run' \in RunState /\ run'.phase = run.phase /\ run'.streamed = run.streamed
      /\ run'.awaiting = run.awaiting
      /\ proc' \in [Worker -> ProcState]
      /\ \A v \in Worker : v # w => proc'[v] = proc[v]
      /\ proc[w].state # "gone" /\ proc'[w].state # "gone" /\ proc'[w].cmd.do = "none"
  BY DEF WorkerMoved
<1>3. ~proc'[w].dying => ~proc[w].dying
  BY DEF WorkerMoved
<1>4. proc'[w].dying => proc[w].dying
  BY DEF WorkerMoved
<1>5. PoolTypes'
  BY <1>1, <1>2 DEF PoolTypes
<1>6. Tiled(todo)' /\ Booked'
  BY <1>1, <1>2, SameBooks
<1>7. \A v \in Worker : proc'[v].state = "gone" <=> proc[v].state = "gone"
  BY <1>2
<1>8. Wired'
  BY <1>1, <1>2, <1>7 DEF Wired, OpenWith
<1>9. Leftover'
  <2>1. \A c \in stale : c.worker # None => c.worker \in Worker
    BY <1>1 DEF PoolTypes, StaleState
  <2> QED
    BY <1>1, <1>2, <1>7, <2>1 DEF Leftover, OpenWith
<1>10. \A k \in DOMAIN workers : workers[k] # None => workers[k] \in Worker
  BY <1>1 DEF PoolTypes
<1>11. Quiet'
  <2> SUFFICES ASSUME NEW k \in DOMAIN workers, workers[k] # None, \A i \in Slot : ~OpenWith(i, workers[k])
               PROVE  proc'[workers[k]].cmd.do = "none" /\ proc'[workers[k]].out = <<>>
    BY <1>2 DEF Quiet, OpenWith
  <2>1. CASE workers[k] = w
    BY <1>1, <2>1, IdleWorker
  <2>2. CASE workers[k] # w
    BY <1>1, <1>2, <1>10, <2>2 DEF Quiet
  <2> QED
    BY <2>1, <2>2
<1>12. Streaming'
  <2> SUFFICES ASSUME run.phase = "running"
               PROVE  StreamedNow'
    BY <1>2 DEF Streaming
  <2>1. StreamedNow /\ todo # <<>>
    BY <1>1 DEF Streaming, Wired
  <2>2. CASE \A i \in Slot : ~OpenWith(i, w)
    <3>1. \A i \in Slot : piece[i].open => proc'[piece[i].worker] = proc[piece[i].worker]
      BY <1>1, <1>2, <2>2 DEF Wired, OpenWith
    <3> QED
      BY <1>2, <2>1, <3>1, SameStream
  <2>3. ASSUME NEW i \in Slot, OpenWith(i, w)
        PROVE  StreamedNow'
    <3>1. piece[i].open /\ piece[i].worker = w /\ piece' = piece
      BY <1>2, <2>3 DEF OpenWith
    <3>2. Protocol(piece[i], proc[w])
      BY <2>1, <3>1 DEF StreamedNow
    <3>3. /\ Protocol(piece[i], proc[w])'
          /\ \A f \in Owed(piece[i], proc[w]) : f \in Owed(piece[i], proc[w])' \/ Failed(proc[w])'
          /\ \A f \in Owed(piece[i], proc[w])' : f \in Owed(piece[i], proc[w])
          /\ Failed(proc[w]) => Failed(proc[w])'
      BY <1>1, <2>3, <3>2, WorkerAnswers
    <3>4. Owes(i) = Owed(piece[i], proc[w]) /\ Owes(i)' = Owed(piece[i], proc[w])'
      BY <3>1 DEF Owes
    <3>5. (Fails(i) <=> Failed(proc[w])) /\ (Fails(i)' <=> Failed(proc[w])')
      BY <3>1 DEF Fails
    <3>6. Protocol(piece[i], proc[piece[i].worker])'
      BY <3>1, <3>3
    <3>7. \A f \in Owes(i) : f \in Owes(i)' \/ Fails(i)'
      BY <3>3, <3>4, <3>5
    <3>8. \A f \in Owes(i)' : f \in Owes(i) /\ run'.streamed[f] = run.streamed[f]
      BY <1>2, <3>3, <3>4
    <3>9. Fails(i) => Fails(i)'
      BY <3>3, <3>5
    <3>10. \A f \in Files(Head(todo)) : f \in File
      BY <1>1, <2>1, HeadIsTask
    <3> QED
      BY <1>1, <1>2, <2>1, <3>1, <3>6, <3>7, <3>8, <3>9, <3>10, PieceMoves
  <2> QED
    BY <2>2, <2>3
<1>13. Threads'
  <2> SUFFICES ASSUME setting.isolation = "thread"
               PROVE  Threads'
    BY <1>2 DEF Threads
  <2>1. ASSUME NEW k \in DOMAIN workers, workers[k] # None, run.phase \in {"idle", "running", "resetting"}
        PROVE  /\ ~proc'[workers[k]].dying
               /\ \/ proc'[workers[k]].state = "live"
                  \/ /\ run.phase = "running" /\ proc'[workers[k]].out = <<>>
                     /\ \E i \in Slot : OpenWith(i, workers[k])
    <3>1. /\ ~proc[workers[k]].dying
          /\ \/ proc[workers[k]].state = "live"
             \/ /\ run.phase = "running" /\ proc[workers[k]].out = <<>>
                /\ \E i \in Slot : OpenWith(i, workers[k])
      BY <1>1, <2>1 DEF Threads
    <3>2. CASE workers[k] # w
      BY <1>2, <1>10, <2>1, <3>1, <3>2
    <3>3. CASE workers[k] = w
      <4>1. PICK i \in Slot : OpenWith(i, w)
        <5>1. CASE \A i \in Slot : ~OpenWith(i, w)
          BY <1>1, <2>1, <3>1, <3>3, <5>1, IdleWorker
        <5> QED
          BY <5>1
      <4>2. run.phase = "running"
        BY <1>1, <2>1, <3>3, <4>1 DEF Wired, OpenWith
      <4>3. Protocol(piece[i], proc[w])
        BY <1>1, <4>1, <4>2 DEF Streaming, StreamedNow, OpenWith
      <4>4. proc[w].cmd.do = "parse" => proc[w].out = <<>>
        BY <1>1, <4>1, <4>3, WorkerAnswers
      <4>5. \/ proc'[w].state = "live"
            \/ proc[w].cmd.do = "parse" /\ proc'[w].out = proc[w].out
        BY <3>1, <3>3 DEF WorkerMoved
      <4>6. ~proc'[w].dying
        BY <1>4, <3>1, <3>3
      <4> QED
        BY <3>3, <4>1, <4>2, <4>4, <4>5, <4>6
    <3> QED
      BY <3>2, <3>3
  <2>2. ASSUME NEW v \in Worker, proc'[v].state \in {"live", "stuck"}, ~proc'[v].dying
        PROVE  \E k \in DOMAIN workers : workers[k] = v
    <3>1. proc[v].state \in {"live", "stuck"} /\ ~proc[v].dying
      <4>1. CASE v = w
        <5>1. proc[w].state = "live"
          BY <2>2, <4>1 DEF WorkerMoved
        <5> QED
          BY <1>3, <2>2, <4>1, <5>1
      <4>2. CASE v # w
        BY <1>2, <2>2, <4>2
      <4> QED
        BY <4>1, <4>2
    <3> QED
      BY <1>1, <3>1 DEF Threads
  <2>3. /\ stale' = {}
        /\ run'.phase = "running" =>
             \A i \in Slot : piece'[i].open => i \in DOMAIN workers' /\ workers'[i] = piece'[i].worker
        /\ run'.phase = "resetting" =>
             \A i \in Slot : piece'[i].open =>
               piece'[i].worker \in run'.awaiting /\ (i \in DOMAIN workers' => workers'[i] = None)
        /\ run'.phase = "closing" => Listed(workers') \subseteq run'.awaiting
    BY <1>1, <1>2 DEF Threads
  <2>4. \A i, v : OpenWith(i, v)' <=> OpenWith(i, v)
    BY <1>2 DEF OpenWith
  <2> QED
    BY <1>2, <2>1, <2>2, <2>3, <2>4 DEF Threads
<1> QED
  BY <1>5, <1>6, <1>8, <1>9, <1>11, <1>12, <1>13 DEF ParseInv

-----------------------------------------------------------------------------
(* Pieces that fail, and pieces of a failed dispatch *)

\* The dispatch is given up because of its piece i.
LEMMA FailedDispatch ==
  ASSUME ParseInv, run.phase = "running", NEW i \in Slot, piece[i].open,
         NEW ws \in Seq(Worker \union {None}), NEW pc \in [Worker -> ProcState], GaveUp(ws, pc),
         UNCHANGED <<setting, todo, graph, skipped>>, stale' \subseteq stale,
         piece' = Closed(piece, {i}),
         \A v \in Worker : pc[v].state = "gone" => proc[v].state = "gone" \/ v = piece[i].worker,
         \A j \in DOMAIN workers : j # i /\ workers[j] # None => workers[j] \in Listed(ws),
         setting.isolation = "thread" =>
           \A v \in Worker : pc[v].state \in {"live", "stuck"} /\ ~pc[v].dying => v \in Listed(ws)
  PROVE  ParseInv'
<1>1. PoolTypes /\ Tiled(todo) /\ Booked /\ Wired /\ Leftover /\ Quiet /\ Streaming /\ Threads
  BY DEF ParseInv
<1>2. /\ piece' \in [Slot -> PieceState]
      /\ \A j \in Slot : piece'[j].open => j # i /\ piece'[j] = piece[j]
  BY <1>1, ClosedFacts
<1>3. /\ workers' \in Seq(Worker \union {None}) /\ proc' \in [Worker -> ProcState] /\ run' \in RunState
      /\ workers' = <<>> /\ run'.phase = "resetting" /\ run'.awaiting = Listed(ws) /\ run'.streamed = NoFiles
  BY DEF GaveUp
<1>4. \A v \in Worker : proc'[v].state = pc[v].state /\ (~proc'[v].dying => ~pc[v].dying)
  BY DEF GaveUp
<1>5. \A v \in Listed(ws) : v \in Worker /\ (pc[v].state # "gone" => proc'[v].dying)
  BY DEF GaveUp
<1>6. DOMAIN workers' = {}
  BY <1>3
<1>7. PoolTypes'
  <2>1. stale' \in SUBSET StaleState
    BY <1>1 DEF PoolTypes
  <2> QED
    BY <1>1, <1>2, <1>3, <2>1 DEF PoolTypes
<1>8. Tiled(todo)' /\ Booked'
  BY <1>1, SameBooks
<1>9. \A j \in Slot : piece'[j].open =>
        /\ piece[j].open /\ piece'[j].worker = piece[j].worker /\ piece[j].worker \in Worker
        /\ piece[j].worker # piece[i].worker /\ proc'[piece[j].worker].state # "gone"
  <2> TAKE j \in Slot
  <2> HAVE piece'[j].open
  <2>1. j # i /\ piece'[j] = piece[j] /\ piece[j].open
    BY <1>2
  <2>2. piece[j].worker \in Worker /\ proc[piece[j].worker].state # "gone" /\ piece[j].worker # piece[i].worker
    BY <1>1, <2>1 DEF Wired, OpenWith
  <2> QED
    BY <1>4, <2>1, <2>2
<1>10. Wired'
  <2>1. \A j, k \in Slot : piece'[j].open /\ piece'[k].open /\ piece'[k].worker = piece'[j].worker => j = k
    BY <1>1, <1>9 DEF Wired, OpenWith
  <2>2. todo' # <<>>
    BY <1>1 DEF Wired
  <2> QED
    BY <1>3, <1>6, <1>9, <2>1, <2>2 DEF Wired, OpenWith
<1>11. Leftover'
  <2>1. \A c \in stale' : c.worker # None =>
          /\ c.worker \in Worker /\ proc[c.worker].state # "gone" /\ \A j \in Slot : ~OpenWith(j, c.worker)
    BY <1>1 DEF Leftover, PoolTypes, StaleState
  <2>2. \A c \in stale' : c.worker # None => proc'[c.worker].state # "gone"
    BY <1>4, <2>1 DEF OpenWith
  <2>3. \A c \in stale' : c.worker # None => \A j \in Slot : ~OpenWith(j, c.worker)'
    BY <1>9, <2>1 DEF OpenWith
  <2>4. \A c, d \in stale' : c.worker = d.worker /\ c.worker # None => c = d
    BY <1>1 DEF Leftover
  <2> QED
    BY <1>6, <2>2, <2>3, <2>4 DEF Leftover
<1>12. Quiet' /\ Streaming'
  BY <1>3, <1>6 DEF Quiet, Streaming
<1>13. Threads'
  <2> SUFFICES ASSUME setting.isolation = "thread"
               PROVE  Threads'
    BY DEF Threads
  <2>1. stale' = {}
    BY <1>1 DEF Threads
  <2>2. \A j \in Slot : piece'[j].open => piece'[j].worker \in run'.awaiting
    <3> TAKE j \in Slot
    <3> HAVE piece'[j].open
    <3>1. j \in DOMAIN workers /\ workers[j] = piece[j].worker /\ j # i
      BY <1>1, <1>2, <1>9 DEF Threads
    <3>2. piece[j].worker # None
      BY <1>9, ConstantsTyped
    <3> QED
      BY <1>3, <1>9, <3>1, <3>2
  <2>3. \A v \in Worker : ~(proc'[v].state \in {"live", "stuck"} /\ ~proc'[v].dying)
    <3> SUFFICES ASSUME NEW v \in Worker, proc'[v].state \in {"live", "stuck"}, ~proc'[v].dying
                 PROVE  FALSE
      OBVIOUS
    <3>1. v \in Listed(ws) /\ pc[v].state # "gone"
      BY <1>4
    <3> QED
      BY <1>5, <3>1
  <2> QED
    BY <1>3, <1>6, <2>1, <2>2, <2>3 DEF Threads
<1> QED
  BY <1>7, <1>8, <1>10, <1>11, <1>12, <1>13 DEF ParseInv

\* The piece i of a dispatch that was given up goes on, or ends.
LEMMA LatePiece ==
  ASSUME ParseInv, run.phase = "resetting", NEW i \in Slot, piece[i].open,
         UNCHANGED <<setting, workers, run, todo, graph, skipped>>, stale' \subseteq stale,
         piece' \in [Slot -> PieceState], proc' \in [Worker -> ProcState],
         \A j \in Slot : j # i => piece'[j] = piece[j],
         piece'[i].open => piece'[i].worker = piece[i].worker /\ proc'[piece[i].worker].state # "gone",
         \A v \in Worker : v # piece[i].worker => proc'[v] = proc[v],
         proc'[piece[i].worker].state \in {"live", "stuck"} /\ ~proc'[piece[i].worker].dying =>
           proc[piece[i].worker].state \in {"live", "stuck"} /\ ~proc[piece[i].worker].dying
  PROVE  ParseInv'
<1>1. PoolTypes /\ Tiled(todo) /\ Booked /\ Wired /\ Leftover /\ Quiet /\ Streaming /\ Threads
  BY DEF ParseInv
<1> DEFINE w == piece[i].worker
<1>2. /\ w \in Worker /\ \A j \in Slot : j # i => ~OpenWith(j, w)
      /\ \A k \in DOMAIN workers : workers[k] # w
  BY <1>1 DEF Wired, OpenWith
<1>3. \A j \in Slot : piece'[j].open =>
        /\ piece[j].open /\ piece'[j].worker = piece[j].worker /\ piece[j].worker \in Worker
        /\ proc'[piece[j].worker].state # "gone"
  <2> TAKE j \in Slot
  <2> HAVE piece'[j].open
  <2>1. CASE j = i
    BY <1>2, <2>1
  <2>2. CASE j # i
    <3>1. piece'[j] = piece[j] /\ piece[j].open
      BY <2>2
    <3>2. piece[j].worker \in Worker /\ proc[piece[j].worker].state # "gone" /\ piece[j].worker # w
      BY <1>1, <1>2, <2>2, <3>1 DEF Wired, OpenWith
    <3> QED
      BY <3>1, <3>2
  <2> QED
    BY <2>1, <2>2
<1>4. PoolTypes'
  BY <1>1 DEF PoolTypes
<1>5. Tiled(todo)' /\ Booked'
  BY <1>1, SameBooks
<1>6. Wired'
  <2>1. \A j, k \in Slot : piece'[j].open /\ piece'[k].open /\ piece'[k].worker = piece'[j].worker => j = k
    BY <1>1, <1>3 DEF Wired, OpenWith
  <2> QED
    BY <1>1, <1>3, <2>1 DEF Wired, OpenWith
<1>7. Leftover'
  <2>1. \A c \in stale' : c.worker # None =>
          /\ c.worker \in Worker /\ proc[c.worker].state # "gone" /\ \A j \in Slot : ~OpenWith(j, c.worker)
          /\ \A k \in DOMAIN workers : workers[k] # c.worker
    BY <1>1 DEF Leftover, PoolTypes, StaleState
  <2>2. \A c \in stale' : c.worker # None => c.worker # w
    BY <2>1 DEF OpenWith
  <2>3. \A c \in stale' : c.worker # None => proc'[c.worker].state # "gone"
    BY <2>1, <2>2
  <2>4. \A c \in stale' : c.worker # None => \A j \in Slot : ~OpenWith(j, c.worker)'
    BY <1>3, <2>1 DEF OpenWith
  <2>5. \A c, d \in stale' : c.worker = d.worker /\ c.worker # None => c = d
    BY <1>1 DEF Leftover
  <2> QED
    BY <2>1, <2>3, <2>4, <2>5 DEF Leftover
<1>8. \A k \in DOMAIN workers : workers[k] # None => workers[k] \in Worker /\ proc'[workers[k]] = proc[workers[k]]
  <2>1. \A k \in DOMAIN workers : workers[k] # None => workers[k] \in Worker
    BY <1>1 DEF PoolTypes
  <2> QED
    BY <1>2, <2>1
<1>9. Quiet'
  <2> SUFFICES ASSUME NEW k \in DOMAIN workers, workers[k] # None
               PROVE  proc'[workers[k]].cmd.do = "none" /\ proc'[workers[k]].out = <<>>
    BY DEF Quiet
  <2>1. \A j \in Slot : ~OpenWith(j, workers[k])
    BY <1>1 DEF Wired, OpenWith
  <2> QED
    BY <1>1, <1>8, <2>1 DEF Quiet
<1>10. Streaming'
  BY DEF Streaming
<1>11. Threads'
  <2> SUFFICES ASSUME setting.isolation = "thread"
               PROVE  Threads'
    BY DEF Threads
  <2>1. stale' = {}
    BY <1>1 DEF Threads
  <2>2. \A k \in DOMAIN workers : workers[k] # None =>
          ~proc'[workers[k]].dying /\ proc'[workers[k]].state = "live"
    BY <1>1, <1>8 DEF Threads
  <2>3. \A j \in Slot : piece'[j].open =>
          piece'[j].worker \in run.awaiting /\ (j \in DOMAIN workers => workers[j] = None)
    BY <1>1, <1>3 DEF Threads
  <2>4. ASSUME NEW v \in Worker, proc'[v].state \in {"live", "stuck"}, ~proc'[v].dying
        PROVE  \E k \in DOMAIN workers : workers[k] = v
    <3>1. proc[v].state \in {"live", "stuck"} /\ ~proc[v].dying
      BY <2>4
    <3> QED
      BY <1>1, <3>1 DEF Threads
  <2> QED
    BY <2>1, <2>2, <2>3, <2>4 DEF Threads
<1> QED
  BY <1>4, <1>5, <1>6, <1>7, <1>9, <1>10, <1>11 DEF ParseInv

-----------------------------------------------------------------------------
(* Messages keep the invariant *)

LEMMA TailOfOne ==
  ASSUME NEW s \in Seq(Message), Len(s) = 1
  PROVE  Tail(s) = <<>>
<1> DEFINE t == Tail(s)
<1>1. t \in Seq(Message) /\ Len(t) = 0
  OBVIOUS
<1> HIDE DEF t
<1>2. t = <<>>
  BY <1>1
<1> QED
  BY <1>2 DEF t

\* What the first message of a worker tells about it.
LEMMA FirstMessage ==
  ASSUME PoolTypes, NEW i \in Slot, NEW w \in Worker, Protocol(piece[i], proc[w]), proc[w].out # <<>>
  PROVE  LET out == proc[w].out
             type == Head(proc[w].out).type
         IN /\ Head(out) = out[1] /\ proc[w].cmd.do = "none"
            /\ type = "part" => /\ Len(out) = 2 /\ Len(Tail(out)) = 1 /\ Tail(out)[1].type = "done"
                                /\ \A f \in Head(out).files : f < piece[i].next
            /\ type = "done" => Len(out) = 1 /\ Tail(out) = <<>>
            /\ type = "result" => Len(out) = 1 /\ Tail(out) = <<>> /\ piece[i].next > piece[i].hi
<1> DEFINE p == proc[w]
           q == piece[i]
<1>1. p.out \in Seq(Message)
  <2>1. p \in ProcState
    BY DEF PoolTypes
  <2> QED
    BY <2>1 DEF ProcState
<1>2. Protocol(q, p) /\ p.out # <<>>
  OBVIOUS
<1> HIDE DEF p, q
<1>3. Len(p.out) \in Nat \ {0} /\ Head(p.out) = p.out[1]
  BY <1>1, <1>2
<1>4. p.cmd.do = "none"
  BY <1>2 DEF Protocol, Failed
<1>5. ASSUME Head(p.out).type = "part"
      PROVE  /\ Len(p.out) = 2 /\ Len(Tail(p.out)) = 1 /\ Tail(p.out)[1].type = "done"
             /\ \A f \in Head(p.out).files : f < q.next
  <2>1. /\ Len(p.out) = 2 /\ p.out[2].type = "done"
        /\ \A f \in p.out[1].files : f < q.next
    BY <1>2, <1>3, <1>4, <1>5 DEF Protocol, Failed
  <2>2. Len(Tail(p.out)) = 1 /\ Tail(p.out)[1] = p.out[2]
    BY <1>1, <1>2, <2>1
  <2> QED
    BY <1>3, <2>1, <2>2
<1>6. ASSUME Head(p.out).type = "done"
      PROVE  Len(p.out) = 1 /\ Tail(p.out) = <<>>
  <2>1. Len(p.out) = 1
    BY <1>2, <1>3, <1>4, <1>6 DEF Protocol, Failed
  <2> QED
    BY <1>1, <2>1, TailOfOne
<1>7. ASSUME Head(p.out).type = "result"
      PROVE  Len(p.out) = 1 /\ Tail(p.out) = <<>> /\ q.next > q.hi
  <2>1. Len(p.out) = 1 /\ q.next > q.hi
    BY <1>2, <1>3, <1>4, <1>7 DEF Protocol, Failed
  <2> QED
    BY <1>1, <2>1, TailOfOne
<1> QED
  BY <1>3, <1>4, <1>5, <1>6, <1>7 DEF p, q

\* A message that nobody listens to.
LEMMA LostMessageKeeps ==
  ASSUME ParseInv, NEW w \in Worker, proc[w].out # <<>>, \A i \in Slot : ~OpenWith(i, w),
         proc' = Received(w), UNCHANGED <<setting, workers, piece, stale, run, todo, graph, skipped>>
  PROVE  ParseInv'
<1>1. PoolTypes /\ Tiled(todo) /\ Booked /\ Wired /\ Leftover /\ Quiet /\ Streaming /\ Threads
  BY DEF ParseInv
<1>2. /\ proc' \in [Worker -> ProcState]
      /\ \A v \in Worker : v # w => proc'[v] = proc[v]
      /\ \A v \in Worker : proc'[v].state = proc[v].state
  BY <1>1, ReceivedFacts
<1>3. \A v \in Worker : ~proc'[v].dying => ~proc[v].dying
  BY <1>1, ReceivedFacts
<1>4. \A k \in DOMAIN workers : workers[k] # None => workers[k] \in Worker /\ workers[k] # w
  <2>1. \A k \in DOMAIN workers : workers[k] # None => workers[k] \in Worker
    BY <1>1 DEF PoolTypes
  <2> QED
    BY <1>1, <2>1 DEF Quiet
<1>5. PoolTypes'
  BY <1>1, <1>2 DEF PoolTypes
<1>6. Tiled(todo)' /\ Booked'
  BY <1>1, SameBooks
<1>7. Wired'
  BY <1>1, <1>2 DEF Wired, OpenWith
<1>8. Leftover'
  <2>1. \A c \in stale : c.worker # None => c.worker \in Worker
    BY <1>1 DEF PoolTypes, StaleState
  <2> QED
    BY <1>1, <1>2, <2>1 DEF Leftover, OpenWith
<1>9. Quiet'
  BY <1>1, <1>2, <1>4 DEF Quiet, OpenWith
<1>10. Streaming'
  <2> SUFFICES ASSUME run.phase = "running"
               PROVE  StreamedNow'
    BY DEF Streaming
  <2>1. \A i \in Slot : piece[i].open => proc'[piece[i].worker] = proc[piece[i].worker]
    BY <1>1, <1>2 DEF Wired, OpenWith
  <2> QED
    BY <1>1, <2>1, SameStream DEF Streaming
<1>11. Threads'
  <2>1. \A k \in DOMAIN workers : workers[k] # None => proc'[workers[k]] = proc[workers[k]]
    BY <1>2, <1>4
  <2>2. \A i, v : OpenWith(i, v)' <=> OpenWith(i, v)
    BY DEF OpenWith
  <2>3. \A v \in Worker : proc'[v].state \in {"live", "stuck"} /\ ~proc'[v].dying =>
          proc[v].state \in {"live", "stuck"} /\ ~proc[v].dying
    BY <1>2, <1>3
  <2> QED
    BY <1>1, <2>1, <2>2, <2>3 DEF Threads
<1> QED
  BY <1>5, <1>6, <1>7, <1>8, <1>9, <1>10, <1>11 DEF ParseInv

\* A piece of the running dispatch goes on.
LEMMA PieceGoesOn ==
  ASSUME ParseInv, run.phase = "running", NEW i \in Slot, piece[i].open, proc[piece[i].worker].out # <<>>,
         UNCHANGED <<setting, workers, stale, todo, graph, skipped>>, PoolTypes', StreamedNow',
         run'.phase = "running",
         \A j \in Slot : j # i => piece'[j] = piece[j],
         piece'[i].open, piece'[i].worker = piece[i].worker,
         \A v \in Worker : v # piece[i].worker => proc'[v] = proc[v],
         proc'[piece[i].worker].state = proc[piece[i].worker].state,
         proc'[piece[i].worker].dying <=> proc[piece[i].worker].dying
  PROVE  ParseInv'
<1>1. PoolTypes /\ Tiled(todo) /\ Booked /\ Wired /\ Leftover /\ Quiet /\ Streaming /\ Threads
  BY DEF ParseInv
<1>2. \A v \in Worker : proc'[v].state = proc[v].state
  OBVIOUS
<1>3. \A j \in Slot : /\ piece'[j].open <=> piece[j].open
                      /\ piece[j].open => piece'[j].worker = piece[j].worker /\ piece[j].worker \in Worker
  BY <1>1 DEF Wired
<1>4. \A j \in Slot : \A v : OpenWith(j, v)' <=> OpenWith(j, v)
  BY <1>3 DEF OpenWith
<1>5. Tiled(todo)' /\ Booked'
  BY <1>1, SameBooks
<1>6. Wired'
  <2>1. \A j, k \in Slot : piece'[j].open /\ piece'[k].open /\ piece'[k].worker = piece'[j].worker => j = k
    BY <1>1, <1>3 DEF Wired, OpenWith
  <2>2. \A j \in Slot : piece'[j].open => piece'[j].worker \in Worker /\ proc'[piece'[j].worker].state # "gone"
    BY <1>1, <1>2, <1>3 DEF Wired
  <2> QED
    BY <1>1, <2>1, <2>2 DEF Wired, OpenWith
<1>7. Leftover'
  <2>1. \A c \in stale : c.worker # None => c.worker \in Worker
    BY <1>1 DEF PoolTypes, StaleState
  <2> QED
    BY <1>1, <1>2, <1>4, <2>1 DEF Leftover
<1>8. \A k \in DOMAIN workers : workers[k] # None => workers[k] \in Worker
  BY <1>1 DEF PoolTypes
<1>9. Quiet'
  <2> SUFFICES ASSUME NEW k \in DOMAIN workers, workers[k] # None, \A j \in Slot : ~OpenWith(j, workers[k])
               PROVE  proc'[workers[k]].cmd.do = "none" /\ proc'[workers[k]].out = <<>>
    BY <1>4 DEF Quiet
  <2>1. workers[k] # piece[i].worker
    BY DEF OpenWith
  <2> QED
    BY <1>1, <1>8, <2>1 DEF Quiet
<1>10. Streaming'
  BY DEF Streaming
<1>11. Threads'
  <2> SUFFICES ASSUME setting.isolation = "thread"
               PROVE  Threads'
    BY DEF Threads
  <2>1. ASSUME NEW k \in DOMAIN workers, workers[k] # None
        PROVE  /\ ~proc'[workers[k]].dying
               /\ \/ proc'[workers[k]].state = "live"
                  \/ /\ proc'[workers[k]].out = <<>>
                     /\ \E j \in Slot : OpenWith(j, workers[k])
    <3>1. /\ ~proc[workers[k]].dying
          /\ \/ proc[workers[k]].state = "live"
             \/ /\ proc[workers[k]].out = <<>>
                /\ \E j \in Slot : OpenWith(j, workers[k])
      BY <1>1, <2>1 DEF Threads
    <3>2. CASE workers[k] = piece[i].worker
      BY <3>1, <3>2
    <3>3. CASE workers[k] # piece[i].worker
      BY <1>8, <2>1, <3>1, <3>3
    <3> QED
      BY <3>2, <3>3
  <2>2. \A v \in Worker : proc'[v].state \in {"live", "stuck"} /\ ~proc'[v].dying =>
          proc[v].state \in {"live", "stuck"} /\ ~proc[v].dying
    <3> TAKE v \in Worker
    <3>1. CASE v = piece[i].worker
      BY <3>1
    <3>2. CASE v # piece[i].worker
      BY <3>2
    <3> QED
      BY <3>1, <3>2
  <2>3. \A j \in Slot : piece'[j].open => j \in DOMAIN workers' /\ workers'[j] = piece'[j].worker
    BY <1>1, <1>3 DEF Threads
  <2> QED
    BY <1>1, <1>4, <2>1, <2>2, <2>3 DEF Threads
<1> QED
  BY <1>5, <1>6, <1>7, <1>9, <1>10, <1>11 DEF ParseInv

\* The worker of piece i gets its next sub-batch, or the flush.
DoneMoved(i, w) ==
  LET next == piece[i].next
      hi == piece[i].hi
      u == UpTo(next, hi, Batch)
  IN /\ UNCHANGED <<workers, run, todo, graph>>
     /\ next \in Nat /\ hi \in Nat
     /\ piece' \in [Slot -> PieceState] /\ \A j \in Slot : j # i => piece'[j] = piece[j]
     /\ piece'[i].open /\ piece'[i].worker = w /\ piece'[i].hi = hi
     /\ piece'[i].next = IF next > hi THEN next ELSE u + 1
     /\ proc' \in [Worker -> ProcState] /\ \A v \in Worker : v # w => proc'[v] = proc[v]
     /\ proc'[w].state = proc[w].state /\ proc'[w].out = Tail(proc[w].out)
     /\ next > hi => proc'[w].cmd.do = "flush"
     /\ next <= hi => proc'[w].cmd.do = "parse" /\ proc'[w].cmd.lo = next /\ proc'[w].cmd.hi = u
     /\ proc'[w].dying => proc[w].dying
     /\ proc[w].dying => proc'[w].dying

LEMMA DoneMoves ==
  ASSUME PoolTypes, NEW i \in Slot, NEW w \in Worker, OpenWith(i, w), proc[w].out # <<>>,
         OnSubBatchDone(i, Received(w))
  PROVE  DoneMoved(i, w)
<1> DEFINE next == piece[i].next
           hi == piece[i].hi
           u == UpTo(next, hi, Batch)
           n == IF next > hi THEN next ELSE u + 1
           c == SendNext(i, next, hi)
           p == Received(w)[w]
           q == [p EXCEPT !.cmd = c]
           a == piece[i]
           b == [a EXCEPT !.next = n]
<1>1. piece \in [Slot -> PieceState] /\ proc \in [Worker -> ProcState] /\ a \in PieceState
      /\ a.open /\ a.worker = w
  BY DEF PoolTypes, OpenWith
<1>2. next \in Nat /\ hi \in Nat /\ hi \in 0..NFiles
  BY <1>1, ConstantsTyped DEF PieceState
<1>3. /\ UNCHANGED <<workers, run, todo, graph>>
      /\ piece' = [piece EXCEPT ![i] = b]
      /\ proc' = [Received(w) EXCEPT ![w] = q]
  BY <1>1 DEF OnSubBatchDone
<1>4. /\ Received(w) \in [Worker -> ProcState]
      /\ \A v \in Worker : v # w => Received(w)[v] = proc[v]
      /\ p.out = Tail(proc[w].out) /\ p.state = proc[w].state
  BY ReceivedFacts
<1>5. (p.dying => proc[w].dying) /\ (proc[w].dying => p.dying)
  BY ReceivedFacts
<1>6. p \in ProcState
  BY <1>4
<1> HIDE DEF next, hi, p, a
<1>7. /\ c \in Command
      /\ next > hi => c.do = "flush"
      /\ next <= hi => c.do = "parse" /\ c.lo = next /\ c.hi = u
  BY <1>2, SendFacts
<1>8. n \in Nat
  <2>1. next <= hi => u \in Nat
    BY <1>2, UpToFacts, ConstantsTyped
  <2> HIDE DEF u
  <2> QED
    BY <1>2, <2>1
<1> HIDE DEF c
<1>9. /\ q \in ProcState /\ q.state = p.state /\ q.cmd = c /\ q.out = p.out
      /\ q.dying => p.dying
      /\ p.dying => q.dying
  BY <1>6, <1>7, NewCommand
<1> HIDE DEF n
<1>10. b \in PieceState /\ b.open /\ b.worker = w /\ b.hi = a.hi /\ b.next = n
  BY <1>1, <1>8 DEF PieceState
<1> HIDE DEF q, b
<1>11. /\ proc' \in [Worker -> ProcState] /\ proc'[w] = q
       /\ \A v \in Worker : v # w => proc'[v] = proc[v]
  BY <1>3, <1>4, <1>9
<1>12. /\ piece' \in [Slot -> PieceState] /\ piece'[i] = b
       /\ \A j \in Slot : j # i => piece'[j] = piece[j]
  BY <1>1, <1>3, <1>10
<1>13. a.hi = hi
  BY DEF a, hi
<1>14. (proc'[w].dying => proc[w].dying) /\ (proc[w].dying => proc'[w].dying)
  BY <1>5, <1>9, <1>11, Zenon
<1>15. /\ piece'[i].open /\ piece'[i].worker = w /\ piece'[i].hi = hi /\ piece'[i].next = n
  BY <1>10, <1>12, <1>13
<1>16. /\ proc'[w].state = proc[w].state /\ proc'[w].out = Tail(proc[w].out)
       /\ next > hi => proc'[w].cmd.do = "flush"
       /\ next <= hi => proc'[w].cmd.do = "parse" /\ proc'[w].cmd.lo = next /\ proc'[w].cmd.hi = u
  BY <1>4, <1>7, <1>9, <1>11
<1> QED
  BY <1>2, <1>3, <1>11, <1>12, <1>14, <1>15, <1>16, Zenon DEF DoneMoved, n, next, hi, u

\* The part of piece i is buffered.
LEMMA PartKeeps ==
  ASSUME ParseInv, run.phase = "running", NEW i \in Slot, NEW w \in Worker, OpenWith(i, w),
         proc[w].out # <<>>, Head(proc[w].out).type = "part", proc' = Received(w),
         OnPart(i, Head(proc[w].out).files), UNCHANGED <<setting, stale, skipped>>
  PROVE  ParseInv'
<1>1. PoolTypes /\ Wired /\ Streaming
  BY DEF ParseInv
<1> DEFINE files == Head(proc[w].out).files
<1>2. piece[i].open /\ piece[i].worker = w /\ todo # <<>>
  BY <1>1 DEF OpenWith, Wired
<1>3. StreamedNow /\ Protocol(piece[i], proc[w])
  BY <1>1, <1>2 DEF Streaming, StreamedNow
<1>4. /\ UNCHANGED <<workers, piece, todo, graph>>
      /\ run' = [run EXCEPT !.streamed = [f \in File |-> @[f] + IF f \in files THEN 1 ELSE 0]]
  BY DEF OnPart
<1>5. run \in RunState /\ run.streamed \in [File -> Nat]
  BY <1>1 DEF PoolTypes, RunState
<1> DEFINE s == [f \in File |-> run.streamed[f] + IF f \in files THEN 1 ELSE 0]
<1>6. run' = [run EXCEPT !.streamed = s]
  BY <1>4
<1> HIDE DEF files
<1>7. s \in [File -> Nat] /\ \A f \in File : s[f] = run.streamed[f] + IF f \in files THEN 1 ELSE 0
  BY <1>5
<1> HIDE DEF s
<1>8. run' \in RunState /\ run'.streamed = s /\ run'.phase = "running"
  BY <1>5, <1>6, <1>7 DEF RunState
<1>9. /\ proc' \in [Worker -> ProcState] /\ \A v \in Worker : v # w => proc'[v] = proc[v]
      /\ proc'[w].out = Tail(proc[w].out) /\ proc'[w].cmd = proc[w].cmd /\ proc'[w].state = proc[w].state
  BY <1>1, ReceivedFacts
<1>10. proc'[w].dying <=> proc[w].dying
  BY <1>1, ReceivedFacts
<1>11. PoolTypes'
  BY <1>1, <1>4, <1>8, <1>9 DEF PoolTypes
<1>12. /\ Head(proc[w].out) = proc[w].out[1] /\ proc[w].cmd.do = "none"
       /\ Len(proc[w].out) = 2 /\ Len(proc'[w].out) = 1 /\ proc'[w].out[1].type = "done"
       /\ \A f \in files : f < piece[i].next
  BY <1>1, <1>3, <1>9, FirstMessage DEF files
<1>13. piece[i].next \in Nat
  BY <1>1 DEF PoolTypes, PieceState
<1>14. \A f \in File : f \in Owes(i) <=> (piece[i].next <= f /\ f <= piece[i].hi) \/ f \in files
  BY <1>2, <1>12 DEF Owes, Owed, files
<1>15. \A f : f \in Owes(i)' <=> f \in File /\ piece[i].next <= f /\ f <= piece[i].hi
  <2> DEFINE q == piece[i]
             p == proc'[w]
  <2>1. Owes(i)' = Owed(q, p)
    BY <1>2, <1>4 DEF Owes
  <2>2. p.cmd.do = "none" /\ Len(p.out) = 1
    BY <1>9, <1>12
  <2> HIDE DEF q, p
  <2>3. \A f : f \in Owed(q, p) <=> f \in File /\ q.next <= f /\ f <= q.hi
    BY <2>2 DEF Owed
  <2> QED
    BY <2>1, <2>3 DEF q
<1>16. ~Fails(i)
  BY <1>2, <1>12 DEF Fails, Failed
<1>17. Protocol(piece[i], proc[piece[i].worker])'
  BY <1>2, <1>4, <1>9, <1>12 DEF Protocol
<1>18. \A f \in File : f \in files => f \in Owes(i) /\ s[f] = 1
  <2> TAKE f \in File
  <2> HAVE f \in files
  <2>1. f \in Owes(i)
    BY <1>14
  <2>2. run.streamed[f] = 0
    BY <1>2, <1>3, <2>1 DEF StreamedNow
  <2> QED
    BY <1>7, <2>1, <2>2
<1>19. \A f \in File : f \notin files => s[f] = run.streamed[f]
  BY <1>5, <1>7
<1>20. \A f \in Owes(i) : f \in Owes(i)' \/ run'.streamed[f] = 1
  BY <1>8, <1>14, <1>15, <1>18, OwedInFiles
<1>21. \A f \in Owes(i)' : f \in Owes(i) /\ run'.streamed[f] = run.streamed[f]
  <2> TAKE f \in Owes(i)'
  <2>1. f \in File /\ f \in Nat /\ piece[i].next <= f
    BY <1>15 DEF File
  <2>2. f \notin files
    BY <1>12, <1>13, <2>1
  <2> QED
    BY <1>8, <1>14, <1>15, <1>19, <2>1, <2>2
<1>22. \A f \in File : run'.streamed[f] = run.streamed[f] \/ (run'.streamed[f] = 1 /\ f \in Owes(i))
  BY <1>8, <1>18, <1>19
<1>23. \A f \in Files(Head(todo)) : f \in File
  BY <1>1, <1>2, HeadIsTask
<1>24. /\ piece' = piece /\ piece'[i].open /\ piece'[i].worker = piece[i].worker
       /\ \A j \in Slot : j # i => piece'[j] = piece[j]
  BY <1>2, <1>4
<1>25. \A v \in Worker : v # piece[i].worker => proc'[v] = proc[v]
  BY <1>2, <1>9
<1>26. StreamedNow'
  BY <1>1, <1>2, <1>3, <1>4, <1>16, <1>17, <1>20, <1>21, <1>22, <1>23, <1>24, <1>25, PieceMoves
<1> QED
  BY <1>2, <1>4, <1>8, <1>9, <1>10, <1>11, <1>24, <1>25, <1>26, PieceGoesOn

LEMMA DoneKeeps ==
  ASSUME ParseInv, run.phase = "running", NEW i \in Slot, NEW w \in Worker, OpenWith(i, w),
         proc[w].out # <<>>, Head(proc[w].out).type = "done", DoneMoved(i, w),
         UNCHANGED <<setting, stale, skipped>>
  PROVE  ParseInv'
<1>1. PoolTypes /\ Wired /\ Streaming
  BY DEF ParseInv
<1> DEFINE next == piece[i].next
           hi == piece[i].hi
           u == UpTo(next, hi, Batch)
           q == piece'[i]
           p == proc'[w]
<1>2. piece[i].open /\ piece[i].worker = w /\ todo # <<>>
  BY <1>1 DEF OpenWith, Wired
<1>3. StreamedNow /\ Protocol(piece[i], proc[w])
  BY <1>1, <1>2 DEF Streaming, StreamedNow
<1>4. /\ UNCHANGED <<workers, run, todo, graph>>
      /\ next \in Nat /\ hi \in Nat
      /\ piece' \in [Slot -> PieceState] /\ \A j \in Slot : j # i => piece'[j] = piece[j]
      /\ q.open /\ q.worker = w /\ q.hi = hi
      /\ q.next = IF next > hi THEN next ELSE u + 1
      /\ proc' \in [Worker -> ProcState] /\ \A v \in Worker : v # w => proc'[v] = proc[v]
      /\ p.state = proc[w].state /\ p.out = Tail(proc[w].out)
      /\ next > hi => p.cmd.do = "flush"
      /\ next <= hi => p.cmd.do = "parse" /\ p.cmd.lo = next /\ p.cmd.hi = u
  BY DEF DoneMoved
<1>5. proc'[w].dying <=> proc[w].dying
  BY DEF DoneMoved
<1>6. PoolTypes'
  BY <1>1, <1>4 DEF PoolTypes
<1>7. Len(proc[w].out) = 1 /\ p.out = <<>> /\ proc[w].cmd.do = "none" /\ Head(proc[w].out) = proc[w].out[1]
  BY <1>1, <1>3, <1>4, FirstMessage
<1>8. \A f : f \in Owes(i) <=> f \in File /\ next <= f /\ f <= hi
  BY <1>2, <1>7 DEF Owes, Owed
<1>9. next <= hi => u \in Nat /\ next <= u /\ u <= hi
  BY <1>4, UpToFacts, ConstantsTyped
<1>10. Owes(i)' = Owed(q, p)
  BY <1>4 DEF Owes
<1>11. Protocol(piece[i], proc[piece[i].worker])' <=> Protocol(q, p)
  BY <1>4
<1>12. ~Fails(i)
  BY <1>2, <1>7 DEF Fails, Failed
<1>24. /\ piece'[i].open /\ piece'[i].worker = piece[i].worker
       /\ \A j \in Slot : j # i => piece'[j] = piece[j]
       /\ proc'[piece[i].worker].state = proc[piece[i].worker].state
  BY <1>2, <1>4
<1>25. \A v \in Worker : v # piece[i].worker => proc'[v] = proc[v]
  BY <1>2, <1>4
<1> HIDE DEF next, hi, u, q, p
<1>13. Protocol(q, p) /\ \A f \in File : f \in Owed(q, p) <=> next <= f /\ f <= hi
  <2>1. \A f \in File : f \in Nat
    BY DEF File
  <2>2. CASE next > hi
    <3>1. q.next = next /\ q.hi = hi /\ p.cmd.do = "flush" /\ p.out = <<>>
      BY <1>4, <1>7, <2>2
    <3>2. Protocol(q, p)
      BY <2>2, <3>1 DEF Protocol
    <3>3. \A f \in File : f \in Owed(q, p) <=> next <= f /\ f <= hi
      BY <3>1 DEF Owed
    <3> QED
      BY <3>2, <3>3
  <2>3. CASE next <= hi
    <3>1. /\ q.next = u + 1 /\ q.hi = hi /\ p.out = <<>>
          /\ p.cmd.do = "parse" /\ p.cmd.lo = next /\ p.cmd.hi = u
      BY <1>4, <1>7, <2>3
    <3>2. p.cmd.hi < q.next /\ Len(p.out) # 2
      BY <1>9, <2>3, <3>1
    <3>3. Protocol(q, p)
      BY <3>1, <3>2 DEF Protocol
    <3>4. ASSUME NEW f \in File
          PROVE  f \in Owed(q, p) <=> next <= f /\ f <= hi
      <4>1. f \in Owed(q, p) <=> (u + 1 <= f /\ f <= hi) \/ (next <= f /\ f <= u)
        BY <3>1, <3>2 DEF Owed
      <4> QED
        BY <1>4, <1>9, <2>1, <2>3, <4>1
    <3> QED
      BY <3>3, <3>4
  <2> QED
    BY <1>4, <2>2, <2>3
<1>14. \A f \in Owes(i) : f \in Owes(i)'
  BY <1>8, <1>10, <1>13
<1>15. \A f \in Owes(i)' : f \in Owes(i) /\ run'.streamed[f] = run.streamed[f]
  <2>1. \A f \in Owed(q, p) : f \in File
    BY DEF Owed
  <2> QED
    BY <1>4, <1>8, <1>10, <1>13, <2>1
<1>16. \A f \in Files(Head(todo)) : f \in File
  BY <1>1, <1>2, HeadIsTask
<1>17. Protocol(piece[i], proc[piece[i].worker])'
  BY <1>11, <1>13
<1>18. \A f \in File : run'.streamed[f] = run.streamed[f]
  BY <1>4
<1>19. todo' = todo /\ run'.phase = "running" /\ UNCHANGED <<setting, workers, stale, todo, graph, skipped>>
  BY <1>4
<1>26. StreamedNow'
  BY <1>1, <1>2, <1>3, <1>12, <1>14, <1>15, <1>16, <1>17, <1>18, <1>19, <1>24, <1>25, PieceMoves
<1>27. proc'[piece[i].worker].dying <=> proc[piece[i].worker].dying
  BY <1>2, <1>5
<1> QED
  BY <1>2, <1>6, <1>19, <1>24, <1>25, <1>26, <1>27, PieceGoesOn

\* A piece that ends with its result leaves its worker with nothing to do or to say.
LEMMA ResultFacts ==
  ASSUME ParseInv, run.phase = "running", NEW i \in Slot, NEW w \in Worker, OpenWith(i, w),
         proc[w].out # <<>>, Head(proc[w].out).type = "result", proc' = Received(w),
         piece' = Closed(piece, {i}), UNCHANGED <<setting, workers, stale>>
  PROVE  /\ \A f \in File : f \notin Owes(i)
         /\ ~Fails(i)
         /\ piece' \in [Slot -> PieceState] /\ \A j \in Slot : j # i => piece'[j] = piece[j]
         /\ ~piece'[i].open
         /\ proc' \in [Worker -> ProcState] /\ \A v \in Worker : v # w => proc'[v] = proc[v]
         /\ proc'[w].state = proc[w].state
         /\ proc'[w].dying <=> proc[w].dying
         /\ Leftover' /\ Quiet'
<1>1. PoolTypes /\ Wired /\ Leftover /\ Quiet /\ Streaming
  BY DEF ParseInv
<1>2. piece[i].open /\ piece[i].worker = w
  BY DEF OpenWith
<1>3. Protocol(piece[i], proc[w])
  BY <1>1, <1>2 DEF Streaming, StreamedNow
<1>4. /\ proc' \in [Worker -> ProcState] /\ \A v \in Worker : v # w => proc'[v] = proc[v]
      /\ proc'[w].out = Tail(proc[w].out) /\ proc'[w].cmd = proc[w].cmd /\ proc'[w].state = proc[w].state
  BY <1>1, ReceivedFacts
<1>5. proc'[w].dying <=> proc[w].dying
  BY <1>1, ReceivedFacts
<1>6. /\ Head(proc[w].out) = proc[w].out[1] /\ proc[w].cmd.do = "none"
      /\ Len(proc[w].out) = 1 /\ proc'[w].out = <<>> /\ piece[i].next > piece[i].hi
  BY <1>1, <1>3, <1>4, FirstMessage
<1>7. piece[i].next \in Nat /\ piece[i].hi \in Nat
  BY <1>1, ConstantsTyped DEF PoolTypes, PieceState
<1>8. \A f \in File : f \notin Owes(i)
  <2>1. \A f \in File : f \in Nat
    BY DEF File
  <2>2. \A f \in File : ~(piece[i].next <= f /\ f <= piece[i].hi)
    BY <1>6, <1>7, <2>1
  <2> QED
    BY <1>2, <1>6, <2>2 DEF Owes, Owed
<1>9. ~Fails(i)
  BY <1>2, <1>6 DEF Fails, Failed
<1>10. /\ piece' \in [Slot -> PieceState] /\ \A j \in Slot : j # i => piece'[j] = piece[j]
       /\ ~piece'[i].open
  BY <1>1, ClosedFacts
<1>11. \A j \in Slot : \A v : OpenWith(j, v)' <=> j # i /\ OpenWith(j, v)
  BY <1>10 DEF OpenWith
<1>12. Leftover'
  <2>1. \A c \in stale : c.worker # None => c.worker \in Worker
    BY <1>1 DEF PoolTypes, StaleState
  <2>2. \A c \in stale : c.worker # None => proc'[c.worker].state # "gone"
    BY <1>1, <1>4, <2>1 DEF Leftover
  <2> QED
    BY <1>1, <1>11, <2>2 DEF Leftover
<1>13. Quiet'
  <2> SUFFICES ASSUME NEW k \in DOMAIN workers, workers[k] # None, \A j \in Slot : ~OpenWith(j, workers[k])'
               PROVE  proc'[workers[k]].cmd.do = "none" /\ proc'[workers[k]].out = <<>>
    BY DEF Quiet
  <2>1. workers[k] \in Worker
    BY <1>1 DEF PoolTypes
  <2>2. CASE workers[k] = w
    BY <1>4, <1>6, <2>2
  <2>3. CASE workers[k] # w
    <3>1. \A j \in Slot : ~OpenWith(j, workers[k])
      BY <1>2, <1>11, <2>3 DEF OpenWith
    <3> QED
      BY <1>1, <1>4, <2>1, <2>3, <3>1 DEF Quiet
  <2> QED
    BY <2>2, <2>3
<1> QED
  BY <1>4, <1>5, <1>8, <1>9, <1>10, <1>12, <1>13

\* A piece ends, and others are still open.
LEMMA ResultKeeps ==
  ASSUME ParseInv, run.phase = "running", NEW i \in Slot, NEW w \in Worker, OpenWith(i, w),
         proc[w].out # <<>>, Head(proc[w].out).type = "result", proc' = Received(w),
         piece' = Closed(piece, {i}), UNCHANGED <<setting, workers, stale, skipped, run, todo, graph>>
  PROVE  ParseInv'
<1>1. PoolTypes /\ Tiled(todo) /\ Booked /\ Wired /\ Leftover /\ Quiet /\ Streaming /\ Threads
  BY DEF ParseInv
<1>2. piece[i].open /\ piece[i].worker = w
  BY DEF OpenWith
<1>3. /\ \A f \in File : f \notin Owes(i)
      /\ piece' \in [Slot -> PieceState] /\ \A j \in Slot : j # i => piece'[j] = piece[j]
      /\ proc' \in [Worker -> ProcState] /\ \A v \in Worker : v # w => proc'[v] = proc[v]
      /\ proc'[w].state = proc[w].state
      /\ Leftover' /\ Quiet'
  BY ResultFacts
<1>4. ~Fails(i) /\ ~piece'[i].open /\ (proc'[w].dying <=> proc[w].dying)
  BY ResultFacts
<1>5. PoolTypes'
  BY <1>1, <1>3 DEF PoolTypes
<1>6. Tiled(todo)' /\ Booked'
  BY <1>1, SameBooks
<1>7. \A v \in Worker : proc'[v].state = proc[v].state
  BY <1>3
<1>8. \A j \in Slot : piece'[j].open =>
        /\ j # i /\ piece[j].open /\ piece'[j].worker = piece[j].worker /\ piece[j].worker \in Worker
        /\ piece'[j] = piece[j]
  <2> TAKE j \in Slot
  <2> HAVE piece'[j].open
  <2>1. j # i /\ piece'[j] = piece[j] /\ piece[j].open
    BY <1>3, <1>4
  <2> QED
    BY <1>1, <2>1 DEF Wired
<1>9. Wired'
  <2>1. \A j, k \in Slot : piece'[j].open /\ piece'[k].open /\ piece'[k].worker = piece'[j].worker => j = k
    BY <1>1, <1>8 DEF Wired, OpenWith
  <2>2. \A j \in Slot : piece'[j].open => piece'[j].worker \in Worker /\ proc'[piece'[j].worker].state # "gone"
    <3>1. \A j \in Slot : piece[j].open => proc[piece[j].worker].state # "gone"
      BY <1>1 DEF Wired
    <3> TAKE j \in Slot
    <3> HAVE piece'[j].open
    <3>2. piece[j].open /\ piece'[j].worker = piece[j].worker /\ piece[j].worker \in Worker
      BY <1>8
    <3>3. proc'[piece[j].worker].state # "gone"
      BY <1>7, <3>1, <3>2
    <3> QED
      BY <3>2, <3>3
  <2> QED
    BY <1>1, <2>1, <2>2 DEF Wired, OpenWith
<1>10. Streaming'
  <2>1. StreamedNow
    BY <1>1 DEF Streaming
  <2>2. StreamedNow'
    BY <1>1, <1>2, <1>3, <1>4, <2>1, PieceEnds
  <2> QED
    BY <2>2 DEF Streaming
<1>11. Threads'
  <2> SUFFICES ASSUME setting.isolation = "thread"
               PROVE  Threads'
    BY DEF Threads
  <2>1. ASSUME NEW k \in DOMAIN workers, workers[k] # None
        PROVE  /\ ~proc'[workers[k]].dying
               /\ \/ proc'[workers[k]].state = "live"
                  \/ /\ proc'[workers[k]].out = <<>>
                     /\ \E j \in Slot : OpenWith(j, workers[k])'
    <3>1. /\ ~proc[workers[k]].dying /\ workers[k] \in Worker
          /\ \/ proc[workers[k]].state = "live"
             \/ /\ proc[workers[k]].out = <<>>
                /\ \E j \in Slot : OpenWith(j, workers[k])
      BY <1>1, <2>1 DEF Threads, PoolTypes
    <3>2. CASE workers[k] = w
      BY <1>3, <1>4, <3>1, <3>2
    <3>3. CASE workers[k] # w
      <4>1. proc'[workers[k]] = proc[workers[k]]
        BY <1>3, <3>1, <3>3
      <4>2. \A j \in Slot : OpenWith(j, workers[k]) => OpenWith(j, workers[k])'
        BY <1>2, <1>3, <3>3 DEF OpenWith
      <4> QED
        BY <3>1, <4>1, <4>2
    <3> QED
      BY <3>2, <3>3
  <2>2. \A v \in Worker : proc'[v].state \in {"live", "stuck"} /\ ~proc'[v].dying =>
          proc[v].state \in {"live", "stuck"} /\ ~proc[v].dying
    <3> TAKE v \in Worker
    <3>1. CASE v = w
      BY <1>3, <1>4, <3>1
    <3>2. CASE v # w
      BY <1>3, <3>2
    <3> QED
      BY <3>1, <3>2
  <2>3. \A j \in Slot : piece'[j].open => j \in DOMAIN workers' /\ workers'[j] = piece'[j].worker
    BY <1>1, <1>8 DEF Threads
  <2> QED
    BY <1>1, <2>1, <2>2, <2>3 DEF Threads
<1> QED
  BY <1>3, <1>5, <1>6, <1>9, <1>10, <1>11 DEF ParseInv

\* The last piece ends: exactly the files of the task go to the graph.
LEMMA SucceedKeeps ==
  ASSUME ParseInv, run.phase = "running", NEW i \in Slot, NEW w \in Worker, OpenWith(i, w),
         proc[w].out # <<>>, Head(proc[w].out).type = "result", proc' = Received(w),
         piece' = Closed(piece, {i}), \A j \in Slot : j # i => ~piece[j].open,
         Succeed(run.streamed), UNCHANGED <<setting, workers, stale, skipped>>
  PROVE  /\ ParseInv'
         /\ {f \in File : graph'[f] # graph[f]} = Files(Head(todo)) /\ todo' = Tail(todo)
<1>1. PoolTypes /\ Tiled(todo) /\ Booked /\ Wired /\ Leftover /\ Quiet /\ Streaming /\ Threads
  BY DEF ParseInv
<1>2. piece[i].open /\ piece[i].worker = w /\ todo # <<>>
  BY <1>1 DEF OpenWith, Wired
<1>3. /\ \A f \in File : f \notin Owes(i)
      /\ piece' \in [Slot -> PieceState] /\ \A j \in Slot : j # i => piece'[j] = piece[j]
      /\ proc' \in [Worker -> ProcState] /\ \A v \in Worker : v # w => proc'[v] = proc[v]
      /\ proc'[w].state = proc[w].state
      /\ Leftover' /\ Quiet'
  BY ResultFacts
<1>4. ~Fails(i) /\ ~piece'[i].open /\ (proc'[w].dying <=> proc[w].dying)
  BY ResultFacts
<1>5. /\ graph' = [f \in File |-> graph[f] + run.streamed[f]]
      /\ run' = [run EXCEPT !.phase = "idle", !.streamed = NoFiles] /\ todo' = Tail(todo)
  BY DEF Succeed
<1>6. run' \in RunState /\ run'.phase = "idle" /\ run'.streamed = NoFiles
  BY <1>1, <1>5, CommandTypes DEF PoolTypes, RunState
<1>7. /\ Tail(todo) \in Seq(Task) /\ Tiled(Tail(todo))
      /\ \A f \in File : f \in Waiting(Tail(todo)) <=> f \in Waiting(todo) /\ f \notin Files(Head(todo))
      /\ \A f \in Files(Head(todo)) : f \in File /\ f \in Waiting(todo)
  BY <1>1, <1>2, TailFacts DEF PoolTypes
<1>8. \A f \in File : run.streamed[f] = IF f \in Files(Head(todo)) THEN 1 ELSE 0
  <2>1. StreamedNow
    BY <1>1 DEF Streaming
  <2> QED
    BY <1>3, <1>4, <1>7, <2>1, AllStreamed
<1>9. graph \in [File -> Nat]
  BY <1>1 DEF PoolTypes
<1>10. \A f \in File : graph'[f] = graph[f] + IF f \in Files(Head(todo)) THEN 1 ELSE 0
  BY <1>5, <1>8
<1>11. graph' \in [File -> Nat]
  <2>1. \A f \in File : graph'[f] \in Nat
    BY <1>9, <1>10
  <2>2. graph' = [f \in File |-> graph'[f]]
    BY <1>5
  <2> QED
    BY <2>1, <2>2
<1>12. PoolTypes'
  BY <1>1, <1>3, <1>5, <1>6, <1>7, <1>11 DEF PoolTypes
<1>13. Tiled(todo)'
  BY <1>5, <1>7
<1>14. Booked'
  <2> SUFFICES ASSUME NEW f \in File
               PROVE  /\ f \in Waiting(todo)' => graph'[f] = 0 /\ f \notin skipped
                      /\ f \notin Waiting(todo)' => graph'[f] = IF f \in skipped THEN 0 ELSE 1
    BY DEF Booked
  <2>1. f \in Waiting(todo)' <=> f \in Waiting(todo) /\ f \notin Files(Head(todo))
    BY <1>5, <1>7
  <2>2. /\ f \in Waiting(todo) => graph[f] = 0 /\ f \notin skipped
        /\ f \notin Waiting(todo) => graph[f] = IF f \in skipped THEN 0 ELSE 1
    BY <1>1 DEF Booked
  <2> QED
    BY <1>7, <1>9, <1>10, <2>1, <2>2
<1>15. \A j \in Slot : ~piece'[j].open
  BY <1>3, <1>4
<1>16. Wired'
  BY <1>1, <1>6, <1>15 DEF Wired
<1>17. Streaming'
  BY <1>6 DEF Streaming
<1>18. Threads'
  <2> SUFFICES ASSUME setting.isolation = "thread"
               PROVE  Threads'
    BY DEF Threads
  <2>1. ASSUME NEW k \in DOMAIN workers, workers[k] # None
        PROVE  ~proc'[workers[k]].dying /\ proc'[workers[k]].state = "live"
    <3>1. /\ ~proc[workers[k]].dying /\ workers[k] \in Worker
          /\ \/ proc[workers[k]].state = "live"
             \/ /\ proc[workers[k]].out = <<>>
                /\ \E j \in Slot : OpenWith(j, workers[k])
      BY <1>1, <2>1 DEF Threads, PoolTypes
    <3>2. CASE workers[k] = w
      BY <1>3, <1>4, <3>1, <3>2
    <3>3. CASE workers[k] # w
      <4>1. proc'[workers[k]] = proc[workers[k]]
        BY <1>3, <3>1, <3>3
      <4>2. \A j \in Slot : ~OpenWith(j, workers[k])
        BY <1>2, <3>3 DEF OpenWith
      <4> QED
        BY <3>1, <4>1, <4>2
    <3> QED
      BY <3>2, <3>3
  <2>2. \A v \in Worker : proc'[v].state \in {"live", "stuck"} /\ ~proc'[v].dying =>
          proc[v].state \in {"live", "stuck"} /\ ~proc[v].dying
    <3> TAKE v \in Worker
    <3>1. CASE v = w
      BY <1>3, <1>4, <3>1
    <3>2. CASE v # w
      BY <1>3, <3>2
    <3> QED
      BY <3>1, <3>2
  <2> QED
    BY <1>1, <1>6, <1>15, <2>1, <2>2 DEF Threads
<1>19. {f \in File : graph'[f] # graph[f]} = Files(Head(todo))
  <2>1. \A f \in File : graph'[f] # graph[f] <=> f \in Files(Head(todo))
    BY <1>9, <1>10
  <2> QED
    BY <1>7, <2>1
<1> QED
  BY <1>3, <1>5, <1>12, <1>13, <1>14, <1>16, <1>17, <1>18, <1>19 DEF ParseInv

\* A message keeps the invariant, whoever listens to it.
LEMMA MessageKeeps ==
  ASSUME ParseInv, NEW w \in Worker, OnMessage(w)
  PROVE  /\ ParseInv'
         /\ graph' # graph => {f \in File : graph'[f] # graph[f]} = Files(Head(todo)) /\ todo' = Tail(todo)
<1>1. PoolTypes /\ Tiled(todo) /\ Booked /\ Wired /\ Leftover /\ Quiet /\ Streaming /\ Threads
  BY DEF ParseInv
<1>2. /\ proc[w].out # <<>> /\ UNCHANGED <<setting, stale, skipped>>
      /\ \/ /\ \A i \in Slot : ~OpenWith(i, w)
            /\ proc' = Received(w) /\ UNCHANGED <<workers, piece, run, todo, graph>>
         \/ \E i \in Slot :
              /\ OpenWith(i, w)
              /\ \/ /\ Head(proc[w].out).type = "part" /\ proc' = Received(w)
                    /\ OnPart(i, Head(proc[w].out).files)
                 \/ Head(proc[w].out).type = "done" /\ OnSubBatchDone(i, Received(w))
                 \/ Head(proc[w].out).type = "result" /\ proc' = Received(w) /\ OnResult(i)
                 \/ /\ Head(proc[w].out).type = "error" /\ piece' = Closed(piece, {i})
                    /\ GiveUp(workers, Received(w)) /\ UNCHANGED <<todo, graph>>
  BY <1>1, MessageMoves
<1>3. CASE /\ \A i \in Slot : ~OpenWith(i, w)
           /\ proc' = Received(w) /\ UNCHANGED <<workers, piece, run, todo, graph>>
  BY <1>2, <1>3, LostMessageKeeps
<1>4. /\ Received(w) \in [Worker -> ProcState]
      /\ \A v \in Worker : v # w => Received(w)[v] = proc[v]
      /\ Received(w)[w].state = proc[w].state
  BY <1>1, <1>2, ReceivedFacts
<1>5. Received(w)[w].dying <=> proc[w].dying
  BY <1>1, <1>2, ReceivedFacts
<1>6. ASSUME NEW i \in Slot, OpenWith(i, w)
      PROVE  /\ run.phase \in {"running", "resetting"} /\ piece[i].open /\ piece[i].worker = w
             /\ proc[w].state # "gone" /\ i \in {i}
             /\ Closed(piece, {i}) \in [Slot -> PieceState] /\ ~Closed(piece, {i})[i].open
             /\ \A j \in Slot : j # i => Closed(piece, {i})[j] = piece[j]
  <2>1. piece[i].open /\ piece[i].worker = w /\ proc[w].state # "gone"
    BY <1>1, <1>6 DEF OpenWith, Wired
  <2>2. run.phase \in {"running", "resetting"}
    BY <1>1, <2>1 DEF Wired, PoolTypes, RunState
  <2> QED
    BY <1>1, <2>1, <2>2, ClosedFacts
<1>7. \* A late message that leaves the dispatch as it is.
      ASSUME NEW i \in Slot, OpenWith(i, w), run.phase = "resetting", proc' = Received(w),
             piece' = piece \/ piece' = Closed(piece, {i}), UNCHANGED <<workers, run, todo, graph>>
      PROVE  ParseInv'
  <2>1. /\ piece' \in [Slot -> PieceState] /\ \A j \in Slot : j # i => piece'[j] = piece[j]
        /\ piece'[i].open => piece'[i].worker = piece[i].worker
    BY <1>1, <1>6, <1>7 DEF PoolTypes
  <2>2. piece[i].open /\ piece[i].worker = w /\ proc'[piece[i].worker].state # "gone"
    BY <1>4, <1>6, <1>7
  <2>3. proc'[piece[i].worker].state \in {"live", "stuck"} /\ ~proc'[piece[i].worker].dying =>
          proc[piece[i].worker].state \in {"live", "stuck"} /\ ~proc[piece[i].worker].dying
    BY <1>4, <1>5, <1>7, <2>2
  <2>4. proc' \in [Worker -> ProcState] /\ \A v \in Worker : v # piece[i].worker => proc'[v] = proc[v]
    BY <1>4, <1>7, <2>2
  <2> QED
    BY <1>2, <1>7, <2>1, <2>2, <2>3, <2>4, LatePiece
<1>8. ASSUME NEW i \in Slot, OpenWith(i, w), Head(proc[w].out).type = "part", proc' = Received(w),
             OnPart(i, Head(proc[w].out).files)
      PROVE  ParseInv' /\ graph' = graph
  <2>1. CASE run.phase = "running"
    BY <1>2, <1>8, <2>1, PartKeeps DEF OnPart
  <2>2. CASE run.phase # "running"
    BY <1>6, <1>7, <1>8, <2>2 DEF OnPart
  <2> QED
    BY <2>1, <2>2
<1>9. ASSUME NEW i \in Slot, OpenWith(i, w), Head(proc[w].out).type = "done", OnSubBatchDone(i, Received(w))
      PROVE  ParseInv' /\ graph' = graph
  <2>1. DoneMoved(i, w)
    BY <1>1, <1>2, <1>9, DoneMoves
  <2>2. CASE run.phase = "running"
    BY <1>2, <1>9, <2>1, <2>2, DoneKeeps DEF OnSubBatchDone
  <2>3. CASE run.phase = "resetting"
    <3>1. /\ UNCHANGED <<workers, run, todo, graph>>
          /\ piece' \in [Slot -> PieceState] /\ \A j \in Slot : j # i => piece'[j] = piece[j]
          /\ piece'[i].open /\ piece'[i].worker = w
          /\ proc' \in [Worker -> ProcState] /\ \A v \in Worker : v # w => proc'[v] = proc[v]
          /\ proc'[w].state = proc[w].state
      BY <2>1 DEF DoneMoved
    <3>2. proc'[w].dying <=> proc[w].dying
      BY <2>1 DEF DoneMoved
    <3>3. piece[i].open /\ piece[i].worker = w /\ proc[w].state # "gone"
      BY <1>6, <1>9
    <3>4. proc'[piece[i].worker].state \in {"live", "stuck"} /\ ~proc'[piece[i].worker].dying =>
            proc[piece[i].worker].state \in {"live", "stuck"} /\ ~proc[piece[i].worker].dying
      BY <3>1, <3>2, <3>3
    <3>5. /\ piece'[i].open => piece'[i].worker = piece[i].worker /\ proc'[piece[i].worker].state # "gone"
          /\ \A v \in Worker : v # piece[i].worker => proc'[v] = proc[v]
      BY <3>1, <3>3
    <3> QED
      BY <1>2, <2>3, <3>1, <3>3, <3>4, <3>5, LatePiece
  <2> QED
    BY <1>6, <1>9, <2>2, <2>3
<1>10. ASSUME NEW i \in Slot, OpenWith(i, w), Head(proc[w].out).type = "result", proc' = Received(w), OnResult(i)
       PROVE  /\ ParseInv'
              /\ graph' # graph => {f \in File : graph'[f] # graph[f]} = Files(Head(todo)) /\ todo' = Tail(todo)
  <2>1. piece' = Closed(piece, {i}) /\ UNCHANGED workers
    BY <1>10 DEF OnResult
  <2>2. CASE run.phase = "running" /\ \A j \in Slot \ {i} : ~piece[j].open
    <3>1. Succeed(run.streamed) /\ \A j \in Slot : j # i => ~piece[j].open
      BY <1>10, <2>2 DEF OnResult
    <3> QED
      BY <1>2, <1>10, <2>1, <2>2, <3>1, SucceedKeeps
  <2>3. CASE ~(run.phase = "running" /\ \A j \in Slot \ {i} : ~piece[j].open)
    <3>1. UNCHANGED <<run, todo, graph>>
      BY <1>10, <2>3 DEF OnResult
    <3>2. CASE run.phase = "running"
      BY <1>2, <1>10, <2>1, <3>1, <3>2, ResultKeeps
    <3>3. CASE run.phase # "running"
      BY <1>6, <1>7, <1>10, <2>1, <3>1, <3>3
    <3> QED
      BY <3>1, <3>2, <3>3
  <2> QED
    BY <2>2, <2>3
<1>11. ASSUME NEW i \in Slot, OpenWith(i, w), piece' = Closed(piece, {i}),
              GiveUp(workers, Received(w)), UNCHANGED <<todo, graph>>
       PROVE  ParseInv'
  <2>1. GaveUp(workers, Received(w))
    BY <1>1, <1>4, <1>11, GiveUpMoves DEF PoolTypes
  <2>2. CASE run.phase = "running"
    <3>1. piece[i].open /\ \A v \in Worker : Received(w)[v].state = proc[v].state
      BY <1>4, <1>6, <1>11
    <3>2. \A v \in Worker : ~Received(w)[v].dying => ~proc[v].dying
      BY <1>4, <1>5
    <3>3. \A j \in DOMAIN workers : workers[j] # None => workers[j] \in Listed(workers)
      BY IsListed
    <3>4. setting.isolation = "thread" =>
            \A v \in Worker : Received(w)[v].state \in {"live", "stuck"} /\ ~Received(w)[v].dying =>
              v \in Listed(workers)
      <4> SUFFICES ASSUME setting.isolation = "thread", NEW v \in Worker,
                          Received(w)[v].state \in {"live", "stuck"}, ~Received(w)[v].dying
                   PROVE  v \in Listed(workers)
        OBVIOUS
      <4>1. \E k \in DOMAIN workers : workers[k] = v
        BY <1>1, <3>1, <3>2 DEF Threads
      <4>2. v # None
        BY ConstantsTyped
      <4> QED
        BY <4>1, <4>2, IsListed
    <3>5. workers \in Seq(Worker \union {None}) /\ stale' \subseteq stale
          /\ UNCHANGED <<setting, todo, graph, skipped>>
      BY <1>1, <1>2, <1>11 DEF PoolTypes
    <3>6. \A v \in Worker : Received(w)[v].state = "gone" => proc[v].state = "gone" \/ v = piece[i].worker
      BY <3>1
    <3> QED
      BY <1>4, <1>11, <2>1, <2>2, <3>1, <3>3, <3>4, <3>5, <3>6, FailedDispatch
  <2>3. CASE run.phase = "resetting"
    BY <1>7, <1>11, <2>1, <2>3 DEF GaveUp
  <2> QED
    BY <1>6, <1>11, <2>2, <2>3
<1>12. CASE ~(\A i \in Slot : ~OpenWith(i, w))
  <2>1. PICK i \in Slot : OpenWith(i, w)
                          /\ \/ /\ Head(proc[w].out).type = "part" /\ proc' = Received(w)
                                /\ OnPart(i, Head(proc[w].out).files)
                             \/ Head(proc[w].out).type = "done" /\ OnSubBatchDone(i, Received(w))
                             \/ Head(proc[w].out).type = "result" /\ proc' = Received(w) /\ OnResult(i)
                             \/ /\ Head(proc[w].out).type = "error" /\ piece' = Closed(piece, {i})
                                /\ GiveUp(workers, Received(w)) /\ UNCHANGED <<todo, graph>>
    BY <1>2, <1>12, Zenon
  <2> QED
    BY <1>8, <1>9, <1>10, <1>11, <2>1
<1> QED
  BY <1>2, <1>3, <1>12

-----------------------------------------------------------------------------
(* Exits and timers keep the invariant *)

\* Pieces, leftover closures and the array know nothing of a new worker.
LEMMA NewWorker ==
  ASSUME ParseInv, CanSpawn(1)
  PROVE  LET new == Spawned(1)[1]
         IN /\ new \in Worker /\ proc[new].state = "gone"
            /\ \A k \in DOMAIN workers : workers[k] # new
            /\ \A i \in Slot : ~OpenWith(i, new)
            /\ \A c \in stale : c.worker # new
<1>1. PoolTypes /\ Wired /\ Leftover
  BY DEF ParseInv
<1> DEFINE new == Spawned(1)[1]
<1>2. new \in Worker /\ proc[new].state = "gone" /\ new \notin Listed(workers)
  BY <1>1, SpawnFacts
<1> HIDE DEF new
<1>3. new # None
  BY <1>2, ConstantsTyped
<1>4. \A k \in DOMAIN workers : workers[k] # new
  BY <1>2, <1>3, IsListed
<1>5. \A i \in Slot : ~OpenWith(i, new)
  BY <1>1, <1>2 DEF Wired, OpenWith
<1>6. \A c \in stale : c.worker # new
  BY <1>1, <1>2, <1>3 DEF Leftover
<1> QED
  BY <1>2, <1>4, <1>5, <1>6 DEF new

\* The exit of a worker to whom nobody listens.
LEMMA LonelyExit ==
  ASSUME ParseInv, NEW w \in Worker, proc[w].state = "dead", \A i \in Slot : ~OpenWith(i, w),
         proc' = [proc EXCEPT ![w] = Gone], stale' = {c \in stale : c.worker # w},
         UNCHANGED <<setting, workers, piece, run, todo, graph, skipped>>
  PROVE  ParseInv'
<1>1. PoolTypes /\ Tiled(todo) /\ Booked /\ Wired /\ Leftover /\ Quiet /\ Streaming /\ Threads
  BY DEF ParseInv
<1>2. /\ proc' \in [Worker -> ProcState] /\ proc'[w] = Gone
      /\ \A v \in Worker : v # w => proc'[v] = proc[v]
  BY <1>1, CommandTypes DEF PoolTypes
<1>3. \A j \in Slot : piece[j].open =>
        piece[j].worker \in Worker /\ proc'[piece[j].worker] = proc[piece[j].worker]
  BY <1>1, <1>2 DEF Wired, OpenWith
<1>4. \A j \in Slot : \A v : OpenWith(j, v)' <=> OpenWith(j, v)
  BY DEF OpenWith
<1>5. PoolTypes'
  BY <1>1, <1>2 DEF PoolTypes
<1>6. Tiled(todo)' /\ Booked'
  BY <1>1, SameBooks
<1>7. Wired'
  <2>1. \A j \in Slot : piece[j].open => proc'[piece[j].worker].state # "gone"
    BY <1>1, <1>3 DEF Wired
  <2> QED
    BY <1>1, <2>1 DEF Wired, OpenWith
<1>8. Leftover'
  <2>1. \A c \in stale' : c \in stale /\ (c.worker # None => c.worker \in Worker /\ c.worker # w)
    BY <1>1 DEF PoolTypes, StaleState
  <2>2. \A c \in stale' : c.worker # None => proc'[c.worker].state # "gone"
    BY <1>1, <1>2, <2>1 DEF Leftover
  <2> QED
    BY <1>1, <1>4, <2>1, <2>2 DEF Leftover
<1>9. \A k \in DOMAIN workers : workers[k] # None => workers[k] \in Worker
  BY <1>1 DEF PoolTypes
<1>10. Quiet'
  <2> SUFFICES ASSUME NEW k \in DOMAIN workers, workers[k] # None, \A j \in Slot : ~OpenWith(j, workers[k])
               PROVE  proc'[workers[k]].cmd.do = "none" /\ proc'[workers[k]].out = <<>>
    BY <1>4 DEF Quiet
  <2>1. CASE workers[k] = w
    BY <1>2, <2>1, CommandTypes
  <2>2. CASE workers[k] # w
    BY <1>1, <1>2, <1>9, <2>2 DEF Quiet
  <2> QED
    BY <2>1, <2>2
<1>11. Streaming'
  <2> SUFFICES ASSUME run.phase = "running"
               PROVE  StreamedNow'
    BY DEF Streaming
  <2> QED
    BY <1>1, <1>3, SameStream DEF Streaming
<1>12. Threads'
  <2> SUFFICES ASSUME setting.isolation = "thread"
               PROVE  Threads'
    BY DEF Threads
  <2>1. stale' = {}
    BY <1>1 DEF Threads
  <2>2. ASSUME NEW k \in DOMAIN workers, workers[k] # None, run.phase \in {"idle", "running", "resetting"}
        PROVE  /\ ~proc'[workers[k]].dying
               /\ \/ proc'[workers[k]].state = "live"
                  \/ /\ run.phase = "running" /\ proc'[workers[k]].out = <<>>
                     /\ \E i \in Slot : OpenWith(i, workers[k])
    <3>1. /\ ~proc[workers[k]].dying
          /\ \/ proc[workers[k]].state = "live"
             \/ /\ run.phase = "running" /\ proc[workers[k]].out = <<>>
                /\ \E i \in Slot : OpenWith(i, workers[k])
      BY <1>1, <2>2 DEF Threads
    <3>2. workers[k] # w
      BY <3>1
    <3>3. proc'[workers[k]] = proc[workers[k]]
      BY <1>2, <1>9, <2>2, <3>2
    <3> QED
      BY <3>1, <3>3
  <2>3. ASSUME NEW v \in Worker, proc'[v].state \in {"live", "stuck"}, ~proc'[v].dying
        PROVE  \E k \in DOMAIN workers : workers[k] = v
    <3>1. v # w
      BY <1>2, <2>3, CommandTypes
    <3> QED
      BY <1>1, <1>2, <2>3, <3>1 DEF Threads
  <2> QED
    BY <1>1, <1>4, <2>1, <2>2, <2>3 DEF Threads
<1> QED
  BY <1>5, <1>6, <1>7, <1>8, <1>10, <1>11, <1>12 DEF ParseInv

LEMMA ExitKeeps ==
  ASSUME ParseInv, NEW w \in Worker, OnExit(w)
  PROVE  ParseInv'
<1>1. PoolTypes /\ Tiled(todo) /\ Booked /\ Wired /\ Leftover /\ Quiet /\ Streaming /\ Threads
  BY DEF ParseInv
<1> DEFINE pc == [proc EXCEPT ![w] = Gone]
<1>2. /\ pc \in [Worker -> ProcState] /\ pc[w] = Gone
      /\ \A v \in Worker : v # w => pc[v] = proc[v]
  BY <1>1, CommandTypes DEF PoolTypes
<1>3. /\ proc[w].state = "dead" /\ piece' = Closed(piece, Attached(w))
      /\ stale' = {c \in stale : c.worker # w} /\ UNCHANGED <<setting, todo, graph, skipped>>
  BY DEF OnExit
<1>4. CASE \A i \in Slot : ~OpenWith(i, w)
  <2>1. Attached(w) = {}
    BY <1>4 DEF Attached, OpenWith
  <2>2. proc' = pc /\ UNCHANGED <<workers, run>>
    BY <2>1 DEF OnExit
  <2>3. piece' = piece
    <3>1. piece \in [Slot -> PieceState] /\ piece' \in [Slot -> PieceState]
          /\ \A j \in Slot : piece'[j] = piece[j]
      BY <1>1, <1>3, <2>1, ClosedFacts DEF PoolTypes
    <3> QED
      BY <3>1
  <2> QED
    BY <1>3, <1>4, <2>2, <2>3, LonelyExit
<1>5. ASSUME NEW i \in Slot, OpenWith(i, w)
      PROVE  ParseInv'
  <2>1. piece[i].open /\ piece[i].worker = w /\ \A j \in Slot : OpenWith(j, w) => j = i
    BY <1>1, <1>5 DEF Wired, OpenWith
  <2>2. Attached(w) = {i}
    BY <2>1 DEF Attached, OpenWith
  <2>3. piece' = Closed(piece, {i})
    BY <1>3, <2>2
  <2>4. GiveUp(workers, pc)
    BY <2>2 DEF OnExit
  <2> HIDE DEF pc
  <2>5. GaveUp(workers, pc)
    BY <1>1, <1>2, <2>4, GiveUpMoves DEF PoolTypes
  <2>6. run.phase \in {"running", "resetting"}
    BY <1>1, <2>1 DEF Wired, PoolTypes, RunState
  <2>7. stale' \subseteq stale
    BY <1>3
  <2>8. CASE run.phase = "running"
    <3>1. \A v \in Worker : pc[v].state = "gone" => proc[v].state = "gone" \/ v = piece[i].worker
      BY <1>2, <2>1
    <3>2. \A j \in DOMAIN workers : workers[j] # None => workers[j] \in Listed(workers)
      BY IsListed
    <3>3. setting.isolation = "thread" =>
            \A v \in Worker : pc[v].state \in {"live", "stuck"} /\ ~pc[v].dying => v \in Listed(workers)
      <4> SUFFICES ASSUME setting.isolation = "thread", NEW v \in Worker,
                          pc[v].state \in {"live", "stuck"}, ~pc[v].dying
                   PROVE  v \in Listed(workers)
        OBVIOUS
      <4>1. v # w
        BY <1>2, CommandTypes
      <4>2. \E k \in DOMAIN workers : workers[k] = v
        BY <1>1, <1>2, <4>1 DEF Threads
      <4>3. v # None
        BY ConstantsTyped
      <4> QED
        BY <4>2, <4>3, IsListed
    <3>4. workers \in Seq(Worker \union {None})
      BY <1>1 DEF PoolTypes
    <3> QED
      BY <1>2, <1>3, <2>1, <2>3, <2>5, <2>7, <2>8, <3>1, <3>2, <3>3, <3>4, FailedDispatch
  <2>9. CASE run.phase = "resetting"
    <3>1. proc' = pc /\ UNCHANGED <<workers, run>>
      BY <2>5, <2>9 DEF GaveUp
    <3>2. /\ piece' \in [Slot -> PieceState] /\ ~piece'[i].open
          /\ \A j \in Slot : j # i => piece'[j] = piece[j]
      BY <1>1, <2>3, ClosedFacts
    <3>3. proc'[piece[i].worker].state = "gone"
      BY <1>2, <2>1, <3>1, CommandTypes
    <3> QED
      BY <1>2, <1>3, <2>1, <2>7, <2>9, <3>1, <3>2, <3>3, LatePiece
  <2> QED
    BY <2>6, <2>8, <2>9
<1> QED
  BY <1>4, <1>5

\* A timer replaces a worker that nobody listens to any more.
LEMMA SlotReplaced ==
  ASSUME ParseInv, CanSpawn(1), NEW s \in Slot, run.phase # "running" \/ piece' = piece,
         UNCHANGED <<setting, run, todo, graph, skipped>>,
         workers' = WithSlot(workers, s, Spawned(1)[1]),
         piece' \in [Slot -> PieceState], \A i \in Slot : piece'[i] = piece[i] \/ ~piece'[i].open,
         stale' \subseteq stale, NEW old, old # Spawned(1)[1],
         proc' = [v \in Worker |-> IF v = Spawned(1)[1] THEN Fresh ELSE IF v = old THEN Gone ELSE proc[v]],
         \A i \in Slot : ~(piece'[i].open /\ piece'[i].worker = old), \A c \in stale' : c.worker # None => c.worker # old,
         \A k \in DOMAIN workers : workers[k] # old,
         setting.isolation = "thread" =>
           /\ run.phase = "resetting" /\ ~piece'[s].open
           /\ s \in DOMAIN workers => workers[s] = None
  PROVE  ParseInv'
<1>1. PoolTypes /\ Tiled(todo) /\ Booked /\ Wired /\ Leftover /\ Quiet /\ Streaming /\ Threads
  BY DEF ParseInv
<1> DEFINE new == Spawned(1)[1]
<1>2. /\ new \in Worker /\ proc[new].state = "gone"
      /\ \A k \in DOMAIN workers : workers[k] # new
      /\ \A i \in Slot : ~OpenWith(i, new)
      /\ \A c \in stale : c.worker # new
  BY NewWorker
<1>3. /\ workers' \in Seq(Worker \union {None}) /\ s \in DOMAIN workers' /\ workers'[s] = new
      /\ \A k \in DOMAIN workers' : k # s => workers'[k] = None \/ (k \in DOMAIN workers /\ workers'[k] = workers[k])
      /\ \A k \in DOMAIN workers : k # s => k \in DOMAIN workers' /\ workers'[k] = workers[k]
  <2>1. workers \in Seq(Worker \union {None}) /\ workers' = WithSlot(workers, s, new)
    BY <1>1 DEF PoolTypes
  <2> HIDE DEF new
  <2> QED
    BY <1>2, <2>1, SlotFacts
<1>4. proc \in [Worker -> ProcState]
  BY <1>1 DEF PoolTypes
<1> HIDE DEF new
<1>5. /\ proc' \in [Worker -> ProcState] /\ proc'[new] = Fresh
      /\ \A v \in Worker : v # new /\ v # old => proc'[v] = proc[v]
      /\ old \in Worker => proc'[old] = Gone
  <2>1. proc' = [v \in Worker |-> IF v = new THEN Fresh ELSE IF v = old THEN Gone ELSE proc[v]] /\ old # new
    BY DEF new
  <2> QED
    BY <1>2, <1>4, <2>1, CommandTypes
<1>6. \A j \in Slot : piece'[j].open =>
        /\ piece[j].open /\ piece'[j] = piece[j] /\ piece[j].worker \in Worker
        /\ piece[j].worker # new /\ piece[j].worker # old
        /\ proc'[piece[j].worker] = proc[piece[j].worker]
  <2> TAKE j \in Slot
  <2> HAVE piece'[j].open
  <2>1. piece'[j] = piece[j]
    OBVIOUS
  <2>2. piece[j].open /\ piece[j].worker # new /\ piece[j].worker # old
    BY <1>2, <2>1 DEF OpenWith
  <2>3. piece[j].worker \in Worker
    BY <1>1, <2>2 DEF Wired
  <2> QED
    BY <1>5, <2>1, <2>2, <2>3
<1>7. PoolTypes'
  <2>1. stale' \in SUBSET StaleState
    BY <1>1 DEF PoolTypes
  <2> QED
    BY <1>1, <1>3, <1>5, <2>1 DEF PoolTypes
<1>8. Tiled(todo)' /\ Booked'
  BY <1>1, SameBooks
<1>9. \A k \in DOMAIN workers' : workers'[k] # None =>
        \/ k = s /\ workers'[k] = new
        \/ /\ k # s /\ k \in DOMAIN workers /\ workers'[k] = workers[k] /\ workers[k] # None /\ workers[k] \in Worker
           /\ workers[k] # new /\ proc'[workers[k]] = proc[workers[k]]
  <2> SUFFICES ASSUME NEW k \in DOMAIN workers', workers'[k] # None, k # s
               PROVE  /\ k \in DOMAIN workers /\ workers'[k] = workers[k] /\ workers[k] # None /\ workers[k] \in Worker
                      /\ workers[k] # new /\ proc'[workers[k]] = proc[workers[k]]
    BY <1>3
  <2>1. k \in DOMAIN workers /\ workers'[k] = workers[k] /\ workers[k] # None
    BY <1>3
  <2>2. workers[k] \in Worker
    BY <1>1, <2>1 DEF PoolTypes
  <2>3. workers[k] # new /\ workers[k] # old
    BY <1>2, <2>1
  <2> QED
    BY <1>5, <2>1, <2>2, <2>3
<1>10. Wired'
  <2>1. \A i, j \in DOMAIN workers' : workers'[i] = workers'[j] /\ workers'[i] # None => i = j
    <3> SUFFICES ASSUME NEW i \in DOMAIN workers', NEW j \in DOMAIN workers', workers'[i] = workers'[j],
                        workers'[i] # None
                 PROVE  i = j
      OBVIOUS
    <3>1. CASE i = s \/ j = s
      BY <1>9, <3>1
    <3>2. CASE i # s /\ j # s
      BY <1>1, <1>9, <3>2 DEF Wired
    <3> QED
      BY <3>1, <3>2
  <2>2. \A i, j \in Slot : piece'[i].open /\ piece'[j].open /\ piece'[j].worker = piece'[i].worker => i = j
    <3> SUFFICES ASSUME NEW i \in Slot, NEW j \in Slot, piece'[i].open, piece'[j].open,
                        piece'[j].worker = piece'[i].worker
                 PROVE  i = j
      OBVIOUS
    <3>2. piece[i].open /\ OpenWith(j, piece[i].worker)
      BY <1>6 DEF OpenWith
    <3> QED
      BY <1>1, <3>2 DEF Wired
  <2>3. \A i \in Slot : piece'[i].open => piece'[i].worker \in Worker /\ proc'[piece'[i].worker].state # "gone"
    <3> TAKE i \in Slot
    <3> HAVE piece'[i].open
    <3>1. piece[i].open /\ piece'[i] = piece[i] /\ piece[i].worker \in Worker
          /\ proc'[piece[i].worker] = proc[piece[i].worker]
      BY <1>6
    <3>2. proc[piece[i].worker].state # "gone"
      BY <1>1, <3>1 DEF Wired
    <3> QED
      BY <3>1, <3>2
  <2>4. ASSUME run.phase # "running", NEW i \in Slot, piece'[i].open, NEW k \in DOMAIN workers'
        PROVE  workers'[k] # piece'[i].worker
    <3>1. piece[i].open /\ piece'[i].worker = piece[i].worker /\ piece[i].worker \in Worker /\ piece[i].worker # new
      BY <1>6, <2>4
    <3>2. \A j \in DOMAIN workers : workers[j] # piece[i].worker
      BY <1>1, <2>4, <3>1 DEF Wired
    <3>3. piece[i].worker # None
      BY <3>1, ConstantsTyped
    <3> QED
      BY <1>9, <3>1, <3>2, <3>3
  <2>5. run.phase \in {"idle", "closing", "done"} => \A i \in Slot : ~piece'[i].open
    BY <1>1, <1>6 DEF Wired
  <2> QED
    <3>1. run'.phase \in {"running", "resetting"} => todo' # <<>>
      BY <1>1 DEF Wired
    <3>2. run'.phase # "running" => run'.streamed = NoFiles
      BY <1>1 DEF Wired
    <3> QED
      BY <2>1, <2>2, <2>3, <2>4, <2>5, <3>1, <3>2 DEF Wired, OpenWith
<1>11. Leftover'
  <2>1. ASSUME NEW c \in stale', c.worker # None
        PROVE  /\ proc'[c.worker].state # "gone"
               /\ \A i \in Slot : ~OpenWith(i, c.worker)'
               /\ \A k \in DOMAIN workers' : workers'[k] # c.worker
    <3>1. c \in stale /\ c.worker # new /\ c.worker # old
      BY <1>2, <2>1
    <3>2. c.worker \in Worker
      BY <1>1, <2>1, <3>1 DEF PoolTypes, StaleState
    <3>3. /\ proc[c.worker].state # "gone"
          /\ \A i \in Slot : ~OpenWith(i, c.worker)
          /\ \A k \in DOMAIN workers : workers[k] # c.worker
      BY <1>1, <2>1, <3>1 DEF Leftover
    <3>4. proc'[c.worker] = proc[c.worker]
      BY <1>5, <3>1, <3>2
    <3>5. \A i \in Slot : ~OpenWith(i, c.worker)'
      BY <1>6, <3>3 DEF OpenWith
    <3>6. \A k \in DOMAIN workers' : workers'[k] # c.worker
      BY <1>9, <2>1, <3>1, <3>3
    <3> QED
      BY <3>3, <3>4, <3>5, <3>6
  <2>2. \A c, d \in stale' : c.worker = d.worker /\ c.worker # None => c = d
    BY <1>1 DEF Leftover
  <2> QED
    BY <2>1, <2>2 DEF Leftover
<1>12. Quiet'
  <2> SUFFICES ASSUME NEW k \in DOMAIN workers', workers'[k] # None,
                      \A i \in Slot : ~(piece'[i].open /\ piece'[i].worker = workers'[k])
               PROVE  proc'[workers'[k]].cmd.do = "none" /\ proc'[workers'[k]].out = <<>>
    BY DEF Quiet, OpenWith
  <2>1. CASE k = s
    BY <1>3, <1>5, <2>1, CommandTypes
  <2>2. CASE k # s
    <3>1. /\ k \in DOMAIN workers /\ workers'[k] = workers[k] /\ workers[k] # None
          /\ proc'[workers[k]] = proc[workers[k]]
      BY <1>9, <2>2
    <3>2. \A i \in Slot : ~OpenWith(i, workers[k])
      <4> SUFFICES ASSUME NEW i \in Slot, OpenWith(i, workers[k])
                   PROVE  FALSE
        OBVIOUS
      <4>1. run.phase = "running"
        BY <1>1, <3>1 DEF Wired, OpenWith
      <4> QED
        BY <3>1, <4>1 DEF OpenWith
    <3>3. proc[workers[k]].cmd.do = "none" /\ proc[workers[k]].out = <<>>
      BY <1>1, <3>1, <3>2 DEF Quiet
    <3> QED
      BY <3>1, <3>3
  <2> QED
    BY <2>1, <2>2
<1>13. Streaming'
  <2> SUFFICES ASSUME run.phase = "running"
               PROVE  StreamedNow'
    BY DEF Streaming
  <2>1. StreamedNow /\ piece' = piece
    BY <1>1 DEF Streaming
  <2> QED
    BY <1>6, <2>1, SameStream
<1>14. Threads'
  <2> SUFFICES ASSUME setting.isolation = "thread"
               PROVE  Threads'
    BY DEF Threads
  <2>1. stale' = {} /\ run.phase = "resetting" /\ (s \in DOMAIN workers => workers[s] = None)
    BY <1>1 DEF Threads
  <2>2. ASSUME NEW k \in DOMAIN workers', workers'[k] # None
        PROVE  ~proc'[workers'[k]].dying /\ proc'[workers'[k]].state = "live"
    <3>1. CASE k = s
      BY <1>3, <1>5, <3>1, CommandTypes
    <3>2. CASE k # s
      <4>1. /\ k \in DOMAIN workers /\ workers'[k] = workers[k] /\ workers[k] # None
            /\ proc'[workers[k]] = proc[workers[k]]
        BY <1>9, <2>2, <3>2
      <4>2. ~proc[workers[k]].dying /\ proc[workers[k]].state = "live"
        BY <1>1, <2>1, <4>1 DEF Threads
      <4> QED
        BY <4>1, <4>2
    <3> QED
      BY <3>1, <3>2
  <2>3. ASSUME NEW j \in Slot, piece'[j].open
        PROVE  piece'[j].worker \in run.awaiting /\ (j \in DOMAIN workers' => workers'[j] = None)
    <3>1. piece[j].open /\ piece'[j] = piece[j]
      BY <1>6, <2>3
    <3>2. piece[j].worker \in run.awaiting /\ (j \in DOMAIN workers => workers[j] = None)
      BY <1>1, <2>1, <3>1 DEF Threads
    <3>3. j # s
      BY <2>3
    <3> QED
      BY <1>3, <3>1, <3>2, <3>3
  <2>4. ASSUME NEW v \in Worker, proc'[v].state \in {"live", "stuck"}, ~proc'[v].dying
        PROVE  \E k \in DOMAIN workers' : workers'[k] = v
    <3>1. CASE v = new
      BY <1>3, <3>1
    <3>2. CASE v # new
      <4>1. v # old
        BY <1>5, <2>4, CommandTypes
      <4>2. PICK k \in DOMAIN workers : workers[k] = v
        BY <1>1, <1>5, <2>4, <3>2, <4>1 DEF Threads
      <4>3. k # s
        BY <2>1, <4>2, ConstantsTyped
      <4> QED
        BY <1>3, <4>2, <4>3
    <3> QED
      BY <3>1, <3>2
  <2> QED
    BY <2>1, <2>2, <2>3, <2>4 DEF Threads
<1> QED
  BY <1>7, <1>8, <1>10, <1>11, <1>12, <1>13, <1>14 DEF ParseInv

LEMMA WatchdogKeeps ==
  ASSUME ParseInv, NEW i \in Slot, Watchdog(i)
  PROVE  ParseInv'
<1>1. PoolTypes /\ Tiled(todo) /\ Booked /\ Wired /\ Leftover /\ Quiet /\ Streaming /\ Threads
  BY DEF ParseInv
<1> DEFINE w == piece[i].worker
           new == Spawned(1)[1]
           ws == WithSlot(workers, i, new)
           pc == [proc EXCEPT ![w] = Gone, ![new] = Fresh]
<1>2. /\ piece[i].open /\ CanSpawn(1) /\ piece' = Closed(piece, {i}) /\ GiveUp(ws, pc)
      /\ UNCHANGED <<setting, stale, todo, graph, skipped>>
  BY DEF Watchdog
<1>3. /\ new \in Worker /\ proc[new].state = "gone"
      /\ \A j \in Slot : ~OpenWith(j, new)
  BY <1>2, NewWorker
<1>4. w \in Worker /\ OpenWith(i, w) /\ \A j \in Slot : OpenWith(j, w) => j = i
  BY <1>1, <1>2 DEF Wired, OpenWith
<1>5. w # new
  BY <1>3, <1>4
<1>6. ws = WithSlot(workers, i, Spawned(1)[1]) /\ new = Spawned(1)[1]
  OBVIOUS
<1>7. proc \in [Worker -> ProcState] /\ workers \in Seq(Worker \union {None})
  BY <1>1 DEF PoolTypes
<1> HIDE DEF w, new
<1>8. /\ ws \in Seq(Worker \union {None}) /\ i \in DOMAIN ws /\ ws[i] = new
      /\ \A k \in DOMAIN workers : k # i => k \in DOMAIN ws /\ ws[k] = workers[k]
  BY <1>3, <1>7, SlotFacts
<1>9. /\ pc \in [Worker -> ProcState] /\ pc[new] = Fresh /\ pc[w] = Gone
      /\ \A v \in Worker : v # new /\ v # w => pc[v] = proc[v]
  BY <1>3, <1>4, <1>5, <1>7, CommandTypes
<1>10. pc = [v \in Worker |-> IF v = new THEN Fresh ELSE IF v = w THEN Gone ELSE proc[v]]
  <2> DEFINE pd == [v \in Worker |-> IF v = new THEN Fresh ELSE IF v = w THEN Gone ELSE proc[v]]
  <2>1. DOMAIN pd = Worker /\ \A v \in Worker : pd[v] = pc[v]
    BY <1>5, <1>9
  <2>2. DOMAIN pc = Worker
    BY <1>9
  <2>3. pd = [v \in Worker |-> pd[v]] /\ pc = [v \in Worker |-> pc[v]]
    BY <1>7
  <2> HIDE DEF pd, pc
  <2>4. pd = pc
    BY <2>1, <2>3
  <2> QED
    BY <2>4 DEF pd
<1> HIDE DEF ws, pc
<1>11. GaveUp(ws, pc)
  BY <1>1, <1>2, <1>8, <1>9, GiveUpMoves
<1>12. run.phase \in {"running", "resetting"}
  BY <1>1, <1>2 DEF Wired, PoolTypes, RunState
<1>13. /\ piece' \in [Slot -> PieceState] /\ ~piece'[i].open
       /\ \A j \in Slot : j # i => piece'[j] = piece[j]
  BY <1>1, <1>2, ClosedFacts
<1>14. CASE run.phase = "running"
  <2>1. \A v \in Worker : pc[v].state = "gone" => proc[v].state = "gone" \/ v = piece[i].worker
    BY <1>3, <1>9 DEF w
  <2>2. \A j \in DOMAIN workers : j # i /\ workers[j] # None => workers[j] \in Listed(ws)
    BY <1>8, IsListed
  <2>3. setting.isolation = "thread" =>
          \A v \in Worker : pc[v].state \in {"live", "stuck"} /\ ~pc[v].dying => v \in Listed(ws)
    <3> SUFFICES ASSUME setting.isolation = "thread", NEW v \in Worker,
                        pc[v].state \in {"live", "stuck"}, ~pc[v].dying
                 PROVE  v \in Listed(ws)
      OBVIOUS
    <3>1. v # None
      BY ConstantsTyped
    <3>2. CASE v = new
      BY <1>8, <3>1, <3>2, IsListed
    <3>3. CASE v # new
      <4>1. v # w
        BY <1>9, CommandTypes
      <4>2. PICK k \in DOMAIN workers : workers[k] = v
        BY <1>1, <1>9, <3>3, <4>1 DEF Threads
      <4>3. k # i
        BY <1>1, <1>2, <1>14, <4>1, <4>2 DEF Threads, w
      <4> QED
        BY <2>2, <3>1, <4>2, <4>3
    <3> QED
      BY <3>2, <3>3
  <2>4. stale' \subseteq stale
    BY <1>2
  <2> QED
    BY <1>2, <1>8, <1>9, <1>11, <1>14, <2>1, <2>2, <2>3, <2>4, FailedDispatch
<1>15. CASE run.phase = "resetting"
  <2>1. workers' = WithSlot(workers, i, Spawned(1)[1]) /\ UNCHANGED run
        /\ proc' = [v \in Worker |-> IF v = Spawned(1)[1] THEN Fresh ELSE IF v = w THEN Gone ELSE proc[v]]
    BY <1>6, <1>10, <1>11, <1>15 DEF GaveUp
  <2>2. \A j \in Slot : ~(piece'[j].open /\ piece'[j].worker = w)
    BY <1>4, <1>13 DEF OpenWith
  <2>3. \A c \in stale' : c.worker # None => c.worker # w
    BY <1>1, <1>2, <1>4 DEF Leftover
  <2>4. \A k \in DOMAIN workers : workers[k] # w
    BY <1>1, <1>2, <1>15 DEF Wired, w
  <2>5. setting.isolation = "thread" =>
          run.phase = "resetting" /\ ~piece'[i].open /\ (i \in DOMAIN workers => workers[i] = None)
    BY <1>1, <1>2, <1>13, <1>15 DEF Threads
  <2>6. \A j \in Slot : piece'[j] = piece[j] \/ ~piece'[j].open
    BY <1>13
  <2>7. w # Spawned(1)[1]
    BY <1>5, <1>6
  <2>8. stale' \subseteq stale /\ run.phase # "running"
    BY <1>2, <1>15
  <2> QED
    BY <1>2, <1>13, <2>1, <2>2, <2>3, <2>4, <2>5, <2>6, <2>7, <2>8, SlotReplaced
<1> QED
  BY <1>12, <1>14, <1>15

LEMMA TimerKeeps ==
  ASSUME ParseInv, NEW c \in stale, StaleTimer(c)
  PROVE  ParseInv'
<1>1. PoolTypes /\ Wired /\ Leftover /\ Threads
  BY DEF ParseInv
<1>2. /\ CanSpawn(1) /\ stale' = stale \ {c} /\ workers' = WithSlot(workers, c.slot, Spawned(1)[1])
      /\ proc' = [w \in Worker |-> IF w = Spawned(1)[1] THEN Fresh ELSE IF w = c.worker THEN Gone ELSE proc[w]]
      /\ UNCHANGED <<setting, piece, run, todo, graph, skipped>>
  BY DEF StaleTimer
<1>3. c.worker # Spawned(1)[1]
  BY <1>2, NewWorker
<1>4. c.slot \in Slot /\ c.worker \in Worker \union {None}
  BY <1>1 DEF PoolTypes, StaleState
<1>5. setting.isolation # "thread"
  BY <1>1 DEF Threads
<1>6. piece' \in [Slot -> PieceState] /\ \A i \in Slot : piece'[i] = piece[i]
  BY <1>1, <1>2 DEF PoolTypes
<1>7. CASE c.worker # None
  <2>1. \A i \in Slot : ~(piece'[i].open /\ piece'[i].worker = c.worker)
    BY <1>1, <1>2, <1>7 DEF Leftover, OpenWith
  <2>2. \A d \in stale' : d.worker # None => d.worker # c.worker
    BY <1>1, <1>2, <1>7 DEF Leftover
  <2>3. \A k \in DOMAIN workers : workers[k] # c.worker
    BY <1>1, <1>7 DEF Leftover
  <2> QED
    BY <1>2, <1>3, <1>4, <1>5, <1>6, <2>1, <2>2, <2>3, SlotReplaced
<1>8. CASE c.worker = None
  \* Nobody is replaced: the worker that is given for gone is no worker.
  <2> DEFINE old == CHOOSE x : x \notin Worker \union {None}
  <2>1. old \notin Worker \union {None}
    BY NoSetContainsEverything
  <2> HIDE DEF old
  <2>2. \A i \in Slot : ~(piece'[i].open /\ piece'[i].worker = old)
    BY <1>1, <1>2, <2>1 DEF Wired, OpenWith
  <2>3. \A d \in stale' : d.worker # None => d.worker # old
    BY <1>1, <1>2, <2>1 DEF PoolTypes, StaleState
  <2>4. \A k \in DOMAIN workers : workers[k] # old
    BY <1>1, <2>1 DEF PoolTypes
  <2>5. Spawned(1)[1] \in Worker
    BY <1>2, NewWorker
  <2>6. old # Spawned(1)[1]
    BY <2>1, <2>5
  <2>7. None \notin Worker
    BY ConstantsTyped
  <2>8. proc' = [w \in Worker |-> IF w = Spawned(1)[1] THEN Fresh ELSE IF w = old THEN Gone ELSE proc[w]]
    BY <1>2, <1>8, <2>1, <2>7
  <2> QED
    BY <1>2, <1>4, <1>5, <1>6, <2>2, <2>3, <2>4, <2>6, <2>8, SlotReplaced
<1> QED
  BY <1>7, <1>8

LEMMA SettlesKeeps ==
  ASSUME ParseInv, NEW c \in stale, StaleSettles(c)
  PROVE  ParseInv'
<1>1. PoolTypes /\ Tiled(todo) /\ Booked /\ Wired /\ Leftover /\ Quiet /\ Streaming /\ Threads
  BY DEF ParseInv
<1>2. stale' = stale \ {c} /\ UNCHANGED <<setting, workers, proc, piece, run, todo, graph, skipped>>
  BY DEF StaleSettles
<1>3. PoolTypes'
  BY <1>1, <1>2 DEF PoolTypes
<1>4. Tiled(todo)' /\ Booked' /\ Wired' /\ Quiet'
  BY <1>1, <1>2 DEF Tiled, Waiting, Booked, Wired, Quiet, OpenWith
<1>5. Leftover'
  BY <1>1, <1>2 DEF Leftover, OpenWith
<1>6. Streaming'
  <2> SUFFICES ASSUME run.phase = "running"
               PROVE  StreamedNow'
    BY <1>2 DEF Streaming
  <2>1. StreamedNow
    BY <1>1 DEF Streaming
  <2> QED
    BY <1>2, <2>1, SameStream
<1>7. Threads'
  BY <1>1, <1>2 DEF Threads
<1> QED
  BY <1>3, <1>4, <1>5, <1>6, <1>7 DEF ParseInv

-----------------------------------------------------------------------------
(* The steps of a dispatch keep the invariant *)

LEMMA StartKeeps ==
  ASSUME ParseInv, StartDispatch
  PROVE  ParseInv'
<1>1. PoolTypes /\ Tiled(todo) /\ Booked /\ Wired /\ Leftover /\ Quiet /\ Streaming /\ Threads
  BY DEF ParseInv
<1>2. Started
  BY <1>1, StartMoves
<1>3. /\ run.phase = "idle" /\ todo # <<>> /\ UNCHANGED <<setting, todo, graph, skipped>>
      /\ piece' \in [Slot -> PieceState] /\ stale' \in SUBSET StaleState /\ stale \subseteq stale'
      /\ \A c \in stale' : c \in stale \/ /\ c.worker = None /\ c.slot \in DOMAIN workers
                                          /\ workers[c.slot] # None
                                          /\ proc[workers[c.slot]].state = "gone"
  BY <1>2 DEF Started
<1>4. \A i \in Starters : /\ i \in Slot /\ i \in DOMAIN workers /\ workers[i] \in Worker
                          /\ workers[i] # None /\ proc[workers[i]].state # "gone"
                          /\ piece'[i].worker = workers[i] /\ piece'[i].open
  <2>1. \A i \in Starters : i \in Slot /\ i \in DOMAIN workers /\ workers[i] \in Worker
    BY <1>1, <1>3, StarterFacts
  <2>2. \A i \in Starters : workers[i] # None /\ proc[workers[i]].state # "gone"
    BY DEF Starters
  <2>3. \A i \in Starters : piece'[i].worker = workers[i] /\ piece'[i].open
    BY <1>2 DEF Started
  <2> QED
    BY <2>1, <2>2, <2>3
<1>5. \A i \in Slot : piece'[i].open => i \in Starters
  BY <1>2, CommandTypes DEF Started
<1>6. WorkersPosted
  BY <1>1, <1>3, PostFacts
<1>7. /\ Posted \in [Worker -> ProcState]
      /\ \A w \in Worker : /\ Posted[w].state = proc[w].state
                           /\ (\A i \in Starters : workers[i] # w) => Posted[w] = proc[w]
  BY <1>6 DEF WorkersPosted
<1>8. \A w \in Worker : (Posted[w].dying => proc[w].dying) /\ (~Posted[w].dying => ~proc[w].dying)
  BY <1>6 DEF WorkersPosted
<1>9. \A i \in Slot : ~piece[i].open
  BY <1>1, <1>3 DEF Wired
<1>10. Tiled(todo)' /\ Booked'
  BY <1>1, <1>3, SameBooks
<1>11. \A i, j \in Slot : piece'[i].open /\ piece'[j].open /\ piece'[j].worker = piece'[i].worker => i = j
  BY <1>1, <1>4, <1>5 DEF Wired
<1>12. \A c \in stale' : c.worker # None =>
         /\ c \in stale /\ c.worker \in Worker /\ proc[c.worker].state # "gone"
         /\ \A k \in DOMAIN workers : workers[k] # c.worker
         /\ \A i \in Slot : ~(piece'[i].open /\ piece'[i].worker = c.worker)
  <2> SUFFICES ASSUME NEW c \in stale', c.worker # None
               PROVE  /\ c \in stale /\ c.worker \in Worker /\ proc[c.worker].state # "gone"
                      /\ \A k \in DOMAIN workers : workers[k] # c.worker
                      /\ \A i \in Slot : ~(piece'[i].open /\ piece'[i].worker = c.worker)
    OBVIOUS
  <2>1. c \in stale
    BY <1>3
  <2>2. c.worker \in Worker
    BY <1>1, <2>1 DEF PoolTypes, StaleState
  <2>3. proc[c.worker].state # "gone" /\ \A k \in DOMAIN workers : workers[k] # c.worker
    BY <1>1, <2>1 DEF Leftover
  <2> QED
    BY <1>4, <1>5, <2>1, <2>2, <2>3
<1>13. \A c, d \in stale' : c.worker = d.worker /\ c.worker # None => c = d
  BY <1>1, <1>12 DEF Leftover
<1>14. setting.isolation = "thread" =>
         /\ stale' = {}
         /\ \A k \in DOMAIN workers : workers[k] # None =>
              workers[k] \in Worker /\ ~proc[workers[k]].dying /\ proc[workers[k]].state = "live"
         /\ \A w \in Worker : proc[w].state \in {"live", "stuck"} /\ ~proc[w].dying =>
              \E k \in DOMAIN workers : workers[k] = w
  <2> SUFFICES ASSUME setting.isolation = "thread"
               PROVE  /\ stale' = {}
                      /\ \A k \in DOMAIN workers : workers[k] # None =>
                           workers[k] \in Worker /\ ~proc[workers[k]].dying /\ proc[workers[k]].state = "live"
                      /\ \A w \in Worker : proc[w].state \in {"live", "stuck"} /\ ~proc[w].dying =>
                           \E k \in DOMAIN workers : workers[k] = w
    OBVIOUS
  <2>1. \A k \in DOMAIN workers : workers[k] # None =>
          workers[k] \in Worker /\ ~proc[workers[k]].dying /\ proc[workers[k]].state = "live"
    <3>1. \A k \in DOMAIN workers : workers[k] # None => workers[k] \in Worker
      BY <1>1 DEF PoolTypes
    <3> QED
      BY <1>1, <1>3, <3>1 DEF Threads
  <2>2. stale = {}
    BY <1>1 DEF Threads
  <2>3. stale' = {}
    BY <1>3, <2>1, <2>2
  <2> QED
    BY <1>1, <2>1, <2>3 DEF Threads
<1>15. CASE /\ Starters = DOMAIN Pieces(Head(todo)) /\ proc' = Posted /\ UNCHANGED workers
            /\ run' = [run EXCEPT !.phase = "running"]
  <2>1. run' \in RunState /\ run'.phase = "running" /\ run'.streamed = run.streamed
    BY <1>1, <1>15 DEF PoolTypes, RunState
  <2>2. PoolTypes'
    BY <1>1, <1>3, <1>7, <1>15, <2>1 DEF PoolTypes
  <2>3. Wired'
    <3>1. \A i \in Slot : piece'[i].open => piece'[i].worker \in Worker /\ proc'[piece'[i].worker].state # "gone"
      <4> TAKE i \in Slot
      <4> HAVE piece'[i].open
      <4>1. piece'[i].worker = workers[i] /\ workers[i] \in Worker /\ proc[workers[i]].state # "gone"
        BY <1>4, <1>5
      <4> QED
        BY <1>7, <1>15, <4>1
    <3> QED
      BY <1>1, <1>3, <1>11, <1>15, <2>1, <3>1 DEF Wired, OpenWith
  <2>4. Leftover'
    BY <1>7, <1>12, <1>13, <1>15 DEF Leftover, OpenWith
  <2>5. Quiet'
    <3> SUFFICES ASSUME NEW k \in DOMAIN workers, workers[k] # None,
                        \A i \in Slot : ~(piece'[i].open /\ piece'[i].worker = workers[k])
                 PROVE  proc'[workers[k]].cmd.do = "none" /\ proc'[workers[k]].out = <<>>
      BY <1>15 DEF Quiet, OpenWith
    <3>1. workers[k] \in Worker
      BY <1>1 DEF PoolTypes
    <3>2. \A i \in Starters : workers[i] # workers[k]
      BY <1>4
    <3>3. proc'[workers[k]] = proc[workers[k]]
      BY <1>7, <1>15, <3>1, <3>2
    <3> QED
      BY <1>1, <1>9, <3>3 DEF Quiet, OpenWith
  <2>6. Streaming'
    <3>1. StreamedNow'
      BY <1>1, <1>2, <1>15, <2>1, FirstStream
    <3> QED
      BY <3>1 DEF Streaming
  <2>7. Threads'
    <3> SUFFICES ASSUME setting.isolation = "thread"
                 PROVE  Threads'
      BY <1>3 DEF Threads
    <3>1. \A k \in DOMAIN workers : workers[k] # None => ~proc'[workers[k]].dying /\ proc'[workers[k]].state = "live"
      BY <1>7, <1>8, <1>14, <1>15
    <3>2. \A w \in Worker : proc'[w].state \in {"live", "stuck"} /\ ~proc'[w].dying =>
            \E k \in DOMAIN workers : workers[k] = w
      BY <1>7, <1>8, <1>14, <1>15
    <3>3. \A i \in Slot : piece'[i].open => i \in DOMAIN workers /\ workers[i] = piece'[i].worker
      BY <1>4, <1>5
    <3> QED
      BY <1>14, <1>15, <2>1, <3>1, <3>2, <3>3 DEF Threads
  <2> QED
    BY <1>10, <2>2, <2>3, <2>4, <2>5, <2>6, <2>7 DEF ParseInv
<1>16. CASE GiveUp(workers, Posted)
  <2>1. GaveUp(workers, Posted)
    BY <1>1, <1>7, <1>16, GiveUpMoves DEF PoolTypes
  <2>2. /\ workers' \in Seq(Worker \union {None}) /\ proc' \in [Worker -> ProcState] /\ run' \in RunState
        /\ workers' = <<>> /\ run'.phase = "resetting" /\ run'.awaiting = Listed(workers)
        /\ run'.streamed = NoFiles
        /\ \A w \in Worker : proc'[w].state = proc[w].state /\ (~proc'[w].dying => ~proc[w].dying)
        /\ \A w \in Listed(workers) : Posted[w].state # "gone" => proc'[w].dying
    BY <1>3, <1>7, <1>8, <2>1 DEF GaveUp
  <2>3. DOMAIN workers' = {}
    BY <2>2
  <2>4. PoolTypes'
    BY <1>1, <1>3, <2>2 DEF PoolTypes
  <2>5. Wired'
    <3>1. \A i \in Slot : piece'[i].open => piece'[i].worker \in Worker /\ proc'[piece'[i].worker].state # "gone"
      <4> TAKE i \in Slot
      <4> HAVE piece'[i].open
      <4>1. piece'[i].worker = workers[i] /\ workers[i] \in Worker /\ proc[workers[i]].state # "gone"
        BY <1>4, <1>5
      <4> QED
        BY <2>2, <4>1
    <3> QED
      BY <1>3, <1>11, <2>2, <2>3, <3>1 DEF Wired, OpenWith
  <2>6. Leftover'
    BY <1>12, <1>13, <2>2, <2>3 DEF Leftover, OpenWith
  <2>7. Quiet' /\ Streaming'
    BY <2>2, <2>3 DEF Quiet, Streaming
  <2>8. Threads'
    <3> SUFFICES ASSUME setting.isolation = "thread"
                 PROVE  Threads'
      BY <1>3 DEF Threads
    <3>1. \A i \in Slot : piece'[i].open => piece'[i].worker \in run'.awaiting
      BY <1>4, <1>5, <2>2, IsListed
    <3>2. ASSUME NEW w \in Worker, proc'[w].state \in {"live", "stuck"}, ~proc'[w].dying
          PROVE  FALSE
      <4>1. \E k \in DOMAIN workers : workers[k] = w
        BY <1>14, <2>2, <3>2
      <4>2. w \in Listed(workers)
        BY <4>1, ConstantsTyped, IsListed
      <4> QED
        BY <1>7, <2>2, <3>2, <4>2
    <3> QED
      BY <1>14, <2>2, <2>3, <3>1, <3>2 DEF Threads
  <2> QED
    BY <1>10, <2>4, <2>5, <2>6, <2>7, <2>8 DEF ParseInv
<1> QED
  BY <1>2, <1>15, <1>16 DEF Started

LEMMA CloseKeeps ==
  ASSUME ParseInv, Close
  PROVE  ParseInv'
<1>1. PoolTypes /\ Tiled(todo) /\ Booked /\ Wired /\ Leftover /\ Quiet /\ Streaming /\ Threads
  BY DEF ParseInv
<1>2. /\ run.phase = "idle" /\ proc' = Dying(proc, Listed(workers))
      /\ run' = [run EXCEPT !.phase = "closing", !.awaiting = Listed(workers)]
      /\ UNCHANGED <<setting, workers, piece, stale, todo, graph, skipped>>
  BY DEF Close
<1>3. Listed(workers) \subseteq Worker
  <2>1. \A k \in DOMAIN workers : workers[k] \in Worker \union {None}
    BY <1>1 DEF PoolTypes
  <2> QED
    BY <2>1, IsListed
<1>4. run' \in RunState /\ run'.phase = "closing" /\ run'.awaiting = Listed(workers) /\ run'.streamed = run.streamed
  BY <1>1, <1>2, <1>3 DEF PoolTypes, RunState
<1>5. /\ proc' \in [Worker -> ProcState]
      /\ \A w \in Worker : /\ proc'[w].state = proc[w].state /\ proc'[w].cmd = proc[w].cmd /\ proc'[w].out = proc[w].out
                           /\ ~proc'[w].dying => ~proc[w].dying
  BY <1>1, <1>2, DyingFacts DEF PoolTypes
<1>6. PoolTypes'
  BY <1>1, <1>2, <1>4, <1>5 DEF PoolTypes
<1>7. Tiled(todo)' /\ Booked'
  BY <1>1, <1>2, SameBooks
<1>8. \A i \in Slot : ~piece[i].open
  BY <1>1, <1>2 DEF Wired
<1>9. Wired'
  BY <1>1, <1>2, <1>4, <1>8 DEF Wired
<1>10. Leftover'
  <2>1. \A c \in stale : c.worker # None => c.worker \in Worker
    BY <1>1 DEF PoolTypes, StaleState
  <2> QED
    BY <1>1, <1>2, <1>5, <1>8, <2>1 DEF Leftover, OpenWith
<1>11. Quiet'
  <2>1. \A k \in DOMAIN workers : workers[k] # None => workers[k] \in Worker
    BY <1>1 DEF PoolTypes
  <2> QED
    BY <1>1, <1>2, <1>5, <2>1 DEF Quiet, OpenWith
<1>12. Streaming'
  BY <1>4 DEF Streaming
<1>13. Threads'
  BY <1>1, <1>2, <1>4, <1>5, <1>8 DEF Threads
<1> QED
  BY <1>6, <1>7, <1>9, <1>10, <1>11, <1>12, <1>13 DEF ParseInv

LEMMA ClosesKeeps ==
  ASSUME ParseInv, Closes
  PROVE  ParseInv'
<1>1. PoolTypes /\ Tiled(todo) /\ Booked /\ Wired /\ Leftover /\ Quiet /\ Streaming /\ Threads
  BY DEF ParseInv
<1>2. /\ run.phase = "closing" /\ \A w \in run.awaiting : proc[w].state = "gone"
      /\ workers' = <<>> /\ run' = [run EXCEPT !.phase = "done", !.awaiting = {}]
      /\ UNCHANGED <<setting, proc, piece, stale, todo, graph, skipped>>
  BY DEF Closes
<1>3. run' \in RunState /\ run'.phase = "done" /\ run'.streamed = run.streamed
  BY <1>1, <1>2 DEF PoolTypes, RunState
<1>4. DOMAIN workers' = {} /\ workers' \in Seq(Worker \union {None})
  BY <1>2
<1>5. PoolTypes'
  BY <1>1, <1>2, <1>3, <1>4 DEF PoolTypes
<1>6. Tiled(todo)' /\ Booked'
  BY <1>1, <1>2, SameBooks
<1>7. \A i \in Slot : ~piece[i].open
  BY <1>1, <1>2 DEF Wired
<1>8. Wired'
  BY <1>1, <1>2, <1>3, <1>4, <1>7 DEF Wired
<1>9. Leftover' /\ Quiet' /\ Streaming'
  BY <1>1, <1>2, <1>3, <1>4, <1>7 DEF Leftover, Quiet, Streaming, OpenWith
<1>10. Threads'
  <2> SUFFICES ASSUME setting.isolation = "thread"
               PROVE  Threads'
    BY <1>2 DEF Threads
  <2>1. ASSUME NEW w \in Worker, proc'[w].state \in {"live", "stuck"}, ~proc'[w].dying
        PROVE  FALSE
    <3>1. \E k \in DOMAIN workers : workers[k] = w
      BY <1>1, <1>2, <2>1 DEF Threads
    <3>2. w \in Listed(workers)
      BY <3>1, ConstantsTyped, IsListed
    <3>3. w \in run.awaiting
      BY <1>1, <1>2, <3>2 DEF Threads
    <3> QED
      BY <1>2, <2>1, <3>3
  <2> QED
    BY <1>1, <1>2, <1>3, <2>1 DEF Threads
<1> QED
  BY <1>5, <1>6, <1>8, <1>9, <1>10 DEF ParseInv

\* A failed task is parsed sequentially, divided, or quarantined.
LEMMA RecoveryKeepsBooks ==
  ASSUME PoolTypes, Tiled(todo), Booked, todo # <<>>, ResetDone
  PROVE  /\ Tiled(todo)' /\ Booked' /\ todo' \in Seq(Task) /\ graph' \in [File -> Nat]
         /\ skipped' \in SUBSET File
         /\ graph' # graph => setting.policy = "sequential" /\ todo' = <<>>
<1> DEFINE t == Head(todo)
           r == Retry(t)
<1>1. todo \in Seq(Task) /\ graph \in [File -> Nat] /\ skipped \in SUBSET File
  BY DEF PoolTypes
<1>2. IF setting.policy = "sequential"
        THEN /\ graph' = [f \in File |-> graph[f] + IF f >= t.lo THEN 1 ELSE 0]
             /\ todo' = <<>>
             /\ UNCHANGED skipped
        ELSE /\ todo' = r \o Tail(todo)
             /\ skipped' = IF r = <<>> THEN skipped \union Files(t) ELSE skipped
             /\ UNCHANGED graph
  BY DEF ResetDone
<1> HIDE DEF t, r
<1>3. /\ Tail(todo) \in Seq(Task) /\ Tiled(Tail(todo)) /\ t \in Task /\ t = todo[1]
      /\ \A f \in File : f \in Waiting(Tail(todo)) <=> f \in Waiting(todo) /\ f \notin Files(t)
      /\ \A f \in Files(t) : f \in File /\ f \in Waiting(todo)
      /\ \A f \in File : f >= t.lo => f \in Waiting(todo)
  BY <1>1, TailFacts DEF t
<1>4. 1 \in DOMAIN todo
  BY <1>1
<1>5. t.lo <= t.hi
  BY <1>3, <1>4 DEF Tiled
<1>6. r \in Seq(Task) /\ (r = <<>> \/ Divides(r, t))
  BY <1>3, <1>5, RetryFacts DEF r
<1>7. CASE setting.policy = "sequential"
  <2>1. graph' = [f \in File |-> graph[f] + IF f >= t.lo THEN 1 ELSE 0] /\ todo' = <<>> /\ skipped' = skipped
    BY <1>2, <1>7
  <2>2. DOMAIN todo' = {} /\ todo' \in Seq(Task)
    BY <2>1
  <2>3. Tiled(todo)' /\ \A f \in File : f \notin Waiting(todo)'
    BY <2>1, <2>2 DEF Tiled, Waiting
  <2>4. ASSUME NEW f \in File, f \in Waiting(todo)
        PROVE  f >= t.lo
    <3>1. PICK k \in DOMAIN todo : f \in Files(todo[k])
      BY <2>4 DEF Waiting
    <3>2. todo[k] \in Task /\ k \in Nat /\ 1 <= k
      BY <1>1
    <3>3. f \in Nat /\ todo[k].lo <= f /\ todo[k].lo \in Nat /\ t.lo \in Nat /\ t.hi \in Nat
      BY <1>3, <3>1, <3>2, TaskFacts
    <3>4. CASE k = 1
      BY <1>3, <3>3, <3>4
    <3>5. CASE k # 1
      <4>1. t.hi < todo[k].lo
        BY <1>3, <1>4, <3>2, <3>5 DEF Tiled
      <4> QED
        BY <1>5, <3>3, <4>1
    <3> QED
      BY <3>4, <3>5
  <2>5. \A f \in File : graph'[f] = graph[f] + IF f \in Waiting(todo) THEN 1 ELSE 0
    BY <1>3, <2>1, <2>4
  <2>6. graph' \in [File -> Nat]
    <3>1. \A f \in File : graph'[f] \in Nat
      BY <1>1, <2>5
    <3>2. graph' = [f \in File |-> graph'[f]]
      BY <2>1
    <3> QED
      BY <3>1, <3>2
  <2>7. Booked'
    <3>1. \A f \in File : graph'[f] = IF f \in skipped THEN 0 ELSE 1
      BY <1>1, <2>5 DEF Booked
    <3> QED
      BY <2>1, <2>3, <3>1 DEF Booked
  <2> QED
    BY <1>1, <1>7, <2>1, <2>2, <2>3, <2>6, <2>7
<1>8. CASE setting.policy # "sequential"
  <2>1. /\ todo' = r \o Tail(todo) /\ graph' = graph
        /\ skipped' = IF r = <<>> THEN skipped \union Files(t) ELSE skipped
    BY <1>2, <1>8
  <2>2. CASE r = <<>>
    <3>1. todo' = Tail(todo) /\ skipped' = skipped \union Files(t)
      BY <1>3, <2>1, <2>2
    <3>2. Tiled(todo)' /\ todo' \in Seq(Task) /\ skipped' \in SUBSET File
      BY <1>1, <1>3, <3>1
    <3>3. \A f \in File : f \in Waiting(todo)' <=> f \in Waiting(todo) /\ f \notin Files(t)
      BY <1>3, <3>1
    <3>4. Booked'
      BY <1>3, <2>1, <3>1, <3>3 DEF Booked
    <3> QED
      BY <1>1, <2>1, <3>2, <3>4
  <2>3. CASE r # <<>>
    <3>1. /\ todo' \in Seq(Task) /\ Tiled(todo)' /\ skipped' = skipped
          /\ \A f \in File : f \in Waiting(todo)' <=> f \in Waiting(todo)
      BY <1>1, <1>6, <2>1, <2>3, ReplaceFacts DEF t
    <3>2. Booked'
      BY <2>1, <3>1 DEF Booked
    <3> QED
      BY <1>1, <2>1, <3>1, <3>2
  <2> QED
    BY <2>2, <2>3
<1> QED
  BY <1>7, <1>8

LEMMA ConcatFacts ==
  ASSUME NEW S, NEW s \in Seq(S), NEW r \in Seq(S)
  PROVE  s \o r \in Seq(S) /\ Len(s \o r) = Len(s) + Len(r) /\ Len(s) \in Nat
OBVIOUS

LEMMA ResetKeeps ==
  ASSUME ParseInv, ResetDone
  PROVE  /\ ParseInv'
         /\ graph' # graph => setting.policy = "sequential" /\ todo' = <<>>
<1>1. PoolTypes /\ Tiled(todo) /\ Booked /\ Wired /\ Leftover /\ Quiet /\ Streaming /\ Threads
  BY DEF ParseInv
<1> DEFINE fresh == Spawned(Size)
           left == {[slot |-> i, worker |-> piece[i].worker] : i \in {k \in Slot : piece[k].open}}
<1>2. /\ run.phase = "resetting" /\ \A w \in run.awaiting : proc[w].state = "gone"
      /\ CanSpawn(Size) /\ workers' = workers \o fresh /\ stale' = stale \union left
      /\ piece' = Closed(piece, Slot) /\ UNCHANGED setting
      /\ proc' = [w \in Worker |-> IF w \in ToSet(fresh) THEN Fresh ELSE proc[w]]
      /\ run' = [run EXCEPT !.phase = "idle", !.awaiting = {}]
  BY DEF ResetDone
<1>3. todo # <<>> /\ run.streamed = NoFiles
  BY <1>1, <1>2 DEF Wired
<1>4. /\ Tiled(todo)' /\ Booked' /\ todo' \in Seq(Task) /\ graph' \in [File -> Nat] /\ skipped' \in SUBSET File
      /\ graph' # graph => setting.policy = "sequential" /\ todo' = <<>>
  BY <1>1, <1>3, RecoveryKeepsBooks
<1>5. Size \in Nat \ {0}
  BY ConstantsTyped
<1>6. /\ fresh \in Seq(Worker) /\ DOMAIN fresh = 1..Size /\ Len(fresh) = Size
      /\ \A k \in 1..Size : /\ fresh[k] \in Worker /\ proc[fresh[k]].state = "gone"
                            /\ fresh[k] \notin Listed(workers)
      /\ \A j, k \in 1..Size : fresh[j] = fresh[k] => j = k
  BY <1>1, <1>2, <1>5, SpawnFacts
<1> HIDE DEF fresh
<1>7. \A w : w \in ToSet(fresh) <=> \E k \in 1..Size : fresh[k] = w
  BY <1>6 DEF ToSet
<1>8. \A w : w \in ToSet(fresh) => /\ w \in Worker /\ w # None /\ proc[w].state = "gone"
                                   /\ \A k \in DOMAIN workers : workers[k] # w
  BY <1>6, <1>7, ConstantsTyped, IsListed
<1>9. /\ proc' \in [Worker -> ProcState]
      /\ \A w \in Worker : w \in ToSet(fresh) => proc'[w] = Fresh
      /\ \A w \in Worker : w \notin ToSet(fresh) => proc'[w] = proc[w]
  BY <1>1, <1>2, CommandTypes DEF PoolTypes
<1>10. workers \in Seq(Worker \union {None}) /\ fresh \in Seq(Worker \union {None})
  BY <1>1, <1>6 DEF PoolTypes
<1>11. /\ workers' \in Seq(Worker \union {None})
       /\ \A k \in DOMAIN workers : k \in DOMAIN workers' /\ workers'[k] = workers[k]
       /\ \A m \in 1..Size : Len(workers) + m \in DOMAIN workers' /\ workers'[Len(workers) + m] = fresh[m]
       /\ \A k \in DOMAIN workers' : k \in DOMAIN workers \/ \E m \in 1..Size : k = Len(workers) + m
  <2>1. workers' \in Seq(Worker \union {None}) /\ Len(workers') = Len(workers) + Size /\ Len(workers) \in Nat
    <3> DEFINE S == Worker \union {None}
    <3>1. workers' = workers \o fresh /\ workers \in Seq(S) /\ fresh \in Seq(S) /\ Len(fresh) = Size
      BY <1>2, <1>6, <1>10
    <3> HIDE DEF S
    <3>2. workers' \in Seq(S) /\ Len(workers') = Len(workers) + Len(fresh) /\ Len(workers) \in Nat
      BY <3>1, ConcatFacts
    <3> QED
      BY <3>1, <3>2 DEF S
  <2>2. DOMAIN workers' = 1..(Len(workers) + Size) /\ DOMAIN workers = 1..Len(workers)
    BY <1>10, <2>1
  <2>3. \A k \in DOMAIN workers : k \in DOMAIN workers' /\ workers'[k] = workers[k]
    BY <1>2, <1>5, <1>10, <2>1, <2>2
  <2>4. \A m \in 1..Size : Len(workers) + m \in DOMAIN workers' /\ workers'[Len(workers) + m] = fresh[m]
    BY <1>2, <1>5, <1>6, <1>10, <2>1, <2>2
  <2>5. \A k \in DOMAIN workers' : k \in DOMAIN workers \/ \E m \in 1..Size : k = Len(workers) + m
    <3> SUFFICES ASSUME NEW k \in DOMAIN workers', k \notin DOMAIN workers
                 PROVE  \E m \in 1..Size : k = Len(workers) + m
      OBVIOUS
    <3>1. k - Len(workers) \in 1..Size /\ k = Len(workers) + (k - Len(workers))
      BY <1>5, <2>1, <2>2
    <3> QED
      BY <3>1
  <2> QED
    BY <2>1, <2>3, <2>4, <2>5
<1>12. \A k \in DOMAIN workers' : workers'[k] # None =>
         \/ k \in DOMAIN workers /\ workers'[k] = workers[k] /\ workers[k] \in Worker /\ proc'[workers[k]] = proc[workers[k]]
         \/ /\ workers'[k] \in ToSet(fresh) /\ proc'[workers'[k]] = Fresh
            /\ \E m \in 1..Size : k = Len(workers) + m /\ workers'[k] = fresh[m]
  <2> TAKE k \in DOMAIN workers'
  <2> HAVE workers'[k] # None
  <2>1. CASE k \in DOMAIN workers
    <3>1. workers'[k] = workers[k] /\ workers[k] \in Worker
      BY <1>10, <1>11, <2>1
    <3>2. workers[k] \notin ToSet(fresh)
      BY <1>8, <2>1
    <3> QED
      BY <1>9, <2>1, <3>1, <3>2
  <2>2. CASE k \notin DOMAIN workers
    <3>1. PICK m \in 1..Size : k = Len(workers) + m /\ workers'[k] = fresh[m]
      BY <1>11, <2>2
    <3>2. workers'[k] \in ToSet(fresh) /\ workers'[k] \in Worker
      BY <1>6, <1>7, <3>1
    <3> QED
      BY <1>9, <3>1, <3>2
  <2> QED
    BY <2>1, <2>2
<1>13. piece' \in [Slot -> PieceState] /\ \A i \in Slot : ~piece'[i].open
  BY <1>1, <1>2, ClosedFacts
<1>14. run' \in RunState /\ run'.phase = "idle" /\ run'.streamed = NoFiles
  BY <1>1, <1>2, <1>3 DEF PoolTypes, RunState
<1>15. \A i \in Slot : piece[i].open =>
         /\ piece[i].worker \in Worker /\ proc[piece[i].worker].state # "gone"
         /\ \A k \in DOMAIN workers : workers[k] # piece[i].worker
  BY <1>1, <1>2 DEF Wired
<1>16. \A c \in left : \E i \in Slot : piece[i].open /\ c.slot = i /\ c.worker = piece[i].worker /\ c \in StaleState
                                       /\ c = [slot |-> i, worker |-> piece[i].worker]
  BY <1>15 DEF StaleState
<1> HIDE DEF left
<1>17. PoolTypes'
  <2>1. stale' \in SUBSET StaleState
    BY <1>1, <1>2, <1>16 DEF PoolTypes
  <2> QED
    BY <1>1, <1>2, <1>4, <1>9, <1>11, <1>13, <1>14, <2>1 DEF PoolTypes
<1>18. Wired'
  <2>1. \A i, j \in DOMAIN workers' : workers'[i] = workers'[j] /\ workers'[i] # None => i = j
    <3> SUFFICES ASSUME NEW i \in DOMAIN workers', NEW j \in DOMAIN workers', workers'[i] = workers'[j],
                        workers'[i] # None
                 PROVE  i = j
      OBVIOUS
    <3>1. CASE workers'[i] \in ToSet(fresh)
      <4>1. ~(i \in DOMAIN workers /\ workers'[i] = workers[i]) /\ ~(j \in DOMAIN workers /\ workers'[j] = workers[j])
        BY <1>8, <3>1
      <4>2. PICK m \in 1..Size : i = Len(workers) + m /\ workers'[i] = fresh[m]
        BY <1>12, <4>1
      <4>3. PICK n \in 1..Size : j = Len(workers) + n /\ workers'[j] = fresh[n]
        BY <1>12, <4>1
      <4> QED
        BY <1>6, <4>2, <4>3
    <3>2. CASE workers'[i] \notin ToSet(fresh)
      <4>1. i \in DOMAIN workers /\ workers'[i] = workers[i] /\ j \in DOMAIN workers /\ workers'[j] = workers[j]
        BY <1>12, <3>2
      <4> QED
        BY <1>1, <4>1 DEF Wired
    <3> QED
      BY <3>1, <3>2
  <2> QED
    BY <1>13, <1>14, <2>1 DEF Wired, OpenWith
<1>19. Leftover'
  <2>1. ASSUME NEW c \in stale', c.worker # None
        PROVE  /\ c.worker \in Worker /\ proc[c.worker].state # "gone"
               /\ \A k \in DOMAIN workers : workers[k] # c.worker
    <3>1. CASE c \in stale
      BY <1>1, <2>1, <3>1 DEF Leftover, PoolTypes, StaleState
    <3>2. CASE c \in left
      <4>1. PICK i \in Slot : piece[i].open /\ c.worker = piece[i].worker
        BY <1>16, <3>2
      <4> QED
        BY <1>15, <4>1
    <3> QED
      BY <1>2, <3>1, <3>2
  <2>2. ASSUME NEW c \in stale', c.worker # None
        PROVE  /\ proc'[c.worker].state # "gone"
               /\ \A k \in DOMAIN workers' : workers'[k] # c.worker
    <3>1. c.worker \notin ToSet(fresh)
      BY <1>8, <2>1, <2>2
    <3>2. proc'[c.worker] = proc[c.worker]
      BY <1>9, <2>1, <2>2, <3>1
    <3>3. \A k \in DOMAIN workers' : workers'[k] # c.worker
      BY <1>12, <2>1, <2>2, <3>1
    <3> QED
      BY <2>1, <2>2, <3>2, <3>3
  <2>3. ASSUME NEW c \in stale', NEW d \in stale', c.worker = d.worker, c.worker # None
        PROVE  c = d
    <3>1. CASE c \in stale /\ d \in stale
      BY <1>1, <2>3, <3>1 DEF Leftover
    <3>2. CASE c \in left /\ d \in left
      <4>1. PICK i \in Slot : piece[i].open /\ c = [slot |-> i, worker |-> piece[i].worker] /\ c.worker = piece[i].worker
        BY <1>16, <3>2
      <4>2. PICK j \in Slot : piece[j].open /\ d = [slot |-> j, worker |-> piece[j].worker] /\ d.worker = piece[j].worker
        BY <1>16, <3>2
      <4>3. i = j
        BY <1>1, <2>3, <4>1, <4>2 DEF Wired, OpenWith
      <4> QED
        BY <4>1, <4>2, <4>3
    <3>3. ASSUME NEW e \in stale, NEW g \in left, e.worker = g.worker, e.worker # None
          PROVE  FALSE
      <4>1. PICK i \in Slot : piece[i].open /\ g.worker = piece[i].worker
        BY <1>16
      <4>2. ~OpenWith(i, e.worker)
        BY <1>1, <3>3 DEF Leftover
      <4> QED
        BY <3>3, <4>1, <4>2 DEF OpenWith
    <3> QED
      BY <1>2, <2>3, <3>1, <3>2, <3>3
  <2> QED
    BY <1>13, <2>2, <2>3 DEF Leftover, OpenWith
<1>20. Quiet'
  <2> SUFFICES ASSUME NEW k \in DOMAIN workers', workers'[k] # None
               PROVE  proc'[workers'[k]].cmd.do = "none" /\ proc'[workers'[k]].out = <<>>
    BY DEF Quiet
  <2>1. CASE proc'[workers'[k]] = Fresh
    BY <2>1, CommandTypes
  <2>2. CASE k \in DOMAIN workers /\ workers'[k] = workers[k] /\ proc'[workers[k]] = proc[workers[k]]
    <3>1. \A i \in Slot : ~OpenWith(i, workers[k])
      BY <1>15, <2>2 DEF OpenWith
    <3>2. proc[workers[k]].cmd.do = "none" /\ proc[workers[k]].out = <<>>
      BY <1>1, <2>2, <3>1 DEF Quiet
    <3> QED
      BY <2>2, <3>2
  <2> QED
    BY <1>12, <2>1, <2>2
<1>21. Streaming'
  BY <1>14 DEF Streaming
<1>22. Threads'
  <2> SUFFICES ASSUME setting.isolation = "thread"
               PROVE  Threads'
    BY <1>2 DEF Threads
  <2>1. \A i \in Slot : ~piece[i].open
    BY <1>1, <1>2, <1>15 DEF Threads
  <2>2. stale' = {}
    <3>1. stale = {}
      BY <1>1 DEF Threads
    <3>2. left = {}
      BY <1>16, <2>1
    <3> QED
      BY <1>2, <3>1, <3>2
  <2>3. ASSUME NEW k \in DOMAIN workers', workers'[k] # None
        PROVE  ~proc'[workers'[k]].dying /\ proc'[workers'[k]].state = "live"
    <3>1. CASE proc'[workers'[k]] = Fresh
      BY <3>1, CommandTypes
    <3>2. CASE k \in DOMAIN workers /\ workers'[k] = workers[k] /\ proc'[workers[k]] = proc[workers[k]]
      <4>1. ~proc[workers[k]].dying /\ proc[workers[k]].state = "live"
        BY <1>1, <1>2, <2>3, <3>2 DEF Threads
      <4> QED
        BY <3>2, <4>1
    <3> QED
      BY <1>12, <2>3, <3>1, <3>2
  <2>4. ASSUME NEW w \in Worker, proc'[w].state \in {"live", "stuck"}, ~proc'[w].dying
        PROVE  \E k \in DOMAIN workers' : workers'[k] = w
    <3>1. CASE w \in ToSet(fresh)
      BY <1>7, <1>11, <3>1
    <3>2. CASE w \notin ToSet(fresh)
      <4>1. PICK k \in DOMAIN workers : workers[k] = w
        BY <1>1, <1>9, <2>4, <3>2 DEF Threads
      <4> QED
        BY <1>11, <4>1
    <3> QED
      BY <3>1, <3>2
  <2> QED
    BY <1>13, <1>14, <2>2, <2>3, <2>4 DEF Threads
<1> QED
  BY <1>4, <1>17, <1>18, <1>19, <1>20, <1>21, <1>22 DEF ParseInv

-----------------------------------------------------------------------------
(* The invariant and what it says *)

LEMMA InitFacts == Init => ParseInv
<1> SUFFICES ASSUME Init
             PROVE  ParseInv
  OBVIOUS
<1> DEFINE row == Cut(1, NFiles, Chunk, "whole")
<1>1. row \in Seq(Task) /\ Tiled(row) /\ \A f \in File : f \in Waiting(row)
  BY FirstRow
<1>2. todo = row
  BY DEF Init
<1> HIDE DEF row
<1>3. /\ setting \in [isolation : {"thread", "process"}, policy : {"sequential", "quarantine"},
                      fault : [File -> Faults]]
      /\ workers = [i \in Slot |-> i]
      /\ proc = [w \in Worker |-> IF w \in Slot THEN Fresh ELSE Gone]
      /\ piece = [i \in Slot |-> NoPiece]
      /\ stale = {} /\ graph = NoFiles /\ skipped = {}
      /\ run = [phase |-> "idle", streamed |-> NoFiles, awaiting |-> {}, kills |-> 0]
  BY DEF Init
<1>4. Slot \subseteq Worker /\ Size \in Nat
  BY ParseAssumption DEF Slot, Worker
<1>5. workers \in Seq(Worker \union {None}) /\ DOMAIN workers = Slot /\ \A i \in Slot : workers[i] = i
  <2>1. workers \in [1..Size -> Worker \union {None}]
    BY <1>3, <1>4 DEF Slot
  <2>2. workers \in Seq(Worker \union {None})
    BY <1>4, <2>1
  <2> QED
    BY <1>3, <2>2
<1>6. /\ proc \in [Worker -> ProcState]
      /\ \A w \in Worker : proc[w] = IF w \in Slot THEN Fresh ELSE Gone
  BY <1>3, CommandTypes
<1>7. piece \in [Slot -> PieceState] /\ \A i \in Slot : ~piece[i].open
  BY <1>3, CommandTypes
<1>8. run \in RunState /\ run.phase = "idle" /\ run.streamed = NoFiles
  BY <1>3, CommandTypes DEF RunState
<1>9. graph \in [File -> Nat] /\ \A f \in File : graph[f] = 0
  BY <1>3, CommandTypes
<1>10. PoolTypes
  BY <1>1, <1>2, <1>3, <1>5, <1>6, <1>7, <1>8, <1>9 DEF PoolTypes
<1>11. Tiled(todo) /\ Booked
  BY <1>1, <1>2, <1>3, <1>9 DEF Booked
<1>12. Wired
  BY <1>5, <1>7, <1>8 DEF Wired
<1>13. Leftover /\ Streaming
  BY <1>3, <1>8 DEF Leftover, Streaming
<1>14. Quiet
  <2>1. \A k \in DOMAIN workers : workers[k] \in Worker /\ proc[workers[k]] = Fresh
    BY <1>4, <1>5, <1>6
  <2> QED
    BY <2>1, CommandTypes DEF Quiet
<1>15. Threads
  <2>1. \A k \in DOMAIN workers : workers[k] \in Worker /\ proc[workers[k]] = Fresh
    BY <1>4, <1>5, <1>6
  <2>2. ASSUME NEW w \in Worker, proc[w].state \in {"live", "stuck"}
        PROVE  \E k \in DOMAIN workers : workers[k] = w
    <3>1. w \in Slot
      BY <1>6, <2>2, CommandTypes
    <3> QED
      BY <1>5, <3>1
  <2> QED
    BY <1>3, <1>8, <2>1, <2>2, CommandTypes DEF Threads
<1> QED
  BY <1>10, <1>11, <1>12, <1>13, <1>14, <1>15 DEF ParseInv

LEMMA SameInv == ParseInv /\ UNCHANGED vars => ParseInv'
<1> SUFFICES ASSUME ParseInv, UNCHANGED vars
             PROVE  ParseInv'
  OBVIOUS
<1>1. PoolTypes /\ Tiled(todo) /\ Booked /\ Wired /\ Leftover /\ Quiet /\ Streaming /\ Threads
  BY DEF ParseInv
<1>2. UNCHANGED <<setting, workers, proc, piece, stale, run, todo, graph, skipped>>
  BY DEF vars
<1>3. PoolTypes' /\ Wired' /\ Leftover' /\ Quiet' /\ Threads'
  BY <1>1, <1>2 DEF PoolTypes, Wired, Leftover, Quiet, Threads, OpenWith
<1>4. Tiled(todo)' /\ Booked'
  BY <1>1, <1>2, SameBooks
<1>5. Streaming'
  <2> SUFFICES ASSUME run.phase = "running"
               PROVE  StreamedNow'
    BY <1>2 DEF Streaming
  <2> QED
    BY <1>1, <1>2, SameStream DEF Streaming
<1> QED
  BY <1>3, <1>4, <1>5 DEF ParseInv

\* What a step may do to the graph.
GraphStep ==
  graph' # graph =>
    \/ {f \in File : graph'[f] # graph[f]} = Files(Head(todo)) /\ todo' = Tail(todo)
    \/ setting.policy = "sequential" /\ todo' = <<>>

LEMMA StepFacts == ParseInv /\ [Next]_vars => ParseInv' /\ GraphStep
<1> SUFFICES ASSUME ParseInv, [Next]_vars
             PROVE  ParseInv' /\ GraphStep
  OBVIOUS
<1>1. PoolTypes
  BY DEF ParseInv
<1>2. ASSUME NEW w \in Worker, WorkerRuns(w) \/ WorkerDies(w) \/ WorkerKilled(w)
      PROVE  ParseInv' /\ GraphStep
  <2>1. WorkerMoved(w)
    BY <1>1, <1>2, WorkerMoves
  <2>2. graph' = graph
    BY <2>1 DEF WorkerMoved
  <2> QED
    BY <2>1, <2>2, WorkerKeeps DEF GraphStep
<1>3. ASSUME NEW w \in Worker, OnMessage(w)
      PROVE  ParseInv' /\ GraphStep
  BY <1>3, MessageKeeps DEF GraphStep
<1>4. ASSUME NEW w \in Worker, OnExit(w)
      PROVE  ParseInv' /\ GraphStep
  <2>1. graph' = graph
    BY <1>4 DEF OnExit
  <2> QED
    BY <1>4, <2>1, ExitKeeps DEF GraphStep
<1>5. ASSUME NEW i \in Slot, Watchdog(i)
      PROVE  ParseInv' /\ GraphStep
  <2>1. graph' = graph
    BY <1>5 DEF Watchdog
  <2> QED
    BY <1>5, <2>1, WatchdogKeeps DEF GraphStep
<1>6. ASSUME NEW c \in stale, StaleTimer(c)
      PROVE  ParseInv' /\ GraphStep
  <2>1. graph' = graph
    BY <1>6 DEF StaleTimer
  <2> QED
    BY <1>6, <2>1, TimerKeeps DEF GraphStep
<1>7. ASSUME NEW c \in stale, StaleSettles(c)
      PROVE  ParseInv' /\ GraphStep
  <2>1. graph' = graph
    BY <1>7 DEF StaleSettles
  <2> QED
    BY <1>7, <2>1, SettlesKeeps DEF GraphStep
<1>8. CASE StartDispatch
  <2>1. graph' = graph
    BY <1>8 DEF StartDispatch
  <2> QED
    BY <1>8, <2>1, StartKeeps DEF GraphStep
<1>9. CASE ResetDone
  BY <1>9, ResetKeeps DEF GraphStep
<1>10. CASE Close
  <2>1. graph' = graph
    BY <1>10 DEF Close
  <2> QED
    BY <1>10, <2>1, CloseKeeps DEF GraphStep
<1>11. CASE Closes
  <2>1. graph' = graph
    BY <1>11 DEF Closes
  <2> QED
    BY <1>11, <2>1, ClosesKeeps DEF GraphStep
<1>12. CASE Done \/ UNCHANGED vars
  <2>1. UNCHANGED vars
    BY <1>12 DEF Done
  <2>2. graph' = graph
    BY <2>1 DEF vars
  <2> QED
    BY <2>1, <2>2, SameInv DEF GraphStep
<1> QED
  BY <1>2, <1>3, <1>4, <1>5, <1>6, <1>7, <1>8, <1>9, <1>10, <1>11, <1>12 DEF Next

\* The tasks that wait, the wiring of pieces and workers, and what is streamed and owed
\* fit together in every state.
THEOREM ParseInvHolds == Spec => []ParseInv
<1>1. ParseInv /\ [Next]_vars => ParseInv'
  BY StepFacts
<1> QED
  BY <1>1, InitFacts, PTL DEF Spec

\* Every file is waiting in exactly one task, or in the graph exactly once, or
\* quarantined, through failed dispatches, late messages and recovery.
THEOREM EveryFileAccounted == Spec => []Accounted
<1>1. ParseInv => Accounted
  BY BookedIsAccounted DEF ParseInv
<1> QED
  BY <1>1, ParseInvHolds, PTL

\* "No silent partial results": the graph takes all the files of the task whose
\* dispatch resolved, or all that the sequential parser takes over.
THEOREM NothingPartial == Spec => NoPartialResults
<1>1. ParseInv /\ [Next]_vars => [graph' # graph =>
        \/ {f \in File : graph'[f] # graph[f]} = Files(Head(todo)) /\ todo' = Tail(todo)
        \/ setting.policy = "sequential" /\ todo' = <<>>]_vars
  BY StepFacts DEF GraphStep
<1> QED
  BY <1>1, ParseInvHolds, PTL DEF Spec, NoPartialResults

\* With worker threads, terminate() reaches every worker that runs: one that the
\* array has lost was terminated before.
THEOREM NoWorkerLost == Spec => []NoStrayWorker
<1>1. ParseInv => NoStrayWorker
  <2> SUFFICES ASSUME ParseInv, setting.isolation = "thread", NEW w \in Worker,
                      proc[w].state \in {"live", "stuck"}, ~proc[w].dying
               PROVE  w \in Listed(workers)
    BY DEF NoStrayWorker
  <2>1. \E k \in DOMAIN workers : workers[k] = w
    BY DEF ParseInv, Threads
  <2> QED
    BY <2>1, ConstantsTyped, IsListed
<1> QED
  BY <1>1, ParseInvHolds, PTL

=============================================================================
