-------------------------- MODULE ConnectionPool_proofs --------------------------
(***************************************************************************)
(* Proofs about ConnectionPool for every number of calls, connections and   *)
(* closers.                                                                 *)
(***************************************************************************)
EXTENDS ConnectionPool, DistinctQueues, FiniteSetTheorems

(***************************************************************************)
(* The inductive invariant.  The safety properties are not inductive: that  *)
(* the counter is right after a hand-off rests on the waiter that receives  *)
(* the connection not holding one already, hence on the queue listing       *)
(* exactly the waiting calls, each once.                                    *)
(***************************************************************************)
Used == {held[q] : q \in Holders}

\* The counter and the sizes of the two sets it is compared with.
Accounting ==
  /\ IsFiniteSet(Holders) /\ checkedOut = Cardinality(Holders)
  /\ IsFiniteSet(available) /\ Cardinality(available) + checkedOut <= MaxConns

PhaseMatchesHeld ==
  \A q \in Call : held[q] # NoConn <=> phase[q] \in {"running", "lingering"}

WaitersQueued ==
  /\ Distinct(waiters)
  /\ \A q \in Call : phase[q] = "waiting" <=> Occurs(q, waiters)

DrainInv == draining => waiters # <<>> /\ checkedOut = MaxConns - 1
ClosedInv == closed => closing /\ available = {}

IInv ==
  /\ TypeOK
  /\ Accounting
  /\ ExclusiveUse
  /\ NoConnectionLeak
  /\ PhaseMatchesHeld
  /\ WaitersQueued
  /\ WaitersOnlyWhenBusy
  /\ DrainInv
  /\ ClosedInv
  /\ ClosingHasCloser

-----------------------------------------------------------------------------
\* What PoolAssumption says of the constants used below.
LEMMA ConstantsType == MaxConns \in Nat \ {0} /\ NoConn \notin Conn
BY PoolAssumption

(* What the three ways of changing `held' do to the holders *)

\* A call that holds nothing takes a connection nobody uses.
LEMMA TakeHeld ==
  ASSUME held \in [Call -> Conn \union {NoConn}], NEW q \in Call, NEW c \in Conn,
         held[q] = NoConn, c \notin Used, ExclusiveUse,
         held' = [held EXCEPT ![q] = c]
  PROVE  /\ Holders' = Holders \union {q} /\ q \notin Holders
         /\ Used' = Used \union {c}
         /\ held' \in [Call -> Conn \union {NoConn}]
         /\ \A r, s \in Holders' : held'[r] = held'[s] => r = s
<1>1. c # NoConn
  BY ConstantsType
<1>2. Holders' = Holders \union {q} /\ q \notin Holders
  BY <1>1 DEF Holders
<1>3. \A r \in Holders : held'[r] = held[r] /\ held[r] # c
  BY <1>2 DEF Holders, Used
<1>4. held'[q] = c
  OBVIOUS
<1>5. Used' = Used \union {c}
  BY <1>2, <1>3, <1>4 DEF Used
<1>6. \A r, s \in Holders' : held'[r] = held'[s] => r = s
  BY <1>2, <1>3, <1>4 DEF ExclusiveUse
<1> QED BY <1>2, <1>5, <1>6

\* A call gives its connection up.
LEMMA DropHeld ==
  ASSUME held \in [Call -> Conn \union {NoConn}], NEW q \in Call,
         held[q] # NoConn, ExclusiveUse,
         held' = [held EXCEPT ![q] = NoConn]
  PROVE  /\ Holders' = Holders \ {q} /\ q \in Holders
         /\ Used' = Used \ {held[q]}
         /\ held' \in [Call -> Conn \union {NoConn}]
         /\ \A r, s \in Holders' : held'[r] = held'[s] => r = s
<1>1. Holders' = Holders \ {q} /\ q \in Holders
  BY DEF Holders
<1>2. \A r \in Holders' : held'[r] = held[r] /\ held[r] # held[q]
  BY <1>1 DEF Holders, ExclusiveUse
<1>3. Used' = Used \ {held[q]}
  BY <1>1, <1>2 DEF Used
<1>4. \A r, s \in Holders' : held'[r] = held'[s] => r = s
  BY <1>1, <1>2 DEF ExclusiveUse
<1> QED BY <1>1, <1>3, <1>4

\* A connection moves from one call to another.
LEMMA MoveHeld ==
  ASSUME held \in [Call -> Conn \union {NoConn}], NEW q \in Call, NEW w \in Call,
         held[q] # NoConn, held[w] = NoConn, ExclusiveUse,
         held' = [held EXCEPT ![q] = NoConn, ![w] = held[q]]
  PROVE  /\ Holders' = (Holders \ {q}) \union {w} /\ q \in Holders /\ w \notin Holders
         /\ Used' = Used
         /\ held' \in [Call -> Conn \union {NoConn}]
         /\ \A r, s \in Holders' : held'[r] = held'[s] => r = s
<1>1. Holders' = (Holders \ {q}) \union {w} /\ q \in Holders /\ w \notin Holders
  BY DEF Holders
<1>2. held'[w] = held[q] /\ \A r \in Holders \ {q} : held'[r] = held[r] /\ held[r] # held[q]
  BY <1>1 DEF Holders, ExclusiveUse
<1>3. Used' = Used
  <2>1. Used' = {held'[r] : r \in Holders \ {q}} \union {held'[w]}
    BY <1>1 DEF Used
  <2>2. Used = {held[r] : r \in Holders \ {q}} \union {held[q]}
    BY <1>1 DEF Used
  <2>3. {held'[r] : r \in Holders \ {q}} = {held[r] : r \in Holders \ {q}}
    BY <1>2
  <2> QED BY <1>2, <2>1, <2>2, <2>3
<1>4. \A r, s \in Holders' : held'[r] = held'[s] => r = s
  BY <1>1, <1>2 DEF ExclusiveUse
<1> QED BY <1>1, <1>3, <1>4

\* The bound of the counter follows from the bookkeeping.
LEMMA CheckedOutBound ==
  ASSUME NEW H, NEW A, IsFiniteSet(H), IsFiniteSet(A),
         Cardinality(A) + Cardinality(H) <= MaxConns
  PROVE  Cardinality(H) \in 0..MaxConns /\ Cardinality(A) \in 0..MaxConns
<1>1. Cardinality(H) \in Nat /\ Cardinality(A) \in Nat
  BY FS_CardinalityType
<1> QED BY <1>1, ConstantsType
-----------------------------------------------------------------------------
(* Initial states *)

\* A freshly registered entry (end of doInitLbug) satisfies the invariant.
THEOREM InitIInv == Init => IInv
<1> SUFFICES ASSUME Init PROVE IInv
  OBVIOUS
<1>1. Holders = {} /\ Used = {}
  BY DEF Init, Holders, Used
<1>2. waiters \in Seq(Call) /\ Distinct(waiters) /\ \A q : ~Occurs(q, waiters)
  BY EmptySeq DEF Init, Distinct, Occurs
<1>3. Accounting
  <2>1. IsFiniteSet(available) /\ Cardinality(available) = MaxConns /\ checkedOut = 0
    BY DEF Init
  <2>2. IsFiniteSet(Holders) /\ Cardinality(Holders) = 0
    BY <1>1, FS_EmptySet
  <2> QED BY <2>1, <2>2, ConstantsType DEF Accounting
<1> QED
  BY <1>1, <1>2, <1>3, CheckedOutBound
     DEF Init, IInv, TypeOK, Accounting, Phase, ExclusiveUse, NoConnectionLeak, Used, PhaseMatchesHeld,
         WaitersQueued, WaitersOnlyWhenBusy, DrainInv, ClosedInv, ClosingHasCloser

-----------------------------------------------------------------------------
(* Steps of a call *)

\* checkout, fast path.
LEMMA CheckoutAvailableStep ==
  ASSUME IInv, ~draining, NEW q \in Call, CheckoutAvailable(q)
  PROVE  IInv'
<1> USE DEF IInv
<1>1. PICK c \in available : available' = available \ {c} /\ Take(q, c)
  BY DEF CheckoutAvailable
<1>2. /\ phase' = [phase EXCEPT ![q] = "running"] /\ held' = [held EXCEPT ![q] = c]
      /\ phase[q] = "idle" /\ Usable /\ checkedOut' = checkedOut + 1
      /\ UNCHANGED <<waiters, closing, closed, open, closers, draining>>
  BY <1>1 DEF CheckoutAvailable, Take
<1>3. held[q] = NoConn /\ c \notin Used /\ c \in Conn
  BY <1>2 DEF PhaseMatchesHeld, ExclusiveUse, Used, TypeOK
<1>4. /\ Holders' = Holders \union {q} /\ q \notin Holders
      /\ Used' = Used \union {c}
      /\ held' \in [Call -> Conn \union {NoConn}]
      /\ \A r, s \in Holders' : held'[r] = held'[s] => r = s
  BY <1>2, <1>3, TakeHeld DEF TypeOK
<1>5. Accounting'
  <2>1. IsFiniteSet(available') /\ Cardinality(available') = Cardinality(available) - 1
    BY <1>1, FS_RemoveElement DEF Accounting
  <2>2. IsFiniteSet(Holders') /\ Cardinality(Holders') = Cardinality(Holders) + 1
    BY <1>4, FS_AddElement DEF Accounting
  <2> QED BY <1>2, <2>1, <2>2, CheckedOutBound DEF Accounting, TypeOK
<1>6. waiters = <<>>
  BY <1>1 DEF WaitersOnlyWhenBusy
<1>7. WaitersQueued'
  BY <1>2 DEF WaitersQueued, TypeOK
<1>8. ExclusiveUse' /\ NoConnectionLeak'
  BY <1>1, <1>2, <1>3, <1>4 DEF ExclusiveUse, NoConnectionLeak, Used
<1>9. PhaseMatchesHeld'
  BY <1>2, <1>3, ConstantsType DEF PhaseMatchesHeld, TypeOK
<1>10. TypeOK'
  BY <1>1, <1>2, <1>4, <1>5, CheckedOutBound DEF TypeOK, Phase, Accounting
<1> QED
  BY <1>2, <1>5, <1>6, <1>7, <1>8, <1>9, <1>10
     DEF WaitersOnlyWhenBusy, DrainInv, ClosedInv, ClosingHasCloser, Usable

\* checkout at capacity.
LEMMA CheckoutQueuesStep ==
  ASSUME IInv, ~draining, NEW q \in Call, CheckoutQueues(q)
  PROVE  IInv'
<1> USE DEF IInv
<1>1. /\ phase[q] = "idle" /\ Usable /\ available = {} /\ TotalConns >= MaxConns
      /\ waiters' = Append(waiters, q) /\ phase' = [phase EXCEPT ![q] = "waiting"]
      /\ UNCHANGED <<available, checkedOut, closing, closed, open, held, closers, draining>>
  BY DEF CheckoutQueues
<1>2. ~Occurs(q, waiters)
  BY <1>1 DEF WaitersQueued
<1>3. /\ waiters' \in Seq(Call) /\ Distinct(waiters')
      /\ \A r : Occurs(r, waiters') <=> r = q \/ Occurs(r, waiters)
  BY <1>1, <1>2, AppendQueue DEF WaitersQueued, TypeOK
<1>4. checkedOut = MaxConns
  <2>1. Cardinality(available) = 0
    BY <1>1, FS_EmptySet
  <2> QED BY <1>1, <2>1, ConstantsType DEF TotalConns, TypeOK
<1>5. Holders' = Holders /\ Used' = Used
  BY <1>1 DEF Holders, Used
<1>6. TypeOK' /\ PhaseMatchesHeld' /\ WaitersQueued'
  BY <1>1, <1>3 DEF TypeOK, Phase, PhaseMatchesHeld, WaitersQueued
<1> QED
  BY <1>1, <1>4, <1>5, <1>6
     DEF Accounting, ExclusiveUse, NoConnectionLeak, Used, WaitersOnlyWhenBusy, Usable,
         DrainInv, ClosedInv, ClosingHasCloser

\* checkout with connections missing.
LEMMA CheckoutThrowsStep ==
  ASSUME IInv, ~draining, NEW q \in Call, CheckoutThrows(q)
  PROVE  IInv'
<1> USE DEF IInv
<1>1. UNCHANGED vars
  BY DEF CheckoutThrows
<1>2. Holders' = Holders
  BY <1>1 DEF Holders, vars
<1> QED
  BY <1>1, <1>2
     DEF vars, entryVars, TypeOK, Accounting, ExclusiveUse, NoConnectionLeak, PhaseMatchesHeld,
         WaitersQueued, WaitersOnlyWhenBusy, Usable, DrainInv, ClosedInv, ClosingHasCloser

\* The waiter's timer.
LEMMA WaiterTimeoutStep ==
  ASSUME IInv, ~draining, NEW q \in Call, WaiterTimeout(q)
  PROVE  IInv'
<1> USE DEF IInv
<1>1. PICK i \in DOMAIN waiters : waiters[i] = q /\ waiters' = RemoveAt(waiters, i)
  BY DEF WaiterTimeout
<1>2. /\ phase' = [phase EXCEPT ![q] = "idle"]
      /\ UNCHANGED <<available, checkedOut, closing, closed, open, held, closers, draining>>
  BY DEF WaiterTimeout
<1>3. /\ waiters' \in Seq(Call) /\ Distinct(waiters')
      /\ \A r : Occurs(r, waiters') <=> r # q /\ Occurs(r, waiters)
  BY <1>1, RemoveAtQueue DEF WaitersQueued, TypeOK
<1>4. waiters # <<>> /\ phase[q] = "waiting"
  BY <1>1 DEF WaitersQueued, Occurs
<1>5. Holders' = Holders
  BY <1>2 DEF Holders
<1>6. TypeOK' /\ PhaseMatchesHeld' /\ WaitersQueued'
  BY <1>2, <1>3, <1>4 DEF TypeOK, Phase, PhaseMatchesHeld, WaitersQueued
<1> QED
  BY <1>2, <1>4, <1>5, <1>6
     DEF Accounting, ExclusiveUse, NoConnectionLeak, WaitersOnlyWhenBusy, Usable, DrainInv,
         ClosedInv, ClosingHasCloser

-----------------------------------------------------------------------------
(* A query ends *)

\* checkin to an entry that is closing or closed.
LEMMA ReturnToClosedStep ==
  ASSUME IInv, ~draining, NEW q \in Call, phase[q] = "running", ReturnToClosed(q),
         UNCHANGED <<closing, closed, closers, draining>>
  PROVE  IInv'
<1> USE DEF IInv
<1>1. /\ ~Usable /\ checkedOut' = checkedOut - 1 /\ open' = open \ {held[q]}
      /\ phase' = [phase EXCEPT ![q] = "idle"] /\ held' = [held EXCEPT ![q] = NoConn]
      /\ UNCHANGED <<available, waiters>>
  BY DEF ReturnToClosed
<1>2. held[q] # NoConn
  BY DEF PhaseMatchesHeld
<1>3. /\ Holders' = Holders \ {q} /\ q \in Holders
      /\ Used' = Used \ {held[q]}
      /\ held' \in [Call -> Conn \union {NoConn}]
      /\ \A r, s \in Holders' : held'[r] = held'[s] => r = s
  BY <1>1, <1>2, DropHeld DEF TypeOK
<1>4. Accounting'
  <2>1. IsFiniteSet(Holders') /\ Cardinality(Holders') = Cardinality(Holders) - 1
    BY <1>3, FS_RemoveElement DEF Accounting
  <2>2. Cardinality(Holders) \in Nat /\ Cardinality(available) \in Nat
    BY FS_CardinalityType DEF Accounting
  <2> QED BY <1>1, <2>1, <2>2, ConstantsType DEF Accounting
<1>5. ExclusiveUse' /\ NoConnectionLeak'
  BY <1>1, <1>3 DEF ExclusiveUse, NoConnectionLeak, Used
<1>6. PhaseMatchesHeld' /\ WaitersQueued'
  BY <1>1 DEF PhaseMatchesHeld, WaitersQueued, TypeOK
<1>7. TypeOK'
  BY <1>1, <1>3, <1>4, CheckedOutBound DEF TypeOK, Phase, Accounting
<1>8. waiters = <<>>
  BY <1>1 DEF WaitersOnlyWhenBusy
<1> QED
  BY <1>1, <1>4, <1>5, <1>6, <1>7, <1>8
     DEF WaitersOnlyWhenBusy, DrainInv, ClosedInv, ClosingHasCloser

\* checkin with a waiter.
LEMMA HandOffStep ==
  ASSUME IInv, ~draining, NEW q \in Call, phase[q] = "running", HandOff(q),
         UNCHANGED <<closing, closed, closers, draining>>
  PROVE  IInv'
<1> USE DEF IInv
<1> DEFINE w == Head(waiters)
<1>1. /\ Usable /\ waiters # <<>> /\ waiters' = Tail(waiters)
      /\ phase' = [phase EXCEPT ![q] = "idle", ![w] = "running"]
      /\ held' = [held EXCEPT ![q] = NoConn, ![w] = held[q]]
      /\ UNCHANGED <<available, checkedOut, open>>
  BY DEF HandOff
<1>2. /\ w \in Call /\ Occurs(w, waiters)
      /\ Tail(waiters) \in Seq(Call) /\ Distinct(Tail(waiters))
      /\ \A r : Occurs(r, Tail(waiters)) <=> r # w /\ Occurs(r, waiters)
  BY <1>1, TailQueue DEF WaitersQueued, TypeOK
<1> HIDE DEF w
<1>3. held[q] # NoConn /\ held[w] = NoConn /\ phase[w] = "waiting" /\ w # q
  BY <1>2 DEF PhaseMatchesHeld, WaitersQueued
<1>4. /\ Holders' = (Holders \ {q}) \union {w} /\ q \in Holders /\ w \notin Holders
      /\ Used' = Used
      /\ held' \in [Call -> Conn \union {NoConn}]
      /\ \A r, s \in Holders' : held'[r] = held'[s] => r = s
  BY <1>1, <1>2, <1>3, MoveHeld DEF TypeOK
<1>5. Accounting'
  <2>1. /\ IsFiniteSet(Holders \ {q}) /\ w \notin Holders \ {q}
        /\ Cardinality(Holders \ {q}) = Cardinality(Holders) - 1
    BY <1>4, FS_RemoveElement DEF Accounting
  <2>2. IsFiniteSet(Holders') /\ Cardinality(Holders') = Cardinality(Holders)
    <3>1. /\ IsFiniteSet(Holders')
          /\ Cardinality(Holders') = Cardinality(Holders \ {q}) + 1
      BY <1>4, <2>1, FS_AddElement
    <3> QED BY <2>1, <3>1, FS_CardinalityType DEF Accounting
  <2> QED BY <1>1, <2>2 DEF Accounting
<1>6. ExclusiveUse' /\ NoConnectionLeak'
  <2>1. Used \intersect available = {} /\ open = available \union Used
    BY DEF ExclusiveUse, NoConnectionLeak, Used
  <2>2. \A r \in Holders' : held'[r] \in Used'
    BY DEF Used
  <2>3. open' = available' \union Used'
    BY <1>1, <1>4, <2>1
  <2>4. ExclusiveUse'
    <3>1. available' = available /\ Used' = Used
      BY <1>1, <1>4
    <3>2. \A r \in Holders' : held'[r] \notin available'
      BY <2>1, <2>2, <3>1
    <3> QED BY <1>4, <3>2 DEF ExclusiveUse
  <2> QED BY <2>3, <2>4 DEF NoConnectionLeak, Used
<1>7. PhaseMatchesHeld' /\ WaitersQueued'
  <2>1. /\ phase'[q] = "idle" /\ phase'[w] = "running"
        /\ \A r \in Call \ {q, w} : phase'[r] = phase[r] /\ held'[r] = held[r]
        /\ held'[q] = NoConn /\ held'[w] = held[q]
    <3>1. phase \in [Call -> Phase] /\ held \in [Call -> Conn \union {NoConn}]
      BY DEF TypeOK
    <3>2. /\ phase'[q] = "idle" /\ phase'[w] = "running"
          /\ \A r \in Call \ {q, w} : phase'[r] = phase[r]
      BY <1>1, <1>2, <1>3, <3>1
    <3>3. /\ held'[q] = NoConn /\ held'[w] = held[q]
          /\ \A r \in Call \ {q, w} : held'[r] = held[r]
      BY <1>1, <1>2, <1>3, <3>1
    <3> QED BY <3>2, <3>3
  <2>2. PhaseMatchesHeld'
    BY <1>3, <2>1 DEF PhaseMatchesHeld
  <2>3. ~Occurs(q, waiters)
    BY DEF WaitersQueued
  <2>4. WaitersQueued'
    BY <1>1, <1>2, <2>1, <2>3 DEF WaitersQueued
  <2> QED BY <2>2, <2>4
<1>8. TypeOK'
  BY <1>1, <1>2, <1>4 DEF TypeOK, Phase
<1> QED
  BY <1>1, <1>5, <1>6, <1>7, <1>8
     DEF WaitersOnlyWhenBusy, Usable, DrainInv, ClosedInv, ClosingHasCloser

\* checkin without waiters.
LEMMA ReturnToAvailableStep ==
  ASSUME IInv, ~draining, NEW q \in Call, phase[q] = "running", ReturnToAvailable(q),
         UNCHANGED <<closing, closed, closers, draining>>
  PROVE  IInv'
<1> USE DEF IInv
<1>1. /\ Usable /\ waiters = <<>> /\ checkedOut' = checkedOut - 1
      /\ available' = available \union {held[q]}
      /\ phase' = [phase EXCEPT ![q] = "idle"] /\ held' = [held EXCEPT ![q] = NoConn]
      /\ UNCHANGED <<waiters, open>>
  BY DEF ReturnToAvailable
<1>2. held[q] # NoConn
  BY DEF PhaseMatchesHeld
<1>3. /\ Holders' = Holders \ {q} /\ q \in Holders
      /\ Used' = Used \ {held[q]}
      /\ held' \in [Call -> Conn \union {NoConn}]
      /\ \A r, s \in Holders' : held'[r] = held'[s] => r = s
  BY <1>1, <1>2, DropHeld DEF TypeOK
<1>4. held[q] \in Conn /\ held[q] \notin available
  BY <1>2, <1>3 DEF TypeOK, ExclusiveUse
<1>5. Accounting'
  <2>1. IsFiniteSet(Holders') /\ Cardinality(Holders') = Cardinality(Holders) - 1
    BY <1>3, FS_RemoveElement DEF Accounting
  <2>2. IsFiniteSet(available') /\ Cardinality(available') = Cardinality(available) + 1
    BY <1>1, <1>4, FS_AddElement DEF Accounting
  <2> QED BY <1>1, <2>1, <2>2, CheckedOutBound DEF Accounting
<1>6. ExclusiveUse' /\ NoConnectionLeak'
  BY <1>1, <1>3 DEF ExclusiveUse, NoConnectionLeak, Used
<1>7. PhaseMatchesHeld' /\ WaitersQueued'
  BY <1>1 DEF PhaseMatchesHeld, WaitersQueued, TypeOK
<1>8. TypeOK'
  BY <1>1, <1>3, <1>4, <1>5, CheckedOutBound DEF TypeOK, Phase, Accounting
<1> QED
  BY <1>1, <1>5, <1>6, <1>7, <1>8
     DEF WaitersOnlyWhenBusy, Usable, DrainInv, ClosedInv, ClosingHasCloser

\* checkin.
LEMMA QueryEndsStep ==
  ASSUME IInv, ~draining, NEW q \in Call, QueryEnds(q)
  PROVE  IInv'
<1>1. phase[q] = "running" /\ UNCHANGED <<closing, closed, closers, draining>>
  BY DEF QueryEnds
<1>2. CASE ReturnToClosed(q)
  BY <1>1, <1>2, ReturnToClosedStep
<1>3. CASE HandOff(q)
  BY <1>1, <1>3, HandOffStep
<1>4. CASE ReturnToAvailable(q)
  BY <1>1, <1>4, ReturnToAvailableStep
<1> QED BY <1>2, <1>3, <1>4 DEF QueryEnds

-----------------------------------------------------------------------------
(* Timeouts and retirement *)

\* withTimeout rejects; the connection is not returned yet.
LEMMA QueryTimeoutStep ==
  ASSUME IInv, ~draining, NEW q \in Call, QueryTimeout(q)
  PROVE  IInv'
<1> USE DEF IInv
<1>1. /\ phase[q] = "running" /\ phase' = [phase EXCEPT ![q] = "lingering"]
      /\ UNCHANGED <<entryVars, open, held, closers, draining>>
  BY DEF QueryTimeout
<1>2. Holders' = Holders
  BY <1>1 DEF Holders
<1>3. TypeOK' /\ PhaseMatchesHeld' /\ WaitersQueued'
  BY <1>1 DEF entryVars, TypeOK, Phase, PhaseMatchesHeld, WaitersQueued
<1> QED
  BY <1>1, <1>2, <1>3
     DEF entryVars, Accounting, ExclusiveUse, NoConnectionLeak, WaitersOnlyWhenBusy, Usable,
         DrainInv, ClosedInv, ClosingHasCloser

\* retireConnection up to its loop.
LEMMA RetireStep ==
  ASSUME IInv, ~draining, NEW q \in Call, Retire(q)
  PROVE  IInv'
<1> USE DEF IInv
<1>1. /\ phase[q] = "lingering" /\ checkedOut' = checkedOut - 1 /\ open' = open \ {held[q]}
      /\ phase' = [phase EXCEPT ![q] = "idle"] /\ held' = [held EXCEPT ![q] = NoConn]
      /\ draining' = (Usable /\ waiters # <<>>)
      /\ UNCHANGED <<available, waiters, closing, closed, closers>>
  BY DEF Retire
<1>2. held[q] # NoConn
  BY <1>1 DEF PhaseMatchesHeld
<1>3. /\ Holders' = Holders \ {q} /\ q \in Holders
      /\ Used' = Used \ {held[q]}
      /\ held' \in [Call -> Conn \union {NoConn}]
      /\ \A r, s \in Holders' : held'[r] = held'[s] => r = s
  BY <1>1, <1>2, DropHeld DEF TypeOK
<1>4. Accounting'
  <2>1. IsFiniteSet(Holders') /\ Cardinality(Holders') = Cardinality(Holders) - 1
    BY <1>3, FS_RemoveElement DEF Accounting
  <2>2. Cardinality(Holders) \in Nat /\ Cardinality(available) \in Nat
    BY FS_CardinalityType DEF Accounting
  <2> QED BY <1>1, <2>1, <2>2, ConstantsType DEF Accounting
<1>5. ExclusiveUse' /\ NoConnectionLeak'
  BY <1>1, <1>3 DEF ExclusiveUse, NoConnectionLeak, Used
<1>6. PhaseMatchesHeld' /\ WaitersQueued'
  BY <1>1 DEF PhaseMatchesHeld, WaitersQueued, TypeOK
<1>7. TypeOK'
  BY <1>1, <1>3, <1>4, CheckedOutBound DEF TypeOK, Phase, Accounting
<1>8. WaitersOnlyWhenBusy' /\ DrainInv'
  BY <1>1, ConstantsType DEF WaitersOnlyWhenBusy, DrainInv, Usable
<1> QED
  BY <1>1, <1>4, <1>5, <1>6, <1>7, <1>8 DEF ClosedInv, ClosingHasCloser

\* The loop of retireConnection creates a connection for a waiter.
LEMMA DrainCreatesStep ==
  ASSUME IInv, draining, DrainCreates
  PROVE  IInv'
<1> USE DEF IInv
<1> DEFINE w == Head(waiters)
<1>1. PICK c \in Conn \ open : open' = open \union {c} /\ Take(w, c)
  BY DEF DrainCreates
<1>2. /\ waiters # <<>> /\ checkedOut = MaxConns - 1 /\ checkedOut' = checkedOut + 1
      /\ waiters' = Tail(waiters) /\ draining' = DrainGoesOn
      /\ phase' = [phase EXCEPT ![w] = "running"] /\ held' = [held EXCEPT ![w] = c]
      /\ UNCHANGED <<available, closing, closed, closers>>
  BY <1>1 DEF DrainCreates, DrainInv, Take
<1>3. /\ w \in Call /\ Occurs(w, waiters)
      /\ Tail(waiters) \in Seq(Call) /\ Distinct(Tail(waiters))
      /\ \A r : Occurs(r, Tail(waiters)) <=> r # w /\ Occurs(r, waiters)
  BY <1>2, TailQueue DEF WaitersQueued, TypeOK
<1> HIDE DEF w
<1>4. held[w] = NoConn /\ c \in Conn /\ c \notin Used /\ c \notin available
  BY <1>1, <1>3 DEF PhaseMatchesHeld, WaitersQueued, NoConnectionLeak, Used
<1>5. /\ Holders' = Holders \union {w} /\ w \notin Holders
      /\ Used' = Used \union {c}
      /\ held' \in [Call -> Conn \union {NoConn}]
      /\ \A r, s \in Holders' : held'[r] = held'[s] => r = s
  BY <1>2, <1>3, <1>4, TakeHeld DEF TypeOK
<1>6. available = {} /\ Cardinality(available) = 0 /\ Usable
  BY <1>2, FS_EmptySet DEF WaitersOnlyWhenBusy
<1>7. Accounting' /\ checkedOut' = MaxConns
  <2>1. IsFiniteSet(Holders') /\ Cardinality(Holders') = Cardinality(Holders) + 1
    BY <1>5, FS_AddElement DEF Accounting
  <2>2. checkedOut' = MaxConns
    BY <1>2, ConstantsType
  <2>3. checkedOut' = Cardinality(Holders')
    BY <1>2, <2>1 DEF Accounting
  <2>4. IsFiniteSet(available') /\ Cardinality(available') = 0
    BY <1>2, <1>6 DEF Accounting
  <2> QED BY <2>1, <2>2, <2>3, <2>4, ConstantsType DEF Accounting
<1>8. draining' = FALSE
  <2>1. draining' = (waiters' # <<>> /\ Cardinality(available) + checkedOut' < MaxConns)
    BY <1>2 DEF DrainGoesOn
  <2>2. ~(Cardinality(available) + checkedOut' < MaxConns)
    BY <1>6, <1>7, ConstantsType
  <2> QED BY <2>1, <2>2
<1>9. ExclusiveUse' /\ NoConnectionLeak'
  BY <1>1, <1>2, <1>4, <1>5 DEF ExclusiveUse, NoConnectionLeak, Used
<1>10. PhaseMatchesHeld' /\ WaitersQueued'
  BY <1>2, <1>3, <1>4, ConstantsType DEF PhaseMatchesHeld, WaitersQueued, TypeOK
<1>11. TypeOK'
  <2>1. phase' \in [Call -> Phase]
    BY <1>2 DEF TypeOK, Phase
  <2>2. checkedOut' \in 0..MaxConns /\ open' \subseteq Conn
    BY <1>1, <1>7, ConstantsType DEF TypeOK
  <2>3. waiters' \in Seq(Call)
    BY <1>2, <1>3
  <2> QED BY <1>2, <1>5, <1>8, <2>1, <2>2, <2>3 DEF TypeOK
<1> QED
  BY <1>2, <1>6, <1>7, <1>8, <1>9, <1>10, <1>11
     DEF WaitersOnlyWhenBusy, Usable, DrainInv, ClosedInv, ClosingHasCloser

\* The loop of retireConnection fails to create one.
LEMMA DrainRejectsStep ==
  ASSUME IInv, draining, DrainRejects
  PROVE  IInv'
<1> USE DEF IInv
<1> DEFINE w == Head(waiters)
<1>1. /\ waiters # <<>> /\ checkedOut = MaxConns - 1 /\ checkedOut' = checkedOut
      /\ waiters' = Tail(waiters) /\ draining' = DrainGoesOn
      /\ phase' = [phase EXCEPT ![w] = "idle"]
      /\ UNCHANGED <<available, closing, closed, open, held, closers>>
  BY DEF DrainRejects, DrainInv
<1>2. /\ w \in Call /\ Occurs(w, waiters)
      /\ Tail(waiters) \in Seq(Call) /\ Distinct(Tail(waiters))
      /\ \A r : Occurs(r, Tail(waiters)) <=> r # w /\ Occurs(r, waiters)
  BY <1>1, TailQueue DEF WaitersQueued, TypeOK
<1> HIDE DEF w
<1>3. Holders' = Holders
  BY <1>1 DEF Holders
<1>4. available = {} /\ Cardinality(available) = 0 /\ Usable
  BY <1>1, FS_EmptySet DEF WaitersOnlyWhenBusy
<1>5. draining' = (waiters' # <<>>)
  BY <1>1, <1>4, ConstantsType DEF DrainGoesOn
<1>6. PhaseMatchesHeld' /\ WaitersQueued' /\ phase' \in [Call -> Phase]
  BY <1>1, <1>2 DEF PhaseMatchesHeld, WaitersQueued, TypeOK, Phase
<1>7. TypeOK'
  BY <1>1, <1>2, <1>5, <1>6 DEF TypeOK
<1> QED
  BY <1>1, <1>3, <1>4, <1>5, <1>6, <1>7
     DEF Accounting, ExclusiveUse, NoConnectionLeak, WaitersOnlyWhenBusy, Usable, DrainInv,
         ClosedInv, ClosingHasCloser

-----------------------------------------------------------------------------
(* Closing *)

\* Rejecting all waiters keeps the queue and the phases in step.
LEMMA RejectWaitersEffect ==
  ASSUME IInv, RejectWaiters
  PROVE  /\ waiters' = <<>> /\ waiters' \in Seq(Call)
         /\ phase' \in [Call -> Phase]
         /\ WaitersQueued'
         /\ held' = held => PhaseMatchesHeld'
<1> USE DEF IInv
<1>1. waiters' = <<>> /\ waiters' \in Seq(Call) /\ DOMAIN waiters' = {}
  BY EmptySeq DEF RejectWaiters
<1>2. phase' = [q \in Call |-> IF phase[q] = "waiting" THEN "idle" ELSE phase[q]]
  BY DEF RejectWaiters
<1>3. phase' \in [Call -> Phase] /\ \A q \in Call : phase'[q] # "waiting"
  BY <1>2 DEF TypeOK, Phase
<1>4. WaitersQueued'
  BY <1>1, <1>3 DEF WaitersQueued, Distinct, Occurs
<1>5. held' = held => PhaseMatchesHeld'
  BY <1>2 DEF PhaseMatchesHeld
<1> QED BY <1>1, <1>3, <1>4, <1>5

\* closeOneWhenIdle up to its first poll.
LEMMA CloseStartStep ==
  ASSUME IInv, ~draining, NEW k \in Closer, CloseStart(k)
  PROVE  IInv'
<1> USE DEF IInv
<1>1. /\ ~closed /\ closing' = TRUE /\ RejectWaiters /\ closers' = closers \union {k}
      /\ UNCHANGED <<available, checkedOut, closed, open, held, draining>>
  BY DEF CloseStart
<1>2. /\ waiters' = <<>> /\ waiters' \in Seq(Call) /\ phase' \in [Call -> Phase]
      /\ WaitersQueued' /\ PhaseMatchesHeld'
  BY <1>1, RejectWaitersEffect
<1>3. Holders' = Holders
  BY <1>1 DEF Holders
<1>4. TypeOK'
  BY <1>1, <1>2 DEF TypeOK
<1> QED
  BY <1>1, <1>2, <1>3, <1>4
     DEF Accounting, ExclusiveUse, NoConnectionLeak, WaitersOnlyWhenBusy, DrainInv, ClosedInv,
         ClosingHasCloser

\* closeOne, whoever calls it.
LEMMA CloseOneStep ==
  ASSUME IInv, ~draining, CloseOne, closers' \subseteq closers
  PROVE  IInv'
<1> USE DEF IInv
<1>1. /\ closed' = TRUE /\ closing' = TRUE /\ RejectWaiters
      /\ open' = open \ available /\ available' = {}
      /\ UNCHANGED <<checkedOut, held, draining>>
  BY DEF CloseOne
<1>2. /\ waiters' = <<>> /\ waiters' \in Seq(Call) /\ phase' \in [Call -> Phase]
      /\ WaitersQueued' /\ PhaseMatchesHeld'
  BY <1>1, RejectWaitersEffect
<1>3. Holders' = Holders
  BY <1>1 DEF Holders
<1>4. Accounting'
  <2>1. Cardinality({}) = 0 /\ IsFiniteSet({})
    BY FS_EmptySet
  <2>2. checkedOut \in Nat /\ Cardinality(available) \in Nat
    BY FS_CardinalityType DEF Accounting, TypeOK
  <2> QED BY <1>1, <1>3, <2>1, <2>2, ConstantsType DEF Accounting
<1>5. TypeOK'
  BY <1>1, <1>2 DEF TypeOK
<1>6. ExclusiveUse' /\ NoConnectionLeak'
  BY <1>1, <1>3 DEF ExclusiveUse, NoConnectionLeak
<1> QED
  BY <1>1, <1>2, <1>4, <1>5, <1>6 DEF WaitersOnlyWhenBusy, DrainInv, ClosedInv, ClosingHasCloser

\* closeOneWhenIdle finds nothing checked out.
LEMMA ClosePollStep ==
  ASSUME IInv, ~draining, NEW k \in Closer, ClosePoll(k)
  PROVE  IInv'
<1>1. checkedOut = 0 /\ closers' = closers \ {k}
  BY DEF ClosePoll
<1>2. CASE ~closed
  <2>1. CloseOne
    BY <1>2 DEF ClosePoll
  <2> QED BY <1>1, <2>1, CloseOneStep
<1>3. CASE closed
  <2> USE DEF IInv
  <2>1. UNCHANGED <<entryVars, open, phase, held, draining>>
    BY <1>3 DEF ClosePoll
  <2>2. Holders' = Holders
    BY <2>1 DEF Holders
  <2>3. TypeOK'
    BY <1>1, <2>1 DEF entryVars, TypeOK
  <2>4. Accounting' /\ ExclusiveUse' /\ NoConnectionLeak'
    BY <2>1, <2>2 DEF entryVars, Accounting, ExclusiveUse, NoConnectionLeak
  <2>5. PhaseMatchesHeld' /\ WaitersQueued' /\ WaitersOnlyWhenBusy'
    BY <2>1 DEF entryVars, PhaseMatchesHeld, WaitersQueued, WaitersOnlyWhenBusy, Usable
  <2> QED
    BY <1>3, <2>1, <2>3, <2>4, <2>5 DEF entryVars, DrainInv, ClosedInv, ClosingHasCloser
<1> QED BY <1>2, <1>3

\* closeOneWhenIdle gives up.
LEMMA CloseTimeoutStep ==
  ASSUME IInv, ~draining, NEW k \in Closer, CloseTimeout(k)
  PROVE  IInv'
<1> USE DEF IInv
<1>1. /\ checkedOut > 0 /\ closers' = closers \ {k} /\ closing' = closed
      /\ UNCHANGED <<available, checkedOut, waiters, closed, open, phase, held, draining>>
  BY DEF CloseTimeout
<1>2. Holders' = Holders
  BY <1>1 DEF Holders
<1> QED
  BY <1>1, <1>2
     DEF TypeOK, Accounting, ExclusiveUse, NoConnectionLeak, PhaseMatchesHeld, WaitersQueued,
         WaitersOnlyWhenBusy, Usable, DrainInv, ClosedInv, ClosingHasCloser

\* The idle timer and evictLRU.
LEMMA CloseIdleStep ==
  ASSUME IInv, ~draining, CloseIdle
  PROVE  IInv'
BY CloseOneStep DEF CloseIdle

\* A closer of an earlier entry.
LEMMA CloseStaleStep ==
  ASSUME IInv, ~draining, CloseStale
  PROVE  IInv'
BY CloseOneStep DEF CloseStale

-----------------------------------------------------------------------------
(* The invariant *)

\* Every step of an entry keeps the invariant.
THEOREM NextIInv == IInv /\ [Next]_vars => IInv'
<1> SUFFICES ASSUME IInv, [Next]_vars PROVE IInv'
  OBVIOUS
<1>1. ASSUME ~draining, NEW q \in Call, CallStep(q) PROVE IInv'
  BY <1>1, CheckoutAvailableStep, CheckoutThrowsStep, CheckoutQueuesStep, WaiterTimeoutStep,
     QueryEndsStep, QueryTimeoutStep, RetireStep DEF CallStep
<1>2. ASSUME ~draining, NEW k \in Closer, CloseStep(k) PROVE IInv'
  BY <1>2, CloseStartStep, ClosePollStep, CloseTimeoutStep DEF CloseStep
<1>3. CASE ~draining /\ CloseIdle
  BY <1>3, CloseIdleStep
<1>6. CASE ~draining /\ CloseStale
  BY <1>6, CloseStaleStep
<1>4. CASE Drain
  BY <1>4, DrainCreatesStep, DrainRejectsStep DEF Drain
<1>5. CASE UNCHANGED vars
  <2>1. Holders' = Holders
    BY <1>5 DEF vars, Holders
  <2> QED
    BY <1>5, <2>1
       DEF vars, entryVars, IInv, TypeOK, Accounting, ExclusiveUse, NoConnectionLeak,
           PhaseMatchesHeld, WaitersQueued, WaitersOnlyWhenBusy, Usable, DrainInv, ClosedInv,
           ClosingHasCloser
<1> QED BY <1>1, <1>2, <1>3, <1>4, <1>5, <1>6 DEF Next

\* The invariant holds in every state an entry can reach.
THEOREM SpecIInv == Spec => []IInv
BY InitIInv, NextIInv, PTL DEF Spec

\* Every variable keeps its type; the counter stays within 0..MaxConns.
THEOREM TypeCorrect == Spec => []TypeOK
<1>1. IInv => TypeOK
  BY DEF IInv
<1> QED BY <1>1, SpecIInv, PTL

\* No two calls ever use the same native connection, and no connection in
\* use is on the available stack.
THEOREM Exclusive == Spec => []ExclusiveUse
<1>1. IInv => ExclusiveUse
  BY DEF IInv
<1> QED BY <1>1, SpecIInv, PTL

\* No connection leaks, and none is used or made available after close():
\* so the "something leaked" of checkout's integrity error never is one.
THEOREM NoLeak == Spec => []NoConnectionLeak
<1>1. IInv => NoConnectionLeak
  BY DEF IInv
<1> QED BY <1>1, SpecIInv, PTL

\* The counter the close paths wait for counts the calls in flight exactly.
THEOREM CounterExact == Spec => []CheckedOutIsHolders
<1>1. IInv => CheckedOutIsHolders
  BY DEF IInv, Accounting, CheckedOutIsHolders
<1> QED BY <1>1, SpecIInv, PTL

\* Calls wait only for an open entry whose connections are all in use.
THEOREM WaitersBusy == Spec => []WaitersOnlyWhenBusy
<1>1. IInv => WaitersOnlyWhenBusy
  BY DEF IInv
<1> QED BY <1>1, SpecIInv, PTL

\* Whoever refuses new calls is about to close the entry or to reopen it.
THEOREM ClosersRemain == Spec => []ClosingHasCloser
<1>1. IInv => ClosingHasCloser
  BY DEF IInv
<1> QED BY <1>1, SpecIInv, PTL

-----------------------------------------------------------------------------
(* No overtaking *)

\* Every step serves the queue from its head.
LEMMA ServedInOrder ==
  ASSUME IInv, [Next]_vars, NEW r \in Call, phase[r] # "running", phase'[r] = "running"
  PROVE  waiters = <<>> \/ r = Head(waiters)
<1> USE DEF IInv
<1>1. phase \in [Call -> Phase]
  BY DEF TypeOK
<1>2. ASSUME NEW q \in Call, CallStep(q) PROVE waiters = <<>> \/ r = Head(waiters)
  <2>1. CASE CheckoutAvailable(q)
    BY <2>1 DEF CheckoutAvailable, WaitersOnlyWhenBusy
  <2>2. CASE CheckoutThrows(q)
    BY <2>2 DEF CheckoutThrows, vars
  <2>3. CASE CheckoutQueues(q)
    BY <1>1, <2>3 DEF CheckoutQueues
  <2>4. CASE WaiterTimeout(q)
    BY <1>1, <2>4 DEF WaiterTimeout
  <2>5. CASE QueryEnds(q)
    BY <1>1, <2>5 DEF QueryEnds, ReturnToClosed, HandOff, ReturnToAvailable
  <2>6. CASE QueryTimeout(q)
    BY <1>1, <2>6 DEF QueryTimeout
  <2>7. CASE Retire(q)
    BY <1>1, <2>7 DEF Retire
  <2> QED BY <1>2, <2>1, <2>2, <2>3, <2>4, <2>5, <2>6, <2>7 DEF CallStep
<1>3. RejectWaiters => phase'[r] # "running"
  BY DEF RejectWaiters
<1>4. ASSUME NEW k \in Closer, CloseStep(k) PROVE FALSE
  BY <1>3, <1>4 DEF CloseStep, CloseStart, ClosePoll, CloseTimeout, CloseOne
<1>5. CASE CloseIdle \/ CloseStale
  BY <1>3, <1>5 DEF CloseIdle, CloseStale, CloseOne
<1>6. CASE Drain
  BY <1>1, <1>6 DEF Drain, DrainCreates, DrainRejects, Take
<1>7. CASE UNCHANGED vars
  BY <1>7 DEF vars
<1> QED BY <1>2, <1>4, <1>5, <1>6, <1>7 DEF Next

\* A call that arrives while others wait never gets a connection before
\* them, whatever hand-offs, retirements and closes happen.
THEOREM InOrder == Spec => NoOvertaking
<1>1. IInv /\ [Next]_vars
        => [\A q \in Call : phase[q] # "running" /\ phase'[q] = "running"
              => waiters = <<>> \/ q = Head(waiters)]_vars
  BY ServedInOrder
<1> QED BY <1>1, SpecIInv, PTL DEF Spec, NoOvertaking

-----------------------------------------------------------------------------
(* The entry implements the lease *)

\* The instance has its own copy of FiniteSets.
LEMMA SameCardinality ==
  ASSUME NEW S
  PROVE  Lease!Cardinality(S) = Cardinality(S)
BY DEF Lease!Cardinality, Cardinality

\* Taking a free connection below the limit is a Grant.
LEMMA GrantStep ==
  ASSUME IInv, NEW q \in Call, NEW c \in Conn, held[q] = NoConn, c \notin Used, ~closed,
         checkedOut < MaxConns, held' = [held EXCEPT ![q] = c], closed' = closed
  PROVE  Lease!Grant(q)
<1> USE DEF IInv
<1>1. Lease!Lessees = Holders
  BY DEF Lease!Lessees, Holders
<1>2. c \in Lease!Free
  BY ConstantsType DEF Lease!Free, Used, Holders
<1>3. Lease!Cardinality(Lease!Lessees) < MaxConns
  BY <1>1, SameCardinality DEF Accounting
<1> QED BY <1>2, <1>3 DEF Lease!Grant

\* Giving a connection up is a Release.
LEMMA ReleaseStep ==
  ASSUME IInv, NEW q \in Call, phase[q] \in {"running", "lingering"},
         held' = [held EXCEPT ![q] = NoConn], closed' = closed
  PROVE  Lease!Release(q)
BY DEF IInv, PhaseMatchesHeld, Lease!Release

\* closeOne is a Shut.
LEMMA ShutStep ==
  ASSUME CloseOne
  PROVE  Lease!Shut
BY DEF CloseOne, Lease!Shut

\* Every step of the entry is a step of the lease, or none.
LEMMA LeaseStep ==
  ASSUME IInv, [Next]_vars
  PROVE  Lease!Next \/ UNCHANGED Lease!vars
<1> USE DEF IInv
<1>1. ASSUME NEW q \in Call, CallStep(q), ~draining
      PROVE  Lease!Next \/ UNCHANGED Lease!vars
  <2>1. CASE CheckoutAvailable(q)
    <3>1. PICK c \in available : Take(q, c)
      BY <2>1 DEF CheckoutAvailable
    <3>2. phase[q] = "idle" /\ ~closed /\ closed' = closed /\ held' = [held EXCEPT ![q] = c]
      BY <2>1, <3>1 DEF CheckoutAvailable, Usable, Take
    <3>3. held[q] = NoConn /\ c \in Conn /\ c \notin Used
      BY <3>2 DEF PhaseMatchesHeld, TypeOK, ExclusiveUse, Used
    <3>4. checkedOut < MaxConns
      <4>1. Cardinality(available) \in Nat \ {0}
        BY <3>1, FS_EmptySet, FS_CardinalityType DEF Accounting
      <4> QED BY <4>1, ConstantsType DEF Accounting, TypeOK
    <3>5. Lease!Grant(q)
      BY <3>2, <3>3, <3>4, GrantStep
    <3> QED BY <3>5 DEF Lease!Next
  <2>2. CASE CheckoutThrows(q)
    BY <2>2 DEF CheckoutThrows, vars, entryVars, Lease!vars
  <2>3. CASE CheckoutQueues(q)
    BY <2>3 DEF CheckoutQueues, Lease!vars
  <2>4. CASE WaiterTimeout(q)
    BY <2>4 DEF WaiterTimeout, Lease!vars
  <2>5. CASE QueryEnds(q)
    <3>1. phase[q] = "running" /\ closed' = closed
      BY <2>5 DEF QueryEnds
    <3>2. CASE ReturnToClosed(q)
      BY <3>1, <3>2, ReleaseStep DEF ReturnToClosed, Lease!Next
    <3>3. CASE ReturnToAvailable(q)
      BY <3>1, <3>3, ReleaseStep DEF ReturnToAvailable, Lease!Next
    <3>4. CASE HandOff(q)
      <4>1. /\ Usable /\ waiters # <<>>
            /\ held' = [held EXCEPT ![q] = NoConn, ![Head(waiters)] = held[q]]
        BY <3>4 DEF HandOff
      <4>2. Head(waiters) \in Call /\ phase[Head(waiters)] = "waiting"
        BY <4>1, TailQueue DEF WaitersQueued, TypeOK
      <4>3. held[q] # NoConn /\ held[Head(waiters)] = NoConn
        BY <3>1, <4>2 DEF PhaseMatchesHeld
      <4>4. Lease!Transfer(q, Head(waiters))
        BY <3>1, <4>1, <4>3 DEF Lease!Transfer, Usable
      <4> QED BY <4>2, <4>4 DEF Lease!Next
    <3> QED BY <2>5, <3>2, <3>3, <3>4 DEF QueryEnds
  <2>6. CASE QueryTimeout(q)
    BY <2>6 DEF QueryTimeout, entryVars, Lease!vars
  <2>7. CASE Retire(q)
    BY <2>7, ReleaseStep DEF Retire, Lease!Next
  <2> QED BY <1>1, <2>1, <2>2, <2>3, <2>4, <2>5, <2>6, <2>7 DEF CallStep
<1>2. ASSUME NEW k \in Closer, CloseStep(k) PROVE Lease!Next \/ UNCHANGED Lease!vars
  <2>1. CASE CloseStart(k)
    BY <2>1 DEF CloseStart, Lease!vars
  <2>2. CASE ClosePoll(k)
    BY <2>2, ShutStep DEF ClosePoll, entryVars, Lease!Next, Lease!vars
  <2>3. CASE CloseTimeout(k)
    BY <2>3 DEF CloseTimeout, Lease!vars
  <2> QED BY <1>2, <2>1, <2>2, <2>3 DEF CloseStep
<1>3. CASE CloseIdle \/ CloseStale
  BY <1>3, ShutStep DEF CloseIdle, CloseStale, Lease!Next
<1>4. CASE Drain /\ DrainCreates
  <2>1. PICK c \in Conn \ open : Take(Head(waiters), c)
    BY <1>4 DEF DrainCreates
  <2>2. /\ waiters # <<>> /\ checkedOut < MaxConns /\ ~closed /\ closed' = closed
        /\ held' = [held EXCEPT ![Head(waiters)] = c]
    <3>1. waiters # <<>> /\ checkedOut = MaxConns - 1 /\ closed' = closed
      BY <1>4 DEF Drain, DrainCreates, DrainInv
    <3>2. ~closed
      BY <3>1 DEF WaitersOnlyWhenBusy, Usable
    <3>3. checkedOut < MaxConns
      BY <3>1, ConstantsType
    <3>4. held' = [held EXCEPT ![Head(waiters)] = c]
      BY <2>1 DEF Take
    <3> QED BY <3>1, <3>2, <3>3, <3>4
  <2>3. Head(waiters) \in Call /\ phase[Head(waiters)] = "waiting"
    BY <2>2, TailQueue DEF WaitersQueued, TypeOK
  <2>4. held[Head(waiters)] = NoConn /\ c \notin Used
    BY <2>3 DEF PhaseMatchesHeld, NoConnectionLeak, Used
  <2>5. Lease!Grant(Head(waiters))
    BY <2>2, <2>3, <2>4, GrantStep
  <2> QED BY <2>3, <2>5 DEF Lease!Next
<1>5. CASE Drain /\ DrainRejects
  BY <1>5 DEF DrainRejects, Lease!vars
<1>6. CASE UNCHANGED vars
  BY <1>6 DEF vars, entryVars, Lease!vars
<1> QED BY <1>1, <1>2, <1>3, <1>4, <1>5, <1>6 DEF Next, Drain

\* Every behaviour of an entry is a behaviour of ConnectionLease: at most
\* MaxConns exclusive leases, and none granted once the entry is closed.
THEOREM ImplementsLease == Spec => LeaseSpec
<1>1. Init => Lease!Init
  BY DEF Init, Lease!Init
<1>2. IInv /\ [Next]_vars => [Lease!Next]_(Lease!vars)
  BY LeaseStep
<1> QED BY <1>1, <1>2, SpecIInv, PTL DEF Spec, LeaseSpec, Lease!Spec
=============================================================================
