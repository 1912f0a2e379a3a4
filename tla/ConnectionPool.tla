----------------------------- MODULE ConnectionPool -----------------------------
(***************************************************************************)
(* One PoolEntry of core/lbug/pool-adapter.ts, from its registration at the *)
(* end of doInitLbug to its removal by closeOne: the calls that check       *)
(* connections out and return them, the FIFO of waiters, the retirement of  *)
(* connections whose query timed out, and the ways an entry closes: the     *)
(* idle timer, LRU eviction, an explicit close, and an explicit close that  *)
(* was meant for an earlier entry of the same repo id.                      *)
(*                                                                          *)
(* The code runs on one JavaScript thread: everything between two awaits is *)
(* one step here.  The exception is the loop of retireConnection, which     *)
(* takes one step per iteration under the flag `draining'; nothing else     *)
(* moves while it is set, so the loop is still atomic to everyone else.     *)
(*                                                                          *)
(* Data left out: query text, rows, prepared-statement caches, stdout       *)
(* silencing, and the order of the `available' stack (which of the          *)
(* available connections a call gets is not observable).  Durations are     *)
(* left out too: a timer that has been set may fire at any moment.          *)
(***************************************************************************)
EXTENDS Naturals, SequencesExt, FiniteSets

CONSTANTS
  Call,      \* concurrent calls of executeQuery / executeParameterized
  Conn,      \* identities of native connections; a closed one may be reused
  NoConn,    \* "holds no connection"
  MaxConns,  \* MAX_CONNS_PER_REPO
  Closer     \* concurrent calls of closeLbug(repoId)

\* MAX_CONNS_PER_REPO is clamped to at least 1 by readBoundedIntEnv, and
\* doInitLbug creates that many connections before it registers the entry.
ASSUME PoolAssumption ==
  /\ MaxConns \in Nat \ {0}
  /\ NoConn \notin Conn
  /\ \E P \in SUBSET Conn : IsFiniteSet(P) /\ Cardinality(P) = MaxConns

VARIABLES
  available,      \* entry.available, as a set
  checkedOut,     \* entry.checkedOut, the counter the code keeps
  waiters,        \* entry.waiters: the calls that wait, oldest first
  closing,        \* entry.closing
  closed,         \* entry.closed; the entry is then out of the pool map
  open,           \* connections created and not yet close()d
  phase,          \* phase[q]: where call q is
  held,           \* held[q]: the connection call q uses, or NoConn
  closers,        \* closers inside waitForCheckedOutConnections
  draining        \* retireConnection is inside its loop

entryVars == <<available, checkedOut, waiters, closing, closed>>
vars == <<entryVars, open, phase, held, closers, draining>>

(***************************************************************************)
(* A call is idle, waits in entry.waiters, runs a query on its connection,  *)
(* or lingers: its caller got a QueryTimeoutError, but the native call is   *)
(* still pending and keeps the connection until it settles.                 *)
(***************************************************************************)
Phase == {"idle", "waiting", "running", "lingering"}
Holders == {q \in Call : held[q] # NoConn}

Init ==
  /\ available \in {P \in SUBSET Conn : IsFiniteSet(P) /\ Cardinality(P) = MaxConns}
  /\ open = available
  /\ checkedOut = 0
  /\ waiters = <<>>
  /\ closing = FALSE /\ closed = FALSE
  /\ phase = [q \in Call |-> "idle"]
  /\ held = [q \in Call |-> NoConn]
  /\ closers = {}
  /\ draining = FALSE

-----------------------------------------------------------------------------
(* checkout *)

Usable_WhenClosed == TRUE

Usable == ~closed /\ ~closing
TotalConns == Cardinality(available) + checkedOut

Take(q, c) ==
  /\ phase' = [phase EXCEPT ![q] = "running"]
  /\ held' = [held EXCEPT ![q] = c]

CheckoutAvailable(q) ==
  /\ phase[q] = "idle" /\ Usable
  /\ \E c \in available : available' = available \ {c} /\ Take(q, c)
  /\ checkedOut' = checkedOut + 1
  /\ UNCHANGED <<waiters, closing, closed, open, closers, draining>>

\* Nothing is available and fewer than MaxConns connections exist: checkout
\* throws "Connection pool integrity error" instead of creating one.
CheckoutThrows(q) ==
  /\ phase[q] = "idle" /\ Usable
  /\ available = {} /\ TotalConns < MaxConns
  /\ UNCHANGED vars

CheckoutQueues(q) ==
  /\ phase[q] = "idle" /\ Usable
  /\ available = {} /\ TotalConns >= MaxConns
  /\ waiters' = Append(waiters, q)
  /\ phase' = [phase EXCEPT ![q] = "waiting"]
  /\ UNCHANGED <<available, checkedOut, closing, closed, open, held, closers, draining>>

WaiterTimeout_Unarmed(q) == FALSE /\ UNCHANGED vars

WaiterTimeout(q) ==
  /\ \E i \in DOMAIN waiters : waiters[i] = q /\ waiters' = RemoveAt(waiters, i)
  /\ phase' = [phase EXCEPT ![q] = "idle"]
  /\ UNCHANGED <<available, checkedOut, closing, closed, open, held, closers, draining>>

-----------------------------------------------------------------------------
(* checkin: the query ended before its timeout, with rows or an error *)

ReturnToClosed_KeepsConnection(q) ==
  /\ ~Usable
  /\ checkedOut' = checkedOut - 1
  /\ phase' = [phase EXCEPT ![q] = "idle"]
  /\ held' = [held EXCEPT ![q] = NoConn]
  /\ UNCHANGED <<available, waiters, open>>

ReturnToClosed_Uncounted(q) ==
  /\ ~Usable
  /\ open' = open \ {held[q]}
  /\ phase' = [phase EXCEPT ![q] = "idle"]
  /\ held' = [held EXCEPT ![q] = NoConn]
  /\ UNCHANGED <<available, waiters, checkedOut>>

ReturnToClosed(q) ==
  /\ ~Usable
  /\ checkedOut' = checkedOut - 1
  /\ open' = open \ {held[q]}
  /\ phase' = [phase EXCEPT ![q] = "idle"]
  /\ held' = [held EXCEPT ![q] = NoConn]
  /\ UNCHANGED <<available, waiters>>

HandOff_AlsoAvailable(q) ==
  /\ Usable /\ waiters # <<>>
  /\ waiters' = Tail(waiters)
  /\ phase' = [phase EXCEPT ![q] = "idle", ![Head(waiters)] = "running"]
  /\ held' = [held EXCEPT ![q] = NoConn, ![Head(waiters)] = held[q]]
  /\ available' = available \union {held[q]}
  /\ UNCHANGED <<checkedOut, open>>

HandOff(q) ==
  /\ Usable /\ waiters # <<>>
  /\ waiters' = Tail(waiters)
  /\ phase' = [phase EXCEPT ![q] = "idle", ![Head(waiters)] = "running"]
  /\ held' = [held EXCEPT ![q] = NoConn, ![Head(waiters)] = held[q]]
  /\ UNCHANGED <<available, checkedOut, open>>

ReturnToAvailable_PastWaiters(q) ==
  /\ Usable
  /\ checkedOut' = checkedOut - 1
  /\ available' = available \union {held[q]}
  /\ phase' = [phase EXCEPT ![q] = "idle"]
  /\ held' = [held EXCEPT ![q] = NoConn]
  /\ UNCHANGED <<waiters, open>>

ReturnToAvailable(q) ==
  /\ Usable /\ waiters = <<>>
  /\ checkedOut' = checkedOut - 1
  /\ available' = available \union {held[q]}
  /\ phase' = [phase EXCEPT ![q] = "idle"]
  /\ held' = [held EXCEPT ![q] = NoConn]
  /\ UNCHANGED <<waiters, open>>

QueryEnds(q) ==
  /\ phase[q] = "running"
  /\ ReturnToClosed(q) \/ HandOff(q) \/ ReturnToAvailable(q)
  /\ UNCHANGED <<closing, closed, closers, draining>>

-----------------------------------------------------------------------------
(* A timed-out query: the caller gets its error at once; the connection is  *)
(* retired when the native promise settles, which may be never.             *)

QueryTimeout(q) ==
  /\ phase[q] = "running"
  /\ phase' = [phase EXCEPT ![q] = "lingering"]
  /\ UNCHANGED <<entryVars, open, held, closers, draining>>

Retire(q) ==
  /\ phase[q] = "lingering"
  /\ checkedOut' = checkedOut - 1
  /\ open' = open \ {held[q]}
  /\ phase' = [phase EXCEPT ![q] = "idle"]
  /\ held' = [held EXCEPT ![q] = NoConn]
  /\ draining' = (Usable /\ waiters # <<>>)
  /\ UNCHANGED <<available, waiters, closing, closed, closers>>

(***************************************************************************)
(* The loop of retireConnection.  It first looks for an available           *)
(* connection; WaitersOnlyWhenBusy shows there is never one while a call    *)
(* waits, so that branch has no action.  The loop ends when no one waits or *)
(* MaxConns connections exist again.                                        *)
(***************************************************************************)
DrainGoesOn == waiters' # <<>> /\ Cardinality(available) + checkedOut' < MaxConns

DrainCreates ==
  /\ \E c \in Conn \ open :
       /\ open' = open \union {c}
       /\ Take(Head(waiters), c)
  /\ checkedOut' = checkedOut + 1
  /\ waiters' = Tail(waiters)
  /\ draining' = DrainGoesOn
  /\ UNCHANGED <<available, closing, closed, closers>>

\* createConnection throws: the waiter gets the error, the count is restored.
DrainRejects ==
  /\ checkedOut' = checkedOut
  /\ waiters' = Tail(waiters)
  /\ phase' = [phase EXCEPT ![Head(waiters)] = "idle"]
  /\ draining' = DrainGoesOn
  /\ UNCHANGED <<available, closing, closed, open, held, closers>>

-----------------------------------------------------------------------------
(* closeOneWhenIdle: closing is set and the waiters are rejected at once;   *)
(* a poll then closes the entry when no connection is checked out, or the   *)
(* wait times out and the entry is usable again.                            *)

RejectWaiters ==
  /\ waiters' = <<>>
  /\ phase' = [q \in Call |-> IF phase[q] = "waiting" THEN "idle" ELSE phase[q]]

CloseStart_KeepsWaiters(k) ==
  /\ k \notin closers /\ ~closed
  /\ closing' = TRUE
  /\ closers' = closers \union {k}
  /\ UNCHANGED <<available, checkedOut, waiters, phase, closed, open, held, draining>>

CloseStart(k) ==
  /\ k \notin closers /\ ~closed
  /\ closing' = TRUE
  /\ RejectWaiters
  /\ closers' = closers \union {k}
  /\ UNCHANGED <<available, checkedOut, closed, open, held, draining>>

\* closeOne on this entry; a second closer finds the entry gone.
CloseOne ==
  /\ closed' = TRUE /\ closing' = TRUE
  /\ RejectWaiters
  /\ open' = open \ available
  /\ available' = {}
  /\ UNCHANGED <<checkedOut, held, draining>>

ClosePoll(k) ==
  /\ k \in closers /\ checkedOut = 0
  /\ closers' = closers \ {k}
  /\ IF closed THEN UNCHANGED <<entryVars, open, phase, held, draining>>
               ELSE CloseOne

CloseTimeout_StaysClosing(k) ==
  /\ k \in closers /\ checkedOut > 0
  /\ closers' = closers \ {k}
  /\ UNCHANGED <<entryVars, open, phase, held, draining>>

CloseTimeout(k) ==
  /\ k \in closers /\ checkedOut > 0
  /\ closers' = closers \ {k}
  /\ closing' = closed
  /\ UNCHANGED <<available, checkedOut, waiters, closed, open, phase, held, draining>>

\* The idle timer and evictLRU: both look at checkedOut, neither at closing.
CloseIdle ==
  /\ ~closed /\ checkedOut = 0
  /\ CloseOne
  /\ UNCHANGED closers

\* closeOneWhenIdle waits for the entry it found but then closes the repo id:
\* a closer of an earlier entry closes this one, busy or not (PoolRegistry
\* has the steps that lead here).
CloseStale ==
  /\ ~closed
  /\ CloseOne
  /\ UNCHANGED closers

-----------------------------------------------------------------------------
CallStep(q) ==
  \/ CheckoutAvailable(q)
  \/ CheckoutThrows(q)
  \/ CheckoutQueues(q)
  \/ WaiterTimeout(q)
  \/ QueryEnds(q)
  \/ QueryTimeout(q)
  \/ Retire(q)

CloseStep(k) == CloseStart(k) \/ ClosePoll(k) \/ CloseTimeout(k)

Drain == draining /\ (DrainCreates \/ DrainRejects)

Next ==
  \/ ~draining /\ \E q \in Call : CallStep(q)
  \/ ~draining /\ \E k \in Closer : CloseStep(k)
  \/ ~draining /\ CloseIdle
  \/ ~draining /\ CloseStale
  \/ Drain

Spec == Init /\ [][Next]_vars

(***************************************************************************)
(* Fairness.  The timers of the code fire: WAITER_TIMEOUT_MS for a waiter,  *)
(* QUERY_TIMEOUT_MS for a query, the polls and the CLOSE_WAIT_TIMEOUT_MS of *)
(* a closer; and a loop runs to its end.  Nothing forces a native promise   *)
(* to settle, so Retire has no fairness, and nothing forces a new call.     *)
(***************************************************************************)
Fairness ==
  /\ \A q \in Call : WF_vars(~draining /\ WaiterTimeout(q))
  /\ \A q \in Call : WF_vars(~draining /\ (QueryEnds(q) \/ QueryTimeout(q)))
  /\ \A k \in Closer : WF_vars(~draining /\ (ClosePoll(k) \/ CloseTimeout(k)))
  /\ WF_vars(Drain)

FairSpec == Spec /\ Fairness

-----------------------------------------------------------------------------
(* Properties *)

\* Every variable has its type; in particular the counter never leaves
\* 0..MaxConns, so the Math.max(0, ...) of checkin and retireConnection
\* never hides a double return.
TypeOK ==
  /\ available \subseteq Conn
  /\ checkedOut \in 0..MaxConns
  /\ waiters \in Seq(Call)
  /\ closing \in BOOLEAN /\ closed \in BOOLEAN
  /\ open \subseteq Conn
  /\ phase \in [Call -> Phase]
  /\ held \in [Call -> Conn \union {NoConn}]
  /\ closers \subseteq Closer
  /\ draining \in BOOLEAN

\* A native connection is used by one call at most, and a connection in use
\* is not on the available stack, through every hand-off, retirement and
\* close (two calls on one connection crash the process).
ExclusiveUse ==
  /\ \A q, r \in Holders : held[q] = held[r] => q = r
  /\ \A q \in Holders : held[q] \notin available

\* No connection leaks and none is used after its close(): the open native
\* connections are exactly the available ones and those a call still uses,
\* lingering native calls included.
NoConnectionLeak == open = available \union {held[q] : q \in Holders}

\* The counter the close paths rely on is the number of calls that use a
\* connection, lingering ones included, across direct hand-offs (which do
\* not touch it), retirements and returns to a closing entry.
CheckedOutIsHolders == checkedOut = Cardinality(Holders)

\* A call waits only while every connection is out and the entry is open;
\* so a waiter never sits beside an idle connection.
WaitersOnlyWhenBusy ==
  waiters # <<>> => /\ available = {}
                    /\ Usable
                    /\ checkedOut = MaxConns \/ draining

\* No overtaking: whoever gets a connection while calls wait is the one
\* that has waited longest; a new call never slips in front of the queue.
NoOvertaking ==
  [][\A q \in Call : phase[q] # "running" /\ phase'[q] = "running"
       => waiters = <<>> \/ q = Head(waiters)]_vars

\* An entry in `closing' always has a closer that will close it or reopen
\* it; an entry nobody works on any more never keeps refusing calls.
ClosingHasCloser == closing /\ ~closed => closers # {}

\* Every call that waits is answered: a connection, a rejection or its
\* own timeout.
WaiterAnswered == \A q \in Call : phase[q] = "waiting" ~> phase[q] # "waiting"

\* A close either ends with the entry closed or gives the entry back, even
\* when a native call never settles.
CloseEnds == closing ~> (closed \/ ~closing)

\* The entry implements the lease it promises: at most MaxConns connections
\* out, each with one call, and none handed out once the entry is closed.
Lease == INSTANCE ConnectionLease WITH lease <- held, shut <- closed
LeaseSpec == Lease!Spec
=============================================================================
