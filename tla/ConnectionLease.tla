---------------------------- MODULE ConnectionLease ----------------------------
(***************************************************************************)
(* What one pool entry of core/lbug/pool-adapter.ts promises its callers.   *)
(* A native connection must never see two calls at once (the file's header: *)
(* "a single Connection segfaults if concurrent .query() calls hit it"), so *)
(* the pool leases connections: at most MaxConns at a time, each to one     *)
(* call.  Shutting down revokes nothing, but no lease is granted or passed  *)
(* on after it.  How calls wait for a lease, and how connections are        *)
(* created and closed, is left open.                                        *)
(***************************************************************************)
EXTENDS Naturals, FiniteSets

CONSTANTS Call,      \* calls of executeQuery / executeParameterized
          Conn,      \* identities of native connections
          NoConn,    \* "no connection"
          MaxConns   \* MAX_CONNS_PER_REPO

VARIABLES lease,     \* lease[q]: the connection call q uses, or NoConn
          shut       \* the entry is closed for good

vars == <<lease, shut>>

Lessees == {q \in Call : lease[q] # NoConn}
Free == {c \in Conn : \A q \in Call : lease[q] # c}

Init == lease = [q \in Call |-> NoConn] /\ shut = FALSE

Grant(q) ==
  /\ ~shut /\ lease[q] = NoConn /\ Cardinality(Lessees) < MaxConns
  /\ \E c \in Free : lease' = [lease EXCEPT ![q] = c]
  /\ UNCHANGED shut

\* A returned connection goes straight to a call that waits for one.
Transfer(q, r) ==
  /\ ~shut /\ lease[q] # NoConn /\ lease[r] = NoConn
  /\ lease' = [lease EXCEPT ![q] = NoConn, ![r] = lease[q]]
  /\ UNCHANGED shut

Release(q) ==
  /\ lease[q] # NoConn
  /\ lease' = [lease EXCEPT ![q] = NoConn]
  /\ UNCHANGED shut

Shut == shut' = TRUE /\ UNCHANGED lease

Next == \/ \E q \in Call : Grant(q) \/ Release(q)
        \/ \E q, r \in Call : Transfer(q, r)
        \/ Shut

Spec == Init /\ [][Next]_vars
=============================================================================
