------------------------------ MODULE McpSessions ------------------------------
(***************************************************************************)
(* The sessions of MCP over HTTP (server/mcp-http.ts).  A POST without a     *)
(* session id makes a session, over several awaits; it is counted when the   *)
(* last of them has ended.  The oldest session is evicted at the cap, idle   *)
(* ones by a timer, and all of them at shutdown.                             *)
(***************************************************************************)
EXTENDS Naturals, FiniteSets, SequencesExt

CONSTANTS
  Request,     \* initializing requests, each of which is also its session's id
  MaxSessions  \* MAX_HTTP_MCP_SESSIONS

VARIABLES
  sessions,  \* the registered sessions, least recently active first
  closing,   \* closingSessions
  request,   \* where the handler of an initializing request is
  victim,    \* the sessions that handler evicts
  peak       \* the most handlers there ever were between the cap and the end

mcpVars == <<sessions, closing, request, victim, peak>>

Init ==
  /\ sessions = <<>> /\ closing = {}
  /\ request = [r \in Request |-> "none"]
  /\ victim = [r \in Request |-> {}]
  /\ peak = 0

Registered == {sessions[i] : i \in 1..Len(sessions)}
Pending == {r \in Request : request[r] \in {"evicting", "connecting"}}
Without(id) == RemoveAt(sessions, CHOOSE i \in DOMAIN sessions : sessions[i] = id)

\* Mutant: the cap is off by one.
Admit_PastCap(r) ==
  /\ request[r] = "none"
  /\ IF Len(sessions) > MaxSessions
       THEN /\ sessions' = Tail(sessions)
            /\ closing' = closing \union {Head(sessions)}
            /\ victim' = [victim EXCEPT ![r] = {Head(sessions)}]
            /\ request' = [request EXCEPT ![r] = "evicting"]
       ELSE /\ request' = [request EXCEPT ![r] = "connecting"]
            /\ UNCHANGED <<sessions, closing, victim>>
  /\ peak' = IF Cardinality(Pending) + 1 > peak THEN Cardinality(Pending) + 1 ELSE peak

\* The cap is tested, and the oldest session removed from the map, before the
\* first await.
Admit(r) ==
  /\ request[r] = "none"
  /\ IF Len(sessions) >= MaxSessions
       THEN /\ sessions' = Tail(sessions)
            /\ closing' = closing \union {Head(sessions)}
            /\ victim' = [victim EXCEPT ![r] = {Head(sessions)}]
            /\ request' = [request EXCEPT ![r] = "evicting"]
       ELSE /\ request' = [request EXCEPT ![r] = "connecting"]
            /\ UNCHANGED <<sessions, closing, victim>>
  /\ peak' = IF Cardinality(Pending) + 1 > peak THEN Cardinality(Pending) + 1 ELSE peak

Evicted(r) ==
  /\ request[r] = "evicting" /\ victim[r] \cap closing = {}
  /\ request' = [request EXCEPT ![r] = "connecting"]
  /\ UNCHANGED <<sessions, closing, victim, peak>>

\* server.connect and transport.handleRequest have ended: the session is
\* registered, or what was built is closed.
Register(r) ==
  /\ request[r] = "connecting"
  /\ sessions' = Append(sessions, r)
  /\ request' = [request EXCEPT ![r] = "registered"]
  /\ UNCHANGED <<closing, victim, peak>>

Refuse(r) ==
  /\ request[r] = "connecting"
  /\ request' = [request EXCEPT ![r] = "refused"]
  /\ UNCHANGED <<sessions, closing, victim, peak>>

\* A later request of a session: lastActivity.
Use(id) ==
  /\ id \in Registered
  /\ sessions' = Append(Without(id), id)
  /\ UNCHANGED <<closing, request, victim, peak>>

\* closeSession, by the idle timer or by the transport's onclose.
CloseSession(id) ==
  /\ id \in Registered
  /\ sessions' = Without(id)
  /\ closing' = closing \union {id}
  /\ UNCHANGED <<request, victim, peak>>

SessionClosed(id) ==
  /\ id \in closing
  /\ closing' = closing \ {id}
  /\ UNCHANGED <<sessions, request, victim, peak>>

\* cleanup, at shutdown
CloseAll ==
  /\ sessions # <<>>
  /\ sessions' = <<>>
  /\ closing' = closing \union Registered
  /\ UNCHANGED <<request, victim, peak>>

Step(r) ==
  \/ Admit(r) \/ Evicted(r) \/ Register(r) \/ Refuse(r)
  \/ Use(r) \/ CloseSession(r) \/ SessionClosed(r)

Next == (\E r \in Request : Step(r)) \/ CloseAll

Spec == Init /\ [][Next]_mcpVars

-----------------------------------------------------------------------------
(* Properties *)

\* Types of the map, the closing set and the handlers; an id is registered once.
TypeOK ==
  /\ sessions \in Seq(Request) /\ IsInjective(sessions)
  /\ closing \subseteq Request
  /\ request \in [Request -> {"none", "evicting", "connecting", "registered", "refused"}]
  /\ victim \in [Request -> SUBSET Request]
  /\ peak \in Nat

\* The cap on sessions is soft: it is tested before the awaits of a new session
\* and the session is counted after them.  It is never passed by more than the
\* initializing requests that were ever in flight together, less one.
SessionsBounded == Len(sessions) <= MaxSessions + peak - 1
=============================================================================
