----------------------------- MODULE ServerServices -----------------------------
(***************************************************************************)
(* The places where calls of one or several processes are put in order, side *)
(* by side: the registry's lock file, the audit store's lock file, the       *)
(* promise chain around the writable database, the table of MCP sessions,    *)
(* the ledger of the jobs, and the lock of a repository between embeddings   *)
(* and deletions.  They share no state, so a behaviour follows one of them,  *)
(* chosen by its initial state.                                              *)
(***************************************************************************)
EXTENDS RegistryLock

CONSTANTS
  Appender, MaxFaults,     \* AuditStore
  Caller, Path, Attempts, NoPath,  \* LbugSession
  Request, MaxSessions,    \* McpSessions
  Jobs, MaxSteps, MaxSaves, NoWrite,  \* JobLedger
  Embed, Deletion, Analysis, NoWriter, MaxReaders  \* EmbedJobs

VARIABLES
  service,  \* the service a behaviour follows
  auditLock, appender, events, projection, faults,
  chain, caller, opened, quarantine, down,
  sessions, closing, request, victim, peak,
  jobs, disk, writing, chained, timer, missed, failures,
  repoLock, embedJob, embedTask, deletion

Audit == INSTANCE AuditStore
Lbug == INSTANCE LbugSession
Mcp == INSTANCE McpSessions
Ledger == INSTANCE JobLedger
Embeds == INSTANCE EmbedJobs

ASSUME ServerAssumption ==
  /\ NoOne \notin Appender /\ MaxFaults \in Nat
  /\ NoPath \notin Path /\ Attempts \in Nat \ {0}
  /\ MaxSessions \in Nat \ {0}
  /\ {MaxSteps, MaxSaves, MaxReaders} \subseteq Nat
  /\ NoWrite \notin [Jobs -> Ledger!Job]  \* what is written to jobs.json is not cut off
  /\ Analysis # NoWriter
  /\ Embed \cap Deletion = {} /\ (Embed \union Deletion) \cap {Analysis, NoWriter} = {}

auditVars == <<auditLock, appender, events, projection, faults>>
lbugVars == <<chain, caller, opened, quarantine, down>>
mcpVars == <<sessions, closing, request, victim, peak>>
ledgerVars == <<jobs, disk, writing, chained, timer, missed, failures>>
embedVars == <<repoLock, embedJob, embedTask, deletion>>
serverVars == <<service, registryVars, auditVars, lbugVars, mcpVars, ledgerVars, embedVars>>

\* All services as they start.
AllIdle == Init /\ Audit!Init /\ Lbug!Init /\ Mcp!Init /\ Ledger!Init /\ Embeds!Init

ServerInit ==
  service \in {"registry", "audit", "lbug", "mcp", "ledger", "embed"} /\ AllIdle

RegistryStep ==
  /\ service = "registry" /\ Next
  /\ UNCHANGED <<service, auditVars, lbugVars, mcpVars, ledgerVars, embedVars>>

AuditStep ==
  /\ service = "audit" /\ Audit!Next
  /\ UNCHANGED <<service, registryVars, lbugVars, mcpVars, ledgerVars, embedVars>>

LbugStep ==
  /\ service = "lbug" /\ Lbug!Next
  /\ UNCHANGED <<service, registryVars, auditVars, mcpVars, ledgerVars, embedVars>>

McpStep ==
  /\ service = "mcp" /\ Mcp!Next
  /\ UNCHANGED <<service, registryVars, auditVars, lbugVars, ledgerVars, embedVars>>

LedgerStep ==
  /\ service = "ledger" /\ Ledger!Next
  /\ UNCHANGED <<service, registryVars, auditVars, lbugVars, mcpVars, embedVars>>

EmbedStep ==
  /\ service = "embed" /\ Embeds!Next
  /\ UNCHANGED <<service, registryVars, auditVars, lbugVars, mcpVars, ledgerVars>>

ServerNext == RegistryStep \/ AuditStep \/ LbugStep \/ McpStep \/ LedgerStep \/ EmbedStep

ServerSpec == ServerInit /\ [][ServerNext]_serverVars

-----------------------------------------------------------------------------
(* Properties *)

\* The variables of every service keep their types.
ServerTypeOK ==
  /\ TypeOK /\ Audit!TypeOK /\ Lbug!TypeOK /\ Mcp!TypeOK /\ Ledger!TypeOK
  /\ Embeds!TypeOK

\* Acknowledged audit events stay in the store (AuditStore).
EventsKept == Audit!EventsKept

\* The projection shows all events whenever nobody updates the store (AuditStore).
ProjectionCurrent == Audit!ProjectionCurrent

\* No database switch happens while an operation runs (LbugSession).
SwitchExcluded == Lbug!SwitchExcluded

\* The number of sessions passes the cap by a bounded amount only (McpSessions).
SessionsBounded == Mcp!SessionsBounded

\* The ledger holds every job as it is when no save is due (JobLedger).
LedgerCurrent == Ledger!LedgerCurrent

\* A pipeline keeps its repository to itself, whatever becomes of its job
\* (EmbedJobs).
EmbedsUnderLock == Embeds!EmbedsUnderLock
=============================================================================
