------------------------------ MODULE PoolRegistry ------------------------------
(***************************************************************************)
(* The pool of core/lbug/pool-adapter.ts as a whole: the map from repo ids  *)
(* to entries, the cache of native databases that entries of the same path  *)
(* share, and everything that creates and removes entries while others use  *)
(* them: initLbug with its lock retries, LRU eviction, the idle timer and   *)
(* closeLbug.  What happens inside one entry is ConnectionPool; here an     *)
(* entry only counts the queries that use its connections.                  *)
(*                                                                          *)
(* JavaScript runs to the next await: each action is the code between two   *)
(* awaits.  An init awaits fs.stat, the delay between two attempts to open  *)
(* a locked database, and the loading of extensions.                        *)
(*                                                                          *)
(* Left out: initLbugWithDb and external databases (used by tests), the     *)
(* close listeners, and lastUsed: which of the idle entries is the least    *)
(* recently used one is a choice, and so is the moment the idle timer finds *)
(* one too old.                                                             *)
(***************************************************************************)
EXTENDS Naturals, FiniteSets, Functions

CONSTANTS
  Repo,          \* repo ids
  Path,          \* database paths
  PathOf,        \* PathOf[r]: the path repo id r is opened with
  Entry,         \* identities of PoolEntry objects
  Db,            \* identities of SharedDB objects and their native database
  Closer,        \* concurrent calls of closeLbug
  None,
  MaxPoolSize,   \* MAX_POOL_SIZE
  MaxConns,      \* MAX_CONNS_PER_REPO
  MaxAttempts    \* LOCK_RETRY_ATTEMPTS

ASSUME RegistryAssumption ==
  /\ PathOf \in [Repo -> Path]
  /\ {MaxPoolSize, MaxConns, MaxAttempts} \subseteq Nat \ {0}
  /\ None \notin Entry \union Db \union Repo

VARIABLES
  reg,       \* the two maps of the module, see Registry
  entry,     \* entry[e]: what entry object e holds
  init,      \* init[r]: progress of doInitLbug(r)
  closer     \* closer[k]: what call k of closeLbug waits for, and has still to do

vars == <<reg, entry, init, closer>>

Registry == [ pool  : [Repo -> Entry \union {None}],  \* pool
              cache : [Path -> Db \union {None}],     \* dbCache
              refs  : [Db -> Nat],                    \* SharedDB.refCount
              open  : SUBSET Db,                      \* databases not yet close()d
              timer : BOOLEAN ]                       \* idleTimer is set
EntryState == [db : Db \union {None}, busy : 0..MaxConns, closing : BOOLEAN]
InitState == [at : {"none", "stat", "opening", "loading"}, attempt : 0..MaxAttempts,
              db : Db \union {None}]
CloserState == [repo : Repo \union {None}, entry : Entry \union {None},
                rest : SUBSET Repo, all : BOOLEAN]

NoInit == [at |-> "none", attempt |-> 0, db |-> None]
NoCloser == [repo |-> None, entry |-> None, rest |-> {}, all |-> FALSE]
Registered == {r \in Repo : reg.pool[r] # None}
EntryOf(r) == entry[reg.pool[r]]

\* Identities that no variable refers to any more may be used again.
FreshEntry == {e \in Entry : /\ \A r \in Repo : reg.pool[r] # e
                             /\ entry[e].busy = 0
                             /\ \A k \in Closer : closer[k].entry # e}
FreshDb(s) == {d \in Db : /\ d \notin s.open
                          /\ \A r \in Repo : init[r].db # d
                          /\ \A e \in Entry \ FreshEntry : entry[e].db # d}

Init ==
  /\ reg = [pool  |-> [r \in Repo |-> None], cache |-> [p \in Path |-> None],
            refs  |-> [d \in Db |-> 0],      open  |-> {},
            timer |-> FALSE]
  /\ entry = [e \in Entry |-> [db |-> None, busy |-> 0, closing |-> FALSE]]
  /\ init = [r \in Repo |-> NoInit]
  /\ closer = [k \in Closer |-> NoCloser]

-----------------------------------------------------------------------------
(* closeOne and the reference count, as functions of the registry *)

\* The reference that closing repo r gives back is looked up by path.
Released_Always(s, p, d) ==
  [s EXCEPT !.refs[d] = @ - 1, !.cache[p] = None, !.open = @ \ {d}]

Released(s, p, d) ==
  IF s.refs[d] > 1
  THEN [s EXCEPT !.refs[d] = @ - 1]
  ELSE [s EXCEPT !.refs[d] = 0, !.cache[p] = None, !.open = @ \ {d}]

CloseOne(s, r) ==
  LET p == PathOf[r]
      t == [s EXCEPT !.pool[r] = None]
  IN  IF s.cache[p] = None THEN t ELSE Released(t, p, s.cache[p])

Idle_Ignored(r) == r \in Registered

Idle(r) == r \in Registered /\ EntryOf(r).busy = 0

\* evictLRU: at capacity, one idle entry goes; with none idle, nobody does.
AfterEviction ==
  IF Cardinality(Registered) < MaxPoolSize \/ ~\E r \in Repo : Idle(r)
  THEN {reg}
  ELSE {CloseOne(reg, r) : r \in {q \in Repo : Idle(q)}}

-----------------------------------------------------------------------------
(* initLbug *)

\* initLbug returns at once for a registered repo and joins a pending init.
InitCall(r) ==
  /\ reg.pool[r] = None /\ init[r].at = "none"
  /\ init' = [init EXCEPT ![r] = [NoInit EXCEPT !.at = "stat"]]
  /\ UNCHANGED <<reg, entry, closer>>

InitFails(r) == init' = [init EXCEPT ![r] = NoInit]

Attached(s, r, d) ==
  /\ reg' = [s EXCEPT !.refs[d] = @ + 1]
  /\ init' = [init EXCEPT ![r] = [at |-> "loading", attempt |-> 0, db |-> d]]

\* new lbug.Database (or its WAL recovery) succeeds: a SharedDB is cached.
Opens(s, r) ==
  \E d \in FreshDb(s) : Attached([s EXCEPT !.cache[PathOf[r]] = d, !.refs[d] = 0,
                                           !.open = @ \union {d}], r, d)

\* The database is locked: wait and try again, up to MaxAttempts times.
Locked_RetriesForever(s, r, n) ==
  /\ init' = [init EXCEPT ![r] = [at |-> "opening", attempt |-> n % MaxAttempts, db |-> None]]
  /\ reg' = s

Locked(s, r, n) ==
  /\ reg' = s
  /\ IF n = MaxAttempts
     THEN InitFails(r)
     ELSE init' = [init EXCEPT ![r] = [at |-> "opening", attempt |-> n, db |-> None]]

\* Another error, and the recovery of the WAL fails as well.
Unopenable(s, r) == reg' = s /\ InitFails(r)

Attempt(s, r, n) == Opens(s, r) \/ Locked(s, r, n) \/ Unopenable(s, r)

StatFails(r) ==
  /\ init[r].at = "stat"
  /\ InitFails(r)
  /\ UNCHANGED <<reg, entry, closer>>

StatDone_Uncounted(r) ==
  /\ init[r].at = "stat"
  /\ \E s \in AfterEviction :
       LET d == s.cache[PathOf[r]]
       IN  IF d # None
           THEN /\ reg' = s
                /\ init' = [init EXCEPT ![r] = [at |-> "loading", attempt |-> 0, db |-> d]]
           ELSE Attempt(s, r, 1)
  /\ UNCHANGED <<entry, closer>>

StatDone(r) ==
  /\ init[r].at = "stat"
  /\ \E s \in AfterEviction :
       LET d == s.cache[PathOf[r]]
       IN  IF d # None THEN Attached(s, r, d) ELSE Attempt(s, r, 1)
  /\ UNCHANGED <<entry, closer>>

\* The loop of attempts does not look at dbCache again.
OpenRetry(r) ==
  /\ init[r].at = "opening"
  /\ Attempt(reg, r, init[r].attempt + 1)
  /\ UNCHANGED <<entry, closer>>

\* releaseSharedDbAfterFailedInit gives back the database it holds, but
\* removes whatever is cached for the path.
LoadFails(r) ==
  /\ init[r].at = "loading"
  /\ reg' = Released(reg, PathOf[r], init[r].db)
  /\ InitFails(r)
  /\ UNCHANGED <<entry, closer>>

Register(r) ==
  /\ init[r].at = "loading"
  /\ \E e \in FreshEntry :
       /\ reg' = [reg EXCEPT !.pool[r] = e, !.timer = TRUE]
       /\ entry' = [entry EXCEPT ![e] = [db |-> init[r].db, busy |-> 0, closing |-> FALSE]]
  /\ InitFails(r)
  /\ UNCHANGED closer

-----------------------------------------------------------------------------
(* Queries: a checkout that succeeds, and the return of its connection *)

QueryBegins_PastLimit(r) ==
  /\ r \in Registered /\ ~EntryOf(r).closing
  /\ entry' = [entry EXCEPT ![reg.pool[r]].busy = @ + 1]
  /\ UNCHANGED <<reg, init, closer>>

QueryBegins(r) ==
  /\ r \in Registered /\ ~EntryOf(r).closing /\ EntryOf(r).busy < MaxConns
  /\ entry' = [entry EXCEPT ![reg.pool[r]].busy = @ + 1]
  /\ UNCHANGED <<reg, init, closer>>

QueryEnds(e) ==
  /\ entry[e].busy > 0
  /\ entry' = [entry EXCEPT ![e].busy = @ - 1]
  /\ UNCHANGED <<reg, init, closer>>

-----------------------------------------------------------------------------
(* closeLbug and the idle timer.  A closer remembers the entry it found,    *)
(* waits for that entry, and then closes the repo id.                       *)

\* closeOneWhenIdle up to its first poll
Begin(k, r, c) ==
  /\ entry' = [entry EXCEPT ![reg.pool[r]].closing = TRUE]
  /\ closer' = [closer EXCEPT ![k] = [c EXCEPT !.repo = r, !.entry = reg.pool[r]]]
  /\ UNCHANGED <<reg, init>>

CloseStart(k, r) ==
  /\ closer[k] = NoCloser /\ r \in Registered
  /\ Begin(k, r, NoCloser)

Waiting(k) == closer[k].entry # None
CloserDone(k) == closer' = [closer EXCEPT ![k] = NoCloser]

\* closeLbug() goes on with the next repo id, closeLbug(repoId) returns.
ClosePoll(k) ==
  /\ Waiting(k) /\ entry[closer[k].entry].busy = 0
  /\ reg' = IF reg.pool[closer[k].repo] = None THEN reg ELSE CloseOne(reg, closer[k].repo)
  /\ IF closer[k].all
     THEN closer' = [closer EXCEPT ![k].repo = None, ![k].entry = None]
     ELSE CloserDone(k)
  /\ UNCHANGED <<entry, init>>

CloseTimeout_Never(k) == FALSE /\ UNCHANGED vars

CloseTimeout(k) ==
  /\ Waiting(k) /\ entry[closer[k].entry].busy > 0
  /\ entry' = IF reg.pool[closer[k].repo] = closer[k].entry
              THEN [entry EXCEPT ![closer[k].entry].closing = FALSE]
              ELSE entry
  /\ CloserDone(k)
  /\ UNCHANGED <<reg, init>>

\* closeLbug() closes the repo ids it found, one after the other, and then
\* stops the idle timer; a timeout ends it early.
CloseAllStart(k) ==
  /\ closer[k] = NoCloser
  /\ closer' = [closer EXCEPT ![k].all = TRUE, ![k].rest = Registered]
  /\ UNCHANGED <<reg, entry, init>>

CloseAllNext(k) ==
  /\ closer[k].all /\ ~Waiting(k)
  /\ \E r \in closer[k].rest :
       LET later == [closer[k] EXCEPT !.rest = @ \ {r}]
       IN  IF r \in Registered
           THEN Begin(k, r, later)
           ELSE closer' = [closer EXCEPT ![k] = later] /\ UNCHANGED <<reg, entry, init>>

CloseAllEnds(k) ==
  /\ closer[k].all /\ ~Waiting(k) /\ closer[k].rest = {}
  /\ reg' = [reg EXCEPT !.timer = FALSE]
  /\ CloserDone(k)
  /\ UNCHANGED <<entry, init>>

IdleTimer(r) ==
  /\ reg.timer /\ Idle(r)
  /\ reg' = CloseOne(reg, r)
  /\ UNCHANGED <<entry, init, closer>>

-----------------------------------------------------------------------------
CloserStep(k) == ClosePoll(k) \/ CloseTimeout(k) \/ CloseAllNext(k) \/ CloseAllEnds(k)

InitStep(r) ==
  StatFails(r) \/ StatDone(r) \/ OpenRetry(r) \/ LoadFails(r) \/ Register(r)

Next ==
  \/ \E r \in Repo : InitCall(r) \/ InitStep(r) \/ QueryBegins(r) \/ IdleTimer(r)
  \/ \E e \in Entry : QueryEnds(e)
  \/ \E k \in Closer, r \in Repo : CloseStart(k, r)
  \/ \E k \in Closer : CloseAllStart(k) \/ CloserStep(k)

Spec == Init /\ [][Next]_vars

\* The file system and the timers answer: an init goes on after its stat,
\* its delay or its (time-limited) loads, and a closer after its polls.
\* Queries need not end.
FairSpec ==
  /\ Spec
  /\ \A r \in Repo : WF_vars(InitStep(r))
  /\ \A k \in Closer : WF_vars(CloserStep(k))

-----------------------------------------------------------------------------
(* Properties *)

\* Every variable has its type; in particular no entry ever counts more
\* queries than it has connections, whoever closes or replaces entries.
TypeOK ==
  /\ reg \in Registry
  /\ entry \in [Entry -> EntryState]
  /\ init \in [Repo -> InitState]
  /\ closer \in [Closer -> CloserState]

\* Who uses database d: registered entries, and inits that load extensions.
Users(d) == {r \in Registered : EntryOf(r).db = d} \union {r \in Repo : init[r].db = d}

\* An open database that the cache does not know.  Two inits of one path
\* that both waited for a lock leave one behind (see DbOutlivesEntries).
Orphans == reg.open \ Range(reg.cache)

\* A cached database counts exactly the entries and inits that use it,
\* through evictions in the middle of an init, failed loads and repo ids
\* that share it, as long as no path was opened twice.
RefCountsExact ==
  Orphans = {} => \A d \in reg.open : reg.refs[d] = Cardinality(Users(d))

\* Whoever holds a database that was not opened twice holds an open one.
UsersHaveOpenDb ==
  Orphans = {} => \A d \in Db : Users(d) # {} => d \in reg.open

\* An entry with a query in flight is removed in one situation only: by a
\* closeLbug whose own entry had already been replaced.
\* Eviction, the idle timer and a closer of this entry spare it.
OnlyStaleCloserRemovesBusy ==
  [][\A r \in Registered : EntryOf(r).busy > 0 /\ reg'.pool[r] = None
       => \E k \in Closer : closer[k].repo = r /\ closer[k].entry # reg.pool[r]]_vars

\* Every init settles: the retries of a locked database are bounded.
InitSettles == \A r \in Repo : init[r].at # "none" ~> init[r].at = "none"

\* Every closeLbug returns, even when a query never ends.
CloseReturns == \A k \in Closer : closer[k] # NoCloser ~> closer[k] = NoCloser

(* What the comments of the file say *)

\* pool-adapter.ts:268, "Only closes the Database when no other repoIds
\* reference it": a registered entry has an open database.
DbOutlivesEntries == \A r \in Registered : EntryOf(r).db \in reg.open
=============================================================================
