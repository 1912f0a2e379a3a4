--------------------------- MODULE PoolRegistry_proofs ---------------------------
(***************************************************************************)
(* Reference counts of the connection pool, for any number of repo ids,     *)
(* paths, databases and closers.                                            *)
(*                                                                          *)
(* While every open database is cached, counts and users agree.  Once a     *)
(* path was opened twice, the database that is no longer cached has users   *)
(* whose references are given back to the other one.  From then on some     *)
(* orphan counts more references than it has users, and as it is closed     *)
(* only by an init that fails with a count of one, it never goes away: so   *)
(* the premise `no orphans' cannot become true again with wrong counts.     *)
(***************************************************************************)
EXTENDS PoolRegistry, FiniteSetTheorems, TLAPS

\* Who uses which database, in registry s with entries en and inits in.
UsersIn(s, en, in) ==
  [d \in Db |-> {r \in Repo : \/ (s.pool[r] # None /\ en[s.pool[r]].db = d)
                              \/ in[r].db = d}]

-----------------------------------------------------------------------------
(* The parts of the inductive invariant.  users is a function from databases *)
(* to sets of repo ids.                                                      *)

\* A cached database is open, cached for one path and used through that path.
CacheSound(cache, open, users) ==
  \A p \in Path : cache[p] # None =>
    /\ cache[p] \in open
    /\ \A q \in Path : cache[q] = cache[p] => q = p
    /\ \A r \in users[cache[p]] : PathOf[r] = p

OrphansOf(cache, open) == {d \in open : \A p \in Path : cache[p] # d}

\* Some orphan will never be closed.
Leaked(cache, refs, open, users) ==
  \E d \in OrphansOf(cache, open) : refs[d] > Cardinality(users[d])

Exact(refs, open, users) ==
  /\ \A d \in open : refs[d] = Cardinality(users[d])
  /\ \A d \in Db : users[d] # {} => d \in open

BooksTyped(cache, refs, open, users) ==
  /\ cache \in [Path -> Db \union {None}]
  /\ refs \in [Db -> Nat]
  /\ open \in SUBSET Db
  /\ users \in [Db -> SUBSET Repo]
  /\ \A d \in Db : IsFiniteSet(users[d])

Books(cache, refs, open, users) ==
  /\ BooksTyped(cache, refs, open, users)
  /\ CacheSound(cache, open, users)
  /\ Leaked(cache, refs, open, users) \/ Exact(refs, open, users)

\* How far an init is, and what a repo id has.
Wired(s, en, in) ==
  \A r \in Repo :
    /\ in[r].at # "none" => s.pool[r] = None
    /\ in[r].at = "loading" <=> in[r].db # None
    /\ in[r].at = "opening" => in[r].attempt < MaxAttempts
    /\ s.pool[r] # None => en[s.pool[r]].db # None

RegistryInv(s, en, in) ==
  /\ s \in Registry /\ en \in [Entry -> EntryState] /\ in \in [Repo -> InitState]
  /\ Wired(s, en, in)
  /\ Books(s.cache, s.refs, s.open, UsersIn(s, en, in))

ClosersTyped ==
  /\ closer \in [Closer -> CloserState]
  /\ \A k \in Closer : closer[k].entry # None => closer[k].repo # None

\* The inductive invariant.
PoolInv == RegistryInv(reg, entry, init) /\ ClosersTyped

-----------------------------------------------------------------------------
(* The books: a user joins a database, or leaves it *)

LEMMA Counted ==
  ASSUME NEW users \in [Db -> SUBSET Repo], NEW d \in Db, IsFiniteSet(users[d])
  PROVE  /\ Cardinality(users[d]) \in Nat
         /\ Cardinality(users[d]) = 0 <=> users[d] = {}
BY FS_CardinalityType, FS_EmptySet

\* A new database is cached, before anybody uses it.
LEMMA OpeningKeepsBooks ==
  ASSUME NEW cache, NEW refs, NEW open, NEW users, Books(cache, refs, open, users),
         NEW p \in Path, NEW d \in Db, d \notin open, users[d] = {}, None \notin Db
  PROVE  Books([cache EXCEPT ![p] = d], [refs EXCEPT ![d] = 0], open \union {d}, users)
<1> DEFINE c == [cache EXCEPT ![p] = d]
           f == [refs EXCEPT ![d] = 0]
           o == open \union {d}
<1>1. BooksTyped(cache, refs, open, users) /\ CacheSound(cache, open, users)
  BY DEF Books
<1>2. BooksTyped(c, f, o, users)
  BY <1>1 DEF BooksTyped
<1>3. /\ c[p] = d /\ \A q \in Path \ {p} : c[q] = cache[q]
      /\ f[d] = 0 /\ \A e \in Db \ {d} : f[e] = refs[e]
  BY <1>1 DEF BooksTyped
<1> HIDE DEF c, f
<1>4. CacheSound(c, o, users)
  BY <1>1, <1>3 DEF CacheSound
<1>5. CASE Leaked(cache, refs, open, users)
  <2>1. PICK e \in OrphansOf(cache, open) : refs[e] > Cardinality(users[e])
    BY <1>5 DEF Leaked
  <2>2. e \in OrphansOf(c, o) /\ f[e] = refs[e]
    BY <1>1, <1>3, <2>1 DEF OrphansOf, BooksTyped
  <2> QED
    BY <1>2, <1>4, <2>1, <2>2 DEF Books, Leaked, c, f
<1>6. CASE Exact(refs, open, users)
  <2>1. Cardinality(users[d]) = 0
    BY FS_EmptySet
  <2>2. \A e \in o : f[e] = Cardinality(users[e])
    BY <1>1, <1>3, <1>6, <2>1 DEF Exact, BooksTyped
  <2> QED
    BY <1>2, <1>4, <1>6, <2>2 DEF Books, Exact, c, f
<1> QED
  BY <1>5, <1>6 DEF Books

\* A repo id joins a cached database.
LEMMA JoiningKeepsBooks ==
  ASSUME NEW cache, NEW refs, NEW open, NEW users, Books(cache, refs, open, users),
         NEW r \in Repo, PathOf[r] \in Path, NEW d \in Db, cache[PathOf[r]] = d,
         r \notin users[d], None \notin Db
  PROVE  Books(cache, [refs EXCEPT ![d] = @ + 1], open, [users EXCEPT ![d] = @ \union {r}])
<1> DEFINE f == [refs EXCEPT ![d] = @ + 1]
           v == [users EXCEPT ![d] = @ \union {r}]
<1>1. BooksTyped(cache, refs, open, users) /\ CacheSound(cache, open, users)
  BY DEF Books
<1>2. /\ f[d] = refs[d] + 1 /\ \A e \in Db \ {d} : f[e] = refs[e]
      /\ v[d] = users[d] \union {r} /\ \A e \in Db \ {d} : v[e] = users[e]
      /\ f \in [Db -> Nat] /\ v \in [Db -> SUBSET Repo]
  BY <1>1 DEF BooksTyped
<1> HIDE DEF f, v
<1>3. IsFiniteSet(v[d]) /\ Cardinality(v[d]) = Cardinality(users[d]) + 1
  BY <1>1, <1>2, FS_AddElement DEF BooksTyped
<1>4. BooksTyped(cache, f, open, v)
  BY <1>1, <1>2, <1>3 DEF BooksTyped
<1>5. CacheSound(cache, open, v)
  BY <1>1, <1>2 DEF CacheSound, BooksTyped
<1>6. CASE Leaked(cache, refs, open, users)
  <2>1. PICK e \in OrphansOf(cache, open) : refs[e] > Cardinality(users[e])
    BY <1>6 DEF Leaked
  <2>2. e # d /\ e \in Db
    BY <1>1, <2>1 DEF OrphansOf, BooksTyped
  <2>3. f[e] = refs[e] /\ v[e] = users[e]
    BY <1>2, <2>2
  <2> QED
    BY <1>4, <1>5, <2>1, <2>3 DEF Books, Leaked, f, v
<1>7. CASE Exact(refs, open, users)
  <2>1. d \in open
    BY <1>1 DEF CacheSound
  <2>2. \A e \in open : f[e] = Cardinality(v[e])
    BY <1>1, <1>2, <1>3, <1>7, <2>1 DEF Exact, BooksTyped
  <2>3. \A e \in Db : v[e] # {} => e \in open
    BY <1>2, <1>7, <2>1 DEF Exact
  <2> QED
    BY <1>4, <1>5, <2>2, <2>3 DEF Books, Exact, f, v
<1> QED
  BY <1>6, <1>7 DEF Books

\* What Released does to the registry: a reference to d is given back.
GivenBack(cache, refs, open, p, d, c, f, o) ==
  IF refs[d] > 1
  THEN c = cache /\ f = [refs EXCEPT ![d] = @ - 1] /\ o = open
  ELSE /\ c = [cache EXCEPT ![p] = None] /\ f = [refs EXCEPT ![d] = 0]
       /\ o = open \ {d}

LEMMA GivenBackTypes ==
  ASSUME NEW cache, NEW refs, NEW open, NEW users, BooksTyped(cache, refs, open, users),
         NEW p \in Path, NEW d \in Db, None \notin Db,
         NEW c, NEW f, NEW o, GivenBack(cache, refs, open, p, d, c, f, o),
         NEW r \in Repo, NEW e \in Db
  PROVE  /\ BooksTyped(c, f, o, [users EXCEPT ![e] = @ \ {r}])
         /\ f[d] = IF refs[d] > 1 THEN refs[d] - 1 ELSE 0
         /\ \A g \in Db \ {d} : f[g] = refs[g]
         /\ \A g \in Db \ {d} : g \in o <=> g \in open
         /\ \A q \in Path : c[q] = cache[q] \/ (q = p /\ c[q] = None)
<1> DEFINE v == [users EXCEPT ![e] = @ \ {r}]
<1>1. /\ v \in [Db -> SUBSET Repo]
      /\ v[e] = users[e] \ {r} /\ \A g \in Db \ {e} : v[g] = users[g]
  BY DEF BooksTyped
<1> HIDE DEF v
<1>2. \A g \in Db : IsFiniteSet(v[g])
  BY <1>1, FS_RemoveElement DEF BooksTyped
<1>3. /\ c \in [Path -> Db \union {None}] /\ f \in [Db -> Nat] /\ o \in SUBSET Db
      /\ f[d] = IF refs[d] > 1 THEN refs[d] - 1 ELSE 0
      /\ \A g \in Db \ {d} : f[g] = refs[g]
      /\ \A g \in Db \ {d} : g \in o <=> g \in open
      /\ \A q \in Path : c[q] = cache[q] \/ (q = p /\ c[q] = None)
  BY DEF BooksTyped, GivenBack
<1> QED
  BY <1>1, <1>2, <1>3 DEF BooksTyped, v

LEMMA LeaverCounted ==
  ASSUME NEW users \in [Db -> SUBSET Repo], NEW d \in Db, IsFiniteSet(users[d]),
         NEW r \in users[d], NEW v, v = [users EXCEPT ![d] = @ \ {r}]
  PROVE  /\ v \in [Db -> SUBSET Repo]
         /\ Cardinality(v[d]) \in Nat /\ Cardinality(users[d]) = Cardinality(v[d]) + 1
         /\ Cardinality(v[d]) = 0 <=> v[d] = {}
         /\ \A e \in Db \ {d} : v[e] = users[e]
<1>1. v[d] = users[d] \ {r}
  OBVIOUS
<1>2. /\ IsFiniteSet(v[d]) /\ Cardinality(v[d]) = Cardinality(users[d]) - 1
      /\ Cardinality(users[d]) \in Nat /\ Cardinality(v[d]) \in Nat
      /\ Cardinality(v[d]) = 0 <=> v[d] = {}
  BY <1>1, FS_RemoveElement, FS_CardinalityType, FS_EmptySet
<1> QED
  BY <1>2

\* The entry of a repo id goes: the database that is cached for its path gets
\* the reference back, whether or not it is the one the entry used.
LEMMA ClosingKeepsBooks ==
  ASSUME NEW cache, NEW refs, NEW open, NEW users, Books(cache, refs, open, users),
         NEW d \in Db, NEW r \in users[d], PathOf[r] \in Path, None \notin Db,
         NEW c, NEW f, NEW o,
         IF cache[PathOf[r]] = None THEN c = cache /\ f = refs /\ o = open
         ELSE GivenBack(cache, refs, open, PathOf[r], cache[PathOf[r]], c, f, o)
  PROVE  Books(c, f, o, [users EXCEPT ![d] = @ \ {r}])
<1> DEFINE v == [users EXCEPT ![d] = @ \ {r}]
           x == cache[PathOf[r]]
<1> SUFFICES Books(c, f, o, v)
  OBVIOUS
<1>1. /\ BooksTyped(cache, refs, open, users) /\ CacheSound(cache, open, users)
      /\ r \in Repo /\ x \in Db \union {None}
  BY DEF Books, BooksTyped
<1>2. /\ v \in [Db -> SUBSET Repo]
      /\ Cardinality(v[d]) \in Nat /\ Cardinality(users[d]) = Cardinality(v[d]) + 1
      /\ Cardinality(v[d]) = 0 <=> v[d] = {}
      /\ \A e \in Db \ {d} : v[e] = users[e]
  <2>1. users \in [Db -> SUBSET Repo] /\ IsFiniteSet(users[d])
    BY <1>1 DEF BooksTyped
  <2> QED
    BY <2>1, LeaverCounted
<1>3. \A e \in Db : v[e] \subseteq users[e]
  BY <1>1 DEF BooksTyped
<1>4. /\ BooksTyped(c, f, o, v)
      /\ x # None => f[x] = IF refs[x] > 1 THEN refs[x] - 1 ELSE 0
      /\ \A g \in Db \ {x} : f[g] = refs[g]
      /\ \A g \in Db \ {x} : g \in o <=> g \in open
      /\ \A q \in Path : c[q] = cache[q] \/ (q = PathOf[r] /\ c[q] = None)
      /\ x # None => (x \notin o => c[PathOf[r]] = None)
      /\ x # None => (x \in o <=> refs[x] > 1 /\ x \in open)
  <2>1. CASE x = None
    <3>1. \A e \in Db : IsFiniteSet(v[e])
      BY <1>1, FS_RemoveElement DEF BooksTyped
    <3> QED
      BY <1>1, <1>2, <2>1, <3>1 DEF BooksTyped
  <2>2. CASE x # None
    <3>1. GivenBack(cache, refs, open, PathOf[r], x, c, f, o)
      BY <2>2
    <3>2. /\ BooksTyped(c, f, o, v)
          /\ f[x] = IF refs[x] > 1 THEN refs[x] - 1 ELSE 0
          /\ \A g \in Db \ {x} : f[g] = refs[g]
          /\ \A g \in Db \ {x} : g \in o <=> g \in open
          /\ \A q \in Path : c[q] = cache[q] \/ (q = PathOf[r] /\ c[q] = None)
      <4>1. x \in Db /\ PathOf[r] \in Path /\ BooksTyped(cache, refs, open, users)
        BY <1>1, <2>2
      <4> HIDE DEF x
      <4> QED
        BY <1>1, <3>1, <4>1, GivenBackTypes
    <3>3. /\ x \notin o => c[PathOf[r]] = None
          /\ x \in o <=> refs[x] > 1 /\ x \in open
      BY <1>1, <2>2, <3>1 DEF GivenBack, BooksTyped, CacheSound
    <3> QED
      BY <3>2, <3>3
  <2> QED
    BY <2>1, <2>2
<1> HIDE DEF v
<1>5. CacheSound(c, o, v)
  <2> SUFFICES ASSUME NEW p \in Path, c[p] # None
               PROVE  /\ c[p] \in o
                      /\ \A q \in Path : c[q] = c[p] => q = p
                      /\ \A q \in v[c[p]] : PathOf[q] = p
    BY DEF CacheSound
  <2>1. c[p] = cache[p] /\ c[p] \in open /\ c[p] \in Db
    BY <1>1, <1>4 DEF CacheSound, BooksTyped
  <2>2. /\ \A q \in Path : c[q] = c[p] => q = p
        /\ \A q \in v[c[p]] : PathOf[q] = p
    BY <1>1, <1>3, <1>4, <2>1 DEF CacheSound
  <2>3. c[p] = x => p = PathOf[r]
    BY <1>1, <2>1 DEF CacheSound
  <2> QED
    BY <1>4, <2>1, <2>2, <2>3
<1>6. CASE Leaked(cache, refs, open, users)
  <2>1. PICK e \in OrphansOf(cache, open) : refs[e] > Cardinality(users[e])
    BY <1>6 DEF Leaked
  <2>2. e \in Db /\ e # x
    BY <1>1, <2>1 DEF OrphansOf, BooksTyped
  <2>3. e \in OrphansOf(c, o) /\ f[e] = refs[e]
    BY <1>1, <1>4, <2>1, <2>2 DEF OrphansOf
  <2>4. Cardinality(v[e]) <= Cardinality(users[e])
    <3>1. CASE e = d
      BY <1>2, <3>1
    <3>2. CASE e # d
      <4>1. Cardinality(users[e]) \in Nat
        BY <1>1, <2>2, Counted DEF BooksTyped
      <4> QED
        BY <1>2, <2>2, <3>2, <4>1
    <3> QED
      BY <3>1, <3>2
  <2>5. f[e] > Cardinality(v[e])
    <3>1. Cardinality(users[e]) \in Nat /\ Cardinality(v[e]) \in Nat
      BY <1>1, <1>4, <2>2, Counted DEF BooksTyped
    <3>2. refs[e] \in Nat
      BY <1>1, <2>2 DEF BooksTyped
    <3> QED
      BY <2>1, <2>3, <2>4, <3>1, <3>2
  <2> QED
    BY <1>4, <1>5, <2>3, <2>5 DEF Books, Leaked
<1>7. CASE Exact(refs, open, users) /\ x = d
  <2>1. d \in open /\ refs[d] = Cardinality(v[d]) + 1
    BY <1>2, <1>7 DEF Exact
  <2>2. /\ f[d] = Cardinality(v[d])
        /\ d \in o <=> v[d] # {}
    BY <1>2, <1>4, <1>7, <2>1
  <2> QED
    BY <1>2, <1>4, <1>5, <1>7, <2>2 DEF Books, Exact, BooksTyped
<1>8. CASE Exact(refs, open, users) /\ x # d
  <2>1. d \in open /\ refs[d] = Cardinality(v[d]) + 1
    BY <1>2, <1>8 DEF Exact
  <2>2. \A p \in Path : cache[p] # d
    BY <1>1, <1>8 DEF CacheSound
  <2>3. d \in OrphansOf(c, o) /\ f[d] > Cardinality(v[d])
    BY <1>2, <1>4, <1>8, <2>1, <2>2 DEF OrphansOf
  <2> QED
    BY <1>4, <1>5, <2>3 DEF Books, Leaked
<1> QED
  BY <1>6, <1>7, <1>8 DEF Books

\* An init fails and gives back the database that it holds.
LEMMA FailingKeepsBooks ==
  ASSUME NEW cache, NEW refs, NEW open, NEW users, Books(cache, refs, open, users),
         NEW d \in Db, NEW r \in users[d], PathOf[r] \in Path, None \notin Db,
         NEW c, NEW f, NEW o, GivenBack(cache, refs, open, PathOf[r], d, c, f, o)
  PROVE  Books(c, f, o, [users EXCEPT ![d] = @ \ {r}])
<1> DEFINE v == [users EXCEPT ![d] = @ \ {r}]
<1> SUFFICES Books(c, f, o, v)
  OBVIOUS
<1>1. /\ BooksTyped(cache, refs, open, users) /\ CacheSound(cache, open, users)
      /\ r \in Repo
  BY DEF Books, BooksTyped
<1>2. /\ v \in [Db -> SUBSET Repo]
      /\ Cardinality(v[d]) \in Nat /\ Cardinality(users[d]) = Cardinality(v[d]) + 1
      /\ Cardinality(v[d]) = 0 <=> v[d] = {}
      /\ \A e \in Db \ {d} : v[e] = users[e]
  <2>1. users \in [Db -> SUBSET Repo] /\ IsFiniteSet(users[d])
    BY <1>1 DEF BooksTyped
  <2> QED
    BY <2>1, LeaverCounted
<1>3. \A e \in Db : v[e] \subseteq users[e]
  BY <1>1 DEF BooksTyped
<1>4. /\ BooksTyped(c, f, o, v)
      /\ f[d] = IF refs[d] > 1 THEN refs[d] - 1 ELSE 0
      /\ \A g \in Db \ {d} : f[g] = refs[g]
      /\ \A g \in Db \ {d} : g \in o <=> g \in open
      /\ \A q \in Path : c[q] = cache[q] \/ (q = PathOf[r] /\ c[q] = None)
  BY <1>1, GivenBackTypes
<1>5. /\ refs[d] > 1 => c = cache /\ o = open
      /\ ~(refs[d] > 1) => c[PathOf[r]] = None /\ d \notin o
  BY <1>1 DEF GivenBack, BooksTyped
<1> HIDE DEF v
<1>6. CacheSound(c, o, v)
  <2> SUFFICES ASSUME NEW p \in Path, c[p] # None
               PROVE  /\ c[p] \in o
                      /\ \A q \in Path : c[q] = c[p] => q = p
                      /\ \A q \in v[c[p]] : PathOf[q] = p
    BY DEF CacheSound
  <2>1. c[p] = cache[p] /\ c[p] \in open /\ c[p] \in Db
    BY <1>1, <1>4 DEF CacheSound, BooksTyped
  <2>2. /\ \A q \in Path : c[q] = c[p] => q = p
        /\ \A q \in v[c[p]] : PathOf[q] = p
    BY <1>1, <1>3, <1>4, <2>1 DEF CacheSound
  <2>3. c[p] = d => p = PathOf[r]
    BY <1>1, <2>1 DEF CacheSound
  <2> QED
    BY <1>4, <1>5, <2>1, <2>2, <2>3
<1>7. CASE Leaked(cache, refs, open, users)
  <2>1. PICK e \in OrphansOf(cache, open) : refs[e] > Cardinality(users[e])
    BY <1>7 DEF Leaked
  <2>2. e \in Db /\ refs[e] \in Nat /\ e \in open /\ \A p \in Path : cache[p] # e
    BY <1>1, <2>1 DEF OrphansOf, BooksTyped
  <2>3. CASE e = d
    <3>1. refs[d] > 1 /\ f[d] > Cardinality(v[d])
      BY <1>2, <1>4, <2>1, <2>2, <2>3
    <3> QED
      BY <1>4, <1>5, <1>6, <2>1, <2>3, <3>1 DEF Books, Leaked
  <2>4. CASE e # d
    <3>1. f[e] = refs[e] /\ v[e] = users[e]
      BY <1>2, <1>4, <2>2, <2>4
    <3>2. e \in OrphansOf(c, o)
      BY <1>1, <1>4, <2>1, <2>2, <2>4 DEF OrphansOf, BooksTyped
    <3> QED
      BY <1>4, <1>6, <2>1, <3>1, <3>2 DEF Books, Leaked
  <2> QED
    BY <2>3, <2>4
<1>8. CASE Exact(refs, open, users)
  <2>1. d \in open /\ refs[d] = Cardinality(v[d]) + 1
    BY <1>2, <1>8 DEF Exact
  <2>2. /\ f[d] = Cardinality(v[d])
        /\ d \in o <=> v[d] # {}
    BY <1>2, <1>4, <1>5, <2>1
  <2> QED
    BY <1>2, <1>4, <1>6, <1>8, <2>2 DEF Books, Exact, BooksTyped
<1> QED
  BY <1>7, <1>8 DEF Books

-----------------------------------------------------------------------------
(* Parts of actions, as functions of the registry *)

LEMMA NoneElsewhere == None \notin Db /\ None \notin Entry /\ None \notin Repo
BY RegistryAssumption

LEMMA PathsTyped == \A r \in Repo : PathOf[r] \in Path
BY RegistryAssumption

LEMMA UsersTyped ==
  ASSUME NEW s, NEW en, NEW in
  PROVE  /\ UsersIn(s, en, in) \in [Db -> SUBSET Repo]
         /\ \A d \in Db, r \in Repo : r \in UsersIn(s, en, in)[d] <=>
              (s.pool[r] # None /\ en[s.pool[r]].db = d) \/ in[r].db = d
BY DEF UsersIn

\* Released on the fields of the registry.
LEMMA ReleasedFields ==
  ASSUME NEW s \in Registry, NEW p \in Path, NEW d \in Db
  PROVE  /\ Released(s, p, d) \in Registry
         /\ Released(s, p, d).pool = s.pool
         /\ GivenBack(s.cache, s.refs, s.open, p, d, Released(s, p, d).cache,
                      Released(s, p, d).refs, Released(s, p, d).open)
<1>1. s.refs[d] \in Nat
  BY DEF Registry
<1>2. CASE s.refs[d] > 1
  <2> DEFINE t == [s EXCEPT !.refs[d] = @ - 1]
  <2>1. Released(s, p, d) = t
    BY <1>2 DEF Released
  <2>2. [s.refs EXCEPT ![d] = @ - 1] \in [Db -> Nat]
    BY <1>1, <1>2 DEF Registry
  <2>3. t \in Registry
    BY <2>2 DEF Registry
  <2>4. /\ t.pool = s.pool /\ t.cache = s.cache /\ t.open = s.open
        /\ t.refs = [s.refs EXCEPT ![d] = @ - 1]
    BY DEF Registry
  <2> QED
    BY <1>2, <2>1, <2>3, <2>4 DEF GivenBack
<1>3. CASE ~(s.refs[d] > 1)
  <2> DEFINE t == [s EXCEPT !.refs[d] = 0, !.cache[p] = None, !.open = @ \ {d}]
  <2>1. Released(s, p, d) = t
    BY <1>3 DEF Released
  <2>2. t \in Registry
    BY DEF Registry
  <2>3. /\ t.pool = s.pool /\ t.cache = [s.cache EXCEPT ![p] = None]
        /\ t.open = s.open \ {d} /\ t.refs = [s.refs EXCEPT ![d] = 0]
    BY DEF Registry
  <2> QED
    BY <1>3, <2>1, <2>2, <2>3 DEF GivenBack
<1> QED
  BY <1>2, <1>3

\* The entry of r goes, by eviction, by the idle timer or by closeLbug.
LEMMA CloseOneKeeps ==
  ASSUME NEW s, NEW en, NEW in, RegistryInv(s, en, in), NEW r \in Repo, s.pool[r] # None
  PROVE  /\ RegistryInv(CloseOne(s, r), en, in)
         /\ CloseOne(s, r).pool = [s.pool EXCEPT ![r] = None]
<1> DEFINE p == PathOf[r]
           t == [s EXCEPT !.pool[r] = None]
           n == CloseOne(s, r)
           d == en[s.pool[r]].db
           users == UsersIn(s, en, in)
<1>1. /\ s \in Registry /\ en \in [Entry -> EntryState] /\ in \in [Repo -> InitState]
      /\ Wired(s, en, in) /\ Books(s.cache, s.refs, s.open, users)
  BY DEF RegistryInv
<1>2. p \in Path /\ None \notin Db
  BY PathsTyped, NoneElsewhere
<1>3. s.pool[r] \in Entry
  BY <1>1 DEF Registry
<1>4. d \in Db /\ in[r].db = None
  BY <1>1, <1>3 DEF Wired, EntryState, InitState
<1>5. /\ t \in Registry /\ t.pool = [s.pool EXCEPT ![r] = None]
      /\ t.cache = s.cache /\ t.refs = s.refs /\ t.open = s.open
  BY <1>1 DEF Registry
<1>6. /\ n \in Registry /\ n.pool = [s.pool EXCEPT ![r] = None]
      /\ IF s.cache[p] = None THEN n.cache = s.cache /\ n.refs = s.refs /\ n.open = s.open
         ELSE GivenBack(s.cache, s.refs, s.open, p, s.cache[p], n.cache, n.refs, n.open)
  <2>1. CASE s.cache[p] = None
    <3>1. n = t
      BY <2>1 DEF CloseOne
    <3> QED
      BY <1>5, <2>1, <3>1
  <2>2. CASE s.cache[p] # None
    <3>1. n = Released(t, p, s.cache[p]) /\ s.cache[p] \in Db
      BY <1>1, <1>2, <2>2 DEF CloseOne, Registry
    <3> HIDE DEF t, n
    <3> QED
      BY <1>2, <1>5, <2>2, <3>1, ReleasedFields
  <2> QED
    BY <2>1, <2>2
<1> HIDE DEF n, t
<1>7. UsersIn(n, en, in) = [users EXCEPT ![d] = @ \ {r}]
  <2>1. \A e \in Db, q \in Repo : q \in UsersIn(n, en, in)[e] <=>
          q \in users[e] /\ ~(e = d /\ q = r)
    <3> SUFFICES ASSUME NEW e \in Db, NEW q \in Repo
                 PROVE  q \in UsersIn(n, en, in)[e] <=> q \in users[e] /\ ~(e = d /\ q = r)
      OBVIOUS
    <3>1. q = r => n.pool[q] = None
      BY <1>1, <1>6 DEF Registry
    <3>2. q # r => n.pool[q] = s.pool[q]
      BY <1>1, <1>6 DEF Registry
    <3> QED
      BY <1>2, <1>4, <3>1, <3>2, UsersTyped
  <2>2. users \in [Db -> SUBSET Repo] /\ UsersIn(n, en, in) \in [Db -> SUBSET Repo]
    BY UsersTyped
  <2> HIDE DEF users, d
  <2>3. \A e \in Db : UsersIn(n, en, in)[e] = [users EXCEPT ![d] = @ \ {r}][e]
    BY <2>1, <2>2
  <2> QED
    BY <2>2, <2>3
<1>8. r \in users[d]
  BY <1>4, UsersTyped
<1>9. Books(n.cache, n.refs, n.open, [users EXCEPT ![d] = @ \ {r}])
  <2> HIDE DEF users, d
  <2> QED
    BY <1>1, <1>2, <1>4, <1>6, <1>8, ClosingKeepsBooks
<1>10. Wired(n, en, in)
  BY <1>1, <1>6 DEF Wired, Registry
<1> QED
  BY <1>1, <1>6, <1>7, <1>9, <1>10 DEF RegistryInv, n

LEMMA EvictionKeeps ==
  ASSUME PoolInv, NEW s \in AfterEviction
  PROVE  /\ RegistryInv(s, entry, init)
         /\ \A r \in Repo : reg.pool[r] = None => s.pool[r] = None
         /\ \A r \in Repo : s.pool[r] # None => s.pool[r] = reg.pool[r]
         /\ \A r \in Repo : reg.pool[r] # None /\ s.pool[r] = None => entry[reg.pool[r]].busy = 0
<1>1. CASE s = reg
  BY <1>1 DEF PoolInv
<1>2. CASE \E r \in Repo : Idle(r) /\ s = CloseOne(reg, r)
  <2>1. PICK r \in Repo : Idle(r) /\ s = CloseOne(reg, r)
    BY <1>2
  <2>2. reg.pool[r] # None /\ entry[reg.pool[r]].busy = 0 /\ RegistryInv(reg, entry, init)
    BY <2>1 DEF Idle, Registered, EntryOf, PoolInv
  <2>3. RegistryInv(s, entry, init) /\ s.pool = [reg.pool EXCEPT ![r] = None]
    BY <2>1, <2>2, CloseOneKeeps
  <2>4. reg.pool \in [Repo -> Entry \union {None}]
    BY <2>2 DEF RegistryInv, Registry
  <2> QED
    BY <2>2, <2>3, <2>4
<1> QED
  BY <1>1, <1>2 DEF AfterEviction

\* An init gets hold of the cached database.
LEMMA AttachedKeeps ==
  ASSUME NEW s, NEW en, NEW in, RegistryInv(s, en, in), NEW r \in Repo, NEW d \in Db,
         s.cache[PathOf[r]] = d, in[r].at \in {"stat", "opening"}
  PROVE  RegistryInv([s EXCEPT !.refs[d] = @ + 1], en,
                     [in EXCEPT ![r] = [at |-> "loading", attempt |-> 0, db |-> d]])
<1> DEFINE users == UsersIn(s, en, in)
           t == [s EXCEPT !.refs[d] = @ + 1]
           jn == [in EXCEPT ![r] = [at |-> "loading", attempt |-> 0, db |-> d]]
<1>1. /\ s \in Registry /\ en \in [Entry -> EntryState] /\ in \in [Repo -> InitState]
      /\ Wired(s, en, in) /\ Books(s.cache, s.refs, s.open, users)
  BY DEF RegistryInv
<1>2. PathOf[r] \in Path /\ None \notin Db
  BY PathsTyped, NoneElsewhere
<1>3. s.pool[r] = None /\ in[r].db = None
  BY <1>1 DEF Wired
<1>4. [s.refs EXCEPT ![d] = @ + 1] \in [Db -> Nat]
  BY <1>1 DEF Registry
<1>5. /\ t \in Registry /\ t.pool = s.pool /\ t.cache = s.cache /\ t.open = s.open
      /\ t.refs = [s.refs EXCEPT ![d] = @ + 1]
  BY <1>1, <1>4 DEF Registry
<1> HIDE DEF t
<1>6. 0 \in 0..MaxAttempts
  BY RegistryAssumption
<1>7. /\ jn \in [Repo -> InitState] /\ jn[r].at = "loading" /\ jn[r].db = d
      /\ \A q \in Repo \ {r} : jn[q] = in[q]
  BY <1>1, <1>6 DEF InitState
<1> HIDE DEF jn
<1>8. UsersIn(t, en, jn) = [users EXCEPT ![d] = @ \union {r}]
  <2>0. /\ users \in [Db -> SUBSET Repo] /\ UsersIn(t, en, jn) \in [Db -> SUBSET Repo]
        /\ t.pool = s.pool
    BY <1>5, UsersTyped
  <2> HIDE DEF users
  <2> SUFFICES ASSUME NEW e \in Db
               PROVE  UsersIn(t, en, jn)[e] = [users EXCEPT ![d] = @ \union {r}][e]
    BY <2>0
  <2> USE DEF users
  <2>1. \A q \in Repo : q \in UsersIn(t, en, jn)[e] <=>
          (s.pool[q] # None /\ en[s.pool[q]].db = e) \/ jn[q].db = e
    BY <2>0, UsersTyped
  <2>2. \A q \in Repo : q \in users[e] <=>
          (s.pool[q] # None /\ en[s.pool[q]].db = e) \/ in[q].db = e
    BY UsersTyped
  <2>3. \A q \in Repo : q \in UsersIn(t, en, jn)[e] <=> q \in users[e] \/ (e = d /\ q = r)
    BY <1>2, <1>3, <1>7, <2>1, <2>2
  <2>4. /\ users \in [Db -> SUBSET Repo] /\ UsersIn(t, en, jn)[e] \subseteq Repo
        /\ users[e] \subseteq Repo
    BY UsersTyped
  <2> HIDE DEF users
  <2> QED
    BY <2>3, <2>4
<1>9. r \notin users[d]
  BY <1>2, <1>3, UsersTyped
<1>10. Books(t.cache, t.refs, t.open, [users EXCEPT ![d] = @ \union {r}])
  <2> HIDE DEF users
  <2>1. Books(s.cache, [s.refs EXCEPT ![d] = @ + 1], s.open, [users EXCEPT ![d] = @ \union {r}])
    BY <1>1, <1>2, <1>9, JoiningKeepsBooks
  <2> QED
    BY <1>5, <2>1
<1>11. Wired(t, en, jn)
  BY <1>1, <1>2, <1>3, <1>5, <1>7 DEF Wired
<1> QED
  BY <1>1, <1>5, <1>7, <1>8, <1>10, <1>11 DEF RegistryInv, t, jn

\* What changes neither the registry nor who uses what.
LEMMA QuietKeeps ==
  ASSUME NEW s, NEW en, NEW in, RegistryInv(s, en, in),
         NEW fn \in [Entry -> EntryState], NEW jn \in [Repo -> InitState],
         \A r \in Repo : s.pool[r] # None => fn[s.pool[r]].db = en[s.pool[r]].db,
         \A r \in Repo : jn[r].db = in[r].db, Wired(s, fn, jn)
  PROVE  RegistryInv(s, fn, jn)
<1>1. UsersIn(s, fn, jn) = UsersIn(s, en, in)
  BY DEF UsersIn
<1> QED
  BY <1>1 DEF RegistryInv

\* A new database is opened and cached.
LEMMA OpensKeeps ==
  ASSUME NEW s, NEW en, NEW in, RegistryInv(s, en, in), NEW p \in Path,
         NEW d \in Db, d \notin s.open, UsersIn(s, en, in)[d] = {}
  PROVE  /\ RegistryInv([s EXCEPT !.cache[p] = d, !.refs[d] = 0, !.open = @ \union {d}], en, in)
         /\ [s EXCEPT !.cache[p] = d, !.refs[d] = 0, !.open = @ \union {d}].cache[p] = d
<1> DEFINE users == UsersIn(s, en, in)
           t == [s EXCEPT !.cache[p] = d, !.refs[d] = 0, !.open = @ \union {d}]
<1>1. /\ s \in Registry /\ en \in [Entry -> EntryState] /\ in \in [Repo -> InitState]
      /\ Wired(s, en, in) /\ Books(s.cache, s.refs, s.open, users)
  BY DEF RegistryInv
<1>2. None \notin Db
  BY NoneElsewhere
<1>3. /\ t \in Registry /\ t.pool = s.pool /\ t.cache = [s.cache EXCEPT ![p] = d]
      /\ t.open = s.open \union {d} /\ t.refs = [s.refs EXCEPT ![d] = 0]
      /\ t.cache[p] = d
  BY <1>1 DEF Registry
<1> HIDE DEF t
<1>4. UsersIn(t, en, in) = users
  <2>1. t.pool = s.pool
    BY <1>3
  <2> QED
    BY <2>1 DEF UsersIn
<1>5. Books(t.cache, t.refs, t.open, users)
  <2>1. users[d] = {}
    OBVIOUS
  <2> HIDE DEF users
  <2>2. Books([s.cache EXCEPT ![p] = d], [s.refs EXCEPT ![d] = 0], s.open \union {d}, users)
    BY <1>1, <1>2, <2>1, OpeningKeepsBooks
  <2> QED
    BY <1>3, <2>2
<1>6. Wired(t, en, in)
  <2>1. t.pool = s.pool
    BY <1>3
  <2> QED
    BY <1>1, <2>1 DEF Wired
<1> QED
  BY <1>1, <1>3, <1>4, <1>5, <1>6 DEF RegistryInv, t

LEMMA FreshDbUnused ==
  ASSUME PoolInv, NEW s, RegistryInv(s, entry, init),
         \A r \in Repo : s.pool[r] # None => s.pool[r] = reg.pool[r],
         NEW d \in FreshDb(s)
  PROVE  d \in Db /\ d \notin s.open /\ UsersIn(s, entry, init)[d] = {}
<1>1. d \in Db /\ d \notin s.open /\ \A r \in Repo : init[r].db # d
  BY DEF FreshDb
<1>2. \A r \in Repo : s.pool[r] # None => entry[s.pool[r]].db # d
  <2> SUFFICES ASSUME NEW r \in Repo, s.pool[r] # None PROVE entry[s.pool[r]].db # d
    OBVIOUS
  <2>1. s.pool[r] \in Entry /\ reg.pool[r] = s.pool[r]
    BY DEF RegistryInv, Registry
  <2>2. s.pool[r] \in Entry \ FreshEntry
    BY <2>1 DEF FreshEntry
  <2> QED
    BY <2>2 DEF FreshDb
<1>3. \A r \in Repo : r \notin UsersIn(s, entry, init)[d]
  BY <1>1, <1>2, UsersTyped
<1>4. UsersIn(s, entry, init)[d] \subseteq Repo
  BY <1>1, UsersTyped
<1> QED
  BY <1>1, <1>3, <1>4

\* The init of r that uses no database ends, begins or waits again.
LEMMA InitMoves ==
  ASSUME NEW s, NEW en, NEW in, RegistryInv(s, en, in), NEW r \in Repo,
         in[r].db = None, s.pool[r] = None, NEW x \in InitState, x.db = None,
         x.at # "loading", x.at = "opening" => x.attempt < MaxAttempts
  PROVE  RegistryInv(s, en, [in EXCEPT ![r] = x])
<1> DEFINE jn == [in EXCEPT ![r] = x]
<1>1. /\ s \in Registry /\ en \in [Entry -> EntryState] /\ in \in [Repo -> InitState]
      /\ Wired(s, en, in)
  BY DEF RegistryInv
<1>2. jn \in [Repo -> InitState] /\ jn[r] = x /\ \A q \in Repo \ {r} : jn[q] = in[q]
  BY <1>1
<1> HIDE DEF jn
<1>3. \A q \in Repo : jn[q].db = in[q].db
  BY <1>2
<1>4. Wired(s, en, jn)
  BY <1>1, <1>2 DEF Wired
<1>5. RegistryInv(s, en, jn)
  BY <1>1, <1>2, <1>3, <1>4, QuietKeeps
<1> QED
  BY <1>5 DEF jn

\* One attempt to open the database of r, after an eviction or without one.
LEMMA AttemptKeeps ==
  ASSUME PoolInv, NEW s, RegistryInv(s, entry, init),
         \A r \in Repo : s.pool[r] # None => s.pool[r] = reg.pool[r],
         NEW r \in Repo, init[r].at \in {"stat", "opening"},
         NEW n \in 1..MaxAttempts, Attempt(s, r, n)
  PROVE  RegistryInv(reg', entry, init')
<1>1. init[r].db = None /\ s.pool[r] = None /\ PathOf[r] \in Path
  BY PathsTyped DEF RegistryInv, Wired
<1>2. CASE Opens(s, r)
  <2>1. PICK d \in FreshDb(s) :
          Attached([s EXCEPT !.cache[PathOf[r]] = d, !.refs[d] = 0, !.open = @ \union {d}], r, d)
    BY <1>2 DEF Opens
  <2> DEFINE t == [s EXCEPT !.cache[PathOf[r]] = d, !.refs[d] = 0, !.open = @ \union {d}]
  <2>2. d \in Db /\ d \notin s.open /\ UsersIn(s, entry, init)[d] = {}
    BY FreshDbUnused
  <2>3. RegistryInv(t, entry, init)
    BY <1>1, <2>2, OpensKeeps, Zenon
  <2>6. t.cache[PathOf[r]] = d
    BY <1>1, <2>2 DEF RegistryInv, Registry
  <2>4. /\ reg' = [t EXCEPT !.refs[d] = @ + 1]
        /\ init' = [init EXCEPT ![r] = [at |-> "loading", attempt |-> 0, db |-> d]]
    BY <2>1 DEF Attached
  <2> HIDE DEF t
  <2>5. RegistryInv([t EXCEPT !.refs[d] = @ + 1], entry,
                    [init EXCEPT ![r] = [at |-> "loading", attempt |-> 0, db |-> d]])
    BY <2>2, <2>3, <2>6, AttachedKeeps
  <2> QED
    BY <2>4, <2>5
<1>3. CASE Locked(s, r, n) /\ n # MaxAttempts
  <2> DEFINE x == [at |-> "opening", attempt |-> n, db |-> None]
  <2>1. reg' = s /\ init' = [init EXCEPT ![r] = x]
    BY <1>3 DEF Locked
  <2>2. n \in 0..MaxAttempts /\ n < MaxAttempts
    BY <1>3, RegistryAssumption
  <2>3. x \in InitState /\ x.db = None /\ x.at # "loading" /\ x.attempt < MaxAttempts
    BY <2>2 DEF InitState
  <2> HIDE DEF x
  <2>4. RegistryInv(s, entry, [init EXCEPT ![r] = x])
    BY <1>1, <2>3, InitMoves
  <2> QED
    BY <2>1, <2>4
<1>4. CASE reg' = s /\ InitFails(r)
  <2>1. NoInit \in InitState /\ NoInit.db = None /\ NoInit.at = "none"
    BY RegistryAssumption DEF NoInit, InitState
  <2>2. RegistryInv(s, entry, [init EXCEPT ![r] = NoInit])
    BY <1>1, <2>1, InitMoves
  <2> QED
    BY <1>4, <2>2 DEF InitFails
<1> QED
  BY <1>2, <1>3, <1>4 DEF Attempt, Locked, Unopenable

-----------------------------------------------------------------------------
(* The actions of an init *)

LEMMA NoInitType == NoInit \in InitState /\ NoInit.db = None /\ NoInit.at = "none"
BY RegistryAssumption DEF NoInit, InitState

LEMMA StatDoneKeeps ==
  ASSUME PoolInv, NEW r \in Repo, StatDone(r)
  PROVE  RegistryInv(reg', entry', init')
<1>1. PICK s \in AfterEviction :
        IF s.cache[PathOf[r]] # None THEN Attached(s, r, s.cache[PathOf[r]])
        ELSE Attempt(s, r, 1)
  BY DEF StatDone
<1>2. RegistryInv(s, entry, init) /\ \A q \in Repo : s.pool[q] # None => s.pool[q] = reg.pool[q]
  BY EvictionKeeps
<1>3. init[r].at = "stat" /\ entry' = entry
  BY DEF StatDone
<1>4. CASE s.cache[PathOf[r]] # None
  <2> DEFINE d == s.cache[PathOf[r]]
  <2>1. d \in Db
    BY <1>2, <1>4, PathsTyped DEF RegistryInv, Registry
  <2>2. /\ reg' = [s EXCEPT !.refs[d] = @ + 1]
        /\ init' = [init EXCEPT ![r] = [at |-> "loading", attempt |-> 0, db |-> d]]
    BY <1>1, <1>4 DEF Attached
  <2>3. s.cache[PathOf[r]] = d
    OBVIOUS
  <2> HIDE DEF d
  <2>4. RegistryInv([s EXCEPT !.refs[d] = @ + 1], entry,
                    [init EXCEPT ![r] = [at |-> "loading", attempt |-> 0, db |-> d]])
    BY <1>2, <1>3, <2>1, <2>3, AttachedKeeps
  <2> QED
    BY <1>3, <2>2, <2>4
<1>5. CASE s.cache[PathOf[r]] = None
  <2>1. 1 \in 1..MaxAttempts
    BY RegistryAssumption
  <2>2. Attempt(s, r, 1)
    BY <1>1, <1>5
  <2> QED
    BY <1>2, <1>3, <2>1, <2>2, AttemptKeeps
<1> QED
  BY <1>4, <1>5

LEMMA OpenRetryKeeps ==
  ASSUME PoolInv, NEW r \in Repo, OpenRetry(r)
  PROVE  RegistryInv(reg', entry', init')
<1>1. init[r].attempt \in 0..MaxAttempts /\ init[r].attempt < MaxAttempts
  BY DEF PoolInv, RegistryInv, Wired, InitState, OpenRetry
<1>2. init[r].attempt + 1 \in 1..MaxAttempts
  BY <1>1, RegistryAssumption
<1>3. RegistryInv(reg', entry, init')
  <2> DEFINE n == init[r].attempt + 1
  <2>1. Attempt(reg, r, n) /\ init[r].at = "opening" /\ n \in 1..MaxAttempts
    BY <1>2 DEF OpenRetry
  <2> HIDE DEF n
  <2> QED
    BY <2>1, AttemptKeeps DEF PoolInv
<1> QED
  BY <1>3 DEF OpenRetry

LEMMA LoadFailsKeeps ==
  ASSUME PoolInv, NEW r \in Repo, LoadFails(r)
  PROVE  RegistryInv(reg', entry', init')
<1> DEFINE p == PathOf[r]
           d == init[r].db
           n == Released(reg, p, d)
           jn == [init EXCEPT ![r] = NoInit]
           users == UsersIn(reg, entry, init)
<1>1. /\ reg \in Registry /\ entry \in [Entry -> EntryState] /\ init \in [Repo -> InitState]
      /\ Wired(reg, entry, init) /\ Books(reg.cache, reg.refs, reg.open, users)
  BY DEF PoolInv, RegistryInv
<1>2. p \in Path /\ None \notin Db /\ init[r].at = "loading"
  BY PathsTyped, NoneElsewhere DEF LoadFails
<1>3. d \in Db /\ reg.pool[r] = None
  BY <1>1, <1>2 DEF Wired, InitState
<1>4. jn \in [Repo -> InitState] /\ jn[r] = NoInit /\ \A q \in Repo \ {r} : jn[q] = init[q]
  BY <1>1, NoInitType
<1>5. n \in Registry /\ n.pool = reg.pool
  BY <1>1, <1>2, <1>3, ReleasedFields
<1>6. GivenBack(reg.cache, reg.refs, reg.open, p, d, n.cache, n.refs, n.open)
  BY <1>1, <1>2, <1>3, ReleasedFields
<1>7. reg' = n /\ entry' = entry /\ init' = jn
  BY DEF LoadFails, InitFails
<1>8. r \in users[d]
  BY <1>3, UsersTyped
<1> HIDE DEF n, jn
<1>9. UsersIn(n, entry, jn) = [users EXCEPT ![d] = @ \ {r}]
  <2>1. n.pool = reg.pool
    BY <1>5
  <2>2. \A e \in Db, q \in Repo : q \in UsersIn(n, entry, jn)[e] <=>
          q \in users[e] /\ ~(e = d /\ q = r)
    <3> SUFFICES ASSUME NEW e \in Db, NEW q \in Repo
                 PROVE  q \in UsersIn(n, entry, jn)[e] <=> q \in users[e] /\ ~(e = d /\ q = r)
      OBVIOUS
    <3>1. q \in UsersIn(n, entry, jn)[e] <=>
            (reg.pool[q] # None /\ entry[reg.pool[q]].db = e) \/ jn[q].db = e
      BY <2>1, UsersTyped
    <3>2. q \in users[e] <=>
            (reg.pool[q] # None /\ entry[reg.pool[q]].db = e) \/ init[q].db = e
      BY UsersTyped
    <3> HIDE DEF users
    <3>3. CASE q = r
      BY <1>2, <1>3, <1>4, <3>1, <3>2, <3>3, NoInitType
    <3>4. CASE q # r
      BY <1>4, <3>1, <3>2, <3>4
    <3> QED
      BY <3>3, <3>4
  <2>3. users \in [Db -> SUBSET Repo] /\ UsersIn(n, entry, jn) \in [Db -> SUBSET Repo]
    BY UsersTyped
  <2> HIDE DEF users, d
  <2>4. \A e \in Db : UsersIn(n, entry, jn)[e] = [users EXCEPT ![d] = @ \ {r}][e]
    BY <2>2, <2>3
  <2> QED
    BY <2>3, <2>4
<1>10. Books(n.cache, n.refs, n.open, [users EXCEPT ![d] = @ \ {r}])
  <2> HIDE DEF users, d
  <2> QED
    BY <1>1, <1>2, <1>3, <1>6, <1>8, FailingKeepsBooks
<1>11. Wired(n, entry, jn)
  <2>1. n.pool = reg.pool
    BY <1>5
  <2> QED
    BY <1>1, <1>4, <2>1, NoInitType DEF Wired
<1>12. RegistryInv(n, entry, jn)
  BY <1>1, <1>4, <1>5, <1>9, <1>10, <1>11 DEF RegistryInv
<1> QED
  BY <1>7, <1>12

LEMMA RegisterKeeps ==
  ASSUME PoolInv, NEW r \in Repo, Register(r)
  PROVE  RegistryInv(reg', entry', init')
<1>1. PICK e \in FreshEntry :
        /\ reg' = [reg EXCEPT !.pool[r] = e, !.timer = TRUE]
        /\ entry' = [entry EXCEPT ![e] = [db |-> init[r].db, busy |-> 0, closing |-> FALSE]]
  BY DEF Register
<1>2. /\ init' = [init EXCEPT ![r] = NoInit] /\ init[r].at = "loading"
      /\ e \in Entry /\ \A q \in Repo : reg.pool[q] # e
  BY DEF Register, InitFails, FreshEntry
<1> DEFINE users == UsersIn(reg, entry, init)
<1>3. /\ reg \in Registry /\ entry \in [Entry -> EntryState] /\ init \in [Repo -> InitState]
      /\ Wired(reg, entry, init) /\ Books(reg.cache, reg.refs, reg.open, users)
  BY DEF PoolInv, RegistryInv
<1>4. init[r].db \in Db /\ reg.pool[r] = None /\ None \notin Db /\ None \notin Entry
  BY <1>2, <1>3, NoneElsewhere DEF Wired, InitState
<1>5. /\ reg' \in Registry /\ reg'.cache = reg.cache /\ reg'.refs = reg.refs
      /\ reg'.open = reg.open /\ reg'.pool = [reg.pool EXCEPT ![r] = e]
  BY <1>1, <1>2, <1>3 DEF Registry
<1>6. reg'.pool[r] = e /\ \A q \in Repo \ {r} : reg'.pool[q] = reg.pool[q]
  BY <1>2, <1>3, <1>5 DEF Registry
<1>7. [db |-> init[r].db, busy |-> 0, closing |-> FALSE] \in EntryState
  BY <1>4, RegistryAssumption DEF EntryState
<1>8. /\ entry' \in [Entry -> EntryState] /\ entry'[e].db = init[r].db
      /\ \A f \in Entry \ {e} : entry'[f] = entry[f]
  BY <1>1, <1>2, <1>3, <1>7
<1>9. /\ init' \in [Repo -> InitState] /\ init'[r] = NoInit
      /\ \A q \in Repo \ {r} : init'[q] = init[q]
  BY <1>2, <1>3, NoInitType
<1>10. \A q \in Repo \ {r} : reg'.pool[q] # None =>
         reg'.pool[q] \in Entry /\ entry'[reg'.pool[q]] = entry[reg.pool[q]]
  BY <1>2, <1>3, <1>6, <1>8 DEF Registry
<1>11. UsersIn(reg', entry', init') = users
  <2>1. \A d \in Db, q \in Repo : q \in UsersIn(reg', entry', init')[d] <=> q \in users[d]
    <3> SUFFICES ASSUME NEW d \in Db, NEW q \in Repo
                 PROVE  q \in UsersIn(reg', entry', init')[d] <=> q \in users[d]
      OBVIOUS
    <3>1. q \in UsersIn(reg', entry', init')[d] <=>
            (reg'.pool[q] # None /\ entry'[reg'.pool[q]].db = d) \/ init'[q].db = d
      BY UsersTyped
    <3>2. q \in users[d] <=>
            (reg.pool[q] # None /\ entry[reg.pool[q]].db = d) \/ init[q].db = d
      BY UsersTyped
    <3> HIDE DEF users
    <3>3. CASE q = r
      BY <1>2, <1>4, <1>6, <1>8, <1>9, <3>1, <3>2, <3>3, NoInitType
    <3>4. CASE q # r
      BY <1>6, <1>9, <1>10, <3>1, <3>2, <3>4
    <3> QED
      BY <3>3, <3>4
  <2>2. users \in [Db -> SUBSET Repo] /\ UsersIn(reg', entry', init') \in [Db -> SUBSET Repo]
    BY UsersTyped
  <2> HIDE DEF users
  <2>3. \A d \in Db : UsersIn(reg', entry', init')[d] = users[d]
    BY <2>1, <2>2
  <2> QED
    BY <2>2, <2>3
<1>12. Wired(reg', entry', init')
  <2> SUFFICES ASSUME NEW q \in Repo
               PROVE  /\ init'[q].at # "none" => reg'.pool[q] = None
                      /\ init'[q].at = "loading" <=> init'[q].db # None
                      /\ init'[q].at = "opening" => init'[q].attempt < MaxAttempts
                      /\ reg'.pool[q] # None => entry'[reg'.pool[q]].db # None
    BY DEF Wired
  <2>1. CASE q = r
    BY <1>4, <1>6, <1>8, <1>9, <2>1, NoInitType
  <2>2. CASE q # r
    BY <1>3, <1>6, <1>9, <1>10, <2>2 DEF Wired
  <2> QED
    BY <2>1, <2>2
<1> QED
  BY <1>3, <1>5, <1>8, <1>9, <1>11, <1>12 DEF RegistryInv

LEMMA InitCallKeeps ==
  ASSUME PoolInv, NEW r \in Repo, InitCall(r)
  PROVE  RegistryInv(reg', entry', init')
<1> DEFINE x == [NoInit EXCEPT !.at = "stat"]
<1>1. x \in InitState /\ x.db = None /\ x.at = "stat"
  BY RegistryAssumption DEF NoInit, InitState
<1>2. init' = [init EXCEPT ![r] = x] /\ reg' = reg /\ entry' = entry /\ reg.pool[r] = None
  BY DEF InitCall
<1>3. init[r].db = None
  BY DEF InitCall, PoolInv, RegistryInv, Wired
<1> HIDE DEF x
<1>4. RegistryInv(reg, entry, [init EXCEPT ![r] = x])
  BY <1>1, <1>2, <1>3, InitMoves DEF PoolInv
<1> QED
  BY <1>2, <1>4

LEMMA StatFailsKeeps ==
  ASSUME PoolInv, NEW r \in Repo, StatFails(r)
  PROVE  RegistryInv(reg', entry', init')
<1>1. init' = [init EXCEPT ![r] = NoInit] /\ reg' = reg /\ entry' = entry
  BY DEF StatFails, InitFails
<1>2. init[r].db = None /\ reg.pool[r] = None
  BY DEF StatFails, PoolInv, RegistryInv, Wired
<1>3. RegistryInv(reg, entry, [init EXCEPT ![r] = NoInit])
  BY <1>2, InitMoves, NoInitType DEF PoolInv
<1> QED
  BY <1>1, <1>3

-----------------------------------------------------------------------------
(* Queries, closers and the idle timer *)

\* What an entry is used for, and whether it is closing, is not in the books.
LEMMA EntriesMove ==
  ASSUME PoolInv, entry' \in [Entry -> EntryState],
         \A e \in Entry : entry'[e].db = entry[e].db
  PROVE  RegistryInv(reg, entry', init)
<1>1. /\ RegistryInv(reg, entry, init) /\ Wired(reg, entry, init)
      /\ reg.pool \in [Repo -> Entry \union {None}] /\ init \in [Repo -> InitState]
  BY DEF PoolInv, RegistryInv, Registry
<1>2. \A r \in Repo : reg.pool[r] # None => entry'[reg.pool[r]].db = entry[reg.pool[r]].db
  BY <1>1
<1>3. Wired(reg, entry', init)
  BY <1>1, <1>2 DEF Wired
<1> QED
  BY <1>1, <1>2, <1>3, QuietKeeps

LEMMA QueryBeginsKeeps ==
  ASSUME PoolInv, NEW r \in Repo, QueryBegins(r)
  PROVE  RegistryInv(reg', entry', init')
<1> DEFINE e == reg.pool[r]
<1>1. /\ entry \in [Entry -> EntryState] /\ e \in Entry
      /\ entry' = [entry EXCEPT ![e].busy = @ + 1] /\ entry[e].busy < MaxConns
      /\ reg' = reg /\ init' = init
  BY DEF QueryBegins, Registered, EntryOf, PoolInv, RegistryInv, Registry
<1> HIDE DEF e
<1>2. entry[e].busy + 1 \in 0..MaxConns
  BY <1>1, RegistryAssumption DEF EntryState
<1>3. entry' \in [Entry -> EntryState] /\ \A f \in Entry : entry'[f].db = entry[f].db
  BY <1>1, <1>2 DEF EntryState
<1> QED
  BY <1>1, <1>3, EntriesMove

LEMMA QueryEndsKeeps ==
  ASSUME PoolInv, NEW e \in Entry, QueryEnds(e)
  PROVE  RegistryInv(reg', entry', init')
<1>1. /\ entry \in [Entry -> EntryState] /\ entry' = [entry EXCEPT ![e].busy = @ - 1]
      /\ entry[e].busy > 0 /\ reg' = reg /\ init' = init
  BY DEF QueryEnds, PoolInv, RegistryInv
<1>2. entry[e].busy - 1 \in 0..MaxConns
  BY <1>1, RegistryAssumption DEF EntryState
<1>3. entry' \in [Entry -> EntryState] /\ \A f \in Entry : entry'[f].db = entry[f].db
  BY <1>1, <1>2 DEF EntryState
<1> QED
  BY <1>1, <1>3, EntriesMove

LEMMA ClosingFlag ==
  ASSUME PoolInv, NEW e \in Entry, NEW b \in BOOLEAN,
         entry' = [entry EXCEPT ![e].closing = b]
  PROVE  RegistryInv(reg, entry', init)
<1>1. entry \in [Entry -> EntryState]
  BY DEF PoolInv, RegistryInv
<1>2. entry' \in [Entry -> EntryState] /\ \A f \in Entry : entry'[f].db = entry[f].db
  BY <1>1 DEF EntryState
<1> QED
  BY <1>2, EntriesMove

\* The timer is not in the books either.
LEMMA TimerMoves ==
  ASSUME PoolInv, NEW b \in BOOLEAN
  PROVE  RegistryInv([reg EXCEPT !.timer = b], entry, init)
<1> DEFINE t == [reg EXCEPT !.timer = b]
<1>1. /\ reg \in Registry /\ RegistryInv(reg, entry, init)
      /\ Wired(reg, entry, init)
      /\ Books(reg.cache, reg.refs, reg.open, UsersIn(reg, entry, init))
  BY DEF PoolInv, RegistryInv
<1>2. /\ t \in Registry /\ t.pool = reg.pool /\ t.cache = reg.cache /\ t.refs = reg.refs
      /\ t.open = reg.open
  BY <1>1 DEF Registry
<1> HIDE DEF t
<1>3. t.pool = reg.pool
  BY <1>2
<1>4. UsersIn(t, entry, init) = UsersIn(reg, entry, init)
  BY <1>3 DEF UsersIn
<1>5. Wired(t, entry, init)
  BY <1>1, <1>3 DEF Wired
<1>6. RegistryInv(t, entry, init)
  BY <1>1, <1>2, <1>4, <1>5 DEF RegistryInv
<1> QED
  BY <1>6 DEF t

LEMMA NoCloserType == NoCloser \in CloserState /\ NoCloser.entry = None /\ NoCloser.repo = None
BY DEF NoCloser, CloserState

\* A closer changes to a state in which it knows the repo id it waits for.
LEMMA CloserMoves ==
  ASSUME PoolInv, NEW k \in Closer, NEW c \in CloserState, c.entry # None => c.repo # None,
         closer' = [closer EXCEPT ![k] = c]
  PROVE  ClosersTyped'
<1>1. ClosersTyped
  BY DEF PoolInv
<1>2. /\ closer' \in [Closer -> CloserState] /\ closer'[k] = c
      /\ \A j \in Closer \ {k} : closer'[j] = closer[j]
  BY <1>1 DEF ClosersTyped
<1> QED
  BY <1>1, <1>2 DEF ClosersTyped

LEMMA BeginKeeps ==
  ASSUME PoolInv, NEW k \in Closer, NEW r \in Registered, NEW c \in CloserState, Begin(k, r, c)
  PROVE  RegistryInv(reg', entry', init') /\ ClosersTyped'
<1> DEFINE e == reg.pool[r]
           x == [c EXCEPT !.repo = r, !.entry = e]
<1>1. r \in Repo /\ e \in Entry
  BY DEF Registered, PoolInv, RegistryInv, Registry
<1>2. /\ entry' = [entry EXCEPT ![e].closing = TRUE] /\ closer' = [closer EXCEPT ![k] = x]
      /\ reg' = reg /\ init' = init
  BY DEF Begin
<1> HIDE DEF e
<1>3. x \in CloserState /\ x.repo = r
  BY <1>1 DEF CloserState
<1>4. r # None
  BY <1>1, NoneElsewhere
<1> HIDE DEF x
<1>5. ClosersTyped'
  BY <1>2, <1>3, <1>4, CloserMoves
<1>6. RegistryInv(reg, entry', init)
  BY <1>1, <1>2, ClosingFlag
<1> QED
  BY <1>2, <1>5, <1>6

LEMMA CloserTypes ==
  ASSUME PoolInv, NEW k \in Closer
  PROVE  /\ closer[k] \in CloserState
         /\ Waiting(k) => closer[k].repo \in Repo /\ closer[k].entry \in Entry
BY DEF PoolInv, ClosersTyped, CloserState, Waiting

LEMMA ClosePollKeeps ==
  ASSUME PoolInv, NEW k \in Closer, ClosePoll(k)
  PROVE  RegistryInv(reg', entry', init') /\ ClosersTyped'
<1> DEFINE r == closer[k].repo
           x == [closer[k] EXCEPT !.repo = None, !.entry = None]
<1>1. r \in Repo /\ closer[k] \in CloserState
  BY CloserTypes DEF ClosePoll
<1>2. /\ reg' = IF reg.pool[r] = None THEN reg ELSE CloseOne(reg, r)
      /\ entry' = entry /\ init' = init
  BY DEF ClosePoll
<1>3. closer' = [closer EXCEPT ![k] = x] \/ closer' = [closer EXCEPT ![k] = NoCloser]
  <2>1. closer \in [Closer -> CloserState]
    BY DEF PoolInv, ClosersTyped
  <2>2. CASE closer[k].all
    <3>1. closer' = [closer EXCEPT ![k].repo = None, ![k].entry = None]
      BY <2>2 DEF ClosePoll
    <3>2. closer' = [closer EXCEPT ![k] = x]
      BY <2>1, <3>1 DEF CloserState
    <3> QED
      BY <3>2
  <2>3. CASE ~closer[k].all
    BY <2>3 DEF ClosePoll, CloserDone
  <2> QED
    BY <2>2, <2>3
<1>4. x \in CloserState /\ x.entry = None
  BY <1>1 DEF CloserState
<1> HIDE DEF x
<1>5. ClosersTyped'
  BY <1>3, <1>4, CloserMoves, NoCloserType
<1> HIDE DEF r
<1>6. RegistryInv(reg', entry, init)
  <2>1. RegistryInv(reg, entry, init)
    BY DEF PoolInv
  <2>2. CASE reg.pool[r] = None
    BY <1>2, <2>1, <2>2
  <2>3. CASE reg.pool[r] # None
    <3>1. RegistryInv(CloseOne(reg, r), entry, init)
      BY <1>1, <2>1, <2>3, CloseOneKeeps
    <3> QED
      BY <1>2, <2>3, <3>1
  <2> QED
    BY <2>2, <2>3
<1> QED
  BY <1>2, <1>5, <1>6

LEMMA CloseTimeoutKeeps ==
  ASSUME PoolInv, NEW k \in Closer, CloseTimeout(k)
  PROVE  RegistryInv(reg', entry', init') /\ ClosersTyped'
<1>1. closer[k].entry \in Entry
  BY CloserTypes DEF CloseTimeout
<1>2. /\ closer' = [closer EXCEPT ![k] = NoCloser] /\ reg' = reg /\ init' = init
      /\ entry' = entry \/ entry' = [entry EXCEPT ![closer[k].entry].closing = FALSE]
  BY DEF CloseTimeout, CloserDone
<1>3. ClosersTyped'
  BY <1>2, CloserMoves, NoCloserType
<1>4. CASE entry' = entry
  BY <1>2, <1>3, <1>4 DEF PoolInv
<1>5. CASE entry' = [entry EXCEPT ![closer[k].entry].closing = FALSE]
  BY <1>1, <1>2, <1>3, <1>5, ClosingFlag
<1> QED
  BY <1>2, <1>4, <1>5

LEMMA CloseAllKeeps ==
  ASSUME PoolInv, NEW k \in Closer, CloseAllStart(k) \/ CloseAllNext(k) \/ CloseAllEnds(k)
  PROVE  RegistryInv(reg', entry', init') /\ ClosersTyped'
<1>1. /\ closer[k] \in CloserState /\ closer \in [Closer -> CloserState]
      /\ RegistryInv(reg, entry, init)
  BY CloserTypes DEF PoolInv, ClosersTyped
<1>2. CASE CloseAllStart(k)
  <2> DEFINE x == [closer[k] EXCEPT !.all = TRUE, !.rest = Registered]
  <2>1. closer' = [closer EXCEPT ![k] = x] /\ reg' = reg /\ entry' = entry /\ init' = init
    BY <1>1, <1>2 DEF CloseAllStart, CloserState
  <2>2. x \in CloserState /\ x.entry = closer[k].entry
    BY <1>1 DEF CloserState, Registered
  <2>3. closer[k].entry = None
    BY <1>2, NoCloserType DEF CloseAllStart
  <2> HIDE DEF x
  <2>4. ClosersTyped'
    BY <2>1, <2>2, <2>3, CloserMoves
  <2> QED
    BY <1>1, <2>1, <2>4
<1>3. CASE CloseAllNext(k)
  <2>1. PICK r \in closer[k].rest :
          LET later == [closer[k] EXCEPT !.rest = @ \ {r}]
          IN  IF r \in Registered
              THEN Begin(k, r, later)
              ELSE closer' = [closer EXCEPT ![k] = later] /\ UNCHANGED <<reg, entry, init>>
    BY <1>3 DEF CloseAllNext
  <2> DEFINE x == [closer[k] EXCEPT !.rest = @ \ {r}]
  <2>2. x \in CloserState /\ x.entry = closer[k].entry /\ x.repo = closer[k].repo
    BY <1>1 DEF CloserState
  <2>3. closer[k].entry = None
    BY <1>3 DEF CloseAllNext, Waiting
  <2>4. IF r \in Registered THEN Begin(k, r, x)
        ELSE closer' = [closer EXCEPT ![k] = x] /\ UNCHANGED <<reg, entry, init>>
    BY <2>1
  <2> HIDE DEF x
  <2>5. CASE r \in Registered
    BY <2>2, <2>4, <2>5, BeginKeeps
  <2>6. CASE r \notin Registered
    <3>1. ClosersTyped'
      BY <2>2, <2>3, <2>4, <2>6, CloserMoves
    <3> QED
      BY <1>1, <2>4, <2>6, <3>1
  <2> QED
    BY <2>5, <2>6
<1>4. CASE CloseAllEnds(k)
  <2>1. /\ reg' = [reg EXCEPT !.timer = FALSE] /\ entry' = entry /\ init' = init
        /\ closer' = [closer EXCEPT ![k] = NoCloser]
    BY <1>4 DEF CloseAllEnds, CloserDone
  <2>2. RegistryInv([reg EXCEPT !.timer = FALSE], entry, init)
    BY TimerMoves
  <2>3. ClosersTyped'
    BY <2>1, CloserMoves, NoCloserType
  <2> QED
    BY <2>1, <2>2, <2>3
<1> QED
  BY <1>2, <1>3, <1>4

LEMMA IdleTimerKeeps ==
  ASSUME PoolInv, NEW r \in Repo, IdleTimer(r)
  PROVE  RegistryInv(reg', entry', init')
<1>1. RegistryInv(reg, entry, init) /\ reg.pool[r] # None
  BY DEF PoolInv, IdleTimer, Idle, Registered
<1>2. RegistryInv(CloseOne(reg, r), entry, init)
  BY <1>1, CloseOneKeeps
<1> QED
  BY <1>2 DEF IdleTimer

-----------------------------------------------------------------------------
(* The invariant *)

LEMMA NothingUsed ==
  ASSUME Init
  PROVE  PoolInv
<1>1. /\ reg.pool = [r \in Repo |-> None] /\ reg.cache = [p \in Path |-> None]
      /\ reg.refs = [d \in Db |-> 0] /\ reg.open = {} /\ reg \in Registry
  BY DEF Init, Registry
<1>2. [db |-> None, busy |-> 0, closing |-> FALSE] \in EntryState
  BY RegistryAssumption DEF EntryState
<1>3. entry \in [Entry -> EntryState]
  BY <1>2 DEF Init
<1>4. init = [r \in Repo |-> NoInit] /\ init \in [Repo -> InitState]
  BY NoInitType DEF Init
<1>5. ClosersTyped
  BY NoCloserType DEF Init, ClosersTyped
<1>6. Wired(reg, entry, init)
  BY <1>1, <1>4, NoInitType DEF Wired
<1> DEFINE users == UsersIn(reg, entry, init)
<1>7. users \in [Db -> SUBSET Repo] /\ \A d \in Db : users[d] = {}
  <2>1. \A d \in Db, r \in Repo : r \notin users[d]
    BY <1>1, <1>4, NoInitType, NoneElsewhere, UsersTyped
  <2>2. users \in [Db -> SUBSET Repo]
    BY UsersTyped
  <2> HIDE DEF users
  <2> QED
    BY <2>1, <2>2
<1> HIDE DEF users
<1>8. Books(reg.cache, reg.refs, reg.open, users)
  <2>1. \A d \in Db : IsFiniteSet(users[d])
    BY <1>7, FS_EmptySet
  <2>2. BooksTyped(reg.cache, reg.refs, reg.open, users)
    BY <1>1, <1>7, <2>1 DEF BooksTyped
  <2>3. CacheSound(reg.cache, reg.open, users)
    BY <1>1 DEF CacheSound
  <2>4. Exact(reg.refs, reg.open, users)
    BY <1>1, <1>7 DEF Exact
  <2> QED
    BY <2>2, <2>3, <2>4 DEF Books
<1> QED
  BY <1>1, <1>3, <1>4, <1>5, <1>6, <1>8 DEF PoolInv, RegistryInv, users

LEMMA PoolInvKept ==
  ASSUME PoolInv, [Next]_vars
  PROVE  PoolInv'
<1> SUFFICES RegistryInv(reg', entry', init') /\ ClosersTyped'
  BY DEF PoolInv
<1>1. ASSUME UNCHANGED closer PROVE ClosersTyped'
  BY <1>1 DEF PoolInv, ClosersTyped
<1>2. ASSUME NEW r \in Repo, InitCall(r) \/ InitStep(r) \/ QueryBegins(r) \/ IdleTimer(r)
      PROVE  RegistryInv(reg', entry', init') /\ ClosersTyped'
  <2>1. CASE InitCall(r)
    BY <1>1, <2>1, InitCallKeeps DEF InitCall
  <2>2. CASE StatFails(r)
    BY <1>1, <2>2, StatFailsKeeps DEF StatFails
  <2>3. CASE StatDone(r)
    BY <1>1, <2>3, StatDoneKeeps DEF StatDone
  <2>4. CASE OpenRetry(r)
    BY <1>1, <2>4, OpenRetryKeeps DEF OpenRetry
  <2>5. CASE LoadFails(r)
    BY <1>1, <2>5, LoadFailsKeeps DEF LoadFails
  <2>6. CASE Register(r)
    BY <1>1, <2>6, RegisterKeeps DEF Register
  <2>7. CASE QueryBegins(r)
    BY <1>1, <2>7, QueryBeginsKeeps DEF QueryBegins
  <2>8. CASE IdleTimer(r)
    BY <1>1, <2>8, IdleTimerKeeps DEF IdleTimer
  <2> QED
    BY <1>2, <2>1, <2>2, <2>3, <2>4, <2>5, <2>6, <2>7, <2>8 DEF InitStep
<1>3. ASSUME NEW e \in Entry, QueryEnds(e)
      PROVE  RegistryInv(reg', entry', init') /\ ClosersTyped'
  BY <1>1, <1>3, QueryEndsKeeps DEF QueryEnds
<1>4. ASSUME NEW k \in Closer, NEW r \in Repo, CloseStart(k, r)
      PROVE  RegistryInv(reg', entry', init') /\ ClosersTyped'
  BY <1>4, BeginKeeps, NoCloserType DEF CloseStart
<1>5. ASSUME NEW k \in Closer, CloseAllStart(k) \/ CloserStep(k)
      PROVE  RegistryInv(reg', entry', init') /\ ClosersTyped'
  BY <1>5, ClosePollKeeps, CloseTimeoutKeeps, CloseAllKeeps DEF CloserStep
<1>6. CASE UNCHANGED vars
  BY <1>1, <1>6 DEF vars, PoolInv
<1> QED
  BY <1>2, <1>3, <1>4, <1>5, <1>6 DEF Next

LEMMA PoolInvHolds == Spec => []PoolInv
<1>1. Init => PoolInv
  BY NothingUsed
<1>2. PoolInv /\ [Next]_vars => PoolInv'
  BY PoolInvKept
<1> QED
  BY <1>1, <1>2, PTL DEF Spec

-----------------------------------------------------------------------------
(* Theorems *)

\* Every variable has its type, whoever closes or replaces entries: no entry
\* counts more queries than it has connections, and no count goes below zero.
THEOREM PoolTypes == Spec => []TypeOK
<1>1. PoolInv => TypeOK
  BY DEF PoolInv, RegistryInv, ClosersTyped, TypeOK
<1> QED
  BY <1>1, PoolInvHolds, PTL

LEMMA UsersAgree ==
  ASSUME NEW d \in Db
  PROVE  Users(d) = UsersIn(reg, entry, init)[d]
BY DEF Users, Registered, EntryOf, UsersIn

\* While no database is open that the cache does not know, none is leaked.
LEMMA NoOrphansExact ==
  ASSUME PoolInv, Orphans = {}
  PROVE  Exact(reg.refs, reg.open, UsersIn(reg, entry, init))
<1> DEFINE users == UsersIn(reg, entry, init)
<1>1. /\ Books(reg.cache, reg.refs, reg.open, users)
      /\ reg.cache \in [Path -> Db \union {None}]
  BY DEF PoolInv, RegistryInv, Registry
<1>2. OrphansOf(reg.cache, reg.open) = {}
  BY <1>1 DEF Orphans, OrphansOf, Range
<1> QED
  BY <1>1, <1>2 DEF Books, Leaked

\* The count of an open database is the number of entries and inits that use
\* it, through evictions in the middle of an init, failed loads and repo ids
\* that share it, as long as no path was opened twice.
THEOREM CountsAreExact == Spec => []RefCountsExact
<1>1. PoolInv => RefCountsExact
  <2> SUFFICES ASSUME PoolInv, Orphans = {}, NEW d \in reg.open
               PROVE  reg.refs[d] = Cardinality(Users(d))
    BY DEF RefCountsExact
  <2>1. d \in Db
    BY DEF PoolInv, RegistryInv, Registry
  <2> QED
    BY <2>1, NoOrphansExact, UsersAgree DEF Exact
<1> QED
  BY <1>1, PoolInvHolds, PTL

\* Nobody is left with a closed database, as long as no path was opened twice.
THEOREM UsersAreServed == Spec => []UsersHaveOpenDb
<1>1. PoolInv => UsersHaveOpenDb
  <2> SUFFICES ASSUME PoolInv, Orphans = {}, NEW d \in Db, Users(d) # {}
               PROVE  d \in reg.open
    BY DEF UsersHaveOpenDb
  <2> QED
    BY NoOrphansExact, UsersAgree DEF Exact
<1> QED
  BY <1>1, PoolInvHolds, PTL

-----------------------------------------------------------------------------
(* Who removes an entry *)

LEMMA AttemptsKeepPool ==
  ASSUME NEW s \in Registry, NEW r \in Repo, NEW n, Attempt(s, r, n)
  PROVE  reg'.pool = s.pool
<1>1. CASE Opens(s, r)
  <2>1. PICK d \in Db :
          Attached([s EXCEPT !.cache[PathOf[r]] = d, !.refs[d] = 0, !.open = @ \union {d}], r, d)
    BY <1>1 DEF Opens, FreshDb
  <2> DEFINE t == [s EXCEPT !.cache[PathOf[r]] = d, !.refs[d] = 0, !.open = @ \union {d}]
  <2>2. t \in Registry /\ t.pool = s.pool
    BY PathsTyped DEF Registry
  <2>3. reg' = [t EXCEPT !.refs[d] = @ + 1]
    BY <2>1 DEF Attached
  <2> HIDE DEF t
  <2> QED
    BY <2>2, <2>3 DEF Registry
<1>2. CASE reg' = s
  BY <1>2
<1> QED
  BY <1>1, <1>2 DEF Attempt, Locked, Unopenable

\* An init keeps every entry in use: what it evicts is idle.
LEMMA InitsSpareBusy ==
  ASSUME PoolInv, NEW q \in Repo, InitStep(q),
         NEW r \in Repo, reg.pool[r] # None, entry[reg.pool[r]].busy > 0
  PROVE  reg'.pool[r] = reg.pool[r]
<1>1. reg \in Registry /\ Wired(reg, entry, init) /\ init \in [Repo -> InitState]
  BY DEF PoolInv, RegistryInv
<1>2. CASE StatDone(q)
  <2>1. PICK s \in AfterEviction :
          IF s.cache[PathOf[q]] # None THEN Attached(s, q, s.cache[PathOf[q]])
          ELSE Attempt(s, q, 1)
    BY <1>2 DEF StatDone
  <2>2. /\ s \in Registry
        /\ \A p \in Repo : s.pool[p] # None => s.pool[p] = reg.pool[p]
        /\ \A p \in Repo : reg.pool[p] # None /\ s.pool[p] = None => entry[reg.pool[p]].busy = 0
    BY EvictionKeeps DEF RegistryInv
  <2>3. reg'.pool = s.pool
    <3>1. CASE s.cache[PathOf[q]] # None
      <4>1. reg' = [s EXCEPT !.refs[s.cache[PathOf[q]]] = @ + 1]
        BY <2>1, <3>1 DEF Attached
      <4> QED
        BY <2>2, <4>1 DEF Registry
    <3>2. CASE s.cache[PathOf[q]] = None
      BY <2>1, <2>2, <3>2, AttemptsKeepPool
    <3> QED
      BY <3>1, <3>2
  <2>4. s.pool[r] = None => entry[reg.pool[r]].busy = 0
    BY <2>2
  <2> QED
    BY <2>2, <2>3, <2>4
<1>3. CASE Register(q)
  <2>1. PICK e \in FreshEntry : reg' = [reg EXCEPT !.pool[q] = e, !.timer = TRUE]
    BY <1>3 DEF Register
  <2>2. q # r
    BY <1>1, <1>3 DEF Register, Wired
  <2> QED
    BY <1>1, <2>1, <2>2 DEF Registry
<1>4. CASE LoadFails(q)
  <2>1. init[q].db \in Db /\ PathOf[q] \in Path
    BY <1>1, <1>4, PathsTyped DEF LoadFails, Wired, InitState
  <2> QED
    BY <1>1, <1>4, <2>1, ReleasedFields DEF LoadFails
<1>5. CASE OpenRetry(q)
  BY <1>1, <1>5, AttemptsKeepPool DEF OpenRetry
<1>6. CASE StatFails(q)
  BY <1>6 DEF StatFails
<1> QED
  BY <1>2, <1>3, <1>4, <1>5, <1>6 DEF InitStep

LEMMA OnlyOneGoes ==
  ASSUME PoolInv, NEW q \in Repo, reg.pool[q] # None, reg' = CloseOne(reg, q),
         NEW r \in Repo, r # q
  PROVE  reg'.pool[r] = reg.pool[r]
<1>1. RegistryInv(reg, entry, init) /\ reg.pool \in [Repo -> Entry \union {None}]
  BY DEF PoolInv, RegistryInv, Registry
<1>2. reg'.pool = [reg.pool EXCEPT ![q] = None]
  BY <1>1, CloseOneKeeps
<1> QED
  BY <1>1, <1>2

LEMMA BusyRemovedByStaleCloser ==
  ASSUME PoolInv, Next, NEW r \in Repo, reg.pool[r] # None,
         entry[reg.pool[r]].busy > 0, reg'.pool[r] = None
  PROVE  \E k \in Closer : closer[k].repo = r /\ closer[k].entry # reg.pool[r]
<1>1. ASSUME NEW q \in Repo, InitStep(q) PROVE FALSE
  BY <1>1, InitsSpareBusy
<1>2. ASSUME NEW q \in Repo, IdleTimer(q) PROVE FALSE
  <2>1. reg.pool[q] # None /\ entry[reg.pool[q]].busy = 0 /\ reg' = CloseOne(reg, q)
    BY <1>2 DEF IdleTimer, Idle, Registered, EntryOf
  <2>2. q # r
    BY <2>1
  <2> QED
    BY <2>1, <2>2, OnlyOneGoes
<1>3. ASSUME NEW k \in Closer, ClosePoll(k)
      PROVE  closer[k].repo = r /\ closer[k].entry # reg.pool[r]
  <2> DEFINE q == closer[k].repo
  <2>1. /\ q \in Repo /\ entry[closer[k].entry].busy = 0
        /\ reg' = IF reg.pool[q] = None THEN reg ELSE CloseOne(reg, q)
    BY <1>3, CloserTypes DEF ClosePoll
  <2> HIDE DEF q
  <2>2. q = r
    BY <2>1, OnlyOneGoes
  <2> QED
    BY <2>1, <2>2 DEF q
<1>4. ASSUME reg' = reg PROVE FALSE
  BY <1>4
<1>5. ASSUME NEW k \in Closer, CloseAllEnds(k) PROVE FALSE
  BY <1>5 DEF CloseAllEnds, PoolInv, RegistryInv, Registry
<1> QED
  BY <1>1, <1>2, <1>3, <1>4, <1>5
  DEF Next, InitCall, QueryBegins, QueryEnds, CloseStart, Begin, CloseAllStart, CloserStep,
      CloseTimeout, CloseAllNext

\* Evictions, the idle timer and a closer that waited for this very entry
\* never remove an entry in use; a closer whose entry was replaced does.
THEOREM BusyEntriesStay == Spec => OnlyStaleCloserRemovesBusy
<1> DEFINE Removal == \A r \in Registered : EntryOf(r).busy > 0 /\ reg'.pool[r] = None
       => \E k \in Closer : closer[k].repo = r /\ closer[k].entry # reg.pool[r]
<1>1. PoolInv /\ [Next]_vars => [Removal]_vars
  <2> SUFFICES ASSUME PoolInv, Next, NEW r \in Registered, EntryOf(r).busy > 0,
                      reg'.pool[r] = None
               PROVE  \E k \in Closer : closer[k].repo = r /\ closer[k].entry # reg.pool[r]
    OBVIOUS
  <2>1. r \in Repo /\ reg.pool[r] # None /\ entry[reg.pool[r]].busy > 0
    BY DEF Registered, EntryOf
  <2> QED
    BY <2>1, BusyRemovedByStaleCloser
<1> QED
  BY <1>1, PoolInvHolds, PTL DEF Spec, OnlyStaleCloserRemovesBusy
=============================================================================
