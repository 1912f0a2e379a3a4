------------------------------ MODULE PhaseRunner ------------------------------
(***************************************************************************)
(* The runner of the ingestion pipeline (pipeline-phases/runner.ts): phases  *)
(* are sorted by Kahn's algorithm, a cycle is searched for the error message *)
(* and found, and the phases run one after another.  The output of a phase   *)
(* is disposed of after the last phase that depends on it; some phases also  *)
(* empty data of others themselves.                                          *)
(*                                                                           *)
(* The lists of phases are those of buildPhaseList (pipeline.ts) and all     *)
(* lists of three phases with up to MaxDeps dependencies each, repeated and  *)
(* cyclic ones included, whose phases read the outputs they depend on.       *)
(***************************************************************************)
EXTENDS Naturals, Sequences, FiniteSets, SequencesExt

CONSTANTS
  MaxDeps  \* bound: dependencies of a phase in the lists that are not the program's

VARIABLES
  list,       \* the phases: name, dependencies, data read, data emptied
  degree,     \* inDegree of topologicalSort
  queue,      \* its queue
  sorted,     \* the names sorted so far
  at,         \* what the runner does
  ran,        \* how many of the sorted phases have run
  remaining,  \* remainingDependents
  cleared,    \* data that was disposed of or emptied
  search,     \* findCyclePath: its stack, what it visited, the starts it tried
  cycle       \* the cycle in the error message

ASSUME PhaseAssumption == MaxDeps \in Nat

phaseVars == <<list, degree, queue, sorted, at, ran, remaining, cleared, search, cycle>>

-----------------------------------------------------------------------------
(* Lists of phases *)

Phase(name, deps, reads, empties) ==
  [name |-> name, deps |-> deps, reads |-> reads, empties |-> empties]

\* The data that the output of a phase shares with its readers.
Data(name) ==
  CASE name = "structure" -> {"structure.files", "structure.paths"}
    [] name = "parse" -> {"routes", "tools", "orm", "parse.paths", "types", "bindings"}
    [] OTHER -> {name}

Disposable == {"scan", "structure", "parse", "a", "b", "c"}

Basis(parseDeps) == <<
  Phase("structure", <<"scan">>, {"scan"}, {}),
  Phase("parse", parseDeps, Data("structure"), {"structure.files"})>>

\* buildPhaseList, with and without the optional precision analyzer and the
\* graph phases, and for the profiles that stop at the symbols.
PhaseList(precision, graphPhases) ==
  <<Phase("scan", <<>>, {}, {}), Phase("gitMining", <<"scan", "parse">>, {"scan"}, {})>>
  \o <<Basis(<<>>)[1],
       Phase("markdown", <<"structure">>, Data("structure"), {}),
       Phase("cobol", <<"structure">>, Data("structure"), {}),
       Basis(<<"structure", "markdown", "cobol">>)[2]>>
  \o (IF precision THEN <<Phase("optionalPrecision", <<"parse">>, {}, {})>> ELSE <<>>)
  \o <<Phase("routesPhase", <<"parse">>, {"routes", "parse.paths"}, {"routes"}),
       Phase("toolsPhase", <<"parse">>, {"tools", "parse.paths"}, {"tools"}),
       Phase("ormPhase", <<"parse">>, {"orm"}, {"orm"}),
       Phase("crossFile", <<"parse", "routesPhase", "toolsPhase", "ormPhase">>,
             {"types", "parse.paths", "bindings"}, {"bindings"}),
       Phase("pageRank", <<"crossFile">>, {}, {})>>
  \o (IF graphPhases
        THEN <<Phase("mro", <<"crossFile", "structure">>, {}, {}),
               Phase("communities", <<"mro", "structure">>, {}, {}),
               Phase("concepts", <<"markdown", "communities">>, {}, {}),
               Phase("processes", <<"communities", "routesPhase", "toolsPhase", "structure">>,
                     {"communities", "routesPhase", "toolsPhase"}, {}),
               Phase("summaryTree", <<"communities", "concepts">>, {"communities"}, {})>>
        ELSE <<>>)
SymbolsList == <<Phase("scan", <<>>, {}, {})>> \o Basis(<<"structure">>)

Dependencies == UNION {[1..n -> {"a", "b", "c"}] : n \in 0..MaxDeps}
SmallList(deps) ==
  [i \in 1..3 |-> Phase(<<"a", "b", "c">>[i], deps[i], ToSet(deps[i]), {})]

Lists ==
  {PhaseList(precision, graphPhases) : precision \in BOOLEAN, graphPhases \in BOOLEAN}
  \union {SymbolsList}
  \union {SmallList(deps) : deps \in [1..3 -> Dependencies]}

-----------------------------------------------------------------------------
Names(phases) == [i \in DOMAIN phases |-> phases[i].name]
Called(name) == CHOOSE p \in ToSet(list) : p.name = name
Places(x, seq) == {i \in DOMAIN seq : seq[i] = x}
Times(x, seq) == Cardinality(Places(x, seq))

\* The names in S, in the order of the list.
Before(m, n) == \E i, j \in DOMAIN list : i < j /\ list[i].name = m /\ list[j].name = n
InListOrder(S) ==
  [i \in 1..Cardinality(S) |-> CHOOSE n \in S : Cardinality({m \in S : Before(m, n)}) = i - 1]

RunnerInit ==
  /\ list \in Lists
  /\ degree = [n \in ToSet(Names(list)) |-> Len(Called(n).deps)]
  /\ queue = InListOrder({n \in DOMAIN degree : degree[n] = 0})
  /\ sorted = <<>> /\ at = "sort" /\ ran = 0 /\ cycle = <<>>
  /\ search = [stack |-> <<>>, visited |-> {}, tried |-> {}]
  /\ remaining = [n \in ToSet(Names(list)) |-> 0]
  /\ cleared = {}

\* Mutant: a phase is free when its first dependency is.
Drain_Early ==
  LET name == Head(queue)
      lower == [n \in DOMAIN degree |-> degree[n] - Times(name, Called(n).deps)]
  IN /\ at = "sort" /\ queue # <<>>
     /\ sorted' = Append(sorted, name)
     /\ degree' = lower
     /\ queue' = Tail(queue) \o InListOrder({n \in DOMAIN degree : lower[n] < degree[n]})
     /\ UNCHANGED <<list, at, ran, remaining, cleared, search, cycle>>

\* One turn of topologicalSort: the dependents of the next phase lose one
\* dependency for each time they name it.
Drain ==
  LET name == Head(queue)
      lower == [n \in DOMAIN degree |-> degree[n] - Times(name, Called(n).deps)]
  IN /\ at = "sort" /\ queue # <<>>
     /\ sorted' = Append(sorted, name)
     /\ degree' = lower
     /\ queue' = Tail(queue) \o InListOrder({n \in DOMAIN degree : lower[n] = 0 /\ degree[n] > 0})
     /\ UNCHANGED <<list, at, ran, remaining, cleared, search, cycle>>

\* The phases that the sort could not drain.
Left == {n \in DOMAIN degree : degree[n] > 0}

Frame(name) == [name |-> name, next |-> 1]

\* findCyclePath tries the next of them as a start, with nothing visited; when
\* none is left, all that could not be drained are named (in some order).
SearchFrom ==
  LET untried == InListOrder(Left \ search.tried)
  IN /\ at = "search" /\ search.stack = <<>>
     /\ IF untried = <<>>
          THEN at' = "cyclic" /\ cycle' = InListOrder(Left) /\ UNCHANGED search
          ELSE /\ search' = [stack |-> <<Frame(untried[1])>>, visited |-> {untried[1]},
                             tried |-> search.tried \union {untried[1]}]
               /\ UNCHANGED <<at, cycle>>
     /\ UNCHANGED <<list, degree, queue, sorted, ran, remaining, cleared>>

\* dfs looks at the next dependency of the phase on top of the stack: one that
\* was drained or visited is passed over, one on the stack closes a cycle, a new
\* one is visited.  After the last one the phase is popped.
SearchOn ==
  LET top == Last(search.stack)
      deps == Called(top.name).deps
      dep == deps[top.next]
      path == Names(search.stack)
      passed == Append(Front(search.stack), [top EXCEPT !.next = @ + 1])
  IN /\ at = "search" /\ search.stack # <<>>
     /\ IF top.next > Len(deps)
          THEN search' = [search EXCEPT !.stack = Front(@)] /\ UNCHANGED <<at, cycle>>
        ELSE IF dep \in Left /\ dep \in ToSet(path)
          THEN /\ at' = "cyclic"
               /\ cycle' = SubSeq(path, CHOOSE i \in DOMAIN path : path[i] = dep, Len(path))
                             \o <<dep>>
               /\ UNCHANGED search
        ELSE /\ search' = IF dep \notin Left \/ dep \in search.visited
                            THEN [search EXCEPT !.stack = passed]
                            ELSE [search EXCEPT !.stack = Append(passed, Frame(dep)),
                                                !.visited = @ \union {dep}]
             /\ UNCHANGED <<at, cycle>>
     /\ UNCHANGED <<list, degree, queue, sorted, ran, remaining, cleared>>

\* Mutant: a phase that names a dependency twice counts as one reader of it.
Dependents_Distinct ==
  [n \in DOMAIN degree |-> Cardinality({p \in ToSet(list) : n \in ToSet(p.deps)})]

\* countRemainingDependents
Dependents ==
  [n \in DOMAIN degree |->
     Cardinality(UNION {{k} \X Places(n, Called(sorted[k]).deps) : k \in DOMAIN sorted})]

SortEnds ==
  /\ at = "sort" /\ queue = <<>>
  /\ IF Len(sorted) # Len(list)
       THEN at' = "search" /\ UNCHANGED remaining
       ELSE at' = "run" /\ remaining' = Dependents
  /\ UNCHANGED <<list, degree, queue, sorted, ran, cleared, search, cycle>>

DisposeOf(names) == UNION {Data(n) : n \in names \intersect Disposable}

\* A phase has run: the outputs that nobody needs any more are disposed of.
PhaseSucceeds ==
  LET phase == Called(sorted[ran + 1])
      left == [n \in DOMAIN remaining |-> remaining[n] - Times(n, phase.deps)]
  IN /\ at = "run" /\ ran < Len(sorted)
     /\ remaining' = left
     /\ cleared' = cleared \union phase.empties
                     \union DisposeOf({n \in ToSet(phase.deps) : left[n] = 0})
     /\ ran' = ran + 1
     /\ UNCHANGED <<list, degree, queue, sorted, at, search, cycle>>

\* Mutant: a failure disposes of the failed phase's dependencies only.
PhaseFails_KeepsOthers ==
  LET phase == Called(sorted[ran + 1])
  IN /\ at = "run" /\ ran < Len(sorted)
     /\ cleared' = cleared \union phase.empties \union DisposeOf(ToSet(phase.deps))
     /\ at' = "failed"
     /\ UNCHANGED <<list, degree, queue, sorted, ran, remaining, search, cycle>>

\* A phase throws (what it empties, it empties in a finally block): all
\* outputs there are so far are disposed of.
PhaseFails ==
  LET phase == Called(sorted[ran + 1])
  IN /\ at = "run" /\ ran < Len(sorted)
     /\ \E emptied \in {{}, phase.empties} :
          cleared' = cleared \union emptied \union DisposeOf({sorted[i] : i \in 1..ran})
     /\ at' = "failed"
     /\ UNCHANGED <<list, degree, queue, sorted, ran, remaining, search, cycle>>

RunEnds ==
  /\ at = "run" /\ ran = Len(sorted)
  /\ at' = "done"
  /\ UNCHANGED <<list, degree, queue, sorted, ran, remaining, cleared, search, cycle>>

RunnerNext ==
  Drain \/ SortEnds \/ SearchFrom \/ SearchOn \/ PhaseSucceeds \/ PhaseFails \/ RunEnds

RunnerSpec == RunnerInit /\ [][RunnerNext]_phaseVars

-----------------------------------------------------------------------------
(* Properties *)

\* Types of the sort and of the run.
RunnerTypeOK ==
  /\ degree \in [ToSet(Names(list)) -> Nat] /\ remaining \in [DOMAIN degree -> Nat]
  /\ {queue, sorted, cycle} \subseteq Seq(DOMAIN degree)
  /\ at \in {"sort", "search", "cyclic", "run", "failed", "done"} /\ ran \in 0..Len(sorted)
  /\ search.stack \in Seq([name : DOMAIN degree, next : Nat])
  /\ search.visited \union search.tried \subseteq DOMAIN degree

\* Every phase is sorted once, after all it depends on; if the sort gives up,
\* the cycle in its message is one of the list, closed and without detours.
SortCorrect ==
  /\ \A i \in DOMAIN sorted : \A dep \in ToSet(Called(sorted[i]).deps) :
       \E k \in 1..(i - 1) : sorted[k] = dep
  /\ at \in {"run", "failed", "done"} =>
       ToSet(sorted) = ToSet(Names(list)) /\ Len(sorted) = Len(list)
  /\ at = "cyclic" =>
       /\ Len(cycle) > 1 /\ cycle[1] = Last(cycle) /\ IsInjective(Front(cycle))
       /\ \A i \in 1..(Len(cycle) - 1) : cycle[i + 1] \in ToSet(Called(cycle[i]).deps)

\* No phase is given data that was disposed of, or emptied by another phase,
\* before: in the program's own lists, and in every list whose phases read
\* what they depend on.
ReadsAlive ==
  at = "run" /\ ran < Len(sorted) => Called(sorted[ran + 1]).reads \intersect cleared = {}

\* After a run, failed or not, no output is kept that nobody will read: of a
\* failed run none at all, of a complete one those no phase depends on.
NothingKept ==
  /\ at = "failed" => DisposeOf({sorted[i] : i \in 1..ran}) \subseteq cleared
  /\ at = "done" => DisposeOf(UNION {ToSet(p.deps) : p \in ToSet(list)}) \subseteq cleared
=============================================================================
