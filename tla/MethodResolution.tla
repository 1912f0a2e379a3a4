---------------------------- MODULE MethodResolution ----------------------------
(***************************************************************************)
(* Which ancestor's method a class inherits, computed twice: by the graph    *)
(* pass computeMRO (mro-processor.ts), which goes through all classes with   *)
(* one cache of C3 linearizations and writes METHOD_OVERRIDES edges, and by  *)
(* lookupMethodByOwnerWithMRO (model/resolve.ts), which resolves one call    *)
(* with a new cache and, where it walks breadth first, on ancestors of a     *)
(* bounded depth (model/heritage-map.ts).                                    *)
(*                                                                           *)
(* All classes have one language, of strategy c3, or one that walks breadth  *)
(* first (leftmost-base, first-wins).  A method is the set of classes that   *)
(* define it, once each.  Both passes see the parents in the same order.     *)
(* Every hierarchy, cyclic ones included, is an initial state, so nothing is *)
(* lost by taking the classes in the order of their numbers.  The two share  *)
(* nothing, so one call, on any class, follows the pass.                     *)
(***************************************************************************)
EXTENDS Naturals, Sequences, FiniteSets, SequencesExt

CONSTANTS
  Classes,           \* bound: how many classes
  MaxParents,        \* bound: parents of a class
  MaxAncestorDepth,  \* MAX_ANCESTOR_DEPTH, 32 in the code
  NoOrder            \* null: no linearization exists

ASSUME MroAssumption ==
  /\ {Classes, MaxParents, MaxAncestorDepth} \subseteq Nat
  /\ NoOrder \notin Seq(1..Classes)  \* null is no array

VARIABLES
  strategy,   \* mroStrategy of the language
  parents,    \* parentMap
  turn,       \* the class computeMRO comes to
  orders,     \* the order of the ancestors it took for each class (mroOrder)
  overrides,  \* METHOD_OVERRIDES: class, method and the class that it comes from
  doing,      \* the loop that runs
  walk,       \* of a walk breadth first: its frontier, what it found, the next level, its depth
  cache,      \* the cache of the pass (c3Cache) and that of the call
  stack,      \* the work stack of c3Linearize
  visiting,   \* the classes it is in
  merging,    \* its loop that merges: the class, the sequences, the result
  called,     \* the class a method is called on, 0 before the call
  reached     \* the order in which the call looks through the ancestors

mroVars == <<strategy, parents, turn, orders, overrides, doing, walk, cache, stack, visiting,
             merging, called, reached>>

Class == 1..Classes
Method == {definers \in SUBSET Class : Cardinality(definers) > 1}

\* The members of S in a sequence, in its order.
Kept(seq, S) ==
  LET places == {i \in DOMAIN seq : seq[i] \in S}
  IN [k \in 1..Cardinality(places) |->
        seq[CHOOSE i \in places : Cardinality({j \in places : j < i}) = k - 1]]

NoWalk == [frontier |-> <<>>, found |-> <<>>, next |-> <<>>, depth |-> 0]
NoMerge == [class |-> 0, seqs |-> <<>>, order |-> <<>>]

\* Nothing was computed.
MroIdle ==
  /\ turn = 1 /\ orders = [c \in Class |-> <<>>] /\ overrides = {}
  /\ doing = "next" /\ walk = NoWalk
  /\ cache = [pass |-> <<>>, call |-> <<>>]
  /\ stack = <<>> /\ visiting = {} /\ merging = NoMerge
  /\ called = 0 /\ reached = <<>>

MroInit ==
  /\ strategy \in {"c3", "bfs"}
  /\ parents \in [Class -> {s \in SeqOf(Class, MaxParents) : IsInjective(s)}]
  /\ \A c \in Class : c \notin ToSet(parents[c])
  /\ MroIdle

-----------------------------------------------------------------------------
(* C3 (c3Linearize), for the class of the pass or of the call, with its cache *)

User == IF turn <= Classes THEN "pass" ELSE "call"
Subject == IF turn <= Classes THEN turn ELSE called
Known == cache[User]

Learn(c, order) ==
  cache' = [cache EXCEPT ![User] = [x \in DOMAIN Known \union {c} |-> IF x = c THEN order ELSE Known[x]]]

WorkFrame(c, merge) == [class |-> c, merge |-> merge]

Linearize(c, known) ==
  /\ doing' = "c3" /\ visiting' = {}
  /\ stack' = IF c \in DOMAIN known THEN <<>> ELSE <<WorkFrame(c, FALSE)>>

\* A frame enters: a class that is known, in progress (a cycle) or without
\* parents is done; another one pushes the parents that are not known yet, the
\* first on top, to be merged when it comes to the top again.
Enter ==
  LET c == Last(stack).class
      unknown == Kept(Reverse(parents[c]), Class \ DOMAIN Known)
      pushed == [i \in DOMAIN unknown |-> WorkFrame(unknown[i], FALSE)]
  IN /\ doing = "c3" /\ stack # <<>> /\ ~Last(stack).merge
     /\ \/ /\ c \in DOMAIN Known
           /\ stack' = Front(stack)
           /\ UNCHANGED <<cache, visiting>>
        \/ /\ c \notin DOMAIN Known /\ (c \in visiting \/ parents[c] = <<>>)
           /\ Learn(c, IF c \in visiting THEN NoOrder ELSE <<>>)
           /\ stack' = Front(stack)
           /\ UNCHANGED visiting
        \/ /\ c \notin DOMAIN Known \union visiting /\ parents[c] # <<>>
           /\ visiting' = visiting \union {c}
           /\ stack' = Append(Front(stack), WorkFrame(c, TRUE)) \o pushed
           /\ UNCHANGED cache
     /\ UNCHANGED <<strategy, parents, turn, orders, overrides, doing, walk, merging, called, reached>>

\* A frame is merged: the orders of the parents, each behind its class, and the
\* list of the parents.
MergeBegins ==
  LET c == Last(stack).class
      sequences == [i \in DOMAIN parents[c] |-> <<parents[c][i]>> \o Known[parents[c][i]]]
                     \o <<parents[c]>>
  IN /\ doing = "c3" /\ stack # <<>> /\ Last(stack).merge
     /\ stack' = Front(stack)
     /\ IF \E p \in ToSet(parents[c]) : p \notin DOMAIN Known \/ Known[p] = NoOrder
          THEN Learn(c, NoOrder) /\ visiting' = visiting \ {c} /\ UNCHANGED <<doing, merging>>
          ELSE /\ doing' = "merge"
               /\ merging' = [class |-> c, seqs |-> sequences, order |-> <<>>]
               /\ UNCHANGED <<cache, visiting>>
     /\ UNCHANGED <<strategy, parents, turn, orders, overrides, walk, called, reached>>

\* Mutant: only the last sequence, the list of parents, holds a head back.
GoodHeads_ParentsOnly(seqs) ==
  {i \in DOMAIN seqs : seqs[i] # <<>>
     /\ (Last(seqs) = <<>> \/ seqs[i][1] \notin ToSet(Tail(Last(seqs))))}

\* The sequences whose head is in the tail of none.
GoodHeads(seqs) ==
  {i \in DOMAIN seqs : seqs[i] # <<>>
     /\ \A k \in DOMAIN seqs : seqs[k] # <<>> => seqs[i][1] \notin ToSet(Tail(seqs[k]))}

\* The first good head is taken off all sequences.
MergeOn ==
  LET good == GoodHeads(merging.seqs)
      head == merging.seqs[CHOOSE i \in good : \A k \in good : i <= k][1]
  IN /\ doing = "merge" /\ good # {}
     /\ merging' = [merging EXCEPT
          !.seqs = [i \in DOMAIN @ |-> IF @[i] # <<>> /\ @[i][1] = head THEN Tail(@[i]) ELSE @[i]],
          !.order = Append(@, head)]
     /\ UNCHANGED <<strategy, parents, turn, orders, overrides, doing, walk, cache, stack, visiting,
                    called, reached>>

MergeEnds ==
  /\ doing = "merge" /\ GoodHeads(merging.seqs) = {}
  /\ Learn(merging.class, IF \A i \in DOMAIN merging.seqs : merging.seqs[i] = <<>>
                            THEN merging.order ELSE NoOrder)
  /\ visiting' = visiting \ {merging.class}
  /\ doing' = "c3" /\ merging' = NoMerge
  /\ UNCHANGED <<strategy, parents, turn, orders, overrides, walk, stack, called, reached>>

-----------------------------------------------------------------------------
(* The pass *)

Unseen(c, seen) == Kept(parents[c], Class \ ToSet(seen))

\* computeMRO comes to the next class, and gathers its ancestors.
ComputeNextClass ==
  /\ doing = "next" /\ turn <= Classes
  /\ IF parents[turn] = <<>>
       THEN turn' = turn + 1 /\ UNCHANGED <<doing, walk>>
       ELSE /\ doing' = "gather" /\ walk' = [NoWalk EXCEPT !.frontier = parents[turn]]
            /\ UNCHANGED turn
  /\ UNCHANGED <<strategy, parents, orders, overrides, cache, stack, visiting, merging, called, reached>>

\* Mutant: the parents of an ancestor come before its siblings.
GatherOn_DepthFirst ==
  LET c == Head(walk.frontier)
      seen == Append(walk.found, c)
  IN /\ doing = "gather" /\ walk.frontier # <<>>
     /\ walk' = IF c \in ToSet(walk.found)
                  THEN [walk EXCEPT !.frontier = Tail(@)]
                  ELSE [walk EXCEPT !.frontier = Unseen(c, seen) \o Tail(@), !.found = seen]
     /\ UNCHANGED <<strategy, parents, turn, orders, overrides, doing, cache, stack, visiting,
                    merging, called, reached>>

\* gatherAncestors; the class itself is among them when it is in a cycle.
GatherOn ==
  LET c == Head(walk.frontier)
      seen == Append(walk.found, c)
  IN /\ doing = "gather" /\ walk.frontier # <<>>
     /\ walk' = IF c \in ToSet(walk.found)
                  THEN [walk EXCEPT !.frontier = Tail(@)]
                  ELSE [walk EXCEPT !.frontier = Tail(@) \o Unseen(c, seen), !.found = seen]
     /\ UNCHANGED <<strategy, parents, turn, orders, overrides, doing, cache, stack, visiting,
                    merging, called, reached>>

First(order, definers) == order[CHOOSE i \in DOMAIN order :
  order[i] \in definers /\ \A k \in 1..(i - 1) : order[k] \notin definers]

\* The order of the class is found: an edge for each method that two of its
\* ancestors define and it does not (resolveByMroOrder).
Decide(order) ==
  /\ orders' = [orders EXCEPT ![turn] = order]
  /\ overrides' = overrides \union
       {<<turn, definers, First(order, definers)>> :
          definers \in {d \in Method : turn \notin d /\ Cardinality(d \intersect ToSet(order)) > 1}}
  /\ turn' = turn + 1 /\ doing' = "next"

GatherEnds ==
  /\ doing = "gather" /\ walk.frontier = <<>>
  /\ IF strategy = "c3"
       THEN Linearize(turn, cache["pass"]) /\ UNCHANGED <<turn, orders, overrides>>
       ELSE Decide(walk.found) /\ UNCHANGED <<stack, visiting>>
  /\ UNCHANGED <<strategy, parents, walk, cache, merging, called, reached>>

ClassEnds ==
  LET c3 == cache["pass"][turn]
  IN /\ doing = "c3" /\ stack = <<>> /\ turn <= Classes
     /\ Decide(IF c3 # NoOrder THEN c3 ELSE walk.found)
     /\ UNCHANGED <<strategy, parents, walk, cache, stack, visiting, merging, called, reached>>

-----------------------------------------------------------------------------
(* The call (lookupMethodByOwnerWithMRO) *)

\* getAncestors of the heritage map begins.
StartLevels(c) ==
  /\ doing' = "levels"
  /\ walk' = [NoWalk EXCEPT !.frontier = parents[c], !.found = <<c>>]

Call ==
  /\ doing = "next" /\ turn > Classes
  /\ \E c \in Class :
       /\ called' = c
       /\ IF strategy = "c3" THEN Linearize(c, cache["call"]) /\ UNCHANGED walk
                             ELSE StartLevels(c) /\ UNCHANGED <<stack, visiting>>
  /\ UNCHANGED <<strategy, parents, turn, orders, overrides, cache, merging, reached>>

\* The order of C3, or the walk if there is none.
CallLinearized ==
  LET c3 == cache["call"][called]
  IN /\ doing = "c3" /\ stack = <<>> /\ turn > Classes
     /\ IF c3 # NoOrder THEN doing' = "called" /\ reached' = c3 /\ UNCHANGED walk
                        ELSE StartLevels(called) /\ UNCHANGED reached
     /\ UNCHANGED <<strategy, parents, turn, orders, overrides, cache, stack, visiting, merging, called>>

\* One class of a level: its parents belong to the next one.
LevelOn ==
  LET c == Head(walk.frontier)
      seen == Append(walk.found, c)
  IN /\ doing = "levels" /\ walk.frontier # <<>> /\ walk.depth < MaxAncestorDepth
     /\ walk' = IF c \in ToSet(walk.found)
                  THEN [walk EXCEPT !.frontier = Tail(@)]
                  ELSE [walk EXCEPT !.frontier = Tail(@), !.found = seen,
                                    !.next = @ \o Unseen(c, seen)]
     /\ UNCHANGED <<strategy, parents, turn, orders, overrides, doing, cache, stack, visiting,
                    merging, called, reached>>

LevelEnds ==
  /\ doing = "levels"
  /\ IF walk.frontier = <<>> /\ walk.next # <<>>
       THEN /\ walk' = [walk EXCEPT !.frontier = walk.next, !.next = <<>>, !.depth = @ + 1]
            /\ UNCHANGED <<doing, reached>>
       ELSE /\ walk.frontier = <<>> \/ walk.depth = MaxAncestorDepth
            /\ doing' = "called" /\ reached' = Tail(walk.found)
            /\ UNCHANGED walk
  /\ UNCHANGED <<strategy, parents, turn, orders, overrides, cache, stack, visiting, merging, called>>

MroNext ==
  \/ ComputeNextClass \/ GatherOn \/ GatherEnds \/ ClassEnds
  \/ Enter \/ MergeBegins \/ MergeOn \/ MergeEnds
  \/ Call \/ CallLinearized \/ LevelOn \/ LevelEnds

MroSpec == MroInit /\ [][MroNext]_mroVars

-----------------------------------------------------------------------------
(* Properties *)

Orders == Seq(Class)

\* Types of the loops and of what they write.
MroTypeOK ==
  /\ strategy \in {"c3", "bfs"} /\ turn \in 1..(Classes + 1) /\ called \in 0..Classes
  /\ doing \in {"next", "gather", "c3", "merge", "levels", "called"}
  /\ walk \in [frontier : Orders, found : Orders, next : Orders, depth : 0..MaxAncestorDepth]
  /\ DOMAIN cache = {"pass", "call"}
  /\ \A u \in {"pass", "call"} :
       DOMAIN cache[u] \subseteq Class /\ \A c \in DOMAIN cache[u] : cache[u][c] \in Orders \union {NoOrder}
  /\ stack \in Seq([class : Class, merge : BOOLEAN]) /\ visiting \subseteq Class
  /\ merging \in [class : 0..Classes, seqs : Seq(Orders), order : Orders]
  /\ orders \in [Class -> Orders] /\ overrides \subseteq Class \X Method \X Class /\ reached \in Orders

\* The ancestors of c: what every set has that contains the parents of c and of
\* its own members.
Up(c) ==
  {a \in Class : \A S \in SUBSET Class :
     ToSet(parents[c]) \subseteq S /\ (\A x \in S : ToSet(parents[x]) \subseteq S) => a \in S}

Respects(order, seq) ==
  \A i, k \in DOMAIN seq : i < k =>
    \E j, l \in DOMAIN order : j < l /\ order[j] = seq[i] /\ order[l] = seq[k]

\* What a C3 order of c must be, given those of its parents: all ancestors
\* once, in no conflict with a parent's order or the order of the parents.
IsC3(c, order, known) ==
  /\ IsInjective(order) /\ ToSet(order) = Up(c)
  /\ Respects(order, parents[c])
  /\ \A p \in ToSet(parents[c]) : Respects(order, <<p>> \o known[p])

\* A class that is, or inherits from, one that inherits from itself.
Cyclic(c) == \E a \in Up(c) \union {c} : a \in Up(a)

\* Whatever cache the linearization of a class starts from, it answers null
\* exactly if the class is below a cycle, below a class without an order, or
\* no order agrees with those of its parents; else it answers such an order.
C3Correct ==
  doing \in {"next", "called"} =>
    \A u \in {"pass", "call"} : \A c \in DOMAIN cache[u] :
      LET known == cache[u]
          impossible ==
            \/ Cyclic(c)
            \/ \E p \in ToSet(parents[c]) : known[p] = NoOrder
            \/ ~\E order \in SetToSeqs(Up(c)) : IsC3(c, order, known)
      IN IF impossible THEN known[c] = NoOrder
                       ELSE known[c] # NoOrder /\ IsC3(c, known[c], known)

\* An edge of the graph names the class whose method a call reaches, and there
\* is one wherever a call is resolved among several definitions, for classes
\* whose ancestors are no deeper than the lookup goes.
EdgesAgreeWithCalls ==
  doing = "called" /\ Up(called) \ {called} \subseteq ToSet(reached) =>
    \A definers \in {d \in Method : called \notin d /\ Cardinality(d \intersect Up(called)) > 1} :
      {o \in overrides : o[1] = called /\ o[2] = definers}
        = {<<called, definers, First(reached, definers)>>}
=============================================================================
