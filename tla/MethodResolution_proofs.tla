------------------------- MODULE MethodResolution_proofs -------------------------
(***************************************************************************)
(* c3Linearize is right for every hierarchy of any number of classes, with   *)
(* any cache it may start from, and the two passes agree on what a method    *)
(* overrides.                                                                *)
(*                                                                           *)
(* A cache is Sound when each of its entries is right, given those of the    *)
(* parents, which are there.  The loop keeps it so: what the work stack      *)
(* means is Working, and Merging says that what was merged is the beginning  *)
(* of every order there may be.  No induction over the hierarchy is needed,  *)
(* because ancestors are the least closed set and a cycle shows on the stack.*)
(*                                                                           *)
(* The passes may use caches of different histories.  Each order in a cache  *)
(* is what the merge takes Greedily, so two caches give a class one answer   *)
(* (OneAnswer).  Where there is none both walk breadth first, one with the   *)
(* class itself found and one without; BreadthFirst says what such a walk    *)
(* found and in which order, so both find the ancestors in one order         *)
(* (OneWalk) and the same first definer (SameFirst).                         *)
(***************************************************************************)
EXTENDS MethodResolution, SequenceTheorems, FunctionTheorems, FiniteSetTheorems,
        WellFoundedInduction, NaturalsInduction, TLAPS

-----------------------------------------------------------------------------
(* Least numbers *)

Less == {ss \in Nat \X Nat : ss[1] < ss[2]}

LEMMA LessWellFounded == IsWellFoundedOn(Less, Nat)
BY NatLessThanWellFounded DEF OpToRel, Less

LEMMA LeastOf ==
  ASSUME NEW T \in SUBSET Nat, T # {}
  PROVE  \E n \in T : \A m \in T : n <= m
<1>1. PICK x \in T : \A y \in T : ~(<<y, x>> \in Less)
  BY LessWellFounded, WFMin
<1>2. \A a, b \in Nat : <<a, b>> \in Less <=> a < b
  BY DEF Less
<1>3. \A y \in T : ~(y < x)
  BY <1>1, <1>2
<1> QED
  BY <1>3

-----------------------------------------------------------------------------
(* Hierarchies *)

Hierarchy == {h \in [Class -> Orders] : \A c \in Class : IsInjective(h[c]) /\ c \notin ToSet(h[c])}

Closed(h, S) == \A x \in S : ToSet(h[x]) \subseteq S

UpOf(h, c) ==
  {a \in Class : \A S \in SUBSET Class : ToSet(h[c]) \subseteq S /\ Closed(h, S) => a \in S}

CyclicIn(h, c) == \E a \in UpOf(h, c) \union {c} : a \in UpOf(h, a)

\* Up and Cyclic, with the hierarchy as a parameter.
LEMMA UpIs == \A c : Up(c) = UpOf(parents, c) /\ Cyclic(c) = CyclicIn(parents, c)
<1>1. \A c : Up(c) = UpOf(parents, c)
  BY DEF Up, UpOf, Closed
<1> QED
  BY <1>1 DEF Cyclic, CyclicIn

LEMMA ParentsAreClasses ==
  ASSUME NEW h \in Hierarchy, NEW c \in Class
  PROVE  /\ h[c] \in Orders /\ DOMAIN h[c] = 1..Len(h[c]) /\ Len(h[c]) \in Nat
         /\ ToSet(h[c]) \subseteq Class /\ c \notin ToSet(h[c]) /\ IsInjective(h[c])
<1>1. h[c] \in Orders /\ c \notin ToSet(h[c]) /\ IsInjective(h[c])
  BY DEF Hierarchy
<1>2. DOMAIN h[c] = 1..Len(h[c]) /\ Len(h[c]) \in Nat /\ \A i \in 1..Len(h[c]) : h[c][i] \in Class
  BY <1>1, LenProperties DEF Orders
<1> QED
  BY <1>1, <1>2 DEF ToSet

\* The ancestors are the least closed set above the parents: the parents, and what
\* is above them.
LEMMA UpOfIsLeast ==
  ASSUME NEW h \in Hierarchy, NEW c \in Class
  PROVE  /\ UpOf(h, c) \subseteq Class /\ ToSet(h[c]) \subseteq UpOf(h, c)
         /\ \A x \in UpOf(h, c) : ToSet(h[x]) \subseteq UpOf(h, c) /\ UpOf(h, x) \subseteq UpOf(h, c)
         /\ \A S \in SUBSET Class : ToSet(h[c]) \subseteq S /\ Closed(h, S) => UpOf(h, c) \subseteq S
<1>1. ToSet(h[c]) \subseteq UpOf(h, c)
  BY ParentsAreClasses DEF UpOf
<1>2. ASSUME NEW x \in UpOf(h, c) PROVE ToSet(h[x]) \subseteq UpOf(h, c)
  <2>1. x \in Class
    BY DEF UpOf
  <2> SUFFICES ASSUME NEW y \in ToSet(h[x]), NEW S \in SUBSET Class, ToSet(h[c]) \subseteq S, Closed(h, S)
               PROVE  y \in Class /\ y \in S
    BY <2>1, ParentsAreClasses DEF UpOf
  <2>2. x \in S
    BY DEF UpOf
  <2> QED
    BY <2>2 DEF Closed
<1>3. Closed(h, UpOf(h, c)) /\ UpOf(h, c) \in SUBSET Class
  BY <1>2 DEF Closed, UpOf
<1>4. ASSUME NEW x \in UpOf(h, c) PROVE UpOf(h, x) \subseteq UpOf(h, c)
  BY <1>2, <1>3 DEF UpOf
<1>5. \A S \in SUBSET Class : ToSet(h[c]) \subseteq S /\ Closed(h, S) => UpOf(h, c) \subseteq S
  BY DEF UpOf
<1> QED
  BY <1>1, <1>2, <1>3, <1>4, <1>5

LEMMA UpOfThroughParents ==
  ASSUME NEW h \in Hierarchy, NEW c \in Class
  PROVE  UpOf(h, c) = UNION {{p} \union UpOf(h, p) : p \in ToSet(h[c])}
<1> DEFINE U == UNION {{p} \union UpOf(h, p) : p \in ToSet(h[c])}
<1>1. \A p \in ToSet(h[c]) : p \in Class /\ p \in UpOf(h, c) /\ UpOf(h, p) \subseteq UpOf(h, c)
  BY ParentsAreClasses, UpOfIsLeast
<1>2. U \subseteq UpOf(h, c)
  BY <1>1
<1>3. U \in SUBSET Class /\ ToSet(h[c]) \subseteq U
  BY <1>1, UpOfIsLeast
<1>4. Closed(h, U)
  <2> SUFFICES ASSUME NEW p \in ToSet(h[c]), NEW x \in {p} \union UpOf(h, p), NEW y \in ToSet(h[x])
               PROVE  y \in U
    BY DEF Closed
  <2>1. ToSet(h[p]) \subseteq UpOf(h, p)
    BY <1>1, UpOfIsLeast
  <2>2. y \in UpOf(h, p)
    BY <1>1, <2>1, UpOfIsLeast
  <2> QED
    BY <2>2
<1>5. UpOf(h, c) \subseteq U
  BY <1>3, <1>4, UpOfIsLeast
<1> QED
  BY <1>2, <1>5

-----------------------------------------------------------------------------
(* Sequences *)

LEMMA SetOf ==
  ASSUME NEW S, NEW s \in Seq(S)
  PROVE  /\ Len(s) \in Nat /\ DOMAIN s = 1..Len(s)
         /\ ToSet(s) \subseteq S /\ \A i \in 1..Len(s) : s[i] \in ToSet(s) /\ s[i] \in S
         /\ \A x \in ToSet(s) : \E i \in 1..Len(s) : s[i] = x
<1>1. Len(s) \in Nat /\ DOMAIN s = 1..Len(s) /\ \A i \in 1..Len(s) : s[i] \in S
  BY LenProperties
<1> QED
  BY <1>1 DEF ToSet

\* A class in front of a sequence.
LEMMA InFront ==
  ASSUME NEW S, NEW x \in S, NEW s \in Seq(S)
  PROVE  LET t == <<x>> \o s IN
         /\ t \in Seq(S) /\ Len(t) = Len(s) + 1 /\ t[1] = x
         /\ \A i \in 1..Len(s) : t[i + 1] = s[i]
         /\ ToSet(t) = {x} \union ToSet(s)
<1> DEFINE t == <<x>> \o s
<1>1. <<x>> \in Seq(S) /\ Len(<<x>>) = 1 /\ <<x>>[1] = x
  OBVIOUS
<1>2. /\ t \in Seq(S) /\ Len(t) = 1 + Len(s)
      /\ \A i \in 1..(1 + Len(s)) : t[i] = IF i <= 1 THEN <<x>>[i] ELSE s[i - 1]
  <2>1. /\ t \in Seq(S) /\ Len(t) = Len(<<x>>) + Len(s)
        /\ \A i \in 1..(Len(<<x>>) + Len(s)) :
             t[i] = IF i <= Len(<<x>>) THEN <<x>>[i] ELSE s[i - Len(<<x>>)]
    BY <1>1, ConcatProperties
  <2> QED
    BY <1>1, <2>1
<1>3. Len(s) \in Nat /\ DOMAIN s = 1..Len(s)
  BY LenProperties
<1> HIDE DEF t
<1>4. t[1] = x
  BY <1>1, <1>2, <1>3
<1>5. \A i \in 1..Len(s) : t[i + 1] = s[i]
  <2> SUFFICES ASSUME NEW i \in 1..Len(s) PROVE t[i + 1] = s[i]
    OBVIOUS
  <2>1. i + 1 \in 1..(1 + Len(s)) /\ ~(i + 1 <= 1) /\ (i + 1) - 1 = i
    BY <1>3
  <2> QED
    BY <1>2, <2>1
<1>6. DOMAIN t = 1..(Len(s) + 1)
  BY <1>2, <1>3, LenProperties
<1>7. ToSet(t) = {x} \union ToSet(s)
  <2>1. \A i \in 1..(Len(s) + 1) : i = 1 \/ (i - 1 \in 1..Len(s) /\ (i - 1) + 1 = i)
    BY <1>3
  <2>2. ToSet(t) = {t[i] : i \in 1..(Len(s) + 1)} /\ ToSet(s) = {s[i] : i \in 1..Len(s)}
    BY <1>3, <1>6 DEF ToSet
  <2>3. ASSUME NEW y \in ToSet(t) PROVE y \in {x} \union ToSet(s)
    <3>1. PICK i \in 1..(Len(s) + 1) : t[i] = y
      BY <2>2
    <3> QED
      BY <1>4, <1>5, <2>1, <2>2, <3>1
  <2>4. ASSUME NEW y \in {x} \union ToSet(s) PROVE y \in ToSet(t)
    <3>1. CASE y = x
      <4>1. 1 \in 1..(Len(s) + 1)
        BY <1>3
      <4> QED
        BY <1>4, <2>2, <3>1, <4>1
    <3>2. CASE y \in ToSet(s)
      <4>1. PICK i \in 1..Len(s) : s[i] = y
        BY <2>2, <3>2
      <4>2. i + 1 \in 1..(Len(s) + 1)
        BY <1>3
      <4> QED
        BY <1>5, <2>2, <4>1, <4>2
    <3> QED
      BY <3>1, <3>2
  <2> QED
    BY <2>3, <2>4
<1> QED
  BY <1>2, <1>3, <1>4, <1>5, <1>7 DEF t

-----------------------------------------------------------------------------
(* What a cache may say *)

IsC3In(h, c, order, k) ==
  /\ IsInjective(order) /\ ToSet(order) = UpOf(h, c)
  /\ Respects(order, h[c])
  /\ \A p \in ToSet(h[c]) : Respects(order, <<p>> \o k[p])

Impossible(h, c, k) ==
  \/ CyclicIn(h, c)
  \/ /\ ToSet(h[c]) \subseteq DOMAIN k
     /\ \/ \E p \in ToSet(h[c]) : k[p] = NoOrder
        \/ ~\E order \in Orders : IsC3In(h, c, order, k)

Linearizes(h, c, order, k) ==
  /\ order \in Orders /\ ~CyclicIn(h, c)
  /\ \A p \in ToSet(h[c]) : p \in DOMAIN k /\ k[p] # NoOrder
  /\ IsC3In(h, c, order, k)

\* Each entry of a cache is right.
Sound(h, k) ==
  /\ DOMAIN k \subseteq Class
  /\ \A c \in DOMAIN k : IF k[c] = NoOrder THEN Impossible(h, c, k) ELSE Linearizes(h, c, k[c], k)

\* The sequences that are merged for c.
Sequences(h, k, c) == [i \in DOMAIN h[c] |-> <<h[c][i]>> \o k[h[c][i]]] \o <<h[c]>>

\* All parents of c have an order.
Ready(h, k, c) ==
  /\ h \in Hierarchy /\ Sound(h, k) /\ c \in Class
  /\ \A p \in ToSet(h[c]) : p \in DOMAIN k /\ k[p] # NoOrder

LEMMA ReadyIsAcyclic ==
  ASSUME NEW h, NEW k, NEW c, Ready(h, k, c)
  PROVE  ~CyclicIn(h, c)
<1> USE DEF Ready
<1>1. \A p \in ToSet(h[c]) : p \in Class /\ ~CyclicIn(h, p)
  BY ParentsAreClasses DEF Sound, Linearizes
<1>2. \A a \in UpOf(h, c) : a \notin UpOf(h, a)
  BY <1>1, UpOfThroughParents DEF CyclicIn
<1>3. c \notin UpOf(h, c)
  <2> SUFFICES ASSUME c \in UpOf(h, c) PROVE FALSE
    OBVIOUS
  <2>1. PICK p \in ToSet(h[c]) : c = p \/ c \in UpOf(h, p)
    BY UpOfThroughParents
  <2>2. c # p
    BY ParentsAreClasses
  <2>3. p \in UpOf(h, c) /\ p \in Class
    BY <1>1, UpOfIsLeast
  <2>4. UpOf(h, c) \subseteq UpOf(h, p)
    BY <2>1, <2>2, <2>3, UpOfIsLeast
  <2> QED
    BY <1>2, <2>3, <2>4
<1> QED
  BY <1>2, <1>3 DEF CyclicIn

LEMMA SequencesAre ==
  ASSUME NEW h, NEW k, NEW c, Ready(h, k, c)
  PROVE  /\ Len(h[c]) \in Nat /\ DOMAIN h[c] = 1..Len(h[c])
         /\ Sequences(h, k, c) \in Seq(Orders) /\ DOMAIN Sequences(h, k, c) = 1..(Len(h[c]) + 1)
         /\ Len(Sequences(h, k, c)) = Len(h[c]) + 1
         /\ Sequences(h, k, c)[Len(h[c]) + 1] = h[c]
         /\ \A i \in 1..Len(h[c]) : Sequences(h, k, c)[i] = <<h[c][i]>> \o k[h[c][i]]
<1> USE DEF Ready
<1> DEFINE n == Len(h[c])
           f == [i \in DOMAIN h[c] |-> <<h[c][i]>> \o k[h[c][i]]]
           o == Sequences(h, k, c)
<1>1. n \in Nat /\ DOMAIN h[c] = 1..n /\ h[c] \in Orders /\ \A i \in 1..n : h[c][i] \in ToSet(h[c]) /\ h[c][i] \in Class
  BY ParentsAreClasses, SetOf DEF Orders
<1>2. \A p \in ToSet(h[c]) : p \in Class /\ k[p] \in Orders
  BY ParentsAreClasses DEF Sound, Linearizes
<1>3. \A i \in 1..n : <<h[c][i]>> \o k[h[c][i]] \in Orders
  BY <1>1, <1>2, InFront DEF Orders
<1> HIDE DEF n
<1>4. f \in Seq(Orders) /\ Len(f) = n /\ \A i \in 1..n : f[i] = <<h[c][i]>> \o k[h[c][i]]
  BY <1>1, <1>3
<1> HIDE DEF f
<1>5. <<h[c]>> \in Seq(Orders) /\ Len(<<h[c]>>) = 1 /\ <<h[c]>>[1] = h[c]
  BY <1>1
<1>6. o = f \o <<h[c]>>
  BY DEF Sequences, f
<1> HIDE DEF o
<1>7. /\ o \in Seq(Orders) /\ Len(o) = n + 1
      /\ \A i \in 1..(n + 1) : o[i] = IF i <= n THEN f[i] ELSE <<h[c]>>[i - n]
  <2>1. /\ o \in Seq(Orders) /\ Len(o) = Len(f) + Len(<<h[c]>>)
        /\ \A i \in 1..(Len(f) + Len(<<h[c]>>)) : o[i] = IF i <= Len(f) THEN f[i] ELSE <<h[c]>>[i - Len(f)]
    BY <1>4, <1>5, <1>6, ConcatProperties
  <2> QED
    BY <1>4, <1>5, <2>1
<1>8. o[n + 1] = h[c]
  <2>1. n + 1 \in 1..(n + 1) /\ ~(n + 1 <= n) /\ (n + 1) - n = 1
    BY <1>1
  <2> QED
    BY <1>5, <1>7, <2>1
<1>9. \A i \in 1..n : o[i] = <<h[c][i]>> \o k[h[c][i]]
  <2>1. \A i \in 1..n : i \in 1..(n + 1) /\ i <= n
    BY <1>1
  <2> QED
    BY <1>4, <1>7, <2>1
<1>10. DOMAIN o = 1..(n + 1)
  BY <1>7, LenProperties
<1> QED
  BY <1>1, <1>7, <1>8, <1>9, <1>10 DEF o, n

\* They list the ancestors of c, each sequence once.
LEMMA SequencesCover ==
  ASSUME NEW h, NEW k, NEW c, Ready(h, k, c)
  PROVE  LET o == Sequences(h, k, c) IN
         /\ \A j \in DOMAIN o : o[j] \in Orders /\ IsInjective(o[j]) /\ ToSet(o[j]) \subseteq UpOf(h, c)
         /\ \A x \in UpOf(h, c) : \E j \in DOMAIN o : x \in ToSet(o[j])
         /\ \A order : IsC3In(h, c, order, k) <=>
              /\ IsInjective(order) /\ ToSet(order) = UpOf(h, c)
              /\ \A j \in DOMAIN o : Respects(order, o[j])
<1> DEFINE n == Len(h[c])
           o == Sequences(h, k, c)
<1>1. /\ n \in Nat /\ DOMAIN h[c] = 1..n
      /\ DOMAIN o = 1..(n + 1)
      /\ o[n + 1] = h[c] /\ \A i \in 1..n : o[i] = <<h[c][i]>> \o k[h[c][i]]
  <2>1. n \in Nat /\ DOMAIN h[c] = 1..n
    BY SequencesAre
  <2>2. DOMAIN o = 1..(n + 1)
    BY SequencesAre
  <2>3. o[n + 1] = h[c]
    BY SequencesAre
  <2>4. \A i \in 1..n : o[i] = <<h[c][i]>> \o k[h[c][i]]
    BY SequencesAre
  <2> QED
    BY <2>1, <2>2, <2>3, <2>4
<1> USE DEF Ready
<1> HIDE DEF o, n
<1>2. \A j \in DOMAIN o : j \in 1..n \/ j = n + 1
  BY <1>1
<1>3. n + 1 \in DOMAIN o /\ \A i \in 1..n : i \in DOMAIN o
  BY <1>1
<1>4. /\ h[c] \in Orders /\ IsInjective(h[c]) /\ ToSet(h[c]) \subseteq UpOf(h, c)
      /\ \A i \in 1..n : h[c][i] \in ToSet(h[c])
      /\ \A p \in ToSet(h[c]) : \E i \in 1..n : h[c][i] = p
  BY <1>1, ParentsAreClasses, UpOfIsLeast, SetOf DEF Orders, n
<1>5. ASSUME NEW p \in ToSet(h[c])
      PROVE  LET t == <<p>> \o k[p] IN
             /\ t \in Orders /\ IsInjective(t) /\ ToSet(t) = {p} \union UpOf(h, p)
             /\ {p} \union UpOf(h, p) \subseteq UpOf(h, c)
  <2> DEFINE t == <<p>> \o k[p]
  <2>1. p \in Class /\ Linearizes(h, p, k[p], k) /\ p \in UpOf(h, c)
    BY <1>4, ParentsAreClasses DEF Sound
  <2>2. k[p] \in Orders /\ IsInjective(k[p]) /\ ToSet(k[p]) = UpOf(h, p) /\ p \notin UpOf(h, p)
    BY <2>1 DEF Linearizes, IsC3In, CyclicIn
  <2>3. /\ t \in Orders /\ Len(t) = Len(k[p]) + 1 /\ t[1] = p
        /\ \A i \in 1..Len(k[p]) : t[i + 1] = k[p][i]
        /\ ToSet(t) = {p} \union ToSet(k[p])
    BY <2>1, <2>2, InFront DEF Orders
  <2>4. Len(k[p]) \in Nat /\ DOMAIN k[p] = 1..Len(k[p]) /\ \A i \in 1..Len(k[p]) : k[p][i] # p
    BY <2>2, SetOf DEF Orders
  <2>5. DOMAIN t = 1..(Len(k[p]) + 1)
    BY <2>3, LenProperties DEF Orders
  <2> HIDE DEF t
  <2>6. IsInjective(t)
    <3> SUFFICES ASSUME NEW a \in 1..(Len(k[p]) + 1), NEW b \in 1..(Len(k[p]) + 1), t[a] = t[b] PROVE a = b
      BY <2>5 DEF IsInjective
    <3>1. ASSUME NEW i \in 1..(Len(k[p]) + 1)
          PROVE i = 1 \/ (i - 1 \in 1..Len(k[p]) /\ t[i] = k[p][i - 1])
      <4>1. CASE i # 1
        <5>1. i - 1 \in 1..Len(k[p]) /\ (i - 1) + 1 = i
          BY <2>4, <4>1
        <5> QED
          BY <2>3, <5>1
      <4> QED
        BY <4>1
    <3>2. CASE a = 1 \/ b = 1
      BY <2>3, <2>4, <3>1, <3>2
    <3>3. CASE a # 1 /\ b # 1
      <4>1. a - 1 \in 1..Len(k[p]) /\ b - 1 \in 1..Len(k[p]) /\ k[p][a - 1] = k[p][b - 1]
        BY <3>1, <3>3
      <4>2. \A i, j \in 1..Len(k[p]) : k[p][i] = k[p][j] => i = j
        BY <2>2, <2>4 DEF IsInjective
      <4>3. a - 1 = b - 1
        BY <4>1, <4>2
      <4> QED
        BY <2>4, <4>3
    <3> QED
      BY <3>2, <3>3
  <2>7. {p} \union UpOf(h, p) \subseteq UpOf(h, c)
    BY <2>1, UpOfIsLeast
  <2> QED
    BY <2>2, <2>3, <2>6, <2>7 DEF t
<1>6. \A j \in DOMAIN o : o[j] \in Orders /\ IsInjective(o[j]) /\ ToSet(o[j]) \subseteq UpOf(h, c)
  <2> SUFFICES ASSUME NEW j \in DOMAIN o
               PROVE  o[j] \in Orders /\ IsInjective(o[j]) /\ ToSet(o[j]) \subseteq UpOf(h, c)
    OBVIOUS
  <2>1. CASE j = n + 1
    BY <1>1, <1>4, <2>1
  <2>2. CASE j \in 1..n
    BY <1>1, <1>4, <1>5, <2>2
  <2> QED
    BY <1>2, <2>1, <2>2
<1>7. ASSUME NEW x \in UpOf(h, c) PROVE \E j \in DOMAIN o : x \in ToSet(o[j])
  <2>1. PICK p \in ToSet(h[c]) : x \in {p} \union UpOf(h, p)
    BY UpOfThroughParents
  <2>2. PICK i \in 1..n : h[c][i] = p
    BY <1>4
  <2> QED
    BY <1>1, <1>3, <1>5, <2>1, <2>2
<1>8. ASSUME NEW order
      PROVE (/\ Respects(order, h[c]) /\ \A p \in ToSet(h[c]) : Respects(order, <<p>> \o k[p]))
            <=> \A j \in DOMAIN o : Respects(order, o[j])
  <2>1. ASSUME \A j \in DOMAIN o : Respects(order, o[j]), NEW p \in ToSet(h[c])
        PROVE  Respects(order, h[c]) /\ Respects(order, <<p>> \o k[p])
    <3>1. PICK i \in 1..n : h[c][i] = p
      BY <1>4
    <3>2. o[i] = <<p>> \o k[p]
      BY <1>1, <3>1
    <3> QED
      BY <1>1, <1>3, <2>1, <3>2
  <2>2. ASSUME \A j \in DOMAIN o : Respects(order, o[j]) PROVE Respects(order, h[c])
    BY <1>1, <1>3, <2>2
  <2>3. ASSUME Respects(order, h[c]), \A p \in ToSet(h[c]) : Respects(order, <<p>> \o k[p]),
               NEW j \in DOMAIN o
        PROVE  Respects(order, o[j])
    <3>1. CASE j = n + 1
      BY <1>1, <2>3, <3>1
    <3>2. CASE j \in 1..n
      BY <1>1, <1>4, <2>3, <3>2
    <3> QED
      BY <1>2, <3>1, <3>2
  <2> QED
    BY <2>1, <2>2, <2>3
<1>9. \A order : IsC3In(h, c, order, k) <=>
        /\ IsInjective(order) /\ ToSet(order) = UpOf(h, c)
        /\ \A j \in DOMAIN o : Respects(order, o[j])
  BY <1>8 DEF IsC3In
<1> QED
  BY <1>6, <1>7, <1>9 DEF o

-----------------------------------------------------------------------------
(* The merge *)

\* s is o without its first members, which are those that r holds.
Taken(s, o, r) ==
  /\ Len(s) <= Len(o)
  /\ \A i \in 1..Len(s) : s[i] = o[i + (Len(o) - Len(s))]
  /\ \A i \in 1..Len(o) : o[i] \in ToSet(r) <=> i <= Len(o) - Len(s)

\* What r holds of o, it holds in the order of o, and nothing without what is before it.
InOrder(r, o) ==
  \A i, j \in 1..Len(o) : i < j /\ o[j] \in ToSet(r) =>
    \E a, b \in 1..Len(r) : a < b /\ r[a] = o[i] /\ r[b] = o[j]

\* A class at the end.
LEMMA AtTheEnd ==
  ASSUME NEW S, NEW r \in Seq(S), NEW x \in S
  PROVE  /\ Append(r, x) \in Seq(S) /\ Len(Append(r, x)) = Len(r) + 1
         /\ Append(r, x)[Len(r) + 1] = x /\ \A i \in 1..Len(r) : Append(r, x)[i] = r[i]
         /\ ToSet(Append(r, x)) = ToSet(r) \union {x}
<1> DEFINE t == Append(r, x)
<1>1. /\ t \in Seq(S) /\ Len(t) = Len(r) + 1
      /\ t[Len(r) + 1] = x /\ \A i \in 1..Len(r) : t[i] = r[i]
  BY AppendProperties
<1>2. Len(r) \in Nat
  BY LenProperties
<1> HIDE DEF t
<1>3. ToSet(t) = {t[i] : i \in 1..(Len(r) + 1)} /\ ToSet(r) = {r[i] : i \in 1..Len(r)}
  BY <1>1, SetOf DEF ToSet
<1>4. ASSUME NEW y \in ToSet(t) PROVE y \in ToSet(r) \union {x}
  <2>1. PICK i \in 1..(Len(r) + 1) : t[i] = y
    BY <1>3
  <2>2. i = Len(r) + 1 \/ i \in 1..Len(r)
    BY <1>2
  <2> QED
    BY <1>1, <1>3, <2>1, <2>2
<1>5. ASSUME NEW y \in ToSet(r) \union {x} PROVE y \in ToSet(t)
  <2>1. CASE y = x
    BY <1>1, <1>2, <1>3, <2>1
  <2>2. CASE y \in ToSet(r)
    <3>1. PICK i \in 1..Len(r) : r[i] = y
      BY <1>3, <2>2
    <3>2. i \in 1..(Len(r) + 1)
      BY <1>2
    <3> QED
      BY <1>1, <1>3, <3>1, <3>2
  <2> QED
    BY <2>1, <2>2
<1> QED
  BY <1>1, <1>4, <1>5 DEF t

\* Joined sequences, for leaves that know other facts.
LEMMA JoinIs ==
  ASSUME NEW s \in Seq(Class), NEW t \in Seq(Class)
  PROVE  /\ s \o t \in Seq(Class) /\ Len(s \o t) = Len(s) + Len(t)
         /\ \A i \in 1..(Len(s) + Len(t)) :
              (s \o t)[i] = IF i <= Len(s) THEN s[i] ELSE t[i - Len(s)]
BY ConcatProperties, Zenon

LEMMA JoinJoins ==
  ASSUME NEW s \in Seq(Class), NEW t \in Seq(Class), NEW u \in Seq(Class)
  PROVE  (s \o t) \o u = s \o (t \o u)
BY ConcatAssociative, SMTT(30)

LEMMA TailIs ==
  ASSUME NEW S, NEW s \in Seq(S), s # <<>>
  PROVE  /\ Tail(s) \in Seq(S) /\ Len(Tail(s)) = Len(s) - 1 /\ Len(s) \in Nat \ {0}
         /\ \A i \in 1..(Len(s) - 1) : Tail(s)[i] = s[i + 1]
         /\ ToSet(Tail(s)) = {s[i] : i \in 2..Len(s)}
<1>1. /\ Tail(s) \in Seq(S) /\ Len(Tail(s)) = Len(s) - 1 /\ Len(s) \in Nat \ {0}
  BY HeadTailProperties, LenProperties, EmptySeq
<1>2. \A i \in 1..(Len(s) - 1) : Tail(s)[i] = s[i + 1]
  BY <1>1, HeadTailProperties
<1>3. ToSet(Tail(s)) = {Tail(s)[i] : i \in 1..(Len(s) - 1)}
  BY <1>1, SetOf DEF ToSet
<1>4. ASSUME NEW y \in ToSet(Tail(s)) PROVE y \in {s[i] : i \in 2..Len(s)}
  <2>1. PICK i \in 1..(Len(s) - 1) : Tail(s)[i] = y
    BY <1>3
  <2>2. i + 1 \in 2..Len(s)
    BY <1>1
  <2> QED
    BY <1>2, <2>1, <2>2
<1>5. ASSUME NEW i \in 2..Len(s) PROVE s[i] \in ToSet(Tail(s))
  <2>1. i - 1 \in 1..(Len(s) - 1) /\ (i - 1) + 1 = i
    BY <1>1
  <2>2. Tail(s)[i - 1] = s[i]
    BY <1>2, <2>1
  <2> QED
    BY <1>3, <2>1, <2>2
<1> QED
  BY <1>1, <1>2, <1>4, <1>5

LEMMA NothingTaken ==
  ASSUME NEW S, NEW o \in Seq(S)
  PROVE  Taken(o, o, <<>>) /\ InOrder(<<>>, o)
<1>1. Len(o) \in Nat /\ ToSet(<<>>) = {}
  BY LenProperties DEF ToSet
<1> QED
  BY <1>1 DEF Taken, InOrder

\* A head that is in the tail of none is taken off the sequences that it leads.
LEMMA OneMoreTaken ==
  ASSUME NEW S, NEW o \in Seq(S), IsInjective(o), NEW s \in Seq(S), NEW r \in Seq(S), NEW x \in S,
         Taken(s, o, r), InOrder(r, o), x \notin ToSet(r),
         s # <<>> => x \notin ToSet(Tail(s)),
         NEW t, t = IF s # <<>> /\ s[1] = x THEN Tail(s) ELSE s
  PROVE  Taken(t, o, Append(r, x)) /\ InOrder(Append(r, x), o) /\ t \in Seq(S)
<1> DEFINE w == Append(r, x)
<1>1. /\ Len(o) \in Nat /\ Len(s) \in Nat /\ Len(r) \in Nat /\ DOMAIN o = 1..Len(o)
      /\ \A i, j \in 1..Len(o) : o[i] = o[j] => i = j
  BY LenProperties DEF IsInjective
<1>2. /\ Len(w) = Len(r) + 1 /\ w[Len(r) + 1] = x /\ \A i \in 1..Len(r) : w[i] = r[i]
      /\ ToSet(w) = ToSet(r) \union {x}
  BY AtTheEnd
<1>3. s # <<>> => /\ Tail(s) \in Seq(S) /\ Len(Tail(s)) = Len(s) - 1 /\ Len(s) # 0
                  /\ \A i \in 1..(Len(s) - 1) : Tail(s)[i] = s[i + 1]
                  /\ ToSet(Tail(s)) = {s[i] : i \in 2..Len(s)}
  BY TailIs
<1>4. s = <<>> => Len(s) = 0
  OBVIOUS
<1>5. t \in Seq(S)
  BY <1>3
<1> HIDE DEF w
<1> DEFINE d == Len(o) - Len(s)
<1>6. /\ d \in Nat /\ \A i \in 1..Len(s) : s[i] = o[i + d]
      /\ \A i \in 1..Len(o) : o[i] \in ToSet(r) <=> i <= d
  BY <1>1 DEF Taken
<1>7. d \in Nat /\ Len(s) = Len(o) - d /\ Len(o) \in Nat /\ Len(s) \in Nat
  BY <1>1 DEF Taken
<1> HIDE DEF d
<1>8. Taken(t, o, w)
  <2>1. CASE s # <<>> /\ s[1] = x
    <3>1. Len(t) = Len(s) - 1 /\ Len(t) <= Len(o) /\ Len(o) - Len(t) = d + 1
      <4>1. Len(t) = Len(s) - 1
        BY <1>3, <2>1
      <4>2. Len(t) <= Len(o)
        BY <1>7, <4>1
      <4>3. Len(o) - (Len(s) - 1) = d + 1
        BY <1>7
      <4> QED
        BY <4>1, <4>2, <4>3, Zenon
    <3>2. d + 1 \in 1..Len(o) /\ o[d + 1] = x
      <4>1. Len(s) # 0
        BY <1>3, <2>1
      <4>2. d + 1 \in 1..Len(o) /\ 1 \in 1..Len(s) /\ 1 + d = d + 1
        BY <1>7, <4>1
      <4>3. s[1] = o[1 + d]
        BY <1>6, <4>2
      <4> QED
        BY <2>1, <4>2, <4>3
    <3>3. ASSUME NEW i \in 1..Len(t) PROVE t[i] = o[i + (d + 1)]
      <4>1. i \in 1..(Len(s) - 1) /\ i + 1 \in 1..Len(s) /\ (i + 1) + d = i + (d + 1)
        BY <1>1, <1>3, <1>6, <2>1, <3>1
      <4>2. t[i] = s[i + 1]
        BY <1>3, <2>1, <4>1
      <4> QED
        BY <1>6, <4>1, <4>2
    <3>4. ASSUME NEW i \in 1..Len(o) PROVE o[i] \in ToSet(w) <=> i <= d + 1
      <4>1. o[i] = x <=> i = d + 1
        BY <1>1, <3>2
      <4> QED
        BY <1>1, <1>2, <1>6, <4>1
    <3> QED
      BY <3>1, <3>3, <3>4 DEF Taken
  <2>2. CASE ~(s # <<>> /\ s[1] = x)
    <3>1. t = s
      BY <2>2
    <3>2. ASSUME NEW i \in 1..Len(o) PROVE o[i] # x
      <4>1. CASE i <= d
        BY <1>6, <4>1
      <4>2. CASE i > d
        <5>1. i - d \in 1..Len(s) /\ (i - d) + d = i /\ s # <<>>
          <6>1. i - d \in 1..Len(s) /\ (i - d) + d = i /\ Len(s) # 0
            BY <1>7, <4>2
          <6> QED
            BY <1>4, <6>1
        <5>2. s[i - d] = o[i]
          BY <1>6, <5>1
        <5>3. i - d = 1 \/ i - d \in 2..Len(s)
          BY <5>1
        <5> QED
          BY <1>3, <2>2, <5>1, <5>2, <5>3
      <4> QED
        BY <1>6, <4>1, <4>2
    <3>3. ASSUME NEW i \in 1..Len(o) PROVE o[i] \in ToSet(w) <=> i <= d
      BY <1>2, <1>6, <3>2
    <3>4. Len(s) <= Len(o) /\ Len(o) - Len(s) = d
      BY <1>1, <1>6, <1>7
    <3> QED
      BY <1>6, <3>1, <3>3, <3>4 DEF Taken
  <2> QED
    BY <2>1, <2>2
<1>9. InOrder(w, o)
  <2> SUFFICES ASSUME NEW i \in 1..Len(o), NEW j \in 1..Len(o), i < j, o[j] \in ToSet(w)
               PROVE  \E a, b \in 1..Len(w) : a < b /\ w[a] = o[i] /\ w[b] = o[j]
    BY ZenonT(40) DEF InOrder
  <2>1. \A a \in 1..Len(r) : a \in 1..Len(w)
    BY <1>1, <1>2
  <2>2. CASE o[j] \in ToSet(r)
    <3>1. PICK a \in 1..Len(r), b \in 1..Len(r) : a < b /\ r[a] = o[i] /\ r[b] = o[j]
      BY <2>2 DEF InOrder
    <3> QED
      BY <1>2, <2>1, <3>1
  <2>3. CASE o[j] = x
    <3>1. o[i] # x
      BY <1>1, <2>3
    <3>2. j <= Len(o) - Len(t) /\ Len(t) \in Nat
      BY <1>5, <1>8, LenProperties DEF Taken
    <3>3. i <= Len(o) - Len(t)
      BY <1>1, <3>2
    <3>4. o[i] \in ToSet(w)
      BY <1>8, <3>3 DEF Taken
    <3>5. o[i] \in ToSet(r)
      BY <1>2, <3>1, <3>4
    <3>6. PICK a \in 1..Len(r) : r[a] = o[i]
      BY <3>5, SetOf
    <3>7. Len(r) + 1 \in 1..Len(w) /\ a < Len(r) + 1
      BY <1>1, <1>2
    <3> QED
      BY <1>2, <2>1, <2>3, <3>6, <3>7
  <2> QED
    BY <1>2, <2>2, <2>3
<1> QED
  BY <1>5, <1>8, <1>9 DEF w

\* When everything is taken, r respects o.
LEMMA AllTaken ==
  ASSUME NEW S, NEW o \in Seq(S), NEW r \in Seq(S), Taken(<<>>, o, r), InOrder(r, o)
  PROVE  Respects(r, o) /\ ToSet(o) \subseteq ToSet(r)
<1>1. /\ Len(o) \in Nat /\ Len(<<>>) = 0 /\ DOMAIN o = 1..Len(o) /\ DOMAIN r = 1..Len(r)
  BY LenProperties
<1>2. \A i \in 1..Len(o) : o[i] \in ToSet(r)
  BY <1>1 DEF Taken
<1> QED
  <2>1. Respects(r, o)
    <3> SUFFICES ASSUME NEW i \in DOMAIN o, NEW j \in DOMAIN o, i < j
                 PROVE  \E a, b \in DOMAIN r : a < b /\ r[a] = o[i] /\ r[b] = o[j]
      BY DEF Respects
    <3> QED
      <4>1. o[j] \in ToSet(r) /\ i \in 1..Len(o) /\ j \in 1..Len(o)
        BY <1>1, <1>2
      <4>2. \E a, b \in 1..Len(r) : a < b /\ r[a] = o[i] /\ r[b] = o[j]
        BY <4>1 DEF InOrder
      <4> QED
        BY <1>1, <4>2
  <2>2. ToSet(o) \subseteq ToSet(r)
    BY <1>1, <1>2 DEF ToSet
  <2> QED
    BY <2>1, <2>2

\* In an order that respects o, the head of what is left of o is before the rest.
LEMMA HeadIsBefore ==
  ASSUME NEW S, NEW o \in Seq(S), NEW s \in Seq(S), NEW r, Taken(s, o, r),
         NEW order \in Seq(S), IsInjective(order), Respects(order, o),
         NEW n \in 1..Len(order), NEW i \in 2..Len(s), s[i] = order[n]
  PROVE  \E a \in 1..Len(order) : a < n /\ order[a] = s[1]
<1>1. /\ Len(o) \in Nat /\ Len(s) \in Nat /\ DOMAIN o = 1..Len(o) /\ DOMAIN order = 1..Len(order)
      /\ Len(order) \in Nat
  BY LenProperties
<1> DEFINE d == Len(o) - Len(s)
<1>2. /\ d \in Nat /\ s[i] = o[i + d] /\ s[1] = o[1 + d]
      /\ i + d \in 1..Len(o) /\ 1 + d \in 1..Len(o) /\ 1 + d < i + d
  <2>1. d \in Nat /\ \A m \in 1..Len(s) : s[m] = o[m + d]
    BY <1>1 DEF Taken
  <2>2. i \in Nat /\ i >= 2 /\ i <= Len(s) /\ 1 \in 1..Len(s) /\ i \in 1..Len(s)
    BY <1>1
  <2>3. Len(s) = Len(o) - d
    BY <1>1
  <2> HIDE DEF d
  <2>4. i + d \in 1..Len(o) /\ 1 + d \in 1..Len(o) /\ 1 + d < i + d
    BY <1>1, <2>1, <2>2, <2>3
  <2> QED
    BY <2>1, <2>2, <2>4
<1> HIDE DEF d
<1>3. PICK a \in 1..Len(order), b \in 1..Len(order) : a < b /\ order[a] = o[1 + d] /\ order[b] = o[i + d]
  <2>1. 1 + d \in DOMAIN o /\ i + d \in DOMAIN o /\ 1 + d < i + d
    BY <1>1, <1>2
  <2> QED
    BY <1>1, <2>1 DEF Respects
<1>4. b = n
  BY <1>1, <1>2, <1>3 DEF IsInjective
<1> QED
  BY <1>2, <1>3, <1>4

\* What is merged for c: what is left of the sequences, and the result so far.
Merging(h, k, c, q, r) ==
  /\ Ready(h, k, c)
  /\ q \in Seq(Orders) /\ Len(q) = Len(h[c]) + 1
  /\ r \in Orders /\ IsInjective(r) /\ ToSet(r) \subseteq UpOf(h, c)
  /\ \A j \in 1..(Len(h[c]) + 1) :
       Taken(q[j], Sequences(h, k, c)[j], r) /\ InOrder(r, Sequences(h, k, c)[j])

\* What the invariant says of a sequence, in the terms of the lemmas above.
LEMMA MergingIs ==
  ASSUME NEW h, NEW k, NEW c, NEW q, NEW r, Merging(h, k, c, q, r)
  PROVE  /\ DOMAIN q = DOMAIN Sequences(h, k, c) /\ DOMAIN q = 1..Len(q) /\ Len(q) \in Nat
         /\ \A j \in DOMAIN q :
              LET o == Sequences(h, k, c)[j] IN
              /\ q[j] \in Orders /\ o \in Orders /\ IsInjective(o) /\ ToSet(o) \subseteq UpOf(h, c)
              /\ Taken(q[j], o, r) /\ InOrder(r, o)
<1>1. Ready(h, k, c) /\ q \in Seq(Orders) /\ Len(q) = Len(h[c]) + 1
  BY DEF Merging
<1>2. DOMAIN q = 1..Len(q) /\ Len(q) \in Nat /\ \A j \in 1..Len(q) : q[j] \in Orders
  BY <1>1, LenProperties
<1>3. DOMAIN Sequences(h, k, c) = 1..(Len(h[c]) + 1)
  BY <1>1, SequencesAre
<1>4. \A j \in DOMAIN Sequences(h, k, c) :
        /\ Sequences(h, k, c)[j] \in Orders /\ IsInjective(Sequences(h, k, c)[j])
        /\ ToSet(Sequences(h, k, c)[j]) \subseteq UpOf(h, c)
  BY <1>1, SequencesCover
<1>5. \A j \in 1..(Len(h[c]) + 1) :
        Taken(q[j], Sequences(h, k, c)[j], r) /\ InOrder(r, Sequences(h, k, c)[j])
  BY DEF Merging
<1> QED
  BY <1>1, <1>2, <1>3, <1>4, <1>5

LEMMA MergingBegins ==
  ASSUME NEW h, NEW k, NEW c, Ready(h, k, c)
  PROVE  Merging(h, k, c, Sequences(h, k, c), <<>>)
<1>1. /\ Sequences(h, k, c) \in Seq(Orders) /\ Len(Sequences(h, k, c)) = Len(h[c]) + 1
      /\ DOMAIN Sequences(h, k, c) = 1..(Len(h[c]) + 1)
  BY SequencesAre
<1>2. \A j \in DOMAIN Sequences(h, k, c) : Sequences(h, k, c)[j] \in Orders
  BY SequencesCover
<1>3. \A j \in 1..(Len(h[c]) + 1) : Taken(Sequences(h, k, c)[j], Sequences(h, k, c)[j], <<>>)
                                      /\ InOrder(<<>>, Sequences(h, k, c)[j])
  BY <1>1, <1>2, NothingTaken DEF Orders
<1>4. <<>> \in Orders /\ IsInjective(<<>>) /\ ToSet(<<>>) = {}
  BY DEF Orders, IsInjective, ToSet
<1> QED
  BY <1>1, <1>3, <1>4 DEF Merging

\* A step of the merge.
LEMMA MergingGoesOn ==
  ASSUME NEW h, NEW k, NEW c, NEW q, NEW r, Merging(h, k, c, q, r), NEW g \in GoodHeads(q)
  PROVE  /\ q[g][1] \in Class
         /\ Merging(h, k, c,
                    [i \in DOMAIN q |-> IF q[i] # <<>> /\ q[i][1] = q[g][1] THEN Tail(q[i]) ELSE q[i]],
                    Append(r, q[g][1]))
<1> DEFINE o == Sequences(h, k, c)
           x == q[g][1]
           p == [i \in DOMAIN q |-> IF q[i] # <<>> /\ q[i][1] = x THEN Tail(q[i]) ELSE q[i]]
<1>1. /\ Ready(h, k, c) /\ q \in Seq(Orders) /\ Len(q) = Len(h[c]) + 1
      /\ r \in Orders /\ IsInjective(r) /\ ToSet(r) \subseteq UpOf(h, c)
  BY DEF Merging
<1>2. /\ DOMAIN q = 1..Len(q) /\ Len(q) \in Nat
      /\ \A j \in DOMAIN q :
           /\ q[j] \in Orders /\ o[j] \in Orders /\ IsInjective(o[j]) /\ ToSet(o[j]) \subseteq UpOf(h, c)
           /\ Taken(q[j], o[j], r) /\ InOrder(r, o[j])
  BY MergingIs
<1>3. /\ g \in DOMAIN q /\ q[g] # <<>>
      /\ \A j \in DOMAIN q : q[j] # <<>> => x \notin ToSet(Tail(q[j]))
  BY DEF GoodHeads
<1> HIDE DEF o
<1>4. x \in ToSet(o[g]) /\ x \notin ToSet(r)
  <2>1. Len(q[g]) \in Nat \ {0} /\ Len(o[g]) \in Nat /\ Len(q[g]) <= Len(o[g])
    BY <1>2, <1>3, TailIs, LenProperties DEF Orders, Taken
  <2>2. \A i \in 1..Len(q[g]) : q[g][i] = o[g][i + (Len(o[g]) - Len(q[g]))]
    BY <1>2, <1>3 DEF Taken
  <2>3. \A i \in 1..Len(o[g]) : o[g][i] \in ToSet(r) <=> i <= Len(o[g]) - Len(q[g])
    BY <1>2, <1>3 DEF Taken
  <2> DEFINE d == Len(o[g]) - Len(q[g])
  <2>4. d \in Nat /\ 1 + d \in 1..Len(o[g]) /\ ~(1 + d <= d) /\ 1 \in 1..Len(q[g])
    <3>1. \A a, b \in Nat : b # 0 /\ b <= a =>
            a - b \in Nat /\ 1 + (a - b) \in 1..a /\ ~(1 + (a - b) <= a - b) /\ 1 \in 1..b
      OBVIOUS
    <3> QED
      BY <2>1, <3>1
  <2>5. x = o[g][1 + d]
    BY <2>2, <2>4
  <2>6. o[g][1 + d] \in ToSet(o[g])
    BY <1>2, <1>3, <2>4, SetOf DEF Orders
  <2> QED
    BY <2>3, <2>4, <2>5, <2>6
<1>5. x \in UpOf(h, c) /\ x \in Class
  BY <1>1, <1>2, <1>3, <1>4, UpOfIsLeast DEF Ready
<1> HIDE DEF x
<1>6. DOMAIN p = DOMAIN q
  OBVIOUS
<1>7. \A j \in DOMAIN q : p[j] \in Orders /\ Taken(p[j], o[j], Append(r, x)) /\ InOrder(Append(r, x), o[j])
  <2> SUFFICES ASSUME NEW j \in DOMAIN q
               PROVE  p[j] \in Orders /\ Taken(p[j], o[j], Append(r, x)) /\ InOrder(Append(r, x), o[j])
    OBVIOUS
  <2>1. p[j] = IF q[j] # <<>> /\ q[j][1] = x THEN Tail(q[j]) ELSE q[j]
    OBVIOUS
  <2> HIDE DEF p
  <2> QED
    BY <1>1, <1>2, <1>3, <1>4, <1>5, <2>1, OneMoreTaken, ZenonT(40) DEF Orders
<1>8. p \in Seq(Orders) /\ Len(p) = Len(q)
  <2>1. p = [i \in 1..Len(q) |-> p[i]]
    BY <1>2
  <2>2. \A i \in 1..Len(q) : p[i] \in Orders
    BY <1>2, <1>7
  <2> HIDE DEF p
  <2>3. p \in [1..Len(q) -> Orders]
    BY <2>1, <2>2
  <2> QED
    BY <1>2, <2>3
<1>9. /\ Append(r, x) \in Orders /\ Len(Append(r, x)) = Len(r) + 1 /\ Len(r) \in Nat
      /\ Append(r, x)[Len(r) + 1] = x /\ \A i \in 1..Len(r) : Append(r, x)[i] = r[i]
      /\ ToSet(Append(r, x)) = ToSet(r) \union {x}
  BY <1>1, <1>5, AtTheEnd, LenProperties DEF Orders
<1>10. IsInjective(Append(r, x))
  <2>1. DOMAIN Append(r, x) = 1..(Len(r) + 1)
    BY <1>9, LenProperties DEF Orders
  <2>2. \A i \in 1..Len(r) : r[i] # x
    BY <1>1, <1>4, SetOf DEF Orders
  <2>3. \A i, j \in 1..Len(r) : r[i] = r[j] => i = j
    BY <1>1, LenProperties DEF Orders, IsInjective
  <2>4. \A i \in 1..(Len(r) + 1) : i \in 1..Len(r) \/ i = Len(r) + 1
    BY <1>9
  <2> SUFFICES ASSUME NEW i \in 1..(Len(r) + 1), NEW j \in 1..(Len(r) + 1),
                      Append(r, x)[i] = Append(r, x)[j]
               PROVE  i = j
    BY <2>1 DEF IsInjective
  <2>5. CASE i \in 1..Len(r) /\ j \in 1..Len(r)
    BY <1>9, <2>3, <2>5
  <2>6. CASE i \in 1..Len(r) /\ j = Len(r) + 1
    BY <1>9, <2>2, <2>6
  <2>7. CASE i = Len(r) + 1 /\ j \in 1..Len(r)
    BY <1>9, <2>2, <2>7
  <2> QED
    BY <2>4, <2>5, <2>6, <2>7
<1> HIDE DEF p
<1>11. Merging(h, k, c, p, Append(r, x))
  BY <1>1, <1>2, <1>5, <1>7, <1>8, <1>9, <1>10 DEF Merging, o
<1> QED
  BY <1>5, <1>11 DEF p, x

\* Nothing is left: the result is an order of c.
LEMMA MergingSucceeds ==
  ASSUME NEW h, NEW k, NEW c, NEW q, NEW r, Merging(h, k, c, q, r), \A j \in DOMAIN q : q[j] = <<>>
  PROVE  Linearizes(h, c, r, k)
<1> DEFINE o == Sequences(h, k, c)
<1>1. /\ Ready(h, k, c) /\ r \in Orders /\ IsInjective(r) /\ ToSet(r) \subseteq UpOf(h, c)
  BY DEF Merging
<1>2. /\ DOMAIN q = DOMAIN o
      /\ \A j \in DOMAIN q : o[j] \in Orders /\ Taken(q[j], o[j], r) /\ InOrder(r, o[j])
  BY MergingIs
<1>3. /\ \A x \in UpOf(h, c) : \E j \in DOMAIN o : x \in ToSet(o[j])
      /\ \A order : IsC3In(h, c, order, k) <=>
           /\ IsInjective(order) /\ ToSet(order) = UpOf(h, c)
           /\ \A j \in DOMAIN o : Respects(order, o[j])
  BY <1>1, SequencesCover
<1> HIDE DEF o
<1>4. \A j \in DOMAIN o : Respects(r, o[j]) /\ ToSet(o[j]) \subseteq ToSet(r)
  <2> SUFFICES ASSUME NEW j \in DOMAIN o PROVE Respects(r, o[j]) /\ ToSet(o[j]) \subseteq ToSet(r)
    OBVIOUS
  <2>1. Taken(<<>>, o[j], r) /\ InOrder(r, o[j]) /\ o[j] \in Orders
    BY <1>2
  <2> QED
    BY <1>1, <2>1, AllTaken DEF Orders
<1>5. ToSet(r) = UpOf(h, c)
  BY <1>1, <1>3, <1>4
<1>6. IsC3In(h, c, r, k)
  BY <1>1, <1>3, <1>4, <1>5
<1> QED
  BY <1>1, <1>6, ReadyIsAcyclic DEF Linearizes, Ready

\* Something is left, and every head is in a tail: there is no order of c.
LEMMA MergingFails ==
  ASSUME NEW h, NEW k, NEW c, NEW q, NEW r, Merging(h, k, c, q, r),
         GoodHeads(q) = {}, NEW j \in DOMAIN q, q[j] # <<>>
  PROVE  ~\E order \in Orders : IsC3In(h, c, order, k)
<1> SUFFICES ASSUME NEW order \in Orders, IsC3In(h, c, order, k) PROVE FALSE
  OBVIOUS
<1> DEFINE o == Sequences(h, k, c)
<1>1. Ready(h, k, c)
  BY DEF Merging
<1>2. /\ DOMAIN q = DOMAIN o
      /\ \A m \in DOMAIN q : /\ q[m] \in Orders /\ o[m] \in Orders /\ ToSet(o[m]) \subseteq UpOf(h, c)
                             /\ Taken(q[m], o[m], r)
  BY MergingIs
<1>3. /\ IsInjective(order) /\ ToSet(order) = UpOf(h, c)
      /\ \A m \in DOMAIN o : Respects(order, o[m])
  BY <1>1, SequencesCover
<1> HIDE DEF o
<1>4. ASSUME NEW m \in DOMAIN q, NEW i \in 2..Len(q[m]), NEW n \in 1..Len(order), q[m][i] = order[n]
      PROVE  \E a \in 1..Len(order) : a < n /\ order[a] = q[m][1]
  BY <1>2, <1>3, <1>4, HeadIsBefore DEF Orders
<1> DEFINE P == {n \in 1..Len(order) : \E m \in DOMAIN q : \E i \in 1..Len(q[m]) : q[m][i] = order[n]}
<1>5. \A m \in DOMAIN q : Len(q[m]) \in Nat /\ (q[m] # <<>> => Len(q[m]) # 0)
  BY <1>2, TailIs, LenProperties DEF Orders
<1>6. P # {}
  <2>1. 1 \in 1..Len(q[j])
    BY <1>5
  <2>2. q[j][1] \in ToSet(o[j])
    <3>1. Len(o[j]) \in Nat /\ Len(q[j]) \in Nat /\ Len(q[j]) <= Len(o[j])
      BY <1>2, LenProperties DEF Orders, Taken
    <3>2. q[j][1] = o[j][1 + (Len(o[j]) - Len(q[j]))]
      BY <1>2, <2>1 DEF Taken
    <3>3. 1 + (Len(o[j]) - Len(q[j])) \in 1..Len(o[j])
      BY <2>1, <3>1
    <3> QED
      BY <1>2, <3>2, <3>3, SetOf DEF Orders
  <2>3. q[j][1] \in ToSet(order)
    BY <1>2, <1>3, <2>2
  <2>4. PICK n \in 1..Len(order) : order[n] = q[j][1]
    BY <2>3, SetOf DEF Orders
  <2> QED
    BY <2>1, <2>4
<1>7. PICK n \in P : \A m \in P : n <= m
  <2>1. P \in SUBSET Nat
    OBVIOUS
  <2> HIDE DEF P
  <2> QED
    BY <1>6, <2>1, LeastOf
<1>8. n \in Nat /\ n \in 1..Len(order)
  OBVIOUS
<1>9. PICK m \in DOMAIN q : \E i \in 1..Len(q[m]) : q[m][i] = order[n]
  OBVIOUS
<1>9a. PICK i \in 1..Len(q[m]) : q[m][i] = order[n]
  BY <1>9
<1>10. ASSUME NEW u \in DOMAIN q, NEW i2 \in 2..Len(q[u]), q[u][i2] = order[n] PROVE FALSE
  <2>1. PICK a \in 1..Len(order) : a < n /\ order[a] = q[u][1]
    BY <1>4, <1>8, <1>10
  <2>2. 1 \in 1..Len(q[u])
    BY <1>5
  <2>3. a \in P
    BY <2>1, <2>2
  <2> HIDE DEF P
  <2> QED
    BY <1>7, <1>8, <2>1, <2>3
<1>11. i = 1
  BY <1>5, <1>9a, <1>10
<1>12. q[m] # <<>>
  BY <1>5, <1>9a, EmptySeq
<1>13. PICK u \in DOMAIN q : q[u] # <<>> /\ q[m][1] \in ToSet(Tail(q[u]))
  BY <1>12 DEF GoodHeads
<1>14. PICK i2 \in 2..Len(q[u]) : q[u][i2] = q[m][1]
  <2>1. q[u] \in Seq(Class)
    BY <1>2 DEF Orders
  <2>2. ToSet(Tail(q[u])) = {q[u][n2] : n2 \in 2..Len(q[u])}
    BY <1>13, <2>1, TailIs
  <2> QED
    BY <1>13, <2>2
<1> QED
  BY <1>9a, <1>10, <1>11, <1>14

-----------------------------------------------------------------------------
(* The work stack *)

Frames == [class : Class, merge : BOOLEAN]

\* What the frames of a work stack mean: the classes that are visited are those of
\* the frames to be merged; what is above such a frame is an ancestor of its class;
\* each parent of its class is known or has a frame above; if its class is known
\* already, a cycle was found.
Working(h, k, w, v) ==
  /\ w \in Seq(Frames)
  /\ \A c \in v : \E i \in 1..Len(w) : w[i].merge /\ w[i].class = c
  /\ \A i, j \in 1..Len(w) : i < j /\ w[i].merge => w[j].class \in UpOf(h, w[i].class)
  /\ \A i \in 1..Len(w) : w[i].merge =>
       \A p \in ToSet(h[w[i].class]) :
         p \in DOMAIN k \/ \E j \in 1..Len(w) : i < j /\ w[j].class = p
  /\ \A i \in 1..Len(w) : w[i].merge /\ w[i].class \in DOMAIN k => CyclicIn(h, w[i].class)

\* s is known, or will be.
Coming(k, w, s) == s \in DOMAIN k \/ \E i \in 1..Len(w) : w[i].class = s

\* The work that is left: the frame whose merge runs is not on the stack any more.
Work == IF doing = "merge" THEN Append(stack, WorkFrame(merging.class, TRUE)) ELSE stack

MroInv ==
  /\ MroTypeOK
  /\ parents \in Hierarchy
  /\ \A u \in {"pass", "call"} : Sound(parents, cache[u])
  /\ doing \in {"c3", "merge"} =>
       Subject \in Class /\ Working(parents, Known, Work, visiting) /\ Coming(Known, Work, Subject)
  /\ doing = "merge" => Merging(parents, Known, merging.class, merging.seqs, merging.order)
  /\ doing = "gather" => turn \in Class
  /\ doing = "levels" => walk.found # <<>> /\ (walk.next # <<>> => walk.depth < MaxAncestorDepth)

\* An entry that is right stays right when another one is added.
LEMMA SameOrders ==
  ASSUME NEW h, NEW x, NEW k, NEW k2, ToSet(h[x]) \subseteq DOMAIN k, \A y \in DOMAIN k : k2[y] = k[y],
         NEW order
  PROVE  IsC3In(h, x, order, k2) <=> IsC3In(h, x, order, k)
BY DEF IsC3In

LEMMA LearnedIsSound ==
  ASSUME NEW h \in Hierarchy, NEW k, Sound(h, k), NEW c \in Class, NEW k2,
         DOMAIN k2 = DOMAIN k \union {c}, \A x \in DOMAIN k : k2[x] = k[x],
         IF k2[c] = NoOrder THEN Impossible(h, c, k) ELSE Linearizes(h, c, k2[c], k)
  PROVE  Sound(h, k2)
<1>1. DOMAIN k2 \subseteq Class
  BY DEF Sound
<1>2. ASSUME NEW x, NEW o, IF o = NoOrder THEN Impossible(h, x, k) ELSE Linearizes(h, x, o, k)
      PROVE  IF o = NoOrder THEN Impossible(h, x, k2) ELSE Linearizes(h, x, o, k2)
  <2>1. CASE o = NoOrder
    <3>1. CASE CyclicIn(h, x)
      BY <2>1, <3>1 DEF Impossible
    <3>2. CASE ~CyclicIn(h, x)
      <4>1. /\ ToSet(h[x]) \subseteq DOMAIN k
            /\ \/ \E p \in ToSet(h[x]) : k[p] = NoOrder
               \/ ~\E order \in Orders : IsC3In(h, x, order, k)
        BY <1>2, <2>1, <3>2 DEF Impossible
      <4>2. \A order : IsC3In(h, x, order, k2) <=> IsC3In(h, x, order, k)
        BY <4>1, SameOrders
      <4>3. ToSet(h[x]) \subseteq DOMAIN k2 /\ \A p \in ToSet(h[x]) : k2[p] = k[p]
        BY <4>1
      <4> QED
        BY <2>1, <4>1, <4>2, <4>3 DEF Impossible
    <3> QED
      BY <3>1, <3>2
  <2>2. CASE o # NoOrder
    <3>1. Linearizes(h, x, o, k)
      BY <1>2, <2>2
    <3>2. ToSet(h[x]) \subseteq DOMAIN k
      BY <3>1 DEF Linearizes
    <3>3. IsC3In(h, x, o, k2) <=> IsC3In(h, x, o, k)
      BY <3>2, SameOrders
    <3>4. \A p \in ToSet(h[x]) : p \in DOMAIN k2 /\ k2[p] = k[p]
      BY <3>2
    <3> QED
      BY <2>2, <3>1, <3>3, <3>4 DEF Linearizes
  <2> QED
    BY <2>1, <2>2
<1>3. ASSUME NEW x \in DOMAIN k2
      PROVE  IF k2[x] = NoOrder THEN Impossible(h, x, k2) ELSE Linearizes(h, x, k2[x], k2)
  <2>1. CASE x \in DOMAIN k
    <3>1. IF k[x] = NoOrder THEN Impossible(h, x, k) ELSE Linearizes(h, x, k[x], k)
      BY <2>1 DEF Sound
    <3>2. k2[x] = k[x]
      BY <2>1
    <3> QED
      BY <1>2, <3>1, <3>2
  <2>2. CASE x = c
    BY <1>2, <2>2
  <2> QED
    BY <2>1, <2>2
<1> QED
  BY <1>1, <1>3 DEF Sound

\* The top of the stack.
LEMMA TopOf ==
  ASSUME NEW w \in Seq(Frames), w # <<>>
  PROVE  /\ Len(w) \in Nat \ {0} /\ Last(w) = w[Len(w)] /\ w[Len(w)] \in Frames
         /\ Front(w) \in Seq(Frames) /\ Len(Front(w)) = Len(w) - 1
         /\ \A i \in 1..(Len(w) - 1) : Front(w)[i] = w[i]
<1>1. Len(w) \in Nat \ {0} /\ \A i \in 1..Len(w) : w[i] \in Frames
  BY LenProperties, EmptySeq
<1>2. /\ Front(w) \in Seq(Frames) /\ Len(Front(w)) = Len(w) - 1
      /\ \A i \in 1..(Len(w) - 1) : Front(w)[i] = w[i]
  <2> DEFINE f == SubSeq(w, 1, Len(w) - 1)
  <2>1. /\ f \in Seq(Frames) /\ Len(f) = IF 1 <= Len(w) - 1 THEN Len(w) - 1 - 1 + 1 ELSE 0
        /\ \A i \in 1..(Len(w) - 1 - 1 + 1) : f[i] = w[1 + i - 1]
    <3>1. 1 \in 1..(Len(w) + 1) /\ Len(w) - 1 \in 0..Len(w)
      BY <1>1
    <3> QED
      BY <3>1, SubSeqProperties
  <2>2. Front(w) = f
    BY DEF Front
  <2> HIDE DEF f
  <2>3. \A i \in 1..(Len(w) - 1) : i \in 1..(Len(w) - 1 - 1 + 1) /\ 1 + i - 1 = i
    BY <1>1
  <2>4. Len(f) = Len(w) - 1
    <3>1. \A x \in Nat \ {0} : (IF 1 <= x - 1 THEN x - 1 - 1 + 1 ELSE 0) = x - 1
      OBVIOUS
    <3> QED
      BY <1>1, <2>1, <3>1
  <2> QED
    BY <2>1, <2>2, <2>3, <2>4
<1> QED
  BY <1>1, <1>2 DEF Last

\* The top frame is done when its class is known.
LEMMA FrameDone ==
  ASSUME NEW h \in Hierarchy, NEW k, NEW w, NEW v, Working(h, k, w, v), w # <<>>,
         NEW k2, DOMAIN k2 = DOMAIN k \union {Last(w).class},
         NEW v2 \in SUBSET v, Last(w).merge => Last(w).class \notin v2
  PROVE  /\ Working(h, k2, Front(w), v2)
         /\ \A s : Coming(k, w, s) => Coming(k2, Front(w), s)
<1> DEFINE n == Len(w)
           f == Front(w)
           c == Last(w).class
<1>1. /\ n \in Nat \ {0} /\ Last(w) = w[n] /\ f \in Seq(Frames) /\ Len(f) = n - 1
      /\ \A i \in 1..(n - 1) : f[i] = w[i]
  BY TopOf DEF Working
<1>2. /\ \A x \in v : \E i \in 1..n : w[i].merge /\ w[i].class = x
      /\ \A i, j \in 1..n : i < j /\ w[i].merge => w[j].class \in UpOf(h, w[i].class)
      /\ \A i \in 1..n : w[i].merge =>
           \A p \in ToSet(h[w[i].class]) : p \in DOMAIN k \/ \E j \in 1..n : i < j /\ w[j].class = p
      /\ \A i \in 1..n : w[i].merge /\ w[i].class \in DOMAIN k => CyclicIn(h, w[i].class)
  BY DEF Working
<1>3. w[n].class = c /\ (w[n].merge => c \notin v2) /\ c \in DOMAIN k2 /\ DOMAIN k \subseteq DOMAIN k2
      /\ \A x \in DOMAIN k2 : x \in DOMAIN k \/ x = c
  BY <1>1
<1>4. \A i \in 1..n : i \in 1..(n - 1) \/ i = n
  BY <1>1
<1>5. \A i \in 1..(n - 1) : i \in 1..n /\ i < n /\ n \in 1..n
  BY <1>1
<1> HIDE DEF n, f, c
<1>6. \A x \in v2 : \E i \in 1..Len(f) : f[i].merge /\ f[i].class = x
  BY <1>1, <1>2, <1>3, <1>4
<1>7. \A i, j \in 1..Len(f) : i < j /\ f[i].merge => f[j].class \in UpOf(h, f[i].class)
  BY <1>1, <1>2, <1>5
<1>8. ASSUME NEW i \in 1..Len(f), f[i].merge, NEW p \in ToSet(h[f[i].class])
      PROVE  p \in DOMAIN k2 \/ \E j \in 1..Len(f) : i < j /\ f[j].class = p
  <2>1. f[i] = w[i] /\ i \in 1..n
    BY <1>1, <1>5
  <2>2. p \in DOMAIN k \/ \E j \in 1..n : i < j /\ w[j].class = p
    BY <1>2, <1>8, <2>1
  <2> QED
    BY <1>1, <1>3, <1>4, <2>2
<1>9. ASSUME NEW i \in 1..Len(f), f[i].merge, f[i].class \in DOMAIN k2 PROVE CyclicIn(h, f[i].class)
  <2>1. f[i] = w[i] /\ i \in 1..n /\ i < n /\ n \in 1..n
    BY <1>1, <1>5
  <2>2. CASE f[i].class \in DOMAIN k
    BY <1>2, <1>9, <2>1, <2>2
  <2>3. CASE f[i].class = c
    <3>1. c \in UpOf(h, c)
      BY <1>2, <1>3, <1>9, <2>1, <2>3
    <3> QED
      BY <2>3, <3>1 DEF CyclicIn
  <2> QED
    BY <1>3, <1>9, <2>2, <2>3
<1>10. Working(h, k2, f, v2)
  BY <1>1, <1>6, <1>7, <1>8, <1>9 DEF Working
<1>11. ASSUME NEW s, Coming(k, w, s) PROVE Coming(k2, f, s)
  <2>1. s \in DOMAIN k \/ \E i \in 1..n : w[i].class = s
    BY <1>11 DEF Coming, n
  <2> QED
    BY <1>1, <1>3, <1>4, <2>1 DEF Coming
<1> QED
  BY <1>10, <1>11 DEF f

\* The top frame is to be merged, and its parents that are not known go above it.
LEMMA FramePushes ==
  ASSUME NEW h \in Hierarchy, NEW k, NEW w, NEW v, Working(h, k, w, v), w # <<>>, ~Last(w).merge,
         NEW c, c = Last(w).class, c \notin DOMAIN k,
         NEW pushed \in Seq(Frames),
         \A i \in 1..Len(pushed) : ~pushed[i].merge /\ pushed[i].class \in ToSet(h[c]),
         \A p \in ToSet(h[c]) : p \in DOMAIN k \/ \E i \in 1..Len(pushed) : pushed[i].class = p
  PROVE  /\ Working(h, k, Append(Front(w), WorkFrame(c, TRUE)) \o pushed, v \union {c})
         /\ \A s : Coming(k, w, s) => Coming(k, Append(Front(w), WorkFrame(c, TRUE)) \o pushed, s)
<1> DEFINE n == Len(w)
           m == Len(pushed)
           a == Append(Front(w), WorkFrame(c, TRUE))
           w2 == a \o pushed
<1>1. /\ n \in Nat \ {0} /\ Last(w) = w[n] /\ w[n] \in Frames /\ Front(w) \in Seq(Frames)
      /\ Len(Front(w)) = n - 1 /\ \A i \in 1..(n - 1) : Front(w)[i] = w[i]
  BY TopOf DEF Working
<1>2. /\ c \in Class /\ WorkFrame(c, TRUE) \in Frames
      /\ WorkFrame(c, TRUE).class = c /\ WorkFrame(c, TRUE).merge
  BY <1>1 DEF Frames, WorkFrame
<1> HIDE DEF n
<1>3. /\ a \in Seq(Frames) /\ Len(a) = n /\ a[n] = WorkFrame(c, TRUE)
      /\ \A i \in 1..(n - 1) : a[i] = w[i]
  <2> DEFINE f == Front(w)
  <2>1. f \in Seq(Frames) /\ Len(f) = n - 1 /\ \A i \in 1..(n - 1) : f[i] = w[i]
    BY <1>1
  <2> HIDE DEF f
  <2>2. \A x \in Frames : /\ Append(f, x) \in Seq(Frames) /\ Len(Append(f, x)) = Len(f) + 1
                            /\ Append(f, x)[Len(f) + 1] = x /\ \A i \in 1..Len(f) : Append(f, x)[i] = f[i]
    BY <2>1, AtTheEnd
  <2>3. Len(f) + 1 = n
    BY <1>1, <2>1
  <2>4. a = Append(f, WorkFrame(c, TRUE))
    BY DEF f
  <2> HIDE DEF a
  <2>5. /\ a \in Seq(Frames) /\ Len(a) = Len(f) + 1
        /\ a[Len(f) + 1] = WorkFrame(c, TRUE) /\ \A i \in 1..Len(f) : a[i] = f[i]
    BY <1>2, <2>2, <2>4
  <2> QED
    BY <2>1, <2>3, <2>5
<1> HIDE DEF a
<1>4. /\ w2 \in Seq(Frames) /\ Len(w2) = n + m /\ m \in Nat
      /\ \A i \in 1..(n + m) : w2[i] = IF i <= n THEN a[i] ELSE pushed[i - n]
  <2>1. /\ w2 \in Seq(Frames) /\ Len(w2) = Len(a) + Len(pushed) /\ Len(pushed) \in Nat
        /\ \A i \in 1..(Len(a) + Len(pushed)) : w2[i] = IF i <= Len(a) THEN a[i] ELSE pushed[i - Len(a)]
    <3>1. a \in Seq(Frames) /\ pushed \in Seq(Frames) /\ Len(pushed) \in Nat
      BY <1>3, LenProperties
    <3> QED
      BY <3>1, ConcatProperties
  <2> QED
    BY <1>3, <2>1
<1> HIDE DEF w2, m
<1>5. n \in 1..(n + m) /\ w2[n].merge /\ w2[n].class = c
  <2>1. n \in 1..(n + m) /\ n <= n
    BY <1>1, <1>4
  <2> QED
    BY <1>2, <1>3, <1>4, <2>1, ZenonT(40)
<1>6. \A i \in 1..(n - 1) : i \in 1..n /\ i \in 1..(n + m) /\ i < n /\ w2[i] = w[i]
  <2>1. \A i \in 1..(n - 1) : i \in 1..n /\ i \in 1..(n + m) /\ i < n /\ i <= n
    BY <1>1, <1>4
  <2> QED
    BY <1>3, <1>4, <2>1
<1>7. \A j \in 1..m : n + j \in 1..(n + m) /\ n < n + j /\ ~w2[n + j].merge /\ w2[n + j].class = pushed[j].class
  <2>1. \A j \in 1..m : n + j \in 1..(n + m) /\ n < n + j /\ ~(n + j <= n) /\ (n + j) - n = j
    BY <1>1, <1>4
  <2>2. \A j \in 1..m : w2[n + j] = pushed[j]
    BY <1>4, <2>1
  <2> QED
    BY <2>1, <2>2 DEF m
<1>8. \A i \in 1..(n + m) : i \in 1..(n - 1) \/ i = n \/ \E j \in 1..m : i = n + j
  <2> SUFFICES ASSUME NEW i \in 1..(n + m), i > n PROVE \E j \in 1..m : i = n + j
    BY <1>1, <1>4
  <2>1. i - n \in 1..m /\ i = n + (i - n)
    BY <1>1, <1>4
  <2> QED
    BY <2>1
<1>9. /\ \A x \in v : \E i \in 1..n : w[i].merge /\ w[i].class = x
      /\ \A i, j \in 1..n : i < j /\ w[i].merge => w[j].class \in UpOf(h, w[i].class)
      /\ \A i \in 1..n : w[i].merge =>
           \A p \in ToSet(h[w[i].class]) : p \in DOMAIN k \/ \E j \in 1..n : i < j /\ w[j].class = p
      /\ \A i \in 1..n : w[i].merge /\ w[i].class \in DOMAIN k => CyclicIn(h, w[i].class)
  BY DEF Working, n
<1>10. \A i \in 1..n : i \in 1..(n - 1) \/ i = n
  BY <1>1
<1>11. w[n].class = c /\ ~w[n].merge /\ n \in 1..n
  BY <1>1
<1>12. \A x \in v \union {c} : \E i \in 1..(n + m) : w2[i].merge /\ w2[i].class = x
  <2> SUFFICES ASSUME NEW x \in v \union {c} PROVE \E i \in 1..(n + m) : w2[i].merge /\ w2[i].class = x
    OBVIOUS
  <2>1. CASE x \in v
    <3>1. PICK i \in 1..n : w[i].merge /\ w[i].class = x
      BY <1>9, <2>1
    <3>2. i \in 1..(n - 1)
      BY <1>10, <1>11, <3>1
    <3> QED
      BY <1>6, <3>1, <3>2
  <2> QED
    BY <1>5, <2>1
\* What was on the stack is still above it, at the same place or as the class of the top.
<1>13. \A j \in 1..n : j \in 1..(n + m) /\ w2[j].class = w[j].class
  BY <1>5, <1>6, <1>10, <1>11
<1>14. ASSUME NEW i \in 1..(n + m), NEW j \in 1..(n + m), i < j, w2[i].merge
       PROVE  w2[j].class \in UpOf(h, w2[i].class)
  <2>1. i \in 1..(n - 1) \/ i = n
    BY <1>7, <1>8, <1>14
  <2>2. CASE j \in 1..n
    <3>1. i \in 1..(n - 1)
      BY <1>1, <1>14, <2>1, <2>2
    <3>2. w2[i] = w[i] /\ i \in 1..n
      BY <1>6, <3>1
    <3> QED
      BY <1>9, <1>13, <1>14, <2>2, <3>2
  <2>3. ASSUME NEW l \in 1..m, j = n + l PROVE w2[j].class \in UpOf(h, w2[i].class)
    <3>1. w2[j].class \in ToSet(h[c])
      BY <1>7, <2>3 DEF m
    <3>2. ToSet(h[c]) \subseteq UpOf(h, c)
      BY <1>2, UpOfIsLeast
    <3>3. CASE i = n
      BY <1>5, <3>1, <3>2, <3>3
    <3>4. CASE i \in 1..(n - 1)
      <4>1. w2[i] = w[i] /\ i \in 1..n /\ i < n /\ n \in 1..n
        BY <1>6, <1>11, <3>4
      <4>2. c \in UpOf(h, w[i].class) /\ w[i].class \in Class
        <5>1. w[i] \in Frames
          BY <4>1, LenProperties DEF Working, n
        <5> QED
          BY <1>9, <1>11, <1>14, <4>1, <5>1 DEF Frames
      <4>3. ToSet(h[c]) \subseteq UpOf(h, w[i].class)
        BY <4>2, UpOfIsLeast
      <4> QED
        BY <3>1, <4>1, <4>3
    <3> QED
      BY <2>1, <3>3, <3>4
  <2> QED
    BY <1>8, <1>10, <1>11, <2>2, <2>3
<1>15. ASSUME NEW i \in 1..(n + m), w2[i].merge, NEW p \in ToSet(h[w2[i].class])
       PROVE  p \in DOMAIN k \/ \E j \in 1..(n + m) : i < j /\ w2[j].class = p
  <2>1. i \in 1..(n - 1) \/ i = n
    BY <1>7, <1>8, <1>15
  <2>2. CASE i \in 1..(n - 1)
    <3>1. w2[i] = w[i] /\ i \in 1..n
      BY <1>6, <2>2
    <3>2. p \in DOMAIN k \/ \E j \in 1..n : i < j /\ w[j].class = p
      BY <1>9, <1>15, <3>1
    <3> QED
      BY <1>13, <3>2
  <2>3. CASE i = n
    <3>1. p \in ToSet(h[c])
      BY <1>5, <1>15, <2>3
    <3>2. p \in DOMAIN k \/ \E j \in 1..m : pushed[j].class = p
      BY <3>1 DEF m
    <3> QED
      BY <1>7, <2>3, <3>2
  <2> QED
    BY <2>1, <2>2, <2>3
<1>16. ASSUME NEW i \in 1..(n + m), w2[i].merge, w2[i].class \in DOMAIN k
       PROVE  CyclicIn(h, w2[i].class)
  <2>1. i \in 1..(n - 1)
    BY <1>5, <1>7, <1>8, <1>16
  <2> QED
    BY <1>6, <1>9, <1>16, <2>1
<1>17. Working(h, k, w2, v \union {c})
  <2>1. Len(w2) = n + m /\ w2 \in Seq(Frames)
    BY <1>4
  <2>2. \A i, j \in 1..Len(w2) : i < j /\ w2[i].merge => w2[j].class \in UpOf(h, w2[i].class)
    BY <1>14, <2>1
  <2>3. \A i \in 1..Len(w2) : w2[i].merge =>
          \A p \in ToSet(h[w2[i].class]) : p \in DOMAIN k \/ \E j \in 1..Len(w2) : i < j /\ w2[j].class = p
    BY <1>15, <2>1
  <2>4. \A i \in 1..Len(w2) : w2[i].merge /\ w2[i].class \in DOMAIN k => CyclicIn(h, w2[i].class)
    BY <1>16, <2>1
  <2>5. \A x \in v \union {c} : \E i \in 1..Len(w2) : w2[i].merge /\ w2[i].class = x
    BY <1>12, <2>1
  <2> QED
    BY <2>1, <2>2, <2>3, <2>4, <2>5 DEF Working
<1>18. ASSUME NEW s, Coming(k, w, s) PROVE Coming(k, w2, s)
  BY <1>4, <1>13, <1>18 DEF Coming, n
<1> QED
  BY <1>17, <1>18 DEF w2, a

-----------------------------------------------------------------------------
(* The other operators of the model *)

\* The members of S in a sequence, in its order.
LEMMA KeptIs ==
  ASSUME NEW seq \in Orders, NEW S
  PROVE  /\ Kept(seq, S) \in Orders /\ ToSet(Kept(seq, S)) = ToSet(seq) \intersect S
         /\ Respects(seq, Kept(seq, S))
<1> DEFINE places == {i \in DOMAIN seq : seq[i] \in S}
           before(i) == {j \in places : j < i}
           rank == [i \in places |-> Cardinality(before(i))]
           n == Cardinality(places)
           nth(k) == CHOOSE i \in places : Cardinality(before(i)) = k - 1
           q == Kept(seq, S)
<1>1. Len(seq) \in Nat /\ DOMAIN seq = 1..Len(seq) /\ \A i \in 1..Len(seq) : seq[i] \in Class
  BY LenProperties DEF Orders
<1>2. /\ IsFiniteSet(places) /\ n \in Nat
      /\ \A i \in places : i \in Nat /\ i \in 1..Len(seq)
  <2>1. IsFiniteSet(1..Len(seq))
    BY <1>1, FS_Interval
  <2>2. places \subseteq 1..Len(seq)
    BY <1>1
  <2>3. \A i \in places : i \in Nat /\ i \in 1..Len(seq)
    BY <1>1
  <2> HIDE DEF places
  <2>4. IsFiniteSet(places)
    BY <2>1, <2>2, FS_Subset
  <2> QED
    BY <2>3, <2>4, FS_CardinalityType
<1>3. ASSUME NEW i \in places, NEW j \in places, i < j PROVE rank[i] < rank[j]
  <2>1. before(i) \subseteq before(j) /\ i \in before(j) /\ i \notin before(i)
    BY <1>2, <1>3
  <2>2. IsFiniteSet(before(i)) /\ IsFiniteSet(before(j))
    BY <1>2, FS_Subset
  <2>3. Cardinality(before(i)) <= Cardinality(before(j)) /\ Cardinality(before(i)) # Cardinality(before(j))
    <3> HIDE DEF before
    <3> QED
      BY <2>1, <2>2, FS_Subset
  <2>4. Cardinality(before(i)) \in Nat /\ Cardinality(before(j)) \in Nat
    BY <2>2, FS_CardinalityType
  <2> QED
    BY <2>3, <2>4
<1>4. ASSUME NEW i \in places, NEW j \in places, i # j PROVE rank[i] # rank[j]
  <2>1. i < j \/ j < i
    BY <1>2, <1>4
  <2>2. \A x \in places : rank[x] \in Nat
    BY <1>2, FS_Subset, FS_CardinalityType
  <2> QED
    BY <1>3, <2>1, <2>2
<1>5. ASSUME NEW i \in places PROVE rank[i] \in 0..(n - 1)
  <2>1. before(i) \subseteq places /\ before(i) # places
    BY <1>2
  <2>2. IsFiniteSet(before(i)) /\ Cardinality(before(i)) <= n /\ Cardinality(before(i)) # n
    BY <1>2, <2>1, FS_Subset
  <2> QED
    BY <1>2, <2>2, FS_CardinalityType
<1>6. rank \in Surjection(places, 0..(n - 1))
  <2>1. rank \in Injection(places, 0..(n - 1))
    BY <1>4, <1>5, Fun_IsInj
  <2>2. IsFiniteSet(0..(n - 1)) /\ Cardinality(0..(n - 1)) = n
    <3> HIDE DEF n
    <3>1. n \in Nat /\ 0 \in Int /\ n - 1 \in Int
      BY <1>2
    <3> QED
      BY <3>1, FS_Interval
  <2> QED
    BY <1>2, <2>1, <2>2, FS_Injection
<1>7. ASSUME NEW k \in 1..n PROVE nth(k) \in places /\ rank[nth(k)] = k - 1
  <2>1. k - 1 \in 0..(n - 1)
    BY <1>2
  <2>2. \E i \in places : rank[i] = k - 1
    <3> HIDE DEF rank, n, places
    <3> QED
      BY <1>6, <2>1 DEF Surjection
  <2>3. \E i \in places : Cardinality(before(i)) = k - 1
    BY <2>2
  <2>4. nth(k) \in places /\ Cardinality(before(nth(k))) = k - 1
    <3> HIDE DEF before, places
    <3> QED
      BY <2>3
  <2> QED
    BY <2>4
<1>8. q = [k \in 1..n |-> seq[nth(k)]]
  BY DEF Kept
<1>9. \A i \in places : seq[i] \in Class /\ seq[i] \in S /\ seq[i] \in ToSet(seq)
  BY <1>1 DEF ToSet
<1>10. ASSUME NEW x \in ToSet(seq) \intersect S PROVE \E i \in places : seq[i] = x
  BY <1>1 DEF ToSet
<1> HIDE DEF q, rank, n, nth, places
<1>11. q \in [1..n -> Class] /\ \A k \in 1..n : q[k] = seq[nth(k)]
  BY <1>7, <1>8, <1>9
<1>12. q \in Orders /\ DOMAIN q = 1..n
  BY <1>2, <1>11 DEF Orders
<1>13. \A k \in 1..n : q[k] \in ToSet(seq) \intersect S
  BY <1>7, <1>9, <1>11
<1>14. ASSUME NEW x \in ToSet(seq) \intersect S PROVE x \in ToSet(q)
  <2>1. PICK i \in places : seq[i] = x
    BY <1>10
  <2>2. rank[i] \in 0..(n - 1)
    BY <1>5
  <2>3. rank[i] + 1 \in 1..n /\ (rank[i] + 1) - 1 = rank[i]
    BY <1>2, <2>2
  <2>4. nth(rank[i] + 1) \in places /\ rank[nth(rank[i] + 1)] = rank[i]
    BY <1>7, <2>3
  <2>5. nth(rank[i] + 1) = i
    BY <1>4, <2>4
  <2> QED
    BY <1>11, <1>12, <2>1, <2>3, <2>5 DEF ToSet
<1>15. ToSet(q) = {q[k] : k \in 1..n}
  BY <1>12 DEF ToSet
<1>16. ASSUME NEW k \in 1..n, NEW l \in 1..n, k < l
       PROVE  \E i, j \in DOMAIN seq : i < j /\ seq[i] = q[k] /\ seq[j] = q[l]
  <2>1. nth(k) \in places /\ nth(l) \in places /\ rank[nth(k)] = k - 1 /\ rank[nth(l)] = l - 1
    BY <1>7
  <2>2. ~(l - 1 < k - 1) /\ l - 1 # k - 1
    BY <1>2, <1>16
  <2>3. ~(nth(l) < nth(k)) /\ nth(k) # nth(l)
    BY <1>3, <2>1, <2>2
  <2>4. nth(k) \in 1..Len(seq) /\ nth(l) \in 1..Len(seq)
    BY <1>2, <2>1
  <2>5. nth(k) < nth(l)
    BY <1>1, <2>3, <2>4
  <2> QED
    BY <1>1, <1>11, <2>4, <2>5
<1>17. Respects(seq, q)
  BY <1>12, <1>16 DEF Respects
<1> QED
  BY <1>12, <1>13, <1>14, <1>15, <1>17 DEF q

LEMMA ReverseIs ==
  ASSUME NEW seq \in Orders
  PROVE  Reverse(seq) \in Orders /\ ToSet(Reverse(seq)) = ToSet(seq)
<1> DEFINE n == Len(seq)
           q == [i \in 1..n |-> seq[(n - i) + 1]]
<1>1. n \in Nat /\ DOMAIN seq = 1..n /\ \A i \in 1..n : seq[i] \in Class
  BY LenProperties DEF Orders
<1> HIDE DEF n
<1>2. \A i \in 1..n : (n - i) + 1 \in 1..n /\ (n - ((n - i) + 1)) + 1 = i
  BY <1>1
<1>3. q \in [1..n -> Class] /\ \A i \in 1..n : q[i] = seq[(n - i) + 1]
  BY <1>1, <1>2
<1> HIDE DEF q
<1>4. q \in Orders /\ DOMAIN q = 1..n
  BY <1>1, <1>3 DEF Orders
<1>5. ToSet(q) = {q[i] : i \in 1..n} /\ ToSet(seq) = {seq[i] : i \in 1..n}
  BY <1>1, <1>4 DEF ToSet
<1>6. ASSUME NEW i \in 1..n PROVE seq[i] \in ToSet(q)
  <2>1. q[(n - i) + 1] = seq[i]
    BY <1>2, <1>3
  <2> QED
    BY <1>2, <1>5, <2>1
<1>7. ASSUME NEW i \in 1..n PROVE q[i] \in ToSet(seq)
  BY <1>2, <1>3, <1>5
<1>8. ToSet(q) = ToSet(seq)
  BY <1>5, <1>6, <1>7
<1> QED
  BY <1>4, <1>8 DEF q, n, Reverse

\* The first of several definers.
LEMMA FirstIs ==
  ASSUME NEW order \in Orders, NEW definers, definers \intersect ToSet(order) # {}
  PROVE  First(order, definers) \in Class /\ First(order, definers) \in definers
<1> DEFINE P == {i \in 1..Len(order) : order[i] \in definers}
<1>1. DOMAIN order = 1..Len(order) /\ Len(order) \in Nat /\ \A i \in 1..Len(order) : order[i] \in Class
  BY LenProperties DEF Orders
<1>2. P # {} /\ P \in SUBSET Nat
  BY <1>1 DEF ToSet
<1>3. PICK n \in P : \A m \in P : n <= m
  <2> HIDE DEF P
  <2> QED
    BY <1>2, LeastOf
<1>4. \A k \in 1..(n - 1) : order[k] \notin definers
  <2> SUFFICES ASSUME NEW k \in 1..(n - 1), order[k] \in definers PROVE FALSE
    OBVIOUS
  <2>1. n \in Nat /\ n \in 1..Len(order)
    OBVIOUS
  <2>2. k \in 1..Len(order) /\ ~(n <= k)
    BY <1>1, <2>1
  <2>3. k \in P
    BY <2>2
  <2> HIDE DEF P
  <2> QED
    BY <1>3, <2>2, <2>3
<1>5. \E i \in DOMAIN order : order[i] \in definers /\ \A k \in 1..(i - 1) : order[k] \notin definers
  BY <1>1, <1>4
<1> QED
  BY <1>1, <1>5 DEF First

\* Lists of all ancestors, each once, are the sequences that SetToSeqs makes.
LEMMA ListsOf ==
  ASSUME NEW S \in SUBSET Class
  PROVE  SetToSeqs(S) = {order \in Orders : IsInjective(order) /\ ToSet(order) = S}
<1>1. IsFiniteSet(S) /\ Cardinality(S) \in Nat
  <2>1. IsFiniteSet(Class)
    <3>1. Classes \in Int
      BY MroAssumption
    <3> QED
      BY <3>1, FS_Interval DEF Class
  <2> QED
    BY <2>1, FS_Subset, FS_CardinalityType
<1> DEFINE n == Cardinality(S)
<1>2. IsFiniteSet(1..n) /\ Cardinality(1..n) = n
  BY <1>1, FS_Interval
<1>3. ASSUME NEW f \in SetToSeqs(S) PROVE f \in Orders /\ IsInjective(f) /\ ToSet(f) = S
  <2>1. f \in [1..n -> S] /\ \A i, j \in 1..n : i # j => f[i] # f[j]
    BY DEF SetToSeqs
  <2>2. f \in Injection(1..n, S)
    BY <2>1, Fun_IsInj
  <2> HIDE DEF n
  <2>3. f \in Surjection(1..n, S)
    BY <1>1, <1>2, <2>2, FS_Injection DEF n
  <2>4. f \in Orders
    BY <1>1, <2>1 DEF Orders, n
  <2>5. IsInjective(f)
    BY <2>1 DEF IsInjective
  <2>6. ToSet(f) = S
    BY <2>1, <2>3 DEF Surjection, ToSet
  <2> QED
    BY <2>4, <2>5, <2>6
<1>4. ASSUME NEW f \in Orders, IsInjective(f), ToSet(f) = S PROVE f \in SetToSeqs(S)
  <2>1. Len(f) \in Nat /\ DOMAIN f = 1..Len(f) /\ f = [i \in 1..Len(f) |-> f[i]]
    BY LenProperties DEF Orders
  <2>2. f \in [1..Len(f) -> S] /\ \A i, j \in 1..Len(f) : i # j => f[i] # f[j]
    BY <1>4, <2>1 DEF ToSet, IsInjective
  <2>3. f \in Surjection(1..Len(f), S)
    BY <1>4, <2>1, <2>2 DEF Surjection, ToSet
  <2>4. f \in Injection(1..Len(f), S)
    BY <2>2, Fun_IsInj
  <2>5. IsFiniteSet(1..Len(f)) /\ Cardinality(1..Len(f)) = Len(f)
    <3>1. \A l \in Nat : IsFiniteSet(1..l) /\ Cardinality(1..l) = l
      BY FS_Interval
    <3> QED
      BY <2>1, <3>1
  <2>6. Cardinality(S) = Len(f)
    BY <2>3, <2>4, <2>5, FS_Surjection
  <2> QED
    BY <2>2, <2>6 DEF SetToSeqs
<1> QED
  BY <1>3, <1>4

-----------------------------------------------------------------------------
(* Steps of the linearization *)

LEMMA StackOps ==
  /\ \A w \in Seq(Frames) : w # <<>> => Append(Front(w), Last(w)) = w
  /\ \A w \in Seq(Frames), x \in Frames :
       /\ Append(w, x) \in Seq(Frames) /\ Append(w, x) # <<>>
       /\ Last(Append(w, x)) = x /\ Front(Append(w, x)) = w
<1>1. ASSUME NEW w \in Seq(Frames), NEW x \in Frames
      PROVE  /\ Append(w, x) \in Seq(Frames) /\ Append(w, x) # <<>>
             /\ Last(Append(w, x)) = x /\ Front(Append(w, x)) = w
  <2> DEFINE t == Append(w, x)
  <2>1. /\ t \in Seq(Frames) /\ t # <<>> /\ Len(t) = Len(w) + 1 /\ t[Len(w) + 1] = x
        /\ \A i \in 1..Len(w) : t[i] = w[i]
    BY AppendProperties
  <2> HIDE DEF t
  <2>2. /\ Last(t) = t[Len(t)] /\ Front(t) \in Seq(Frames) /\ Len(Front(t)) = Len(t) - 1
        /\ \A i \in 1..(Len(t) - 1) : Front(t)[i] = t[i]
    BY <2>1, TopOf
  <2>3. Len(w) \in Nat
    BY LenProperties
  <2>4. Len(Front(t)) = Len(w) /\ \A i \in 1..Len(w) : Front(t)[i] = w[i]
    BY <2>1, <2>2, <2>3
  <2>5. Front(t) = w
    BY <2>2, <2>4, SeqEqual
  <2> QED
    BY <2>1, <2>2, <2>5 DEF t
<1>2. ASSUME NEW w \in Seq(Frames), w # <<>> PROVE Append(Front(w), Last(w)) = w
  <2>1. PICK s \in Seq(Frames), e \in Frames : w = Append(s, e)
    BY <1>2, SequenceEmptyOrAppend
  <2> QED
    BY <1>1, <2>1
<1> QED
  BY <1>1, <1>2

CacheOK == DOMAIN cache = {"pass", "call"} /\ \A u \in {"pass", "call"} : Sound(parents, cache[u])

\* What an answer must be.
Right(h, c, order, k) ==
  IF order = NoOrder THEN Impossible(h, c, k) ELSE Linearizes(h, c, order, k)

LEMMA CacheTypes ==
  ASSUME NEW h, NEW k, Sound(h, k)
  PROVE  DOMAIN k \subseteq Class /\ \A c \in DOMAIN k : k[c] \in Orders \union {NoOrder}
BY DEF Sound, Linearizes

LEMMA LearnKeeps ==
  ASSUME MroInv, NEW c \in Class, NEW order, Learn(c, order), turn' = turn, parents' = parents,
         Right(parents, c, order, Known), c \in DOMAIN Known => Known[c] = order
  PROVE  CacheOK' /\ DOMAIN Known' = DOMAIN Known \union {c}
<1> DEFINE f == [x \in DOMAIN Known \union {c} |-> IF x = c THEN order ELSE Known[x]]
<1>1. User \in {"pass", "call"} /\ User' = User /\ Known = cache[User]
  BY DEF User, Known
<1>2. DOMAIN cache = {"pass", "call"} /\ cache' = [cache EXCEPT ![User] = f]
  BY DEF MroInv, MroTypeOK, Learn
<1>3. /\ DOMAIN cache' = {"pass", "call"} /\ cache'[User] = f
      /\ \A u \in {"pass", "call"} : u # User => cache'[u] = cache[u]
  <2> HIDE DEF f
  <2> QED
    BY <1>1, <1>2
<1>4. DOMAIN f = DOMAIN Known \union {c} /\ f[c] = order /\ \A x \in DOMAIN Known : f[x] = Known[x]
  OBVIOUS
<1> HIDE DEF f
<1>5. /\ parents \in Hierarchy /\ \A u \in {"pass", "call"} : Sound(parents, cache[u])
  BY DEF MroInv
<1>6. Sound(parents, f)
  BY <1>1, <1>4, <1>5, LearnedIsSound DEF Right
<1>7. \A u \in {"pass", "call"} : Sound(parents, cache'[u])
  BY <1>1, <1>3, <1>5, <1>6
<1> QED
  BY <1>1, <1>3, <1>4, <1>7 DEF CacheOK, Known

LEMMA SameCache ==
  ASSUME MroInv, UNCHANGED <<cache, turn, parents>>
  PROVE  CacheOK' /\ Known' = Known
BY DEF MroInv, MroTypeOK, CacheOK, Known, User

\* The linearization goes on.
LEMMA C3Goes ==
  ASSUME MroInv, doing \in {"c3", "merge"}, doing' = "c3",
         UNCHANGED <<strategy, parents, turn, orders, overrides, walk, called, reached>>,
         merging' = merging \/ merging' = NoMerge, CacheOK',
         Working(parents, Known', stack', visiting'), Coming(Known', stack', Subject)
  PROVE  MroInv'
<1>1. Subject' = Subject /\ Work' = stack' /\ Subject \in Class
  BY DEF Subject, Work, MroInv
<1>2. stack' \in Seq(Frames) /\ visiting' \subseteq Class
  <2>1. /\ stack' \in Seq(Frames)
        /\ \A x \in visiting' : \E i \in 1..Len(stack') : stack'[i].merge /\ stack'[i].class = x
    BY DEF Working
  <2>2. \A i \in 1..Len(stack') : stack'[i] \in Frames
    BY <2>1, LenProperties
  <2> QED
    BY <2>1, <2>2 DEF Frames
<1>3. merging' \in [class : 0..Classes, seqs : Seq(Orders), order : Orders]
  <2>1. <<>> \in Seq(Orders) /\ <<>> \in Orders /\ 0 \in 0..Classes
    BY MroAssumption DEF Orders
  <2>2. NoMerge \in [class : 0..Classes, seqs : Seq(Orders), order : Orders]
    BY <2>1 DEF NoMerge
  <2>3. merging \in [class : 0..Classes, seqs : Seq(Orders), order : Orders]
    BY DEF MroInv, MroTypeOK
  <2> QED
    BY <2>2, <2>3
<1>4. \A u \in {"pass", "call"} :
        DOMAIN cache'[u] \subseteq Class /\ \A c \in DOMAIN cache'[u] : cache'[u][c] \in Orders \union {NoOrder}
  BY CacheTypes DEF CacheOK
<1>5. MroTypeOK'
  BY <1>2, <1>3, <1>4 DEF MroInv, MroTypeOK, CacheOK, Frames
<1> QED
  BY <1>1, <1>5 DEF MroInv, CacheOK

\* A class that is visited when it is entered is in a cycle.
LEMMA VisitedIsCyclic ==
  ASSUME NEW h, NEW k, NEW w, NEW v, Working(h, k, w, v), w # <<>>, ~Last(w).merge, Last(w).class \in v
  PROVE  CyclicIn(h, Last(w).class)
<1> DEFINE n == Len(w)
           c == Last(w).class
<1>1. n \in Nat \ {0} /\ Last(w) = w[n]
  BY TopOf DEF Working
<1>2. PICK i \in 1..n : w[i].merge /\ w[i].class = c
  BY DEF Working
<1>3. i < n /\ n \in 1..n
  BY <1>1, <1>2
<1>4. w[n].class \in UpOf(h, w[i].class)
  BY <1>2, <1>3 DEF Working
<1> QED
  BY <1>1, <1>2, <1>4 DEF CyclicIn

\* A class without parents has the empty order.
LEMMA NoParents ==
  ASSUME NEW h \in Hierarchy, NEW k, NEW c \in Class, h[c] = <<>>
  PROVE  Right(h, c, <<>>, k)
<1>1. <<>> \in Orders /\ <<>> # NoOrder /\ ToSet(<<>>) = {} /\ IsInjective(<<>>) /\ Respects(<<>>, <<>>)
  <2>1. <<>> \in Seq(1..Classes)
    OBVIOUS
  <2> QED
    <3>1. <<>> \in Orders /\ <<>> # NoOrder
      BY <2>1, MroAssumption DEF Orders, Class
    <3>2. ToSet(<<>>) = {} /\ IsInjective(<<>>)
      BY DEF ToSet, IsInjective
    <3>3. Respects(<<>>, <<>>)
      BY DEF Respects
    <3> QED
      BY <3>1, <3>2, <3>3
<1>2. UpOf(h, c) = {}
  BY <1>1, UpOfThroughParents
<1>3. ~CyclicIn(h, c)
  BY <1>2 DEF CyclicIn
<1> QED
  BY <1>1, <1>2, <1>3 DEF Right, Linearizes, IsC3In

LEMMA EnterStep == MroInv /\ Enter => MroInv'
<1> SUFFICES ASSUME MroInv, Enter PROVE MroInv'
  OBVIOUS
<1> DEFINE c == Last(stack).class
<1>1. /\ doing = "c3" /\ stack # <<>> /\ ~Last(stack).merge /\ doing' = "c3"
      /\ UNCHANGED <<strategy, parents, turn, orders, overrides, walk, called, reached, merging>>
  BY DEF Enter
<1>2. /\ Working(parents, Known, stack, visiting) /\ Coming(Known, stack, Subject)
      /\ parents \in Hierarchy
  BY <1>1 DEF MroInv, Work
<1>3. c \in Class /\ stack \in Seq(Frames)
  <2>1. stack \in Seq(Frames)
    BY <1>2 DEF Working
  <2>2. Last(stack) \in Frames
    BY <1>1, <2>1, TopOf
  <2> QED
    BY <2>1, <2>2 DEF Frames
<1>4. CASE c \in DOMAIN Known /\ stack' = Front(stack) /\ UNCHANGED <<cache, visiting>>
  <2>1. CacheOK' /\ Known' = Known
    BY <1>1, <1>4, SameCache
  <2>2. DOMAIN Known = DOMAIN Known \union {c}
    BY <1>4
  <2>3. Working(parents, Known, stack', visiting) /\ Coming(Known, stack', Subject)
    BY <1>1, <1>2, <1>4, <2>2, FrameDone
  <2> QED
    BY <1>1, <1>4, <2>1, <2>3, C3Goes
<1>5. CASE /\ c \notin DOMAIN Known /\ (c \in visiting \/ parents[c] = <<>>)
           /\ Learn(c, IF c \in visiting THEN NoOrder ELSE <<>>)
           /\ stack' = Front(stack) /\ UNCHANGED visiting
  <2> DEFINE order == IF c \in visiting THEN NoOrder ELSE <<>>
  <2>1. Right(parents, c, order, Known)
    <3>1. CASE c \in visiting
      BY <1>1, <1>2, <3>1, VisitedIsCyclic DEF Right, Impossible
    <3>2. CASE c \notin visiting
      BY <1>2, <1>3, <1>5, <3>2, NoParents
    <3> QED
      BY <3>1, <3>2
  <2>2. CacheOK' /\ DOMAIN Known' = DOMAIN Known \union {c}
    <3> HIDE DEF order, c
    <3>1. Learn(c, order) /\ c \notin DOMAIN Known
      BY <1>5 DEF order
    <3> QED
      BY <1>1, <1>3, <2>1, <3>1, LearnKeeps
  <2>3. Working(parents, Known', stack', visiting) /\ Coming(Known', stack', Subject)
    BY <1>1, <1>2, <1>5, <2>2, FrameDone
  <2> QED
    BY <1>1, <1>5, <2>2, <2>3, C3Goes
<1>6. CASE /\ c \notin DOMAIN Known \union visiting /\ parents[c] # <<>>
           /\ visiting' = visiting \union {c}
           /\ LET unknown == Kept(Reverse(parents[c]), Class \ DOMAIN Known)
                  pushed == [i \in DOMAIN unknown |-> WorkFrame(unknown[i], FALSE)]
              IN stack' = Append(Front(stack), WorkFrame(c, TRUE)) \o pushed
           /\ UNCHANGED cache
  <2> DEFINE unknown == Kept(Reverse(parents[c]), Class \ DOMAIN Known)
             pushed == [i \in DOMAIN unknown |-> WorkFrame(unknown[i], FALSE)]
  <2>1. CacheOK' /\ Known' = Known
    BY <1>1, <1>6, SameCache
  <2>2. parents[c] \in Orders /\ ToSet(parents[c]) \subseteq Class
    BY <1>2, <1>3, ParentsAreClasses
  <2>3. unknown \in Orders /\ ToSet(unknown) = ToSet(parents[c]) \ DOMAIN Known
    BY <2>2, ReverseIs, KeptIs
  <2> HIDE DEF unknown
  <2>4. /\ Len(unknown) \in Nat /\ DOMAIN unknown = 1..Len(unknown)
        /\ \A i \in 1..Len(unknown) : unknown[i] \in ToSet(unknown) /\ unknown[i] \in Class
        /\ \A x \in ToSet(unknown) : \E i \in 1..Len(unknown) : unknown[i] = x
    BY <2>3, SetOf DEF Orders
  <2>5. pushed \in [1..Len(unknown) -> Frames]
    BY <2>4 DEF WorkFrame, Frames
  <2>6. \A i \in 1..Len(unknown) : ~pushed[i].merge /\ pushed[i].class = unknown[i]
    BY <2>4 DEF WorkFrame
  <2>7. stack' = Append(Front(stack), WorkFrame(c, TRUE)) \o pushed
    BY <1>6 DEF unknown
  <2> HIDE DEF pushed
  <2>8. pushed \in Seq(Frames) /\ Len(pushed) = Len(unknown)
    BY <2>4, <2>5
  <2>9. \A i \in 1..Len(pushed) : ~pushed[i].merge /\ pushed[i].class \in ToSet(parents[c])
    BY <2>3, <2>4, <2>6, <2>8
  <2>10. \A p \in ToSet(parents[c]) : p \in DOMAIN Known \/ \E i \in 1..Len(pushed) : pushed[i].class = p
    BY <2>3, <2>4, <2>6, <2>8
  <2>11. Working(parents, Known, stack', visiting \union {c}) /\ Coming(Known, stack', Subject)
    <3>1. c = Last(stack).class /\ c \notin DOMAIN Known
      BY <1>6
    <3> HIDE DEF c
    <3>2. /\ Working(parents, Known, Append(Front(stack), WorkFrame(c, TRUE)) \o pushed, visiting \union {c})
          /\ \A s : Coming(Known, stack, s) => Coming(Known, Append(Front(stack), WorkFrame(c, TRUE)) \o pushed, s)
      BY <1>1, <1>2, <2>8, <2>9, <2>10, <3>1, FramePushes
    <3> QED
      BY <1>2, <2>7, <3>2
  <2> QED
    BY <1>1, <1>6, <2>1, <2>11, C3Goes
<1> QED
  BY <1>4, <1>5, <1>6 DEF Enter

LEMMA NoOrderIsNone == NoOrder \notin Orders
BY MroAssumption DEF Orders, Class

\* The parents of a class that is to be merged are known; if it is known itself, it
\* is null for a cycle.
LEMMA TopToMerge ==
  ASSUME NEW h, NEW k, NEW w, NEW v, Working(h, k, w, v), Sound(h, k), w # <<>>, Last(w).merge
  PROVE  LET c == Last(w).class IN
         /\ c \in Class /\ Last(w) = WorkFrame(c, TRUE) /\ ToSet(h[c]) \subseteq DOMAIN k
         /\ c \in DOMAIN k => k[c] = NoOrder /\ CyclicIn(h, c)
<1> DEFINE n == Len(w)
           c == Last(w).class
<1>1. n \in Nat \ {0} /\ Last(w) = w[n] /\ Last(w) \in Frames
  BY TopOf DEF Working
<1>2. c \in Class /\ Last(w) = WorkFrame(c, TRUE)
  BY <1>1 DEF Frames, WorkFrame
<1>3. ToSet(h[c]) \subseteq DOMAIN k
  <2> SUFFICES ASSUME NEW p \in ToSet(h[c]), p \notin DOMAIN k PROVE FALSE
    OBVIOUS
  <2>1. n \in 1..n /\ ~\E j \in 1..n : n < j
    BY <1>1
  <2>2. w[n].merge /\ p \in ToSet(h[w[n].class])
    BY <1>1
  <2> QED
    BY <2>1, <2>2 DEF Working
<1>4. c \in DOMAIN k => CyclicIn(h, c)
  <2>1. n \in 1..n
    BY <1>1
  <2> QED
    BY <1>1, <2>1 DEF Working
<1>5. c \in DOMAIN k => k[c] = NoOrder
  <2>1. ASSUME c \in DOMAIN k, k[c] # NoOrder PROVE ~CyclicIn(h, c)
    <3>1. Linearizes(h, c, k[c], k)
      BY <2>1, Zenon DEF Sound
    <3> QED
      BY <3>1 DEF Linearizes
  <2> QED
    BY <1>4, <2>1
<1> QED
  BY <1>2, <1>3, <1>4, <1>5

LEMMA MergeBeginsStep == MroInv /\ MergeBegins => MroInv'
<1> SUFFICES ASSUME MroInv, MergeBegins PROVE MroInv'
  OBVIOUS
<1> DEFINE c == Last(stack).class
<1>1. /\ doing = "c3" /\ stack # <<>> /\ Last(stack).merge /\ stack' = Front(stack)
      /\ UNCHANGED <<strategy, parents, turn, orders, overrides, walk, called, reached>>
  BY DEF MergeBegins
<1>2. /\ Working(parents, Known, stack, visiting) /\ Coming(Known, stack, Subject)
      /\ parents \in Hierarchy /\ Sound(parents, Known) /\ Subject \in Class
  BY <1>1 DEF MroInv, Work, Known, User
<1>3. /\ c \in Class /\ Last(stack) = WorkFrame(c, TRUE) /\ ToSet(parents[c]) \subseteq DOMAIN Known
      /\ c \in DOMAIN Known => Known[c] = NoOrder /\ CyclicIn(parents, c)
  BY <1>1, <1>2, TopToMerge
<1>4. CASE /\ \E p \in ToSet(parents[c]) : p \notin DOMAIN Known \/ Known[p] = NoOrder
           /\ Learn(c, NoOrder) /\ visiting' = visiting \ {c} /\ UNCHANGED <<doing, merging>>
  <2>1. Right(parents, c, NoOrder, Known)
    BY <1>3, <1>4 DEF Right, Impossible
  <2>2. CacheOK' /\ DOMAIN Known' = DOMAIN Known \union {c}
    <3>1. Learn(c, NoOrder)
      BY <1>4
    <3> HIDE DEF c
    <3> QED
      BY <1>1, <1>3, <2>1, <3>1, LearnKeeps
  <2>3. Working(parents, Known', stack', visiting') /\ Coming(Known', stack', Subject)
    <3>1. visiting' \in SUBSET visiting /\ c \notin visiting'
      BY <1>4
    <3> QED
      BY <1>1, <1>2, <2>2, <3>1, FrameDone
  <2> QED
    BY <1>1, <1>4, <2>2, <2>3, C3Goes
<1>5. CASE /\ ~\E p \in ToSet(parents[c]) : p \notin DOMAIN Known \/ Known[p] = NoOrder
           /\ doing' = "merge"
           /\ merging' = [class |-> c, seqs |-> Sequences(parents, Known, c), order |-> <<>>]
           /\ UNCHANGED <<cache, visiting>>
  <2>1. CacheOK' /\ Known' = Known
    BY <1>1, <1>5, SameCache
  <2>2. Ready(parents, Known, c)
    BY <1>2, <1>3, <1>5 DEF Ready
  <2>3. Merging(parents, Known, c, Sequences(parents, Known, c), <<>>)
    BY <2>2, MergingBegins
  <2>4. merging'.class = c /\ merging'.seqs = Sequences(parents, Known, c) /\ merging'.order = <<>>
    BY <1>5
  <2>5. Merging(parents', Known', merging'.class, merging'.seqs, merging'.order)
    BY <1>1, <2>1, <2>3, <2>4
  <2>6. merging' \in [class : 0..Classes, seqs : Seq(Orders), order : Orders]
    <3>1. Sequences(parents, Known, c) \in Seq(Orders) /\ <<>> \in Orders
      BY <2>2, <2>3, SequencesAre DEF Merging
    <3>2. c \in 0..Classes
      BY <1>3, MroAssumption DEF Class
    <3> HIDE DEF c
    <3> QED
      BY <1>5, <3>1, <3>2
  <2>7. stack \in Seq(Frames) /\ Front(stack) \in Seq(Frames)
    BY <1>1, <1>2, TopOf DEF Working
  <2>8. Work' = stack
    <3>1. Append(Front(stack), WorkFrame(c, TRUE)) = stack
      BY <1>1, <1>3, <2>7, StackOps
    <3> QED
      BY <1>1, <1>5, <2>4, <3>1 DEF Work
  <2>9. Subject' = Subject
    BY <1>1 DEF Subject
  <2>10. MroTypeOK'
    BY <1>1, <1>5, <2>6, <2>7 DEF MroInv, MroTypeOK, Frames
  <2> QED
    BY <1>1, <1>2, <1>5, <2>1, <2>5, <2>8, <2>9, <2>10 DEF MroInv, CacheOK
<1> QED
  <2>1. CASE \E p \in ToSet(parents[c]) : p \notin DOMAIN Known \/ Known[p] = NoOrder
    BY <1>4, <2>1, Zenon DEF MergeBegins
  <2>2. CASE ~\E p \in ToSet(parents[c]) : p \notin DOMAIN Known \/ Known[p] = NoOrder
    BY <1>5, <2>2, ZenonT(40) DEF MergeBegins, Sequences
  <2> QED
    BY <2>1, <2>2

LEMMA MergeOnStep == MroInv /\ MergeOn => MroInv'
<1> SUFFICES ASSUME MroInv, MergeOn PROVE MroInv'
  OBVIOUS
<1> DEFINE q == merging.seqs
           r == merging.order
           c == merging.class
           g == CHOOSE i \in GoodHeads(q) : \A k \in GoodHeads(q) : i <= k
           p == [i \in DOMAIN q |-> IF q[i] # <<>> /\ q[i][1] = q[g][1] THEN Tail(q[i]) ELSE q[i]]
<1>1. /\ doing = "merge" /\ GoodHeads(q) # {} /\ doing' = doing
      /\ merging' = [merging EXCEPT !.seqs = p, !.order = Append(r, q[g][1])]
      /\ UNCHANGED <<strategy, parents, turn, orders, overrides, walk, cache, stack, visiting, called, reached>>
  BY DEF MergeOn
<1>2. /\ Merging(parents, Known, c, q, r)
      /\ merging \in [class : 0..Classes, seqs : Seq(Orders), order : Orders]
  BY <1>1 DEF MroInv, MroTypeOK
<1>3. g \in GoodHeads(q)
  <2>1. GoodHeads(q) \in SUBSET Nat
    BY <1>2, MergingIs DEF GoodHeads
  <2>2. \E i \in GoodHeads(q) : \A k \in GoodHeads(q) : i <= k
    BY <1>1, <2>1, LeastOf
  <2> QED
    BY <2>2
<1> HIDE DEF g
<1>4. q[g][1] \in Class /\ Merging(parents, Known, c, p, Append(r, q[g][1]))
  BY <1>2, <1>3, MergingGoesOn
<1>5. p \in Seq(Orders) /\ Append(r, q[g][1]) \in Orders
  BY <1>4 DEF Merging
<1> HIDE DEF p
<1>6. merging' \in [class : 0..Classes, seqs : Seq(Orders), order : Orders]
  BY <1>1, <1>2, <1>5
<1>7. merging'.class = c /\ merging'.seqs = p /\ merging'.order = Append(r, q[g][1])
  BY <1>1, <1>2
<1>8. CacheOK' /\ Known' = Known
  BY <1>1, SameCache
<1>9. Work' = Work /\ Subject' = Subject
  <2>1. /\ doing' = doing /\ stack' = stack /\ turn' = turn /\ called' = called
        /\ merging'.class = merging.class
    BY <1>1, <1>7
  <2> QED
    BY <2>1 DEF Work, Subject
<1>10. MroTypeOK'
  BY <1>1, <1>6 DEF MroInv, MroTypeOK
<1> QED
  BY <1>1, <1>4, <1>7, <1>8, <1>9, <1>10 DEF MroInv, CacheOK

LEMMA MergeEndsStep == MroInv /\ MergeEnds => MroInv'
<1> SUFFICES ASSUME MroInv, MergeEnds PROVE MroInv'
  OBVIOUS
<1> DEFINE q == merging.seqs
           r == merging.order
           c == merging.class
           done == \A i \in DOMAIN q : q[i] = <<>>
           order == IF done THEN r ELSE NoOrder
<1>1. /\ doing = "merge" /\ GoodHeads(q) = {} /\ doing' = "c3" /\ merging' = NoMerge
      /\ Learn(c, order) /\ visiting' = visiting \ {c}
      /\ UNCHANGED <<strategy, parents, turn, orders, overrides, walk, stack, called, reached>>
  BY DEF MergeEnds
<1>2. /\ Merging(parents, Known, c, q, r) /\ Ready(parents, Known, c) /\ r \in Orders
      /\ parents \in Hierarchy /\ Sound(parents, Known) /\ c \in Class
      /\ \A p \in ToSet(parents[c]) : p \in DOMAIN Known
  BY <1>1 DEF MroInv, Merging, Ready
<1>3. /\ Working(parents, Known, Work, visiting) /\ Coming(Known, Work, Subject)
      /\ Work = Append(stack, WorkFrame(c, TRUE))
  BY <1>1 DEF MroInv, Work
<1>4. stack \in Seq(Frames) /\ WorkFrame(c, TRUE) \in Frames
  BY <1>2 DEF MroInv, MroTypeOK, Frames, WorkFrame
<1>5. /\ Work # <<>> /\ Last(Work) = WorkFrame(c, TRUE) /\ Front(Work) = stack
      /\ Last(Work).merge /\ Last(Work).class = c
  <2>1. Work # <<>> /\ Last(Work) = WorkFrame(c, TRUE) /\ Front(Work) = stack
    BY <1>3, <1>4, StackOps
  <2> QED
    BY <2>1 DEF WorkFrame
<1>6. c \notin DOMAIN Known
  BY <1>2, <1>3, <1>5, TopToMerge, ReadyIsAcyclic
<1>7. Right(parents, c, order, Known)
  <2>1. CASE done
    <3>1. Linearizes(parents, c, r, Known)
      BY <1>2, <2>1, MergingSucceeds
    <3> QED
      BY <1>2, <2>1, <3>1, NoOrderIsNone DEF Right
  <2>2. CASE ~done
    <3>1. PICK j \in DOMAIN q : q[j] # <<>>
      BY <2>2
    <3>2. ~\E o \in Orders : IsC3In(parents, c, o, Known)
      BY <1>1, <1>2, <3>1, MergingFails
    <3> QED
      BY <1>2, <2>2, <3>2 DEF Right, Impossible
  <2> QED
    BY <2>1, <2>2
<1> HIDE DEF order, c
<1>8. CacheOK' /\ DOMAIN Known' = DOMAIN Known \union {c}
  BY <1>1, <1>2, <1>6, <1>7, LearnKeeps
<1>9. Working(parents, Known', stack', visiting') /\ Coming(Known', stack', Subject)
  <2>1. visiting' \in SUBSET visiting /\ c \notin visiting'
    BY <1>1
  <2>2. Working(parents, Known', Front(Work), visiting') /\ Coming(Known', Front(Work), Subject)
    <3>1. DOMAIN Known' = DOMAIN Known \union {Last(Work).class} /\ Last(Work).class \notin visiting'
      BY <1>5, <1>8, <2>1
    <3>2. Work # <<>> /\ Working(parents, Known, Work, visiting) /\ Coming(Known, Work, Subject)
      BY <1>3, <1>5
    <3> QED
      BY <1>2, <2>1, <3>1, <3>2, FrameDone
  <2> QED
    BY <1>1, <1>5, <2>2
<1> QED
  BY <1>1, <1>8, <1>9, C3Goes

-----------------------------------------------------------------------------
(* Steps of the pass and of the call *)

Walks == [frontier : Orders, found : Orders, next : Orders, depth : 0..MaxAncestorDepth]

\* A step that linearizes nothing.
LEMMA PlainStep ==
  ASSUME MroInv, UNCHANGED <<cache, parents>>, MroTypeOK',
         doing' \in {"next", "gather", "levels", "called"}, doing' = "gather" => turn' \in Class,
         doing' = "levels" => walk'.found # <<>> /\ (walk'.next # <<>> => walk'.depth < MaxAncestorDepth)
  PROVE  MroInv'
BY DEF MroInv

\* The linearization begins.
LEMMA LinearizeStarts ==
  ASSUME MroInv, UNCHANGED <<cache, parents>>, MroTypeOK', NEW c \in Class, Subject' = c,
         Linearize(c, Known')
  PROVE  MroInv'
<1>1. doing' = "c3" /\ visiting' = {} /\ stack' = IF c \in DOMAIN Known' THEN <<>> ELSE <<WorkFrame(c, FALSE)>>
  BY DEF Linearize
<1>2. Work' = stack'
  BY <1>1 DEF Work
<1>3. Working(parents, Known', <<>>, {})
  BY DEF Working
<1>4. Working(parents, Known', <<WorkFrame(c, FALSE)>>, {}) /\ Coming(Known', <<WorkFrame(c, FALSE)>>, c)
  <2> DEFINE x == WorkFrame(c, FALSE)
             w == <<x>>
  <2>1. x \in Frames /\ ~x.merge /\ x.class = c
    BY DEF WorkFrame, Frames
  <2> HIDE DEF x
  <2>2. w \in Seq(Frames) /\ Len(w) = 1 /\ w[1] = x
    BY <2>1
  <2> HIDE DEF w
  <2>3. \A i \in 1..Len(w) : ~w[i].merge
    BY <2>1, <2>2
  <2>4. 1 \in 1..Len(w) /\ w[1].class = c
    BY <2>1, <2>2
  <2>5. Coming(Known', w, c)
    BY <2>4 DEF Coming
  <2>6. Working(parents, Known', w, {})
    BY <2>2, <2>3 DEF Working
  <2> QED
    BY <2>5, <2>6 DEF w, x
<1>5. Coming(Known', stack', c) /\ Working(parents, Known', stack', visiting')
  BY <1>1, <1>3, <1>4 DEF Coming
<1> QED
  BY <1>1, <1>2, <1>5 DEF MroInv

LEMMA UnseenIs ==
  ASSUME MroInv, NEW c \in Class, NEW seen
  PROVE  Unseen(c, seen) \in Orders
<1>1. parents[c] \in Orders
  BY ParentsAreClasses DEF MroInv
<1> QED
  BY <1>1, KeptIs DEF Unseen

\* The head and the rest of a frontier.
LEMMA FrontierIs ==
  ASSUME NEW s \in Orders, s # <<>>
  PROVE  Head(s) \in Class /\ Tail(s) \in Orders
BY HeadTailProperties DEF Orders

LEMMA ComputeNextClassStep == MroInv /\ ComputeNextClass => MroInv'
<1> SUFFICES ASSUME MroInv, ComputeNextClass PROVE MroInv'
  OBVIOUS
<1>1. /\ doing = "next" /\ turn \in Class /\ turn \in Nat /\ turn <= Classes /\ Classes \in Nat
      /\ UNCHANGED <<strategy, parents, orders, overrides, cache, stack, visiting, merging, called, reached>>
  BY MroAssumption DEF ComputeNextClass, MroInv, MroTypeOK, Class
<1>2. CASE turn' = turn + 1 /\ UNCHANGED <<doing, walk>>
  <2>1. turn' \in 1..(Classes + 1)
    BY <1>1, <1>2
  <2>2. MroTypeOK'
    BY <1>1, <1>2, <2>1 DEF MroInv, MroTypeOK
  <2> QED
    BY <1>1, <1>2, <2>2, PlainStep
<1>3. CASE doing' = "gather" /\ walk' = [NoWalk EXCEPT !.frontier = parents[turn]] /\ UNCHANGED turn
  <2>1. parents[turn] \in Orders /\ <<>> \in Orders /\ 0 \in 0..MaxAncestorDepth
    BY <1>1, MroAssumption, ParentsAreClasses DEF MroInv, Orders
  <2>2. walk' \in Walks
    BY <1>3, <2>1 DEF NoWalk, Walks
  <2>3. MroTypeOK'
    BY <1>1, <1>3, <2>2 DEF MroInv, MroTypeOK, Walks
  <2> QED
    BY <1>1, <1>3, <2>3, PlainStep
<1> QED
  BY <1>2, <1>3 DEF ComputeNextClass

LEMMA GatherOnStep == MroInv /\ GatherOn => MroInv'
<1> SUFFICES ASSUME MroInv, GatherOn PROVE MroInv'
  OBVIOUS
<1> DEFINE c == Head(walk.frontier)
           seen == Append(walk.found, c)
<1>1. /\ doing = "gather" /\ walk.frontier # <<>> /\ doing' = doing
      /\ walk' = IF c \in ToSet(walk.found)
                   THEN [walk EXCEPT !.frontier = Tail(@)]
                   ELSE [walk EXCEPT !.frontier = Tail(@) \o Unseen(c, seen), !.found = seen]
      /\ UNCHANGED <<strategy, parents, turn, orders, overrides, cache, stack, visiting, merging, called, reached>>
  BY DEF GatherOn
<1>2. walk \in Walks /\ walk.frontier \in Orders /\ walk.found \in Orders
  BY DEF MroInv, MroTypeOK, Walks
<1>3. c \in Class /\ Tail(walk.frontier) \in Orders
  BY <1>1, <1>2, FrontierIs
<1>4. seen \in Orders
  BY <1>2, <1>3, AppendProperties DEF Orders
<1>5. Tail(walk.frontier) \o Unseen(c, seen) \in Orders
  BY <1>3, UnseenIs, ConcatProperties DEF Orders
<1> HIDE DEF c, seen
<1>6. walk' \in Walks
  BY <1>1, <1>2, <1>3, <1>4, <1>5 DEF Walks
<1>7. MroTypeOK'
  BY <1>1, <1>6 DEF MroInv, MroTypeOK, Walks
<1> QED
  BY <1>1, <1>7, PlainStep DEF MroInv

\* What Decide writes.
LEMMA DecideTypes ==
  ASSUME MroInv, NEW order \in Orders, turn \in Class, Decide(order)
  PROVE  /\ orders' \in [Class -> Orders] /\ overrides' \subseteq Class \X Method \X Class
         /\ turn' \in 1..(Classes + 1) /\ doing' = "next"
<1>1. orders' \in [Class -> Orders] /\ doing' = "next"
  BY DEF Decide, MroInv, MroTypeOK
<1>2. turn' \in 1..(Classes + 1)
  BY MroAssumption DEF Decide, Class
<1>3. ASSUME NEW definers \in Method, Cardinality(definers \intersect ToSet(order)) > 1
      PROVE  First(order, definers) \in Class
  <2>1. definers \intersect ToSet(order) # {}
    BY <1>3, FS_EmptySet
  <2> QED
    BY <2>1, FirstIs
<1>4. overrides' \subseteq Class \X Method \X Class
  <2> SUFFICES ASSUME NEW o \in overrides', o \notin overrides PROVE o \in Class \X Method \X Class
    BY DEF MroInv, MroTypeOK
  <2>1. PICK definers \in {d \in Method : turn \notin d /\ Cardinality(d \intersect ToSet(order)) > 1} :
          o = <<turn, definers, First(order, definers)>>
    BY DEF Decide
  <2> QED
    BY <1>3, <2>1
<1> QED
  BY <1>1, <1>2, <1>4

LEMMA GatherEndsStep == MroInv /\ GatherEnds => MroInv'
<1> SUFFICES ASSUME MroInv, GatherEnds PROVE MroInv'
  OBVIOUS
<1>1. /\ doing = "gather" /\ turn \in Class /\ turn <= Classes
      /\ UNCHANGED <<strategy, parents, walk, cache, merging, called, reached>>
  BY MroAssumption DEF GatherEnds, MroInv, Class
<1>2. CASE Linearize(turn, cache["pass"]) /\ UNCHANGED <<turn, orders, overrides>>
  <2>1. Known' = cache["pass"] /\ Subject' = turn
    BY <1>1, <1>2 DEF Known, User, Subject
  <2>2. stack' \in Seq(Frames) /\ visiting' = {} /\ doing' = "c3"
    <3>1. <<>> \in Seq(Frames) /\ <<WorkFrame(turn, FALSE)>> \in Seq(Frames)
      BY <1>1 DEF WorkFrame, Frames
    <3> QED
      BY <1>2, <3>1 DEF Linearize
  <2>3. MroTypeOK'
    BY <1>1, <1>2, <2>2 DEF MroInv, MroTypeOK, Frames
  <2> QED
    BY <1>1, <1>2, <2>1, <2>3, LinearizeStarts
<1>3. CASE Decide(walk.found) /\ UNCHANGED <<stack, visiting>>
  <2>1. walk.found \in Orders
    BY DEF MroInv, MroTypeOK
  <2>2. /\ orders' \in [Class -> Orders] /\ overrides' \subseteq Class \X Method \X Class
        /\ turn' \in 1..(Classes + 1) /\ doing' = "next"
    BY <1>1, <1>3, <2>1, DecideTypes
  <2>3. MroTypeOK'
    BY <1>1, <1>3, <2>2 DEF MroInv, MroTypeOK
  <2> QED
    BY <1>1, <2>2, <2>3, PlainStep
<1> QED
  BY <1>2, <1>3 DEF GatherEnds

\* When nothing is left of the work, the class has its answer.
LEMMA Answered ==
  ASSUME MroInv, doing = "c3", stack = <<>>
  PROVE  /\ Subject \in Class /\ Subject \in DOMAIN Known
         /\ Known[Subject] # NoOrder => Known[Subject] \in Orders
<1>1. Subject \in Class /\ Coming(Known, <<>>, Subject)
  BY DEF MroInv, Work
<1>2. Subject \in DOMAIN Known
  BY <1>1 DEF Coming
<1>3. Sound(parents, Known)
  BY DEF MroInv, Known, User
<1> QED
  BY <1>1, <1>2, <1>3, CacheTypes

LEMMA ClassEndsStep == MroInv /\ ClassEnds => MroInv'
<1> SUFFICES ASSUME MroInv, ClassEnds PROVE MroInv'
  OBVIOUS
<1> DEFINE c3 == cache["pass"][turn]
           order == IF c3 # NoOrder THEN c3 ELSE walk.found
<1>1. /\ doing = "c3" /\ stack = <<>> /\ turn <= Classes /\ Decide(order)
      /\ UNCHANGED <<strategy, parents, walk, cache, stack, visiting, merging, called, reached>>
  BY DEF ClassEnds
<1>2. Subject = turn /\ Known = cache["pass"]
  BY <1>1 DEF Subject, Known, User
<1>3. turn \in Class /\ (c3 # NoOrder => c3 \in Orders)
  BY <1>1, <1>2, Answered
<1>4. order \in Orders
  BY <1>3 DEF MroInv, MroTypeOK
<1> HIDE DEF order
<1>5. /\ orders' \in [Class -> Orders] /\ overrides' \subseteq Class \X Method \X Class
      /\ turn' \in 1..(Classes + 1) /\ doing' = "next"
  BY <1>1, <1>3, <1>4, DecideTypes
<1>6. MroTypeOK'
  BY <1>1, <1>5 DEF MroInv, MroTypeOK
<1> QED
  BY <1>1, <1>5, <1>6, PlainStep

\* The call begins to walk.
LEMMA LevelsStart ==
  ASSUME MroInv, NEW c \in Class, StartLevels(c)
  PROVE  walk' \in Walks /\ walk'.found # <<>> /\ walk'.next = <<>> /\ doing' = "levels"
<1>1. parents[c] \in Orders /\ <<>> \in Orders /\ <<c>> \in Orders /\ <<c>> # <<>> /\ 0 \in 0..MaxAncestorDepth
  BY MroAssumption, ParentsAreClasses DEF MroInv, Orders
<1>2. walk' = [frontier |-> parents[c], found |-> <<c>>, next |-> <<>>, depth |-> 0] /\ doing' = "levels"
  BY DEF StartLevels, NoWalk
<1> QED
  BY <1>1, <1>2 DEF Walks

LEMMA CallStep == MroInv /\ Call => MroInv'
<1> SUFFICES ASSUME MroInv, Call PROVE MroInv'
  OBVIOUS
<1>1. /\ turn > Classes
      /\ UNCHANGED <<strategy, parents, turn, orders, overrides, cache, merging, reached>>
  BY DEF Call
<1>2. PICK c \in Class :
        /\ called' = c
        /\ IF strategy = "c3" THEN Linearize(c, cache["call"]) /\ UNCHANGED walk
                              ELSE StartLevels(c) /\ UNCHANGED <<stack, visiting>>
  BY DEF Call
<1>3. called' \in 0..Classes /\ turn \in Nat /\ Classes \in Nat /\ ~(turn <= Classes)
  BY <1>1, <1>2, MroAssumption DEF MroInv, MroTypeOK, Class
<1>4. CASE Linearize(c, cache["call"]) /\ UNCHANGED walk
  <2>1. Known' = cache["call"] /\ Subject' = c
    BY <1>1, <1>2, <1>3 DEF Known, User, Subject
  <2>2. stack' \in Seq(Frames) /\ visiting' = {} /\ doing' = "c3"
    <3>1. <<>> \in Seq(Frames) /\ <<WorkFrame(c, FALSE)>> \in Seq(Frames)
      BY DEF WorkFrame, Frames
    <3> QED
      BY <1>4, <3>1 DEF Linearize
  <2>3. MroTypeOK'
    BY <1>1, <1>3, <1>4, <2>2 DEF MroInv, MroTypeOK, Frames
  <2> QED
    BY <1>1, <1>4, <2>1, <2>3, LinearizeStarts
<1>5. CASE StartLevels(c) /\ UNCHANGED <<stack, visiting>>
  <2>1. walk' \in Walks /\ walk'.found # <<>> /\ walk'.next = <<>> /\ doing' = "levels"
    BY <1>5, LevelsStart
  <2>2. MroTypeOK'
    BY <1>1, <1>3, <1>5, <2>1 DEF MroInv, MroTypeOK, Walks
  <2> QED
    BY <1>1, <2>1, <2>2, PlainStep
<1> QED
  BY <1>2, <1>4, <1>5

LEMMA CallLinearizedStep == MroInv /\ CallLinearized => MroInv'
<1> SUFFICES ASSUME MroInv, CallLinearized PROVE MroInv'
  OBVIOUS
<1> DEFINE c3 == cache["call"][called]
<1>1. /\ doing = "c3" /\ stack = <<>> /\ turn > Classes
      /\ IF c3 # NoOrder THEN doing' = "called" /\ reached' = c3 /\ UNCHANGED walk
                         ELSE StartLevels(called) /\ UNCHANGED reached
      /\ UNCHANGED <<strategy, parents, turn, orders, overrides, cache, stack, visiting, merging, called>>
  BY DEF CallLinearized
<1>2. ~(turn <= Classes)
  BY <1>1, MroAssumption DEF MroInv, MroTypeOK
<1>3. Subject = called /\ Known = cache["call"]
  BY <1>2 DEF Subject, Known, User
<1>4. called \in Class /\ (c3 # NoOrder => c3 \in Orders)
  BY <1>1, <1>3, Answered
<1>5. CASE c3 # NoOrder
  <2>1. MroTypeOK'
    BY <1>1, <1>4, <1>5 DEF MroInv, MroTypeOK
  <2> QED
    BY <1>1, <1>5, <2>1, PlainStep
<1>6. CASE c3 = NoOrder
  <2>1. walk' \in Walks /\ walk'.found # <<>> /\ walk'.next = <<>> /\ doing' = "levels"
    BY <1>1, <1>4, <1>6, LevelsStart
  <2>2. MroTypeOK'
    BY <1>1, <1>6, <2>1 DEF MroInv, MroTypeOK, Walks
  <2> QED
    BY <1>1, <2>1, <2>2, PlainStep
<1> QED
  BY <1>5, <1>6

LEMMA LevelOnStep == MroInv /\ LevelOn => MroInv'
<1> SUFFICES ASSUME MroInv, LevelOn PROVE MroInv'
  OBVIOUS
<1> DEFINE c == Head(walk.frontier)
           seen == Append(walk.found, c)
<1>1. /\ doing = "levels" /\ walk.frontier # <<>> /\ walk.depth < MaxAncestorDepth /\ doing' = doing
      /\ walk' = IF c \in ToSet(walk.found)
                   THEN [walk EXCEPT !.frontier = Tail(@)]
                   ELSE [walk EXCEPT !.frontier = Tail(@), !.found = seen, !.next = @ \o Unseen(c, seen)]
      /\ UNCHANGED <<strategy, parents, turn, orders, overrides, cache, stack, visiting, merging, called, reached>>
  BY DEF LevelOn
<1>2. walk \in Walks /\ walk.frontier \in Orders /\ walk.found \in Orders /\ walk.next \in Orders
  BY DEF MroInv, MroTypeOK, Walks
<1>3. c \in Class /\ Tail(walk.frontier) \in Orders /\ walk.found # <<>>
  BY <1>1, <1>2, FrontierIs DEF MroInv
<1>4. seen \in Orders /\ seen # <<>>
  BY <1>2, <1>3, AppendProperties DEF Orders
<1>5. walk.next \o Unseen(c, seen) \in Orders
  BY <1>2, <1>3, UnseenIs, ConcatProperties DEF Orders
<1> HIDE DEF c, seen
<1>6. walk' \in Walks /\ walk'.found # <<>> /\ walk'.depth < MaxAncestorDepth
  BY <1>1, <1>2, <1>3, <1>4, <1>5 DEF Walks
<1>7. MroTypeOK'
  BY <1>1, <1>6 DEF MroInv, MroTypeOK, Walks
<1> QED
  BY <1>1, <1>6, <1>7, PlainStep

LEMMA LevelEndsStep == MroInv /\ LevelEnds => MroInv'
<1> SUFFICES ASSUME MroInv, LevelEnds PROVE MroInv'
  OBVIOUS
<1>1. /\ doing = "levels"
      /\ UNCHANGED <<strategy, parents, turn, orders, overrides, cache, stack, visiting, merging, called>>
  BY DEF LevelEnds
<1>2. /\ walk \in Walks /\ walk.frontier \in Orders /\ walk.found \in Orders /\ walk.next \in Orders
      /\ walk.depth \in 0..MaxAncestorDepth
      /\ walk.found # <<>> /\ (walk.next # <<>> => walk.depth < MaxAncestorDepth)
  BY <1>1 DEF MroInv, MroTypeOK, Walks
<1>3. CASE /\ walk.next # <<>>
           /\ walk' = [walk EXCEPT !.frontier = walk.next, !.next = <<>>, !.depth = @ + 1]
           /\ UNCHANGED <<doing, reached>>
  <2>1. walk.depth + 1 \in 0..MaxAncestorDepth /\ <<>> \in Orders
    BY <1>2, <1>3, MroAssumption DEF Orders
  <2>2. walk' \in Walks /\ walk'.found # <<>> /\ walk'.next = <<>>
    BY <1>2, <1>3, <2>1 DEF Walks
  <2>3. MroTypeOK'
    BY <1>1, <1>3, <2>2 DEF MroInv, MroTypeOK, Walks
  <2> QED
    BY <1>1, <1>3, <2>2, <2>3, PlainStep
<1>4. CASE doing' = "called" /\ reached' = Tail(walk.found) /\ UNCHANGED walk
  <2>1. reached' \in Orders
    BY <1>2, <1>4, FrontierIs
  <2>2. MroTypeOK'
    BY <1>1, <1>4, <2>1 DEF MroInv, MroTypeOK
  <2> QED
    BY <1>1, <1>4, <2>2, PlainStep
<1> QED
  BY <1>3, <1>4 DEF LevelEnds

-----------------------------------------------------------------------------
(* Theorems about the resolution of methods *)

\* Nothing computed, of any hierarchy.
LEMMA IdleMroInv ==
  ASSUME strategy \in {"c3", "bfs"}, parents \in Hierarchy, MroIdle
  PROVE  MroInv
<1>1. Classes \in Nat /\ MaxAncestorDepth \in Nat
  BY MroAssumption
<1>2. <<>> \in Orders /\ <<>> \in Seq(Orders) /\ <<>> \in Seq(Frames)
  BY DEF Orders
<1>3. turn \in 1..(Classes + 1) /\ called \in 0..Classes /\ doing = "next"
  BY <1>1 DEF MroIdle
<1>4. walk \in Walks /\ merging \in [class : 0..Classes, seqs : Seq(Orders), order : Orders]
  BY <1>1, <1>2 DEF MroIdle, NoWalk, NoMerge, Walks
<1>5. DOMAIN cache = {"pass", "call"} /\ \A u \in {"pass", "call"} : cache[u] = <<>>
  BY DEF MroIdle
<1>6. orders \in [Class -> Orders] /\ overrides = {} /\ stack = <<>> /\ visiting = {} /\ reached = <<>>
  BY <1>2 DEF MroIdle
<1>7. MroTypeOK
  BY <1>2, <1>3, <1>4, <1>5, <1>6 DEF MroTypeOK, Walks, Frames
<1>8. \A u \in {"pass", "call"} : Sound(parents, cache[u])
  <2>1. Sound(parents, <<>>)
    BY DEF Sound
  <2> QED
    BY <1>5, <2>1
<1> QED
  BY <1>3, <1>7, <1>8 DEF MroInv

LEMMA InitMroInv == MroInit => MroInv
<1> SUFFICES ASSUME MroInit PROVE MroInv
  OBVIOUS
<1>1. /\ strategy \in {"c3", "bfs"} /\ MroIdle
      /\ parents \in [Class -> {s \in SeqOf(Class, MaxParents) : IsInjective(s)}]
      /\ \A c \in Class : c \notin ToSet(parents[c])
  BY DEF MroInit
<1>2. SeqOf(Class, MaxParents) \subseteq Orders
  BY MroAssumption DEF SeqOf, Orders
<1>3. \A c \in Class : parents[c] \in Orders /\ IsInjective(parents[c])
  BY <1>1, <1>2
<1>4. parents \in [Class -> Orders]
  BY <1>1, <1>3
<1>5. parents \in Hierarchy
  BY <1>1, <1>3, <1>4 DEF Hierarchy
<1> QED
  BY <1>1, <1>5, IdleMroInv

LEMMA NextMroInv == MroInv /\ [MroNext]_mroVars => MroInv'
<1> SUFFICES ASSUME MroInv, [MroNext]_mroVars PROVE MroInv'
  OBVIOUS
<1>1. CASE UNCHANGED mroVars
  BY <1>1 DEF mroVars, MroInv, MroTypeOK, Known, User, Subject, Work
<1>2. CASE MroNext
  BY <1>2, ComputeNextClassStep, GatherOnStep, GatherEndsStep, ClassEndsStep, EnterStep, MergeBeginsStep,
     MergeOnStep, MergeEndsStep, CallStep, CallLinearizedStep, LevelOnStep, LevelEndsStep DEF MroNext
<1> QED
  BY <1>1, <1>2

LEMMA InvImpliesC3 == MroInv => C3Correct
<1> SUFFICES ASSUME MroInv, NEW u \in {"pass", "call"}, NEW c \in DOMAIN cache[u]
             PROVE  LET known == cache[u]
                        impossible ==
                          \/ Cyclic(c)
                          \/ \E p \in ToSet(parents[c]) : known[p] = NoOrder
                          \/ ~\E order \in SetToSeqs(Up(c)) : IsC3(c, order, known)
                    IN IF impossible THEN known[c] = NoOrder
                                     ELSE known[c] # NoOrder /\ IsC3(c, known[c], known)
  BY DEF C3Correct
<1> DEFINE k == cache[u]
<1>1. Sound(parents, k) /\ parents \in Hierarchy
  BY DEF MroInv
<1>2. c \in Class /\ IF k[c] = NoOrder THEN Impossible(parents, c, k) ELSE Linearizes(parents, c, k[c], k)
  BY <1>1 DEF Sound
<1>3. Up(c) = UpOf(parents, c) /\ (Cyclic(c) <=> CyclicIn(parents, c))
  BY UpIs
<1>4. UpOf(parents, c) \in SUBSET Class
  BY <1>1, <1>2, UpOfIsLeast
<1>5. \A order : IsC3(c, order, k) <=> IsC3In(parents, c, order, k)
  BY <1>3 DEF IsC3, IsC3In
<1>6. \A order : order \in SetToSeqs(Up(c)) <=> order \in Orders /\ IsInjective(order) /\ ToSet(order) = UpOf(parents, c)
  BY <1>3, <1>4, ListsOf
<1>7. (\E order \in SetToSeqs(Up(c)) : IsC3(c, order, k)) <=> \E order \in Orders : IsC3In(parents, c, order, k)
  BY <1>5, <1>6 DEF IsC3In
<1> HIDE DEF k
<1>8. CASE k[c] = NoOrder
  <2>1. \/ Cyclic(c)
        \/ \E p \in ToSet(parents[c]) : k[p] = NoOrder
        \/ ~\E order \in SetToSeqs(Up(c)) : IsC3(c, order, k)
    BY <1>2, <1>3, <1>7, <1>8 DEF Impossible
  <2> QED
    BY <1>8, <2>1 DEF k
<1>9. CASE k[c] # NoOrder
  <2>1. Linearizes(parents, c, k[c], k)
    BY <1>2, <1>9
  <2>2. ~Cyclic(c) /\ (\A p \in ToSet(parents[c]) : k[p] # NoOrder) /\ IsC3(c, k[c], k)
    BY <1>3, <1>5, <2>1 DEF Linearizes
  <2>3. \E order \in SetToSeqs(Up(c)) : IsC3(c, order, k)
    BY <1>7, <2>1 DEF Linearizes
  <2> QED
    BY <1>9, <2>2, <2>3 DEF k
<1> QED
  BY <1>8, <1>9

\* The inductive invariant of the two passes holds in every reachable state.
THEOREM MroInvHolds == MroSpec => []MroInv
<1>1. MroInit => MroInv
  BY InitMroInv
<1>2. MroInv /\ [MroNext]_mroVars => MroInv'
  BY NextMroInv
<1> QED
  BY <1>1, <1>2, PTL DEF MroSpec

\* Whatever hierarchy it works on and from whichever cache it starts, c3Linearize
\* answers null exactly where no C3 order exists, and else a C3 order.
THEOREM C3IsCorrect == MroSpec => []C3Correct
<1>1. MroInv => C3Correct
  BY InvImpliesC3
<1> QED
  BY <1>1, MroInvHolds, PTL

-----------------------------------------------------------------------------
(* One answer: the merge takes, of the sequences, the first class that none holds back *)

\* In every sequence all that is before x is taken already.
Free(os, P, x) ==
  \A k \in DOMAIN os : \A m \in DOMAIN os[k] : os[k][m] = x => \A l \in 1..(m - 1) : os[k][l] \in P

Offers(os, P, i, x) == x \in ToSet(os[i]) /\ x \notin P /\ Free(os, P, x)

Picked(os, P, x) ==
  \E i \in DOMAIN os : Offers(os, P, i, x) /\ \A j \in 1..(i - 1) : \A y : ~Offers(os, P, j, y)

TakenBefore(r, n) == {r[m] : m \in 1..(n - 1)}

\* Each member of r is the one that the merge picks when it has taken those before.
Greedy(os, r) == \A n \in DOMAIN r : Picked(os, TakenBefore(r, n), r[n])

GreedyCache(h, k) == \A c \in DOMAIN k : k[c] # NoOrder => Greedy(Sequences(h, k, c), k[c])

LEMMA OneIsPicked ==
  ASSUME NEW os, DOMAIN os \in SUBSET (Nat \ {0}), \A i \in DOMAIN os : os[i] \in Orders,
         NEW P, NEW x, NEW y, Picked(os, P, x), Picked(os, P, y)
  PROVE  x = y
<1>1. PICK i \in DOMAIN os : Offers(os, P, i, x) /\ \A j \in 1..(i - 1) : \A z : ~Offers(os, P, j, z)
  BY DEF Picked
<1>2. PICK k \in DOMAIN os : Offers(os, P, k, y) /\ \A j \in 1..(k - 1) : \A z : ~Offers(os, P, j, z)
  BY DEF Picked
<1>3. i = k
  <2>1. i \in Nat \ {0} /\ k \in Nat \ {0}
    OBVIOUS
  <2>2. CASE i < k
    <3>1. i \in 1..(k - 1)
      BY <2>1, <2>2
    <3> QED
      BY <1>1, <1>2, <3>1
  <2>3. CASE k < i
    <3>1. k \in 1..(i - 1)
      BY <2>1, <2>3
    <3> QED
      BY <1>1, <1>2, <3>1
  <2> QED
    BY <2>1, <2>2, <2>3
<1>4. PICK m \in 1..Len(os[i]) : os[i][m] = x
  BY <1>1, SetOf DEF Offers, Orders
<1>5. PICK l \in 1..Len(os[i]) : os[i][l] = y
  BY <1>2, <1>3, SetOf DEF Offers, Orders
<1>6. Len(os[i]) \in Nat /\ DOMAIN os[i] = 1..Len(os[i])
  BY LenProperties DEF Orders
<1>7. x \notin P /\ y \notin P /\ Free(os, P, x) /\ Free(os, P, y)
  BY <1>1, <1>2 DEF Offers
<1>8. ~(m < l)
  <2> SUFFICES ASSUME m < l PROVE FALSE
    OBVIOUS
  <2>1. m \in 1..(l - 1) /\ l \in DOMAIN os[i]
    BY <1>6
  <2> QED
    BY <1>4, <1>5, <1>7, <2>1 DEF Free
<1>9. ~(l < m)
  <2> SUFFICES ASSUME l < m PROVE FALSE
    OBVIOUS
  <2>1. l \in 1..(m - 1) /\ m \in DOMAIN os[i]
    BY <1>6
  <2> QED
    BY <1>4, <1>5, <1>7, <2>1 DEF Free
<1>10. m = l
  BY <1>6, <1>8, <1>9
<1> QED
  BY <1>4, <1>5, <1>10

\* Two results with the same members are the same.
LEMMA GreedyPrefix ==
  ASSUME NEW os, DOMAIN os \in SUBSET (Nat \ {0}), \A i \in DOMAIN os : os[i] \in Orders,
         NEW r \in Orders, NEW s \in Orders, IsInjective(r), ToSet(r) = ToSet(s),
         Greedy(os, r), Greedy(os, s)
  PROVE  Len(r) <= Len(s) /\ \A n \in 1..Len(r) : r[n] = s[n]
<1>1. /\ Len(r) \in Nat /\ Len(s) \in Nat /\ DOMAIN r = 1..Len(r) /\ DOMAIN s = 1..Len(s)
      /\ \A x \in ToSet(s) : \E i \in 1..Len(s) : s[i] = x
      /\ \A i \in 1..Len(r) : r[i] \in ToSet(r)
  BY SetOf DEF Orders
<1> DEFINE D == {n \in 1..Len(r) : n > Len(s) \/ r[n] # s[n]}
<1>2. SUFFICES ASSUME D # {} PROVE FALSE
  <2>1. \A n \in 1..Len(r) : n <= Len(s) /\ r[n] = s[n]
    BY <1>1, <1>2
  <2>2. Len(r) = 0 \/ Len(r) \in 1..Len(r)
    BY <1>1
  <2> QED
    BY <1>1, <2>1, <2>2
<1>3. PICK n \in D : \A m \in D : n <= m
  <2>1. D \in SUBSET Nat
    OBVIOUS
  <2> HIDE DEF D
  <2> QED
    BY <1>2, <2>1, LeastOf
<1>4. n \in Nat /\ n \in 1..Len(r) /\ (n > Len(s) \/ r[n] # s[n])
  OBVIOUS
<1>5. \A m \in 1..(n - 1) : m \in 1..Len(r) /\ m \in 1..Len(s) /\ r[m] = s[m]
  <2> SUFFICES ASSUME NEW m \in 1..(n - 1) PROVE m \in 1..Len(r) /\ m \in 1..Len(s) /\ r[m] = s[m]
    OBVIOUS
  <2>1. m \in 1..Len(r) /\ ~(n <= m)
    BY <1>1, <1>4
  <2>2. m \notin D
    <3> HIDE DEF D
    <3> QED
      BY <1>3, <2>1
  <2>3. m <= Len(s) /\ r[m] = s[m]
    BY <1>1, <2>1, <2>2
  <2> QED
    BY <1>1, <2>1, <2>3
<1> HIDE DEF D
<1>6. n <= Len(s)
  <2> SUFFICES ASSUME n > Len(s) PROVE FALSE
    BY <1>1, <1>4
  <2>1. r[n] \in ToSet(s)
    BY <1>1, <1>4
  <2>2. PICK i \in 1..Len(s) : s[i] = r[n]
    BY <1>1, <2>1
  <2>3. i \in 1..(n - 1) /\ i # n
    BY <1>1, <1>4
  <2>4. r[i] = r[n] /\ i \in 1..Len(r)
    BY <1>5, <2>2, <2>3
  <2> QED
    BY <1>1, <1>4, <2>3, <2>4 DEF IsInjective
<1>7. TakenBefore(r, n) = TakenBefore(s, n)
  BY <1>5 DEF TakenBefore
<1>8. n \in DOMAIN r /\ n \in DOMAIN s
  BY <1>1, <1>4, <1>6
<1>9. Picked(os, TakenBefore(r, n), r[n]) /\ Picked(os, TakenBefore(r, n), s[n])
  BY <1>7, <1>8 DEF Greedy
<1>10. r[n] = s[n]
  BY <1>9, OneIsPicked
<1> QED
  BY <1>1, <1>4, <1>6, <1>10

LEMMA GreedyIsOne ==
  ASSUME NEW os, DOMAIN os \in SUBSET (Nat \ {0}), \A i \in DOMAIN os : os[i] \in Orders,
         NEW r \in Orders, NEW s \in Orders, IsInjective(r), IsInjective(s), ToSet(r) = ToSet(s),
         Greedy(os, r), Greedy(os, s)
  PROVE  r = s
<1>1. Len(r) <= Len(s) /\ \A n \in 1..Len(r) : r[n] = s[n]
  BY GreedyPrefix
<1>2. Len(s) <= Len(r)
  BY GreedyPrefix
<1>3. Len(r) = Len(s)
  BY <1>1, <1>2, LenProperties DEF Orders
<1> QED
  BY <1>1, <1>3, SeqEqual DEF Orders

\* A good head is what its sequence offers.
LEMMA GoodHeadIsOffered ==
  ASSUME NEW os, NEW q, NEW r, DOMAIN q = DOMAIN os,
         \A j \in DOMAIN q : q[j] \in Orders /\ os[j] \in Orders /\ Taken(q[j], os[j], r)
  PROVE  /\ \A g \in GoodHeads(q) : Offers(os, ToSet(r), g, q[g][1])
         /\ \A g \in DOMAIN q : \A y : Offers(os, ToSet(r), g, y) => g \in GoodHeads(q)
<1>1. ASSUME NEW j \in DOMAIN q
      PROVE  /\ Len(q[j]) \in Nat /\ Len(os[j]) \in Nat /\ Len(q[j]) <= Len(os[j])
             /\ DOMAIN os[j] = 1..Len(os[j]) /\ DOMAIN q[j] = 1..Len(q[j])
             /\ q[j] # <<>> <=> Len(q[j]) # 0
             /\ \A i \in 1..Len(q[j]) : q[j][i] = os[j][i + (Len(os[j]) - Len(q[j]))]
             /\ \A i \in 1..Len(os[j]) : os[j][i] \in ToSet(r) <=> i <= Len(os[j]) - Len(q[j])
             /\ q[j] # <<>> => ToSet(Tail(q[j])) = {q[j][i] : i \in 2..Len(q[j])}
  <2>1. q[j] \in Seq(Class) /\ os[j] \in Seq(Class) /\ Taken(q[j], os[j], r)
    BY DEF Orders
  <2>2. /\ Len(q[j]) \in Nat /\ Len(os[j]) \in Nat
        /\ DOMAIN os[j] = 1..Len(os[j]) /\ DOMAIN q[j] = 1..Len(q[j])
    BY <2>1, LenProperties
  <2>3. q[j] # <<>> <=> Len(q[j]) # 0
    BY <2>1, EmptySeq
  <2>4. q[j] # <<>> => ToSet(Tail(q[j])) = {q[j][i] : i \in 2..Len(q[j])}
    BY <2>1, TailIs
  <2> QED
    BY <2>1, <2>2, <2>3, <2>4 DEF Taken
<1>2. ASSUME NEW j \in DOMAIN q, NEW m \in 1..Len(os[j]), os[j][m] \notin ToSet(r)
      PROVE  LET n == m - (Len(os[j]) - Len(q[j])) IN n \in 1..Len(q[j]) /\ q[j][n] = os[j][m]
  <2> DEFINE d == Len(os[j]) - Len(q[j])
  <2>1. d \in Nat /\ m \in Nat /\ ~(m <= d) /\ m <= d + Len(q[j])
    BY <1>1, <1>2
  <2>2. m - d \in 1..Len(q[j]) /\ (m - d) + d = m
    <3> HIDE DEF d
    <3> QED
      BY <1>1, <2>1
  <2>3. q[j][m - d] = os[j][(m - d) + d]
    BY <1>1, <2>2
  <2> QED
    BY <2>2, <2>3
<1>3. ASSUME NEW g \in GoodHeads(q) PROVE Offers(os, ToSet(r), g, q[g][1])
  <2> DEFINE x == q[g][1]
             d == Len(os[g]) - Len(q[g])
  <2>1. /\ g \in DOMAIN q /\ q[g] # <<>>
        /\ \A j \in DOMAIN q : q[j] # <<>> => x \notin ToSet(Tail(q[j]))
    BY DEF GoodHeads
  <2>2. d \in Nat /\ 1 + d \in 1..Len(os[g]) /\ ~(1 + d <= d) /\ 1 \in 1..Len(q[g])
    BY <1>1, <2>1
  <2>3. x = os[g][1 + d] /\ x \notin ToSet(r) /\ x \in ToSet(os[g])
    <3>1. x = os[g][1 + d]
      BY <1>1, <2>1, <2>2
    <3>2. os[g][1 + d] \notin ToSet(r)
      BY <1>1, <2>1, <2>2
    <3>3. os[g][1 + d] \in ToSet(os[g])
      BY <1>1, <2>1, <2>2, SetOf DEF Orders
    <3> QED
      BY <3>1, <3>2, <3>3
  <2> HIDE DEF x, d
  <2>4. ASSUME NEW j \in DOMAIN os, NEW m \in DOMAIN os[j], os[j][m] = x, NEW l \in 1..(m - 1)
        PROVE  os[j][l] \in ToSet(r)
    <3> SUFFICES ASSUME os[j][l] \notin ToSet(r) PROVE FALSE
      OBVIOUS
    <3> DEFINE e == Len(os[j]) - Len(q[j])
    <3>1. m \in 1..Len(os[j]) /\ l \in 1..Len(os[j]) /\ l < m
      BY <1>1
    <3>2. m - e \in 1..Len(q[j]) /\ q[j][m - e] = x /\ l - e \in 1..Len(q[j])
      BY <1>2, <2>3, <2>4, <3>1
    <3>3. e \in Nat
      BY <1>1
    <3> HIDE DEF e
    <3>4. m - e \in 2..Len(q[j])
      BY <1>1, <3>1, <3>2, <3>3
    <3>5. q[j] # <<>>
      BY <1>1, <3>2
    <3> QED
      BY <1>1, <2>1, <3>2, <3>4, <3>5
  <2>5. Free(os, ToSet(r), x)
    BY <2>4 DEF Free
  <2> QED
    BY <2>3, <2>5 DEF Offers, x
<1>4. ASSUME NEW g \in DOMAIN q, NEW y, Offers(os, ToSet(r), g, y) PROVE g \in GoodHeads(q)
  <2>1. y \in ToSet(os[g]) /\ y \notin ToSet(r) /\ Free(os, ToSet(r), y)
    BY <1>4 DEF Offers
  <2>2. PICK m \in 1..Len(os[g]) : os[g][m] = y
    BY <2>1, SetOf DEF Orders
  <2>3. ASSUME NEW j \in DOMAIN q, NEW n \in 1..Len(os[j]), os[j][n] = y
        PROVE  n - (Len(os[j]) - Len(q[j])) = 1 /\ q[j] # <<>> /\ q[j][1] = y
    <3> DEFINE e == Len(os[j]) - Len(q[j])
    <3>1. n - e \in 1..Len(q[j]) /\ q[j][n - e] = y
      BY <1>2, <2>1, <2>3
    <3>2. e \in Nat /\ e <= Len(os[j]) /\ Len(q[j]) = Len(os[j]) - e
      BY <1>1
    <3>3. \A i \in 1..Len(os[j]) : os[j][i] \in ToSet(r) <=> i <= e
      BY <1>1
    <3>4. \A l \in 1..(n - 1) : os[j][l] \in ToSet(r)
      <4>1. n \in DOMAIN os[j]
        BY <1>1
      <4> QED
        BY <2>1, <2>3, <4>1 DEF Free
    <3> HIDE DEF e
    <3>5. n - e = 1
      <4> SUFFICES ASSUME n - e # 1 PROVE FALSE
        OBVIOUS
      <4>1. e + 1 \in 1..(n - 1) /\ e + 1 \in 1..Len(os[j]) /\ ~(e + 1 <= e)
        BY <1>1, <3>1, <3>2
      <4> QED
        BY <3>3, <3>4, <4>1
    <3>6. q[j] # <<>>
      BY <1>1, <3>1
    <3> QED
      BY <3>1, <3>5, <3>6 DEF e
  <2>4. q[g] # <<>> /\ q[g][1] = y
    BY <2>2, <2>3
  <2>5. ASSUME NEW j \in DOMAIN q, q[j] # <<>>, y \in ToSet(Tail(q[j])) PROVE FALSE
    <3>0. ToSet(Tail(q[j])) = {q[j][i] : i \in 2..Len(q[j])}
      BY <1>1, <2>5
    <3>1. PICK i \in 2..Len(q[j]) : q[j][i] = y
      BY <2>5, <3>0
    <3> DEFINE e == Len(os[j]) - Len(q[j])
    <3>2. e \in Nat /\ e <= Len(os[j]) /\ Len(q[j]) = Len(os[j]) - e
      BY <1>1
    <3>3. i \in 1..Len(q[j]) /\ i >= 2 /\ i \in Nat
      BY <1>1
    <3>4. q[j][i] = os[j][i + e]
      BY <1>1, <3>3
    <3>5. i + e \in 1..Len(os[j]) => (i + e) - e = 1
      BY <2>3, <3>1, <3>4
    <3> HIDE DEF e
    <3>6. i + e \in 1..Len(os[j]) /\ (i + e) - e # 1
      BY <1>1, <3>2, <3>3
    <3> QED
      BY <3>5, <3>6
  <2> QED
    BY <2>4, <2>5 DEF GoodHeads
<1> QED
  BY <1>3, <1>4

\* The merge picks greedily.
LEMMA GreedyGoesOn ==
  ASSUME NEW h, NEW k, NEW c, NEW q, NEW r, Merging(h, k, c, q, r), Greedy(Sequences(h, k, c), r),
         NEW g \in GoodHeads(q), \A i \in GoodHeads(q) : g <= i
  PROVE  Greedy(Sequences(h, k, c), Append(r, q[g][1]))
<1> DEFINE os == Sequences(h, k, c)
           x == q[g][1]
           w == Append(r, x)
<1>1. /\ DOMAIN q = DOMAIN os /\ DOMAIN q = 1..Len(q) /\ Len(q) \in Nat /\ r \in Seq(Class)
      /\ \A j \in DOMAIN q : q[j] \in Orders /\ os[j] \in Orders /\ Taken(q[j], os[j], r)
  BY MergingIs DEF Merging, Orders
<1>2. x \in Class
  BY MergingGoesOn
<1> HIDE DEF os, x
<1>3. /\ w \in Seq(Class) /\ Len(w) = Len(r) + 1 /\ w[Len(r) + 1] = x /\ \A i \in 1..Len(r) : w[i] = r[i]
  BY <1>1, <1>2, AtTheEnd
<1>4. Len(r) \in Nat /\ DOMAIN r = 1..Len(r) /\ ToSet(r) = {r[i] : i \in 1..Len(r)} /\ DOMAIN w = 1..(Len(r) + 1)
  BY <1>1, <1>3, LenProperties DEF ToSet
<1> HIDE DEF w
<1>5. Offers(os, ToSet(r), g, x) /\ \A i \in DOMAIN q : \A y : Offers(os, ToSet(r), i, y) => i \in GoodHeads(q)
  BY <1>1, GoodHeadIsOffered DEF x
<1>6. Picked(os, ToSet(r), x)
  <2>1. g \in DOMAIN os /\ g \in Nat
    BY <1>1 DEF GoodHeads
  <2>2. ASSUME NEW j \in 1..(g - 1), NEW y, Offers(os, ToSet(r), j, y) PROVE FALSE
    <3>1. j \in DOMAIN q /\ ~(g <= j)
      BY <1>1, <2>1
    <3> QED
      BY <1>5, <2>2, <3>1
  <2> QED
    BY <1>5, <2>1, <2>2 DEF Picked
<1>7. ASSUME NEW n \in DOMAIN w PROVE Picked(os, TakenBefore(w, n), w[n])
  <2>1. CASE n \in 1..Len(r)
    <3>1. \A m \in 1..(n - 1) : m \in 1..Len(r)
      BY <1>4, <2>1
    <3>2. TakenBefore(w, n) = TakenBefore(r, n) /\ w[n] = r[n]
      BY <1>3, <2>1, <3>1 DEF TakenBefore
    <3>3. Picked(os, TakenBefore(r, n), r[n])
      BY <1>4, <2>1 DEF Greedy, os
    <3> QED
      BY <3>2, <3>3
  <2>2. CASE n = Len(r) + 1
    <3>1. (Len(r) + 1) - 1 = Len(r)
      BY <1>4
    <3>2. TakenBefore(w, n) = ToSet(r)
      BY <1>3, <1>4, <2>2, <3>1 DEF TakenBefore
    <3> QED
      BY <1>3, <1>6, <2>2, <3>2
  <2> QED
    BY <1>4, <2>1, <2>2
<1> QED
  BY <1>7 DEF Greedy, w, x, os

\* The sequences of a class depend on the entries of its parents only.
LEMMA SameSequences ==
  ASSUME NEW h \in Hierarchy, NEW c \in Class, NEW k, NEW k2, \A p \in ToSet(h[c]) : k2[p] = k[p]
  PROVE  Sequences(h, k2, c) = Sequences(h, k, c)
<1>1. \A i \in DOMAIN h[c] : h[c][i] \in ToSet(h[c])
  BY DEF ToSet
<1>2. [i \in DOMAIN h[c] |-> <<h[c][i]>> \o k2[h[c][i]]] = [i \in DOMAIN h[c] |-> <<h[c][i]>> \o k[h[c][i]]]
  BY <1>1
<1> QED
  BY <1>2 DEF Sequences

\* An entry is added: none, or what the merge picked.
LEMMA LearnedIsGreedy ==
  ASSUME NEW h \in Hierarchy, NEW k, Sound(h, k), GreedyCache(h, k), NEW c \in Class, NEW k2,
         DOMAIN k2 = DOMAIN k \union {c}, \A x \in DOMAIN k : k2[x] = k[x],
         k2[c] # NoOrder => ToSet(h[c]) \subseteq DOMAIN k /\ Greedy(Sequences(h, k, c), k2[c])
  PROVE  GreedyCache(h, k2)
<1>1. ASSUME NEW x \in DOMAIN k2, k2[x] # NoOrder PROVE Greedy(Sequences(h, k2, x), k2[x])
  <2>1. CASE x \in DOMAIN k
    <3>1. k2[x] = k[x] /\ k[x] # NoOrder /\ x \in Class
      BY <1>1, <2>1 DEF Sound
    <3>2. ToSet(h[x]) \subseteq DOMAIN k
      BY <2>1, <3>1 DEF Sound, Linearizes
    <3>3. Sequences(h, k2, x) = Sequences(h, k, x)
      BY <3>1, <3>2, SameSequences
    <3> QED
      BY <2>1, <3>1, <3>3 DEF GreedyCache
  <2>2. CASE x = c
    <3>1. ToSet(h[c]) \subseteq DOMAIN k /\ Greedy(Sequences(h, k, c), k2[c])
      BY <1>1, <2>2
    <3>2. Sequences(h, k2, c) = Sequences(h, k, c)
      BY <3>1, SameSequences
    <3> QED
      BY <2>2, <3>1, <3>2
  <2> QED
    BY <2>1, <2>2
<1> QED
  BY <1>1 DEF GreedyCache

LEMMA ClassesAreFinite ==
  IsFiniteSet(Class) /\ \A S \in SUBSET Class : IsFiniteSet(S) /\ Cardinality(S) \in Nat
<1>1. IsFiniteSet(Class)
  <2>1. Classes \in Int
    BY MroAssumption
  <2> QED
    BY <2>1, FS_Interval DEF Class
<1> QED
  BY <1>1, FS_Subset, FS_CardinalityType

\* Two caches that are right and greedy give a class the same answer.
LEMMA OneAnswer ==
  ASSUME NEW h \in Hierarchy, NEW k, NEW l, Sound(h, k), Sound(h, l), GreedyCache(h, k), GreedyCache(h, l),
         NEW c \in DOMAIN k \intersect DOMAIN l
  PROVE  k[c] = l[c]
<1> DEFINE D == {x \in DOMAIN k \intersect DOMAIN l : k[x] # l[x]}
           size(x) == Cardinality(UpOf(h, x))
           N == {size(x) : x \in D}
<1> SUFFICES ASSUME D # {} PROVE FALSE
  OBVIOUS
<1>1. \A x \in DOMAIN k \intersect DOMAIN l : x \in Class /\ UpOf(h, x) \in SUBSET Class /\ size(x) \in Nat
  BY UpOfIsLeast, ClassesAreFinite DEF Sound
<1>2. PICK x \in D : \A y \in D : size(x) <= size(y)
  <2>1. N \in SUBSET Nat /\ N # {}
    BY <1>1
  <2> HIDE DEF N
  <2>2. PICK n \in N : \A m \in N : n <= m
    BY <2>1, LeastOf
  <2> QED
    BY <2>2 DEF N
<1>3. x \in DOMAIN k /\ x \in DOMAIN l /\ k[x] # l[x] /\ x \in Class
  BY <1>1
<1>4. /\ IF k[x] = NoOrder THEN Impossible(h, x, k) ELSE Linearizes(h, x, k[x], k)
      /\ IF l[x] = NoOrder THEN Impossible(h, x, l) ELSE Linearizes(h, x, l[x], l)
  BY <1>3 DEF Sound
<1>5. ~CyclicIn(h, x)
  BY <1>3, <1>4 DEF Linearizes
<1>6. ToSet(h[x]) \subseteq DOMAIN k /\ ToSet(h[x]) \subseteq DOMAIN l
  BY <1>4, <1>5 DEF Impossible, Linearizes
<1>7. ASSUME NEW p \in ToSet(h[x]) PROVE l[p] = k[p]
  <2>1. p \in UpOf(h, x) /\ UpOf(h, p) \subseteq UpOf(h, x) /\ p \notin UpOf(h, p)
    BY <1>3, <1>5, UpOfIsLeast DEF CyclicIn
  <2>2. UpOf(h, x) \in SUBSET Class /\ IsFiniteSet(UpOf(h, x)) /\ UpOf(h, p) # UpOf(h, x)
    BY <1>3, <2>1, UpOfIsLeast, ClassesAreFinite
  <2>3. size(p) <= size(x) /\ size(p) # size(x)
    BY <2>1, <2>2, FS_Subset
  <2>4. p \in DOMAIN k \intersect DOMAIN l /\ size(p) \in Nat /\ size(x) \in Nat
    BY <1>1, <1>3, <1>6
  <2>5. p \notin D
    <3>1. ~(size(x) <= size(p))
      BY <2>3, <2>4
    <3> HIDE DEF D, size
    <3> QED
      BY <1>2, <3>1
  <2> QED
    BY <2>4, <2>5
<1> HIDE DEF D, size
<1>8. \A order : IsC3In(h, x, order, l) <=> IsC3In(h, x, order, k)
  BY <1>7 DEF IsC3In
<1>9. CASE k[x] = NoOrder
  <2>1. Impossible(h, x, l)
    BY <1>4, <1>5, <1>6, <1>7, <1>8, <1>9 DEF Impossible
  <2>2. Linearizes(h, x, l[x], l)
    BY <1>3, <1>4, <1>9
  <2> QED
    BY <2>1, <2>2 DEF Impossible, Linearizes
<1>10. CASE l[x] = NoOrder
  <2>1. Impossible(h, x, k)
    BY <1>4, <1>5, <1>6, <1>7, <1>8, <1>10 DEF Impossible
  <2>2. Linearizes(h, x, k[x], k)
    BY <1>3, <1>4, <1>10
  <2> QED
    BY <2>1, <2>2 DEF Impossible, Linearizes
<1>11. CASE k[x] # NoOrder /\ l[x] # NoOrder
  <2> DEFINE os == Sequences(h, k, x)
  <2>1. Linearizes(h, x, k[x], k) /\ Linearizes(h, x, l[x], l)
    BY <1>4, <1>11
  <2>2. /\ k[x] \in Orders /\ l[x] \in Orders /\ IsInjective(k[x]) /\ IsInjective(l[x])
        /\ ToSet(k[x]) = ToSet(l[x])
    BY <2>1 DEF Linearizes, IsC3In
  <2>3. Sequences(h, l, x) = os
    BY <1>3, <1>7, SameSequences
  <2>4. Greedy(os, k[x]) /\ Greedy(os, l[x])
    BY <1>3, <1>11, <2>3 DEF GreedyCache
  <2>5. Ready(h, k, x)
    BY <1>3, <2>1 DEF Ready, Linearizes
  <2>6. DOMAIN os = 1..(Len(h[x]) + 1) /\ \A i \in DOMAIN os : os[i] \in Orders
    BY <2>5, SequencesAre, SequencesCover
  <2> HIDE DEF os
  <2>7. DOMAIN os \in SUBSET (Nat \ {0})
    BY <2>6, <1>3, ParentsAreClasses
  <2>8. k[x] = l[x]
    BY <2>2, <2>4, <2>6, <2>7, GreedyIsOne
  <2> QED
    BY <1>3, <2>8
<1> QED
  BY <1>9, <1>10, <1>11

-----------------------------------------------------------------------------
(* Walks breadth first *)

PlaceIn(f, a) == CHOOSE i \in DOMAIN f : f[i] = a

Found(f, c) == ToSet(f) \union {c}

\* When the walk f from c comes to a: c first, what it did not find last.
Rank(f, c, a) == IF a = c THEN 0 ELSE IF a \in ToSet(f) THEN PlaceIn(f, a) ELSE Len(f) + 1

\* Each class that was found is the parent of one that was found before it.
Sourced(h, c, f) ==
  \A x \in ToSet(f) \ {c} : \E a \in Found(f, c) : x \in ToSet(h[a]) /\ Rank(f, c, a) < Rank(f, c, x)

\* x before y, a parent of b, because x is the parent of a class before b, or of b and before y there.
ByLevel(h, c, f) ==
  \A x \in ToSet(f) \ {c}, b \in Found(f, c) : \A y \in ToSet(h[b]) : Rank(f, c, x) < Rank(f, c, y) =>
    \E a \in Found(f, c) :
      /\ x \in ToSet(h[a])
      /\ Rank(f, c, a) < Rank(f, c, b) \/ (a = b /\ PlaceIn(h[b], x) < PlaceIn(h[b], y))

\* f is the beginning of a walk breadth first from c.
BreadthFirst(h, c, f) ==
  /\ f \in Orders /\ IsInjective(f) /\ ToSet(f) \ {c} \subseteq UpOf(h, c)
  /\ Sourced(h, c, f) /\ ByLevel(h, c, f)

\* The frontier w holds parents of the classes src, in the order of the walk, and all
\* parents that were not found yet.
Listed(h, c, f, w, src) ==
  /\ \A i \in DOMAIN w : w[i] \in ToSet(h[src[i]])
  /\ \A i, j \in DOMAIN w : i < j =>
       Rank(f, c, src[i]) < Rank(f, c, src[j])
         \/ (src[i] = src[j] /\ PlaceIn(h[src[i]], w[i]) < PlaceIn(h[src[i]], w[j]))
  /\ \A b \in Found(f, c) : \A v \in ToSet(h[b]) :
       v \notin Found(f, c) => \E i \in DOMAIN w : w[i] = v /\ src[i] = b

Walked(h, c, f, w) ==
  BreadthFirst(h, c, f) /\ w \in Orders /\ \E src \in [DOMAIN w -> Found(f, c)] : Listed(h, c, f, w, src)

LEMMA PlaceIs ==
  ASSUME NEW f \in Orders, IsInjective(f)
  PROVE  /\ \A a \in ToSet(f) : PlaceIn(f, a) \in 1..Len(f) /\ f[PlaceIn(f, a)] = a
         /\ \A i \in 1..Len(f) : PlaceIn(f, f[i]) = i
         /\ \A a, b \in ToSet(f) : PlaceIn(f, a) = PlaceIn(f, b) => a = b
<1>1. /\ Len(f) \in Nat /\ DOMAIN f = 1..Len(f) /\ \A a \in ToSet(f) : \E i \in 1..Len(f) : f[i] = a
      /\ \A i \in 1..Len(f) : f[i] \in ToSet(f)
  BY SetOf DEF Orders
<1>2. \A a \in ToSet(f) : PlaceIn(f, a) \in 1..Len(f) /\ f[PlaceIn(f, a)] = a
  BY <1>1 DEF PlaceIn
<1>3. \A i \in 1..Len(f) : PlaceIn(f, f[i]) = i
  BY <1>1, <1>2 DEF IsInjective
<1>4. \A a, b \in ToSet(f) : PlaceIn(f, a) = PlaceIn(f, b) => a = b
  <2> SUFFICES ASSUME NEW a \in ToSet(f), NEW b \in ToSet(f), PlaceIn(f, a) = PlaceIn(f, b) PROVE a = b
    OBVIOUS
  <2>1. f[PlaceIn(f, a)] = a /\ f[PlaceIn(f, b)] = b
    BY <1>2
  <2> QED
    BY <2>1
<1> QED
  BY <1>2, <1>3, <1>4

LEMMA RankIs ==
  ASSUME NEW f \in Orders, IsInjective(f), NEW c
  PROVE  /\ Len(f) \in Nat /\ Rank(f, c, c) = 0
         /\ \A a : Rank(f, c, a) \in Nat /\ (a # c => Rank(f, c, a) > 0)
         /\ \A a \in Found(f, c) : Rank(f, c, a) <= Len(f)
         /\ \A a : a \notin Found(f, c) => Rank(f, c, a) = Len(f) + 1
         /\ \A a, b \in Found(f, c) : Rank(f, c, a) = Rank(f, c, b) => a = b
<1>1. Len(f) \in Nat
  BY LenProperties DEF Orders
<1>2. \A a \in ToSet(f) : PlaceIn(f, a) \in 1..Len(f)
  BY PlaceIs
<1>3. \A a, b \in ToSet(f) : PlaceIn(f, a) = PlaceIn(f, b) => a = b
  BY PlaceIs
<1>4. Rank(f, c, c) = 0
  BY DEF Rank
<1>5. \A a : Rank(f, c, a) \in Nat /\ (a # c => Rank(f, c, a) > 0)
  BY <1>1, <1>2 DEF Rank
<1>6. \A a \in Found(f, c) : Rank(f, c, a) <= Len(f)
  BY <1>1, <1>2 DEF Rank, Found
<1>7. \A a : a \notin Found(f, c) => Rank(f, c, a) = Len(f) + 1
  BY DEF Rank, Found
<1>8. \A a, b \in Found(f, c) : Rank(f, c, a) = Rank(f, c, b) => a = b
  <2> SUFFICES ASSUME NEW a \in Found(f, c), NEW b \in Found(f, c), Rank(f, c, a) = Rank(f, c, b) PROVE a = b
    OBVIOUS
  <2>1. CASE a = c \/ b = c
    BY <1>4, <1>5, <2>1
  <2>2. CASE a # c /\ b # c
    BY <1>3, <2>2 DEF Rank, Found
  <2> QED
    BY <2>1, <2>2
<1> QED
  BY <1>1, <1>4, <1>5, <1>6, <1>7, <1>8

\* A class is found.
LEMMA RankGrows ==
  ASSUME NEW f \in Orders, IsInjective(f), NEW c, NEW x \in Class, x \notin ToSet(f)
  PROVE  LET g == Append(f, x) IN
         /\ g \in Orders /\ IsInjective(g) /\ ToSet(g) = ToSet(f) \union {x}
         /\ Found(g, c) = Found(f, c) \union {x}
         /\ \A a \in Found(f, c) : Rank(g, c, a) = Rank(f, c, a)
         /\ x # c => Rank(g, c, x) = Len(f) + 1
         /\ \A a : a \notin Found(g, c) => Rank(g, c, a) = Len(f) + 2
<1> DEFINE g == Append(f, x)
<1>1. /\ g \in Orders /\ Len(g) = Len(f) + 1
      /\ g[Len(f) + 1] = x /\ \A i \in 1..Len(f) : g[i] = f[i]
      /\ ToSet(g) = ToSet(f) \union {x}
  BY AtTheEnd DEF Orders
<1> HIDE DEF g
<1>2. Len(f) \in Nat /\ DOMAIN f = 1..Len(f) /\ DOMAIN g = 1..(Len(f) + 1) /\ \A i \in 1..Len(f) : f[i] \in ToSet(f)
  BY <1>1, SetOf DEF Orders
<1>3. IsInjective(g)
  <2> SUFFICES ASSUME NEW i \in 1..(Len(f) + 1), NEW j \in 1..(Len(f) + 1), g[i] = g[j] PROVE i = j
    BY <1>2 DEF IsInjective
  <2>1. \A n \in 1..(Len(f) + 1) : n \in 1..Len(f) \/ n = Len(f) + 1
    BY <1>2
  <2>2. CASE i \in 1..Len(f) /\ j \in 1..Len(f)
    BY <1>1, <1>2, <2>2 DEF IsInjective
  <2>3. CASE i = Len(f) + 1 \/ j = Len(f) + 1
    BY <1>1, <1>2, <2>1, <2>3
  <2> QED
    BY <2>1, <2>2, <2>3
<1>4. Found(g, c) = Found(f, c) \union {x}
  BY <1>1 DEF Found
<1>5. ASSUME NEW a \in ToSet(f) PROVE PlaceIn(g, a) = PlaceIn(f, a)
  <2>1. PlaceIn(f, a) \in 1..Len(f) /\ f[PlaceIn(f, a)] = a
    BY PlaceIs
  <2>2. g[PlaceIn(f, a)] = a /\ PlaceIn(f, a) \in 1..Len(g)
    BY <1>1, <1>2, <2>1
  <2> QED
    BY <1>1, <1>3, <2>2, PlaceIs
<1>6. PlaceIn(g, x) = Len(f) + 1
  <2>1. Len(f) + 1 \in 1..Len(g) /\ g[Len(f) + 1] = x
    BY <1>1, <1>2
  <2> QED
    BY <1>1, <1>3, <2>1, PlaceIs
<1>7. \A a \in Found(f, c) : Rank(g, c, a) = Rank(f, c, a)
  BY <1>1, <1>5 DEF Rank, Found
<1>8. x # c => Rank(g, c, x) = Len(f) + 1
  BY <1>1, <1>6 DEF Rank
<1>9. \A a : a \notin Found(g, c) => Rank(g, c, a) = Len(f) + 2
  <2>1. (Len(f) + 1) + 1 = Len(f) + 2
    BY <1>2
  <2> QED
    BY <1>1, <2>1 DEF Rank, Found
<1> QED
  BY <1>1, <1>3, <1>4, <1>7, <1>8, <1>9 DEF g

\* A walk begins with the parents of its class; the class itself may count as found.
LEMMA WalkBegins ==
  ASSUME NEW h \in Hierarchy, NEW c \in Class, NEW f \in {<<>>, <<c>>}
  PROVE  Walked(h, c, f, h[c])
<1>1. f \in Orders /\ IsInjective(f) /\ ToSet(f) \ {c} = {} /\ Found(f, c) = {c}
  <2>1. CASE f = <<>>
    <3>1. <<>> \in Orders /\ IsInjective(<<>>) /\ ToSet(<<>>) = {}
      BY DEF Orders, IsInjective, ToSet
    <3> QED
      BY <2>1, <3>1 DEF Found
  <2>2. CASE f = <<c>>
    <3>1. <<c>> \in Orders /\ DOMAIN <<c>> = {1} /\ <<c>>[1] = c
      BY DEF Orders
    <3> DEFINE t == <<c>>
    <3>2. t \in Orders /\ DOMAIN t = {1} /\ t[1] = c
      BY <3>1
    <3> HIDE DEF t
    <3>3. IsInjective(t) /\ ToSet(t) = {c}
      BY <3>2 DEF IsInjective, ToSet
    <3> QED
      BY <2>2, <3>2, <3>3 DEF Found, t
  <2> QED
    BY <2>1, <2>2
<1>2. BreadthFirst(h, c, f)
  BY <1>1 DEF BreadthFirst, Sourced, ByLevel
<1>3. /\ h[c] \in Orders /\ IsInjective(h[c]) /\ DOMAIN h[c] = 1..Len(h[c]) /\ Len(h[c]) \in Nat
      /\ \A v \in ToSet(h[c]) : \E i \in DOMAIN h[c] : h[c][i] = v
      /\ \A i \in DOMAIN h[c] : h[c][i] \in ToSet(h[c])
  BY ParentsAreClasses DEF ToSet
<1> DEFINE w == h[c]
           src == [i \in DOMAIN w |-> c]
<1>4. src \in [DOMAIN w -> Found(f, c)] /\ \A i \in DOMAIN w : src[i] = c
  BY <1>1
<1>5. \A i \in 1..Len(w) : PlaceIn(w, w[i]) = i
  BY <1>3, PlaceIs
<1> HIDE DEF src
<1>6. Listed(h, c, f, w, src)
  <2>1. \A i \in DOMAIN w : w[i] \in ToSet(h[src[i]])
    BY <1>3, <1>4
  <2>2. \A i, j \in DOMAIN w : i < j => src[i] = src[j] /\ PlaceIn(h[src[i]], w[i]) < PlaceIn(h[src[i]], w[j])
    BY <1>3, <1>4, <1>5
  <2>3. \A b \in Found(f, c) : \A v \in ToSet(h[b]) : \E i \in DOMAIN w : w[i] = v /\ src[i] = b
    BY <1>1, <1>3, <1>4
  <2> QED
    BY <2>1, <2>2, <2>3 DEF Listed
<1> QED
  BY <1>2, <1>3, <1>4, <1>6 DEF Walked

\* What was found before is dropped.
LEMMA WalkSkips ==
  ASSUME NEW h, NEW c, NEW f, NEW w, Walked(h, c, f, w), w # <<>>, w[1] \in Found(f, c)
  PROVE  Walked(h, c, f, Tail(w))
<1>1. PICK src \in [DOMAIN w -> Found(f, c)] : Listed(h, c, f, w, src)
  BY DEF Walked
<1>2. w \in Seq(Class) /\ BreadthFirst(h, c, f)
  BY DEF Walked, Orders
<1> DEFINE t == Tail(w)
           s == [i \in DOMAIN t |-> src[i + 1]]
<1>3. /\ t \in Seq(Class) /\ Len(t) = Len(w) - 1 /\ Len(w) \in Nat \ {0}
      /\ \A i \in 1..(Len(w) - 1) : t[i] = w[i + 1]
  BY <1>2, TailIs
<1> HIDE DEF t
<1>4. DOMAIN t = 1..(Len(w) - 1) /\ DOMAIN w = 1..Len(w)
  BY <1>2, <1>3, LenProperties
<1>5. \A i \in DOMAIN t : i + 1 \in DOMAIN w /\ t[i] = w[i + 1] /\ s[i] = src[i + 1]
  BY <1>3, <1>4
<1>6. s \in [DOMAIN t -> Found(f, c)]
  BY <1>5
<1> HIDE DEF s
<1>7. Listed(h, c, f, t, s)
  <2>1. \A i \in DOMAIN t : t[i] \in ToSet(h[s[i]])
    BY <1>1, <1>5 DEF Listed
  <2>2. ASSUME NEW i \in DOMAIN t, NEW j \in DOMAIN t, i < j
        PROVE  \/ Rank(f, c, s[i]) < Rank(f, c, s[j])
               \/ s[i] = s[j] /\ PlaceIn(h[s[i]], t[i]) < PlaceIn(h[s[i]], t[j])
    <3>1. i + 1 < j + 1 /\ i + 1 \in DOMAIN w /\ j + 1 \in DOMAIN w
      BY <1>3, <1>4, <1>5, <2>2
    <3>2. \/ Rank(f, c, src[i + 1]) < Rank(f, c, src[j + 1])
          \/ src[i + 1] = src[j + 1] /\ PlaceIn(h[src[i + 1]], w[i + 1]) < PlaceIn(h[src[i + 1]], w[j + 1])
      BY <1>1, <3>1 DEF Listed
    <3> QED
      BY <1>5, <3>2
  <2>3. ASSUME NEW b \in Found(f, c), NEW v \in ToSet(h[b]), v \notin Found(f, c)
        PROVE  \E i \in DOMAIN t : t[i] = v /\ s[i] = b
    <3>1. PICK i \in DOMAIN w : w[i] = v /\ src[i] = b
      BY <1>1, <2>3 DEF Listed
    <3>2. i # 1
      BY <2>3, <3>1
    <3>3. i - 1 \in DOMAIN t /\ (i - 1) + 1 = i
      BY <1>3, <1>4, <3>2
    <3> QED
      BY <1>5, <3>1, <3>3
  <2> QED
    BY <2>1, <2>2, <2>3 DEF Listed
<1> QED
  BY <1>2, <1>3, <1>6, <1>7 DEF Walked, t, Orders

\* A walk that comes back to its class found the parents of it before.
LEMMA WalkComesBack ==
  ASSUME NEW h \in Hierarchy, NEW c \in Class, NEW f, NEW w, Walked(h, c, f, w), w # <<>>, w[1] = c
  PROVE  ToSet(h[c]) \subseteq Found(f, c)
<1> SUFFICES ASSUME NEW v \in ToSet(h[c]), v \notin Found(f, c) PROVE FALSE
  OBVIOUS
<1>1. PICK src \in [DOMAIN w -> Found(f, c)] : Listed(h, c, f, w, src)
  BY DEF Walked
<1>2. c \in Found(f, c)
  BY DEF Found
<1>3. PICK i \in DOMAIN w : w[i] = v /\ src[i] = c
  BY <1>1, <1>2 DEF Listed
<1>4. w \in Seq(Class) /\ DOMAIN w = 1..Len(w) /\ Len(w) \in Nat \ {0}
  BY TailIs, LenProperties DEF Walked, Orders
<1>5. i # 1 /\ 1 \in DOMAIN w /\ 1 < i
  BY <1>2, <1>3, <1>4
<1>6. \/ Rank(f, c, src[1]) < Rank(f, c, c)
      \/ src[1] = c
  BY <1>1, <1>3, <1>5 DEF Listed
<1>7. Rank(f, c, c) = 0 /\ Rank(f, c, src[1]) \in Nat
  BY RankIs DEF Walked, BreadthFirst
<1>8. src[1] = c
  BY <1>6, <1>7
<1>9. c \in ToSet(h[c])
  BY <1>1, <1>5, <1>8 DEF Listed
<1> QED
  BY <1>9, ParentsAreClasses

\* That its class is found changes nothing for a walk.
LEMMA WalkFindsItself ==
  ASSUME NEW h, NEW c \in Class, NEW f, NEW w, Walked(h, c, f, w), c \notin ToSet(f)
  PROVE  Walked(h, c, Append(f, c), w)
<1> DEFINE g == Append(f, c)
<1>1. BreadthFirst(h, c, f) /\ f \in Orders /\ IsInjective(f) /\ w \in Orders
  BY DEF Walked, BreadthFirst
<1>2. /\ g \in Orders /\ IsInjective(g) /\ ToSet(g) = ToSet(f) \union {c}
      /\ \A a \in Found(f, c) : Rank(g, c, a) = Rank(f, c, a)
  BY <1>1, RankGrows
<1> HIDE DEF g
<1>3. ToSet(g) \ {c} = ToSet(f) \ {c} /\ Found(g, c) = Found(f, c)
  BY <1>2 DEF Found
<1>4. \A x \in ToSet(f) \ {c} : x \in Found(f, c)
  BY DEF Found
<1>5. \A x \in Found(f, c) : \A y : Rank(g, c, x) < Rank(g, c, y) => Rank(f, c, x) < Rank(f, c, y)
  <2> SUFFICES ASSUME NEW x \in Found(f, c), NEW y, Rank(g, c, x) < Rank(g, c, y)
               PROVE  Rank(f, c, x) < Rank(f, c, y)
    OBVIOUS
  <2>1. CASE y \in Found(f, c)
    BY <1>2, <2>1
  <2>2. CASE y \notin Found(f, c)
    <3>1. Rank(f, c, x) <= Len(f) /\ Rank(f, c, x) \in Nat /\ Len(f) \in Nat /\ Rank(f, c, y) = Len(f) + 1
      BY <1>1, <2>2, RankIs
    <3> QED
      BY <3>1
  <2> QED
    BY <2>1, <2>2
<1>6. Sourced(h, c, g)
  <2>1. Sourced(h, c, f)
    BY <1>1 DEF BreadthFirst
  <2> QED
    BY <1>2, <1>3, <1>4, <2>1 DEF Sourced
<1>7. ByLevel(h, c, g)
  <2> SUFFICES ASSUME NEW x \in ToSet(f) \ {c}, NEW b \in Found(f, c), NEW y \in ToSet(h[b]),
                      Rank(g, c, x) < Rank(g, c, y)
               PROVE  \E a \in Found(f, c) :
                        /\ x \in ToSet(h[a])
                        /\ Rank(g, c, a) < Rank(g, c, b) \/ (a = b /\ PlaceIn(h[b], x) < PlaceIn(h[b], y))
    BY <1>3 DEF ByLevel
  <2>1. Rank(f, c, x) < Rank(f, c, y)
    BY <1>4, <1>5
  <2>2. PICK a \in Found(f, c) :
          /\ x \in ToSet(h[a])
          /\ Rank(f, c, a) < Rank(f, c, b) \/ (a = b /\ PlaceIn(h[b], x) < PlaceIn(h[b], y))
    BY <1>1, <2>1 DEF BreadthFirst, ByLevel
  <2> QED
    BY <1>2, <2>2
<1>8. BreadthFirst(h, c, g)
  BY <1>1, <1>2, <1>3, <1>6, <1>7 DEF BreadthFirst
<1>9. PICK src \in [DOMAIN w -> Found(f, c)] : Listed(h, c, f, w, src)
  BY DEF Walked
<1>10. Listed(h, c, g, w, src)
  <2>1. \A i \in DOMAIN w : src[i] \in Found(f, c) /\ Rank(g, c, src[i]) = Rank(f, c, src[i])
    BY <1>2
  <2> QED
    BY <1>3, <1>9, <2>1 DEF Listed
<1> QED
  BY <1>1, <1>3, <1>8, <1>9, <1>10 DEF Walked, g

\* A class is found at the head of the frontier.
LEMMA WalkGrows ==
  ASSUME NEW h \in Hierarchy, NEW c \in Class, NEW f, NEW w \in Orders, w # <<>>, BreadthFirst(h, c, f),
         NEW src \in [DOMAIN w -> Found(f, c)], Listed(h, c, f, w, src), w[1] \notin Found(f, c)
  PROVE  BreadthFirst(h, c, Append(f, w[1]))
<1> DEFINE x == w[1]
           g == Append(f, x)
           R(a) == Rank(f, c, a)
           G(a) == Rank(g, c, a)
<1>1. w \in Seq(Class) /\ DOMAIN w = 1..Len(w) /\ Len(w) \in Nat \ {0} /\ 1 \in DOMAIN w /\ x \in Class
  <2>1. w \in Seq(Class)
    BY DEF Orders
  <2>2. Len(w) \in Nat \ {0} /\ DOMAIN w = 1..Len(w) /\ \A i \in 1..Len(w) : w[i] \in Class
    BY <2>1, TailIs, LenProperties
  <2> QED
    BY <2>1, <2>2
<1>2. f \in Orders /\ IsInjective(f) /\ ToSet(f) \ {c} \subseteq UpOf(h, c) /\ Sourced(h, c, f) /\ ByLevel(h, c, f)
  BY DEF BreadthFirst
<1>3. x \notin ToSet(f) /\ x # c
  BY DEF Found
<1>4. /\ g \in Orders /\ IsInjective(g) /\ ToSet(g) = ToSet(f) \union {x}
      /\ Found(g, c) = Found(f, c) \union {x}
      /\ \A a \in Found(f, c) : G(a) = R(a)
      /\ G(x) = Len(f) + 1
      /\ \A a : a \notin Found(g, c) => G(a) = Len(f) + 2
  BY <1>1, <1>2, <1>3, RankGrows
<1>5. /\ Len(f) \in Nat /\ \A a : R(a) \in Nat
      /\ \A a \in Found(f, c) : R(a) <= Len(f)
      /\ \A a : a \notin Found(f, c) => R(a) = Len(f) + 1
  BY <1>2, RankIs
<1>6. \A a \in ToSet(f) \ {c} : a \in Found(f, c)
  BY DEF Found
<1>7. src[1] \in Found(f, c) /\ x \in ToSet(h[src[1]])
  BY <1>1 DEF Listed
<1> HIDE DEF x, g, R, G
<1>8. x \in UpOf(h, c)
  <2>1. CASE src[1] = c
    BY <1>7, <2>1, UpOfIsLeast
  <2>2. CASE src[1] # c
    <3>1. src[1] \in UpOf(h, c)
      BY <1>2, <1>7, <2>2 DEF Found
    <3> QED
      BY <1>7, <3>1, UpOfIsLeast
  <2> QED
    BY <2>1, <2>2
<1>9. \A a \in ToSet(f) \ {c} : \E b \in Found(f, c) : a \in ToSet(h[b]) /\ R(b) < R(a)
  BY <1>2 DEF Sourced, R
<1>10. ASSUME NEW a \in ToSet(g) \ {c} PROVE \E b \in Found(g, c) : a \in ToSet(h[b]) /\ G(b) < G(a)
  <2>1. CASE a \in ToSet(f)
    <3>1. a \in ToSet(f) \ {c}
      BY <2>1
    <3>2. PICK b \in Found(f, c) : a \in ToSet(h[b]) /\ R(b) < R(a)
      BY <1>9, <3>1
    <3> QED
      BY <1>4, <1>6, <3>1, <3>2
  <2>2. CASE a = x
    <3>1. G(src[1]) < G(x)
      BY <1>4, <1>5, <1>7
    <3> QED
      BY <1>4, <1>7, <2>2, <3>1
  <2> QED
    BY <1>4, <2>1, <2>2
<1>11. ASSUME NEW a \in ToSet(g) \ {c}, NEW b \in Found(g, c), NEW y \in ToSet(h[b]), G(a) < G(y)
       PROVE  \E s \in Found(g, c) :
                a \in ToSet(h[s]) /\ (G(s) < G(b) \/ (s = b /\ PlaceIn(h[b], a) < PlaceIn(h[b], y)))
  <2>1. CASE a \in ToSet(f) /\ b \in Found(f, c)
    <3>1. a \in ToSet(f) \ {c} /\ a \in Found(f, c)
      BY <1>6, <2>1
    <3>2. R(a) < R(y)
      <4>1. CASE y \in Found(f, c)
        BY <1>4, <1>11, <3>1, <4>1
      <4>2. CASE y \notin Found(f, c)
        BY <1>5, <3>1, <4>2
      <4> QED
        BY <4>1, <4>2
    <3>3. PICK s \in Found(f, c) : a \in ToSet(h[s]) /\ (R(s) < R(b) \/ (s = b /\ PlaceIn(h[b], a) < PlaceIn(h[b], y)))
      BY <1>2, <2>1, <3>1, <3>2 DEF ByLevel, R
    <3> QED
      BY <1>4, <2>1, <3>3
  <2>2. CASE a \in ToSet(f) /\ b = x
    <3>1. a \in ToSet(f) \ {c} /\ a \in Found(f, c)
      BY <1>6, <2>2
    <3>2. PICK s \in Found(f, c) : a \in ToSet(h[s]) /\ R(s) < R(a)
      BY <1>9, <3>1
    <3>3. G(s) < G(x)
      BY <1>4, <1>5, <3>2
    <3> QED
      BY <1>4, <2>2, <3>2, <3>3
  <2>3. CASE a = x
    <3>1. y \notin Found(g, c)
      <4> SUFFICES ASSUME y \in Found(g, c) PROVE FALSE
        OBVIOUS
      <4>1. CASE y = x
        BY <1>4, <1>5, <1>11, <2>3, <4>1
      <4>2. CASE y \in Found(f, c)
        <5>1. G(y) <= Len(f) /\ G(y) \in Nat
          BY <1>4, <1>5, <4>2
        <5> QED
          BY <1>4, <1>5, <1>11, <2>3, <5>1
      <4> QED
        BY <1>4, <4>1, <4>2
    <3>2. CASE b = x
      <4>1. G(src[1]) < G(x)
        BY <1>4, <1>5, <1>7
      <4> QED
        BY <1>4, <1>7, <2>3, <3>2, <4>1
    <3>3. CASE b \in Found(f, c)
      <4>1. y \notin Found(f, c) /\ y # x
        BY <1>4, <3>1
      <4>2. PICK i \in DOMAIN w : w[i] = y /\ src[i] = b
        BY <3>3, <4>1 DEF Listed
      <4>3. i # 1 /\ 1 < i
        BY <1>1, <4>1, <4>2 DEF x
      <4>4. R(src[1]) < R(b) \/ (src[1] = b /\ PlaceIn(h[src[1]], w[1]) < PlaceIn(h[src[1]], w[i]))
        BY <1>1, <4>2, <4>3 DEF Listed, R
      <4>5. R(src[1]) < R(b) \/ (src[1] = b /\ PlaceIn(h[b], x) < PlaceIn(h[b], y))
        BY <4>2, <4>4 DEF x
      <4> QED
        BY <1>4, <1>7, <2>3, <3>3, <4>5
    <3> QED
      BY <1>4, <3>2, <3>3
  <2> QED
    BY <1>4, <2>1, <2>2, <2>3
<1>12. Sourced(h, c, g)
  BY <1>10 DEF Sourced, G
<1>13. ByLevel(h, c, g)
  BY <1>11 DEF ByLevel, G
<1>14. ToSet(g) \ {c} \subseteq UpOf(h, c)
  BY <1>2, <1>4, <1>8
<1> QED
  BY <1>4, <1>12, <1>13, <1>14 DEF BreadthFirst, g, x

\* Then its own parents, those that were not found, come to the end of the frontier.
LEMMA WalkFinds ==
  ASSUME NEW h \in Hierarchy, NEW c \in Class, NEW f, NEW w, w # <<>>, Walked(h, c, f, w),
         w[1] \notin Found(f, c)
  PROVE  Walked(h, c, Append(f, w[1]), Tail(w) \o Kept(h[w[1]], Class \ ToSet(Append(f, w[1]))))
<1> DEFINE x == w[1]
           g == Append(f, x)
           K == Kept(h[x], Class \ ToSet(g))
           t == Tail(w)
           v == t \o K
<1>1. PICK src \in [DOMAIN w -> Found(f, c)] : Listed(h, c, f, w, src)
  BY DEF Walked
<1>2. w \in Seq(Class) /\ w \in Orders /\ BreadthFirst(h, c, f) /\ f \in Orders /\ IsInjective(f)
  BY DEF Walked, Orders, BreadthFirst
<1>3. DOMAIN w = 1..Len(w) /\ Len(w) \in Nat \ {0} /\ 1 \in DOMAIN w /\ x \in Class
  <2>1. Len(w) \in Nat \ {0} /\ DOMAIN w = 1..Len(w) /\ \A i \in 1..Len(w) : w[i] \in Class
    BY <1>2, TailIs, LenProperties
  <2> QED
    BY <2>1
<1>4. x \notin ToSet(f) /\ x # c
  BY DEF Found
<1>5. BreadthFirst(h, c, g)
  BY <1>1, <1>2, WalkGrows
<1>6. /\ ToSet(g) = ToSet(f) \union {x} /\ Found(g, c) = Found(f, c) \union {x}
      /\ \A a \in Found(f, c) : Rank(g, c, a) = Rank(f, c, a)
      /\ Rank(g, c, x) = Len(f) + 1
  BY <1>2, <1>3, <1>4, RankGrows
<1>7. Len(f) \in Nat /\ \A a \in Found(f, c) : Rank(f, c, a) \in Nat /\ Rank(f, c, a) <= Len(f)
  BY <1>2, RankIs
<1>8. h[x] \in Orders /\ IsInjective(h[x]) /\ DOMAIN h[x] = 1..Len(h[x]) /\ ToSet(h[x]) \subseteq Class
  BY <1>3, ParentsAreClasses
<1>9. K \in Seq(Class) /\ ToSet(K) = ToSet(h[x]) \intersect (Class \ ToSet(g)) /\ Respects(h[x], K)
  BY <1>8, KeptIs DEF Orders
<1>10. /\ t \in Seq(Class) /\ Len(t) = Len(w) - 1 /\ \A i \in 1..(Len(w) - 1) : t[i] = w[i + 1]
  BY <1>2, TailIs
<1> HIDE DEF K, t, x, g
<1>11. Len(K) \in Nat /\ DOMAIN K = 1..Len(K) /\ \A i \in 1..Len(K) : K[i] \in ToSet(K)
  BY <1>9, SetOf
<1> DEFINE n == Len(w) - 1
<1>12. n \in Nat /\ n + 1 = Len(w)
  BY <1>3
<1>13. /\ v \in Seq(Class) /\ Len(v) = n + Len(K)
       /\ \A i \in 1..(n + Len(K)) : v[i] = IF i <= n THEN t[i] ELSE K[i - n]
  <2>1. /\ v \in Seq(Class) /\ Len(v) = Len(t) + Len(K)
        /\ \A i \in 1..(Len(t) + Len(K)) : v[i] = IF i <= Len(t) THEN t[i] ELSE K[i - Len(t)]
    <3>1. t \in Seq(Class) /\ K \in Seq(Class)
      BY <1>9, <1>10
    <3> QED
      BY <3>1, JoinIs
  <2>2. Len(t) = n
    BY <1>10
  <2> HIDE DEF n, v
  <2> QED
    BY <2>1, <2>2
<1> HIDE DEF n, v
<1>14. DOMAIN v = 1..(n + Len(K))
  BY <1>13, LenProperties
<1> DEFINE s == [i \in DOMAIN v |-> IF i <= n THEN src[i + 1] ELSE x]
<1>15. \A i \in 1..n : i \in DOMAIN v /\ i + 1 \in DOMAIN w /\ v[i] = w[i + 1] /\ s[i] = src[i + 1]
  <2> SUFFICES ASSUME NEW i \in 1..n
               PROVE  i \in DOMAIN v /\ i + 1 \in DOMAIN w /\ v[i] = w[i + 1] /\ s[i] = src[i + 1]
    OBVIOUS
  <2>1. i \in 1..(n + Len(K)) /\ i + 1 \in 1..Len(w) /\ i <= n
    BY <1>11, <1>12
  <2>2. t[i] = w[i + 1]
    BY <1>10, <1>12
  <2> QED
    BY <1>3, <1>13, <1>14, <2>1, <2>2
<1>16. \A i \in DOMAIN v : i \notin 1..n => i - n \in DOMAIN K /\ v[i] = K[i - n] /\ s[i] = x
  <2> SUFFICES ASSUME NEW i \in 1..(n + Len(K)), i \notin 1..n
               PROVE  i - n \in DOMAIN K /\ v[i] = K[i - n] /\ s[i] = x
    BY <1>14
  <2>1. ~(i <= n) /\ i - n \in 1..Len(K)
    BY <1>11, <1>12
  <2> QED
    BY <1>11, <1>13, <1>14, <2>1
<1>17. s \in [DOMAIN v -> Found(g, c)]
  <2>1. \A i \in DOMAIN v : s[i] \in Found(g, c)
    BY <1>6, <1>15, <1>16
  <2>2. s = [i \in DOMAIN v |-> s[i]]
    OBVIOUS
  <2> HIDE DEF s
  <2> QED
    BY <2>1, <2>2
<1> HIDE DEF s
<1>18. \A i \in DOMAIN v : v[i] \in ToSet(h[s[i]])
  <2> SUFFICES ASSUME NEW i \in DOMAIN v PROVE v[i] \in ToSet(h[s[i]])
    OBVIOUS
  <2>1. CASE i \in 1..n
    BY <1>1, <1>15, <2>1 DEF Listed
  <2>2. CASE i \notin 1..n
    BY <1>9, <1>11, <1>16, <2>2
  <2> QED
    BY <2>1, <2>2
<1>19. ASSUME NEW i \in DOMAIN v, NEW j \in DOMAIN v, i < j
       PROVE  \/ Rank(g, c, s[i]) < Rank(g, c, s[j])
              \/ s[i] = s[j] /\ PlaceIn(h[s[i]], v[i]) < PlaceIn(h[s[i]], v[j])
  <2>1. CASE i \in 1..n /\ j \in 1..n
    <3>1. i + 1 < j + 1
      BY <1>12, <1>19, <2>1
    <3>2. \/ Rank(f, c, src[i + 1]) < Rank(f, c, src[j + 1])
          \/ src[i + 1] = src[j + 1] /\ PlaceIn(h[src[i + 1]], w[i + 1]) < PlaceIn(h[src[i + 1]], w[j + 1])
      BY <1>1, <1>15, <2>1, <3>1 DEF Listed
    <3>3. src[i + 1] \in Found(f, c) /\ src[j + 1] \in Found(f, c)
      BY <1>15, <2>1
    <3> QED
      BY <1>6, <1>15, <2>1, <3>2, <3>3
  <2>2. CASE i \in 1..n /\ j \notin 1..n
    <3>1. s[i] \in Found(f, c) /\ s[j] = x
      BY <1>15, <1>16, <2>2
    <3>2. Rank(g, c, s[i]) < Rank(g, c, x)
      BY <1>6, <1>7, <3>1
    <3> QED
      BY <3>1, <3>2
  <2>3. CASE i \notin 1..n /\ j \notin 1..n
    <3>1. i - n \in DOMAIN K /\ j - n \in DOMAIN K /\ v[i] = K[i - n] /\ v[j] = K[j - n] /\ s[i] = x /\ s[j] = x
      BY <1>16, <2>3
    <3>2. i - n < j - n
      BY <1>11, <1>12, <1>14, <1>19
    <3>3. PICK a, b \in DOMAIN h[x] : a < b /\ h[x][a] = v[i] /\ h[x][b] = v[j]
      BY <1>9, <3>1, <3>2 DEF Respects
    <3>4. PlaceIn(h[x], v[i]) = a /\ PlaceIn(h[x], v[j]) = b
      BY <1>8, <3>3, PlaceIs
    <3> QED
      BY <3>1, <3>3, <3>4
  <2>4. ~(i \notin 1..n /\ j \in 1..n)
    BY <1>11, <1>12, <1>14, <1>19
  <2> QED
    BY <2>1, <2>2, <2>3, <2>4
<1>20. ASSUME NEW b \in Found(g, c), NEW z \in ToSet(h[b]), z \notin Found(g, c)
       PROVE  \E i \in DOMAIN v : v[i] = z /\ s[i] = b
  <2>1. CASE b \in Found(f, c)
    <3>1. z \notin Found(f, c) /\ z # x
      BY <1>6, <1>20
    <3>2. PICK i \in DOMAIN w : w[i] = z /\ src[i] = b
      BY <1>1, <2>1, <3>1 DEF Listed
    <3>3. i # 1
      BY <3>1, <3>2 DEF x
    <3>4. i - 1 \in 1..n /\ (i - 1) + 1 = i
      BY <1>3, <1>12, <3>3
    <3> QED
      BY <1>15, <3>2, <3>4
  <2>2. CASE b = x
    <3>1. z \in ToSet(K)
      <4>1. z \in Class /\ z \notin ToSet(g)
        BY <1>8, <1>20, <2>2 DEF Found
      <4> QED
        BY <1>9, <1>20, <2>2, <4>1
    <3>2. PICK k \in 1..Len(K) : K[k] = z
      BY <1>9, <3>1, SetOf
    <3>3. n + k \in 1..(n + Len(K)) /\ n + k \notin 1..n /\ (n + k) - n = k
      BY <1>11, <1>12
    <3>4. n + k \in DOMAIN v /\ v[n + k] = z /\ s[n + k] = x
      BY <1>14, <1>16, <3>2, <3>3
    <3> QED
      BY <2>2, <3>4
  <2> QED
    BY <1>6, <2>1, <2>2
<1>21. Listed(h, c, g, v, s)
  BY <1>18, <1>19, <1>20 DEF Listed
<1> QED
  BY <1>5, <1>13, <1>17, <1>21 DEF Walked, Orders, v, t, K, g, x

\* A walk that is through found all ancestors.
LEMMA WalkEnds ==
  ASSUME NEW h \in Hierarchy, NEW c \in Class, NEW f, Walked(h, c, f, <<>>)
  PROVE  ToSet(f) \ {c} = UpOf(h, c) \ {c}
<1>1. BreadthFirst(h, c, f) /\ f \in Seq(Class) /\ ToSet(f) \ {c} \subseteq UpOf(h, c)
  BY DEF Walked, BreadthFirst, Orders
<1>2. Found(f, c) \in SUBSET Class /\ c \in Found(f, c)
  BY <1>1, SetOf DEF Found
<1>3. \A b \in Found(f, c) : \A v \in ToSet(h[b]) : v \in Found(f, c)
  BY DEF Walked, Listed
<1>4. UpOf(h, c) \subseteq Found(f, c)
  BY <1>2, <1>3, UpOfIsLeast DEF Closed
<1> QED
  BY <1>1, <1>4 DEF Found

\* The member of a set where a number is least.
LEMMA LeastMember ==
  ASSUME NEW S, S # {}, NEW n, \A x \in S : n[x] \in Nat
  PROVE  \E x \in S : \A y \in S : n[x] <= n[y]
<1> DEFINE N == {n[x] : x \in S}
<1>1. N \in SUBSET Nat /\ N # {}
  OBVIOUS
<1> HIDE DEF N
<1>2. PICK m \in N : \A k \in N : m <= k
  BY <1>1, LeastOf
<1> QED
  BY <1>2 DEF N

\* Two walks that found the same found it in the same order.
LEMMA OneWalk ==
  ASSUME NEW h \in Hierarchy, NEW c \in Class, NEW f, NEW g, BreadthFirst(h, c, f), BreadthFirst(h, c, g),
         ToSet(f) \ {c} = ToSet(g) \ {c},
         NEW p \in Found(f, c), NEW q \in Found(f, c), Rank(f, c, p) < Rank(f, c, q)
  PROVE  Rank(g, c, p) < Rank(g, c, q)
<1> DEFINE M == Found(f, c)
           F == [a \in M |-> Rank(f, c, a)]
           G == [a \in M |-> Rank(g, c, a)]
           Y == {y \in M : \E x \in M : F[y] < F[x] /\ G[x] < G[y]}
<1>1. /\ f \in Orders /\ IsInjective(f) /\ Sourced(h, c, f) /\ ByLevel(h, c, f)
      /\ g \in Orders /\ IsInjective(g) /\ Sourced(h, c, g) /\ ByLevel(h, c, g)
  BY DEF BreadthFirst
<1>2. M = Found(g, c) /\ M \in SUBSET Class /\ c \in M /\ ToSet(f) \ {c} = M \ {c} /\ ToSet(g) \ {c} = M \ {c}
  <2>1. ToSet(f) \subseteq Class
    BY <1>1, SetOf DEF Orders
  <2> QED
    BY <2>1 DEF Found
<1>3. /\ \A a \in M : F[a] \in Nat /\ G[a] \in Nat
      /\ F[c] = 0 /\ G[c] = 0
      /\ \A a, b \in M : F[a] = F[b] => a = b
      /\ \A a, b \in M : G[a] = G[b] => a = b
  <2>1. /\ \A a \in M : Rank(f, c, a) \in Nat
        /\ Rank(f, c, c) = 0 /\ \A a, b \in M : Rank(f, c, a) = Rank(f, c, b) => a = b
    BY <1>1, RankIs
  <2>2. /\ \A a \in M : Rank(g, c, a) \in Nat
        /\ Rank(g, c, c) = 0 /\ \A a, b \in M : Rank(g, c, a) = Rank(g, c, b) => a = b
    BY <1>1, <1>2, RankIs
  <2> QED
    BY <1>2, <2>1, <2>2
<1>4. /\ \A a \in M \ {c} : \E b \in M : a \in ToSet(h[b]) /\ G[b] < G[a]
  BY <1>1, <1>2 DEF Sourced
<1>5. \A x \in M \ {c}, b \in M : \A y \in ToSet(h[b]) : y \in M /\ F[x] < F[y] =>
        \E a \in M : x \in ToSet(h[a]) /\ (F[a] < F[b] \/ (a = b /\ PlaceIn(h[b], x) < PlaceIn(h[b], y)))
  <2> SUFFICES ASSUME NEW x \in M \ {c}, NEW b \in M, NEW y \in ToSet(h[b]), y \in M, F[x] < F[y]
               PROVE  \E a \in M : x \in ToSet(h[a]) /\ (F[a] < F[b] \/ (a = b /\ PlaceIn(h[b], x) < PlaceIn(h[b], y)))
    OBVIOUS
  <2>1. Rank(f, c, x) < Rank(f, c, y)
    OBVIOUS
  <2>2. PICK a \in M : /\ x \in ToSet(h[a])
                       /\ Rank(f, c, a) < Rank(f, c, b) \/ (a = b /\ PlaceIn(h[b], x) < PlaceIn(h[b], y))
    BY <1>1, <1>2, <2>1 DEF ByLevel
  <2> QED
    BY <2>2
<1>6. \A x \in M \ {c}, b \in M : \A y \in ToSet(h[b]) : y \in M /\ G[x] < G[y] =>
        \E a \in M : x \in ToSet(h[a]) /\ (G[a] < G[b] \/ (a = b /\ PlaceIn(h[b], x) < PlaceIn(h[b], y)))
  <2> SUFFICES ASSUME NEW x \in M \ {c}, NEW b \in M, NEW y \in ToSet(h[b]), y \in M, G[x] < G[y]
               PROVE  \E a \in M : x \in ToSet(h[a]) /\ (G[a] < G[b] \/ (a = b /\ PlaceIn(h[b], x) < PlaceIn(h[b], y)))
    OBVIOUS
  <2>1. Rank(g, c, x) < Rank(g, c, y)
    OBVIOUS
  <2>2. PICK a \in M : /\ x \in ToSet(h[a])
                       /\ Rank(g, c, a) < Rank(g, c, b) \/ (a = b /\ PlaceIn(h[b], x) < PlaceIn(h[b], y))
    BY <1>1, <1>2, <2>1 DEF ByLevel
  <2> QED
    BY <2>2
<1>7. F[p] < F[q] /\ p \in M /\ q \in M
  OBVIOUS
<1>8. SUFFICES G[p] < G[q]
  OBVIOUS
<1> HIDE DEF M, F, G
<1> SUFFICES ASSUME ~(G[p] < G[q]) PROVE FALSE
  OBVIOUS
<1>9. Y # {}
  <2>1. G[p] # G[q]
    BY <1>3, <1>7
  <2>2. G[q] < G[p]
    BY <1>3, <1>7, <2>1
  <2> QED
    BY <1>7, <2>2
<1>10. PICK y \in Y : \A z \in Y : F[y] <= F[z]
  <2>1. \A z \in Y : F[z] \in Nat
    BY <1>3
  <2> HIDE DEF Y
  <2> QED
    BY <1>9, <2>1, LeastMember
<1>11. PICK x0 \in M : F[y] < F[x0] /\ G[x0] < G[y]
  OBVIOUS
<1>12. y \in M /\ y # c
  BY <1>3, <1>11
<1>13. \A a, z \in M : F[a] < F[y] /\ F[a] < F[z] => G[a] < G[z]
  <2> SUFFICES ASSUME NEW a \in M, NEW z \in M, F[a] < F[y], F[a] < F[z], ~(G[a] < G[z]) PROVE FALSE
    OBVIOUS
  <2>1. a # z
    BY <1>3
  <2>2. G[z] < G[a]
    BY <1>3, <2>1
  <2>3. a \in Y
    BY <2>2
  <2>4. F[y] <= F[a]
    BY <1>10, <2>3
  <2> QED
    BY <1>3, <1>12, <2>4
<1> HIDE DEF Y
<1> DEFINE X == {x \in M : F[y] < F[x]}
<1>14. PICK x \in X : \A z \in X : G[x] <= G[z]
  <2>1. X # {} /\ \A z \in X : G[z] \in Nat
    BY <1>3, <1>11
  <2> HIDE DEF X
  <2> QED
    BY <2>1, LeastMember
<1>15. x \in M /\ F[y] < F[x] /\ G[x] < G[y] /\ x # c
  <2>1. x \in M /\ F[y] < F[x]
    OBVIOUS
  <2>2. G[x] <= G[x0]
    BY <1>11, <1>14
  <2> QED
    BY <1>3, <1>11, <1>12, <2>1, <2>2
<1>16. \A z \in M : G[z] < G[x] => F[z] < F[y]
  <2> SUFFICES ASSUME NEW z \in M, G[z] < G[x], ~(F[z] < F[y]) PROVE FALSE
    OBVIOUS
  <2>1. z # y
    BY <1>3, <1>12, <1>15
  <2>2. F[y] < F[z]
    BY <1>3, <1>12, <2>1
  <2>3. G[x] <= G[z]
    BY <1>14, <2>2
  <2> QED
    BY <1>3, <1>15, <2>3
<1> HIDE DEF X
<1> DEFINE S == {s \in M : x \in ToSet(h[s]) /\ F[s] < F[y]}
<1>17. PICK s \in S : \A z \in S : F[s] <= F[z]
  <2>1. PICK s0 \in M : x \in ToSet(h[s0]) /\ G[s0] < G[x]
    BY <1>4, <1>15
  <2>2. S # {} /\ \A z \in S : F[z] \in Nat
    BY <1>3, <1>16, <2>1
  <2> HIDE DEF S
  <2> QED
    BY <2>2, LeastMember
<1>18. s \in M /\ x \in ToSet(h[s]) /\ F[s] < F[y]
  OBVIOUS
<1>19. PICK a \in M : y \in ToSet(h[a]) /\ (F[a] < F[s] \/ (a = s /\ PlaceIn(h[s], y) < PlaceIn(h[s], x)))
  BY <1>5, <1>12, <1>15, <1>18
<1>20. PICK e \in M : x \in ToSet(h[e]) /\ (G[e] < G[a] \/ (e = a /\ PlaceIn(h[a], x) < PlaceIn(h[a], y)))
  BY <1>6, <1>12, <1>15, <1>19
<1>21. F[a] <= F[s] /\ F[a] < F[y]
  BY <1>3, <1>12, <1>18, <1>19
<1>22. ~(G[e] < G[a])
  <2> SUFFICES ASSUME G[e] < G[a] PROVE FALSE
    OBVIOUS
  <2>1. ~(F[a] < F[e]) /\ a # e
    BY <1>3, <1>13, <1>19, <1>20, <1>21
  <2>2. F[e] < F[a]
    BY <1>3, <1>19, <1>20, <2>1
  <2>3. e \in S
    BY <1>3, <1>12, <1>20, <1>21, <2>2
  <2>4. F[s] <= F[e]
    BY <1>17, <2>3
  <2> QED
    BY <1>3, <1>18, <1>19, <1>20, <1>21, <2>2, <2>4
<1>23. e = a /\ PlaceIn(h[a], x) < PlaceIn(h[a], y) /\ x \in ToSet(h[a])
  BY <1>20, <1>22
<1>24. a \in S
  BY <1>19, <1>21, <1>23
<1>25. F[s] <= F[a]
  BY <1>17, <1>24
<1>26. a = s /\ PlaceIn(h[a], y) < PlaceIn(h[a], x)
  BY <1>3, <1>18, <1>19, <1>25
<1>27. PlaceIn(h[a], x) \in Nat /\ PlaceIn(h[a], y) \in Nat
  <2>1. a \in Class /\ h[a] \in Orders /\ IsInjective(h[a])
    BY <1>2, <1>19, ParentsAreClasses
  <2>2. PlaceIn(h[a], x) \in 1..Len(h[a]) /\ PlaceIn(h[a], y) \in 1..Len(h[a])
    BY <1>19, <1>23, <2>1, PlaceIs
  <2> QED
    BY <2>2
<1> QED
  BY <1>23, <1>26, <1>27

LEMMA FirstAt ==
  ASSUME NEW order \in Orders, NEW d, NEW i \in 1..Len(order), order[i] \in d,
         \A k \in 1..(i - 1) : order[k] \notin d
  PROVE  First(order, d) = order[i]
<1>1. DOMAIN order = 1..Len(order) /\ Len(order) \in Nat
  BY LenProperties DEF Orders
<1> DEFINE P(j) == order[j] \in d /\ \A k \in 1..(j - 1) : order[k] \notin d
<1>2. \A j \in DOMAIN order : P(j) => j = i
  <2> SUFFICES ASSUME NEW j \in 1..Len(order), P(j), j # i PROVE FALSE
    BY <1>1
  <2>1. CASE j < i
    <3>1. j \in 1..(i - 1)
      BY <1>1, <2>1
    <3> QED
      BY <3>1
  <2>2. CASE i < j
    <3>1. i \in 1..(j - 1)
      BY <1>1, <2>2
    <3> QED
      BY <3>1
  <2> QED
    BY <1>1, <2>1, <2>2
<1>3. i \in DOMAIN order /\ P(i)
  BY <1>1
<1>4. (CHOOSE j \in DOMAIN order : P(j)) = i
  <2> HIDE DEF P
  <2> QED
    BY <1>2, <1>3
<1> QED
  BY <1>4 DEF First

LEMMA FirstIsFirst ==
  ASSUME NEW order \in Orders, IsInjective(order), NEW d, d \intersect ToSet(order) # {}
  PROVE  /\ First(order, d) \in d \intersect ToSet(order)
         /\ \A y \in d \intersect ToSet(order) : PlaceIn(order, First(order, d)) <= PlaceIn(order, y)
         /\ order[1] \notin d => First(Tail(order), d) = First(order, d)
<1> DEFINE P == {n \in 1..Len(order) : order[n] \in d}
<1>1. /\ DOMAIN order = 1..Len(order) /\ Len(order) \in Nat /\ \A n \in 1..Len(order) : order[n] \in ToSet(order)
      /\ \A x \in ToSet(order) : \E n \in 1..Len(order) : order[n] = x
  BY SetOf DEF Orders
<1>2. P # {} /\ P \in SUBSET Nat
  BY <1>1
<1>3. PICK i \in P : \A m \in P : i <= m
  <2> HIDE DEF P
  <2> QED
    BY <1>2, LeastOf
<1>4. i \in Nat /\ i \in 1..Len(order) /\ order[i] \in d
  OBVIOUS
<1>5. \A k \in 1..(i - 1) : order[k] \notin d
  <2> SUFFICES ASSUME NEW k \in 1..(i - 1), order[k] \in d PROVE FALSE
    OBVIOUS
  <2>1. k \in 1..Len(order) /\ ~(i <= k)
    BY <1>1, <1>4
  <2>2. k \in P
    BY <2>1
  <2> HIDE DEF P
  <2> QED
    BY <1>3, <2>1, <2>2
<1>6. First(order, d) = order[i]
  BY <1>4, <1>5, FirstAt
<1>7. PlaceIn(order, order[i]) = i
  BY <1>4, PlaceIs
<1>8. ASSUME NEW y \in d \intersect ToSet(order) PROVE i <= PlaceIn(order, y)
  <2>1. PlaceIn(order, y) \in 1..Len(order) /\ order[PlaceIn(order, y)] = y
    BY PlaceIs
  <2>2. PlaceIn(order, y) \in P
    BY <2>1
  <2> HIDE DEF P
  <2> QED
    BY <1>3, <2>2
<1>9. ASSUME order[1] \notin d PROVE First(Tail(order), d) = order[i]
  <2> DEFINE t == Tail(order)
  <2>1. order # <<>> /\ i # 1
    <3>1. order # <<>>
      BY <1>1, <1>4, EmptySeq DEF Orders
    <3> QED
      BY <1>4, <1>9, <3>1
  <2>2. t \in Orders /\ Len(t) = Len(order) - 1 /\ \A n \in 1..(Len(order) - 1) : t[n] = order[n + 1]
    BY <2>1, TailIs DEF Orders
  <2> HIDE DEF t
  <2>3. i - 1 \in 1..(Len(order) - 1) /\ (i - 1) + 1 = i
    BY <1>1, <1>4, <2>1
  <2>4. t[i - 1] = order[i]
    BY <2>2, <2>3
  <2>5. ASSUME NEW k \in 1..((i - 1) - 1) PROVE t[k] \notin d
    <3>1. k \in 1..(Len(order) - 1) /\ k + 1 \in 1..(i - 1)
      BY <1>1, <1>4, <2>3
    <3> QED
      BY <1>5, <2>2, <3>1
  <2>6. i - 1 \in 1..Len(t)
    BY <2>2, <2>3
  <2>7. First(t, d) = t[i - 1]
    BY <1>4, <2>2, <2>4, <2>5, <2>6, FirstAt
  <2> QED
    BY <2>4, <2>7 DEF t
<1> QED
  BY <1>1, <1>4, <1>6, <1>7, <1>8, <1>9

\* Two walks that found the same come to the same definer first.
LEMMA SameFirst ==
  ASSUME NEW h \in Hierarchy, NEW c \in Class, NEW f, NEW g, BreadthFirst(h, c, f), BreadthFirst(h, c, g),
         ToSet(f) \ {c} = ToSet(g) \ {c}, NEW d, c \notin d, d \intersect ToSet(f) # {}
  PROVE  First(f, d) = First(g, d)
<1> DEFINE x == First(f, d)
           y == First(g, d)
<1>1. f \in Orders /\ IsInjective(f) /\ g \in Orders /\ IsInjective(g)
  BY DEF BreadthFirst
<1>2. d \intersect ToSet(f) = d \intersect ToSet(g)
  OBVIOUS
<1>3. x \in d \intersect ToSet(f) /\ \A z \in d \intersect ToSet(f) : PlaceIn(f, x) <= PlaceIn(f, z)
  BY <1>1, FirstIsFirst
<1>4. y \in d \intersect ToSet(f) /\ \A z \in d \intersect ToSet(f) : PlaceIn(g, y) <= PlaceIn(g, z)
  BY <1>1, <1>2, FirstIsFirst
<1> HIDE DEF x, y
<1>5. \A z \in d \intersect ToSet(f) : Rank(f, c, z) = PlaceIn(f, z) /\ Rank(g, c, z) = PlaceIn(g, z) /\ z \in Found(f, c)
  BY <1>2 DEF Rank, Found
<1>6. /\ Rank(f, c, x) \in Nat /\ Rank(f, c, y) \in Nat /\ Rank(g, c, x) \in Nat /\ Rank(g, c, y) \in Nat
      /\ Rank(f, c, x) = Rank(f, c, y) => x = y
  BY <1>1, <1>3, <1>4, <1>5, RankIs
<1>7. Rank(f, c, x) <= Rank(f, c, y) /\ Rank(g, c, y) <= Rank(g, c, x)
  BY <1>3, <1>4, <1>5
<1>8. ~(Rank(f, c, x) < Rank(f, c, y))
  <2> SUFFICES ASSUME Rank(f, c, x) < Rank(f, c, y) PROVE FALSE
    OBVIOUS
  <2>1. Rank(g, c, x) < Rank(g, c, y)
    BY <1>3, <1>4, <1>5, OneWalk
  <2> QED
    BY <1>6, <1>7, <2>1
<1>9. x = y
  BY <1>6, <1>7, <1>8
<1> QED
  BY <1>9 DEF x, y

\* A walk goes on with a class that is not in f.
LEMMA WalkOn ==
  ASSUME NEW h \in Hierarchy, NEW c \in Class, NEW f, NEW w, w # <<>>, Walked(h, c, f, w), Head(w) \notin ToSet(f)
  PROVE  Walked(h, c, Append(f, Head(w)), Tail(w) \o Kept(h[Head(w)], Class \ ToSet(Append(f, Head(w)))))
<1> DEFINE g == Append(f, Head(w))
           K == Kept(h[Head(w)], Class \ ToSet(g))
<1>1. Head(w) = w[1] /\ w \in Seq(Class) /\ f \in Seq(Class)
  BY DEF Walked, BreadthFirst, Orders
<1>2. CASE w[1] \notin Found(f, c)
  BY <1>1, <1>2, WalkFinds
<1>3. CASE w[1] \in Found(f, c)
  <2>1. w[1] = c
    BY <1>1, <1>3 DEF Found
  <2>2. Walked(h, c, g, w)
    BY <1>1, <2>1, WalkFindsItself
  <2>3. ToSet(g) = ToSet(f) \union {c}
    BY <1>1, <2>1, AtTheEnd
  <2> HIDE DEF g
  <2>4. Walked(h, c, g, Tail(w))
    BY <2>1, <2>2, <2>3, WalkSkips DEF Found
  <2>5. ToSet(h[c]) \subseteq Found(f, c)
    BY <2>1, WalkComesBack
  <2>6. h[c] \in Orders
    BY ParentsAreClasses
  <2>7. K \in Seq(Class) /\ ToSet(K) = {}
    <3>1. Kept(h[c], Class \ ToSet(g)) \in Orders
      BY <2>6, KeptIs
    <3>2. ToSet(Kept(h[c], Class \ ToSet(g))) = ToSet(h[c]) \intersect (Class \ ToSet(g))
      BY <2>6, KeptIs
    <3> QED
      BY <1>1, <2>1, <2>3, <2>5, <3>1, <3>2 DEF Orders, Found
  <2> HIDE DEF K
  <2>8. K = <<>>
    <3>1. Len(K) \in Nat /\ ~(1 \in 1..Len(K))
      BY <2>7, SetOf
    <3> QED
      BY <2>7, <3>1, EmptySeq
  <2>9. Tail(w) \in Seq(Class)
    BY <1>1, TailIs
  <2>10. Tail(w) \o K = Tail(w)
    BY <2>8, <2>9, ConcatEmptySeq
  <2> QED
    BY <2>4, <2>10 DEF g, K
<1> QED
  BY <1>2, <1>3

\* The head and the rest of two sequences, one after the other.
LEMMA HeadOfTwo ==
  ASSUME NEW S, NEW s \in Seq(S), NEW t \in Seq(S), s # <<>>
  PROVE  s \o t # <<>> /\ Head(s \o t) = Head(s) /\ Tail(s \o t) = Tail(s) \o t
<1> DEFINE u == s \o t
           v == Tail(s) \o t
<1>1. Len(s) \in Nat \ {0} /\ Len(t) \in Nat /\ Tail(s) \in Seq(S) /\ Len(Tail(s)) = Len(s) - 1
      /\ \A i \in 1..(Len(s) - 1) : Tail(s)[i] = s[i + 1]
  BY TailIs, LenProperties
<1>2. /\ u \in Seq(S) /\ Len(u) = Len(s) + Len(t)
      /\ \A i \in 1..(Len(s) + Len(t)) : u[i] = IF i <= Len(s) THEN s[i] ELSE t[i - Len(s)]
  BY ConcatProperties
<1>3. /\ v \in Seq(S) /\ Len(v) = Len(Tail(s)) + Len(t)
      /\ \A i \in 1..(Len(Tail(s)) + Len(t)) : v[i] = IF i <= Len(Tail(s)) THEN Tail(s)[i] ELSE t[i - Len(Tail(s))]
  BY <1>1, ConcatProperties
<1> HIDE DEF u, v
<1>4. u # <<>>
  <2>1. Len(u) # 0
    BY <1>1, <1>2
  <2> QED
    BY <2>1, EmptySeq
<1>5. Head(u) = u[1] /\ Head(s) = s[1]
  BY <1>2
<1>6. u[1] = s[1]
  BY <1>1, <1>2
<1>7. /\ Tail(u) \in Seq(S) /\ Len(Tail(u)) = Len(u) - 1
      /\ \A i \in 1..(Len(u) - 1) : Tail(u)[i] = u[i + 1]
  BY <1>2, <1>4, TailIs
<1>8. Len(Tail(u)) = Len(v)
  BY <1>1, <1>2, <1>3, <1>7
<1>9. ASSUME NEW i \in 1..Len(v) PROVE Tail(u)[i] = v[i]
  <2>0. i \in 1..(Len(Tail(s)) + Len(t)) /\ Len(Tail(s)) = Len(s) - 1 /\ i \in 1..(Len(u) - 1)
    BY <1>1, <1>3, <1>7, <1>8
  <2>1. v[i] = IF i <= Len(s) - 1 THEN Tail(s)[i] ELSE t[i - (Len(s) - 1)]
    BY <1>3, <2>0
  <2>2. i + 1 \in 1..(Len(s) + Len(t)) /\ Tail(u)[i] = u[i + 1]
    BY <1>1, <1>2, <1>7, <2>0
  <2>3. u[i + 1] = IF i + 1 <= Len(s) THEN s[i + 1] ELSE t[(i + 1) - Len(s)]
    BY <1>2, <2>2
  <2>4. (i + 1 <= Len(s) <=> i <= Len(s) - 1) /\ (i + 1) - Len(s) = i - (Len(s) - 1)
    BY <1>1, <2>0
  <2>5. i <= Len(s) - 1 => Tail(s)[i] = s[i + 1]
    BY <1>1, <2>0
  <2> QED
    BY <2>1, <2>2, <2>3, <2>4, <2>5
<1>10. Tail(u) = v
  BY <1>3, <1>7, <1>8, <1>9, SeqEqual
<1> QED
  BY <1>4, <1>5, <1>6, <1>10 DEF u, v

-----------------------------------------------------------------------------
(* Edges and calls *)

\* c3Linearize gives c no order, or is not asked.
NoC3(u, c) == strategy = "c3" => c \in DOMAIN cache[u] /\ cache[u][c] = NoOrder

\* What the pass decided for a class it is through with.
Decided(c, order) ==
  IF parents[c] = <<>>
    THEN order = <<>>
    ELSE \/ strategy = "c3" /\ c \in DOMAIN cache["pass"] /\ cache["pass"][c] = order
         \/ NoC3("pass", c) /\ Walked(parents, c, order, <<>>)

EdgesOf(c, order) ==
  {<<c, definers, First(order, definers)>> :
     definers \in {d \in Method : c \notin d /\ Cardinality(d \intersect ToSet(order)) > 1}}

\* Every class the pass is through with has its order and its edges, and no other has.
PassDone ==
  /\ \A c \in Class : IF c < turn THEN Decided(c, orders[c]) ELSE orders[c] = <<>>
  /\ overrides = UNION {EdgesOf(c, orders[c]) : c \in {x \in Class : x < turn}}

\* The order in which the call looks for a method.
Resolved ==
  \/ strategy = "c3" /\ called \in DOMAIN cache["call"] /\ cache["call"][called] = reached
  \/ /\ NoC3("call", called)
     /\ BreadthFirst(parents, called, walk.found) /\ walk.found # <<>> /\ walk.found[1] = called
     /\ reached = Tail(walk.found)

CacheGreedy == \A u \in {"pass", "call"} : GreedyCache(parents, cache[u])

\* With MroInv, the inductive invariant behind EdgesAgreeWithCalls.
EdgesInv ==
  /\ CacheGreedy /\ PassDone
  /\ doing = "gather" => parents[turn] # <<>> /\ Walked(parents, turn, walk.found, walk.frontier)
  /\ doing \in {"c3", "merge"} =>
       /\ strategy = "c3"
       /\ turn <= Classes => parents[turn] # <<>> /\ Walked(parents, turn, walk.found, <<>>)
  /\ doing = "merge" => Greedy(Sequences(parents, Known, merging.class), merging.order)
  /\ doing = "levels" =>
       /\ turn > Classes /\ called \in Class /\ NoC3("call", called)
       /\ Walked(parents, called, walk.found, walk.frontier \o walk.next) /\ walk.found[1] = called
  /\ doing = "called" => turn > Classes /\ called \in Class /\ Resolved

\* The pass and the call come to the same definer.
LEMMA SameDefiner ==
  ASSUME MroInv, EdgesInv, doing = "called", UpOf(parents, called) \ {called} \subseteq ToSet(reached),
         NEW d, called \notin d, d \intersect UpOf(parents, called) # {}
  PROVE  /\ d \intersect ToSet(orders[called]) = d \intersect UpOf(parents, called)
         /\ First(orders[called], d) = First(reached, d)
<1> DEFINE c == called
           U == UpOf(parents, c)
           p == cache["pass"]
           l == cache["call"]
           f == walk.found
<1>1. /\ turn > Classes /\ c \in Class /\ Resolved /\ CacheGreedy /\ PassDone
      /\ parents \in Hierarchy /\ Sound(parents, p) /\ Sound(parents, l)
      /\ orders[c] \in Orders /\ reached \in Orders /\ f \in Orders
  BY DEF EdgesInv, MroInv, MroTypeOK
<1>2. c < turn
  BY <1>1, MroAssumption DEF Class, MroInv, MroTypeOK
<1>3. Decided(c, orders[c])
  BY <1>1, <1>2 DEF PassDone
<1>4. parents[c] # <<>>
  <2> SUFFICES ASSUME parents[c] = <<>> PROVE FALSE
    OBVIOUS
  <2>1. ToSet(parents[c]) = {}
    BY DEF ToSet
  <2> QED
    BY <1>1, <2>1, UpOfThroughParents
<1>5. c \in DOMAIN p /\ c \in DOMAIN l => p[c] = l[c]
  BY <1>1, OneAnswer DEF CacheGreedy
<1>6. orders[c] # NoOrder /\ reached # NoOrder
  BY <1>1, NoOrderIsNone
<1>7. CASE strategy = "c3" /\ c \in DOMAIN p /\ p[c] = orders[c]
  <2>1. Linearizes(parents, c, orders[c], p)
    BY <1>1, <1>6, <1>7 DEF Sound
  <2>2. ToSet(orders[c]) = U
    BY <2>1 DEF Linearizes, IsC3In
  <2>3. reached = orders[c]
    BY <1>1, <1>5, <1>6, <1>7 DEF Resolved, NoC3
  <2> QED
    BY <2>2, <2>3
<1>8. CASE NoC3("pass", c) /\ Walked(parents, c, orders[c], <<>>)
  <2>1. ToSet(orders[c]) \ {c} = U \ {c}
    BY <1>1, <1>8, WalkEnds
  <2>2. NoC3("call", c) /\ BreadthFirst(parents, c, f) /\ f # <<>> /\ f[1] = c /\ reached = Tail(f)
    BY <1>1, <1>5, <1>6, <1>8 DEF Resolved, NoC3
  <2>3. ToSet(f) \ {c} = U \ {c}
    <3>1. ToSet(reached) \subseteq ToSet(f)
      <4>1. /\ f \in Seq(Class) /\ Len(f) \in Nat
            /\ \A i \in 1..Len(f) : f[i] \in ToSet(f)
        BY <1>1, SetOf DEF Orders
      <4>2. ToSet(Tail(f)) = {f[i] : i \in 2..Len(f)}
        BY <2>2, <4>1, TailIs
      <4>3. \A i \in 2..Len(f) : i \in 1..Len(f)
        BY <4>1
      <4> QED
        BY <2>2, <4>1, <4>2, <4>3
    <3> QED
      BY <2>2, <3>1 DEF BreadthFirst
  <2>4. d \intersect ToSet(orders[c]) = d \intersect U /\ d \intersect ToSet(f) = d \intersect U
    BY <2>1, <2>3
  <2>5. First(reached, d) = First(f, d)
    BY <1>1, <2>2, <2>4, FirstIsFirst DEF BreadthFirst
  <2>6. First(orders[c], d) = First(f, d)
    <3>1. BreadthFirst(parents, c, orders[c])
      BY <1>8 DEF Walked
    <3> QED
      BY <1>1, <2>1, <2>2, <2>3, <2>4, <3>1, SameFirst
  <2> QED
    BY <2>4, <2>5, <2>6
<1> QED
  BY <1>3, <1>4, <1>7, <1>8 DEF Decided

LEMMA InvImpliesEdges == MroInv /\ EdgesInv => EdgesAgreeWithCalls
<1> SUFFICES ASSUME MroInv, EdgesInv, doing = "called", Up(called) \ {called} \subseteq ToSet(reached),
                    NEW d \in Method, called \notin d, Cardinality(d \intersect Up(called)) > 1
             PROVE  {o \in overrides : o[1] = called /\ o[2] = d} = {<<called, d, First(reached, d)>>}
  BY DEF EdgesAgreeWithCalls
<1> DEFINE U == UpOf(parents, called)
<1>1. Up(called) = U
  BY UpIs
<1>2. d \intersect U # {}
  BY <1>1, FS_EmptySet
<1>3. d \intersect ToSet(orders[called]) = d \intersect U /\ First(orders[called], d) = First(reached, d)
  BY <1>1, <1>2, SameDefiner
<1>4. called \in Class /\ called < turn
  BY MroAssumption DEF EdgesInv, Class, MroInv, MroTypeOK
<1>5. overrides = UNION {EdgesOf(c, orders[c]) : c \in {x \in Class : x < turn}}
  BY DEF EdgesInv, PassDone
<1>6. <<called, d, First(orders[called], d)>> \in EdgesOf(called, orders[called])
  BY <1>1, <1>3 DEF EdgesOf
<1>7. <<called, d, First(orders[called], d)>> \in overrides
  BY <1>4, <1>5, <1>6
<1>8. ASSUME NEW o \in overrides, o[1] = called, o[2] = d PROVE o = <<called, d, First(orders[called], d)>>
  <2>1. PICK c \in Class : o \in EdgesOf(c, orders[c])
    BY <1>5
  <2>2. PICK e \in Method : o = <<c, e, First(orders[c], e)>>
    BY <2>1 DEF EdgesOf
  <2> QED
    BY <1>8, <2>2
<1> QED
  BY <1>3, <1>7, <1>8

\* What the pass did stays when its cache only grows.
LEMMA PassKept ==
  ASSUME PassDone, UNCHANGED <<strategy, parents, turn, orders, overrides>>,
         \A c \in DOMAIN cache["pass"] : c \in DOMAIN cache'["pass"] /\ cache'["pass"][c] = cache["pass"][c]
  PROVE  PassDone'
<1>1. ASSUME NEW c \in Class, Decided(c, orders[c]) PROVE Decided(c, orders[c])'
  BY <1>1 DEF Decided, NoC3
<1> QED
  BY <1>1 DEF PassDone

\* Steps that decide for no class and linearize nothing.
LEMMA WalkKeeps ==
  ASSUME EdgesInv, UNCHANGED <<strategy, parents, orders, overrides, turn, cache>>
  PROVE  CacheGreedy' /\ PassDone'
<1>1. CacheGreedy'
  BY DEF EdgesInv, CacheGreedy
<1>2. PassDone'
  BY PassKept DEF EdgesInv
<1> QED
  BY <1>1, <1>2

LEMMA LearnsGreedily ==
  ASSUME MroInv, EdgesInv, NEW c \in Class, NEW order, Learn(c, order),
         UNCHANGED <<strategy, parents, turn, orders, overrides>>,
         c \in DOMAIN Known => Known[c] = order,
         order # NoOrder => ToSet(parents[c]) \subseteq DOMAIN Known /\ Greedy(Sequences(parents, Known, c), order)
  PROVE  CacheGreedy' /\ PassDone'
<1> DEFINE f == [x \in DOMAIN Known \union {c} |-> IF x = c THEN order ELSE Known[x]]
<1>1. User \in {"pass", "call"} /\ Known = cache[User]
  BY DEF User, Known
<1>2. DOMAIN cache = {"pass", "call"} /\ cache' = [cache EXCEPT ![User] = f]
  BY DEF MroInv, MroTypeOK, Learn
<1>3. cache'[User] = f /\ \A u \in {"pass", "call"} : u # User => cache'[u] = cache[u]
  <2> HIDE DEF f
  <2> QED
    BY <1>1, <1>2
<1>4. DOMAIN f = DOMAIN Known \union {c} /\ f[c] = order /\ \A x \in DOMAIN Known : f[x] = Known[x]
  OBVIOUS
<1> HIDE DEF f
<1>5. parents \in Hierarchy /\ Sound(parents, Known) /\ GreedyCache(parents, Known)
  BY <1>1 DEF MroInv, EdgesInv, CacheGreedy
<1>6. GreedyCache(parents, f)
  BY <1>4, <1>5, LearnedIsGreedy
<1>7. CacheGreedy'
  BY <1>1, <1>3, <1>6 DEF EdgesInv, CacheGreedy
<1>8. \A x \in DOMAIN cache["pass"] : x \in DOMAIN cache'["pass"] /\ cache'["pass"][x] = cache["pass"][x]
  BY <1>1, <1>3, <1>4
<1>9. PassDone'
  BY <1>8, PassKept DEF EdgesInv
<1> QED
  BY <1>7, <1>9

\* The linearization goes on.
LEMMA C3Keeps ==
  ASSUME EdgesInv, doing \in {"c3", "merge"}, doing' \in {"c3", "merge"},
         UNCHANGED <<strategy, parents, turn, walk>>, CacheGreedy', PassDone',
         doing' = "merge" => Greedy(Sequences(parents, Known', merging'.class), merging'.order)
  PROVE  EdgesInv'
BY DEF EdgesInv

LEMMA NothingIsGreedy == \A os : Greedy(os, <<>>)
BY DEF Greedy

LEMMA EnterKeeps == MroInv /\ EdgesInv /\ Enter => EdgesInv'
<1> SUFFICES ASSUME MroInv, EdgesInv, Enter PROVE EdgesInv'
  OBVIOUS
<1> DEFINE c == Last(stack).class
<1>1. /\ doing = "c3" /\ doing' = "c3" /\ stack # <<>>
      /\ UNCHANGED <<strategy, parents, turn, orders, overrides, walk>>
  BY DEF Enter
<1>2. CASE UNCHANGED cache
  BY <1>1, <1>2, WalkKeeps, C3Keeps
<1>3. CASE /\ c \notin DOMAIN Known /\ (c \in visiting \/ parents[c] = <<>>)
           /\ Learn(c, IF c \in visiting THEN NoOrder ELSE <<>>)
  <2>1. stack \in Seq(Frames)
    BY DEF MroInv, MroTypeOK, Frames
  <2>2. c \in Class
    BY <1>1, <2>1, TopOf DEF Frames
  <2> DEFINE order == IF c \in visiting THEN NoOrder ELSE <<>>
  <2>3. order # NoOrder => order = <<>> /\ ToSet(parents[c]) = {}
    BY <1>3 DEF ToSet
  <2>4. Learn(c, order) /\ c \notin DOMAIN Known
    BY <1>3
  <2> HIDE DEF order, c
  <2>5. CacheGreedy' /\ PassDone'
    BY <1>1, <2>2, <2>3, <2>4, NothingIsGreedy, LearnsGreedily
  <2> QED
    BY <1>1, <2>5, C3Keeps
<1> QED
  BY <1>2, <1>3 DEF Enter

LEMMA MergeBeginsKeeps == MroInv /\ EdgesInv /\ MergeBegins => EdgesInv'
<1> SUFFICES ASSUME MroInv, EdgesInv, MergeBegins PROVE EdgesInv'
  OBVIOUS
<1> DEFINE c == Last(stack).class
<1>1. /\ doing = "c3" /\ stack # <<>> /\ Last(stack).merge
      /\ UNCHANGED <<strategy, parents, turn, orders, overrides, walk>>
  BY DEF MergeBegins
<1>2. Working(parents, Known, stack, visiting) /\ Sound(parents, Known)
  BY <1>1 DEF MroInv, Work, Known, User
<1>3. c \in Class /\ (c \in DOMAIN Known => Known[c] = NoOrder)
  BY <1>1, <1>2, TopToMerge
<1>4. CASE Learn(c, NoOrder) /\ UNCHANGED doing
  <2>1. Learn(c, NoOrder)
    BY <1>4
  <2> HIDE DEF c
  <2>2. CacheGreedy' /\ PassDone'
    BY <1>1, <1>3, <2>1, LearnsGreedily
  <2> QED
    BY <1>1, <1>4, <2>2, C3Keeps
<1>5. CASE doing' = "merge" /\ merging'.order = <<>> /\ UNCHANGED cache
  BY <1>1, <1>5, WalkKeeps, NothingIsGreedy, C3Keeps
<1> QED
  <2>1. CASE \E p \in ToSet(parents[c]) : p \notin DOMAIN Known \/ Known[p] = NoOrder
    BY <1>4, <2>1, Zenon DEF MergeBegins
  <2>2. CASE ~\E p \in ToSet(parents[c]) : p \notin DOMAIN Known \/ Known[p] = NoOrder
    <3>1. /\ doing' = "merge" /\ UNCHANGED <<cache, visiting>>
          /\ \E s : merging' = [class |-> c, seqs |-> s, order |-> <<>>]
      BY <2>2, ZenonT(40) DEF MergeBegins
    <3> QED
      BY <1>5, <3>1
  <2> QED
    BY <2>1, <2>2

LEMMA MergeOnKeeps == MroInv /\ EdgesInv /\ MergeOn => EdgesInv'
<1> SUFFICES ASSUME MroInv, EdgesInv, MergeOn PROVE EdgesInv'
  OBVIOUS
<1> DEFINE q == merging.seqs
           r == merging.order
           c == merging.class
           g == CHOOSE i \in GoodHeads(q) : \A k \in GoodHeads(q) : i <= k
<1>1. /\ doing = "merge" /\ doing' = doing /\ GoodHeads(q) # {}
      /\ UNCHANGED <<strategy, parents, turn, orders, overrides, walk, cache>>
  BY DEF MergeOn
<1>2. /\ Merging(parents, Known, c, q, r) /\ Greedy(Sequences(parents, Known, c), r)
      /\ merging \in [class : 0..Classes, seqs : Seq(Orders), order : Orders]
  BY <1>1 DEF MroInv, MroTypeOK, EdgesInv
<1>3. g \in GoodHeads(q) /\ \A k \in GoodHeads(q) : g <= k
  <2>1. GoodHeads(q) \in SUBSET Nat
    BY <1>2, MergingIs DEF GoodHeads
  <2>2. \E i \in GoodHeads(q) : \A k \in GoodHeads(q) : i <= k
    BY <1>1, <2>1, LeastOf
  <2> QED
    BY <2>2
<1>4. merging'.class = c /\ merging'.order = Append(r, q[g][1])
  <2>1. \E p : merging' = [merging EXCEPT !.seqs = p, !.order = Append(r, q[g][1])]
    BY Zenon DEF MergeOn
  <2> HIDE DEF g
  <2> QED
    BY <1>2, <2>1
<1> HIDE DEF g
<1>5. Greedy(Sequences(parents, Known, c), Append(r, q[g][1]))
  BY <1>2, <1>3, GreedyGoesOn
<1>6. Known' = Known
  BY <1>1 DEF Known, User
<1>7. Greedy(Sequences(parents, Known', merging'.class), merging'.order)
  BY <1>4, <1>5, <1>6
<1> QED
  BY <1>1, <1>7, WalkKeeps, C3Keeps

LEMMA MergeEndsKeeps == MroInv /\ EdgesInv /\ MergeEnds => EdgesInv'
<1> SUFFICES ASSUME MroInv, EdgesInv, MergeEnds PROVE EdgesInv'
  OBVIOUS
<1> DEFINE c == merging.class
           order == IF \A i \in DOMAIN merging.seqs : merging.seqs[i] = <<>> THEN merging.order ELSE NoOrder
<1>1. /\ doing = "merge" /\ doing' = "c3" /\ Learn(c, order)
      /\ UNCHANGED <<strategy, parents, turn, orders, overrides, walk, stack>>
  BY DEF MergeEnds
<1>2. Ready(parents, Known, c) /\ Greedy(Sequences(parents, Known, c), merging.order)
  BY <1>1 DEF MroInv, Merging, EdgesInv
<1>3. c \in Class /\ ToSet(parents[c]) \subseteq DOMAIN Known /\ Sound(parents, Known)
  BY <1>2 DEF Ready
<1>4. c \notin DOMAIN Known
  <2>1. Working(parents, Known, Work, visiting) /\ Work = Append(stack, WorkFrame(c, TRUE))
    BY <1>1 DEF MroInv, Work
  <2>2. stack \in Seq(Frames) /\ WorkFrame(c, TRUE) \in Frames
    BY <1>3 DEF MroInv, MroTypeOK, Frames, WorkFrame
  <2>3. Work # <<>> /\ Last(Work) = WorkFrame(c, TRUE)
    BY <2>1, <2>2, StackOps
  <2>4. Last(Work).merge /\ Last(Work).class = c
    BY <2>3 DEF WorkFrame
  <2> QED
    BY <1>2, <1>3, <2>1, <2>3, <2>4, TopToMerge, ReadyIsAcyclic
<1>5. order # NoOrder => Greedy(Sequences(parents, Known, c), order)
  BY <1>2
<1> HIDE DEF order, c
<1>6. CacheGreedy' /\ PassDone'
  BY <1>1, <1>3, <1>4, <1>5, LearnsGreedily
<1> QED
  BY <1>1, <1>6, C3Keeps

\* The pass is through with a class.
LEMMA DecideKeeps ==
  ASSUME MroInv, EdgesInv, turn \in Class, UNCHANGED <<strategy, parents, cache>>,
         NEW order, Decided(turn, order),
         orders' = [orders EXCEPT ![turn] = order], overrides' = overrides \union EdgesOf(turn, order),
         turn' = turn + 1, doing' = "next"
  PROVE  EdgesInv'
<1>1. CacheGreedy'
  BY DEF EdgesInv, CacheGreedy
<1>2. /\ \A c \in Class : IF c < turn THEN Decided(c, orders[c]) ELSE orders[c] = <<>>
      /\ overrides = UNION {EdgesOf(c, orders[c]) : c \in {x \in Class : x < turn}}
  BY DEF EdgesInv, PassDone
<1>3. /\ turn \in Nat /\ Class \subseteq Nat /\ DOMAIN orders = Class
      /\ \A c \in Class : c < turn' <=> c < turn \/ c = turn
  BY MroAssumption DEF Class, MroInv, MroTypeOK
<1>4. orders'[turn] = order /\ \A c \in Class : c # turn => orders'[c] = orders[c]
  BY <1>3
<1>6. ASSUME NEW c \in Class, c < turn' PROVE Decided(c, orders[c])'
  <2>1. CASE c = turn
    BY <1>4, <2>1 DEF Decided, NoC3
  <2>2. CASE c # turn
    <3>1. Decided(c, orders[c])
      BY <1>2, <1>3, <1>6, <2>2
    <3> QED
      BY <1>4, <2>2, <3>1 DEF Decided, NoC3
  <2> QED
    BY <2>1, <2>2
<1>7. ASSUME NEW c \in Class, ~(c < turn') PROVE orders'[c] = <<>>
  <2>1. ~(c < turn) /\ c # turn
    BY <1>3, <1>7
  <2> QED
    BY <1>2, <1>4, <2>1
<1>8. overrides' = UNION {EdgesOf(c, orders'[c]) : c \in {x \in Class : x < turn'}}
  <2>2. ASSUME NEW o \in overrides' PROVE \E c \in Class : c < turn' /\ o \in EdgesOf(c, orders'[c])
    <3>1. CASE o \in overrides
      <4>1. PICK c \in Class : c < turn /\ o \in EdgesOf(c, orders[c])
        BY <1>2, <3>1
      <4>2. c < turn' /\ c # turn
        BY <1>3, <4>1
      <4> QED
        BY <1>4, <4>1, <4>2
    <3>2. CASE o \in EdgesOf(turn, order)
      BY <1>3, <1>4, <3>2
    <3> QED
      BY <3>1, <3>2
  <2>3. ASSUME NEW c \in Class, c < turn', NEW o \in EdgesOf(c, orders'[c]) PROVE o \in overrides'
    <3>1. CASE c = turn
      BY <1>4, <3>1
    <3>2. CASE c # turn
      <4>1. c < turn /\ o \in EdgesOf(c, orders[c])
        BY <1>3, <1>4, <2>3, <3>2
      <4> QED
        BY <1>2, <4>1
    <3> QED
      BY <3>1, <3>2
  <2> QED
    BY <2>2, <2>3
<1>9. PassDone'
  BY <1>6, <1>7, <1>8 DEF PassDone, EdgesOf
<1> QED
  BY <1>1, <1>9 DEF EdgesInv

LEMMA ComputeNextClassKeeps == MroInv /\ EdgesInv /\ ComputeNextClass => EdgesInv'
<1> SUFFICES ASSUME MroInv, EdgesInv, ComputeNextClass PROVE EdgesInv'
  OBVIOUS
<1>1. /\ doing = "next" /\ turn \in Class /\ turn \in Nat
      /\ UNCHANGED <<strategy, parents, orders, overrides, cache>>
  BY MroAssumption DEF ComputeNextClass, MroInv, MroTypeOK, Class
<1>2. CASE parents[turn] = <<>> /\ turn' = turn + 1 /\ UNCHANGED doing
  <2>1. orders \in [Class -> Orders] /\ orders[turn] = <<>>
    BY <1>1 DEF EdgesInv, PassDone, MroInv, MroTypeOK
  <2>2. orders' = [orders EXCEPT ![turn] = <<>>]
    BY <1>1, <2>1
  <2>3. EdgesOf(turn, <<>>) = {}
    <3>1. \A d : d \intersect ToSet(<<>>) = {}
      BY DEF ToSet
    <3>2. Cardinality({}) = 0
      BY FS_EmptySet
    <3> QED
      BY <3>1, <3>2 DEF EdgesOf
  <2>4. Decided(turn, <<>>)
    BY <1>2 DEF Decided
  <2> QED
    BY <1>1, <1>2, <2>2, <2>3, <2>4, DecideKeeps
<1>3. CASE /\ parents[turn] # <<>>
           /\ doing' = "gather" /\ walk' = [NoWalk EXCEPT !.frontier = parents[turn]] /\ UNCHANGED turn
  <2>1. CacheGreedy' /\ PassDone'
    BY <1>1, <1>3, WalkKeeps
  <2>2. walk'.found = <<>> /\ walk'.frontier = parents[turn]
    BY <1>3 DEF NoWalk
  <2>3. Walked(parents, turn, <<>>, parents[turn])
    BY <1>1, WalkBegins DEF MroInv
  <2> QED
    BY <1>1, <1>3, <2>1, <2>2, <2>3 DEF EdgesInv
<1> QED
  BY <1>2, <1>3 DEF ComputeNextClass

LEMMA GatherOnKeeps == MroInv /\ EdgesInv /\ GatherOn => EdgesInv'
<1> SUFFICES ASSUME MroInv, EdgesInv, GatherOn PROVE EdgesInv'
  OBVIOUS
<1> DEFINE c == Head(walk.frontier)
           seen == Append(walk.found, c)
<1>1. /\ doing = "gather" /\ walk.frontier # <<>> /\ doing' = doing
      /\ walk' = IF c \in ToSet(walk.found)
                   THEN [walk EXCEPT !.frontier = Tail(@)]
                   ELSE [walk EXCEPT !.frontier = Tail(@) \o Unseen(c, seen), !.found = seen]
      /\ UNCHANGED <<strategy, parents, turn, orders, overrides, cache>>
  BY DEF GatherOn
<1>2. /\ walk \in Walks /\ parents \in Hierarchy /\ turn \in Class
      /\ parents[turn] # <<>> /\ Walked(parents, turn, walk.found, walk.frontier)
  BY <1>1 DEF MroInv, MroTypeOK, Walks, EdgesInv
<1>3. walk.frontier[1] = c
  BY <1>2 DEF Walks, Orders
<1>4. Walked(parents, turn, walk'.found, walk'.frontier)
  <2>1. CASE c \in ToSet(walk.found)
    <3>1. walk'.found = walk.found /\ walk'.frontier = Tail(walk.frontier)
      BY <1>1, <1>2, <2>1 DEF Walks
    <3> QED
      BY <1>1, <1>2, <1>3, <2>1, <3>1, WalkSkips DEF Found
  <2>2. CASE c \notin ToSet(walk.found)
    <3>1. walk'.found = seen /\ walk'.frontier = Tail(walk.frontier) \o Unseen(c, seen)
      <4> HIDE DEF c, seen
      <4> QED
        BY <1>1, <1>2, <2>2 DEF Walks
    <3> QED
      BY <1>1, <1>2, <2>2, <3>1, WalkOn DEF Unseen
  <2> QED
    BY <2>1, <2>2
<1> QED
  BY <1>1, <1>2, <1>4, WalkKeeps DEF EdgesInv

LEMMA GatherEndsKeeps == MroInv /\ EdgesInv /\ GatherEnds => EdgesInv'
<1> SUFFICES ASSUME MroInv, EdgesInv, GatherEnds PROVE EdgesInv'
  OBVIOUS
<1>1. /\ doing = "gather" /\ turn \in Class /\ walk.frontier = <<>>
      /\ UNCHANGED <<strategy, parents, walk, cache>>
  BY DEF GatherEnds, MroInv
<1>2. parents[turn] # <<>> /\ Walked(parents, turn, walk.found, <<>>)
  BY <1>1 DEF EdgesInv
<1>3. CASE strategy = "c3" /\ Linearize(turn, cache["pass"]) /\ UNCHANGED <<turn, orders, overrides>>
  <2>1. doing' = "c3"
    BY <1>3 DEF Linearize
  <2>2. CacheGreedy' /\ PassDone'
    BY <1>1, <1>3, WalkKeeps
  <2> QED
    BY <1>1, <1>2, <1>3, <2>1, <2>2 DEF EdgesInv
<1>4. CASE strategy # "c3" /\ Decide(walk.found)
  <2>1. Decided(turn, walk.found)
    BY <1>2, <1>4 DEF Decided, NoC3
  <2> QED
    BY <1>1, <1>4, <2>1, DecideKeeps DEF Decide, EdgesOf
<1> QED
  BY <1>3, <1>4 DEF GatherEnds

LEMMA ClassEndsKeeps == MroInv /\ EdgesInv /\ ClassEnds => EdgesInv'
<1> SUFFICES ASSUME MroInv, EdgesInv, ClassEnds PROVE EdgesInv'
  OBVIOUS
<1> DEFINE c3 == cache["pass"][turn]
           order == IF c3 # NoOrder THEN c3 ELSE walk.found
<1>1. /\ doing = "c3" /\ stack = <<>> /\ turn <= Classes /\ Decide(order)
      /\ UNCHANGED <<strategy, parents, cache>>
  BY DEF ClassEnds
<1>2. Subject = turn /\ Known = cache["pass"]
  BY <1>1 DEF Subject, Known, User
<1>3. turn \in Class /\ turn \in DOMAIN cache["pass"]
  BY <1>1, <1>2, Answered
<1>4. strategy = "c3" /\ parents[turn] # <<>> /\ Walked(parents, turn, walk.found, <<>>)
  BY <1>1 DEF EdgesInv
<1>5. Decided(turn, order)
  BY <1>3, <1>4 DEF Decided, NoC3
<1> HIDE DEF order
<1> QED
  BY <1>1, <1>3, <1>5, DecideKeeps DEF Decide, EdgesOf

\* The call begins to walk.
LEMMA LevelsKeep ==
  ASSUME MroInv, EdgesInv, UNCHANGED <<strategy, parents, orders, overrides, turn, cache>>,
         turn > Classes, called' \in Class, StartLevels(called'), NoC3("call", called')
  PROVE  EdgesInv'
<1>1. /\ doing' = "levels" /\ walk'.frontier = parents[called'] /\ walk'.found = <<called'>> /\ walk'.next = <<>>
      /\ walk'.found[1] = called'
  BY DEF StartLevels, NoWalk
<1>2. parents \in Hierarchy
  BY DEF MroInv
<1>3. Walked(parents, called', <<called'>>, parents[called'])
  BY <1>2, WalkBegins
<1>4. parents[called'] \o <<>> = parents[called']
  <2>1. parents[called'] \in Seq(Class)
    BY <1>2, ParentsAreClasses DEF Orders
  <2> QED
    BY <2>1, ConcatEmptySeq
<1>5. NoC3("call", called)'
  BY DEF NoC3
<1>6. CacheGreedy' /\ PassDone'
  BY WalkKeeps
<1>7. Walked(parents, called, walk.found, walk.frontier \o walk.next)'
  BY <1>1, <1>3, <1>4
<1> QED
  BY <1>1, <1>5, <1>6, <1>7 DEF EdgesInv

LEMMA CallKeeps == MroInv /\ EdgesInv /\ Call => EdgesInv'
<1> SUFFICES ASSUME MroInv, EdgesInv, Call PROVE EdgesInv'
  OBVIOUS
<1>1. /\ turn > Classes /\ ~(turn <= Classes)
      /\ UNCHANGED <<strategy, parents, turn, orders, overrides, cache>>
  BY MroAssumption DEF Call, MroInv, MroTypeOK
<1>2. PICK c \in Class :
        /\ called' = c
        /\ IF strategy = "c3" THEN Linearize(c, cache["call"]) /\ UNCHANGED walk
                              ELSE StartLevels(c) /\ UNCHANGED <<stack, visiting>>
  BY DEF Call
<1>3. CASE strategy = "c3" /\ Linearize(c, cache["call"])
  <2>1. doing' = "c3"
    BY <1>3 DEF Linearize
  <2>2. CacheGreedy' /\ PassDone'
    BY <1>1, WalkKeeps
  <2> QED
    BY <1>1, <1>3, <2>1, <2>2 DEF EdgesInv
<1>4. CASE strategy # "c3" /\ StartLevels(c)
  BY <1>1, <1>2, <1>4, LevelsKeep DEF NoC3
<1> QED
  BY <1>2, <1>3, <1>4

LEMMA CallLinearizedKeeps == MroInv /\ EdgesInv /\ CallLinearized => EdgesInv'
<1> SUFFICES ASSUME MroInv, EdgesInv, CallLinearized PROVE EdgesInv'
  OBVIOUS
<1> DEFINE c3 == cache["call"][called]
<1>1. /\ doing = "c3" /\ stack = <<>> /\ turn > Classes
      /\ IF c3 # NoOrder THEN doing' = "called" /\ reached' = c3 /\ UNCHANGED walk
                         ELSE StartLevels(called) /\ UNCHANGED reached
      /\ UNCHANGED <<strategy, parents, turn, orders, overrides, cache, called>>
  BY DEF CallLinearized
<1>2. ~(turn <= Classes)
  BY <1>1, MroAssumption DEF MroInv, MroTypeOK
<1>3. Subject = called /\ Known = cache["call"]
  BY <1>2 DEF Subject, Known, User
<1>4. called \in Class /\ called \in DOMAIN cache["call"] /\ strategy = "c3"
  BY <1>1, <1>3, Answered DEF EdgesInv
<1>5. CASE c3 # NoOrder
  <2>1. CacheGreedy' /\ PassDone'
    BY <1>1, WalkKeeps
  <2>2. Resolved'
    BY <1>1, <1>4, <1>5 DEF Resolved
  <2> QED
    BY <1>1, <1>4, <1>5, <2>1, <2>2 DEF EdgesInv
<1>6. CASE c3 = NoOrder
  <2>1. called' = called /\ StartLevels(called') /\ NoC3("call", called')
    BY <1>1, <1>4, <1>6 DEF NoC3
  <2> QED
    BY <1>1, <1>4, <2>1, LevelsKeep
<1> QED
  BY <1>5, <1>6

LEMMA LevelOnKeeps == MroInv /\ EdgesInv /\ LevelOn => EdgesInv'
<1> SUFFICES ASSUME MroInv, EdgesInv, LevelOn PROVE EdgesInv'
  OBVIOUS
<1> DEFINE c == Head(walk.frontier)
           seen == Append(walk.found, c)
           w == walk.frontier \o walk.next
<1>1. /\ doing = "levels" /\ walk.frontier # <<>> /\ doing' = doing
      /\ walk' = IF c \in ToSet(walk.found)
                   THEN [walk EXCEPT !.frontier = Tail(@)]
                   ELSE [walk EXCEPT !.frontier = Tail(@), !.found = seen, !.next = @ \o Unseen(c, seen)]
      /\ UNCHANGED <<strategy, parents, turn, orders, overrides, cache, called>>
  BY DEF LevelOn
<1>2. /\ walk \in Walks /\ parents \in Hierarchy /\ turn > Classes /\ called \in Class /\ NoC3("call", called)
      /\ Walked(parents, called, walk.found, w) /\ walk.found[1] = called /\ walk.found # <<>>
  BY <1>1 DEF MroInv, MroTypeOK, Walks, EdgesInv
<1>3. walk.frontier \in Seq(Class) /\ walk.next \in Seq(Class) /\ walk.found \in Seq(Class)
  BY <1>2 DEF Walks, Orders
<1>4. w # <<>> /\ Head(w) = c /\ Tail(w) = Tail(walk.frontier) \o walk.next
  BY <1>1, <1>3, HeadOfTwo
<1>5. w \in Seq(Class) /\ w[1] = c /\ c \in Class /\ Tail(walk.frontier) \in Seq(Class)
  <2>0. w \in Seq(Class)
    BY <1>3, ConcatProperties
  <2>1. Head(w) = w[1]
    <3> HIDE DEF w
    <3> QED
      BY <2>0
  <2> QED
    BY <1>1, <1>3, <1>4, <2>0, <2>1, HeadTailProperties
<1>6. /\ Walked(parents, called, walk'.found, walk'.frontier \o walk'.next)
      /\ walk'.found[1] = called
  <2>1. CASE c \in ToSet(walk.found)
    <3>1. walk'.found = walk.found /\ walk'.frontier = Tail(walk.frontier) /\ walk'.next = walk.next
      BY <1>1, <1>2, <2>1 DEF Walks
    <3>2. Walked(parents, called, walk.found, Tail(w))
      BY <1>2, <1>4, <1>5, <2>1, WalkSkips DEF Found
    <3> QED
      BY <1>2, <1>4, <3>1, <3>2
  <2>2. CASE c \notin ToSet(walk.found)
    <3>1. /\ walk'.found = seen /\ walk'.frontier = Tail(walk.frontier)
          /\ walk'.next = walk.next \o Unseen(c, seen)
      <4> HIDE DEF c, seen
      <4> QED
        BY <1>1, <1>2, <2>2 DEF Walks
    <3>2. Walked(parents, called, seen, Tail(w) \o Unseen(c, seen))
      <4>1. Head(w) \notin ToSet(walk.found)
        BY <1>4, <2>2
      <4>2. Walked(parents, called, Append(walk.found, Head(w)),
                   Tail(w) \o Kept(parents[Head(w)], Class \ ToSet(Append(walk.found, Head(w)))))
        <5> HIDE DEF w
        <5> QED
          BY <1>2, <1>4, <4>1, WalkOn
      <4> QED
        BY <1>4, <4>2 DEF Unseen
    <3>3. Unseen(c, seen) \in Seq(Class)
      BY <1>5, UnseenIs DEF Orders
    <3>4. Tail(w) \o Unseen(c, seen) = Tail(walk.frontier) \o (walk.next \o Unseen(c, seen))
      <4> HIDE DEF w, c, seen
      <4> DEFINE x == Tail(walk.frontier)
                 y == walk.next
                 z == Unseen(c, seen)
      <4>1. x \in Seq(Class) /\ y \in Seq(Class) /\ z \in Seq(Class) /\ Tail(w) = x \o y
        BY <1>3, <1>4, <1>5, <3>3
      <4> HIDE DEF x, y, z
      <4>2. (x \o y) \o z = x \o (y \o z)
        <5>1. x \in Seq(Class) /\ y \in Seq(Class) /\ z \in Seq(Class)
          BY <4>1
        <5> QED
          BY <5>1, JoinJoins
      <4> QED
        BY <4>1, <4>2 DEF x, y, z
    <3>5. seen[1] = called
      <4>1. Len(walk.found) \in Nat \ {0} /\ \A i \in 1..Len(walk.found) : seen[i] = walk.found[i]
        BY <1>2, <1>3, <1>5, AtTheEnd, TailIs
      <4> HIDE DEF seen
      <4> QED
        BY <1>2, <4>1
    <3> QED
      BY <3>1, <3>2, <3>4, <3>5
  <2> QED
    BY <2>1, <2>2
<1>7. NoC3("call", called)'
  BY <1>1, <1>2 DEF NoC3
<1>8. CacheGreedy' /\ PassDone'
  BY <1>1, WalkKeeps
<1> HIDE DEF c, seen, w
<1> QED
  BY <1>1, <1>2, <1>6, <1>7, <1>8 DEF EdgesInv

LEMMA LevelEndsKeeps == MroInv /\ EdgesInv /\ LevelEnds => EdgesInv'
<1> SUFFICES ASSUME MroInv, EdgesInv, LevelEnds PROVE EdgesInv'
  OBVIOUS
<1>1. /\ doing = "levels"
      /\ UNCHANGED <<strategy, parents, turn, orders, overrides, cache, called>>
  BY DEF LevelEnds
<1>2. /\ walk \in Walks /\ turn > Classes /\ called \in Class /\ NoC3("call", called) /\ walk.found # <<>>
      /\ Walked(parents, called, walk.found, walk.frontier \o walk.next) /\ walk.found[1] = called
  BY <1>1 DEF MroInv, MroTypeOK, Walks, EdgesInv
<1>3. walk.next \in Seq(Class)
  BY <1>2 DEF Walks, Orders
<1>4. CacheGreedy' /\ PassDone'
  BY <1>1, WalkKeeps
<1>5. CASE /\ walk.frontier = <<>>
           /\ walk' = [walk EXCEPT !.frontier = walk.next, !.next = <<>>, !.depth = @ + 1]
           /\ UNCHANGED <<doing, reached>>
  <2>1. walk'.found = walk.found /\ walk'.frontier = walk.next /\ walk'.next = <<>>
    BY <1>2, <1>5 DEF Walks
  <2>2. walk.frontier \o walk.next = walk.next /\ walk.next \o <<>> = walk.next
    BY <1>3, <1>5, ConcatEmptySeq
  <2>3. Walked(parents, called, walk'.found, walk'.frontier \o walk'.next)
    BY <1>2, <2>1, <2>2
  <2>4. NoC3("call", called)'
    BY <1>1, <1>2 DEF NoC3
  <2> QED
    BY <1>1, <1>2, <1>4, <1>5, <2>1, <2>3, <2>4 DEF EdgesInv
<1>6. CASE doing' = "called" /\ reached' = Tail(walk.found) /\ UNCHANGED walk
  <2>1. BreadthFirst(parents, called, walk.found)
    BY <1>2 DEF Walked
  <2>2. Resolved'
    BY <1>1, <1>2, <1>6, <2>1 DEF Resolved, NoC3
  <2> QED
    BY <1>1, <1>2, <1>4, <1>6, <2>2 DEF EdgesInv
<1> QED
  BY <1>5, <1>6 DEF LevelEnds

LEMMA IdleEdgesInv ==
  ASSUME MroIdle
  PROVE  EdgesInv
<1>1. CacheGreedy
  BY DEF MroIdle, CacheGreedy, GreedyCache
<1>2. PassDone
  <2>1. turn = 1 /\ \A c \in Class : ~(c < 1) /\ orders[c] = <<>>
    BY MroAssumption DEF MroIdle, Class
  <2>2. overrides = {} /\ {x \in Class : x < turn} = {}
    BY <2>1 DEF MroIdle
  <2> QED
    BY <2>1, <2>2 DEF PassDone
<1> QED
  BY <1>1, <1>2 DEF EdgesInv, MroIdle

LEMMA NextEdgesInv == MroInv /\ EdgesInv /\ [MroNext]_mroVars => EdgesInv'
<1> SUFFICES ASSUME MroInv, EdgesInv, [MroNext]_mroVars PROVE EdgesInv'
  OBVIOUS
<1>1. CASE UNCHANGED mroVars
  <2>1. CacheGreedy' /\ PassDone'
    BY <1>1, WalkKeeps DEF mroVars
  <2>2. Known' = Known
    BY <1>1 DEF mroVars, Known, User
  <2>3. (Resolved => Resolved') /\ (NoC3("call", called) => NoC3("call", called)')
    BY <1>1 DEF mroVars, Resolved, NoC3
  <2> QED
    BY <1>1, <2>1, <2>2, <2>3 DEF mroVars, EdgesInv
<1>2. CASE MroNext
  BY <1>2, ComputeNextClassKeeps, GatherOnKeeps, GatherEndsKeeps, ClassEndsKeeps, EnterKeeps, MergeBeginsKeeps,
     MergeOnKeeps, MergeEndsKeeps, CallKeeps, CallLinearizedKeeps, LevelOnKeeps, LevelEndsKeeps DEF MroNext
<1> QED
  BY <1>1, <1>2

\* Whatever the hierarchy, the strategy and the class called, an edge of the graph names the
\* class whose method the call reaches, and there is one for each method that several of the
\* ancestors define, if the lookup goes deep enough to see them all.
THEOREM EdgesAgree == MroSpec => []EdgesAgreeWithCalls
<1>1. MroInit => MroInv /\ EdgesInv
  BY InitMroInv, IdleEdgesInv DEF MroInit
<1>2. MroInv /\ EdgesInv /\ [MroNext]_mroVars => (MroInv /\ EdgesInv)'
  BY NextMroInv, NextEdgesInv
<1>3. MroInv /\ EdgesInv => EdgesAgreeWithCalls
  BY InvImpliesEdges
<1> QED
  BY <1>1, <1>2, <1>3, PTL DEF MroSpec
=============================================================================
