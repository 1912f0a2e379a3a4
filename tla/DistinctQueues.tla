------------------------------ MODULE DistinctQueues ------------------------------
(***************************************************************************)
(* Queues without duplicates: what Append, Tail, \o and the removal of one  *)
(* element do to the elements of such a sequence.  Used by the proofs about *)
(* the FIFO of waiters of the connection pool.                              *)
(***************************************************************************)
EXTENDS SequencesExt, SequenceTheorems, TLAPS

Occurs(x, w) == \E i \in DOMAIN w : w[i] = x
Distinct(w) == \A i, j \in DOMAIN w : w[i] = w[j] => i = j

\* Appending an element that does not occur.
LEMMA AppendQueue ==
  ASSUME NEW S, NEW w \in Seq(S), NEW x \in S, Distinct(w), ~Occurs(x, w)
  PROVE  /\ Append(w, x) \in Seq(S)
         /\ Append(w, x) # <<>>
         /\ Distinct(Append(w, x))
         /\ \A y : Occurs(y, Append(w, x)) <=> y = x \/ Occurs(y, w)
<1>1. /\ Append(w, x) \in Seq(S) /\ Len(Append(w, x)) = Len(w) + 1
      /\ \A i \in 1..Len(w) : Append(w, x)[i] = w[i]
      /\ Append(w, x)[Len(w) + 1] = x
      /\ Append(w, x) # <<>>
  BY AppendProperties
<1>2. /\ DOMAIN w = 1..Len(w) /\ Len(w) \in Nat
      /\ DOMAIN Append(w, x) = 1..(Len(w) + 1)
  BY <1>1, LenProperties
<1>3. Distinct(Append(w, x))
  BY <1>1, <1>2 DEF Distinct, Occurs
<1>4. ASSUME NEW y PROVE Occurs(y, Append(w, x)) <=> y = x \/ Occurs(y, w)
  BY <1>1, <1>2 DEF Occurs
<1> QED BY <1>1, <1>3, <1>4

\* Taking the first element.
LEMMA TailQueue ==
  ASSUME NEW S, NEW w \in Seq(S), w # <<>>, Distinct(w)
  PROVE  /\ Head(w) \in S /\ Occurs(Head(w), w)
         /\ Tail(w) \in Seq(S)
         /\ Distinct(Tail(w))
         /\ \A y : Occurs(y, Tail(w)) <=> y # Head(w) /\ Occurs(y, w)
<1>1. /\ Head(w) \in S /\ Tail(w) \in Seq(S)
      /\ Len(Tail(w)) = Len(w) - 1
      /\ \A i \in 1..Len(Tail(w)) : Tail(w)[i] = w[i + 1]
  BY HeadTailProperties
<1>2. /\ DOMAIN w = 1..Len(w) /\ Len(w) \in Nat \ {0} /\ Head(w) = w[1]
      /\ DOMAIN Tail(w) = 1..(Len(w) - 1)
  BY <1>1, LenProperties, EmptySeq
<1>3. Distinct(Tail(w))
  <2>1. ASSUME NEW i \in DOMAIN Tail(w), NEW j \in DOMAIN Tail(w), Tail(w)[i] = Tail(w)[j]
        PROVE i = j
    <3>1. i + 1 \in DOMAIN w /\ j + 1 \in DOMAIN w
      BY <1>2
    <3>2. w[i + 1] = w[j + 1]
      BY <1>1, <1>2, <2>1
    <3> QED BY <1>2, <3>1, <3>2 DEF Distinct
  <2> QED BY <2>1 DEF Distinct
<1>4. ASSUME NEW y PROVE Occurs(y, Tail(w)) <=> y # Head(w) /\ Occurs(y, w)
  <2>1. Occurs(y, Tail(w)) => y # Head(w) /\ Occurs(y, w)
    <3>1. SUFFICES ASSUME NEW i \in DOMAIN Tail(w), Tail(w)[i] = y
                   PROVE  y # Head(w) /\ Occurs(y, w)
      BY DEF Occurs
    <3>2. i + 1 \in DOMAIN w /\ w[i + 1] = y /\ i + 1 # 1 /\ 1 \in DOMAIN w
      BY <1>1, <1>2, <3>1
    <3> QED BY <1>2, <3>2 DEF Distinct, Occurs
  <2>2. y # Head(w) /\ Occurs(y, w) => Occurs(y, Tail(w))
    <3>1. SUFFICES ASSUME y # Head(w), NEW i \in DOMAIN w, w[i] = y
                   PROVE  Occurs(y, Tail(w))
      BY DEF Occurs
    <3>2. i - 1 \in DOMAIN Tail(w) /\ Tail(w)[i - 1] = y
      BY <1>1, <1>2, <3>1
    <3> QED BY <3>2 DEF Occurs
  <2> QED BY <2>1, <2>2
<1>5. Occurs(Head(w), w)
  BY <1>2 DEF Occurs
<1> QED BY <1>1, <1>3, <1>4, <1>5

\* Two queues one after the other.
LEMMA ConcatQueue ==
  ASSUME NEW S, NEW v \in Seq(S), NEW w \in Seq(S), Distinct(v), Distinct(w),
         \A x : Occurs(x, v) => ~Occurs(x, w)
  PROVE  /\ v \o w \in Seq(S) /\ Distinct(v \o w)
         /\ \A x : Occurs(x, v \o w) <=> Occurs(x, v) \/ Occurs(x, w)
<1>1. /\ v \o w \in Seq(S) /\ Len(v \o w) = Len(v) + Len(w)
      /\ \A i \in 1..(Len(v) + Len(w)) :
           (v \o w)[i] = IF i <= Len(v) THEN v[i] ELSE w[i - Len(v)]
  BY ConcatProperties
<1>2. /\ DOMAIN v = 1..Len(v) /\ DOMAIN w = 1..Len(w) /\ DOMAIN (v \o w) = 1..(Len(v) + Len(w))
      /\ Len(v) \in Nat /\ Len(w) \in Nat
  BY <1>1, LenProperties
<1> DEFINE q == v \o w
<1> HIDE DEF q
<1>3. ASSUME NEW i \in DOMAIN q
      PROVE  \/ i \in DOMAIN v /\ q[i] = v[i]
             \/ i - Len(v) \in DOMAIN w /\ q[i] = w[i - Len(v)]
  BY <1>1, <1>2 DEF q
<1>4. \A i \in DOMAIN v : i \in DOMAIN q /\ q[i] = v[i]
  BY <1>1, <1>2 DEF q
<1>5. ASSUME NEW i \in DOMAIN w PROVE i + Len(v) \in DOMAIN q /\ q[i + Len(v)] = w[i]
  <2>1. i + Len(v) \in 1..(Len(v) + Len(w)) /\ ~(i + Len(v) <= Len(v)) /\ (i + Len(v)) - Len(v) = i
    BY <1>2
  <2> QED
    BY <1>1, <1>2, <2>1 DEF q
<1>6. ASSUME NEW i \in DOMAIN q, NEW j \in DOMAIN q, q[i] = q[j] PROVE i = j
  <2>1. CASE i \in DOMAIN v /\ q[i] = v[i] /\ j \in DOMAIN v /\ q[j] = v[j]
    BY <1>6, <2>1 DEF Distinct
  <2>2. CASE i - Len(v) \in DOMAIN w /\ q[i] = w[i - Len(v)] /\ j - Len(v) \in DOMAIN w /\ q[j] = w[j - Len(v)]
    <3>1. i - Len(v) = j - Len(v)
      BY <1>6, <2>2 DEF Distinct
    <3> QED
      BY <1>1, <1>2, <3>1 DEF q
  <2>3. CASE i \in DOMAIN v /\ q[i] = v[i] /\ j - Len(v) \in DOMAIN w /\ q[j] = w[j - Len(v)]
    BY <1>6, <2>3 DEF Occurs
  <2>4. CASE j \in DOMAIN v /\ q[j] = v[j] /\ i - Len(v) \in DOMAIN w /\ q[i] = w[i - Len(v)]
    BY <1>6, <2>4 DEF Occurs
  <2> QED
    BY <1>3, <2>1, <2>2, <2>3, <2>4
<1>7. Distinct(q)
  BY <1>6 DEF Distinct
<1>8. \A x : Occurs(x, q) <=> Occurs(x, v) \/ Occurs(x, w)
  BY <1>3, <1>4, <1>5 DEF Occurs
<1> QED
  BY <1>1, <1>7, <1>8 DEF q

\* Removing the element at one position.
LEMMA RemoveAtQueue ==
  ASSUME NEW S, NEW w \in Seq(S), NEW k \in DOMAIN w, Distinct(w)
  PROVE  /\ RemoveAt(w, k) \in Seq(S)
         /\ Len(RemoveAt(w, k)) = Len(w) - 1
         /\ Distinct(RemoveAt(w, k))
         /\ \A y : Occurs(y, RemoveAt(w, k)) <=> y # w[k] /\ Occurs(y, w)
<1> DEFINE r == RemoveAt(w, k)
           a == SubSeq(w, 1, k - 1)
           b == SubSeq(w, k + 1, Len(w))
<1>1. DOMAIN w = 1..Len(w) /\ Len(w) \in Nat /\ k \in 1..Len(w)
  BY LenProperties
<1>2. /\ a \in Seq(S) /\ Len(a) = k - 1
      /\ \A i \in 1..(k - 1) : a[i] = w[i]
  BY <1>1, SubSeqProperties
<1>3. /\ b \in Seq(S) /\ Len(b) = Len(w) - k
      /\ \A i \in 1..(Len(w) - k) : b[i] = w[k + i]
  <2>1. /\ b \in Seq(S)
        /\ Len(b) = IF k + 1 <= Len(w) THEN Len(w) - (k + 1) + 1 ELSE 0
        /\ \A i \in 1..Len(b) : b[i] = w[k + 1 + i - 1]
    BY <1>1, SubSeqProperties
  <2> HIDE DEF b
  <2>2. Len(b) = Len(w) - k
    BY <1>1, <2>1
  <2>3. ASSUME NEW i \in 1..(Len(w) - k) PROVE b[i] = w[k + i]
    <3>1. k + 1 + i - 1 = k + i
      BY <1>1
    <3> QED BY <2>1, <2>2, <3>1
  <2> QED BY <2>1, <2>2, <2>3
<1>4. /\ r \in Seq(S) /\ Len(r) = Len(w) - 1
      /\ \A i \in 1..(Len(w) - 1) : r[i] = IF i < k THEN w[i] ELSE w[i + 1]
  <2>1. /\ a \o b \in Seq(S) /\ Len(a \o b) = Len(a) + Len(b)
        /\ \A i \in 1..(Len(a) + Len(b)) :
             (a \o b)[i] = IF i <= Len(a) THEN a[i] ELSE b[i - Len(a)]
    BY <1>2, <1>3, ConcatProperties
  <2>2. r = a \o b
    BY DEF RemoveAt
  <2> HIDE DEF a, b, r
  <2>3. ASSUME NEW i \in 1..(Len(w) - 1) PROVE r[i] = IF i < k THEN w[i] ELSE w[i + 1]
    <3>1. CASE i < k
      BY <1>1, <1>2, <1>3, <2>1, <2>2, <3>1
    <3>2. CASE i >= k
      <4>1. Len(a) = k - 1 /\ ~(i <= Len(a)) /\ i \in 1..(Len(a) + Len(b))
        BY <1>1, <1>2, <1>3, <3>2
      <4>2. r[i] = b[i - Len(a)]
        BY <2>1, <2>2, <4>1
      <4>3. i - Len(a) \in 1..(Len(w) - k) /\ k + (i - Len(a)) = i + 1
        BY <1>1, <3>2, <4>1
      <4>4. b[i - Len(a)] = w[i + 1]
        BY <1>3, <4>3
      <4> QED BY <1>1, <3>2, <4>2, <4>4
    <3> QED BY <1>1, <3>1, <3>2
  <2>4. Len(r) = Len(w) - 1
    <3>1. Len(r) = Len(a) + Len(b)
      BY <2>1, <2>2
    <3> QED BY <1>1, <1>2, <1>3, <3>1
  <2> QED BY <2>1, <2>2, <2>3, <2>4
<1> HIDE DEF r
<1>5. DOMAIN r = 1..(Len(w) - 1)
  BY <1>4, LenProperties
<1>6. Distinct(r)
  <2> DEFINE at(i) == IF i < k THEN i ELSE i + 1
  <2>1. \A i \in DOMAIN r : at(i) \in DOMAIN w /\ r[i] = w[at(i)]
    BY <1>1, <1>4, <1>5
  <2>2. \A i, j \in DOMAIN r : at(i) = at(j) => i = j
    BY <1>1, <1>5
  <2> HIDE DEF at
  <2> QED BY <2>1, <2>2 DEF Distinct
<1>7. ASSUME NEW y PROVE Occurs(y, r) <=> y # w[k] /\ Occurs(y, w)
  <2>1. Occurs(y, r) => y # w[k] /\ Occurs(y, w)
    <3>1. SUFFICES ASSUME NEW i \in DOMAIN r, r[i] = y
                   PROVE  y # w[k] /\ Occurs(y, w)
      BY DEF Occurs
    <3>2. CASE i < k
      <4>1. i \in DOMAIN w /\ w[i] = y /\ i # k
        BY <1>1, <1>4, <1>5, <3>1, <3>2
      <4> QED BY <4>1 DEF Distinct, Occurs
    <3>3. CASE i >= k
      <4>1. i + 1 \in DOMAIN w /\ w[i + 1] = y /\ i + 1 # k
        BY <1>1, <1>4, <1>5, <3>1, <3>3
      <4> QED BY <4>1 DEF Distinct, Occurs
    <3> QED BY <1>1, <1>5, <3>2, <3>3
  <2>2. ASSUME y # w[k], NEW i \in DOMAIN w, w[i] = y PROVE Occurs(y, r)
    <3>1. CASE i < k
      BY <1>1, <1>4, <1>5, <2>2, <3>1 DEF Occurs
    <3>2. CASE i > k
      <4>1. i - 1 \in DOMAIN r /\ r[i - 1] = y
        BY <1>1, <1>4, <1>5, <2>2, <3>2
      <4> QED BY <4>1 DEF Occurs
    <3> QED BY <1>1, <2>2, <3>1, <3>2
  <2> QED BY <2>1, <2>2 DEF Occurs
<1> QED BY <1>4, <1>6, <1>7 DEF r
=============================================================================
