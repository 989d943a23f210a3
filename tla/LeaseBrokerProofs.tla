-------------------------- MODULE LeaseBrokerProofs --------------------------
(***************************************************************************)
(* Theorems about LeaseBroker, for any jobs, worker slots and budgets.     *)
(***************************************************************************)
EXTENDS LeaseBroker, FiniteSetTheorems, SequenceTheorems, TLAPS

In(q, k) == \E i \in DOMAIN q : q[i] = k
Distinct(q) == \A i, k \in DOMAIN q : q[i] = q[k] => i = k

-----------------------------------------------------------------------------
(* Sequences as queues.                                                    *)

\* Inserting into a sequence adds one place and moves the later ones up.
LEMMA InsertAtFacts ==
    ASSUME NEW S, NEW q \in Seq(S), NEW e \in S, NEW n \in 0..Len(q)
    PROVE  LET r == InsertAt(q, n + 1, e) IN
           /\ r \in Seq(S) /\ Len(r) = Len(q) + 1
           /\ \A i \in 1..Len(r) : r[i] = IF i <= n THEN q[i] ELSE IF i = n + 1 THEN e ELSE q[i - 1]
<1> DEFINE a == SubSeq(q, 1, n)
           b == SubSeq(q, n + 1, Len(q))
<1>1. /\ a \in Seq(S) /\ Len(a) = n
      /\ \A i \in 1..n : a[i] = q[i]
  BY SubSeqProperties
<1>2. /\ b \in Seq(S) /\ Len(b) = Len(q) - n
      /\ \A i \in 1..Len(b) : b[i] = q[n + i]
  BY SubSeqProperties
<1>3. InsertAt(q, n + 1, e) = a \o <<e>> \o b
  <2>1. (n + 1) - 1 = n
    OBVIOUS
  <2> QED BY <2>1 DEF InsertAt
<1>4. <<e>> \in Seq(S) /\ Len(<<e>>) = 1 /\ <<e>>[1] = e
  OBVIOUS
<1> HIDE DEF a, b
<1>5. /\ a \o <<e>> \in Seq(S) /\ Len(a \o <<e>>) = n + 1
      /\ \A i \in 1..n + 1 : (a \o <<e>>)[i] = IF i <= n THEN q[i] ELSE e
  BY <1>1, <1>4
<1>6. /\ (a \o <<e>>) \o b \in Seq(S) /\ Len((a \o <<e>>) \o b) = Len(q) + 1
      /\ \A i \in 1..Len(q) + 1 : ((a \o <<e>>) \o b)[i] =
            IF i <= n + 1 THEN (a \o <<e>>)[i] ELSE b[i - (n + 1)]
  <2> DEFINE ae == a \o <<e>>
  <2>1. ae \in Seq(S) /\ Len(ae) = n + 1
    BY <1>5
  <2> HIDE DEF ae
  <2>2. /\ ae \o b \in Seq(S) /\ Len(ae \o b) = Len(ae) + Len(b)
        /\ \A i \in 1..Len(ae) + Len(b) : (ae \o b)[i] = IF i <= Len(ae) THEN ae[i] ELSE b[i - Len(ae)]
    BY <1>2, <2>1, ConcatProperties
  <2>3. Len(ae) + Len(b) = Len(q) + 1
    BY <1>2, <2>1
  <2>4. ae \o b \in Seq(S) /\ Len(ae \o b) = Len(q) + 1
    BY <2>2, <2>3
  <2>5. \A i \in 1..Len(q) + 1 : (ae \o b)[i] = IF i <= n + 1 THEN ae[i] ELSE b[i - (n + 1)]
    BY <2>1, <2>2, <2>3
  <2> QED BY <2>4, <2>5 DEF ae
<1>0. Len(q) \in Nat /\ n \in Nat /\ n <= Len(q) /\ Len(b) = Len(q) - n
  BY <1>2
<1> DEFINE c == (a \o <<e>>) \o b
<1>7. InsertAt(q, n + 1, e) = c
  BY <1>3
<1>8. /\ c \in Seq(S) /\ Len(c) = Len(q) + 1
      /\ \A i \in 1..Len(q) + 1 : i > n + 1 => c[i] = b[i - (n + 1)]
      /\ \A i \in 1..Len(q) + 1 : i <= n => c[i] = q[i]
      /\ c[n + 1] = e
  <2>1. \A i \in 1..Len(q) + 1 : i > n + 1 => ((a \o <<e>>) \o b)[i] = b[i - (n + 1)]
    BY <1>0, <1>6
  <2>2. \A i \in 1..Len(q) + 1 : i <= n => ((a \o <<e>>) \o b)[i] = q[i]
    BY <1>0, <1>5, <1>6
  <2>3. ((a \o <<e>>) \o b)[n + 1] = e
    BY <1>0, <1>5, <1>6
  <2> QED BY <1>6, <2>1, <2>2, <2>3
<1> HIDE DEF c
<1>9. ASSUME NEW i \in 1..Len(q) + 1, i > n + 1 PROVE c[i] = q[i - 1]
  <2>1. i - (n + 1) \in 1..Len(b) /\ n + (i - (n + 1)) = i - 1
    BY <1>0, <1>9
  <2>2. b[i - (n + 1)] = q[n + (i - (n + 1))]
    BY <1>2, <2>1
  <2> QED BY <1>8, <1>9, <2>1, <2>2
<1>10. \A i \in 1..Len(c) : c[i] = IF i <= n THEN q[i] ELSE IF i = n + 1 THEN e ELSE q[i - 1]
  BY <1>0, <1>8, <1>9
<1> QED BY <1>7, <1>8, <1>10

\* A job takes one place in the queue, whatever the order says (enqueue).
LEMMA PlaceFacts ==
    ASSUME NEW q \in Seq(Jobs), NEW order, NEW j \in Jobs, Distinct(q), ~In(q, j)
    PROVE  LET r == Place(q, order, j) IN
           /\ r \in Seq(Jobs) /\ Distinct(r)
           /\ \A k : In(r, k) <=> k = j \/ In(q, k)
<1> DEFINE earlier == {i \in DOMAIN q : order[q[i]] < order[j]}
           n == Cardinality(earlier)
           r == InsertAt(q, n + 1, j)
<1>1. n \in 0..Len(q)
  <2>1. DOMAIN q = 1..Len(q) /\ Len(q) \in Nat
    OBVIOUS
  <2>2. IsFiniteSet(1..Len(q)) /\ Cardinality(1..Len(q)) = Len(q)
    BY <2>1, FS_Interval
  <2>3. Cardinality(earlier) <= Cardinality(1..Len(q)) /\ IsFiniteSet(earlier)
    BY <2>1, <2>2, FS_Subset
  <2> QED BY <2>1, <2>2, <2>3, FS_CardinalityType
<1>2. Place(q, order, j) = r
  BY DEF Place
<1> HIDE DEF n
<1>3. /\ r \in Seq(Jobs) /\ Len(r) = Len(q) + 1
      /\ \A i \in 1..Len(r) : r[i] = IF i <= n THEN q[i] ELSE IF i = n + 1 THEN j ELSE q[i - 1]
  BY <1>1, InsertAtFacts
<1> HIDE DEF r
<1>4. ASSUME NEW i \in 1..Len(q) PROVE q[i] # j
  BY DEF In
<1>5. Distinct(r)
  <2>0. Len(q) \in Nat /\ n \in Nat /\ DOMAIN q = 1..Len(q) /\ DOMAIN r = 1..Len(q) + 1
    BY <1>1, <1>3
  <2> SUFFICES ASSUME NEW i \in 1..Len(q) + 1, NEW k \in 1..Len(q) + 1, i < k, r[i] = r[k] PROVE FALSE
    BY <2>0 DEF Distinct
  <2>1. CASE k <= n
    BY <1>1, <1>3, <2>1 DEF Distinct
  <2>2. CASE k = n + 1
    <3>1. i \in 1..Len(q) /\ r[i] = q[i]
      BY <2>0, <1>3, <2>2
    <3>2. r[k] = j
      BY <2>0, <1>3, <2>2
    <3> QED BY <1>4, <3>1, <3>2
  <2>3. CASE k > n + 1
    <3>1. r[k] = q[k - 1] /\ k - 1 \in 1..Len(q)
      BY <1>1, <1>3, <2>3
    <3>2. CASE i <= n
      BY <1>1, <1>3, <3>1, <3>2, <2>3 DEF Distinct
    <3>3. CASE i = n + 1
      BY <1>1, <1>3, <1>4, <3>1, <3>3
    <3>4. CASE i > n + 1
      BY <1>1, <1>3, <3>1, <3>4 DEF Distinct
    <3> QED BY <1>1, <3>2, <3>3, <3>4
  <2> QED BY <1>1, <2>1, <2>2, <2>3
<1>6. ASSUME NEW k PROVE In(r, k) <=> k = j \/ In(q, k)
  <2>1. In(r, k) => k = j \/ In(q, k)
    BY <1>1, <1>3 DEF In
  <2>2. In(r, j)
    <3>1. n + 1 \in 1..Len(r) /\ r[n + 1] = j
      BY <1>1, <1>3
    <3> QED BY <1>3, <3>1 DEF In
  <2>3. ASSUME NEW i \in 1..Len(q) PROVE In(r, q[i])
    <3>1. CASE i <= n
      <4>1. i \in 1..Len(r) /\ r[i] = q[i]
        BY <1>1, <1>3, <3>1
      <4> QED BY <1>3, <4>1 DEF In
    <3>2. CASE i > n
      <4>1. i + 1 \in 1..Len(r) /\ r[i + 1] = q[i]
        BY <1>1, <1>3, <3>2
      <4> QED BY <1>3, <4>1 DEF In
    <3> QED BY <1>1, <3>1, <3>2
  <2> QED BY <2>1, <2>2, <2>3 DEF In
<1> QED BY <1>2, <1>3, <1>5, <1>6

\* Removing a job from a queue that holds it once closes the gap.
LEMMA RemoveFirstFacts ==
    ASSUME NEW S, NEW q \in Seq(S), NEW j, Distinct(q), NEW n \in 1..Len(q), q[n] = j
    PROVE  LET r == RemoveFirst(q, j) IN
           /\ r \in Seq(S) /\ Len(r) = Len(q) - 1
           /\ \A i \in 1..Len(r) : r[i] = IF i < n THEN q[i] ELSE q[i + 1]
<1> DEFINE I == {i \in 1..Len(q) : q[i] = j}
<1>2. I = {n} /\ n \in Nat
  BY DEF Distinct
<1>3. SelectInSeq(q, LAMBDA v : v = j) = n
  BY <1>2 DEF SelectInSeq, Min
<1> DEFINE a == SubSeq(q, 1, n - 1)
           b == SubSeq(q, n + 1, Len(q))
           r == a \o b
<1>4. RemoveFirst(q, j) = r
  BY <1>3 DEF RemoveFirst, RemoveAt
<1>5. /\ a \in Seq(S) /\ Len(a) = n - 1
      /\ \A i \in 1..Len(a) : a[i] = q[i]
  BY SubSeqProperties
<1>6. /\ b \in Seq(S) /\ Len(b) = Len(q) - n
      /\ \A i \in 1..Len(b) : b[i] = q[n + i]
  BY SubSeqProperties
<1> HIDE DEF a, b
<1>7. /\ r \in Seq(S) /\ Len(r) = Len(q) - 1
      /\ \A i \in 1..Len(r) : r[i] = IF i < n THEN q[i] ELSE q[i + 1]
  <2>1. /\ r \in Seq(S) /\ Len(r) = Len(a) + Len(b)
        /\ \A i \in 1..Len(a) + Len(b) : r[i] = IF i <= Len(a) THEN a[i] ELSE b[i - Len(a)]
    BY <1>5, <1>6, ConcatProperties DEF r
  <2>0. Len(q) \in Nat /\ n \in Nat /\ n <= Len(q) /\ Len(a) = n - 1 /\ Len(b) = Len(q) - n
    BY <1>5, <1>6
  <2>2. Len(a) + Len(b) = Len(q) - 1
    BY <2>0
  <2>3. ASSUME NEW i \in 1..Len(q) - 1 PROVE r[i] = IF i < n THEN q[i] ELSE q[i + 1]
    <3>1. CASE i < n
      BY <2>0, <1>5, <2>1, <2>2, <3>1
    <3>2. CASE i >= n
      <4>1. i - Len(a) \in 1..Len(b) /\ n + (i - Len(a)) = i + 1
        BY <2>0, <3>2
      <4>2. b[i - Len(a)] = q[n + (i - Len(a))]
        BY <1>6, <4>1
      <4>3. r[i] = b[i - Len(a)]
        BY <2>0, <2>1, <2>2, <3>2
      <4> QED BY <2>0, <3>2, <4>1, <4>2, <4>3
    <3> QED BY <2>0, <3>1, <3>2
  <2> QED BY <2>1, <2>2, <2>3
<1> QED BY <1>4, <1>7

\* Removing a job from a queue that holds nothing twice leaves all the others.
LEMMA UnqueueFacts ==
    ASSUME NEW S, NEW q \in Seq(S), NEW j, Distinct(q)
    PROVE  LET r == RemoveFirst(q, j) IN
           /\ r \in Seq(S) /\ Distinct(r)
           /\ \A k : In(r, k) <=> k # j /\ In(q, k)
<1>1. CASE ~In(q, j)
  <2>1. RemoveFirst(q, j) = q
    BY <1>1 DEF In, RemoveFirst
  <2> QED BY <1>1, <2>1
<1>2. CASE In(q, j)
  <2>1. PICK n \in 1..Len(q) : q[n] = j
    BY <1>2 DEF In
  <2> DEFINE r == RemoveFirst(q, j)
  <2>7. /\ r \in Seq(S) /\ Len(r) = Len(q) - 1
        /\ \A i \in 1..Len(r) : r[i] = IF i < n THEN q[i] ELSE q[i + 1]
    BY <2>1, RemoveFirstFacts
  <2> HIDE DEF r
  <2>8. Distinct(r)
    <3> SUFFICES ASSUME NEW i \in 1..Len(r), NEW k \in 1..Len(r), r[i] = r[k] PROVE i = k
      BY <2>7 DEF Distinct
    <3>0. Len(q) \in Nat /\ DOMAIN q = 1..Len(q)
      OBVIOUS
    <3>1. \A x, y \in 1..Len(q) : q[x] = q[y] => x = y
      BY <3>0 DEF Distinct
    <3>2. CASE i < n /\ k < n
      <4>1. r[i] = q[i] /\ i \in 1..Len(q)
        BY <2>1, <2>7, <3>0, <3>2
      <4>2. r[k] = q[k] /\ k \in 1..Len(q)
        BY <2>1, <2>7, <3>0, <3>2
      <4> QED BY <3>1, <4>1, <4>2
    <3>3. CASE i < n /\ k >= n
      <4>1. r[i] = q[i] /\ i \in 1..Len(q)
        BY <2>1, <2>7, <3>0, <3>3
      <4>2. r[k] = q[k + 1] /\ k + 1 \in 1..Len(q)
        BY <2>1, <2>7, <3>0, <3>3
      <4>3. i = k + 1
        BY <3>1, <4>1, <4>2
      <4> QED BY <2>7, <3>0, <3>3, <4>3
    <3>4. CASE i >= n /\ k < n
      <4>1. r[i] = q[i + 1] /\ i + 1 \in 1..Len(q)
        BY <2>1, <2>7, <3>0, <3>4
      <4>2. r[k] = q[k] /\ k \in 1..Len(q)
        BY <2>1, <2>7, <3>0, <3>4
      <4>3. i + 1 = k
        BY <3>1, <4>1, <4>2
      <4> QED BY <2>7, <3>0, <3>4, <4>3
    <3>5. CASE i >= n /\ k >= n
      <4>1. r[i] = q[i + 1] /\ i + 1 \in 1..Len(q)
        BY <2>1, <2>7, <3>0, <3>5
      <4>2. r[k] = q[k + 1] /\ k + 1 \in 1..Len(q)
        BY <2>1, <2>7, <3>0, <3>5
      <4>3. i + 1 = k + 1
        BY <3>1, <4>1, <4>2
      <4> QED BY <2>7, <3>0, <4>3
    <3>6. i \in Nat /\ k \in Nat /\ n \in Nat
      BY <2>1, <2>7, <3>0
    <3> QED BY <3>2, <3>3, <3>4, <3>5, <3>6
  <2>9. ASSUME NEW k PROVE In(r, k) <=> k # j /\ In(q, k)
    <3>1. In(r, k) => In(q, k) /\ k # j
      BY <2>1, <2>7 DEF In, Distinct
    <3>2. ASSUME NEW i \in 1..Len(q), i # n PROVE In(r, q[i])
      <4>1. CASE i < n
        <5>1. i \in 1..Len(r) /\ r[i] = q[i]
          BY <2>1, <2>7, <4>1
        <5> QED BY <2>7, <5>1 DEF In
      <4>2. CASE i > n
        <5>1. i - 1 \in 1..Len(r) /\ r[i - 1] = q[i]
          BY <2>1, <2>7, <4>2
        <5> QED BY <2>7, <5>1 DEF In
      <4> QED BY <3>2, <2>1, <4>1, <4>2
    <3> QED BY <2>1, <3>1, <3>2 DEF In
  <2> QED BY <2>7, <2>8, <2>9 DEF r
<1> QED BY <1>1, <1>2

\* Taking the head of such a queue leaves all the others.
LEMMA TailFacts ==
    ASSUME NEW S, NEW q \in Seq(S), q # <<>>, Distinct(q)
    PROVE  /\ Head(q) \in S /\ In(q, Head(q))
           /\ Tail(q) \in Seq(S) /\ Distinct(Tail(q))
           /\ \A k : In(Tail(q), k) <=> k # Head(q) /\ In(q, k)
<1>1. /\ Head(q) \in S /\ Head(q) = q[1] /\ 1 \in 1..Len(q)
      /\ Tail(q) \in Seq(S) /\ Len(Tail(q)) = Len(q) - 1
      /\ \A i \in 1..Len(Tail(q)) : Tail(q)[i] = q[i + 1]
  BY HeadTailProperties
<1>2. Distinct(Tail(q))
  BY <1>1 DEF Distinct
<1>3. ASSUME NEW k PROVE In(Tail(q), k) <=> k # Head(q) /\ In(q, k)
  <2>1. In(Tail(q), k) => k # Head(q) /\ In(q, k)
    BY <1>1 DEF In, Distinct
  <2>2. ASSUME NEW i \in 2..Len(q) PROVE In(Tail(q), q[i])
    <3>1. i - 1 \in 1..Len(Tail(q)) /\ Tail(q)[i - 1] = q[i]
      BY <1>1
    <3>2. i - 1 \in DOMAIN Tail(q)
      BY <1>1, <3>1
    <3> QED BY <3>1, <3>2 DEF In
  <2> QED BY <1>1, <2>1, <2>2 DEF In
<1> QED BY <1>1, <1>2, <1>3 DEF In

-----------------------------------------------------------------------------
(* The inductive invariant.                                                *)

\* The invariant in the vocabulary of the queue lemmas.
LEMMA InvFacts ==
    ASSUME IInv
    PROVE  /\ Distinct(queue) /\ Distinct(waiters)
           /\ \A j \in Jobs : Open(j) <=> In(queue, j) \/ j \in leased
           /\ \A j \in leased : ~In(queue, j)
           /\ \A s \in Slots : In(waiters, s) => conn[s] # "none" /\ granted[s] = None
BY DEF IInv, JobsAccountedFor, PollsAnsweredOnce, Waiting, Distinct, In

\* A lease names its job and its number.
LEMMA LeaseFacts ==
    \A l \in Leases : l # None /\ l[1] \in Jobs /\ l[2] \in Nat /\ l = <<l[1], l[2]>>
BY NoneAssumption DEF Leases

\* enqueue, called for any job that is in neither place: by dispatch, a reclaim or an
\* abandoned grant.  The job is then in exactly one place.
LEMMA EnqueueFacts ==
    ASSUME IInv, NEW j \in Jobs, NEW order, ~In(queue, j), conn' = conn,
           Enqueue(j, order, leased \ {j})
    PROVE  /\ queue' \in Seq(Jobs) /\ Distinct(queue')
           /\ leased' \subseteq Jobs /\ lapsed' \subseteq leased' /\ overdue' \subseteq leased'
           /\ \A k \in Jobs : In(queue', k) \/ k \in leased' <=> k = j \/ In(queue, k) \/ k \in leased
           /\ \A k \in leased' : ~In(queue', k)
           /\ grants' \in [Jobs -> Nat] /\ \A k \in Jobs : k # j => grants'[k] = grants[k]
           /\ waiters' \in Seq(Slots) /\ granted' \in [Slots -> Leases \cup {None}]
           /\ NoIdleWorkerBesideAJob' /\ PollsAnsweredOnce'
<1> USE InvFacts
<1>0. TypeOK /\ NoIdleWorkerBesideAJob /\ PollsAnsweredOnce
  BY DEF IInv
<1>1. CASE waiters = <<>>
  <2>1. /\ queue' = Place(queue, order, j)
        /\ leased' = leased \ {j} /\ lapsed' = lapsed \ {j} /\ overdue' = overdue \ {j}
        /\ UNCHANGED <<grants, granted, waiters>>
    BY <1>1 DEF Enqueue
  <2>2. /\ queue' \in Seq(Jobs) /\ Distinct(queue')
        /\ \A k : In(queue', k) <=> k = j \/ In(queue, k)
    BY <1>0, <2>1, PlaceFacts DEF TypeOK
  <2>3. NoIdleWorkerBesideAJob' /\ PollsAnsweredOnce'
    BY <1>0, <1>1, <2>1 DEF NoIdleWorkerBesideAJob, PollsAnsweredOnce
  <2> QED BY <1>0, <2>1, <2>2, <2>3 DEF TypeOK
<1>2. CASE waiters # <<>>
  <2> DEFINE w == Head(waiters)
  <2>1. /\ Grant(j, w, leased \ {j}) /\ waiters' = Tail(waiters) /\ queue' = queue
    BY <1>2 DEF Enqueue
  <2>2. /\ w \in Slots /\ In(waiters, w)
        /\ waiters' \in Seq(Slots) /\ Distinct(waiters')
        /\ \A k : In(waiters', k) <=> k # w /\ In(waiters, k)
    BY <1>0, <1>2, <2>1, TailFacts DEF TypeOK
  <2> HIDE DEF w
  <2>3. /\ leased' = leased \cup {j} /\ lapsed' = lapsed \ {j} /\ overdue' = overdue \ {j}
        /\ grants' = [grants EXCEPT ![j] = @ + 1]
        /\ granted' = [granted EXCEPT ![w] = <<j, grants[j] + 1>>]
    BY <2>1 DEF Grant
  <2>4. grants' \in [Jobs -> Nat] /\ \A k \in Jobs : k # j => grants'[k] = grants[k]
    BY <1>0, <2>3 DEF TypeOK
  <2>5. granted' \in [Slots -> Leases \cup {None}]
    <3>1. <<j, grants[j] + 1>> \in Leases
      BY <1>0 DEF TypeOK, Leases
    <3> QED BY <1>0, <2>3, <3>1 DEF TypeOK
  <2>6. queue' = <<>>
    BY <1>0, <1>2, <2>1 DEF NoIdleWorkerBesideAJob
  <2>7. \A s \in Slots : In(waiters', s) => conn'[s] # "none" /\ granted'[s] = None
    BY <1>0, <2>2, <2>3 DEF TypeOK
  <2>8. \A s \in Slots : granted'[s] # None => conn'[s] # "none"
    BY <1>0, <2>2, <2>3 DEF TypeOK, PollsAnsweredOnce
  <2>9. PollsAnsweredOnce'
    <3>1. /\ \A i \in DOMAIN waiters' : waiters'[i] \in Slots /\ In(waiters', waiters'[i])
      BY <2>2 DEF In
    <3> QED BY <2>2, <2>7, <2>8, <3>1 DEF PollsAnsweredOnce, Distinct
  <2> QED BY <1>0, <2>1, <2>2, <2>3, <2>4, <2>5, <2>6, <2>9 DEF TypeOK, NoIdleWorkerBesideAJob
<1> QED BY <1>1, <1>2

\* What every action below has to show.
LEMMA Assemble ==
    ASSUME TypeOK', NoIdleWorkerBesideAJob', ReplyKept', WorkersHold', PollsAnsweredOnce',
           Distinct(queue'),
           \A j \in Jobs : Open(j)' <=> In(queue', j) \/ j \in leased',
           \A j \in leased' : ~In(queue', j)
    PROVE  IInv'
<1>1. JobsAccountedFor'
  BY DEF JobsAccountedFor, Waiting, Distinct, In
<1> QED BY <1>1 DEF IInv

\* Steps that touch neither the jobs nor the queue of polls.
LEMMA WorkerStep ==
    ASSUME IInv, UNCHANGED <<jobVars, pollVars>>, TypeOK', WorkersHold'
    PROVE  IInv'
BY DEF IInv, jobVars, pollVars, JobsAccountedFor, Waiting, Open, NoIdleWorkerBesideAJob, ReplyKept,
       PollsAnsweredOnce

\* dispatch adds one open promise.
LEMMA DispatchInv == ASSUME IInv, NEW j \in Jobs, Dispatch(j) PROVE IInv'
<1> USE InvFacts
<1>0. TypeOK /\ NoIdleWorkerBesideAJob /\ ReplyKept /\ WorkersHold /\ PollsAnsweredOnce
  BY DEF IInv
<1>1. seq[j] = 0 /\ outcome[j] = "none" /\ ~In(queue, j) /\ j \notin leased /\ reply[j] = 0
  BY <1>0 DEF Dispatch, Open, ReplyKept, TypeOK
<1> DEFINE turned == Settle(j, "cancelled") \/ (closed /\ Settle(j, "busy"))
           same == UNCHANGED <<lastSeq, seq, queue, leased, grants, lapsed, overdue, granted, waiters>>
<1>2. CASE turned /\ same
  <2>1. PICK how \in {"cancelled", "busy"} :
        /\ outcome' = [outcome EXCEPT ![j] = how]
        /\ UNCHANGED <<closed, lastSeq, seq, queue, leased, grants, lapsed, overdue, granted, waiters,
                       reply, reclaims, conn, phase, hold, sent, hangUps>>
    BY <1>2 DEF Dispatch, Settle, workVars
  <2>2. TypeOK'
    BY <1>0, <2>1 DEF TypeOK, Outcomes
  <2>3. \A k \in Jobs : Open(k)' <=> Open(k)
    BY <1>0, <1>1, <2>1 DEF Open, TypeOK
  <2>4. ReplyKept'
    BY <1>0, <1>1, <2>1 DEF ReplyKept, TypeOK
  <2>5. NoIdleWorkerBesideAJob' /\ WorkersHold' /\ PollsAnsweredOnce'
    BY <1>0, <2>1 DEF NoIdleWorkerBesideAJob, WorkersHold, PollsAnsweredOnce
  <2> QED BY <2>1, <2>2, <2>3, <2>4, <2>5, Assemble
<1>3. CASE ~(turned /\ same)
  <2>1. /\ lastSeq' = lastSeq + 1 /\ seq' = [seq EXCEPT ![j] = lastSeq + 1]
        /\ Enqueue(j, seq', leased)
        /\ UNCHANGED <<outcome, reply, closed, reclaims, conn, phase, hold, sent, hangUps>>
    BY <1>3 DEF Dispatch, workVars
  <2>2. leased = leased \ {j}
    BY <1>1
  <2>3. /\ queue' \in Seq(Jobs) /\ Distinct(queue')
        /\ leased' \subseteq Jobs /\ lapsed' \subseteq leased' /\ overdue' \subseteq leased'
        /\ \A k \in Jobs : In(queue', k) \/ k \in leased' <=> k = j \/ In(queue, k) \/ k \in leased
        /\ \A k \in leased' : ~In(queue', k)
        /\ grants' \in [Jobs -> Nat] /\ \A k \in Jobs : k # j => grants'[k] = grants[k]
        /\ waiters' \in Seq(Slots) /\ granted' \in [Slots -> Leases \cup {None}]
        /\ NoIdleWorkerBesideAJob' /\ PollsAnsweredOnce'
    BY <1>1, <2>1, <2>2, EnqueueFacts
  <2>4. TypeOK'
    <3>1. lastSeq' \in Nat /\ seq' \in [Jobs -> Nat]
      BY <1>0, <2>1 DEF TypeOK
    <3> QED BY <1>0, <2>1, <2>3, <3>1 DEF TypeOK
  <2>5. \A k \in Jobs : Open(k)' <=> k = j \/ Open(k)
    BY <1>0, <1>1, <2>1 DEF Open, TypeOK
  <2>6. ReplyKept'
    BY <1>0, <1>1, <2>1, <2>3 DEF ReplyKept, TypeOK
  <2>7. WorkersHold'
    BY <1>0, <2>1 DEF WorkersHold
  <2> QED BY <2>3, <2>4, <2>5, <2>6, <2>7, Assemble
<1> QED BY <1>2, <1>3

\* A queue that holds nobody is empty.
LEMMA NobodyIn == ASSUME NEW S, NEW q \in Seq(S), \A k \in S : ~In(q, k) PROVE q = <<>>
<1> SUFFICES ASSUME q # <<>> PROVE FALSE
  OBVIOUS
<1>1. 1 \in DOMAIN q /\ q[1] \in S
  OBVIOUS
<1> QED BY <1>1 DEF In

\* A promise settles and its job leaves the queue and the leases.
LEMMA SettleStep ==
    ASSUME IInv, NEW j \in Jobs, Open(j), NEW how \in Outcomes \ {"none"},
           outcome' = [outcome EXCEPT ![j] = how],
           queue' \in Seq(Jobs), Distinct(queue'),
           \A k : In(queue', k) <=> k # j /\ In(queue, k),
           leased' = leased \ {j}, lapsed' = lapsed \ {j}, overdue' = overdue \ {j},
           \/ reply' = reply
           \/ how = "answered" /\ reply' = [reply EXCEPT ![j] = grants[j]],
           UNCHANGED <<closed, lastSeq, seq, grants, reclaims, pollVars, workVars, hangUps>>
    PROVE  IInv'
<1> USE InvFacts
<1>0. TypeOK /\ NoIdleWorkerBesideAJob /\ ReplyKept /\ WorkersHold /\ PollsAnsweredOnce
  BY DEF IInv
<1>1. UNCHANGED <<waiters, conn, granted, phase, hold, sent>>
  BY DEF pollVars, workVars
<1>2. TypeOK'
  <2>1. outcome' \in [Jobs -> Outcomes]
    BY <1>0 DEF TypeOK
  <2>2. reply' \in [Jobs -> Nat]
    BY <1>0 DEF TypeOK
  <2> QED BY <1>0, <1>1, <2>1, <2>2 DEF TypeOK
<1>3. ReplyKept'
  <2> SUFFICES ASSUME NEW k \in Jobs, reply'[k] # 0
               PROVE  reply'[k] = grants'[k] /\ outcome'[k] = "answered"
    BY DEF ReplyKept
  <2>1. CASE k # j
    BY <1>0, <2>1 DEF TypeOK, ReplyKept
  <2>2. CASE k = j
    <3>1. reply[j] = 0
      BY <1>0 DEF ReplyKept, Open, TypeOK
    <3> QED BY <1>0, <2>2, <3>1 DEF TypeOK
  <2> QED BY <2>1, <2>2
<1>4. NoIdleWorkerBesideAJob'
  <2>1. CASE waiters = <<>>
    BY <1>1, <2>1 DEF NoIdleWorkerBesideAJob
  <2>2. CASE queue = <<>>
    <3>1. \A k : ~In(queue, k)
      BY <2>2 DEF In
    <3>2. queue' = <<>>
      BY <3>1, NobodyIn
    <3> QED BY <3>2 DEF NoIdleWorkerBesideAJob
  <2> QED BY <1>0, <2>1, <2>2 DEF NoIdleWorkerBesideAJob
<1>5. WorkersHold' /\ PollsAnsweredOnce'
  BY <1>0, <1>1 DEF WorkersHold, PollsAnsweredOnce
<1>6. \A k \in Jobs : Open(k)' <=> k # j /\ Open(k)
  BY <1>0 DEF Open, TypeOK
<1> QED BY <1>2, <1>3, <1>4, <1>5, <1>6, Assemble

\* A job taken out of the queue is not in it.
LEMMA OutOfQueue ==
    ASSUME IInv, NEW j \in Jobs, \/ queue' = RemoveFirst(queue, j)
                                 \/ queue' = queue /\ ~In(queue, j)
    PROVE  queue' \in Seq(Jobs) /\ Distinct(queue') /\ \A k : In(queue', k) <=> k # j /\ In(queue, k)
<1>1. queue \in Seq(Jobs) /\ Distinct(queue)
  BY InvFacts DEF IInv, TypeOK
<1> QED BY <1>1, UnqueueFacts

\* A cancelled job leaves both places.
LEMMA AbortInv == ASSUME IInv, NEW j \in Jobs, Abort(j) PROVE IInv'
<1>1. Open(j)
  BY DEF Abort, Open
<1>2. queue' \in Seq(Jobs) /\ Distinct(queue') /\ \A k : In(queue', k) <=> k # j /\ In(queue, k)
  BY OutOfQueue DEF Abort
<1> QED BY <1>1, <1>2, SettleStep DEF Abort, Settle, Unlease, Outcomes

\* A job that waited too long leaves the queue.
LEMMA QueueTimeoutInv == ASSUME IInv, NEW j \in Jobs, QueueTimeout(j) PROVE IInv'
<1>1. In(queue, j) /\ Open(j) /\ j \notin leased
  BY InvFacts DEF QueueTimeout, In
<1>2. queue' \in Seq(Jobs) /\ Distinct(queue') /\ \A k : In(queue', k) <=> k # j /\ In(queue, k)
  BY OutOfQueue DEF QueueTimeout
<1>3. leased' = leased \ {j} /\ lapsed' = lapsed \ {j} /\ overdue' = overdue \ {j}
  BY <1>1 DEF QueueTimeout, IInv, TypeOK
<1> QED BY <1>1, <1>2, <1>3, SettleStep DEF QueueTimeout, Settle, Outcomes

\* A job past its deadline or its reclaims leaves the leases.
LEMMA FailLeasedInv == ASSUME IInv, NEW j \in Jobs, FailLeased(j) PROVE IInv'
<1>1. Open(j) /\ ~In(queue, j)
  BY InvFacts DEF FailLeased
<1>2. queue' \in Seq(Jobs) /\ Distinct(queue') /\ \A k : In(queue', k) <=> k # j /\ In(queue, k)
  BY <1>1, OutOfQueue DEF FailLeased
<1> QED BY <1>1, <1>2, SettleStep DEF FailLeased, Settle, Unlease, Outcomes

\* Only a report with the current token settles, so it carries the last lease.
LEMMA CompleteInv == ASSUME IInv, NEW lease \in sent, Complete(lease) PROVE IInv'
<1> DEFINE j == lease[1]
<1>1. j \in Jobs /\ lease[2] = grants[j] /\ j \in leased
  BY LeaseFacts DEF Complete, Current, IInv, TypeOK
<1>2. Open(j) /\ ~In(queue, j)
  BY <1>1, InvFacts
<1>3. queue' \in Seq(Jobs) /\ Distinct(queue') /\ \A k : In(queue', k) <=> k # j /\ In(queue, k)
  BY <1>1, <1>2, OutOfQueue DEF Complete
<1>4. reply' = [reply EXCEPT ![j] = grants[j]]
  BY <1>1 DEF Complete
<1> QED BY <1>1, <1>2, <1>3, <1>4, SettleStep DEF Complete, Unlease, Outcomes

\* Steps of a clock alone.
LEMMA ClockInv ==
    ASSUME IInv, lapsed' \subseteq leased, overdue' \subseteq leased,
           UNCHANGED <<closed, lastSeq, seq, queue, leased, grants, reclaims, outcome, reply,
                       pollVars, workVars, hangUps>>
    PROVE  IInv'
BY DEF IInv, TypeOK, pollVars, workVars, JobsAccountedFor, Waiting, Open,
   NoIdleWorkerBesideAJob, ReplyKept, WorkersHold, PollsAnsweredOnce

\* A lease lapsing, a deadline passing.
LEMMA JobClockInv == ASSUME IInv, NEW j \in Jobs, Lapse(j) \/ PassDeadline(j) PROVE IInv'
<1>1. lapsed' \subseteq leased /\ overdue' \subseteq leased
  BY DEF Lapse, PassDeadline, IInv, TypeOK
<1> QED BY <1>1, ClockInv DEF Lapse, PassDeadline

\* A renewal only moves the clock.
LEMMA RenewInv == ASSUME IInv, NEW s \in Slots, Renew(s) PROVE IInv'
<1>1. lapsed' \subseteq leased /\ overdue' \subseteq leased
  BY DEF Renew, IInv, TypeOK
<1> QED BY <1>1, ClockInv DEF Renew

\* A lapsed lease goes from the leases to the queue, or to a waiting worker.
LEMMA ReclaimInv == ASSUME IInv, NEW j \in Jobs, Reclaim(j) PROVE IInv'
<1> USE InvFacts
<1>0. TypeOK /\ ReplyKept /\ WorkersHold
  BY DEF IInv
<1>1. j \in leased /\ ~In(queue, j) /\ Open(j) /\ reply[j] = 0
  BY <1>0 DEF Reclaim, ReplyKept, Open, TypeOK
<1>2. /\ reclaims' = [reclaims EXCEPT ![j] = @ + 1] /\ reclaims[j] < MaxReclaims
      /\ Enqueue(j, seq, leased \ {j})
      /\ UNCHANGED <<closed, lastSeq, seq, outcome, reply, conn, phase, hold, sent, hangUps>>
  BY <1>0, MaxReclaimsAssumption DEF Reclaim, LastLease, workVars, TypeOK
<1>3. /\ queue' \in Seq(Jobs) /\ Distinct(queue')
      /\ leased' \subseteq Jobs /\ lapsed' \subseteq leased' /\ overdue' \subseteq leased'
      /\ \A k \in Jobs : In(queue', k) \/ k \in leased' <=> k = j \/ In(queue, k) \/ k \in leased
      /\ \A k \in leased' : ~In(queue', k)
      /\ grants' \in [Jobs -> Nat] /\ \A k \in Jobs : k # j => grants'[k] = grants[k]
      /\ waiters' \in Seq(Slots) /\ granted' \in [Slots -> Leases \cup {None}]
      /\ NoIdleWorkerBesideAJob' /\ PollsAnsweredOnce'
  BY <1>1, <1>2, EnqueueFacts
<1>4. TypeOK'
  <2>1. reclaims' \in [Jobs -> 0..MaxReclaims]
    BY <1>0, <1>2, MaxReclaimsAssumption DEF TypeOK
  <2> QED BY <1>0, <1>2, <1>3, <2>1 DEF TypeOK
<1>5. \A k \in Jobs : Open(k)' <=> Open(k)
  BY <1>2 DEF Open
<1>6. ReplyKept' /\ WorkersHold'
  BY <1>0, <1>1, <1>2, <1>3 DEF ReplyKept, WorkersHold
<1> QED BY <1>1, <1>3, <1>4, <1>5, <1>6, Assemble

\* close empties both places and settles what was in them.
LEMMA CloseInv == ASSUME IInv, Close PROVE IInv'
<1> USE InvFacts
<1>0. TypeOK /\ ReplyKept /\ WorkersHold /\ PollsAnsweredOnce
  BY DEF IInv
<1> DEFINE dropped == ToSet(waiters)
<1>1. \A k : (k \in ToSet(queue) <=> In(queue, k)) /\ (k \in dropped <=> In(waiters, k))
  BY <1>0 DEF ToSet, In, TypeOK
<1>2. /\ queue' = <<>> /\ leased' = {} /\ waiters' = <<>> /\ lapsed' = {} /\ overdue' = {}
      /\ outcome' = [j \in Jobs |-> IF j \in leased \cup ToSet(queue) THEN "busy" ELSE outcome[j]]
      /\ conn' = [s \in Slots |-> IF s \in dropped THEN "none" ELSE conn[s]]
      /\ phase' = [s \in Slots |-> IF s \in dropped /\ conn[s] = "open" THEN "idle" ELSE phase[s]]
      /\ closed' = TRUE /\ UNCHANGED <<lastSeq, seq, grants, reclaims, reply, granted, hold, sent, hangUps>>
  BY DEF Close
<1> HIDE DEF dropped
<1>3. TypeOK'
  <2>1. outcome' \in [Jobs -> Outcomes]
    BY <1>0, <1>2 DEF TypeOK, Outcomes
  <2>2. conn' \in [Slots -> {"none", "open", "broken"}]
    BY <1>0, <1>2 DEF TypeOK
  <2>3. phase' \in [Slots -> {"idle", "polling", "working", "reporting"}]
    BY <1>0, <1>2 DEF TypeOK
  <2>4. queue' \in Seq(Jobs) /\ waiters' \in Seq(Slots)
    BY <1>2
  <2> QED BY <1>0, <1>2, <2>1, <2>2, <2>3, <2>4 DEF TypeOK
<1>4. \A j \in Jobs : ~Open(j)'
  <2> TAKE j \in Jobs
  <2>1. CASE Open(j)
    <3>1. outcome'[j] = "busy"
      BY <1>1, <1>2, <2>1
    <3> QED BY <3>1 DEF Open
  <2>2. CASE ~Open(j)
    <3>1. j \notin leased \cup ToSet(queue)
      BY <1>1, <2>2
    <3> QED BY <1>2, <2>2, <3>1 DEF Open
  <2> QED BY <2>1, <2>2
<1>5. ReplyKept'
  <2> SUFFICES ASSUME NEW j \in Jobs, reply[j] # 0 PROVE reply[j] = grants[j] /\ outcome'[j] = "answered"
    BY <1>2 DEF ReplyKept
  <2>1. outcome[j] = "answered" /\ ~Open(j)
    BY <1>0 DEF ReplyKept, Open
  <2>2. j \notin leased \cup ToSet(queue)
    BY <1>1, <2>1
  <2> QED BY <1>0, <1>2, <2>1, <2>2 DEF ReplyKept
<1>6. WorkersHold'
  BY <1>0, <1>2 DEF WorkersHold
<1>7. PollsAnsweredOnce'
  <2>1. DOMAIN waiters' = {}
    BY <1>2
  <2>2. ASSUME NEW s \in Slots, granted'[s] # None PROVE conn'[s] # "none"
    <3>1. conn[s] # "none" /\ s \notin dropped
      BY <1>0, <1>1, <1>2, <2>2 DEF PollsAnsweredOnce
    <3> QED BY <1>2, <3>1
  <2> QED BY <2>1, <2>2 DEF PollsAnsweredOnce
<1>8. /\ NoIdleWorkerBesideAJob' /\ Distinct(queue')
      /\ \A j \in Jobs : ~In(queue', j) /\ j \notin leased'
  BY <1>2 DEF NoIdleWorkerBesideAJob, Distinct, In
<1> QED BY <1>2, <1>3, <1>4, <1>5, <1>6, <1>7, <1>8, Assemble

\* A poll takes the head of the queue, or waits beside an empty one.
LEMMA LeaseInv == ASSUME IInv, NEW s \in Slots, Lease(s) PROVE IInv'
<1> USE InvFacts
<1>0. TypeOK /\ NoIdleWorkerBesideAJob /\ ReplyKept /\ WorkersHold /\ PollsAnsweredOnce
  BY DEF IInv
<1>1. /\ conn[s] = "none" /\ granted[s] = None /\ ~In(waiters, s)
      /\ phase[s] = "idle"
      /\ phase' = [phase EXCEPT ![s] = "polling"] /\ conn' = [conn EXCEPT ![s] = "open"]
      /\ UNCHANGED <<closed, lastSeq, seq, reclaims, outcome, reply, hold, sent, hangUps>>
  BY <1>0 DEF Lease, PollsAnsweredOnce
<1>2. WorkersHold'
  BY <1>0, <1>1 DEF WorkersHold, TypeOK
<1>3. CASE queue # <<>>
  <2> DEFINE j == Head(queue)
  <2>1. Grant(j, s, leased) /\ queue' = Tail(queue) /\ waiters' = waiters
    BY <1>3 DEF Lease
  <2>2. /\ j \in Jobs /\ In(queue, j)
        /\ queue' \in Seq(Jobs) /\ Distinct(queue')
        /\ \A k : In(queue', k) <=> k # j /\ In(queue, k)
    BY <1>0, <1>3, <2>1, TailFacts DEF TypeOK
  <2> HIDE DEF j
  <2>3. /\ leased' = leased \cup {j} /\ lapsed' = lapsed \ {j} /\ overdue' = overdue \ {j}
        /\ grants' = [grants EXCEPT ![j] = @ + 1]
        /\ granted' = [granted EXCEPT ![s] = <<j, grants[j] + 1>>]
    BY <2>1 DEF Grant
  <2>4. waiters = <<>>
    BY <1>0, <1>3 DEF NoIdleWorkerBesideAJob
  <2>5. <<j, grants[j] + 1>> \in Leases
    BY <1>0, <2>2 DEF TypeOK, Leases
  <2>6. TypeOK'
    <3>1. grants' \in [Jobs -> Nat] /\ granted' \in [Slots -> Leases \cup {None}]
      BY <1>0, <2>2, <2>3, <2>5 DEF TypeOK
    <3>2. /\ phase' \in [Slots -> {"idle", "polling", "working", "reporting"}]
          /\ conn' \in [Slots -> {"none", "open", "broken"}]
      BY <1>0, <1>1 DEF TypeOK
    <3> QED BY <1>0, <1>1, <2>1, <2>2, <2>3, <3>1, <3>2 DEF TypeOK
  <2>7. ReplyKept'
    <3>1. reply[j] = 0
      BY <1>0, <2>2 DEF ReplyKept, Open, TypeOK
    <3> QED BY <1>0, <1>1, <2>2, <2>3, <3>1 DEF ReplyKept, TypeOK
  <2>8. PollsAnsweredOnce' /\ NoIdleWorkerBesideAJob'
    BY <1>0, <1>1, <2>1, <2>3, <2>4 DEF PollsAnsweredOnce, NoIdleWorkerBesideAJob, TypeOK
  <2>9. \A k \in Jobs : Open(k)' <=> In(queue', k) \/ k \in leased'
    BY <1>1, <2>2, <2>3 DEF Open
  <2>10. \A k \in leased' : ~In(queue', k)
    BY <2>2, <2>3
  <2> QED BY <1>2, <2>2, <2>6, <2>7, <2>8, <2>9, <2>10, Assemble
<1>4. CASE queue = <<>>
  <2>1. /\ waiters' = Append(waiters, s)
        /\ UNCHANGED <<queue, leased, grants, lapsed, overdue, granted>>
    BY <1>4 DEF Lease
  <2>2. /\ waiters \in Seq(Slots) /\ waiters' \in Seq(Slots) /\ Len(waiters') = Len(waiters) + 1
        /\ waiters'[Len(waiters) + 1] = s
        /\ \A i \in 1..Len(waiters) : waiters'[i] = waiters[i] /\ waiters[i] \in Slots /\ waiters[i] # s
    BY <1>0, <1>1, <2>1, AppendProperties DEF TypeOK, In
  <2>3. TypeOK'
    <3>1. /\ phase' \in [Slots -> {"idle", "polling", "working", "reporting"}]
          /\ conn' \in [Slots -> {"none", "open", "broken"}]
      BY <1>0, <1>1 DEF TypeOK
    <3> QED BY <1>0, <1>1, <2>1, <2>2, <3>1 DEF TypeOK
  <2>4. PollsAnsweredOnce'
    <3>1. ASSUME NEW i \in 1..Len(waiters) + 1, NEW k \in 1..Len(waiters) + 1, waiters'[i] = waiters'[k]
          PROVE  i = k
      <4>1. \A x, y \in 1..Len(waiters) : waiters[x] = waiters[y] => x = y
        BY <1>0 DEF Distinct, TypeOK
      <4>2. CASE i = Len(waiters) + 1
        BY <2>2, <3>1, <4>2
      <4>3. CASE k = Len(waiters) + 1
        BY <2>2, <3>1, <4>3
      <4>4. CASE i \in 1..Len(waiters) /\ k \in 1..Len(waiters)
        BY <2>2, <3>1, <4>1, <4>4
      <4> QED BY <2>2, <4>2, <4>3, <4>4
    <3>2. ASSUME NEW i \in 1..Len(waiters) + 1
          PROVE  conn'[waiters'[i]] # "none" /\ granted'[waiters'[i]] = None
      <4>1. CASE i = Len(waiters) + 1
        BY <1>0, <1>1, <2>1, <2>2, <4>1 DEF TypeOK
      <4>2. CASE i \in 1..Len(waiters)
        <5>1. conn[waiters[i]] # "none" /\ granted[waiters[i]] = None
          BY <1>0, <4>2 DEF PollsAnsweredOnce, TypeOK
        <5> QED BY <1>0, <1>1, <2>1, <2>2, <4>2, <5>1 DEF TypeOK
      <4> QED BY <2>2, <4>1, <4>2
    <3>3. DOMAIN waiters' = 1..Len(waiters) + 1
      BY <2>2
    <3>4. \A t \in Slots : granted'[t] # None => conn'[t] # "none"
      BY <1>0, <1>1, <2>1 DEF PollsAnsweredOnce, TypeOK
    <3> QED BY <3>1, <3>2, <3>3, <3>4 DEF PollsAnsweredOnce
  <2>5. NoIdleWorkerBesideAJob' /\ ReplyKept'
    BY <1>0, <1>1, <1>4, <2>1 DEF NoIdleWorkerBesideAJob, ReplyKept
  <2>6. \A k \in Jobs : Open(k)' <=> Open(k)
    BY <1>1 DEF Open
  <2> QED BY <1>2, <2>1, <2>3, <2>4, <2>5, <2>6, Assemble
<1> QED BY <1>3, <1>4

\* The worker hangs up before the server notices.
LEMMA HangUpInv == ASSUME IInv, NEW s \in Slots, HangUp(s) PROVE IInv'
<1>0. TypeOK /\ WorkersHold /\ PollsAnsweredOnce
  BY DEF IInv
<1>1. TypeOK'
  <2>1. /\ phase' \in [Slots -> {"idle", "polling", "working", "reporting"}]
        /\ conn' \in [Slots -> {"none", "open", "broken"}] /\ hangUps' \in Nat
    BY <1>0 DEF TypeOK, HangUp
  <2> QED BY <1>0, <2>1 DEF TypeOK, HangUp, jobVars
<1>2. WorkersHold'
  BY <1>0 DEF WorkersHold, HangUp, TypeOK
<1>3. PollsAnsweredOnce'
  <2>1. \A t \in Slots : conn[t] # "none" => conn'[t] # "none"
    BY <1>0 DEF HangUp, TypeOK
  <2>2. \A i \in DOMAIN waiters : waiters[i] \in Slots
    BY <1>0 DEF TypeOK
  <2> QED BY <1>0, <2>1, <2>2 DEF PollsAnsweredOnce, HangUp
<1> QED BY <1>1, <1>2, <1>3 DEF IInv, HangUp, jobVars, JobsAccountedFor, Waiting, Open,
          NoIdleWorkerBesideAJob, ReplyKept

\* A poll that ends leaves the list of waiters.
LEMMA WaitEndsInv == ASSUME IInv, NEW s \in Slots, WaitEnds(s) PROVE IInv'
<1> USE InvFacts
<1>0. TypeOK /\ WorkersHold /\ PollsAnsweredOnce /\ NoIdleWorkerBesideAJob
  BY DEF IInv
<1>1. /\ In(waiters, s) /\ waiters' = RemoveFirst(waiters, s)
      /\ conn' = [conn EXCEPT ![s] = "none"] /\ phase' = [phase EXCEPT ![s] = "idle"]
      /\ UNCHANGED <<jobVars, granted, hold, sent, hangUps>>
  BY DEF WaitEnds, In
<1>2. waiters' \in Seq(Slots) /\ Distinct(waiters') /\ \A k : In(waiters', k) <=> k # s /\ In(waiters, k)
  BY <1>0, <1>1, UnqueueFacts DEF TypeOK
<1>3. TypeOK'
  <2>1. /\ phase' \in [Slots -> {"idle", "polling", "working", "reporting"}]
        /\ conn' \in [Slots -> {"none", "open", "broken"}]
    BY <1>0, <1>1 DEF TypeOK
  <2> QED BY <1>0, <1>1, <1>2, <2>1 DEF TypeOK, jobVars
<1>4. WorkersHold'
  BY <1>0, <1>1 DEF WorkersHold, TypeOK
<1>5. PollsAnsweredOnce'
  <2>1. ASSUME NEW i \in DOMAIN waiters'
        PROVE  waiters'[i] \in Slots /\ waiters'[i] # s /\ In(waiters, waiters'[i])
    <3>1. In(waiters', waiters'[i])
      BY <2>1 DEF In
    <3> QED BY <1>2, <3>1
  <2>2. \A i \in DOMAIN waiters' : conn'[waiters'[i]] # "none" /\ granted'[waiters'[i]] = None
    BY <1>0, <1>1, <2>1 DEF TypeOK
  <2>3. granted[s] = None
    BY <1>1
  <2>4. \A t \in Slots : granted'[t] # None => conn'[t] # "none"
    BY <1>0, <1>1, <2>3 DEF PollsAnsweredOnce, TypeOK
  <2> QED BY <1>2, <2>2, <2>4 DEF PollsAnsweredOnce, Distinct
<1>6. NoIdleWorkerBesideAJob'
  <2>1. waiters # <<>>
    BY <1>1 DEF In
  <2> QED BY <1>0, <1>1, <2>1 DEF NoIdleWorkerBesideAJob, jobVars
<1> QED BY <1>1, <1>3, <1>4, <1>5, <1>6 DEF IInv, jobVars, JobsAccountedFor, Waiting, Open, ReplyKept

\* The route hands the grant to its worker.
LEMMA AnswerInv == ASSUME IInv, NEW s \in Slots, Answer(s) PROVE IInv'
<1>0. TypeOK /\ WorkersHold /\ PollsAnsweredOnce
  BY DEF IInv
<1>1. granted[s] \in Leases
  BY <1>0 DEF Answer, TypeOK
<1>2. TypeOK'
  <2>1. /\ phase' \in [Slots -> {"idle", "polling", "working", "reporting"}]
        /\ hold' \in [Slots -> Leases \cup {None}]
        /\ conn' \in [Slots -> {"none", "open", "broken"}]
        /\ granted' \in [Slots -> Leases \cup {None}]
    BY <1>0, <1>1 DEF TypeOK, Answer
  <2> QED BY <1>0, <2>1 DEF TypeOK, Answer, jobVars
<1>3. WorkersHold'
  BY <1>0, <1>1 DEF WorkersHold, Answer, TypeOK
<1>4. PollsAnsweredOnce'
  <2>1. \A i \in DOMAIN waiters : waiters[i] \in Slots /\ waiters[i] # s
    BY <1>0 DEF Answer, PollsAnsweredOnce, TypeOK
  <2> QED BY <1>0, <2>1 DEF PollsAnsweredOnce, Answer, TypeOK
<1> QED BY <1>2, <1>3, <1>4 DEF IInv, Answer, jobVars, JobsAccountedFor, Waiting, Open,
          NoIdleWorkerBesideAJob, ReplyKept

\* What a worker does on its own.
LEMMA WorkInv ==
    ASSUME IInv, NEW s \in Slots, RenewRefused(s) \/ Report(s) \/ Leave(s)
    PROVE  IInv'
<1>0. TypeOK /\ WorkersHold
  BY DEF IInv
<1>1. UNCHANGED <<jobVars, pollVars, hangUps>>
  BY DEF RenewRefused, Report, Leave
<1>2. WorkersHold'
  BY <1>0 DEF WorkersHold, RenewRefused, Report, Leave, Free, TypeOK
<1>3. /\ phase' \in [Slots -> {"idle", "polling", "working", "reporting"}]
      /\ hold' \in [Slots -> Leases \cup {None}]
  BY <1>0 DEF RenewRefused, Report, Leave, Free, TypeOK
<1>4. sent' \subseteq Leases
  BY <1>0 DEF RenewRefused, Report, Leave, WorkersHold, TypeOK
<1>5. TypeOK'
  BY <1>0, <1>1, <1>3, <1>4 DEF TypeOK, jobVars, pollVars
<1> QED BY <1>1, <1>2, <1>5, WorkerStep

\* A grant nobody can receive goes back, unless its lease is no longer current.
LEMMA AbandonInv == ASSUME IInv, NEW s \in Slots, Abandon(s) PROVE IInv'
<1> USE InvFacts
<1>0. TypeOK /\ NoIdleWorkerBesideAJob /\ ReplyKept /\ WorkersHold /\ PollsAnsweredOnce
  BY DEF IInv
<1> DEFINE j == granted[s][1]
<1>1. /\ granted[s] \in Leases /\ j \in Jobs /\ ~In(waiters, s)
      /\ conn' = [conn EXCEPT ![s] = "none"]
      /\ UNCHANGED <<closed, lastSeq, seq, reclaims, outcome, reply, phase, hold, sent, hangUps>>
  BY <1>0, LeaseFacts DEF Abandon, TypeOK, workVars
<1>2. WorkersHold' /\ conn' \in [Slots -> {"none", "open", "broken"}]
  BY <1>0, <1>1 DEF WorkersHold, TypeOK
<1>3. \A k \in Jobs : Open(k)' <=> Open(k)
  BY <1>1 DEF Open
<1>4. CASE ~Current(granted[s])
  <2>1. /\ granted' = [granted EXCEPT ![s] = None]
        /\ UNCHANGED <<queue, leased, grants, lapsed, overdue, waiters>>
    BY <1>4 DEF Abandon
  <2>2. TypeOK'
    BY <1>0, <1>1, <1>2, <2>1 DEF TypeOK
  <2>3. PollsAnsweredOnce'
    <3>1. \A i \in DOMAIN waiters : waiters[i] \in Slots /\ waiters[i] # s
      BY <1>0, <1>1 DEF In, TypeOK
    <3> QED BY <1>0, <1>1, <2>1, <3>1 DEF PollsAnsweredOnce, TypeOK
  <2> QED BY <1>0, <1>1, <1>2, <1>3, <2>1, <2>2, <2>3, Assemble DEF NoIdleWorkerBesideAJob, ReplyKept
<1>5. ASSUME Current(granted[s]) PROVE j \in leased /\ ~In(queue, j) /\ reply[j] = 0
  BY <1>0, <1>1, <1>5 DEF Current, ReplyKept, Open, TypeOK
<1>6. CASE Current(granted[s]) /\ waiters = <<>>
  <2>1. /\ queue' = Place(queue, seq, j)
        /\ leased' = leased \ {j} /\ lapsed' = lapsed \ {j} /\ overdue' = overdue \ {j}
        /\ granted' = [granted EXCEPT ![s] = None]
        /\ UNCHANGED <<grants, waiters>>
    BY <1>6 DEF Abandon, Unlease
  <2>2. /\ queue' \in Seq(Jobs) /\ Distinct(queue')
        /\ \A k : In(queue', k) <=> k = j \/ In(queue, k)
    BY <1>0, <1>1, <1>5, <1>6, <2>1, PlaceFacts DEF TypeOK
  <2>3. TypeOK'
    BY <1>0, <1>1, <1>2, <2>1, <2>2 DEF TypeOK
  <2>4. PollsAnsweredOnce' /\ NoIdleWorkerBesideAJob'
    BY <1>0, <1>1, <1>6, <2>1 DEF PollsAnsweredOnce, NoIdleWorkerBesideAJob, TypeOK
  <2>5. \A k \in Jobs : Open(k)' <=> In(queue', k) \/ k \in leased'
    BY <1>3, <1>5, <1>6, <2>1, <2>2
  <2>6. \A k \in leased' : ~In(queue', k)
    BY <2>1, <2>2
  <2> QED BY <1>0, <1>1, <1>2, <2>1, <2>2, <2>3, <2>4, <2>5, <2>6, Assemble DEF ReplyKept
<1>7. CASE Current(granted[s]) /\ waiters # <<>>
  <2> DEFINE w == Head(waiters)
  <2>1. /\ leased' = leased
        /\ grants' = [grants EXCEPT ![j] = @ + 1]
        /\ lapsed' = lapsed \ {j} /\ overdue' = overdue \ {j}
        /\ granted' = [granted EXCEPT ![s] = None, ![w] = <<j, grants[j] + 1>>]
        /\ waiters' = Tail(waiters) /\ queue' = queue
    BY <1>7 DEF Abandon
  <2>2. /\ w \in Slots /\ In(waiters, w)
        /\ waiters' \in Seq(Slots) /\ Distinct(waiters')
        /\ \A k : In(waiters', k) <=> k # w /\ In(waiters, k)
    BY <1>0, <1>7, <2>1, TailFacts DEF TypeOK
  <2> HIDE DEF w
  <2>3. <<j, grants[j] + 1>> \in Leases /\ w # s
    BY <1>0, <1>1, <2>2 DEF TypeOK, Leases
  <2>4. TypeOK'
    <3>1. grants' \in [Jobs -> Nat]
      BY <1>0, <1>1, <2>1 DEF TypeOK
    <3>2. granted' \in [Slots -> Leases \cup {None}]
      <4> DEFINE l == <<j, grants[j] + 1>>
      <4>1. l \in Leases
        BY <2>3
      <4>2. granted' = [granted EXCEPT ![s] = None, ![w] = l]
        BY <2>1
      <4> HIDE DEF l
      <4> QED BY <1>0, <4>1, <4>2 DEF TypeOK
    <3> QED BY <1>0, <1>1, <1>2, <1>5, <3>2, <1>7, <2>1, <2>2, <3>1 DEF TypeOK
  <2>5. PollsAnsweredOnce'
    <3>1. ASSUME NEW i \in DOMAIN waiters'
          PROVE  /\ waiters'[i] \in Slots /\ waiters'[i] # s /\ waiters'[i] # w
                 /\ In(waiters, waiters'[i])
      <4>1. In(waiters', waiters'[i])
        BY <3>1 DEF In
      <4> QED BY <1>1, <2>2, <4>1
    <3>2. \A i \in DOMAIN waiters' : conn'[waiters'[i]] # "none" /\ granted'[waiters'[i]] = None
      BY <1>0, <1>1, <2>1, <3>1 DEF TypeOK
    <3>3. \A t \in Slots : granted'[t] # None => conn'[t] # "none"
      BY <1>0, <1>1, <2>1, <2>2, <2>3 DEF PollsAnsweredOnce, TypeOK
    <3> QED BY <2>2, <3>2, <3>3 DEF PollsAnsweredOnce, Distinct
  <2>6. NoIdleWorkerBesideAJob' /\ ReplyKept'
    BY <1>0, <1>1, <1>5, <1>7, <2>1 DEF NoIdleWorkerBesideAJob, ReplyKept, TypeOK
  <2> QED BY <1>2, <1>3, <2>1, <2>4, <2>5, <2>6, Assemble
<1> QED BY <1>4, <1>6, <1>7

\* Every step keeps the invariant.
LEMMA Inductive == IInv /\ [Next]_vars => IInv'
<1> SUFFICES ASSUME IInv, [Next]_vars PROVE IInv'
  OBVIOUS
<1>1. ASSUME NEW j \in Jobs, JobNext(j) PROVE IInv'
  BY <1>1, DispatchInv, AbortInv, QueueTimeoutInv, FailLeasedInv, ReclaimInv, JobClockInv DEF JobNext
<1>2. ASSUME NEW s \in Slots, SlotNext(s) PROVE IInv'
  BY <1>2, LeaseInv, HangUpInv, WaitEndsInv, AnswerInv, AbandonInv, RenewInv, WorkInv DEF SlotNext
<1>3. CASE UNCHANGED vars
  <2>1. UNCHANGED <<jobVars, pollVars, workVars, hangUps>>
    BY <1>3 DEF vars
  <2>2. TypeOK' /\ WorkersHold'
    BY <2>1 DEF IInv, TypeOK, WorkersHold, jobVars, pollVars, workVars
  <2> QED BY <2>1, <2>2, WorkerStep
<1> QED BY <1>1, <1>2, <1>3, CompleteInv, CloseInv DEF Next

\* The broker loses no job, hands none out twice, leaves no worker waiting
\* beside a queued job and answers every poll at most once, whatever the number
\* of jobs and workers and whoever dies, hangs up or reports late.
THEOREM BrokerInvariant == Spec => []IInv
<1>1. ASSUME Init PROVE IInv
  <2>1. DOMAIN queue = {} /\ DOMAIN waiters = {} /\ queue \in Seq(Jobs) /\ waiters \in Seq(Slots)
    BY <1>1 DEF Init
  <2>2. TypeOK
    <3>1. reclaims \in [Jobs -> 0..MaxReclaims]
      BY <1>1, MaxReclaimsAssumption DEF Init
    <3>2. seq \in [Jobs -> Nat] /\ grants \in [Jobs -> Nat] /\ reply \in [Jobs -> Nat]
      BY <1>1 DEF Init
    <3>3. outcome \in [Jobs -> Outcomes]
      BY <1>1 DEF Init, Outcomes
    <3>4. /\ conn \in [Slots -> {"none", "open", "broken"}]
          /\ phase \in [Slots -> {"idle", "polling", "working", "reporting"}]
          /\ granted \in [Slots -> Leases \cup {None}]
          /\ hold \in [Slots -> Leases \cup {None}]
      BY <1>1 DEF Init
    <3>5. leased \subseteq Jobs /\ lapsed \subseteq leased /\ overdue \subseteq leased /\ sent \subseteq Leases
      BY <1>1 DEF Init
    <3>6. closed \in BOOLEAN /\ hangUps \in Nat /\ lastSeq \in Nat
      BY <1>1 DEF Init
    <3> QED BY <2>1, <3>1, <3>2, <3>3, <3>4, <3>5, <3>6 DEF TypeOK
  <2>3. JobsAccountedFor /\ NoIdleWorkerBesideAJob
    BY <1>1, <2>1 DEF Init, JobsAccountedFor, Waiting, Open, NoIdleWorkerBesideAJob
  <2>4. ReplyKept /\ WorkersHold /\ PollsAnsweredOnce
    BY <1>1, <2>1 DEF Init, ReplyKept, WorkersHold, PollsAnsweredOnce
  <2> QED BY <2>2, <2>3, <2>4 DEF IInv
<1> QED BY <1>1, Inductive, PTL DEF Spec

\* Every open promise has its job in the queue or under lease, never both.
THEOREM NoJobLost == Spec => [](JobsAccountedFor /\ NoIdleWorkerBesideAJob)
<1>1. IInv => JobsAccountedFor /\ NoIdleWorkerBesideAJob
  BY DEF IInv
<1> QED BY <1>1, BrokerInvariant, PTL

\* A worker that lost its lease never publishes over the next one.
THEOREM StaleReplyNeverCounts == Spec => []ReplyFromLastLease
<1>1. IInv => ReplyFromLastLease
  BY DEF IInv, ReplyKept, ReplyFromLastLease
<1> QED BY <1>1, BrokerInvariant, PTL

\* A dispatch settles once: a timeout, a cancel, a lapse and a late reply never
\* overwrite each other.
THEOREM SettlesOnce == Spec => SettledOnce
<1> DEFINE Kept(j) == outcome[j] # "none" => outcome'[j] = outcome[j] /\ reply'[j] = reply[j]
<1>1. ASSUME IInv, [Next]_vars, NEW j \in Jobs PROVE Kept(j)
  <2> USE InvFacts
  <2>0. TypeOK
    BY <1>1 DEF IInv
  <2>1. \A k \in Jobs : outcome[k] # "none" => ~In(queue, k) /\ k \notin leased
    BY <1>1 DEF Open
  <2>2. ASSUME NEW k \in Jobs, JobNext(k) PROVE Kept(j)
    BY <2>0, <2>1, <2>2 DEF JobNext, Dispatch, Abort, QueueTimeout, Lapse, PassDeadline, FailLeased,
       Reclaim, Settle, In, TypeOK
  <2>3. ASSUME NEW s \in Slots, SlotNext(s) PROVE Kept(j)
    BY <2>3 DEF SlotNext, Lease, HangUp, WaitEnds, Answer, Abandon, Renew, RenewRefused, Report, Leave,
       jobVars
  <2>4. ASSUME NEW l \in sent, Complete(l) PROVE Kept(j)
    BY <2>0, <2>1, <2>4, LeaseFacts DEF Complete, Current, TypeOK
  <2>5. CASE Close
    <3>1. j \in ToSet(queue) => In(queue, j)
      BY <2>0 DEF ToSet, In, TypeOK
    <3> QED BY <2>0, <2>1, <2>5, <3>1 DEF Close
  <2>6. CASE UNCHANGED vars
    BY <2>6 DEF vars, jobVars
  <2> QED BY <1>1, <2>2, <2>3, <2>4, <2>5, <2>6 DEF Next
<1>2. IInv /\ [Next]_vars => [\A j \in Jobs : Kept(j)]_vars
  BY <1>1
<1> QED BY <1>2, BrokerInvariant, PTL DEF Spec, SettledOnce

-----------------------------------------------------------------------------
(* The refinement of DispatchPromise.                                      *)

\* A leased job has a token.
LeasedDrawn == \A j \in leased : grants[j] > 0

\* A step of the promise, or none.
Promised == Dispatches!CNext \/ UNCHANGED <<closed, Numbered, outcome, grants, reply>>

\* The open calls of the promise are the open jobs.
LEMMA OpenCalls == Dispatches!Open = {j \in Jobs : Open(j)}
BY DEF Dispatches!Open, Numbered, Open

\* Only a dispatch takes a call.
LEMMA SameTaken == seq' = seq => Numbered' = Numbered
BY DEF Numbered

\* A job that is leased gets a token with it.
LEMMA DrawnKept ==
    ASSUME TypeOK, LeasedDrawn, NEW j \in Jobs,
           \/ leased' \subseteq leased /\ grants' = grants
           \/ leased' \subseteq leased \cup {j} /\ grants' = [grants EXCEPT ![j] = @ + 1]
    PROVE  LeasedDrawn'
<1> SUFFICES ASSUME NEW k \in leased' PROVE grants'[k] > 0
  BY DEF LeasedDrawn
<1>1. grants \in [Jobs -> Nat] /\ k \in Jobs
  BY DEF TypeOK
<1>2. CASE grants' = grants /\ k \in leased
  BY <1>2 DEF LeasedDrawn
<1>3. CASE grants' = [grants EXCEPT ![j] = @ + 1] /\ k = j
  <2>1. grants'[j] = grants[j] + 1 /\ grants[j] \in Nat
    BY <1>1, <1>3
  <2> QED BY <1>3, <2>1
<1>4. CASE grants' = [grants EXCEPT ![j] = @ + 1] /\ k # j /\ k \in leased
  <2>1. grants'[k] = grants[k]
    BY <1>1, <1>4
  <2> QED BY <1>4, <2>1 DEF LeasedDrawn
<1> QED BY <1>2, <1>3, <1>4

\* A lease more, or none, of a job that is open.
LEMMA Leased ==
    ASSUME TypeOK, LeasedDrawn, NEW j \in Jobs, Open(j), NEW others \in SUBSET leased,
           UNCHANGED <<closed, seq, outcome, reply>>,
           \/ leased' \subseteq others /\ grants' = grants
           \/ leased' \subseteq others \cup {j} /\ grants' = [grants EXCEPT ![j] = @ + 1]
    PROVE  Promised /\ LeasedDrawn'
<1>1. Numbered' = Numbered /\ j \in Dispatches!Open
  BY SameTaken, OpenCalls
<1>2. LeasedDrawn'
  BY DrawnKept
<1> QED BY <1>1, <1>2 DEF Promised, Dispatches!CNext, Dispatches!HandOut

\* An open job settles.
LEMMA Settled ==
    ASSUME TypeOK, LeasedDrawn, NEW j \in Jobs, Open(j), NEW how \in Outcomes \ {"none"},
           outcome' = [outcome EXCEPT ![j] = how], leased' \subseteq leased,
           UNCHANGED <<closed, seq, grants>>,
           \/ reply' = reply /\ how # "answered" /\ (how \in {"timed_out", "expired"} => j \in leased)
           \/ reply' = [reply EXCEPT ![j] = grants[j]] /\ how = "answered" /\ j \in leased
    PROVE  Promised /\ LeasedDrawn'
<1>1. Numbered' = Numbered /\ j \in Dispatches!Open
  BY SameTaken, OpenCalls
<1>2. outcome'[j] = how
  BY DEF TypeOK
<1>3. j \in leased => grants[j] > 0
  BY DEF LeasedDrawn
<1>4. Dispatches!Answer(j) \/ Dispatches!GiveUp(j)
  BY <1>1, <1>2, <1>3 DEF Dispatches!Answer, Dispatches!GiveUp, Dispatches!Late, Outcomes
<1>5. LeasedDrawn'
  BY DEF LeasedDrawn
<1> QED BY <1>1, <1>4, <1>5 DEF Promised, Dispatches!CNext

\* A call is turned away, or taken.
LEMMA DispatchPromised == ASSUME IInv, LeasedDrawn, NEW j \in Jobs, Dispatch(j) PROVE Promised /\ LeasedDrawn'
<1>0. TypeOK
  BY DEF IInv
<1>1. j \in Jobs \ Numbered /\ outcome[j] = "none" /\ reply' = reply /\ closed' = closed
  BY DEF Dispatch, Settle, Numbered
<1> DEFINE turned == Settle(j, "cancelled") \/ (closed /\ Settle(j, "busy"))
           same == UNCHANGED <<lastSeq, seq, queue, leased, grants, lapsed, overdue, granted, waiters>>
<1>2. CASE turned /\ same
  <2>1. /\ \/ outcome' = [outcome EXCEPT ![j] = "cancelled"]
           \/ closed /\ outcome' = [outcome EXCEPT ![j] = "busy"]
        /\ UNCHANGED <<seq, grants, leased>>
    BY <1>2 DEF Settle
  <2>2. Dispatches!Refuse(j)
    BY <1>1, <2>1, SameTaken DEF Dispatches!Refuse
  <2> QED BY <1>1, <2>1, <2>2 DEF Promised, Dispatches!CNext, LeasedDrawn
<1>3. CASE ~(turned /\ same)
  <2>1. seq' = [seq EXCEPT ![j] = lastSeq + 1] /\ outcome' = outcome /\ lastSeq \in Nat /\ ~closed
    BY <1>0, <1>3 DEF Dispatch, TypeOK
  <2>2. \/ leased' = leased /\ grants' = grants
        \/ leased' = leased \cup {j} /\ grants' = [grants EXCEPT ![j] = @ + 1]
    BY <1>3 DEF Dispatch, Enqueue, Grant
  <2>3. \A k \in Jobs : seq'[k] # 0 <=> k = j \/ seq[k] # 0
    BY <1>0, <2>1 DEF TypeOK
  <2>4. Numbered' = Numbered \cup {j}
    BY <2>3 DEF Numbered
  <2>5. Dispatches!Take(j)
    BY <1>1, <2>1, <2>2, <2>4 DEF Dispatches!Take
  <2>6. LeasedDrawn'
    BY <1>0, <2>2, DrawnKept
  <2> QED BY <1>1, <2>5, <2>6 DEF Promised, Dispatches!CNext
<1> QED BY <1>2, <1>3

\* Every job whose promise is open is in the queue or leased, so close() fails it.
LEMMA ClosePromised == ASSUME IInv, Close PROVE Promised /\ LeasedDrawn'
<1>0. TypeOK
  BY DEF IInv
<1>1. \A k \in Jobs : Open(k) <=> k \in leased \cup ToSet(queue)
  BY <1>0, InvFacts DEF TypeOK, ToSet, In
<1>2. /\ ~closed /\ closed' = TRUE /\ leased' = {} /\ UNCHANGED <<seq, grants, reply>>
      /\ outcome' = [k \in Jobs |-> IF k \in leased \cup ToSet(queue) THEN "busy" ELSE outcome[k]]
  BY DEF Close
<1>3. outcome' = [k \in Jobs |-> IF k \in Dispatches!Open THEN "busy" ELSE outcome[k]]
  BY <1>1, <1>2, OpenCalls
<1>4. Dispatches!ShutDown
  BY <1>2, <1>3, SameTaken DEF Dispatches!ShutDown
<1> QED BY <1>2, <1>4 DEF Promised, Dispatches!CNext, LeasedDrawn

LEMMA JobPromised == ASSUME IInv, LeasedDrawn, NEW j \in Jobs, JobNext(j) PROVE Promised /\ LeasedDrawn'
<1> USE InvFacts
<1>0. TypeOK
  BY DEF IInv
<1>1. CASE Dispatch(j)
  BY <1>1, DispatchPromised
<1>2. CASE Abort(j)
  <2>1. Open(j)
    BY <1>2 DEF Abort, Open
  <2> QED BY <1>0, <1>2, <2>1, Settled DEF Abort, Settle, Unlease, Outcomes
<1>3. CASE QueueTimeout(j)
  <2>1. Open(j)
    BY <1>3 DEF QueueTimeout, In
  <2> QED BY <1>0, <1>3, <2>1, Settled DEF QueueTimeout, Settle, Outcomes
<1>4. CASE FailLeased(j)
  <2>1. Open(j) /\ j \in leased
    BY <1>4 DEF FailLeased
  <2> QED BY <1>0, <1>4, <2>1, Settled DEF FailLeased, Settle, Unlease, Outcomes
<1>5. CASE Reclaim(j)
  <2>1. Open(j) /\ UNCHANGED <<closed, seq, outcome, reply>>
    BY <1>5 DEF Reclaim
  <2>2. \/ leased' = leased \ {j} /\ grants' = grants
        \/ leased' = (leased \ {j}) \cup {j} /\ grants' = [grants EXCEPT ![j] = @ + 1]
    BY <1>5 DEF Reclaim, Enqueue, Grant
  <2> QED BY <1>0, <2>1, <2>2, Leased
<1>6. CASE Lapse(j) \/ PassDeadline(j)
  BY <1>6, SameTaken DEF Lapse, PassDeadline, Promised, LeasedDrawn
<1> QED BY <1>1, <1>2, <1>3, <1>4, <1>5, <1>6 DEF JobNext

LEMMA SlotPromised == ASSUME IInv, LeasedDrawn, NEW s \in Slots, SlotNext(s) PROVE Promised /\ LeasedDrawn'
<1> USE InvFacts
<1>0. TypeOK
  BY DEF IInv
<1>1. CASE UNCHANGED <<closed, seq, outcome, grants, reply, leased>>
  BY <1>1, SameTaken DEF Promised, LeasedDrawn
<1>2. CASE Lease(s)
  <2>1. UNCHANGED <<closed, seq, outcome, reply>>
    BY <1>2 DEF Lease
  <2>2. CASE queue = <<>>
    BY <1>1, <1>2, <2>1, <2>2 DEF Lease
  <2>3. CASE queue # <<>>
    <3> DEFINE j == Head(queue)
    <3>1. j \in Jobs /\ In(queue, j)
      BY <1>0, <2>3, TailFacts DEF TypeOK
    <3>2. leased' = leased \cup {j} /\ grants' = [grants EXCEPT ![j] = @ + 1]
      BY <1>2, <2>3 DEF Lease, Grant
    <3> HIDE DEF j
    <3> QED BY <1>0, <2>1, <3>1, <3>2, Leased
  <2> QED BY <2>2, <2>3
<1>3. CASE Abandon(s)
  <2>1. UNCHANGED <<closed, seq, outcome, reply>>
    BY <1>3 DEF Abandon
  <2>2. CASE ~Current(granted[s])
    BY <1>1, <1>3, <2>1, <2>2 DEF Abandon
  <2>3. CASE Current(granted[s])
    <3> DEFINE j == granted[s][1]
    <3>1. j \in Jobs /\ Open(j) /\ j \in leased
      BY <1>0, <2>3 DEF Current, TypeOK
    <3>2. \/ leased' = leased \ {j} /\ grants' = grants
          \/ leased' = leased /\ grants' = [grants EXCEPT ![j] = @ + 1]
      BY <1>3, <2>3 DEF Abandon, Unlease
    <3> HIDE DEF j
    <3> QED BY <1>0, <2>1, <3>1, <3>2, Leased
  <2> QED BY <2>2, <2>3
<1>4. CASE HangUp(s) \/ WaitEnds(s) \/ Answer(s) \/ RenewRefused(s) \/ Report(s) \/ Leave(s) \/ Renew(s)
  BY <1>1, <1>4 DEF HangUp, WaitEnds, Answer, RenewRefused, Report, Leave, Renew, jobVars
<1> QED BY <1>2, <1>3, <1>4 DEF SlotNext

\* Only the current token settles a job with a reply.
LEMMA CompletePromised == ASSUME IInv, LeasedDrawn, NEW lease \in sent, Complete(lease) PROVE Promised /\ LeasedDrawn'
<1>0. TypeOK
  BY DEF IInv
<1>1. PICK j \in Jobs : j = lease[1]
  BY <1>0, LeaseFacts DEF TypeOK
<1>2. lease[2] = grants[j] /\ j \in leased
  BY <1>1 DEF Complete, Current
<1>3. Open(j)
  BY <1>2, InvFacts
<1>4. /\ outcome' = [outcome EXCEPT ![j] = "answered"] /\ reply' = [reply EXCEPT ![j] = grants[j]]
      /\ leased' \subseteq leased /\ UNCHANGED <<closed, seq, grants>>
  BY <1>1, <1>2 DEF Complete, Unlease
<1> QED BY <1>0, <1>2, <1>3, <1>4, Settled DEF Outcomes

\* The broker, with its queue, polls, tokens and timers, keeps what DispatchPromise says,
\* for any calls and slots and whatever workers do.
THEOREM BrokerKeepsPromise == Spec => KeepsDispatch
<1>1. Init => Dispatches!CInit /\ LeasedDrawn
  BY DEF Init, Numbered, Dispatches!CInit, LeasedDrawn
<1>2. IInv /\ LeasedDrawn /\ [Next]_vars => Promised /\ LeasedDrawn'
  <2>1. CASE UNCHANGED vars
    BY <2>1, SameTaken DEF vars, jobVars, Promised, LeasedDrawn
  <2> QED BY <2>1, JobPromised, SlotPromised, CompletePromised, ClosePromised DEF Next
<1>3. Promised => [Dispatches!CNext]_(Dispatches!cvars)
  BY DEF Promised, Dispatches!cvars
<1> QED BY <1>1, <1>2, <1>3, BrokerInvariant, PTL DEF Spec, KeepsDispatch, Dispatches!CSpec

-----------------------------------------------------------------------------
(* The order of the queue.                                                 *)

Ordered(q, order) == \A i, k \in DOMAIN q : i < k => order[q[i]] < order[q[k]]

\* r holds some of q, in the order of q.
Thins(r, q) ==
    \A i, k \in DOMAIN r : i < k => \E x, y \in DOMAIN q : x < y /\ r[i] = q[x] /\ r[k] = q[y]

\* A thinned queue is still in order.
LEMMA ThinnedOrder == ASSUME NEW r, NEW q, NEW order, Thins(r, q), Ordered(q, order) PROVE Ordered(r, order)
  BY DEF Thins, Ordered

\* Removing a job thins the queue (RemoveFirst).
LEMMA UnqueueThins ==
    ASSUME NEW q \in Seq(Jobs), NEW j, Distinct(q)
    PROVE  Thins(RemoveFirst(q, j), q)
<1> DEFINE r == RemoveFirst(q, j)
<1>1. CASE ~In(q, j)
  <2>1. r = q
    BY <1>1 DEF In, RemoveFirst
  <2> QED BY <2>1 DEF Thins
<1>2. CASE In(q, j)
  <2>1. PICK n \in 1..Len(q) : q[n] = j
    BY <1>2 DEF In
  <2>2. /\ r \in Seq(Jobs) /\ Len(r) = Len(q) - 1
        /\ \A i \in 1..Len(r) : r[i] = IF i < n THEN q[i] ELSE q[i + 1]
    BY <2>1, RemoveFirstFacts
  <2> HIDE DEF r
  <2> DEFINE at(i) == IF i < n THEN i ELSE i + 1
  <2>3. Len(q) \in Nat /\ DOMAIN r = 1..Len(q) - 1 /\ DOMAIN q = 1..Len(q) /\ n \in Nat
    BY <2>1, <2>2
  <2>4. \A i \in DOMAIN r : at(i) \in DOMAIN q /\ r[i] = q[at(i)]
    BY <2>1, <2>2, <2>3
  <2>5. \A i, k \in DOMAIN r : i < k => at(i) < at(k)
    BY <2>3
  <2> HIDE DEF at
  <2>6. Thins(r, q)
    BY <2>4, <2>5 DEF Thins
  <2> QED BY <2>6 DEF r
<1> QED BY <1>1, <1>2

\* So does taking its head.
LEMMA TailThins == ASSUME NEW q \in Seq(Jobs), q # <<>> PROVE Thins(Tail(q), q)
<1> DEFINE r == Tail(q)
<1>1. r \in Seq(Jobs) /\ Len(r) = Len(q) - 1 /\ \A i \in 1..Len(r) : r[i] = q[i + 1]
  BY HeadTailProperties
<1> HIDE DEF r
<1>2. \A i \in DOMAIN r : i + 1 \in DOMAIN q /\ r[i] = q[i + 1]
  BY <1>1
<1>3. \A i, k \in DOMAIN r : i < k => i + 1 < k + 1
  BY <1>1
<1>4. Thins(r, q)
  BY <1>2, <1>3 DEF Thins
<1> QED BY <1>4 DEF r

\* The earlier jobs of an ordered queue are its first ones, so their number is the place to take.
LEMMA EarlierFirst ==
    ASSUME NEW q \in Seq(Jobs), NEW order \in [Jobs -> Nat], NEW j \in Jobs, Ordered(q, order)
    PROVE  LET earlier == {i \in DOMAIN q : order[q[i]] < order[j]} IN
           /\ Cardinality(earlier) \in 0..Len(q)
           /\ \A i \in DOMAIN q : i \in earlier <=> i <= Cardinality(earlier)
<1> DEFINE earlier == {i \in DOMAIN q : order[q[i]] < order[j]}
<1>1. DOMAIN q = 1..Len(q) /\ Len(q) \in Nat /\ \A i \in DOMAIN q : q[i] \in Jobs
  OBVIOUS
<1>2. \A i, k \in DOMAIN q : i \in earlier /\ k <= i => k \in earlier
  <2> SUFFICES ASSUME NEW i \in DOMAIN q, NEW k \in DOMAIN q, i \in earlier, k < i PROVE k \in earlier
    BY <1>1
  <2>1. order[q[k]] < order[q[i]] /\ order[q[i]] < order[j]
    BY DEF Ordered
  <2>2. order[q[k]] \in Nat /\ order[q[i]] \in Nat /\ order[j] \in Nat
    BY <1>1
  <2> QED BY <2>1, <2>2
<1>3. earlier \subseteq 1..Len(q)
  BY <1>1
<1> HIDE DEF earlier
<1>4. \A n \in Nat : IsFiniteSet(1..n) /\ Cardinality(1..n) = n
  <2> SUFFICES ASSUME NEW n \in Nat PROVE IsFiniteSet(1..n) /\ Cardinality(1..n) = n
    OBVIOUS
  <2>1. IsFiniteSet(1..n) /\ Cardinality(1..n) = IF 1 > n THEN 0 ELSE n - 1 + 1
    <3>1. 1 \in Int /\ n \in Int
      OBVIOUS
    <3> QED BY <3>1, FS_Interval, Zenon
  <2> QED BY <2>1
<1>5. IsFiniteSet(earlier) /\ Cardinality(earlier) \in Nat /\ Cardinality(earlier) <= Len(q)
  <2>1. IsFiniteSet(1..Len(q)) /\ Cardinality(1..Len(q)) = Len(q)
    BY <1>1, <1>4
  <2>2. IsFiniteSet(earlier) /\ Cardinality(earlier) <= Cardinality(1..Len(q))
    BY <1>3, <2>1, FS_Subset
  <2> QED BY <2>1, <2>2, FS_CardinalityType
<1>6. ASSUME NEW i \in DOMAIN q, i \in earlier PROVE i <= Cardinality(earlier)
  <2>1. 1..i \subseteq earlier
    BY <1>1, <1>2, <1>6
  <2>2. i \in Nat /\ Cardinality(1..i) = i
    BY <1>1, <1>4
  <2>3. Cardinality(1..i) <= Cardinality(earlier)
    BY <2>1, <1>5, FS_Subset
  <2> QED BY <2>2, <2>3
<1>7. ASSUME NEW i \in DOMAIN q, i \notin earlier PROVE ~(i <= Cardinality(earlier))
  <2>1. earlier \subseteq 1..(i - 1)
    BY <1>1, <1>2, <1>3, <1>7
  <2>2. i \in Nat /\ i - 1 \in Nat
    BY <1>1
  <2>4. IsFiniteSet(1..(i - 1)) /\ Cardinality(1..(i - 1)) = i - 1
    BY <2>2, <1>4
  <2>3. Cardinality(earlier) <= i - 1
    BY <2>1, <2>4, FS_Subset
  <2> QED BY <2>2, <2>3, <1>5
<1>8. Cardinality(earlier) \in 0..Len(q)
  BY <1>1, <1>5
<1> QED BY <1>6, <1>7, <1>8 DEF earlier

\* A job of its own place in the order goes to that place (Place).
LEMMA PlaceOrdered ==
    ASSUME NEW q \in Seq(Jobs), NEW order \in [Jobs -> Nat], NEW j \in Jobs, Ordered(q, order),
           \A i \in DOMAIN q : order[q[i]] # order[j]
    PROVE  Ordered(Place(q, order, j), order)
<1> DEFINE earlier == {i \in DOMAIN q : order[q[i]] < order[j]}
           n == Cardinality(earlier)
           r == InsertAt(q, n + 1, j)
<1>1. n \in 0..Len(q) /\ \A i \in DOMAIN q : i \in earlier <=> i <= n
  BY EarlierFirst
<1>2. DOMAIN q = 1..Len(q) /\ Len(q) \in Nat /\ order[j] \in Nat /\ \A i \in DOMAIN q : order[q[i]] \in Nat
  OBVIOUS
<1>3. \A i \in DOMAIN q : (i <= n => order[q[i]] < order[j]) /\ (i > n => order[j] < order[q[i]])
  <2> SUFFICES ASSUME NEW i \in DOMAIN q
               PROVE  (i <= n => order[q[i]] < order[j]) /\ (i > n => order[j] < order[q[i]])
    OBVIOUS
  <2>1. order[q[i]] < order[j] <=> i <= n
    BY <1>1
  <2>2. i \in Nat /\ n \in Nat /\ order[q[i]] \in Nat /\ order[q[i]] # order[j]
    BY <1>1, <1>2
  <2> HIDE DEF n, earlier
  <2> QED BY <1>2, <2>1, <2>2
<1>4. Place(q, order, j) = r
  BY DEF Place
<1> HIDE DEF n
<1>5. /\ r \in Seq(Jobs) /\ Len(r) = Len(q) + 1
      /\ \A i \in 1..Len(r) : r[i] = IF i <= n THEN q[i] ELSE IF i = n + 1 THEN j ELSE q[i - 1]
  BY <1>1, InsertAtFacts
<1> HIDE DEF r, earlier
<1>6. DOMAIN r = 1..Len(q) + 1 /\ n \in Nat /\ n <= Len(q)
  BY <1>1, <1>2, <1>5
<1>7. ASSUME NEW i \in DOMAIN r, NEW k \in DOMAIN r, i < k PROVE order[r[i]] < order[r[k]]
  <2>4. i \in Nat /\ k \in Nat /\ n \in Nat
    BY <1>6
  <2>1. CASE k <= n
    <3>1. i \in DOMAIN q /\ k \in DOMAIN q /\ r[i] = q[i] /\ r[k] = q[k]
      BY <1>2, <1>5, <1>6, <1>7, <2>1
    <3> QED BY <1>7, <3>1 DEF Ordered
  <2>2. CASE k = n + 1
    <3>1. i \in DOMAIN q /\ i <= n /\ r[i] = q[i] /\ r[k] = j
      BY <1>2, <1>5, <1>6, <1>7, <2>2
    <3> QED BY <1>3, <3>1
  <2>3. CASE k > n + 1
    <3>0. k \in 1..Len(r) /\ k \in Nat /\ k <= Len(q) + 1
      BY <1>2, <1>5, <1>6
    <3>5. r[k] = q[k - 1]
      BY <1>5, <1>6, <2>3, <3>0
    <3>1. k - 1 \in DOMAIN q /\ k - 1 > n /\ r[k] = q[k - 1]
      BY <1>2, <1>6, <2>3, <3>0, <3>5
    <3>2. CASE i <= n
      <4>1. i \in DOMAIN q /\ r[i] = q[i] /\ i < k - 1
        BY <1>2, <1>5, <1>6, <3>2, <2>3
      <4> QED BY <3>1, <4>1 DEF Ordered
    <3>3. CASE i = n + 1
      <4>1. r[i] = j
        BY <1>5, <1>6, <3>3
      <4> QED BY <1>3, <3>1, <4>1
    <3>4. CASE i > n + 1
      <4>0. i \in 1..Len(r) /\ i \in Nat /\ k \in Nat /\ k <= Len(q) + 1
        BY <1>2, <1>5, <1>6
      <4>2. r[i] = q[i - 1]
        BY <1>5, <1>6, <3>4, <4>0
      <4>1. i - 1 \in DOMAIN q /\ r[i] = q[i - 1] /\ i - 1 < k - 1
        BY <1>2, <1>6, <1>7, <3>4, <4>0, <4>2
      <4> QED BY <3>1, <4>1 DEF Ordered
    <3> QED BY <2>4, <3>2, <3>3, <3>4
  <2> QED BY <2>4, <2>1, <2>2, <2>3
<1> QED BY <1>4, <1>7 DEF Ordered

\* Why jobs are leased in order: seqs are drawn once each, and the queue is in their order.
OrderInv ==
    /\ \A j \in Jobs : seq[j] <= lastSeq
    /\ \A j, k \in Jobs : seq[j] = seq[k] /\ seq[j] # 0 => j = k
    /\ Ordered(queue, seq)

\* What a queue holds: jobs with a seq of their own.
LEMMA QueuedHaveSeqs ==
    ASSUME IInv, OrderInv
    PROVE  /\ queue \in Seq(Jobs) /\ seq \in [Jobs -> Nat] /\ lastSeq \in Nat
           /\ \A i \in DOMAIN queue : queue[i] \in Jobs /\ seq[queue[i]] # 0
<1>1. queue \in Seq(Jobs) /\ seq \in [Jobs -> Nat] /\ lastSeq \in Nat
  BY DEF IInv, TypeOK
<1>2. ASSUME NEW i \in DOMAIN queue PROVE queue[i] \in Jobs /\ seq[queue[i]] # 0
  <2>1. queue[i] \in Jobs /\ In(queue, queue[i])
    BY <1>1 DEF In
  <2> QED BY <2>1, InvFacts DEF Open
<1> QED BY <1>1, <1>2

\* Steps that take jobs from the queue and give none a seq.
LEMMA ThinStep ==
    ASSUME IInv, OrderInv, seq' = seq, lastSeq' = lastSeq, queue' = queue \/ Thins(queue', queue)
    PROVE  OrderInv'
<1>1. Ordered(queue', seq)
  BY ThinnedOrder DEF OrderInv
<1> QED BY <1>1 DEF OrderInv

\* enqueue puts a job with a seq of its own in its place, or leaves the queue.
LEMMA EnqueueOrdered ==
    ASSUME IInv, OrderInv, NEW j \in Jobs, ~In(queue, j), NEW others, NEW order \in [Jobs -> Nat],
           \A k \in Jobs : k # j => order[k] = seq[k] /\ (order[k] = order[j] => order[k] = 0),
           Enqueue(j, order, others)
    PROVE  Ordered(queue', order)
<1> USE QueuedHaveSeqs
<1>1. \A i \in DOMAIN queue : queue[i] # j
  BY DEF In
<1>2. \A i \in DOMAIN queue : order[queue[i]] = seq[queue[i]] /\ order[queue[i]] # order[j]
  BY <1>1
<1>3. Ordered(queue, order)
  BY <1>2 DEF OrderInv, Ordered
<1>4. queue' = Place(queue, order, j) \/ queue' = queue
  BY DEF Enqueue
<1> QED BY <1>2, <1>3, <1>4, PlaceOrdered

\* A dispatch draws the next seq, which nobody has.
LEMMA DispatchOrdered == ASSUME IInv, OrderInv, NEW j \in Jobs, Dispatch(j) PROVE OrderInv'
<1> USE QueuedHaveSeqs
<1> DEFINE same == UNCHANGED <<lastSeq, seq, queue, leased, grants, lapsed, overdue, granted, waiters>>
<1>1. CASE same
  BY <1>1, ThinStep
<1>2. CASE ~same
  <2>1. lastSeq' = lastSeq + 1 /\ seq' = [seq EXCEPT ![j] = lastSeq'] /\ Enqueue(j, seq', leased) /\ seq[j] = 0
    BY <1>2 DEF Dispatch
  <2>2. seq' \in [Jobs -> Nat] /\ \A k \in Jobs : seq'[k] = IF k = j THEN lastSeq + 1 ELSE seq[k]
    BY <2>1
  <2>3. \A k \in Jobs : seq[k] \in Nat /\ seq[k] <= lastSeq
    BY DEF OrderInv
  <2>4. ~In(queue, j)
    BY <2>1, InvFacts DEF Open
  <2>5. \A k \in Jobs : k # j => seq'[k] = seq[k] /\ seq'[k] # seq'[j]
    BY <2>2, <2>3
  <2>6. Ordered(queue', seq')
    BY <2>1, <2>2, <2>4, <2>5, EnqueueOrdered
  <2>7. \A k, l \in Jobs : seq'[k] = seq'[l] /\ seq'[k] # 0 => k = l
    BY <2>2, <2>5 DEF OrderInv
  <2>8. \A k \in Jobs : seq'[k] <= lastSeq'
    BY <2>1, <2>2, <2>3
  <2> QED BY <2>6, <2>7, <2>8 DEF OrderInv
<1> QED BY <1>1, <1>2

\* A reclaimed or abandoned job goes back to its place.
LEMMA ReclaimOrdered == ASSUME IInv, OrderInv, NEW j \in Jobs, Reclaim(j) PROVE OrderInv'
<1> USE QueuedHaveSeqs
<1>1. seq' = seq /\ lastSeq' = lastSeq /\ Enqueue(j, seq, leased \ {j}) /\ ~In(queue, j)
  BY InvFacts DEF Reclaim
<1>2. Ordered(queue', seq)
  BY <1>1, EnqueueOrdered DEF OrderInv
<1> QED BY <1>1, <1>2 DEF OrderInv

LEMMA AbandonOrdered == ASSUME IInv, OrderInv, NEW s \in Slots, Abandon(s) PROVE OrderInv'
<1> USE QueuedHaveSeqs
<1>1. granted[s] \in Leases
  BY DEF IInv, TypeOK, Abandon
<1> DEFINE j == granted[s][1]
<1>2. j \in Jobs
  BY <1>1, LeaseFacts
<1>3. seq' = seq /\ lastSeq' = lastSeq /\ (queue' = queue \/ (Current(granted[s]) /\ queue' = Place(queue, seq, j)))
  BY DEF Abandon
<1> HIDE DEF j
<1>4. CASE queue' = queue
  BY <1>3, <1>4, ThinStep
<1>5. CASE Current(granted[s]) /\ queue' = Place(queue, seq, j)
  <2>1. j \in leased
    BY <1>5 DEF Current, j
  <2>2. \A i \in DOMAIN queue : queue[i] # j
    BY <2>1, InvFacts DEF In
  <2>3. \A i \in DOMAIN queue : seq[queue[i]] # seq[j]
    BY <1>2, <2>2 DEF OrderInv
  <2>4. Ordered(queue', seq)
    BY <1>2, <1>5, <2>3, PlaceOrdered DEF OrderInv
  <2> QED BY <1>3, <2>4 DEF OrderInv
<1> QED BY <1>3, <1>4, <1>5

\* Every step keeps the queue in order.
LEMMA OrderStep == IInv /\ OrderInv /\ [Next]_vars => OrderInv'
<1> SUFFICES ASSUME IInv, OrderInv, [Next]_vars PROVE OrderInv'
  OBVIOUS
<1>1. queue \in Seq(Jobs) /\ Distinct(queue)
  BY InvFacts DEF IInv, TypeOK
<1>2. ASSUME NEW j \in Jobs, JobNext(j) PROVE OrderInv'
  <2>1. CASE Dispatch(j)
    BY <2>1, DispatchOrdered
  <2>2. CASE Abort(j) \/ QueueTimeout(j)
    BY <2>2, <1>1, UnqueueThins, ThinStep DEF Abort, QueueTimeout
  <2>3. CASE Lapse(j) \/ PassDeadline(j) \/ FailLeased(j)
    BY <2>3, ThinStep DEF Lapse, PassDeadline, FailLeased
  <2>4. CASE Reclaim(j)
    BY <2>4, ReclaimOrdered
  <2> QED BY <1>2, <2>1, <2>2, <2>3, <2>4 DEF JobNext
<1>3. ASSUME NEW s \in Slots, SlotNext(s) PROVE OrderInv'
  <2>1. CASE Lease(s)
    BY <2>1, <1>1, TailThins, ThinStep DEF Lease
  <2>2. CASE Abandon(s)
    BY <2>2, AbandonOrdered
  <2>3. CASE HangUp(s) \/ WaitEnds(s) \/ Answer(s) \/ Renew(s) \/ RenewRefused(s) \/ Report(s) \/ Leave(s)
    BY <2>3, ThinStep DEF HangUp, WaitEnds, Answer, Renew, RenewRefused, Report, Leave, jobVars
  <2> QED BY <1>3, <2>1, <2>2, <2>3 DEF SlotNext
<1>4. ASSUME NEW lease \in sent, Complete(lease) PROVE OrderInv'
  BY <1>4, ThinStep DEF Complete
<1>5. CASE Close
  <2>1. queue' = <<>> /\ seq' = seq /\ lastSeq' = lastSeq
    BY <1>5 DEF Close
  <2>2. Thins(queue', queue)
    BY <2>1 DEF Thins
  <2> QED BY <2>1, <2>2, ThinStep
<1>6. CASE UNCHANGED vars
  BY <1>6, ThinStep DEF vars, jobVars
<1> QED BY <1>2, <1>3, <1>4, <1>5, <1>6 DEF Next

\* Seqs are unique and the queue is in their order, wherever a reclaimed or abandoned job comes back.
THEOREM QueueInOrder == Spec => []OrderInv
<1>1. Init => OrderInv
  BY DEF Init, OrderInv, Ordered
<1> QED BY <1>1, OrderStep, BrokerInvariant, PTL DEF Spec

\* Only an empty queue lets a job be leased past it, and a poll takes the head.
LEMMA LeasedInOrder ==
    ASSUME IInv, OrderInv, [Next]_vars, NEW j \in Jobs, grants'[j] > grants[j], NEW i \in DOMAIN queue
    PROVE  seq[queue[i]] >= seq'[j]
<1> USE QueuedHaveSeqs
<1>1. grants \in [Jobs -> Nat] /\ queue # <<>>
  BY DEF IInv, TypeOK
<1>2. waiters = <<>>
  BY <1>1 DEF IInv, NoIdleWorkerBesideAJob
<1>3. grants' # grants
  <2>1. grants[j] \in Nat
    BY <1>1
  <2> QED BY <2>1
<1>4. PICK s \in Slots : Lease(s)
  <2>1. ASSUME NEW k \in Jobs, JobNext(k) PROVE FALSE
    BY <2>1, <1>2, <1>3 DEF JobNext, Dispatch, Abort, QueueTimeout, Lapse, PassDeadline, FailLeased, Reclaim, Enqueue
  <2>2. ASSUME NEW s \in Slots, SlotNext(s), ~Lease(s) PROVE FALSE
    BY <2>2, <1>2, <1>3 DEF SlotNext, HangUp, WaitEnds, Answer, Abandon, Renew, RenewRefused, Report, Leave, jobVars
  <2>3. ASSUME NEW lease \in sent, Complete(lease) PROVE FALSE
    BY <2>3, <1>3 DEF Complete
  <2>4. ~Close /\ ~UNCHANGED vars
    BY <1>3 DEF Close, vars, jobVars
  <2> QED BY <2>1, <2>2, <2>3, <2>4 DEF Next
<1>5. seq' = seq /\ grants' = [grants EXCEPT ![Head(queue)] = @ + 1]
  BY <1>1, <1>4 DEF Lease, Grant
<1>6. j = Head(queue) /\ Head(queue) = queue[1] /\ 1 \in DOMAIN queue
  <2>1. Head(queue) = queue[1] /\ 1 \in DOMAIN queue
    BY <1>1
  <2>2. j # Head(queue) => grants'[j] = grants[j]
    BY <1>1, <1>5
  <2>3. grants[j] \in Nat
    BY <1>1
  <2> QED BY <2>1, <2>2, <2>3
<1>7. i = 1 \/ 1 < i
  BY <1>6
<1>8. seq[queue[1]] \in Nat /\ seq[queue[i]] \in Nat
  BY <1>6
<1> QED BY <1>5, <1>6, <1>7, <1>8 DEF OrderInv, Ordered

\* OldestFirst: a lease goes to the job dispatched first among those that wait, also when
\* reclaimed and abandoned jobs are among them (enqueue's insertion by seq, lease's shift).
THEOREM LeasedOldestFirst == Spec => OldestFirst
<1> DEFINE First(j) == grants'[j] > grants[j] => \A i \in DOMAIN queue : seq[queue[i]] >= seq'[j]
<1>1. IInv /\ OrderInv /\ [Next]_vars => [\A j \in Jobs : First(j)]_vars
  BY LeasedInOrder
<1> QED BY <1>1, BrokerInvariant, QueueInOrder, PTL DEF Spec, OldestFirst

\* No job waits while a worker does: enqueue grants before it queues, lease queues a
\* poll only when no job waits.
THEOREM NobodyIdle == Spec => []NoIdleWorkerBesideAJob
<1>1. IInv => NoIdleWorkerBesideAJob
  BY DEF IInv
<1> QED BY <1>1, BrokerInvariant, PTL
=============================================================================
