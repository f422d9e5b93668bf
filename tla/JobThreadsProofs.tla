-------------------------- MODULE JobThreadsProofs --------------------------
(***************************************************************************)
(* Two proofs about JobThreads, for any number of threads, jobs and slots. *)
(*                                                                         *)
(* No thread dies with the mutex.  The argument counts: every job that was *)
(* created is with its producer, in the queue, with a consumer that prints *)
(* it, or completed.  So when main finds both counters at Jobs nobody is,  *)
(* or will ever again be, at a point in a critical section where           *)
(* cancellation acts.                                                      *)
(*                                                                         *)
(* The threads implement JobPool.  What insert_job and remove_job do to    *)
(* the heap is a recursive function here, so that it exists, and what it   *)
(* returns, is proved first, by induction over the slots: a set of numbers *)
(* where the claim fails would have a least element.                       *)
(***************************************************************************)
EXTENDS JobThreads, FiniteSetTheorems, WellFoundedInduction, TLAPS

-----------------------------------------------------------------------------
(* The heap. *)

\* A nonempty set of naturals has a least element, from which every induction below starts.
LEMMA Least ==
  ASSUME NEW T \in SUBSET Nat, T # {}
  PROVE  \E n \in T : \A m \in T : n <= m
  <1>1. PICK n \in T : \A m \in T : ~ (<<m, n>> \in OpToRel(<, Nat))
    BY NatLessThanWellFounded, WFMin
  <1>2. \A m \in T : m < n => <<m, n>> \in OpToRel(<, Nat)
    BY DEF OpToRel
  <1>3. \A m \in T : ~ (m < n)
    BY <1>1, <1>2, Zenon
  <1> QED
    BY <1>3

\* One round of the loops of insert_job and remove_job, f being the rounds that follow.
RiseStep(f, i) == [h \in Heaps |-> IF BeatsParent(h, i) THEN f[i \div 2][Swap(h, i, i \div 2)] ELSE h]
SinkStep(f, n, i) == [h \in Heaps |-> IF Target(h, n, i) = i THEN h
                         ELSE f[Target(h, n, i)][Swap(h, i, Target(h, n, i))]]

Rises(f) == f = [i \in Slots |-> RiseStep(f, i)]
Sinks(f, n) == f = [i \in Slots |-> SinkStep(f, n, i)]

\* What an exchange of two jobs does.
LEMMA SwapType ==
  ASSUME NEW h \in Heaps, NEW i \in Slots, NEW k \in Slots
  PROVE  /\ Swap(h, i, k) \in Heaps
         /\ \A j \in Slots : Swap(h, i, k)[j] = IF j = k THEN h[i] ELSE IF j = i THEN h[k] ELSE h[j]
  BY DEF Swap, Heaps

\* The parent of a slot is a slot before it.
LEMMA Parent ==
  ASSUME NEW i \in Slots, i > 1
  PROVE  i \div 2 \in Slots /\ i \div 2 < i
  BY JobThreadsAssumption DEF Slots

\* Risen is a function that satisfies the recursion, if there is one.
LEMMA RiseIs == \A q, k : (\E f : Rises(f)) => \E f : Rises(f) /\ Risen(q, k) = f[k][q]
  <1> SUFFICES ASSUME NEW q, NEW k, \E f : Rises(f) PROVE \E f : Rises(f) /\ Risen(q, k) = f[k][q]
    OBVIOUS
  <1> DEFINE rise[i \in Slots] ==
        [h \in Heaps |-> IF BeatsParent(h, i) THEN rise[i \div 2][Swap(h, i, i \div 2)] ELSE h]
  <1>1. Risen(q, k) = rise[k][q]
    BY DEF Risen
  <1>2. rise = CHOOSE f : f = [i \in Slots |-> RiseStep(f, i)]
    BY DEF RiseStep
  <1> HIDE DEF rise
  <1>3. Rises(rise)
    BY <1>2, Zenon DEF Rises
  <1> QED
    BY <1>1, <1>3

\* Induction over a set of numbers, up to N.
LEMMA Induction ==
  ASSUME NEW N \in Nat, NEW T, 0 \in T,
         \A n \in 0..N : n \in T /\ n < N => n + 1 \in T
  PROVE  \A n \in 0..N : n \in T
  <1> DEFINE U == {n \in 0..N : n \notin T}
  <1> SUFFICES ASSUME U # {} PROVE FALSE
    OBVIOUS
  <1>1. PICK n \in U : \A m \in U : n <= m
    <2>1. U \in SUBSET Nat
      OBVIOUS
    <2> HIDE DEF U
    <2> QED
      BY <2>1, Least
  <1>2. n \in 0..N /\ n \notin T /\ n # 0
    BY <1>1
  <1>3. n - 1 \in 0..N /\ n - 1 < N /\ n - 1 \notin U
    <2>1. n - 1 \in 0..N /\ n - 1 < N /\ ~ (n <= n - 1)
      BY <1>2
    <2> HIDE DEF U
    <2> QED
      BY <1>1, <2>1
  <1>4. (n - 1) + 1 \in T
    BY <1>3
  <1> QED
    BY <1>2, <1>4

\* There is one: the rounds at the first n slots are given for every n, the last of them by those
\* of its parent.
LEMMA RiseExists == \E f : Rises(f)
  <1> USE JobThreadsAssumption
  <1> DEFINE F == [Slots -> [Heaps -> Heaps]]
             Fixed(f, n) == \A i \in 1..n : f[i] = RiseStep(f, i)
             T == {n \in 0..(PQ_SIZE - 1) : \E f \in F : Fixed(f, n)}
  <1>1. 0 \in T
    <2>1. [i \in Slots |-> [h \in Heaps |-> h]] \in F /\ \A f : Fixed(f, 0)
      OBVIOUS
    <2> HIDE DEF F, Fixed
    <2> QED
      BY <2>1
  <1>2. ASSUME NEW m \in 0..(PQ_SIZE - 1), m \in T, m < PQ_SIZE - 1 PROVE m + 1 \in T
    <2> DEFINE n == m + 1
    <2>1. PICK f \in F : Fixed(f, m)
      BY <1>2
    <2>2. n \in Slots /\ n \in Nat /\ n \in 0..(PQ_SIZE - 1)
      BY <1>2 DEF Slots
    <2>3. \A i \in 1..n : i \in Slots /\ i \in Nat /\ (i = n \/ (i \in 1..m /\ i # n))
      BY <1>2 DEF Slots
    <2> DEFINE g == [f EXCEPT ![n] = RiseStep(f, n)]
    <2> HIDE DEF n, T
    <2>4. RiseStep(f, n) \in [Heaps -> Heaps]
      <3> SUFFICES ASSUME NEW h \in Heaps, BeatsParent(h, n)
                   PROVE  f[n \div 2][Swap(h, n, n \div 2)] \in Heaps
        BY DEF RiseStep
      <3>1. n \div 2 \in Slots
        BY <2>2, Parent DEF BeatsParent
      <3> QED
        BY <2>2, <3>1, SwapType
    <2>5. g \in F /\ g[n] = RiseStep(f, n) /\ \A i \in Slots : i # n => g[i] = f[i]
      BY <2>2, <2>4
    <2> HIDE DEF g
    <2>6. ASSUME NEW i \in 1..n PROVE RiseStep(g, i) = RiseStep(f, i)
      <3>1. i > 1 => g[i \div 2] = f[i \div 2]
        <4>1. i > 1 => i \div 2 \in Slots /\ i \div 2 < i
          BY <2>3, Parent
        <4>2. i <= n
          BY <2>2
        <4> QED
          BY <2>2, <2>3, <2>5, <4>1, <4>2
      <3> QED
        BY <3>1, Zenon DEF RiseStep, BeatsParent
    <2>7. Fixed(g, n)
      <3>1. ASSUME NEW i \in 1..n PROVE g[i] = RiseStep(f, i)
        BY <2>1, <2>3, <2>5
      <3> QED
        BY <2>6, <3>1
    <2> HIDE DEF F, Fixed
    <2> QED
      BY <2>2, <2>5, <2>7 DEF n, T
  <1>3. PQ_SIZE - 1 \in T
    <2>1. PQ_SIZE - 1 \in Nat /\ PQ_SIZE - 1 \in 0..(PQ_SIZE - 1)
      OBVIOUS
    <2> HIDE DEF T
    <2> QED
      BY <1>1, <1>2, <2>1, Induction
  <1> QED
    BY <1>3 DEF Rises, Slots

\* The same of Sunk.
LEMMA SinkIs == \A q, n : (\E f : Sinks(f, n)) => \E f : Sinks(f, n) /\ Sunk(q, n) = f[1][q]
  <1> SUFFICES ASSUME NEW q, NEW n, \E f : Sinks(f, n) PROVE \E f : Sinks(f, n) /\ Sunk(q, n) = f[1][q]
    OBVIOUS
  <1> DEFINE sink[i \in Slots] ==
        [h \in Heaps |-> IF Target(h, n, i) = i THEN h
                         ELSE sink[Target(h, n, i)][Swap(h, i, Target(h, n, i))]]
  <1>1. Sunk(q, n) = sink[1][q]
    BY DEF Sunk
  <1>2. sink = CHOOSE f : f = [i \in Slots |-> SinkStep(f, n, i)]
    BY DEF SinkStep
  <1> HIDE DEF sink
  <1>3. Sinks(sink, n)
    BY <1>2, Zenon DEF Sinks
  <1> QED
    BY <1>1, <1>3

\* Priorities are numbers, in a slot without a job as well.
LEMMA HeapPriority == \A h \in Heaps : \A j \in Slots : h[j].priority \in Nat
  <1>1. \A x \in Job : x.priority \in Priorities
    BY DEF Job
  <1>2. NoJob.priority = 0
    BY DEF NoJob
  <1>3. 0 \in Nat /\ Priorities \subseteq Nat
    BY JobThreadsAssumption
  <1>4. ASSUME NEW h \in Heaps, NEW j \in Slots PROVE h[j].priority \in Nat
    <2>1. h[j] \in Job \/ h[j] = NoJob
      BY DEF Heaps
    <2> QED
      BY <1>1, <1>2, <1>3, <2>1, Zenon
  <1> QED
    BY <1>4

\* Where the job at i sinks to: the larger child, if it is larger than the job.
LEMMA TargetIs ==
  ASSUME NEW h \in Heaps, NEW n \in 0..(PQ_SIZE - 1), NEW i \in Slots
  PROVE  LET t == Target(h, n, i)
         IN  /\ t \in Slots
             /\ t # i => t > i /\ t <= n /\ t \div 2 = i /\ h[i].priority < h[t].priority
             /\ \A j \in 2..n : j \div 2 = i => h[j].priority <= h[t].priority
  <1> USE JobThreadsAssumption
  <1>1. \A j \in Slots : h[j].priority \in Nat
    BY HeapPriority
  <1>2. \A j \in 2..n : j \in Slots /\ (j \div 2 = i => j = 2 * i \/ j = 2 * i + 1)
    BY DEF Slots
  <1>3. i \in Nat /\ i > 0 /\ n \in Nat /\ \A j \in Nat : j \in Slots <=> j > 0 /\ j < PQ_SIZE
    BY DEF Slots
  <1>4. (2 * i) \div 2 = i /\ (2 * i + 1) \div 2 = i
    BY <1>3
  <1> QED
    BY <1>1, <1>2, <1>3, <1>4 DEF Target, Larger

\* Here the rounds at the last m slots are given for every m: a job sinks to a slot behind.
LEMMA SinkExists == \A n \in 0..(PQ_SIZE - 1) : \E f : Sinks(f, n)
  <1> USE JobThreadsAssumption
  <1> SUFFICES ASSUME NEW n \in 0..(PQ_SIZE - 1) PROVE \E f : Sinks(f, n)
    OBVIOUS
  <1> DEFINE F == [Slots -> [Heaps -> Heaps]]
             Fixed(f, m) == \A i \in Slots : i >= PQ_SIZE - m => f[i] = SinkStep(f, n, i)
             T == {m \in 0..(PQ_SIZE - 1) : \E f \in F : Fixed(f, m)}
  <1>1. 0 \in T
    <2>1. [i \in Slots |-> [h \in Heaps |-> h]] \in F
      OBVIOUS
    <2>2. \A f : Fixed(f, 0)
      BY DEF Slots
    <2> HIDE DEF F, Fixed
    <2> QED
      BY <2>1, <2>2
  <1>2. ASSUME NEW m \in 0..(PQ_SIZE - 1), m \in T, m < PQ_SIZE - 1 PROVE m + 1 \in T
    <2> DEFINE k == PQ_SIZE - (m + 1)
    <2>1. PICK f \in F : Fixed(f, m)
      BY <1>2
    <2>2. k \in Slots /\ m + 1 \in 0..(PQ_SIZE - 1)
      BY <1>2 DEF Slots
    <2>3. \A i \in Slots : i >= k => i = k \/ (i >= PQ_SIZE - m /\ i # k)
      BY <1>2 DEF Slots
    <2>4. \A i, j \in Slots : i >= k /\ j > i => j # k
      BY <2>2 DEF Slots
    <2> DEFINE g == [f EXCEPT ![k] = SinkStep(f, n, k)]
    <2> HIDE DEF k, T
    <2>5. SinkStep(f, n, k) \in [Heaps -> Heaps]
      <3> SUFFICES ASSUME NEW h \in Heaps, Target(h, n, k) # k
                   PROVE  f[Target(h, n, k)][Swap(h, k, Target(h, n, k))] \in Heaps
        BY DEF SinkStep
      <3>1. Target(h, n, k) \in Slots
        BY <2>2, TargetIs
      <3> QED
        BY <2>2, <3>1, SwapType
    <2>6. g \in F /\ g[k] = SinkStep(f, n, k) /\ \A i \in Slots : i # k => g[i] = f[i]
      BY <2>2, <2>5
    <2> HIDE DEF g
    <2>7. ASSUME NEW i \in Slots, i >= k PROVE SinkStep(g, n, i) = SinkStep(f, n, i)
      <3>1. ASSUME NEW h \in Heaps, Target(h, n, i) # i
            PROVE  g[Target(h, n, i)] = f[Target(h, n, i)]
        <4>1. Target(h, n, i) \in Slots /\ Target(h, n, i) > i
          BY <3>1, TargetIs
        <4> QED
          BY <2>4, <2>6, <2>7, <4>1
      <3> QED
        BY <3>1, Zenon DEF SinkStep
    <2>8. Fixed(g, m + 1)
      <3>1. ASSUME NEW i \in Slots, i >= k PROVE g[i] = SinkStep(f, n, i)
        BY <2>1, <2>3, <2>6, <3>1
      <3> QED
        BY <2>7, <3>1 DEF k
    <2> HIDE DEF F, Fixed
    <2> QED
      BY <2>2, <2>6, <2>8 DEF T
  <1>3. PQ_SIZE - 1 \in T
    <2>1. PQ_SIZE - 1 \in Nat /\ PQ_SIZE - 1 \in 0..(PQ_SIZE - 1)
      OBVIOUS
    <2> HIDE DEF T
    <2> QED
      BY <1>1, <1>2, <2>1, Induction
  <1>4. \A i \in Slots : i >= PQ_SIZE - (PQ_SIZE - 1)
    BY DEF Slots
  <1> QED
    BY <1>3, <1>4 DEF Sinks

\* r has the jobs of h in the first n slots in another order, and is h beyond them.
Distinct(h, n) == \A i, j \in 1..n : h[i] = h[j] => i = j
Rearranged(h, r, n) ==
  /\ r \in Heaps
  /\ \A j \in Slots : j > n => r[j] = h[j]
  /\ \A i \in 1..n : \E j \in 1..n : r[i] = h[j]
  /\ \A i \in 1..n : \E j \in 1..n : h[i] = r[j]
  /\ Distinct(h, n) => Distinct(r, n)

\* No job in the first n slots beats its parent; that but for the one at k, which may still
\* have to rise; that but for the children of the one at k, which may still have to sink.
Above(h, i, j) == h[j].priority <= h[i].priority
Ordered(h, n) == \A j \in 2..n : Above(h, j \div 2, j)
OrderedBut(h, n, k) ==
  /\ \A j \in 2..n : j # k => Above(h, j \div 2, j)
  /\ \A j \in 2..n : k > 1 /\ j \div 2 = k => Above(h, k \div 2, j)
OrderedAbove(h, n, k) ==
  /\ \A j \in 2..n : j \div 2 # k => Above(h, j \div 2, j)
  /\ \A j \in 2..n : k > 1 /\ j \div 2 = k => Above(h, k \div 2, j)

\* An exchange within the first n slots rearranges them.
LEMMA SwapRearranges ==
  ASSUME NEW n \in 0..(PQ_SIZE - 1), NEW i \in 1..n, NEW k \in 1..n, NEW h \in Heaps
  PROVE  Rearranged(h, Swap(h, i, k), n)
  <1>1. \A j \in 1..n : j \in Slots
    BY JobThreadsAssumption DEF Slots
  <1> DEFINE r == Swap(h, i, k)
  <1>2. r \in Heaps /\ \A j \in Slots : r[j] = IF j = k THEN h[i] ELSE IF j = i THEN h[k] ELSE h[j]
    BY <1>1, SwapType
  <1> HIDE DEF r
  <1>3. \A j \in Slots : j > n => j # i /\ j # k
    BY DEF Slots
  <1>4. Distinct(h, n) => Distinct(r, n)
    BY <1>1, <1>2 DEF Distinct
  <1>5. \A j \in 1..n : (\E l \in 1..n : r[j] = h[l]) /\ (\E l \in 1..n : h[j] = r[l])
    BY <1>1, <1>2
  <1> QED
    BY <1>2, <1>3, <1>4, <1>5 DEF Rearranged, r

\* Rearranging is transitive and reflexive.
LEMMA RearrangedTwice ==
  ASSUME NEW n \in 0..(PQ_SIZE - 1), NEW h, NEW g, NEW r, Rearranged(h, g, n), Rearranged(g, r, n)
  PROVE  Rearranged(h, r, n)
  <1>1. \A i \in 1..n : \E j \in 1..n : r[i] = h[j]
    BY DEF Rearranged
  <1>2. \A i \in 1..n : \E j \in 1..n : h[i] = r[j]
    BY DEF Rearranged
  <1> QED
    BY <1>1, <1>2 DEF Rearranged

LEMMA RearrangedNot ==
  ASSUME NEW n \in 0..(PQ_SIZE - 1), NEW h \in Heaps
  PROVE  Rearranged(h, h, n)
  BY DEF Rearranged

\* The parents of slots.
LEMMA Parents ==
  ASSUME NEW n \in 0..(PQ_SIZE - 1), NEW j \in 2..n
  PROVE  /\ j \in Slots /\ j \div 2 \in Slots /\ j \div 2 \in 1..n /\ j \div 2 < j /\ j \div 2 # j
         /\ j # 1 /\ j \in 1..n
  BY JobThreadsAssumption DEF Slots

\* A job that is exchanged with the parent it beats is the only one that may still have to rise.
LEMMA RiseOnce ==
  ASSUME NEW n \in 0..(PQ_SIZE - 1), NEW k \in 1..n, NEW h \in Heaps,
         BeatsParent(h, k), OrderedBut(h, n, k)
  PROVE  OrderedBut(Swap(h, k, k \div 2), n, k \div 2)
  <1> DEFINE m == k \div 2
             g == Swap(h, k, m)
  <1>1. k \in 2..n /\ k \in Slots /\ m \in Slots /\ m # k /\ h[m].priority < h[k].priority
    BY Parents DEF BeatsParent
  <1>2. \A j \in Slots : g[j] = IF j = m THEN h[k] ELSE IF j = k THEN h[m] ELSE h[j]
    <2>1. k \in Slots /\ m \in Slots
      BY <1>1
    <2> HIDE DEF m
    <2> QED
      BY <2>1, SwapType
  <1>3. \A j \in Slots : h[j].priority \in Nat
    BY HeapPriority
  <1>4. \A j \in 2..n : /\ j \in Slots /\ j \div 2 \in Slots /\ j # j \div 2
                        /\ j \div 2 = k => j # m /\ j # k
    BY <1>1, Parents
  <1>5. /\ \A j \in 2..n : j # k => Above(h, j \div 2, j)
        /\ \A j \in 2..n : j \div 2 = k => Above(h, m, j)
    BY <1>1 DEF OrderedBut
  <1>6. m > 1 => m \in 2..n /\ m \div 2 \in Slots /\ m \div 2 # m /\ m \div 2 # k
    BY <1>1, Parents
  <1> HIDE DEF m, g
  <1>7. ASSUME NEW j \in 2..n, j # m PROVE Above(g, j \div 2, j)
    <2>1. CASE j = k
      BY <1>1, <1>2, <1>3, <2>1 DEF Above, m
    <2>2. CASE j # k /\ j \div 2 = k
      BY <1>1, <1>2, <1>4, <1>5, <1>7, <2>2 DEF Above
    <2>3. CASE j # k /\ j \div 2 = m
      <3>1. g[j] = h[j] /\ g[m] = h[k] /\ Above(h, m, j)
        BY <1>1, <1>2, <1>4, <1>5, <1>7, <2>3
      <3> QED
        BY <1>1, <1>3, <1>4, <2>3, <3>1 DEF Above
    <2>4. CASE j # k /\ j \div 2 # k /\ j \div 2 # m
      BY <1>2, <1>4, <1>5, <1>7, <2>4 DEF Above
    <2> QED
      BY <2>1, <2>2, <2>3, <2>4
  <1>8. ASSUME NEW j \in 2..n, m > 1, j \div 2 = m PROVE Above(g, m \div 2, j)
    <2>1. Above(h, m \div 2, m) /\ g[m \div 2] = h[m \div 2]
      BY <1>1, <1>2, <1>5, <1>6, <1>8
    <2>2. CASE j = k
      BY <1>1, <1>2, <2>1, <2>2 DEF Above
    <2>3. CASE j # k
      <3>1. g[j] = h[j] /\ Above(h, m, j)
        BY <1>2, <1>4, <1>5, <1>8, <2>3
      <3> QED
        BY <1>1, <1>3, <1>4, <1>6, <1>8, <2>1, <3>1 DEF Above
    <2> QED
      BY <2>2, <2>3
  <1> QED
    BY <1>7, <1>8 DEF OrderedBut, m, g

\* What insert_job leaves: the job that was put at k has risen, and the rest is where it was
\* or has made way.
LEMMA RisenIs ==
  ASSUME NEW n \in 0..(PQ_SIZE - 1), NEW k \in 1..n, NEW q \in Heaps
  PROVE  /\ Rearranged(q, Risen(q, k), n)
         /\ OrderedBut(q, n, k) => Ordered(Risen(q, k), n)
  <1> USE JobThreadsAssumption
  <1>1. PICK f : Rises(f) /\ Risen(q, k) = f[k][q]
    BY RiseExists, RiseIs
  <1> DEFINE Right(i) == \A h \in Heaps : /\ Rearranged(h, f[i][h], n)
                                          /\ OrderedBut(h, n, i) => Ordered(f[i][h], n)
             T == {i \in 1..n : ~ Right(i)}
  <1> SUFFICES ASSUME T # {} PROVE FALSE
    BY <1>1
  <1>2. PICK i \in T : \A j \in T : i <= j
    <2>1. T \in SUBSET Nat
      OBVIOUS
    <2> HIDE DEF T
    <2> QED
      BY <2>1, Least
  <1>3. i \in 1..n /\ i \in Slots /\ ~ Right(i)
    BY <1>2 DEF Slots
  <1>4. PICK h \in Heaps : ~ /\ Rearranged(h, f[i][h], n)
                             /\ OrderedBut(h, n, i) => Ordered(f[i][h], n)
    BY <1>3
  <1>5. f[i][h] = IF BeatsParent(h, i) THEN f[i \div 2][Swap(h, i, i \div 2)] ELSE h
    BY <1>1, <1>3 DEF Rises, RiseStep
  <1>6. CASE BeatsParent(h, i)
    <2> DEFINE m == i \div 2
               g == Swap(h, i, m)
    <2>1. i \in 2..n /\ m \in 1..n /\ m < i /\ m \in Slots
      BY <1>3, <1>6, Parents DEF BeatsParent
    <2>2. Right(m)
      <3> HIDE DEF Right, m
      <3> QED
        BY <1>2, <2>1
    <2>3. g \in Heaps /\ Rearranged(h, g, n)
      BY <1>3, <2>1, SwapType, SwapRearranges
    <2>4. OrderedBut(h, n, i) => OrderedBut(g, n, m)
      BY <1>3, <1>6, RiseOnce
    <2> HIDE DEF g, m
    <2>5. Rearranged(g, f[m][g], n) /\ (OrderedBut(g, n, m) => Ordered(f[m][g], n))
      BY <2>2, <2>3
    <2>6. f[i][h] = f[m][g]
      BY <1>5, <1>6 DEF g, m
    <2> QED
      BY <1>4, <2>3, <2>4, <2>5, <2>6, RearrangedTwice
  <1>7. CASE ~ BeatsParent(h, i)
    <2>1. f[i][h] = h /\ Rearranged(h, h, n)
      BY <1>5, <1>7, RearrangedNot
    <2>2. i > 1 => Above(h, i \div 2, i)
      <3>1. i > 1 => h[i].priority \in Nat /\ h[i \div 2].priority \in Nat
        BY <1>3, Parent, HeapPriority
      <3> QED
        BY <1>7, <3>1 DEF BeatsParent, Above
    <2>3. OrderedBut(h, n, i) => Ordered(h, n)
      BY <2>2 DEF OrderedBut, Ordered
    <2> QED
      BY <1>4, <2>1, <2>3
  <1> QED
    BY <1>6, <1>7

\* A job that is exchanged with the larger child is the only one that may still have to sink.
LEMMA SinkOnce ==
  ASSUME NEW n \in 0..(PQ_SIZE - 1), NEW k \in 1..n, NEW h \in Heaps,
         Target(h, n, k) # k, OrderedAbove(h, n, k)
  PROVE  OrderedAbove(Swap(h, k, Target(h, n, k)), n, Target(h, n, k))
  <1> DEFINE t == Target(h, n, k)
             g == Swap(h, k, t)
  <1>0. k \in Slots
    BY JobThreadsAssumption DEF Slots
  <1>1. /\ t \in Slots /\ t > k /\ t # k /\ t \in 2..n /\ t \div 2 = k /\ h[k].priority < h[t].priority
        /\ \A j \in 2..n : j \div 2 = k => Above(h, t, j)
    <2>1. k \in Nat /\ k > 0 /\ n \in Nat
      OBVIOUS
    <2>2. /\ t \in Slots /\ t > k /\ t <= n /\ t \div 2 = k /\ h[k].priority < h[t].priority
          /\ \A j \in 2..n : j \div 2 = k => h[j].priority <= h[t].priority
      BY <1>0, TargetIs
    <2> HIDE DEF t
    <2>3. t \in 2..n /\ t # k
      BY <2>1, <2>2 DEF Slots
    <2> QED
      BY <2>2, <2>3 DEF Above
  <1>2. \A j \in Slots : g[j] = IF j = t THEN h[k] ELSE IF j = k THEN h[t] ELSE h[j]
    <2>1. t \in Slots
      BY <1>1
    <2> HIDE DEF t
    <2> QED
      BY <1>0, <2>1, SwapType
  <1>3. \A j \in Slots : h[j].priority \in Nat
    BY HeapPriority
  <1>4. \A j \in 2..n : /\ j \in Slots /\ j \div 2 \in Slots /\ j # j \div 2 /\ j > j \div 2
    BY Parents
  <1>5. /\ \A j \in 2..n : j \div 2 # k => Above(h, j \div 2, j)
        /\ \A j \in 2..n : k > 1 /\ j \div 2 = k => Above(h, k \div 2, j)
    BY DEF OrderedAbove
  <1>6. k > 1 => k \in 2..n /\ k \div 2 # k /\ k \div 2 # t
    <2>1. k > 1 => k \in 2..n
      OBVIOUS
    <2> HIDE DEF t
    <2>2. k > 1 => k \div 2 < k
      BY <2>1, <1>4
    <2> QED
      BY <1>1, <2>1, <2>2 DEF Slots
  <1> HIDE DEF t, g
  <1>7. ASSUME NEW j \in 2..n, j \div 2 # t PROVE Above(g, j \div 2, j)
    <2>1. CASE j = t
      <3>1. g[t] = h[k] /\ g[k] = h[t]
        BY <1>0, <1>1, <1>2
      <3> QED
        BY <1>0, <1>1, <1>3, <2>1, <3>1 DEF Above
    <2>2. CASE j # t /\ j \div 2 = k
      <3>1. g[j] = h[j] /\ g[k] = h[t] /\ Above(h, t, j)
        BY <1>0, <1>1, <1>2, <1>4, <2>2
      <3> QED
        BY <2>2, <3>1 DEF Above
    <2>3. CASE j = k
      <3>1. k > 1 /\ g[k] = h[t] /\ g[k \div 2] = h[k \div 2] /\ Above(h, k \div 2, t)
        BY <1>0, <1>1, <1>2, <1>4, <1>5, <1>6, <2>3
      <3> QED
        BY <2>3, <3>1 DEF Above
    <2>4. CASE j # t /\ j # k /\ j \div 2 # k
      <3>1. g[j] = h[j] /\ g[j \div 2] = h[j \div 2] /\ Above(h, j \div 2, j)
        BY <1>2, <1>4, <1>5, <1>7, <2>4
      <3> QED
        BY <3>1 DEF Above
    <2> QED
      BY <2>1, <2>2, <2>3, <2>4
  <1>8. ASSUME NEW j \in 2..n, j \div 2 = t PROVE Above(g, k, j)
    <2>1. j # t /\ j # k /\ j \div 2 # k
      BY <1>1, <1>4, <1>8 DEF Slots
    <2>2. g[j] = h[j] /\ g[k] = h[t] /\ Above(h, t, j)
      BY <1>0, <1>1, <1>2, <1>4, <1>5, <1>8, <2>1
    <2> QED
      BY <2>2 DEF Above
  <1>9. OrderedAbove(g, n, t)
    BY <1>1, <1>7, <1>8 DEF OrderedAbove
  <1> QED
    BY <1>9 DEF t, g

\* What remove_job leaves: the job that was put at the root has sunk.
LEMMA SunkIs ==
  ASSUME NEW n \in 1..(PQ_SIZE - 1), NEW q \in Heaps
  PROVE  /\ Rearranged(q, Sunk(q, n), n)
         /\ OrderedAbove(q, n, 1) => Ordered(Sunk(q, n), n)
  <1> USE JobThreadsAssumption
  <1>0. n \in 0..(PQ_SIZE - 1)
    OBVIOUS
  <1>1. PICK f : Sinks(f, n) /\ Sunk(q, n) = f[1][q]
    BY <1>0, SinkExists, SinkIs
  <1> DEFINE Right(i) == \A h \in Heaps : /\ Rearranged(h, f[i][h], n)
                                          /\ OrderedAbove(h, n, i) => Ordered(f[i][h], n)
             T == {m \in 0..(n - 1) : ~ Right(n - m)}
  <1>2. ASSUME T # {} PROVE FALSE
    <2>1. PICK m \in T : \A j \in T : m <= j
      <3>1. T \in SUBSET Nat
        OBVIOUS
      <3> HIDE DEF T
      <3> QED
        BY <1>2, <3>1, Least
    <2> DEFINE i == n - m
    <2>2. i \in 1..n /\ i \in Slots /\ ~ Right(i)
      BY <2>1 DEF Slots
    <2>3. \A j \in 1..n : j > i => Right(j)
      <3> SUFFICES ASSUME NEW j \in 1..n, j > i PROVE Right(j)
        OBVIOUS
      <3>1. n - j \in 0..(n - 1) /\ ~ (m <= n - j) /\ n - (n - j) = j
        BY <2>1
      <3> HIDE DEF Right
      <3> QED
        BY <2>1, <3>1
    <2> HIDE DEF i
    <2>4. PICK h \in Heaps : ~ /\ Rearranged(h, f[i][h], n)
                               /\ OrderedAbove(h, n, i) => Ordered(f[i][h], n)
      BY <2>2
    <2>5. f[i][h] = IF Target(h, n, i) = i THEN h ELSE f[Target(h, n, i)][Swap(h, i, Target(h, n, i))]
      <3>1. f[i] = SinkStep(f, n, i)
        BY <1>1, <2>2, Zenon DEF Sinks
      <3> HIDE DEF Right
      <3> QED
        BY <3>1, Zenon DEF SinkStep
    <2>6. CASE Target(h, n, i) # i
      <3> DEFINE t == Target(h, n, i)
                 g == Swap(h, i, t)
      <3>1. t \in 1..n /\ t > i /\ t \in Slots
        BY <1>0, <2>2, <2>6, TargetIs DEF Slots
      <3>2. Right(t)
        <4> HIDE DEF Right, t
        <4> QED
          BY <2>3, <3>1
      <3>3. g \in Heaps /\ Rearranged(h, g, n)
        BY <1>0, <2>2, <3>1, SwapType, SwapRearranges
      <3>4. OrderedAbove(h, n, i) => OrderedAbove(g, n, t)
        BY <1>0, <2>2, <2>6, SinkOnce
      <3> HIDE DEF g, t
      <3>5. Rearranged(g, f[t][g], n) /\ (OrderedAbove(g, n, t) => Ordered(f[t][g], n))
        BY <3>2, <3>3
      <3>6. f[i][h] = f[t][g]
        BY <2>5, <2>6 DEF g, t
      <3> QED
        BY <1>0, <2>4, <3>3, <3>4, <3>5, <3>6, RearrangedTwice
    <2>7. CASE Target(h, n, i) = i
      <3>1. f[i][h] = h /\ Rearranged(h, h, n)
        BY <1>0, <2>5, <2>7, RearrangedNot
      <3>2. \A j \in 2..n : j \div 2 = i => Above(h, i, j)
        BY <1>0, <2>2, <2>7, TargetIs DEF Above
      <3>3. OrderedAbove(h, n, i) => Ordered(h, n)
        BY <3>2 DEF OrderedAbove, Ordered
      <3> QED
        BY <2>4, <3>1, <3>3
    <2> QED
      BY <2>6, <2>7
  <1>3. n - 1 \in 0..(n - 1) /\ n - (n - 1) = 1
    OBVIOUS
  <1>4. Right(1)
    <2> HIDE DEF Right
    <2> QED
      BY <1>2, <1>3
  <1> QED
    BY <1>1, <1>4

\* No job of a heap has a higher priority than the one at its root.
LEMMA RootMax ==
  ASSUME NEW n \in 1..(PQ_SIZE - 1), NEW h \in Heaps, Ordered(h, n)
  PROVE  \A j \in 1..n : Above(h, 1, j)
  <1> DEFINE T == {j \in 1..n : ~ Above(h, 1, j)}
  <1> SUFFICES ASSUME T # {} PROVE FALSE
    OBVIOUS
  <1>1. PICK i \in T : \A j \in T : i <= j
    <2>1. T \in SUBSET Nat
      OBVIOUS
    <2> HIDE DEF T
    <2> QED
      BY <2>1, Least
  <1>2. \A j \in 1..n : j \in Slots
    BY JobThreadsAssumption DEF Slots
  <1>3. \A j \in Slots : h[j].priority \in Nat
    BY HeapPriority
  <1>4. 1 \in 1..n /\ i \in 1..n /\ n \in 0..(PQ_SIZE - 1)
    BY <1>1, JobThreadsAssumption
  <1>5. i # 1
    BY <1>1, <1>2, <1>3, <1>4 DEF Above
  <1>6. i \in 2..n
    BY <1>4, <1>5
  <1>7. i \div 2 \in 1..n /\ i \div 2 < i
    BY <1>4, <1>6, Parents
  <1>8. Above(h, 1, i \div 2)
    <2>1. i \div 2 \in Nat /\ i \in Nat
      BY <1>6, <1>7
    <2> QED
      BY <1>1, <1>7, <2>1
  <1>9. Above(h, 1, i)
    BY <1>2, <1>3, <1>4, <1>6, <1>7, <1>8 DEF Above, Ordered
  <1> QED
    BY <1>1, <1>9

-----------------------------------------------------------------------------
(* The threads. *)

Procs == {Main} \cup Threads

MainLabels == {"create", "mLock", "mCheck", "mCancel", "exited"}
ProducerLabels == {"unborn", "pLock", "pCheck", "pSleep", "pRelock", "pInsert", "done", "cancelled"}
ConsumerLabels == {"unborn", "cSleep", "cLock", "cCheck", "cPrint", "cCompute", "done", "cancelled"}

Types ==
  /\ job_created \in Nat /\ job_completed \in Nat /\ curr_size \in 0..(PQ_SIZE - 1)
  /\ cancelled \subseteq Threads
  /\ pc \in [Procs -> MainLabels \cup ProducerLabels \cup ConsumerLabels]
  /\ pc[Main] \in MainLabels
  /\ \A p \in Producers : pc[p] \in ProducerLabels
  /\ \A c \in Consumers : pc[c] \in ConsumerLabels
  /\ created \in 0..(NProd + NCons)

\* A thread holds the mutex exactly while it is in a critical section.
Locked == {"mCheck", "pCheck", "pInsert", "cCheck", "cPrint"}
OneHolder ==
  /\ \A s \in Procs : pc[s] \in Locked => mutex = {s}
  /\ \A s \in mutex : s \in Procs /\ pc[s] \in Locked

\* The producers with a job in hand, and the consumers that print theirs.
Making == {p \in Producers : pc[p] \in {"pSleep", "pRelock", "pInsert"}}
Printing == {c \in Consumers : pc[c] = "cPrint"}

Counted == job_created = job_completed + curr_size + Cardinality(Making) + Cardinality(Printing)

\* What main has seen before it cancels stays true.
Quiet ==
  pc[Main] \in {"mCancel", "exited"} \/ cancelled # {} =>
    job_created = Jobs /\ job_completed = Jobs

\* Threads start in order.
Unborn == \A t \in Threads : t > created => pc[t] = "unborn"

IInv == Types /\ OneHolder /\ Counted /\ Quiet /\ Unborn

LEMMA Sets ==
  /\ IsFiniteSet(Producers) /\ IsFiniteSet(Consumers)
  /\ Producers \cap Consumers = {} /\ Threads = Producers \cup Consumers
  /\ Main \notin Threads /\ Main \in Procs
  /\ Producers \subseteq Procs /\ Consumers \subseteq Procs /\ Threads \subseteq Procs
  <1> USE JobThreadsAssumption
  <1>1. IsFiniteSet(Producers) /\ IsFiniteSet(Consumers)
    BY FS_Interval DEF Producers, Consumers
  <1> QED
    BY <1>1 DEF Producers, Consumers, Threads, Main, Procs

LEMMA Finite ==
  /\ IsFiniteSet(Making) /\ Cardinality(Making) \in Nat
  /\ IsFiniteSet(Printing) /\ Cardinality(Printing) \in Nat
  <1>1. Making \subseteq Producers /\ Printing \subseteq Consumers
    BY DEF Making, Printing
  <1> QED
    BY <1>1, Sets, FS_Subset, FS_CardinalityType

\* Once main cancels, nobody has a job in hand and the queue is empty.
LEMMA QuietMeansEmpty ==
  ASSUME IInv, pc[Main] \in {"mCancel", "exited"} \/ cancelled # {}
  PROVE  curr_size = 0 /\ Making = {} /\ Printing = {}
  <1> USE JobThreadsAssumption
  <1>1. job_created = Jobs /\ job_completed = Jobs
    BY DEF IInv, Quiet
  <1>2. curr_size \in Nat
    BY DEF IInv, Types
  <1>3. curr_size = 0 /\ Cardinality(Making) = 0 /\ Cardinality(Printing) = 0
    BY <1>1, <1>2, Finite DEF IInv, Counted
  <1> QED
    BY <1>3, Finite, FS_EmptySet

\* A step of one thread, whose place in the sets of Counted is known.
LEMMA OneMoves ==
  ASSUME IInv, NEW s \in Procs, NEW l, pc' = [pc EXCEPT ![s] = l],
         s = Main => l \in MainLabels,
         s \in Producers => l \in ProducerLabels,
         s \in Consumers => l \in ConsumerLabels
  PROVE  /\ pc' \in [Procs -> MainLabels \cup ProducerLabels \cup ConsumerLabels]
         /\ pc'[Main] \in MainLabels
         /\ \A p \in Producers : pc'[p] \in ProducerLabels
         /\ \A c \in Consumers : pc'[c] \in ConsumerLabels
         /\ \A u \in Procs : pc'[u] = IF u = s THEN l ELSE pc[u]
         /\ Making' = IF s \in Producers /\ l \in {"pSleep", "pRelock", "pInsert"} THEN Making \cup {s}
                                                                               ELSE Making \ {s}
         /\ Printing' = IF s \in Consumers /\ l = "cPrint" THEN Printing \cup {s} ELSE Printing \ {s}
  <1>1. /\ pc \in [Procs -> MainLabels \cup ProducerLabels \cup ConsumerLabels]
        /\ pc[Main] \in MainLabels
        /\ \A p \in Producers : pc[p] \in ProducerLabels
        /\ \A c \in Consumers : pc[c] \in ConsumerLabels
    BY DEF IInv, Types
  <1>2. \A u \in Procs : pc'[u] = IF u = s THEN l ELSE pc[u]
    BY <1>1
  <1>3. l \in MainLabels \cup ProducerLabels \cup ConsumerLabels
    BY Sets DEF Procs
  <1>4. pc' \in [Procs -> MainLabels \cup ProducerLabels \cup ConsumerLabels]
    BY <1>1, <1>3
  <1>5. /\ pc'[Main] \in MainLabels
        /\ \A p \in Producers : pc'[p] \in ProducerLabels
        /\ \A c \in Consumers : pc'[c] \in ConsumerLabels
    <2>1. Main \in Procs /\ Producers \subseteq Procs /\ Consumers \subseteq Procs
      BY Sets
    <2>2. pc'[Main] \in MainLabels
      BY <1>1, <1>2, <2>1
    <2>3. ASSUME NEW p \in Producers PROVE pc'[p] \in ProducerLabels
      <3>1. p \in Procs /\ pc[p] \in ProducerLabels
        BY <1>1, <2>1
      <3> QED
        BY <1>2, <3>1
    <2>4. ASSUME NEW c \in Consumers PROVE pc'[c] \in ConsumerLabels
      <3>1. c \in Procs
        BY <2>1
      <3>2. pc[c] \in ConsumerLabels
        BY <1>1
      <3> QED
        BY <1>2, <3>1, <3>2
    <2> QED
      BY <2>2, <2>3, <2>4
  <1>6. Making' = IF s \in Producers /\ l \in {"pSleep", "pRelock", "pInsert"} THEN Making \cup {s}
                                                                              ELSE Making \ {s}
    BY <1>2, Sets DEF Making
  <1>7. Printing' = IF s \in Consumers /\ l = "cPrint" THEN Printing \cup {s} ELSE Printing \ {s}
    BY <1>2, Sets DEF Printing
  <1> QED
    BY <1>2, <1>4, <1>5, <1>6, <1>7

\* The numbers of elements after a move.
LEMMA AddOne ==
  ASSUME NEW S, IsFiniteSet(S), NEW x
  PROVE  /\ x \notin S => Cardinality(S \cup {x}) = Cardinality(S) + 1
         /\ x \in S => Cardinality(S \ {x}) = Cardinality(S) - 1 /\ S \cup {x} = S
         /\ x \notin S => S \ {x} = S
  BY FS_AddElement, FS_RemoveElement

\* How a holder of the mutex, or a thread without it, keeps OneHolder.
LEMMA HolderMoves ==
  ASSUME IInv, NEW s \in Procs, NEW l, \A u \in Procs : pc'[u] = IF u = s THEN l ELSE pc[u],
         \/ mutex = {} /\ mutex' = {s} /\ l \in Locked
         \/ pc[s] \in Locked /\ mutex' = mutex \ {s} /\ l \notin Locked
         \/ pc[s] \in Locked /\ mutex' = mutex /\ l \in Locked
         \/ pc[s] \notin Locked /\ mutex' = mutex /\ l \notin Locked
  PROVE  OneHolder'
  <1>1. OneHolder
    BY DEF IInv
  <1>2. CASE mutex = {} /\ mutex' = {s} /\ l \in Locked
    BY <1>1, <1>2 DEF OneHolder
  <1>3. CASE pc[s] \in Locked /\ mutex' = mutex \ {s} /\ l \notin Locked
    <2>1. mutex = {s} /\ mutex' = {}
      BY <1>1, <1>3 DEF OneHolder
    <2>2. \A u \in Procs : pc'[u] \notin Locked
      BY <1>1, <1>3, <2>1 DEF OneHolder
    <2> QED
      BY <2>1, <2>2 DEF OneHolder
  <1>4. CASE pc[s] \in Locked /\ mutex' = mutex /\ l \in Locked
    BY <1>1, <1>4 DEF OneHolder
  <1>5. CASE pc[s] \notin Locked /\ mutex' = mutex /\ l \notin Locked
    BY <1>1, <1>5 DEF OneHolder
  <1> QED
    BY <1>2, <1>3, <1>4, <1>5

LEMMA InitInv == Init => IInv
  <1> SUFFICES ASSUME Init PROVE IInv
    OBVIOUS
  <1> USE JobThreadsAssumption
  <1>1. \A s \in Procs : pc[s] = IF s = Main THEN "create" ELSE "unborn"
    BY DEF Init, Procs
  <1>2. Types
    BY <1>1, Sets DEF Init, Types, Procs, MainLabels, ProducerLabels, ConsumerLabels
  <1>3. OneHolder
    BY <1>1 DEF Init, OneHolder, Locked
  <1>4. Making = {} /\ Printing = {}
    BY <1>1, Sets DEF Making, Printing
  <1>5. Counted
    BY <1>4, FS_EmptySet DEF Init, Counted
  <1>6. Quiet
    BY DEF Init, Quiet
  <1> QED
    BY <1>1, <1>2, <1>3, <1>5, <1>6, Sets DEF IInv, Unborn

\* Steps that change no counter and no set of Counted.
LEMMA PlainMove ==
  ASSUME IInv, NEW s \in Procs, NEW l, pc' = [pc EXCEPT ![s] = l],
         s = Main => l \in MainLabels,
         s \in Producers => l \in ProducerLabels,
         s \in Consumers => l \in ConsumerLabels,
         s \in Producers =>
           (l \in {"pSleep", "pRelock", "pInsert"} <=> pc[s] \in {"pSleep", "pRelock", "pInsert"}),
         s \in Consumers => l # "cPrint" /\ pc[s] # "cPrint",
         \/ mutex = {} /\ mutex' = {s} /\ l \in Locked
         \/ pc[s] \in Locked /\ mutex' = mutex \ {s} /\ l \notin Locked
         \/ pc[s] \notin Locked /\ mutex' = mutex /\ l \notin Locked,
         s = Main /\ l \in {"mCancel", "exited"} => job_created = Jobs /\ job_completed = Jobs,
         UNCHANGED <<job_created, job_completed, curr_size, cancelled>>,
         \/ created' = created /\ pc[s] # "unborn"
         \/ created' = created + 1 /\ created < NProd + NCons /\ s = created + 1
  PROVE  IInv'
  <1> USE JobThreadsAssumption
  <1>0. created' \in 0..(NProd + NCons)
    BY DEF IInv, Types
  <1>1. Types'
    BY <1>0, OneMoves DEF IInv, Types
  <1>2. OneHolder'
    BY OneMoves, HolderMoves
  <1>6. Unborn'
    <2>1. \A u \in Threads : pc'[u] = IF u = s THEN l ELSE pc[u]
      BY OneMoves, Sets
    <2>2. \A u \in Threads : u \in Nat
      BY DEF Threads
    <2>3. created \in Nat
      BY DEF IInv, Types
    <2>4. \A u \in Threads : u > created => pc[u] = "unborn"
      BY DEF IInv, Unborn
    <2> QED
      BY <2>1, <2>2, <2>3, <2>4 DEF Unborn
  <1>3. Making' = Making /\ Printing' = Printing
    BY OneMoves DEF Making, Printing
  <1>4. Counted'
    BY <1>3 DEF IInv, Counted
  <1>5. Quiet'
    <2>1. pc'[Main] = IF s = Main THEN l ELSE pc[Main]
      BY OneMoves, Sets
    <2> QED
      BY <2>1 DEF IInv, Quiet
  <1> QED
    BY <1>1, <1>2, <1>4, <1>5, <1>6 DEF IInv

LEMMA CreateInv == ASSUME IInv, Create PROVE IInv'
  <1> USE JobThreadsAssumption
  <1>1. /\ pc[Main] = "create" /\ UNCHANGED <<shared, mutex, new_job, cancelled, taken>>
    BY DEF Create
  <1>2. pc \in [Procs -> MainLabels \cup ProducerLabels \cup ConsumerLabels] /\ created \in 0..(NProd + NCons)
    BY DEF IInv, Types
  <1>3. CASE created = NProd + NCons /\ Goto(Main, "mLock") /\ UNCHANGED created
    BY <1>1, <1>2, <1>3, PlainMove, Sets DEF Goto, shared, MainLabels, Locked
  <1>4. CASE /\ created < NProd + NCons /\ created' = created + 1
             /\ Goto(created', IF created' \in Producers THEN "pLock" ELSE "cSleep")
    <2> DEFINE t == created + 1
               l == IF t \in Producers THEN "pLock" ELSE "cSleep"
    <2>1. t \in Threads /\ t \in Procs /\ t # Main
      BY <1>2, <1>4, Sets DEF Threads
    <2>2. pc' = [pc EXCEPT ![t] = l]
      BY <1>4 DEF Goto
    <2>3. pc[t] = "unborn"
      BY <1>2, <2>1 DEF IInv, Unborn
    <2> QED
      BY <1>1, <1>2, <1>4, <2>1, <2>2, <2>3, PlainMove, Sets DEF shared, Locked, ProducerLabels, ConsumerLabels
  <1> QED
    BY <1>3, <1>4 DEF Create

LEMMA MainInv == ASSUME IInv, MainPoll \/ MainExit PROVE IInv'
  <1>1. /\ pc[Main] \in {"mCheck", "mCancel"}
        /\ UNCHANGED <<shared, new_job, created, cancelled, taken>>
    BY DEF MainPoll, MainExit
  <1>2. CASE MainPoll
    <2>1. PICK l : l = IF Finished THEN "mCancel" ELSE "mLock"
      OBVIOUS
    <2>2. pc' = [pc EXCEPT ![Main] = l] /\ pc[Main] = "mCheck" /\ mutex' = mutex \ {Main}
      BY <1>2, <2>1 DEF MainPoll, Goto, Release
    <2>3. l = "mCancel" => job_created = Jobs /\ job_completed = Jobs
      BY <2>1 DEF Finished
    <2>4. l \in {"mCancel", "mLock"}
      BY <2>1
    <2> QED
      BY <1>1, <2>2, <2>3, <2>4, PlainMove, Sets DEF shared, MainLabels, Locked
  <1>3. CASE MainExit
    <2>1. job_created = Jobs /\ job_completed = Jobs
      BY <1>3 DEF MainExit, IInv, Quiet
    <2>2. pc' = [pc EXCEPT ![Main] = "exited"] /\ pc[Main] = "mCancel" /\ mutex' = mutex
      BY <1>3 DEF MainExit, Goto
    <2> QED
      BY <1>1, <2>1, <2>2, PlainMove, Sets DEF shared, MainLabels, Locked
  <1> QED
    BY <1>2, <1>3

LEMMA CancelInv == ASSUME IInv, Cancel PROVE IInv'
  <1>1. /\ pc[Main] = "mCancel" /\ UNCHANGED <<shared, mutex, pc, new_job, created, taken>>
        /\ cancelled' \subseteq Threads
    BY DEF Cancel, IInv, Types
  <1>2. Making' = Making /\ Printing' = Printing
    BY <1>1 DEF Making, Printing
  <1> QED
    BY <1>1, <1>2 DEF IInv, Types, OneHolder, Counted, Quiet, Unborn, shared

LEMMA LockInv == ASSUME IInv, NEW s \in Procs, Lock(s) PROVE IInv'
  <1>1. /\ pc[s] \in DOMAIN AfterLock /\ mutex = {} /\ mutex' = {s}
        /\ pc' = [pc EXCEPT ![s] = AfterLock[pc[s]]]
        /\ UNCHANGED <<shared, new_job, created, cancelled, taken>>
    BY DEF Lock, Goto
  <1>2. \/ pc[s] = "mLock" /\ pc' = [pc EXCEPT ![s] = "mCheck"]
        \/ pc[s] = "pLock" /\ pc' = [pc EXCEPT ![s] = "pCheck"]
        \/ pc[s] = "pRelock" /\ pc' = [pc EXCEPT ![s] = "pInsert"]
        \/ pc[s] = "cLock" /\ pc' = [pc EXCEPT ![s] = "cCheck"]
    <2>1. CASE pc[s] = "mLock"
      <3>1. AfterLock[pc[s]] = "mCheck"
        BY <2>1 DEF AfterLock
      <3> QED
        BY <1>1, <2>1, <3>1
    <2>2. CASE pc[s] = "pLock"
      <3>1. AfterLock[pc[s]] = "pCheck"
        BY <2>2 DEF AfterLock
      <3> QED
        BY <1>1, <2>2, <3>1
    <2>3. CASE pc[s] = "pRelock"
      <3>1. AfterLock[pc[s]] = "pInsert"
        BY <2>3 DEF AfterLock
      <3> QED
        BY <1>1, <2>3, <3>1
    <2>4. CASE pc[s] = "cLock"
      <3>1. AfterLock[pc[s]] = "cCheck"
        BY <2>4 DEF AfterLock
      <3> QED
        BY <1>1, <2>4, <3>1
    <2>5. DOMAIN AfterLock = {"mLock", "pLock", "pRelock", "cLock"}
      BY DEF AfterLock
    <2> QED
      BY <1>1, <2>1, <2>2, <2>3, <2>4, <2>5
  <1>3. /\ s = Main => pc[s] \in MainLabels
        /\ s \in Producers => pc[s] \in ProducerLabels
        /\ s \in Consumers => pc[s] \in ConsumerLabels
    BY DEF IInv, Types
  <1> QED
    BY <1>1, <1>2, <1>3, PlainMove DEF shared, MainLabels, ProducerLabels, ConsumerLabels, Locked

\* The heart of it: a thread that dies is asleep, not in a critical section.
LEMMA DiesAsleep ==
  ASSUME IInv, NEW t \in Threads, Die(t)
  PROVE  pc[t] \in {"cSleep", "cCompute"}
  <1> USE JobThreadsAssumption
  <1>1. cancelled # {} /\ CancellationPoint(t)
    BY DEF Die
  <1>2. job_created = Jobs /\ Making = {} /\ Printing = {}
    BY <1>1, QuietMeansEmpty DEF IInv, Quiet
  <1>3. pc[t] \notin {"pSleep", "pInsert"}
    BY <1>2, Sets DEF Making, IInv, Types, ConsumerLabels
  <1>4. pc[t] # "cPrint"
    BY <1>2, Sets DEF Printing, IInv, Types, ProducerLabels
  <1> QED
    BY <1>1, <1>2, <1>3, <1>4 DEF CancellationPoint

LEMMA DieInv == ASSUME IInv, NEW t \in Threads, Die(t) PROVE IInv'
  <1>1. pc[t] \in {"cSleep", "cCompute"} /\ t # Main
    BY DiesAsleep, Sets
  <1>2. /\ pc' = [pc EXCEPT ![t] = "cancelled"]
        /\ UNCHANGED <<shared, mutex, new_job, created, cancelled, taken>>
    BY DEF Die, Goto
  <1> QED
    BY <1>1, <1>2, PlainMove, Sets DEF shared, ProducerLabels, ConsumerLabels, Locked

LEMMA WakeInv == ASSUME IInv, NEW t \in Threads, Wake(t) PROVE IInv'
  <1>1. /\ \/ pc[t] = "pSleep" /\ pc' = [pc EXCEPT ![t] = "pRelock"]
           \/ pc[t] = "cSleep" /\ pc' = [pc EXCEPT ![t] = "cLock"]
           \/ pc[t] = "cCompute" /\ pc' = [pc EXCEPT ![t] = "cSleep"]
        /\ UNCHANGED <<shared, mutex, new_job, created, cancelled, taken>>
    BY DEF Wake, Goto
  <1>2. /\ t # Main /\ t \in Procs
        /\ t \in Producers => pc[t] \in ProducerLabels
        /\ t \in Consumers => pc[t] \in ConsumerLabels
    BY Sets DEF IInv, Types
  <1> QED
    BY <1>1, <1>2, PlainMove, Sets DEF shared, ProducerLabels, ConsumerLabels, Locked

\* A step that moves a job, and with it one thread in or out of a set of Counted.
LEMMA JobMove ==
  ASSUME IInv, NEW s \in Threads, NEW l, pc' = [pc EXCEPT ![s] = l], pc[s] # "unborn",
         s \in Producers => l \in ProducerLabels,
         s \in Consumers => l \in ConsumerLabels,
         \/ pc[s] \in Locked /\ mutex' = mutex \ {s} /\ l \notin Locked
         \/ pc[s] \in Locked /\ mutex' = mutex /\ l \in Locked,
         job_created' \in Nat, job_completed' \in Nat, curr_size' \in 0..(PQ_SIZE - 1),
         Counted', pc[Main] \notin {"mCancel", "exited"} /\ cancelled = {},
         UNCHANGED <<created, cancelled>>
  PROVE  IInv'
  <1>1. s \in Procs /\ s # Main /\ Main \in Procs
    BY Sets
  <1>2. Types'
    BY <1>1, OneMoves DEF IInv, Types
  <1>3. OneHolder'
    BY <1>1, OneMoves, HolderMoves
  <1>4. pc'[Main] = pc[Main]
    BY <1>1, OneMoves
  <1>5. Quiet'
    BY <1>4 DEF Quiet
  <1>6. Unborn'
    <2>1. \A u \in Threads : pc'[u] = IF u = s THEN l ELSE pc[u]
      BY <1>1, OneMoves, Sets
    <2> QED
      BY <2>1 DEF IInv, Unborn
  <1> QED
    BY <1>2, <1>3, <1>5, <1>6 DEF IInv

\* A creation, an insertion, a removal or a completion happens only before main cancels.
LEMMA NotQuiet ==
  ASSUME IInv, job_created < Jobs \/ job_completed < Jobs \/ curr_size > 0 \/ Making # {} \/ Printing # {}
  PROVE  pc[Main] \notin {"mCancel", "exited"} /\ cancelled = {}
  <1> USE JobThreadsAssumption
  <1> SUFFICES ASSUME pc[Main] \in {"mCancel", "exited"} \/ cancelled # {}
               PROVE  FALSE
    OBVIOUS
  <1>1. job_created = Jobs /\ job_completed = Jobs /\ curr_size = 0 /\ Making = {} /\ Printing = {}
    BY QuietMeansEmpty DEF IInv, Quiet
  <1> QED
    BY <1>1

LEMMA ProducerCheckInv == ASSUME IInv, NEW p \in Producers, ProducerCheck(p) PROVE IInv'
  <1> USE JobThreadsAssumption
  <1>1. /\ pc[p] = "pCheck" /\ mutex' = mutex \ {p}
        /\ UNCHANGED <<priority_q, job_completed, curr_size, created, cancelled, taken>>
    BY DEF ProducerCheck, Release
  <1>2. p \in Threads /\ p \in Procs /\ p # Main /\ p \notin Consumers
    BY Sets
  <1>3. CASE job_created' = job_created /\ (Goto(p, "done") \/ Goto(p, "pLock"))
    BY <1>1, <1>2, <1>3, PlainMove DEF Goto, ProducerLabels, Locked
  <1>4. CASE job_created < Jobs /\ job_created' = job_created + 1 /\ Goto(p, "pSleep")
    <2>1. p \notin Making /\ Making' = Making \cup {p} /\ Printing' = Printing \ {p} /\ p \notin Printing
      BY <1>1, <1>2, <1>4, OneMoves DEF Goto, ProducerLabels, Making, Printing
    <2>2. Cardinality(Making') = Cardinality(Making) + 1 /\ Printing' = Printing
      BY <2>1, Finite, AddOne
    <2>3. job_created \in Nat /\ job_completed \in Nat /\ curr_size \in 0..(PQ_SIZE - 1)
      BY DEF IInv, Types
    <2>4. Counted'
      BY <1>1, <1>4, <2>2, <2>3, Finite DEF IInv, Counted
    <2> QED
      <3>1. pc[Main] \notin {"mCancel", "exited"} /\ cancelled = {}
        BY <1>4, NotQuiet
      <3>2. job_created' \in Nat /\ job_completed' \in Nat /\ curr_size' \in 0..(PQ_SIZE - 1)
        BY <1>1, <1>4, <2>3
      <3> QED
        BY <1>1, <1>2, <1>4, <2>4, <3>1, <3>2, JobMove DEF Goto, ProducerLabels, Locked
  <1> QED
    BY <1>3, <1>4 DEF ProducerCheck

LEMMA ProducerInsertInv == ASSUME IInv, NEW p \in Producers, ProducerInsert(p) PROVE IInv'
  <1> USE JobThreadsAssumption
  <1>1. /\ pc[p] = "pInsert" /\ mutex' = mutex \ {p}
        /\ UNCHANGED <<job_created, job_completed, created, cancelled, taken>>
    BY DEF ProducerInsert, Release
  <1>2. p \in Threads /\ p \in Procs /\ p # Main /\ p \notin Consumers
    BY Sets
  <1>3. CASE curr_size' = curr_size /\ Goto(p, "pRelock")
    BY <1>1, <1>2, <1>3, PlainMove DEF Goto, ProducerLabels, Locked
  <1>4. CASE HasRoom /\ curr_size' = curr_size + 1 /\ Goto(p, "pLock")
    <2>1. p \in Making /\ Making' = Making \ {p} /\ Printing' = Printing \ {p} /\ p \notin Printing
      BY <1>1, <1>2, <1>4, OneMoves DEF Goto, ProducerLabels, Making, Printing
    <2>2. Cardinality(Making') = Cardinality(Making) - 1 /\ Printing' = Printing
      BY <2>1, Finite, AddOne
    <2>3. job_created \in Nat /\ job_completed \in Nat /\ curr_size \in 0..(PQ_SIZE - 1)
      BY DEF IInv, Types
    <2>4. Counted'
      BY <1>1, <1>4, <2>2, <2>3, Finite DEF IInv, Counted
    <2>5. curr_size' \in 0..(PQ_SIZE - 1)
      BY <1>4, <2>3 DEF HasRoom
    <2> QED
      BY <1>1, <1>2, <1>4, <2>1, <2>3, <2>4, <2>5, NotQuiet, JobMove DEF Goto, ProducerLabels, Locked
  <1> QED
    BY <1>3, <1>4 DEF ProducerInsert, Insert_job

LEMMA ConsumerCheckInv == ASSUME IInv, NEW c \in Consumers, ConsumerCheck(c) PROVE IInv'
  <1> USE JobThreadsAssumption
  <1>1. /\ pc[c] = "cCheck"
        /\ UNCHANGED <<job_created, job_completed, new_job, created, cancelled>>
    BY DEF ConsumerCheck
  <1>2. c \in Threads /\ c \in Procs /\ c # Main /\ c \notin Producers
    BY Sets
  <1>3. CASE mutex' = mutex \ {c} /\ curr_size' = curr_size /\ (Goto(c, "done") \/ Goto(c, "cSleep"))
    BY <1>1, <1>2, <1>3, PlainMove DEF Goto, ConsumerLabels, Locked
  <1>4. CASE /\ job_completed < Jobs /\ curr_size > 0 /\ curr_size' = curr_size - 1
             /\ Goto(c, "cPrint") /\ UNCHANGED mutex
    <2>1. c \notin Printing /\ Printing' = Printing \cup {c} /\ Making' = Making \ {c} /\ c \notin Making
      BY <1>1, <1>2, <1>4, OneMoves DEF Goto, ConsumerLabels, Making, Printing
    <2>2. Cardinality(Printing') = Cardinality(Printing) + 1 /\ Making' = Making
      BY <2>1, Finite, AddOne
    <2>3. job_created \in Nat /\ job_completed \in Nat /\ curr_size \in 0..(PQ_SIZE - 1)
      BY DEF IInv, Types
    <2>4. Counted'
      BY <1>1, <1>4, <2>2, <2>3, Finite DEF IInv, Counted
    <2>5. curr_size' \in 0..(PQ_SIZE - 1)
      BY <1>4, <2>3
    <2> QED
      BY <1>1, <1>2, <1>4, <2>3, <2>4, <2>5, NotQuiet, JobMove DEF Goto, ConsumerLabels, Locked
  <1> QED
    BY <1>3, <1>4 DEF ConsumerCheck, Remove_job, Release

LEMMA ConsumerCountInv == ASSUME IInv, NEW c \in Consumers, ConsumerCount(c) PROVE IInv'
  <1> USE JobThreadsAssumption
  <1>1. /\ pc[c] = "cPrint" /\ mutex' = mutex \ {c} /\ job_completed' = job_completed + 1
        /\ Goto(c, "cCompute")
        /\ UNCHANGED <<priority_q, job_created, curr_size, new_job, created, cancelled, taken>>
    BY DEF ConsumerCount, Release
  <1>2. c \in Threads /\ c \in Procs /\ c # Main /\ c \notin Producers
    BY Sets
  <1>3. c \in Printing /\ Printing' = Printing \ {c} /\ Making' = Making \ {c} /\ c \notin Making
    BY <1>1, <1>2, OneMoves DEF Goto, ConsumerLabels, Making, Printing
  <1>4. Cardinality(Printing') = Cardinality(Printing) - 1 /\ Making' = Making
    BY <1>3, Finite, AddOne
  <1>5. job_created \in Nat /\ job_completed \in Nat /\ curr_size \in 0..(PQ_SIZE - 1)
    BY DEF IInv, Types
  <1>6. Counted'
    BY <1>1, <1>4, <1>5, Finite DEF IInv, Counted
  <1> QED
    <2>1. pc[Main] \notin {"mCancel", "exited"} /\ cancelled = {}
      BY <1>3, NotQuiet
    <2>2. job_created' \in Nat /\ job_completed' \in Nat /\ curr_size' \in 0..(PQ_SIZE - 1)
      BY <1>1, <1>5
    <2> QED
      BY <1>1, <1>2, <1>6, <2>1, <2>2, JobMove DEF Goto, ConsumerLabels, Locked

LEMMA StutterInv == ASSUME IInv, UNCHANGED vars PROVE IInv'
  <1>1. Making' = Making /\ Printing' = Printing
    BY DEF vars, Making, Printing
  <1> QED
    BY <1>1 DEF vars, shared, IInv, Types, OneHolder, Counted, Quiet, Unborn

\* Every reachable state satisfies the inductive invariant.
THEOREM Invariant == Spec => []IInv
  <1>1. Init => IInv
    BY InitInv
  <1>2. IInv /\ [Next]_vars => IInv'
    <2> SUFFICES ASSUME IInv, [Next]_vars PROVE IInv'
      OBVIOUS
    <2> QED
      BY CreateInv, MainInv, CancelInv, LockInv, ProducerCheckInv, ProducerInsertInv,
         ConsumerCheckInv, ConsumerCountInv, DieInv, WakeInv, StutterInv DEF Next, Procs
  <1> QED
    BY <1>1, <1>2, PTL DEF Spec

\* pthread_cancel, as main uses it, ends no thread that holds the mutex, although the code
\* prints and makes generators, where cancellation acts, in its critical sections.
THEOREM CancelSafe == Spec => []NoLockLost
  <1>1. IInv => NoLockLost
    BY Sets DEF IInv, OneHolder, NoLockLost, Locked
  <1> QED
    BY <1>1, Invariant, PTL

-----------------------------------------------------------------------------
(* The jobs. *)

\* Between two critical sections the queue is a heap of jobs that were created, no two of them
\* the same.
QueueInv ==
  /\ priority_q \in Heaps
  /\ \A i \in 1..curr_size : priority_q[i].id \in 1..job_created
  /\ Distinct(priority_q, curr_size)
  /\ Ordered(priority_q, curr_size)

\* A producer has a job in hand exactly between its creation and its insertion, and nobody else
\* has that job.
HandInv ==
  /\ new_job \in [Producers -> Job \cup {NoJob}]
  /\ \A p \in Making : new_job[p].id \in 1..job_created
  /\ \A p \in Producers \ Making : new_job[p] = NoJob
  /\ \A p, r \in Making : new_job[p] = new_job[r] => p = r
  /\ \A p \in Making : \A i \in 1..curr_size : new_job[p] # priority_q[i]

JobInv == QueueInv /\ HandInv

Queued == {priority_q[i] : i \in 1..curr_size}

\* The steps that move a job.
Creates(p) == ProducerCheck(p) /\ job_created < Jobs /\ HasRoom
Inserts(p) == ProducerInsert(p) /\ HasRoom
Removes(c) == ConsumerCheck(c) /\ job_completed < Jobs /\ curr_size > 0

\* A thread that gets no job and loses none.
LEMMA MakingKept ==
  ASSUME IInv, NEW s \in Procs, NEW l, pc' = [pc EXCEPT ![s] = l],
         s \in Producers =>
           (l \in {"pSleep", "pRelock", "pInsert"} <=> pc[s] \in {"pSleep", "pRelock", "pInsert"})
  PROVE  Making' = Making
  <1>1. \A u \in Procs : pc'[u] = IF u = s THEN l ELSE pc[u]
    BY DEF IInv, Types
  <1> QED
    BY <1>1, Sets DEF Making

\* All others leave the jobs where they are.
LEMMA MovesOrNot ==
  ASSUME IInv, [Next]_vars
  PROVE  \/ UNCHANGED <<priority_q, job_created, curr_size, new_job, taken>> /\ Making' = Making
         \/ \E p \in Producers : Creates(p) \/ Inserts(p)
         \/ \E c \in Consumers : Removes(c)
  <1> DEFINE Calm == UNCHANGED <<priority_q, job_created, curr_size, new_job, taken>> /\ Making' = Making
  <1> USE Sets
  <1>1. pc[Main] \in MainLabels /\ \A c \in Consumers : pc[c] \in ConsumerLabels
    BY DEF IInv, Types
  <1>2. CASE Create
    <2>1. CASE Goto(Main, "mLock")
      BY <1>2, <2>1, MakingKept DEF Create, Goto, shared
    <2>2. CASE created < NProd + NCons /\ Goto(created + 1, IF created + 1 \in Producers THEN "pLock" ELSE "cSleep")
      <3>1. created + 1 \in Threads /\ created \in Nat /\ created + 1 > created
        BY <2>2, JobThreadsAssumption DEF IInv, Types, Threads
      <3>2. pc[created + 1] = "unborn"
        BY <3>1 DEF IInv, Unborn
      <3>3. Making' = Making
        BY <2>2, <3>1, <3>2, MakingKept DEF Goto
      <3> QED
        BY <1>2, <3>3 DEF Create, shared
    <2> QED
      BY <1>2, <2>1, <2>2 DEF Create
  <1>3. CASE MainPoll \/ MainExit
    <2>1. \E l : pc' = [pc EXCEPT ![Main] = l]
      BY <1>3 DEF MainPoll, MainExit, Goto
    <2> QED
      BY <1>3, <2>1, MakingKept DEF MainPoll, MainExit, shared
  <1>4. CASE Cancel \/ UNCHANGED vars
    BY <1>4 DEF Cancel, vars, shared, Making
  <1>5. ASSUME NEW s \in Procs, Lock(s) PROVE Calm
    <2>1. pc' = [pc EXCEPT ![s] = AfterLock[pc[s]]]
      BY <1>5 DEF Lock, Goto
    <2>2. pc[s] \in {"mLock", "pLock", "pRelock", "cLock"}
      BY <1>5 DEF Lock, AfterLock
    <2>3. \/ pc[s] = "pRelock" /\ AfterLock[pc[s]] = "pInsert"
          \/ pc[s] # "pRelock" /\ AfterLock[pc[s]] \in {"mCheck", "pCheck", "cCheck"}
      <3>1. CASE pc[s] = "mLock"
        BY <3>1 DEF AfterLock
      <3>2. CASE pc[s] = "pLock"
        BY <3>2 DEF AfterLock
      <3>3. CASE pc[s] = "pRelock"
        BY <3>3 DEF AfterLock
      <3>4. CASE pc[s] = "cLock"
        BY <3>4 DEF AfterLock
      <3> QED
        BY <2>2, <3>1, <3>2, <3>3, <3>4
    <2>4. Making' = Making
      BY <2>1, <2>2, <2>3, MakingKept
    <2> QED
      BY <1>5, <2>4 DEF Lock, shared
  <1>6. ASSUME NEW t \in Threads, Die(t) PROVE Calm
    <2>1. pc[t] \in {"cSleep", "cCompute"} /\ pc' = [pc EXCEPT ![t] = "cancelled"]
      BY <1>6, DiesAsleep DEF Die, Goto
    <2>2. Making' = Making
      BY <2>1, MakingKept
    <2> QED
      BY <1>6, <2>2 DEF Die, shared
  <1>7. ASSUME NEW t \in Threads, Wake(t) PROVE Calm
    <2>1. Making' = Making
      BY <1>7, MakingKept DEF Wake, Goto
    <2> QED
      BY <1>7, <2>1 DEF Wake, shared
  <1>8. ASSUME NEW c \in Consumers, ConsumerCount(c) PROVE Calm
    BY <1>8, MakingKept DEF ConsumerCount, Goto
  <1>9. ASSUME NEW p \in Producers, ProducerCheck(p), ~ Creates(p) PROVE Calm
    <2>1. /\ pc[p] = "pCheck" /\ (Goto(p, "done") \/ Goto(p, "pLock"))
          /\ UNCHANGED <<job_created, new_job>>
      BY <1>9 DEF ProducerCheck, Creates
    <2>2. Making' = Making
      BY <2>1, MakingKept DEF Goto
    <2> QED
      BY <1>9, <2>1, <2>2 DEF ProducerCheck
  <1>10. ASSUME NEW p \in Producers, ProducerInsert(p), ~ Inserts(p) PROVE Calm
    <2>1. pc[p] = "pInsert" /\ Goto(p, "pRelock") /\ UNCHANGED <<priority_q, curr_size, new_job>>
      BY <1>10 DEF ProducerInsert, Inserts
    <2>2. Making' = Making
      BY <2>1, MakingKept DEF Goto
    <2> QED
      BY <1>10, <2>1, <2>2 DEF ProducerInsert
  <1>11. ASSUME NEW c \in Consumers, ConsumerCheck(c), ~ Removes(c) PROVE Calm
    <2>1. (Goto(c, "done") \/ Goto(c, "cSleep")) /\ UNCHANGED <<priority_q, curr_size, taken>>
      BY <1>11 DEF ConsumerCheck, Removes
    <2>2. Making' = Making
      BY <2>1, MakingKept DEF Goto
    <2> QED
      BY <1>11, <2>1, <2>2 DEF ConsumerCheck
  <1> QED
    BY <1>2, <1>3, <1>4, <1>5, <1>6, <1>7, <1>8, <1>9, <1>10, <1>11 DEF Next, Procs

\* What the invariants say of the numbers and of a step's places.
LEMMA Counts ==
  ASSUME IInv
  PROVE  /\ job_created \in Nat /\ curr_size \in Nat /\ curr_size \in 0..(PQ_SIZE - 1)
         /\ \A i \in 1..curr_size : i \in Slots
  <1>1. job_created \in Nat /\ curr_size \in 0..(PQ_SIZE - 1)
    BY DEF IInv, Types
  <1> QED
    BY <1>1, JobThreadsAssumption DEF Slots

\* There are no more queued jobs than slots in use, so room in the queue is room in the pool.
LEMMA RoomInPool ==
  ASSUME IInv, HasRoom
  PROVE  Pool!Cardinality(Queued) < PQ_SIZE - 1
  <1> DEFINE f == [i \in 1..curr_size |-> priority_q[i]]
  <1>1. f \in Surjection(1..curr_size, Queued)
    BY DEF Surjection, Queued
  <1>2. IsFiniteSet(1..curr_size) /\ Cardinality(1..curr_size) = curr_size
    BY Counts, FS_Interval
  <1> HIDE DEF f
  <1>3. IsFiniteSet(Queued) /\ Cardinality(Queued) <= curr_size
    BY <1>1, <1>2, FS_Surjection
  <1>4. Cardinality(Queued) \in Nat
    BY <1>3, FS_CardinalityType
  <1>5. Pool!Cardinality(Queued) = Cardinality(Queued)
    BY Zenon DEF Pool!Cardinality, Cardinality, Pool!IsFiniteSet, IsFiniteSet
  <1>6. curr_size < PQ_SIZE - 1
    BY DEF HasRoom
  <1>7. Cardinality(Queued) < PQ_SIZE - 1
    BY <1>3, <1>4, <1>6, Counts, JobThreadsAssumption
  <1> QED
    BY <1>5, <1>7

\* The jobs in the hands of the producers, as JobPool sees them.
poolHeld == [p \in Producers |-> {new_job[p]} \ {NoJob}]

\* A job has a serial number, NoJob has none.
LEMMA RealJob ==
  ASSUME NEW x \in Job \cup {NoJob}, NEW n \in Nat
  PROVE  /\ x.id \in 1..n => x # NoJob /\ x \in Job
  <1>1. NoJob.id = 0
    BY DEF NoJob
  <1> QED
    BY <1>1

\* A new job is with its producer alone.
LEMMA CreatesJob ==
  ASSUME IInv, JobInv, NEW p \in Producers, Creates(p)
  PROVE  JobInv' /\ Pool!Make(p)
  <1>1. /\ pc[p] = "pCheck" /\ job_created < Jobs /\ HasRoom
        /\ UNCHANGED <<priority_q, curr_size, taken>>
        /\ job_created' = job_created + 1 /\ Goto(p, "pSleep")
    BY Counts, JobThreadsAssumption DEF Creates, ProducerCheck
  <1>2. PICK pri \in Priorities : new_job' = [new_job EXCEPT ![p] = [id |-> job_created + 1, priority |-> pri]]
    BY Counts, JobThreadsAssumption DEF Creates, ProducerCheck
  <1> DEFINE j == [id |-> job_created + 1, priority |-> pri]
  <1>3. j \in Job /\ j # NoJob /\ j.id = job_created + 1
    <2>1. job_created + 1 \in 1..Jobs /\ job_created + 1 # 0
      BY <1>1, Counts, JobThreadsAssumption
    <2> QED
      BY <2>1 DEF Job, NoJob
  <1>4. p \notin Making /\ Making' = Making \cup {p} /\ p \in Procs
    BY <1>1, OneMoves, Sets DEF Goto, Making, ProducerLabels
  <1> HIDE DEF j
  <1>5. /\ new_job \in [Producers -> Job \cup {NoJob}] /\ new_job' \in [Producers -> Job \cup {NoJob}]
        /\ \A r \in Producers : new_job'[r] = IF r = p THEN j ELSE new_job[r]
        /\ new_job[p] = NoJob
    <2>1. new_job' = [new_job EXCEPT ![p] = j]
      BY <1>2 DEF j
    <2> QED
      BY <1>3, <1>4, <2>1 DEF JobInv, HandInv
  <1>6. QueueInv'
    <2>1. \A i \in 1..curr_size : priority_q[i].id \in 1..job_created'
      BY <1>1, Counts DEF JobInv, QueueInv
    <2> QED
      BY <1>1, <2>1 DEF JobInv, QueueInv, Heaps, Distinct, Ordered, Above
  <1>7. HandInv'
    <2>1. \A r \in Making : new_job[r].id \in 1..job_created /\ new_job'[r] = new_job[r] /\ r \in Producers
      BY <1>4, <1>5 DEF JobInv, HandInv, Making
    <2>2. \A n \in 1..job_created : n # job_created + 1 /\ n \in 1..(job_created + 1)
      BY Counts
    <2>3. job_created + 1 \in 1..(job_created + 1)
      BY Counts
    <2>4. \A r \in Making' : new_job'[r].id \in 1..job_created'
      BY <1>1, <1>3, <1>4, <1>5, <2>1, <2>2, <2>3
    <2>5. \A r \in Producers \ Making' : new_job'[r] = NoJob
      BY <1>4, <1>5 DEF JobInv, HandInv
    <2>6. \A r, s \in Making' : new_job'[r] = new_job'[s] => r = s
      BY <1>3, <1>4, <1>5, <2>1, <2>2 DEF JobInv, HandInv
    <2>7. \A r \in Making' : \A i \in 1..curr_size : new_job'[r] # priority_q[i]
      <3>1. \A i \in 1..curr_size : priority_q[i].id # j.id
        BY <1>3, <2>2 DEF JobInv, QueueInv
      <3> QED
        BY <1>4, <1>5, <2>1, <3>1 DEF JobInv, HandInv
    <2> QED
      BY <1>1, <1>5, <2>4, <2>5, <2>6, <2>7 DEF HandInv
  <1>8. Pool!Make(p)
    <2>1. poolHeld[p] = {} /\ poolHeld' = [poolHeld EXCEPT ![p] = {j}]
      BY <1>3, <1>5 DEF poolHeld
    <2>2. Queued' = Queued
      BY <1>1 DEF Queued
    <2> QED
      BY <1>1, <2>1, <2>2, RoomInPool DEF Pool!Make, poolHeld, Queued, j
  <1> QED
    BY <1>6, <1>7, <1>8 DEF JobInv

\* The queue is a heap again when the job of a producer has been inserted.
LEMMA InsertsJob ==
  ASSUME IInv, JobInv, NEW p \in Producers, Inserts(p)
  PROVE  JobInv' /\ Pool!Post(p)
  <1> DEFINE n == curr_size + 1
             j == new_job[p]
             h == [priority_q EXCEPT ![n] = j]
  <1>1. /\ pc[p] = "pInsert" /\ HasRoom /\ Goto(p, "pLock")
        /\ curr_size' = n /\ priority_q' = Risen(h, n)
        /\ new_job' = [new_job EXCEPT ![p] = NoJob]
        /\ UNCHANGED <<job_created, taken>>
    BY DEF Inserts, ProducerInsert, Insert_job
  <1>2. p \in Making /\ Making' = Making \ {p} /\ p \in Procs
    BY <1>1, OneMoves, Sets DEF Goto, Making, ProducerLabels
  <1>3. /\ n \in 0..(PQ_SIZE - 1) /\ n \in 1..n /\ n \in Slots /\ n \in Nat
        /\ \A i \in 1..n : i \in Slots /\ (i = n \/ (i \in 1..curr_size /\ i # n))
        /\ \A i \in 1..curr_size : i \in 1..n /\ i # n /\ i \in Slots
    BY <1>1, Counts, JobThreadsAssumption DEF HasRoom, Slots
  <1>4. /\ j \in Job /\ j # NoJob /\ j.id \in 1..job_created
        /\ \A i \in 1..curr_size : j # priority_q[i]
    BY <1>2, Counts, RealJob DEF JobInv, HandInv
  <1> HIDE DEF n, j
  <1>5. priority_q \in Heaps /\ h \in Heaps /\ \A i \in Slots : h[i] = IF i = n THEN j ELSE priority_q[i]
    BY <1>3, <1>4 DEF JobInv, QueueInv, Heaps
  <1> HIDE DEF h
  <1>6. Distinct(h, n)
    BY <1>3, <1>4, <1>5 DEF JobInv, QueueInv, Distinct
  <1>7. OrderedBut(h, n, n)
    <2>1. ASSUME NEW i \in 2..n, i # n PROVE Above(h, i \div 2, i)
      <3>1. i \in 2..curr_size
        BY <2>1, Counts DEF n
      <3>2. i \div 2 \in 1..curr_size /\ i \in 1..curr_size
        BY <3>1, Counts, Parents
      <3> QED
        BY <1>3, <1>5, <3>1, <3>2 DEF JobInv, QueueInv, Ordered, Above
    <2>2. \A i \in 2..n : i \div 2 # n
      BY <1>3
    <2> QED
      BY <2>1, <2>2 DEF OrderedBut
  <1>8. Rearranged(h, priority_q', n) /\ Ordered(priority_q', n)
    BY <1>1, <1>3, <1>5, <1>7, RisenIs
  <1>9. \A i \in 1..n : h[i].id \in 1..job_created
    BY <1>3, <1>4, <1>5 DEF JobInv, QueueInv
  <1>10. QueueInv'
    <2>1. priority_q' \in Heaps /\ Distinct(priority_q', n)
      BY <1>6, <1>8 DEF Rearranged
    <2>2. \A i \in 1..n : priority_q'[i].id \in 1..job_created
      BY <1>8, <1>9 DEF Rearranged
    <2>3. (priority_q \in Heaps)' /\ Distinct(priority_q, curr_size)' /\ Ordered(priority_q, curr_size)'
      BY <1>1, <1>8, <2>1 DEF Heaps, Distinct, Ordered, Above
    <2> QED
      BY <1>1, <2>2, <2>3 DEF QueueInv
  <1>11. /\ new_job \in [Producers -> Job \cup {NoJob}] /\ new_job' \in [Producers -> Job \cup {NoJob}]
         /\ \A r \in Producers : new_job'[r] = IF r = p THEN NoJob ELSE new_job[r]
    BY <1>1 DEF JobInv, HandInv
  <1>12. HandInv'
    <2>1. \A r \in Making' : r \in Making /\ r # p /\ new_job'[r] = new_job[r] /\ r \in Producers
      BY <1>2, <1>11 DEF Making
    <2>2. \A r \in Making' : new_job'[r].id \in 1..job_created'
      BY <1>1, <2>1 DEF JobInv, HandInv
    <2>3. \A r \in Producers \ Making' : new_job'[r] = NoJob
      BY <1>2, <1>11 DEF JobInv, HandInv
    <2>4. \A r, s \in Making' : new_job'[r] = new_job'[s] => r = s
      BY <2>1 DEF JobInv, HandInv
    <2>5. \A r \in Making' : \A i \in 1..n : new_job'[r] # h[i]
      BY <1>2, <1>3, <1>5, <2>1 DEF JobInv, HandInv, j
    <2>6. \A r \in Making' : \A i \in 1..n : new_job'[r] # priority_q'[i]
      BY <1>8, <2>5 DEF Rearranged
    <2> QED
      BY <1>1, <1>11, <2>2, <2>3, <2>4, <2>6 DEF HandInv
  <1>13. Pool!Post(p)
    <2>1. poolHeld[p] = {j} /\ poolHeld' = [poolHeld EXCEPT ![p] = {}]
      <3>1. \A r \in Producers : {new_job'[r]} \ {NoJob} = IF r = p THEN {} ELSE {new_job[r]} \ {NoJob}
        BY <1>11
      <3>2. {new_job[p]} \ {NoJob} = {j}
        BY <1>4 DEF j
      <3> QED
        BY <3>1, <3>2 DEF poolHeld
    <2>2. Queued' = Queued \cup {j}
      <3>1. \A x \in Queued' : \E i \in 1..n : x = h[i]
        BY <1>1, <1>8 DEF Queued, Rearranged
      <3>2. \A i \in 1..n : h[i] \in Queued'
        BY <1>1, <1>8 DEF Queued, Rearranged
      <3>3. \A i \in 1..n : h[i] \in Queued \cup {j}
        BY <1>3, <1>5 DEF Queued
      <3>4. \A x \in Queued \cup {j} : \E i \in 1..n : x = h[i]
        BY <1>3, <1>5 DEF Queued
      <3> QED
        BY <3>1, <3>2, <3>3, <3>4
    <2> QED
      BY <1>1, <2>1, <2>2, RoomInPool DEF Pool!Post, poolHeld, Queued
  <1> QED
    BY <1>10, <1>12, <1>13 DEF JobInv

\* The job that is removed is one of the highest priority, the others stay, in a heap.
LEMMA RemovesJob ==
  ASSUME IInv, JobInv, NEW c \in Consumers, Removes(c)
  PROVE  JobInv' /\ Pool!Take
  <1> DEFINE n == curr_size - 1
             root == priority_q[1]
             h == [priority_q EXCEPT ![1] = priority_q[curr_size]]
  <1>1. /\ pc[c] = "cCheck" /\ curr_size > 0 /\ Goto(c, "cPrint")
        /\ curr_size' = n /\ taken' = taken \cup {root}
        /\ priority_q' = IF curr_size = 1 THEN priority_q ELSE Sunk(h, n)
        /\ UNCHANGED <<job_created, new_job>>
    <2>1. ~ (job_completed >= Jobs) /\ curr_size # 0
      BY Counts, JobThreadsAssumption DEF Removes, IInv, Types
    <2> QED
      BY <2>1 DEF Removes, ConsumerCheck, Remove_job
  <1>2. Making' = Making
    BY <1>1, MakingKept, Sets DEF Goto
  <1>3. /\ n \in 0..(PQ_SIZE - 1) /\ 1 \in Slots /\ 1 \in 1..curr_size /\ curr_size \in 1..(PQ_SIZE - 1)
        /\ \A i \in 1..n : i \in Slots /\ i \in 1..curr_size /\ i # curr_size
        /\ \A i \in 1..curr_size : i \in Slots /\ (i = curr_size \/ i \in 1..n)
        /\ curr_size = 1 => 1..n = {}
    BY <1>1, Counts, JobThreadsAssumption DEF Slots
  <1> HIDE DEF n
  <1>4. priority_q \in Heaps /\ Distinct(priority_q, curr_size) /\ Ordered(priority_q, curr_size)
    BY DEF JobInv, QueueInv
  <1>5. /\ priority_q' \in Heaps /\ Distinct(priority_q', n) /\ Ordered(priority_q', n)
        /\ \A i \in 1..n : \E k \in 2..curr_size : priority_q'[i] = priority_q[k]
        /\ \A k \in 2..curr_size : \E i \in 1..n : priority_q'[i] = priority_q[k]
    <2>1. CASE curr_size = 1
      <3>1. n = 0
        BY <2>1 DEF n
      <3> QED
        BY <1>1, <1>4, <2>1, <3>1 DEF Distinct, Ordered
    <2>2. CASE curr_size # 1
      <3>1. n \in 1..(PQ_SIZE - 1) /\ curr_size \in Slots /\ 1 \in 1..n
        BY <1>3, <2>2 DEF n, Slots
      <3>2. h \in Heaps /\ \A i \in Slots : h[i] = IF i = 1 THEN priority_q[curr_size] ELSE priority_q[i]
        BY <1>3, <1>4, <3>1 DEF Heaps
      <3> HIDE DEF h
      <3>3. Distinct(h, n)
        BY <1>3, <1>4, <3>2 DEF Distinct
      <3>4. OrderedAbove(h, n, 1)
        <4>1. ASSUME NEW i \in 2..n, i \div 2 # 1 PROVE Above(h, i \div 2, i)
          <5>1. i \div 2 \in Slots /\ i \in Slots /\ i # 1 /\ i \in 2..curr_size
            BY <1>3, Parents DEF n
          <5> QED
            BY <1>4, <3>2, <4>1, <5>1 DEF Ordered, Above
        <4> QED
          BY <4>1 DEF OrderedAbove
      <3>5. Rearranged(h, priority_q', n) /\ Ordered(priority_q', n)
        BY <1>1, <2>2, <3>1, <3>2, <3>4, SunkIs
      <3>6. \A i \in 1..n : \E k \in 2..curr_size : h[i] = priority_q[k]
        <4> SUFFICES ASSUME NEW i \in 1..n PROVE \E k \in 2..curr_size : h[i] = priority_q[k]
          OBVIOUS
        <4>1. CASE i = 1
          <5>1. curr_size \in 2..curr_size
            BY <1>3, <2>2
          <5> QED
            BY <1>3, <3>2, <4>1, <5>1
        <4>2. CASE i # 1
          <5>1. i \in 2..curr_size
            BY <1>3, <4>2
          <5> QED
            BY <1>3, <3>2, <4>2, <5>1
        <4> QED
          BY <4>1, <4>2
      <3>7. \A k \in 2..curr_size : \E i \in 1..n : h[i] = priority_q[k]
        <4> SUFFICES ASSUME NEW k \in 2..curr_size PROVE \E i \in 1..n : h[i] = priority_q[k]
          OBVIOUS
        <4>1. CASE k = curr_size
          BY <1>3, <3>1, <3>2, <4>1
        <4>2. CASE k # curr_size
          <5>1. k \in 1..n /\ k # 1
            BY <1>3, <4>2
          <5> QED
            BY <1>3, <3>2, <5>1
        <4> QED
          BY <4>1, <4>2
      <3> QED
        BY <3>3, <3>5, <3>6, <3>7 DEF Rearranged
    <2> QED
      BY <2>1, <2>2
  <1>6. \A k \in 2..curr_size : k \in 1..curr_size /\ k # 1
    BY <1>3
  <1>7. QueueInv'
    <2>1. \A i \in 1..n : priority_q'[i].id \in 1..job_created
      BY <1>5, <1>6 DEF JobInv, QueueInv
    <2>2. (priority_q \in Heaps)' /\ Distinct(priority_q, curr_size)' /\ Ordered(priority_q, curr_size)'
      BY <1>1, <1>5 DEF Heaps, Distinct, Ordered, Above
    <2> QED
      BY <1>1, <2>1, <2>2 DEF QueueInv
  <1>8. HandInv'
    <2>1. \A p \in Making : \A i \in 1..n : new_job[p] # priority_q'[i]
      BY <1>5, <1>6 DEF JobInv, HandInv
    <2> QED
      BY <1>1, <1>2, <2>1 DEF JobInv, HandInv
  <1>9. Pool!Take
    <2>1. root \in Queued /\ \A k \in Queued : k.priority <= root.priority
      <3>1. \A i \in 1..curr_size : Above(priority_q, 1, i)
        BY <1>3, <1>4, RootMax
      <3> QED
        BY <1>3, <3>1 DEF Above, Queued
    <2>2. Queued' = Queued \ {root}
      <3>1. \A k \in 2..curr_size : priority_q[k] # root
        BY <1>3, <1>4, <1>6 DEF Distinct
      <3>2. \A k \in 1..curr_size : k = 1 \/ k \in 2..curr_size
        BY <1>3
      <3>3. \A x : x \in Queued' <=> \E i \in 1..n : x = priority_q'[i]
        BY <1>1 DEF Queued
      <3>4. \A x : x \in Queued <=> \E k \in 1..curr_size : x = priority_q[k]
        BY DEF Queued
      <3> HIDE DEF root
      <3>5. ASSUME NEW x \in Queued' PROVE x \in Queued /\ x # root
        <4>1. PICK k \in 2..curr_size : x = priority_q[k]
          BY <1>5, <3>3
        <4> QED
          BY <1>6, <3>1, <3>4, <4>1
      <3>6. ASSUME NEW x \in Queued, x # root PROVE x \in Queued'
        <4>1. PICK k \in 1..curr_size : x = priority_q[k]
          BY <3>4
        <4>2. k \in 2..curr_size
          BY <3>2, <3>6, <4>1 DEF root
        <4> QED
          BY <1>5, <3>3, <4>1, <4>2
      <3> QED
        BY <3>5, <3>6
    <2>3. UNCHANGED <<job_created, new_job>> /\ taken' = taken \cup {root}
      BY <1>1
    <2> QED
      BY <2>1, <2>2, <2>3 DEF Pool!Take, Queued
  <1> QED
    BY <1>7, <1>8, <1>9 DEF JobInv

\* There is no job at first.
LEMMA JobInit == Init => JobInv
  <1> SUFFICES ASSUME Init PROVE JobInv
    OBVIOUS
  <1>1. 1..curr_size = {} /\ 2..curr_size = {}
    BY DEF Init
  <1>2. Making = {}
    BY Sets DEF Init, Making
  <1>3. priority_q \in Heaps /\ new_job = [p \in Producers |-> NoJob]
    BY DEF Init, Heaps
  <1> QED
    BY <1>1, <1>2, <1>3 DEF JobInv, QueueInv, HandInv, Distinct, Ordered

\* What does not move a job keeps their invariant.
LEMMA CalmKeepsJobs ==
  ASSUME JobInv, UNCHANGED <<priority_q, job_created, curr_size, new_job>>, Making' = Making
  PROVE  JobInv'
  BY DEF JobInv, QueueInv, HandInv, Heaps, Distinct, Ordered, Above

\* In every reachable state the queue is a max-heap of distinct jobs, none of which a producer
\* still has in hand, whatever the threads do and wherever they are cancelled.
THEOREM JobsInvariant == Spec => [](IInv /\ JobInv)
  <1>1. Init => JobInv
    BY JobInit
  <1>2. IInv /\ JobInv /\ [Next]_vars => JobInv'
    BY MovesOrNot, CreatesJob, InsertsJob, RemovesJob, CalmKeepsJobs
  <1> QED
    BY <1>1, <1>2, Invariant, PTL DEF Spec

\* The thread version implements JobPool, the cancellations included: no job is lost or handed
\* out twice, no producer makes or posts one without room, and a consumer takes one of the
\* highest priority.
THEOREM Implements == Spec => ImplementsPool
  <1>1. Init => Pool!Init
    <2> SUFFICES ASSUME Init PROVE Pool!Init
      OBVIOUS
    <2>1. Queued = {}
      BY DEF Init, Queued
    <2>2. poolHeld = [p \in Producers |-> {}]
      BY DEF Init, poolHeld
    <2> QED
      BY <2>1, <2>2 DEF Init, Pool!Init, Queued, poolHeld
  <1>2. IInv /\ JobInv /\ [Next]_vars => [Pool!Next]_Pool!vars
    <2> SUFFICES ASSUME IInv, JobInv, [Next]_vars PROVE [Pool!Next]_Pool!vars
      OBVIOUS
    <2>1. CASE UNCHANGED <<priority_q, job_created, curr_size, new_job, taken>>
      BY <2>1 DEF Pool!vars
    <2> QED
      BY <2>1, MovesOrNot, CreatesJob, InsertsJob, RemovesJob DEF Pool!Next
  <1> QED
    BY <1>1, <1>2, JobsInvariant, PTL DEF Spec, ImplementsPool, Pool!Spec
===============================================================================
