--------------------------- MODULE SchedulerProofs ---------------------------
(***************************************************************************)
(* Proofs about Scheduler, for any number of threads, any priorities, nice *)
(* values, time slice, frequencies and precision.  The invariant adds to   *)
(* the properties what is known of a thread that is being made: nobody but *)
(* its maker can put it on the ready list.                                 *)
(***************************************************************************)
EXTENDS Scheduler, FiniteSetTheorems, TLAPS

(***************************************************************************)
(* The inductive invariant.                                                *)
(***************************************************************************)

\* A thread that is being made is blocked, and has one maker.
Pending ==
  /\ \A t \in All : pc[t] = "created" =>
       made[t] \in Threads /\ status[made[t]] = "blocked" /\ pc[made[t]] = "new"
  /\ \A t, u \in All : pc[t] = "created" /\ pc[u] = "created" /\ made[t] = made[u] => t = u
  /\ \A t \in All : pc[t] = "new" => status[t] = "blocked"

\* A page without a thread is nowhere in a call; idle calls nothing and does not end.
Outside ==
  /\ \A t \in All : status[t] \in {"dying", "free"} => pc[t] = "run"
  /\ pc[Idle] = "run" /\ status[Idle] \notin {"dying", "free"}

IInv == TypeOK /\ ListsExact /\ Pending /\ Outside /\ PrioritySorted /\ LoadBounded

(***************************************************************************)
(* Insertion and removal in a list without duplicates.                     *)
(***************************************************************************)

\* s lists the members of R, each once.
Exact(s, R) ==
  /\ {s[i] : i \in 1..Len(s)} = R
  /\ \A i, j \in 1..Len(s) : s[i] = s[j] => i = j

SortedBy(s, level) == \A i, j \in 1..Len(s) : i < j => level[s[i]] >= level[s[j]]

\* What Insert returns.
LEMMA InsertType ==
  ASSUME ready_list \in Seq(Threads), NEW t \in Threads, NEW k \in 1..(Len(ready_list) + 1)
  PROVE  /\ Insert(k, t) \in Seq(Threads)
         /\ Len(Insert(k, t)) = Len(ready_list) + 1
         /\ \A i \in 1..(Len(ready_list) + 1) :
              Insert(k, t)[i] = IF i < k THEN ready_list[i] ELSE IF i = k THEN t ELSE ready_list[i - 1]
  <1> DEFINE n == Len(ready_list)
  <1>1. n \in Nat /\ \A i \in 1..n : ready_list[i] \in Threads
    OBVIOUS
  <1>2. \A i \in 1..(n + 1) : Insert(k, t)[i] \in Threads
    BY <1>1 DEF Insert
  <1>3. Insert(k, t) \in [1..(n + 1) -> Threads]
    BY <1>2 DEF Insert
  <1> QED
    BY <1>1, <1>3 DEF Insert

\* Insertion adds one member.
LEMMA InsertExact ==
  ASSUME ready_list \in Seq(Threads), NEW t \in Threads, NEW k \in 1..(Len(ready_list) + 1),
         NEW R, Exact(ready_list, R), t \notin R
  PROVE  Exact(Insert(k, t), R \cup {t})
  <1> DEFINE n == Len(ready_list)
             s == Insert(k, t)
  <1>1. /\ n \in Nat /\ Len(s) = n + 1
        /\ \A i \in 1..(n + 1) : s[i] = IF i < k THEN ready_list[i] ELSE IF i = k THEN t ELSE ready_list[i - 1]
    BY InsertType
  <1> HIDE DEF s
  <1>2. \A i \in 1..n : ready_list[i] \in R /\ ready_list[i] # t
    BY DEF Exact
  <1>3. \A i \in 1..(n + 1) : s[i] \in R \cup {t}
    BY <1>1, <1>2
  <1>4. \A x \in R : \E i \in 1..(n + 1) : s[i] = x
    <2> TAKE x \in R
    <2>1. PICK i \in 1..n : ready_list[i] = x
      BY DEF Exact
    <2>2. CASE i < k
      BY <1>1, <2>1, <2>2
    <2>3. CASE ~(i < k)
      <3>1. i + 1 \in 1..(n + 1) /\ ~(i + 1 < k) /\ i + 1 # k /\ (i + 1) - 1 = i
        BY <1>1, <2>3
      <3>2. s[i + 1] = ready_list[(i + 1) - 1]
        BY <1>1, <3>1
      <3> QED
        BY <2>1, <3>1, <3>2
    <2> QED
      BY <2>2, <2>3
  <1>5. s[k] = t
    BY <1>1
  <1>6. ASSUME NEW i \in 1..(n + 1), NEW j \in 1..(n + 1), s[i] = s[j]
        PROVE  i = j
    <2>1. \A a, b \in 1..n : ready_list[a] = ready_list[b] => a = b
      BY DEF Exact
    <2> DEFINE at(x) == IF x < k THEN x ELSE x - 1
    <2>2. \A x \in 1..(n + 1) : x # k => at(x) \in 1..n /\ s[x] = ready_list[at(x)]
      BY <1>1
    <2>3. (i = k) <=> (j = k)
      BY <1>2, <1>5, <1>6, <2>2
    <2>4. CASE i # k
      <3>1. at(i) = at(j)
        BY <1>6, <2>1, <2>2, <2>3, <2>4
      <3> QED
        BY <1>1, <2>3, <2>4, <3>1
    <2> QED
      BY <2>3, <2>4
  <1>7. {s[i] : i \in 1..Len(s)} = R \cup {t}
    BY <1>1, <1>3, <1>4, <1>5
  <1> QED
    BY <1>1, <1>6, <1>7 DEF Exact, s

\* Removal of the head.
LEMMA TailExact ==
  ASSUME NEW s \in Seq(Threads), NEW R, Exact(s, R), s # <<>>
  PROVE  /\ Tail(s) \in Seq(Threads) /\ Head(s) \in R
         /\ Exact(Tail(s), R \ {Head(s)})
  <1>1. /\ Len(s) \in Nat \ {0} /\ Len(Tail(s)) = Len(s) - 1 /\ Head(s) = s[1]
        /\ Tail(s) \in Seq(Threads)
        /\ \A i \in 1..(Len(s) - 1) : Tail(s)[i] = s[i + 1]
    OBVIOUS
  <1>2. \A i, j \in 1..Len(s) : s[i] = s[j] => i = j
    BY DEF Exact
  <1>3. \A i \in 1..Len(s) : s[i] \in R
    BY DEF Exact
  <1>4. \A i \in 1..(Len(s) - 1) : Tail(s)[i] \in R \ {Head(s)}
    BY <1>1, <1>2, <1>3
  <1>5. \A x \in R \ {Head(s)} : \E i \in 1..(Len(s) - 1) : Tail(s)[i] = x
    <2> TAKE x \in R \ {Head(s)}
    <2>1. PICK i \in 1..Len(s) : s[i] = x
      BY DEF Exact
    <2>2. i - 1 \in 1..(Len(s) - 1)
      BY <1>1, <2>1
    <2> QED
      BY <1>1, <2>1, <2>2
  <1>6. \A i, j \in 1..(Len(s) - 1) : Tail(s)[i] = Tail(s)[j] => i = j
    BY <1>1, <1>2
  <1> QED
    BY <1>1, <1>3, <1>4, <1>5, <1>6 DEF Exact

\* The place of thread_cmp_priority keeps a list sorted.
LEMMA InsertSorted ==
  ASSUME ready_list \in Seq(Threads), NEW t \in Threads, NEW k \in 1..(Len(ready_list) + 1),
         NEW level, \A u \in Threads : level[u] \in Int,
         SortedBy(ready_list, level), Place(k, t, level)
  PROVE  SortedBy(Insert(k, t), level)
  <1> DEFINE n == Len(ready_list)
             s == Insert(k, t)
  <1>1. /\ n \in Nat /\ Len(s) = n + 1
        /\ \A i \in 1..(n + 1) : s[i] = IF i < k THEN ready_list[i] ELSE IF i = k THEN t ELSE ready_list[i - 1]
    BY InsertType
  <1> HIDE DEF s
  <1>2. \A i \in 1..n : level[ready_list[i]] \in Int
    OBVIOUS
  <1>3. \A i, j \in 1..n : i < j => level[ready_list[i]] >= level[ready_list[j]]
    BY DEF SortedBy
  <1>4. \A i \in 1..n : i < k => level[t] <= level[ready_list[i]]
    BY DEF Place
  <1>5. \A i \in 1..n : i >= k => level[ready_list[i]] < level[t]
    BY <1>2, <1>3, k \in 1..n => level[ready_list[k]] < level[t] DEF Place
  <1>6. ASSUME NEW i \in 1..(n + 1), NEW j \in 1..(n + 1), i < j
        PROVE  level[s[i]] >= level[s[j]]
    <2>1. CASE j < k
      BY <1>1, <1>3, <1>6, <2>1
    <2>2. CASE j = k
      BY <1>1, <1>2, <1>4, <1>6, <2>2
    <2>3. CASE j > k /\ i < k
      <3>1. s[i] = ready_list[i] /\ s[j] = ready_list[j - 1] /\ i \in 1..n /\ j - 1 \in 1..n
        BY <1>1, <2>3
      <3>2. level[ready_list[j - 1]] < level[t] /\ level[t] <= level[ready_list[i]]
        BY <1>4, <1>5, <2>3, <3>1
      <3> QED
        BY <1>2, <3>1, <3>2
    <2>4. CASE j > k /\ i = k
      <3>1. s[i] = t /\ s[j] = ready_list[j - 1] /\ j - 1 \in 1..n
        BY <1>1, <2>4
      <3>2. level[ready_list[j - 1]] < level[t]
        BY <1>5, <2>4, <3>1
      <3> QED
        BY <1>2, <3>1, <3>2
    <2>5. CASE j > k /\ i > k
      <3>1. s[i] = ready_list[i - 1] /\ s[j] = ready_list[j - 1] /\ i - 1 \in 1..n /\ j - 1 \in 1..n
        BY <1>1, <2>5, <1>6
      <3> QED
        BY <1>3, <1>6, <3>1
    <2> QED
      BY <2>1, <2>2, <2>3, <2>4, <2>5, <1>6
  <1> QED
    BY <1>1, <1>6 DEF SortedBy, s

LEMMA TailSorted ==
  ASSUME NEW s \in Seq(Threads), NEW level, SortedBy(s, level), s # <<>>
  PROVE  SortedBy(Tail(s), level)
  <1>1. /\ Len(s) \in Nat \ {0} /\ Len(Tail(s)) = Len(s) - 1
        /\ \A i \in 1..(Len(s) - 1) : Tail(s)[i] = s[i + 1]
    OBVIOUS
  <1> QED
    BY <1>1 DEF SortedBy

(***************************************************************************)
(* What a switch does to the states of the threads.                        *)
(***************************************************************************)

Statuses == {"running", "ready", "blocked", "dying", "free"}

\* The thread that ran has become s, and the one that runs was ready, or is idle.
Switched(s) ==
  /\ current' \in All /\ status' \in [All -> Statuses]
  /\ status'[current'] = "running"
  /\ \A t \in All : t # current' => status'[t] = IF t = current THEN s ELSE status[t]
  /\ current' \in {current, Idle} \/ status[current'] = "ready"
  /\ current' = current => s = "ready" \/ current = Idle
  /\ thread_ticks' = 0
  /\ ready_list' \in Seq(Threads)
  /\ Exact(ready_list', {t \in Threads : status'[t] = "ready"})

LEMMA ListsAsExact ==
  ListsExact <=> /\ {t \in All : status[t] = "running"} = {current}
                 /\ Exact(ready_list, {t \in Threads : status[t] = "ready"})
                 /\ all_list = {t \in All : status[t] \notin {"dying", "free"}}
  BY DEF ListsExact, Exact, OnList

\* schedule, when list holds the threads that are ready once the running thread is s.
LEMMA ScheduleSwitches ==
  ASSUME TypeOK, ListsExact, NEW s \in Statuses \ {"running"}, NEW list \in Seq(Threads),
         Exact(list, {t \in Threads : IF t = current THEN s = "ready" ELSE status[t] = "ready"}),
         Schedule(list, s)
  PROVE  Switched(s)
  <1> USE SchedulerAssumption
  <1> DEFINE R == {t \in Threads : IF t = current THEN s = "ready" ELSE status[t] = "ready"}
             next == Next_thread_to_run(list)
  <1>1. /\ current \in All /\ status \in [All -> Statuses]
        /\ \A t \in All : status[t] = "running" <=> t = current
    BY ListsAsExact DEF TypeOK, Statuses, All
  <1>2. /\ current' = next /\ thread_ticks' = 0
        /\ ready_list' = IF list = <<>> THEN <<>> ELSE Tail(list)
        /\ status' = [status EXCEPT ![current] = s, ![next] = "running"]
    BY DEF Schedule
  <1>3. /\ next = Idle \/ next \in R
        /\ ready_list' \in Seq(Threads)
        /\ Exact(ready_list', R \ {next})
    <2>1. CASE list = <<>>
      <3>1. R = {}
        BY <2>1 DEF Exact
      <3>2. Exact(<<>>, {}) /\ <<>> \in Seq(Threads)
        BY DEF Exact
      <3> QED
        BY <1>2, <2>1, <3>1, <3>2 DEF Next_thread_to_run
    <2>2. CASE list # <<>>
      BY <1>2, <2>2, TailExact DEF Next_thread_to_run
    <2> QED
      BY <2>1, <2>2
  <1>4. next \in All
    BY <1>3 DEF All
  <1> HIDE DEF next
  <1>5. /\ status' \in [All -> Statuses]
        /\ status'[next] = "running"
        /\ \A t \in All : t # next => status'[t] = IF t = current THEN s ELSE status[t]
    BY <1>1, <1>2, <1>4 DEF Statuses
  <1>6. R \ {next} = {t \in Threads : status'[t] = "ready"}
    BY <1>4, <1>5 DEF All
  <1>7. /\ next \in {current, Idle} \/ status[next] = "ready"
        /\ next = current => s = "ready" \/ current = Idle
    BY <1>3
  <1> QED
    BY <1>2, <1>3, <1>4, <1>5, <1>6, <1>7 DEF Switched

\* thread_yield.
LEMMA YieldSwitches ==
  ASSUME TypeOK, ListsExact, NEW level, Yield(level)
  PROVE  Switched("ready")
  <1> USE SchedulerAssumption
  <1> DEFINE R == {t \in Threads : status[t] = "ready"}
  <1>1. /\ ready_list \in Seq(Threads) /\ current \in All
        /\ Exact(ready_list, R) /\ status[current] = "running"
    BY ListsAsExact DEF TypeOK
  <1>2. CASE current = Idle /\ Schedule(ready_list, "ready")
    <2>1. R = {t \in Threads : IF t = current THEN "ready" = "ready" ELSE status[t] = "ready"}
      BY <1>2
    <2> QED
      BY <1>1, <1>2, <2>1, ScheduleSwitches DEF Statuses
  <1>3. ASSUME current # Idle, NEW k \in 1..(Len(ready_list) + 1), Schedule(Insert(k, current), "ready")
        PROVE  Switched("ready")
    <2>1. current \in Threads
      BY <1>1, <1>3 DEF All
    <2>2. Exact(Insert(k, current), R \cup {current}) /\ Insert(k, current) \in Seq(Threads)
      BY <1>1, <2>1, InsertExact, InsertType
    <2>3. R \cup {current} = {t \in Threads : IF t = current THEN "ready" = "ready" ELSE status[t] = "ready"}
      BY <2>1
    <2> QED
      BY <1>3, <2>2, <2>3, ScheduleSwitches DEF Statuses
  <1> QED
    BY <1>2, <1>3 DEF Yield

\* thread_block and thread_exit.
LEMMA LeaveSwitches ==
  ASSUME TypeOK, ListsExact, NEW s \in {"blocked", "dying", "free"}, Schedule(ready_list, s)
  PROVE  Switched(s)
  <1> DEFINE R == {t \in Threads : status[t] = "ready"}
  <1>1. ready_list \in Seq(Threads) /\ Exact(ready_list, R) /\ status[current] = "running"
    BY ListsAsExact DEF TypeOK
  <1>2. R = {t \in Threads : IF t = current THEN s = "ready" ELSE status[t] = "ready"}
    BY <1>1
  <1> QED
    BY <1>1, <1>2, ScheduleSwitches DEF Statuses

\* thread_unblock of a blocked thread.
LEMMA UnblockAdds ==
  ASSUME TypeOK, ListsExact, NEW t \in Threads, status[t] = "blocked", Unblocks(t)
  PROVE  /\ ready_list' \in Seq(Threads)
         /\ status' = [status EXCEPT ![t] = "ready"]
         /\ Exact(ready_list', {u \in Threads : status'[u] = "ready"})
         /\ UNCHANGED <<current, thread_ticks>>
  <1> USE SchedulerAssumption
  <1> DEFINE R == {u \in Threads : status[u] = "ready"}
  <1>1. ready_list \in Seq(Threads) /\ Exact(ready_list, R) /\ status \in [All -> Statuses]
    BY ListsAsExact DEF TypeOK, Statuses
  <1>2. PICK k \in 1..(Len(ready_list) + 1) : ready_list' = Insert(k, t)
    BY DEF Unblocks
  <1>3. Exact(ready_list', R \cup {t}) /\ ready_list' \in Seq(Threads)
    BY <1>1, <1>2, InsertExact, InsertType
  <1>4. status' = [status EXCEPT ![t] = "ready"]
    BY DEF Unblocks
  <1>5. R \cup {t} = {u \in Threads : status'[u] = "ready"}
    BY <1>1, <1>4 DEF All
  <1> QED
    BY <1>3, <1>4, <1>5 DEF Unblocks

Dead == {"dying", "free"}

\* A switch keeps the lists and the threads that are being made.
LEMMA SwitchKeeps ==
  ASSUME TypeOK, ListsExact, Pending, Outside, NEW s \in Statuses \ {"running"}, Switched(s),
         s \in Dead => current # Idle /\ pc[current] = "run",
         all_list' = IF s \in Dead THEN all_list \ {current} ELSE all_list,
         pc' = pc \/ pc' = [pc EXCEPT ![current] = "run"],
         made' = made
  PROVE  ListsExact' /\ Pending' /\ Outside'
  <1> USE SchedulerAssumption
  <1>1. /\ current \in All /\ status \in [All -> Statuses] /\ pc = [t \in All |-> pc[t]]
        /\ \A t \in All : status[t] = "running" <=> t = current
        /\ all_list = {t \in All : status[t] \notin Dead}
    <2>1. current \in All /\ status \in [All -> Statuses] /\ pc = [t \in All |-> pc[t]]
      BY DEF TypeOK, Statuses
    <2>2. /\ {t \in All : status[t] = "running"} = {current}
          /\ all_list = {t \in All : status[t] \notin Dead}
      BY DEF ListsExact, Dead
    <2> QED
      BY <2>1, <2>2
  <1>2. /\ current' \in All /\ status' \in [All -> Statuses]
        /\ status'[current'] = "running"
        /\ \A t \in All : t # current' => status'[t] = IF t = current THEN s ELSE status[t]
        /\ current' \in {current, Idle} \/ status[current'] = "ready"
    BY DEF Switched
  <1>3. Idle \in All
    BY DEF All
  <1>4. status[current'] \notin Dead
    BY <1>1, <1>2, <1>3 DEF Dead, Outside
  <1>5. \A t \in All : t # current' => (status'[t] \in Dead <=> status[t] \in Dead \/ (t = current /\ s \in Dead))
    <2>1. status[current] \notin Dead
      BY <1>1 DEF Dead
    <2> SUFFICES ASSUME NEW t \in All, t # current'
                 PROVE  status'[t] \in Dead <=> status[t] \in Dead \/ (t = current /\ s \in Dead)
      OBVIOUS
    <2>2. status'[t] = IF t = current THEN s ELSE status[t]
      BY <1>2
    <2>3. CASE t = current
      BY <2>1, <2>2, <2>3
    <2>4. CASE t # current
      BY <2>1, <2>2, <2>4
    <2> QED
      BY <2>3, <2>4
  <1>6. ListsExact'
    <2>1. {t \in All : status'[t] = "running"} = {current'}
      BY <1>1, <1>2
    <2>2. all_list' = {t \in All : status'[t] \notin Dead}
      <3>1. status'[current'] \notin Dead /\ (s \in Dead => current' # current)
        BY <1>2 DEF Switched, Dead
      <3> QED
        BY <1>1, <1>2, <1>4, <1>5, <3>1
    <2>3. Exact(ready_list', {t \in Threads : status'[t] = "ready"})
      BY DEF Switched
    <2> QED
      BY <2>1, <2>2, <2>3 DEF ListsExact, Exact, OnList, Dead
  <1>7. \A t \in All : (pc'[t] = "new" <=> pc[t] = "new") /\ (pc'[t] = "created" => pc[t] = "created")
    <2>1. pc[current] # "new"
      BY <1>1 DEF Pending
    <2> QED
      BY <1>1, <2>1
  <1>8. \A t \in All : pc[t] = "new" => status'[t] = "blocked"
    <2> SUFFICES ASSUME NEW t \in All, pc[t] = "new" PROVE status'[t] = "blocked"
      OBVIOUS
    <2>1. status[t] = "blocked" /\ t # Idle
      BY DEF Pending, Outside
    <2> QED
      BY <1>1, <1>2, <2>1
  <1>9. Pending'
    <2>1. \A t \in All : pc'[t] = "created" =>
            made'[t] \in Threads /\ status'[made'[t]] = "blocked" /\ pc'[made'[t]] = "new"
      BY <1>7, <1>8 DEF Pending, All
    <2>2. \A t, u \in All : pc'[t] = "created" /\ pc'[u] = "created" /\ made'[t] = made'[u] => t = u
      BY <1>7 DEF Pending
    <2>3. \A t \in All : pc'[t] = "new" => status'[t] = "blocked"
      BY <1>7, <1>8
    <2> QED
      BY <2>1, <2>2, <2>3 DEF Pending
  <1>10. Outside'
    <2>1. \A t \in All : pc[t] = "run" => pc'[t] = "run"
      BY <1>1
    <2>2. \A t \in All : status'[t] \in Dead => pc'[t] = "run"
      BY <1>1, <1>2, <1>5, <2>1 DEF Outside, Dead
    <2>3. pc'[Idle] = "run" /\ status'[Idle] \notin Dead
      BY <1>2, <1>3, <1>5, <2>1 DEF Outside, Dead
    <2> QED
      BY <2>2, <2>3 DEF Outside, Dead
  <1> QED
    BY <1>6, <1>9, <1>10

(***************************************************************************)
(* The fixed-point numbers.                                                *)
(***************************************************************************)

\* What \div returns for a positive divisor.
LEMMA Division ==
  ASSUME NEW a \in Int, NEW d \in Nat \ {0}
  PROVE  /\ a \div d \in Int
         /\ a \in Nat => a \div d \in Nat /\ d * (a \div d) <= a
  OBVIOUS

\* Every computed priority is a number, and after the tests it is in range.
LEMMA LevelType ==
  ASSUME NEW rc \in Int, NEW n \in Int
  PROVE  Level(rc, n) \in Int /\ Clamp(Level(rc, n)) \in 0..PRI_MAX
  <1> USE SchedulerAssumption
  <1>1. One \in Nat \ {0} /\ PRI_MAX \in Nat
    OBVIOUS
  <1>2. Quotient(rc, 4) \in Int
    BY DEF Quotient
  <1>3. PRI_MAX * One \in Int /\ 2 * n * One \in Int
    BY <1>1
  <1>4. Level(rc, n) \in Int
    BY <1>1, <1>2, <1>3, Division DEF Level
  <1> HIDE DEF Level
  <1> QED
    BY <1>1, <1>4 DEF Clamp

LEMMA DecayedType ==
  ASSUME NEW load \in Nat, NEW rc \in Int, NEW n \in Int
  PROVE  Decayed(load, rc, n) \in Int
  <1>1. One \in Nat \ {0}
    BY SchedulerAssumption
  <1>2. 2 * load * One \in Nat /\ 2 * load + One \in Nat \ {0}
    BY <1>1
  <1>3. PICK c \in Int : c = (2 * load * One) \div (2 * load + One)
    BY <1>2, Division
  <1>4. c * rc \in Int /\ n * One \in Int
    BY <1>1
  <1>5. (c * rc) \div One \in Int
    BY <1>1, <1>4, Division
  <1> QED
    BY <1>3, <1>4, <1>5 DEF Decayed

\* load_avg stays at most the number of threads.
LEMMA LoadStays ==
  ASSUME NEW N \in Nat, NEW load \in Nat, load <= One * N, NEW cnt \in Nat, cnt <= N
  PROVE  Load(load, cnt) \in Nat /\ Load(load, cnt) <= One * N
  <1>1. One \in Nat \ {0} /\ LoadSpan \in Nat \ {0}
    BY SchedulerAssumption
  <1> DEFINE M == One * N
             x == (load * (LoadSpan - 1)) \div LoadSpan
             y == (cnt * One) \div LoadSpan
  <1>2. M \in Nat /\ load * (LoadSpan - 1) \in Nat /\ cnt * One \in Nat
    BY <1>1
  <1>3. /\ x \in Nat /\ LoadSpan * x <= load * (LoadSpan - 1)
        /\ y \in Nat /\ LoadSpan * y <= cnt * One
    <2>1. x \in Nat /\ LoadSpan * x <= load * (LoadSpan - 1)
      BY <1>1, <1>2, Division
    <2> HIDE DEF x
    <2>2. y \in Nat /\ LoadSpan * y <= cnt * One
      BY <1>1, <1>2, Division
    <2> QED
      BY <2>1, <2>2
  <1>4. load * (LoadSpan - 1) <= M * (LoadSpan - 1) /\ cnt * One <= M
    BY <1>1, <1>2
  <1> HIDE DEF x, y, M
  <1>5. LoadSpan * (x + y) <= LoadSpan * M
    <2>1. LoadSpan * (x + y) = LoadSpan * x + LoadSpan * y /\ M * (LoadSpan - 1) = LoadSpan * M - M
      BY <1>1, <1>2, <1>3
    <2>2. LoadSpan * x \in Int /\ LoadSpan * y \in Int /\ LoadSpan * M \in Int /\ cnt * One \in Int
          /\ load * (LoadSpan - 1) \in Int
      BY <1>1, <1>2, <1>3
    <2> QED
      BY <1>2, <1>3, <1>4, <2>1, <2>2
  <1>6. x + y <= M
    BY <1>1, <1>2, <1>3, <1>5
  <1> QED
    BY <1>3, <1>6 DEF Load, x, y, M

\* A list without duplicates is as long as its set is large, and idle is not counted.
LEMMA ReadyCount ==
  ASSUME TypeOK, ListsExact
  PROVE  Ready_cnt \in Nat /\ Ready_cnt <= Cardinality(Threads) /\ Cardinality(Threads) \in Nat
  <1> USE SchedulerAssumption
  <1> DEFINE n == Len(ready_list)
             R == {t \in Threads : status[t] = "ready"}
  <1>1. ready_list \in Seq(Threads) /\ n \in Nat /\ Exact(ready_list, R) /\ status[current] = "running"
        /\ current \in All
    BY ListsAsExact DEF TypeOK
  <1>2. IsFiniteSet(R) /\ Cardinality(R) = n
    <2> DEFINE f == [i \in 1..n |-> ready_list[i]]
    <2>1. f \in Bijection(1..n, R)
      <3>1. f \in [1..n -> R] /\ \A x \in R : \E i \in 1..n : f[i] = x
        BY <1>1 DEF Exact
      <3>2. \A i, j \in 1..n : f[i] = f[j] => i = j
        BY <1>1 DEF Exact
      <3> QED
        BY <3>1, <3>2 DEF Bijection, Injection, Surjection, IsInjective
    <2>2. ExistsBijection(1..n, R)
      BY <2>1 DEF ExistsBijection
    <2> QED
      BY <1>1, <2>2, FS_CountingElements, FS_Subset, R \subseteq Threads
  <1>3. Cardinality(Threads) \in Nat
    BY FS_CardinalityType
  <1>4. CASE current = Idle
    BY <1>1, <1>2, <1>3, <1>4, FS_Subset, R \subseteq Threads DEF Ready_cnt
  <1>5. CASE current # Idle
    <2>1. current \in Threads /\ current \notin R
      BY <1>1, <1>5 DEF All
    <2>2. Cardinality(R \cup {current}) = n + 1
      BY <1>2, <2>1, FS_AddElement
    <2>3. Cardinality(R \cup {current}) <= Cardinality(Threads)
      BY <2>1, FS_Subset, R \cup {current} \subseteq Threads
    <2> QED
      BY <1>1, <1>3, <1>5, <2>2, <2>3 DEF Ready_cnt
  <1> QED
    BY <1>4, <1>5

(***************************************************************************)
(* The order of the ready list.                                            *)
(***************************************************************************)

LEMMA SortedIsSortedBy == Sorted <=> SortedBy(ready_list, priority)
  BY DEF Sorted, SortedBy

\* Only the levels of the members matter.
LEMMA SortedAlike ==
  ASSUME NEW s, NEW R, Exact(s, R), NEW a, NEW b, \A x \in R : a[x] = b[x], SortedBy(s, a)
  PROVE  SortedBy(s, b)
  BY DEF SortedBy, Exact

\* A switch that pops the head keeps the order, and so does a yield.
LEMMA LeaveSorted ==
  ASSUME NEW list \in Seq(Threads), NEW level, SortedBy(list, level), NEW s, Schedule(list, s)
  PROVE  SortedBy(ready_list', level)
  <1>1. CASE list = <<>>
    BY <1>1 DEF Schedule, SortedBy
  <1>2. CASE list # <<>>
    BY <1>2, TailSorted DEF Schedule
  <1> QED
    BY <1>1, <1>2

LEMMA YieldSorted ==
  ASSUME TypeOK, NEW level, \A u \in Threads : level[u] \in Int,
         SortedBy(ready_list, level), Yield(level)
  PROVE  SortedBy(ready_list', level)
  <1>1. ready_list \in Seq(Threads) /\ current \in All
    BY DEF TypeOK
  <1>2. CASE current = Idle /\ Schedule(ready_list, "ready")
    BY <1>1, <1>2, LeaveSorted
  <1>3. ASSUME current # Idle, NEW k \in 1..(Len(ready_list) + 1), Place(k, current, level),
               Schedule(Insert(k, current), "ready")
        PROVE  SortedBy(ready_list', level)
    <2>1. current \in Threads
      BY <1>1, <1>3 DEF All
    <2>2. SortedBy(Insert(k, current), level) /\ Insert(k, current) \in Seq(Threads)
      BY <1>1, <1>3, <2>1, InsertSorted, InsertType
    <2> QED
      BY <1>3, <2>2, LeaveSorted
  <1> QED
    BY <1>2, <1>3 DEF Yield

LEMMA UnblockSorted ==
  ASSUME TypeOK, NEW t \in Threads, SortedBy(ready_list, priority), Unblocks(t)
  PROVE  SortedBy(ready_list', priority)
  <1>1. ready_list \in Seq(Threads) /\ \A u \in Threads : priority[u] \in Int
    BY DEF TypeOK, All
  <1>2. PICK k \in 1..(Len(ready_list) + 1) : Place(k, t, priority) /\ ready_list' = Insert(k, t)
    BY DEF Unblocks
  <1> QED
    BY <1>1, <1>2, InsertSorted

(***************************************************************************)
(* The numbers of a tick.                                                  *)
(***************************************************************************)

\* What the part of the handler for -o mlfqs leaves.
LEMMA AccountKeeps ==
  ASSUME TypeOK, ListsExact, LoadBounded, NEW now, Account(now)
  PROVE  /\ recent_cpu' \in [All -> Int] /\ priority' \in [All -> Int]
         /\ \A t \in All : pc[t] # "stored" => priority'[t] \in 0..PRI_MAX
         /\ load_avg' \in Nat /\ load_avg' <= One * Cardinality(Threads)
         /\ ~thread_mlfqs => priority' = priority
  <1> USE SchedulerAssumption
  <1> DEFINE N == Cardinality(Threads)
  <1>1. /\ priority \in [All -> Int] /\ nice \in [All -> Int] /\ recent_cpu \in [All -> Int]
        /\ \A t \in All : pc[t] # "stored" => priority[t] \in 0..PRI_MAX
        /\ load_avg \in Nat /\ load_avg <= One * N
    BY DEF TypeOK, LoadBounded
  <1>2. Charged \in [All -> Int]
    BY <1>1 DEF Charged
  <1>3. \A rc \in Int, n \in Int : Clamp(Level(rc, n)) \in 0..PRI_MAX
    BY LevelType
  <1>4. 0..PRI_MAX \subseteq Int
    OBVIOUS
  <1> HIDE DEF N
  <1>5. CASE UNCHANGED <<recent_cpu, priority, load_avg>>
    BY <1>1, <1>5 DEF N
  <1>6. CASE thread_mlfqs /\ UpdateAll
    <2> DEFINE ld == Load(load_avg, Ready_cnt)
               rc == [t \in All |-> IF t \in all_list \ {Idle} THEN Decayed(ld, Charged[t], nice[t])
                                                               ELSE Charged[t]]
    <2>1. ld \in Nat /\ ld <= One * N
      BY <1>1, LoadStays, ReadyCount DEF N
    <2> HIDE DEF ld
    <2>2. \A x \in Int, n \in Int : Decayed(ld, x, n) \in Int
      BY <2>1, DecayedType
    <2>3. rc \in [All -> Int]
      BY <1>1, <1>2, <2>2
    <2>4. /\ load_avg' = ld /\ recent_cpu' = rc
          /\ priority' = [t \in All |-> IF t \in all_list \ {Idle} THEN Clamp(Level(rc[t], nice[t]))
                                                                   ELSE priority[t]]
      BY <1>6 DEF UpdateAll, ld
    <2> HIDE DEF rc
    <2> QED
      BY <1>1, <1>3, <1>4, <1>6, <2>1, <2>3, <2>4 DEF N
  <1>7. CASE thread_mlfqs /\ UpdateCurrent
    BY <1>1, <1>2, <1>3, <1>4, <1>7 DEF UpdateCurrent, N
  <1>8. CASE thread_mlfqs /\ recent_cpu' = Charged /\ UNCHANGED <<priority, load_avg>>
    BY <1>1, <1>2, <1>8 DEF N
  <1> QED
    BY <1>5, <1>6, <1>7, <1>8 DEF Account

(***************************************************************************)
(* Every step keeps the invariant.                                         *)
(***************************************************************************)

Labels == {"run", "new", "created", "unblocked", "nice", "computed", "stored", "clamped"}

\* What a step that switches has to keep beside the lists.
LEMMA SwitchInv ==
  ASSUME IInv, NEW s \in Statuses \ {"running"}, Switched(s),
         s \in Dead => current # Idle /\ pc[current] = "run",
         all_list' = IF s \in Dead THEN all_list \ {current} ELSE all_list,
         pc' = pc \/ pc' = [pc EXCEPT ![current] = "run"],
         made' = made, thread_mlfqs' = thread_mlfqs, ticks' \in 0..MaxTicks,
         nice' \in [All -> Int], recent_cpu' \in [All -> Int], value' \in [All -> Int],
         priority' \in [All -> Int], \A t \in All : pc'[t] # "stored" => priority'[t] \in 0..PRI_MAX,
         load_avg' \in Nat, load_avg' <= One * Cardinality(Threads),
         ~thread_mlfqs => SortedBy(ready_list', priority')
  PROVE  IInv'
  <1> USE SchedulerAssumption
  <1>1. TypeOK /\ ListsExact /\ Pending /\ Outside
    BY DEF IInv
  <1>2. ListsExact' /\ Pending' /\ Outside'
    BY <1>1, SwitchKeeps
  <1>3. /\ thread_mlfqs \in BOOLEAN /\ all_list \subseteq All
        /\ pc \in [All -> Labels] /\ made \in [All -> Threads \cup {NULL}]
    BY <1>1 DEF TypeOK, Labels
  <1>4. pc' \in [All -> Labels] /\ all_list' \subseteq All
    BY <1>3 DEF Labels
  <1>5. thread_ticks' \in 0..(TIME_SLICE - 1)
    BY DEF Switched
  <1>6. TypeOK'
    BY <1>3, <1>4, <1>5 DEF TypeOK, Switched, Statuses, Labels
  <1>7. PrioritySorted' /\ LoadBounded'
    BY DEF PrioritySorted, Sorted, SortedBy, LoadBounded
  <1> QED
    BY <1>2, <1>6, <1>7 DEF IInv

\* What every step may use.
LEMMA Facts ==
  ASSUME IInv
  PROVE  /\ TypeOK /\ ListsExact /\ Pending /\ Outside /\ LoadBounded
         /\ thread_mlfqs \in BOOLEAN /\ current \in All /\ ticks \in 0..MaxTicks
         /\ status \in [All -> Statuses] /\ status[current] = "running"
         /\ ready_list \in Seq(Threads) /\ Exact(ready_list, {t \in Threads : status[t] = "ready"})
         /\ all_list = {t \in All : status[t] \notin Dead}
         /\ priority \in [All -> Int] /\ \A t \in All : pc[t] # "stored" => priority[t] \in 0..PRI_MAX
         /\ \A t \in Threads : priority[t] \in Int
         /\ nice \in [All -> Int] /\ recent_cpu \in [All -> Int] /\ value \in [All -> Int]
         /\ load_avg \in Nat /\ load_avg <= One * Cardinality(Threads)
         /\ pc \in [All -> Labels] /\ made \in [All -> Threads \cup {NULL}]
         /\ ~thread_mlfqs => SortedBy(ready_list, priority)
  BY ListsAsExact, SortedIsSortedBy
     DEF IInv, TypeOK, Statuses, Labels, Dead, LoadBounded, PrioritySorted, All

LEMMA InitInv == Init => IInv
  <1> SUFFICES ASSUME Init PROVE IInv
    OBVIOUS
  <1> USE SchedulerAssumption
  <1>1. Main \in All /\ Idle \in All /\ Main # Idle
    BY DEF All
  <1>2. TypeOK
    BY <1>1 DEF Init, TypeOK
  <1>3. ListsExact
    <2>1. OnList = {} /\ {t \in Threads : status[t] = "ready"} = {}
      BY DEF Init, OnList, All
    <2>2. {t \in All : status[t] = "running"} = {current}
      BY <1>1 DEF Init
    <2>3. all_list = {t \in All : status[t] \notin {"dying", "free"}}
      BY <1>1 DEF Init
    <2> QED
      <3>1. \A i, j \in 1..Len(ready_list) : ready_list[i] = ready_list[j] => i = j
        BY DEF Init
      <3> QED
        BY <2>1, <2>2, <2>3, <3>1 DEF ListsExact
  <1>4. Pending /\ Outside
    BY <1>1 DEF Init, Pending, Outside
  <1>5. Cardinality(Threads) \in Nat
    BY FS_CardinalityType
  <1>6. PrioritySorted /\ LoadBounded
    BY <1>5 DEF Init, PrioritySorted, Sorted, LoadBounded
  <1> QED
    BY <1>2, <1>3, <1>4, <1>6 DEF IInv

LEMMA ThreadYieldInv == ASSUME IInv, ThreadYield PROVE IInv'
  <1>1. Switched("ready")
    BY Facts, YieldSwitches DEF ThreadYield
  <1>2. ~thread_mlfqs => SortedBy(ready_list', priority')
    BY Facts, YieldSorted DEF ThreadYield, levels
  <1> QED
    BY <1>1, <1>2, Facts, SwitchInv DEF ThreadYield, levels, locals, Statuses, Dead

LEMMA BlockInv == ASSUME IInv, Block \/ IdleBlock PROVE IInv'
  <1>1. Schedule(ready_list, "blocked") /\ UNCHANGED <<thread_mlfqs, all_list, levels, ticks, pc, locals>>
    BY DEF Block, IdleBlock
  <1>2. Switched("blocked")
    BY <1>1, Facts, LeaveSwitches
  <1>3. ~thread_mlfqs => SortedBy(ready_list', priority')
    BY <1>1, Facts, LeaveSorted DEF levels
  <1> QED
    BY <1>1, <1>2, <1>3, Facts, SwitchInv DEF levels, locals, Statuses, Dead

LEMMA ExitInv == ASSUME IInv, Exit PROVE IInv'
  <1> USE SchedulerAssumption
  <1> DEFINE s == IF current = Main THEN "dying" ELSE "free"
             R == {t \in Threads : status'[t] = "ready"}
  <1>1. s \in Dead /\ Schedule(ready_list, s) /\ current # Idle /\ pc[current] = "run"
    BY DEF Exit, Dead, Runs
  <1> HIDE DEF s
  <1>2. Switched(s)
    BY <1>1, Facts, LeaveSwitches DEF Dead
  <1>3. ~thread_mlfqs => SortedBy(ready_list', priority)
    BY <1>1, Facts, LeaveSorted
  <1>4. /\ priority' = [priority EXCEPT ![current] = 0] /\ priority' \in [All -> Int]
        /\ nice' \in [All -> Int] /\ recent_cpu' \in [All -> Int]
        /\ \A t \in All : pc[t] # "stored" => priority'[t] \in 0..PRI_MAX
    BY Facts DEF Exit
  <1>5. ~thread_mlfqs => SortedBy(ready_list', priority')
    <2>1. Exact(ready_list', R) /\ current \notin R
      BY <1>1, <1>2, Facts DEF Switched, Dead
    <2>2. \A x \in R : priority[x] = priority'[x]
      BY <1>4, <2>1, Facts DEF All
    <2> HIDE DEF R
    <2> QED
      BY <1>3, <2>1, <2>2, SortedAlike
  <1> QED
    BY <1>1, <1>2, <1>4, <1>5, Facts, SwitchInv DEF Exit, locals, Statuses, Dead

\* thread_create up to init_thread.
LEMMA CreateInv == ASSUME IInv, NEW t \in Threads, NEW p \in Priorities, Create(t, p) PROVE IInv'
  <1> USE SchedulerAssumption
  <1> DEFINE R == {u \in Threads : status[u] = "ready"}
  <1>1. /\ current # Idle /\ pc[current] = "run" /\ status[t] = "free" /\ pc[t] = "run" /\ t # Idle
        /\ t # current /\ t \in All /\ current \in All /\ p \in 0..PRI_MAX
    BY Facts DEF Create, Runs, Outside, All
  <1>2. /\ status' = [status EXCEPT ![t] = "blocked"]
        /\ pc' = [pc EXCEPT ![current] = "created", ![t] = "new"]
        /\ made' = [made EXCEPT ![current] = t]
        /\ all_list' = all_list \cup {t}
        /\ priority' = [priority EXCEPT ![t] = p]
        /\ value' = [value EXCEPT ![current] = p]
        /\ UNCHANGED <<thread_mlfqs, current, ready_list, thread_ticks, nice, recent_cpu, load_avg, ticks>>
    BY DEF Create, Init_thread
  <1>3. TypeOK'
    <2>1. status' \in [All -> Statuses] /\ pc' \in [All -> Labels]
      BY <1>2, Facts DEF Statuses, Labels
    <2>2. made' \in [All -> Threads \cup {NULL}] /\ value' \in [All -> Int] /\ priority' \in [All -> Int]
      <3>1. /\ made \in [All -> Threads \cup {NULL}] /\ value \in [All -> Int]
            /\ priority \in [All -> Int]
        BY Facts
      <3> QED
        BY <1>1, <1>2, <3>1
    <2>3. \A u \in All : pc'[u] # "stored" => priority'[u] \in 0..PRI_MAX
      BY <1>1, <1>2, Facts
    <2>4. all_list' \subseteq All
      BY <1>1, <1>2, Facts
    <2> QED
      BY <1>2, <2>1, <2>2, <2>3, <2>4, Facts DEF TypeOK, Statuses, Labels
  <1>4. ListsExact'
    <2>1. {u \in All : status'[u] = "running"} = {current'}
      BY <1>1, <1>2, Facts DEF ListsExact
    <2>2. R = {u \in Threads : status'[u] = "ready"}
      BY <1>1, <1>2, Facts DEF All
    <2>3. all_list' = {u \in All : status'[u] \notin Dead}
      BY <1>1, <1>2, Facts DEF Dead
    <2>4. Exact(ready_list', {u \in Threads : status'[u] = "ready"})
      BY <1>2, <2>2, Facts
    <2> QED
      BY <2>1, <2>3, <2>4 DEF ListsExact, Exact, OnList, Dead
  <1>5. Pending'
    <2>1. \A u \in All : pc[u] = "created" /\ u # current => made[u] # t
      BY <1>1, Facts DEF Pending
    <2> QED
      BY <1>1, <1>2, <2>1, Facts DEF Pending, All
  <1>6. Outside'
    BY <1>1, <1>2, Facts DEF Outside, All
  <1>7. PrioritySorted'
    <2>1. ASSUME ~thread_mlfqs PROVE SortedBy(ready_list, priority')
      <3>1. t \notin R /\ \A x \in R : priority[x] = priority'[x]
        BY <1>1, <1>2, Facts DEF All
      <3> HIDE DEF R
      <3>2. Exact(ready_list, R) /\ SortedBy(ready_list, priority)
        BY <2>1, Facts DEF R
      <3> QED
        BY <3>1, <3>2, SortedAlike
    <2> QED
      BY <1>2, <2>1 DEF PrioritySorted, Sorted, SortedBy
  <1> QED
    BY <1>2, <1>3, <1>4, <1>5, <1>6, <1>7 DEF IInv, LoadBounded

\* A blocked thread is put on the ready list, by its maker if it is new.
LEMMA UnblocksInv ==
  ASSUME IInv, NEW t \in Threads, status[t] = "blocked", Unblocks(t),
         \/ pc[t] # "new" /\ UNCHANGED <<pc, made>>
         \/ /\ pc[current] = "created" /\ made[current] = t
            /\ pc' = [pc EXCEPT ![current] = "unblocked", ![t] = "run"]
            /\ made' = [made EXCEPT ![current] = NULL],
         UNCHANGED <<thread_mlfqs, all_list, levels, ticks, value>>
  PROVE  IInv'
  <1> USE SchedulerAssumption
  <1>1. /\ t \in All /\ t # Idle /\ t # current /\ Idle \in All
    BY Facts DEF All
  <1>2. /\ ready_list' \in Seq(Threads)
        /\ status' = [status EXCEPT ![t] = "ready"]
        /\ Exact(ready_list', {u \in Threads : status'[u] = "ready"})
        /\ UNCHANGED <<current, thread_ticks>>
    BY Facts, UnblockAdds
  <1>3. /\ pc' \in [All -> Labels] /\ made' \in [All -> Threads \cup {NULL}]
        /\ \A u \in All : pc'[u] # "stored" => pc[u] # "stored"
    <2>1. CASE UNCHANGED <<pc, made>>
      BY <2>1, Facts
    <2>2. CASE /\ pc[current] = "created" /\ pc[t] = "new"
               /\ pc' = [pc EXCEPT ![current] = "unblocked", ![t] = "run"]
               /\ made' = [made EXCEPT ![current] = NULL]
      BY <1>1, <2>2, Facts DEF Labels
    <2>3. pc[current] = "created" /\ made[current] = t => pc[t] = "new"
      BY Facts DEF Pending
    <2> QED
      BY <2>1, <2>2, <2>3
  <1>4. TypeOK'
    BY <1>1, <1>2, <1>3, Facts DEF TypeOK, levels, Statuses, Labels
  <1>5. ListsExact'
    <2>1. {u \in All : status'[u] = "running"} = {current'}
      BY <1>1, <1>2, Facts DEF ListsExact
    <2>2. all_list' = {u \in All : status'[u] \notin Dead}
      BY <1>1, <1>2, Facts DEF Dead
    <2> QED
      BY <1>2, <2>1, <2>2 DEF ListsExact, Exact, OnList, Dead
  <1>6. Pending'
    <2>1. CASE pc[t] # "new" /\ UNCHANGED <<pc, made>>
      BY <1>1, <1>2, <2>1, Facts DEF Pending, All
    <2>2. CASE /\ pc[current] = "created" /\ made[current] = t
               /\ pc' = [pc EXCEPT ![current] = "unblocked", ![t] = "run"]
               /\ made' = [made EXCEPT ![current] = NULL]
      <3>1. \A u \in All : pc[u] = "created" /\ u # current => made[u] # t
        BY <2>2, Facts DEF Pending
      <3>2. \A u \in All : pc'[u] = "new" <=> (pc[u] = "new" /\ u # t)
        BY <1>1, <2>2, Facts DEF Pending
      <3>6. \A u \in All : pc'[u] = "created" => (u # current /\ pc[u] = "created" /\ made'[u] = made[u])
        BY <1>1, <2>2, Facts DEF Pending
      <3>3. \A u \in All : pc'[u] = "new" => status'[u] = "blocked"
        <4>1. Pending /\ status \in [All -> Statuses]
          BY Facts
        <4> QED
          BY <1>1, <1>2, <3>2, <4>1 DEF Pending
      <3>4. ASSUME NEW u \in All, pc'[u] = "created"
            PROVE  made'[u] \in Threads /\ status'[made'[u]] = "blocked" /\ pc'[made'[u]] = "new"
        <4>1. u # current /\ pc[u] = "created" /\ made'[u] = made[u]
          BY <3>6, <3>4
        <4>2. made[u] \in Threads /\ pc[made[u]] = "new" /\ made[u] # t
          BY <3>1, <4>1, Facts DEF Pending
        <4> QED
          BY <3>2, <3>3, <4>1, <4>2 DEF All
      <3>5. \A u, v \in All : pc'[u] = "created" /\ pc'[v] = "created" /\ made'[u] = made'[v] => u = v
        <4>1. Pending
          BY Facts
        <4> QED
          BY <3>6, <4>1 DEF Pending
      <3> QED
        BY <3>3, <3>4, <3>5 DEF Pending
    <2> QED
      BY <2>1, <2>2
  <1>7. Outside'
    <2>1. /\ \A u \in All : u # t => status'[u] = status[u]
          /\ status'[t] = "ready"
      BY <1>1, <1>2, Facts
    <2>2. \A u \in All : pc'[u] = pc[u] \/ u = t \/ (u = current /\ status[u] = "running")
      BY <1>1, Facts
    <2>3. Outside
      BY Facts
    <2>4. pc'[Idle] = pc[Idle]
      <3>1. pc[Idle] = "run"
        BY <2>3 DEF Outside
      <3> QED
        BY <1>1, <3>1, Facts
    <2> QED
      BY <1>1, <2>1, <2>2, <2>3, <2>4 DEF Outside
  <1>8. ~thread_mlfqs => SortedBy(ready_list', priority)
    BY Facts, UnblockSorted
  <1>9. PrioritySorted' /\ LoadBounded'
    BY <1>8, Facts DEF PrioritySorted, Sorted, SortedBy, LoadBounded, levels
  <1> QED
    BY <1>4, <1>5, <1>6, <1>7, <1>9 DEF IInv

LEMMA UnblockInv == ASSUME IInv, NEW t \in Threads, Unblock(t) PROVE IInv'
  BY UnblocksInv DEF Unblock, locals

LEMMA CreateUnblockInv == ASSUME IInv, CreateUnblock PROVE IInv'
  <1> DEFINE t == made[current]
  <1>1. pc[current] = "created" /\ t \in Threads /\ status[t] = "blocked"
    BY Facts DEF CreateUnblock, Runs, Pending
  <1> QED
    BY <1>1, UnblocksInv DEF CreateUnblock

\* A step that leaves the lists alone, and whose locals concern the running thread only.
LEMMA StayInv ==
  ASSUME IInv, UNCHANGED <<thread_mlfqs, current, status, ready_list, all_list, made>>,
         thread_ticks' \in 0..(TIME_SLICE - 1), ticks' \in 0..MaxTicks,
         \/ pc' = pc
         \/ /\ pc[current] \notin {"new", "created"}
            /\ \E l \in Labels \ {"new", "created"} : pc' = [pc EXCEPT ![current] = l]
            /\ current # Idle,
         nice' \in [All -> Int], recent_cpu' \in [All -> Int], value' \in [All -> Int],
         priority' \in [All -> Int], \A t \in All : pc'[t] # "stored" => priority'[t] \in 0..PRI_MAX,
         load_avg' \in Nat, load_avg' <= One * Cardinality(Threads),
         ~thread_mlfqs => \A t \in Threads : status[t] = "ready" => priority'[t] = priority[t]
  PROVE  IInv'
  <1> DEFINE R == {t \in Threads : status[t] = "ready"}
  <1>1. pc' \in [All -> Labels]
    BY Facts DEF Labels
  <1>2. TypeOK'
    BY <1>1, Facts DEF TypeOK, Statuses, Labels
  <1>3. ListsExact'
    <2>1. ListsExact
      BY Facts
    <2> QED
      BY <2>1 DEF ListsExact, OnList
  <1>4. \A t \in All : (pc'[t] = "created" <=> pc[t] = "created") /\ (pc'[t] = "new" <=> pc[t] = "new")
    BY Facts
  <1>5. Pending'
    BY <1>4, Facts DEF Pending, All
  <1>6. Outside'
    <2>1. Idle \in All /\ pc'[Idle] = pc[Idle]
      BY Facts DEF All
    <2>2. \A t \in All : status[t] \in Dead => pc'[t] = pc[t]
      BY Facts DEF Dead
    <2> QED
      BY <2>1, <2>2, Facts DEF Outside, Dead
  <1>7. PrioritySorted'
    <2>1. ASSUME ~thread_mlfqs PROVE SortedBy(ready_list, priority')
      <3>1. Exact(ready_list, R) /\ SortedBy(ready_list, priority) /\ \A x \in R : priority[x] = priority'[x]
        BY <2>1, Facts
      <3> HIDE DEF R
      <3> QED
        BY <3>1, SortedAlike
    <2> QED
      BY <2>1 DEF PrioritySorted, Sorted, SortedBy
  <1> QED
    BY <1>2, <1>3, <1>5, <1>6, <1>7 DEF IInv, LoadBounded

\* The running thread is not on the ready list.
LEMMA CurrentAway == ASSUME IInv PROVE \A t \in Threads : status[t] = "ready" => t # current
  BY Facts

LEMMA CreateYieldInv == ASSUME IInv, CreateYield PROVE IInv'
  <1>1. /\ current # Idle /\ pc[current] = "unblocked" /\ pc' = [pc EXCEPT ![current] = "run"]
        /\ value' \in [All -> Int]
        /\ UNCHANGED <<thread_mlfqs, all_list, levels, ticks, made>>
    BY Facts DEF CreateYield, Runs, Goto
  <1>2. \A t \in All : pc'[t] # "stored" => pc[t] # "stored"
    BY <1>1, Facts
  <1>3. CASE Yield(priority)
    <2>1. Switched("ready")
      BY <1>3, Facts, YieldSwitches
    <2>2. ~thread_mlfqs => SortedBy(ready_list', priority')
      BY <1>1, <1>3, Facts, YieldSorted DEF levels
    <2> QED
      BY <1>1, <1>2, <2>1, <2>2, Facts, SwitchInv DEF levels, Statuses, Dead
  <1>4. CASE UNCHANGED lists
    <2>1. thread_ticks \in 0..(TIME_SLICE - 1)
      BY Facts DEF TypeOK
    <2> QED
      BY <1>1, <1>2, <1>4, <2>1, Facts, StayInv DEF levels, lists, Labels
  <1> QED
    BY <1>3, <1>4 DEF CreateYield

LEMMA SetPriorityInv == ASSUME IInv, NEW p \in Priorities, SetPriority(p) PROVE IInv'
  <1> USE SchedulerAssumption
  <1> DEFINE R == {t \in Threads : status[t] = "ready"}
  <1>1. PICK level : level = priority'
    OBVIOUS
  <1>2. /\ level = [priority EXCEPT ![current] = p] /\ Yield(level)
        /\ UNCHANGED <<thread_mlfqs, all_list, nice, recent_cpu, load_avg, ticks, pc, locals>>
        /\ ~thread_mlfqs
    BY <1>1 DEF SetPriority
  <1>3. Switched("ready")
    BY <1>2, Facts, YieldSwitches
  <1>4. /\ level \in [All -> Int] /\ \A t \in Threads : level[t] \in Int
        /\ \A t \in All : pc[t] # "stored" => level[t] \in 0..PRI_MAX
    <2>1. p \in 0..PRI_MAX /\ p \in Int
      OBVIOUS
    <2>2. level \in [All -> Int]
      BY <1>2, <2>1, Facts
    <2>3. \A t \in All : level[t] = IF t = current THEN p ELSE priority[t]
      BY <1>2, Facts
    <2> QED
      BY <2>1, <2>2, <2>3, Facts DEF All
  <1>5. SortedBy(ready_list, level)
    <2>1. Exact(ready_list, R) /\ SortedBy(ready_list, priority) /\ \A x \in R : priority[x] = level[x]
      BY <1>2, Facts, CurrentAway
    <2> HIDE DEF R
    <2> QED
      BY <2>1, SortedAlike
  <1>6. SortedBy(ready_list', level)
    BY <1>2, <1>4, <1>5, Facts, YieldSorted
  <1> QED
    BY <1>1, <1>2, <1>3, <1>4, <1>6, Facts, SwitchInv DEF locals, Statuses, Dead

LEMMA TimerInterruptInv == ASSUME IInv, TimerInterrupt PROVE IInv'
  <1> USE SchedulerAssumption
  <1>1. PICK level, now : level = priority' /\ now = ticks'
    OBVIOUS
  <1>2. /\ Account(now) /\ now \in 0..MaxTicks
        /\ UNCHANGED <<thread_mlfqs, all_list, nice, pc, locals>>
    <2>1. ticks \in 0..MaxTicks /\ MaxTicks \in Nat
      BY Facts DEF SchedulerAssumption
    <2>2. now \in 0..MaxTicks
      BY <1>1, <2>1 DEF TimerInterrupt
    <2> QED
      BY <1>1, <2>2 DEF TimerInterrupt
  <1>3. /\ recent_cpu' \in [All -> Int] /\ level \in [All -> Int]
        /\ \A t \in All : pc[t] # "stored" => level[t] \in 0..PRI_MAX
        /\ load_avg' \in Nat /\ load_avg' <= One * Cardinality(Threads)
        /\ ~thread_mlfqs => level = priority
    BY <1>1, <1>2, Facts, AccountKeeps
  <1>4. CASE Yield(level)
    <2>1. Switched("ready")
      BY <1>4, Facts, YieldSwitches
    <2>2. ~thread_mlfqs => SortedBy(ready_list', level)
      BY <1>3, <1>4, Facts, YieldSorted DEF All
    <2> QED
      BY <1>1, <1>2, <1>3, <2>1, <2>2, Facts, SwitchInv DEF locals, Statuses, Dead
  <1>5. CASE thread_ticks + 1 < TIME_SLICE /\ thread_ticks' = thread_ticks + 1
             /\ UNCHANGED <<current, status, ready_list>>
    <2>1. thread_ticks' \in 0..(TIME_SLICE - 1)
      <3>1. TypeOK
        BY Facts
      <3>2. thread_ticks \in 0..(TIME_SLICE - 1)
        BY <3>1 DEF TypeOK
      <3>3. TIME_SLICE \in Nat
        OBVIOUS
      <3> QED
        BY <1>5, <3>2, <3>3
    <2> QED
      BY <1>1, <1>2, <1>3, <1>5, <2>1, Facts, StayInv DEF locals
  <1> QED
    BY <1>1, <1>4, <1>5 DEF TimerInterrupt

LEMMA NiceInv == ASSUME IInv, (\E n \in Nices : SetNice(n)) \/ NiceCompute PROVE IInv'
  <1> USE SchedulerAssumption
  <1>1. /\ pc[current] \in {"run", "nice"} /\ current # Idle /\ thread_ticks' \in 0..(TIME_SLICE - 1)
        /\ pc' = [pc EXCEPT ![current] = "nice"] \/ pc' = [pc EXCEPT ![current] = "computed"]
        /\ UNCHANGED <<thread_mlfqs, current, status, ready_list, all_list, made, ticks>>
        /\ UNCHANGED <<priority, recent_cpu, load_avg>>
    BY Facts DEF SetNice, NiceCompute, Runs, Goto, lists, levels, locals, TypeOK
  <1>2. nice' \in [All -> Int]
    BY Facts DEF SetNice, NiceCompute, levels
  <1>3. Level(recent_cpu[current], nice[current]) \in Int
    BY Facts, LevelType
  <1>4. value' \in [All -> Int]
    BY <1>3, Facts DEF SetNice, NiceCompute, locals
  <1>5. \A t \in All : pc'[t] # "stored" => pc[t] # "stored"
    BY <1>1, Facts
  <1> QED
    BY <1>1, <1>2, <1>4, <1>5, Facts, StayInv DEF Labels

LEMMA NiceStoreInv == ASSUME IInv, NiceStore \/ NiceClamp PROVE IInv'
  <1> USE SchedulerAssumption
  <1>1. /\ pc[current] \in {"computed", "stored"} /\ current # Idle /\ thread_ticks' \in 0..(TIME_SLICE - 1)
        /\ pc' = [pc EXCEPT ![current] = "stored"] \/ pc' = [pc EXCEPT ![current] = "clamped"]
        /\ UNCHANGED <<thread_mlfqs, current, status, ready_list, all_list, made, ticks>>
        /\ UNCHANGED <<nice, recent_cpu, load_avg>>
    BY Facts DEF NiceStore, NiceClamp, Runs, Goto, lists, locals, TypeOK
  <1>2. value' \in [All -> Int]
    <2>1. value' = value \/ value' = [value EXCEPT ![current] = 0]
      BY DEF NiceStore, NiceClamp, locals
    <2>2. value \in [All -> Int]
      BY Facts
    <2> QED
      BY <2>1, <2>2
  <1>3. Clamp(priority[current]) \in 0..PRI_MAX
    BY Facts DEF Clamp
  <1>4. priority' \in [All -> Int] /\ \A t \in All : t # current => priority'[t] = priority[t]
    <2>1. PICK v : v \in {value[current], Clamp(priority[current])} /\ priority' = [priority EXCEPT ![current] = v]
      BY DEF NiceStore, NiceClamp
    <2>2. v \in Int /\ priority \in [All -> Int] /\ current \in All
      BY <1>3, <2>1, Facts
    <2> QED
      BY <2>1, <2>2
  <1>5. \A t \in All : pc'[t] # "stored" => priority'[t] \in 0..PRI_MAX
    BY <1>3, <1>4, Facts DEF NiceStore, NiceClamp, Goto
  <1>6. \A t \in Threads : status[t] = "ready" => priority'[t] = priority[t]
    BY <1>4, CurrentAway DEF All
  <1> QED
    BY <1>1, <1>2, <1>4, <1>5, <1>6, Facts, StayInv DEF Labels

LEMMA NiceYieldInv == ASSUME IInv, NiceYield PROVE IInv'
  <1>1. /\ pc' = [pc EXCEPT ![current] = "run"] /\ pc[current] = "clamped" /\ Yield(priority)
        /\ UNCHANGED <<thread_mlfqs, all_list, levels, ticks, locals>>
    BY DEF NiceYield, Goto, Runs
  <1>2. Switched("ready")
    BY <1>1, Facts, YieldSwitches
  <1>3. ~thread_mlfqs => SortedBy(ready_list', priority')
    BY <1>1, Facts, YieldSorted DEF levels
  <1>4. \A t \in All : pc'[t] # "stored" => pc[t] # "stored"
    BY <1>1, Facts
  <1> QED
    BY <1>1, <1>2, <1>3, <1>4, Facts, SwitchInv DEF levels, locals, Statuses, Dead

LEMMA StutterInv == ASSUME IInv, UNCHANGED vars PROVE IInv'
  BY DEF vars, lists, levels, locals, IInv, TypeOK, ListsExact, OnList, Pending, Outside,
         PrioritySorted, Sorted, LoadBounded

(***************************************************************************)
(* The theorems.                                                           *)
(***************************************************************************)

\* Every reachable state satisfies the inductive invariant.
THEOREM Invariant == Spec => []IInv
  <1>1. Init => IInv
    BY InitInv
  <1>2. IInv /\ [Next]_vars => IInv'
    <2> SUFFICES ASSUME IInv, [Next]_vars PROVE IInv'
      OBVIOUS
    <2>1. CASE ThreadStep
      BY <2>1, ThreadYieldInv, BlockInv, ExitInv, CreateInv, CreateUnblockInv, CreateYieldInv,
         SetPriorityInv, NiceInv, NiceStoreInv, NiceYieldInv DEF ThreadStep
    <2> QED
      BY <2>1, BlockInv, TimerInterruptInv, UnblockInv, StutterInv DEF Next
  <1> QED
    BY <1>1, <1>2, PTL DEF Spec

\* Priorities, lists and counters stay in range; a priority leaves its range only inside
\* mlfqs_update_priority when it is called by thread_set_nice.
THEOREM TypeCorrect == Spec => []TypeOK
  BY Invariant, PTL DEF IInv

\* Whatever is preempted where, no thread is on the ready list twice or without being ready.
THEOREM ListsCorrect == Spec => []ListsExact
  BY Invariant, PTL DEF IInv

\* Without -o mlfqs list_insert_ordered and the changes of priority keep the ready list sorted.
THEOREM SortedWithoutMlfqs == Spec => []PrioritySorted
  BY Invariant, PTL DEF IInv

\* load_avg does not exceed the number of threads, for every span and precision.
THEOREM LoadIsBounded == Spec => []LoadBounded
  BY Invariant, PTL DEF IInv

(***************************************************************************)
(* Nobody is overtaken.                                                    *)
(***************************************************************************)

\* u is before t in s.
Ahead(s, u, t) == \E i, j \in 1..Len(s) : i < j /\ s[i] = u /\ s[j] = t

\* Who gets in front of t by an insertion is the new thread, of a higher priority.
LEMMA InsertAhead ==
  ASSUME ready_list \in Seq(Threads), NEW x \in Threads, NEW k \in 1..(Len(ready_list) + 1),
         NEW level, \A v \in Threads : level[v] \in Int,
         SortedBy(ready_list, level), Place(k, x, level),
         NEW t \in Threads, NEW u \in Threads, t # x, Ahead(Insert(k, x), u, t)
  PROVE  Ahead(ready_list, u, t) \/ level[u] > level[t]
  <1> DEFINE n == Len(ready_list)
             s == Insert(k, x)
  <1>1. /\ n \in Nat /\ Len(s) = n + 1
        /\ \A i \in 1..(n + 1) : s[i] = IF i < k THEN ready_list[i] ELSE IF i = k THEN x ELSE ready_list[i - 1]
    BY InsertType
  <1>2. PICK i \in 1..(n + 1), j \in 1..(n + 1) : i < j /\ s[i] = u /\ s[j] = t
    BY <1>1 DEF Ahead
  <1> HIDE DEF s
  <1>3. j # k
    BY <1>1, <1>2
  <1> DEFINE at(y) == IF y < k THEN y ELSE y - 1
  <1>4. \A y \in 1..(n + 1) : y # k => at(y) \in 1..n /\ s[y] = ready_list[at(y)]
    BY <1>1
  <1>5. CASE i # k
    <2>1. at(i) \in 1..n /\ at(j) \in 1..n /\ ready_list[at(i)] = u /\ ready_list[at(j)] = t
      BY <1>2, <1>3, <1>4, <1>5
    <2>2. at(i) < at(j)
      BY <1>2, <1>3, <1>5
    <2> QED
      BY <2>1, <2>2 DEF Ahead
  <1>6. CASE i = k
    <2>1. u = x /\ j - 1 \in 1..n /\ ready_list[j - 1] = t /\ k \in 1..n /\ k <= j - 1
      BY <1>1, <1>2, <1>6
    <2>2. level[ready_list[k]] < level[x]
      BY <2>1 DEF Place
    <2>3. level[ready_list[k]] >= level[t]
      <3>1. CASE k = j - 1
        BY <2>1, <3>1
      <3>2. CASE k < j - 1
        BY <2>1, <3>2 DEF SortedBy
      <3> QED
        BY <2>1, <3>1, <3>2
    <2>4. ready_list[k] \in Threads
      BY <2>1
    <2> QED
      BY <2>1, <2>2, <2>3, <2>4
  <1> QED
    BY <1>5, <1>6

\* Taking the head off puts nobody in front of anybody.
LEMMA ScheduleAhead ==
  ASSUME NEW list \in Seq(Threads), NEW s, Schedule(list, s), NEW t, NEW u, Ahead(ready_list', u, t)
  PROVE  Ahead(list, u, t)
  <1>1. CASE list = <<>>
    <2>1. Len(ready_list') = 0
      BY <1>1 DEF Schedule
    <2> QED
      BY <2>1 DEF Ahead
  <1>2. CASE list # <<>>
    <2>1. ready_list' = Tail(list)
      BY <1>2 DEF Schedule
    <2>2. /\ Len(list) \in Nat \ {0} /\ Len(Tail(list)) = Len(list) - 1
          /\ \A i \in 1..(Len(list) - 1) : Tail(list)[i] = list[i + 1]
      BY <1>2
    <2>3. PICK i \in 1..(Len(list) - 1), j \in 1..(Len(list) - 1) :
            i < j /\ Tail(list)[i] = u /\ Tail(list)[j] = t
      BY <2>1, <2>2 DEF Ahead
    <2>4. i + 1 \in 1..Len(list) /\ j + 1 \in 1..Len(list) /\ i + 1 < j + 1
          /\ list[i + 1] = u /\ list[j + 1] = t
      BY <2>2, <2>3
    <2> QED
      BY <2>4 DEF Ahead
  <1> QED
    BY <1>1, <1>2

LEMMA YieldAhead ==
  ASSUME TypeOK, NEW level, \A v \in Threads : level[v] \in Int,
         SortedBy(ready_list, level), Yield(level),
         NEW t \in Threads, NEW u \in Threads, t # current, Ahead(ready_list', u, t)
  PROVE  Ahead(ready_list, u, t) \/ level[u] > level[t]
  <1>1. ready_list \in Seq(Threads) /\ current \in All
    BY DEF TypeOK
  <1>2. CASE current = Idle /\ Schedule(ready_list, "ready")
    BY <1>1, <1>2, ScheduleAhead
  <1>3. ASSUME current # Idle, NEW k \in 1..(Len(ready_list) + 1), Place(k, current, level),
               Schedule(Insert(k, current), "ready")
        PROVE  Ahead(ready_list, u, t) \/ level[u] > level[t]
    <2>1. current \in Threads
      BY <1>1, <1>3 DEF All
    <2>2. Insert(k, current) \in Seq(Threads)
      BY <1>1, <2>1, InsertType
    <2>3. Ahead(Insert(k, current), u, t)
      BY <1>3, <2>2, ScheduleAhead
    <2> QED
      BY <1>1, <1>3, <2>1, <2>3, InsertAhead
  <1> QED
    BY <1>2, <1>3 DEF Yield

LEMMA UnblocksAhead ==
  ASSUME TypeOK, NEW x \in Threads, SortedBy(ready_list, priority), Unblocks(x),
         NEW t \in Threads, NEW u \in Threads, t # x, Ahead(ready_list', u, t)
  PROVE  Ahead(ready_list, u, t) \/ priority[u] > priority[t]
  <1>1. ready_list \in Seq(Threads) /\ \A v \in Threads : priority[v] \in Int
    BY DEF TypeOK, All
  <1>2. PICK k \in 1..(Len(ready_list) + 1) : Place(k, x, priority) /\ ready_list' = Insert(k, x)
    BY DEF Unblocks
  <1> QED
    BY <1>1, <1>2, InsertAhead

\* One step, without -o mlfqs.
LEMMA StepAhead ==
  ASSUME IInv, [Next]_vars, ~thread_mlfqs, NEW t \in Threads, NEW u \in Threads,
         t \in OnList, Ahead(ready_list', u, t)
  PROVE  Ahead(ready_list, u, t) \/ priority'[u] > priority'[t]
  <1> USE SchedulerAssumption
  <1> DEFINE Goal == Ahead(ready_list, u, t) \/ priority'[u] > priority'[t]
  <1>1. status[t] = "ready" /\ t # current /\ SortedBy(ready_list, priority)
    BY Facts DEF ListsExact
  <1>2. ASSUME Yield(priority), priority' = priority PROVE Goal
    BY <1>1, <1>2, Facts, YieldAhead
  <1>3. ASSUME NEW s, Schedule(ready_list, s) PROVE Goal
    BY <1>3, Facts, ScheduleAhead
  <1>4. ASSUME NEW x \in Threads, status[x] = "blocked", Unblocks(x), priority' = priority PROVE Goal
    <2>1. t # x
      BY <1>1, <1>4
    <2> QED
      BY <1>1, <1>4, <2>1, Facts, UnblocksAhead
  <1>5. ASSUME UNCHANGED ready_list PROVE Goal
    BY <1>5
  <1>6. ASSUME NEW p \in Priorities, SetPriority(p) PROVE Goal
    <2> DEFINE R == {v \in Threads : status[v] = "ready"}
    <2>1. PICK level : level = priority'
      OBVIOUS
    <2>2. level = [priority EXCEPT ![current] = p] /\ Yield(level)
      BY <1>6, <2>1 DEF SetPriority
    <2>3. Exact(ready_list, R) /\ \A x \in R : priority[x] = level[x]
      BY <2>2, Facts, CurrentAway
    <2>4. \A v \in Threads : level[v] \in Int
      <3>1. p \in Int
        OBVIOUS
      <3>2. \A v \in Threads : level[v] = IF v = current THEN p ELSE priority[v]
        BY <2>2, Facts DEF All
      <3> QED
        BY <3>1, <3>2, Facts
    <2> HIDE DEF R
    <2>5. SortedBy(ready_list, level)
      BY <1>1, <2>3, SortedAlike
    <2> QED
      BY <1>1, <2>1, <2>2, <2>4, <2>5, Facts, YieldAhead
  <1>7. ASSUME TimerInterrupt PROVE Goal
    <2>1. priority' = priority
      BY <1>7 DEF TimerInterrupt, Account
    <2>2. Yield(priority') \/ UNCHANGED ready_list
      BY <1>7 DEF TimerInterrupt
    <2>3. CASE Yield(priority')
      BY <1>2, <2>1, <2>3
    <2> QED
      BY <1>5, <2>2, <2>3
  <1>9. CASE ThreadStep
    <2>1. CASE ThreadYield \/ NiceYield
      BY <1>2, <2>1 DEF ThreadYield, NiceYield, levels
    <2>2. CASE Block \/ Exit
      BY <1>3, <2>2 DEF Block, Exit
    <2>3. CASE CreateUnblock
      <3>1. made[current] \in Threads /\ status[made[current]] = "blocked"
        BY <2>3, Facts DEF CreateUnblock, Runs, Pending
      <3> QED
        BY <1>4, <2>3, <3>1 DEF CreateUnblock, levels
    <2>4. CASE CreateYield
      BY <1>2, <1>5, <2>4 DEF CreateYield, levels, lists
    <2>5. CASE \E x \in Threads, p \in Priorities : Create(x, p)
      BY <1>5, <2>5 DEF Create
    <2>6. CASE \E n \in Nices : SetNice(n)
      BY <1>5, <2>6 DEF SetNice, lists
    <2>7. CASE NiceCompute \/ NiceStore \/ NiceClamp
      BY <1>5, <2>7 DEF NiceCompute, NiceStore, NiceClamp, lists
    <2> QED
      BY <1>6, <1>9, <2>1, <2>2, <2>3, <2>4, <2>5, <2>6, <2>7 DEF ThreadStep
  <1>10. CASE IdleBlock
    BY <1>3, <1>10 DEF IdleBlock
  <1>11. ASSUME NEW x \in Threads, Unblock(x) PROVE Goal
    BY <1>4, <1>11 DEF Unblock, levels
  <1>12. CASE UNCHANGED vars
    BY <1>5, <1>12 DEF vars, lists
  <1> QED
    BY <1>7, <1>9, <1>10, <1>11, <1>12 DEF Next

\* Without -o mlfqs a waiting thread is overtaken by threads of a higher priority only.
THEOREM NobodyOvertaken == Spec => NoOvertaking
  <1> DEFINE A == ~thread_mlfqs => \A t, u \in Threads :
                    (t \in OnList /\ t \in OnList' /\ ~Before(u, t) /\ Before(u, t)')
                      => priority'[u] > priority'[t]
  <1>1. IInv /\ [Next]_vars => A
    BY StepAhead DEF Before, Ahead
  <1>2. IInv /\ [Next]_vars => [A]_vars
    BY <1>1
  <1> QED
    BY <1>2, Invariant, PTL DEF Spec, NoOvertaking
===============================================================================
