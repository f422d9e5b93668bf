---------------------------- MODULE TimerProofs ----------------------------
(***************************************************************************)
(* Proofs about Timer for any set of threads, any durations and any number *)
(* of ticks: no thread wakes early or late, and the ordered list with the  *)
(* walk over its front is as good as a look at every sleeper.              *)
(***************************************************************************)
EXTENDS Timer, TLAPS, SequenceTheorems

USE TimerAssumption

-----------------------------------------------------------------------------
(* The parts of the inductive invariant that are not properties themselves. *)

\* The list is ordered by the time to wake at.
Sorted ==
  \A i, k \in 1..Len(sleeping_threads) :
    i < k => sleep_time[sleeping_threads[i]] <= sleep_time[sleeping_threads[k]]

\* The times a thread carries through a call are in order, and a sleeper's time has not
\* come, except that of a thread that has blocked since the last tick.
Times ==
  \A t \in Threads :
    /\ pc[t] # "out" => duration[t] > 0 /\ called[t] <= ticks
    /\ pc[t] \in {"started", "blocked", "woken"} => called[t] <= start[t] /\ start[t] <= ticks
    /\ pc[t] = "blocked" =>
         /\ sleep_time[t] = WakeTime(t)
         /\ blocked[t] <= ticks
         /\ WakeTime(t) > ticks \/ blocked[t] = ticks
    /\ pc[t] = "woken" => WakeTime(t) <= ticks

\* The inductive invariant.
IInv == TypeOK /\ SleepersListed /\ Sorted /\ Times

-----------------------------------------------------------------------------
(* The list operations. *)

\* Insert makes a list that is longer by one, with t at place k.
LEMMA Inserted ==
  ASSUME NEW s \in Seq(Threads), NEW k \in 1..(Len(s) + 1), NEW t \in Threads
  PROVE  /\ Insert(s, k, t) \in Seq(Threads)
         /\ Len(Insert(s, k, t)) = Len(s) + 1
         /\ \A i \in 1..(Len(s) + 1) :
              Insert(s, k, t)[i] = IF i < k THEN s[i] ELSE IF i = k THEN t ELSE s[i - 1]
<1> DEFINE f == Insert(s, k, t)
<1>1. Len(s) \in Nat /\ \A i \in 1..Len(s) : s[i] \in Threads
  BY LenProperties, ElementOfSeq
<1>2. \A i \in 1..(Len(s) + 1) :
        (IF i < k THEN s[i] ELSE IF i = k THEN t ELSE s[i - 1]) \in Threads
  BY <1>1
<1>3. f \in [1..(Len(s) + 1) -> Threads]
  BY <1>2 DEF Insert
<1>4. f \in Seq(Threads)
  BY <1>1, <1>3, IsASeq, Len(s) + 1 \in Nat DEF Insert
<1>5. Len(f) = Len(s) + 1
  BY <1>1, <1>3, <1>4, LenProperties
<1> QED BY <1>4, <1>5 DEF Insert

\* What is left when the first n are taken off the list.
LEMMA Remaining ==
  ASSUME NEW s \in Seq(Threads), NEW n \in 0..Len(s)
  PROVE  /\ SubSeq(s, n + 1, Len(s)) \in Seq(Threads)
         /\ Len(SubSeq(s, n + 1, Len(s))) = Len(s) - n
         /\ \A i \in 1..(Len(s) - n) : SubSeq(s, n + 1, Len(s))[i] = s[n + i]
<1>1. Len(s) \in Nat /\ \A i \in 1..Len(s) : s[i] \in Threads
  BY LenProperties, ElementOfSeq
<1>2. n + 1 \in Int /\ Len(s) \in Int /\ \A i \in (n + 1)..Len(s) : s[i] \in Threads
  BY <1>1
<1>3. /\ SubSeq(s, n + 1, Len(s)) \in Seq(Threads)
      /\ Len(SubSeq(s, n + 1, Len(s))) = IF n + 1 <= Len(s) THEN Len(s) - (n + 1) + 1 ELSE 0
      /\ \A i \in 1..(Len(s) - (n + 1) + 1) : SubSeq(s, n + 1, Len(s))[i] = s[i + (n + 1) - 1]
  BY <1>2, SubSeqProperties
<1> QED BY <1>1, <1>3

\* The handler wakes exactly the sleepers that are due: the first of an ordered list.
LEMMA WokenAreDue ==
  ASSUME IInv, NEW n \in 0..Len(sleeping_threads), NEW now \in Nat,
         \A t \in Woken(n) : Due(t, now),
         n < Len(sleeping_threads) => ~Due(sleeping_threads[n + 1], now)
  PROVE  \A t \in Threads : t \in Woken(n) <=> pc[t] = "blocked" /\ sleep_time[t] <= now
<1> DEFINE s == sleeping_threads
<1>0. Len(s) \in Nat /\ \A i \in 1..Len(s) : s[i] \in Threads /\ sleep_time[s[i]] \in Nat
  BY LenProperties, ElementOfSeq DEF IInv, TypeOK
<1>1. ASSUME NEW t \in Threads, t \in Woken(n)
      PROVE  pc[t] = "blocked" /\ sleep_time[t] <= now
  BY <1>0, <1>1 DEF Woken, Due, IInv, SleepersListed
<1>2. ASSUME NEW t \in Threads, pc[t] = "blocked", sleep_time[t] <= now
      PROVE  t \in Woken(n)
  <2>1. PICK i \in 1..Len(s) : s[i] = t
    BY <1>2 DEF IInv, SleepersListed
  <2>2. CASE i <= n
    BY <1>0, <2>1, <2>2 DEF Woken
  <2>3. CASE i > n
    <3>1. n < Len(s) /\ n + 1 \in 1..Len(s) /\ (n + 1 = i \/ n + 1 < i)
      BY <1>0, <2>1, <2>3
    <3>2. sleep_time[s[n + 1]] <= sleep_time[s[i]]
      BY <1>0, <2>1, <3>1 DEF IInv, Sorted
    <3> QED BY <1>0, <1>2, <2>1, <3>1, <3>2 DEF Due
  <2> QED BY <1>0, <2>2, <2>3
<1> QED BY <1>1, <1>2

-----------------------------------------------------------------------------
(* The steps that do not touch the list. *)

Local(t) == Call(t) \/ ReadTicks(t) \/ Return(t)

\* A step before the list or after it keeps the invariant.
LEMMA LocalStep ==
  ASSUME IInv, NEW t \in Threads, Local(t)
  PROVE  IInv'
<1> USE DEF IInv, Goto
<1>1. CASE Call(t)
  <2>1. \A d \in Durations : d \in Int
    BY DEF TimerAssumption
  <2>2. TypeOK'
    BY <1>1, <2>1 DEF TypeOK, Call
  <2>3. Times'
    BY <1>1, <2>1 DEF TypeOK, Times, WakeTime, Call
  <2> QED BY <2>2, <2>3, <1>1 DEF TypeOK, SleepersListed, Sorted, Call
<1>2. CASE ReadTicks(t)
  <2>1. TypeOK'
    BY <1>2 DEF TypeOK, ReadTicks
  <2>2. Times'
    BY <1>2 DEF TypeOK, Times, WakeTime, ReadTicks
  <2> QED BY <2>1, <2>2, <1>2 DEF TypeOK, SleepersListed, Sorted, ReadTicks
<1>3. CASE Return(t)
  <2>1. TypeOK'
    BY <1>3 DEF TypeOK, Return
  <2>2. Times'
    BY <1>3 DEF TypeOK, Times, WakeTime, Return
  <2> QED BY <2>1, <2>2, <1>3 DEF TypeOK, SleepersListed, Sorted, Return
<1> QED BY <1>1, <1>2, <1>3 DEF Local

-----------------------------------------------------------------------------
(* A thread goes to sleep. *)

\* Types survive an insertion.
LEMMA BlockType ==
  ASSUME IInv, NEW t \in Threads, Block(t)
  PROVE  TypeOK' /\ Times' /\ WakeTime(t) \in Nat \ {0}
<1> USE DEF IInv, Goto
<1>1. WakeTime(t) \in Nat \ {0}
  <2>1. pc[t] = "started" /\ start[t] \in 0..MaxTicks /\ duration[t] \in Int
    BY DEF TypeOK, Block
  <2>2. duration[t] > 0
    BY <2>1 DEF Times
  <2> QED BY <2>1, <2>2 DEF WakeTime
<1>2. sleeping_threads' \in Seq(Threads)
  BY Inserted DEF TypeOK, Block
<1>3. TypeOK'
  BY <1>1, <1>2 DEF TypeOK, Block, sleep
<1>4. Times'
  BY <1>1 DEF TypeOK, Times, WakeTime, Block, sleep
<1> QED BY <1>1, <1>3, <1>4

\* The thread is put on the list once, and where the order wants it.
LEMMA BlockList ==
  ASSUME IInv, NEW t \in Threads, Block(t)
  PROVE  SleepersListed' /\ Sorted'
<1> DEFINE s == sleeping_threads
           w == WakeTime(t)
<1>1. w \in Nat \ {0}
  BY BlockType
<1>2. PICK k \in 1..(Len(s) + 1) : Place(k, w) /\ s' = Insert(s, k, t)
  BY DEF Block
<1>3. /\ s \in Seq(Threads) /\ Len(s) \in Nat
      /\ \A i \in 1..Len(s) : s[i] \in Threads /\ sleep_time[s[i]] \in Nat
  BY LenProperties, ElementOfSeq DEF IInv, TypeOK
<1>4. /\ Len(s') = Len(s) + 1
      /\ \A i \in 1..(Len(s) + 1) :
           s'[i] = IF i < k THEN s[i] ELSE IF i = k THEN t ELSE s[i - 1]
  BY <1>2, <1>3, Inserted
<1>5. \A i \in 1..Len(s) : s[i] # t
  BY DEF IInv, SleepersListed, Block
<1>6. /\ sleep_time' = [sleep_time EXCEPT ![t] = w]
      /\ pc' = [pc EXCEPT ![t] = "blocked"]
      /\ pc[t] = "started"
  BY DEF Block, Goto
<1>7. /\ sleep_time'[t] = w /\ pc'[t] = "blocked"
      /\ \A u \in Threads \ {t} : sleep_time'[u] = sleep_time[u] /\ pc'[u] = pc[u]
  BY <1>6 DEF IInv, TypeOK
<1>8. SleepersListed'
  <2>1. ASSUME NEW u \in Threads, pc'[u] = "blocked"
        PROVE  \E i \in 1..Len(s') : s'[i] = u
    <3>1. CASE u = t
      BY <1>2, <1>3, <1>4, <3>1
    <3>2. CASE u # t
      <4>1. PICK i \in 1..Len(s) : s[i] = u
        BY <1>7, <2>1, <3>2 DEF IInv, SleepersListed
      <4>2. CASE i < k
        BY <1>3, <1>4, <4>1, <4>2
      <4>3. CASE i >= k
        <5>1. i + 1 \in 1..Len(s') /\ s'[i + 1] = s[i]
          BY <1>2, <1>3, <1>4, <4>3
        <5> QED BY <4>1, <5>1
      <4> QED BY <1>2, <1>3, <4>2, <4>3
    <3> QED BY <3>1, <3>2
  <2>2. ASSUME NEW u \in Threads, NEW i \in 1..Len(s'), s'[i] = u
        PROVE  pc'[u] = "blocked"
    <3>1. CASE u = t
      BY <1>7, <3>1
    <3>2. CASE u # t
      <4>1. \E j \in 1..Len(s) : s[j] = u
        BY <1>2, <1>3, <1>4, <2>2, <3>2
      <4> QED BY <1>7, <3>2, <4>1 DEF IInv, SleepersListed
    <3> QED BY <3>1, <3>2
  <2>3. ASSUME NEW i \in 1..Len(s'), NEW j \in 1..Len(s'), s'[i] = s'[j]
        PROVE  i = j
    <3>1. \A x, y \in 1..Len(s) : s[x] = s[y] => x = y
      BY DEF IInv, SleepersListed
    <3> QED BY <1>2, <1>3, <1>4, <1>5, <2>3, <3>1
  <2>4. \A u \in Threads : pc'[u] = "blocked" <=> sleep_time'[u] # 0
    BY <1>1, <1>7 DEF IInv, SleepersListed
  <2> QED BY <2>1, <2>2, <2>3, <2>4 DEF SleepersListed
<1>9. Sorted'
  <2>1. \A i \in 1..Len(s) : sleep_time'[s[i]] = sleep_time[s[i]]
    BY <1>3, <1>5, <1>7
  <2>2. \A i \in 1..Len(s) : i < k => sleep_time[s[i]] <= w
    BY <1>2, <1>3 DEF Place
  <2>3. \A i \in 1..Len(s) : i >= k => w <= sleep_time[s[i]]
    <3>1. ASSUME NEW i \in 1..Len(s), i >= k
          PROVE  w <= sleep_time[s[i]]
      <4>1. k \in 1..Len(s) /\ w < sleep_time[s[k]]
        BY <1>2, <1>3, <3>1 DEF Place
      <4>2. sleep_time[s[k]] <= sleep_time[s[i]]
        BY <1>3, <3>1, <4>1 DEF IInv, Sorted
      <4> QED BY <1>1, <1>3, <4>1, <4>2
    <3> QED BY <3>1
  <2>4. \A i, j \in 1..Len(s) : i < j => sleep_time[s[i]] <= sleep_time[s[j]]
    BY DEF IInv, Sorted
  <2>5. ASSUME NEW i \in 1..Len(s'), NEW j \in 1..Len(s'), i < j
        PROVE  sleep_time'[s'[i]] <= sleep_time'[s'[j]]
    <3>1. CASE i = k
      <4>1. j - 1 \in 1..Len(s) /\ j - 1 >= k /\ s'[j] = s[j - 1] /\ s'[i] = t
        BY <1>2, <1>3, <1>4, <2>5, <3>1
      <4> QED BY <1>7, <2>1, <2>3, <4>1
    <3>2. CASE j = k
      <4>1. i \in 1..Len(s) /\ i < k /\ s'[i] = s[i] /\ s'[j] = t
        BY <1>2, <1>3, <1>4, <2>5, <3>2
      <4> QED BY <1>7, <2>1, <2>2, <4>1
    <3>3. CASE i # k /\ j # k
      <4>1. PICK x \in 1..Len(s), y \in 1..Len(s) : x < y /\ s'[i] = s[x] /\ s'[j] = s[y]
        <5>1. CASE j < k
          BY <1>2, <1>3, <1>4, <2>5, <5>1
        <5>2. CASE i < k /\ j > k
          <6>1. i \in 1..Len(s) /\ j - 1 \in 1..Len(s) /\ i < j - 1
            BY <1>2, <1>3, <1>4, <5>2
          <6> QED BY <1>4, <5>2, <6>1
        <5>3. CASE i > k
          <6>1. i - 1 \in 1..Len(s) /\ j - 1 \in 1..Len(s) /\ i - 1 < j - 1
            BY <1>2, <1>3, <1>4, <2>5, <5>3
          <6> QED BY <1>4, <2>5, <5>3, <6>1
        <5> QED BY <1>2, <1>3, <1>4, <2>5, <3>3, <5>1, <5>2, <5>3
      <4> QED BY <2>1, <2>4, <4>1
    <3> QED BY <3>1, <3>2, <3>3
  <2> QED BY <2>5 DEF Sorted
<1> QED BY <1>8, <1>9

-----------------------------------------------------------------------------
(* The timer interrupt. *)

\* What the handler does to each thread.
LEMMA Tick ==
  ASSUME IInv, TimerInterrupt
  PROVE  /\ ticks' = ticks + 1 /\ ticks < MaxTicks
         /\ \A t \in Threads :
              /\ sleep_time'[t] = IF sleep_time[t] <= ticks + 1 THEN 0 ELSE sleep_time[t]
              /\ pc'[t] = IF pc[t] = "blocked" /\ sleep_time[t] <= ticks + 1
                            THEN "woken" ELSE pc[t]
<1>1. PICK n \in 0..Len(sleeping_threads) :
        /\ \A t \in Woken(n) : Due(t, ticks + 1)
        /\ n < Len(sleeping_threads) => ~Due(sleeping_threads[n + 1], ticks + 1)
        /\ sleep_time' = [t \in Threads |-> IF t \in Woken(n) THEN 0 ELSE sleep_time[t]]
        /\ pc' = [t \in Threads |-> IF t \in Woken(n) THEN "woken" ELSE pc[t]]
  BY DEF TimerInterrupt
<1>2. ticks + 1 \in Nat /\ ticks' = ticks + 1 /\ ticks < MaxTicks
  BY DEF IInv, TypeOK, TimerInterrupt
<1>3. \A t \in Threads : t \in Woken(n) <=> pc[t] = "blocked" /\ sleep_time[t] <= ticks + 1
  BY <1>1, <1>2, WokenAreDue
<1>4. \A t \in Threads : pc[t] # "blocked" => sleep_time[t] = 0
  BY DEF IInv, SleepersListed
<1>5. \A t \in Threads :
        sleep_time'[t] = IF sleep_time[t] <= ticks + 1 THEN 0 ELSE sleep_time[t]
  BY <1>1, <1>2, <1>3, <1>4 DEF IInv, TypeOK
<1>6. \A t \in Threads :
        pc'[t] = IF pc[t] = "blocked" /\ sleep_time[t] <= ticks + 1 THEN "woken" ELSE pc[t]
  BY <1>1, <1>3
<1> QED BY <1>2, <1>5, <1>6

\* Types and times after a tick: whoever is still blocked is not due.
LEMMA TickTimes ==
  ASSUME IInv, TimerInterrupt
  PROVE  TypeOK' /\ Times'
<1>1. PICK n \in 0..Len(sleeping_threads) :
        /\ sleeping_threads' = SubSeq(sleeping_threads, n + 1, Len(sleeping_threads))
        /\ sleep_time' = [t \in Threads |-> IF t \in Woken(n) THEN 0 ELSE sleep_time[t]]
        /\ pc' = [t \in Threads |-> IF t \in Woken(n) THEN "woken" ELSE pc[t]]
  BY DEF TimerInterrupt
<1>2. UNCHANGED <<duration, start, called, blocked>>
  BY DEF TimerInterrupt, sleep
<1>3. sleeping_threads' \in Seq(Threads)
  BY <1>1, Remaining DEF IInv, TypeOK
<1>4. TypeOK'
  BY <1>1, <1>2, <1>3, Tick DEF IInv, TypeOK
<1>5. ASSUME NEW t \in Threads
      PROVE  /\ pc'[t] # "out" => duration'[t] > 0 /\ called'[t] <= ticks'
             /\ pc'[t] \in {"started", "blocked", "woken"} =>
                  called'[t] <= start'[t] /\ start'[t] <= ticks'
             /\ pc'[t] = "blocked" =>
                  /\ sleep_time'[t] = WakeTime(t)'
                  /\ blocked'[t] <= ticks'
                  /\ WakeTime(t)' > ticks' \/ blocked'[t] = ticks'
             /\ pc'[t] = "woken" => WakeTime(t)' <= ticks'
  <2>1. /\ ticks \in Nat /\ sleep_time[t] \in Nat /\ duration[t] \in Int
        /\ start[t] \in Nat /\ called[t] \in Nat /\ blocked[t] \in Nat
    BY DEF IInv, TypeOK
  <2>2. /\ ticks' = ticks + 1
        /\ sleep_time'[t] = IF sleep_time[t] <= ticks + 1 THEN 0 ELSE sleep_time[t]
        /\ pc'[t] = IF pc[t] = "blocked" /\ sleep_time[t] <= ticks + 1
                      THEN "woken" ELSE pc[t]
    BY Tick
  <2>3. WakeTime(t)' = WakeTime(t) /\ WakeTime(t) = start[t] + duration[t]
    BY <1>2 DEF WakeTime
  <2>4. /\ pc[t] # "out" => duration[t] > 0 /\ called[t] <= ticks
        /\ pc[t] \in {"started", "blocked", "woken"} => called[t] <= start[t] /\ start[t] <= ticks
        /\ pc[t] = "blocked" => sleep_time[t] = WakeTime(t) /\ blocked[t] <= ticks
        /\ pc[t] = "woken" => WakeTime(t) <= ticks
    BY DEF IInv, Times
  <2>5. CASE pc[t] = "blocked" /\ sleep_time[t] <= ticks + 1
    BY <1>2, <2>1, <2>2, <2>3, <2>4, <2>5
  <2>6. CASE ~(pc[t] = "blocked" /\ sleep_time[t] <= ticks + 1)
    BY <1>2, <2>1, <2>2, <2>3, <2>4, <2>6
  <2> QED BY <2>5, <2>6
<1>6. Times'
  BY <1>5 DEF Times
<1> QED BY <1>4, <1>6

\* The woken threads leave the list and the others stay in their order.
LEMMA TickList ==
  ASSUME IInv, TimerInterrupt
  PROVE  SleepersListed' /\ Sorted'
<1> DEFINE s == sleeping_threads
<1>1. PICK n \in 0..Len(s) :
        /\ \A t \in Woken(n) : Due(t, ticks + 1)
        /\ n < Len(s) => ~Due(s[n + 1], ticks + 1)
        /\ s' = SubSeq(s, n + 1, Len(s))
        /\ sleep_time' = [t \in Threads |-> IF t \in Woken(n) THEN 0 ELSE sleep_time[t]]
        /\ pc' = [t \in Threads |-> IF t \in Woken(n) THEN "woken" ELSE pc[t]]
  BY DEF TimerInterrupt
<1>2. /\ s \in Seq(Threads) /\ Len(s) \in Nat
      /\ \A i \in 1..Len(s) : s[i] \in Threads
  BY LenProperties, ElementOfSeq DEF IInv, TypeOK
<1>3. Len(s') = Len(s) - n /\ \A i \in 1..(Len(s) - n) : s'[i] = s[n + i]
  BY <1>1, <1>2, Remaining
<1>4. \A x, y \in 1..Len(s) : s[x] = s[y] => x = y
  BY DEF IInv, SleepersListed
<1>5. \A x \in 1..Len(s) : s[x] \in Woken(n) <=> x <= n
  BY <1>1, <1>2, <1>4 DEF Woken
<1>6. SleepersListed'
  <2>1. ASSUME NEW t \in Threads, pc'[t] = "blocked"
        PROVE  \E i \in 1..Len(s') : s'[i] = t
    <3>1. t \notin Woken(n) /\ pc[t] = "blocked"
      BY <1>1, <2>1
    <3>2. PICK x \in 1..Len(s) : s[x] = t
      BY <3>1 DEF IInv, SleepersListed
    <3>3. x > n
      BY <1>5, <3>1, <3>2
    <3>4. x - n \in 1..(Len(s) - n) /\ n + (x - n) = x
      BY <1>1, <1>2, <3>2, <3>3
    <3> QED BY <1>3, <3>2, <3>4
  <2>2. ASSUME NEW t \in Threads, NEW i \in 1..Len(s'), s'[i] = t
        PROVE  pc'[t] = "blocked"
    <3>1. n + i \in 1..Len(s) /\ s[n + i] = t /\ n + i > n
      BY <1>1, <1>2, <1>3, <2>2
    <3>2. pc[t] = "blocked"
      BY <3>1 DEF IInv, SleepersListed
    <3>3. t \notin Woken(n)
      BY <1>1, <1>2, <1>5, <3>1
    <3> QED BY <1>1, <3>2, <3>3
  <2>3. ASSUME NEW i \in 1..Len(s'), NEW j \in 1..Len(s'), s'[i] = s'[j]
        PROVE  i = j
    <3>1. n + i \in 1..Len(s) /\ n + j \in 1..Len(s) /\ s[n + i] = s[n + j]
      BY <1>1, <1>2, <1>3, <2>3
    <3> QED BY <1>1, <1>2, <1>4, <3>1
  <2>4. \A t \in Threads : pc'[t] = "blocked" <=> sleep_time'[t] # 0
    BY <1>1 DEF IInv, SleepersListed
  <2> QED BY <2>1, <2>2, <2>3, <2>4 DEF SleepersListed
<1>7. Sorted'
  <2>1. ASSUME NEW i \in 1..Len(s'), NEW j \in 1..Len(s'), i < j
        PROVE  sleep_time'[s'[i]] <= sleep_time'[s'[j]]
    <3>1. /\ n + i \in 1..Len(s) /\ n + j \in 1..Len(s) /\ n + i < n + j
          /\ n + i > n /\ n + j > n
          /\ s'[i] = s[n + i] /\ s'[j] = s[n + j]
      <4>1. i \in 1..(Len(s) - n) /\ j \in 1..(Len(s) - n)
        BY <1>3
      <4>2. s'[i] = s[n + i] /\ s'[j] = s[n + j]
        BY <1>3, <4>1
      <4>3. n \in 0..Len(s) /\ Len(s) \in Nat
        BY <1>2
      <4>4. /\ n + i \in 1..Len(s) /\ n + j \in 1..Len(s) /\ n + i < n + j
            /\ n + i > n /\ n + j > n
        <5> HIDE DEF s
        <5> QED BY <2>1, <4>1, <4>3
      <4> QED BY <4>2, <4>4
    <3>2. s[n + i] \in Threads \ Woken(n) /\ s[n + j] \in Threads \ Woken(n)
      BY <1>1, <1>2, <1>5, <3>1
    <3>3. sleep_time[s[n + i]] <= sleep_time[s[n + j]]
      BY <3>1 DEF IInv, Sorted
    <3> QED BY <1>1, <3>1, <3>2, <3>3
  <2> QED BY <2>1 DEF Sorted
<1> QED BY <1>6, <1>7

-----------------------------------------------------------------------------
(* The theorems. *)

\* The invariant holds at the start.
LEMMA InvInit == Init => IInv
<1> SUFFICES ASSUME Init PROVE IInv
  OBVIOUS
<1>1. sleeping_threads = <<>> /\ Len(sleeping_threads) = 0 /\ sleeping_threads \in Seq(Threads)
  BY EmptySeq DEF Init
<1>2. TypeOK /\ Times
  BY <1>1 DEF Init, TypeOK, Times, TimerAssumption
<1>3. SleepersListed /\ Sorted
  BY <1>1 DEF Init, SleepersListed, Sorted
<1> QED BY <1>2, <1>3 DEF IInv

\* Every step keeps the invariant.
LEMMA InvStep == IInv /\ [Next]_vars => IInv'
<1> SUFFICES ASSUME IInv, [Next]_vars PROVE IInv'
  OBVIOUS
<1>1. CASE TimerInterrupt
  BY <1>1, TickTimes, TickList DEF IInv
<1>2. ASSUME NEW t \in Threads, Block(t) PROVE IInv'
  BY <1>2, BlockType, BlockList DEF IInv
<1>3. ASSUME NEW t \in Threads, Local(t) PROVE IInv'
  BY <1>3, LocalStep
<1>4. CASE UNCHANGED vars
  BY <1>4 DEF IInv, vars, sleep, TypeOK, SleepersListed, Sorted, Times, WakeTime
<1> QED BY <1>1, <1>2, <1>3, <1>4 DEF Next, Proceed, Local

\* The invariant holds in every reachable state.
THEOREM Invariant == Spec => []IInv
BY InvInit, InvStep, PTL DEF Spec

\* Types are kept.
THEOREM TypeCorrect == Spec => []TypeOK
<1>1. IInv => TypeOK
  BY DEF IInv
<1> QED BY <1>1, Invariant, PTL

\* The list holds exactly the blocked threads, each once.
THEOREM NoneLost == Spec => []SleepersListed
<1>1. IInv => SleepersListed
  BY DEF IInv
<1> QED BY <1>1, Invariant, PTL

\* Nobody returns from timer_sleep early.
THEOREM SleepsLongEnough == Spec => NeverEarly
<1> DEFINE A == \A t \in Threads :
                  pc[t] = "woken" /\ pc'[t] = "out" => ticks >= called[t] + duration[t]
<1>1. ASSUME IInv, [Next]_vars PROVE [A]_vars
  <2>1. ASSUME NEW t \in Threads, pc[t] = "woken"
        PROVE  ticks >= called[t] + duration[t]
    <3>1. start[t] \in Nat /\ called[t] \in Nat /\ duration[t] \in Int /\ ticks \in Nat
      BY <1>1 DEF IInv, TypeOK
    <3>2. called[t] <= start[t] /\ start[t] + duration[t] <= ticks
      BY <1>1, <2>1 DEF IInv, Times, WakeTime
    <3> QED BY <3>1, <3>2
  <2> QED BY <2>1
<1> QED BY <1>1, Invariant, PTL DEF Spec, NeverEarly

\* Every sleeper is made ready by the first tick that can.
THEOREM WakesOnTime == Spec => OnTime
<1> DEFINE A == \A t \in Threads :
                  pc[t] = "blocked" /\ pc'[t] # "blocked" =>
                    /\ ticks' >= WakeTime(t) /\ ticks' > blocked[t]
                    /\ ticks' = WakeTime(t) \/ ticks' = blocked[t] + 1
<1>1. ASSUME IInv, [Next]_vars PROVE [A]_vars
  <2>1. ASSUME NEW t \in Threads, pc[t] = "blocked", pc'[t] # "blocked"
        PROVE  /\ ticks' >= WakeTime(t) /\ ticks' > blocked[t]
               /\ ticks' = WakeTime(t) \/ ticks' = blocked[t] + 1
    <3>1. TimerInterrupt
      <4>1. \A u \in Threads : ~Call(u) /\ ~Proceed(u)
        BY <1>1, <2>1 DEF Goto, Call, Proceed, ReadTicks, Block, Return, IInv, TypeOK
      <4>2. ~UNCHANGED vars
        BY <2>1 DEF vars
      <4> QED BY <1>1, <4>1, <4>2 DEF Next
    <3>2. ticks' = ticks + 1 /\ sleep_time[t] <= ticks + 1
      BY <1>1, <2>1, <3>1, Tick
    <3>3. /\ ticks \in Nat /\ blocked[t] \in Nat
          /\ start[t] \in Nat /\ duration[t] \in Int /\ WakeTime(t) = start[t] + duration[t]
      BY <1>1 DEF IInv, TypeOK, WakeTime
    <3>4. /\ sleep_time[t] = WakeTime(t) /\ blocked[t] <= ticks
          /\ WakeTime(t) > ticks \/ blocked[t] = ticks
      BY <1>1, <2>1 DEF IInv, Times
    <3> QED BY <3>2, <3>3, <3>4
  <2> QED BY <2>1
<1> QED BY <1>1, Invariant, PTL DEF Spec, OnTime

\* Timer implements Alarm.
THEOREM Implements == Spec => ImplementsAlarm
<1>1. Init => Abstract!Init
  BY DEF Init, Abstract!Init
<1>2. ASSUME IInv, [Next]_vars PROVE [Abstract!Next]_(Abstract!vars)
  <2>1. CASE TimerInterrupt
    <3>1. sleep_time' \in [Threads -> Nat] /\ ticks' = ticks + 1
      BY <1>2, <2>1, TickTimes, Tick DEF TypeOK
    <3>2. sleep_time' =
            [t \in Threads |-> IF sleep_time[t] <= ticks' THEN 0 ELSE sleep_time[t]]
      BY <1>2, <2>1, <3>1, Tick
    <3> QED BY <3>1, <3>2 DEF Abstract!Next, Abstract!Ring
  <2>2. ASSUME NEW t \in Threads, Block(t) PROVE Abstract!Set(t)
    <3>1. sleep_time[t] = 0 /\ sleep_time \in [Threads -> Nat]
      BY <1>2, <2>2 DEF IInv, TypeOK, SleepersListed, Block
    <3>2. sleep_time' = [sleep_time EXCEPT ![t] = WakeTime(t)] /\ WakeTime(t) \in Nat \ {0}
      BY <1>2, <2>2, BlockType DEF Block
    <3>3. sleep_time'[t] = WakeTime(t) /\ UNCHANGED ticks
      BY <2>2, <3>1, <3>2 DEF Block
    <3> QED BY <3>1, <3>2, <3>3 DEF Abstract!Set
  <2>3. ASSUME NEW t \in Threads, Local(t) PROVE UNCHANGED Abstract!vars
    BY <2>3 DEF Local, Call, ReadTicks, Return, Abstract!vars
  <2>4. CASE UNCHANGED vars
    BY <2>4 DEF vars, Abstract!vars
  <2> QED BY <1>2, <2>1, <2>2, <2>3, <2>4 DEF Next, Proceed, Local, Abstract!Next
<1> QED BY <1>1, <1>2, Invariant, PTL DEF Spec, ImplementsAlarm, Abstract!Spec
=============================================================================
