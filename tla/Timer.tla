------------------------------- MODULE Timer -------------------------------
(***************************************************************************)
(* timer_sleep and timer_interrupt of Assignment 3 (devices/timer.c):      *)
(* a sleeping thread is blocked on a list ordered by the time it is to     *)
(* wake at, and the handler wakes the threads at the front of the list.    *)
(*                                                                         *)
(* The current time is read with interrupts on: ticks may pass, and other  *)
(* threads may go to sleep, before the thread that read it has blocked.    *)
(* From intr_disable to the switch in thread_block, and in the handler,    *)
(* interrupts are off: each of these is one step.                          *)
(***************************************************************************)
EXTENDS Integers, Sequences

CONSTANTS
  Threads,      \* the threads that sleep
  Durations,    \* what they pass to timer_sleep
  MaxTicks      \* bound: the timer interrupts that occur

ASSUME TimerAssumption ==
  /\ Durations \subseteq Int
  /\ MaxTicks \in Nat

VARIABLES
  ticks,               \* the ticks since the start
  sleeping_threads,    \* the list of the sleeping threads
  sleep_time,          \* the member of each struct thread; 0 when it does not sleep
  pc,                  \* where each thread is in timer_sleep
  duration, start,     \* the parameter and the local variable of timer_sleep
  called, blocked      \* history: the ticks when it was called, and when it blocked

sleep == <<duration, start, called>>
vars == <<ticks, sleeping_threads, sleep_time, pc, sleep, blocked>>

Init ==
  /\ ticks = 0
  /\ sleeping_threads = <<>>
  /\ sleep_time = [t \in Threads |-> 0]
  /\ pc = [t \in Threads |-> "out"]
  /\ duration = [t \in Threads |-> 0]
  /\ start = [t \in Threads |-> 0]
  /\ called = [t \in Threads |-> 0]
  /\ blocked = [t \in Threads |-> 0]

Goto(t, label) == pc' = [pc EXCEPT ![t] = label]

\* Mutant: no test of the parameter.
CallUnchecked(t) ==
  /\ pc[t] = "out"
  /\ \E d \in Durations : duration' = [duration EXCEPT ![t] = d]
  /\ called' = [called EXCEPT ![t] = ticks]
  /\ Goto(t, "entered")
  /\ UNCHANGED <<ticks, sleeping_threads, sleep_time, start, blocked>>

\* timer_sleep returns at once, which changes nothing, unless there is something to sleep.
Call(t) ==
  /\ pc[t] = "out"
  /\ \E d \in Durations :
       /\ d > 0
       /\ duration' = [duration EXCEPT ![t] = d]
  /\ called' = [called EXCEPT ![t] = ticks]
  /\ Goto(t, "entered")
  /\ UNCHANGED <<ticks, sleeping_threads, sleep_time, start, blocked>>

ReadTicks(t) ==
  /\ pc[t] = "entered"
  /\ start' = [start EXCEPT ![t] = ticks]
  /\ Goto(t, "started")
  /\ UNCHANGED <<ticks, sleeping_threads, sleep_time, duration, called, blocked>>

WakeTime(t) == start[t] + duration[t]

\* Mutant: the order of the list is not kept.
LastPlace(k, time) == k = Len(sleeping_threads) + 1

\* The place list_insert_ordered finds for time: before the first thread to wake later.
Place(k, time) ==
  /\ \A i \in 1..(k - 1) : sleep_time[sleeping_threads[i]] <= time
  /\ k <= Len(sleeping_threads) => time < sleep_time[sleeping_threads[k]]

Insert(s, k, t) ==
  [i \in 1..(Len(s) + 1) |-> IF i < k THEN s[i] ELSE IF i = k THEN t ELSE s[i - 1]]

Block(t) ==
  /\ pc[t] = "started"
  /\ sleep_time' = [sleep_time EXCEPT ![t] = WakeTime(t)]
  /\ \E k \in 1..(Len(sleeping_threads) + 1) :
       /\ Place(k, WakeTime(t))
       /\ sleeping_threads' = Insert(sleeping_threads, k, t)
  /\ blocked' = [blocked EXCEPT ![t] = ticks]
  /\ Goto(t, "blocked")
  /\ UNCHANGED <<ticks, sleep>>

\* Mutants: the handler wakes a tick early; it wakes only what is due at this very tick.
DueSoon(t, now) == sleep_time[t] <= now + 1
DueNow(t, now) == sleep_time[t] = now

\* The handler goes on past a thread that is due.
Due(t, now) == sleep_time[t] <= now

\* The threads the handler wakes: the first n of the list.
Woken(n) == {sleeping_threads[i] : i \in 1..n}

\* Mutant: the woken threads stay on the list.
TimerInterruptNoRemove ==
  /\ ticks < MaxTicks
  /\ ticks' = ticks + 1
  /\ \E n \in 0..Len(sleeping_threads) :
       /\ \A t \in Woken(n) : Due(t, ticks + 1)
       /\ n < Len(sleeping_threads) => ~Due(sleeping_threads[n + 1], ticks + 1)
       /\ sleep_time' = [t \in Threads |-> IF t \in Woken(n) THEN 0 ELSE sleep_time[t]]
       /\ pc' = [t \in Threads |-> IF t \in Woken(n) THEN "woken" ELSE pc[t]]
  /\ UNCHANGED <<sleep, blocked, sleeping_threads>>

\* timer_interrupt: it stops at the first thread that is not due.
TimerInterrupt ==
  /\ ticks < MaxTicks
  /\ ticks' = ticks + 1
  /\ \E n \in 0..Len(sleeping_threads) :
       /\ \A t \in Woken(n) : Due(t, ticks + 1)
       /\ n < Len(sleeping_threads) => ~Due(sleeping_threads[n + 1], ticks + 1)
       /\ sleeping_threads' = SubSeq(sleeping_threads, n + 1, Len(sleeping_threads))
       /\ sleep_time' = [t \in Threads |-> IF t \in Woken(n) THEN 0 ELSE sleep_time[t]]
       /\ pc' = [t \in Threads |-> IF t \in Woken(n) THEN "woken" ELSE pc[t]]
  /\ UNCHANGED <<sleep, blocked>>

\* The local variables end with the call.
Return(t) ==
  /\ pc[t] = "woken"
  /\ Goto(t, "out")
  /\ duration' = [duration EXCEPT ![t] = 0]
  /\ start' = [start EXCEPT ![t] = 0]
  /\ called' = [called EXCEPT ![t] = 0]
  /\ blocked' = [blocked EXCEPT ![t] = 0]
  /\ UNCHANGED <<ticks, sleeping_threads, sleep_time>>

\* What the scheduler makes every ready thread do.
Proceed(t) == ReadTicks(t) \/ Block(t) \/ Return(t)

Next == TimerInterrupt \/ \E t \in Threads : Call(t) \/ Proceed(t)

Spec == Init /\ [][Next]_vars

\* The 8254 goes on ticking, and the scheduler is round-robin.
FairSpec == Spec /\ WF_vars(TimerInterrupt) /\ \A t \in Threads : WF_vars(Proceed(t))

-----------------------------------------------------------------------------
(* Properties. *)

\* Every variable has its type; no thread is to be woken before the start of time.
TypeOK ==
  /\ ticks \in 0..MaxTicks
  /\ sleeping_threads \in Seq(Threads)
  /\ sleep_time \in [Threads -> Nat]
  /\ pc \in [Threads -> {"out", "entered", "started", "blocked", "woken"}]
  /\ duration \in [Threads -> Int]
  /\ start \in [Threads -> 0..MaxTicks]
  /\ called \in [Threads -> 0..MaxTicks]
  /\ blocked \in [Threads -> 0..MaxTicks]

\* The list holds the blocked threads, each once and with a time to wake at, and no
\* other: the handler never unblocks a thread that is not blocked (an assertion of
\* thread_unblock), and no thread is blocked out of its reach.
SleepersListed ==
  /\ \A t \in Threads :
       pc[t] = "blocked" <=> \E i \in 1..Len(sleeping_threads) : sleeping_threads[i] = t
  /\ \A i, k \in 1..Len(sleeping_threads) :
       sleeping_threads[i] = sleeping_threads[k] => i = k
  /\ \A t \in Threads : pc[t] = "blocked" <=> sleep_time[t] # 0

\* timer_sleep never returns before the time it was asked for has passed since the call,
\* however long the call was preempted and whoever else sleeps.
NeverEarly ==
  [][\A t \in Threads :
       pc[t] = "woken" /\ pc'[t] = "out" => ticks >= called[t] + duration[t]]_vars

\* A thread is made ready by the very tick it waits for, or, if that one has passed
\* before the thread had blocked, by the next tick: no sleeper delays another one.
OnTime ==
  [][\A t \in Threads :
       pc[t] = "blocked" /\ pc'[t] # "blocked" =>
         /\ ticks' >= WakeTime(t) /\ ticks' > blocked[t]
         /\ ticks' = WakeTime(t) \/ ticks' = blocked[t] + 1]_vars

\* The list and the walk over its front do what a look at every sleeper would do.
Abstract == INSTANCE Alarm WITH now <- ticks, alarm <- sleep_time
ImplementsAlarm == Abstract!Spec

\* Whoever sleeps comes back, if the time it waits for comes at all.
SleeperReturns ==
  \A t \in Threads :
    pc[t] = "blocked" /\ WakeTime(t) <= MaxTicks /\ ticks < MaxTicks ~> pc[t] = "out"
=============================================================================
