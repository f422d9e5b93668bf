------------------------------ MODULE Scheduler ------------------------------
(***************************************************************************)
(* The scheduler of Assignment 4 (threads/thread.c and the handler of      *)
(* devices/timer.c): one ready list ordered by priority, time slices, and  *)
(* with the option -o mlfqs priorities that are computed from nice and     *)
(* recent_cpu.                                                             *)
(*                                                                         *)
(* This is the kernel without the wake-up thread, which is created at      *)
(* thread.c:161-164, waited for at 175 and looked for by the handler at    *)
(* timer.c:206-212.  As submitted the kernel does not get past its start:  *)
(* nothing initialises sleeping_threads, so the thread, which runs first,  *)
(* and the handler at every tick follow the null pointer that list_begin   *)
(* gives them, and nobody raises wake_up_started.                          *)
(*                                                                         *)
(* A function that runs with interrupts off, the switch at its end         *)
(* included, is one step.  thread_create and thread_set_nice run with      *)
(* interrupts on: a tick, and other threads, may come between their steps. *)
(***************************************************************************)
EXTENDS Integers, Sequences, FiniteSets

CONSTANTS
  Threads,       \* the pages for threads, that of the initial thread among them
  Main, Idle,    \* initial_thread; idle_thread, which is not in Threads
  NULL,
  Priorities,    \* what is passed to thread_create and thread_set_priority
  Nices,         \* what is passed to thread_set_nice
  PRI_MAX, PRI_DEFAULT,   \* 63 and 31 in the code; PRI_MIN is 0
  TIME_SLICE, TIMER_FREQ, \* 4 and 100
  PriorityPeriod,         \* 4: the ticks between two updates of the running thread
  LoadSpan,               \* 60: the seconds load_avg averages over
  One,                    \* 2^FP_SHIFT_AMOUNT, the fixed-point 1
  MaxTicks                \* bound: the ticks that occur with -o mlfqs

ASSUME SchedulerAssumption ==
  /\ Main \in Threads /\ Idle \notin Threads /\ NULL \notin Threads
  /\ IsFiniteSet(Threads)
  /\ PRI_MAX \in Nat /\ PRI_DEFAULT \in 0..PRI_MAX
  /\ Priorities \subseteq 0..PRI_MAX /\ Nices \subseteq Int
  /\ {TIME_SLICE, TIMER_FREQ, PriorityPeriod, LoadSpan, One} \subseteq Nat \ {0}
  /\ MaxTicks \in Nat

VARIABLES
  thread_mlfqs,    \* the option: it never changes
  current,         \* the running thread
  status,          \* of each thread; "free" is a page without a thread
  ready_list,      \* in order
  all_list,        \* as a set: its comparison reads a wrong member, see Init_thread
  priority, nice, recent_cpu,
  load_avg,
  thread_ticks,    \* the ticks since the last switch
  ticks,           \* the ticks since the start; nobody reads them without -o mlfqs, where they stay 0
  pc,              \* where each thread is in thread_create or thread_set_nice
  made,            \* the new thread t of thread_create
  value            \* its parameter priority; the priority being computed by thread_set_nice

lists == <<current, status, ready_list, thread_ticks>>
levels == <<priority, nice, recent_cpu, load_avg>>
locals == <<made, value>>
vars == <<thread_mlfqs, lists, all_list, levels, ticks, pc, locals>>

All == Threads \cup {Idle}

\* After thread_init and a thread_start without lines 161-164 and 175: main runs, and
\* idle has set idle_thread and blocked.
Init ==
  /\ thread_mlfqs \in BOOLEAN
  /\ current = Main
  /\ status = [t \in All |-> CASE t = Main -> "running" [] t = Idle -> "blocked"
                               [] OTHER -> "free"]
  /\ ready_list = <<>>
  /\ all_list = {Main, Idle}
  /\ priority = [t \in All |-> IF t = Main THEN PRI_DEFAULT ELSE 0]
  /\ nice = [t \in All |-> 0]
  /\ recent_cpu = [t \in All |-> 0]
  /\ load_avg = 0
  /\ thread_ticks = 0
  /\ ticks = 0
  /\ pc = [t \in All |-> "run"]
  /\ made = [t \in All |-> NULL]
  /\ value = [t \in All |-> 0]

Goto(label) == pc' = [pc EXCEPT ![current] = label]
Runs(label) == current # Idle /\ pc[current] = label

(***************************************************************************)
(* The ready list and the switch.                                          *)
(***************************************************************************)

\* Mutants: at the end; before the first thread of the same priority.
PlaceLast(k, t, level) == k = Len(ready_list) + 1
PlaceBeforeEquals(k, t, level) ==
  /\ \A i \in 1..(k - 1) : level[t] < level[ready_list[i]]
  /\ k <= Len(ready_list) => level[ready_list[k]] <= level[t]

\* The place thread_cmp_priority gives t: before the first thread of a lower priority.
Place(k, t, level) ==
  /\ \A i \in 1..(k - 1) : level[t] <= level[ready_list[i]]
  /\ k <= Len(ready_list) => level[ready_list[k]] < level[t]

\* The ready list with t at place k.
Insert(k, t) ==
  [i \in 1..(Len(ready_list) + 1) |->
     IF i < k THEN ready_list[i] ELSE IF i = k THEN t ELSE ready_list[i - 1]]

Next_thread_to_run(list) == IF list = <<>> THEN Idle ELSE Head(list)

\* schedule and thread_schedule_tail: the running thread has become s, list is the ready list.
Schedule(list, s) ==
  /\ current' = Next_thread_to_run(list)
  /\ ready_list' = IF list = <<>> THEN <<>> ELSE Tail(list)
  /\ status' = [status EXCEPT ![current] = s, ![Next_thread_to_run(list)] = "running"]
  /\ thread_ticks' = 0

\* Mutant: idle is put on the list like any thread.
YieldIdleToo(level) ==
  \E k \in 1..(Len(ready_list) + 1) :
    Place(k, current, level) /\ Schedule(Insert(k, current), "ready")

\* thread_yield, when the priorities are level.
Yield(level) ==
  \/ current = Idle /\ Schedule(ready_list, "ready")
  \/ /\ current # Idle
     /\ \E k \in 1..(Len(ready_list) + 1) :
          Place(k, current, level) /\ Schedule(Insert(k, current), "ready")

\* thread_unblock, which does not preempt.
Unblocks(t) ==
  /\ \E k \in 1..(Len(ready_list) + 1) :
       Place(k, t, priority) /\ ready_list' = Insert(k, t)
  /\ status' = [status EXCEPT ![t] = "ready"]
  /\ UNCHANGED <<current, thread_ticks>>

(***************************************************************************)
(* What a running thread calls.                                            *)
(***************************************************************************)

\* thread_yield by a thread.
ThreadYield ==
  /\ Runs("run")
  /\ Yield(priority)
  /\ UNCHANGED <<thread_mlfqs, all_list, levels, ticks, pc, locals>>

\* thread_block, by a semaphore; in thread_create it is that of tid_lock.
Block ==
  /\ Runs("run") \/ Runs("created")
  /\ Schedule(ready_list, "blocked")
  /\ UNCHANGED <<thread_mlfqs, all_list, levels, ticks, pc, locals>>

\* The loop of idle.
IdleBlock ==
  /\ current = Idle
  /\ Schedule(ready_list, "blocked")
  /\ UNCHANGED <<thread_mlfqs, all_list, levels, ticks, pc, locals>>

\* thread_unblock by a semaphore, in the running thread or in a handler.
Unblock(t) ==
  /\ status[t] = "blocked" /\ pc[t] # "new"
  /\ Unblocks(t)
  /\ UNCHANGED <<thread_mlfqs, all_list, levels, ticks, pc, locals>>

\* thread_exit: the page of a thread that is not initial_thread is freed, and filled.
Exit ==
  /\ Runs("run")
  /\ Schedule(ready_list, IF current = Main THEN "dying" ELSE "free")
  /\ all_list' = all_list \ {current}
  /\ priority' = [priority EXCEPT ![current] = 0]
  /\ nice' = [nice EXCEPT ![current] = 0]
  /\ recent_cpu' = [recent_cpu EXCEPT ![current] = 0]
  /\ UNCHANGED <<thread_mlfqs, load_avg, ticks, pc, locals>>

\* init_thread.  The place on all_list is found by comparing elem's while the list links
\* allelem's: what is compared is outside the thread, any order may come.
Init_thread(t, p) ==
  /\ status' = [status EXCEPT ![t] = "blocked"]
  /\ priority' = [priority EXCEPT ![t] = p]
  /\ all_list' = all_list \cup {t}

\* thread_create, when a page is free, up to init_thread.
Create(t, p) ==
  /\ Runs("run")
  /\ status[t] = "free"
  /\ Init_thread(t, p)
  /\ pc' = [pc EXCEPT ![current] = "created", ![t] = "new"]
  /\ made' = [made EXCEPT ![current] = t]
  /\ value' = [value EXCEPT ![current] = p]
  /\ UNCHANGED <<thread_mlfqs, current, ready_list, thread_ticks, nice, recent_cpu, load_avg, ticks>>

\* thread_create: the new thread is put on the ready list.
CreateUnblock ==
  /\ Runs("created")
  /\ Unblocks(made[current])
  /\ pc' = [pc EXCEPT ![current] = "unblocked", ![made[current]] = "run"]
  /\ made' = [made EXCEPT ![current] = NULL]
  /\ UNCHANGED <<thread_mlfqs, all_list, levels, ticks, value>>

\* thread_create: the test at its end, of the priority of the caller against the parameter.
CreateYield ==
  /\ Runs("unblocked")
  /\ IF priority[current] < value[current] THEN Yield(priority) ELSE UNCHANGED lists
  /\ Goto("run")
  /\ value' = [value EXCEPT ![current] = 0]
  /\ UNCHANGED <<thread_mlfqs, all_list, levels, ticks, made>>

\* thread_set_priority, which returns at once with -o mlfqs; no thread holds a lock here.
SetPriority(p) ==
  /\ Runs("run") /\ ~thread_mlfqs
  /\ priority' = [priority EXCEPT ![current] = p]
  /\ Yield(priority')
  /\ UNCHANGED <<thread_mlfqs, all_list, nice, recent_cpu, load_avg, ticks, pc, locals>>

(***************************************************************************)
(* The multi-level feedback queue.                                         *)
(***************************************************************************)

\* FP_DIV_MIX: the division of C, which truncates.
Quotient(a, b) == IF a >= 0 THEN a \div b ELSE -((-a) \div b)

\* mlfqs_update_priority up to the first store.
Level(rc, n) == (PRI_MAX * One - Quotient(rc, 4) - 2 * n * One) \div One

\* Mutant: no test of the upper bound.
ClampBelow(p) == IF p < 0 THEN 0 ELSE p

\* The range tests of mlfqs_update_priority.
Clamp(p) == IF p < 0 THEN 0 ELSE IF p > PRI_MAX THEN PRI_MAX ELSE p

\* mlfqs_inc_recent_cpu.
Charged == [t \in All |-> IF t = current /\ t # Idle THEN recent_cpu[t] + One ELSE recent_cpu[t]]

\* The threads that count for load_avg.
Ready_cnt == Len(ready_list) + (IF current = Idle THEN 0 ELSE 1)

\* Mutant: the new threads are not divided by the span.
LoadUndivided(load, cnt) == (load * (LoadSpan - 1)) \div LoadSpan + cnt * One

Load(load, cnt) == (load * (LoadSpan - 1)) \div LoadSpan + (cnt * One) \div LoadSpan

Decayed(load, rc, n) == (((2 * load * One) \div (2 * load + One)) * rc) \div One + n * One

\* mlfqs_update_load_avg_and_recent_cpu: every thread but idle; the ready list stays as it is.
UpdateAll ==
  LET rc == [t \in All |-> IF t \in all_list \ {Idle}
                             THEN Decayed(Load(load_avg, Ready_cnt), Charged[t], nice[t])
                             ELSE Charged[t]]
  IN /\ load_avg' = Load(load_avg, Ready_cnt)
     /\ recent_cpu' = rc
     /\ priority' = [t \in All |-> IF t \in all_list \ {Idle} THEN Clamp(Level(rc[t], nice[t]))
                                                              ELSE priority[t]]

\* mlfqs_update_priority of the running thread.
UpdateCurrent ==
  /\ recent_cpu' = Charged
  /\ priority' = [t \in All |-> IF t = current /\ t # Idle THEN Clamp(Level(Charged[t], nice[t]))
                                                           ELSE priority[t]]
  /\ UNCHANGED load_avg

\* timer_interrupt: the part for -o mlfqs, at tick now.
Account(now) ==
  \/ ~thread_mlfqs /\ UNCHANGED <<recent_cpu, priority, load_avg>>
  \/ thread_mlfqs /\ now % TIMER_FREQ = 0 /\ UpdateAll
  \/ thread_mlfqs /\ now % TIMER_FREQ # 0 /\ now % PriorityPeriod = 0 /\ UpdateCurrent
  \/ /\ thread_mlfqs /\ now % TIMER_FREQ # 0 /\ now % PriorityPeriod # 0
     /\ recent_cpu' = Charged
     /\ UNCHANGED <<priority, load_avg>>

\* timer_interrupt with thread_tick, without the look at sleeping_threads (timer.c:206-212),
\* and the yield on return that it may ask for.
TimerInterrupt ==
  /\ IF thread_mlfqs THEN ticks < MaxTicks /\ ticks' = ticks + 1 ELSE UNCHANGED ticks
  /\ Account(ticks')
  /\ \/ thread_ticks + 1 >= TIME_SLICE /\ Yield(priority')
     \/ /\ thread_ticks + 1 < TIME_SLICE
        /\ thread_ticks' = thread_ticks + 1
        /\ UNCHANGED <<current, status, ready_list>>
  /\ UNCHANGED <<thread_mlfqs, all_list, nice, pc, locals>>

\* thread_set_nice: the store of nice; it may be called only with -o mlfqs.
SetNice(n) ==
  /\ Runs("run") /\ thread_mlfqs
  /\ nice' = [nice EXCEPT ![current] = n]
  /\ Goto("nice")
  /\ UNCHANGED <<thread_mlfqs, lists, all_list, priority, recent_cpu, load_avg, ticks, locals>>

\* mlfqs_update_priority with interrupts on: the members are read,
NiceCompute ==
  /\ Runs("nice")
  /\ value' = [value EXCEPT ![current] = Level(recent_cpu[current], nice[current])]
  /\ Goto("computed")
  /\ UNCHANGED <<thread_mlfqs, lists, all_list, levels, ticks, made>>

\* the result is stored,
NiceStore ==
  /\ Runs("computed")
  /\ priority' = [priority EXCEPT ![current] = value[current]]
  /\ value' = [value EXCEPT ![current] = 0]
  /\ Goto("stored")
  /\ UNCHANGED <<thread_mlfqs, lists, all_list, nice, recent_cpu, load_avg, ticks, made>>

\* and put in range.
NiceClamp ==
  /\ Runs("stored")
  /\ priority' = [priority EXCEPT ![current] = Clamp(@)]
  /\ Goto("clamped")
  /\ UNCHANGED <<thread_mlfqs, lists, all_list, nice, recent_cpu, load_avg, ticks, locals>>

NiceYield ==
  /\ Runs("clamped")
  /\ Yield(priority)
  /\ Goto("run")
  /\ UNCHANGED <<thread_mlfqs, all_list, levels, ticks, locals>>

ThreadStep ==
  \/ ThreadYield \/ Block \/ Exit \/ CreateUnblock \/ CreateYield
  \/ \E t \in Threads, p \in Priorities : Create(t, p)
  \/ \E p \in Priorities : SetPriority(p)
  \/ \E n \in Nices : SetNice(n)
  \/ NiceCompute \/ NiceStore \/ NiceClamp \/ NiceYield

Next == ThreadStep \/ IdleBlock \/ TimerInterrupt \/ \E t \in Threads : Unblock(t)

Spec == Init /\ [][Next]_vars

(***************************************************************************)
(* Properties.                                                             *)
(***************************************************************************)

\* Types.  A priority is out of range only between the store of thread_set_nice and the
\* test after it, where its thread may be preempted (thread.c:528-533).
TypeOK ==
  /\ thread_mlfqs \in BOOLEAN
  /\ current \in All
  /\ status \in [All -> {"running", "ready", "blocked", "dying", "free"}]
  /\ ready_list \in Seq(Threads)
  /\ all_list \subseteq All
  /\ priority \in [All -> Int]
  /\ \A t \in All : pc[t] # "stored" => priority[t] \in 0..PRI_MAX
  /\ nice \in [All -> Int] /\ recent_cpu \in [All -> Int]
  /\ load_avg \in Nat
  /\ thread_ticks \in 0..(TIME_SLICE - 1) /\ ticks \in 0..MaxTicks
  /\ pc \in [All -> {"run", "new", "created", "unblocked", "nice", "computed", "stored", "clamped"}]
  /\ made \in [All -> Threads \cup {NULL}]
  /\ value \in [All -> Int]

OnList == {ready_list[i] : i \in 1..Len(ready_list)}

\* The lists agree with the states of the threads whatever is preempted where: one thread
\* runs, each ready thread but idle is once on ready_list and nobody else is, and all_list
\* has the threads that are not dead, those being made included (elem is one link for all
\* lists: a thread put on one twice breaks it).
ListsExact ==
  /\ {t \in All : status[t] = "running"} = {current}
  /\ OnList = {t \in Threads : status[t] = "ready"}
  /\ \A i, j \in 1..Len(ready_list) : ready_list[i] = ready_list[j] => i = j
  /\ all_list = {t \in All : status[t] \notin {"dying", "free"}}

Sorted == \A i, j \in 1..Len(ready_list) : i < j => priority[ready_list[i]] >= priority[ready_list[j]]

\* Without -o mlfqs the list next_thread_to_run takes the head of is sorted by priority.
PrioritySorted == ~thread_mlfqs => Sorted

\* load_avg is at most the number of threads, so load_avg * 100 fits an int for 327 threads.
LoadBounded == load_avg <= One * Cardinality(Threads)

\* u is before t on the ready list.
Before(u, t) == \E i, j \in 1..Len(ready_list) : i < j /\ ready_list[i] = u /\ ready_list[j] = t

\* Without -o mlfqs, while a thread waits on the ready list nobody gets in front of it but
\* with a higher priority, whatever is created, unblocked, preempted or changes its priority
\* meanwhile: with the bound on thread_ticks this is round robin, and no thread that nobody
\* outranks is starved.
NoOvertaking ==
  [][~thread_mlfqs => \A t, u \in Threads :
       (t \in OnList /\ t \in OnList' /\ ~Before(u, t) /\ Before(u, t)')
         => priority'[u] > priority'[t]]_vars

\* With -o mlfqs too the ready list is sorted ("is able to maintain the ready list in sorted
\* order of priorities", the design document): it is not, see UpdateAll.
AlwaysSorted == Sorted
===============================================================================
