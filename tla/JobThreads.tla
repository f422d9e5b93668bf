----------------------------- MODULE JobThreads -----------------------------
(***************************************************************************)
(* The job scheduler of Assignment 5, thread version                       *)
(* (Ass5_11_18CS10063_18CS10011_thread.cpp): main creates producer and     *)
(* consumer threads that share a max-heap of jobs under one global mutex,  *)
(* polls the counters, cancels the threads and returns, which ends those   *)
(* that are left.                                                          *)
(*                                                                         *)
(* Cancellation is deferred: a thread dies at a sleep, while it prints, or *)
(* while its random number generator is made, but not in                   *)
(* pthread_mutex_lock.  A critical section is a step for each side of such *)
(* a point; nobody can see the heap inside one, so insert_job and          *)
(* remove_job are functions here (JobQueue has their loops as steps).      *)
(***************************************************************************)
EXTENDS Naturals, FiniteSets

CONSTANTS
  NProd, NCons, Jobs,  \* prods, cons and jobs, read from the user
  PQ_SIZE,             \* slots of priority_q; slot 0 is never used
  Priorities           \* what create_job draws a priority from (1..10 in the code)

ASSUME JobThreadsAssumption ==
  /\ NProd \in Nat /\ NCons \in Nat /\ Jobs \in Nat
  /\ PQ_SIZE \in Nat /\ PQ_SIZE > 1
  /\ Priorities \subseteq Nat

Main == 0
Producers == 1..NProd
Consumers == (NProd + 1)..(NProd + NCons)
Threads == 1..(NProd + NCons)

\* A job, reduced to its priority and a serial number (the job_id of the code is random).
Job == [id : 1..Jobs, priority : Priorities]
NoJob == [id |-> 0, priority |-> 0]

Slots == 1..(PQ_SIZE - 1)
Heaps == [Slots -> Job \cup {NoJob}]

VARIABLES
  priority_q, job_created, job_completed, curr_size,  \* the shared memory
  mutex,      \* the set of threads that hold the lock
  pc,         \* where each thread is, main included
  new_job,    \* of each producer
  created,    \* the threads main has created
  cancelled,  \* the threads main has called pthread_cancel for
  taken       \* history: the jobs remove_job has returned

shared == <<priority_q, job_created, job_completed, curr_size>>
vars == <<shared, mutex, pc, new_job, created, cancelled, taken>>

Init ==
  /\ priority_q = [i \in Slots |-> NoJob]
  /\ job_created = 0 /\ job_completed = 0 /\ curr_size = 0
  /\ mutex = {}
  /\ pc = [s \in {Main} \cup Threads |-> IF s = Main THEN "create" ELSE "unborn"]
  /\ new_job = [p \in Producers |-> NoJob]
  /\ created = 0 /\ cancelled = {}
  /\ taken = {}

Goto(self, label) == pc' = [pc EXCEPT ![self] = label]
Release(self) == mutex' = mutex \ {self}

\* When main has returned the program is gone.
Running == pc[Main] # "exited"

-----------------------------------------------------------------------------
(* The heap: insert_job and remove_job. *)

\* Mutant: a sift-up that stops one level too early.
BeatsParentOffByOne(q, i) == i > 2 /\ q[i \div 2].priority < q[i].priority

BeatsParent(q, i) == i > 1 /\ q[i \div 2].priority < q[i].priority

Swap(q, i, k) == [q EXCEPT ![i] = q[k], ![k] = q[i]]

\* q when the job at k has risen to its place.
Risen(q, k) ==
  LET rise[i \in Slots] ==
        [h \in Heaps |-> IF BeatsParent(h, i) THEN rise[i \div 2][Swap(h, i, i \div 2)] ELSE h]
  IN rise[k][q]

\* k if it is in use, in a heap of n jobs, and beats i, else i.
Larger(q, n, i, k) == IF k <= n /\ q[i].priority < q[k].priority THEN k ELSE i
Target(q, n, i) == Larger(q, n, Larger(q, n, i, 2 * i), 2 * i + 1)

\* q, a heap of n jobs, when the job at its root has sunk to its place.
Sunk(q, n) ==
  LET sink[i \in Slots] ==
        [h \in Heaps |-> IF Target(h, n, i) = i THEN h
                         ELSE sink[Target(h, n, i)][Swap(h, i, Target(h, n, i))]]
  IN sink[1][q]

Insert_job(job) ==
  /\ curr_size' = curr_size + 1
  /\ priority_q' = Risen([priority_q EXCEPT ![curr_size + 1] = job], curr_size + 1)

\* The job that is returned is priority_q[1].
Remove_job ==
  /\ curr_size' = curr_size - 1
  /\ priority_q' = IF curr_size = 1 THEN priority_q
                   ELSE Sunk([priority_q EXCEPT ![1] = priority_q[curr_size]], curr_size - 1)

-----------------------------------------------------------------------------
(* Main. *)

\* pthread_create, whose result is not tested: that it fails is not modelled.
Create ==
  /\ pc[Main] = "create"
  /\ \/ /\ created < NProd + NCons
        /\ created' = created + 1
        /\ Goto(created', IF created' \in Producers THEN "pLock" ELSE "cSleep")
     \/ /\ created = NProd + NCons
        /\ Goto(Main, "mLock")
        /\ UNCHANGED created
  /\ UNCHANGED <<shared, mutex, new_job, cancelled, taken>>

\* Mutant: a poll that forgets job_completed.
FinishedWhenCreated == job_created = Jobs

Finished == job_created = Jobs /\ job_completed = Jobs

MainPoll ==
  /\ pc[Main] = "mCheck"
  /\ Release(Main)
  /\ Goto(Main, IF Finished THEN "mCancel" ELSE "mLock")
  /\ UNCHANGED <<shared, new_job, created, cancelled, taken>>

\* pthread_cancel of each thread in turn, then the return that ends them all.
Cancel ==
  /\ pc[Main] = "mCancel"
  /\ \E t \in Threads :
       /\ \A s \in 1..(t - 1) : s \in cancelled
       /\ t \notin cancelled
       /\ cancelled' = cancelled \cup {t}
  /\ UNCHANGED <<shared, mutex, pc, new_job, created, taken>>

MainExit ==
  /\ pc[Main] = "mCancel" /\ cancelled = Threads
  /\ Goto(Main, "exited")
  /\ UNCHANGED <<shared, mutex, new_job, created, cancelled, taken>>

-----------------------------------------------------------------------------
(* The threads. *)

\* Where a thread is once a pthread_mutex_lock has returned.
AfterLock ==
  [mLock |-> "mCheck", pLock |-> "pCheck", pRelock |-> "pInsert", cLock |-> "cCheck"]

Lock(self) ==
  /\ Running
  /\ pc[self] \in DOMAIN AfterLock
  /\ mutex = {} /\ mutex' = {self}
  /\ Goto(self, AfterLock[pc[self]])
  /\ UNCHANGED <<shared, new_job, created, cancelled, taken>>

HasRoom == curr_size < PQ_SIZE - 1

\* The places where a cancelled thread dies: sleep, the making of a generator in create_job,
\* the printing of a job.
CancellationPoint(t) ==
  \/ pc[t] \in {"pSleep", "cSleep", "cPrint", "cCompute"}
  \/ pc[t] = "pCheck" /\ job_created < Jobs /\ HasRoom
  \/ pc[t] = "pInsert" /\ HasRoom

\* A thread that is cancelled keeps what it holds: there is no clean-up handler.
Die(t) ==
  /\ Running
  /\ t \in cancelled /\ CancellationPoint(t)
  /\ Goto(t, "cancelled")
  /\ UNCHANGED <<shared, mutex, new_job, created, cancelled, taken>>

\* producer_generate_job: all jobs are created, a new one is, or the queue is full.
ProducerCheck(p) ==
  /\ Running /\ pc[p] = "pCheck"
  /\ Release(p)
  /\ \/ job_created >= Jobs /\ Goto(p, "done") /\ UNCHANGED <<job_created, new_job>>
     \/ /\ job_created < Jobs /\ HasRoom
        /\ \E pri \in Priorities :
             new_job' = [new_job EXCEPT ![p] = [id |-> job_created + 1, priority |-> pri]]
        /\ job_created' = job_created + 1
        /\ Goto(p, "pSleep")
     \/ job_created < Jobs /\ ~HasRoom /\ Goto(p, "pLock") /\ UNCHANGED <<job_created, new_job>>
  /\ UNCHANGED <<priority_q, job_completed, curr_size, created, cancelled, taken>>

\* The job is inserted, or another try is made.
ProducerInsert(p) ==
  /\ Running /\ pc[p] = "pInsert"
  /\ Release(p)
  /\ \/ /\ HasRoom
        /\ Insert_job(new_job[p])
        /\ new_job' = [new_job EXCEPT ![p] = NoJob]
        /\ Goto(p, "pLock")
     \/ ~HasRoom /\ Goto(p, "pRelock") /\ UNCHANGED <<priority_q, curr_size, new_job>>
  /\ UNCHANGED <<job_created, job_completed, created, cancelled, taken>>

\* A sleep that ends: after a creation, before a look at the queue, for the time of a job.
Wake(t) ==
  /\ Running
  /\ \/ pc[t] = "pSleep" /\ Goto(t, "pRelock")
     \/ pc[t] = "cSleep" /\ Goto(t, "cLock")
     \/ pc[t] = "cCompute" /\ Goto(t, "cSleep")
  /\ UNCHANGED <<shared, mutex, new_job, created, cancelled, taken>>

\* consumer_finish_job: all jobs are completed, one is removed, or there is none.
ConsumerCheck(c) ==
  /\ Running /\ pc[c] = "cCheck"
  /\ \/ job_completed >= Jobs /\ Release(c) /\ Goto(c, "done") /\ UNCHANGED <<priority_q, curr_size, taken>>
     \/ /\ job_completed < Jobs /\ curr_size > 0
        /\ Remove_job
        /\ taken' = taken \cup {priority_q[1]}
        /\ Goto(c, "cPrint")
        /\ UNCHANGED mutex
     \/ /\ job_completed < Jobs /\ curr_size = 0
        /\ Release(c)
        /\ Goto(c, "cSleep")
        /\ UNCHANGED <<priority_q, curr_size, taken>>
  /\ UNCHANGED <<job_created, job_completed, new_job, created, cancelled>>

\* The job is printed and counted, before its computation.
ConsumerCount(c) ==
  /\ Running /\ pc[c] = "cPrint"
  /\ job_completed' = job_completed + 1
  /\ Release(c)
  /\ Goto(c, "cCompute")
  /\ UNCHANGED <<priority_q, job_created, curr_size, new_job, created, cancelled, taken>>

Next ==
  \/ Create \/ MainPoll \/ Cancel \/ MainExit
  \/ \E s \in {Main} \cup Threads : Lock(s)
  \/ \E p \in Producers : ProducerCheck(p) \/ ProducerInsert(p)
  \/ \E c \in Consumers : ConsumerCheck(c) \/ ConsumerCount(c)
  \/ \E t \in Threads : Die(t) \/ Wake(t)

Spec == Init /\ [][Next]_vars

-----------------------------------------------------------------------------
(* Properties. *)

\* No thread dies in a critical section: the places where cancellation could reach one that
\* holds the mutex, and leave it locked with a job half moved, are passed before main's poll
\* can succeed (thread.cpp:101-115 against 144, 160 and 200).
NoLockLost == \A t \in Threads : pc[t] = "cancelled" => t \notin mutex

\* This version implements the pool too, the cancellations included: no job is lost or
\* handed out twice, and a consumer always takes one of the highest priority.
Pool == INSTANCE JobPool WITH
  Capacity <- PQ_SIZE - 1,
  made <- job_created,
  held <- [p \in Producers |-> {new_job[p]} \ {NoJob}],
  pool <- {priority_q[i] : i \in 1..curr_size},
  taken <- taken
ImplementsPool == Pool!Spec
=============================================================================
