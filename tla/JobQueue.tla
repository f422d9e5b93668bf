------------------------------ MODULE JobQueue ------------------------------
(***************************************************************************)
(* The job scheduler of Assignment 5, process version                      *)
(* (Ass5_11_18CS10063_18CS10011_process.cpp): main forks NProd producers   *)
(* and NCons consumers that share a segment holding a max-heap of jobs,    *)
(* two counters and a process-shared mutex.  Main polls the counters and,  *)
(* when every job was created and completed, sends SIGTERM to each child.  *)
(*                                                                         *)
(* One step is one acquisition of the mutex, one body of a critical        *)
(* section, one iteration of a heap loop inside insert_job or remove_job,  *)
(* or one system call of main.  The random sleeps only delay a process and *)
(* are not steps, except the sleep that stands for a job's computation.    *)
(***************************************************************************)
EXTENDS Naturals, FiniteSets

CONSTANTS
  NProd,       \* number of producers, read from the user
  NCons,       \* number of consumers, read from the user
  Jobs,        \* number of jobs, read from the user
  PQ_SIZE,     \* slots of priority_q; slot 0 is never used
  Priorities   \* what create_job draws a priority from (1..10 in the code)

ASSUME ConstantsAssumption ==
  /\ NProd \in Nat /\ NCons \in Nat /\ Jobs \in Nat
  /\ PQ_SIZE \in Nat /\ PQ_SIZE > 1
  /\ Priorities \subseteq Nat

Main == 0
Producers == 1..NProd
Consumers == (NProd + 1)..(NProd + NCons)
Children == 1..(NProd + NCons)
Procs == 0..(NProd + NCons)

\* A job, reduced to its priority and to a serial number that tells jobs apart
\* (the job_id of the code is random and need not be unique).
Job == [id : 1..Jobs, priority : Priorities]
NoJob == [id |-> 0, priority |-> 0]

VARIABLES
  priority_q, job_created, job_completed, curr_size,  \* the shared segment ...
  mutex,       \* ... and its lock: the set of processes that hold it
  pc,          \* where each process is
  job,         \* new_job of a producer, rem_job of a consumer
  index,       \* the loop index of a process: in the heap, or main's over the children
  forked,      \* how many children main has forked
  signalled,   \* the children SIGTERM was sent to
  reaped,      \* the children a waitpid of main has collected
  taken,       \* history: the jobs remove_job has returned or is about to return
  computed     \* history: the jobs whose computation ran to its end

segment == <<priority_q, job_created, job_completed, curr_size>>
ended == <<forked, signalled, reaped>>
history == <<taken, computed>>
vars == <<segment, mutex, pc, job, index, ended, history>>

ProducerLabels == {"unborn", "pLock", "pCheck", "pRelock", "pInsert", "pSift", "done", "killed"}
ConsumerLabels == {"unborn", "cLock", "cCheck", "cSift", "cCompute", "done", "killed"}
MainLabels == {"fork", "failed", "mLock", "mCheck", "mKill", "mWait", "exited"}
Dead == {"done", "killed"}

\* create_mem: a fresh segment, nothing forked yet.
Init ==
  /\ priority_q = [i \in 1..(PQ_SIZE - 1) |-> NoJob]
  /\ job_created = 0 /\ job_completed = 0 /\ curr_size = 0
  /\ mutex = {}
  /\ pc = [s \in Procs |-> IF s = Main THEN "fork" ELSE "unborn"]
  /\ job = [c \in Children |-> NoJob]
  /\ index = [s \in Procs |-> 1]
  /\ forked = 0 /\ signalled = {} /\ reaped = {}
  /\ taken = {} /\ computed = {}

-----------------------------------------------------------------------------
(* The mutex.  It is not robust (PTHREAD_MUTEX_STALLED): a holder that dies
   keeps it for ever. *)

Goto(self, label) == pc' = [pc EXCEPT ![self] = label]
Acquire(self) == mutex = {} /\ mutex' = {self}
Release(self) == mutex' = mutex \ {self}

\* Where a process is once a pthread_mutex_lock has returned.
AfterLock ==
  [mLock |-> "mCheck", pLock |-> "pCheck", pRelock |-> "pInsert", cLock |-> "cCheck"]

Lock(self) ==
  /\ pc[self] \in DOMAIN AfterLock
  /\ Acquire(self)
  /\ Goto(self, AfterLock[pc[self]])
  /\ UNCHANGED <<segment, job, index, ended, history>>

-----------------------------------------------------------------------------
(* Main: forks the children in order, polls, kills. *)

Fork ==
  /\ pc[Main] = "fork"
  /\ forked < NProd + NCons
  /\ forked' = forked + 1
  /\ Goto(forked', IF forked' \in Producers THEN "pLock" ELSE "cLock")
  /\ UNCHANGED <<segment, mutex, job, index, signalled, reaped, history>>

\* fork returns -1: main exits at once and leaves the children it has.
ForkFails ==
  /\ pc[Main] = "fork"
  /\ forked < NProd + NCons
  /\ Goto(Main, "failed")
  /\ UNCHANGED <<segment, mutex, job, index, ended, history>>

AllForked ==
  /\ pc[Main] = "fork"
  /\ forked = NProd + NCons
  /\ Goto(Main, "mLock")
  /\ UNCHANGED <<segment, mutex, job, index, ended, history>>

\* Mutants: a poll that forgets job_completed; a SIGTERM loop that skips the first child.
FinishedWhenCreated == job_created = Jobs
KillAllButFirst ==
  /\ pc[Main] = "mKill"
  /\ index[Main] <= forked
  /\ signalled' = signalled \cup ({index[Main]} \ {1})
  /\ Goto(Main, "mWait")
  /\ UNCHANGED <<segment, mutex, job, index, forked, reaped, history>>

Finished == job_created = Jobs /\ job_completed = Jobs

MainPoll ==
  /\ pc[Main] = "mCheck"
  /\ Release(Main)
  /\ Goto(Main, IF Finished THEN "mKill" ELSE "mLock")
  /\ UNCHANGED <<segment, job, index, ended, history>>

Kill ==
  /\ pc[Main] = "mKill"
  /\ index[Main] <= forked
  /\ signalled' = signalled \cup {index[Main]}
  /\ Goto(Main, "mWait")
  /\ UNCHANGED <<segment, mutex, job, index, forked, reaped, history>>

\* waitpid(..., WNOHANG) collects the child only when it is dead already.
WaitNoHang ==
  /\ pc[Main] = "mWait"
  /\ reaped' = IF pc[index[Main]] \in Dead THEN reaped \cup {index[Main]} ELSE reaped
  /\ index' = [index EXCEPT ![Main] = @ + 1]
  /\ Goto(Main, "mKill")
  /\ UNCHANGED <<segment, mutex, job, forked, signalled, history>>

MainExit ==
  /\ pc[Main] = "mKill"
  /\ index[Main] > forked
  /\ Goto(Main, "exited")
  /\ UNCHANGED <<segment, mutex, job, index, ended, history>>

\* The default action of SIGTERM, at whatever point the child has reached.
SigTerm(c) ==
  /\ c \in signalled
  /\ pc[c] \notin Dead
  /\ Goto(c, "killed")
  /\ UNCHANGED <<segment, mutex, job, index, ended, history>>

-----------------------------------------------------------------------------
(* A producer: producer_generate_job, create_job, insert_job. *)

\* Mutant: the unused slot 0 counted as room.
HasRoomOffByOne == curr_size < PQ_SIZE

HasRoom == curr_size < PQ_SIZE - 1

ProducerDone(p) ==
  /\ pc[p] = "pCheck"
  /\ job_created >= Jobs
  /\ Release(p)
  /\ Goto(p, "done")
  /\ UNCHANGED <<segment, job, index, ended, history>>

\* The job is counted as created before there is a slot for it.
ProducerCreate(p) ==
  /\ pc[p] = "pCheck"
  /\ job_created < Jobs
  /\ HasRoom
  /\ \E pri \in Priorities :
       job' = [job EXCEPT ![p] = [id |-> job_created + 1, priority |-> pri]]
  /\ job_created' = job_created + 1
  /\ Release(p)
  /\ Goto(p, "pRelock")
  /\ UNCHANGED <<priority_q, job_completed, curr_size, index, ended, history>>

ProducerFull(p) ==
  /\ pc[p] = "pCheck"
  /\ job_created < Jobs
  /\ ~HasRoom
  /\ Release(p)
  /\ Goto(p, "pLock")
  /\ UNCHANGED <<segment, job, index, ended, history>>

\* insert_job up to its loop; an empty heap is the case index = 1 of it.
ProducerInsert(p) ==
  /\ pc[p] = "pInsert"
  /\ HasRoom
  /\ curr_size' = curr_size + 1
  /\ priority_q' = [priority_q EXCEPT ![curr_size + 1] = job[p]]
  /\ index' = [index EXCEPT ![p] = curr_size + 1]
  /\ job' = [job EXCEPT ![p] = NoJob]
  /\ Goto(p, "pSift")
  /\ UNCHANGED <<job_created, job_completed, mutex, ended, history>>

\* Mutant: a producer that finds the queue full gives its job up.
ProducerGivesUp(p) ==
  /\ pc[p] = "pInsert"
  /\ ~HasRoom
  /\ job' = [job EXCEPT ![p] = NoJob]
  /\ Release(p)
  /\ Goto(p, "pLock")
  /\ UNCHANGED <<segment, index, ended, history>>

ProducerRetry(p) ==
  /\ pc[p] = "pInsert"
  /\ ~HasRoom
  /\ Release(p)
  /\ Goto(p, "pRelock")
  /\ UNCHANGED <<segment, job, index, ended, history>>

\* Mutant: a sift-up that stops one level too early.
BeatsParentOffByOne(i) == i > 2 /\ priority_q[i \div 2].priority < priority_q[i].priority

Swap(i, k) == [priority_q EXCEPT ![i] = priority_q[k], ![k] = priority_q[i]]

\* The entry at i beats its parent.
BeatsParent(i) == i > 1 /\ priority_q[i \div 2].priority < priority_q[i].priority

SiftUp(p) ==
  /\ pc[p] = "pSift"
  /\ BeatsParent(index[p])
  /\ priority_q' = Swap(index[p], index[p] \div 2)
  /\ index' = [index EXCEPT ![p] = @ \div 2]
  /\ UNCHANGED <<job_created, job_completed, curr_size, mutex, pc, job, ended, history>>

Inserted(p) ==
  /\ pc[p] = "pSift"
  /\ ~BeatsParent(index[p])
  /\ Release(p)
  /\ Goto(p, "pLock")
  /\ UNCHANGED <<segment, job, index, ended, history>>

-----------------------------------------------------------------------------
(* A consumer: consumer_finish_job, remove_job. *)

ConsumerDone(c) ==
  /\ pc[c] = "cCheck"
  /\ job_completed >= Jobs
  /\ Release(c)
  /\ Goto(c, "done")
  /\ UNCHANGED <<segment, job, index, ended, history>>

\* Mutant: nothing to take, and the mutex kept.
ConsumerEmptyLocked(c) ==
  /\ pc[c] = "cCheck"
  /\ job_completed < Jobs
  /\ curr_size = 0
  /\ Goto(c, "cLock")
  /\ UNCHANGED <<segment, mutex, job, index, ended, history>>

ConsumerEmpty(c) ==
  /\ pc[c] = "cCheck"
  /\ job_completed < Jobs
  /\ curr_size = 0
  /\ Release(c)
  /\ Goto(c, "cLock")
  /\ UNCHANGED <<segment, job, index, ended, history>>

\* remove_job up to its loop; a heap of one entry is the case where the loop ends at once.
ConsumerRemove(c) ==
  /\ pc[c] = "cCheck"
  /\ job_completed < Jobs
  /\ curr_size > 0
  /\ job' = [job EXCEPT ![c] = priority_q[1]]
  /\ priority_q' = [priority_q EXCEPT ![1] = priority_q[curr_size]]
  /\ curr_size' = curr_size - 1
  /\ index' = [index EXCEPT ![c] = 1]
  /\ taken' = taken \cup {priority_q[1]}
  /\ Goto(c, "cSift")
  /\ UNCHANGED <<job_created, job_completed, mutex, ended, computed>>

\* k if it is in use and beats i, else i; then i or the larger of its children.
Larger(i, k) ==
  IF k <= curr_size /\ priority_q[i].priority < priority_q[k].priority THEN k ELSE i
\* Mutant: the right child is never looked at.
TargetLeftOnly(i) == Larger(i, 2 * i)

Target(i) == Larger(Larger(i, 2 * i), 2 * i + 1)

SiftDown(c) ==
  /\ pc[c] = "cSift"
  /\ Target(index[c]) # index[c]
  /\ priority_q' = Swap(Target(index[c]), index[c])
  /\ index' = [index EXCEPT ![c] = Target(index[c])]
  /\ UNCHANGED <<job_created, job_completed, curr_size, mutex, pc, job, ended, history>>

\* The job is counted as completed here, before its computation starts.
Removed(c) ==
  /\ pc[c] = "cSift"
  /\ Target(index[c]) = index[c]
  /\ job_completed' = job_completed + 1
  /\ Release(c)
  /\ Goto(c, "cCompute")
  /\ UNCHANGED <<priority_q, job_created, curr_size, job, index, ended, history>>

Compute(c) ==
  /\ pc[c] = "cCompute"
  /\ computed' = computed \cup {job[c]}
  /\ job' = [job EXCEPT ![c] = NoJob]
  /\ Goto(c, "cLock")
  /\ UNCHANGED <<segment, mutex, index, ended, taken>>

-----------------------------------------------------------------------------

MainStep == Fork \/ ForkFails \/ AllForked \/ MainPoll \/ Kill \/ WaitNoHang \/ MainExit

ProducerStep(p) ==
  \/ ProducerDone(p) \/ ProducerCreate(p) \/ ProducerFull(p)
  \/ ProducerInsert(p) \/ ProducerRetry(p) \/ SiftUp(p) \/ Inserted(p)

ConsumerStep(c) ==
  \/ ConsumerDone(c) \/ ConsumerEmpty(c) \/ ConsumerRemove(c)
  \/ SiftDown(c) \/ Removed(c) \/ Compute(c)

Next ==
  \/ MainStep
  \/ \E s \in Procs : Lock(s)
  \/ \E p \in Producers : ProducerStep(p)
  \/ \E c \in Consumers : ConsumerStep(c)
  \/ \E c \in Children : SigTerm(c)

Spec == Init /\ [][Next]_vars

\* A process that can step keeps stepping, and one that waits for the mutex gets it
\* if it is free again and again.  A fork may fail but need not.
Fairness ==
  /\ WF_vars(Fork \/ AllForked \/ MainPoll \/ Kill \/ WaitNoHang \/ MainExit)
  /\ \A s \in Procs : SF_vars(Lock(s))
  /\ \A p \in Producers : WF_vars(ProducerStep(p))
  /\ \A c \in Consumers : WF_vars(ConsumerStep(c))
  /\ \A c \in Children : WF_vars(SigTerm(c))

FairSpec == Spec /\ Fairness

-----------------------------------------------------------------------------
(* Properties. *)

Slots == 1..curr_size
Queued == {priority_q[i] : i \in Slots}
Held == {job[p] : p \in Producers} \ {NoJob}
Locked == {"mCheck", "pCheck", "pInsert", "pSift", "cCheck", "cSift"}
Sifting == {s \in Children : pc[s] \in {"pSift", "cSift"}}

\* Every process is at a place of its own code.
PcTypeOK ==
  /\ pc \in [Procs -> MainLabels \cup ProducerLabels \cup ConsumerLabels]
  /\ pc[Main] \in MainLabels
  /\ \A p \in Producers : pc[p] \in ProducerLabels
  /\ \A c \in Consumers : pc[c] \in ConsumerLabels

\* Every variable has its type; in particular curr_size never exceeds the PQ_SIZE-1 slots
\* and no more jobs are made than main asked for.
TypeOK ==
  /\ PcTypeOK
  /\ priority_q \in [1..(PQ_SIZE - 1) -> Job \cup {NoJob}]
  /\ job_created \in 0..Jobs /\ job_completed \in Nat /\ curr_size \in 0..(PQ_SIZE - 1)
  /\ mutex \in SUBSET Procs
  /\ job \in [Children -> Job \cup {NoJob}]
  /\ index \in [Procs -> Nat]
  /\ forked \in 0..(NProd + NCons)
  /\ signalled \in SUBSET Children /\ reaped \in SUBSET Children
  /\ taken \in SUBSET Job /\ computed \in SUBSET Job

\* At most one process is inside a critical section, whoever died holding the lock
\* included: the segment is only ever touched by the one holder of its mutex.
MutualExclusion ==
  /\ \A s \in Procs : pc[s] \in Locked => mutex = {s}
  /\ \A s \in mutex : pc[s] \in Locked \cup {"killed"}

\* No job is in two places: two slots, two processes, or the queue and a process that has
\* it in hand or took it.
NoDuplicates ==
  /\ \A i, k \in Slots : priority_q[i].id = priority_q[k].id => i = k
  /\ \A c, d \in Children : job[c] # NoJob /\ job[c].id = job[d].id => c = d
  /\ \A j, k \in taken : j.id = k.id => j = k
  /\ \A j \in Queued, k \in Held : j.id # k.id
  /\ \A j \in Queued \cup Held, k \in taken : j.id # k.id

\* Every job counted in job_created is in the queue, in the hand of the producer that made
\* it, or was taken; insertions, the swaps of both heap loops and the overwritten root lose
\* and duplicate none.
ExactlyOnce ==
  /\ NoDuplicates
  /\ \A n \in 1..job_created : \E j \in Queued \cup Held \cup taken : j.id = n

\* Whenever the mutex is free, priority_q is a max-heap (insert_job, remove_job).
HeapOrder ==
  mutex = {} => \A i \in 2..curr_size : priority_q[i].priority <= priority_q[i \div 2].priority

\* job_completed counts the jobs handed out, except the one a remove_job in progress
\* is about to return.
TakenIds == {j.id : j \in taken}
CompletedCount ==
  Cardinality(TakenIds) =
    IF \E c \in Consumers : pc[c] = "cSift" THEN job_completed + 1 ELSE job_completed

\* Main starts to kill only when nothing is left to do: all jobs were made and taken, none
\* is queued or in a producer's hand, and no child is changing the heap, so that SIGTERM
\* can neither lose a job nor leave the heap half changed.
KillOnlyWhenQuiet ==
  pc[Main] \in {"mKill", "mWait", "exited"} =>
    /\ Queued = {} /\ Held = {}
    /\ TakenIds = 1..Jobs
    /\ Sifting = {}

\* The scheduler implements the pool: the heap, its lock and the processes together do
\* what JobPool promises; a consumer always takes a job of the highest priority.
Pool == INSTANCE JobPool WITH
  Capacity <- PQ_SIZE - 1,
  made <- job_created,
  held <- [p \in Producers |-> {job[p]} \ {NoJob}],
  pool <- Queued,
  taken <- taken
ImplementsPool == Pool!Spec

\* Once all children are forked every job is eventually taken, whatever the interleaving,
\* if there is at least one of each kind: full-queue retries end, and no job is stranded.
AllJobsTaken ==
  pc[Main] = "mLock" /\ NProd > 0 /\ NCons > 0 ~> TakenIds = 1..Jobs

\* Every child that main forked together with all the others ends, by itself or by SIGTERM,
\* even when a child dies holding the mutex that others wait for.
ChildrenEnd ==
  \A c \in Children :
    pc[Main] = "mLock" /\ NProd > 0 /\ NCons > 0 ~> pc[c] \in Dead

\* When main stops and reports the total time, every job it counts as completed has been
\* computed: job_completed is the "Number of jobs completed", and by document.txt a consumer
\* that extracts a job "waits for the time duration defined in its computation time".
CompletedMeansComputed == pc[Main] = "exited" => computed = taken
=============================================================================
