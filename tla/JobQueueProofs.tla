--------------------------- MODULE JobQueueProofs ---------------------------
(***************************************************************************)
(* Proofs about JobQueue for every number of producers, consumers and      *)
(* jobs, every queue size and every set of priorities.                     *)
(***************************************************************************)
EXTENDS JobQueue, TLAPS, FiniteSetTheorems, WellFoundedInduction

(* The inductive invariant. *)

\* Exactly the children main has not forked yet are unborn, and none of them is signalled.
UnbornInv ==
  /\ \A c \in Children : pc[c] = "unborn" <=> c > forked
  /\ \A c \in signalled : c <= forked

\* A producer holds a job between its two critical sections, a consumer one it took.
HandInv ==
  /\ \A p \in Producers : job[p] # NoJob <=> pc[p] \in {"pRelock", "pInsert"}
  /\ \A c \in Consumers : pc[c] \in {"cSift", "cCompute"} => job[c] # NoJob
  /\ \A c \in Consumers : job[c] # NoJob => job[c] \in taken

\* Main's shutdown loop works on a forked child.
MainLoopInv == index[Main] > 0 /\ (pc[Main] = "mWait" => index[Main] <= forked)

\* A heap loop works on a slot in use, or on the root.
IndexInv ==
  /\ \A p \in Producers : pc[p] = "pSift" => index[p] \in Slots
  /\ \A c \in Consumers : pc[c] = "cSift" => index[c] > 0

\* Slots in use hold jobs, and no job is newer than the counter.
SlotInv ==
  /\ \A i \in Slots : priority_q[i] \in Job
  /\ \A j \in Queued \cup Held \cup taken : j.id <= job_created

\* priority_q is a heap except at the slot a heap loop works on: an entry sifting up may
\* beat its parent, one sifting down may be beaten by its children, and the children of
\* the slot never beat its parent.
NotBeaten(i, k) == priority_q[i].priority <= priority_q[k].priority
HeapInv ==
  /\ Sifting = {} => \A i \in 2..curr_size : NotBeaten(i, i \div 2)
  /\ \A p \in Producers : pc[p] = "pSift" =>
       /\ \A i \in 2..curr_size : i # index[p] => NotBeaten(i, i \div 2)
       /\ \A i \in 2..curr_size :
            i \div 2 = index[p] /\ index[p] > 1 => NotBeaten(i, index[p] \div 2)
  /\ \A c \in Consumers : pc[c] = "cSift" =>
       /\ \A i \in 2..curr_size : i \div 2 # index[c] => NotBeaten(i, i \div 2)
       /\ \A i \in 2..curr_size :
            i \div 2 = index[c] /\ index[c] > 1 => NotBeaten(i, index[c] \div 2)

\* Main's shutdown loop runs when both counters have reached Jobs, and only it signals.
QuietInv ==
  /\ pc[Main] \in {"mKill", "mWait", "exited"} => Finished
  /\ signalled # {} => pc[Main] \in {"mKill", "mWait", "exited"}

\* The inductive invariant.
IInv ==
  /\ TypeOK /\ MutualExclusion /\ UnbornInv /\ MainLoopInv
  /\ HandInv /\ IndexInv /\ SlotInv
  /\ ExactlyOnce /\ CompletedCount /\ HeapInv /\ QuietInv /\ KillOnlyWhenQuiet

-----------------------------------------------------------------------------
(* Facts about the constants and the heap's arithmetic. *)

\* Processes are numbered 0..NProd+NCons; producers and consumers share no number.
LEMMA ProcFacts ==
  /\ Producers \subseteq Children /\ Consumers \subseteq Children
  /\ Children = Producers \cup Consumers
  /\ Producers \cap Consumers = {}
  /\ Procs = Children \cup {Main} /\ Main \notin Children
  /\ Children \subseteq Nat /\ Procs \subseteq Nat
BY ConstantsAssumption, SMT DEF Producers, Consumers, Children, Procs, Main

\* The parent of a slot is a smaller slot.
LEMMA Halves ==
  ASSUME NEW i \in Nat, i > 1
  PROVE  i \div 2 \in Nat /\ i \div 2 >= 1 /\ i \div 2 < i
BY SMT

\* The slots whose parent is i are 2i and 2i+1.
LEMMA HalfChildren ==
  ASSUME NEW i \in Nat, NEW k \in Nat, k > 1
  PROVE  k \div 2 = i <=> k = 2 * i \/ k = 2 * i + 1
BY SMT

\* The slots in use are slots of the array.
LEMMA SlotRange ==
  ASSUME TypeOK
  PROVE  /\ Slots \subseteq 1..(PQ_SIZE - 1)
         /\ \A i \in Slots : i \in Nat /\ 1 <= i /\ i <= curr_size
         /\ curr_size > 0 => 1 \in Slots /\ curr_size \in Slots
BY ConstantsAssumption, SMT DEF Slots, TypeOK

\* Where SiftDown goes: a child of the slot that is in use.
LEMMA TargetSlot ==
  ASSUME curr_size \in Nat, NEW i \in Nat, i > 0, Target(i) # i
  PROVE  /\ Target(i) = 2 * i \/ Target(i) = 2 * i + 1
         /\ Target(i) \in Slots /\ i \in Slots
<1>1. Larger(i, 2 * i) = i \/ (Larger(i, 2 * i) = 2 * i /\ 2 * i <= curr_size)
  BY DEF Larger
<1>2. Target(i) = Larger(i, 2 * i) \/ (Target(i) = 2 * i + 1 /\ 2 * i + 1 <= curr_size)
  BY DEF Larger, Target
<1> QED
  BY <1>1, <1>2, SMT DEF Slots

\* What exchanging two slots does to the array.
LEMMA SwapFacts ==
  ASSUME TypeOK, NEW i \in 1..(PQ_SIZE - 1), NEW k \in 1..(PQ_SIZE - 1)
  PROVE  /\ Swap(i, k) \in [1..(PQ_SIZE - 1) -> Job \cup {NoJob}]
         /\ Swap(i, k)[i] = priority_q[k] /\ Swap(i, k)[k] = priority_q[i]
         /\ \A m \in 1..(PQ_SIZE - 1) : m # i /\ m # k => Swap(i, k)[m] = priority_q[m]
BY DEF Swap, TypeOK

-----------------------------------------------------------------------------
(* Each part of the invariant is preserved. *)

\* The initial values have their types.
LEMMA TypeInit == Init => TypeOK
BY ConstantsAssumption, ProcFacts, SMT
   DEF Init, TypeOK, PcTypeOK, MainLabels, ProducerLabels, ConsumerLabels, NoJob, Main

\* Going to a label of the process's own code keeps pc well typed.
LEMMA GotoType ==
  ASSUME PcTypeOK, NEW s \in Procs, NEW l, Goto(s, l),
         s = Main => l \in MainLabels,
         s \in Producers => l \in ProducerLabels,
         s \in Consumers => l \in ConsumerLabels
  PROVE  PcTypeOK'
BY ProcFacts, Zenon DEF PcTypeOK, Goto

\* Every step keeps the types: ProducerInsert tests for room under the lock, and only a
\* producer that saw fewer than Jobs jobs makes one.
LEMMA TypeStep == IInv /\ [Next]_vars => TypeOK'
<1> SUFFICES ASSUME IInv, [Next]_vars PROVE TypeOK'
  OBVIOUS
<1> USE ConstantsAssumption, ProcFacts
<1>t. TypeOK /\ IndexInv /\ MainLoopInv
  BY DEF IInv
<1> USE <1>t
<1>1. CASE MainStep
  <2>1. CASE Fork
    <3>1. forked' \in Children /\ forked' \in Procs /\ forked' # Main /\ forked' \in 0..(NProd + NCons)
      BY <2>1, SMT DEF Fork, TypeOK, Children, Procs, Main
    <3>2. PcTypeOK'
      BY <2>1, <3>1, GotoType DEF Fork, TypeOK, ProducerLabels, ConsumerLabels
    <3> QED
      BY <2>1, <3>1, <3>2 DEF Fork, TypeOK, segment, history
  <2>2. CASE ForkFails \/ AllForked \/ MainExit
    <3>1. PcTypeOK'
      BY <2>2, GotoType DEF ForkFails, AllForked, MainExit, TypeOK, MainLabels
    <3> QED
      BY <2>2, <3>1 DEF ForkFails, AllForked, MainExit, TypeOK, segment, history, ended
  <2>3. CASE MainPoll
    <3>1. PcTypeOK'
      BY <2>3, GotoType DEF MainPoll, TypeOK, MainLabels
    <3> QED
      BY <2>3, <3>1 DEF MainPoll, Release, TypeOK, segment, history, ended
  <2>4. CASE Kill
    <3>1. PcTypeOK'
      BY <2>4, GotoType DEF Kill, TypeOK, MainLabels
    <3>2. index[Main] \in Children
      BY <2>4, SMT DEF Kill, TypeOK, MainLoopInv, Children
    <3> QED
      BY <2>4, <3>1, <3>2 DEF Kill, TypeOK, segment, history
  <2>5. CASE WaitNoHang
    <3>1. PcTypeOK'
      BY <2>5, GotoType DEF WaitNoHang, TypeOK, MainLabels
    <3>2. index[Main] \in Children
      BY <2>5, SMT DEF WaitNoHang, TypeOK, MainLoopInv, Children
    <3>3. index[Main] + 1 \in Nat
      BY SMT DEF TypeOK
    <3> QED
      BY <2>5, <3>1, <3>2, <3>3 DEF WaitNoHang, TypeOK, segment, history
  <2> QED
    BY <1>1, <2>1, <2>2, <2>3, <2>4, <2>5 DEF MainStep
<1>2. ASSUME NEW s \in Procs, Lock(s) PROVE TypeOK'
  <2>1. /\ pc[s] \in MainLabels => AfterLock[pc[s]] \in MainLabels
        /\ pc[s] \in ProducerLabels => AfterLock[pc[s]] \in ProducerLabels
        /\ pc[s] \in ConsumerLabels => AfterLock[pc[s]] \in ConsumerLabels
    BY <1>2, SMT DEF Lock, AfterLock, MainLabels, ProducerLabels, ConsumerLabels
  <2>2. PcTypeOK'
    BY <1>2, <2>1, GotoType DEF Lock, TypeOK, PcTypeOK
  <2> QED
    BY <1>2, <2>2 DEF Lock, Acquire, TypeOK, segment, history, ended
<1>3. ASSUME NEW p \in Producers, ProducerStep(p) PROVE TypeOK'
  <2>1. CASE ProducerDone(p) \/ ProducerFull(p) \/ ProducerRetry(p) \/ Inserted(p)
    <3>1. PcTypeOK'
      BY <2>1, GotoType DEF ProducerDone, ProducerFull, ProducerRetry, Inserted, TypeOK, ProducerLabels
    <3> QED
      BY <2>1, <3>1
      DEF ProducerDone, ProducerFull, ProducerRetry, Inserted, Release, TypeOK, segment, history, ended
  <2>2. CASE ProducerCreate(p)
    <3>1. PcTypeOK'
      BY <2>2, GotoType DEF ProducerCreate, TypeOK, ProducerLabels
    <3>2. job_created' \in 0..Jobs /\ job_created + 1 \in 1..Jobs
      BY <2>2, SMT DEF ProducerCreate, TypeOK
    <3>3. job' \in [Children -> Job \cup {NoJob}]
      BY <2>2, <3>2 DEF ProducerCreate, TypeOK, Job
    <3> QED
      BY <2>2, <3>1, <3>2, <3>3 DEF ProducerCreate, Release, TypeOK, history, ended
  <2>3. CASE ProducerInsert(p)
    <3>1. PcTypeOK'
      BY <2>3, GotoType DEF ProducerInsert, TypeOK, ProducerLabels
    <3>2. curr_size' \in 0..(PQ_SIZE - 1) /\ curr_size + 1 \in Nat
      BY <2>3, SMT DEF ProducerInsert, HasRoom, TypeOK
    <3> QED
      BY <2>3, <3>1, <3>2 DEF ProducerInsert, TypeOK, history, ended
  <2>4. CASE SiftUp(p)
    <3>1. index[p] \in Slots /\ index[p] \div 2 \in Nat
          /\ index[p] \in 1..(PQ_SIZE - 1) /\ index[p] \div 2 \in 1..(PQ_SIZE - 1)
      BY <2>4, Halves, SMT DEF SiftUp, BeatsParent, IndexInv, Slots, TypeOK
    <3> QED
      BY <2>4, <3>1, SwapFacts DEF SiftUp, TypeOK, PcTypeOK, history, ended
  <2> QED
    BY <1>3, <2>1, <2>2, <2>3, <2>4 DEF ProducerStep
<1>4. ASSUME NEW c \in Consumers, ConsumerStep(c) PROVE TypeOK'
  <2>1. CASE ConsumerDone(c) \/ ConsumerEmpty(c)
    <3>1. PcTypeOK'
      BY <2>1, GotoType DEF ConsumerDone, ConsumerEmpty, TypeOK, ConsumerLabels
    <3> QED
      BY <2>1, <3>1 DEF ConsumerDone, ConsumerEmpty, Release, TypeOK, segment, history, ended
  <2>2. CASE ConsumerRemove(c)
    <3>1. PcTypeOK'
      BY <2>2, GotoType DEF ConsumerRemove, TypeOK, ConsumerLabels
    <3>2. curr_size' \in 0..(PQ_SIZE - 1) /\ curr_size \in 1..(PQ_SIZE - 1) /\ 1 \in Slots
          /\ 1 \in 1..(PQ_SIZE - 1)
      BY <2>2, SMT DEF ConsumerRemove, TypeOK, Slots
    <3>3. priority_q[1] \in Job
      BY <3>2 DEF IInv, SlotInv
    <3> QED
      BY <2>2, <3>1, <3>2, <3>3 DEF ConsumerRemove, TypeOK, ended
  <2>3. CASE SiftDown(c)
    <3>1. index[c] \in 1..(PQ_SIZE - 1) /\ Target(index[c]) \in 1..(PQ_SIZE - 1)
      BY <2>3, TargetSlot, SMT DEF Slots, SiftDown, IndexInv, TypeOK
    <3>2. priority_q' \in [1..(PQ_SIZE - 1) -> Job \cup {NoJob}]
      BY <2>3, <3>1, SwapFacts DEF SiftDown
    <3>3. index' = [index EXCEPT ![c] = Target(index[c])] /\ index' \in [Procs -> Nat]
      BY <2>3, <3>1 DEF SiftDown, TypeOK
    <3> QED
      BY <2>3, <3>2, <3>3 DEF SiftDown, TypeOK, PcTypeOK, history, ended
  <2>4. CASE Removed(c)
    <3>1. PcTypeOK'
      BY <2>4, GotoType DEF Removed, TypeOK, ConsumerLabels
    <3>2. job_completed' \in Nat
      BY <2>4, SMT DEF Removed, TypeOK
    <3> QED
      BY <2>4, <3>1, <3>2 DEF Removed, Release, TypeOK, history, ended
  <2>5. CASE Compute(c)
    <3>1. PcTypeOK'
      BY <2>5, GotoType DEF Compute, TypeOK, ConsumerLabels
    <3>2. job[c] \in Job
      BY <2>5 DEF Compute, IInv, HandInv, TypeOK
    <3> QED
      BY <2>5, <3>1, <3>2 DEF Compute, TypeOK, segment, ended
  <2> QED
    BY <1>4, <2>1, <2>2, <2>3, <2>4, <2>5 DEF ConsumerStep
<1>5. ASSUME NEW c \in Children, SigTerm(c) PROVE TypeOK'
  <2>1. PcTypeOK'
    BY <1>5, GotoType DEF SigTerm, TypeOK, ProducerLabels, ConsumerLabels
  <2> QED
    BY <1>5, <2>1 DEF SigTerm, TypeOK, segment, history, ended
<1>6. CASE UNCHANGED vars
  BY <1>6 DEF vars, segment, history, ended, TypeOK, PcTypeOK
<1> QED
  BY <1>1, <1>2, <1>3, <1>4, <1>5, <1>6 DEF Next

\* The ways in which the steps of a process move it in or out of a critical section.
LEMMA GotoMutex ==
  ASSUME TypeOK, MutualExclusion, NEW s \in Procs, NEW l, Goto(s, l),
         \/ l \notin Locked /\ mutex' = mutex \ {s}
         \/ l \in Locked /\ pc[s] \in Locked /\ mutex' = mutex
         \/ l = "killed" /\ mutex' = mutex
         \/ l \in Locked /\ mutex = {} /\ mutex' = {s}
  PROVE  MutualExclusion'
<1> USE DEF TypeOK, PcTypeOK, MutualExclusion, Goto
<1>1. pc' = [pc EXCEPT ![s] = l] /\ pc \in [Procs -> MainLabels \cup ProducerLabels \cup ConsumerLabels]
  OBVIOUS
<1>2. CASE l \notin Locked /\ mutex' = mutex \ {s}
  BY <1>1, <1>2
<1>3. CASE l \in Locked /\ pc[s] \in Locked /\ mutex' = mutex
  BY <1>1, <1>3
<1>4. CASE l = "killed" /\ mutex' = mutex
  BY <1>1, <1>4 DEF Locked
<1>5. CASE l \in Locked /\ mutex = {} /\ mutex' = {s}
  BY <1>1, <1>5
<1> QED
  BY <1>2, <1>3, <1>4, <1>5

\* The mutex never has two holders: every step inside a critical section is one of its
\* holder, and a killed holder never gives it back.
LEMMA MutexStep == IInv /\ [Next]_vars => MutualExclusion'
<1> SUFFICES ASSUME IInv, [Next]_vars PROVE MutualExclusion'
  OBVIOUS
<1> USE ProcFacts
<1>t. TypeOK /\ MutualExclusion
  BY DEF IInv
<1> USE <1>t
<1>m. \A s \in Procs : pc[s] \notin Locked \cup {"killed"} => mutex = mutex \ {s}
  BY DEF MutualExclusion
<1>1. CASE MainStep
  <2>1. CASE Fork
    <3>1. forked' \in Children /\ forked' > forked
      BY <2>1, ConstantsAssumption, SMT DEF Fork, TypeOK, Children
    <3>2. forked' \in Procs /\ pc[forked'] = "unborn" /\ mutex' = mutex
      BY <2>1, <3>1 DEF Fork, IInv, UnbornInv
    <3> QED
      BY <2>1, <3>2, <1>m, GotoMutex DEF Fork, Locked
  <2>2. CASE ForkFails \/ AllForked \/ MainExit \/ Kill \/ WaitNoHang
    BY <2>2, <1>m, GotoMutex DEF ForkFails, AllForked, MainExit, Kill, WaitNoHang, Locked
  <2>3. CASE MainPoll
    BY <2>3, GotoMutex DEF MainPoll, Release, Locked
  <2> QED
    BY <1>1, <2>1, <2>2, <2>3 DEF MainStep
<1>2. ASSUME NEW s \in Procs, Lock(s) PROVE MutualExclusion'
  <2>1. AfterLock[pc[s]] \in Locked
    BY <1>2 DEF Lock, AfterLock, Locked
  <2> QED
    BY <1>2, <2>1, GotoMutex DEF Lock, Acquire
<1>3. ASSUME NEW p \in Producers, ProducerStep(p) PROVE MutualExclusion'
  <2>1. CASE ProducerDone(p) \/ ProducerFull(p) \/ ProducerRetry(p) \/ Inserted(p) \/ ProducerCreate(p)
    BY <2>1, GotoMutex
    DEF ProducerDone, ProducerFull, ProducerRetry, Inserted, ProducerCreate, Release, Locked
  <2>2. CASE ProducerInsert(p)
    BY <2>2, GotoMutex DEF ProducerInsert, Locked
  <2>3. CASE SiftUp(p)
    BY <2>3 DEF SiftUp, MutualExclusion
  <2> QED
    BY <1>3, <2>1, <2>2, <2>3 DEF ProducerStep
<1>4. ASSUME NEW c \in Consumers, ConsumerStep(c) PROVE MutualExclusion'
  <2>1. CASE ConsumerDone(c) \/ ConsumerEmpty(c) \/ Removed(c)
    BY <2>1, GotoMutex DEF ConsumerDone, ConsumerEmpty, Removed, Release, Locked
  <2>2. CASE ConsumerRemove(c)
    BY <2>2, GotoMutex DEF ConsumerRemove, Locked
  <2>3. CASE SiftDown(c)
    BY <2>3 DEF SiftDown, MutualExclusion
  <2>4. CASE Compute(c)
    BY <2>4, <1>m, GotoMutex DEF Compute, Locked
  <2> QED
    BY <1>4, <2>1, <2>2, <2>3, <2>4 DEF ConsumerStep
<1>5. ASSUME NEW c \in Children, SigTerm(c) PROVE MutualExclusion'
  BY <1>5, GotoMutex DEF SigTerm
<1>6. CASE UNCHANGED vars
  BY <1>6 DEF vars, MutualExclusion
<1> QED
  BY <1>1, <1>2, <1>3, <1>4, <1>5, <1>6 DEF Next

\* The index of main stays within the children it forked.
LEMMA MainLoopStep == IInv /\ [Next]_vars => MainLoopInv'
<1> SUFFICES ASSUME IInv, [Next]_vars PROVE MainLoopInv'
  OBVIOUS
<1> USE ProcFacts
<1>t. TypeOK /\ PcTypeOK /\ MainLoopInv
  BY DEF IInv, TypeOK
<1> USE <1>t
<1>k. \A l : \A s \in Children : Goto(s, l) => pc'[Main] = pc[Main]
  BY DEF Goto, PcTypeOK
<1>1. CASE MainStep
  <2>1. CASE Fork
    <3>1. forked' \in Children /\ pc[Main] # "mWait"
      BY <2>1, ConstantsAssumption, SMT DEF Fork, TypeOK, Children
    <3> QED
      BY <2>1, <3>1, <1>k DEF Fork, MainLoopInv
  <2>2. CASE WaitNoHang
    <3>1. index'[Main] > 0
      BY <2>2, SMT DEF WaitNoHang, TypeOK, MainLoopInv
    <3> QED
      BY <2>2, <3>1 DEF WaitNoHang, Goto, PcTypeOK, MainLoopInv
  <2>3. CASE ForkFails \/ AllForked \/ MainPoll \/ Kill \/ MainExit
    BY <2>3 DEF ForkFails, AllForked, MainPoll, Kill, MainExit, Goto, PcTypeOK, MainLoopInv, ended
  <2> QED
    BY <1>1, <2>1, <2>2, <2>3 DEF MainStep
<1>2. ASSUME NEW s \in Procs, Lock(s) PROVE MainLoopInv'
  BY <1>2 DEF Lock, AfterLock, Goto, PcTypeOK, MainLoopInv, ended
<1>3. ASSUME NEW p \in Producers, ProducerStep(p) PROVE MainLoopInv'
  <2>1. index'[Main] = index[Main] /\ forked' = forked
    BY <1>3 DEF ProducerStep, ProducerDone, ProducerCreate, ProducerFull, ProducerInsert,
                ProducerRetry, SiftUp, Inserted, TypeOK, ended
  <2>2. pc'[Main] = pc[Main]
    BY <1>3, <1>k DEF ProducerStep, ProducerDone, ProducerCreate, ProducerFull, ProducerInsert,
                ProducerRetry, SiftUp, Inserted
  <2> QED
    BY <2>1, <2>2 DEF MainLoopInv
<1>4. ASSUME NEW c \in Consumers, ConsumerStep(c) PROVE MainLoopInv'
  <2>1. index'[Main] = index[Main] /\ forked' = forked
    BY <1>4 DEF ConsumerStep, ConsumerDone, ConsumerEmpty, ConsumerRemove, SiftDown, Removed,
                Compute, TypeOK, ended
  <2>2. pc'[Main] = pc[Main]
    BY <1>4, <1>k DEF ConsumerStep, ConsumerDone, ConsumerEmpty, ConsumerRemove, SiftDown, Removed,
                Compute
  <2> QED
    BY <2>1, <2>2 DEF MainLoopInv
<1>5. ASSUME NEW c \in Children, SigTerm(c) PROVE MainLoopInv'
  BY <1>5, <1>k DEF SigTerm, MainLoopInv, ended
<1>6. CASE UNCHANGED vars
  BY <1>6 DEF vars, ended, MainLoopInv
<1> QED
  BY <1>1, <1>2, <1>3, <1>4, <1>5, <1>6 DEF Next

\* Main forks the children in order and signals only those it forked.
LEMMA UnbornStep == IInv /\ [Next]_vars => UnbornInv'
<1> SUFFICES ASSUME IInv, [Next]_vars PROVE UnbornInv'
  OBVIOUS
<1> USE ProcFacts
<1>t. TypeOK /\ PcTypeOK /\ UnbornInv /\ IndexInv
  BY DEF IInv, TypeOK
<1> USE <1>t
<1>k. \A l : \A s \in Procs : pc[s] # "unborn" /\ l # "unborn" /\ Goto(s, l) /\ forked' = forked
        /\ signalled' = signalled => UnbornInv'
  BY DEF Goto, PcTypeOK, UnbornInv
<1>1. CASE MainStep
  <2>1. CASE Fork
    <3>1. forked' \in Children /\ forked' = forked + 1
      BY <2>1, ConstantsAssumption, SMT DEF Fork, TypeOK, Children
    <3>2. \A c \in Children : c > forked' <=> c > forked /\ c # forked'
      BY <3>1, SMT DEF TypeOK, Children
    <3>3. \A c \in Children : pc'[c] = "unborn" <=> pc[c] = "unborn" /\ c # forked'
      BY <2>1, <3>1 DEF Fork, Goto, PcTypeOK
    <3>4. \A c \in signalled : c <= forked'
      BY <3>1, SMT DEF UnbornInv, TypeOK, Children
    <3> QED
      BY <2>1, <3>2, <3>3, <3>4 DEF UnbornInv, Fork
  <2>2. CASE ForkFails \/ AllForked \/ MainExit \/ WaitNoHang \/ MainPoll
    BY <2>2, <1>k DEF ForkFails, AllForked, MainExit, WaitNoHang, MainPoll, ended
  <2>3. CASE Kill
    BY <2>3 DEF Kill, Goto, PcTypeOK, UnbornInv
  <2> QED
    BY <1>1, <2>1, <2>2, <2>3 DEF MainStep
<1>2. ASSUME NEW s \in Procs, Lock(s) PROVE UnbornInv'
  BY <1>2, <1>k DEF Lock, AfterLock, ended
<1>3. ASSUME NEW p \in Producers, ProducerStep(p) PROVE UnbornInv'
  <2>1. CASE SiftUp(p)
    BY <2>1 DEF SiftUp, UnbornInv, ended
  <2> QED
    BY <1>3, <2>1, <1>k
    DEF ProducerStep, ProducerDone, ProducerCreate, ProducerFull, ProducerInsert, ProducerRetry, Inserted, ended
<1>4. ASSUME NEW c \in Consumers, ConsumerStep(c) PROVE UnbornInv'
  <2>1. CASE SiftDown(c)
    BY <2>1 DEF SiftDown, UnbornInv, ended
  <2> QED
    BY <1>4, <2>1, <1>k
    DEF ConsumerStep, ConsumerDone, ConsumerEmpty, ConsumerRemove, Removed, Compute, ended
<1>5. ASSUME NEW c \in Children, SigTerm(c) PROVE UnbornInv'
  <2>1. pc[c] # "unborn"
    BY <1>5, SMT DEF SigTerm, UnbornInv, TypeOK, Children
  <2> QED
    BY <1>5, <2>1, <1>k DEF SigTerm, ended
<1>6. CASE UNCHANGED vars
  BY <1>6 DEF vars, ended, UnbornInv
<1> QED
  BY <1>1, <1>2, <1>3, <1>4, <1>5, <1>6 DEF Next

\* Once main shuts down: both counters are at Jobs, nothing is queued, held or sifted.
Quiet == Finished /\ Queued = {} /\ Held = {} /\ TakenIds = 1..Jobs /\ Sifting = {}

\* Once main has begun to kill, the system is quiet.
LEMMA QuietFacts ==
  ASSUME IInv, signalled # {} \/ pc[Main] \in {"mKill", "mWait", "exited"}
  PROVE  Quiet
BY DEF IInv, QuietInv, KillOnlyWhenQuiet, Quiet

\* What does not touch the heap, the counters and the jobs in hand.
Calm ==
  /\ UNCHANGED <<segment, job, taken>>
  /\ \A s \in Children : index'[s] = index[s]
  /\ \A s \in Children : \A l \in {"pSift", "cSift"} : pc'[s] = l <=> pc[s] = l
  /\ \A p \in Producers : pc[p] \in {"pRelock", "pInsert"} <=> pc'[p] \in {"pRelock", "pInsert"}
  /\ \A c \in Consumers : pc'[c] = "cCompute" => pc[c] = "cCompute"

\* The steps that are not calm.
Working ==
  \/ \E p \in Producers : ProducerCreate(p) \/ ProducerInsert(p) \/ SiftUp(p) \/ Inserted(p)
  \/ \E c \in Consumers : ConsumerRemove(c) \/ SiftDown(c) \/ Removed(c) \/ Compute(c)

\* Every step is calm or one of the few that work on jobs.
LEMMA CalmOrWorking == IInv /\ [Next]_vars => Calm \/ Working
<1> SUFFICES ASSUME IInv, [Next]_vars PROVE Calm \/ Working
  OBVIOUS
<1> USE ProcFacts
<1>t. TypeOK /\ PcTypeOK
  BY DEF IInv, TypeOK
<1> USE <1>t
<1>k. \A l : \A s \in Procs : pc[s] \notin {"pSift", "cSift", "pRelock", "pInsert"}
         /\ l \notin {"pSift", "cSift", "pRelock", "pInsert", "cCompute"} /\ Goto(s, l)
         /\ UNCHANGED <<segment, job, taken>> /\ (\A c \in Children : index'[c] = index[c])
         => Calm
  BY Zenon DEF Goto, PcTypeOK, Calm
<1>1. CASE MainStep
  <2>1. CASE Fork
    <3>1. forked' \in Children /\ forked' > forked
      BY <2>1, ConstantsAssumption, SMT DEF Fork, TypeOK, Children
    <3>2. forked' \in Procs /\ pc[forked'] = "unborn"
      BY <2>1, <3>1 DEF Fork, IInv, UnbornInv
    <3> QED
      BY <2>1, <3>2, <1>k DEF Fork, history
  <2>2. CASE WaitNoHang
    <3>1. \A c \in Children : index'[c] = index[c]
      BY <2>2 DEF WaitNoHang, TypeOK
    <3> QED
      BY <2>2, <3>1, <1>k DEF WaitNoHang, history
  <2>3. CASE ForkFails \/ AllForked \/ MainPoll \/ Kill \/ MainExit
    BY <2>3, <1>k DEF ForkFails, AllForked, MainPoll, Kill, MainExit, history
  <2> QED
    BY <1>1, <2>1, <2>2, <2>3 DEF MainStep
<1>2. ASSUME NEW s \in Procs, Lock(s) PROVE Calm
  <2>1. CASE pc[s] = "pRelock"
    BY <1>2, <2>1 DEF Lock, AfterLock, Goto, PcTypeOK, Calm, history
  <2> QED
    BY <1>2, <2>1, <1>k DEF Lock, AfterLock, history
<1>3. ASSUME NEW p \in Producers, ProducerStep(p) PROVE Calm \/ Working
  <2>1. CASE ProducerDone(p) \/ ProducerFull(p)
    BY <2>1, <1>k DEF ProducerDone, ProducerFull, history
  <2>2. CASE ProducerRetry(p)
    BY <2>2 DEF ProducerRetry, Goto, PcTypeOK, Calm, history
  <2> QED
    BY <1>3, <2>1, <2>2 DEF ProducerStep, Working
<1>4. ASSUME NEW c \in Consumers, ConsumerStep(c) PROVE Calm \/ Working
  <2>1. CASE ConsumerDone(c) \/ ConsumerEmpty(c)
    BY <2>1, <1>k DEF ConsumerDone, ConsumerEmpty, history
  <2> QED
    BY <1>4, <2>1 DEF ConsumerStep, Working
<1>5. ASSUME NEW c \in Children, SigTerm(c) PROVE Calm
  <2>1. Held = {} /\ Sifting = {}
    BY <1>5, QuietFacts DEF SigTerm, Quiet
  <2>2. pc[c] \notin {"pSift", "cSift"}
    BY <2>1 DEF Sifting
  <2>3. c \in Producers => job[c] = NoJob
    BY <2>1 DEF Held
  <2>4. c \in Producers => pc[c] \notin {"pRelock", "pInsert"}
    BY <2>3 DEF IInv, HandInv
  <2>5. c \in Consumers => pc[c] \notin {"pRelock", "pInsert"}
    BY DEF PcTypeOK, ConsumerLabels
  <2> QED
    BY <1>5, <2>2, <2>4, <2>5, <1>k DEF SigTerm, history
<1>6. CASE UNCHANGED vars
  BY <1>6 DEF vars, history, Calm
<1> QED
  BY <1>1, <1>2, <1>3, <1>4, <1>5, <1>6 DEF Next

\* A process has a job in hand exactly where its code has one.
LEMMA HandStep == IInv /\ [Next]_vars => HandInv'
<1> SUFFICES ASSUME IInv, [Next]_vars PROVE HandInv'
  OBVIOUS
<1> USE ProcFacts
<1>t. TypeOK /\ PcTypeOK /\ HandInv
  BY DEF IInv, TypeOK
<1> USE <1>t
<1>n. NoJob \notin Job
  BY DEF NoJob, Job
<1>1. CASE Calm
  <2>1. \A c \in Consumers : pc'[c] \in {"cSift", "cCompute"} => pc[c] \in {"cSift", "cCompute"}
    BY <1>1 DEF Calm
  <2> QED
    BY <1>1, <2>1 DEF Calm, HandInv
<1>2. ASSUME NEW p \in Producers, ProducerCreate(p) PROVE HandInv'
  <2>1. job'[p] \in Job
    BY <1>2, ConstantsAssumption, SMT DEF ProducerCreate, Job, TypeOK
  <2>2. \A c \in Children : c # p => job'[c] = job[c] /\ pc'[c] = pc[c]
    BY <1>2 DEF ProducerCreate, Goto, TypeOK, PcTypeOK
  <2> QED
    BY <1>2, <2>1, <2>2, <1>n DEF ProducerCreate, Goto, PcTypeOK, HandInv, history
<1>3. ASSUME NEW p \in Producers, ProducerInsert(p) PROVE HandInv'
  BY <1>3 DEF ProducerInsert, Goto, TypeOK, PcTypeOK, HandInv, history
<1>4. ASSUME NEW p \in Producers, SiftUp(p) PROVE HandInv'
  BY <1>4 DEF SiftUp, HandInv, history
<1>5. ASSUME NEW p \in Producers, Inserted(p) PROVE HandInv'
  BY <1>5 DEF Inserted, Goto, PcTypeOK, HandInv, history
<1>6. ASSUME NEW c \in Consumers, ConsumerRemove(c) PROVE HandInv'
  <2>1. 1 \in Slots
    BY <1>6, SMT DEF ConsumerRemove, TypeOK, Slots
  <2>2. priority_q[1] \in Job /\ job' = [job EXCEPT ![c] = priority_q[1]]
    BY <1>6, <2>1 DEF IInv, SlotInv, ConsumerRemove
  <2>3. job'[c] # NoJob /\ job'[c] \in taken' /\ pc'[c] = "cSift"
    BY <1>6, <2>2, <1>n DEF ConsumerRemove, Goto, TypeOK, PcTypeOK
  <2>4. \A d \in Children : d # c => job'[d] = job[d] /\ pc'[d] = pc[d]
    BY <1>6 DEF ConsumerRemove, Goto, TypeOK, PcTypeOK
  <2>5. taken \subseteq taken'
    BY <1>6 DEF ConsumerRemove
  <2> QED
    BY <2>3, <2>4, <2>5 DEF HandInv
<1>7. ASSUME NEW c \in Consumers, SiftDown(c) PROVE HandInv'
  BY <1>7 DEF SiftDown, HandInv, history
<1>8. ASSUME NEW c \in Consumers, Removed(c) PROVE HandInv'
  BY <1>8 DEF Removed, Goto, PcTypeOK, HandInv, history
<1>9. ASSUME NEW c \in Consumers, Compute(c) PROVE HandInv'
  BY <1>9 DEF Compute, Goto, TypeOK, PcTypeOK, HandInv
<1> QED
  BY <1>1, <1>2, <1>3, <1>4, <1>5, <1>6, <1>7, <1>8, <1>9, CalmOrWorking DEF Working

\* While one child is in a critical section no other child runs a heap loop.
LEMMA Alone ==
  ASSUME IInv, NEW s \in Procs, pc[s] \in Locked, NEW c \in Children, c # s
  PROVE  pc[c] \notin {"pSift", "cSift"}
BY ProcFacts DEF IInv, MutualExclusion, Locked

\* A heap loop stays on a slot in use, or on the root.
LEMMA IndexStep == IInv /\ [Next]_vars => IndexInv'
<1> SUFFICES ASSUME IInv, [Next]_vars PROVE IndexInv'
  OBVIOUS
<1> USE ProcFacts
<1>t. TypeOK /\ PcTypeOK /\ IndexInv
  BY DEF IInv, TypeOK
<1> USE <1>t
<1>1. CASE Calm
  BY <1>1 DEF Calm, IndexInv, Slots, segment
<1>2. ASSUME NEW p \in Producers, ProducerCreate(p) PROVE IndexInv'
  BY <1>2 DEF ProducerCreate, Goto, PcTypeOK, IndexInv, Slots
<1>3. ASSUME NEW p \in Producers, ProducerInsert(p) PROVE IndexInv'
  <2>1. index'[p] \in Slots'
    BY <1>3, SMT DEF ProducerInsert, TypeOK, Slots
  <2>2. \A c \in Children : c # p => pc'[c] = pc[c] /\ pc[c] \notin {"pSift", "cSift"}
    BY <1>3, Alone DEF ProducerInsert, Goto, PcTypeOK, Locked
  <2>3. pc'[p] = "pSift"
    BY <1>3 DEF ProducerInsert, Goto, PcTypeOK
  <2> QED
    BY <2>1, <2>2, <2>3 DEF IndexInv
<1>4. ASSUME NEW p \in Producers, SiftUp(p) PROVE IndexInv'
  <2>1. index'[p] \in Slots' /\ \A c \in Children : c # p => index'[c] = index[c]
    BY <1>4, Halves, SMT DEF SiftUp, BeatsParent, TypeOK, Slots, IndexInv
  <2> QED
    BY <1>4, <2>1 DEF SiftUp, IndexInv, Slots
<1>5. ASSUME NEW p \in Producers, Inserted(p) PROVE IndexInv'
  BY <1>5 DEF Inserted, Goto, PcTypeOK, IndexInv, Slots, segment
<1>6. ASSUME NEW c \in Consumers, ConsumerRemove(c) PROVE IndexInv'
  <2>1. index'[c] = 1
    BY <1>6 DEF ConsumerRemove, TypeOK
  <2>2. \A d \in Children : d # c => pc'[d] = pc[d] /\ pc[d] \notin {"pSift", "cSift"}
    BY <1>6, Alone DEF ConsumerRemove, Goto, PcTypeOK, Locked
  <2>3. pc'[c] = "cSift"
    BY <1>6 DEF ConsumerRemove, Goto, PcTypeOK
  <2> QED
    BY <2>1, <2>2, <2>3 DEF IndexInv
<1>7. ASSUME NEW c \in Consumers, SiftDown(c) PROVE IndexInv'
  <2>1. index'[c] > 0 /\ \A d \in Children : d # c => index'[d] = index[d]
    BY <1>7, TargetSlot, SMT DEF SiftDown, TypeOK, Slots, IndexInv
  <2> QED
    BY <1>7, <2>1 DEF SiftDown, IndexInv, Slots
<1>8. ASSUME NEW c \in Consumers, Removed(c) PROVE IndexInv'
  BY <1>8 DEF Removed, Goto, PcTypeOK, IndexInv, Slots
<1>9. ASSUME NEW c \in Consumers, Compute(c) PROVE IndexInv'
  BY <1>9 DEF Compute, Goto, PcTypeOK, IndexInv, Slots, segment
<1> QED
  BY <1>1, <1>2, <1>3, <1>4, <1>5, <1>6, <1>7, <1>8, <1>9, CalmOrWorking DEF Working

\* Slots in use hold jobs: insertion fills the new one, removal moves the last one.
LEMMA SlotStep == IInv /\ [Next]_vars => SlotInv'
<1> SUFFICES ASSUME IInv, [Next]_vars PROVE SlotInv'
  OBVIOUS
<1> USE ProcFacts
<1>t. TypeOK /\ PcTypeOK /\ SlotInv /\ IndexInv /\ HandInv
  BY DEF IInv, TypeOK
<1>u. TypeOK'
  BY TypeStep
<1> USE <1>t
<1> DEFINE Known == Queued \cup Held \cup taken
<1>k. Known' \subseteq Known /\ job_created' = job_created => \A j \in Known' : j.id <= job_created'
  BY DEF SlotInv
<1>1. CASE UNCHANGED <<priority_q, curr_size, job_created, job, taken>>
  BY <1>1 DEF SlotInv, Slots, Queued, Held
<1>2. ASSUME NEW p \in Producers, ProducerCreate(p) PROVE SlotInv'
  <2>1. \A j \in Known' : j \in Known \/ j = job'[p]
    BY <1>2 DEF ProducerCreate, TypeOK, Queued, Held, Slots, history
  <2>2. job'[p].id = job_created'
    BY <1>2 DEF ProducerCreate, TypeOK
  <2>3. \A j \in Known : j \in Job
    BY DEF SlotInv, Queued, Held, TypeOK
  <2>4. \A j \in Known : j.id <= job_created'
    <3> SUFFICES ASSUME NEW j \in Known PROVE j.id <= job_created'
      OBVIOUS
    <3>1. j.id \in Nat /\ j.id <= job_created
      BY <2>3, ConstantsAssumption DEF Job, SlotInv
    <3> QED
      BY <1>2, <3>1, SMT DEF ProducerCreate, TypeOK
  <2>5. job_created' <= job_created'
    BY <1>u, SMT DEF TypeOK
  <2> QED
    BY <1>2, <2>1, <2>2, <2>4, <2>5 DEF ProducerCreate, SlotInv, Slots
<1>3. ASSUME NEW p \in Producers, ProducerInsert(p) PROVE SlotInv'
  <2>1. job[p] \in Held /\ job[p] \in Job
    BY <1>3 DEF ProducerInsert, HandInv, Held, TypeOK
  <2>2. curr_size + 1 \in 1..(PQ_SIZE - 1) /\ \A i \in Slots' : i \in Slots \/ i = curr_size + 1
    BY <1>3, ConstantsAssumption, SMT DEF ProducerInsert, HasRoom, TypeOK, Slots
  <2>3. \A i \in Slots : i # curr_size + 1 /\ i \in 1..(PQ_SIZE - 1)
    <3>1. curr_size \in Nat
      BY DEF TypeOK
    <3> QED
      BY <3>1, SlotRange, SMT
  <2>4. /\ priority_q'[curr_size + 1] = job[p]
        /\ \A i \in Slots : priority_q'[i] = priority_q[i]
    BY <1>3, <2>2, <2>3 DEF ProducerInsert, TypeOK
  <2>5. \A i \in Slots' : priority_q'[i] \in Job
    BY <2>1, <2>2, <2>4 DEF SlotInv
  <2>6. Held' \subseteq Held
    BY <1>3 DEF ProducerInsert, TypeOK, Held
  <2>7. Queued' \subseteq Queued \cup {job[p]}
    BY <2>2, <2>4 DEF Queued
  <2>8. Known' \subseteq Known
    BY <1>3, <2>1, <2>6, <2>7 DEF ProducerInsert, history
  <2> QED
    BY <1>3, <1>k, <2>5, <2>8 DEF ProducerInsert, SlotInv
<1>4. ASSUME NEW i \in Slots, NEW k \in Slots, priority_q' = Swap(i, k),
             UNCHANGED <<curr_size, job_created, job, taken>>
      PROVE  SlotInv'
  <2>1. Slots \subseteq 1..(PQ_SIZE - 1) /\ Slots' = Slots
    BY <1>4, SlotRange DEF Slots
  <2>2. \A m \in Slots : \E n \in Slots : priority_q'[m] = priority_q[n]
    BY <1>4, <2>1, SwapFacts
  <2>3. Queued' \subseteq Queued
    BY <2>1, <2>2 DEF Queued
  <2>4. Known' \subseteq Known
    BY <1>4, <2>3 DEF Held
  <2> QED
    BY <1>4, <1>k, <2>1, <2>2, <2>4 DEF SlotInv
<1>5. ASSUME NEW p \in Producers, SiftUp(p) PROVE SlotInv'
  <2>1. index[p] \in Slots /\ index[p] \div 2 \in Slots
    BY <1>5, Halves, SMT DEF SiftUp, BeatsParent, IndexInv, Slots, TypeOK
  <2> QED
    BY <1>5, <2>1, <1>4 DEF SiftUp, history
<1>6. ASSUME NEW c \in Consumers, ConsumerRemove(c) PROVE SlotInv'
  <2>1. /\ 1 \in Slots /\ curr_size \in Slots
        /\ Slots' \subseteq Slots /\ Slots \subseteq 1..(PQ_SIZE - 1)
    <3>1. 1 \in Slots /\ curr_size \in Slots /\ Slots \subseteq 1..(PQ_SIZE - 1)
      BY <1>6, SlotRange DEF ConsumerRemove
    <3>2. Slots' = 1..(curr_size - 1) /\ Slots = 1..curr_size /\ curr_size \in Nat
      BY <1>6 DEF ConsumerRemove, Slots, TypeOK
    <3>3. Slots' \subseteq Slots
      BY <3>2, SMT
    <3> QED
      BY <3>1, <3>3
  <2>2. \A i \in Slots' : \E k \in Slots : priority_q'[i] = priority_q[k]
    BY <1>6, <2>1 DEF ConsumerRemove, TypeOK
  <2>3. Queued' \subseteq Queued
    BY <2>1, <2>2 DEF Queued
  <2>4. priority_q[1] \in Queued
    BY <2>1 DEF Queued
  <2>5. Held' = Held
    BY <1>6 DEF ConsumerRemove, TypeOK, Held
  <2>6. Known' \subseteq Known
    BY <1>6, <2>3, <2>4, <2>5 DEF ConsumerRemove
  <2> QED
    BY <1>6, <1>k, <2>2, <2>6 DEF ConsumerRemove, SlotInv
<1>7. ASSUME NEW c \in Consumers, SiftDown(c) PROVE SlotInv'
  <2>1. index[c] \in Slots /\ Target(index[c]) \in Slots
    BY <1>7, TargetSlot, SMT DEF SiftDown, IndexInv, TypeOK
  <2> QED
    BY <1>7, <2>1, <1>4 DEF SiftDown, history
<1>8. ASSUME NEW c \in Consumers, Compute(c) PROVE SlotInv'
  <2>1. Held' = Held
    BY <1>8 DEF Compute, TypeOK, Held
  <2> QED
    BY <1>8, <2>1, <1>k DEF Compute, SlotInv, Slots, Queued, segment
<1> QED
  BY <1>1, <1>2, <1>3, <1>5, <1>6, <1>7, <1>8, CalmOrWorking
  DEF Working, Calm, Inserted, Removed, segment, history

\* A heap loop's exchange neither loses nor duplicates a job.
LEMMA SwapKeeps ==
  ASSUME IInv, NEW i \in Slots, NEW k \in Slots, priority_q' = Swap(i, k),
         UNCHANGED <<curr_size, job_created, job, taken>>
  PROVE  ExactlyOnce' /\ Queued' = Queued
<1>1. TypeOK /\ ExactlyOnce
  BY DEF IInv
<1>2. Slots \subseteq 1..(PQ_SIZE - 1) /\ Slots' = Slots
  BY <1>1, SlotRange DEF Slots
<1>3. /\ priority_q'[i] = priority_q[k] /\ priority_q'[k] = priority_q[i]
      /\ \A m \in Slots : m # i /\ m # k => priority_q'[m] = priority_q[m]
  BY <1>1, <1>2, SwapFacts
<1>4. Queued' = Queued
  BY <1>2, <1>3 DEF Queued
<1>5. \A m, n \in Slots : priority_q'[m].id = priority_q'[n].id => m = n
  BY <1>1, <1>3 DEF ExactlyOnce, NoDuplicates
<1>6. Held' = Held
  BY DEF Held
<1> QED
  BY <1>1, <1>2, <1>4, <1>5, <1>6 DEF ExactlyOnce, NoDuplicates

\* Removing the root: the last slot takes its place and goes out of use.
LEMMA RemoveFacts ==
  ASSUME IInv, NEW c \in Consumers, ConsumerRemove(c)
  PROVE  /\ 1 \in Slots /\ curr_size \in Slots /\ Slots' \subseteq Slots
         /\ \A i \in Slots : i \in Slots' <=> i # curr_size
         /\ priority_q'[1] = priority_q[curr_size]
         /\ \A i \in Slots' : i # 1 => priority_q'[i] = priority_q[i]
         /\ Queued' = Queued \ {priority_q[1]}
<1> DEFINE root == priority_q[1]
<1>t. TypeOK /\ ExactlyOnce
  BY DEF IInv
<1> USE <1>t
<1>1. /\ 1 \in Slots /\ curr_size \in Slots /\ Slots' \subseteq Slots
      /\ Slots \subseteq 1..(PQ_SIZE - 1)
      /\ \A i \in Slots : i \in Slots' <=> i # curr_size
  <2>1. 1 \in Slots /\ curr_size \in Slots /\ Slots \subseteq 1..(PQ_SIZE - 1)
    BY SlotRange DEF ConsumerRemove
  <2>2. Slots' = 1..(curr_size - 1) /\ Slots = 1..curr_size /\ curr_size \in Nat
    BY DEF ConsumerRemove, Slots, TypeOK
  <2>3. Slots' \subseteq Slots /\ \A i \in Slots : i \in Slots' <=> i # curr_size
    BY <2>2, SMT
  <2> QED
    BY <2>1, <2>3
<1>2. /\ priority_q'[1] = priority_q[curr_size]
      /\ \A i \in Slots' : i # 1 => priority_q'[i] = priority_q[i]
  BY <1>1 DEF ConsumerRemove, TypeOK
<1>3. Queued' = Queued \ {root}
  <2>1. ASSUME NEW j \in Queued' PROVE j \in Queued /\ j # root
    <3>1. PICK i \in Slots' : j = priority_q'[i]
      BY DEF Queued
    <3>2. CASE i = 1
      BY <1>1, <1>2, <3>1, <3>2 DEF Queued, ExactlyOnce, NoDuplicates
    <3>3. CASE i # 1
      BY <1>1, <1>2, <3>1, <3>3 DEF Queued, ExactlyOnce, NoDuplicates
    <3> QED
      BY <3>2, <3>3
  <2>2. ASSUME NEW j \in Queued, j # root PROVE j \in Queued'
    <3>1. PICK i \in Slots : j = priority_q[i]
      BY DEF Queued
    <3>2. i # 1
      BY <2>2, <3>1
    <3>3. CASE i = curr_size
      BY <1>1, <1>2, <3>1, <3>2, <3>3 DEF Queued
    <3>4. CASE i # curr_size
      BY <1>1, <1>2, <3>1, <3>2, <3>4 DEF Queued
    <3> QED
      BY <3>3, <3>4
  <2> QED
    BY <2>1, <2>2
<1> QED
  BY <1>1, <1>2, <1>3

\* No step loses or duplicates a job.
LEMMA ExactlyOnceStep == IInv /\ [Next]_vars => ExactlyOnce'
<1> SUFFICES ASSUME IInv, [Next]_vars PROVE ExactlyOnce'
  OBVIOUS
<1> USE ProcFacts
<1>t. TypeOK /\ PcTypeOK /\ SlotInv /\ IndexInv /\ HandInv /\ ExactlyOnce
  BY DEF IInv, TypeOK
<1> USE <1>t
<1>i. /\ \A j \in Queued \cup Held \cup taken : j \in Job /\ j.id \in 1..Jobs
      /\ \A c \in Children : job[c] # NoJob => job[c] \in Job /\ job[c].id \in 1..Jobs
      /\ NoJob.id = 0
  <2>1. \A j \in Job : j.id \in 1..Jobs
    BY DEF Job
  <2>2. \A j \in Queued \cup Held \cup taken : j \in Job
    BY DEF SlotInv, Queued, Held, TypeOK
  <2>3. \A c \in Children : job[c] # NoJob => job[c] \in Job
    BY DEF TypeOK
  <2> QED
    BY <2>1, <2>2, <2>3 DEF NoJob
<1>h. \A p \in Producers : job[p] # NoJob => job[p] \in Held
  BY DEF Held
<1>1. CASE UNCHANGED <<priority_q, curr_size, job_created, job, taken>>
  BY <1>1 DEF ExactlyOnce, NoDuplicates, Slots, Queued, Held
<1>2. ASSUME NEW p \in Producers, ProducerCreate(p) PROVE ExactlyOnce'
  <2>1. PICK pri \in Priorities : job' = [job EXCEPT ![p] = [id |-> job_created + 1, priority |-> pri]]
    BY <1>2 DEF ProducerCreate
  <2>2. job'[p].id = job_created + 1 /\ \A c \in Children : c # p => job'[c] = job[c]
    BY <2>1 DEF TypeOK
  <2>3. job_created \in Nat /\ job_created' = job_created + 1
    BY <1>2, ConstantsAssumption, SMT DEF ProducerCreate, TypeOK
  <2>4. \A j \in Queued \cup Held \cup taken : j.id # job_created + 1
    <3> SUFFICES ASSUME NEW j \in Queued \cup Held \cup taken PROVE j.id # job_created + 1
      OBVIOUS
    <3>1. j.id <= job_created /\ j.id \in 1..Jobs
      BY <1>i DEF SlotInv
    <3> QED
      BY <2>3, <3>1, ConstantsAssumption, SMT
  <2>5. \A c \in Children : job[c].id # job_created + 1
    <3> SUFFICES ASSUME NEW c \in Children PROVE job[c].id # job_created + 1
      OBVIOUS
    <3>1. CASE job[c] = NoJob
      BY <3>1, <1>i, <2>3, SMT
    <3>2. CASE job[c] # NoJob
      BY <3>2, <1>h, <2>4 DEF HandInv
    <3> QED
      BY <3>1, <3>2
  <2>6. job'[p] # NoJob
    BY <2>2, <2>3, <1>i, SMT
  <2>7. job[p] = NoJob
    BY <1>2 DEF ProducerCreate, HandInv
  <2>8. Held' = Held \cup {job'[p]}
    BY <2>2, <2>6, <2>7 DEF Held
  <2>9. Queued' = Queued /\ taken' = taken /\ Slots' = Slots /\ priority_q' = priority_q
    BY <1>2 DEF ProducerCreate, Queued, Slots, history
  <2>10. \A c, d \in Children : job'[c] # NoJob /\ job'[c].id = job'[d].id => c = d
    BY <2>2, <2>5 DEF ExactlyOnce, NoDuplicates
  <2>11. NoDuplicates'
    BY <2>2, <2>4, <2>8, <2>9, <2>10 DEF ExactlyOnce, NoDuplicates
  <2>12. \A n \in 1..job_created' : n \in 1..job_created \/ n = job_created + 1
    BY <2>3, SMT
  <2> QED
    BY <2>2, <2>8, <2>9, <2>11, <2>12 DEF ExactlyOnce
<1>3. ASSUME NEW p \in Producers, ProducerInsert(p) PROVE ExactlyOnce'
  <2>1. job[p] \in Held /\ job[p] # NoJob
    BY <1>3 DEF ProducerInsert, HandInv, Held
  <2>2. curr_size + 1 \in 1..(PQ_SIZE - 1) /\ curr_size + 1 \in Slots'
        /\ \A i \in Slots' : i \in Slots \/ i = curr_size + 1
    BY <1>3, ConstantsAssumption, SMT DEF ProducerInsert, HasRoom, TypeOK, Slots
  <2>3. \A i \in Slots : i # curr_size + 1 /\ i \in 1..(PQ_SIZE - 1) /\ i \in Slots'
    <3>1. curr_size \in Nat /\ Slots' = 1..(curr_size + 1)
      BY <1>3 DEF TypeOK, ProducerInsert, Slots
    <3> QED
      BY <3>1, SlotRange, SMT
  <2>4. /\ priority_q'[curr_size + 1] = job[p]
        /\ \A i \in Slots : priority_q'[i] = priority_q[i]
    BY <1>3, <2>2, <2>3 DEF ProducerInsert, TypeOK
  <2>5. Queued' = Queued \cup {job[p]}
    BY <2>2, <2>3, <2>4 DEF Queued
  <2>6. job'[p] = NoJob /\ \A c \in Children : c # p => job'[c] = job[c]
    BY <1>3 DEF ProducerInsert, TypeOK
  <2>7. Held' = Held \ {job[p]}
    BY <2>1, <2>6 DEF Held, ExactlyOnce, NoDuplicates
  <2>8. taken' = taken /\ job_created' = job_created
    BY <1>3 DEF ProducerInsert, history
  <2>9. \A i \in Slots : priority_q[i] \in Queued
    BY DEF Queued
  <2>10. \A i, k \in Slots' : priority_q'[i].id = priority_q'[k].id => i = k
    BY <2>1, <2>2, <2>4, <2>9 DEF ExactlyOnce, NoDuplicates
  <2>11. \A c, d \in Children : job'[c] # NoJob /\ job'[c].id = job'[d].id => c = d
    <3> SUFFICES ASSUME NEW c \in Children, NEW d \in Children, job'[c] # NoJob, job'[c].id = job'[d].id
                 PROVE  c = d
      OBVIOUS
    <3>1. c # p /\ job'[c] = job[c] /\ job[c].id # 0
      BY <2>6, <1>i
    <3>2. d # p
      BY <3>1, <2>6, <1>i
    <3> QED
      BY <3>1, <3>2, <2>6 DEF ExactlyOnce, NoDuplicates
  <2>12. \A j \in Held' : j \in Held /\ j.id # job[p].id
    <3> SUFFICES ASSUME NEW j \in Held' PROVE j \in Held /\ j.id # job[p].id
      OBVIOUS
    <3>1. PICK r \in Producers : j = job'[r] /\ j # NoJob
      BY DEF Held
    <3>2. r # p /\ j = job[r]
      BY <3>1, <2>6
    <3> QED
      BY <3>1, <3>2, <1>h DEF ExactlyOnce, NoDuplicates
  <2>13. NoDuplicates'
    <3>1. \A j \in Queued', k \in Held' : j.id # k.id
      BY <2>5, <2>12 DEF ExactlyOnce, NoDuplicates
    <3>2. \A j \in Queued' \cup Held', k \in taken' : j.id # k.id
      BY <2>1, <2>5, <2>7, <2>8 DEF ExactlyOnce, NoDuplicates
    <3> QED
      BY <2>8, <2>10, <2>11, <3>1, <3>2 DEF ExactlyOnce, NoDuplicates
  <2>14. Queued' \cup Held' \cup taken' = Queued \cup Held \cup taken
    BY <2>1, <2>5, <2>7, <2>8
  <2> QED
    BY <2>8, <2>13, <2>14 DEF ExactlyOnce
<1>4. ASSUME NEW p \in Producers, SiftUp(p) PROVE ExactlyOnce'
  <2>1. index[p] \in Slots /\ index[p] \div 2 \in Slots
    BY <1>4, Halves, SMT DEF SiftUp, BeatsParent, IndexInv, Slots, TypeOK
  <2> QED
    BY <1>4, <2>1, SwapKeeps DEF SiftUp, history
<1>5. ASSUME NEW c \in Consumers, ConsumerRemove(c) PROVE ExactlyOnce'
  <2> DEFINE root == priority_q[1]
  <2>1. /\ 1 \in Slots /\ Slots' \subseteq Slots /\ curr_size \in Slots
        /\ \A i \in Slots : i \in Slots' <=> i # curr_size
    BY <1>5, RemoveFacts
  <2>2. /\ priority_q'[1] = priority_q[curr_size]
        /\ \A i \in Slots' : i # 1 => priority_q'[i] = priority_q[i]
    BY <1>5, RemoveFacts
  <2>3. root \in Queued /\ root.id \in 1..Jobs
    BY <2>1, <1>i DEF Queued
  <2>4. Queued' = Queued \ {root}
    BY <1>5, RemoveFacts
  <2>5. \A i, k \in Slots' : priority_q'[i].id = priority_q'[k].id => i = k
    BY <2>1, <2>2 DEF ExactlyOnce, NoDuplicates
  <2>6. job'[c] = root /\ \A d \in Children : d # c => job'[d] = job[d]
    BY <1>5 DEF ConsumerRemove, TypeOK
  <2>7. Held' = Held /\ taken' = taken \cup {root} /\ job_created' = job_created
    BY <1>5, <2>6 DEF ConsumerRemove, Held
  <2>8. \A d \in Children : job[d].id # root.id
    <3> SUFFICES ASSUME NEW d \in Children PROVE job[d].id # root.id
      OBVIOUS
    <3>1. CASE job[d] = NoJob
      BY <3>1, <1>i, <2>3, SMT
    <3>2. CASE job[d] # NoJob
      BY <3>2, <2>3, <1>h DEF HandInv, ExactlyOnce, NoDuplicates
    <3> QED
      BY <3>1, <3>2
  <2>9. \A d, e \in Children : job'[d] # NoJob /\ job'[d].id = job'[e].id => d = e
    BY <2>6, <2>8 DEF ExactlyOnce, NoDuplicates
  <2>10. \A j \in Queued' : j.id # root.id
    <3> SUFFICES ASSUME NEW j \in Queued' PROVE j.id # root.id
      OBVIOUS
    <3>1. PICK i \in Slots : j = priority_q[i]
      BY <2>4 DEF Queued
    <3>2. i # 1
      BY <2>4, <3>1
    <3> QED
      BY <2>1, <3>1, <3>2 DEF ExactlyOnce, NoDuplicates
  <2>11. NoDuplicates'
    <3>1. \A j, k \in taken' : j.id = k.id => j = k
      BY <2>3, <2>7 DEF ExactlyOnce, NoDuplicates
    <3>2. \A j \in Queued' \cup Held', k \in taken' : j.id # k.id
      BY <2>3, <2>4, <2>7, <2>10 DEF ExactlyOnce, NoDuplicates
    <3> QED
      BY <2>4, <2>5, <2>7, <2>9, <3>1, <3>2 DEF ExactlyOnce, NoDuplicates
  <2>12. Queued' \cup Held' \cup taken' = Queued \cup Held \cup taken
    BY <2>3, <2>4, <2>7
  <2> QED
    BY <2>7, <2>11, <2>12 DEF ExactlyOnce
<1>6. ASSUME NEW c \in Consumers, SiftDown(c) PROVE ExactlyOnce'
  <2>1. index[c] \in Slots /\ Target(index[c]) \in Slots
    BY <1>6, TargetSlot, SMT DEF SiftDown, IndexInv, TypeOK
  <2> QED
    BY <1>6, <2>1, SwapKeeps DEF SiftDown, history
<1>7. ASSUME NEW c \in Consumers, Compute(c) PROVE ExactlyOnce'
  <2>1. job'[c] = NoJob /\ \A d \in Children : d # c => job'[d] = job[d]
    BY <1>7 DEF Compute, TypeOK
  <2>2. Held' = Held /\ Queued' = Queued /\ taken' = taken /\ Slots' = Slots
        /\ priority_q' = priority_q /\ job_created' = job_created
    BY <1>7, <2>1 DEF Compute, Held, Queued, Slots, segment
  <2>3. \A d, e \in Children : job'[d] # NoJob /\ job'[d].id = job'[e].id => d = e
    <3> SUFFICES ASSUME NEW d \in Children, NEW e \in Children, job'[d] # NoJob, job'[d].id = job'[e].id
                 PROVE  d = e
      OBVIOUS
    <3>1. d # c /\ job'[d] = job[d] /\ job[d].id # 0
      BY <2>1, <1>i
    <3>2. e # c
      BY <3>1, <2>1, <1>i
    <3> QED
      BY <3>1, <3>2, <2>1 DEF ExactlyOnce, NoDuplicates
  <2> QED
    BY <2>2, <2>3 DEF ExactlyOnce, NoDuplicates
<1> QED
  BY <1>1, <1>2, <1>3, <1>4, <1>5, <1>6, <1>7, CalmOrWorking
  DEF Working, Calm, Inserted, Removed, segment, history

\* job_completed follows the removals, one critical section late.
LEMMA CompletedStep == IInv /\ [Next]_vars => CompletedCount'
<1> SUFFICES ASSUME IInv, [Next]_vars PROVE CompletedCount'
  OBVIOUS
<1> USE ProcFacts
<1>t. TypeOK /\ PcTypeOK /\ CompletedCount /\ ExactlyOnce
  BY DEF IInv, TypeOK
<1> USE <1>t
<1>f. IsFiniteSet(TakenIds)
  <2>1. TakenIds \in SUBSET (1..Jobs)
    BY DEF TakenIds, TypeOK, Job
  <2>2. IsFiniteSet(1..Jobs)
    BY FS_Interval, ConstantsAssumption
  <2> QED
    BY <2>1, <2>2, FS_Subset
<1>k. (\A c \in Consumers : pc'[c] = "cSift" <=> pc[c] = "cSift") /\ UNCHANGED <<job_completed, taken>>
        => CompletedCount'
  BY DEF CompletedCount, TakenIds
<1>1. CASE Calm
  BY <1>1, <1>k DEF Calm, segment
<1>2. ASSUME NEW p \in Producers, ProducerCreate(p) \/ ProducerInsert(p) \/ Inserted(p)
      PROVE  CompletedCount'
  BY <1>2, <1>k DEF ProducerCreate, ProducerInsert, Inserted, Goto, PcTypeOK, segment, history
<1>3. ASSUME NEW p \in Producers, SiftUp(p) PROVE CompletedCount'
  BY <1>3, <1>k DEF SiftUp, history
<1>4. ASSUME NEW c \in Consumers, ConsumerRemove(c) PROVE CompletedCount'
  <2>1. ~ \E d \in Consumers : pc[d] = "cSift"
    BY <1>4, Alone DEF ConsumerRemove, Locked
  <2>2. pc'[c] = "cSift"
    BY <1>4 DEF ConsumerRemove, Goto, PcTypeOK
  <2>3. priority_q[1] \in Queued
    BY <1>4, SlotRange DEF ConsumerRemove, Queued
  <2>4. priority_q[1].id \notin TakenIds
    BY <2>3 DEF TakenIds, ExactlyOnce, NoDuplicates
  <2>5. TakenIds' = TakenIds \cup {priority_q[1].id}
    BY <1>4 DEF ConsumerRemove, TakenIds
  <2>6. Cardinality(TakenIds') = Cardinality(TakenIds) + 1
    BY <1>f, <2>4, <2>5, FS_AddElement
  <2>7. Cardinality(TakenIds) = job_completed /\ job_completed' = job_completed
    BY <1>4, <2>1 DEF CompletedCount, ConsumerRemove
  <2> QED
    BY <2>2, <2>6, <2>7 DEF CompletedCount
<1>5. ASSUME NEW c \in Consumers, SiftDown(c) PROVE CompletedCount'
  BY <1>5, <1>k DEF SiftDown, history
<1>6. ASSUME NEW c \in Consumers, Removed(c) PROVE CompletedCount'
  <2>1. \A d \in Consumers : d # c => pc[d] # "cSift"
    BY <1>6, Alone DEF Removed, Locked
  <2>2. ~ \E d \in Consumers : pc'[d] = "cSift"
    BY <1>6, <2>1 DEF Removed, Goto, PcTypeOK
  <2>3. Cardinality(TakenIds) = job_completed + 1 /\ job_completed' = job_completed + 1
    BY <1>6 DEF CompletedCount, Removed
  <2>4. TakenIds' = TakenIds
    BY <1>6 DEF Removed, TakenIds, history
  <2> QED
    BY <2>2, <2>3, <2>4 DEF CompletedCount
<1>7. ASSUME NEW c \in Consumers, Compute(c) PROVE CompletedCount'
  BY <1>7, <1>k DEF Compute, Goto, PcTypeOK, segment
<1> QED
  BY <1>1, <1>2, <1>3, <1>4, <1>5, <1>6, <1>7, CalmOrWorking DEF Working

-----------------------------------------------------------------------------
(* The heap. *)

\* Priorities of queued jobs are numbers.
LEMMA SlotPriority ==
  ASSUME IInv, NEW i \in Slots
  PROVE  priority_q[i].priority \in Nat
BY ConstantsAssumption DEF IInv, SlotInv, Job

\* The target of SiftDown beats the slot, and no child of the slot beats the target.
LEMMA TargetLargest ==
  ASSUME IInv, NEW i \in Slots
  PROVE  /\ Target(i) # i => priority_q[i].priority < priority_q[Target(i)].priority
         /\ \A m \in 2..curr_size : m \div 2 = i =>
              priority_q[m].priority <= priority_q[Target(i)].priority
<1>t. TypeOK /\ curr_size \in Nat /\ i \in Nat /\ i >= 1
  BY SlotRange DEF IInv, TypeOK
<1> DEFINE left == Larger(i, 2 * i)
<1>1. left \in Slots /\ priority_q[i].priority <= priority_q[left].priority
  <2>1. CASE left = i
    BY <2>1, SlotPriority, SMT
  <2>2. CASE left # i
    <3>1. left = 2 * i /\ 2 * i <= curr_size /\ priority_q[i].priority < priority_q[2 * i].priority
      BY <2>2 DEF Larger
    <3>2. 2 * i \in Slots
      BY <1>t, <3>1, SMT DEF Slots
    <3> QED
      BY <3>1, <3>2, SlotPriority, SMT
  <2> QED
    BY <2>1, <2>2
<1>2. 2 * i \in Slots => priority_q[2 * i].priority <= priority_q[left].priority
  <2> SUFFICES ASSUME 2 * i \in Slots PROVE priority_q[2 * i].priority <= priority_q[left].priority
    OBVIOUS
  <2>1. 2 * i <= curr_size /\ priority_q[2 * i].priority \in Nat /\ priority_q[i].priority \in Nat
    BY <1>t, SlotPriority, SlotRange
  <2> QED
    BY <2>1, SMT DEF Larger
<1>3. /\ Target(i) \in Slots /\ priority_q[left].priority <= priority_q[Target(i)].priority
      /\ 2 * i + 1 \in Slots => priority_q[2 * i + 1].priority <= priority_q[Target(i)].priority
  <2>1. Target(i) = Larger(left, 2 * i + 1)
    BY DEF Target
  <2>2. CASE 2 * i + 1 \in Slots
    <3>1. 2 * i + 1 <= curr_size /\ priority_q[2 * i + 1].priority \in Nat /\ priority_q[left].priority \in Nat
      BY <1>t, <1>1, <2>2, SlotPriority, SlotRange
    <3> HIDE DEF left
    <3> QED
      BY <1>1, <2>1, <2>2, <3>1, SMT DEF Larger
  <2>3. CASE 2 * i + 1 \notin Slots
    <3>1. ~(2 * i + 1 <= curr_size) /\ priority_q[left].priority \in Nat
      BY <1>t, <1>1, <2>3, SlotPriority, SMT DEF Slots
    <3> HIDE DEF left
    <3> QED
      BY <1>1, <2>1, <2>3, <3>1, SMT DEF Larger
  <2> QED
    BY <2>2, <2>3
<1>4. ASSUME Target(i) # i PROVE priority_q[i].priority < priority_q[Target(i)].priority
  <2>1. CASE Target(i) = left
    <3>1. left # i
      BY <1>4, <2>1
    <3>2. priority_q[i].priority < priority_q[left].priority
      BY <3>1 DEF Larger
    <3> QED
      BY <2>1, <3>2
  <2>2. CASE Target(i) # left
    <3>1. priority_q[left].priority < priority_q[Target(i)].priority
      BY <2>2 DEF Target, Larger
    <3>2. /\ priority_q[left].priority \in Nat /\ priority_q[Target(i)].priority \in Nat
          /\ priority_q[i].priority \in Nat
      BY <1>1, <1>3, SlotPriority
    <3> HIDE DEF left
    <3> QED
      BY <1>1, <3>1, <3>2, SMT
  <2> QED
    BY <2>1, <2>2
<1>5. ASSUME NEW m \in 2..curr_size, m \div 2 = i
      PROVE  priority_q[m].priority <= priority_q[Target(i)].priority
  <2>1. m \in Slots /\ m \in Nat /\ m > 1
    BY <1>t, SMT DEF Slots
  <2>2. m = 2 * i \/ m = 2 * i + 1
    BY <1>5, <1>t, <2>1, HalfChildren
  <2>3. /\ priority_q[left].priority \in Nat /\ priority_q[Target(i)].priority \in Nat
        /\ priority_q[m].priority \in Nat
    BY <1>1, <1>3, <2>1, SlotPriority
  <2> HIDE DEF left
  <2> QED
    BY <1>2, <1>3, <2>1, <2>2, <2>3, SMT
<1> QED
  BY <1>4, <1>5

\* Both heap loops keep the heap ordered except around their index.
LEMMA HeapStep == IInv /\ [Next]_vars => HeapInv'
<1> SUFFICES ASSUME IInv, [Next]_vars PROVE HeapInv'
  OBVIOUS
<1> USE ProcFacts
<1>t. TypeOK /\ PcTypeOK /\ HeapInv /\ IndexInv /\ curr_size \in Nat
  BY DEF IInv, TypeOK
<1> USE <1>t
<1>p. \A p \in Producers : pc[p] # "cSift" /\ p \notin Consumers
  BY DEF PcTypeOK, ProducerLabels
<1>c. \A c \in Consumers : pc[c] # "pSift" /\ c \notin Producers
  BY DEF PcTypeOK, ConsumerLabels
<1>r. \A m \in 2..curr_size : /\ m \in Slots /\ m \in Nat /\ m > 1
                              /\ m \div 2 \in Slots /\ m \div 2 < m
  BY Halves, SMT DEF Slots
<1>k. (\A s \in Children : \A l \in {"pSift", "cSift"} : pc'[s] = l <=> pc[s] = l)
        /\ (\A s \in Children : index'[s] = index[s]) /\ UNCHANGED <<priority_q, curr_size>>
        => HeapInv'
  BY DEF HeapInv, Sifting, NotBeaten
<1>1. CASE Calm
  BY <1>1, <1>k DEF Calm, segment
<1>2. ASSUME NEW p \in Producers, ProducerCreate(p) PROVE HeapInv'
  BY <1>2, <1>k DEF ProducerCreate, Goto, PcTypeOK
<1>3. ASSUME NEW p \in Producers, ProducerInsert(p) PROVE HeapInv'
  <2>1. \A s \in Children : s # p => pc[s] \notin {"pSift", "cSift"} /\ pc'[s] = pc[s]
    BY <1>3, Alone DEF ProducerInsert, Locked, Goto, PcTypeOK
  <2>2. Sifting = {} /\ pc'[p] = "pSift" /\ p \in Sifting'
    BY <1>3, <2>1 DEF ProducerInsert, Sifting, Goto, PcTypeOK
  <2>3. curr_size' = curr_size + 1 /\ index'[p] = curr_size + 1
    BY <1>3 DEF ProducerInsert, TypeOK
  <2>4. \A i \in Slots : priority_q'[i] = priority_q[i]
    <3>1. \A i \in Slots : i \in 1..(PQ_SIZE - 1) /\ i # curr_size + 1
      BY SlotRange, SMT
    <3> QED
      BY <1>3, <3>1 DEF ProducerInsert, TypeOK
  <2>5. \A i \in 2..curr_size' : i # index'[p] => i \in 2..curr_size
    BY <2>3, SMT
  <2>6. \A i \in 2..curr_size' : i # index'[p] => NotBeaten(i, i \div 2)'
    BY <2>2, <2>4, <2>5, <1>r DEF HeapInv, NotBeaten
  <2>7. \A i \in 2..curr_size' : i \div 2 # index'[p]
    BY <2>3, Halves, SMT
  <2> QED
    BY <2>1, <2>2, <2>6, <2>7, <1>c DEF HeapInv
<1>4. ASSUME NEW p \in Producers, SiftUp(p) PROVE HeapInv'
  <2> DEFINE i == index[p]
             up == index[p] \div 2
             q(m) == priority_q[m].priority
             r(m) == priority_q'[m].priority
  <2>1. pc[p] = "pSift" /\ i \in 2..curr_size /\ up \in Slots /\ up < i /\ q(up) < q(i)
    BY <1>4, Halves, SMT DEF SiftUp, BeatsParent, IndexInv, Slots
  <2>2. \A s \in Children : s # p => pc[s] \notin {"pSift", "cSift"}
    BY <2>1, Alone DEF Locked
  <2>3. /\ pc' = pc /\ curr_size' = curr_size /\ index'[p] = up
        /\ priority_q' = Swap(i, up)
    BY <1>4 DEF SiftUp, TypeOK
  <2>4. Slots \subseteq 1..(PQ_SIZE - 1) /\ i \in Slots
    BY <2>1, <1>r, SlotRange
  <2>5. r(i) = q(up) /\ r(up) = q(i) /\ \A m \in Slots : m # i /\ m # up => r(m) = q(m)
    BY <2>1, <2>3, <2>4, SwapFacts
  <2>6. \A m \in Slots : q(m) \in Nat
    BY SlotPriority
  <2>7. /\ \A m \in 2..curr_size : m # i => q(m) <= q(m \div 2)
        /\ \A m \in 2..curr_size : m \div 2 = i /\ i > 1 => q(m) <= q(up)
    BY <2>1 DEF HeapInv, NotBeaten
  <2>8. ASSUME NEW m \in 2..curr_size, m # up PROVE r(m) <= r(m \div 2)
    <3>1. m \in Slots /\ m \div 2 \in Slots /\ m \div 2 < m /\ m \in Nat
      BY <1>r
    <3>2. CASE m = i
      BY <2>1, <2>5, <2>6, <2>4, <3>2, SMT
    <3>3. CASE m # i /\ m \div 2 = up
      <4>1. q(m) <= q(up) /\ r(m) = q(m) /\ r(m \div 2) = q(i)
        BY <2>5, <2>7, <2>8, <3>1, <3>3
      <4> HIDE DEF q, r
      <4> QED
        BY <4>1, <2>1, <2>4, <2>6, <3>1, SMT
    <3>4. CASE m # i /\ m \div 2 = i
      <4>1. r(m) = q(m) /\ r(m \div 2) = q(up)
        BY <2>5, <2>8, <3>1, <3>4
      <4>2. i > 1
        BY <2>1, SMT
      <4> QED
        BY <4>1, <4>2, <2>7, <3>4
    <3>5. CASE m # i /\ m \div 2 # i /\ m \div 2 # up
      BY <2>5, <2>7, <2>8, <3>1, <3>5
    <3> QED
      BY <3>2, <3>3, <3>4, <3>5
  <2>9. ASSUME NEW m \in 2..curr_size, m \div 2 = up, up > 1 PROVE r(m) <= r(up \div 2)
    <3>1. m \in Slots /\ m # up
      BY <2>9, <1>r
    <3>2. up \in 2..curr_size /\ up # i
      BY <2>1, <2>9, SMT DEF Slots
    <3>3. up \div 2 \in Slots /\ up \div 2 < up /\ q(up) <= q(up \div 2)
      BY <3>2, <2>7, <1>r
    <3>4. r(up \div 2) = q(up \div 2)
      BY <3>3, <2>1, <2>5, SMT DEF Slots
    <3>5. CASE m = i
      BY <2>5, <3>3, <3>4, <3>5
    <3>6. CASE m # i
      <4>1. r(m) = q(m) /\ q(m) <= q(up)
        BY <2>5, <2>7, <2>9, <3>1, <3>6
      <4>2. q(m) \in Nat /\ q(up) \in Nat /\ q(up \div 2) \in Nat
        BY <2>1, <2>6, <3>1, <3>3
      <4> HIDE DEF q, r
      <4> QED
        BY <4>1, <4>2, <3>3, <3>4, SMT
    <3> QED
      BY <3>5, <3>6
  <2> QED
    BY <2>1, <2>2, <2>3, <2>8, <2>9, <1>c DEF HeapInv, NotBeaten, Sifting
<1>5. ASSUME NEW p \in Producers, Inserted(p) PROVE HeapInv'
  <2>1. pc[p] = "pSift" /\ index[p] \in Slots
    BY <1>5 DEF Inserted, IndexInv
  <2>2. \A s \in Children : s # p => pc[s] \notin {"pSift", "cSift"} /\ pc'[s] = pc[s]
    BY <1>5, <2>1, Alone DEF Inserted, Locked, Goto, PcTypeOK
  <2>3. \A s \in Children : pc'[s] \notin {"pSift", "cSift"}
    BY <1>5, <2>2 DEF Inserted, Goto, PcTypeOK
  <2>4. priority_q' = priority_q /\ curr_size' = curr_size
    BY <1>5 DEF Inserted, segment
  <2>5. index[p] \in 2..curr_size => NotBeaten(index[p], index[p] \div 2)
    <3> SUFFICES ASSUME index[p] \in 2..curr_size PROVE NotBeaten(index[p], index[p] \div 2)
      OBVIOUS
    <3>1. /\ ~(priority_q[index[p] \div 2].priority < priority_q[index[p]].priority)
          /\ priority_q[index[p]].priority \in Nat /\ priority_q[index[p] \div 2].priority \in Nat
      BY <1>5, <1>r, SlotPriority DEF Inserted, BeatsParent
    <3> QED
      BY <3>1, SMT DEF NotBeaten
  <2>6. \A m \in 2..curr_size : NotBeaten(m, m \div 2)
    BY <2>1, <2>5 DEF HeapInv
  <2> QED
    BY <2>3, <2>4, <2>6 DEF HeapInv, NotBeaten, Sifting
<1>6. ASSUME NEW c \in Consumers, ConsumerRemove(c) PROVE HeapInv'
  <2>1. \A s \in Children : s # c => pc[s] \notin {"pSift", "cSift"} /\ pc'[s] = pc[s]
    BY <1>6, Alone DEF ConsumerRemove, Locked, Goto, PcTypeOK
  <2>2. Sifting = {} /\ pc'[c] = "cSift" /\ c \in Sifting'
    BY <1>6, <2>1 DEF ConsumerRemove, Sifting, Goto, PcTypeOK
  <2>3. index'[c] = 1 /\ curr_size' = curr_size - 1
    BY <1>6 DEF ConsumerRemove, TypeOK
  <2>4. \A m \in 2..curr_size' : m \in 2..curr_size
    BY <2>3, SMT
  <2>5. \A m \in Slots : m # 1 => priority_q'[m] = priority_q[m]
    BY <1>6, SlotRange DEF ConsumerRemove, TypeOK
  <2>6. \A m \in 2..curr_size' : m \div 2 # 1 => NotBeaten(m, m \div 2)'
    <3> SUFFICES ASSUME NEW m \in 2..curr_size', m \div 2 # 1 PROVE NotBeaten(m, m \div 2)'
      OBVIOUS
    <3>1. m \in 2..curr_size /\ m \in Slots /\ m \div 2 \in Slots /\ m # 1
      BY <2>4, <1>r
    <3>2. NotBeaten(m, m \div 2)
      BY <2>2, <3>1 DEF HeapInv
    <3> QED
      BY <2>5, <3>1, <3>2 DEF NotBeaten
  <2> QED
    BY <2>1, <2>2, <2>3, <2>6, <1>p DEF HeapInv
<1>7. ASSUME NEW c \in Consumers, SiftDown(c) PROVE HeapInv'
  <2> DEFINE i == index[c]
             t == Target(index[c])
             q(m) == priority_q[m].priority
             r(m) == priority_q'[m].priority
  <2>1. pc[c] = "cSift" /\ i \in Slots /\ t \in Slots /\ t # i /\ i < t /\ t \in 2..curr_size /\ t \div 2 = i
    <3>1. pc[c] = "cSift" /\ t # i /\ i \in Nat /\ i > 0
      BY <1>7 DEF SiftDown, IndexInv, TypeOK
    <3>2. i \in Slots /\ t \in Slots /\ (t = 2 * i \/ t = 2 * i + 1)
      BY <3>1, TargetSlot
    <3>3. i < t /\ t \in Nat /\ t > 1 /\ t \in 2..curr_size
      BY <3>1, <3>2, SMT DEF Slots
    <3>4. t \div 2 = i
      BY <3>1, <3>2, <3>3, HalfChildren
    <3> QED
      BY <3>1, <3>2, <3>3, <3>4
  <2>2. \A s \in Children : s # c => pc[s] \notin {"pSift", "cSift"}
    BY <2>1, Alone DEF Locked
  <2>3. pc' = pc /\ curr_size' = curr_size /\ index'[c] = t /\ priority_q' = Swap(t, i)
    BY <1>7 DEF SiftDown, TypeOK
  <2>4. Slots \subseteq 1..(PQ_SIZE - 1)
    BY SlotRange
  <2>5. r(i) = q(t) /\ r(t) = q(i) /\ \A m \in Slots : m # i /\ m # t => r(m) = q(m)
    BY <2>1, <2>3, <2>4, SwapFacts
  <2>6. /\ \A m \in 2..curr_size : m \div 2 # i => q(m) <= q(m \div 2)
        /\ \A m \in 2..curr_size : m \div 2 = i /\ i > 1 => q(m) <= q(i \div 2)
    BY <2>1 DEF HeapInv, NotBeaten
  <2>7. q(i) < q(t) /\ \A m \in 2..curr_size : m \div 2 = i => q(m) <= q(t)
    BY <2>1, TargetLargest
  <2>8. \A m \in Slots : q(m) \in Nat
    BY SlotPriority
  <2>9. ASSUME NEW m \in 2..curr_size, m \div 2 # t PROVE r(m) <= r(m \div 2)
    <3>1. m \in Slots /\ m \div 2 \in Slots /\ m \div 2 < m /\ m \in Nat
      BY <1>r
    <3>2. CASE m = t
      <4>1. r(m) = q(i) /\ r(m \div 2) = q(t) /\ q(i) \in Nat /\ q(t) \in Nat
        BY <2>1, <2>5, <2>8, <3>2
      <4> HIDE DEF q, r, t
      <4> QED
        BY <4>1, <2>7, SMT
    <3>3. CASE m = i
      <4>1. m \div 2 # i /\ i > 1
        BY <3>1, <3>3, SMT
      <4>2. q(t) <= q(i \div 2)
        BY <2>1, <2>6, <4>1
      <4> QED
        BY <2>5, <2>9, <3>1, <3>3, <4>1, <4>2
    <3>4. CASE m # t /\ m \div 2 = i
      <4>1. m # i
        BY <3>1, <3>4, SMT
      <4> QED
        BY <2>5, <2>7, <3>1, <3>4, <4>1
    <3>5. CASE m # t /\ m # i /\ m \div 2 # i
      BY <2>5, <2>6, <2>9, <3>1, <3>5
    <3> QED
      BY <3>2, <3>3, <3>4, <3>5
  <2>10. ASSUME NEW m \in 2..curr_size, m \div 2 = t PROVE r(m) <= r(t \div 2)
    <3>1. m \in Slots /\ m # t /\ m # i
      BY <2>1, <2>10, <1>r, SMT
    <3>2. q(m) <= q(t) /\ r(m) = q(m)
      BY <2>1, <2>5, <2>6, <2>10, <3>1
    <3> QED
      BY <2>1, <2>5, <3>2
  <2> QED
    BY <2>1, <2>2, <2>3, <2>9, <2>10, <1>p DEF HeapInv, NotBeaten, Sifting
<1>8. ASSUME NEW c \in Consumers, Removed(c) PROVE HeapInv'
  <2>1. pc[c] = "cSift" /\ Target(index[c]) = index[c]
    BY <1>8 DEF Removed
  <2>2. \A s \in Children : s # c => pc[s] \notin {"pSift", "cSift"} /\ pc'[s] = pc[s]
    BY <1>8, <2>1, Alone DEF Removed, Locked, Goto, PcTypeOK
  <2>3. \A s \in Children : pc'[s] \notin {"pSift", "cSift"}
    BY <1>8, <2>2 DEF Removed, Goto, PcTypeOK
  <2>4. priority_q' = priority_q /\ curr_size' = curr_size
    BY <1>8 DEF Removed
  <2>5. \A m \in 2..curr_size : m \div 2 = index[c] => NotBeaten(m, m \div 2)
    BY <2>1, <1>r, TargetLargest DEF NotBeaten
  <2>6. \A m \in 2..curr_size : NotBeaten(m, m \div 2)
    BY <2>1, <2>5 DEF HeapInv
  <2> QED
    BY <2>3, <2>4, <2>6 DEF HeapInv, NotBeaten, Sifting
<1>9. ASSUME NEW c \in Consumers, Compute(c) PROVE HeapInv'
  BY <1>9, <1>k DEF Compute, Goto, PcTypeOK, segment
<1> QED
  BY <1>1, <1>2, <1>3, <1>4, <1>5, <1>6, <1>7, <1>8, <1>9, CalmOrWorking DEF Working

-----------------------------------------------------------------------------
(* The shutdown. *)

\* When main sees both counters at Jobs nothing is left to do, and nothing is after that.
LEMMA QuietStep == IInv /\ [Next]_vars => QuietInv' /\ KillOnlyWhenQuiet'
<1> SUFFICES ASSUME IInv, [Next]_vars PROVE QuietInv' /\ KillOnlyWhenQuiet'
  OBVIOUS
<1> USE ProcFacts
<1> DEFINE Over == pc[Main] \in {"mKill", "mWait", "exited"}
<1>t. TypeOK /\ PcTypeOK /\ ExactlyOnce /\ CompletedCount /\ MutualExclusion /\ QuietInv
      /\ (Over => Quiet)
  BY QuietFacts DEF IInv, TypeOK
<1> USE <1>t
\* Main's poll finds both counters at Jobs and no one else in a critical section.
<1>1. CASE MainPoll
  <2>1. CASE ~Finished
    <3>1. pc'[Main] = "mLock" /\ ~Over /\ signalled' = signalled
      BY <1>1, <2>1 DEF MainPoll, Goto, PcTypeOK, ended
    <3> QED
      BY <3>1 DEF QuietInv, KillOnlyWhenQuiet
  <2>2. CASE Finished
    <3>1. \A s \in Children : pc[s] \notin {"pSift", "cSift"}
      BY <1>1 DEF MainPoll, MutualExclusion, Locked
    <3>2. Cardinality(TakenIds) = Jobs
      BY <2>2, <3>1 DEF CompletedCount, Finished
    <3>3. TakenIds = 1..Jobs
      <4>1. TakenIds \in SUBSET (1..Jobs)
        BY DEF TakenIds, TypeOK, Job
      <4>2. IsFiniteSet(1..Jobs) /\ Cardinality(1..Jobs) = Jobs
        BY FS_Interval, ConstantsAssumption, SMT
      <4> QED
        BY <3>2, <4>1, <4>2, FS_Subset
    <3>4. \A j \in Queued \cup Held : j.id \in 1..Jobs
      BY DEF IInv, SlotInv, Queued, Held, TypeOK, Job
    <3>5. Queued = {} /\ Held = {}
      BY <3>3, <3>4 DEF TakenIds, ExactlyOnce, NoDuplicates
    <3>6. /\ priority_q' = priority_q /\ curr_size' = curr_size /\ job' = job /\ taken' = taken
          /\ job_created' = job_created /\ job_completed' = job_completed
      BY <1>1 DEF MainPoll, segment, history
    <3>7. pc'[Main] = "mKill" /\ \A s \in Children : pc'[s] = pc[s]
      BY <1>1, <2>2 DEF MainPoll, Goto, PcTypeOK
    <3>8. Queued' = {} /\ Held' = {} /\ TakenIds' = 1..Jobs /\ Sifting' = {}
      <4>1. Queued' = Queued
        BY <3>6 DEF Queued, Slots
      <4>2. Held' = Held
        BY <3>6 DEF Held
      <4>3. TakenIds' = TakenIds
        BY <3>6 DEF TakenIds
      <4>4. Sifting' = {}
        BY <3>1, <3>7 DEF Sifting
      <4> QED
        BY <3>3, <3>5, <4>1, <4>2, <4>3, <4>4
    <3>9. Finished'
      BY <2>2, <3>6 DEF Finished
    <3> QED
      BY <3>7, <3>8, <3>9 DEF QuietInv, KillOnlyWhenQuiet
  <2> QED
    BY <2>1, <2>2
<1>2. ASSUME Over, Calm, pc'[Main] \in {"mKill", "mWait", "exited"}
      PROVE  QuietInv' /\ KillOnlyWhenQuiet'
  BY <1>2 DEF Calm, Quiet, QuietInv, KillOnlyWhenQuiet, Finished, Queued, Held, Slots, TakenIds, Sifting, segment
<1>3. ASSUME ~Over, pc'[Main] \notin {"mKill", "mWait", "exited"}, signalled' = signalled
      PROVE  QuietInv' /\ KillOnlyWhenQuiet'
  BY <1>3 DEF QuietInv, KillOnlyWhenQuiet
<1>4. ASSUME NEW c \in Consumers, Compute(c), Over PROVE QuietInv' /\ KillOnlyWhenQuiet'
  <2>1. pc'[Main] = pc[Main] /\ \A s \in Children : s # c => pc'[s] = pc[s]
    BY <1>4 DEF Compute, Goto, PcTypeOK
  <2>2. pc'[c] = "cLock" /\ \A p \in Producers : job'[p] = job[p]
    BY <1>4 DEF Compute, Goto, PcTypeOK, TypeOK
  <2>3. Sifting' = {} /\ Held' = {} /\ Queued' = {} /\ TakenIds' = TakenIds
    <3>1. Held' = {} /\ Sifting' = {}
      BY <1>4, <2>1, <2>2 DEF Compute, Quiet, Sifting, Held
    <3>2. Queued' = {} /\ TakenIds' = TakenIds
      BY <1>4 DEF Compute, Quiet, Queued, Slots, TakenIds, segment
    <3> QED
      BY <3>1, <3>2
  <2> QED
    BY <1>4, <2>1, <2>3 DEF Compute, Quiet, QuietInv, KillOnlyWhenQuiet, Finished, segment
<1>5. Over /\ Working => \E c \in Consumers : Compute(c)
  <2> SUFFICES ASSUME Working, Over, ~ \E c \in Consumers : Compute(c) PROVE FALSE
    OBVIOUS
  <2>1. Quiet
    OBVIOUS
  <2>2. ASSUME NEW p \in Producers, ProducerCreate(p) PROVE FALSE
    BY <2>1, <2>2, ConstantsAssumption, SMT DEF ProducerCreate, Quiet, Finished
  <2>3. ASSUME NEW p \in Producers, ProducerInsert(p) PROVE FALSE
    <3>1. job[p] # NoJob
      BY <2>3 DEF ProducerInsert, IInv, HandInv
    <3> QED
      BY <2>1, <3>1 DEF Quiet, Held
  <2>4. ASSUME NEW s \in Children, pc[s] \in {"pSift", "cSift"} PROVE FALSE
    BY <2>1, <2>4 DEF Quiet, Sifting
  <2>5. ASSUME NEW c \in Consumers, ConsumerRemove(c) PROVE FALSE
    BY <2>1, <2>5, ConstantsAssumption, SMT DEF ConsumerRemove, Quiet, Finished
  <2> QED
    BY <2>2, <2>3, <2>4, <2>5 DEF Working, SiftUp, Inserted, SiftDown, Removed
\* Steps of the children do not move main; in a shutdown they are calm or end a computation.
<1>6. ASSUME pc'[Main] = pc[Main], signalled' = signalled PROVE QuietInv' /\ KillOnlyWhenQuiet'
  BY <1>2, <1>3, <1>4, <1>5, <1>6, CalmOrWorking
<1>7. CASE MainStep
  <2>1. CASE Fork
    <3>1. forked' \in Children
      BY <2>1, ConstantsAssumption, SMT DEF Fork, TypeOK, Children
    <3> QED
      BY <2>1, <3>1, <1>6 DEF Fork, Goto, PcTypeOK
  <2>2. CASE ForkFails \/ AllForked
    BY <2>2, <1>3 DEF ForkFails, AllForked, Goto, PcTypeOK, ended
  <2>3. CASE Kill \/ WaitNoHang \/ MainExit
    <3>1. Over /\ pc'[Main] \in {"mKill", "mWait", "exited"} /\ \A s \in Children : pc'[s] = pc[s]
      BY <2>3 DEF Kill, WaitNoHang, MainExit, Goto, PcTypeOK
    <3>2. UNCHANGED <<segment, job, taken>>
      BY <2>3 DEF Kill, WaitNoHang, MainExit, history
    <3> QED
      BY <3>1, <3>2
      DEF Quiet, QuietInv, KillOnlyWhenQuiet, Finished, Queued, Held, Slots, TakenIds, Sifting, segment
  <2> QED
    BY <1>7, <1>1, <2>1, <2>2, <2>3 DEF MainStep
<1>8. ASSUME NEW s \in Procs, Lock(s) PROVE QuietInv' /\ KillOnlyWhenQuiet'
  <2>1. CASE s = Main
    BY <1>8, <2>1, <1>3 DEF Lock, AfterLock, Goto, PcTypeOK, ended
  <2>2. CASE s # Main
    BY <1>8, <2>2, <1>6 DEF Lock, Goto, PcTypeOK, ended
  <2> QED
    BY <2>1, <2>2
<1>9. ASSUME NEW p \in Producers, ProducerStep(p) PROVE QuietInv' /\ KillOnlyWhenQuiet'
  BY <1>9, <1>6 DEF ProducerStep, ProducerDone, ProducerCreate, ProducerFull, ProducerInsert,
    ProducerRetry, SiftUp, Inserted, Goto, PcTypeOK, ended
<1>10. ASSUME NEW c \in Consumers, ConsumerStep(c) PROVE QuietInv' /\ KillOnlyWhenQuiet'
  BY <1>10, <1>6 DEF ConsumerStep, ConsumerDone, ConsumerEmpty, ConsumerRemove, SiftDown, Removed,
    Compute, Goto, PcTypeOK, ended
<1>11. ASSUME NEW c \in Children, SigTerm(c) PROVE QuietInv' /\ KillOnlyWhenQuiet'
  BY <1>11, <1>6 DEF SigTerm, Goto, PcTypeOK, ended
<1>12. CASE UNCHANGED vars
  BY <1>12, <1>6 DEF vars, ended
<1> QED
  BY <1>7, <1>8, <1>9, <1>10, <1>11, <1>12 DEF Next

-----------------------------------------------------------------------------
(* The theorems. *)

\* The invariant holds at the start.
LEMMA InvInit == Init => IInv
<1> SUFFICES ASSUME Init PROVE IInv
  OBVIOUS
<1> USE ProcFacts
<1>1. TypeOK
  BY TypeInit
<1>2. Slots = {} /\ Queued = {} /\ Held = {} /\ TakenIds = {} /\ Sifting = {}
  <2>1. Slots = {}
    BY SMT DEF Init, Slots
  <2> QED
    BY <2>1 DEF Init, Queued, Held, TakenIds, Sifting
<1>3. MutualExclusion /\ HandInv /\ IndexInv /\ QuietInv /\ KillOnlyWhenQuiet
  BY DEF Init, MutualExclusion, Locked, HandInv, IndexInv, QuietInv, KillOnlyWhenQuiet
<1>4. UnbornInv /\ MainLoopInv
  BY ConstantsAssumption, SMT DEF Init, UnbornInv, MainLoopInv, Children, Main
<1>5. SlotInv /\ HeapInv
  <2>1. 2..curr_size = {}
    BY SMT DEF Init
  <2> QED
    BY <1>2, <2>1 DEF Init, SlotInv, HeapInv
<1>6. ExactlyOnce
  <2>1. 1..job_created = {}
    BY SMT DEF Init
  <2> QED
    BY <1>2, <2>1 DEF Init, ExactlyOnce, NoDuplicates
<1>7. CompletedCount
  BY <1>2, FS_EmptySet DEF Init, CompletedCount
<1> QED
  BY <1>1, <1>3, <1>4, <1>5, <1>6, <1>7 DEF IInv

\* The inductive invariant holds in every reachable state.
THEOREM Invariant == Spec => []IInv
<1>1. Init => IInv
  BY InvInit
<1>2. IInv /\ [Next]_vars => IInv'
  BY TypeStep, MutexStep, UnbornStep, MainLoopStep, HandStep, IndexStep, SlotStep,
     ExactlyOnceStep, CompletedStep, HeapStep, QuietStep DEF IInv
<1> QED
  BY <1>1, <1>2, PTL DEF Spec

\* The variables keep their types: the queue never outgrows its slots and no more than
\* Jobs jobs are made, for any number of producers that race for the last slot or job.
THEOREM TypeCorrect == Spec => []TypeOK
BY Invariant, PTL DEF IInv

\* insert_job and remove_job, interleaved by any number of processes, neither lose a job nor
\* hand one out twice.
THEOREM JobsExactlyOnce == Spec => []ExactlyOnce
BY Invariant, PTL DEF IInv

\* The counter main polls equals the number of jobs remove_job has handed out.
THEOREM CompletedCounts == Spec => []CompletedCount
BY Invariant, PTL DEF IInv

\* The queue is a max-heap whenever its mutex is free.
THEOREM HeapCorrect == Spec => []HeapOrder
<1>1. IInv => HeapOrder
  BY ProcFacts DEF IInv, HeapInv, HeapOrder, NotBeaten, Sifting, MutualExclusion, Locked
<1> QED
  BY <1>1, Invariant, PTL

\* Main sends SIGTERM only when all jobs are taken and nobody is changing the heap.
THEOREM KillSafe == Spec => []KillOnlyWhenQuiet
BY Invariant, PTL DEF IInv

-----------------------------------------------------------------------------
(* The heap implements the pool. *)

\* A nonempty set of naturals has a least element.
LEMMA Least ==
  ASSUME NEW T \in SUBSET Nat, T # {}
  PROVE  \E x \in T : \A y \in T : x <= y
<1> DEFINE R == OpToRel(<, Nat)
<1>1. PICK x \in T : \A y \in T : ~(<<y, x>> \in R)
  BY NatLessThanWellFounded, WFMin, Zenon
<1>2. \A y \in T : y < x => <<y, x>> \in R
  BY DEF OpToRel
<1>3. \A y \in T : ~(y < x)
  BY <1>1, <1>2
<1>4. \A y \in T : x <= y
  BY <1>3, SMT
<1> QED
  BY <1>4

\* No entry of a heap beats its root: the least slot that did would have a parent that does.
LEMMA RootMax ==
  ASSUME IInv, Sifting = {}
  PROVE  \A i \in Slots : priority_q[i].priority <= priority_q[1].priority
<1> DEFINE T == {i \in Slots : ~(priority_q[i].priority <= priority_q[1].priority)}
<1>t. TypeOK /\ HeapInv /\ curr_size \in Nat
  BY DEF IInv, TypeOK
<1> SUFFICES ASSUME T # {} PROVE FALSE
  OBVIOUS
<1>1. PICK x \in T : \A y \in T : x <= y
  BY <1>t, Least, SlotRange
<1>2. x \in Slots /\ 1 \in Slots /\ x # 1
  <2>1. x \in Slots /\ curr_size > 0
    BY <1>t, SlotRange, SMT
  <2>2. 1 \in Slots
    BY <1>t, <2>1, SlotRange
  <2>3. x # 1
    BY <2>2, SlotPriority, SMT
  <2> QED
    BY <2>1, <2>2, <2>3
<1>3. x \in 2..curr_size /\ x \in Nat /\ x > 1
  BY <1>t, <1>2, SMT DEF Slots
<1>4. x \div 2 \in Slots /\ x \div 2 < x /\ x \div 2 \in Nat
  BY <1>t, <1>3, Halves, SMT DEF Slots
<1>5. x \div 2 \notin T
  BY <1>1, <1>3, <1>4, SMT
<1>6. priority_q[x \div 2].priority <= priority_q[1].priority
  BY <1>4, <1>5
<1>7. priority_q[x].priority <= priority_q[x \div 2].priority
  BY <1>t, <1>3 DEF HeapInv, NotBeaten
<1>8. /\ priority_q[x].priority \in Nat /\ priority_q[1].priority \in Nat
      /\ priority_q[x \div 2].priority \in Nat
  BY <1>2, <1>4, SlotPriority
<1>9. priority_q[x].priority <= priority_q[1].priority
  BY <1>6, <1>7, <1>8, SMT
<1> QED
  BY <1>1, <1>9

\* There are no more queued jobs than slots in use.
LEMMA QueuedCount ==
  ASSUME TypeOK
  PROVE  IsFiniteSet(Queued) /\ Cardinality(Queued) <= curr_size
<1> DEFINE f == [i \in 1..curr_size |-> priority_q[i]]
<1>1. f \in Surjection(1..curr_size, Queued)
  BY DEF Surjection, Queued, Slots
<1>2. IsFiniteSet(1..curr_size) /\ Cardinality(1..curr_size) = curr_size
  BY FS_Interval, SMT DEF TypeOK
<1> HIDE DEF f
<1>3. IsFiniteSet(Queued) /\ Cardinality(Queued) <= Cardinality(1..curr_size)
  BY <1>1, <1>2, FS_Surjection
<1> QED
  BY <1>2, <1>3

\* A pool with room has a free slot behind it.
LEMMA RoomInPool ==
  ASSUME TypeOK, HasRoom
  PROVE  Cardinality(Queued) < PQ_SIZE - 1
<1>1. Cardinality(Queued) \in Nat
  BY QueuedCount, FS_CardinalityType
<1> QED
  BY <1>1, QueuedCount, ConstantsAssumption, SMT DEF HasRoom, TypeOK

\* The mapping of held, and JobPool's Cardinality, which is that of FiniteSets.
LEMMA PoolCardinality == \A S : Pool!Cardinality(S) = Cardinality(S)
BY Zenon DEF Pool!Cardinality, Cardinality, Pool!IsFiniteSet, IsFiniteSet

\* The jobs in the hands of the producers, as JobPool sees them.
poolHeld == [p \in Producers |-> {job[p]} \ {NoJob}]

\* Every step is a step of JobPool or changes nothing that JobPool sees.
LEMMA PoolStep == IInv /\ IInv' /\ [Next]_vars => [Pool!Next]_Pool!vars
<1> SUFFICES ASSUME IInv, IInv', [Next]_vars PROVE [Pool!Next]_Pool!vars
  OBVIOUS
<1> USE ProcFacts
<1>t. TypeOK /\ PcTypeOK /\ HandInv /\ ExactlyOnce /\ IndexInv
  BY DEF IInv, TypeOK
<1> USE <1>t
<1>k. UNCHANGED <<job_created, taken, Queued>> /\ (\A p \in Producers : job'[p] = job[p])
        => UNCHANGED Pool!vars
  BY DEF Pool!vars
<1>1. CASE UNCHANGED <<priority_q, curr_size, job_created, job, taken>>
  BY <1>1, <1>k DEF Queued, Slots
<1>2. ASSUME NEW p \in Producers, ProducerCreate(p) PROVE Pool!Make(p)
  <2>1. job[p] = NoJob /\ job_created < Jobs /\ HasRoom
    BY <1>2 DEF ProducerCreate, HandInv
  <2>2. PICK pri \in Priorities : job' = [job EXCEPT ![p] = [id |-> job_created + 1, priority |-> pri]]
    BY <1>2 DEF ProducerCreate
  <2>3. [id |-> job_created + 1, priority |-> pri] # NoJob
    <3>1. job_created + 1 # 0
      BY ConstantsAssumption, SMT DEF TypeOK
    <3> QED
      BY <3>1 DEF NoJob
  <2>4. poolHeld' = [poolHeld EXCEPT ![p] = {[id |-> job_created + 1, priority |-> pri]}]
    BY <2>2, <2>3 DEF poolHeld, TypeOK
  <2>5. UNCHANGED <<Queued, taken>> /\ job_created' = job_created + 1
    BY <1>2 DEF ProducerCreate, Queued, Slots, history
  <2>6. Cardinality(Queued) < PQ_SIZE - 1
    BY <2>1, RoomInPool
  <2> QED
    BY <2>1, <2>4, <2>5, <2>6, PoolCardinality DEF Pool!Make, poolHeld
<1>3. ASSUME NEW p \in Producers, ProducerInsert(p) PROVE Pool!Post(p)
  <2>1. job[p] # NoJob /\ HasRoom
    BY <1>3 DEF ProducerInsert, HandInv
  <2>2. poolHeld' = [poolHeld EXCEPT ![p] = {}] /\ poolHeld[p] = {job[p]}
    <3>1. job' = [job EXCEPT ![p] = NoJob] /\ job \in [Children -> Job \cup {NoJob}]
      <4>1. job' = [job EXCEPT ![p] = NoJob]
        BY <1>3, <2>1 DEF ProducerInsert
      <4> QED
        BY <4>1 DEF TypeOK
    <3>2. \A q \in Producers : {job'[q]} \ {NoJob} = IF q = p THEN {} ELSE {job[q]} \ {NoJob}
      BY <3>1
    <3>3. {job[p]} \ {NoJob} = {job[p]}
      BY <2>1
    <3> QED
      BY <3>2, <3>3 DEF poolHeld
  <2>3. curr_size + 1 \in 1..(PQ_SIZE - 1) /\ curr_size + 1 \in Slots' /\ Slots \subseteq Slots'
        /\ \A i \in Slots' : i \in Slots \/ i = curr_size + 1
    BY <1>3, ConstantsAssumption, SMT DEF ProducerInsert, HasRoom, TypeOK, Slots
  <2>4. \A i \in Slots : i # curr_size + 1 /\ i \in 1..(PQ_SIZE - 1)
    <3>1. curr_size \in Nat
      BY DEF TypeOK
    <3> QED
      BY <3>1, SlotRange, SMT
  <2>5. /\ priority_q'[curr_size + 1] = job[p]
        /\ \A i \in Slots : priority_q'[i] = priority_q[i]
    BY <1>3, <2>3, <2>4 DEF ProducerInsert, TypeOK
  <2>6. Queued' = Queued \cup {job[p]}
    BY <2>3, <2>5 DEF Queued
  <2>7. Cardinality(Queued) < PQ_SIZE - 1
    BY <2>1, RoomInPool
  <2>8. UNCHANGED <<job_created, taken>>
    BY <1>3 DEF ProducerInsert, history
  <2> QED
    BY <2>2, <2>6, <2>7, <2>8, PoolCardinality DEF Pool!Post, poolHeld
<1>4. ASSUME NEW p \in Producers, SiftUp(p) PROVE UNCHANGED Pool!vars
  <2>1. index[p] \in Slots /\ index[p] \div 2 \in Slots
    BY <1>4, Halves, SMT DEF SiftUp, BeatsParent, IndexInv, Slots, TypeOK
  <2> QED
    BY <1>4, <1>k, <2>1, SwapKeeps DEF SiftUp, history
<1>5. ASSUME NEW c \in Consumers, ConsumerRemove(c) PROVE Pool!Take
  <2> DEFINE root == priority_q[1]
  <2>1. 1 \in Slots
    BY <1>5, RemoveFacts
  <2>2. Sifting = {}
    BY <1>5, Alone DEF ConsumerRemove, Locked, Sifting
  <2>3. root \in Queued /\ \A k \in Queued : k.priority <= root.priority
    BY <2>1, <2>2, RootMax DEF Queued
  <2>4. Queued' = Queued \ {root}
    BY <1>5, RemoveFacts
  <2>5. \A p \in Producers : job'[p] = job[p]
    BY <1>5 DEF ConsumerRemove, TypeOK
  <2>6. taken' = taken \cup {root} /\ job_created' = job_created
    BY <1>5 DEF ConsumerRemove
  <2> QED
    BY <2>3, <2>4, <2>5, <2>6 DEF Pool!Take
<1>6. ASSUME NEW c \in Consumers, SiftDown(c) PROVE UNCHANGED Pool!vars
  <2>1. index[c] \in Slots /\ Target(index[c]) \in Slots
    BY <1>6, TargetSlot, SMT DEF SiftDown, IndexInv, TypeOK
  <2> QED
    BY <1>6, <1>k, <2>1, SwapKeeps DEF SiftDown, history
<1>7. ASSUME NEW c \in Consumers, Compute(c) PROVE UNCHANGED Pool!vars
  BY <1>7, <1>k DEF Compute, TypeOK, Queued, Slots, segment
<1> QED
  BY <1>1, <1>2, <1>3, <1>4, <1>5, <1>6, <1>7, CalmOrWorking
  DEF Working, Calm, Inserted, Removed, segment, history, Pool!Next

\* JobQueue implements JobPool: through the heap, its loops and its lock every job goes
\* from its producer to one consumer, and consumers always get a job of the highest priority.
THEOREM Implements == Spec => ImplementsPool
<1>1. Init => Pool!Init
  <2> SUFFICES ASSUME Init PROVE Pool!Init
    OBVIOUS
  <2>1. Slots = {}
    BY SMT DEF Init, Slots
  <2> QED
    BY <2>1, ProcFacts DEF Init, Pool!Init, Queued
<1>2. IInv /\ IInv' /\ [Next]_vars => [Pool!Next]_Pool!vars
  BY PoolStep
<1> QED
  BY <1>1, <1>2, Invariant, PTL DEF Spec, ImplementsPool, Pool!Spec
=============================================================================
