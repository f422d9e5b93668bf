------------------------- MODULE UserProcessProofs -------------------------
(***************************************************************************)
(* Proofs about UserProcess for any number of processes and pages and any  *)
(* programs: what exec and wait report is true although the semaphores     *)
(* they sleep on may lie in freed or reused pages.                         *)
(***************************************************************************)
EXTENDS UserProcess, TLAPS, SequenceTheorems

USE ProcessAssumption DEF Tids, Main, NoTid

-----------------------------------------------------------------------------
(* The parts of the inductive invariant that are not properties themselves. *)

\* Where a thread is that does not run yet.
Unstarted == {"unborn", "made"}

\* Tids are given out in order, and the initial thread neither loads nor exits.
Born ==
  /\ \A t \in Tids \ {Main} : pc[t] = "unborn" <=> t >= next_tid
  /\ pc[Main] \in {"user", "execInit", "waitDown", "waitBlocked", "waitRead"}
  /\ \A t \in Tids \ {Main} : pc[t] # "unborn" => page[t] \in Pages
  /\ \A t \in listed : t # Main /\ pc[t] \notin Unstarted

\* A semaphore has a positive value only in a page in use, after its owner raised it.
SemaInv ==
  \A p \in Pages :
    /\ wait_load[p].value > 0 =>
         owner[p] \in Tids /\ pc[owner[p]] \notin {"made", "load", "loadUp"}
    /\ wait_exit[p].value > 0 =>
         owner[p] \in Tids /\ pc[owner[p]] \in {"procFree", "dying"}

\* A thread inside exec or wait has a child it was created for or asked for, and only a
\* thread that is setting up a child has one that does not run yet.
Calling == {"execInit", "execDown", "execBlocked", "waitDown", "waitBlocked", "waitRead"}
TargetInv ==
  /\ \A t \in Tids : pc[t] \in Calling =>
       /\ target[t] \in Tids \ {Main} /\ pc[target[t]] # "unborn"
       /\ pc[t] = "execInit" <=> pc[target[t]] = "made"
  /\ \A t, u \in Tids :
       pc[t] = "execInit" /\ pc[u] = "execInit" /\ target[t] = target[u] => t = u

\* load_status is the result of load once load is over; only a loaded process runs.
LoadInv ==
  \A c \in Tids \ {Main} :
    /\ pc[c] \notin {"unborn", "made", "load"} => child[c].load_status = success[c]
    /\ pc[c] \in Calling \cup {"user", "exitStatus", "exitCur"} => success[c]

\* cur_status and exit_status of a process at each place of its life.
StatusInv ==
  \A c \in Tids \ {Main} :
    /\ pc[c] \notin Exited \cup Unstarted => child[c].cur_status = "ALIVE"
    /\ pc[c] \in Exited /\ (success[c] \/ pc[c] # "procAlive") => child[c].cur_status # "ALIVE"
    /\ pc[c] = "procStatus" => ~success[c]
    /\ pc[c] \in Exited \cup {"exitCur"} /\ success[c] => child[c].exit_status = code[c]

\* A wait that is about to read the status has a child that stored it.
ReadInv ==
  \A t \in Tids : pc[t] = "waitRead" => pc[target[t]] \in Exited

\* A child has one thread that sleeps or will sleep for it: its parent.
ParentInv == \A t \in Tids : pc[t] \in Waiting => parent[target[t]] = t

\* A thread is on the list of the semaphore that is in the page of its target.
OnAt(sema, p, w) == \E i \in 1..Len(sema[p].waiters) : sema[p].waiters[i] = w
ListInv ==
  \A p \in Pages, w \in Tids :
    OnAt(wait_load, p, w) \/ OnAt(wait_exit, p, w) => page[target[w]] = p

\* The inductive invariant.
IInv ==
  /\ TypeOK /\ Born /\ PagesOwned /\ OneQueue
  /\ SemaInv /\ TargetInv /\ LoadInv /\ StatusInv /\ ReadInv
  /\ ParentInv /\ ListInv

-----------------------------------------------------------------------------
(* Type correctness. *)

\* What a semaphore's list is after the first waiter is taken from it.
LEMMA RestType ==
  ASSUME NEW s \in Seq(Tids)
  PROVE  /\ Rest(s) \in Seq(Tids)
         /\ s # <<>> => /\ Head(s) \in Tids /\ Head(s) = s[1] /\ Len(s) > 0
                        /\ Len(Rest(s)) = Len(s) - 1
                        /\ \A i \in 1..Len(Rest(s)) : Rest(s)[i] = s[i + 1]
         /\ s = <<>> => Len(Rest(s)) = 0
<1>1. CASE s = <<>>
  <2>1. Rest(s) = <<>>
    BY <1>1 DEF Rest
  <2> QED BY <1>1, <2>1
<1>2. CASE s # <<>>
  <2>1. Rest(s) = Tail(s)
    BY <1>2 DEF Rest
  <2>2. /\ Head(s) \in Tids /\ Tail(s) \in Seq(Tids) /\ Len(Tail(s)) = Len(s) - 1
        /\ \A i \in 1 .. Len(Tail(s)) : Tail(s)[i] = s[i+1]
    BY <1>2, HeadTailProperties
  <2>3. Len(s) \in Nat \ {0}
    BY <1>2, EmptySeq
  <2>4. Head(s) = s[1]
    BY <1>2, <2>3
  <2> QED BY <1>2, <2>1, <2>2, <2>3, <2>4
<1> QED BY <1>1, <1>2

\* The first waiter is a thread or nobody, and each operation keeps a semaphore's type.
LEMMA SemaType ==
  ASSUME NEW sema \in [Pages -> Semaphore], NEW p \in Pages
  PROVE  /\ First(sema, p) \in Tids \cup {NoTid}
         /\ Increment(sema, p) \in [Pages -> Semaphore]
         /\ Passes(sema, p) => Decrement(sema, p) \in [Pages -> Semaphore]
         /\ \A t \in Tids : Enqueue(sema, p, t) \in [Pages -> Semaphore]
         /\ [sema EXCEPT ![p] = Fresh] \in [Pages -> Semaphore]
<1>1. sema[p].value \in Nat /\ sema[p].waiters \in Seq(Tids)
  BY DEF Semaphore
<1>2. First(sema, p) \in Tids \cup {NoTid}
  BY <1>1, RestType DEF First
<1>3. Rest(sema[p].waiters) \in Seq(Tids)
  BY <1>1, RestType
<1>4. Increment(sema, p) \in [Pages -> Semaphore]
  BY <1>1, <1>3 DEF Semaphore, Increment
<1>5. ASSUME Passes(sema, p) PROVE Decrement(sema, p) \in [Pages -> Semaphore]
  <2>1. CASE owner[p] = NoTid
    BY <2>1 DEF Decrement
  <2>2. CASE owner[p] # NoTid
    <3>1. sema[p].value - 1 \in Nat
      BY <1>1, <1>5, <2>2 DEF Passes
    <3>2. [sema[p] EXCEPT !.value = @ - 1] \in Semaphore
      BY <3>1 DEF Semaphore
    <3> QED BY <2>2, <3>2 DEF Decrement
  <2> QED BY <2>1, <2>2
<1>6. ASSUME NEW t \in Tids PROVE Enqueue(sema, p, t) \in [Pages -> Semaphore]
  <2>1. Append(sema[p].waiters, t) \in Seq(Tids)
    BY <1>1
  <2> QED BY <1>1, <2>1 DEF Semaphore, Enqueue
<1>7. [sema EXCEPT ![p] = Fresh] \in [Pages -> Semaphore]
  <2>1. Fresh \in Semaphore
    BY DEF Fresh, Semaphore
  <2> QED BY <2>1
<1> QED BY <1>2, <1>4, <1>5, <1>6, <1>7

\* Raising a semaphore moves the thread that does it and the waiter it wakes.
LEMMA GotoType ==
  ASSUME pc \in [Tids -> Labels], NEW t \in Tids, NEW label \in Labels, Goto(t, label)
  PROVE  pc' \in [Tids -> Labels]
BY DEF Goto

LEMMA WakeType ==
  ASSUME pc \in [Tids -> Labels], NEW sema, NEW t \in Tids, NEW label \in Labels
  PROVE  /\ Wake(sema, t, label) \in [Tids -> Labels]
         /\ Wake(sema, t, label)[t] = label
         /\ \A u \in Tids \ {t} : u # First(sema, page[t]) => Wake(sema, t, label)[u] = pc[u]
         /\ \A u \in Tids \ {t} : u = First(sema, page[t]) =>
              Wake(sema, t, label)[u] = IF pc[u] = "execBlocked" THEN "execDown" ELSE "waitDown"
BY DEF Wake, Labels

\* A thread inside the kernel works on semaphores that are at addresses of pages.
LEMMA Addresses ==
  ASSUME TypeOK, Born, TargetInv, NEW t \in Tids
  PROVE  /\ pc[t] \in Calling => page[target[t]] \in Pages
         /\ t # Main /\ pc[t] # "unborn" => page[t] \in Pages
BY DEF Born, TargetInv

\* Main has no step of a process that loads or exits.
LEMMA NotMain ==
  ASSUME Born, NEW t \in Tids,
         pc[t] \in {"load", "loadUp", "exitStatus", "exitCur", "procAlive", "procStatus",
                    "procUp", "procFree", "dying", "dead", "execDown", "execBlocked"}
  PROVE  t # Main
BY DEF Born

\* What a store to one field of a child_element does.
LEMMA ElementStore ==
  ASSUME child \in [Tids -> Elements], NEW c \in Tids
  PROVE  /\ \A v \in Int : [child EXCEPT ![c].exit_status = v] \in [Tids -> Elements]
         /\ \A v \in {"ALIVE", "EXITED", "KILLED"} :
              [child EXCEPT ![c].cur_status = v] \in [Tids -> Elements]
         /\ \A v \in BOOLEAN : [child EXCEPT ![c].load_status = v] \in [Tids -> Elements]
         /\ \A v \in BOOLEAN : [child EXCEPT ![c].parent_waiting = v] \in [Tids -> Elements]
<1> DEFINE e == child[c]
<1>1. e \in Elements
  OBVIOUS
<1>2. ASSUME NEW v \in Int PROVE [child EXCEPT ![c].exit_status = v] \in [Tids -> Elements]
  <2>1. [e EXCEPT !.exit_status = v] \in Elements
    BY <1>1 DEF Elements
  <2> QED BY <2>1
<1>3. ASSUME NEW v \in {"ALIVE", "EXITED", "KILLED"}
      PROVE  [child EXCEPT ![c].cur_status = v] \in [Tids -> Elements]
  <2>1. [e EXCEPT !.cur_status = v] \in Elements
    BY <1>1 DEF Elements
  <2> QED BY <2>1
<1>4. ASSUME NEW v \in BOOLEAN PROVE [child EXCEPT ![c].load_status = v] \in [Tids -> Elements]
  <2>1. [e EXCEPT !.load_status = v] \in Elements
    BY <1>1 DEF Elements
  <2> QED BY <2>1
<1>5. ASSUME NEW v \in BOOLEAN PROVE [child EXCEPT ![c].parent_waiting = v] \in [Tids -> Elements]
  <2>1. [e EXCEPT !.parent_waiting = v] \in Elements
    BY <1>1 DEF Elements
  <2> QED BY <2>1
<1> QED BY <1>2, <1>3, <1>4, <1>5

\* Every variable starts with its type.
LEMMA TypeInit == Init => TypeOK
<1> SUFFICES ASSUME Init PROVE TypeOK
  OBVIOUS
<1>1. Fresh \in Semaphore
  BY DEF Fresh, Semaphore
<1>2. NewChild \in Elements
  BY DEF NewChild, Elements, UNDEFINED_EXIT
<1> QED BY <1>1, <1>2 DEF Init, TypeOK, Labels, UNDEFINED_EXIT

\* No step of a thread changes a type.
LEMMA TypeStep ==
  ASSUME TypeOK, Born, TargetInv, NEW t \in Tids, Step(t)
  PROVE  TypeOK'
<1> USE DEF TypeOK
<1>1. CASE Exec(t)
  <2>1. PICK p \in Pages : /\ owner' = [owner EXCEPT ![p] = next_tid]
                          /\ page' = [page EXCEPT ![next_tid] = p]
    BY <1>1 DEF Exec
  <2>2. next_tid \in Tids /\ next_tid' \in 2..(MaxTid + 1)
    BY <1>1 DEF Exec, MayExec
  <2>3. pc' \in [Tids -> Labels]
    BY <1>1, <2>2 DEF Exec, Labels
  <2> QED BY <1>1, <2>1, <2>2, <2>3 DEF Exec
<1>22. CASE ExecStart(t)
  <2>1. target[t] \in Tids /\ page[target[t]] \in Pages
    BY <1>22, Addresses DEF ExecStart, TargetInv, Calling
  <2>2. wait_load' \in [Pages -> Semaphore] /\ wait_exit' \in [Pages -> Semaphore]
    BY <1>22, <2>1, SemaType DEF ExecStart
  <2>3. child' \in [Tids -> Elements]
    <3>1. NewChild \in Elements
      BY DEF NewChild, Elements, UNDEFINED_EXIT
    <3>2. child' = [child EXCEPT ![target[t]] = NewChild]
      BY <1>22 DEF ExecStart
    <3> QED BY <2>1, <3>1, <3>2
  <2>4. pc' \in [Tids -> Labels]
    BY <1>22, <2>1 DEF ExecStart, Labels
  <2> QED BY <1>22, <2>1, <2>2, <2>3, <2>4 DEF ExecStart, locals
<1>23. CASE DownRaw(t)
  BY <1>23 DEF DownRaw, memory, locals
<1>2. CASE ExecFails(t)
  BY <1>2 DEF ExecFails, memory, locals
<1>3. CASE ExecDown(t)
  <2>1. wait_load' \in [Pages -> Semaphore]
    BY <1>3, Addresses, SemaType DEF ExecDown, Calling
  <2>2. eax' \in [Tids -> Int]
    BY <1>3 DEF ExecDown
  <2>3. pc' \in [Tids -> Labels]
    BY <1>3 DEF ExecDown, Goto, Labels
  <2> QED BY <1>3, <2>1, <2>2, <2>3 DEF ExecDown, memory
<1>4. CASE ExecBlock(t)
  <2>1. wait_load' \in [Pages -> Semaphore]
    BY <1>4, Addresses, SemaType DEF ExecBlock, Calling
  <2>2. pc' \in [Tids -> Labels]
    BY <1>4 DEF ExecBlock, Goto, Labels
  <2> QED BY <1>4, <2>1, <2>2 DEF ExecBlock, memory, locals
<1>5. CASE Wait(t)
  <2>1. PICK c \in Children(t) :
          /\ child' = [child EXCEPT ![c].parent_waiting = TRUE]
          /\ target' = [target EXCEPT ![t] = c]
          /\ Goto(t, IF child[c].cur_status = "ALIVE" THEN "waitDown" ELSE "waitRead")
    BY <1>5 DEF Wait
  <2>2. c \in Tids
    BY DEF Children
  <2>3. child' \in [Tids -> Elements]
    BY <2>1, <2>2, ElementStore
  <2>4. pc' \in [Tids -> Labels]
    BY <2>1 DEF Goto, Labels
  <2> QED BY <1>5, <2>1, <2>2, <2>3, <2>4 DEF Wait, memory
<1>6. CASE WaitAgain(t)
  <2>1. eax' \in [Tids -> Int]
    BY <1>6 DEF WaitAgain
  <2> QED BY <1>6, <2>1 DEF WaitAgain, memory
<1>7. CASE WaitUnknown(t)
  BY <1>7 DEF WaitUnknown, memory, locals
<1>8. CASE Exit(t)
  <2>1. code' \in [Tids -> Int]
    BY <1>8 DEF Exit, ProcessAssumption
  <2>2. pc' \in [Tids -> Labels]
    BY <1>8 DEF Exit, Goto, Labels
  <2> QED BY <1>8, <2>1, <2>2 DEF Exit, memory
<1>9. CASE WaitDown(t)
  <2>1. wait_exit' \in [Pages -> Semaphore]
    BY <1>9, Addresses, SemaType DEF WaitDown, Calling
  <2>2. pc' \in [Tids -> Labels]
    BY <1>9 DEF WaitDown, Goto, Labels
  <2> QED BY <1>9, <2>1, <2>2 DEF WaitDown, memory, locals
<1>10. CASE WaitBlock(t)
  <2>1. wait_exit' \in [Pages -> Semaphore]
    BY <1>10, Addresses, SemaType DEF WaitBlock, Calling
  <2>2. pc' \in [Tids -> Labels]
    BY <1>10 DEF WaitBlock, Goto, Labels
  <2> QED BY <1>10, <2>1, <2>2 DEF WaitBlock, memory, locals
<1>11. CASE WaitRead(t)
  <2>1. child[target[t]].exit_status \in Int
    <3>1. target[t] \in Tids
      BY <1>11 DEF WaitRead, TargetInv, Calling
    <3> QED BY <3>1 DEF Elements
  <2>2. pc' \in [Tids -> Labels]
    BY <1>11 DEF WaitRead, Goto, Labels
  <2> QED BY <1>11, <2>1, <2>2 DEF WaitRead, memory
<1>12. CASE Load(t)
  <2>1. PICK ok \in BOOLEAN : /\ success' = [success EXCEPT ![t] = ok]
                              /\ child' = [child EXCEPT ![t].load_status = ok]
    BY <1>12 DEF Load
  <2>3. child' \in [Tids -> Elements] /\ success' \in [Tids -> BOOLEAN]
    BY <2>1, ElementStore
  <2>2. pc' \in [Tids -> Labels]
    BY <1>12 DEF Load, Goto, Labels
  <2> QED BY <1>12, <2>2, <2>3 DEF Load, memory
<1>13. CASE LoadUp(t)
  <2>1. wait_load' \in [Pages -> Semaphore]
    BY <1>13, Addresses, NotMain, SemaType DEF LoadUp
  <2>2. (IF success[t] THEN "user" ELSE "procAlive") \in Labels
    BY DEF Labels
  <2>3. pc' \in [Tids -> Labels]
    BY <1>13, <2>2, WakeType DEF LoadUp
  <2> QED BY <1>13, <2>1, <2>3 DEF LoadUp, memory, locals
<1>14. CASE ExitStatus(t)
  <2>1. child' \in [Tids -> Elements]
    BY <1>14, ElementStore DEF ExitStatus
  <2>2. pc' \in [Tids -> Labels]
    BY <1>14 DEF ExitStatus, Goto, Labels
  <2> QED BY <1>14, <2>1, <2>2 DEF ExitStatus, memory, locals
<1>15. CASE ExitCur(t)
  <2> DEFINE status == IF code[t] = -1 THEN "KILLED" ELSE "EXITED"
  <2>3. status \in {"ALIVE", "EXITED", "KILLED"} /\ child' = [child EXCEPT ![t].cur_status = status]
    BY <1>15 DEF ExitCur
  <2> HIDE DEF status
  <2>1. child' \in [Tids -> Elements]
    BY <2>3, ElementStore
  <2>2. pc' \in [Tids -> Labels]
    BY <1>15 DEF ExitCur, Goto, Labels
  <2> QED BY <1>15, <2>1, <2>2 DEF ExitCur, memory, locals
<1>16. CASE Stale(t)
  BY <1>16 DEF Stale, memory, locals
<1>17. CASE ProcAlive(t)
  <2>1. child' \in [Tids -> Elements]
    <3>1. child' = [child EXCEPT ![t].cur_status = "KILLED"] \/ child' = child
      BY <1>17 DEF ProcAlive
    <3>2. "KILLED" \in {"ALIVE", "EXITED", "KILLED"}
      OBVIOUS
    <3>3. [child EXCEPT ![t].cur_status = "KILLED"] \in [Tids -> Elements]
      BY <3>2, ElementStore
    <3> QED BY <3>1, <3>3
  <2>2. pc' \in [Tids -> Labels]
    <3>1. PICK label \in {"procStatus", "procUp"} : Goto(t, label)
      BY <1>17 DEF ProcAlive
    <3>2. label \in Labels /\ pc \in [Tids -> Labels]
      BY DEF Labels
    <3> HIDE DEF TypeOK
    <3> QED BY <3>1, <3>2, GotoType
  <2> QED BY <1>17, <2>1, <2>2 DEF ProcAlive, memory, locals
<1>18. CASE ProcStatus(t)
  <2>1. child' = [child EXCEPT ![t].exit_status = -1] /\ -1 \in Int
    BY <1>18 DEF ProcStatus
  <2>3. child' \in [Tids -> Elements]
    BY <2>1, ElementStore
  <2>2. pc' \in [Tids -> Labels]
    BY <1>18 DEF ProcStatus, Goto, Labels
  <2> QED BY <1>18, <2>2, <2>3 DEF ProcStatus, memory, locals
<1>19. CASE ProcUp(t)
  <2>1. wait_exit' \in [Pages -> Semaphore]
    BY <1>19, Addresses, NotMain, SemaType DEF ProcUp
  <2>2. pc' \in [Tids -> Labels]
    <3>1. pc' = Wake(wait_exit, t, "procFree")
      BY <1>19 DEF ProcUp
    <3>2. "procFree" \in Labels /\ pc \in [Tids -> Labels]
      BY DEF Labels
    <3> HIDE DEF TypeOK
    <3> QED BY <3>1, <3>2, WakeType
  <2> QED BY <1>19, <2>1, <2>2 DEF ProcUp, memory, locals
<1>20. CASE ProcFree(t)
  <2>1. pc' \in [Tids -> Labels]
    BY <1>20 DEF ProcFree, Goto, Labels
  <2> QED BY <1>20, <2>1 DEF ProcFree, locals
<1>21. CASE Die(t)
  <2>1. page[t] \in Pages
    BY <1>21, Addresses, NotMain DEF Die
  <2>2. wait_load' \in [Pages -> Semaphore] /\ wait_exit' \in [Pages -> Semaphore]
    BY <1>21, <2>1, SemaType DEF Die
  <2>3. pc' \in [Tids -> Labels]
    BY <1>21 DEF Die, Goto, Labels
  <2> QED BY <1>21, <2>1, <2>2, <2>3 DEF Die, locals
<1> QED
  BY <1>1, <1>2, <1>3, <1>4, <1>5, <1>6, <1>7, <1>8, <1>9, <1>10, <1>11, <1>12, <1>13,
     <1>14, <1>15, <1>16, <1>17, <1>18, <1>19, <1>20, <1>21, <1>22, <1>23
  DEF Step, UserStep, KernelStep

-----------------------------------------------------------------------------
(* What a step of one thread does to the others. *)

\* The threads on the lists of the semaphores are blocked there.
LEMMA FirstBlocked ==
  ASSUME TypeOK, OneQueue, NEW p \in Pages
  PROVE  /\ First(wait_load, p) \in Tids => pc[First(wait_load, p)] = "execBlocked"
         /\ First(wait_exit, p) \in Tids => pc[First(wait_exit, p)] = "waitBlocked"
<1>1. wait_load[p].waiters \in Seq(Tids) /\ wait_exit[p].waiters \in Seq(Tids)
  BY DEF TypeOK, Semaphore
<1>2. ASSUME First(wait_load, p) \in Tids PROVE pc[First(wait_load, p)] = "execBlocked"
  <2>1. wait_load[p].waiters # <<>>
    BY <1>2 DEF First
  <2>3. Len(wait_load[p].waiters) \in Nat \ {0}
    BY <1>1, <2>1, EmptySeq
  <2>2. 1 \in 1..Len(wait_load[p].waiters) /\ First(wait_load, p) = wait_load[p].waiters[1]
    BY <1>1, <2>1, <2>3, RestType DEF First
  <2> QED BY <2>2 DEF OneQueue, QueueOK
<1>3. ASSUME First(wait_exit, p) \in Tids PROVE pc[First(wait_exit, p)] = "waitBlocked"
  <2>1. wait_exit[p].waiters # <<>>
    BY <1>3 DEF First
  <2>3. Len(wait_exit[p].waiters) \in Nat \ {0}
    BY <1>1, <2>1, EmptySeq
  <2>2. 1 \in 1..Len(wait_exit[p].waiters) /\ First(wait_exit, p) = wait_exit[p].waiters[1]
    BY <1>1, <2>1, <2>3, RestType DEF First
  <2> QED BY <2>2 DEF OneQueue, QueueOK
<1> QED BY <1>2, <1>3

\* A step of t moves no other thread, except that it may wake or create one.
LEMMA Moves ==
  ASSUME TypeOK, Born, OneQueue, TargetInv, NEW t \in Tids, Step(t), NEW u \in Tids \ {t}
  PROVE  \/ pc'[u] = pc[u]
         \/ pc[u] = "execBlocked" /\ pc'[u] = "execDown"
         \/ pc[u] = "waitBlocked" /\ pc'[u] = "waitDown"
         \/ pc[u] = "unborn" /\ pc'[u] = "made" /\ u = next_tid /\ Exec(t)
         \/ pc[u] = "made" /\ pc'[u] = "load" /\ u = target[t] /\ ExecStart(t)
<1> USE DEF TypeOK
<1>1. CASE Exec(t)
  <2>1. next_tid \in Tids \ {Main} /\ pc[next_tid] = "unborn"
    BY <1>1 DEF Exec, MayExec, Born
  <2> QED BY <1>1, <2>1 DEF Exec
<1>7. CASE ExecStart(t)
  <2>1. target[t] \in Tids \ {Main} /\ pc[target[t]] = "made"
    BY <1>7 DEF ExecStart, TargetInv, Calling
  <2> QED BY <1>7, <2>1 DEF ExecStart
<1>2. CASE LoadUp(t)
  <2>1. page[t] \in Pages
    BY <1>2, NotMain DEF LoadUp, Born
  <2>2. (IF success[t] THEN "user" ELSE "procAlive") \in Labels
    BY DEF Labels
  <2>3. pc \in [Tids -> Labels]
    OBVIOUS
  <2>4. pc'[u] = IF u # First(wait_load, page[t]) THEN pc[u]
                 ELSE IF pc[u] = "execBlocked" THEN "execDown" ELSE "waitDown"
    <3>1. pc' = Wake(wait_load, t, IF success[t] THEN "user" ELSE "procAlive")
      BY <1>2 DEF LoadUp
    <3> QED BY <3>1 DEF Wake
  <2>5. u = First(wait_load, page[t]) => pc[u] = "execBlocked"
    BY <2>1, FirstBlocked
  <2> QED BY <2>4, <2>5
<1>3. CASE ProcUp(t)
  <2>1. page[t] \in Pages
    BY <1>3, NotMain DEF ProcUp, Born
  <2>2. "procFree" \in Labels
    BY DEF Labels
  <2>3. pc \in [Tids -> Labels]
    OBVIOUS
  <2>4. pc'[u] = IF u # First(wait_exit, page[t]) THEN pc[u]
                 ELSE IF pc[u] = "execBlocked" THEN "execDown" ELSE "waitDown"
    BY <1>3 DEF ProcUp, Wake
  <2>5. u = First(wait_exit, page[t]) => pc[u] = "waitBlocked"
    BY <2>1, FirstBlocked
  <2> QED BY <2>4, <2>5
<1>4. CASE ExecFails(t) \/ ExecDown(t) \/ ExecBlock(t) \/ Wait(t) \/ WaitAgain(t) \/ WaitUnknown(t)
  BY <1>4 DEF ExecFails, ExecDown, ExecBlock, Wait, WaitAgain, WaitUnknown, Goto
<1>5. CASE Exit(t) \/ WaitDown(t) \/ WaitBlock(t) \/ WaitRead(t) \/ Load(t) \/ Stale(t)
  BY <1>5 DEF Exit, WaitDown, WaitBlock, WaitRead, Load, Stale, Goto
<1>6. CASE ExitStatus(t) \/ ExitCur(t) \/ ProcAlive(t) \/ ProcStatus(t) \/ ProcFree(t) \/ Die(t)
  BY <1>6 DEF ExitStatus, ExitCur, ProcAlive, ProcStatus, ProcFree, Die, Goto
<1>8. CASE DownRaw(t)
  BY <1>8 DEF DownRaw
<1> QED
  BY <1>1, <1>2, <1>3, <1>4, <1>5, <1>6, <1>7, <1>8 DEF Step, UserStep, KernelStep

\* A step of t leaves the locals of the others alone, and what their elements say of them.
LEMMA Keeps ==
  ASSUME TypeOK, Born, TargetInv, NEW t \in Tids, Step(t), NEW u \in Tids \ {t},
         pc[u] \notin Unstarted
  PROVE  /\ success'[u] = success[u] /\ code'[u] = code[u] /\ target'[u] = target[u]
         /\ page'[u] = page[u]
         /\ child'[u].exit_status = child[u].exit_status
         /\ child'[u].cur_status = child[u].cur_status
         /\ child'[u].load_status = child[u].load_status
<1> USE DEF TypeOK, Unstarted
<1>1. CASE Exec(t)
  <2>1. next_tid \in Tids \ {Main} /\ pc[next_tid] = "unborn"
    BY <1>1 DEF Exec, MayExec, Born
  <2> QED BY <1>1, <2>1 DEF Exec
<1>7. CASE ExecStart(t)
  <2>1. target[t] \in Tids \ {Main} /\ pc[target[t]] = "made"
    BY <1>7 DEF ExecStart, TargetInv, Calling
  <2> QED BY <1>7, <2>1 DEF ExecStart, locals
<1>8. CASE DownRaw(t)
  BY <1>8 DEF DownRaw, memory, locals
<1>2. CASE Wait(t)
  <2>1. PICK c \in Children(t) :
          /\ child' = [child EXCEPT ![c].parent_waiting = TRUE]
          /\ target' = [target EXCEPT ![t] = c]
    BY <1>2 DEF Wait
  <2>2. c \in Tids /\ child[u] \in Elements
    BY DEF Children
  <2>3. /\ child'[u].exit_status = child[u].exit_status
        /\ child'[u].cur_status = child[u].cur_status
        /\ child'[u].load_status = child[u].load_status
    BY <2>1, <2>2 DEF Elements
  <2> QED BY <1>2, <2>1, <2>3 DEF Wait, memory
<1>3. CASE ExecFails(t) \/ ExecDown(t) \/ ExecBlock(t) \/ WaitAgain(t) \/ WaitUnknown(t)
  BY <1>3 DEF ExecFails, ExecDown, ExecBlock, WaitAgain, WaitUnknown, memory, locals
<1>4. CASE LoadUp(t) \/ ProcUp(t) \/ ProcFree(t) \/ Die(t)
  BY <1>4 DEF LoadUp, ProcUp, ProcFree, Die, memory, locals
<1>5. CASE Exit(t) \/ WaitDown(t) \/ WaitBlock(t) \/ WaitRead(t) \/ Load(t) \/ Stale(t)
  BY <1>5 DEF Exit, WaitDown, WaitBlock, WaitRead, Load, Stale, memory, locals
<1>6. CASE ExitStatus(t) \/ ExitCur(t) \/ ProcAlive(t) \/ ProcStatus(t)
  BY <1>6 DEF ExitStatus, ExitCur, ProcAlive, ProcStatus, memory, locals
<1> QED
  BY <1>1, <1>2, <1>3, <1>4, <1>5, <1>6, <1>7, <1>8 DEF Step, UserStep, KernelStep

\* Where a process is that has raised wait_exit and is not dead.
Past == {"procFree", "dying"}

\* Where a step of t can take t itself.
LEMMA Own ==
  ASSUME TypeOK, Born, TargetInv, NEW t \in Tids, Step(t)
  PROVE  /\ pc[t] \notin Ended \cup Unstarted
         /\ pc'[t] \notin Unstarted
         /\ pc'[t] = "dead" <=> Die(t)
         /\ pc[t] \notin {"load", "loadUp"} => pc'[t] \notin {"load", "loadUp"}
         /\ pc[t] \in Past => pc'[t] \in Past \cup {"dead"}
         /\ pc[t] \in Exited => pc'[t] \in Exited
<1> USE DEF TypeOK, Past, Ended, Exited, Unstarted
<1>1. CASE Exec(t)
  <2>1. next_tid \in Tids \ {Main} /\ pc[next_tid] = "unborn" /\ pc[t] = "user"
    BY <1>1 DEF Exec, MayExec, Born
  <2>2. pc'[t] = "execInit"
    BY <1>1, <2>1 DEF Exec
  <2>3. ~Die(t)
    BY <2>1 DEF Die
  <2> QED BY <2>1, <2>2, <2>3
<1>11. CASE ExecStart(t)
  <2>1. target[t] \in Tids /\ pc[target[t]] = "made" /\ pc[t] = "execInit"
    BY <1>11 DEF ExecStart, TargetInv, Calling
  <2>2. pc'[t] \in {"user", "execDown"} /\ ~Die(t)
    BY <1>11, <2>1 DEF ExecStart, Die
  <2> QED BY <2>1, <2>2
<1>12. CASE DownRaw(t)
  BY <1>12 DEF DownRaw, Die
<1>2. CASE LoadUp(t)
  <2>1. pc'[t] \in {"user", "procAlive"} /\ pc[t] = "loadUp" /\ ~Die(t)
    BY <1>2 DEF LoadUp, Wake, Die
  <2> QED BY <2>1
<1>3. CASE ProcUp(t)
  <2>1. pc'[t] = "procFree" /\ pc[t] = "procUp" /\ ~Die(t)
    BY <1>3 DEF ProcUp, Wake, Die
  <2> QED BY <2>1
<1>4. CASE ExecFails(t) \/ WaitAgain(t) \/ WaitUnknown(t)
  BY <1>4 DEF ExecFails, MayExec, WaitAgain, WaitUnknown, Die
<1>5. CASE ExecDown(t) \/ ExecBlock(t) \/ Wait(t)
  BY <1>5 DEF ExecDown, ExecBlock, Wait, Goto, Die
<1>6. CASE Exit(t) \/ WaitDown(t) \/ WaitBlock(t) \/ WaitRead(t)
  BY <1>6 DEF Exit, WaitDown, WaitBlock, WaitRead, Goto, Die
<1>7. CASE Stale(t)
  BY <1>7 DEF Stale, UsesParent, Die
<1>8. CASE Load(t) \/ ExitStatus(t) \/ ExitCur(t)
  BY <1>8 DEF Load, ExitStatus, ExitCur, Goto, Die
<1>9. CASE ProcAlive(t) \/ ProcStatus(t)
  BY <1>9 DEF ProcAlive, ProcStatus, Goto, Die
<1>10. CASE ProcFree(t) \/ Die(t)
  BY <1>10 DEF ProcFree, Die, Goto
<1> QED
  BY <1>1, <1>2, <1>3, <1>4, <1>5, <1>6, <1>7, <1>8, <1>9, <1>10, <1>11, <1>12
  DEF Step, UserStep, KernelStep

\* The facts above, for whichever thread.
LEMMA Lives ==
  ASSUME TypeOK, Born, OneQueue, TargetInv, NEW t \in Tids, Step(t), NEW u \in Tids
  PROVE  /\ pc[u] # "unborn" => pc'[u] # "unborn"
         /\ pc[u] \notin Unstarted => pc'[u] \notin Unstarted
         /\ pc[u] = "dead" => pc'[u] = "dead"
         /\ pc'[u] = "dead" => pc[u] = "dead" \/ (u = t /\ Die(t))
         /\ pc[u] \notin Unstarted \cup {"load", "loadUp"} =>
              pc'[u] \notin {"made", "load", "loadUp"}
         /\ pc[u] \in Past => pc'[u] \in Past \cup {"dead"}
         /\ pc[u] \in Exited => pc'[u] \in Exited
<1>1. CASE u = t
  BY <1>1, Own DEF Ended, Unstarted
<1>2. CASE u # t
  <2>1. \/ pc'[u] = pc[u]
        \/ pc[u] = "execBlocked" /\ pc'[u] = "execDown"
        \/ pc[u] = "waitBlocked" /\ pc'[u] = "waitDown"
        \/ pc[u] = "unborn" /\ pc'[u] = "made"
        \/ pc[u] = "made" /\ pc'[u] = "load"
    BY <1>2, Moves
  <2> QED BY <2>1 DEF Past, Exited, Unstarted
<1> QED BY <1>1, <1>2

-----------------------------------------------------------------------------
(* Each part of the invariant is kept by every step. *)

\* Memory that a step other than exec and the last step of a thread leaves as it is.
LEMMA SameMemory ==
  ASSUME NEW t \in Tids, Step(t), ~Exec(t), ~Die(t)
  PROVE  /\ owner' = owner /\ page' = page /\ next_tid' = next_tid
         /\ listed' \subseteq listed \/ (ExecStart(t) /\ listed' = listed \cup {target[t]})
<1>1. CASE ExecFails(t) \/ ExecDown(t) \/ ExecBlock(t) \/ Wait(t) \/ WaitAgain(t) \/ WaitUnknown(t)
  BY <1>1 DEF ExecFails, ExecDown, ExecBlock, Wait, WaitAgain, WaitUnknown, memory
<1>2. CASE LoadUp(t) \/ ProcUp(t) \/ ProcFree(t)
  BY <1>2 DEF LoadUp, ProcUp, ProcFree, memory
<1>3. CASE Exit(t) \/ WaitDown(t) \/ WaitBlock(t) \/ WaitRead(t) \/ Load(t) \/ Stale(t)
  BY <1>3 DEF Exit, WaitDown, WaitBlock, WaitRead, Load, Stale, memory
<1>4. CASE ExitStatus(t) \/ ExitCur(t) \/ ProcAlive(t) \/ ProcStatus(t)
  BY <1>4 DEF ExitStatus, ExitCur, ProcAlive, ProcStatus, memory
<1>5. CASE ExecStart(t) \/ DownRaw(t)
  BY <1>5 DEF ExecStart, DownRaw, memory
<1> QED
  BY <1>1, <1>2, <1>3, <1>4, <1>5 DEF Step, UserStep, KernelStep

\* The initial thread only waits, and the tids of unborn threads are those not given out.
LEMMA BornStep ==
  ASSUME TypeOK, Born, OneQueue, TargetInv, NEW t \in Tids, Step(t)
  PROVE  Born'
<1> USE DEF TypeOK
<1>1. CASE Exec(t)
  <2>1. /\ next_tid \in Tids \ {Main} /\ pc[next_tid] = "unborn" /\ next_tid' = next_tid + 1
        /\ pc[t] = "user" /\ t # next_tid
    BY <1>1 DEF Exec, MayExec, Born
  <2>2. PICK p \in Pages : page' = [page EXCEPT ![next_tid] = p]
    BY <1>1 DEF Exec
  <2>3. /\ pc' = [pc EXCEPT ![next_tid] = "made", ![t] = "execInit"]
        /\ listed' = listed
    BY <1>1 DEF Exec
  <2>4. \A u \in Tids \ {Main} : pc'[u] = "unborn" <=> u >= next_tid'
    <3> SUFFICES ASSUME NEW u \in Tids \ {Main} PROVE pc'[u] = "unborn" <=> u >= next_tid'
      OBVIOUS
    <3>1. CASE u = next_tid
      BY <2>1, <2>3, <3>1
    <3>2. CASE u = t
      BY <2>1, <2>3, <3>2 DEF Born
    <3>3. CASE u # t /\ u # next_tid
      BY <2>1, <2>3, <3>3 DEF Born
    <3> QED BY <3>1, <3>2, <3>3
  <2>5. pc'[Main] \in {"user", "execInit", "waitDown", "waitBlocked", "waitRead"}
    BY <2>1, <2>3 DEF Born
  <2>6. \A u \in Tids \ {Main} : pc'[u] # "unborn" => page'[u] \in Pages
    BY <2>1, <2>2, <2>3 DEF Born
  <2>7. \A u \in listed' : u # Main /\ pc'[u] \notin Unstarted
    BY <2>1, <2>3 DEF Born, Unstarted
  <2> QED BY <2>4, <2>5, <2>6, <2>7 DEF Born
<1>2. CASE ~Exec(t)
  <2>1. /\ next_tid' = next_tid /\ page' = page
        /\ listed' \subseteq listed \/ (ExecStart(t) /\ listed' = listed \cup {target[t]})
    <3>1. CASE Die(t)
      BY <3>1 DEF Die
    <3> QED BY <1>2, <3>1, SameMemory
  <2>2. ASSUME NEW u \in Tids PROVE pc[u] = "unborn" <=> pc'[u] = "unborn"
    <3>1. CASE u = t
      BY <3>1, Own DEF Ended, Unstarted
    <3>2. CASE u # t
      <4>1. \/ pc'[u] = pc[u]
            \/ pc[u] = "execBlocked" /\ pc'[u] = "execDown"
            \/ pc[u] = "waitBlocked" /\ pc'[u] = "waitDown"
            \/ pc[u] = "made" /\ pc'[u] = "load"
        BY <1>2, <3>2, Moves
      <4> QED BY <4>1
    <3> QED BY <3>1, <3>2
  <2>3. pc'[Main] \in {"user", "execInit", "waitDown", "waitBlocked", "waitRead"}
    <3>1. CASE t # Main
      <4>1. Main \in Tids \ {t}
        BY <3>1 DEF ProcessAssumption
      <4>2. \/ pc'[Main] = pc[Main]
            \/ pc[Main] = "execBlocked" /\ pc'[Main] = "execDown"
            \/ pc[Main] = "waitBlocked" /\ pc'[Main] = "waitDown"
            \/ pc[Main] = "made"
        BY <1>2, <4>1, Moves
      <4> QED BY <4>2 DEF Born
    <3>2. CASE t = Main
      <4>1. pc[Main] \in {"user", "execInit", "waitDown", "waitBlocked", "waitRead"}
        BY DEF Born
      <4>7. CASE ExecStart(t) \/ DownRaw(t)
        <5>1. CASE ExecStart(t)
          <6>1. target[t] \in Tids \ {Main}
            BY <5>1 DEF ExecStart, TargetInv, Calling
          <6> QED BY <3>2, <5>1, <6>1 DEF ExecStart
        <5>2. CASE DownRaw(t)
          BY <4>1, <5>2 DEF DownRaw
        <5> QED BY <4>7, <5>1, <5>2
      <4>2. CASE ExecFails(t) \/ Wait(t) \/ WaitAgain(t) \/ WaitUnknown(t)
        BY <3>2, <4>1, <4>2 DEF ExecFails, Wait, WaitAgain, WaitUnknown, Goto
      <4>3. CASE WaitDown(t) \/ WaitBlock(t) \/ WaitRead(t)
        BY <3>2, <4>3 DEF WaitDown, WaitBlock, WaitRead, Goto
      <4>4. ~Exit(t) /\ ~ExecDown(t) /\ ~ExecBlock(t) /\ ~Load(t) /\ ~LoadUp(t)
        BY <3>2, <4>1 DEF Exit, ExecDown, ExecBlock, Load, LoadUp
      <4>5. ~ExitStatus(t) /\ ~ExitCur(t) /\ ~Stale(t) /\ ~ProcAlive(t) /\ ~ProcStatus(t)
        BY <3>2, <4>1 DEF ExitStatus, ExitCur, Stale, UsesParent, ProcAlive, ProcStatus
      <4>6. ~ProcUp(t) /\ ~ProcFree(t) /\ ~Die(t)
        BY <3>2, <4>1 DEF ProcUp, ProcFree, Die
      <4> QED BY <1>2, <4>2, <4>3, <4>4, <4>5, <4>6, <4>7 DEF Step, UserStep, KernelStep
    <3> QED BY <3>1, <3>2
  <2>4. \A u \in listed' : u # Main /\ pc'[u] \notin Unstarted
    <3>1. \A u \in listed : u # Main /\ pc[u] \notin Unstarted /\ pc'[u] \notin Unstarted
      BY Lives DEF Born
    <3>2. ASSUME ExecStart(t)
          PROVE  target[t] # Main /\ pc'[target[t]] \notin Unstarted
      <4>1. target[t] \in Tids \ {Main} /\ target[t] # t
        BY <3>2 DEF ExecStart, TargetInv, Calling
      <4> QED BY <3>2, <4>1 DEF ExecStart, Unstarted
    <3> SUFFICES ASSUME NEW u \in listed' PROVE u # Main /\ pc'[u] \notin Unstarted
      OBVIOUS
    <3>3. CASE u \in listed
      BY <3>1, <3>3
    <3>4. CASE u \notin listed
      <4>1. ExecStart(t) /\ u = target[t]
        BY <2>1, <3>4
      <4> QED BY <3>2, <4>1
    <3> QED BY <3>3, <3>4
  <2> QED BY <2>1, <2>2, <2>3, <2>4 DEF Born
<1> QED BY <1>1, <1>2

\* A page is freed only by its own thread's last step and taken only when it is free.
LEMMA PagesStep ==
  ASSUME TypeOK, Born, OneQueue, TargetInv, PagesOwned, NEW t \in Tids, Step(t)
  PROVE  PagesOwned'
<1> USE DEF TypeOK
<1>1. CASE Exec(t)
  <2>1. next_tid \in Tids \ {Main} /\ pc[next_tid] = "unborn"
    BY <1>1 DEF Exec, MayExec, Born
  <2>2. PICK p \in Pages :
          /\ owner[p] = NoTid
          /\ owner' = [owner EXCEPT ![p] = next_tid]
          /\ page' = [page EXCEPT ![next_tid] = p]
    BY <1>1 DEF Exec
  <2>3. pc'[next_tid] = "made" /\ pc'[t] \notin Ended /\ pc[t] = "user"
    BY <1>1, <2>1 DEF Exec, MayExec, Ended
  <2>4. \A u \in Tids \ {t, next_tid} : pc'[u] = pc[u]
    BY <1>1, <2>1 DEF Exec
  <2>5. ASSUME NEW q \in Pages, owner'[q] # NoTid
        PROVE  page'[owner'[q]] = q /\ pc'[owner'[q]] \notin Ended
    <3>1. CASE q = p
      BY <2>1, <2>2, <2>3, <3>1 DEF Ended
    <3>2. CASE q # p
      <4>1. owner'[q] = owner[q] /\ owner[q] \in Tids /\ page[owner[q]] = q /\ pc[owner[q]] \notin Ended
        BY <2>2, <2>5, <3>2 DEF PagesOwned
      <4>2. owner[q] # next_tid
        BY <2>1, <4>1 DEF Ended
      <4>3. page'[owner[q]] = q
        BY <2>2, <4>1, <4>2
      <4> QED BY <2>3, <2>4, <4>1, <4>2, <4>3
    <3> QED BY <3>1, <3>2
  <2>6. ASSUME NEW u \in Tids \ {Main}, pc'[u] \notin Ended
        PROVE  owner'[page'[u]] = u
    <3>1. CASE u = next_tid
      BY <2>1, <2>2, <3>1
    <3>2. CASE u # next_tid
      <4>1. pc[u] \notin Ended
        BY <2>3, <2>4, <2>6, <3>2 DEF Ended
      <4>2. owner[page[u]] = u /\ page[u] \in Pages
        BY <4>1 DEF PagesOwned, Born, Ended
      <4> QED BY <2>1, <2>2, <3>2, <4>2
    <3> QED BY <3>1, <3>2
  <2> QED BY <2>5, <2>6 DEF PagesOwned
<1>2. CASE Die(t)
  <2>1. t # Main /\ pc[t] = "dying"
    BY <1>2, NotMain DEF Die
  <2>2. page[t] \in Pages /\ owner[page[t]] = t
    BY <2>1 DEF Born, PagesOwned, Ended
  <2>3. /\ owner' = [owner EXCEPT ![page[t]] = NoTid] /\ page' = page
        /\ pc' = [pc EXCEPT ![t] = "dead"]
    BY <1>2 DEF Die, Goto
  <2>4. ASSUME NEW q \in Pages, owner'[q] # NoTid
        PROVE  page'[owner'[q]] = q /\ pc'[owner'[q]] \notin Ended
    <3>1. q # page[t] /\ owner'[q] = owner[q]
      BY <2>2, <2>3, <2>4
    <3>2. page[owner[q]] = q /\ pc[owner[q]] \notin Ended
      BY <2>4, <3>1 DEF PagesOwned
    <3>3. owner[q] # t
      BY <3>1, <3>2
    <3> QED BY <2>3, <3>1, <3>2, <3>3
  <2>5. ASSUME NEW u \in Tids \ {Main}, pc'[u] \notin Ended
        PROVE  owner'[page'[u]] = u
    <3>1. u # t /\ pc'[u] = pc[u]
      BY <2>3, <2>5 DEF Ended
    <3>2. owner[page[u]] = u /\ page[u] \in Pages
      BY <2>5, <3>1 DEF PagesOwned, Born, Ended
    <3> QED BY <2>2, <2>3, <3>1, <3>2
  <2> QED BY <2>4, <2>5 DEF PagesOwned
<1>3. CASE ~Exec(t) /\ ~Die(t)
  <2>1. owner' = owner /\ page' = page
    BY <1>3, SameMemory
  <2>2. \A u \in Tids : pc[u] \in Ended <=> pc'[u] \in Ended
    BY <1>3, Moves, Lives, Own DEF Ended
  <2> QED BY <2>1, <2>2 DEF PagesOwned
<1> QED BY <1>1, <1>2, <1>3

\* The target of a thread in exec or wait stays a process that was created, and a process
\* is set up by one thread.
LEMMA TargetStep ==
  ASSUME TypeOK, Born, OneQueue, TargetInv, NEW t \in Tids, Step(t)
  PROVE  TargetInv'
<1> USE DEF TypeOK
<1> DEFINE OK(u) == /\ target'[u] \in Tids \ {Main} /\ pc'[target'[u]] # "unborn"
                    /\ pc'[u] = "execInit" <=> pc'[target'[u]] = "made"
<1>1. ASSUME NEW u \in Tids \ {t}, pc'[u] \in Calling
      PROVE  /\ pc[u] \in Calling /\ target'[u] = target[u]
             /\ pc'[u] = "execInit" <=> pc[u] = "execInit"
             /\ target'[u] \in Tids \ {Main} /\ pc[target[u]] # "unborn"
             /\ pc[u] = "execInit" <=> pc[target[u]] = "made"
  <2>1. /\ pc[u] \in Calling /\ pc[u] \notin Unstarted
        /\ pc'[u] = "execInit" <=> pc[u] = "execInit"
    BY <1>1, Moves DEF Calling, Unstarted
  <2> HIDE DEF TypeOK
  <2>2. target'[u] = target[u]
    BY <1>1, <2>1, Keeps
  <2> QED BY <2>1, <2>2 DEF TargetInv
<1>2. CASE Exec(t)
  <2>1. /\ next_tid \in Tids \ {Main} /\ pc[next_tid] = "unborn" /\ t # next_tid
        /\ pc[t] = "user"
    BY <1>2 DEF Exec, MayExec, Born
  <2>2. /\ target' = [target EXCEPT ![t] = next_tid]
        /\ pc' = [pc EXCEPT ![next_tid] = "made", ![t] = "execInit"]
    BY <1>2 DEF Exec
  <2>3. ASSUME NEW u \in Tids \ {t}, pc'[u] \in Calling PROVE OK(u) /\ target'[u] # next_tid
    <3>1. target'[u] \in Tids \ {Main, next_tid} /\ target'[u] = target[u]
      BY <1>1, <2>1, <2>3
    <3>2. CASE target[u] = t
      <4>1. pc[u] # "execInit"
        BY <1>1, <2>1, <2>3, <3>2
      <4> QED BY <1>1, <2>2, <2>3, <3>1, <3>2, <4>1
    <3>3. CASE target[u] # t
      <4>1. pc'[target[u]] = pc[target[u]]
        BY <2>2, <3>1, <3>3
      <4> QED BY <1>1, <2>3, <3>1, <4>1
    <3> QED BY <3>2, <3>3
  <2>4. OK(t) /\ target'[t] = next_tid
    BY <2>1, <2>2
  <2>5. ASSUME NEW u \in Tids, NEW v \in Tids, pc'[u] = "execInit", pc'[v] = "execInit",
               target'[u] = target'[v]
        PROVE  u = v
    <3>1. CASE u # t /\ v # t
      <4>1. /\ pc[u] = "execInit" /\ target'[u] = target[u]
            /\ pc[v] = "execInit" /\ target'[v] = target[v]
        BY <1>1, <2>5, <3>1 DEF Calling
      <4>2. target[u] = target[v]
        BY <2>5, <4>1
      <4>3. \A a, b \in Tids :
              pc[a] = "execInit" /\ pc[b] = "execInit" /\ target[a] = target[b] => a = b
        BY DEF TargetInv
      <4> HIDE DEF TypeOK
      <4> QED BY <4>1, <4>2, <4>3
    <3> QED BY <2>3, <2>4, <2>5, <3>1 DEF Calling
  <2> QED BY <2>3, <2>4, <2>5 DEF TargetInv
<1>3. CASE ~Exec(t)
  <2>1. ASSUME NEW u \in Tids, pc[u] # "unborn" PROVE pc'[u] # "made" \/ pc[u] = "made"
    BY <2>1, Moves, Own DEF Unstarted
  <2>2. ASSUME NEW u \in Tids, pc[u] = "made", pc'[u] # "made"
        PROVE  ExecStart(t) /\ u = target[t]
    <3>1. u # t
      BY <2>2, Own DEF Unstarted
    <3> QED BY <2>2, <3>1, Moves
  <2>3. ASSUME NEW u \in Tids \ {t}, pc'[u] \in Calling PROVE OK(u)
    <3>1. target'[u] \in Tids \ {Main} /\ pc'[target'[u]] # "unborn"
      <4>1. /\ target'[u] \in Tids \ {Main} /\ target'[u] = target[u]
            /\ pc[target[u]] # "unborn"
        BY <1>1, <2>3
      <4> HIDE DEF TypeOK
      <4> QED BY <4>1, Lives
    <3>2. CASE pc[target[u]] # "made"
      BY <1>1, <2>1, <2>3, <3>1, <3>2
    <3>3. CASE pc[target[u]] = "made"
      <4>1. pc[u] = "execInit" /\ pc'[u] = "execInit"
        BY <1>1, <2>3, <3>3
      <4>2. ~(ExecStart(t) /\ target[u] = target[t])
        BY <4>1 DEF ExecStart, TargetInv
      <4>3. pc'[target[u]] = "made"
        BY <1>1, <2>2, <2>3, <3>3, <4>2
      <4> QED BY <1>1, <2>3, <3>1, <4>1, <4>3
    <3> QED BY <3>2, <3>3
  <2>4. ASSUME pc'[t] \in Calling PROVE OK(t) /\ pc'[t] # "execInit"
    <3>1. CASE ExecStart(t)
      <4>1. target[t] \in Tids \ {Main} /\ target[t] # t /\ target' = target
        BY <3>1 DEF ExecStart, TargetInv, Calling, locals
      <4>2. pc'[target[t]] = "load" /\ pc'[t] # "execInit"
        BY <3>1, <4>1 DEF ExecStart
      <4> QED BY <4>1, <4>2
    <3>2. CASE Wait(t)
      <4>1. PICK c \in Children(t) :
              /\ target' = [target EXCEPT ![t] = c]
              /\ Goto(t, IF child[c].cur_status = "ALIVE" THEN "waitDown" ELSE "waitRead")
        BY <3>2 DEF Wait
      <4>2. c \in Tids \ {Main} /\ pc[c] \notin Unstarted /\ target'[t] = c
        BY <4>1 DEF Children, Born
      <4>3. pc'[t] # "execInit"
        BY <4>1 DEF Goto
      <4>4. pc'[c] \notin Unstarted
        <5> HIDE DEF TypeOK
        <5> QED BY <4>2, Lives
      <4> QED BY <4>2, <4>3, <4>4 DEF Unstarted
    <3>3. CASE ~ExecStart(t) /\ ~Wait(t)
      <4>1. pc[t] \in Calling /\ target' = target /\ pc[t] # "execInit" /\ pc'[t] # "execInit"
        <5>1. CASE ExecBlock(t) \/ WaitDown(t) \/ WaitBlock(t)
          BY <5>1 DEF ExecBlock, WaitDown, WaitBlock, Calling, Goto, locals
        <5>7. CASE DownRaw(t)
          BY <5>7 DEF DownRaw, Calling, locals
        <5>2. ~ExecFails(t) /\ ~WaitAgain(t) /\ ~WaitUnknown(t)
          BY <2>4 DEF ExecFails, MayExec, WaitAgain, WaitUnknown, Calling
        <5>3. ~ExecDown(t) /\ ~Exit(t) /\ ~WaitRead(t) /\ ~Load(t)
          BY <2>4 DEF ExecDown, Exit, WaitRead, Load, Calling, Goto
        <5>4. ~LoadUp(t) /\ ~ProcUp(t)
          BY <2>4 DEF LoadUp, ProcUp, Wake, Calling
        <5>5. ~ExitStatus(t) /\ ~ExitCur(t) /\ ~Stale(t)
          BY <2>4 DEF ExitStatus, ExitCur, Stale, UsesParent, Calling, Goto
        <5>6. ~ProcAlive(t) /\ ~ProcStatus(t) /\ ~ProcFree(t) /\ ~Die(t)
          BY <2>4 DEF ProcAlive, ProcStatus, ProcFree, Die, Calling, Goto
        <5> QED
          BY <1>3, <3>3, <5>1, <5>2, <5>3, <5>4, <5>5, <5>6, <5>7 DEF Step, UserStep, KernelStep
      <4>2. target[t] \in Tids \ {Main} /\ pc[target[t]] \notin Unstarted
        BY <4>1 DEF TargetInv, Unstarted
      <4>3. pc'[target[t]] \notin Unstarted
        <5> HIDE DEF TypeOK
        <5> QED BY <4>2, Lives
      <4> QED BY <4>1, <4>2, <4>3 DEF Unstarted
    <3> QED BY <3>1, <3>2, <3>3
  <2>5. ASSUME NEW u \in Tids, NEW v \in Tids, pc'[u] = "execInit", pc'[v] = "execInit",
               target'[u] = target'[v]
        PROVE  u = v
    <3>1. u # t /\ v # t
      BY <2>4, <2>5 DEF Calling
    <3>2. /\ pc[u] = "execInit" /\ pc[v] = "execInit"
          /\ target'[u] = target[u] /\ target'[v] = target[v]
      BY <1>1, <2>5, <3>1 DEF Calling
    <3>3. target[u] = target[v]
      BY <2>5, <3>2
    <3> QED BY <3>2, <3>3 DEF TargetInv
  <2> QED BY <2>3, <2>4, <2>5 DEF TargetInv
<1> QED BY <1>2, <1>3

\* The result of load reaches the parent's element, and only loaded programs run.
LEMMA LoadStep ==
  ASSUME TypeOK, Born, OneQueue, TargetInv, LoadInv, NEW t \in Tids, Step(t)
  PROVE  LoadInv'
<1> USE DEF TypeOK
<1> DEFINE Running == Calling \cup {"user", "exitStatus", "exitCur"}
<1> SUFFICES ASSUME NEW c \in Tids \ {Main}
             PROVE  /\ pc'[c] \notin {"unborn", "made", "load"} => child'[c].load_status = success'[c]
                    /\ pc'[c] \in Running => success'[c]
  BY DEF LoadInv
<1> USE DEF Calling
<1>0. /\ pc[c] \notin {"unborn", "made", "load"} => child[c].load_status = success[c]
      /\ pc[c] \in Running => success[c]
  BY DEF LoadInv
<1>1. CASE c # t
  <2>1. CASE pc[c] \in Unstarted
    BY <1>1, <2>1, Moves DEF Unstarted
  <2>2. CASE pc[c] \notin Unstarted
    <3>1. success'[c] = success[c] /\ child'[c].load_status = child[c].load_status
      <4> HIDE DEF TypeOK
      <4> QED BY <1>1, <2>2, Keeps
    <3>2. \/ pc'[c] = pc[c]
          \/ pc[c] = "execBlocked" /\ pc'[c] = "execDown"
          \/ pc[c] = "waitBlocked" /\ pc'[c] = "waitDown"
      BY <1>1, <2>2, Moves DEF Unstarted
    <3> QED BY <1>0, <3>1, <3>2
  <2> QED BY <2>1, <2>2
<1>2. CASE c = t
  <2>1. CASE Exec(t)
    <3>1. pc[t] = "user" /\ child' = child /\ success' = success
      BY <2>1 DEF Exec, MayExec
    <3> QED BY <1>0, <1>2, <3>1
  <2>10. CASE ExecStart(t)
    <3>1. target[t] \in Tids /\ target[t] # t /\ pc[t] = "execInit"
      BY <2>10 DEF ExecStart, TargetInv, Calling
    <3>2. child'[t] = child[t] /\ success' = success
      BY <2>10, <3>1 DEF ExecStart, locals
    <3> QED BY <1>0, <1>2, <3>1, <3>2
  <2>11. CASE DownRaw(t)
    BY <1>0, <1>2, <2>11 DEF DownRaw, locals
  <2>2. CASE Wait(t)
    <3>1. PICK d \in Children(t) : child' = [child EXCEPT ![d].parent_waiting = TRUE]
      BY <2>2 DEF Wait
    <3>2. d \in Tids /\ child[t] \in Elements
      BY DEF Children
    <3>3. child'[t].load_status = child[t].load_status
      BY <3>1, <3>2 DEF Elements
    <3>4. success' = success /\ pc[t] = "user"
      BY <2>2 DEF Wait
    <3> QED BY <1>0, <1>2, <3>3, <3>4
  <2>3. CASE Load(t)
    <3>1. PICK ok \in BOOLEAN : /\ success' = [success EXCEPT ![t] = ok]
                                /\ child' = [child EXCEPT ![t].load_status = ok]
      BY <2>3 DEF Load
    <3>2. success'[t] = ok
      BY <3>1
    <3>3. child'[t].load_status = ok
      <4>1. child[t] \in Elements /\ child'[t] = [child[t] EXCEPT !.load_status = ok]
        BY <3>1
      <4> QED BY <4>1 DEF Elements
    <3>4. pc'[t] = "loadUp"
      BY <2>3 DEF Load, Goto
    <3> QED BY <1>2, <3>2, <3>3, <3>4
  <2>4. CASE LoadUp(t)
    <3>1. pc[t] = "loadUp" /\ pc'[t] = IF success[t] THEN "user" ELSE "procAlive"
      BY <2>4 DEF LoadUp, Wake
    <3>2. child' = child /\ success' = success
      BY <2>4 DEF LoadUp, locals
    <3> QED BY <1>0, <1>2, <3>1, <3>2
  <2>5. CASE ProcUp(t)
    <3>1. pc[t] = "procUp" /\ pc'[t] = "procFree"
      BY <2>5 DEF ProcUp, Wake
    <3>2. child' = child /\ success' = success
      BY <2>5 DEF ProcUp, locals
    <3> QED BY <1>0, <1>2, <3>1, <3>2
  <2>6. CASE ExecFails(t) \/ ExecDown(t) \/ ExecBlock(t) \/ WaitAgain(t) \/ WaitUnknown(t)
    BY <1>0, <1>2, <2>6 DEF ExecFails, MayExec, ExecDown, ExecBlock, WaitAgain, WaitUnknown,
                            Goto, locals
  <2>7. CASE Exit(t) \/ WaitDown(t) \/ WaitBlock(t) \/ WaitRead(t) \/ Stale(t)
    BY <1>0, <1>2, <2>7 DEF Exit, WaitDown, WaitBlock, WaitRead, Stale, Goto, locals
  <2>8. CASE ExitStatus(t) \/ ExitCur(t) \/ ProcAlive(t) \/ ProcStatus(t)
    <3>1. child[t] \in Elements /\ success' = success
      BY <2>8 DEF ExitStatus, ExitCur, ProcAlive, ProcStatus, locals
    <3>2. child'[t].load_status = child[t].load_status
      <4>1. \/ child'[t] = child[t]
            \/ \E e : child'[t] = [child[t] EXCEPT !.exit_status = e]
            \/ \E e : child'[t] = [child[t] EXCEPT !.cur_status = e]
        BY <2>8 DEF ExitStatus, ExitCur, ProcAlive, ProcStatus
      <4> HIDE DEF TypeOK
      <4> QED BY <3>1, <4>1 DEF Elements
    <3>3. /\ pc[t] \in {"exitStatus", "exitCur", "procAlive", "procStatus"}
          /\ pc'[t] \in {"exitCur", "procAlive", "procStatus", "procUp"}
          /\ pc'[t] = "exitCur" => pc[t] = "exitStatus"
      BY <2>8 DEF ExitStatus, ExitCur, ProcAlive, ProcStatus, Goto
    <3> QED BY <1>0, <1>2, <3>1, <3>2, <3>3
  <2>9. CASE ProcFree(t) \/ Die(t)
    BY <1>0, <1>2, <2>9 DEF ProcFree, Die, Goto, locals
  <2> QED
    BY <2>1, <2>2, <2>3, <2>4, <2>5, <2>6, <2>7, <2>8, <2>9, <2>10, <2>11 DEF Step, UserStep, KernelStep
<1> QED BY <1>1, <1>2

\* An element says ALIVE until its process has stored the status it exits with.
LEMMA StatusStep ==
  ASSUME TypeOK, Born, OneQueue, TargetInv, LoadInv, StatusInv, NEW t \in Tids, Step(t)
  PROVE  StatusInv'
<1> USE DEF TypeOK
<1> DEFINE StatusOK(at, c, e, ok, status) ==
             /\ at \notin Exited \cup Unstarted => e.cur_status = "ALIVE"
             /\ at \in Exited /\ (ok \/ at # "procAlive") => e.cur_status # "ALIVE"
             /\ at = "procStatus" => ~ok
             /\ at \in Exited \cup {"exitCur"} /\ ok => e.exit_status = status
<1> SUFFICES ASSUME NEW c \in Tids \ {Main}
             PROVE  StatusOK(pc'[c], c, child'[c], success'[c], code'[c])
  BY DEF StatusInv
<1>0. StatusOK(pc[c], c, child[c], success[c], code[c])
  BY DEF StatusInv
<1>1. CASE c # t
  <2>1. CASE pc[c] \in Unstarted
    <3>1. CASE ExecStart(t) /\ c = target[t]
      <4>1. pc'[c] = "load" /\ child'[c] = NewChild
        BY <1>1, <3>1 DEF ExecStart
      <4> QED BY <4>1 DEF NewChild, Exited
    <3>2. CASE ~(ExecStart(t) /\ c = target[t])
      <4>1. pc'[c] \in Unstarted
        BY <1>1, <2>1, <3>2, Moves DEF Unstarted
      <4> QED BY <4>1 DEF Exited, Unstarted
    <3> QED BY <3>1, <3>2
  <2>2. CASE pc[c] \notin Unstarted
    <3>1. /\ success'[c] = success[c] /\ code'[c] = code[c]
          /\ child'[c].cur_status = child[c].cur_status
          /\ child'[c].exit_status = child[c].exit_status
      <4> HIDE DEF TypeOK
      <4> QED BY <1>1, <2>2, Keeps
    <3>2. \/ pc'[c] = pc[c]
          \/ pc[c] = "execBlocked" /\ pc'[c] = "execDown"
          \/ pc[c] = "waitBlocked" /\ pc'[c] = "waitDown"
      BY <1>1, <2>2, Moves DEF Unstarted
    <3> QED BY <1>0, <3>1, <3>2 DEF Exited, Unstarted
  <2> QED BY <2>1, <2>2
<1>2. CASE c = t
  <2> USE <1>0, <1>2 DEF Exited, Unstarted
  <2>1. CASE Exec(t)
    <3>1. pc[t] = "user" /\ pc'[t] = "execInit" /\ child' = child
      BY <2>1 DEF Exec, MayExec
    <3> QED BY <3>1
  <2>14. CASE ExecStart(t)
    <3>1. target[t] \in Tids /\ target[t] # t /\ pc[t] = "execInit"
      BY <2>14 DEF ExecStart, TargetInv, Calling
    <3>2. child'[t] = child[t] /\ pc'[t] = "execDown"
      BY <2>14, <3>1 DEF ExecStart
    <3> QED BY <3>1, <3>2
  <2>15. CASE DownRaw(t)
    BY <2>15 DEF DownRaw, locals
  <2>2. CASE Wait(t)
    <3>1. PICK d \in Children(t) : child' = [child EXCEPT ![d].parent_waiting = TRUE]
      BY <2>2 DEF Wait
    <3>2. d \in Tids /\ child[t] \in Elements
      BY DEF Children
    <3>3. child'[t].cur_status = child[t].cur_status
      BY <3>1, <3>2 DEF Elements
    <3>4. pc[t] = "user" /\ pc'[t] \in {"waitDown", "waitRead"}
      BY <2>2 DEF Wait, Goto
    <3> QED BY <3>3, <3>4
  <2>3. CASE Load(t)
    <3>1. PICK ok \in BOOLEAN : child' = [child EXCEPT ![t].load_status = ok]
      BY <2>3 DEF Load
    <3>2. child[t] \in Elements /\ child'[t] = [child[t] EXCEPT !.load_status = ok]
      BY <3>1
    <3>3. child'[t].cur_status = child[t].cur_status
      BY <3>2 DEF Elements
    <3>4. pc[t] = "load" /\ pc'[t] = "loadUp"
      BY <2>3 DEF Load, Goto
    <3> QED BY <3>3, <3>4
  <2>4. CASE LoadUp(t)
    <3>1. pc[t] = "loadUp" /\ pc'[t] = IF success[t] THEN "user" ELSE "procAlive"
      BY <2>4 DEF LoadUp, Wake
    <3>2. child' = child /\ success' = success
      BY <2>4 DEF LoadUp, locals
    <3> QED BY <3>1, <3>2
  <2>5. CASE ProcUp(t)
    <3>1. pc[t] = "procUp" /\ pc'[t] = "procFree"
      BY <2>5 DEF ProcUp, Wake
    <3>2. child' = child /\ success' = success /\ code' = code
      BY <2>5 DEF ProcUp, locals
    <3> QED BY <3>1, <3>2
  <2>6. CASE ExecFails(t) \/ ExecDown(t) \/ ExecBlock(t) \/ WaitAgain(t) \/ WaitUnknown(t)
    BY <2>6 DEF ExecFails, MayExec, ExecDown, ExecBlock, WaitAgain, WaitUnknown, Goto, locals
  <2>7. CASE Exit(t) \/ WaitDown(t) \/ WaitBlock(t) \/ WaitRead(t)
    BY <2>7 DEF Exit, WaitDown, WaitBlock, WaitRead, Goto, locals
  <2>8. CASE Stale(t)
    BY <2>8 DEF Stale, locals
  <2>9. CASE ExitStatus(t)
    <3>1. child[t] \in Elements /\ child'[t] = [child[t] EXCEPT !.exit_status = code[t]]
      BY <2>9 DEF ExitStatus
    <3>2. child'[t].exit_status = code[t] /\ child'[t].cur_status = child[t].cur_status
      BY <3>1 DEF Elements
    <3>3. pc[t] = "exitStatus" /\ pc'[t] = "exitCur" /\ success' = success /\ code' = code
      BY <2>9 DEF ExitStatus, Goto, locals
    <3> QED BY <3>2, <3>3
  <2>10. CASE ExitCur(t)
    <3> DEFINE status == IF code[t] = -1 THEN "KILLED" ELSE "EXITED"
    <3>1. child[t] \in Elements /\ child'[t] = [child[t] EXCEPT !.cur_status = status]
      BY <2>10 DEF ExitCur
    <3>2. status # "ALIVE"
      OBVIOUS
    <3> HIDE DEF status
    <3>3. child'[t].cur_status = status /\ child'[t].exit_status = child[t].exit_status
      BY <3>1 DEF Elements
    <3>4. pc[t] = "exitCur" /\ pc'[t] = "procAlive" /\ success' = success /\ code' = code
      BY <2>10 DEF ExitCur, Goto, locals
    <3> QED BY <3>2, <3>3, <3>4
  <2>11. CASE ProcAlive(t)
    <3>1. pc[t] = "procAlive" /\ success' = success /\ code' = code /\ child[t] \in Elements
      BY <2>11 DEF ProcAlive, locals
    <3>2. CASE child[t].cur_status = "ALIVE"
      <4>1. ~success[t]
        BY <3>1, <3>2
      <4>2. pc'[t] = "procStatus" /\ child'[t] = [child[t] EXCEPT !.cur_status = "KILLED"]
        BY <2>11, <3>2 DEF ProcAlive, Goto
      <4>3. child'[t].cur_status = "KILLED"
        BY <3>1, <4>2 DEF Elements
      <4> QED BY <3>1, <4>1, <4>2, <4>3
    <3>3. CASE child[t].cur_status # "ALIVE"
      <4>1. child' = child /\ pc'[t] = "procUp"
        BY <2>11, <3>3 DEF ProcAlive, Goto
      <4> QED BY <3>1, <3>3, <4>1
    <3> QED BY <3>2, <3>3
  <2>12. CASE ProcStatus(t)
    <3>1. pc[t] = "procStatus" /\ pc'[t] = "procUp" /\ success' = success
      BY <2>12 DEF ProcStatus, Goto, locals
    <3>2. child[t] \in Elements /\ child'[t] = [child[t] EXCEPT !.exit_status = -1]
      BY <2>12 DEF ProcStatus
    <3>3. child'[t].cur_status = child[t].cur_status
      BY <3>2 DEF Elements
    <3> QED BY <3>1, <3>3
  <2>13. CASE ProcFree(t) \/ Die(t)
    BY <2>13 DEF ProcFree, Die, Goto, locals
  <2> QED
    BY <2>1, <2>2, <2>3, <2>4, <2>5, <2>6, <2>7, <2>8, <2>9, <2>10, <2>11, <2>12, <2>13,
       <2>14, <2>15
    DEF Step, UserStep, KernelStep
<1> QED BY <1>1, <1>2

\* A thread that passes a semaphore makes no value positive.
LEMMA DecrementValue ==
  ASSUME NEW sema \in [Pages -> Semaphore], NEW p \in Pages, NEW q \in Pages,
         Decrement(sema, p)[q].value > 0
  PROVE  sema[q].value > 0
<1>1. sema[p] \in Semaphore /\ sema[p].value \in Nat
  BY DEF Semaphore
<1>2. CASE q = p /\ owner[p] # NoTid
  <2>1. Decrement(sema, p)[q] = [sema[p] EXCEPT !.value = sema[p].value - 1]
    BY <1>2 DEF Decrement
  <2>2. Decrement(sema, p)[q].value = sema[p].value - 1
    BY <1>1, <2>1 DEF Semaphore
  <2> QED BY <1>1, <1>2, <2>2
<1>3. CASE ~(q = p /\ owner[p] # NoTid)
  BY <1>3 DEF Decrement
<1> QED BY <1>2, <1>3

\* A positive value always belongs to a live thread that raised it.
LEMMA SemaStep ==
  ASSUME TypeOK, Born, OneQueue, PagesOwned, TargetInv, SemaInv, NEW t \in Tids, Step(t)
  PROVE  SemaInv'
<1> USE DEF TypeOK
<1> DEFINE LoadOK(v, o, at) == v > 0 => o \in Tids /\ at \notin {"made", "load", "loadUp"}
           ExitOK(v, o, at) == v > 0 => o \in Tids /\ at \in {"procFree", "dying"}
<1> SUFFICES ASSUME NEW p \in Pages
             PROVE  /\ LoadOK(wait_load'[p].value, owner'[p], pc'[owner'[p]])
                    /\ ExitOK(wait_exit'[p].value, owner'[p], pc'[owner'[p]])
  BY DEF SemaInv
<1>4. wait_load \in [Pages -> Semaphore] /\ wait_exit \in [Pages -> Semaphore]
  OBVIOUS
<1>0. /\ LoadOK(wait_load[p].value, owner[p], pc[owner[p]])
      /\ ExitOK(wait_exit[p].value, owner[p], pc[owner[p]])
      /\ owner[p] \in Tids => page[owner[p]] = p /\ pc[owner[p]] \notin Ended
  BY DEF SemaInv, PagesOwned
<1>1. CASE Exec(t)
  <2>1. next_tid \in Tids \ {Main} /\ pc[next_tid] = "unborn" /\ pc[t] = "user"
    BY <1>1 DEF Exec, MayExec, Born
  <2>2. PICK q \in Pages : owner[q] = NoTid /\ owner' = [owner EXCEPT ![q] = next_tid]
    BY <1>1 DEF Exec
  <2>5. wait_load' = wait_load /\ wait_exit' = wait_exit
    BY <1>1 DEF Exec
  <2>3. CASE p = q
    BY <1>0, <2>2, <2>3, <2>5
  <2>4. CASE p # q
    <3>1. wait_load'[p] = wait_load[p] /\ wait_exit'[p] = wait_exit[p] /\ owner'[p] = owner[p]
      BY <2>2, <2>4, <2>5
    <3>2. owner[p] \in Tids => owner[p] # next_tid
      BY <1>0, <2>1 DEF Ended
    <3>3. pc'[t] = "execInit"
      BY <1>1, <2>1 DEF Exec
    <3>4. owner[p] \in Tids \ {t} => pc'[owner[p]] = pc[owner[p]]
      BY <1>1, <3>2 DEF Exec
    <3> QED BY <1>0, <2>1, <3>1, <3>3, <3>4
  <2> QED BY <2>3, <2>4
<1>2. CASE Die(t)
  <2>1. t # Main /\ pc[t] = "dying" /\ page[t] \in Pages
    BY <1>2, NotMain DEF Die, Born
  <2>2. /\ owner' = [owner EXCEPT ![page[t]] = NoTid] /\ pc' = [pc EXCEPT ![t] = "dead"]
        /\ wait_load' = [wait_load EXCEPT ![page[t]] = Fresh]
        /\ wait_exit' = [wait_exit EXCEPT ![page[t]] = Fresh]
    BY <1>2 DEF Die, Goto
  <2>3. CASE p = page[t]
    <3>1. wait_load'[p].value = 0 /\ wait_exit'[p].value = 0
      BY <2>1, <2>2, <2>3 DEF Fresh
    <3> QED BY <3>1
  <2>4. CASE p # page[t]
    <3>1. wait_load'[p] = wait_load[p] /\ wait_exit'[p] = wait_exit[p] /\ owner'[p] = owner[p]
      BY <2>1, <2>2, <2>4
    <3>2. owner[p] \in Tids => owner[p] # t
      BY <1>0, <2>4
    <3>3. owner[p] \in Tids => pc'[owner[p]] = pc[owner[p]]
      BY <2>2, <3>2
    <3> QED BY <1>0, <3>1, <3>3
  <2> QED BY <2>3, <2>4
<1>3. CASE ~Exec(t) /\ ~Die(t)
  <2>1. owner' = owner
    BY <1>3, SameMemory
  <2>2. owner[p] \in Tids =>
          /\ pc[owner[p]] \notin {"made", "load", "loadUp"} =>
               pc'[owner[p]] \notin {"made", "load", "loadUp"}
          /\ pc[owner[p]] \in {"procFree", "dying"} => pc'[owner[p]] \in {"procFree", "dying"}
    <3> SUFFICES ASSUME owner[p] \in Tids
                 PROVE  /\ pc[owner[p]] \notin {"made", "load", "loadUp"} =>
                             pc'[owner[p]] \notin {"made", "load", "loadUp"}
                        /\ pc[owner[p]] \in {"procFree", "dying"} =>
                             pc'[owner[p]] \in {"procFree", "dying"}
      OBVIOUS
    <3>1. pc[owner[p]] \notin {"unborn", "dead"}
      BY <1>0 DEF Ended
    <3>2. pc'[owner[p]] # "dead"
      BY <1>3, <3>1, Lives
    <3> QED BY <3>1, <3>2, Lives DEF Past, Unstarted
  <2>3. CASE LoadUp(t)
    <3>1. t # Main /\ pc[t] = "loadUp" /\ page[t] \in Pages /\ owner[page[t]] = t
      BY <2>3, NotMain DEF LoadUp, Born, PagesOwned, Ended
    <3>2. wait_load' = Increment(wait_load, page[t]) /\ wait_exit' = wait_exit
      BY <2>3 DEF LoadUp
    <3>3. CASE p = page[t]
      <4>1. pc'[t] \in {"user", "procAlive"}
        BY <2>3 DEF LoadUp, Wake
      <4> QED BY <1>0, <2>1, <2>2, <3>1, <3>2, <3>3, <4>1
    <3>4. CASE p # page[t]
      <4>2. Increment(wait_load, page[t])[p].value = wait_load[p].value
        BY <1>4, <3>1, <3>4 DEF Increment
      <4>1. wait_load'[p].value = wait_load[p].value
        BY <3>2, <4>2
      <4> QED BY <1>0, <2>1, <2>2, <3>2, <4>1
    <3> QED BY <3>3, <3>4
  <2>4. CASE ProcUp(t)
    <3>1. t # Main /\ pc[t] = "procUp" /\ page[t] \in Pages /\ owner[page[t]] = t
      BY <2>4, NotMain DEF ProcUp, Born, PagesOwned, Ended
    <3>2. wait_exit' = Increment(wait_exit, page[t]) /\ wait_load' = wait_load
      BY <2>4 DEF ProcUp
    <3>3. CASE p = page[t]
      <4>1. pc'[t] = "procFree"
        BY <2>4 DEF ProcUp, Wake
      <4> QED BY <1>0, <2>1, <2>2, <3>1, <3>2, <3>3, <4>1
    <3>4. CASE p # page[t]
      <4>2. Increment(wait_exit, page[t])[p].value = wait_exit[p].value
        BY <1>4, <3>1, <3>4 DEF Increment
      <4>1. wait_exit'[p].value = wait_exit[p].value
        BY <3>2, <4>2
      <4> QED BY <1>0, <2>1, <2>2, <3>2, <4>1
    <3> QED BY <3>3, <3>4
  <2>5. CASE ~LoadUp(t) /\ ~ProcUp(t)
    <3>1. /\ wait_load'[p].value > 0 => wait_load[p].value > 0
          /\ wait_exit'[p].value > 0 => wait_exit[p].value > 0
      <4>1. CASE ExecDown(t)
        <5>1. page[target[t]] \in Pages
          BY <4>1, Addresses DEF ExecDown, Calling
        <5> QED BY <1>4, <4>1, <5>1, DecrementValue DEF ExecDown
      <4>2. CASE ExecBlock(t)
        <5>1. page[target[t]] \in Pages
          BY <4>2, Addresses DEF ExecBlock, Calling
        <5>2. Enqueue(wait_load, page[target[t]], t)[p].value = wait_load[p].value
          <6>1. CASE p = page[target[t]]
            <7>1. wait_load[p] \in Semaphore
              BY <1>4
            <7>2. Enqueue(wait_load, p, t)[p] = [wait_load[p] EXCEPT !.waiters = Append(wait_load[p].waiters, t)]
              BY <1>4 DEF Enqueue
            <7> QED BY <6>1, <7>1, <7>2 DEF Semaphore
          <6>2. CASE p # page[target[t]]
            BY <1>4, <5>1, <6>2 DEF Enqueue
          <6> QED BY <6>1, <6>2
        <5> QED BY <4>2, <5>2 DEF ExecBlock
      <4>3. CASE WaitDown(t)
        <5>1. page[target[t]] \in Pages
          BY <4>3, Addresses DEF WaitDown, Calling
        <5> QED BY <1>4, <4>3, <5>1, DecrementValue DEF WaitDown
      <4>4. CASE WaitBlock(t)
        <5>1. page[target[t]] \in Pages
          BY <4>4, Addresses DEF WaitBlock, Calling
        <5>2. Enqueue(wait_exit, page[target[t]], t)[p].value = wait_exit[p].value
          <6>1. CASE p = page[target[t]]
            <7>1. wait_exit[p] \in Semaphore
              BY <1>4
            <7>2. Enqueue(wait_exit, p, t)[p] = [wait_exit[p] EXCEPT !.waiters = Append(wait_exit[p].waiters, t)]
              BY <1>4 DEF Enqueue
            <7> QED BY <6>1, <7>1, <7>2 DEF Semaphore
          <6>2. CASE p # page[target[t]]
            BY <1>4, <5>1, <6>2 DEF Enqueue
          <6> QED BY <6>1, <6>2
        <5> QED BY <4>4, <5>2 DEF WaitBlock
      <4>5. CASE ExecFails(t) \/ Wait(t) \/ WaitAgain(t) \/ WaitUnknown(t) \/ Exit(t) \/ WaitRead(t)
        BY <4>5 DEF ExecFails, Wait, WaitAgain, WaitUnknown, Exit, WaitRead
      <4>8. CASE DownRaw(t)
        BY <4>8 DEF DownRaw
      <4>9. CASE ExecStart(t)
        <5>1. page[target[t]] \in Pages
          BY <4>9, Addresses DEF ExecStart, Calling
        <5> QED BY <1>4, <4>9, <5>1 DEF ExecStart, Fresh
      <4>6. CASE Load(t) \/ Stale(t) \/ ExitStatus(t) \/ ExitCur(t)
        BY <4>6 DEF Load, Stale, ExitStatus, ExitCur
      <4>7. CASE ProcAlive(t) \/ ProcStatus(t) \/ ProcFree(t)
        BY <4>7 DEF ProcAlive, ProcStatus, ProcFree
      <4> QED
        BY <1>3, <2>5, <4>1, <4>2, <4>3, <4>4, <4>5, <4>6, <4>7, <4>8, <4>9
        DEF Step, UserStep, KernelStep
    <3> QED BY <1>0, <2>1, <2>2, <3>1
  <2> QED BY <2>3, <2>4, <2>5
<1> QED BY <1>1, <1>2, <1>3

\* A thread that gets past a sema_down has a child that is past the sema_up, or gone.
LEMMA Passed ==
  ASSUME TypeOK, PagesOwned, SemaInv, NEW c \in Tids \ {Main}, pc[c] # "unborn",
         page[c] \in Pages
  PROVE  /\ Passes(wait_load, page[c]) => pc[c] \notin {"made", "load", "loadUp"}
         /\ Passes(wait_exit, page[c]) => pc[c] \in Past \cup {"dead"}
<1>1. CASE pc[c] = "dead"
  BY <1>1
<1>2. CASE pc[c] # "dead"
  <2>1. owner[page[c]] = c
    BY <1>2 DEF PagesOwned, Ended
  <2> QED BY <2>1 DEF Passes, SemaInv, Past
<1> QED BY <1>1, <1>2

\* Whoever is about to read a status has a child that stored it.
LEMMA ReadStep ==
  ASSUME TypeOK, Born, OneQueue, PagesOwned, SemaInv, TargetInv, StatusInv, ReadInv,
         NEW t \in Tids, Step(t)
  PROVE  ReadInv'
<1> USE DEF TypeOK
<1> SUFFICES ASSUME NEW u \in Tids, pc'[u] = "waitRead"
             PROVE  pc'[target'[u]] \in Exited
  BY DEF ReadInv
<1>1. CASE u # t
  <2>3. pc[u] = "waitRead"
    BY <1>1, Moves
  <2>1. pc[u] = "waitRead" /\ target'[u] = target[u]
    <3> HIDE DEF TypeOK
    <3> QED BY <1>1, <2>3, Keeps DEF Unstarted
  <2>2. pc[target[u]] \in Exited /\ target[u] \in Tids
    BY <2>1 DEF ReadInv, TargetInv, Calling
  <2> QED BY <2>1, <2>2, Lives
<1>2. CASE u = t
  <2>1. CASE Wait(t)
    <3>1. PICK c \in Children(t) :
            /\ target' = [target EXCEPT ![t] = c]
            /\ Goto(t, IF child[c].cur_status = "ALIVE" THEN "waitDown" ELSE "waitRead")
      BY <2>1 DEF Wait
    <3>2. c \in Tids \ {Main} /\ pc[c] \notin Unstarted /\ target'[u] = c
      BY <1>2, <3>1 DEF Children, Born
    <3>3. child[c].cur_status # "ALIVE"
      BY <1>2, <3>1 DEF Goto
    <3>4. pc[c] \in Exited
      BY <3>2, <3>3 DEF StatusInv
    <3> QED BY <3>2, <3>4, Lives
  <2>2. CASE WaitDown(t)
    <3>1. target' = target /\ pc[t] = "waitDown" /\ Passes(wait_exit, page[target[t]])
      BY <2>2 DEF WaitDown, locals
    <3>2. target[t] \in Tids \ {Main} /\ pc[target[t]] # "unborn" /\ page[target[t]] \in Pages
      BY <3>1, Addresses DEF TargetInv, Calling
    <3>3. pc[target[t]] \in Exited
      BY <3>1, <3>2, Passed DEF Past, Exited
    <3> QED BY <1>2, <3>1, <3>2, <3>3, Lives
  <2>3. CASE WaitAgain(t) \/ WaitUnknown(t) \/ ExecFails(t) \/ ExecDown(t) \/ ExecBlock(t)
    BY <1>2, <2>3 DEF WaitAgain, WaitUnknown, ExecFails, MayExec, ExecDown, ExecBlock, Goto
  <2>4. CASE Exec(t)
    <3>1. next_tid \in Tids /\ pc[t] = "user" /\ pc[next_tid] = "unborn"
      BY <2>4 DEF Exec, MayExec, Born
    <3> QED BY <1>2, <2>4, <3>1 DEF Exec
  <2>9. CASE ExecStart(t)
    <3>1. target[t] \in Tids /\ target[t] # t
      BY <2>9 DEF ExecStart, TargetInv, Calling
    <3> QED BY <1>2, <2>9, <3>1 DEF ExecStart
  <2>10. CASE DownRaw(t)
    BY <1>2, <2>10 DEF DownRaw
  <2>5. CASE WaitBlock(t) \/ WaitRead(t) \/ Exit(t) \/ Load(t)
    BY <1>2, <2>5 DEF WaitBlock, WaitRead, Exit, Load, Goto
  <2>6. CASE LoadUp(t) \/ ProcUp(t)
    BY <1>2, <2>6 DEF LoadUp, ProcUp, Wake
  <2>7. CASE Stale(t)
    BY <1>2, <2>7 DEF Stale, UsesParent
  <2>8. CASE ExitStatus(t) \/ ExitCur(t) \/ ProcAlive(t) \/ ProcStatus(t) \/ ProcFree(t) \/ Die(t)
    BY <1>2, <2>8 DEF ExitStatus, ExitCur, ProcAlive, ProcStatus, ProcFree, Die, Goto
  <2> QED
    BY <2>1, <2>2, <2>3, <2>4, <2>5, <2>6, <2>7, <2>8, <2>9, <2>10
    DEF Step, UserStep, KernelStep
<1> QED BY <1>1, <1>2

\* Lists of waiters stay in order when only threads that are not on them move.
LEMMA QueueSame ==
  ASSUME NEW sema \in [Pages -> Semaphore], NEW at, NEW at2, NEW label,
         QueueOK(sema, at, label), \A u \in Tids : at[u] = label => at2[u] = label
  PROVE  QueueOK(sema, at2, label)
<1>1. \A p \in Pages : \A i \in 1..Len(sema[p].waiters) : sema[p].waiters[i] \in Tids
  BY ElementOfSeq DEF Semaphore
<1> QED BY <1>1 DEF QueueOK

\* A thread that was on no list joins the end of one.
LEMMA QueueAppend ==
  ASSUME NEW sema \in [Pages -> Semaphore], NEW at, NEW at2, NEW label, NEW p \in Pages,
         QueueOK(sema, at, label), NEW t \in Tids, at[t] # label, at2[t] = label,
         \A u \in Tids : at[u] = label => at2[u] = label
  PROVE  QueueOK(Enqueue(sema, p, t), at2, label)
<1> DEFINE s == sema[p].waiters
           new == Enqueue(sema, p, t)
<1>1. \A q \in Pages : sema[q].waiters \in Seq(Tids) /\ Len(sema[q].waiters) \in Nat
  BY LenProperties DEF Semaphore
<1>2. \A q \in Pages : \A i \in 1..Len(sema[q].waiters) :
        sema[q].waiters[i] \in Tids /\ at[sema[q].waiters[i]] = label
  BY <1>1, ElementOfSeq DEF QueueOK
<1>3. new[p].waiters = Append(s, t)
  <2>1. new[p] = [sema[p] EXCEPT !.waiters = Append(s, t)] /\ sema[p] \in Semaphore
    BY DEF Enqueue
  <2> QED BY <2>1 DEF Semaphore
<1>4. /\ Len(new[p].waiters) = Len(s) + 1
      /\ \A i \in 1..Len(s) : new[p].waiters[i] = s[i]
      /\ new[p].waiters[Len(s) + 1] = t
  BY <1>1, <1>3, AppendProperties
<1>5. \A q \in Pages \ {p} : new[q] = sema[q]
  BY DEF Enqueue
<1> HIDE DEF s, new
<1>6. \A q \in Pages : \A i \in 1..Len(new[q].waiters) :
        \/ i \in 1..Len(sema[q].waiters) /\ new[q].waiters[i] = sema[q].waiters[i]
        \/ q = p /\ i = Len(s) + 1 /\ new[q].waiters[i] = t
  <2> SUFFICES ASSUME NEW q \in Pages, NEW i \in 1..Len(new[q].waiters)
               PROVE  \/ i \in 1..Len(sema[q].waiters) /\ new[q].waiters[i] = sema[q].waiters[i]
                      \/ q = p /\ i = Len(s) + 1 /\ new[q].waiters[i] = t
    OBVIOUS
  <2>1. CASE q = p
    BY <1>1, <1>4, <2>1 DEF s
  <2>2. CASE q # p
    BY <1>5, <2>2
  <2> QED BY <2>1, <2>2
<1>7. \A q \in Pages : \A i \in 1..Len(new[q].waiters) : at2[new[q].waiters[i]] = label
  BY <1>2, <1>6
<1>8. ASSUME NEW q \in Pages, NEW r \in Pages,
             NEW i \in 1..Len(new[q].waiters), NEW k \in 1..Len(new[r].waiters),
             new[q].waiters[i] = new[r].waiters[k]
      PROVE  q = r /\ i = k
  <2>1. \/ i \in 1..Len(sema[q].waiters) /\ new[q].waiters[i] = sema[q].waiters[i]
        \/ q = p /\ i = Len(s) + 1 /\ new[q].waiters[i] = t
    BY <1>6
  <2>2. \/ k \in 1..Len(sema[r].waiters) /\ new[r].waiters[k] = sema[r].waiters[k]
        \/ r = p /\ k = Len(s) + 1 /\ new[r].waiters[k] = t
    BY <1>6
  <2>3. \A x \in Pages : \A n \in 1..Len(sema[x].waiters) : sema[x].waiters[n] # t
    BY <1>2
  <2>4. CASE i \in 1..Len(sema[q].waiters) /\ k \in 1..Len(sema[r].waiters)
             /\ new[q].waiters[i] = sema[q].waiters[i] /\ new[r].waiters[k] = sema[r].waiters[k]
    <3>1. sema[q].waiters[i] = sema[r].waiters[k]
      BY <1>8, <2>4
    <3>2. \A a, b \in Pages : \A m \in 1..Len(sema[a].waiters), n \in 1..Len(sema[b].waiters) :
            sema[a].waiters[m] = sema[b].waiters[n] => a = b /\ m = n
      BY DEF QueueOK
    <3> QED BY <2>4, <3>1, <3>2
  <2> QED BY <1>8, <2>1, <2>2, <2>3, <2>4
<1> QED BY <1>7, <1>8 DEF QueueOK, new

\* The first thread of a list leaves it and moves on.
LEMMA QueueRest ==
  ASSUME NEW sema \in [Pages -> Semaphore], NEW at, NEW at2, NEW label, NEW p \in Pages,
         QueueOK(sema, at, label),
         \A u \in Tids : at[u] = label /\ u # First(sema, p) => at2[u] = label
  PROVE  QueueOK(Increment(sema, p), at2, label)
<1> DEFINE s == sema[p].waiters
           new == Increment(sema, p)
<1>1. \A q \in Pages : sema[q].waiters \in Seq(Tids) /\ Len(sema[q].waiters) \in Nat
  BY LenProperties DEF Semaphore
<1>2. \A q \in Pages : \A i \in 1..Len(sema[q].waiters) :
        sema[q].waiters[i] \in Tids /\ at[sema[q].waiters[i]] = label
  BY <1>1, ElementOfSeq DEF QueueOK
<1>3. new[p].waiters = Rest(s)
  BY DEF Increment
<1>4. \A q \in Pages \ {p} : new[q] = sema[q]
  BY DEF Increment
<1>5. CASE s = <<>>
  <2>1. Len(new[p].waiters) = 0 /\ Len(s) = 0
    BY <1>1, <1>3, <1>5, RestType, EmptySeq
  <2>2. \A q \in Pages : \A i \in 1..Len(new[q].waiters) : q # p
    BY <2>1
  <2>3. First(sema, p) = NoTid
    BY <1>5 DEF First
  <2> HIDE DEF s, new
  <2>4. \A q \in Pages : \A i \in 1..Len(new[q].waiters) :
          /\ i \in 1..Len(sema[q].waiters) /\ new[q].waiters[i] = sema[q].waiters[i]
          /\ at2[new[q].waiters[i]] = label
    <3> SUFFICES ASSUME NEW q \in Pages, NEW i \in 1..Len(new[q].waiters)
                 PROVE  /\ i \in 1..Len(sema[q].waiters) /\ new[q].waiters[i] = sema[q].waiters[i]
                        /\ at2[new[q].waiters[i]] = label
      OBVIOUS
    <3>1. new[q] = sema[q]
      BY <1>4, <2>2
    <3>2. sema[q].waiters[i] \in Tids /\ at[sema[q].waiters[i]] = label
      BY <1>2, <3>1
    <3>3. sema[q].waiters[i] # First(sema, p)
      BY <2>3, <3>2
    <3> QED BY <3>1, <3>2, <3>3
  <2> QED BY <2>4 DEF QueueOK, new
<1>6. CASE s # <<>>
  <2>1. /\ First(sema, p) = s[1] /\ Len(s) \in Nat \ {0}
        /\ Len(new[p].waiters) = Len(s) - 1
        /\ \A i \in 1..Len(new[p].waiters) : new[p].waiters[i] = s[i + 1]
    <3>1. s \in Seq(Tids) /\ Len(s) \in Nat \ {0}
      BY <1>1, <1>6, EmptySeq
    <3>2. First(sema, p) = Head(s)
      BY <1>6 DEF First
    <3> QED BY <1>3, <1>6, <3>1, <3>2, RestType
  <2> HIDE DEF s, new
  <2> DEFINE shift(q, i) == IF q = p THEN i + 1 ELSE i
  <2>2. \A q \in Pages : \A i \in 1..Len(new[q].waiters) :
          /\ shift(q, i) \in 1..Len(sema[q].waiters)
          /\ new[q].waiters[i] = sema[q].waiters[shift(q, i)]
          /\ q = p => shift(q, i) # 1
    <3> SUFFICES ASSUME NEW q \in Pages, NEW i \in 1..Len(new[q].waiters)
                 PROVE  /\ shift(q, i) \in 1..Len(sema[q].waiters)
                        /\ new[q].waiters[i] = sema[q].waiters[shift(q, i)]
                        /\ q = p => shift(q, i) # 1
      OBVIOUS
    <3>1. CASE q = p
      BY <2>1, <3>1 DEF s
    <3>2. CASE q # p
      BY <1>4, <3>2
    <3> QED BY <3>1, <3>2
  <2>3. \A q \in Pages : \A i \in 1..Len(new[q].waiters) : at2[new[q].waiters[i]] = label
    <3> SUFFICES ASSUME NEW q \in Pages, NEW i \in 1..Len(new[q].waiters)
                 PROVE  at2[new[q].waiters[i]] = label
      OBVIOUS
    <3>0. 1 \in 1..Len(sema[p].waiters) /\ First(sema, p) = sema[p].waiters[1]
      BY <2>1 DEF s
    <3>1. /\ shift(q, i) \in 1..Len(sema[q].waiters)
          /\ new[q].waiters[i] = sema[q].waiters[shift(q, i)]
          /\ q = p => shift(q, i) # 1
      BY <2>2
    <3> HIDE DEF shift
    <3>2. sema[q].waiters[shift(q, i)] # sema[p].waiters[1]
      BY <3>0, <3>1 DEF QueueOK
    <3>3. sema[q].waiters[shift(q, i)] \in Tids /\ at[sema[q].waiters[shift(q, i)]] = label
      BY <1>2, <3>1
    <3> QED BY <3>0, <3>1, <3>2, <3>3
  <2>4. ASSUME NEW q \in Pages, NEW r \in Pages,
               NEW i \in 1..Len(new[q].waiters), NEW k \in 1..Len(new[r].waiters),
               new[q].waiters[i] = new[r].waiters[k]
        PROVE  q = r /\ i = k
    <3>1. q = r /\ shift(q, i) = shift(r, k)
      <4>1. /\ shift(q, i) \in 1..Len(sema[q].waiters)
            /\ new[q].waiters[i] = sema[q].waiters[shift(q, i)]
        BY <2>2
      <4>2. /\ shift(r, k) \in 1..Len(sema[r].waiters)
            /\ new[r].waiters[k] = sema[r].waiters[shift(r, k)]
        BY <2>2
      <4> HIDE DEF shift
      <4>3. sema[q].waiters[shift(q, i)] = sema[r].waiters[shift(r, k)]
        BY <2>4, <4>1, <4>2
      <4> QED BY <4>1, <4>2, <4>3 DEF QueueOK
    <3> QED BY <3>1
  <2> QED BY <2>3, <2>4 DEF QueueOK, new
<1> QED BY <1>5, <1>6

\* A page that is taken or freed has no waiters.
LEMMA QueueFresh ==
  ASSUME NEW sema \in [Pages -> Semaphore], NEW at, NEW at2, NEW label, NEW p \in Pages,
         QueueOK(sema, at, label), \A u \in Tids : at[u] = label => at2[u] = label
  PROVE  QueueOK([sema EXCEPT ![p] = Fresh], at2, label)
<1> DEFINE new == [sema EXCEPT ![p] = Fresh]
<1>1. Len(new[p].waiters) = 0
  BY DEF Fresh
<1>2. \A q \in Pages \ {p} : new[q] = sema[q]
  OBVIOUS
<1>3. \A q \in Pages : \A i \in 1..Len(new[q].waiters) : q # p
  BY <1>1
<1>4. QueueOK(sema, at2, label)
  BY QueueSame
<1> HIDE DEF new
<1>5. QueueOK(new, at2, label)
  BY <1>2, <1>3, <1>4 DEF QueueOK
<1> QED BY <1>5 DEF new

\* A thread that passes a semaphore leaves the lists as they are.
LEMMA QueueDecrement ==
  ASSUME NEW sema \in [Pages -> Semaphore], NEW at, NEW at2, NEW label, NEW p \in Pages,
         QueueOK(sema, at, label), \A u \in Tids : at[u] = label => at2[u] = label
  PROVE  QueueOK(Decrement(sema, p), at2, label)
<1>1. \A q \in Pages : Decrement(sema, p)[q].waiters = sema[q].waiters
  <2> SUFFICES ASSUME NEW q \in Pages PROVE Decrement(sema, p)[q].waiters = sema[q].waiters
    OBVIOUS
  <2>1. CASE q = p /\ owner[p] # NoTid
    <3>1. Decrement(sema, p)[q] = [sema[p] EXCEPT !.value = sema[p].value - 1]
      BY <2>1 DEF Decrement
    <3>2. sema[p] \in Semaphore
      OBVIOUS
    <3> QED BY <2>1, <3>1, <3>2 DEF Semaphore
  <2>2. CASE ~(q = p /\ owner[p] # NoTid)
    BY <2>2 DEF Decrement
  <2> QED BY <2>1, <2>2
<1>2. QueueOK(sema, at2, label)
  BY QueueSame
<1> QED BY <1>1, <1>2 DEF QueueOK

\* A blocked thread is moved only by a sema_up of another, which takes it from the head of
\* the list, and it makes no step itself.
LEMMA Woken ==
  ASSUME TypeOK, Born, OneQueue, TargetInv, NEW t \in Tids, Step(t)
  PROVE  /\ \A u \in Tids \ {t} : pc[u] = "execBlocked" =>
              pc'[u] = "execBlocked" \/ (LoadUp(t) /\ u = First(wait_load, page[t]))
         /\ \A u \in Tids \ {t} : pc[u] = "waitBlocked" =>
              pc'[u] = "waitBlocked" \/ (ProcUp(t) /\ u = First(wait_exit, page[t]))
         /\ pc[t] # "execBlocked" /\ pc[t] # "waitBlocked"
<1> USE DEF TypeOK
<1>1. \A u \in Tids \ {t} : pc[u] = "execBlocked" =>
        pc'[u] = "execBlocked" \/ (LoadUp(t) /\ u = First(wait_load, page[t]))
  <2> SUFFICES ASSUME NEW u \in Tids \ {t}, pc[u] = "execBlocked"
               PROVE  pc'[u] = "execBlocked" \/ (LoadUp(t) /\ u = First(wait_load, page[t]))
    OBVIOUS
  <2>1. CASE LoadUp(t)
    BY <2>1 DEF LoadUp, Wake
  <2>2. CASE ProcUp(t)
    <3>1. page[t] \in Pages
      BY <2>2, NotMain DEF ProcUp, Born
    <3>2. u # First(wait_exit, page[t])
      BY <3>1, FirstBlocked
    <3> QED BY <2>2, <3>2 DEF ProcUp, Wake
  <2>3. CASE Exec(t)
    <3>1. pc[next_tid] = "unborn"
      BY <2>3 DEF Exec, MayExec, Born
    <3> QED BY <2>3, <3>1 DEF Exec
  <2>5. CASE ExecStart(t)
    <3>1. target[t] \in Tids /\ pc[target[t]] = "made"
      BY <2>5 DEF ExecStart, TargetInv, Calling
    <3> QED BY <2>5, <3>1 DEF ExecStart
  <2>4. CASE ~LoadUp(t) /\ ~ProcUp(t) /\ ~Exec(t) /\ ~ExecStart(t)
    <3>1. pc'[u] = pc[u]
      <4>4. CASE DownRaw(t)
        BY <4>4 DEF DownRaw
      <4>1. CASE ExecFails(t) \/ ExecDown(t) \/ ExecBlock(t) \/ Wait(t) \/ WaitAgain(t) \/ WaitUnknown(t)
        BY <4>1 DEF ExecFails, ExecDown, ExecBlock, Wait, WaitAgain, WaitUnknown, Goto
      <4>2. CASE Exit(t) \/ WaitDown(t) \/ WaitBlock(t) \/ WaitRead(t) \/ Load(t) \/ Stale(t)
        BY <4>2 DEF Exit, WaitDown, WaitBlock, WaitRead, Load, Stale, Goto
      <4>3. CASE ExitStatus(t) \/ ExitCur(t) \/ ProcAlive(t) \/ ProcStatus(t) \/ ProcFree(t) \/ Die(t)
        BY <4>3 DEF ExitStatus, ExitCur, ProcAlive, ProcStatus, ProcFree, Die, Goto
      <4> QED BY <2>4, <4>1, <4>2, <4>3, <4>4 DEF Step, UserStep, KernelStep
    <3> QED BY <3>1
  <2> QED BY <2>1, <2>2, <2>3, <2>4, <2>5
<1>2. \A u \in Tids \ {t} : pc[u] = "waitBlocked" =>
        pc'[u] = "waitBlocked" \/ (ProcUp(t) /\ u = First(wait_exit, page[t]))
  <2> SUFFICES ASSUME NEW u \in Tids \ {t}, pc[u] = "waitBlocked"
               PROVE  pc'[u] = "waitBlocked" \/ (ProcUp(t) /\ u = First(wait_exit, page[t]))
    OBVIOUS
  <2>1. CASE ProcUp(t)
    BY <2>1 DEF ProcUp, Wake
  <2>2. CASE LoadUp(t)
    <3>1. page[t] \in Pages
      BY <2>2, NotMain DEF LoadUp, Born
    <3>2. u # First(wait_load, page[t])
      BY <3>1, FirstBlocked
    <3> QED BY <2>2, <3>2 DEF LoadUp, Wake
  <2>3. CASE Exec(t)
    <3>1. pc[next_tid] = "unborn"
      BY <2>3 DEF Exec, MayExec, Born
    <3> QED BY <2>3, <3>1 DEF Exec
  <2>5. CASE ExecStart(t)
    <3>1. target[t] \in Tids /\ pc[target[t]] = "made"
      BY <2>5 DEF ExecStart, TargetInv, Calling
    <3> QED BY <2>5, <3>1 DEF ExecStart
  <2>4. CASE ~LoadUp(t) /\ ~ProcUp(t) /\ ~Exec(t) /\ ~ExecStart(t)
    <3>1. pc'[u] = pc[u]
      <4>4. CASE DownRaw(t)
        BY <4>4 DEF DownRaw
      <4>1. CASE ExecFails(t) \/ ExecDown(t) \/ ExecBlock(t) \/ Wait(t) \/ WaitAgain(t) \/ WaitUnknown(t)
        BY <4>1 DEF ExecFails, ExecDown, ExecBlock, Wait, WaitAgain, WaitUnknown, Goto
      <4>2. CASE Exit(t) \/ WaitDown(t) \/ WaitBlock(t) \/ WaitRead(t) \/ Load(t) \/ Stale(t)
        BY <4>2 DEF Exit, WaitDown, WaitBlock, WaitRead, Load, Stale, Goto
      <4>3. CASE ExitStatus(t) \/ ExitCur(t) \/ ProcAlive(t) \/ ProcStatus(t) \/ ProcFree(t) \/ Die(t)
        BY <4>3 DEF ExitStatus, ExitCur, ProcAlive, ProcStatus, ProcFree, Die, Goto
      <4> QED BY <2>4, <4>1, <4>2, <4>3, <4>4 DEF Step, UserStep, KernelStep
    <3> QED BY <3>1
  <2> QED BY <2>1, <2>2, <2>3, <2>4, <2>5
<1>3. pc[t] # "execBlocked" /\ pc[t] # "waitBlocked"
  <2>1. CASE Exec(t) \/ ExecFails(t) \/ Wait(t) \/ WaitAgain(t) \/ WaitUnknown(t) \/ Exit(t)
    BY <2>1 DEF Exec, ExecFails, MayExec, Wait, WaitAgain, WaitUnknown, Exit
  <2>2. CASE ExecDown(t) \/ ExecBlock(t) \/ WaitDown(t) \/ WaitBlock(t) \/ WaitRead(t)
    BY <2>2 DEF ExecDown, ExecBlock, WaitDown, WaitBlock, WaitRead
  <2>3. CASE Load(t) \/ LoadUp(t) \/ ExitStatus(t) \/ ExitCur(t) \/ Stale(t)
    BY <2>3 DEF Load, LoadUp, ExitStatus, ExitCur, Stale, UsesParent
  <2>4. CASE ProcAlive(t) \/ ProcStatus(t) \/ ProcUp(t) \/ ProcFree(t) \/ Die(t)
    BY <2>4 DEF ProcAlive, ProcStatus, ProcUp, ProcFree, Die
  <2>5. CASE ExecStart(t) \/ DownRaw(t)
    BY <2>5 DEF ExecStart, DownRaw
  <2> QED BY <2>1, <2>2, <2>3, <2>4, <2>5 DEF Step, UserStep, KernelStep
<1> QED BY <1>1, <1>2, <1>3

\* Every step keeps the lists of waiters in order.
LEMMA QueueStep ==
  ASSUME TypeOK, Born, OneQueue, TargetInv, NEW t \in Tids, Step(t)
  PROVE  OneQueue'
<1> USE DEF TypeOK
<1>0. /\ wait_load \in [Pages -> Semaphore] /\ QueueOK(wait_load, pc, "execBlocked")
      /\ wait_exit \in [Pages -> Semaphore] /\ QueueOK(wait_exit, pc, "waitBlocked")
  BY DEF OneQueue
<1>1. \A u \in Tids \ {t} : pc[u] = "execBlocked" =>
        pc'[u] = "execBlocked" \/ (LoadUp(t) /\ u = First(wait_load, page[t]))
  <2> HIDE DEF TypeOK
  <2> QED BY Woken
<1>2. \A u \in Tids \ {t} : pc[u] = "waitBlocked" =>
        pc'[u] = "waitBlocked" \/ (ProcUp(t) /\ u = First(wait_exit, page[t]))
  <2> HIDE DEF TypeOK
  <2> QED BY Woken
<1>3. pc[t] # "execBlocked" /\ pc[t] # "waitBlocked"
  <2> HIDE DEF TypeOK
  <2> QED BY Woken
<1>4. ~LoadUp(t) => \A u \in Tids : pc[u] = "execBlocked" => pc'[u] = "execBlocked"
  BY <1>1, <1>3
<1>5. ~ProcUp(t) => \A u \in Tids : pc[u] = "waitBlocked" => pc'[u] = "waitBlocked"
  BY <1>2, <1>3
<1>6. QueueOK(wait_load', pc', "execBlocked")
  <2>1. CASE LoadUp(t)
    <3>1. page[t] \in Pages /\ wait_load' = Increment(wait_load, page[t])
      BY <2>1, NotMain DEF LoadUp, Born
    <3>2. \A u \in Tids : pc[u] = "execBlocked" /\ u # First(wait_load, page[t]) =>
            pc'[u] = "execBlocked"
      BY <1>1, <1>3
    <3> QED BY <1>0, <3>1, <3>2, QueueRest
  <2>2. CASE ExecBlock(t)
    <3>1. page[target[t]] \in Pages /\ wait_load' = Enqueue(wait_load, page[target[t]], t)
      BY <2>2, Addresses DEF ExecBlock, Calling
    <3>2. pc'[t] = "execBlocked" /\ ~LoadUp(t)
      BY <2>2 DEF ExecBlock, Goto, LoadUp
    <3> QED BY <1>0, <1>3, <1>4, <3>1, <3>2, QueueAppend
  <2>3. CASE ExecDown(t)
    <3>1. page[target[t]] \in Pages /\ wait_load' = Decrement(wait_load, page[target[t]])
      BY <2>3, Addresses DEF ExecDown, Calling
    <3>2. ~LoadUp(t)
      BY <2>3 DEF ExecDown, LoadUp
    <3> QED BY <1>0, <1>4, <3>1, <3>2, QueueDecrement
  <2>4. CASE ExecStart(t) \/ Die(t)
    <3>1. PICK p \in Pages : wait_load' = [wait_load EXCEPT ![p] = Fresh]
      BY <2>4, NotMain, Addresses DEF ExecStart, Die, Born, Calling
    <3>2. ~LoadUp(t)
      BY <2>4 DEF ExecStart, Die, LoadUp
    <3> QED BY <1>0, <1>4, <3>1, <3>2, QueueFresh
  <2>5. CASE ~LoadUp(t) /\ ~ExecBlock(t) /\ ~ExecDown(t) /\ ~ExecStart(t) /\ ~Die(t)
    <3>1. wait_load' = wait_load
      <4>1. CASE Exec(t) \/ ExecFails(t) \/ DownRaw(t) \/ Wait(t) \/ WaitAgain(t)
                   \/ WaitUnknown(t) \/ Exit(t)
        BY <4>1 DEF Exec, ExecFails, DownRaw, Wait, WaitAgain, WaitUnknown, Exit
      <4>2. CASE WaitDown(t) \/ WaitBlock(t) \/ WaitRead(t) \/ Load(t) \/ Stale(t)
        BY <4>2 DEF WaitDown, WaitBlock, WaitRead, Load, Stale
      <4>3. CASE ExitStatus(t) \/ ExitCur(t) \/ ProcAlive(t) \/ ProcStatus(t) \/ ProcFree(t) \/ ProcUp(t)
        BY <4>3 DEF ExitStatus, ExitCur, ProcAlive, ProcStatus, ProcFree, ProcUp
      <4> QED BY <2>5, <4>1, <4>2, <4>3 DEF Step, UserStep, KernelStep
    <3> QED BY <1>0, <1>4, <2>5, <3>1, QueueSame
  <2> QED BY <2>1, <2>2, <2>3, <2>4, <2>5
<1>7. QueueOK(wait_exit', pc', "waitBlocked")
  <2>1. CASE ProcUp(t)
    <3>1. page[t] \in Pages /\ wait_exit' = Increment(wait_exit, page[t])
      BY <2>1, NotMain DEF ProcUp, Born
    <3>2. \A u \in Tids : pc[u] = "waitBlocked" /\ u # First(wait_exit, page[t]) =>
            pc'[u] = "waitBlocked"
      BY <1>2, <1>3
    <3> QED BY <1>0, <3>1, <3>2, QueueRest
  <2>2. CASE WaitBlock(t)
    <3>1. page[target[t]] \in Pages /\ wait_exit' = Enqueue(wait_exit, page[target[t]], t)
      BY <2>2, Addresses DEF WaitBlock, Calling
    <3>2. pc'[t] = "waitBlocked" /\ ~ProcUp(t)
      BY <2>2 DEF WaitBlock, Goto, ProcUp
    <3> QED BY <1>0, <1>3, <1>5, <3>1, <3>2, QueueAppend
  <2>3. CASE WaitDown(t)
    <3>1. page[target[t]] \in Pages /\ wait_exit' = Decrement(wait_exit, page[target[t]])
      BY <2>3, Addresses DEF WaitDown, Calling
    <3>2. ~ProcUp(t)
      BY <2>3 DEF WaitDown, ProcUp
    <3> QED BY <1>0, <1>5, <3>1, <3>2, QueueDecrement
  <2>4. CASE ExecStart(t) \/ Die(t)
    <3>1. PICK p \in Pages : wait_exit' = [wait_exit EXCEPT ![p] = Fresh]
      BY <2>4, NotMain, Addresses DEF ExecStart, Die, Born, Calling
    <3>2. ~ProcUp(t)
      BY <2>4 DEF ExecStart, Die, ProcUp
    <3> QED BY <1>0, <1>5, <3>1, <3>2, QueueFresh
  <2>5. CASE ~ProcUp(t) /\ ~WaitBlock(t) /\ ~WaitDown(t) /\ ~ExecStart(t) /\ ~Die(t)
    <3>1. wait_exit' = wait_exit
      <4>1. CASE Exec(t) \/ ExecFails(t) \/ DownRaw(t) \/ Wait(t) \/ WaitAgain(t)
                   \/ WaitUnknown(t) \/ Exit(t)
        BY <4>1 DEF Exec, ExecFails, DownRaw, Wait, WaitAgain, WaitUnknown, Exit
      <4>2. CASE ExecDown(t) \/ ExecBlock(t) \/ WaitRead(t) \/ Load(t) \/ LoadUp(t) \/ Stale(t)
        BY <4>2 DEF ExecDown, ExecBlock, WaitRead, Load, LoadUp, Stale
      <4>3. CASE ExitStatus(t) \/ ExitCur(t) \/ ProcAlive(t) \/ ProcStatus(t) \/ ProcFree(t)
        BY <4>3 DEF ExitStatus, ExitCur, ProcAlive, ProcStatus, ProcFree
      <4> QED BY <2>5, <4>1, <4>2, <4>3 DEF Step, UserStep, KernelStep
    <3> QED BY <1>0, <1>5, <2>5, <3>1, QueueSame
  <2> QED BY <2>1, <2>2, <2>3, <2>4, <2>5
<1> QED BY <1>6, <1>7 DEF OneQueue, QueueOK

-----------------------------------------------------------------------------
(* Who is on the list of a semaphore, and that its parent sleeps there. *)

\* Whoever is on a list is blocked.
LEMMA OnBlocked ==
  ASSUME OneQueue, NEW p \in Pages, NEW w \in Tids
  PROVE  /\ OnAt(wait_load, p, w) => pc[w] = "execBlocked"
         /\ OnAt(wait_exit, p, w) => pc[w] = "waitBlocked"
BY DEF OneQueue, QueueOK, OnAt

\* What the operations do to a list.
LEMMA OnOperations ==
  ASSUME NEW sema \in [Pages -> Semaphore], NEW p \in Pages, NEW q \in Pages,
         NEW t \in Tids, NEW w \in Tids
  PROVE  /\ OnAt(Enqueue(sema, p, t), q, w) <=> OnAt(sema, q, w) \/ (q = p /\ w = t)
         /\ OnAt(Increment(sema, p), q, w) => OnAt(sema, q, w)
         /\ OnAt(sema, q, w) /\ w # First(sema, p) => OnAt(Increment(sema, p), q, w)
         /\ OnAt(sema, p, w) => First(sema, p) \in Tids /\ OnAt(sema, p, First(sema, p))
         /\ OnAt(Decrement(sema, p), q, w) <=> OnAt(sema, q, w)
         /\ OnAt([sema EXCEPT ![p] = Fresh], q, w) => OnAt(sema, q, w)
<1> DEFINE s == sema[p].waiters
<1>1. s \in Seq(Tids) /\ Len(s) \in Nat /\ sema[p] \in Semaphore
  BY LenProperties DEF Semaphore
<1>2. OnAt(Enqueue(sema, p, t), q, w) <=> OnAt(sema, q, w) \/ (q = p /\ w = t)
  <2>1. CASE q = p
    <3>1. Enqueue(sema, p, t)[p] = [sema[p] EXCEPT !.waiters = Append(s, t)]
      BY DEF Enqueue
    <3>2. Enqueue(sema, p, t)[p].waiters = Append(s, t)
      BY <1>1, <3>1 DEF Semaphore
    <3>3. /\ Len(Append(s, t)) = Len(s) + 1 /\ Append(s, t)[Len(s) + 1] = t
          /\ \A i \in 1..Len(s) : Append(s, t)[i] = s[i]
      BY <1>1, AppendProperties
    <3> HIDE DEF s
    <3>4. (\E i \in 1..Len(Append(s, t)) : Append(s, t)[i] = w)
            <=> (\E i \in 1..Len(s) : s[i] = w) \/ w = t
      <4>1. ASSUME NEW i \in 1..Len(Append(s, t)) PROVE i \in 1..Len(s) \/ i = Len(s) + 1
        BY <1>1, <3>3
      <4>2. 1..Len(s) \subseteq 1..Len(Append(s, t)) /\ Len(s) + 1 \in 1..Len(Append(s, t))
        BY <1>1, <3>3
      <4> QED BY <3>3, <4>1, <4>2
    <3> QED BY <2>1, <3>2, <3>4 DEF OnAt, s
  <2>2. CASE q # p
    BY <2>2 DEF OnAt, Enqueue
  <2> QED BY <2>1, <2>2
<1>4. OnAt(Decrement(sema, p), q, w) <=> OnAt(sema, q, w)
  <2>1. Decrement(sema, p)[q].waiters = sema[q].waiters
    <3>1. CASE q = p /\ owner[p] # NoTid
      <4>1. Decrement(sema, p)[q] = [sema[p] EXCEPT !.value = sema[p].value - 1]
        BY <3>1 DEF Decrement
      <4> QED BY <1>1, <3>1, <4>1 DEF Semaphore
    <3>2. CASE ~(q = p /\ owner[p] # NoTid)
      BY <3>2 DEF Decrement
    <3> QED BY <3>1, <3>2
  <2> QED BY <2>1 DEF OnAt
<1>5. OnAt([sema EXCEPT ![p] = Fresh], q, w) => OnAt(sema, q, w)
  <2>1. CASE q = p
    <3>1. [sema EXCEPT ![p] = Fresh][q].waiters = <<>>
      BY <2>1 DEF Fresh
    <3>2. Len([sema EXCEPT ![p] = Fresh][q].waiters) = 0
      BY <3>1
    <3> QED BY <3>2 DEF OnAt
  <2>2. CASE q # p
    BY <2>2 DEF OnAt
  <2> QED BY <2>1, <2>2
<1>3. CASE s = <<>>
  <2>1. Increment(sema, p)[p].waiters = <<>> /\ Len(s) = 0
    BY <1>1, <1>3, EmptySeq DEF Increment, Rest
  <2>2. ~OnAt(sema, p, w) /\ ~OnAt(Increment(sema, p), p, w)
    BY <1>3, <2>1 DEF OnAt
  <2>3. q # p => (OnAt(Increment(sema, p), q, w) <=> OnAt(sema, q, w))
    BY DEF OnAt, Increment
  <2> QED BY <2>2, <2>3, <1>2, <1>4, <1>5
<1>6. CASE s # <<>>
  <2>1. /\ First(sema, p) = s[1] /\ Len(s) \in Nat \ {0} /\ s[1] \in Tids
        /\ Len(Rest(s)) = Len(s) - 1 /\ \A i \in 1..Len(Rest(s)) : Rest(s)[i] = s[i + 1]
    <3>1. Len(s) \in Nat \ {0}
      BY <1>1, <1>6, EmptySeq
    <3>2. First(sema, p) = Head(s)
      BY <1>6 DEF First
    <3> QED BY <1>1, <1>6, <3>1, <3>2, RestType
  <2>2. Increment(sema, p)[p].waiters = Rest(s)
    BY DEF Increment
  <2>3. q # p => (OnAt(Increment(sema, p), q, w) <=> OnAt(sema, q, w))
    BY DEF OnAt, Increment
  <2>4. OnAt(sema, p, First(sema, p))
    BY <2>1 DEF OnAt
  <2>5. OnAt(Increment(sema, p), p, w) => OnAt(sema, p, w)
    <3> SUFFICES ASSUME NEW i \in 1..Len(Rest(s)), Rest(s)[i] = w PROVE OnAt(sema, p, w)
      BY <2>2 DEF OnAt
    <3>1. i + 1 \in 1..Len(s) /\ s[i + 1] = w
      BY <2>1
    <3> QED BY <3>1 DEF OnAt
  <2>6. OnAt(sema, p, w) /\ w # First(sema, p) => OnAt(Increment(sema, p), p, w)
    <3> SUFFICES ASSUME NEW i \in 1..Len(s), s[i] = w, w # s[1]
                 PROVE  OnAt(Increment(sema, p), p, w)
      BY <2>1 DEF OnAt
    <3>1. i # 1
      OBVIOUS
    <3>2. i - 1 \in 1..Len(Rest(s)) /\ (i - 1) + 1 = i
      BY <2>1, <3>1
    <3>3. Rest(s)[i - 1] = w
      BY <2>1, <3>2
    <3> QED BY <2>2, <3>2, <3>3 DEF OnAt
  <2> QED BY <2>1, <2>3, <2>4, <2>5, <2>6, <1>2, <1>4, <1>5
<1> QED BY <1>3, <1>6

\* Another thread's step leaves alone what a waiting thread waits for.
LEMMA Stays ==
  ASSUME TypeOK, Born, OneQueue, TargetInv, NEW t \in Tids, Step(t),
         NEW u \in Tids \ {t}, pc[u] \in Waiting
  PROVE  /\ target'[u] = target[u] /\ target[u] \in Tids \ {Main}
         /\ pc[target[u]] \notin Unstarted /\ page[target[u]] \in Pages
         /\ page'[target[u]] = page[target[u]] /\ parent'[target[u]] = parent[target[u]]
<1>1. pc[u] \in Calling /\ pc[u] # "execInit" /\ pc[u] \notin Unstarted
  BY DEF Waiting, Calling, Unstarted
<1>2. target'[u] = target[u]
  BY <1>1, Keeps
<1>3. target[u] \in Tids \ {Main} /\ pc[target[u]] \notin Unstarted
  BY <1>1 DEF TargetInv, Unstarted
<1>4. page[target[u]] \in Pages
  BY <1>1, Addresses
<1>5. page'[target[u]] = page[target[u]]
  <2>1. CASE Exec(t)
    <3>1. next_tid \in Tids /\ pc[next_tid] = "unborn" /\ next_tid # target[u]
      BY <1>3, <2>1 DEF Exec, MayExec, Born, Unstarted, TypeOK
    <3> QED BY <1>3, <2>1, <3>1 DEF Exec, TypeOK
  <2>2. CASE ~Exec(t)
    <3>1. page' = page
      <4>1. CASE Die(t)
        BY <4>1 DEF Die
      <4> QED BY <2>2, <4>1, SameMemory
    <3> QED BY <3>1
  <2> QED BY <2>1, <2>2
<1>6. parent'[target[u]] = parent[target[u]]
  <2>1. CASE ExecStart(t)
    <3>1. target[t] \in Tids /\ pc[target[t]] = "made"
      BY <2>1 DEF ExecStart, TargetInv, Calling
    <3>2. target[t] # target[u]
      BY <1>3, <3>1 DEF Unstarted
    <3> QED BY <1>3, <2>1, <3>1, <3>2 DEF ExecStart, TypeOK
  <2>2. CASE ~ExecStart(t)
    <3>1. CASE Exec(t) \/ ExecFails(t) \/ ExecDown(t) \/ ExecBlock(t) \/ DownRaw(t)
      BY <3>1 DEF Exec, ExecFails, ExecDown, ExecBlock, DownRaw
    <3>2. CASE Wait(t) \/ WaitAgain(t) \/ WaitUnknown(t) \/ WaitDown(t) \/ WaitBlock(t) \/ WaitRead(t)
      BY <3>2 DEF Wait, WaitAgain, WaitUnknown, WaitDown, WaitBlock, WaitRead
    <3>3. CASE Exit(t) \/ Load(t) \/ LoadUp(t) \/ ExitStatus(t) \/ ExitCur(t) \/ Stale(t)
      BY <3>3 DEF Exit, Load, LoadUp, ExitStatus, ExitCur, Stale
    <3>4. CASE ProcAlive(t) \/ ProcStatus(t) \/ ProcUp(t) \/ ProcFree(t) \/ Die(t)
      BY <3>4 DEF ProcAlive, ProcStatus, ProcUp, ProcFree, Die
    <3> QED BY <2>2, <3>1, <3>2, <3>3, <3>4 DEF Step, UserStep, KernelStep
  <2> QED BY <2>1, <2>2
<1> QED BY <1>2, <1>3, <1>4, <1>5, <1>6

\* How a thread gets where it waits by its own step.
LEMMA Enters ==
  ASSUME TypeOK, Born, TargetInv, NEW t \in Tids, Step(t), pc'[t] \in Waiting
  PROVE  \/ ExecStart(t) /\ pc'[t] = "execDown"
         \/ ExecBlock(t) /\ pc'[t] = "execBlocked"
         \/ Wait(t) /\ pc'[t] = "waitDown"
         \/ WaitBlock(t) /\ pc'[t] = "waitBlocked"
         \/ DownRaw(t) /\ pc'[t] = pc[t]
<1> USE DEF TypeOK, Waiting
<1>1. CASE Exec(t)
  <2>1. next_tid \in Tids /\ pc[next_tid] = "unborn" /\ pc[t] = "user"
    BY <1>1 DEF Exec, MayExec, Born
  <2> QED BY <1>1, <2>1 DEF Exec
<1>2. CASE ExecStart(t)
  <2>1. target[t] \in Tids /\ target[t] # t
    BY <1>2 DEF ExecStart, TargetInv, Calling
  <2>2. pc'[t] \in {"user", "execDown"}
    BY <1>2, <2>1 DEF ExecStart
  <2> QED BY <1>2, <2>2
<1>3. CASE ExecFails(t) \/ DownRaw(t) \/ WaitAgain(t) \/ WaitUnknown(t)
  BY <1>3 DEF ExecFails, MayExec, DownRaw, WaitAgain, WaitUnknown
<1>4. CASE ExecDown(t) \/ ExecBlock(t) \/ Wait(t) \/ WaitDown(t) \/ WaitBlock(t) \/ WaitRead(t)
  BY <1>4 DEF ExecDown, ExecBlock, Wait, WaitDown, WaitBlock, WaitRead, Goto
<1>5. CASE Exit(t) \/ Load(t) \/ LoadUp(t) \/ ExitStatus(t) \/ ExitCur(t) \/ Stale(t)
  BY <1>5 DEF Exit, Load, LoadUp, Wake, ExitStatus, ExitCur, Stale, UsesParent, Goto
<1>6. CASE ProcAlive(t) \/ ProcStatus(t) \/ ProcUp(t) \/ ProcFree(t) \/ Die(t)
  BY <1>6 DEF ProcAlive, ProcStatus, ProcUp, Wake, ProcFree, Die, Goto
<1> QED BY <1>1, <1>2, <1>3, <1>4, <1>5, <1>6 DEF Step, UserStep, KernelStep

\* Only its parent ever waits for a child.
LEMMA ParentStep ==
  ASSUME TypeOK, Born, OneQueue, TargetInv, ParentInv, NEW t \in Tids, Step(t)
  PROVE  ParentInv'
<1> SUFFICES ASSUME NEW u \in Tids, pc'[u] \in Waiting
             PROVE  parent'[target'[u]] = u
  BY DEF ParentInv, Waiting
<1>1. CASE u # t
  <2>1. pc[u] \in Waiting
    BY <1>1, Moves DEF Waiting
  <2> QED BY <1>1, <2>1, Stays DEF ParentInv
<1>2. CASE u = t
  <2>1. CASE ExecStart(t)
    <3>1. target[t] \in Tids
      BY <2>1 DEF ExecStart, TargetInv, Calling
    <3> QED BY <1>2, <2>1, <3>1 DEF ExecStart, locals, TypeOK
  <2>2. CASE Wait(t)
    <3>1. PICK c \in Children(t) : target' = [target EXCEPT ![t] = c]
      BY <2>2 DEF Wait
    <3>2. parent[c] = t /\ target'[t] = c /\ parent' = parent
      BY <2>2, <3>1 DEF Children, TypeOK, Wait
    <3> QED BY <1>2, <3>2
  <2>3. CASE ExecBlock(t) \/ WaitBlock(t) \/ DownRaw(t)
    <3>1. pc[t] \in Waiting /\ target' = target /\ parent' = parent
      BY <2>3 DEF ExecBlock, WaitBlock, DownRaw, Waiting, locals
    <3> QED BY <1>2, <3>1 DEF ParentInv
  <2> QED BY <1>2, <2>1, <2>2, <2>3, Enters
<1> QED BY <1>1, <1>2

\* Who is on a list after a step was there before or has just joined it.
LEMMA OnBefore ==
  ASSUME TypeOK, Born, OneQueue, TargetInv, NEW t \in Tids, Step(t),
         NEW p \in Pages, NEW w \in Tids
  PROVE  /\ OnAt(wait_load', p, w) =>
              OnAt(wait_load, p, w) \/ (ExecBlock(t) /\ w = t /\ p = page[target[t]])
         /\ OnAt(wait_exit', p, w) =>
              OnAt(wait_exit, p, w) \/ (WaitBlock(t) /\ w = t /\ p = page[target[t]])
<1>0. wait_load \in [Pages -> Semaphore] /\ wait_exit \in [Pages -> Semaphore]
  BY DEF TypeOK
<1>1. CASE LoadUp(t) \/ ProcUp(t) \/ Die(t)
  <2>1. page[t] \in Pages
    BY <1>1, NotMain DEF LoadUp, ProcUp, Die, Born
  <2>2. /\ \/ wait_load' = wait_load
           \/ wait_load' = Increment(wait_load, page[t])
           \/ wait_load' = [wait_load EXCEPT ![page[t]] = Fresh]
        /\ \/ wait_exit' = wait_exit
           \/ wait_exit' = Increment(wait_exit, page[t])
           \/ wait_exit' = [wait_exit EXCEPT ![page[t]] = Fresh]
    BY <1>1 DEF LoadUp, ProcUp, Die
  <2>3. ASSUME NEW sema \in [Pages -> Semaphore]
        PROVE  /\ OnAt(Increment(sema, page[t]), p, w) => OnAt(sema, p, w)
               /\ OnAt([sema EXCEPT ![page[t]] = Fresh], p, w) => OnAt(sema, p, w)
    BY <2>1, OnOperations
  <2>4. OnAt(wait_load', p, w) => OnAt(wait_load, p, w)
    <3>1. /\ OnAt(Increment(wait_load, page[t]), p, w) => OnAt(wait_load, p, w)
          /\ OnAt([wait_load EXCEPT ![page[t]] = Fresh], p, w) => OnAt(wait_load, p, w)
      BY <1>0, <2>3
    <3> QED BY <2>2, <3>1
  <2>5. OnAt(wait_exit', p, w) => OnAt(wait_exit, p, w)
    <3>1. /\ OnAt(Increment(wait_exit, page[t]), p, w) => OnAt(wait_exit, p, w)
          /\ OnAt([wait_exit EXCEPT ![page[t]] = Fresh], p, w) => OnAt(wait_exit, p, w)
      BY <1>0, <2>3
    <3> QED BY <2>2, <3>1
  <2> QED BY <2>4, <2>5
<1>2. CASE ExecStart(t) \/ ExecDown(t) \/ ExecBlock(t) \/ WaitDown(t) \/ WaitBlock(t)
  <2>1. page[target[t]] \in Pages
    BY <1>2, Addresses DEF ExecStart, ExecDown, ExecBlock, WaitDown, WaitBlock, Calling
  <2>2. /\ \/ wait_load' = wait_load
           \/ wait_load' = [wait_load EXCEPT ![page[target[t]]] = Fresh]
           \/ wait_load' = Decrement(wait_load, page[target[t]])
           \/ ExecBlock(t) /\ wait_load' = Enqueue(wait_load, page[target[t]], t)
        /\ \/ wait_exit' = wait_exit
           \/ wait_exit' = [wait_exit EXCEPT ![page[target[t]]] = Fresh]
           \/ wait_exit' = Decrement(wait_exit, page[target[t]])
           \/ WaitBlock(t) /\ wait_exit' = Enqueue(wait_exit, page[target[t]], t)
    BY <1>2 DEF ExecStart, ExecDown, ExecBlock, WaitDown, WaitBlock
  <2>3. OnAt(wait_load', p, w) =>
          OnAt(wait_load, p, w) \/ (ExecBlock(t) /\ w = t /\ p = page[target[t]])
    <3> DEFINE q == page[target[t]]
    <3>1. /\ OnAt([wait_load EXCEPT ![q] = Fresh], p, w) => OnAt(wait_load, p, w)
          /\ OnAt(Decrement(wait_load, q), p, w) => OnAt(wait_load, p, w)
          /\ OnAt(Enqueue(wait_load, q, t), p, w) => OnAt(wait_load, p, w) \/ (p = q /\ w = t)
      <4>1. wait_load \in [Pages -> Semaphore] /\ q \in Pages
        BY <1>0, <2>1
      <4> HIDE DEF q
      <4> QED BY <4>1, OnOperations, Zenon
    <3>2. \/ wait_load' = wait_load
          \/ wait_load' = [wait_load EXCEPT ![q] = Fresh]
          \/ wait_load' = Decrement(wait_load, q)
          \/ ExecBlock(t) /\ wait_load' = Enqueue(wait_load, q, t)
      BY <2>2
    <3> HIDE DEF q
    <3>3. OnAt(wait_load', p, w) => OnAt(wait_load, p, w) \/ (ExecBlock(t) /\ p = q /\ w = t)
      BY <3>1, <3>2
    <3> QED BY <3>3 DEF q
  <2>4. OnAt(wait_exit', p, w) =>
          OnAt(wait_exit, p, w) \/ (WaitBlock(t) /\ w = t /\ p = page[target[t]])
    <3> DEFINE q == page[target[t]]
    <3>1. /\ OnAt([wait_exit EXCEPT ![q] = Fresh], p, w) => OnAt(wait_exit, p, w)
          /\ OnAt(Decrement(wait_exit, q), p, w) => OnAt(wait_exit, p, w)
          /\ OnAt(Enqueue(wait_exit, q, t), p, w) => OnAt(wait_exit, p, w) \/ (p = q /\ w = t)
      BY <1>0, <2>1, OnOperations
    <3>2. \/ wait_exit' = wait_exit
          \/ wait_exit' = [wait_exit EXCEPT ![q] = Fresh]
          \/ wait_exit' = Decrement(wait_exit, q)
          \/ WaitBlock(t) /\ wait_exit' = Enqueue(wait_exit, q, t)
      BY <2>2
    <3> HIDE DEF q
    <3>3. OnAt(wait_exit', p, w) => OnAt(wait_exit, p, w) \/ (WaitBlock(t) /\ p = q /\ w = t)
      BY <3>1, <3>2
    <3> QED BY <3>3 DEF q
  <2> QED BY <2>3, <2>4
<1>3. CASE wait_load' = wait_load /\ wait_exit' = wait_exit
  BY <1>3
<1>4. CASE Exec(t) \/ ExecFails(t) \/ DownRaw(t) \/ Wait(t) \/ WaitAgain(t) \/ WaitUnknown(t)
  BY <1>3, <1>4 DEF Exec, ExecFails, DownRaw, Wait, WaitAgain, WaitUnknown
<1>5. CASE WaitRead(t) \/ Exit(t) \/ Load(t) \/ ExitStatus(t) \/ ExitCur(t) \/ Stale(t)
  BY <1>3, <1>5 DEF WaitRead, Exit, Load, ExitStatus, ExitCur, Stale
<1>6. CASE ProcAlive(t) \/ ProcStatus(t) \/ ProcFree(t)
  BY <1>3, <1>6 DEF ProcAlive, ProcStatus, ProcFree
<1> QED BY <1>1, <1>2, <1>4, <1>5, <1>6 DEF Step, UserStep, KernelStep

\* A thread stays on the list of its target.
LEMMA ListStep ==
  ASSUME TypeOK, Born, OneQueue, TargetInv, ListInv, NEW t \in Tids, Step(t)
  PROVE  ListInv'
<1> SUFFICES ASSUME NEW p \in Pages, NEW w \in Tids,
                    OnAt(wait_load', p, w) \/ OnAt(wait_exit', p, w)
             PROVE  page'[target'[w]] = p
  BY DEF ListInv, OnAt
<1>1. CASE OnAt(wait_load, p, w) \/ OnAt(wait_exit, p, w)
  <2>1. pc[w] \in Waiting /\ pc[w] \in {"execBlocked", "waitBlocked"}
    BY <1>1, OnBlocked DEF Waiting
  <2>2. w # t
    BY <2>1, Woken
  <2> QED BY <1>1, <2>1, <2>2, Stays DEF ListInv
<1>2. CASE (ExecBlock(t) \/ WaitBlock(t)) /\ w = t /\ p = page[target[t]]
  BY <1>2 DEF ExecBlock, WaitBlock, memory, locals
<1> QED BY <1>1, <1>2, OnBefore

-----------------------------------------------------------------------------
(* Nobody is forgotten while every page is kept. *)

\* Where a child has still to raise wait_load, and where it has raised wait_exit.
ToLoad == {"load", "loadUp"}
Over == {"procFree", "dying", "dead"}

\* Whoever sleeps for a child is on the list in the page of this child.
OnList ==
  \A t \in Tids :
    /\ pc[t] = "execBlocked" => OnAt(wait_load, page[target[t]], t)
    /\ pc[t] = "waitBlocked" => OnAt(wait_exit, page[target[t]], t)

\* The first waiter is on the list.
LEMMA FirstOn ==
  ASSUME NEW sema \in [Pages -> Semaphore], NEW p \in Pages, First(sema, p) \in Tids
  PROVE  OnAt(sema, p, First(sema, p))
<1>1. sema[p].waiters # <<>> /\ sema[p].waiters \in Seq(Tids)
  BY DEF First, Semaphore
<1>2. First(sema, p) = sema[p].waiters[1] /\ Len(sema[p].waiters) \in Nat \ {0}
  <2>1. Len(sema[p].waiters) \in Nat \ {0}
    BY <1>1, EmptySeq
  <2> QED BY <1>1, <2>1, RestType DEF First
<1> QED BY <1>2 DEF OnAt

\* exec: whoever sleeps is on the list of a child that has to raise wait_load, and whoever
\* tests it finds it raised unless the child still has to.
LEMMA ExecSide ==
  ASSUME IInv, Kept, Kept', NobodyForgotten, OnList, NEW t \in Tids, Step(t), NEW u \in Tids
  PROVE  /\ pc'[u] = "execBlocked" =>
              pc'[target'[u]] \in ToLoad /\ OnAt(wait_load', page'[target'[u]], u)
         /\ pc'[u] = "execDown" =>
              \/ pc'[target'[u]] \in ToLoad
              \/ owner'[page'[target'[u]]] = NoTid
              \/ wait_load'[page'[target'[u]]].value > 0
<1>0. /\ TypeOK /\ Born /\ PagesOwned /\ OneQueue /\ SemaInv /\ TargetInv /\ LoadInv
      /\ StatusInv /\ ReadInv /\ ParentInv /\ ListInv
      /\ wait_load \in [Pages -> Semaphore]
  BY DEF IInv, TypeOK
<1>1. SUFFICES ASSUME pc'[u] \in {"execBlocked", "execDown"}
               PROVE  /\ pc'[u] = "execBlocked" =>
                           pc'[target'[u]] \in ToLoad /\ OnAt(wait_load', page'[target'[u]], u)
                      /\ pc'[u] = "execDown" =>
                           \/ pc'[target'[u]] \in ToLoad
                           \/ owner'[page'[target'[u]]] = NoTid
                           \/ wait_load'[page'[target'[u]]].value > 0
  OBVIOUS
<1>2. CASE u = t
  <2>1. CASE ExecStart(t) /\ pc'[t] = "execDown"
    <3>1. target[t] \in Tids \ {Main} /\ target[t] # t /\ target' = target
      BY <1>0, <2>1 DEF ExecStart, TargetInv, Calling, locals
    <3>2. pc'[target[t]] = "load"
      BY <1>0, <2>1, <3>1 DEF ExecStart, TypeOK
    <3> QED BY <1>2, <2>1, <3>1, <3>2 DEF ToLoad
  <2>2. CASE ExecBlock(t) /\ pc'[t] = "execBlocked"
    <3> DEFINE p == page[target[t]]
    <3>1. /\ pc[t] = "execDown" /\ ~Passes(wait_load, p) /\ target' = target /\ page' = page
          /\ wait_load' = Enqueue(wait_load, p, t) /\ pc' = [pc EXCEPT ![t] = "execBlocked"]
      BY <2>2 DEF ExecBlock, Goto, locals, memory
    <3>2. p \in Pages /\ target[t] \in Tids
      BY <1>0, <3>1, Addresses DEF TargetInv, Calling
    <3>3. pc[target[t]] \in ToLoad
      BY <3>1 DEF NobodyForgotten, ToLoad, Over
    <3>4. OnAt(wait_load', p, t)
      BY <1>0, <3>1, <3>2, OnOperations
    <3>5. pc'[target[t]] \in ToLoad
      BY <1>0, <3>1, <3>2, <3>3 DEF ToLoad, Over, TypeOK
    <3> QED BY <1>2, <3>1, <3>4, <3>5
  <2>3. ~DownRaw(t)
    BY DEF DownRaw, Kept
  <2> QED BY <1>0, <1>1, <1>2, <2>1, <2>2, <2>3, Enters DEF Waiting
<1>3. CASE u # t
  <2>1. pc[u] \in {"execBlocked", "execDown"} /\ (pc'[u] = "execBlocked" => pc[u] = "execBlocked")
    BY <1>0, <1>1, <1>3, Moves
  <2>2. /\ pc[u] = "execBlocked" => pc[target[u]] \in ToLoad /\ OnAt(wait_load, page[target[u]], u)
        /\ pc[u] = "execDown" =>
             \/ pc[target[u]] \in ToLoad
             \/ owner[page[target[u]]] = NoTid
             \/ wait_load[page[target[u]]].value > 0
    BY DEF NobodyForgotten, OnList, Passes, ToLoad, Over
  <2>3. PICK c, p : c = target[u] /\ p = page[target[u]]
    OBVIOUS
  <2>4. /\ target'[u] = c /\ c \in Tids \ {Main} /\ pc[c] \notin Unstarted
        /\ p \in Pages /\ page'[c] = p
    BY <1>0, <1>3, <2>1, <2>3, Stays DEF Waiting
  <2>5. owner[p] \in {c, NoTid} /\ owner'[p] \in {c, NoTid}
    BY <1>1, <2>1, <2>3, <2>4 DEF Kept, Waiting
  <2>6. /\ pc[u] = "execBlocked" => pc[c] \in ToLoad /\ OnAt(wait_load, p, u)
        /\ pc[u] = "execDown" => pc[c] \in ToLoad \/ owner[p] = NoTid \/ wait_load[p].value > 0
    BY <2>2, <2>3
  <2>7. SUFFICES /\ pc'[u] = "execBlocked" => pc'[c] \in ToLoad /\ OnAt(wait_load', p, u)
                 /\ pc'[u] = "execDown" =>
                      pc'[c] \in ToLoad \/ owner'[p] = NoTid \/ wait_load'[p].value > 0
    BY <2>4
  \* Nothing that u waits for changes.
  <2>8. ASSUME pc'[u] = pc[u], wait_load'[p] = wait_load[p], owner'[p] = owner[p],
               pc[c] \in ToLoad => pc'[c] \in ToLoad
        PROVE  /\ pc'[u] = "execBlocked" => pc'[c] \in ToLoad /\ OnAt(wait_load', p, u)
               /\ pc'[u] = "execDown" =>
                    pc'[c] \in ToLoad \/ owner'[p] = NoTid \/ wait_load'[p].value > 0
    BY <2>6, <2>8 DEF OnAt
  <2>9. ~LoadUp(t) => pc'[u] = pc[u]
    BY <1>0, <1>3, <2>1, Woken, Moves
  <2>10. c # t /\ pc[c] \in ToLoad => pc'[c] \in ToLoad
    BY <1>0, <2>4, Moves DEF ToLoad, Over, Unstarted
  <2>11. pc[t] \in Waiting /\ owner[p] # NoTid => page[target[t]] # p
    <3> SUFFICES ASSUME pc[t] \in Waiting, owner[p] # NoTid, page[target[t]] = p
                 PROVE  FALSE
      OBVIOUS
    <3>1. owner[p] = c /\ owner[p] = target[t]
      BY <2>5 DEF Kept
    <3>2. parent[c] = u /\ parent[c] = t
      BY <1>0, <2>1, <2>3, <3>1 DEF ParentInv, Waiting
    <3> QED BY <1>3, <3>2
  <2>12. CASE LoadUp(t)
    <3>1. /\ t # Main /\ page[t] \in Pages /\ owner[page[t]] = t /\ owner' = owner
          /\ wait_load' = Increment(wait_load, page[t])
      BY <1>0, <2>12, NotMain DEF LoadUp, Born, PagesOwned, Ended, memory
    <3>2. \A w \in Tids \ {t} :
            pc'[w] = IF w # First(wait_load, page[t]) THEN pc[w]
                     ELSE IF pc[w] = "execBlocked" THEN "execDown" ELSE "waitDown"
      BY <2>12 DEF LoadUp, Wake
    <3>3. CASE page[t] = p
      <4>1. wait_load'[p].value > 0
        <5>1. wait_load[p].value \in Nat
          BY <1>0, <2>4 DEF Semaphore
        <5>2. Increment(wait_load, p)[p].value = wait_load[p].value + 1
          BY <2>4, <1>0 DEF Increment
        <5> QED BY <3>1, <3>3, <5>1, <5>2
      <4>2. pc'[u] # "execBlocked"
        <5> SUFFICES ASSUME pc[u] = "execBlocked" PROVE u = First(wait_load, p)
          BY <1>3, <2>1, <3>2, <3>3
        <5>1. First(wait_load, p) \in Tids /\ OnAt(wait_load, p, First(wait_load, p))
          BY <1>0, <2>4, <2>6, OnOperations
        <5>2. PICK w \in Tids : w = First(wait_load, p) /\ OnAt(wait_load, p, w)
          BY <5>1
        <5>3. pc[w] = "execBlocked" /\ page[target[w]] = p
          BY <1>0, <2>4, <5>2, OnBlocked DEF ListInv
        <5>4. owner[p] \in {target[w], NoTid} /\ owner[p] = t
          BY <3>1, <3>3, <5>3 DEF Kept, Waiting
        <5>5. target[w] = c
          BY <2>5, <5>4
        <5>6. parent[c] = u /\ parent[c] = w
          BY <1>0, <2>1, <2>3, <5>3, <5>5 DEF ParentInv, Waiting
        <5> QED BY <5>2, <5>6
      <4> QED BY <4>1, <4>2
    <3>4. CASE page[t] # p
      <4>1. wait_load'[p] = wait_load[p]
        BY <1>0, <2>4, <3>1, <3>4 DEF Increment
      <4>2. pc'[u] = pc[u]
        <5> SUFFICES ASSUME u = First(wait_load, page[t]) PROVE FALSE
          BY <1>3, <3>2
        <5>1. pc[u] = "execBlocked"
          BY <1>0, <2>1, <3>1, FirstBlocked
        <5>2. OnAt(wait_load, p, u)
          BY <2>6, <5>1
        <5>3. OnAt(wait_load, page[t], u)
          BY <1>0, <3>1, FirstOn
        <5> QED BY <1>0, <2>3, <3>1, <3>4, <5>3 DEF ListInv
      <4>3. c # t
        BY <2>3, <3>4
      <4> QED BY <2>8, <2>10, <3>1, <4>1, <4>2, <4>3
    <3> QED BY <3>3, <3>4
  <2>13. CASE ExecDown(t) \/ ExecBlock(t)
    <3>1. /\ page[target[t]] \in Pages /\ owner' = owner
          /\ pc[t] = "execDown" /\ ~LoadUp(t)
          /\ pc' = [pc EXCEPT ![t] = pc'[t]]
          /\ ExecDown(t) => wait_load' = Decrement(wait_load, page[target[t]])
          /\ ExecBlock(t) => /\ wait_load' = Enqueue(wait_load, page[target[t]], t)
                            /\ owner[page[target[t]]] # NoTid
      BY <1>0, <2>13, Addresses
      DEF ExecDown, ExecBlock, LoadUp, Goto, Passes, Calling, memory, TypeOK
    <3>2. wait_load'[p] = wait_load[p]
      <4>1. CASE page[target[t]] = p
        <5>1. owner[p] = NoTid
          BY <2>11, <3>1, <4>1 DEF Waiting
        <5> QED BY <2>13, <3>1, <4>1, <5>1 DEF Decrement
      <4>2. CASE page[target[t]] # p
        BY <1>0, <2>4, <2>13, <3>1, <4>2 DEF Decrement, Enqueue
      <4> QED BY <4>1, <4>2
    <3>3. pc[c] \in ToLoad => pc'[c] \in ToLoad
      <4>1. CASE c = t
        BY <3>1, <4>1 DEF ToLoad
      <4> QED BY <2>10, <4>1
    <3> QED BY <2>8, <2>9, <3>1, <3>2, <3>3
  <2>14. CASE ExecStart(t)
    <3>1. /\ target[t] \in Tids \ {Main} /\ pc[target[t]] = "made" /\ pc[t] = "execInit"
          /\ page[target[t]] \in Pages /\ owner' = owner /\ ~LoadUp(t)
          /\ wait_load' = [wait_load EXCEPT ![page[target[t]]] = Fresh]
      BY <1>0, <2>14, Addresses DEF ExecStart, LoadUp, TargetInv, Calling
    <3>2. owner[page[target[t]]] = target[t] /\ target[t] # c
      BY <1>0, <2>4, <3>1 DEF PagesOwned, Ended, Unstarted
    <3>3. page[target[t]] # p
      BY <2>5, <3>1, <3>2
    <3>4. wait_load'[p] = wait_load[p]
      BY <1>0, <3>1, <3>3
    <3>5. pc[c] \in ToLoad => pc'[c] \in ToLoad
      <4>1. CASE c = t
        <5>1. pc'[t] \in {"user", "execDown"}
          BY <1>0, <2>14, <3>1 DEF ExecStart, TypeOK
        <5> QED BY <3>1, <4>1, <5>1 DEF ToLoad, Over
      <4> QED BY <2>10, <4>1
    <3> QED BY <2>8, <2>9, <3>1, <3>4, <3>5
  <2>15. CASE Die(t)
    <3>1. /\ pc[t] = "dying" /\ t # Main /\ page[t] \in Pages /\ owner[page[t]] = t
          /\ owner' = [owner EXCEPT ![page[t]] = NoTid] /\ ~LoadUp(t)
          /\ wait_load' = [wait_load EXCEPT ![page[t]] = Fresh]
      BY <1>0, <2>15, NotMain DEF Die, LoadUp, Born, PagesOwned, Ended
    <3>2. CASE page[t] = p
      <4>1. c = t /\ owner'[p] = NoTid
        BY <1>0, <2>5, <3>1, <3>2 DEF TypeOK
      <4>2. pc'[u] # "execBlocked"
        BY <2>1, <2>6, <3>1, <4>1 DEF ToLoad, Over
      <4> QED BY <4>1, <4>2
    <3>3. CASE page[t] # p
      <4>1. wait_load'[p] = wait_load[p] /\ owner'[p] = owner[p] /\ c # t
        BY <1>0, <2>3, <3>1, <3>3 DEF TypeOK
      <4> QED BY <2>8, <2>9, <2>10, <3>1, <4>1
    <3> QED BY <3>2, <3>3
  <2>16. CASE Exec(t)
    <3>1. /\ next_tid \in Tids \ {Main} /\ pc[next_tid] = "unborn" /\ pc[t] = "user"
          /\ t # next_tid /\ pc'[t] = "execInit"
          /\ wait_load' = wait_load /\ ~LoadUp(t)
      BY <1>0, <2>16 DEF Exec, MayExec, Born, LoadUp, TypeOK
    <3>2. PICK q \in Pages : owner[q] = NoTid /\ owner' = [owner EXCEPT ![q] = next_tid]
      BY <2>16 DEF Exec
    <3>3. next_tid # c
      BY <2>4, <3>1 DEF Unstarted
    <3>4. q # p
      BY <1>0, <2>4, <2>5, <3>1, <3>2, <3>3 DEF TypeOK
    <3>5. owner'[p] = owner[p]
      BY <1>0, <3>2, <3>4 DEF TypeOK
    <3>6. pc[c] \in ToLoad => pc'[c] \in ToLoad
      BY <2>10, <3>1 DEF ToLoad, Over
    <3> QED BY <2>8, <2>9, <3>1, <3>5, <3>6
  \* No other step touches an owner or this semaphore.
  <2>17. ASSUME owner' = owner, wait_load' = wait_load, ~LoadUp(t), c = t => (pc[t] \in ToLoad => pc'[t] \in ToLoad)
         PROVE  /\ pc'[u] = "execBlocked" => pc'[c] \in ToLoad /\ OnAt(wait_load', p, u)
                /\ pc'[u] = "execDown" =>
                     pc'[c] \in ToLoad \/ owner'[p] = NoTid \/ wait_load'[p].value > 0
    BY <2>8, <2>9, <2>10, <2>17
  <2>18. CASE WaitDown(t) \/ WaitBlock(t) \/ ProcUp(t)
    BY <2>17, <2>18 DEF WaitDown, WaitBlock, ProcUp, LoadUp, ToLoad, memory
  <2>19. CASE Load(t)
    BY <1>0, <2>17, <2>19 DEF Load, LoadUp, Goto, ToLoad, memory, TypeOK
  <2>20. CASE ExecFails(t) \/ DownRaw(t) \/ Wait(t) \/ WaitAgain(t) \/ WaitUnknown(t) \/ WaitRead(t)
    BY <2>17, <2>20 DEF ExecFails, MayExec, DownRaw, Wait, WaitAgain, WaitUnknown, WaitRead,
                        LoadUp, ToLoad, memory
  <2>21. CASE Exit(t) \/ ExitStatus(t) \/ ExitCur(t) \/ Stale(t)
    BY <2>17, <2>21 DEF Exit, ExitStatus, ExitCur, Stale, UsesParent, LoadUp, ToLoad,
                        memory
  <2>22. CASE ProcAlive(t) \/ ProcStatus(t) \/ ProcFree(t)
    BY <2>17, <2>22 DEF ProcAlive, ProcStatus, ProcFree, LoadUp, ToLoad, memory
  <2> QED
    BY <2>12, <2>13, <2>14, <2>15, <2>16, <2>18, <2>19, <2>20, <2>21, <2>22
    DEF Step, UserStep, KernelStep
<1> QED BY <1>2, <1>3

\* wait: the same for wait_exit.
LEMMA WaitSide ==
  ASSUME IInv, Kept, Kept', NobodyForgotten, OnList, NEW t \in Tids, Step(t), NEW u \in Tids
  PROVE  /\ pc'[u] = "waitBlocked" =>
              pc'[target'[u]] \notin Over /\ OnAt(wait_exit', page'[target'[u]], u)
         /\ pc'[u] = "waitDown" =>
              \/ pc'[target'[u]] \notin Over
              \/ owner'[page'[target'[u]]] = NoTid
              \/ wait_exit'[page'[target'[u]]].value > 0
<1>0. /\ TypeOK /\ Born /\ PagesOwned /\ OneQueue /\ SemaInv /\ TargetInv /\ LoadInv
      /\ StatusInv /\ ReadInv /\ ParentInv /\ ListInv
      /\ wait_exit \in [Pages -> Semaphore]
  BY DEF IInv, TypeOK
<1>1. SUFFICES ASSUME pc'[u] \in {"waitBlocked", "waitDown"}
               PROVE  /\ pc'[u] = "waitBlocked" =>
                           pc'[target'[u]] \notin Over /\ OnAt(wait_exit', page'[target'[u]], u)
                      /\ pc'[u] = "waitDown" =>
                           \/ pc'[target'[u]] \notin Over
                           \/ owner'[page'[target'[u]]] = NoTid
                           \/ wait_exit'[page'[target'[u]]].value > 0
  OBVIOUS
<1>2. CASE u = t
  <2>1. CASE Wait(t) /\ pc'[t] = "waitDown"
    <3>1. PICK c \in Children(t) :
            /\ target' = [target EXCEPT ![t] = c]
            /\ Goto(t, IF child[c].cur_status = "ALIVE" THEN "waitDown" ELSE "waitRead")
      BY <2>1 DEF Wait
    <3>2. c \in Tids \ {Main} /\ pc[c] \notin Unstarted /\ target'[t] = c
      BY <1>0, <3>1 DEF Children, Born, TypeOK
    <3>3. child[c].cur_status = "ALIVE"
      BY <1>0, <2>1, <3>1 DEF Goto, TypeOK
    <3>4. pc[c] \notin Over
      BY <1>0, <3>2, <3>3 DEF StatusInv, Over, Exited
    <3>5. pc'[c] \notin Over
      BY <1>0, <2>1, <3>1, <3>4 DEF Goto, Over, TypeOK
    <3> QED BY <1>2, <2>1, <3>2, <3>5
  <2>2. CASE WaitBlock(t) /\ pc'[t] = "waitBlocked"
    <3> DEFINE p == page[target[t]]
    <3>1. /\ pc[t] = "waitDown" /\ ~Passes(wait_exit, p) /\ target' = target /\ page' = page
          /\ wait_exit' = Enqueue(wait_exit, p, t) /\ pc' = [pc EXCEPT ![t] = "waitBlocked"]
      BY <2>2 DEF WaitBlock, Goto, locals, memory
    <3>2. p \in Pages /\ target[t] \in Tids
      BY <1>0, <3>1, Addresses DEF TargetInv, Calling
    <3>3. pc[target[t]] \notin Over
      BY <3>1 DEF NobodyForgotten, ToLoad, Over
    <3>4. OnAt(wait_exit', p, t)
      BY <1>0, <3>1, <3>2, OnOperations
    <3>5. pc'[target[t]] \notin Over
      BY <1>0, <3>1, <3>2, <3>3 DEF ToLoad, Over, TypeOK
    <3> QED BY <1>2, <3>1, <3>4, <3>5
  <2>3. ~DownRaw(t)
    BY DEF DownRaw, Kept
  <2> QED BY <1>0, <1>1, <1>2, <2>1, <2>2, <2>3, Enters DEF Waiting
<1>3. CASE u # t
  <2>1. pc[u] \in {"waitBlocked", "waitDown"} /\ (pc'[u] = "waitBlocked" => pc[u] = "waitBlocked")
    BY <1>0, <1>1, <1>3, Moves
  <2>2. /\ pc[u] = "waitBlocked" => pc[target[u]] \notin Over /\ OnAt(wait_exit, page[target[u]], u)
        /\ pc[u] = "waitDown" =>
             \/ pc[target[u]] \notin Over
             \/ owner[page[target[u]]] = NoTid
             \/ wait_exit[page[target[u]]].value > 0
    BY DEF NobodyForgotten, OnList, Passes, ToLoad, Over
  <2>3. PICK c, p : c = target[u] /\ p = page[target[u]]
    OBVIOUS
  <2>4. /\ target'[u] = c /\ c \in Tids \ {Main} /\ pc[c] \notin Unstarted
        /\ p \in Pages /\ page'[c] = p
    BY <1>0, <1>3, <2>1, <2>3, Stays DEF Waiting
  <2>5. owner[p] \in {c, NoTid} /\ owner'[p] \in {c, NoTid}
    BY <1>1, <2>1, <2>3, <2>4 DEF Kept, Waiting
  <2>6. /\ pc[u] = "waitBlocked" => pc[c] \notin Over /\ OnAt(wait_exit, p, u)
        /\ pc[u] = "waitDown" => pc[c] \notin Over \/ owner[p] = NoTid \/ wait_exit[p].value > 0
    BY <2>2, <2>3
  <2>7. SUFFICES /\ pc'[u] = "waitBlocked" => pc'[c] \notin Over /\ OnAt(wait_exit', p, u)
                 /\ pc'[u] = "waitDown" =>
                      pc'[c] \notin Over \/ owner'[p] = NoTid \/ wait_exit'[p].value > 0
    BY <2>4
  \* Nothing that u waits for changes.
  <2>8. ASSUME pc'[u] = pc[u], wait_exit'[p] = wait_exit[p], owner'[p] = owner[p],
               pc[c] \notin Over => pc'[c] \notin Over
        PROVE  /\ pc'[u] = "waitBlocked" => pc'[c] \notin Over /\ OnAt(wait_exit', p, u)
               /\ pc'[u] = "waitDown" =>
                    pc'[c] \notin Over \/ owner'[p] = NoTid \/ wait_exit'[p].value > 0
    BY <2>6, <2>8 DEF OnAt
  <2>9. ~ProcUp(t) => pc'[u] = pc[u]
    BY <1>0, <1>3, <2>1, Woken, Moves
  <2>10. c # t /\ pc[c] \notin Over => pc'[c] \notin Over
    BY <1>0, <2>4, Moves DEF ToLoad, Over, Unstarted
  <2>11. pc[t] \in Waiting /\ owner[p] # NoTid => page[target[t]] # p
    <3> SUFFICES ASSUME pc[t] \in Waiting, owner[p] # NoTid, page[target[t]] = p
                 PROVE  FALSE
      OBVIOUS
    <3>1. owner[p] = c /\ owner[p] = target[t]
      BY <2>5 DEF Kept
    <3>2. parent[c] = u /\ parent[c] = t
      BY <1>0, <2>1, <2>3, <3>1 DEF ParentInv, Waiting
    <3> QED BY <1>3, <3>2
  <2>12. CASE ProcUp(t)
    <3>1. /\ t # Main /\ page[t] \in Pages /\ owner[page[t]] = t /\ owner' = owner
          /\ wait_exit' = Increment(wait_exit, page[t])
      BY <1>0, <2>12, NotMain DEF ProcUp, Born, PagesOwned, Ended, memory
    <3>2. \A w \in Tids \ {t} :
            pc'[w] = IF w # First(wait_exit, page[t]) THEN pc[w]
                     ELSE IF pc[w] = "execBlocked" THEN "execDown" ELSE "waitDown"
      BY <2>12 DEF ProcUp, Wake
    <3>3. CASE page[t] = p
      <4>1. wait_exit'[p].value > 0
        <5>1. wait_exit[p].value \in Nat
          BY <1>0, <2>4 DEF Semaphore
        <5>2. Increment(wait_exit, p)[p].value = wait_exit[p].value + 1
          BY <2>4, <1>0 DEF Increment
        <5> QED BY <3>1, <3>3, <5>1, <5>2
      <4>2. pc'[u] # "waitBlocked"
        <5> SUFFICES ASSUME pc[u] = "waitBlocked" PROVE u = First(wait_exit, p)
          BY <1>3, <2>1, <3>2, <3>3
        <5>1. First(wait_exit, p) \in Tids /\ OnAt(wait_exit, p, First(wait_exit, p))
          BY <1>0, <2>4, <2>6, OnOperations
        <5>2. PICK w \in Tids : w = First(wait_exit, p) /\ OnAt(wait_exit, p, w)
          BY <5>1
        <5>3. pc[w] = "waitBlocked" /\ page[target[w]] = p
          BY <1>0, <2>4, <5>2, OnBlocked DEF ListInv
        <5>4. owner[p] \in {target[w], NoTid} /\ owner[p] = t
          BY <3>1, <3>3, <5>3 DEF Kept, Waiting
        <5>5. target[w] = c
          BY <2>5, <5>4
        <5>6. parent[c] = u /\ parent[c] = w
          BY <1>0, <2>1, <2>3, <5>3, <5>5 DEF ParentInv, Waiting
        <5> QED BY <5>2, <5>6
      <4> QED BY <4>1, <4>2
    <3>4. CASE page[t] # p
      <4>1. wait_exit'[p] = wait_exit[p]
        BY <1>0, <2>4, <3>1, <3>4 DEF Increment
      <4>2. pc'[u] = pc[u]
        <5> SUFFICES ASSUME u = First(wait_exit, page[t]) PROVE FALSE
          BY <1>3, <3>2
        <5>1. pc[u] = "waitBlocked"
          BY <1>0, <2>1, <3>1, FirstBlocked
        <5>2. OnAt(wait_exit, p, u)
          BY <2>6, <5>1
        <5>3. OnAt(wait_exit, page[t], u)
          BY <1>0, <3>1, FirstOn
        <5> QED BY <1>0, <2>3, <3>1, <3>4, <5>3 DEF ListInv
      <4>3. c # t
        BY <2>3, <3>4
      <4> QED BY <2>8, <2>10, <3>1, <4>1, <4>2, <4>3
    <3> QED BY <3>3, <3>4
  <2>13. CASE WaitDown(t) \/ WaitBlock(t)
    <3>1. /\ page[target[t]] \in Pages /\ owner' = owner
          /\ pc[t] = "waitDown" /\ ~ProcUp(t)
          /\ pc' = [pc EXCEPT ![t] = pc'[t]]
          /\ WaitDown(t) => wait_exit' = Decrement(wait_exit, page[target[t]])
          /\ WaitBlock(t) => /\ wait_exit' = Enqueue(wait_exit, page[target[t]], t)
                            /\ owner[page[target[t]]] # NoTid
      BY <1>0, <2>13, Addresses
      DEF WaitDown, WaitBlock, ProcUp, Goto, Passes, Calling, memory, TypeOK
    <3>2. wait_exit'[p] = wait_exit[p]
      <4>1. CASE page[target[t]] = p
        <5>1. owner[p] = NoTid
          BY <2>11, <3>1, <4>1 DEF Waiting
        <5> QED BY <2>13, <3>1, <4>1, <5>1 DEF Decrement
      <4>2. CASE page[target[t]] # p
        BY <1>0, <2>4, <2>13, <3>1, <4>2 DEF Decrement, Enqueue
      <4> QED BY <4>1, <4>2
    <3>3. pc[c] \notin Over => pc'[c] \notin Over
      <4>1. CASE c = t
        <5>1. pc'[t] \in {"waitRead", "waitBlocked"}
          BY <1>0, <2>13 DEF WaitDown, WaitBlock, Goto, TypeOK
        <5> QED BY <4>1, <5>1 DEF Over
      <4> QED BY <2>10, <4>1
    <3> QED BY <2>8, <2>9, <3>1, <3>2, <3>3
  <2>14. CASE ExecStart(t)
    <3>1. /\ target[t] \in Tids \ {Main} /\ pc[target[t]] = "made" /\ pc[t] = "execInit"
          /\ page[target[t]] \in Pages /\ owner' = owner /\ ~ProcUp(t)
          /\ wait_exit' = [wait_exit EXCEPT ![page[target[t]]] = Fresh]
      BY <1>0, <2>14, Addresses DEF ExecStart, ProcUp, TargetInv, Calling
    <3>2. owner[page[target[t]]] = target[t] /\ target[t] # c
      BY <1>0, <2>4, <3>1 DEF PagesOwned, Ended, Unstarted
    <3>3. page[target[t]] # p
      BY <2>5, <3>1, <3>2
    <3>4. wait_exit'[p] = wait_exit[p]
      BY <1>0, <3>1, <3>3
    <3>5. pc[c] \notin Over => pc'[c] \notin Over
      <4>1. CASE c = t
        <5>1. pc'[t] \in {"user", "execDown"}
          BY <1>0, <2>14, <3>1 DEF ExecStart, TypeOK
        <5> QED BY <3>1, <4>1, <5>1 DEF ToLoad, Over
      <4> QED BY <2>10, <4>1
    <3> QED BY <2>8, <2>9, <3>1, <3>4, <3>5
  <2>15. CASE Die(t)
    <3>1. /\ pc[t] = "dying" /\ t # Main /\ page[t] \in Pages /\ owner[page[t]] = t
          /\ owner' = [owner EXCEPT ![page[t]] = NoTid] /\ ~ProcUp(t)
          /\ wait_exit' = [wait_exit EXCEPT ![page[t]] = Fresh]
      BY <1>0, <2>15, NotMain DEF Die, ProcUp, Born, PagesOwned, Ended
    <3>2. CASE page[t] = p
      <4>1. c = t /\ owner'[p] = NoTid
        BY <1>0, <2>5, <3>1, <3>2 DEF TypeOK
      <4>2. pc'[u] # "waitBlocked"
        BY <2>1, <2>6, <3>1, <4>1 DEF ToLoad, Over
      <4> QED BY <4>1, <4>2
    <3>3. CASE page[t] # p
      <4>1. wait_exit'[p] = wait_exit[p] /\ owner'[p] = owner[p] /\ c # t
        BY <1>0, <2>3, <3>1, <3>3 DEF TypeOK
      <4> QED BY <2>8, <2>9, <2>10, <3>1, <4>1
    <3> QED BY <3>2, <3>3
  <2>16. CASE Exec(t)
    <3>1. /\ next_tid \in Tids \ {Main} /\ pc[next_tid] = "unborn" /\ pc[t] = "user"
          /\ t # next_tid /\ pc'[t] = "execInit"
          /\ wait_exit' = wait_exit /\ ~ProcUp(t)
      BY <1>0, <2>16 DEF Exec, MayExec, Born, ProcUp, TypeOK
    <3>2. PICK q \in Pages : owner[q] = NoTid /\ owner' = [owner EXCEPT ![q] = next_tid]
      BY <2>16 DEF Exec
    <3>3. next_tid # c
      BY <2>4, <3>1 DEF Unstarted
    <3>4. q # p
      BY <1>0, <2>4, <2>5, <3>1, <3>2, <3>3 DEF TypeOK
    <3>5. owner'[p] = owner[p]
      BY <1>0, <3>2, <3>4 DEF TypeOK
    <3>6. pc[c] \notin Over => pc'[c] \notin Over
      BY <2>10, <3>1 DEF ToLoad, Over
    <3> QED BY <2>8, <2>9, <3>1, <3>5, <3>6
  \* No other step touches an owner or this semaphore.
  <2>17. ASSUME owner' = owner, wait_exit' = wait_exit, ~ProcUp(t), c = t => (pc[t] \notin Over => pc'[t] \notin Over)
         PROVE  /\ pc'[u] = "waitBlocked" => pc'[c] \notin Over /\ OnAt(wait_exit', p, u)
                /\ pc'[u] = "waitDown" =>
                     pc'[c] \notin Over \/ owner'[p] = NoTid \/ wait_exit'[p].value > 0
    BY <2>8, <2>9, <2>10, <2>17
  <2>18. CASE ExecDown(t) \/ ExecBlock(t)
    BY <1>0, <2>17, <2>18 DEF ExecDown, ExecBlock, ProcUp, Goto, Over, memory, TypeOK
  <2>19. CASE Load(t) \/ LoadUp(t)
    <3>1. pc'[t] \notin Over
      BY <1>0, <2>19 DEF Load, LoadUp, Wake, Goto, Over, TypeOK
    <3> QED BY <2>17, <2>19, <3>1 DEF Load, LoadUp, ProcUp, memory
  <2>20. CASE ExecFails(t) \/ DownRaw(t) \/ Wait(t) \/ WaitAgain(t) \/ WaitUnknown(t) \/ WaitRead(t)
    <3>1. pc'[t] \notin Over
      BY <1>0, <2>20 DEF ExecFails, MayExec, DownRaw, Wait, WaitAgain, WaitUnknown, WaitRead,
                         Goto, Over, TypeOK
    <3> QED BY <2>17, <2>20, <3>1 DEF ExecFails, MayExec, DownRaw, Wait, WaitAgain, WaitUnknown,
                                      WaitRead, ProcUp, memory
  <2>21. CASE Exit(t) \/ ExitStatus(t) \/ ExitCur(t) \/ Stale(t)
    <3>1. pc[t] \notin Over => pc'[t] \notin Over
      BY <1>0, <2>21 DEF Exit, ExitStatus, ExitCur, Stale, Goto, Over, TypeOK
    <3> QED BY <2>17, <2>21, <3>1 DEF Exit, ExitStatus, ExitCur, Stale, UsesParent, ProcUp, memory
  <2>22. CASE ProcAlive(t) \/ ProcStatus(t) \/ ProcFree(t)
    <3>1. pc[t] \notin Over => pc'[t] \notin Over
      BY <1>0, <2>22 DEF ProcAlive, ProcStatus, ProcFree, Goto, Over, TypeOK
    <3> QED BY <2>17, <2>22, <3>1 DEF ProcAlive, ProcStatus, ProcFree, ProcUp, memory
  <2> QED
    BY <2>12, <2>13, <2>14, <2>15, <2>16, <2>18, <2>19, <2>20, <2>21, <2>22
    DEF Step, UserStep, KernelStep
<1> QED BY <1>2, <1>3

-----------------------------------------------------------------------------
(* The theorems. *)

\* The invariant holds when only the initial thread exists.
LEMMA InvInit == Init => IInv
<1> SUFFICES ASSUME Init PROVE IInv
  OBVIOUS
<1>1. TypeOK
  BY TypeInit
<1>2. Born /\ PagesOwned /\ TargetInv /\ LoadInv /\ StatusInv /\ ReadInv
  BY DEF Init, Born, PagesOwned, TargetInv, LoadInv, StatusInv, ReadInv, Calling, Exited,
         Ended, Unstarted, ProcessAssumption
<1>3. OneQueue /\ SemaInv
  <2>1. \A p \in Pages : /\ wait_load[p].value = 0 /\ wait_exit[p].value = 0
                         /\ wait_load[p].waiters = <<>> /\ wait_exit[p].waiters = <<>>
    BY DEF Init, Fresh
  <2>2. \A p \in Pages : Len(wait_load[p].waiters) = 0 /\ Len(wait_exit[p].waiters) = 0
    BY <2>1, EmptySeq
  <2> QED BY <2>1, <2>2 DEF OneQueue, QueueOK, SemaInv
<1>4. ParentInv /\ ListInv
  <2>1. \A p \in Pages : Len(wait_load[p].waiters) = 0 /\ Len(wait_exit[p].waiters) = 0
    <3>1. \A p \in Pages : wait_load[p].waiters = <<>> /\ wait_exit[p].waiters = <<>>
      BY DEF Init, Fresh
    <3> QED BY <3>1, EmptySeq
  <2>2. ParentInv
    BY DEF Init, ParentInv, Waiting
  <2> QED BY <2>1, <2>2 DEF ListInv, OnAt
<1> QED BY <1>1, <1>2, <1>3, <1>4 DEF IInv

\* Every step keeps the invariant.
LEMMA InvStep == IInv /\ [Next]_vars => IInv'
<1> SUFFICES ASSUME IInv, [Next]_vars PROVE IInv'
  OBVIOUS
<1> USE DEF IInv
<1>1. ASSUME NEW t \in Tids, Step(t) PROVE IInv'
  <2>1. TypeOK' /\ Born' /\ PagesOwned' /\ OneQueue' /\ SemaInv'
    BY <1>1, TypeStep, BornStep, PagesStep, QueueStep, SemaStep
  <2>2. TargetInv' /\ LoadInv' /\ StatusInv' /\ ReadInv'
    BY <1>1, TargetStep, LoadStep, StatusStep, ReadStep
  <2>3. ParentInv' /\ ListInv'
    BY <1>1, ParentStep, ListStep
  <2> QED BY <2>1, <2>2, <2>3
<1>2. ASSUME UNCHANGED vars PROVE IInv'
  <2>1. TypeOK' /\ Born' /\ PagesOwned'
    BY <1>2 DEF vars, memory, locals, TypeOK, Born, PagesOwned
  <2>2. OneQueue' /\ SemaInv'
    BY <1>2 DEF vars, memory, locals, OneQueue, QueueOK, SemaInv
  <2>3. TargetInv' /\ LoadInv' /\ StatusInv' /\ ReadInv'
    BY <1>2 DEF vars, memory, locals, TargetInv, LoadInv, StatusInv, ReadInv
  <2>4. ParentInv' /\ ListInv'
    BY <1>2 DEF vars, memory, locals, ParentInv, ListInv, OnAt
  <2> QED BY <2>1, <2>2, <2>3, <2>4
<1> QED BY <1>1, <1>2 DEF Next

\* The invariant holds in every reachable state, for any number of processes and pages,
\* whatever the programs do.
THEOREM Invariant == Spec => []IInv
BY InvInit, InvStep, PTL DEF Spec

\* Types are kept, and no semaphore ever goes below 0.
THEOREM TypeCorrect == Spec => []TypeOK
<1>1. IInv => TypeOK
  BY DEF IInv
<1> QED BY <1>1, Invariant, PTL

\* No live thread loses its page and no page has two threads, although pages are freed by
\* threads that have not yet run to their last look at their parent.
THEOREM PagesSafe == Spec => []PagesOwned
<1>1. IInv => PagesOwned
  BY DEF IInv
<1> QED BY <1>1, Invariant, PTL

\* The one list element of a thread is never on two lists, not even when it waits on a
\* semaphore in a page that has become another thread's.
THEOREM QueuesSafe == Spec => []OneQueue
<1>1. IInv => OneQueue
  BY DEF IInv
<1> QED BY <1>1, Invariant, PTL

\* What exec returns agrees with what load did in the child.
THEOREM ExecTrue == Spec => ExecReportsLoad
<1> DEFINE A == \A t \in Tids : pc[t] = "execDown" /\ pc'[t] = "user" =>
                  eax'[t] = IF success[target[t]] THEN target[t] ELSE -1
<1>1. ASSUME IInv, [Next]_vars PROVE [A]_vars
  <2>0. /\ TypeOK /\ Born /\ PagesOwned /\ OneQueue /\ SemaInv
        /\ TargetInv /\ LoadInv /\ StatusInv /\ ReadInv
    BY <1>1 DEF IInv
  <2>1. ASSUME NEW t \in Tids, Step(t), NEW u \in Tids, pc[u] = "execDown", pc'[u] = "user"
        PROVE  eax'[u] = IF success[target[u]] THEN target[u] ELSE -1
    <3>1. u = t
      <4> SUFFICES ASSUME u # t PROVE FALSE
        OBVIOUS
      <4> QED BY <2>0, <2>1, Moves
    <3>2. ExecDown(t)
      <4>1. ~Exec(t) /\ ~ExecFails(t) /\ ~Wait(t) /\ ~WaitAgain(t) /\ ~WaitUnknown(t) /\ ~Exit(t)
        BY <2>1, <3>1 DEF Exec, ExecFails, MayExec, Wait, WaitAgain, WaitUnknown, Exit
      <4>2. ~WaitDown(t) /\ ~WaitBlock(t) /\ ~WaitRead(t) /\ ~Load(t) /\ ~LoadUp(t) /\ ~Stale(t)
        BY <2>1, <3>1 DEF WaitDown, WaitBlock, WaitRead, Load, LoadUp, Stale, UsesParent
      <4>6. ~ExecStart(t) /\ ~DownRaw(t)
        BY <2>0, <2>1, <3>1 DEF ExecStart, DownRaw
      <4>3. ~ExitStatus(t) /\ ~ExitCur(t) /\ ~ProcAlive(t) /\ ~ProcStatus(t) /\ ~ProcUp(t)
        BY <2>1, <3>1 DEF ExitStatus, ExitCur, ProcAlive, ProcStatus, ProcUp
      <4>4. ~ProcFree(t) /\ ~Die(t)
        BY <2>1, <3>1 DEF ProcFree, Die
      <4>5. ~ExecBlock(t)
        BY <2>0, <2>1, <3>1 DEF ExecBlock, Goto, TypeOK
      <4> QED BY <2>1, <4>1, <4>2, <4>3, <4>4, <4>5, <4>6 DEF Step, UserStep, KernelStep
    <3>3. target[t] \in Tids \ {Main} /\ pc[target[t]] # "unborn" /\ page[target[t]] \in Pages
      BY <2>0, <3>2, Addresses DEF ExecDown, TargetInv, Calling
    <3>4. pc[target[t]] \notin {"made", "load", "loadUp"}
      BY <2>0, <3>2, <3>3, Passed DEF ExecDown
    <3>5. child[target[t]].load_status = success[target[t]]
      BY <2>0, <3>3, <3>4 DEF LoadInv
    <3>6. eax'[t] = IF child[target[t]].load_status THEN target[t] ELSE -1
      BY <2>0, <3>2 DEF ExecDown, TypeOK
    <3> QED BY <3>1, <3>5, <3>6
  <2> QED BY <1>1, <2>1 DEF Next
<1> QED BY <1>1, Invariant, PTL DEF Spec, ExecReportsLoad

\* The first wait for a loaded child returns what the child passed to exit.
THEOREM WaitTrue == Spec => WaitReturnsStatus
<1> DEFINE A == \A t \in Tids : pc[t] = "waitRead" /\ pc'[t] = "user" /\ success[target[t]] =>
                  pc[target[t]] \in Exited /\ eax'[t] = code[target[t]]
<1>1. ASSUME IInv, [Next]_vars PROVE [A]_vars
  <2>0. /\ TypeOK /\ Born /\ PagesOwned /\ OneQueue /\ SemaInv
        /\ TargetInv /\ LoadInv /\ StatusInv /\ ReadInv
    BY <1>1 DEF IInv
  <2>1. ASSUME NEW t \in Tids, Step(t), NEW u \in Tids, pc[u] = "waitRead", pc'[u] = "user",
               success[target[u]]
        PROVE  pc[target[u]] \in Exited /\ eax'[u] = code[target[u]]
    <3>1. u = t
      <4> SUFFICES ASSUME u # t PROVE FALSE
        OBVIOUS
      <4> QED BY <2>0, <2>1, Moves
    <3>2. WaitRead(t)
      <4>1. ~Exec(t) /\ ~ExecFails(t) /\ ~Wait(t) /\ ~WaitAgain(t) /\ ~WaitUnknown(t) /\ ~Exit(t)
        BY <2>1, <3>1 DEF Exec, ExecFails, MayExec, Wait, WaitAgain, WaitUnknown, Exit
      <4>2. ~ExecDown(t) /\ ~ExecBlock(t) /\ ~WaitDown(t) /\ ~WaitBlock(t)
        BY <2>1, <3>1 DEF ExecDown, ExecBlock, WaitDown, WaitBlock
      <4>3. ~Load(t) /\ ~LoadUp(t) /\ ~Stale(t) /\ ~ExitStatus(t) /\ ~ExitCur(t)
        BY <2>1, <3>1 DEF Load, LoadUp, Stale, UsesParent, ExitStatus, ExitCur
      <4>4. ~ProcAlive(t) /\ ~ProcStatus(t) /\ ~ProcUp(t) /\ ~ProcFree(t) /\ ~Die(t)
        BY <2>1, <3>1 DEF ProcAlive, ProcStatus, ProcUp, ProcFree, Die
      <4>5. ~ExecStart(t) /\ ~DownRaw(t)
        BY <2>1, <3>1 DEF ExecStart, DownRaw
      <4> QED BY <2>1, <4>1, <4>2, <4>3, <4>4, <4>5 DEF Step, UserStep, KernelStep
    <3>3. target[t] \in Tids \ {Main} /\ pc[target[t]] \in Exited
      BY <2>0, <3>2 DEF WaitRead, TargetInv, ReadInv, Calling
    <3>4. child[target[t]].exit_status = code[target[t]]
      BY <2>0, <2>1, <3>1, <3>3 DEF StatusInv
    <3>5. eax'[t] = child[target[t]].exit_status
      BY <2>0, <3>2 DEF WaitRead, TypeOK
    <3> QED BY <3>1, <3>3, <3>4, <3>5
  <2> QED BY <1>1, <2>1 DEF Next
<1> QED BY <1>1, Invariant, PTL DEF Spec, WaitReturnsStatus

\* While no page of a child passes to another thread before its parent is back from exec or
\* wait, no parent is left asleep: whoever sleeps has a child that still has to wake it,
\* whether load succeeds or fails and whatever way the child ends.  This is what
\* CallsReturn rests on, for any number of processes and pages.
THEOREM NobodySleepsForEver == Spec => ([]Kept => []NobodyForgotten)
<1>1. Init => NobodyForgotten /\ OnList
  BY DEF Init, NobodyForgotten, OnList
<1>2. ASSUME IInv, Kept, Kept', NobodyForgotten, OnList, [Next]_vars
      PROVE  NobodyForgotten' /\ OnList'
  <2>1. ASSUME NEW t \in Tids, Step(t) PROVE NobodyForgotten' /\ OnList'
    <3>1. \A u \in Tids :
            /\ pc'[u] = "execBlocked" =>
                 pc'[target'[u]] \in ToLoad /\ OnAt(wait_load', page'[target'[u]], u)
            /\ pc'[u] = "execDown" =>
                 \/ pc'[target'[u]] \in ToLoad
                 \/ owner'[page'[target'[u]]] = NoTid
                 \/ wait_load'[page'[target'[u]]].value > 0
      BY <1>2, <2>1, ExecSide
    <3>2. \A u \in Tids :
            /\ pc'[u] = "waitBlocked" =>
                 pc'[target'[u]] \notin Over /\ OnAt(wait_exit', page'[target'[u]], u)
            /\ pc'[u] = "waitDown" =>
                 \/ pc'[target'[u]] \notin Over
                 \/ owner'[page'[target'[u]]] = NoTid
                 \/ wait_exit'[page'[target'[u]]].value > 0
      BY <1>2, <2>1, WaitSide
    <3>3. NobodyForgotten'
      BY <3>1, <3>2 DEF NobodyForgotten, Passes, ToLoad, Over
    <3>4. OnList'
      BY <3>1, <3>2 DEF OnList, OnAt
    <3> QED BY <3>3, <3>4
  <2>2. CASE UNCHANGED vars
    BY <1>2, <2>2 DEF vars, memory, locals, NobodyForgotten, OnList, OnAt, Passes
  <2> QED BY <1>2, <2>1, <2>2 DEF Next
<1> QED BY <1>1, <1>2, Invariant, PTL DEF Spec
=============================================================================
