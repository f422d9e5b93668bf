---------------------------- MODULE UserProcess ----------------------------
(***************************************************************************)
(* The life of user processes in Assignment 6_2 (process.c, syscall.c,     *)
(* thread.c): exec, wait and exit, and what they leave in memory.          *)
(*                                                                         *)
(* A struct thread is a page.  The page is freed when its thread has died  *)
(* and may become the struct thread of a later process, while child_thread *)
(* and parent keep the old address.  A child_element is freed with its     *)
(* parent.  The kernel preempts a thread anywhere, so one step is one      *)
(* access to memory that another thread also uses; a step of synch.c runs  *)
(* with interrupts off and is one step.                                    *)
(*                                                                         *)
(* A look-up in a child_list and the access it is made for are one step:   *)
(* between the two only the free of the element matters, and a free that   *)
(* comes first is met by the look-up itself.                               *)
(***************************************************************************)
EXTENDS Integers, Sequences, FiniteSets

CONSTANTS
  MaxTid,        \* bound: tids are 1..MaxTid, 1 is the initial thread
  Pages,         \* the kernel pages a struct thread can be allocated in
  NoPage,        \* the address of a thread that has not been created
  ExitCodes,     \* what programs pass to exit; a killed program passes -1
  Careful,       \* programs wait for every child they know and for nothing else
  MaxUnwaited    \* bound: children a program starts before it waits for one

ASSUME ProcessAssumption ==
  /\ MaxTid \in Nat \ {0}
  /\ NoPage \notin Pages
  /\ ExitCodes \subseteq Int
  /\ Careful \in BOOLEAN
  /\ MaxUnwaited \in Nat

Tids == 1..MaxTid
Main == 1
NoTid == 0
UNDEFINED_EXIT == -999

VARIABLES
  next_tid,    \* allocate_tid
  owner,       \* the thread whose struct is in a page, NoTid for a free page
  page,        \* the address of the struct thread of a tid, also when it is stale
  parent,      \* the thread whose page the member parent of a tid points to
  listed,      \* the tids whose child_element is in a child_list
  child,       \* the child_element of a tid
  wait_load, wait_exit,   \* the two semaphores of the struct in a page
  pc,          \* where each thread is
  target,      \* the child a thread last executed or waits for
  success,     \* the result of load in start_process
  code,        \* the argument of exit
  eax,         \* what the last system call returned to a program
  broken       \* "null" or "stale" once the kernel used such a pointer

memory == <<owner, page, listed>>
locals == <<target, success, code, eax>>
vars == <<next_tid, memory, parent, child, wait_load, wait_exit, pc, locals, broken>>

Fresh == [value |-> 0, waiters |-> <<>>]
NewChild ==
  [exit_status |-> UNDEFINED_EXIT, cur_status |-> "ALIVE",
   load_status |-> FALSE, parent_waiting |-> FALSE]

Init ==
  /\ next_tid = 2
  /\ owner = [p \in Pages |-> NoTid]
  /\ page = [t \in Tids |-> NoPage]
  /\ parent = [t \in Tids |-> NoTid]
  /\ listed = {}
  /\ child = [t \in Tids |-> NewChild]
  /\ wait_load = [p \in Pages |-> Fresh] /\ wait_exit = [p \in Pages |-> Fresh]
  /\ pc = [t \in Tids |-> IF t = Main THEN "user" ELSE "unborn"]
  /\ target = [t \in Tids |-> NoTid]
  /\ success = [t \in Tids |-> FALSE]
  /\ code = [t \in Tids |-> UNDEFINED_EXIT]
  /\ eax = [t \in Tids |-> 0]
  /\ broken = "no"

Goto(t, label) == pc' = [pc EXCEPT ![t] = label]

-----------------------------------------------------------------------------
(* sema_down and sema_up on the semaphore at an address.  The fill of a freed
   page is not 0, so a sema_down there passes; its decrement is lost when the
   page is allocated again, which zeroes it.  Until init_thread has run, a page
   is raw: the value there is 0 and the list of waiters is no list. *)

Raw(p) == owner[p] # NoTid /\ pc[owner[p]] = "made"

\* Mutants: sema_down with a wrong comparison; sema_up that leaves the waiter on its list.
PassesOffByOne(sema, p) == owner[p] = NoTid \/ sema[p].value >= 0
IncrementOnly(sema, p) == [sema EXCEPT ![p].value = @ + 1]

Passes(sema, p) == owner[p] = NoTid \/ sema[p].value > 0
Decrement(sema, p) == IF owner[p] = NoTid THEN sema ELSE [sema EXCEPT ![p].value = @ - 1]
Enqueue(sema, p, t) == [sema EXCEPT ![p].waiters = Append(@, t)]

Rest(s) == IF s = <<>> THEN <<>> ELSE Tail(s)
Increment(sema, p) ==
  [sema EXCEPT ![p] = [value |-> sema[p].value + 1, waiters |-> Rest(sema[p].waiters)]]

\* The first waiter, which will test the value again; NoTid if there is none.
First(sema, p) == IF sema[p].waiters = <<>> THEN NoTid ELSE Head(sema[p].waiters)

\* pc after t raised sema and went on to label.
Wake(sema, t, label) ==
  [u \in Tids |-> IF u = t THEN label
                  ELSE IF u # First(sema, page[t]) THEN pc[u]
                  ELSE IF pc[u] = "execBlocked" THEN "execDown" ELSE "waitDown"]

-----------------------------------------------------------------------------
(* The calls a program makes: exec (syscall.c) with process_execute and
   thread_create, wait with process_wait, exit.  The initial thread runs each
   task as process_wait(process_execute(task)). *)

Children(t) == {c \in listed : parent[c] = t}

\* The children a program was told of and has not waited for.
Unwaited(t) ==
  {c \in Children(t) : ~child[c].parent_waiting /\ (t = Main \/ child[c].load_status)}

MayExec(t) ==
  /\ pc[t] = "user"
  /\ next_tid <= MaxTid
  /\ IF t = Main THEN Unwaited(t) = {} ELSE Cardinality(Unwaited(t)) < MaxUnwaited

\* palloc_get_page in thread_create: the page is zeroed, and nothing in it set up yet.
Exec(t) ==
  /\ MayExec(t)
  /\ \E p \in Pages :
       /\ owner[p] = NoTid
       /\ owner' = [owner EXCEPT ![p] = next_tid]
       /\ page' = [page EXCEPT ![next_tid] = p]
  /\ next_tid' = next_tid + 1
  /\ target' = [target EXCEPT ![t] = next_tid]
  /\ pc' = [pc EXCEPT ![next_tid] = "made", ![t] = "execInit"]
  /\ UNCHANGED <<listed, parent, child, wait_load, wait_exit, success, code, eax, broken>>

\* init_thread, the child_element and thread_unblock.
ExecStart(t) ==
  /\ pc[t] = "execInit"
  /\ wait_load' = [wait_load EXCEPT ![page[target[t]]] = Fresh]
  /\ wait_exit' = [wait_exit EXCEPT ![page[target[t]]] = Fresh]
  /\ listed' = listed \cup {target[t]}
  /\ child' = [child EXCEPT ![target[t]] = NewChild]
  /\ parent' = [parent EXCEPT ![target[t]] = t]
  /\ pc' = [pc EXCEPT ![target[t]] = "load", ![t] = IF t = Main THEN "user" ELSE "execDown"]
  /\ UNCHANGED <<next_tid, owner, page, locals, broken>>

\* thread_create returns TID_ERROR; exec and run_task look that tid up and use the result.
ExecFails(t) ==
  /\ MayExec(t)
  /\ \A p \in Pages : owner[p] # NoTid
  /\ broken' = "null"
  /\ UNCHANGED <<next_tid, memory, parent, child, wait_load, wait_exit, pc, locals>>

ExecDown(t) ==
  /\ pc[t] = "execDown"
  /\ Passes(wait_load, page[target[t]])
  /\ wait_load' = Decrement(wait_load, page[target[t]])
  /\ eax' = [eax EXCEPT ![t] = IF child[target[t]].load_status THEN target[t] ELSE -1]
  /\ Goto(t, "user")
  /\ UNCHANGED <<next_tid, memory, parent, child, wait_exit, target, success, code, broken>>

ExecBlock(t) ==
  /\ pc[t] = "execDown" /\ ~Raw(page[target[t]])
  /\ ~Passes(wait_load, page[target[t]])
  /\ wait_load' = Enqueue(wait_load, page[target[t]], t)
  /\ Goto(t, "execBlocked")
  /\ UNCHANGED <<next_tid, memory, parent, child, wait_exit, locals, broken>>

\* sema_down on a page that is raw: an assertion of list_push_back stops the kernel.
DownRaw(t) ==
  /\ pc[t] \in {"execDown", "waitDown"} /\ Raw(page[target[t]])
  /\ broken' = "stale"
  /\ UNCHANGED <<next_tid, memory, parent, child, wait_load, wait_exit, pc, locals>>

\* The tids a program may pass to wait.
MayWait(t) ==
  IF t = Main THEN Unwaited(t)
  ELSE IF Careful THEN {c \in Children(t) : child[c].load_status} ELSE Tids

\* process_wait up to its test of cur_status.
Wait(t) ==
  /\ pc[t] = "user"
  /\ \E c \in MayWait(t) \cap Children(t) :
       /\ ~child[c].parent_waiting
       /\ child' = [child EXCEPT ![c].parent_waiting = TRUE]
       /\ target' = [target EXCEPT ![t] = c]
       /\ Goto(t, IF child[c].cur_status = "ALIVE" THEN "waitDown" ELSE "waitRead")
  /\ UNCHANGED <<next_tid, memory, parent, wait_load, wait_exit, success, code, eax, broken>>

WaitAgain(t) ==
  /\ pc[t] = "user"
  /\ \E c \in MayWait(t) \cap Children(t) : child[c].parent_waiting
  /\ eax' = [eax EXCEPT ![t] = -1]
  /\ UNCHANGED <<next_tid, memory, parent, child, wait_load, wait_exit, pc,
                 target, success, code, broken>>

\* No element for the tid: process_wait reads parent_waiting through NULL.
WaitUnknown(t) ==
  /\ pc[t] = "user"
  /\ MayWait(t) \ Children(t) # {}
  /\ broken' = "null"
  /\ UNCHANGED <<next_tid, memory, parent, child, wait_load, wait_exit, pc, locals>>

WaitDown(t) ==
  /\ pc[t] = "waitDown"
  /\ Passes(wait_exit, page[target[t]])
  /\ wait_exit' = Decrement(wait_exit, page[target[t]])
  /\ Goto(t, "waitRead")
  /\ UNCHANGED <<next_tid, memory, parent, child, wait_load, locals, broken>>

WaitBlock(t) ==
  /\ pc[t] = "waitDown" /\ ~Raw(page[target[t]])
  /\ ~Passes(wait_exit, page[target[t]])
  /\ wait_exit' = Enqueue(wait_exit, page[target[t]], t)
  /\ Goto(t, "waitBlocked")
  /\ UNCHANGED <<next_tid, memory, parent, child, wait_load, locals, broken>>

WaitRead(t) ==
  /\ pc[t] = "waitRead"
  /\ eax' = [eax EXCEPT ![t] = child[target[t]].exit_status]
  /\ Goto(t, "user")
  /\ UNCHANGED <<next_tid, memory, parent, child, wait_load, wait_exit,
                 target, success, code, broken>>

\* The system call exit, or the exit(-1) of an exception or of a bad argument.
Exit(t) ==
  /\ pc[t] = "user" /\ t # Main
  /\ Careful => Unwaited(t) = {}
  /\ \E status \in ExitCodes \cup {-1} : code' = [code EXCEPT ![t] = status]
  /\ Goto(t, "exitStatus")
  /\ UNCHANGED <<next_tid, memory, parent, child, wait_load, wait_exit,
                 target, success, eax, broken>>

-----------------------------------------------------------------------------
(* A process from its first step in start_process to its last in thread_exit. *)

\* Mutant: the parent is told that loading is over before the result is stored.
LoadUpFirst(t) ==
  /\ pc[t] = "load"
  /\ \E ok \in BOOLEAN : success' = [success EXCEPT ![t] = ok]
  /\ wait_load' = Increment(wait_load, page[t])
  /\ pc' = Wake(wait_load, t, "loadUp")
  /\ UNCHANGED <<next_tid, memory, parent, child, wait_exit, target, code, eax, broken>>

\* load, and its result stored where the parent will look.
Load(t) ==
  /\ pc[t] = "load" /\ t \in listed
  /\ \E ok \in BOOLEAN :
       /\ success' = [success EXCEPT ![t] = ok]
       /\ child' = [child EXCEPT ![t].load_status = ok]
  /\ Goto(t, "loadUp")
  /\ UNCHANGED <<next_tid, memory, parent, wait_load, wait_exit, target, code, eax, broken>>

LoadUp(t) ==
  /\ pc[t] = "loadUp"
  /\ wait_load' = Increment(wait_load, page[t])
  /\ pc' = Wake(wait_load, t, IF success[t] THEN "user" ELSE "procAlive")
  /\ UNCHANGED <<next_tid, memory, parent, child, wait_exit, locals, broken>>

\* Mutant: exit announces its end and never stores the status.
ExitCurFirst(t) ==
  /\ pc[t] = "exitStatus" /\ t \in listed
  /\ child' = [child EXCEPT ![t].cur_status = IF code[t] = -1 THEN "KILLED" ELSE "EXITED"]
  /\ Goto(t, "exitCur")
  /\ UNCHANGED <<next_tid, memory, parent, wait_load, wait_exit, locals, broken>>

ExitStatus(t) ==
  /\ pc[t] = "exitStatus" /\ t \in listed
  /\ child' = [child EXCEPT ![t].exit_status = code[t]]
  /\ Goto(t, "exitCur")
  /\ UNCHANGED <<next_tid, memory, parent, wait_load, wait_exit, locals, broken>>

ExitCur(t) ==
  /\ pc[t] = "exitCur" /\ t \in listed
  /\ child' = [child EXCEPT ![t].cur_status = IF code[t] = -1 THEN "KILLED" ELSE "EXITED"]
  /\ Goto(t, "procAlive")
  /\ UNCHANGED <<next_tid, memory, parent, wait_load, wait_exit, locals, broken>>

\* process_exit marks a thread that ends without a call of exit, in two stores.
ProcAlive(t) ==
  /\ pc[t] = "procAlive" /\ t \in listed
  /\ IF child[t].cur_status = "ALIVE"
       THEN child' = [child EXCEPT ![t].cur_status = "KILLED"] /\ Goto(t, "procStatus")
       ELSE child' = child /\ Goto(t, "procUp")
  /\ UNCHANGED <<next_tid, memory, parent, wait_load, wait_exit, locals, broken>>

ProcStatus(t) ==
  /\ pc[t] = "procStatus" /\ t \in listed
  /\ child' = [child EXCEPT ![t].exit_status = -1]
  /\ Goto(t, "procUp")
  /\ UNCHANGED <<next_tid, memory, parent, wait_load, wait_exit, locals, broken>>

\* Where a thread is about to follow its pointer parent.
UsesParent == {"load", "exitStatus", "exitCur", "procAlive", "procStatus"}

\* The same accesses when the parent has freed the element, and perhaps its page: the
\* look-up reads a freed page or finds no element, and the store goes wrong.
Stale(t) ==
  /\ pc[t] \in UsesParent
  /\ t \notin listed
  /\ broken' = "stale"
  /\ UNCHANGED <<next_tid, memory, parent, child, wait_load, wait_exit, pc, locals>>

\* Mutant: process_exit without its sema_up.
ProcUpForgotten(t) ==
  /\ pc[t] = "procUp"
  /\ Goto(t, "procFree")
  /\ UNCHANGED <<next_tid, memory, parent, child, wait_load, wait_exit, locals, broken>>

ProcUp(t) ==
  /\ pc[t] = "procUp"
  /\ wait_exit' = Increment(wait_exit, page[t])
  /\ pc' = Wake(wait_exit, t, "procFree")
  /\ UNCHANGED <<next_tid, memory, parent, child, wait_load, locals, broken>>

\* Mutant: the page is freed by its own thread, before it has switched away.
ProcFreePage(t) ==
  /\ pc[t] = "procFree"
  /\ listed' = listed \ Children(t)
  /\ owner' = [owner EXCEPT ![page[t]] = NoTid]
  /\ Goto(t, "dying")
  /\ UNCHANGED <<next_tid, page, parent, child, wait_load, wait_exit, locals, broken>>

ProcFree(t) ==
  /\ pc[t] = "procFree"
  /\ listed' = listed \ Children(t)
  /\ Goto(t, "dying")
  /\ UNCHANGED <<next_tid, owner, page, parent, child, wait_load, wait_exit, locals, broken>>

\* thread_exit switches to another thread, whose thread_schedule_tail frees the page.
Die(t) ==
  /\ pc[t] = "dying"
  /\ owner' = [owner EXCEPT ![page[t]] = NoTid]
  /\ wait_load' = [wait_load EXCEPT ![page[t]] = Fresh]
  /\ wait_exit' = [wait_exit EXCEPT ![page[t]] = Fresh]
  /\ Goto(t, "dead")
  /\ UNCHANGED <<next_tid, page, listed, parent, child, locals, broken>>

-----------------------------------------------------------------------------

UserStep(t) ==
  Exec(t) \/ ExecFails(t) \/ Wait(t) \/ WaitAgain(t) \/ WaitUnknown(t) \/ Exit(t)

KernelStep(t) ==
  \/ ExecStart(t) \/ ExecDown(t) \/ ExecBlock(t) \/ DownRaw(t)
  \/ WaitDown(t) \/ WaitBlock(t) \/ WaitRead(t)
  \/ Load(t) \/ LoadUp(t) \/ ExitStatus(t) \/ ExitCur(t) \/ Stale(t)
  \/ ProcAlive(t) \/ ProcStatus(t) \/ ProcUp(t) \/ ProcFree(t) \/ Die(t)

Step(t) == UserStep(t) \/ KernelStep(t)

\* Nothing is said of what follows the use of a bad pointer.
Next == broken = "no" /\ \E t \in Tids : Step(t)

Spec == Init /\ [][Next]_vars

\* The scheduler is round-robin, so a thread inside the kernel goes on; what a program
\* does, and whether it ends, is up to the program.
FairSpec == Spec /\ \A t \in Tids : WF_vars(broken = "no" /\ KernelStep(t))

-----------------------------------------------------------------------------
(* Properties. *)

Labels ==
  {"unborn", "made", "load", "loadUp", "user", "execInit", "execDown", "execBlocked",
   "waitDown", "waitBlocked", "waitRead", "exitStatus", "exitCur", "procAlive", "procStatus", "procUp", "procFree",
   "dying", "dead"}
Ended == {"unborn", "dead"}
Elements ==
  [exit_status : Int, cur_status : {"ALIVE", "EXITED", "KILLED"},
   load_status : BOOLEAN, parent_waiting : BOOLEAN]
Semaphore == [value : Nat, waiters : Seq(Tids)]

\* Every variable has its type; a semaphore's value never goes below 0.
TypeOK ==
  /\ next_tid \in 2..(MaxTid + 1)
  /\ owner \in [Pages -> Tids \cup {NoTid}]
  /\ page \in [Tids -> Pages \cup {NoPage}]
  /\ parent \in [Tids -> Tids \cup {NoTid}]
  /\ listed \in SUBSET Tids
  /\ child \in [Tids -> Elements]
  /\ wait_load \in [Pages -> Semaphore] /\ wait_exit \in [Pages -> Semaphore]
  /\ pc \in [Tids -> Labels]
  /\ target \in [Tids -> Tids \cup {NoTid}]
  /\ success \in [Tids -> BOOLEAN]
  /\ code \in [Tids -> Int]
  /\ eax \in [Tids -> Int]
  /\ broken \in {"no", "null", "stale"}

\* Every live thread has a page of its own, and a page in use belongs to the live thread
\* that was put there last: no page is freed under a thread or allocated twice.
PagesOwned ==
  /\ \A p \in Pages : owner[p] # NoTid => page[owner[p]] = p /\ pc[owner[p]] \notin Ended
  /\ \A t \in Tids \ {Main} : pc[t] \notin Ended => owner[page[t]] = t

\* exec tells a program the truth about the load of its child, whatever page the child's
\* semaphore was read from: its tid if it runs, -1 if load failed.
ExecReportsLoad ==
  [][\A t \in Tids : pc[t] = "execDown" /\ pc'[t] = "user" =>
       eax'[t] = IF success[target[t]] THEN target[t] ELSE -1]_vars

\* The first wait for a child that was loaded returns the status this child passed to
\* exit, never the initial one and never another process's, also when the page of the
\* child was freed or taken over while the parent was waking up.
Exited == {"procAlive", "procStatus", "procUp", "procFree", "dying", "dead"}
WaitReturnsStatus ==
  [][\A t \in Tids : pc[t] = "waitRead" /\ pc'[t] = "user" /\ success[target[t]] =>
       pc[target[t]] \in Exited /\ eax'[t] = code[target[t]]]_vars

\* A thread is on at most one list of waiters, once, and only while it is blocked there:
\* struct thread has one elem for all lists (thread.h).
QueueOK(sema, at, label) ==
  /\ \A p \in Pages : \A i \in 1..Len(sema[p].waiters) : at[sema[p].waiters[i]] = label
  /\ \A p, q \in Pages : \A i \in 1..Len(sema[p].waiters), k \in 1..Len(sema[q].waiters) :
       sema[p].waiters[i] = sema[q].waiters[k] => p = q /\ i = k
OneQueue == QueueOK(wait_load, pc, "execBlocked") /\ QueueOK(wait_exit, pc, "waitBlocked")

\* Nobody else has moved into the page of a child while its parent is still inside exec
\* or wait for it, and the kernel has used no bad pointer.  Without this the parent may
\* take the value the child of another thread raised, or sleep in that child's page.
Waiting == {"execDown", "execBlocked", "waitDown", "waitBlocked"}
Kept ==
  /\ broken = "no"
  /\ \A t \in Tids : pc[t] \in Waiting => owner[page[target[t]]] \in {target[t], NoTid}

\* The calls that have to return: an exec, and a wait for a child that has died.
Due(t) ==
  \/ pc[t] \in {"execDown", "execBlocked"}
  \/ pc[t] \in {"waitDown", "waitBlocked"} /\ pc[target[t]] = "dead"

\* As long as every page is kept, exec returns, whether the load succeeds or fails and
\* however soon the child ends, and so does every wait whose child has died.
CallsReturn == []Kept => \A t \in Tids : Due(t) ~> pc[t] = "user"

\* The safety part: whoever sleeps has a child that still has to raise the semaphore,
\* and whoever is about to test it has one that has to, or finds it raised.
NobodyForgotten ==
  \A t \in Tids :
    /\ pc[t] = "execBlocked" => pc[target[t]] \in {"load", "loadUp"}
    /\ pc[t] = "execDown" =>
         pc[target[t]] \in {"load", "loadUp"} \/ Passes(wait_load, page[target[t]])
    /\ pc[t] = "waitBlocked" => pc[target[t]] \notin {"procFree", "dying", "dead"}
    /\ pc[t] = "waitDown" =>
         pc[target[t]] \notin {"procFree", "dying", "dead"}
           \/ Passes(wait_exit, page[target[t]])

\* process.c, process_wait: "Waits for thread TID to die": nobody who waits for a child
\* stays blocked when the child is dead.
WaitsForTheLiving ==
  \A t \in Tids : pc[t] = "waitBlocked" => pc[target[t]] # "dead"
=============================================================================
