# A verification project for the Operating System Laboratory

The repository holds the submissions to the assignments of an operating systems
laboratory: a shell (Assignment 2), a job scheduler for processes and for threads
(Assignment 5), and four stages of work on the teaching kernel Pintos, whose changed
files are here and whose other files are not (Assignments 3, 4, 6_1 and 6_2). This
directory models the parts of it in which several actors share state, checks them with
TLC and proves the most important properties with TLAPS.

## The system

| Part | State it keeps | Operations | What is hard about it |
|---|---|---|---|
| Job scheduler, processes: `Assignment_5/..._process.cpp` | a shared segment: a heap `priority_q`, `job_created`, `job_completed`, `curr_size`, a process-shared mutex; in main the pids of its children | main forks producers and consumers, polls the counters, signals and (does not) wait; a producer makes a job, drops the lock, sleeps, and inserts the job; a consumer removes a job, drops the lock and computes | interleaving of processes, a queue at its limit, death by SIGTERM at any point, jobs that are counted before they are in the queue or computed |
| Job scheduler, threads: `..._thread.cpp` | the same, in global memory | the same, with `pthread_cancel` | cancellation inside a critical section; the rest the same |
| Processes of Pintos: `Assignment_6_2/.../process.c`, `syscall.c`, `thread.c` | a `struct thread` per page, a `child_element` per child in its parent's `child_list`, two semaphores in each `struct thread` | `exec`, `wait`, `exit`, the death of a thread, the reuse of its page | pointers to memory that another thread frees; two unlocked variables read in an order that matters; a semaphore in a freed page |
| Files of Pintos: `Assignment_6_2/.../syscall.c` | `fd_list`, `fd_size` per thread, `file_lock`, `exec_file` | `open`, `read`, `write`, `filesize`, `create`, `remove`, `close` | `handle_close` does nothing; `load` and `process_exit` use files without the lock; a descriptor must name one open file and every file must be closed once |
| Loading: `Assignment_6_2/.../process.c` | the page directory, the user pages and the stack of a new process | `load`, `validate_segment`, `load_segment`, `setup_stack`, `set_arguments_into_stack` | segments that begin and end anywhere in a page, sizes that wrap around, failure at any page, arguments that do not fit the page of the stack |
| Alarm clock: `Assignment_3/.../timer.c` | `ticks`, the list `sleeping_threads` ordered by `sleep_time` | `timer_sleep`, `timer_interrupt`, the conversions of `real_time_sleep` | preemption between reading the time and blocking; a handler that looks only at the front of the list |
| Scheduler of Assignment 4: `thread.c`, `timer.c` | `ready_list`, `all_list`, `load_avg`, and per thread `status`, `recent_cpu`, `nice`, `priority`; a wake-up thread | create, block, unblock, yield, exit, the tick, `thread_set_priority`, `thread_set_nice`, the MLFQS formulas, wake-up by a thread of its own | preemption inside `thread_create` and `thread_set_nice`; priorities that change while threads are queued by priority; the start-up of the wake-up thread |
| Processes, first version: `Assignment_6_1` | as in 6_2, without semaphores for `wait` | `exec`, `exit`, `write` | `process_wait` spins |
| Shell: `Assignment_2_submission.c` | pipes and children | the pipeline loop, redirection, background jobs | the stages of a pipeline are waited for one after the other |
| `shutdown.c`, `run_test.sh` | none | | |

How the parts interact: in Pintos the alarm clock and the semaphores block and unblock
threads through `thread_block` and `thread_unblock`, which put a thread on one list at a
time; system calls run in the kernel with interrupts on, so a timer tick may preempt them
at any access, and only `intr_disable` keeps it off. In the job scheduler the processes
meet in the shared segment only, and in signals.

What makes each part correct:

* job scheduler: every job counted as created is in one place until exactly one consumer
  takes it; a consumer takes a job of the highest priority; main stops only when nothing
  is left to do, and then everybody stops;
* processes: what `exec` and `wait` return is what the child did; a page belongs to one
  thread; no call blocks for ever on a child that has died;
* alarm clock: nobody wakes early, late or never;
* files: a descriptor names one file of its owner; an executable is not written while it
  runs; shell: a pipeline whose data fits ends, and leaves no process behind;
* scheduler: every thread is on the lists its state says, the ready list is sorted, and
  equals take turns;
* loading: a program that was loaded has its segments and its arguments where its headers
  and the conventions of `main` say, and a load that fails loses no page.

## The modules

| Module | Models | State and actions |
|---|---|---|
| `JobQueue` | the job scheduler, processes | the variables carry the names of the segment; one action per lock acquisition, critical section, iteration of a heap loop, system call of main |
| `JobPool` | what it promises | `Make`, `Post`, `Take`: a bounded pool that hands each job to one consumer, highest priority first |
| `JobQueueProofs` | | theorems about `JobQueue` |
| `JobThreads` | the job scheduler, threads | the same variables; the taking of the lock, the critical section (in two if a cancellation point divides it), `Cancel`, `Die` |
| `JobThreadsProofs` | | theorems about `JobThreads` |
| `UserProcess` | `exec`, `wait`, `exit` of Assignment 6_2 | pages and their owners, the `child_element`s, the two semaphores of each page, the place of each thread; one action per access to memory that another thread also uses |
| `UserProcessProofs` | | theorems about `UserProcess` |
| `Timer` | `timer_sleep` and `timer_interrupt` of Assignment 3 | `ticks`, the list, `sleep_time`, the local variables of `timer_sleep`; `Call`, `ReadTicks`, `Block`, `TimerInterrupt`, `Return` |
| `Alarm` | what it promises | `Set` and `Ring`: every alarm that is due rings at this tick, and no other |
| `MCTimer` | | the durations for TLC, one of them negative |
| `TimerProofs` | | theorems about `Timer` |
| `Shell` | the loop, pipelines and `shell_launch` of Assignment 2 | the local variables of `shell_loop`, the pipe ends that the shell and each child have open, the contents of the pipes; one action per system call of the shell, and the steps of the programs it starts |
| `MCShell` | | the lines for TLC |
| `ShellProofs` | | theorems about `Shell` |
| `FileTable` | the file system calls of Assignment 6_2, and what `load` and `process_exit` do with files | the descriptors and `exec_file` of each process, `file_lock`, and of the file system the directory, the struct inodes in memory and the two counts of each; one action per lock acquisition, file system call and release, and two for the opening and the last closing of an inode |
| `FileTableProofs` | | theorems about `FileTable` |
| `Loader` | `load` and its helpers of Assignment 6_2 | the program header at hand, the variables of `load_segment`, the page directory, the user pages in hand, the stack pointer and what was stored where; one action per page, header and pushed item |
| `MCLoader` | | the files and command lines for TLC |
| `LoaderProofs` | | theorems about `Loader` |
| `Scheduler` | the scheduler of Assignment 4, with and without `-o mlfqs` | the two lists, the state and priority of each thread, the formulas' numbers; one action per function that runs with interrupts off, and one per access of those that do not |
| `MCScheduler` | | the nice values for TLC |
| `SchedulerProofs` | | theorems about `Scheduler` |

### JobQueue

A job is its priority and a serial number; the `job_id` of the code is random, need not be
unique and is only printed. The mutex is the set of its holders (never more than one, as
is proved), so that a holder that is killed keeps it: the mutex is not robust. SIGTERM is
an action of its own that may happen to a signalled child anywhere. `Fork` may fail
(`ForkFails`). `insert_job` and `remove_job` are modelled store by loop iteration although
the lock makes them look atomic: that it does is what `ImplementsPool` and `HeapOrder`
say. The empty heap in `insert_job` and the heap of one job in `remove_job` are special
cases in the code only; their stores are those of the general case, in which the loop ends
at once. The random sleeps are not steps (any step may take any time), except the one that
stands for the computation of a job.

### JobThreads

Cancellation is deferred, so a thread that main has cancelled dies only at a cancellation
point: at a sleep, in the output of a line, in the making of its random number generator;
some of these are inside a critical section. Taking the lock is one step, and the section
another, or two where such a point lies in the middle of its stores; a thread that dies at
the point keeps the lock. Nothing sees the heap
inside a section, so `insert_job` and `remove_job` are functions on it, where `JobQueue`
has a step for every iteration. `pthread_create` may fail in principle; its result is not
tested, main would cancel a thread that does not exist, and this is not modelled.
`create_job` cuts the thread's number to an `int`, which only shows in what is printed.
Liveness is that of `JobQueue` under the same assumptions and is not checked again.

### UserProcess

One step is one access to memory that two threads use, in the order of the code:
`process_wait` tests `cur_status` in one step (`Wait`) and goes down on `wait_exit` in
another (`WaitDown`, `WaitBlock`); `exit` stores `exit_status` and `cur_status` in two;
`process_exit` looks up its parent, raises `wait_exit`, frees its children's elements, and
only when another thread has been switched to is the page freed (`Die`). Abstractions:

* a look-up in a `child_list` and the access it is for are one step; between the two only
  the free of the element matters, and a free that comes first meets the look-up;
* a freed page is filled with 0xcc by the page allocator, so a semaphore there is not 0
  and `sema_down` passes;
* `thread_create` takes a page, which is zeroed (`Exec`), and sets it up and unblocks the
  thread (`ExecStart`); it may be preempted between the two. A stale `sema_down` on a page that
  is not set up yet meets a list that is not initialised, and an assertion stops the kernel
  (`DownRaw`). Between the initialisation of the semaphores and the unblocking a stale
  `sema_down` does what it does after both;
* pages are reused by struct threads only (fewer pages than processes make this happen), not
  by page tables or argument copies; `malloc` in `thread_create` does not fail;
* once the kernel has followed a null or a stale pointer (`broken`), the model stops:
  nothing is said of what follows;
* the initial thread runs tasks as `process_wait(process_execute(task))`, one at a time;
  `Careful` restricts the other programs to those that wait for every child and for
  nothing else, to show which faults do not need a careless program;
* `sema_down`, `sema_up` and the page allocator are stock Pintos code that is not in the
  repository, and are modelled as the code here uses them.

A caller may be put to sleep for ever. Process A executes B and is preempted before its
`sema_down` at `syscall.c:225`; B fails to load, ends, and frees its page; P executes E, which
is given the page; A takes the value that E raises for P ("Loading is complete, so release
semaphore", `process.c:84`), and nobody raises another. It takes four processes. `CallsReturn`
therefore speaks of behaviours in which `Kept` always holds: while a caller is inside `exec` or
`wait`, the page of its child is the child's or free, and the kernel has followed no bad
pointer. Then every `exec` returns, and so does every `wait` for a child that has died; a
dereference of a null pointer is not a return. Without `Kept` this is false; the theorem
`NobodySleepsForEver` shows that nothing else is needed for its safety part.

### Timer

The 64-bit counters cannot wrap within the life of a machine and are natural numbers.
`list_insert_ordered` is stock code; its comparison is `lesser_sleep`, so a thread goes
behind those that wake at the same tick. The handler's loop is one step, for it runs with
interrupts off: the first `n` threads of the list, up to the first that is not due, are
unblocked and taken off. `called` and `blocked` are history variables.

### Shell

A line is a sequence of stages, as the tokenisers leave it; an empty one is not modelled.
A stage names a program by what it does to its input, `amp` says that it ends in `&`,
and `from` and `to` what `<` and `>` name: nothing, a file, or a file that cannot be
opened, which leaves the descriptor closed. The actions of the shell are its system
calls, in the order of the loop; what the child does before `execvp` concerns itself only
and is one step (`Exec`). The array `args2` that is passed to `execvp` is allocated one entry short and
has no null pointer at its end, so what is passed depends on the heap: it is right (`Exec`), or the
program fails to start, or gives up at arguments it was not meant to have (`ExecGarbled`).
What a program does that takes the garbage for arguments and goes on is not modelled. A program moves data one unit at a time and needs two steps for
it, so that a full pipe stops it with a unit in hand. The programs and the pipes are not
in the repository and are modelled as the shell uses them (`external` in the map). A
program is never told that its reader has gone, for the shell keeps every read end open;
so the model has no such step. `exit` is a built-in only on a line of one stage; in a
pipeline it is a program that does not exist. The terminal as an input is at its end. Limits on processes
and descriptors are not modelled (`fork` may fail at any time, `pipe` never does).

### FileTable

The file system is stock code that is not in the repository, and is modelled as the calls
here use it. It keeps a list of struct inodes in memory, with the number of struct files that
are open on each (`opens`) and of those that deny writes (`denies`); of a file the model knows how
often it was written. A struct file is the struct inode it was opened on; it sits in a local
variable (`file`), in `exec_file`, or in `fd_list`, which is a function of descriptors here
because `fd_size` only grows and the list is searched by number. Names are plentiful or
few, but a name stands for a file of its own at first, and each may be removed and made again.

The stock code has no lock of its own, and `load` and `process_exit` use it without
`file_lock`. So `inode_open` is two steps: the search of the list (`LoadSeek`, `NameSeek`),
and the increment of what was found or the making of a new struct inode (`EnterFound`,
`EnterNew`, `EnterFails`); what was found may have been freed between them (`EnterStale`), and two
searches that find nothing make two struct inodes of one file. The last `inode_close` of a
struct inode is two steps, the decrement (`Drop`) and the removal from the list (`Unlink`,
`UnlinkStale`). A write is two steps, because the stock code tests for denial once, before it
writes. A decrement or increment of a count, a walk of the list, `filesys_create` and the rest
of `filesys_remove` are one step each; a search that could end with either of two struct
inodes may end with either.

`process.c:411` says "when process is running no file should be allowed to modify executable
file". By itself this is false, and TLC finds a violation when `ExecutableKept` is checked as an
invariant. There are two reasons:

* a write that has passed its test goes on after `file_deny_write` of a `load` that
  comes between;
* a `load` and an `open` (or two `load`s) that search at the same time make two struct inodes of the file;
  writes are denied on one of them and go through on the other, as long as both are open.

The same overlap may let a thread use a struct inode that another has freed. `SafeIfAlone` says
that this is all: if `load` (from its search to its last use of the file) and the last close in
`process_exit` never overlap with one another or with a holder of `file_lock` (`Alone`: what taking the
lock there would bring about), no file of a running program is modified and no freed
struct inode is used. `CountsRight` needs no such condition.

* `handle_close` does nothing, so no action closes a single descriptor; the function
  `close` is not reachable.
* `filesize` follows the null pointer that `get_fd` may return; after that, and after the use of a freed
  struct inode (`broken`), the model stops.
* The second `list_remove` of an element in the loop of `process_exit` changes nothing.
* Not modelled: the struct inode of the root directory, which is opened and closed with every
  look-up of a name, and is open in the kernel besides; that the sectors of a removed file are
  used for a new one; the console, the pointer checks (a bad pointer ends the process before it takes the
  lock: `Exit`), a fault inside the kernel (the kernel stops), a `malloc` that fails in `open`, or for
  the struct file of an inode that is in memory, offsets and lengths.

### Loader

A file is its length, whether its ELF header is valid, and its program headers; a byte in
memory is named by where it came from: a position of the file, a character of an
argument, a byte of a word, or zero. Addresses wrap around at the end of an address space of
`AllPages` pages, so that the tests of `validate_segment` matter. `palloc_get_page` and
`pagedir_set_page` may fail at every call, for other threads take pages too. `load_segment`
is one step per call it makes for a page (`GetPage`, reading, installing), because each has
its own way out. The kernel writes the arguments through the user address; below the page
of the stack this meets the page of a segment, which is then overwritten, or a page that is
not mapped, which stops the kernel (`panic`): the design document of Assignment 6 says that the
handler of page faults ends the process, but the fault is one of the kernel.

The copy of the command line lives in the kernel heap, which is not modelled: on the paths
that fail it is never freed, spaces before the name make the pointer that is freed another
one, and `malloc` is not tested. The tokens are the lengths of the words. There is at least one:
for a command line of spaces `strtok_r` gives `process_execute` a null pointer, and the assertion
`name != NULL` in `init_thread` (`thread.c:477`) stops the kernel before anything is loaded.

### Scheduler

A function that turns interrupts off, up to and with the switch at its end, is one step.
`thread_create` and `thread_set_nice` run with interrupts on and are several, between which
a tick may update all priorities, preempt, or let other threads run. `Block` and `Unblock`
stand for the semaphores and locks (stock code); `thread_create` may block, for `tid_lock`.
`thread_mlfqs` is a choice of `Init`. The formulas are written with the rounding of each
macro: `FP_DIV_MIX` truncates, the shifts round down.

* The order of `all_list` means nothing: its insertion compares through `elem`, and the list
  links `allelem`, so it reads a priority outside the thread. The list is a set.
* The widths of the fixed-point numbers are not modelled; `LoadBounded` is what bounds
  `load_avg`.
* No file of the repository puts a lock into `locks_holding`, so `thread_set_priority` always
  takes effect and there is no donation.
* The wake-up thread is left out, and with it `sleeping_threads`, lines 161-164 and 175 of `thread.c`
  and lines 206-212 of `timer.c`. With them the kernel as submitted does not get past its start:
  nothing initialises `sleeping_threads` (`timer.c:33`), so `list_begin` returns a null pointer
  there, and the handler reads `sleep_time` through it at the first tick. `thread_start` creates the
  wake-up thread with `PRI_MAX`, so it runs before that, walks the same list, would call
  `thread_block` with interrupts on, against the assertion there, and never raises the
  `wake_up_started` that `thread_start` waits for (`thread.c:175`). `Init` is the state that
  `thread_start` would leave, and `TimerInterrupt` the handler, without these lines: the
  submitted kernel never gets so far, and what the module says is of its scheduler with the
  wake-up thread taken out.

## The runs

| Run | What it checks | Bounds | Result |
|---|---|---|---|
| `jobqueue_live` | types, `ExactlyOnce`, `KillOnlyWhenQuiet`, `AllJobsTaken`, `ChildrenEnd` | 2 producers, 2 consumers, 2 jobs, a heap of 1 slot: the second job always meets a full queue | holds |
| `jobqueue_heap` | `HeapOrder`, `ImplementsPool` | 1 producer, 1 consumer, a heap of 3 levels: both loops run twice and the left, right and last child matter | holds |
| `jobqueue_computed` | `CompletedMeansComputed` | as small as it happens | violated: a job counts as completed before it is computed |
| `userprocess_any` | types, `PagesOwned`, `OneQueue`, `ExecReportsLoad`, `WaitReturnsStatus`, `CallsReturn` | the initial thread and 3 processes that do anything, 2 pages, so that pages run out and are reused while old addresses are still held; with `CallsReturn` for the behaviours in which `Kept` holds | holds; with one more process a caller may sleep for ever where `Kept` does not hold |
| `userprocess_reuse` | `WaitsForTheLiving` | careful programs, 4 processes, fewer pages | violated: a preempted wait blocks in a page that has become another thread's |
| `timer` | types, `SleepersListed`, `NeverEarly`, `OnTime`, `ImplementsAlarm`, `SleeperReturns` | 3 threads (an insertion at the front, in the middle and at the end, and a walk that wakes none, some and all), 3 ticks, durations -1, 0, 1 and 2 | holds |
| `shell` | types, `EndCanCome`, `OneAtATime`, `RightOutput`, `StarvesOnlyOnBackground`, `LineEnds` | 3 launches: a line of three stages, or shorter ones in turn; a pipe of 1 unit, programs that write as much, or one more; 15 lines that fit and that do not, end early, run in the background, are redirected to and from files, or name no program | holds; lines that do not fit block for ever, as `LineEnds` allows |
| `filetable` | types, `CountsRight`, `DeadHoldNothing`, `SafeIfAlone`, `CallsReturn` | 2 processes, 1 name and 2 files (the name may be removed and made again once while the first file is open), 2 struct inodes, so that memory runs out and there may be two of one file, a descriptor for each process, 2 writes per file | holds; where `load` or `process_exit` overlaps with other work on files, a write may reach the file of a running program |
| `jobthreads` | `NoLockLost`, `ImplementsPool` | 2 producers, 2 consumers, 4 jobs of 2 priorities, a heap of 4 slots on three levels: both kinds of thread wait for the lock while another is in it, and the heap's loops run twice | holds |
| `loader` | `PagesMapped`, `ImageExact`, `ArgvExact` | pages of 32 bytes, 4 of them for the user in an address space of 5; files of up to 2 program headers of 16 kinds (text, data, zeros, on two pages, misaligned, too long, around the end of the address space, cut off by the end of the file, in the page of the stack), command lines of 1 to 3 tokens that fit, fit to the byte, and do not fit | holds |
| `scheduler` | types, `ListsExact`, `PrioritySorted`, `LoadBounded`, `NoOvertaking` | 3 threads and idle, 3 priorities, a slice of 2 ticks, 4 ticks with `-o mlfqs`: two updates of all priorities and one of the running thread's; a fixed-point 1 of 2, so that every rounding happens | holds |
| `scheduler_mlfqs` | `AlwaysSorted` | 3 threads, the constants of the code, but for a coarser fixed point and a shorter second | violated: the update of all priorities leaves the list in the old order |

The bounds are `NProd`, `NCons`, `Jobs` and `PQ_SIZE` (inputs of the program), `MaxTid`
(how many processes are ever made), `MaxUnwaited` (children a program starts before it
waits for one), the numbers of pages, threads and durations, `MaxTicks`,
`MaxLaunches`, `Capacity`, `FileLength`, `MaxInodes`, `MaxNodes`, `MaxFd` and `MaxContent`,
and the sizes of pages and address space. The proofs
hold for every value of them.

Deadlock is checked in the runs of the scheduler of Assignment 4, where the idle thread can
always block, and not in the others: the programs stop when their work is done, the model of the
kernel stops at a bad pointer, a load ends, the timer stops at `MaxTicks`, the shell really may
block for ever, and processes with files end.

### Fairness

* `JobQueue`: a process that can step does (weak fairness per process), and a process that
  waits for the mutex gets it if it is free again and again (strong fairness per lock).
  The second is an assumption on the operating system: a pthread mutex does not promise
  it, but the sleeps of one to four seconds between the attempts of a consumer, and before
  each insertion, give everyone time. A fork need not fail and need not succeed.
* `UserProcess`: the scheduler is round-robin, so a thread inside the kernel goes on (weak
  fairness of `KernelStep` per thread). Nothing is assumed of programs: they may compute
  for ever and never call `exit`.
* `Shell`: the operating system runs the shell and every process (weak fairness of each),
  and programs finish what they write and read when they can. Nobody need send a signal,
  and no fork need fail.
* `FileTable`: the scheduler is round-robin, so a process that loads, ends or holds the lock
  goes on (weak fairness), and one that waits for the lock gets it if it is free again and
  again (strong fairness: a Pintos semaphore wakes its waiters in turn, but a process that
  is running may take the lock before one that has been woken, so this is an assumption).
* `Timer`: the hardware goes on ticking (up to `MaxTicks`), and a ready thread proceeds.
* `JobThreads`, `Loader`, `Scheduler`: none; only safety is stated.

## The proofs

All theorems hold for every value of the constants that satisfies the named assumptions
(`ConstantsAssumption`, `JobThreadsAssumption`, `ProcessAssumption`, `TimerAssumption`,
`ShellAssumption`, `FileAssumption`, `LoaderAssumption`, `SchedulerAssumption`), which only
give the types of the constants and say that there is a slot in the heap, a unit of room in
a pipe, a stage in a line, room for a file of every name, that a page is a positive multiple
of four bytes and the user's pages end below the address space, and that the periods and the
fixed-point 1 are positive. No other fact is assumed; the
library's theorems on sequences, finite sets and functions, and that `<` is well-founded on
the naturals, are cited.

Three properties are about functions that the models define by recursion: the heap's loops in
`JobThreads`, the output of a line in `Shell`, the place of a token in `Loader`. The library's
induction rules take a predicate, which the provers cannot instantiate, so each of these modules proves an
induction rule about a *set* of numbers (`Induction`: a set that has 0 and with each number the next has all) from the
fact that a nonempty set of naturals has a least member (`Least`). With it are proved, first, that a
function with the recursive equations exists, for a definition by `CHOOSE` says nothing without
that, and then what its values are.

* `JobQueueProofs`: type correctness, `ExactlyOnce`, `CompletedCount`, `HeapOrder`,
  `KillOnlyWhenQuiet`, and `Spec => Pool!Spec`. None of them is inductive alone. The
  invariant adds mutual exclusion (a dead holder included), who may have a job in hand at
  which place, that children not yet forked have not begun, and the shape of the heap in
  the middle of a loop: it is ordered except around the index of the one process that
  sifts, and the parent of that index is ordered with its grandchildren. The refinement
  follows from it: insertion is `Post`, removal is `Take`, for the root of an ordered heap
  beats every job; every swap is a stutter.
* `JobThreadsProofs`: `NoLockLost`. The argument is a count: `job_created` is the number of jobs
  completed, in the queue, in a producer's hands, or between the two halves of a section.
  When main's poll has succeeded the number is `Jobs` on both sides, so nobody is in such a
  place, and it stays so: those who die do so asleep.
  Also `Spec => Pool!Spec`. The invariant of the jobs (`JobInv`) says that between two critical sections
  the queue is a heap of different jobs, and that a producer has one in hand, which is nowhere
  else, exactly from its creation to its insertion; without the latter a job might be posted
  twice. An iteration of the loop that raises the last job keeps the heap ordered except at the slot it has
  reached, and so does one of the loop that sinks the job put at the root (an induction upwards,
  and one downwards); both only permute the slots. So `ProducerInsert` is `Post`
  and `ConsumerCheck` is `Take` of a best job, each in one step although it runs a whole loop, and every
  other step, `Cancel` and `Die` among them, is a stutter but for the creation of a job (`Make`).
* `UserProcessProofs`: type correctness (no semaphore goes below 0), `PagesOwned`,
  `OneQueue`, `ExecReportsLoad`, `WaitReturnsStatus`. The invariant says what holds of a
  page in use (a positive semaphore there was raised by its owner), what `load_status`,
  `exit_status` and `cur_status` are at each place of a child's life, and that whoever is
  about to read a status has a child that stored it. The hard case is a parent that passes
  a semaphore in a page that is no longer the child's: then the child is dead, and what it
  stored before is still in its element.
  `NobodySleepsForEver` is what `CallsReturn` rests on, for every number of processes and pages: as long as
  `Kept` holds, whoever sleeps in `exec` or `wait` is on the list of a child that still has to raise that
  semaphore, and whoever is about to test one finds it raised or has such a child. That the child gets
  there is fairness, and is only model-checked.
* `TimerProofs`: type correctness, `SleepersListed`, `NeverEarly`, `OnTime`, and
  `Spec => Abstract!Spec`. The invariant adds that the list is ordered and that the times
  of a call are: `called <= start <= ticks`, and a sleeper's time has not come, unless it
  blocked since the last tick. From the order of the list follows that the threads the
  walk wakes are exactly those that are due (`WokenAreDue`).
* `ShellProofs`: type correctness, `OneAtATime`, `EndCanCome`, `StarvesOnlyOnBackground`,
  `RightOutput`.
  The invariant says which write end the shell has open at each place of the loop, that a
  process has no write end but its own, that it reads the pipe of an earlier one, and that
  one that has ended has none. From these follows that the end of every pipe can come for
  its reader, and with `OneAtATime` that only a background stage can keep one waiting.
  `RightOutput` needs an invariant of its own (`FlowInv`), about the stages that nothing has happened to, nor to
  one before them: each unit that such a stage has made is with its reader, in the pipe, in hand
  or on the terminal, in the order in which it was made. It rests on every pipe having one writer
  and one reader, and on a process having the descriptors that its stage and redirections
  ask for. The hard step is the end of a stage that copies: it has seen the end of its input, so
  the stage before it has ended and the pipe is empty, hence it has been given all there was.
* `FileTableProofs`: type correctness (no count goes below 0), `CountsRight`,
  `SafeIfAlone`, `DeadHoldNothing`, `StableDescriptors`. The invariant says where a
  process may hold a struct file, when it denies writes, that a descriptor above `fd_size`
  is unused, and that whoever is inside a file system call holds the lock. Each step adds
  a struct file to one place, takes one away, or moves it; lemmas on cardinalities
  (`FileAdded`, `FileTaken`, `FileMoved`) turn that into the counts. Under `Alone` a second
  invariant (`SafeInv`) is preserved: at most one thread is between the two steps of an
  `inode_open` or `inode_close`, so what its search found is still so and what it is to free nobody has
  opened, and a file has one struct inode; with the count of those who deny writes, no write is under way
  to the file of a running program. `AloneIsSafe` holds for every number of processes, names, files, struct inodes
  and descriptors.

* `LoaderProofs`: `PagesMapped`, `ImageExact` and `ArgvExact`, for every page size, file and
  command line. The invariant of the second says that the segments of the headers before `i` are in place,
  how far the one at hand has got (its position in the file, its page, the bytes left to
  read and to zero), that no page of a segment is mapped twice, and that what is pushed lies in the
  page of the stack. The lemmas before it are about division by a page size that is not a
  number, which the provers do not know. For `ArgvExact` the invariant (`ArgvInv`) says, for each
  place of `setup_stack`, what has been stored and where the next item goes: the start of the token
  `k` is `Size[k]` below the top, the padding brings the sum of the sizes to a multiple of 4, and the
  null word and the addresses lie below. From it follow what the second loop finds when it measures
  the strings again, that no store hits an earlier one, and that the kernel stops only when
  the next item lies below the page, hence only at arguments that do not fit.
* `SchedulerProofs`: type correctness, `ListsExact`, `PrioritySorted`, `LoadBounded`,
  `NoOvertaking`. The invariant adds that a thread that is being made is blocked and has one
  maker, and that pages without a thread and the idle thread are in no call. An insertion in a sorted list
  without duplicates, the removal of its head, and their composition are lemmas; so is that
  an insertion puts nobody in front of a thread but one of a higher priority.

Proved but in no run, for they are close to the types: `CompletedCount` of `JobQueue` and
`StableDescriptors` of `FileTable`. `NobodyForgotten` of `UserProcess` is the safety part of `CallsReturn`.

Only model-checked: the liveness properties `AllJobsTaken`, `ChildrenEnd`, `CallsReturn` (both of
that name), `SleeperReturns` and `LineEnds` (liveness under fairness is out of the prover's
reach), and the violations. Every invariant, action property and refinement that a passing run checks is
proved. No recursive operator is declared.

## What the violations show

* `CompletedMeansComputed`: `job_completed`, the "Number of jobs completed", is incremented
  before the computation, so the reported time may leave out the last jobs, whose
  consumers are killed.
* `WaitsForTheLiving`: "Waits for thread TID to die". The test of `cur_status` and the
  semaphore do not belong together: a wait may block on a dead child, in a page that is
  another thread's by then.
* `AlwaysSorted`: the design document of Assignment 4 (answer C5) relies on the ordered insertion to "maintain
  the ready list in sorted order of priorities"; with `-o mlfqs` the priorities of the threads on the
  list change under it, and a thread of a lower priority may run first. Without `-o mlfqs`
  the statement is true and proved (`PrioritySorted`).

Some behaviours that surprise are in the models without a run of their own:

* a write may land in the file of a running program, against the comment at `process.c:411` (`FileTable`,
  `ExecutableKept`);
* a caller may take the value of a semaphore in a page that has passed to another thread, and that
  thread's parent then sleeps for ever (`UserProcess`, `NobodyForgotten` without `Kept`);
* a wait for a stranger's tid and `exec` without a free page follow a null pointer (`WaitUnknown`,
  `ExecFails`), and a child whose parent has ended looks for its element in vain (`Stale`): no property
  says that this does not happen;
* main of the job scheduler does not wait for the children it kills (`waitpid` with `WNOHANG`);
* a store of `thread_set_nice` may be stale, because a tick may update the priority between the
  computation and the store; `ListsExact` and the types hold nevertheless.

## Not modelled

* The wake-up thread and `timer_sleep` of Assignment 4, for the reason given under `Scheduler`.
* Assignment 6_1: an earlier state of the same files, whose `load` and `thread.c` are nearly
  the text of 6_2 and whose `process_wait` spins on a flag; a model of it would say again
  what `UserProcess`, `FileTable` and `Loader` say of the final state. `thread_unblock` and the lists of its
  `thread.c`, and of that of 6_2, are the simpler case of `Scheduler`.
* The conversions of `real_time_sleep`, and the calibration of the busy-wait: time below a
  tick is not observable in the model.
* `shutdown.c` and `run_test.sh` (no state); the tokenisers, `cd` and `help` of the shell (no
  sharing); the console, pointer checks and `close` of the system calls; the kernel heap; random
  numbers, printing.
