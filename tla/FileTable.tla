----------------------------- MODULE FileTable -----------------------------
(***************************************************************************)
(* The files of the processes of Assignment 6_2: the file system calls of  *)
(* syscall.c, the executable that load opens and process_exit closes, and  *)
(* the lock that the system calls hold and those two do not.               *)
(*                                                                         *)
(* The file system itself is stock code, modelled as these calls use it.   *)
(* It has no lock of its own.  inode_open searches the list of the struct  *)
(* inodes in memory, then counts one more struct file in the one it found  *)
(* or makes a new one; the inode_close that counts down to 0 then takes    *)
(* the struct inode from the list and frees it.  A thread that does not    *)
(* hold file_lock may come between the two steps of either.  A write looks *)
(* at the count of those who deny writes once, before it begins.           *)
(***************************************************************************)
EXTENDS Integers, FiniteSets

CONSTANTS
  Procs,        \* the user processes
  NNames,       \* the number of file names; every name has a file at first
  MaxInodes,    \* bound: the files that are ever made; the disk is full then
  MaxNodes,     \* bound: the struct inodes that fit in memory
  MaxFd,        \* bound: the last descriptor that a process may be given
  MaxContent    \* bound: the writes to a file

ASSUME FileAssumption ==
  /\ IsFiniteSet(Procs)
  /\ NNames \in Nat /\ MaxInodes \in Nat /\ NNames <= MaxInodes
  /\ MaxNodes \in Nat
  /\ MaxFd \in Nat /\ MaxFd >= 1
  /\ MaxContent \in Nat

Names == 1..NNames
Inodes == 1..MaxInodes
Nodes == 1..MaxNodes
NULL == 0
Descriptors == 2..MaxFd

NameOps == {"create", "remove", "open"}
FileOps == {"read", "filesize", "write"}

VARIABLES
  pc,             \* where each process is
  op, arg,        \* the system call it makes, with its name or descriptor
  fd_size,        \* the descriptor it was given last
  my_file,        \* the struct inode of each of its descriptors
  exec_file,      \* the struct inode of its executable
  denying,        \* the member deny_write of the struct file of its executable
  wanted,         \* the file whose struct inode it looks for in inode_open
  file,           \* the struct inode in a local variable of load, a call or inode_close
  holders,        \* the holder of file_lock, if it has one
  dir,            \* the file of each name
  made,           \* the files made so far
  content,        \* the writes to each file
  sector,         \* the file of each struct inode on the list, NULL for free memory
  opens, denies,  \* open_cnt and deny_write_cnt of each struct inode
  denied_at,      \* history: the content of the executable when writes to it were denied
  broken          \* the kernel has followed a null pointer, or one to a freed struct inode

calls == <<op, arg>>
table == <<fd_size, my_file>>
exec == <<exec_file, denying, denied_at>>
search == <<wanted, file>>
disk == <<dir, made, content>>
counts == <<opens, denies>>
vars == <<pc, calls, table, exec, search, holders, disk, sector, counts, broken>>

Init ==
  /\ pc = [p \in Procs |-> "start"]
  /\ op = [p \in Procs |-> "none"] /\ arg = [p \in Procs |-> 0]
  /\ fd_size = [p \in Procs |-> 1]
  /\ my_file = [p \in Procs |-> [fd \in Descriptors |-> NULL]]
  /\ exec_file = [p \in Procs |-> NULL]
  /\ denying = [p \in Procs |-> FALSE]
  /\ denied_at = [p \in Procs |-> 0]
  /\ wanted = [p \in Procs |-> NULL]
  /\ file = [p \in Procs |-> NULL]
  /\ holders = {}
  /\ dir = [n \in Names |-> n]
  /\ made = NNames
  /\ content = [f \in Inodes |-> 0]
  /\ sector = [k \in Nodes |-> NULL]
  /\ opens = [k \in Nodes |-> 0]
  /\ denies = [k \in Nodes |-> 0]
  /\ broken = "no"

Goto(p, label) == pc' = [pc EXCEPT ![p] = label]

-----------------------------------------------------------------------------
(* inode_open and inode_close.                                             *)

\* The struct inodes that a search for file f may end with: there may be two.
InCore(f) ==
  LET found == {k \in Nodes : sector[k] = f}
  IN IF found = {} THEN {NULL} ELSE found

\* The name is looked up in the directory, and the file in the list.
Seek(p, n, label) ==
  /\ dir[n] # NULL
  /\ wanted' = [wanted EXCEPT ![p] = dir[n]]
  /\ \E k \in InCore(dir[n]) : file' = [file EXCEPT ![p] = k]
  /\ Goto(p, label)

\* Where load, open and remove go on when the inode is open, and when it is not.
Entered == [load_enter |-> "loading", open_enter |-> "release", remove_enter |-> "erase"]
NotEntered == [load_enter |-> "exit", open_enter |-> "release", remove_enter |-> "release"]

\* inode_reopen of the struct inode that was found.
EnterFound(p) ==
  /\ pc[p] \in DOMAIN Entered
  /\ file[p] # NULL
  /\ sector[file[p]] = wanted[p]
  /\ opens' = [opens EXCEPT ![file[p]] = @ + 1]
  /\ wanted' = [wanted EXCEPT ![p] = NULL]
  /\ Goto(p, Entered[pc[p]])
  /\ UNCHANGED <<calls, table, exec, file, holders, disk, sector, denies, broken>>

\* It has been freed since it was found.
EnterStale(p) ==
  /\ pc[p] \in DOMAIN Entered
  /\ file[p] # NULL
  /\ sector[file[p]] # wanted[p]
  /\ broken' = "stale"
  /\ UNCHANGED <<pc, calls, table, exec, search, holders, disk, sector, counts>>

\* None was found: a new one is put on the list.
EnterNew(p) ==
  /\ pc[p] \in DOMAIN Entered
  /\ file[p] = NULL
  /\ \E k \in Nodes :
       /\ sector[k] = NULL
       /\ sector' = [sector EXCEPT ![k] = wanted[p]]
       /\ opens' = [opens EXCEPT ![k] = 1]
       /\ denies' = [denies EXCEPT ![k] = 0]
       /\ file' = [file EXCEPT ![p] = k]
  /\ wanted' = [wanted EXCEPT ![p] = NULL]
  /\ Goto(p, Entered[pc[p]])
  /\ UNCHANGED <<calls, table, exec, holders, disk, broken>>

\* There is no memory for one.
EnterFails(p) ==
  /\ pc[p] \in DOMAIN Entered
  /\ file[p] = NULL
  /\ wanted' = [wanted EXCEPT ![p] = NULL]
  /\ Goto(p, NotEntered[pc[p]])
  /\ UNCHANGED <<calls, table, exec, file, holders, disk, sector, counts, broken>>

\* inode_close of struct inode k counts down; the last one unlinks it.
Drop(p, k, last, done) ==
  /\ opens' = [opens EXCEPT ![k] = @ - 1]
  /\ file' = [file EXCEPT ![p] = IF opens[k] = 1 THEN k ELSE NULL]
  /\ Goto(p, IF opens[k] = 1 THEN last ELSE done)

\* Where load, remove and process_exit go on when it is unlinked.
Unlinked == [load_unlink |-> "exit", remove_unlink |-> "release", exit_unlink |-> "close_files"]

Unlink(p) ==
  /\ pc[p] \in DOMAIN Unlinked
  /\ opens[file[p]] = 0 /\ sector[file[p]] # NULL
  /\ sector' = [sector EXCEPT ![file[p]] = NULL]
  /\ file' = [file EXCEPT ![p] = NULL]
  /\ Goto(p, Unlinked[pc[p]])
  /\ UNCHANGED <<calls, table, exec, wanted, holders, disk, counts, broken>>

\* Somebody has opened it again meanwhile, or has freed it.
UnlinkStale(p) ==
  /\ pc[p] \in DOMAIN Unlinked
  /\ ~(opens[file[p]] = 0 /\ sector[file[p]] # NULL)
  /\ broken' = "stale"
  /\ UNCHANGED <<pc, calls, table, exec, search, holders, disk, sector, counts>>

-----------------------------------------------------------------------------
(* load, without file_lock.                                                *)

\* filesys_open of the executable.
LoadSeek(p) ==
  /\ pc[p] = "start"
  /\ \E n \in Names : Seek(p, n, "load_enter")
  /\ UNCHANGED <<calls, table, exec, holders, disk, sector, counts, broken>>

\* No memory for a page directory, or no such file: load fails with no file open.
LoadNothing(p) ==
  /\ pc[p] = "start"
  /\ Goto(p, "exit")
  /\ UNCHANGED <<calls, table, exec, search, holders, disk, sector, counts, broken>>

\* file_deny_write; exec_file = file
LoadDone(p) ==
  /\ pc[p] = "loading"
  /\ exec_file' = [exec_file EXCEPT ![p] = file[p]]
  /\ denying' = [denying EXCEPT ![p] = TRUE]
  /\ denied_at' = [denied_at EXCEPT ![p] = content[sector[file[p]]]]
  /\ denies' = [denies EXCEPT ![file[p]] = @ + 1]
  /\ file' = [file EXCEPT ![p] = NULL]
  /\ Goto(p, "user")
  /\ UNCHANGED <<calls, table, wanted, holders, disk, sector, opens, broken>>

\* Mutant: the file of a program that cannot be loaded stays open.
LoadFailsOpen(p) ==
  /\ pc[p] = "loading"
  /\ file' = [file EXCEPT ![p] = NULL]
  /\ Goto(p, "exit")
  /\ UNCHANGED <<calls, table, exec, wanted, holders, disk, sector, counts, broken>>

\* The file is no executable, or memory runs out: it is closed, and the thread exits.
LoadFails(p) ==
  /\ pc[p] = "loading"
  /\ Drop(p, file[p], "load_unlink", "exit")
  /\ UNCHANGED <<calls, table, exec, wanted, holders, disk, sector, denies, broken>>

-----------------------------------------------------------------------------
(* The system calls.                                                       *)

\* A call that names a file.  (The number of descriptors is bounded here.)
CallName(p) ==
  /\ pc[p] = "user"
  /\ \E o \in NameOps, n \in Names :
       /\ o = "open" => fd_size[p] < MaxFd
       /\ op' = [op EXCEPT ![p] = o]
       /\ arg' = [arg EXCEPT ![p] = n]
  /\ Goto(p, "lock")
  /\ UNCHANGED <<table, exec, search, holders, disk, sector, counts, broken>>

\* A call that gives a descriptor.  read and write return at once, and
\* change nothing, for the console and for a descriptor that get_fd does not find.
CallFd(p) ==
  /\ pc[p] = "user"
  /\ \E o \in FileOps, fd \in Descriptors :
       /\ my_file[p][fd] # NULL
       /\ op' = [op EXCEPT ![p] = o]
       /\ arg' = [arg EXCEPT ![p] = fd]
  /\ Goto(p, "lock")
  /\ UNCHANGED <<table, exec, search, holders, disk, sector, counts, broken>>

\* filesize does not test what get_fd returns.
FilesizeUnknown(p) ==
  /\ pc[p] = "user"
  /\ \E fd \in Descriptors : my_file[p][fd] = NULL
  /\ broken' = "null"
  /\ UNCHANGED <<pc, calls, table, exec, search, holders, disk, sector, counts>>

\* lock_acquire(&file_lock)
Acquire(p) ==
  /\ pc[p] = "lock"
  /\ holders = {}
  /\ holders' = {p}
  /\ Goto(p, op[p])
  /\ UNCHANGED <<calls, table, exec, search, disk, sector, counts, broken>>

\* A file is made unless there is one of that name, or no room for one.
Create(p) ==
  /\ pc[p] = "create"
  /\ IF dir[arg[p]] = NULL /\ made < MaxInodes
       THEN made' = made + 1 /\ dir' = [dir EXCEPT ![arg[p]] = made + 1]
       ELSE UNCHANGED <<made, dir>>
  /\ Goto(p, "release")
  /\ UNCHANGED <<calls, table, exec, search, holders, content, sector, counts, broken>>

\* filesys_open and filesys_remove open the inode of the name, if there is one.
NameSeek(p) ==
  /\ pc[p] \in {"open", "remove"}
  /\ Seek(p, arg[p], IF pc[p] = "open" THEN "open_enter" ELSE "remove_enter")
  /\ UNCHANGED <<calls, table, exec, holders, disk, sector, counts, broken>>

NameUnknown(p) ==
  /\ pc[p] \in {"open", "remove"}
  /\ dir[arg[p]] = NULL
  /\ Goto(p, "release")
  /\ UNCHANGED <<calls, table, exec, search, holders, disk, sector, counts, broken>>

\* The name is gone, and the inode is closed; it stays with those who have it open.
Erase(p) ==
  /\ pc[p] = "erase"
  /\ dir' = [dir EXCEPT ![arg[p]] = NULL]
  /\ Drop(p, file[p], "remove_unlink", "release")
  /\ UNCHANGED <<calls, table, exec, wanted, holders, made, content, sector, denies, broken>>

\* file_read and file_length do not change what is modelled.
Look(p) ==
  /\ pc[p] \in {"read", "filesize"}
  /\ Goto(p, "release")
  /\ UNCHANGED <<calls, table, exec, search, holders, disk, sector, counts, broken>>

\* Mutant: writes are not denied.
MayWriteAlways(k) == content[sector[k]] < MaxContent

\* The test at the start of a write.  (The number of writes is bounded here.)
MayWrite(k) == denies[k] = 0 /\ content[sector[k]] < MaxContent

WriteStart(p) ==
  /\ pc[p] = "write"
  /\ Goto(p, IF MayWrite(my_file[p][arg[p]]) THEN "writing" ELSE "release")
  /\ UNCHANGED <<calls, table, exec, search, holders, disk, sector, counts, broken>>

WriteEnd(p) ==
  /\ pc[p] = "writing"
  /\ content' = [content EXCEPT ![sector[my_file[p][arg[p]]]] = @ + 1]
  /\ Goto(p, "release")
  /\ UNCHANGED <<calls, table, exec, search, holders, dir, made, sector, counts, broken>>

\* The return of a system call: its parameters are gone.
Return(p) ==
  /\ op' = [op EXCEPT ![p] = "none"]
  /\ arg' = [arg EXCEPT ![p] = 0]
  /\ Goto(p, "user")

\* Mutant: the lock is not released.
ReleaseForgotten(p) ==
  /\ pc[p] = "release"
  /\ file[p] = NULL
  /\ Return(p)
  /\ UNCHANGED <<table, exec, search, holders, disk, sector, counts, broken>>

\* lock_release, and the return of every call but a successful open.
Release(p) ==
  /\ pc[p] = "release"
  /\ file[p] = NULL
  /\ holders' = {}
  /\ Return(p)
  /\ UNCHANGED <<table, exec, search, disk, sector, counts, broken>>

\* ret = ++fd_size
NewFd(p) == fd_size[p] + 1

\* The same after a successful open, which enters the file in the list of its
\* own process, where nobody else looks.
ReleaseOpened(p) ==
  /\ pc[p] = "release"
  /\ file[p] # NULL
  /\ holders' = {}
  /\ fd_size' = [fd_size EXCEPT ![p] = NewFd(p)]
  /\ my_file' = [my_file EXCEPT ![p][NewFd(p)] = file[p]]
  /\ file' = [file EXCEPT ![p] = NULL]
  /\ Return(p)
  /\ UNCHANGED <<exec, wanted, disk, sector, counts, broken>>

-----------------------------------------------------------------------------
(* exit and process_exit, without file_lock.                               *)

Exit(p) ==
  /\ pc[p] = "user"
  /\ Goto(p, "exit")
  /\ UNCHANGED <<calls, table, exec, search, holders, disk, sector, counts, broken>>

\* Mutant: the flag of the struct file is left, and file_close allows writes again.
AllowWriteFlagKept(p) ==
  /\ pc[p] = "exit"
  /\ denies' = IF exec_file[p] = NULL THEN denies ELSE [denies EXCEPT ![exec_file[p]] = @ - 1]
  /\ Goto(p, "close_exec")
  /\ UNCHANGED <<calls, table, exec, search, holders, disk, sector, opens, broken>>

\* file_allow_write(exec_file)
AllowWrite(p) ==
  /\ pc[p] = "exit"
  /\ denies' = IF exec_file[p] = NULL THEN denies ELSE [denies EXCEPT ![exec_file[p]] = @ - 1]
  /\ denying' = [denying EXCEPT ![p] = FALSE]
  /\ denied_at' = [denied_at EXCEPT ![p] = 0]
  /\ Goto(p, "close_exec")
  /\ UNCHANGED <<calls, table, exec_file, search, holders, disk, sector, opens, broken>>

\* file_close(exec_file), which allows writes if its file still denies them.
CloseExec(p) ==
  /\ pc[p] = "close_exec"
  /\ IF exec_file[p] = NULL THEN Goto(p, "close_files") /\ UNCHANGED <<file, counts>>
     ELSE /\ Drop(p, exec_file[p], "exit_unlink", "close_files")
          /\ denies' = IF denying[p] THEN [denies EXCEPT ![exec_file[p]] = @ - 1] ELSE denies
  /\ denying' = [denying EXCEPT ![p] = FALSE]
  /\ UNCHANGED <<calls, table, exec_file, denied_at, wanted, holders, disk, sector, broken>>

OpenFds(p) == {fd \in Descriptors : my_file[p][fd] # NULL}

\* One file of fd_list, the first: the list is in the order of the descriptors.
CloseFile(p) ==
  /\ pc[p] = "close_files"
  /\ \E fd \in OpenFds(p) :
       /\ \A other \in OpenFds(p) : fd <= other
       /\ Drop(p, my_file[p][fd], "exit_unlink", "close_files")
       /\ my_file' = [my_file EXCEPT ![p][fd] = NULL]
  /\ UNCHANGED <<calls, fd_size, exec, wanted, holders, disk, sector, denies, broken>>

\* Mutant: the files of the list are not closed.
ExitedEarly(p) ==
  /\ pc[p] = "close_files"
  /\ Goto(p, "dead")
  /\ UNCHANGED <<calls, table, exec, search, holders, disk, sector, counts, broken>>

Exited(p) ==
  /\ pc[p] = "close_files"
  /\ OpenFds(p) = {}
  /\ Goto(p, "dead")
  /\ UNCHANGED <<calls, table, exec, search, holders, disk, sector, counts, broken>>

-----------------------------------------------------------------------------
LoadStep(p) == LoadSeek(p) \/ LoadNothing(p) \/ LoadDone(p) \/ LoadFails(p)

\* What the user program decides to do.
UserStep(p) == CallName(p) \/ CallFd(p) \/ FilesizeUnknown(p) \/ Exit(p)

\* The second steps of inode_open and inode_close.
InodeStep(p) ==
  \/ EnterFound(p) \/ EnterStale(p) \/ EnterNew(p) \/ EnterFails(p)
  \/ Unlink(p) \/ UnlinkStale(p)

\* The kernel at work for a process that holds the lock, or is ending.
KernelStep(p) ==
  \/ Create(p) \/ NameSeek(p) \/ NameUnknown(p) \/ Erase(p)
  \/ Look(p) \/ WriteStart(p) \/ WriteEnd(p)
  \/ Release(p) \/ ReleaseOpened(p)
  \/ AllowWrite(p) \/ CloseExec(p) \/ CloseFile(p) \/ Exited(p)

Next ==
  /\ broken = "no"
  /\ \E p \in Procs :
       LoadStep(p) \/ UserStep(p) \/ Acquire(p) \/ InodeStep(p) \/ KernelStep(p)

\* The scheduler is round-robin, so the kernel goes on; a process that waits for
\* the lock is given it if it is free again and again; programs may do
\* what they like, for as long as they like.
Fairness ==
  \A p \in Procs :
    /\ WF_vars(broken = "no" /\ (LoadStep(p) \/ InodeStep(p) \/ KernelStep(p)))
    /\ SF_vars(broken = "no" /\ Acquire(p))

Spec == Init /\ [][Next]_vars /\ Fairness

-----------------------------------------------------------------------------
(* Properties.                                                             *)

Places == {"start", "loading", "user", "lock", "erase", "release", "writing",
           "exit", "close_exec", "close_files", "dead"}
          \cup NameOps \cup FileOps \cup DOMAIN Entered \cup DOMAIN Unlinked

TypeOK ==
  /\ pc \in [Procs -> Places]
  /\ op \in [Procs -> NameOps \cup FileOps \cup {"none"}] /\ arg \in [Procs -> Nat]
  /\ fd_size \in [Procs -> 1..MaxFd]
  /\ my_file \in [Procs -> [Descriptors -> Nodes \cup {NULL}]]
  /\ exec_file \in [Procs -> Nodes \cup {NULL}]
  /\ denying \in [Procs -> BOOLEAN] /\ denied_at \in [Procs -> Nat]
  /\ wanted \in [Procs -> Inodes \cup {NULL}]
  /\ file \in [Procs -> Nodes \cup {NULL}]
  /\ holders \subseteq Procs
  /\ dir \in [Names -> Inodes \cup {NULL}]
  /\ made \in 0..MaxInodes
  /\ content \in [Inodes -> Nat]
  /\ sector \in [Nodes -> Inodes \cup {NULL}]
  /\ opens \in [Nodes -> Nat] /\ denies \in [Nodes -> Nat]
  /\ broken \in {"no", "null", "stale"}

\* Where a process keeps the struct files it has open: the executable (place 0), a
\* local variable (place 1), its descriptors.
FileAt(p, d) ==
  CASE d = 0 -> IF pc[p] \in {"exit_unlink", "close_files", "dead"} THEN NULL ELSE exec_file[p]
    [] d = 1 -> IF pc[p] \in {"loading", "erase", "release"} THEN file[p] ELSE NULL
    [] OTHER -> my_file[p][d]

FilesOf(k) == {h \in Procs \X (0..MaxFd) : FileAt(h[1], h[2]) = k}

\* The counts of a struct inode are those of the struct files that somebody still has,
\* and none of these has lost its struct inode, so that every file that is opened is
\* closed once: whatever fails in load, however processes end, and although load
\* and process_exit do not take the lock, up to the step that frees a struct
\* inode in use, if one does.
CountsRight ==
  \A k \in Nodes :
    /\ opens[k] = Cardinality(FilesOf(k))
    /\ denies[k] = Cardinality({p \in Procs : denying[p] /\ exec_file[p] = k})
    /\ opens[k] # 0 => sector[k] # NULL

\* A process that has ended has no file open and does not hold the lock.
DeadHoldNothing ==
  \A p \in Procs : pc[p] = "dead" => /\ p \notin holders /\ ~denying[p]
                                     /\ \A d \in 0..MaxFd : FileAt(p, d) = NULL

\* A descriptor stands for the same file from the call of open that returned it
\* until its process ends, whoever opens, removes, closes or makes files meanwhile.
StableDescriptors ==
  [][\A p \in Procs, fd \in Descriptors :
       my_file[p][fd] # NULL =>
         \/ my_file'[p][fd] = my_file[p][fd] /\ sector'[my_file[p][fd]] = sector[my_file[p][fd]]
         \/ pc[p] = "close_files"]_vars

\* Nobody modifies the file of a running program, as the comment in load asks.  By itself this
\* is not true of the code: a write that has passed its test when load denies
\* writes goes on, and one through a second struct inode is not denied.
ExecutableKept ==
  \A p \in Procs : denying[p] => content[sector[exec_file[p]]] = denied_at[p]

\* In load, from the search for the executable to its last use of it, and in
\* process_exit, while it frees a struct inode.
Unlocked(p) == pc[p] \in {"load_enter", "loading", "load_unlink", "exit_unlink"}

\* What the lock would see to if load and process_exit took it.
Alone ==
  \A p, q \in Procs : p # q /\ Unlocked(p) => ~Unlocked(q) /\ q \notin holders

\* The file of a running program is not modified and no struct inode is used after it has
\* been freed, as long as load and the end of a close in process_exit never overlap
\* with one another or with a file system call: that these two do without
\* file_lock is all that can break the promise of the comment.
SafeIfAlone == []Alone => [](ExecutableKept /\ broken # "stale")

InCall(p) ==
  pc[p] \in {"lock", "open_enter", "remove_enter", "erase", "remove_unlink", "release", "writing"}
            \cup NameOps \cup FileOps

\* Every system call returns, and every process that exits comes to its end.
CallsReturn ==
  \A p \in Procs :
    /\ InCall(p) ~> (pc[p] = "user" \/ broken # "no")
    /\ (pc[p] = "exit") ~> (pc[p] = "dead" \/ broken # "no")
=============================================================================
