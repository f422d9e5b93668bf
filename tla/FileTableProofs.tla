-------------------------- MODULE FileTableProofs --------------------------
(***************************************************************************)
(* Proofs about FileTable, for every set of processes and every number of  *)
(* names, files, struct inodes, descriptors and writes.                    *)
(***************************************************************************)
EXTENDS FileTable, FiniteSetTheorems, TLAPS

(***************************************************************************)
(* The inductive invariant.                                                *)
(***************************************************************************)

Ops == NameOps \cup FileOps
Entering == {"load_enter", "open_enter", "remove_enter"}
Unlinking == {"load_unlink", "remove_unlink", "exit_unlink"}
Inside == Ops \cup {"open_enter", "remove_enter", "erase", "remove_unlink", "release", "writing"}
Outside == {"start", "load_enter", "loading", "load_unlink", "user",
            "exit", "close_exec", "exit_unlink", "close_files", "dead"}

\* What a process does is what it was called for.
OpRight(p) ==
  /\ pc[p] \in Ops => pc[p] = op[p]
  /\ pc[p] = "writing" => op[p] = "write"
  /\ pc[p] = "open_enter" => op[p] = "open"
  /\ pc[p] \in {"remove_enter", "erase", "remove_unlink"} => op[p] = "remove"
  /\ pc[p] = "lock" => op[p] \in Ops
  /\ pc[p] \in Outside => op[p] = "none"

\* It was given a name, or a descriptor that it has, or there is one to give.
ArgRight(p) ==
  /\ op[p] \in NameOps => arg[p] \in Names
  /\ op[p] \in FileOps => arg[p] \in Descriptors /\ my_file[p][arg[p]] # NULL
  /\ op[p] = "open" => fd_size[p] < MaxFd

\* A local variable holds a struct inode during the search, in load, at the end of open, in
\* remove and while it is unlinked; a search is for some file.
FileHeld(p) ==
  /\ file[p] # NULL => \/ pc[p] \in Entering \cup Unlinking \cup {"loading", "erase"}
                       \/ pc[p] = "release" /\ op[p] = "open"
  /\ pc[p] \in Unlinking \cup {"loading", "erase"} => file[p] # NULL
  /\ pc[p] \in Entering => wanted[p] # NULL

\* Writes to the executable are denied from the end of load to the exit.
ExecHeld(p) ==
  /\ pc[p] \in {"start", "load_enter", "loading"} => exec_file[p] = NULL
  /\ denying[p] <=> /\ exec_file[p] # NULL
                    /\ pc[p] \notin {"close_exec", "exit_unlink", "close_files", "dead"}

\* No descriptor is in use before it is given, or when the process has ended.
FdsFresh(p) ==
  /\ \A fd \in Descriptors : fd > fd_size[p] => my_file[p][fd] = NULL
  /\ pc[p] = "dead" => OpenFds(p) = {}

Control == \A p \in Procs : OpRight(p) /\ ArgRight(p) /\ FileHeld(p) /\ ExecHeld(p) /\ FdsFresh(p)

\* Who is inside the file system through a system call holds the lock.
LockHeld == \A p \in Procs : /\ pc[p] \in Inside => holders = {p}
                             /\ p \in holders => pc[p] \in Inside

IInv == TypeOK /\ Control /\ LockHeld /\ CountsRight

-----------------------------------------------------------------------------
(* Counting the struct files of a struct inode.                           *)

DenyersOf(f) == {p \in Procs : denying[p] /\ exec_file[p] = f}

OpensRight == \A f \in Nodes : opens[f] = Cardinality(FilesOf(f))
DeniesRight == \A f \in Nodes : denies[f] = Cardinality(DenyersOf(f))

\* A struct inode that is open is on the list.
SectorRight == \A f \in Nodes : opens[f] # 0 => sector[f] # NULL

LEMMA CountsSplit == CountsRight <=> OpensRight /\ DeniesRight /\ SectorRight
  BY DEF CountsRight, OpensRight, DeniesRight, SectorRight, DenyersOf

LEMMA PlacesFinite == IsFiniteSet(Procs \X (0..MaxFd))
  <1>1. IsFiniteSet(Procs)
    BY FileAssumption DEF FileAssumption
  <1>2. IsFiniteSet(0..MaxFd)
    BY FS_Interval, FileAssumption DEF FileAssumption
  <1> QED
    BY <1>1, <1>2, FS_Product

LEMMA FilesFinite == ASSUME NEW f PROVE IsFiniteSet(FilesOf(f)) /\ IsFiniteSet(FilesOf(f)')
  <1>1. /\ FilesOf(f) \subseteq Procs \X (0..MaxFd)
        /\ FilesOf(f)' \subseteq Procs \X (0..MaxFd)
    BY DEF FilesOf
  <1> QED
    BY <1>1, PlacesFinite, FS_Subset

LEMMA DenyersFinite == ASSUME NEW f PROVE IsFiniteSet(DenyersOf(f)) /\ IsFiniteSet(DenyersOf(f)')
  <1>1. IsFiniteSet(Procs)
    BY FileAssumption DEF FileAssumption
  <1>2. DenyersOf(f) \subseteq Procs /\ DenyersOf(f)' \subseteq Procs
    BY DEF DenyersOf
  <1> QED
    BY <1>1, <1>2, FS_Subset

\* A file that somebody has is counted.
LEMMA OpensPositive ==
  ASSUME OpensRight, NEW p \in Procs, NEW d \in 0..MaxFd, NEW f \in Nodes, FileAt(p, d) = f
  PROVE opens[f] \in Nat /\ opens[f] >= 1
  <1>1. <<p, d>> \in FilesOf(f)
    BY DEF FilesOf
  <1>2. Cardinality(FilesOf(f)) \in Nat /\ Cardinality(FilesOf(f)) # 0
    BY <1>1, FilesFinite, FS_CardinalityType, FS_EmptySet
  <1> QED
    BY <1>2 DEF OpensRight

LEMMA DeniesPositive ==
  ASSUME DeniesRight, NEW p \in Procs, NEW f \in Nodes, denying[p], exec_file[p] = f
  PROVE denies[f] \in Nat /\ denies[f] >= 1
  <1>1. p \in DenyersOf(f)
    BY DEF DenyersOf
  <1>2. Cardinality(DenyersOf(f)) \in Nat /\ Cardinality(DenyersOf(f)) # 0
    BY <1>1, DenyersFinite, FS_CardinalityType, FS_EmptySet
  <1> QED
    BY <1>2 DEF DeniesRight

\* A step that puts nothing anywhere and takes nothing away.
LEMMA SameFiles ==
  ASSUME OpensRight, UNCHANGED opens,
         \A q \in Procs, e \in 0..MaxFd : FileAt(q, e)' = FileAt(q, e)
  PROVE OpensRight'
  <1>1. \A f \in Nodes : FilesOf(f)' = FilesOf(f)
    BY DEF FilesOf
  <1> QED
    BY <1>1 DEF OpensRight

\* A step that puts a struct file at a place that had none.
LEMMA FileAdded ==
  ASSUME OpensRight, NEW p \in Procs, NEW d \in 0..MaxFd, NEW f \in Nodes,
         opens \in [Nodes -> Nat], opens' = [opens EXCEPT ![f] = @ + 1],
         FileAt(p, d) = NULL, FileAt(p, d)' = f,
         \A q \in Procs, e \in 0..MaxFd : <<q, e>> # <<p, d>> => FileAt(q, e)' = FileAt(q, e)
  PROVE OpensRight'
  <1> SUFFICES ASSUME NEW g \in Nodes PROVE opens'[g] = Cardinality(FilesOf(g)')
    BY DEF OpensRight
  <1>1. CASE g = f
    <2>1. FilesOf(g)' = FilesOf(g) \cup {<<p, d>>} /\ <<p, d>> \notin FilesOf(g)
      BY <1>1 DEF FilesOf, Nodes, NULL
    <2>2. Cardinality(FilesOf(g)') = Cardinality(FilesOf(g)) + 1
      BY <2>1, FilesFinite, FS_AddElement
    <2> QED
      BY <1>1, <2>2 DEF OpensRight
  <1>2. CASE g # f
    <2>1. FilesOf(g)' = FilesOf(g)
      BY <1>2 DEF FilesOf, Nodes, NULL
    <2> QED
      BY <1>2, <2>1 DEF OpensRight
  <1> QED
    BY <1>1, <1>2

\* A step that takes one away.
LEMMA FileTaken ==
  ASSUME OpensRight, NEW p \in Procs, NEW d \in 0..MaxFd, NEW f \in Nodes,
         opens \in [Nodes -> Nat], opens' = [opens EXCEPT ![f] = @ - 1],
         FileAt(p, d) = f, FileAt(p, d)' = NULL,
         \A q \in Procs, e \in 0..MaxFd : <<q, e>> # <<p, d>> => FileAt(q, e)' = FileAt(q, e)
  PROVE OpensRight' /\ opens' \in [Nodes -> Nat]
  <1>1. opens[f] \in Nat /\ opens[f] >= 1
    BY OpensPositive
  <1>2. opens' \in [Nodes -> Nat]
    BY <1>1
  <1> SUFFICES ASSUME NEW g \in Nodes PROVE opens'[g] = Cardinality(FilesOf(g)')
    BY <1>2 DEF OpensRight
  <1>3. CASE g = f
    <2>1. FilesOf(g)' = FilesOf(g) \ {<<p, d>>} /\ <<p, d>> \in FilesOf(g)
      BY <1>3 DEF FilesOf, Nodes, NULL
    <2>2. Cardinality(FilesOf(g)') = Cardinality(FilesOf(g)) - 1
      BY <2>1, FilesFinite, FS_RemoveElement
    <2> QED
      BY <1>3, <2>2 DEF OpensRight
  <1>4. CASE g # f
    <2>1. FilesOf(g)' = FilesOf(g)
      BY <1>4 DEF FilesOf, Nodes, NULL
    <2> QED
      BY <1>4, <2>1 DEF OpensRight
  <1> QED
    BY <1>3, <1>4

\* A step that moves one from a place of a process to another.
LEMMA FileMoved ==
  ASSUME OpensRight, UNCHANGED opens, NEW p \in Procs,
         NEW d \in 0..MaxFd, NEW e \in 0..MaxFd, d # e, NEW f \in Nodes,
         FileAt(p, d) = f, FileAt(p, d)' = NULL, FileAt(p, e) = NULL, FileAt(p, e)' = f,
         \A q \in Procs, c \in 0..MaxFd :
           <<q, c>> \notin {<<p, d>>, <<p, e>>} => FileAt(q, c)' = FileAt(q, c)
  PROVE OpensRight'
  <1> SUFFICES ASSUME NEW g \in Nodes PROVE opens[g] = Cardinality(FilesOf(g)')
    BY DEF OpensRight
  <1>1. CASE g = f
    <2> DEFINE Rest == FilesOf(g) \ {<<p, d>>}
    <2>1. FilesOf(g)' = Rest \cup {<<p, e>>} /\ <<p, e>> \notin Rest /\ <<p, d>> \in FilesOf(g)
      BY <1>1 DEF FilesOf, Nodes, NULL
    <2>2. IsFiniteSet(Rest) /\ Cardinality(Rest) = Cardinality(FilesOf(g)) - 1
      BY <2>1, FilesFinite, FS_RemoveElement
    <2>3. Cardinality(FilesOf(g)') = Cardinality(Rest) + 1
      BY <2>1, <2>2, FS_AddElement
    <2>4. Cardinality(FilesOf(g)) \in Nat
      BY FilesFinite, FS_CardinalityType
    <2> QED
      BY <2>2, <2>3, <2>4 DEF OpensRight
  <1>2. CASE g # f
    <2>1. FilesOf(g)' = FilesOf(g)
      BY <1>2 DEF FilesOf, Nodes, NULL
    <2> QED
      BY <1>2, <2>1 DEF OpensRight
  <1> QED
    BY <1>1, <1>2

LEMMA SameDenyers ==
  ASSUME DeniesRight, UNCHANGED denies,
         \A q \in Procs : (denying'[q] <=> denying[q]) /\ (denying[q] => exec_file'[q] = exec_file[q])
  PROVE DeniesRight'
  <1>1. \A f \in Nodes : DenyersOf(f)' = DenyersOf(f)
    BY DEF DenyersOf
  <1> QED
    BY <1>1 DEF DeniesRight


\* A process ends: writes to its executable are denied once less.
LEMMA DenyerGone ==
  ASSUME DeniesRight, NEW p \in Procs, NEW f \in Nodes, denying[p], exec_file[p] = f,
         denies \in [Nodes -> Nat], denies' = [denies EXCEPT ![f] = @ - 1],
         UNCHANGED exec_file, ~denying'[p],
         \A q \in Procs : q # p => denying'[q] = denying[q]
  PROVE DeniesRight' /\ denies' \in [Nodes -> Nat]
  <1>1. denies[f] \in Nat /\ denies[f] >= 1
    BY DeniesPositive
  <1>2. denies' \in [Nodes -> Nat]
    BY <1>1
  <1> SUFFICES ASSUME NEW g \in Nodes PROVE denies'[g] = Cardinality(DenyersOf(g)')
    BY <1>2 DEF DeniesRight
  <1>3. CASE g = f
    <2>1. DenyersOf(g)' = DenyersOf(g) \ {p} /\ p \in DenyersOf(g)
      BY <1>3 DEF DenyersOf
    <2>2. Cardinality(DenyersOf(g)') = Cardinality(DenyersOf(g)) - 1
      BY <2>1, DenyersFinite, FS_RemoveElement
    <2> QED
      BY <1>3, <2>2 DEF DeniesRight
  <1>4. CASE g # f
    <2>1. DenyersOf(g)' = DenyersOf(g)
      BY <1>4 DEF DenyersOf
    <2> QED
      BY <1>4, <2>1 DEF DeniesRight
  <1> QED
    BY <1>3, <1>4

\* A program is loaded: once more.
LEMMA DenyerAdded ==
  ASSUME DeniesRight, NEW p \in Procs, NEW f \in Nodes, ~denying[p], denying'[p], exec_file'[p] = f,
         denies \in [Nodes -> Nat], denies' = [denies EXCEPT ![f] = @ + 1],
         \A q \in Procs : q # p => denying'[q] = denying[q] /\ exec_file'[q] = exec_file[q]
  PROVE DeniesRight'
  <1> SUFFICES ASSUME NEW g \in Nodes PROVE denies'[g] = Cardinality(DenyersOf(g)')
    BY DEF DeniesRight
  <1>1. CASE g = f
    <2>1. DenyersOf(g)' = DenyersOf(g) \cup {p} /\ p \notin DenyersOf(g)
      BY <1>1 DEF DenyersOf
    <2>2. Cardinality(DenyersOf(g)') = Cardinality(DenyersOf(g)) + 1
      BY <2>1, DenyersFinite, FS_AddElement
    <2> QED
      BY <1>1, <2>2 DEF DeniesRight
  <1>2. CASE g # f
    <2>1. DenyersOf(g)' = DenyersOf(g)
      BY <1>2 DEF DenyersOf
    <2> QED
      BY <1>2, <2>1 DEF DeniesRight
  <1> QED
    BY <1>1, <1>2

-----------------------------------------------------------------------------
(* One step of a process.                                                  *)

Step(p) == LoadStep(p) \/ UserStep(p) \/ Acquire(p) \/ InodeStep(p) \/ KernelStep(p)

LEMMA Tables ==
  /\ DOMAIN Entered = Entering /\ DOMAIN NotEntered = Entering /\ DOMAIN Unlinked = Unlinking
  /\ Entered["load_enter"] = "loading" /\ NotEntered["load_enter"] = "exit"
  /\ Entered["open_enter"] = "release" /\ NotEntered["open_enter"] = "release"
  /\ Entered["remove_enter"] = "erase" /\ NotEntered["remove_enter"] = "release"
  /\ Unlinked["load_unlink"] = "exit"
  /\ Unlinked["remove_unlink"] = "release"
  /\ Unlinked["exit_unlink"] = "close_files"
  BY DEF Entered, NotEntered, Unlinked, Entering, Unlinking

\* What a process has to itself.
Own(q) == <<pc[q], op[q], arg[q], fd_size[q], my_file[q], exec_file[q],
            denying[q], denied_at[q], wanted[q], file[q]>>

LEMMA OthersStay ==
  ASSUME TypeOK, NEW p \in Procs, Step(p), NEW q \in Procs, q # p
  PROVE Own(q)' = Own(q)
  <1> USE DEF TypeOK, Own, Goto, Seek, Drop, calls, table, exec, search, disk
  <1>1. CASE LoadStep(p)
    BY <1>1 DEF LoadStep, LoadSeek, LoadNothing, LoadDone, LoadFails
  <1>2. CASE UserStep(p)
    BY <1>2 DEF UserStep, CallName, CallFd, FilesizeUnknown, Exit
  <1>3. CASE Acquire(p)
    BY <1>3 DEF Acquire
  <1>4. CASE InodeStep(p)
    BY <1>4 DEF InodeStep, EnterFound, EnterStale, EnterNew, EnterFails, Unlink, UnlinkStale
  <1>5. CASE Create(p) \/ NameSeek(p) \/ NameUnknown(p) \/ Erase(p)
    BY <1>5 DEF Create, NameSeek, NameUnknown, Erase
  <1>6. CASE Look(p) \/ WriteStart(p) \/ WriteEnd(p)
    BY <1>6 DEF Look, WriteStart, WriteEnd
  <1>7. CASE Release(p) \/ ReleaseOpened(p)
    BY <1>7 DEF Release, ReleaseOpened, Return
  <1>8. CASE AllowWrite(p) \/ CloseExec(p) \/ CloseFile(p) \/ Exited(p)
    BY <1>8 DEF AllowWrite, CloseExec, CloseFile, Exited
  <1> QED
    BY <1>1, <1>2, <1>3, <1>4, <1>5, <1>6, <1>7, <1>8 DEF Step, KernelStep

\* The lock is held by the one process inside.
LEMMA LockStep ==
  ASSUME TypeOK, Control, LockHeld, NEW p \in Procs, Step(p)
  PROVE LockHeld' /\ holders' \subseteq Procs
  <1>0. pc \in [Procs -> Places] /\ holders \subseteq Procs /\ OpRight(p)
    BY DEF TypeOK, Control
  <1>1. \A q \in Procs : q # p => pc'[q] = pc[q]
    BY OthersStay DEF Own
  <1>2. ASSUME UNCHANGED holders, pc'[p] \in Inside <=> pc[p] \in Inside
        PROVE LockHeld' /\ holders' \subseteq Procs
    BY <1>0, <1>1, <1>2 DEF LockHeld
  <1> USE DEF Goto, Inside, Ops, NameOps, FileOps
  <1>3. CASE LoadStep(p)
    BY <1>0, <1>2, <1>3 DEF LoadStep, LoadSeek, LoadNothing, LoadDone, LoadFails, Seek, Drop
  <1>4. CASE UserStep(p)
    BY <1>0, <1>2, <1>4 DEF UserStep, CallName, CallFd, FilesizeUnknown, Exit
  <1>5. CASE Acquire(p)
    BY <1>0, <1>1, <1>5 DEF Acquire, LockHeld, OpRight
  <1>6. CASE InodeStep(p)
    BY <1>0, <1>2, <1>6, Tables
    DEF InodeStep, EnterFound, EnterStale, EnterNew, EnterFails, Unlink, UnlinkStale,
        Entering, Unlinking
  <1>7. CASE Create(p) \/ NameSeek(p) \/ NameUnknown(p) \/ Erase(p)
    BY <1>0, <1>2, <1>7 DEF Create, NameSeek, NameUnknown, Erase, Seek, Drop
  <1>8. CASE Look(p) \/ WriteStart(p) \/ WriteEnd(p)
    BY <1>0, <1>2, <1>8 DEF Look, WriteStart, WriteEnd
  <1>9. CASE Release(p) \/ ReleaseOpened(p)
    <2>1. pc[p] = "release" /\ pc' = [pc EXCEPT ![p] = "user"] /\ holders' = {}
      BY <1>9 DEF Release, ReleaseOpened, Return
    <2>2. \A q \in Procs : q # p => pc[q] \notin Inside
      BY <2>1 DEF LockHeld
    <2> QED
      BY <1>0, <1>1, <2>1, <2>2 DEF LockHeld
  <1>10. CASE AllowWrite(p) \/ CloseExec(p) \/ CloseFile(p) \/ Exited(p)
    BY <1>0, <1>2, <1>10 DEF AllowWrite, CloseExec, CloseFile, Exited, Drop
  <1> QED
    BY <1>3, <1>4, <1>5, <1>6, <1>7, <1>8, <1>9, <1>10 DEF Step, KernelStep


\* The types of what is not counted.
TypeRest ==
  /\ pc \in [Procs -> Places]
  /\ op \in [Procs -> Ops \cup {"none"}] /\ arg \in [Procs -> Nat]
  /\ fd_size \in [Procs -> 1..MaxFd]
  /\ my_file \in [Procs -> [Descriptors -> Nodes \cup {NULL}]]
  /\ exec_file \in [Procs -> Nodes \cup {NULL}]
  /\ denying \in [Procs -> BOOLEAN] /\ denied_at \in [Procs -> Nat]
  /\ wanted \in [Procs -> Inodes \cup {NULL}]
  /\ file \in [Procs -> Nodes \cup {NULL}]
  /\ dir \in [Names -> Inodes \cup {NULL}]
  /\ made \in 0..MaxInodes
  /\ content \in [Inodes -> Nat]
  /\ sector \in [Nodes -> Inodes \cup {NULL}]
  /\ broken \in {"no", "null", "stale"}

\* The struct inode in a local variable that is about to be used.
LEMMA FileInUse ==
  ASSUME TypeOK, Control, NEW p \in Procs, pc[p] \in Unlinking \cup {"loading", "erase"}
  PROVE file[p] \in Nodes
  BY DEF TypeOK, Control, FileHeld

\* A write and the end of load go to a file.
LEMMA SectorOf ==
  ASSUME TypeOK, OpensRight, SectorRight, NEW p \in Procs, NEW d \in 0..MaxFd,
         FileAt(p, d) \in Nodes
  PROVE sector[FileAt(p, d)] \in Inodes
  <1>1. opens[FileAt(p, d)] # 0
    BY OpensPositive
  <1> QED
    BY <1>1 DEF SectorRight, TypeOK

LEMMA TypeStep ==
  ASSUME TypeOK, Control, OpensRight, SectorRight, NEW p \in Procs, Step(p)
  PROVE TypeRest'
  <1>0. MaxFd \in Nat /\ MaxInodes \in Nat /\ MaxFd >= 1
    BY FileAssumption DEF FileAssumption
  <1>1. /\ pc \in [Procs -> Places] /\ op \in [Procs -> Ops \cup {"none"}]
        /\ arg \in [Procs -> Nat] /\ fd_size \in [Procs -> 1..MaxFd]
        /\ my_file \in [Procs -> [Descriptors -> Nodes \cup {NULL}]]
        /\ exec_file \in [Procs -> Nodes \cup {NULL}]
        /\ denying \in [Procs -> BOOLEAN] /\ denied_at \in [Procs -> Nat]
    BY DEF TypeOK, Ops
  <1>2. /\ wanted \in [Procs -> Inodes \cup {NULL}] /\ file \in [Procs -> Nodes \cup {NULL}]
        /\ dir \in [Names -> Inodes \cup {NULL}] /\ made \in 0..MaxInodes
        /\ content \in [Inodes -> Nat] /\ sector \in [Nodes -> Inodes \cup {NULL}]
        /\ broken \in {"no", "null", "stale"}
    BY DEF TypeOK
  <1> USE <1>1, <1>2 DEF TypeRest, Goto, Ops, Places, NameOps, FileOps,
                         calls, table, exec, search, disk
  <1>3. Places = Inside \cup Outside \cup {"lock"}
    BY Tables DEF Inside, Outside, Entering, Unlinking
  <1> HIDE DEF Places
  <1>4. \A f : InCore(f) \subseteq Nodes \cup {NULL}
    BY DEF InCore
  <1>5. CASE LoadStep(p)
    <2>1. CASE LoadSeek(p)
      BY <1>3, <1>4, <2>1 DEF LoadSeek, Seek, Outside
    <2>2. CASE LoadNothing(p)
      BY <1>3, <2>2 DEF LoadNothing, Outside
    <2>3. CASE LoadDone(p)
      <3>1. file[p] \in Nodes
        BY <2>3, FileInUse DEF LoadDone
      <3>2. FileAt(p, 1) = file[p] /\ 1 \in 0..MaxFd
        BY <1>0, <2>3 DEF LoadDone, FileAt
      <3>3. sector[file[p]] \in Inodes
        BY <3>1, <3>2, SectorOf
      <3> QED
        BY <1>3, <2>3, <3>1, <3>3 DEF LoadDone, Outside
    <2>4. CASE LoadFails(p)
      BY <1>3, <2>4, FileInUse DEF LoadFails, Drop, Outside
    <2> QED
      BY <1>5, <2>1, <2>2, <2>3, <2>4 DEF LoadStep
  <1>6. CASE UserStep(p)
    <2>1. CASE CallName(p)
      BY <1>3, <2>1 DEF CallName, Names
    <2>2. CASE CallFd(p)
      BY <1>3, <2>2 DEF CallFd, Descriptors
    <2>3. CASE FilesizeUnknown(p) \/ Exit(p)
      BY <1>3, <2>3 DEF FilesizeUnknown, Exit, Outside
    <2> QED
      BY <1>6, <2>1, <2>2, <2>3 DEF UserStep
  <1>7. CASE Acquire(p)
    <2>1. op[p] \in Ops
      BY <1>7 DEF Acquire, Control, OpRight
    <2> QED
      BY <1>3, <1>7, <2>1 DEF Acquire, Inside
  <1>8. CASE InodeStep(p)
    <2>1. CASE EnterFound(p) \/ EnterFails(p)
      <3>1. pc' \in [Procs -> Places]
        <4>1. /\ pc[p] \in Entering
              /\ \/ pc' = [pc EXCEPT ![p] = Entered[pc[p]]]
                 \/ pc' = [pc EXCEPT ![p] = NotEntered[pc[p]]]
          BY <2>1, Tables DEF EnterFound, EnterFails
        <4>2. Entered[pc[p]] \in Places /\ NotEntered[pc[p]] \in Places
          BY <1>3, <4>1, Tables DEF Entering, Inside, Outside
        <4> QED
          BY <4>1, <4>2
      <3>2. wanted' \in [Procs -> Inodes \cup {NULL}]
        BY <2>1 DEF EnterFound, EnterFails
      <3>3. UNCHANGED <<calls, table, exec, file, disk, sector, broken>>
        BY <2>1 DEF EnterFound, EnterFails
      <3> QED
        BY <3>1, <3>2, <3>3
    <2>2. CASE EnterNew(p)
      <3>1. pc' \in [Procs -> Places]
        BY <1>3, <2>2, Tables DEF EnterNew, Entering, Inside, Outside
      <3>2. wanted' \in [Procs -> Inodes \cup {NULL}]
        BY <2>2 DEF EnterNew
      <3>3. PICK k \in Nodes : sector' = [sector EXCEPT ![k] = wanted[p]]
                               /\ file' = [file EXCEPT ![p] = k]
        BY <2>2 DEF EnterNew
      <3>4. UNCHANGED <<calls, table, exec, disk, broken>>
        BY <2>2 DEF EnterNew
      <3> QED
        BY <3>1, <3>2, <3>3, <3>4
    <2>3. CASE Unlink(p)
      <3>1. pc' \in [Procs -> Places]
        BY <1>3, <2>3, Tables DEF Unlink, Unlinking, Inside, Outside
      <3>2. /\ sector' = [sector EXCEPT ![file[p]] = NULL] /\ file' = [file EXCEPT ![p] = NULL]
            /\ UNCHANGED <<calls, table, exec, wanted, disk, broken>>
        BY <2>3 DEF Unlink
      <3> QED
        BY <3>1, <3>2
    <2>4. CASE EnterStale(p) \/ UnlinkStale(p)
      BY <2>4 DEF EnterStale, UnlinkStale
    <2> QED
      BY <1>8, <2>1, <2>2, <2>3, <2>4 DEF InodeStep
  <1>9. CASE Create(p)
    <2>1. arg[p] \in Names
      BY <1>9 DEF Create, Control, OpRight, ArgRight
    <2>2. made' \in 0..MaxInodes /\ (dir' # dir => made' \in Inodes)
      BY <1>0, <1>9 DEF Create, Inodes
    <2>3. dir' \in [Names -> Inodes \cup {NULL}]
      BY <1>9, <2>1, <2>2 DEF Create
    <2> QED
      BY <1>3, <1>9, <2>2, <2>3 DEF Create, Inside
  <1>10. CASE NameSeek(p) \/ NameUnknown(p)
    <2>1. arg[p] \in Names
      BY <1>10 DEF NameSeek, NameUnknown, Control, OpRight, ArgRight
    <2>2. CASE NameSeek(p)
      BY <1>3, <1>4, <2>1, <2>2 DEF NameSeek, Seek, Inside
    <2>3. CASE NameUnknown(p)
      BY <1>3, <2>3 DEF NameUnknown, Inside
    <2> QED
      BY <1>10, <2>2, <2>3
  <1>11. CASE Erase(p)
    BY <1>3, <1>11, FileInUse DEF Erase, Drop, Inside
  <1>12. CASE Look(p) \/ WriteStart(p)
    BY <1>3, <1>12 DEF Look, WriteStart, Inside
  <1>13. CASE WriteEnd(p)
    <2>1. content' \in [Inodes -> Nat]
      <3>1. PICK f : content' = [content EXCEPT ![f] = @ + 1]
        BY <1>13 DEF WriteEnd
      <3>2. \A g \in Inodes : content[g] + 1 \in Nat
        OBVIOUS
      <3> QED
        BY <3>1, <3>2
    <2> QED
      BY <1>3, <1>13, <2>1 DEF WriteEnd, Inside
  <1>14. CASE Release(p)
    BY <1>3, <1>14 DEF Release, Return, Outside
  <1>15. CASE ReleaseOpened(p)
    <2>1. NewFd(p) \in Descriptors /\ NewFd(p) \in 1..MaxFd
      <3>1. fd_size[p] \in 1..MaxFd /\ fd_size[p] < MaxFd
        BY <1>15 DEF ReleaseOpened, Control, FileHeld, ArgRight, Entering, Unlinking
      <3> QED
        BY <1>0, <3>1 DEF NewFd, Descriptors
    <2> QED
      BY <1>3, <1>15, <2>1 DEF ReleaseOpened, Return, Outside
  <1>16. CASE AllowWrite(p) \/ Exited(p)
    <2>1. CASE AllowWrite(p)
      BY <1>3, <2>1 DEF AllowWrite, Outside
    <2>2. CASE Exited(p)
      BY <1>3, <2>2 DEF Exited, Outside
    <2> QED
      BY <1>16, <2>1, <2>2
  <1>17. CASE CloseExec(p)
    BY <1>3, <1>17 DEF CloseExec, Drop, Outside
  <1>18. CASE CloseFile(p)
    BY <1>3, <1>18 DEF CloseFile, OpenFds, Drop, Outside
  <1> QED
    BY <1>5, <1>6, <1>7, <1>8, <1>9, <1>10, <1>11, <1>12, <1>13, <1>14, <1>15, <1>16, <1>17, <1>18
    DEF Step, KernelStep

\* Each process is still where it says, with what it says.
LEMMA ControlStep ==
  ASSUME TypeOK, Control, NEW p \in Procs, Step(p)
  PROVE Control'
  <1>1. ASSUME NEW q \in Procs, q # p
        PROVE (OpRight(q) /\ ArgRight(q) /\ FileHeld(q) /\ ExecHeld(q) /\ FdsFresh(q))'
    BY <1>1, OthersStay DEF Own, Control, OpRight, ArgRight, FileHeld, ExecHeld, FdsFresh, OpenFds
  <1>2. OpRight(p) /\ ArgRight(p) /\ FileHeld(p) /\ ExecHeld(p) /\ FdsFresh(p)
    BY DEF Control
  <1>3. MaxFd \in Nat /\ MaxFd >= 1
    BY FileAssumption DEF FileAssumption
  <1>4. (OpRight(p) /\ ArgRight(p) /\ FileHeld(p) /\ ExecHeld(p) /\ FdsFresh(p))'
    <2>0. /\ pc \in [Procs -> Places] /\ op \in [Procs -> Ops \cup {"none"}]
          /\ arg \in [Procs -> Nat] /\ fd_size \in [Procs -> 1..MaxFd]
          /\ my_file \in [Procs -> [Descriptors -> Nodes \cup {NULL}]]
          /\ exec_file \in [Procs -> Nodes \cup {NULL}] /\ denying \in [Procs -> BOOLEAN]
          /\ wanted \in [Procs -> Inodes \cup {NULL}] /\ file \in [Procs -> Nodes \cup {NULL}]
      BY DEF TypeOK, Ops
    <2> USE <1>2, <2>0 DEF OpRight, ArgRight, FileHeld, ExecHeld, FdsFresh, OpenFds, Goto,
                     Seek, Drop, Ops, Outside, Entering, Unlinking, NameOps, FileOps,
                     calls, table, exec, search
    <2>1. CASE LoadStep(p)
      <3>1. CASE LoadSeek(p)
        BY <3>1 DEF LoadSeek
      <3>2. CASE LoadNothing(p)
        BY <3>2 DEF LoadNothing
      <3>3. CASE LoadDone(p)
        BY <3>3 DEF LoadDone
      <3>4. CASE LoadFails(p)
        BY <3>4 DEF LoadFails
      <3> QED
        BY <2>1, <3>1, <3>2, <3>3, <3>4 DEF LoadStep
    <2>2. CASE UserStep(p)
      <3>1. CASE CallName(p)
        BY <3>1 DEF CallName
      <3>2. CASE CallFd(p)
        BY <3>2 DEF CallFd
      <3>3. CASE FilesizeUnknown(p) \/ Exit(p)
        BY <3>3 DEF FilesizeUnknown, Exit
      <3> QED
        BY <2>2, <3>1, <3>2, <3>3 DEF UserStep
    <2>3. CASE Acquire(p)
      BY <2>3 DEF Acquire
    <2>4. CASE InodeStep(p)
      <3>1. CASE EnterFound(p)
        BY <3>1, Tables DEF EnterFound
      <3>2. CASE EnterNew(p)
        <4>1. \A k \in Nodes : k # NULL
          BY DEF Nodes, NULL
        <4> QED
          BY <3>2, <4>1, Tables DEF EnterNew
      <3>3. CASE EnterFails(p)
        BY <3>3, Tables DEF EnterFails
      <3>4. CASE Unlink(p)
        BY <3>4, Tables DEF Unlink
      <3>5. CASE EnterStale(p) \/ UnlinkStale(p)
        BY <3>5 DEF EnterStale, UnlinkStale
      <3> QED
        BY <2>4, <3>1, <3>2, <3>3, <3>4, <3>5 DEF InodeStep
    <2>5. CASE Create(p) \/ Look(p) \/ NameUnknown(p)
      BY <2>5 DEF Create, Look, NameUnknown
    <2>6. CASE NameSeek(p)
      BY <2>6 DEF NameSeek
    <2>7. CASE Erase(p)
      BY <2>7 DEF Erase
    <2>8. CASE WriteStart(p) \/ WriteEnd(p)
      BY <2>8 DEF WriteStart, WriteEnd
    <2>9. CASE Release(p)
      BY <2>9 DEF Release, Return
    <2>10. CASE ReleaseOpened(p)
      <3>1. fd_size'[p] = fd_size[p] + 1 /\ fd_size[p] \in Nat
        BY <1>3, <2>10 DEF ReleaseOpened, NewFd
      <3>2. \A fd \in Descriptors : fd > fd_size'[p] => my_file'[p][fd] = NULL
        BY <1>3, <2>10, <3>1 DEF ReleaseOpened, NewFd, Descriptors
      <3>3. pc'[p] = "user" /\ op'[p] = "none" /\ file'[p] = NULL
        BY <2>10 DEF ReleaseOpened, Return
      <3>4. ExecHeld(p)'
        BY <2>10, <3>3 DEF ReleaseOpened
      <3> QED
        BY <3>2, <3>3, <3>4
    <2>11. CASE AllowWrite(p)
      BY <2>11 DEF AllowWrite
    <2>12. CASE CloseExec(p)
      BY <2>12 DEF CloseExec
    <2>13. CASE CloseFile(p)
      BY <2>13 DEF CloseFile
    <2>14. CASE Exited(p)
      BY <2>14 DEF Exited
    <2> QED
      BY <2>1, <2>2, <2>3, <2>4, <2>5, <2>6, <2>7, <2>8, <2>9, <2>10, <2>11, <2>12, <2>13, <2>14
      DEF Step, KernelStep
  <1> QED
    BY <1>1, <1>4 DEF Control


-----------------------------------------------------------------------------
(* The counts.                                                             *)

Closed(q) == pc[q] \in {"exit_unlink", "close_files", "dead"}

\* A step of p that changes only place d.
LEMMA OtherPlaces ==
  ASSUME TypeOK, NEW p \in Procs, Step(p), NEW q \in Procs, q # p, NEW e
  PROVE FileAt(q, e)' = FileAt(q, e)
  BY OthersStay DEF FileAt, Own

\* inode_close counts down for a place of its process that it has taken the struct file from.
LEMMA Dropped ==
  ASSUME OpensRight, SectorRight, UNCHANGED sector,
         NEW p \in Procs, NEW d \in 0..MaxFd, NEW f \in Nodes, NEW last, NEW done,
         opens \in [Nodes -> Nat], Drop(p, f, last, done),
         FileAt(p, d) = f, FileAt(p, d)' = NULL,
         \A q \in Procs, e \in 0..MaxFd : <<q, e>> # <<p, d>> => FileAt(q, e)' = FileAt(q, e)
  PROVE OpensRight' /\ opens' \in [Nodes -> Nat] /\ SectorRight'
  <1>1. opens' = [opens EXCEPT ![f] = @ - 1]
    BY DEF Drop
  <1>2. OpensRight' /\ opens' \in [Nodes -> Nat]
    BY <1>1, FileTaken
  <1>3. SectorRight'
    <2> SUFFICES ASSUME NEW g \in Nodes, opens'[g] # 0 PROVE sector[g] # NULL
      BY DEF SectorRight
    <2>1. opens[f] >= 1 /\ opens[f] \in Nat
      BY OpensPositive
    <2>2. opens[g] # 0
      BY <1>1, <2>1
    <2> QED
      BY <2>2 DEF SectorRight
  <1> QED
    BY <1>2, <1>3

LEMMA OpensStep ==
  ASSUME TypeOK, Control, Control', OpensRight, SectorRight, NEW p \in Procs, Step(p)
  PROVE OpensRight' /\ opens' \in [Nodes -> Nat] /\ SectorRight'
  <1>1. /\ pc \in [Procs -> Places] /\ opens \in [Nodes -> Nat]
        /\ exec_file \in [Procs -> Nodes \cup {NULL}] /\ file \in [Procs -> Nodes \cup {NULL}]
        /\ my_file \in [Procs -> [Descriptors -> Nodes \cup {NULL}]]
        /\ 0 \in 0..MaxFd /\ 1 \in 0..MaxFd /\ Descriptors \subseteq 0..MaxFd
        /\ 0 \notin Descriptors /\ 1 \notin Descriptors
    BY FileAssumption DEF TypeOK, FileAssumption, Descriptors
  <1>2. \A q \in Procs, e \in 0..MaxFd : q # p => FileAt(q, e)' = FileAt(q, e)
    BY OtherPlaces
  <1> DEFINE OnlyAt(d) == \A e \in 0..MaxFd : e # d => FileAt(p, e)' = FileAt(p, e)
  \* Most steps open, close and move nothing.
  <1>3. ASSUME UNCHANGED <<opens, sector>>, FileAt(p, 1)' = FileAt(p, 1),
               UNCHANGED <<exec_file, my_file>>, Closed(p)' <=> Closed(p)
        PROVE OpensRight' /\ opens' \in [Nodes -> Nat] /\ SectorRight'
    <2>1. \A e \in 0..MaxFd : FileAt(p, e)' = FileAt(p, e)
      BY <1>3 DEF FileAt, Closed
    <2> QED
      BY <1>1, <1>2, <1>3, <2>1, SameFiles DEF SectorRight
  <1>4. CASE EnterFound(p)
    <2>1. /\ file[p] \in Nodes /\ opens' = [opens EXCEPT ![file[p]] = @ + 1]
          /\ sector[file[p]] = wanted[p] /\ wanted[p] # NULL
      BY <1>1, <1>4, Tables DEF EnterFound, Control, FileHeld
    <2>2. pc[p] \in Entering /\ pc'[p] = Entered[pc[p]]
          /\ UNCHANGED <<file, exec_file, my_file, sector>>
      BY <1>1, <1>4, Tables DEF EnterFound, Goto, table, exec
    <2>3. pc'[p] \in {"loading", "erase", "release"}
      BY <2>2, Tables DEF Entering
    <2>4. FileAt(p, 1) = NULL /\ FileAt(p, 1)' = file[p]
      BY <2>2, <2>3 DEF FileAt, Entering
    <2>5. OnlyAt(1)
      BY <2>2, <2>3 DEF FileAt, Entering
    <2>6. \A q \in Procs, e \in 0..MaxFd : <<q, e>> # <<p, 1>> => FileAt(q, e)' = FileAt(q, e)
      BY <1>2, <2>5
    <2>7. OpensRight'
      BY <1>1, <2>1, <2>4, <2>6, FileAdded
    <2> QED
      BY <1>1, <2>1, <2>2, <2>7 DEF SectorRight
  <1>5. CASE EnterNew(p)
    <2>1. PICK k \in Nodes : /\ sector[k] = NULL /\ sector' = [sector EXCEPT ![k] = wanted[p]]
                             /\ opens' = [opens EXCEPT ![k] = 1]
                             /\ file' = [file EXCEPT ![p] = k]
      BY <1>5 DEF EnterNew
    <2>2. pc[p] \in Entering /\ pc'[p] = Entered[pc[p]] /\ wanted[p] # NULL
          /\ UNCHANGED <<exec_file, my_file>>
      BY <1>1, <1>5, Tables DEF EnterNew, Goto, table, exec, Control, FileHeld
    <2>3. pc'[p] \in {"loading", "erase", "release"}
      BY <2>2, Tables DEF Entering
    <2>4. opens' = [opens EXCEPT ![k] = @ + 1]
      <3>1. opens[k] = 0
        BY <2>1 DEF SectorRight
      <3> QED
        BY <1>1, <2>1, <3>1
    <2>5. FileAt(p, 1) = NULL /\ FileAt(p, 1)' = k
      BY <1>1, <2>1, <2>2, <2>3 DEF FileAt, Entering
    <2>6. OnlyAt(1)
      BY <2>2, <2>3 DEF FileAt, Entering
    <2>7. \A q \in Procs, e \in 0..MaxFd : <<q, e>> # <<p, 1>> => FileAt(q, e)' = FileAt(q, e)
      BY <1>2, <2>6
    <2>8. OpensRight'
      BY <1>1, <2>4, <2>5, <2>7, FileAdded
    <2>9. SectorRight'
      BY <1>1, <2>1, <2>2 DEF SectorRight, TypeOK
    <2> QED
      BY <1>1, <2>4, <2>8, <2>9
  <1>6. CASE LoadDone(p)
    <2>1. file[p] \in Nodes
      BY <1>6, FileInUse DEF LoadDone
    <2>2. /\ FileAt(p, 1) = file[p] /\ FileAt(p, 1)' = NULL
          /\ FileAt(p, 0) = NULL /\ FileAt(p, 0)' = file[p]
      BY <1>1, <1>6 DEF LoadDone, FileAt, Goto, Control, ExecHeld
    <2>3. \A e \in 0..MaxFd : e \notin {0, 1} => FileAt(p, e)' = FileAt(p, e)
      BY <1>6 DEF LoadDone, FileAt, table
    <2>4. \A q \in Procs, c \in 0..MaxFd :
            <<q, c>> \notin {<<p, 1>>, <<p, 0>>} => FileAt(q, c)' = FileAt(q, c)
      BY <1>2, <2>3
    <2>5. UNCHANGED <<opens, sector>>
      BY <1>6 DEF LoadDone
    <2>6. OpensRight'
      BY <1>1, <2>1, <2>2, <2>4, <2>5, FileMoved
    <2> QED
      BY <1>1, <2>5, <2>6 DEF SectorRight
  <1>7. CASE LoadFails(p) \/ Erase(p)
    <2>1. pc[p] \in {"loading", "erase"} /\ file[p] \in Nodes /\ UNCHANGED <<sector, exec_file, my_file>>
      BY <1>7, FileInUse DEF LoadFails, Erase, table, exec
    <2>2. PICK last \in {"load_unlink", "remove_unlink"}, done \in {"exit", "release"} :
            Drop(p, file[p], last, done)
      BY <1>7 DEF LoadFails, Erase
    <2>3. \/ pc'[p] \in {"load_unlink", "remove_unlink"}
          \/ pc'[p] \in {"exit", "release"} /\ file'[p] = NULL
      BY <1>1, <2>2 DEF Drop, Goto
    <2>4. FileAt(p, 1) = file[p] /\ FileAt(p, 1)' = NULL
      BY <2>1, <2>3 DEF FileAt
    <2>5. OnlyAt(1)
      BY <2>1, <2>3 DEF FileAt
    <2>6. \A q \in Procs, e \in 0..MaxFd : <<q, e>> # <<p, 1>> => FileAt(q, e)' = FileAt(q, e)
      BY <1>2, <2>5
    <2> QED
      BY <1>1, <2>1, <2>2, <2>4, <2>6, Dropped
  <1>8. CASE ReleaseOpened(p)
    <2>1. file[p] \in Nodes /\ fd_size[p] \in 1..MaxFd /\ fd_size[p] < MaxFd
      <3>1. pc[p] = "release" /\ file[p] # NULL
        BY <1>8 DEF ReleaseOpened
      <3>2. op[p] = "open"
        BY <3>1 DEF Control, FileHeld, Entering, Unlinking
      <3>3. fd_size[p] < MaxFd
        BY <3>2 DEF Control, ArgRight
      <3> QED
        BY <1>1, <3>1, <3>3 DEF TypeOK
    <2>2. PICK fd \in Descriptors :
            fd = NewFd(p) /\ fd > fd_size[p] /\ fd \in 0..MaxFd /\ fd # 1 /\ fd # 0
      BY <2>1, FileAssumption DEF FileAssumption, NewFd, Descriptors
    <2>3. my_file[p][fd] = NULL
      BY <2>2 DEF Control, FdsFresh
    <2>4. /\ my_file' = [my_file EXCEPT ![p][fd] = file[p]]
          /\ file' = [file EXCEPT ![p] = NULL] /\ UNCHANGED <<exec_file, opens, sector>>
          /\ pc[p] = "release" /\ pc'[p] = "user"
      BY <1>1, <1>8, <2>2 DEF ReleaseOpened, exec, counts, Return, Goto
    <2>5. FileAt(p, 1) = file[p] /\ FileAt(p, 1)' = NULL
      BY <1>1, <2>4 DEF FileAt
    <2>6. FileAt(p, fd) = NULL /\ FileAt(p, fd)' = file[p]
      <3>1. FileAt(p, fd) = my_file[p][fd] /\ FileAt(p, fd)' = my_file'[p][fd]
        BY <2>2 DEF FileAt
      <3>2. my_file'[p][fd] = file[p]
        BY <1>1, <2>2, <2>4
      <3> QED
        BY <2>3, <3>1, <3>2
    <2>7. \A e \in 0..MaxFd : e \notin {1, fd} => FileAt(p, e)' = FileAt(p, e)
      BY <1>1, <2>4 DEF FileAt
    <2>8. \A q \in Procs, c \in 0..MaxFd :
            <<q, c>> \notin {<<p, 1>>, <<p, fd>>} => FileAt(q, c)' = FileAt(q, c)
      BY <1>2, <2>7
    <2>9. OpensRight'
      BY <1>1, <2>1, <2>2, <2>4, <2>5, <2>6, <2>8, FileMoved
    <2> QED
      BY <1>1, <2>4, <2>9 DEF SectorRight
  <1>9. CASE CloseExec(p)
    <2>1. CASE exec_file[p] = NULL
      <3>1. /\ pc[p] = "close_exec" /\ pc'[p] = "close_files"
            /\ UNCHANGED <<exec_file, my_file, opens, sector>>
        BY <1>1, <1>9, <2>1 DEF CloseExec, Goto, counts, table
      <3>2. \A e \in 0..MaxFd : FileAt(p, e)' = FileAt(p, e)
        BY <2>1, <3>1 DEF FileAt
      <3> QED
        BY <1>1, <1>2, <3>1, <3>2, SameFiles DEF SectorRight
    <2>2. CASE exec_file[p] # NULL
      <3>1. /\ exec_file[p] \in Nodes /\ Drop(p, exec_file[p], "exit_unlink", "close_files")
            /\ pc[p] = "close_exec" /\ UNCHANGED <<exec_file, my_file, sector>>
        BY <1>1, <1>9, <2>2 DEF CloseExec, table
      <3>2. pc'[p] \in {"exit_unlink", "close_files"}
        BY <1>1, <3>1 DEF Drop, Goto
      <3>3. FileAt(p, 0) = exec_file[p] /\ FileAt(p, 0)' = NULL
        BY <3>1, <3>2 DEF FileAt
      <3>4. OnlyAt(0)
        BY <3>1, <3>2 DEF FileAt
      <3>5. \A q \in Procs, e \in 0..MaxFd : <<q, e>> # <<p, 0>> => FileAt(q, e)' = FileAt(q, e)
        BY <1>2, <3>4
      <3> QED
        BY <1>1, <3>1, <3>3, <3>5, Dropped
    <2> QED
      BY <2>1, <2>2
  <1>10. CASE CloseFile(p)
    <2>1. PICK fd \in OpenFds(p) : /\ Drop(p, my_file[p][fd], "exit_unlink", "close_files")
                                   /\ my_file' = [my_file EXCEPT ![p][fd] = NULL]
      BY <1>10 DEF CloseFile
    <2>2. fd \in Descriptors /\ fd \in 0..MaxFd /\ fd # 0 /\ fd # 1 /\ my_file[p][fd] \in Nodes
      BY <1>1 DEF OpenFds
    <2>3. /\ pc[p] = "close_files" /\ pc'[p] \in {"exit_unlink", "close_files"}
          /\ UNCHANGED <<exec_file, sector>>
      BY <1>1, <1>10, <2>1 DEF CloseFile, exec, Drop, Goto
    <2>4. FileAt(p, fd) = my_file[p][fd] /\ FileAt(p, fd)' = NULL
      BY <1>1, <2>1, <2>2 DEF FileAt
    <2>5. OnlyAt(fd)
      BY <1>1, <2>1, <2>2, <2>3 DEF FileAt
    <2>6. \A q \in Procs, e \in 0..MaxFd : <<q, e>> # <<p, fd>> => FileAt(q, e)' = FileAt(q, e)
      BY <1>2, <2>5
    <2> QED
      BY <1>1, <2>1, <2>2, <2>3, <2>4, <2>6, Dropped
  <1>11. CASE Unlink(p)
    <2>1. /\ UNCHANGED <<opens, exec_file, my_file>> /\ opens[file[p]] = 0
          /\ sector' = [sector EXCEPT ![file[p]] = NULL] /\ file'[p] = NULL
          /\ pc[p] \in Unlinking /\ pc'[p] = Unlinked[pc[p]]
      BY <1>1, <1>11, Tables DEF Unlink, counts, table, exec, Goto
    <2>2. \A e \in 0..MaxFd : FileAt(p, e)' = FileAt(p, e)
      <3>1. pc'[p] \in {"exit_unlink", "close_files", "dead"} <=>
              pc[p] \in {"exit_unlink", "close_files", "dead"}
        BY <2>1, Tables DEF Unlinking
      <3>2. FileAt(p, 1) = NULL /\ FileAt(p, 1)' = NULL
        BY <2>1 DEF FileAt, Unlinking
      <3> QED
        BY <2>1, <3>1, <3>2 DEF FileAt
    <2>3. OpensRight'
      BY <1>2, <2>1, <2>2, SameFiles
    <2>4. SectorRight'
      BY <2>1 DEF SectorRight, TypeOK
    <2> QED
      BY <1>1, <2>1, <2>3, <2>4
  <1> HIDE DEF OnlyAt
  <1>12. CASE LoadSeek(p) \/ NameSeek(p)
    <2>1. /\ pc[p] \in {"start", "open", "remove"}
          /\ pc'[p] \in {"load_enter", "open_enter", "remove_enter"}
          /\ UNCHANGED <<opens, sector, exec_file, my_file>>
      BY <1>1, <1>12 DEF LoadSeek, NameSeek, Seek, Goto, table, exec, counts
    <2> QED
      BY <1>3, <2>1 DEF FileAt, Closed
  <1>13. CASE EnterFails(p)
    <2>1. /\ pc[p] \in Entering /\ pc'[p] = NotEntered[pc[p]] /\ file'[p] = NULL
          /\ UNCHANGED <<opens, sector, exec_file, my_file>>
      BY <1>1, <1>13, Tables DEF EnterFails, Goto, table, exec, counts
    <2>2. pc'[p] \in {"exit", "release"}
      BY <2>1, Tables DEF Entering
    <2> QED
      BY <1>3, <2>1, <2>2 DEF FileAt, Closed, Entering
  <1>14. CASE LoadNothing(p) \/ UserStep(p)
    <2>1. /\ UNCHANGED <<opens, sector, exec_file, my_file, file>>
          /\ pc[p] \in {"start", "user"} /\ pc'[p] \in {"exit", "lock", "user"}
      BY <1>1, <1>14
      DEF LoadNothing, UserStep, CallName, CallFd, FilesizeUnknown, Exit, Goto,
          table, exec, search, counts
    <2> QED
      BY <1>3, <2>1 DEF FileAt, Closed
  <1>15. CASE Acquire(p)
    <2>1. op[p] \in Ops
      BY <1>15 DEF Acquire, Control, OpRight
    <2>2. /\ UNCHANGED <<opens, sector, exec_file, my_file, file>>
          /\ pc[p] = "lock" /\ pc'[p] \in Ops
      BY <1>1, <1>15, <2>1 DEF Acquire, Goto, table, exec, search, counts
    <2> QED
      BY <1>3, <2>2 DEF FileAt, Closed, Ops, NameOps, FileOps
  <1>16. CASE Create(p) \/ NameUnknown(p) \/ Look(p) \/ WriteStart(p) \/ WriteEnd(p)
    <2>1. /\ UNCHANGED <<opens, sector, exec_file, my_file, file>>
          /\ pc[p] \in Ops \cup {"writing"} /\ pc'[p] \in {"release", "writing"}
      BY <1>1, <1>16
      DEF Create, NameUnknown, Look, WriteStart, WriteEnd, Goto,
          table, exec, search, counts, Ops, NameOps, FileOps
    <2>2. file[p] = NULL
      BY <2>1 DEF Control, FileHeld, Entering, Unlinking, Ops, NameOps, FileOps
    <2> QED
      BY <1>3, <2>1, <2>2 DEF FileAt, Closed, Ops, NameOps, FileOps
  <1>17. CASE Release(p)
    <2>1. /\ UNCHANGED <<opens, sector, exec_file, my_file, file>> /\ file[p] = NULL
          /\ pc[p] = "release" /\ pc'[p] = "user"
      BY <1>1, <1>17 DEF Release, Return, Goto, table, exec, search, counts
    <2> QED
      BY <1>3, <2>1 DEF FileAt, Closed
  <1>18. CASE AllowWrite(p) \/ Exited(p)
    <2>1. /\ UNCHANGED <<opens, sector, exec_file, my_file, file>>
          /\ \/ pc[p] = "exit" /\ pc'[p] = "close_exec"
             \/ pc[p] = "close_files" /\ pc'[p] = "dead"
      BY <1>1, <1>18 DEF AllowWrite, Exited, Goto, table, exec, search, counts
    <2> QED
      BY <1>3, <2>1 DEF FileAt, Closed
  <1>19. CASE EnterStale(p) \/ UnlinkStale(p)
    <2>1. UNCHANGED <<pc, opens, sector, exec_file, my_file, file>>
      BY <1>19 DEF EnterStale, UnlinkStale, table, exec, search, counts
    <2> QED
      BY <1>3, <2>1 DEF FileAt, Closed
  <1> QED
    BY <1>4, <1>5, <1>6, <1>7, <1>8, <1>9, <1>10, <1>11, <1>12, <1>13, <1>14, <1>15, <1>16,
       <1>17, <1>18, <1>19
    DEF Step, LoadStep, InodeStep, KernelStep


LEMMA DeniesStep ==
  ASSUME TypeOK, Control, OpensRight, SectorRight, DeniesRight, NEW p \in Procs, Step(p)
  PROVE DeniesRight' /\ denies' \in [Nodes -> Nat]
  <1>1. /\ pc \in [Procs -> Places] /\ denies \in [Nodes -> Nat]
        /\ exec_file \in [Procs -> Nodes \cup {NULL}] /\ file \in [Procs -> Nodes \cup {NULL}]
        /\ denying \in [Procs -> BOOLEAN]
    BY DEF TypeOK
  <1>2. \A q \in Procs : q # p => denying'[q] = denying[q] /\ exec_file'[q] = exec_file[q]
    BY OthersStay DEF Own
  <1>3. CASE LoadDone(p)
    <2>1. /\ file[p] \in Nodes /\ denies' = [denies EXCEPT ![file[p]] = @ + 1]
          /\ exec_file'[p] = file[p] /\ denying'[p]
      BY <1>1, <1>3, FileInUse DEF LoadDone
    <2>2. ~denying[p]
      BY <1>3 DEF LoadDone, Control, ExecHeld
    <2>3. denies' \in [Nodes -> Nat]
      BY <1>1, <2>1
    <2> QED
      BY <1>1, <1>2, <2>1, <2>2, <2>3, DenyerAdded
  <1>4. CASE AllowWrite(p)
    <2>1. denying[p] <=> exec_file[p] # NULL
      BY <1>4 DEF AllowWrite, Control, ExecHeld
    <2>2. UNCHANGED exec_file /\ ~denying'[p]
      BY <1>1, <1>4 DEF AllowWrite
    <2>3. CASE exec_file[p] = NULL
      <3>1. UNCHANGED denies
        BY <1>4, <2>3 DEF AllowWrite
      <3>2. \A q \in Procs : (denying'[q] <=> denying[q]) /\ exec_file'[q] = exec_file[q]
        BY <1>2, <2>1, <2>2, <2>3
      <3> QED
        BY <1>1, <3>1, <3>2, SameDenyers
    <2>4. CASE exec_file[p] # NULL
      <3>1. exec_file[p] \in Nodes /\ denies' = [denies EXCEPT ![exec_file[p]] = @ - 1]
        BY <1>1, <1>4, <2>4 DEF AllowWrite
      <3> QED
        BY <1>1, <1>2, <2>1, <2>2, <2>4, <3>1, DenyerGone
    <2> QED
      BY <2>3, <2>4
  <1>5. CASE CloseExec(p)
    <2>1. ~denying[p]
      BY <1>5 DEF CloseExec, Control, ExecHeld
    <2>2. UNCHANGED <<denies, exec_file>> /\ ~denying'[p]
      BY <1>1, <1>5, <2>1 DEF CloseExec, counts
    <2>3. \A q \in Procs : (denying'[q] <=> denying[q]) /\ exec_file'[q] = exec_file[q]
      BY <1>2, <2>1, <2>2
    <2> QED
      BY <1>1, <2>2, <2>3, SameDenyers
  <1>6. ASSUME UNCHANGED <<denying, exec_file, denies>>
        PROVE DeniesRight' /\ denies' \in [Nodes -> Nat]
    BY <1>1, <1>6, SameDenyers
  \* A struct inode that is not on the list has nobody to deny writes to it.
  <1>7. CASE EnterNew(p)
    <2>1. PICK k \in Nodes : sector[k] = NULL /\ denies' = [denies EXCEPT ![k] = 0]
      BY <1>7 DEF EnterNew
    <2>2. opens[k] = 0
      BY <2>1 DEF SectorRight
    <2>3. DenyersOf(k) = {}
      <3> SUFFICES ASSUME NEW q \in Procs, denying[q], exec_file[q] = k PROVE FALSE
        BY DEF DenyersOf
      <3>1. FileAt(q, 0) = k /\ 0 \in 0..MaxFd
        BY FileAssumption DEF FileAt, Control, ExecHeld, FileAssumption
      <3> QED
        BY <2>2, <3>1, OpensPositive
    <2>4. denies[k] = 0
      BY <2>3, FS_EmptySet DEF DeniesRight
    <2>5. UNCHANGED <<denying, exec_file, denies>>
      BY <1>1, <1>7, <2>1, <2>4 DEF EnterNew, exec
    <2> QED
      BY <1>6, <2>5
  <1>8. CASE LoadSeek(p) \/ LoadNothing(p) \/ LoadFails(p) \/ UserStep(p) \/ Acquire(p)
    BY <1>6, <1>8 DEF LoadSeek, LoadNothing, LoadFails, UserStep, CallName, CallFd,
                      FilesizeUnknown, Exit, Acquire, exec, counts
  <1>9. CASE EnterFound(p) \/ EnterStale(p) \/ EnterFails(p) \/ Unlink(p) \/ UnlinkStale(p)
    BY <1>6, <1>9 DEF EnterFound, EnterStale, EnterFails, Unlink, UnlinkStale, exec, counts
  <1>10. CASE \/ Create(p) \/ NameSeek(p) \/ NameUnknown(p) \/ Erase(p)
              \/ Look(p) \/ WriteStart(p) \/ WriteEnd(p)
              \/ Release(p) \/ ReleaseOpened(p) \/ CloseFile(p) \/ Exited(p)
    BY <1>6, <1>10 DEF Create, NameSeek, NameUnknown, Erase, Look, WriteStart, WriteEnd, Release,
                       ReleaseOpened, CloseFile, Exited, exec, counts
  <1> QED
    BY <1>3, <1>4, <1>5, <1>7, <1>8, <1>9, <1>10 DEF Step, LoadStep, InodeStep, KernelStep

-----------------------------------------------------------------------------
(* The invariant.                                                          *)

LEMMA InitInv == Init => IInv
  <1> SUFFICES ASSUME Init PROVE IInv
    OBVIOUS
  <1>0. MaxFd \in Nat /\ MaxFd >= 1 /\ NNames \in Nat /\ MaxInodes \in Nat /\ NNames <= MaxInodes
    BY FileAssumption DEF FileAssumption
  <1>1. TypeOK
    <2>1. 1 \in 1..MaxFd /\ NNames \in 0..MaxInodes /\ Names \subseteq Inodes /\ 0 \in Nat
      BY <1>0 DEF Names, Inodes
    <2>2. [n \in Names |-> n] \in [Names -> Inodes \cup {NULL}]
      BY <2>1
    <2> QED
      BY <2>1, <2>2 DEF Init, TypeOK, Places, NULL
  <1>2. Control
    BY DEF Init, Control, OpRight, ArgRight, FileHeld, ExecHeld, FdsFresh, OpenFds,
           Ops, NameOps, FileOps, Entering, Unlinking, NULL
  <1>3. LockHeld
    BY DEF Init, LockHeld, Inside, Ops, NameOps, FileOps
  <1>4. \A f \in Nodes : FilesOf(f) = {} /\ DenyersOf(f) = {}
    <2>1. \A q \in Procs, d \in 0..MaxFd : FileAt(q, d) = NULL
      BY <1>0 DEF Init, FileAt, Descriptors
    <2> QED
      BY <2>1 DEF FilesOf, DenyersOf, Init, Nodes, NULL
  <1>5. OpensRight /\ DeniesRight /\ SectorRight
    BY <1>4, FS_EmptySet DEF Init, OpensRight, DeniesRight, SectorRight
  <1> QED
    BY <1>1, <1>2, <1>3, <1>5, CountsSplit DEF IInv

LEMMA StepInv == IInv /\ [Next]_vars => IInv'
  <1> SUFFICES ASSUME IInv, [Next]_vars PROVE IInv'
    OBVIOUS
  <1>0. TypeOK /\ Control /\ LockHeld /\ OpensRight /\ DeniesRight /\ SectorRight
    BY CountsSplit DEF IInv
  <1>1. CASE Next
    <2>1. PICK p \in Procs : Step(p)
      BY <1>1 DEF Next, Step
    <2>2. Control' /\ LockHeld' /\ holders' \subseteq Procs /\ TypeRest'
      BY <1>0, <2>1, ControlStep, LockStep, TypeStep
    <2>3. /\ OpensRight' /\ opens' \in [Nodes -> Nat] /\ SectorRight'
          /\ DeniesRight' /\ denies' \in [Nodes -> Nat]
      BY <1>0, <2>1, <2>2, OpensStep, DeniesStep
    <2>4. TypeOK'
      BY <2>2, <2>3 DEF TypeOK, TypeRest, Ops
    <2>5. CountsRight'
      BY <2>3, CountsSplit DEF CountsRight, OpensRight, DeniesRight, SectorRight, DenyersOf
    <2> QED
      BY <2>2, <2>4, <2>5 DEF IInv
  <1>2. CASE UNCHANGED vars
    <2> USE <1>2 DEF vars, calls, table, exec, search, disk, counts
    <2>1. TypeOK' /\ LockHeld'
      BY <1>0 DEF TypeOK, LockHeld
    <2>2. Control'
      BY <1>0 DEF Control, OpRight, ArgRight, FileHeld, ExecHeld, FdsFresh, OpenFds
    <2>3. OpensRight' /\ DeniesRight' /\ SectorRight'
      <3>1. \A q \in Procs, e \in 0..MaxFd : FileAt(q, e)' = FileAt(q, e)
        BY DEF FileAt
      <3> QED
        BY <1>0, <3>1, SameFiles, SameDenyers DEF SectorRight
    <2>4. CountsRight'
      BY <2>3 DEF CountsRight, OpensRight, DeniesRight, SectorRight, DenyersOf
    <2> QED
      BY <2>1, <2>2, <2>4 DEF IInv
  <1> QED
    BY <1>1, <1>2

\* The inductive invariant holds in every state of every run.
THEOREM Invariant == Spec => []IInv
  BY InitInv, StepInv, PTL DEF Spec

-----------------------------------------------------------------------------
(* What the struct inodes and the writes are like while load and            *)
(* process_exit are not interrupted.                                       *)

\* A file has one struct inode at most.
OneNode ==
  \A j, k \in Nodes : sector[j] # NULL /\ sector[j] = sector[k] => j = k

\* What a search has found, or that it found nothing, is still true.
Found(p) ==
  pc[p] \in Entering =>
    IF file[p] = NULL THEN \A k \in Nodes : sector[k] # wanted[p]
    ELSE sector[file[p]] = wanted[p]

\* What is to be freed is on the list, and nobody has it open.
Last(p) ==
  pc[p] \in Unlinking => opens[file[p]] = 0 /\ sector[file[p]] # NULL

\* A write that is under way goes to no file of a running program.
WriteApart ==
  \A p, q \in Procs :
    denying[p] /\ pc[q] = "writing" => sector[my_file[q][arg[q]]] # sector[exec_file[p]]

SafeInv ==
  /\ OneNode /\ WriteApart /\ ExecutableKept /\ broken # "stale"
  /\ \A p \in Procs : Found(p) /\ Last(p)

\* Whoever is between the steps of an inode_open or an inode_close is the only one.
LEMMA OnlyOne ==
  ASSUME LockHeld, Alone, NEW p \in Procs, NEW q \in Procs, p # q,
         pc[p] \in Entering \cup Unlinking
  PROVE pc[q] \notin Entering \cup Unlinking
  <1>1. Unlocked(p) \/ p \in holders
    BY DEF LockHeld, Entering, Unlinking, Inside, Unlocked
  <1>2. pc[q] \in Entering \cup Unlinking => Unlocked(q) \/ q \in holders
    BY DEF LockHeld, Entering, Unlinking, Inside, Unlocked
  <1>3. ~(p \in holders /\ q \in holders)
    BY DEF LockHeld
  <1> QED
    BY <1>1, <1>2, <1>3 DEF Alone

\* The struct inode of a running program.
LEMMA ExecNode ==
  ASSUME TypeOK, Control, OpensRight, SectorRight, NEW p \in Procs, denying[p]
  PROVE /\ exec_file[p] \in Nodes /\ sector[exec_file[p]] \in Inodes
        /\ opens[exec_file[p]] # 0
  <1>1. exec_file[p] \in Nodes /\ FileAt(p, 0) = exec_file[p] /\ 0 \in 0..MaxFd
    BY FileAssumption DEF TypeOK, Control, ExecHeld, FileAt, FileAssumption
  <1> QED
    BY <1>1, SectorOf, OpensPositive

\* The struct inode of the descriptor of a call that reads or writes.
LEMMA ArgNode ==
  ASSUME TypeOK, Control, OpensRight, SectorRight, NEW p \in Procs,
         pc[p] \in FileOps \cup {"writing"}
  PROVE /\ my_file[p][arg[p]] \in Nodes /\ sector[my_file[p][arg[p]]] \in Inodes
        /\ opens[my_file[p][arg[p]]] # 0
  <1>1. op[p] \in FileOps
    BY DEF Control, OpRight, Ops, FileOps
  <1>2. arg[p] \in Descriptors /\ my_file[p][arg[p]] \in Nodes
    BY <1>1 DEF TypeOK, Control, ArgRight
  <1>3. FileAt(p, arg[p]) = my_file[p][arg[p]] /\ arg[p] \in 0..MaxFd
    BY <1>2, FileAssumption DEF FileAt, Descriptors, FileAssumption
  <1> QED
    BY <1>2, <1>3, SectorOf, OpensPositive

\* How a step may change the list: one struct inode that nobody has open is put
\* there for a file, or is taken from there.
Linked(p, k) == pc[p] \in Entering /\ sector[k] = NULL /\ sector' = [sector EXCEPT ![k] = wanted[p]]
Freed(p, k) == pc[p] \in Unlinking /\ opens[k] = 0 /\ sector' = [sector EXCEPT ![k] = NULL]

LEMMA SectorStep ==
  ASSUME TypeOK, Control, NEW p \in Procs, Step(p)
  PROVE \/ UNCHANGED sector
        \/ EnterNew(p) /\ \E k \in Nodes : Linked(p, k)
        \/ Unlink(p) /\ file[p] \in Nodes /\ Freed(p, file[p])
  <1>1. CASE LoadStep(p) \/ UserStep(p) \/ Acquire(p)
    BY <1>1 DEF LoadStep, LoadSeek, LoadNothing, LoadDone, LoadFails, UserStep, CallName, CallFd,
                FilesizeUnknown, Exit, Acquire
  <1>2. CASE InodeStep(p)
    <2>1. CASE EnterNew(p)
      BY <2>1, Tables DEF EnterNew, Linked
    <2>2. CASE Unlink(p)
      BY <2>2, Tables, FileInUse DEF Unlink, Freed
    <2> QED
      BY <1>2, <2>1, <2>2 DEF InodeStep, EnterFound, EnterStale, EnterFails, UnlinkStale
  <1>3. CASE KernelStep(p)
    BY <1>3 DEF KernelStep, Create, NameSeek, NameUnknown, Erase, Look, WriteStart, WriteEnd,
                Release, ReleaseOpened, AllowWrite, CloseExec, CloseFile, Exited
  <1> QED
    BY <1>1, <1>2, <1>3 DEF Step

\* A struct inode that somebody has open stands for its file through every step.
LEMMA SectorKept ==
  ASSUME TypeOK, Control, SectorRight, NEW p \in Procs, Step(p), NEW k \in Nodes, opens[k] # 0
  PROVE sector'[k] = sector[k]
  <1>1. sector[k] # NULL
    BY DEF SectorRight
  <1> QED
    BY <1>1, SectorStep DEF Linked, Freed, TypeOK

LEMMA OneNodeStep ==
  ASSUME TypeOK, Control, NEW p \in Procs, Step(p), OneNode, Found(p)
  PROVE OneNode'
  <1>1. CASE UNCHANGED sector
    BY <1>1 DEF OneNode
  <1>2. CASE EnterNew(p) /\ \E k \in Nodes : Linked(p, k)
    <2>1. PICK k \in Nodes : Linked(p, k)
      BY <1>2
    <2>2. \A j \in Nodes : sector[j] # wanted[p]
      BY <1>2, <2>1 DEF EnterNew, Linked, Found
    <2> QED
      BY <2>1, <2>2 DEF Linked, OneNode, TypeOK
  <1>3. CASE file[p] \in Nodes /\ Freed(p, file[p])
    BY <1>3 DEF Freed, OneNode, TypeOK
  <1> QED
    BY <1>1, <1>2, <1>3, SectorStep

\* A process between the two steps of an inode_open.
LEMMA FoundStep ==
  ASSUME TypeOK, Control, LockHeld, Alone, NEW p \in Procs, Step(p), NEW r \in Procs, Found(r)
  PROVE Found(r)'
  <1> SUFFICES ASSUME pc'[r] \in Entering
               PROVE IF file'[r] = NULL THEN \A k \in Nodes : sector'[k] # wanted'[r]
                     ELSE sector'[file'[r]] = wanted'[r]
    BY DEF Found
  <1>1. CASE r # p
    <2>1. UNCHANGED <<pc[r], file[r], wanted[r]>>
      BY <1>1, OthersStay DEF Own
    <2>2. pc[p] \notin Entering \cup Unlinking
      BY <1>1, <2>1, OnlyOne
    <2>3. UNCHANGED sector
      BY <2>2, SectorStep DEF Linked, Freed
    <2> QED
      BY <2>1, <2>3 DEF Found
  <1>2. CASE r = p
    <2>1. pc \in [Procs -> Places] /\ wanted \in [Procs -> Inodes \cup {NULL}]
          /\ file \in [Procs -> Nodes \cup {NULL}] /\ sector \in [Nodes -> Inodes \cup {NULL}]
      BY DEF TypeOK
    <2>2. CASE LoadSeek(p) \/ NameSeek(p)
      <3>1. PICK f : /\ f # NULL /\ wanted' = [wanted EXCEPT ![p] = f]
                     /\ \E k \in InCore(f) : file' = [file EXCEPT ![p] = k]
        BY <2>2 DEF LoadSeek, NameSeek, Seek
      <3>2. UNCHANGED sector
        BY <2>2 DEF LoadSeek, NameSeek
      <3>3. \A k \in Nodes : k # NULL
        BY DEF Nodes, NULL
      <3> QED
        BY <1>2, <2>1, <3>1, <3>2, <3>3 DEF InCore
    <2>3. CASE EnterStale(p) \/ UnlinkStale(p)
      <3>1. UNCHANGED <<pc, file, wanted, sector>>
        BY <2>3 DEF EnterStale, UnlinkStale, search
      <3> QED
        BY <1>2, <3>1 DEF Found
    <2> USE <2>1 DEF Goto, Entering
    <2>4. CASE LoadNothing(p) \/ LoadDone(p) \/ LoadFails(p) \/ UserStep(p)
      BY <1>2, <2>4 DEF LoadNothing, LoadDone, LoadFails, Drop, UserStep, CallName, CallFd,
                        FilesizeUnknown, Exit, Control, FileHeld
    <2>5. CASE Acquire(p)
      BY <1>2, <2>5 DEF Acquire, Control, OpRight, Ops, NameOps, FileOps
    <2>6. CASE EnterFound(p) \/ EnterNew(p) \/ EnterFails(p) \/ Unlink(p)
      BY <1>2, <2>6, Tables DEF EnterFound, EnterNew, EnterFails, Unlink, Unlinking
    <2>7. CASE Create(p) \/ NameUnknown(p) \/ Erase(p) \/ Look(p) \/ WriteStart(p) \/ WriteEnd(p)
      BY <1>2, <2>7 DEF Create, NameUnknown, Erase, Drop, Look, WriteStart, WriteEnd
    <2>8. CASE Release(p) \/ ReleaseOpened(p)
      BY <1>2, <2>8 DEF Release, ReleaseOpened, Return
    <2>9. CASE AllowWrite(p) \/ CloseExec(p) \/ CloseFile(p) \/ Exited(p)
      BY <1>2, <2>9 DEF AllowWrite, CloseExec, CloseFile, Exited, Drop
    <2> QED
      BY <2>2, <2>3, <2>4, <2>5, <2>6, <2>7, <2>8, <2>9 DEF Step, LoadStep, InodeStep, KernelStep
  <1> QED
    BY <1>1, <1>2

\* What nobody has open is opened only by the second step of an inode_open.
LEMMA StaysClosed ==
  ASSUME TypeOK, Control, OpensRight, NEW p \in Procs, Step(p), pc[p] \notin Entering,
         NEW k \in Nodes, opens[k] = 0
  PROVE opens'[k] = 0
  <1>1. /\ opens \in [Nodes -> Nat] /\ 0 \in 0..MaxFd /\ 1 \in 0..MaxFd
        /\ Descriptors \subseteq 0..MaxFd /\ 0 \notin Descriptors /\ 1 \notin Descriptors
    BY FileAssumption DEF TypeOK, FileAssumption, Descriptors
  <1>2. ASSUME NEW f \in Nodes, NEW d \in 0..MaxFd, FileAt(p, d) = f,
               opens' = [opens EXCEPT ![f] = @ - 1]
        PROVE opens'[k] = 0
    <2>1. opens[f] >= 1
      BY <1>2, OpensPositive
    <2> QED
      BY <1>1, <1>2, <2>1
  <1>3. CASE LoadFails(p) \/ Erase(p)
    <2>1. file[p] \in Nodes /\ FileAt(p, 1) = file[p]
      BY <1>3, FileInUse DEF LoadFails, Erase, FileAt
    <2> QED
      BY <1>1, <1>2, <1>3, <2>1 DEF LoadFails, Erase, Drop
  <1>4. CASE CloseExec(p)
    <2>1. CASE exec_file[p] = NULL
      BY <1>4, <2>1 DEF CloseExec, counts
    <2>2. CASE exec_file[p] # NULL
      <3>1. exec_file[p] \in Nodes /\ FileAt(p, 0) = exec_file[p]
        BY <1>4, <2>2 DEF CloseExec, FileAt, TypeOK
      <3> QED
        BY <1>1, <1>2, <1>4, <2>2, <3>1 DEF CloseExec, Drop
    <2> QED
      BY <2>1, <2>2
  <1>5. CASE CloseFile(p)
    <2>1. PICK fd \in OpenFds(p) : Drop(p, my_file[p][fd], "exit_unlink", "close_files")
      BY <1>5 DEF CloseFile
    <2>2. fd \in Descriptors /\ my_file[p][fd] \in Nodes /\ FileAt(p, fd) = my_file[p][fd]
      BY <1>1 DEF OpenFds, FileAt, TypeOK
    <2> QED
      BY <1>1, <1>2, <2>1, <2>2 DEF Drop
  <1>6. CASE LoadSeek(p) \/ LoadNothing(p) \/ LoadDone(p) \/ UserStep(p) \/ Acquire(p)
    BY <1>6 DEF LoadSeek, LoadNothing, LoadDone, UserStep, CallName, CallFd, FilesizeUnknown,
                Exit, Acquire, counts
  <1>7. CASE InodeStep(p)
    BY <1>7, Tables DEF InodeStep, EnterFound, EnterStale, EnterNew, EnterFails, Unlink,
                        UnlinkStale, counts
  <1>8. CASE \/ Create(p) \/ NameSeek(p) \/ NameUnknown(p) \/ Look(p) \/ WriteStart(p) \/ WriteEnd(p)
             \/ Release(p) \/ ReleaseOpened(p) \/ AllowWrite(p) \/ Exited(p)
    BY <1>8 DEF Create, NameSeek, NameUnknown, Look, WriteStart, WriteEnd, Release, ReleaseOpened,
                AllowWrite, Exited, counts
  <1> QED
    BY <1>3, <1>4, <1>5, <1>6, <1>7, <1>8 DEF Step, LoadStep, KernelStep

\* A process between the two steps of an inode_close.
LEMMA LastStep ==
  ASSUME TypeOK, Control, LockHeld, OpensRight, SectorRight, Alone,
         NEW p \in Procs, Step(p), NEW r \in Procs, Last(r)
  PROVE Last(r)'
  <1> SUFFICES ASSUME pc'[r] \in Unlinking
               PROVE opens'[file'[r]] = 0 /\ sector'[file'[r]] # NULL
    BY DEF Last
  <1>1. CASE r # p
    <2>1. UNCHANGED <<pc[r], file[r]>> /\ file[r] \in Nodes
      BY <1>1, OthersStay, FileInUse DEF Own
    <2>2. pc[p] \notin Entering \cup Unlinking
      BY <1>1, <2>1, OnlyOne
    <2>3. UNCHANGED sector
      BY <2>2, SectorStep DEF Linked, Freed
    <2>4. opens'[file[r]] = 0
      BY <2>1, <2>2, StaysClosed DEF Last
    <2> QED
      BY <2>1, <2>3, <2>4 DEF Last
  <1>2. CASE r = p
    <2>1. pc \in [Procs -> Places] /\ file \in [Procs -> Nodes \cup {NULL}]
          /\ opens \in [Nodes -> Nat] /\ 0 \in 0..MaxFd /\ 1 \in 0..MaxFd
          /\ Descriptors \subseteq 0..MaxFd /\ 0 \notin Descriptors /\ 1 \notin Descriptors
      BY FileAssumption DEF TypeOK, FileAssumption, Descriptors
    \* The step that counts down to 0.
    <2>2. ASSUME NEW f \in Nodes, NEW d \in 0..MaxFd, FileAt(p, d) = f, UNCHANGED sector,
                 NEW last, NEW done, Drop(p, f, last, done), done \notin Unlinking
          PROVE opens'[file'[p]] = 0 /\ sector'[file'[p]] # NULL
      <3>1. opens[f] = 1 /\ file'[p] = f
        BY <1>2, <2>1, <2>2 DEF Drop, Goto
      <3> QED
        BY <2>1, <2>2, <3>1 DEF Drop, SectorRight
    <2>3. CASE LoadFails(p) \/ Erase(p)
      <3>1. file[p] \in Nodes /\ FileAt(p, 1) = file[p] /\ UNCHANGED sector
        BY <2>3, FileInUse DEF LoadFails, Erase, FileAt
      <3>2. CASE LoadFails(p)
        BY <1>2, <2>1, <2>2, <3>1, <3>2 DEF LoadFails, Unlinking
      <3>3. CASE Erase(p)
        BY <1>2, <2>1, <2>2, <3>1, <3>3 DEF Erase, Unlinking
      <3> QED
        BY <2>3, <3>2, <3>3
    <2>4. CASE CloseExec(p)
      <3>1. exec_file[p] # NULL
        BY <1>2, <2>1, <2>4 DEF CloseExec, Goto, Unlinking
      <3>2. exec_file[p] \in Nodes /\ FileAt(p, 0) = exec_file[p] /\ UNCHANGED sector
        BY <2>4, <3>1 DEF CloseExec, FileAt, TypeOK
      <3> QED
        BY <1>2, <2>1, <2>2, <2>4, <3>1, <3>2 DEF CloseExec, Unlinking
    <2>5. CASE CloseFile(p)
      <3>1. PICK fd \in OpenFds(p) : Drop(p, my_file[p][fd], "exit_unlink", "close_files")
        BY <2>5 DEF CloseFile
      <3>2. fd \in Descriptors /\ my_file[p][fd] \in Nodes /\ FileAt(p, fd) = my_file[p][fd]
            /\ UNCHANGED sector
        BY <2>1, <2>5 DEF CloseFile, OpenFds, FileAt, TypeOK
      <3> QED
        BY <1>2, <2>1, <2>2, <3>1, <3>2 DEF Unlinking
    <2>6. CASE EnterStale(p) \/ UnlinkStale(p)
      <3>1. UNCHANGED <<pc, file, opens, sector>>
        BY <2>6 DEF EnterStale, UnlinkStale, search, counts
      <3> QED
        BY <1>2, <3>1 DEF Last
    <2> HIDE <2>2
    <2> USE <2>1 DEF Goto, Unlinking
    <2>7. CASE LoadSeek(p) \/ LoadNothing(p) \/ LoadDone(p) \/ UserStep(p)
      BY <1>2, <2>7 DEF LoadSeek, Seek, LoadNothing, LoadDone, UserStep, CallName, CallFd,
                        FilesizeUnknown, Exit
    <2>8. CASE Acquire(p)
      BY <1>2, <2>8 DEF Acquire, Control, OpRight, Ops, NameOps, FileOps
    <2>9. CASE EnterFound(p) \/ EnterNew(p) \/ EnterFails(p) \/ Unlink(p)
      BY <1>2, <2>9, Tables DEF EnterFound, EnterNew, EnterFails, Unlink, Entering
    <2>10. CASE \/ Create(p) \/ NameSeek(p) \/ NameUnknown(p)
                \/ Look(p) \/ WriteStart(p) \/ WriteEnd(p)
      BY <1>2, <2>10 DEF Create, NameSeek, Seek, NameUnknown, Look, WriteStart, WriteEnd
    <2>11. CASE Release(p) \/ ReleaseOpened(p) \/ AllowWrite(p) \/ Exited(p)
      BY <1>2, <2>11 DEF Release, ReleaseOpened, Return, AllowWrite, Exited
    <2> QED
      BY <2>3, <2>4, <2>5, <2>6, <2>7, <2>8, <2>9, <2>10, <2>11
      DEF Step, LoadStep, InodeStep, KernelStep
  <1> QED
    BY <1>1, <1>2

\* A program runs from the end of load, and keeps its executable.
LEMMA DenyingStep ==
  ASSUME TypeOK, NEW p \in Procs, Step(p), NEW r \in Procs, denying'[r]
  PROVE \/ r = p /\ LoadDone(p)
        \/ denying[r] /\ UNCHANGED <<exec_file[r], denied_at[r]>>
  <1>1. CASE r # p
    BY <1>1, OthersStay DEF Own
  <1>2. CASE AllowWrite(p) \/ CloseExec(p)
    BY <1>1, <1>2 DEF AllowWrite, CloseExec, TypeOK
  <1>3. CASE LoadDone(p)
    BY <1>1, <1>3
  <1>4. ASSUME UNCHANGED exec PROVE denying[r] /\ UNCHANGED <<exec_file[r], denied_at[r]>>
    BY <1>4 DEF exec
  <1>5. CASE LoadSeek(p) \/ LoadNothing(p) \/ LoadFails(p) \/ UserStep(p) \/ Acquire(p)
    BY <1>4, <1>5 DEF LoadSeek, LoadNothing, LoadFails, UserStep, CallName, CallFd,
                      FilesizeUnknown, Exit, Acquire
  <1>6. CASE InodeStep(p)
    BY <1>4, <1>6 DEF InodeStep, EnterFound, EnterStale, EnterNew, EnterFails, Unlink, UnlinkStale
  <1>7. CASE \/ Create(p) \/ NameSeek(p) \/ NameUnknown(p) \/ Erase(p)
             \/ Look(p) \/ WriteStart(p) \/ WriteEnd(p)
             \/ Release(p) \/ ReleaseOpened(p) \/ CloseFile(p) \/ Exited(p)
    BY <1>4, <1>7 DEF Create, NameSeek, NameUnknown, Erase, Look, WriteStart, WriteEnd, Release,
                      ReleaseOpened, CloseFile, Exited
  <1> QED
    BY <1>2, <1>3, <1>5, <1>6, <1>7 DEF Step, LoadStep, KernelStep

\* A write begins with the test of inode_write_at, and stays with its struct inode.
LEMMA WritingStep ==
  ASSUME TypeOK, Control, NEW p \in Procs, Step(p), NEW r \in Procs, pc'[r] = "writing"
  PROVE \/ r = p /\ WriteStart(p) /\ MayWrite(my_file[p][arg[p]])
        \/ r # p /\ pc[r] = "writing" /\ UNCHANGED <<my_file[r], arg[r]>>
  <1>1. CASE r # p
    BY <1>1, OthersStay DEF Own
  <1>2. CASE r = p
    <2>1. pc \in [Procs -> Places]
      BY DEF TypeOK
    <2> USE <1>2, <2>1 DEF Goto
    <2>2. CASE WriteStart(p)
      BY <2>2 DEF WriteStart
    <2>3. CASE LoadStep(p) \/ UserStep(p)
      BY <2>3 DEF LoadStep, LoadSeek, Seek, LoadNothing, LoadDone, LoadFails, Drop,
                  UserStep, CallName, CallFd, FilesizeUnknown, Exit
    <2>4. CASE Acquire(p)
      BY <2>4 DEF Acquire, Control, OpRight, Ops, NameOps, FileOps
    <2>5. CASE InodeStep(p)
      BY <2>5, Tables DEF InodeStep, EnterFound, EnterStale, EnterNew, EnterFails, Unlink,
                          UnlinkStale, Entering, Unlinking
    <2>6. CASE Create(p) \/ NameSeek(p) \/ NameUnknown(p) \/ Erase(p) \/ Look(p) \/ WriteEnd(p)
      BY <2>6 DEF Create, NameSeek, Seek, NameUnknown, Erase, Drop, Look, WriteEnd
    <2>7. CASE Release(p) \/ ReleaseOpened(p)
      BY <2>7 DEF Release, ReleaseOpened, Return
    <2>8. CASE AllowWrite(p) \/ CloseExec(p) \/ CloseFile(p) \/ Exited(p)
      BY <2>8 DEF AllowWrite, CloseExec, CloseFile, Exited, Drop
    <2> QED
      BY <2>2, <2>3, <2>4, <2>5, <2>6, <2>7, <2>8 DEF Step, KernelStep
  <1> QED
    BY <1>1, <1>2

\* A write that begins finds the writes to the files of running programs denied, for a
\* file has one struct inode; a program that begins to run finds no write under way.
LEMMA ApartStep ==
  ASSUME TypeOK, Control, LockHeld, OpensRight, SectorRight, DeniesRight, Alone,
         OneNode, WriteApart, NEW p \in Procs, Step(p)
  PROVE WriteApart'
  <1> SUFFICES ASSUME NEW d \in Procs, NEW w \in Procs, denying'[d], pc'[w] = "writing"
               PROVE sector'[my_file'[w][arg'[w]]] # sector'[exec_file'[d]]
    BY DEF WriteApart
  <1>1. CASE d = p /\ LoadDone(p)
    <2>1. w # p /\ pc[w] = "writing"
      BY <1>1, WritingStep DEF LoadDone, WriteStart
    <2>2. w \in holders /\ Unlocked(p)
      BY <1>1, <2>1 DEF LockHeld, Inside, LoadDone, Unlocked
    <2> QED
      BY <2>1, <2>2 DEF Alone
  <1>2. CASE denying[d] /\ UNCHANGED <<exec_file[d], denied_at[d]>>
    <2>1. /\ exec_file[d] \in Nodes /\ sector[exec_file[d]] \in Inodes
          /\ sector'[exec_file[d]] = sector[exec_file[d]]
      BY <1>2, ExecNode, SectorKept
    <2>2. CASE w = p /\ WriteStart(p) /\ MayWrite(my_file[p][arg[p]])
      <3> DEFINE k == my_file[p][arg[p]]
      <3>1. k \in Nodes /\ sector[k] \in Inodes /\ denies[k] = 0
        BY <2>2, ArgNode DEF WriteStart, MayWrite, FileOps
      <3>2. k # exec_file[d]
        BY <1>2, <3>1, DeniesPositive
      <3>3. sector[k] # sector[exec_file[d]]
        BY <2>1, <3>1, <3>2 DEF OneNode, Inodes, NULL
      <3>4. UNCHANGED <<my_file, arg, sector>>
        BY <2>2 DEF WriteStart, calls, table
      <3> QED
        BY <1>2, <2>1, <2>2, <3>3, <3>4
    <2>3. CASE w # p /\ pc[w] = "writing" /\ UNCHANGED <<my_file[w], arg[w]>>
      <3> DEFINE k == my_file[w][arg[w]]
      <3>1. k \in Nodes /\ sector'[k] = sector[k]
        BY <2>3, ArgNode, SectorKept
      <3>2. sector[k] # sector[exec_file[d]]
        BY <1>2, <2>3 DEF WriteApart
      <3> QED
        BY <1>2, <2>1, <2>3, <3>1, <3>2
    <2> QED
      BY <2>2, <2>3, WritingStep
  <1> QED
    BY <1>1, <1>2, DenyingStep

LEMMA ContentStep ==
  ASSUME TypeOK, NEW p \in Procs, Step(p)
  PROVE UNCHANGED content \/ WriteEnd(p)
  <1>1. CASE LoadStep(p) \/ UserStep(p) \/ Acquire(p)
    BY <1>1 DEF LoadStep, LoadSeek, LoadNothing, LoadDone, LoadFails, UserStep, CallName, CallFd,
                FilesizeUnknown, Exit, Acquire, disk
  <1>2. CASE InodeStep(p)
    BY <1>2 DEF InodeStep, EnterFound, EnterStale, EnterNew, EnterFails, Unlink, UnlinkStale, disk
  <1>3. CASE KernelStep(p)
    BY <1>3 DEF KernelStep, Create, NameSeek, NameUnknown, Erase, Look, WriteStart,
                Release, ReleaseOpened, AllowWrite, CloseExec, CloseFile, Exited, disk
  <1> QED
    BY <1>1, <1>2, <1>3 DEF Step

LEMMA KeptStep ==
  ASSUME TypeOK, Control, OpensRight, SectorRight, WriteApart, ExecutableKept,
         NEW p \in Procs, Step(p)
  PROVE ExecutableKept'
  <1> SUFFICES ASSUME NEW r \in Procs, denying'[r]
               PROVE content'[sector'[exec_file'[r]]] = denied_at'[r]
    BY DEF ExecutableKept
  <1>1. CASE r = p /\ LoadDone(p)
    <2>1. UNCHANGED <<content, sector>> /\ exec_file'[p] = file[p]
          /\ denied_at'[p] = content[sector[file[p]]]
      BY <1>1 DEF LoadDone, disk, TypeOK
    <2> QED
      BY <1>1, <2>1
  <1>2. CASE denying[r] /\ UNCHANGED <<exec_file[r], denied_at[r]>>
    <2>1. /\ exec_file[r] \in Nodes /\ sector[exec_file[r]] \in Inodes
          /\ sector'[exec_file[r]] = sector[exec_file[r]]
      BY <1>2, ExecNode, SectorKept
    <2>2. content'[sector[exec_file[r]]] = content[sector[exec_file[r]]]
      <3>1. CASE WriteEnd(p)
        <4>1. sector[my_file[p][arg[p]]] # sector[exec_file[r]]
          BY <1>2, <3>1 DEF WriteEnd, WriteApart
        <4>2. content' = [content EXCEPT ![sector[my_file[p][arg[p]]]] = @ + 1]
          BY <3>1 DEF WriteEnd
        <4>3. content \in [Inodes -> Nat]
          BY DEF TypeOK
        <4> QED
          BY <2>1, <4>1, <4>2, <4>3
      <3> QED
        BY <3>1, ContentStep
    <2> QED
      BY <1>2, <2>1, <2>2 DEF ExecutableKept
  <1> QED
    BY <1>1, <1>2, DenyingStep

LEMMA FreshStep ==
  ASSUME TypeOK, Control, NEW p \in Procs, Step(p), Found(p), Last(p), broken # "stale"
  PROVE broken' # "stale"
  <1>1. CASE LoadStep(p) \/ UserStep(p) \/ Acquire(p)
    BY <1>1 DEF LoadStep, LoadSeek, LoadNothing, LoadDone, LoadFails, UserStep, CallName, CallFd,
                FilesizeUnknown, Exit, Acquire
  <1>2. CASE InodeStep(p)
    <2>1. ~EnterStale(p) /\ ~UnlinkStale(p)
      BY Tables DEF EnterStale, UnlinkStale, Found, Last
    <2> QED
      BY <1>2, <2>1 DEF InodeStep, EnterFound, EnterNew, EnterFails, Unlink
  <1>3. CASE KernelStep(p)
    BY <1>3 DEF KernelStep, Create, NameSeek, NameUnknown, Erase, Look, WriteStart, WriteEnd,
                Release, ReleaseOpened, AllowWrite, CloseExec, CloseFile, Exited
  <1> QED
    BY <1>1, <1>2, <1>3 DEF Step

LEMMA SafeInit == Init => SafeInv
  BY DEF Init, SafeInv, OneNode, WriteApart, ExecutableKept, Found, Last, Entering, Unlinking, NULL

LEMMA SafeStep == IInv /\ SafeInv /\ Alone /\ [Next]_vars => SafeInv'
  <1> SUFFICES ASSUME IInv, SafeInv, Alone, [Next]_vars PROVE SafeInv'
    OBVIOUS
  <1>0. /\ TypeOK /\ Control /\ LockHeld /\ OpensRight /\ DeniesRight /\ SectorRight
        /\ OneNode /\ WriteApart /\ ExecutableKept /\ broken # "stale"
        /\ \A r \in Procs : Found(r) /\ Last(r)
    BY CountsSplit DEF IInv, SafeInv
  <1>1. CASE Next
    <2>1. PICK p \in Procs : Step(p)
      BY <1>1 DEF Next, Step
    <2>2. OneNode' /\ WriteApart' /\ ExecutableKept' /\ broken' # "stale"
      BY <1>0, <2>1, OneNodeStep, ApartStep, KeptStep, FreshStep
    <2>3. \A r \in Procs : Found(r)' /\ Last(r)'
      BY <1>0, <2>1, FoundStep, LastStep
    <2> QED
      BY <2>2, <2>3 DEF SafeInv
  <1>2. CASE UNCHANGED vars
    BY <1>0, <1>2 DEF vars, calls, table, exec, search, disk, counts, SafeInv, OneNode, WriteApart,
                      ExecutableKept, Found, Last
  <1> QED
    BY <1>1, <1>2

-----------------------------------------------------------------------------
(* The theorems.                                                           *)

\* Every variable keeps its type.
THEOREM TypeCorrect == Spec => []TypeOK
  <1>1. IInv => TypeOK
    BY DEF IInv
  <1> QED
    BY <1>1, Invariant, PTL

\* Every struct file that a process has is counted once in its struct inode, which is on the
\* list, and every program that runs denies writes once: filesys_open, file_close,
\* file_deny_write and file_allow_write are paired on every path of load,
\* of the system calls and of process_exit, with any number of processes.
THEOREM FilesCounted == Spec => []CountsRight
  <1>1. IInv => CountsRight
    BY DEF IInv
  <1> QED
    BY <1>1, Invariant, PTL

\* The comment in load (no file should be allowed to modify the executable of a running
\* process) is true, and no struct inode is used after it has been freed, for
\* any number of processes, if nobody interrupts load or process_exit
\* where they work on files without file_lock.
THEOREM AloneIsSafe == Spec => SafeIfAlone
  <1>1. SafeInv => ExecutableKept /\ broken # "stale"
    BY DEF SafeInv
  <1> QED
    BY <1>1, SafeInit, SafeStep, Invariant, PTL DEF Spec, SafeIfAlone

\* process_exit leaves no file open and the thread ends without the lock.
THEOREM DeadRelease == Spec => []DeadHoldNothing
  <1>1. IInv => DeadHoldNothing
    <2> SUFFICES ASSUME IInv, NEW p \in Procs, pc[p] = "dead"
                 PROVE p \notin holders /\ ~denying[p] /\ \A d \in 0..MaxFd : FileAt(p, d) = NULL
      BY DEF DeadHoldNothing
    <2>1. p \notin holders
      BY DEF IInv, LockHeld, Inside, Ops, NameOps, FileOps
    <2>2. ~denying[p] /\ OpenFds(p) = {}
      BY DEF IInv, Control, ExecHeld, FdsFresh
    <2>3. \A d \in 0..MaxFd : d \notin {0, 1} => d \in Descriptors
      BY FileAssumption DEF FileAssumption, Descriptors
    <2> QED
      BY <2>1, <2>2, <2>3 DEF FileAt, OpenFds
  <1> QED
    BY <1>1, Invariant, PTL

\* No step of any process makes a descriptor stand for another file: open gives
\* a number that was not given before (++fd_size), only process_exit takes
\* files out of the list, and a struct inode that is open is not put to other use.
THEOREM DescriptorsStay == Spec => StableDescriptors
  <1> DEFINE Stay == \A p \in Procs, fd \in Descriptors :
                       my_file[p][fd] # NULL =>
                         \/ my_file'[p][fd] = my_file[p][fd] /\ sector'[my_file[p][fd]] = sector[my_file[p][fd]]
                         \/ pc[p] = "close_files"
  <1>1. IInv /\ [Next]_vars => [Stay]_vars
    <2> SUFFICES ASSUME IInv, Next, NEW q \in Procs, NEW fd \in Descriptors, my_file[q][fd] # NULL,
                        pc[q] # "close_files"
                 PROVE my_file'[q][fd] = my_file[q][fd] /\ sector'[my_file[q][fd]] = sector[my_file[q][fd]]
      OBVIOUS
    <2>0. TypeOK /\ Control /\ OpensRight /\ SectorRight
      BY CountsSplit DEF IInv
    <2>1. PICK p \in Procs : Step(p)
      BY DEF Next, Step
    <2>2. sector'[my_file[q][fd]] = sector[my_file[q][fd]]
      <3>1. my_file[q][fd] \in Nodes /\ FileAt(q, fd) = my_file[q][fd] /\ fd \in 0..MaxFd
        <4>1. my_file[q][fd] \in Nodes
          BY <2>0 DEF TypeOK
        <4>2. fd \in 0..MaxFd /\ fd # 0 /\ fd # 1
          BY FileAssumption DEF Descriptors, FileAssumption
        <4> QED
          BY <4>1, <4>2 DEF FileAt
      <3>2. opens[my_file[q][fd]] # 0
        BY <2>0, <3>1, OpensPositive
      <3> QED
        BY <2>0, <2>1, <3>1, <3>2, SectorKept
    <2>3. CASE q # p
      BY <2>0, <2>1, <2>2, <2>3, OthersStay DEF Own
    <2>4. CASE q = p
      <3>1. CASE ReleaseOpened(p)
        <4>1. my_file' = [my_file EXCEPT ![p][NewFd(p)] = file[p]]
          BY <3>1 DEF ReleaseOpened
        <4>2. NewFd(p) # fd
          <5>1. fd_size[p] \in Int /\ fd \in Int /\ ~(fd > fd_size[p])
            BY <2>0, <2>4 DEF TypeOK, Control, FdsFresh, Descriptors
          <5> QED
            BY <5>1 DEF NewFd
        <4> QED
          BY <2>0, <2>2, <2>4, <4>1, <4>2 DEF TypeOK
      <3>2. CASE CloseFile(p)
        BY <2>4, <3>2 DEF CloseFile
      <3>3. CASE LoadStep(p) \/ UserStep(p) \/ Acquire(p)
        BY <2>2, <3>3 DEF LoadStep, LoadSeek, LoadNothing, LoadDone, LoadFails, UserStep, CallName,
                    CallFd, FilesizeUnknown, Exit, Acquire, table
      <3>4. CASE InodeStep(p)
        BY <2>2, <3>4 DEF InodeStep, EnterFound, EnterStale, EnterNew, EnterFails, Unlink,
                          UnlinkStale, table
      <3>5. CASE \/ Create(p) \/ NameSeek(p) \/ NameUnknown(p) \/ Erase(p)
                 \/ Look(p) \/ WriteStart(p) \/ WriteEnd(p)
                 \/ Release(p) \/ AllowWrite(p) \/ CloseExec(p) \/ Exited(p)
        BY <2>2, <3>5 DEF Create, NameSeek, NameUnknown, Erase, Look, WriteStart, WriteEnd, Release,
                    AllowWrite, CloseExec, Exited, table
      <3> QED
        BY <2>1, <3>1, <3>2, <3>3, <3>4, <3>5 DEF Step, KernelStep
    <2> QED
      BY <2>3, <2>4
  <1> QED
    BY <1>1, Invariant, PTL DEF Spec, StableDescriptors

=============================================================================
