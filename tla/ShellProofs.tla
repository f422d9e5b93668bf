---------------------------- MODULE ShellProofs ----------------------------
(***************************************************************************)
(* Proofs about Shell, for every set of lines, number of launches,         *)
(* capacity of the pipes and length of the file: the invariants of the     *)
(* shell and its children, and that the terminal shows the composition of  *)
(* the stages.                                                             *)
(***************************************************************************)
EXTENDS Shell, WellFoundedInduction, TLAPS

(***************************************************************************)
(* The inductive invariant.                                                *)
(***************************************************************************)

\* Where the shell is in the line, and that the launches it has left are enough.
Position ==
  /\ pc \in {"pipe", "fork", "wait", "close"} => i \in 1..Len(line)
  /\ pc \in {"pipe", "close"} => i < Len(line)
  /\ pc \in {"pipe", "fork"} => launched + Len(line) - i + 1 <= MaxLaunches
  /\ pc \in {"wait", "close"} =>
       launched >= 1 /\ launched + Len(line) - i <= MaxLaunches

\* The write end that the shell has open is that of the stage it is at.
ShellWriteEnd ==
  \A k \in Launches :
    Write(k) \in fds =>
      /\ i < Len(line)
      /\ \/ pc = "fork" /\ k = launched + 1
         \/ pc \in {"wait", "close"} /\ k = launched

\* A process has no write end but its own.
OwnWriteEnd == \A p, k \in Launches : Write(k) \in ends[p] => p = k

\* What the next stage is to read is the pipe of the last one.
NextInput == \A k \in Launches : in = Read(k) /\ pc \in {"pipe", "fork"} => k = launched

\* A process reads the pipe of an earlier one.
InputBefore ==
  \A p, k \in Launches :
    state[p] \in {"forked", "running"} /\ stdin[p] = Read(k) => k < p

\* There is no process of a launch to come.
Unborn == \A p \in Launches : p > launched => state[p] = "none"

\* A process that does not run has nothing open.
Closed == \A p \in Launches : state[p] \notin {"forked", "running"} => ends[p] = {}

\* A program writes one unit at a time.
OneHeld == \A p \in Launches : Len(held[p]) <= 1

IInv ==
  /\ TypeOK /\ Position /\ ShellWriteEnd /\ OwnWriteEnd /\ NextInput
  /\ InputBefore /\ Unborn /\ Closed /\ OneHeld /\ OneAtATime

-----------------------------------------------------------------------------
(* What descriptors stand for differs.                                     *)

LEMMA EndsDiffer ==
  ASSUME NEW k \in Launches, NEW j \in Launches
  PROVE /\ Read(k) # Write(j)
        /\ Read(k) = Read(j) => k = j
        /\ Write(k) = Write(j) => k = j
        /\ Read(k) \notin {Terminal, File, Shut}
        /\ Write(k) \notin {Terminal, File, Shut}
  BY DEF Read, Write, Terminal, File, Shut

LEMMA EndsAreEnds ==
  ASSUME NEW k \in Launches
  PROVE Read(k) \in Ends /\ Write(k) \in Ends /\ Read(k) \in Streams /\ Write(k) \in Streams
  BY DEF Ends, Streams

\* A line has a stage, and every position in it holds one.
LEMMA LineStages ==
  ASSUME NEW l \in Lines
  PROVE Len(l) \in Nat /\ Len(l) >= 1 /\ \A n \in 1..Len(l) : l[n] \in StageType
  <1>1. l \in Seq(StageType) /\ l # <<>>
    BY ShellAssumption DEF ShellAssumption
  <1> QED
    BY <1>1

\* The shell is at a stage when it is in the middle of a line.
LEMMA AtStage ==
  ASSUME TypeOK, Position, pc \in {"pipe", "fork", "wait", "close"}
  PROVE /\ line \in Lines /\ Len(line) \in Nat /\ i \in 1..Len(line)
        /\ line[i] \in StageType
        /\ launched \in Nat /\ MaxLaunches \in Nat
  <1>1. i \in 1..Len(line) /\ launched \in Nat /\ MaxLaunches \in Nat
    BY ShellAssumption DEF TypeOK, Position, ShellAssumption
  <1>2. line # <<>>
    BY <1>1
  <1>3. line \in Lines
    BY <1>2 DEF TypeOK
  <1> QED
    BY <1>1, <1>3, LineStages

-----------------------------------------------------------------------------
(* The initial state, and the steps of the shell.                          *)

LEMMA InitInv == Init => IInv
  <1> SUFFICES ASSUME Init PROVE IInv
    OBVIOUS
  <1> USE ShellAssumption DEF Init, ShellAssumption
  <1>1. TypeOK
    <2>1. [prog |-> "missing", units |-> 0, amp |-> FALSE, from |-> "pipe", to |-> "pipe"]
            \in StageType
      BY DEF StageType
    <2>2. Terminal \in Streams
      BY DEF Streams
    <2> QED
      BY <2>1, <2>2 DEF TypeOK
  <1>2. Position /\ ShellWriteEnd /\ OwnWriteEnd /\ NextInput
    BY DEF Position, ShellWriteEnd, OwnWriteEnd, NextInput
  <1>3. InputBefore /\ Unborn /\ Closed /\ OneHeld /\ OneAtATime
    BY DEF InputBefore, Unborn, Closed, OneHeld, OneAtATime
  <1> QED
    BY <1>1, <1>2, <1>3 DEF IInv

LEMMA ReadLineInv == IInv /\ ReadLine => IInv'
  <1> SUFFICES ASSUME IInv, ReadLine PROVE IInv'
    OBVIOUS
  <1> USE ShellAssumption DEF IInv, ReadLine, ShellAssumption, shell, files, data
  <1>1. PICK l \in Lines :
          /\ launched + Len(l) <= MaxLaunches
          /\ line' = l
          /\ pc' = CASE Len(l) > 1 -> "pipe"
                     [] Len(l) = 1 /\ l[1].prog = "exit" -> "returned"
                     [] OTHER -> "fork"
    OBVIOUS
  <1>2. Len(l) \in Nat /\ Len(l) >= 1
    BY LineStages
  <1>3. /\ pc' \in {"pipe", "fork", "returned"}
        /\ pc' = "pipe" => Len(l) > 1
    BY <1>1, <1>2
  <1>4. Terminal \in Streams
    BY DEF Streams
  <1>5. TypeOK'
    BY <1>1, <1>2, <1>3, <1>4 DEF TypeOK
  <1>6. Position'
    BY <1>1, <1>2, <1>3 DEF Position, TypeOK
  <1>7. ShellWriteEnd'
    BY <1>1, <1>3 DEF ShellWriteEnd
  <1>8. NextInput'
    BY EndsDiffer DEF NextInput
  <1>9. OwnWriteEnd' /\ InputBefore' /\ Unborn' /\ Closed' /\ OneHeld' /\ OneAtATime'
    BY <1>3 DEF OwnWriteEnd, InputBefore, Unborn, Closed, OneHeld, OneAtATime
  <1> QED
    BY <1>5, <1>6, <1>7, <1>8, <1>9

LEMMA PipeInv == IInv /\ Pipe => IInv'
  <1> SUFFICES ASSUME IInv, Pipe PROVE IInv'
    OBVIOUS
  <1> USE DEF IInv, Pipe, shell, files, data
  <1>1. /\ Len(line) \in Nat /\ i \in 1..Len(line) /\ launched \in Nat /\ MaxLaunches \in Nat
        /\ i < Len(line) /\ launched + Len(line) - i + 1 <= MaxLaunches
    BY AtStage DEF Position
  <1>2. launched + 1 \in Launches
    BY <1>1 DEF Launches
  <1>3. TypeOK'
    BY <1>2, EndsAreEnds DEF TypeOK
  <1>4. Position'
    BY <1>1 DEF Position
  <1>5. ShellWriteEnd'
    BY <1>1, <1>2, EndsDiffer DEF ShellWriteEnd
  <1>6. NextInput'
    BY DEF NextInput
  <1>7. OwnWriteEnd' /\ InputBefore' /\ Unborn' /\ Closed' /\ OneHeld' /\ OneAtATime'
    BY DEF OwnWriteEnd, InputBefore, Unborn, Closed, OneHeld, OneAtATime
  <1> QED
    BY <1>3, <1>4, <1>5, <1>6, <1>7

LEMMA ForkInv == IInv /\ Fork => IInv'
  <1> SUFFICES ASSUME IInv, Fork PROVE IInv'
    OBVIOUS
  <1> USE DEF IInv, Fork, shell, files, data
  <1>1. /\ Len(line) \in Nat /\ i \in 1..Len(line) /\ launched \in Nat /\ MaxLaunches \in Nat
        /\ launched + Len(line) - i + 1 <= MaxLaunches /\ line[i] \in StageType
    BY AtStage DEF Position
  <1> DEFINE p == launched + 1
  <1>2. p \in Launches /\ launched' = p
    BY <1>1 DEF Launches
  <1>3. Out(p) \in Streams
    BY <1>2, EndsAreEnds DEF Out, Streams
  <1>4. pc' = IF Waits(line[i]) THEN "wait" ELSE IF i < Len(line) THEN "close" ELSE "prompt"
    BY DEF Launched
  <1>5. TypeOK'
    <2>1. (pc \in {"prompt", "pipe", "fork", "wait", "close", "returned"})'
      BY <1>4
    <2>2. (launched \in 0..MaxLaunches)' /\ (harmed \subseteq 1..launched)'
      BY <1>1, <1>2 DEF TypeOK, Launches
    <2>3. /\ (state \in [Launches -> {"none", "forked", "running", "zombie", "reaped"}])'
          /\ (stage \in [Launches -> StageType])'
      BY <1>1, <1>2 DEF TypeOK
    <2>4. /\ (stdin \in [Launches -> Streams])' /\ (stdout \in [Launches -> Streams])'
          /\ (ends \in [Launches -> SUBSET Ends])'
      BY <1>2, <1>3 DEF TypeOK
    <2> QED
      BY <2>1, <2>2, <2>3, <2>4 DEF TypeOK
  <1>6. Position'
    BY <1>1, <1>2, <1>4 DEF Position
  <1>7. ShellWriteEnd'
    BY <1>1, <1>2, <1>4 DEF ShellWriteEnd
  <1>8. OwnWriteEnd'
    <2> SUFFICES ASSUME NEW q \in Launches, NEW k \in Launches, Write(k) \in ends'[q]
                 PROVE q = k
      BY DEF OwnWriteEnd
    <2>1. CASE q = p
      BY <2>1, <1>2 DEF ShellWriteEnd, TypeOK
    <2>2. CASE q # p
      BY <2>2, <1>2 DEF OwnWriteEnd, TypeOK
    <2> QED
      BY <2>1, <2>2
  <1>9. NextInput'
    BY <1>4 DEF NextInput
  <1>10. InputBefore'
    <2> SUFFICES ASSUME NEW q \in Launches, NEW k \in Launches,
                        state'[q] \in {"forked", "running"}, stdin'[q] = Read(k)
                 PROVE k < q
      BY DEF InputBefore
    <2>1. CASE q = p
      BY <2>1, <1>1, <1>2 DEF NextInput, TypeOK
    <2>2. CASE q # p
      BY <2>2, <1>2 DEF InputBefore, TypeOK
    <2> QED
      BY <2>1, <2>2
  <1>11. Unborn'
    BY <1>1, <1>2 DEF Unborn, TypeOK, Launches
  <1>12. Closed'
    BY <1>2 DEF Closed, TypeOK
  <1>13. OneHeld'
    BY DEF OneHeld
  <1>14. OneAtATime'
    <2> SUFFICES ASSUME NEW q \in 1..p
                 PROVE stage'[q].amp \/ state'[q] \in {"none", "reaped"} \/ (pc' = "wait" /\ q = p)
      BY <1>2 DEF OneAtATime
    <2>1. CASE q = p
      BY <2>1, <1>2, <1>4 DEF Waits, TypeOK
    <2>2. CASE q # p
      <3>1. q \in 1..launched
        BY <2>2, <1>1
      <3>2. stage[q].amp \/ state[q] \in {"none", "reaped"}
        BY <3>1 DEF OneAtATime
      <3>3. stage'[q] = stage[q] /\ state'[q] = state[q]
        BY <2>2, <1>2, <3>1 DEF TypeOK
      <3> QED
        BY <3>2, <3>3
    <2> QED
      BY <2>1, <2>2
  <1> QED
    BY <1>5, <1>6, <1>7, <1>8, <1>9, <1>10, <1>11, <1>12, <1>13, <1>14

LEMMA ForkFailsInv == IInv /\ ForkFails => IInv'
  <1> SUFFICES ASSUME IInv, ForkFails PROVE IInv'
    OBVIOUS
  <1> USE DEF IInv, ForkFails, shell, files, data
  <1>1. /\ Len(line) \in Nat /\ i \in 1..Len(line) /\ launched \in Nat /\ MaxLaunches \in Nat
        /\ launched + Len(line) - i + 1 <= MaxLaunches
    BY AtStage DEF Position
  <1>2. launched + 1 \in Launches
    BY <1>1 DEF Launches
  <1>3. pc' = IF i < Len(line) THEN "close" ELSE "prompt"
    BY DEF Launched
  <1>4. TypeOK'
    <2>1. harmed' \subseteq 1..launched'
      BY <1>1 DEF TypeOK
    <2>2. launched' \in 0..MaxLaunches /\ pc' \in {"close", "prompt"}
      BY <1>1, <1>2, <1>3 DEF Launches
    <2> QED
      BY <2>1, <2>2 DEF TypeOK
  <1>5. Position'
    BY <1>1, <1>3 DEF Position
  <1>6. ShellWriteEnd'
    BY <1>1, <1>3 DEF ShellWriteEnd
  <1>7. NextInput'
    BY <1>3 DEF NextInput
  <1>8. Unborn'
    BY <1>1 DEF Unborn, Launches
  <1>9. OneAtATime'
    <2> SUFFICES ASSUME NEW q \in 1..(launched + 1)
                 PROVE stage[q].amp \/ state[q] \in {"none", "reaped"}
      BY DEF OneAtATime
    <2>1. CASE q = launched + 1
      BY <2>1, <1>1, <1>2 DEF Unborn
    <2>2. CASE q # launched + 1
      BY <2>2, <1>1 DEF OneAtATime
    <2> QED
      BY <2>1, <2>2
  <1>10. OwnWriteEnd' /\ InputBefore' /\ Closed' /\ OneHeld'
    BY DEF OwnWriteEnd, InputBefore, Closed, OneHeld
  <1> QED
    BY <1>4, <1>5, <1>6, <1>7, <1>8, <1>9, <1>10

LEMMA WaitInv == IInv /\ Wait => IInv'
  <1> SUFFICES ASSUME IInv, Wait PROVE IInv'
    OBVIOUS
  <1> USE DEF IInv, Wait, shell, files, data
  <1>1. /\ Len(line) \in Nat /\ i \in 1..Len(line) /\ launched \in Nat /\ MaxLaunches \in Nat
        /\ launched >= 1 /\ launched + Len(line) - i <= MaxLaunches
    BY AtStage DEF Position
  <1>2. launched \in Launches
    BY <1>1 DEF Launches
  <1>3. pc' = IF i < Len(line) THEN "close" ELSE "prompt"
    BY DEF Launched
  <1>4. TypeOK'
    BY <1>2, <1>3 DEF TypeOK
  <1>5. Position'
    BY <1>1, <1>3 DEF Position
  <1>6. ShellWriteEnd'
    BY <1>3 DEF ShellWriteEnd
  <1>7. NextInput'
    BY <1>3 DEF NextInput
  <1>8. InputBefore' /\ Unborn' /\ Closed'
    BY <1>1, <1>2 DEF InputBefore, Unborn, Closed, TypeOK
  <1>9. OneAtATime'
    BY <1>1, <1>2 DEF OneAtATime, TypeOK, Launches
  <1>10. OwnWriteEnd' /\ OneHeld'
    BY DEF OwnWriteEnd, OneHeld
  <1> QED
    BY <1>4, <1>5, <1>6, <1>7, <1>8, <1>9, <1>10

LEMMA CloseInv == IInv /\ Close => IInv'
  <1> SUFFICES ASSUME IInv, Close PROVE IInv'
    OBVIOUS
  <1> USE DEF IInv, Close, shell, files, data
  <1>1. /\ Len(line) \in Nat /\ i \in 1..Len(line) /\ launched \in Nat /\ MaxLaunches \in Nat
        /\ i < Len(line) /\ launched >= 1 /\ launched + Len(line) - i <= MaxLaunches
    BY AtStage DEF Position
  <1>2. launched \in Launches
    BY <1>1 DEF Launches
  <1>3. pc' \in {"pipe", "fork"} /\ (pc' = "pipe" => i + 1 < Len(line))
    OBVIOUS
  <1>4. TypeOK'
    <2>1. in' \in Streams /\ fds' \in SUBSET Ends
      BY <1>2, EndsAreEnds DEF TypeOK
    <2>2. i' \in 0..Len(line)
      BY <1>1
    <2> QED
      BY <1>3, <2>1, <2>2 DEF TypeOK
  <1>5. Position'
    BY <1>1, <1>3 DEF Position
  <1>6. ShellWriteEnd'
    BY <1>2 DEF ShellWriteEnd
  <1>7. NextInput'
    BY <1>2, EndsDiffer DEF NextInput
  <1>8. OneAtATime'
    BY DEF OneAtATime
  <1>9. OwnWriteEnd' /\ InputBefore' /\ Unborn' /\ Closed' /\ OneHeld'
    BY DEF OwnWriteEnd, InputBefore, Unborn, Closed, OneHeld
  <1> QED
    BY <1>4, <1>5, <1>6, <1>7, <1>8, <1>9

-----------------------------------------------------------------------------
(* The steps of the processes.                                             *)

LEMMA ExecInv == ASSUME NEW p \in Launches PROVE IInv /\ Exec(p) => IInv'
  <1> SUFFICES ASSUME IInv, Exec(p) PROVE IInv'
    OBVIOUS
  <1> USE DEF IInv, Exec, shell, data
  <1>1. Source(p) \in Streams /\ Target(p) \in Streams
    BY DEF Source, Target, Streams, TypeOK
  <1>2. Kept(p) \subseteq ends[p]
    BY DEF Kept
  <1>3. \A k \in Launches : Source(p) = Read(k) => stdin[p] = Read(k)
    BY EndsDiffer DEF Source
  <1>4. TypeOK'
    BY <1>1, <1>2 DEF TypeOK
  <1>5. Position' /\ ShellWriteEnd' /\ NextInput' /\ OneHeld'
    BY DEF Position, ShellWriteEnd, NextInput, OneHeld
  <1>6. OwnWriteEnd'
    BY <1>2 DEF OwnWriteEnd, TypeOK
  <1>7. InputBefore'
    BY <1>3 DEF InputBefore, TypeOK
  <1>8. Unborn' /\ Closed'
    BY DEF Unborn, Closed, TypeOK
  <1>9. OneAtATime'
    BY DEF OneAtATime, TypeOK
  <1> QED
    BY <1>4, <1>5, <1>6, <1>7, <1>8, <1>9

\* The end of a process: ExecFails, ExecGarbled, Exit and Killed.
LEMMA EndInv ==
  ASSUME NEW p \in Launches, IInv, state[p] \in {"forked", "running"}, End(p),
         harmed' \in {harmed, harmed \cup {p}}
  PROVE IInv'
  <1> USE DEF IInv, End, shell, data
  <1>1. p \in 1..launched
    BY DEF Unborn, Launches, TypeOK
  <1>2. TypeOK'
    BY <1>1 DEF TypeOK
  <1>3. Position' /\ ShellWriteEnd' /\ NextInput' /\ OneHeld'
    BY DEF Position, ShellWriteEnd, NextInput, OneHeld
  <1>4. OwnWriteEnd' /\ InputBefore'
    BY DEF OwnWriteEnd, InputBefore, TypeOK
  <1>5. Unborn' /\ Closed'
    BY DEF Unborn, Closed, TypeOK
  <1>6. OneAtATime'
    BY DEF OneAtATime, TypeOK
  <1> QED
    BY <1>2, <1>3, <1>4, <1>5, <1>6

\* A step that moves data alone preserves the invariant if what it moves is sound.
LEMMA DataInv ==
  ASSUME IInv, UNCHANGED <<shell, state, stage, files, harmed>>,
         done' \in [Launches -> Nat], held' \in [Launches -> Seq(Units)], OneHeld',
         buffer' \in [Launches -> Seq(Units)], \A k \in Launches : Len(buffer'[k]) <= Capacity,
         screen' \in [Launches -> Seq(Units)]
  PROVE IInv'
  <1> USE DEF IInv, shell, files
  <1>1. TypeOK'
    BY DEF TypeOK
  <1>2. Position' /\ ShellWriteEnd' /\ NextInput' /\ OwnWriteEnd'
    BY DEF Position, ShellWriteEnd, NextInput, OwnWriteEnd
  <1>3. InputBefore' /\ Unborn' /\ Closed' /\ OneAtATime'
    BY DEF InputBefore, Unborn, Closed, OneAtATime
  <1> QED
    BY <1>1, <1>2, <1>3

LEMMA EmitInv == ASSUME NEW p \in Launches PROVE IInv /\ Emit(p) => IInv'
  <1> SUFFICES ASSUME IInv, Emit(p) PROVE IInv'
    OBVIOUS
  <1> USE DEF IInv, Emit
  <1>1. done' \in [Launches -> Nat] /\ done'[p] \in Nat \ {0}
    BY DEF TypeOK
  <1>2. <<p, done'[p]>> \in Units
    BY <1>1, ShellAssumption DEF Units, Launches, ShellAssumption
  <1>3. held' \in [Launches -> Seq(Units)]
    BY <1>2 DEF TypeOK
  <1>4. OneHeld'
    BY DEF OneHeld, TypeOK
  <1> QED
    BY <1>1, <1>3, <1>4, DataInv DEF TypeOK

LEMMA TakeFromPipeInv == ASSUME NEW p \in Launches PROVE IInv /\ TakeFromPipe(p) => IInv'
  <1> SUFFICES ASSUME IInv, TakeFromPipe(p) PROVE IInv'
    OBVIOUS
  <1> USE DEF IInv, TakeFromPipe
  <1>1. PICK k \in Launches :
          /\ buffer[k] # <<>>
          /\ held' = [held EXCEPT ![p] = <<Head(buffer[k])>>]
          /\ buffer' = [buffer EXCEPT ![k] = Tail(@)]
    OBVIOUS
  <1>2. buffer[k] \in Seq(Units)
    BY DEF TypeOK
  <1>3. /\ Head(buffer[k]) \in Units /\ Tail(buffer[k]) \in Seq(Units)
        /\ Len(Tail(buffer[k])) <= Len(buffer[k])
    BY <1>1, <1>2
  <1>4. buffer' \in [Launches -> Seq(Units)]
    BY <1>1, <1>3 DEF TypeOK
  <1>5. \A j \in Launches : Len(buffer'[j]) <= Capacity
    <2> SUFFICES ASSUME NEW j \in Launches PROVE Len(buffer'[j]) <= Capacity
      OBVIOUS
    <2>1. Len(buffer[j]) <= Capacity /\ Len(buffer[j]) \in Nat /\ Capacity \in Nat
      BY ShellAssumption DEF TypeOK, ShellAssumption
    <2>2. CASE j = k
      <3>1. buffer'[j] = Tail(buffer[k])
        BY <2>2, <1>1 DEF TypeOK
      <3>2. Len(Tail(buffer[k])) \in Nat
        BY <1>3
      <3> QED
        BY <2>1, <2>2, <3>1, <3>2, <1>3
    <2>3. CASE j # k
      BY <2>1, <2>3, <1>1 DEF TypeOK
    <2> QED
      BY <2>2, <2>3
  <1>6. done' \in [Launches -> Nat]
    <2>1. done \in [Launches -> Nat] /\ done' = [done EXCEPT ![p] = @ + 1]
      BY DEF TypeOK
    <2> QED
      BY <2>1
  <1>7. held' \in [Launches -> Seq(Units)] /\ OneHeld'
    <2>1. held \in [Launches -> Seq(Units)]
      BY DEF TypeOK
    <2>2. <<Head(buffer[k])>> \in Seq(Units) /\ Len(<<Head(buffer[k])>>) = 1
      BY <1>3
    <2> HIDE DEF TakeFromPipe
    <2>3. held' \in [Launches -> Seq(Units)]
      BY <1>1, <2>1, <2>2
    <2>4. \A q \in Launches : held'[q] = IF q = p THEN <<Head(buffer[k])>> ELSE held[q]
      BY <1>1, <2>1
    <2>5. ASSUME NEW q \in Launches PROVE Len(held'[q]) <= 1
      <3>1. CASE q = p
        <4>1. held'[q] = <<Head(buffer[k])>>
          BY <3>1, <2>4
        <4> QED
          BY <4>1, <2>2
      <3>2. CASE q # p
        <4>1. held'[q] = held[q]
          BY <3>2, <2>4
        <4> QED
          BY <4>1 DEF OneHeld
      <3> QED
        BY <3>1, <3>2
    <2> QED
      BY <2>3, <2>5 DEF OneHeld
  <1> QED
    BY <1>4, <1>5, <1>6, <1>7, DataInv DEF TypeOK

LEMMA TakeFromFileInv == ASSUME NEW p \in Launches PROVE IInv /\ TakeFromFile(p) => IInv'
  <1> SUFFICES ASSUME IInv, TakeFromFile(p) PROVE IInv'
    OBVIOUS
  <1> USE DEF IInv, TakeFromFile
  <1>1. done' \in [Launches -> Nat] /\ done'[p] \in 1..FileLength
    BY ShellAssumption DEF TypeOK, ShellAssumption
  <1>2. FileData[done'[p]] \in Units
    BY <1>1, ShellAssumption DEF FileData, Units, ShellAssumption
  <1>3. held' \in [Launches -> Seq(Units)] /\ OneHeld'
    BY <1>2 DEF TypeOK, OneHeld
  <1> QED
    BY <1>1, <1>3, DataInv DEF TypeOK

LEMMA OneMore ==
  ASSUME NEW a \in Nat, NEW b \in Nat, NEW c \in Nat, a < c, b <= 1
  PROVE a + b <= c
  OBVIOUS

LEMMA PutToPipeInv == ASSUME NEW p \in Launches PROVE IInv /\ PutToPipe(p) => IInv'
  <1> SUFFICES ASSUME IInv, PutToPipe(p) PROVE IInv'
    OBVIOUS
  <1> USE DEF IInv, PutToPipe
  <1>1. PICK k \in Launches :
          Len(buffer[k]) < Capacity /\ buffer' = [buffer EXCEPT ![k] = @ \o held[p]]
    OBVIOUS
  <1>2. buffer[k] \in Seq(Units) /\ held[p] \in Seq(Units) /\ Len(held[p]) <= 1
    BY DEF TypeOK, OneHeld
  <1>3. /\ buffer[k] \o held[p] \in Seq(Units)
        /\ Len(buffer[k] \o held[p]) = Len(buffer[k]) + Len(held[p])
    BY <1>2
  <1>4. Len(buffer[k] \o held[p]) <= Capacity
    <2> HIDE DEF IInv, PutToPipe
    <2>1. Len(buffer[k]) \in Nat /\ Len(held[p]) \in Nat /\ Capacity \in Nat
      BY <1>2, ShellAssumption DEF ShellAssumption
    <2>2. Len(buffer[k]) < Capacity
      BY <1>1
    <2>3. Len(held[p]) <= 1
      BY <1>2
    <2>4. Len(buffer[k]) + Len(held[p]) <= Capacity
      BY <2>1, <2>2, <2>3, OneMore, Zenon
    <2> QED
      BY <1>3, <2>4, Zenon
  <1>5. buffer' \in [Launches -> Seq(Units)] /\ \A j \in Launches : Len(buffer'[j]) <= Capacity
    BY <1>1, <1>3, <1>4 DEF TypeOK
  <1>6. held' \in [Launches -> Seq(Units)] /\ OneHeld'
    <2>1. held' = [held EXCEPT ![p] = <<>>] /\ held \in [Launches -> Seq(Units)]
          /\ \A q \in Launches : Len(held[q]) <= 1
      BY DEF TypeOK, OneHeld
    <2> HIDE DEF IInv, PutToPipe
    <2>2. <<>> \in Seq(Units) /\ Len(<<>>) = 0
      OBVIOUS
    <2>3. \A q \in Launches : held'[q] = IF q = p THEN <<>> ELSE held[q]
      BY <2>1
    <2> QED
      BY <2>1, <2>2, <2>3 DEF OneHeld
  <1> QED
    BY <1>5, <1>6, DataInv DEF TypeOK

LEMMA PutInv == ASSUME NEW p \in Launches PROVE IInv /\ Put(p) => IInv'
  <1> SUFFICES ASSUME IInv, Put(p) PROVE IInv'
    OBVIOUS
  <1> USE DEF IInv, Put
  <1>1. screen[p] \o held[p] \in Seq(Units)
    BY DEF TypeOK
  <1>2. screen' \in [Launches -> Seq(Units)]
    BY <1>1 DEF TypeOK
  <1>3. held' \in [Launches -> Seq(Units)] /\ OneHeld'
    BY DEF TypeOK, OneHeld
  <1> QED
    BY <1>2, <1>3, DataInv DEF TypeOK

-----------------------------------------------------------------------------
(* The theorems.                                                           *)

LEMMA StepInv == IInv /\ [Next]_vars => IInv'
  <1> SUFFICES ASSUME IInv, [Next]_vars PROVE IInv'
    OBVIOUS
  <1>1. CASE ShellStep
    BY <1>1, ReadLineInv, PipeInv, ForkInv, ForkFailsInv, WaitInv, CloseInv DEF ShellStep
  <1>2. ASSUME NEW p \in Launches, ProcessStep(p) PROVE IInv'
    <2>1. CASE ExecFails(p) \/ ExecGarbled(p)
      BY <2>1, EndInv DEF ExecFails, ExecGarbled
    <2>2. CASE Exit(p)
      BY <2>2, EndInv DEF Exit
    <2> QED
      BY <1>2, <2>1, <2>2, ExecInv, EmitInv, TakeFromPipeInv, TakeFromFileInv, PutToPipeInv,
         PutInv DEF ProcessStep
  <1>3. ASSUME NEW p \in Launches, Killed(p) PROVE IInv'
    BY <1>3, EndInv DEF Killed
  <1>4. CASE UNCHANGED vars
    <2>1. UNCHANGED <<shell, state, stage, files, harmed>> /\ UNCHANGED <<done, held, buffer, screen>>
      BY <1>4 DEF vars, data
    <2> QED
      BY <2>1, DataInv DEF IInv, TypeOK, OneHeld
  <1> QED
    BY <1>1, <1>2, <1>3, <1>4 DEF Next

\* The inductive invariant holds in every reachable state of the shell and its children.
THEOREM Invariant == Spec => []IInv
  BY InitInv, StepInv, PTL DEF Spec

\* Every variable has its type; in particular no pipe ever holds more than it can.
THEOREM TypeCorrect == Spec => []TypeOK
  <1>1. IInv => TypeOK
    BY DEF IInv
  <1> QED
    BY <1>1, Invariant, PTL

\* Every stage that the shell waits for has been collected when it starts another.
THEOREM StagesInTurn == Spec => []OneAtATime
  <1>1. IInv => OneAtATime
    BY DEF IInv
  <1> QED
    BY <1>1, Invariant, PTL

\* When a stage reads a pipe, only the stage before it can still write to it.
LEMMA OnlyWriter == IInv => EndCanCome
  <1> SUFFICES ASSUME IInv, NEW p \in Launches, NEW k \in Launches,
                      state[p] \in {"forked", "running"}, stdin[p] = Read(k)
               PROVE Write(k) \notin fds /\ HeldBy(Write(k)) \subseteq {k}
    BY DEF EndCanCome
  <1> USE DEF IInv
  <1>1. k < p /\ p <= launched
    <2>1. launched \in Nat
      BY ShellAssumption DEF TypeOK, ShellAssumption
    <2> QED
      BY <2>1 DEF InputBefore, Unborn, Launches
  <1>2. Write(k) \notin fds
    BY <1>1, ShellAssumption DEF ShellWriteEnd, Launches, TypeOK, ShellAssumption
  <1>3. HeldBy(Write(k)) \subseteq {k}
    BY DEF HeldBy, OwnWriteEnd
  <1> QED
    BY <1>2, <1>3

\* The end of every pipe can come for its reader: nobody else has kept the write end.
THEOREM ReadersCanEnd == Spec => []EndCanCome
  BY OnlyWriter, Invariant, PTL

LEMMA InputFromBackground == IInv => StarvesOnlyOnBackground
  <1> SUFFICES ASSUME IInv, pc = "wait", Starves(launched)
               PROVE \E k \in 1..(launched - 1) :
                       /\ stdin[launched] = Read(k) /\ stage[k].amp
                       /\ state[k] \in {"forked", "running"}
    BY DEF StarvesOnlyOnBackground
  <1> DEFINE p == launched
  <1>1. p \in Launches /\ p \in Nat
    BY ShellAssumption DEF IInv, TypeOK, Position, Launches, ShellAssumption
  <1>2. state[p] = "running"
    BY DEF Starves, Reads
  <1>3. PICK k \in Launches : stdin[p] = Read(k) /\ buffer[k] = <<>>
    BY DEF Starves
  <1>4. k < p
    BY <1>1, <1>2, <1>3 DEF IInv, InputBefore
  <1>5. Write(k) \notin fds /\ HeldBy(Write(k)) \subseteq {k}
    BY <1>1, <1>2, <1>3, OnlyWriter DEF EndCanCome
  <1>6. HeldBy(Write(k)) # {}
    <2>1. stdin[p] # File
      BY <1>3, EndsDiffer
    <2>2. PICK j \in Launches : /\ stdin[p] = Read(j)
                                /\ ~(buffer[j] = <<>> /\ Write(j) \notin fds /\ HeldBy(Write(j)) = {})
      BY <2>1 DEF Starves, AtEnd
    <2>3. j = k
      BY <2>2, <1>3, EndsDiffer
    <2> QED
      BY <2>2, <2>3, <1>3, <1>5
  <1>7. Write(k) \in ends[k]
    BY <1>5, <1>6 DEF HeldBy
  <1>8. state[k] \in {"forked", "running"}
    BY <1>7 DEF IInv, Closed
  <1>9. k \in 1..(p - 1)
    BY <1>1, <1>4 DEF Launches
  <1>10. stage[k].amp
    BY <1>1, <1>4, <1>8, <1>9 DEF IInv, OneAtATime
  <1> QED
    BY <1>3, <1>8, <1>9, <1>10

\* The process that the shell waits for lacks input only while a stage in the
\* background is there to give it some, or to end.
THEOREM NeverStarvedForGood == Spec => []StarvesOnlyOnBackground
  BY InputFromBackground, Invariant, PTL

(***************************************************************************)
(* Numbers.                                                                *)
(***************************************************************************)

\* A nonempty set of naturals has a least element, from which the induction below starts.
LEMMA Least ==
  ASSUME NEW T \in SUBSET Nat, T # {}
  PROVE  \E n \in T : \A m \in T : n <= m
  <1>1. PICK n \in T : \A m \in T : ~ (<<m, n>> \in OpToRel(<, Nat))
    BY NatLessThanWellFounded, WFMin
  <1>2. \A m \in T : m < n => <<m, n>> \in OpToRel(<, Nat)
    BY DEF OpToRel
  <1>3. \A m \in T : ~ (m < n)
    BY <1>1, <1>2, Zenon
  <1> QED
    BY <1>3

\* Induction over a set of numbers, up to N.
LEMMA Induction ==
  ASSUME NEW N \in Nat, NEW T, 0 \in T,
         \A n \in 0..N : n \in T /\ n < N => n + 1 \in T
  PROVE  \A n \in 0..N : n \in T
  <1> DEFINE U == {n \in 0..N : n \notin T}
  <1> SUFFICES ASSUME U # {} PROVE FALSE
    OBVIOUS
  <1>1. PICK n \in U : \A m \in U : n <= m
    <2>1. U \in SUBSET Nat
      OBVIOUS
    <2> HIDE DEF U
    <2> QED
      BY <2>1, Least
  <1>2. n \in 0..N /\ n \notin T /\ n # 0
    BY <1>1
  <1>3. n - 1 \in 0..N /\ n - 1 < N /\ n - 1 \notin U
    <2>1. n - 1 \in 0..N /\ n - 1 < N /\ ~ (n <= n - 1)
      BY <1>2
    <2> HIDE DEF U
    <2> QED
      BY <1>1, <2>1
  <1>4. (n - 1) + 1 \in T
    BY <1>3
  <1> QED
    BY <1>2, <1>4

(***************************************************************************)
(* The output of a line.  Output(b) is a function given by recursion: that *)
(* one exists which satisfies its equation, and what follows from it for   *)
(* every stage, is shown by induction over the stages.                     *)
(***************************************************************************)

\* One unfolding of Output.
OutputStep(f, n, b) ==
  IF n = 0 \/ line[n].prog \notin {"emit", "copy"} \/ line[n].to # "pipe" THEN <<>>
  ELSE IF line[n].prog = "emit" THEN [j \in 1..line[n].units |-> <<b + n, j>>]
  ELSE Prefix(CASE line[n].from = "file" -> FileData
                [] line[n].from = "none" -> <<>>
                [] OTHER                 -> f[n - 1], line[n].units)

\* What the units are, of whatever number of launches.
Pairs == Nat \X Nat

\* What Prefix is.
LEMMA PrefixIs ==
  ASSUME NEW s \in Seq(Pairs), NEW u \in Nat
  PROVE  /\ Prefix(s, u) \in Seq(Pairs)
         /\ Len(Prefix(s, u)) = IF u < Len(s) THEN u ELSE Len(s)
         /\ \A j \in 1..Len(Prefix(s, u)) : Prefix(s, u)[j] = s[j]
  <1> DEFINE m == IF u < Len(s) THEN u ELSE Len(s)
  <1>1. m \in Nat /\ m <= Len(s)
    OBVIOUS
  <1>2. Prefix(s, u) = SubSeq(s, 1, m)
    BY DEF Prefix
  <1> HIDE DEF m
  <1>3. SubSeq(s, 1, m) \in Seq(Pairs) /\ Len(SubSeq(s, 1, m)) = m
        /\ \A j \in 1..m : SubSeq(s, 1, m)[j] = s[j]
    BY <1>1
  <1> QED
    BY <1>2, <1>3 DEF m

\* The file, and what emit makes, are sequences.
LEMMA FileIs == FileData \in Seq(Pairs) /\ Len(FileData) = FileLength
  BY ShellAssumption DEF FileData, Pairs

LEMMA EmitIs ==
  ASSUME NEW u \in Nat, NEW p \in Nat
  PROVE  [j \in 1..u |-> <<p, j>>] \in Seq(Pairs) /\ Len([j \in 1..u |-> <<p, j>>]) = u
  BY DEF Pairs

\* A step of the composition yields a sequence, given what the stage before leaves.
LEMMA OutputType ==
  ASSUME line \in Lines, NEW b \in Nat, NEW n \in 0..Len(line), NEW f,
         n > 0 => f[n - 1] \in Seq(Pairs)
  PROVE  OutputStep(f, n, b) \in Seq(Pairs)
  <1>1. CASE n = 0
    BY <1>1 DEF OutputStep
  <1>2. CASE n # 0
    <2>1. n \in 1..Len(line) /\ line[n] \in StageType /\ b + n \in Nat /\ n > 0
      BY <1>2, LineStages
    <2>2. line[n].units \in Nat
      BY <2>1 DEF StageType
    <2> DEFINE s == CASE line[n].from = "file" -> FileData
                      [] line[n].from = "none" -> <<>>
                      [] OTHER                 -> f[n - 1]
    <2>3. s \in Seq(Pairs)
      BY <2>1, FileIs
    <2> HIDE DEF s
    <2>4. Prefix(s, line[n].units) \in Seq(Pairs)
      BY <2>2, <2>3, PrefixIs
    <2>5. [j \in 1..line[n].units |-> <<b + n, j>>] \in Seq(Pairs)
      BY <2>1, <2>2, EmitIs
    <2>6. <<>> \in Seq(Pairs)
      OBVIOUS
    <2> QED
      BY <2>4, <2>5, <2>6 DEF OutputStep, s
  <1> QED
    BY <1>1, <1>2

\* The function Output(b) exists.
LEMMA OutputExists ==
  ASSUME line \in Lines, NEW b \in Nat
  PROVE  \E f \in [0..Len(line) -> Seq(Pairs)] : f = [n \in 0..Len(line) |-> OutputStep(f, n, b)]
  <1> DEFINE L == Len(line)
             F == [0..L -> Seq(Pairs)]
             Fixed(f, n) == \A k \in 0..n : f[k] = OutputStep(f, k, b)
             T == {n \in 0..L : \E f \in F : Fixed(f, n)}
  <1>1. L \in Nat
    BY LineStages
  <1>2. ASSUME NEW f \in F, NEW n \in 0..L PROVE OutputStep(f, n, b) \in Seq(Pairs)
    <2>1. n > 0 => n - 1 \in 0..L
      BY <1>1
    <2> QED
      BY <2>1, OutputType
  <1>3. ASSUME NEW f, NEW g, NEW k \in 0..L, k > 0 => f[k - 1] = g[k - 1]
        PROVE  OutputStep(f, k, b) = OutputStep(g, k, b)
    <2>1. k = 0 \/ k > 0
      BY <1>1
    <2> QED
      BY <1>3, <2>1 DEF OutputStep
  <1> HIDE DEF L
  <1>4. 0 \in T
    <2> DEFINE e == [k \in 0..L |-> <<>>]
    <2>1. e \in F
      OBVIOUS
    <2>2. Fixed(e, 0)
      <3>1. 0 \in 0..L /\ \A k \in 0..0 : k = 0
        BY <1>1
      <3>2. OutputStep(e, 0, b) = <<>> /\ e[0] = <<>>
        BY <3>1 DEF OutputStep
      <3> QED
        BY <3>1, <3>2
    <2> HIDE DEF F, Fixed, e
    <2> QED
      BY <1>1, <2>1, <2>2
  <1>5. ASSUME NEW m \in 0..L, m \in T, m < L PROVE m + 1 \in T
    <2>1. PICK f \in F : Fixed(f, m)
      BY <1>5
    <2> DEFINE g == [f EXCEPT ![m + 1] = OutputStep(f, m + 1, b)]
    <2>2. m + 1 \in 0..L /\ m + 1 # 0 /\ (m + 1) - 1 = m
      BY <1>1, <1>5
    <2>3. OutputStep(f, m + 1, b) \in Seq(Pairs)
      BY <1>2, <2>2
    <2>4. g \in F /\ g[m + 1] = OutputStep(f, m + 1, b) /\ \A k \in 0..L : k # m + 1 => g[k] = f[k]
      BY <2>2, <2>3
    <2> HIDE DEF g
    <2>5. Fixed(g, m + 1)
      <3> SUFFICES ASSUME NEW k \in 0..(m + 1) PROVE g[k] = OutputStep(g, k, b)
        OBVIOUS
      <3>1. k \in Nat /\ (k = m + 1 \/ (k \in 0..m /\ k # m + 1)) /\ k \in 0..L
        BY <1>1, <1>5
      <3>2. k > 0 => k - 1 \in 0..L /\ k - 1 # m + 1
        BY <1>1, <1>5, <3>1
      <3>3. OutputStep(g, k, b) = OutputStep(f, k, b)
        <4>1. k > 0 => g[k - 1] = f[k - 1]
          BY <2>4, <3>2
        <4> QED
          BY <1>3, <3>1, <4>1
      <3> QED
        BY <2>1, <2>4, <3>1, <3>3
    <2> HIDE DEF F, Fixed
    <2> QED
      BY <2>2, <2>4, <2>5
  <1>6. L \in T
    <2>1. L \in 0..L
      BY <1>1
    <2> HIDE DEF T
    <2> QED
      BY <1>1, <1>4, <1>5, <2>1, Induction
  <1>7. PICK f \in F : Fixed(f, L)
    BY <1>6
  <1>8. f = [n \in 0..L |-> OutputStep(f, n, b)]
    BY <1>7
  <1> QED
    BY <1>8 DEF L

\* It is the one that Output chooses, and its values are sequences.
LEMMA OutputIs ==
  ASSUME line \in Lines, NEW b \in Nat
  PROVE  \A n \in 0..Len(line) : /\ Output(b)[n] = OutputStep(Output(b), n, b)
                                 /\ Output(b)[n] \in Seq(Pairs)
  <1> DEFINE P(f) == f = [n \in 0..Len(line) |-> OutputStep(f, n, b)]
  <1>1. Output(b) = CHOOSE f : P(f)
    BY DEF Output, OutputStep
  <1>2. \E f : P(f)
    BY OutputExists
  <1>3. P(Output(b))
    <2> HIDE DEF P
    <2> QED
      BY <1>1, <1>2
  <1>4. \A n \in 0..Len(line) : Output(b)[n] = OutputStep(Output(b), n, b)
    BY <1>3, Zenon
  <1> DEFINE T == {n \in 0..Len(line) : Output(b)[n] \in Seq(Pairs)}
  <1>5. Len(line) \in Nat
    BY LineStages
  <1>6. 0 \in T
    <2>1. 0 \in 0..Len(line) /\ OutputStep(Output(b), 0, b) = <<>>
      BY <1>5 DEF OutputStep
    <2>2. Output(b)[0] = <<>>
      BY <1>4, <2>1, Zenon
    <2>3. Output(b)[0] \in Seq(Pairs)
      <3>1. <<>> \in Seq(Pairs)
        OBVIOUS
      <3> QED
        BY <2>2, <3>1, Zenon
    <2> QED
      BY <2>1, <2>3, Zenon
  <1>7. \A n \in 0..Len(line) : n \in T /\ n < Len(line) => n + 1 \in T
    <2> SUFFICES ASSUME NEW n \in 0..Len(line), n \in T, n < Len(line) PROVE n + 1 \in T
      OBVIOUS
    <2>1. n + 1 \in 0..Len(line) /\ (n + 1) - 1 = n
      BY <1>5
    <2>2. OutputStep(Output(b), n + 1, b) \in Seq(Pairs)
      BY <2>1, OutputType
    <2> QED
      BY <1>4, <2>1, <2>2
  <1>8. \A n \in 0..Len(line) : n \in T
    <2> HIDE DEF T
    <2> QED
      BY <1>5, <1>6, <1>7, Induction
  <1> QED
    BY <1>4, <1>8

(***************************************************************************)
(* The way of the units: each that a stage of the line has made is with    *)
(* the next stage, in the pipe, in hand or on the terminal, in order.      *)
(***************************************************************************)

\* The stages of the line that have been launched, and the launches before them.
Begun ==
  CASE pc \in {"pipe", "fork"} -> i - 1
    [] pc \in {"wait", "close"} -> i
    [] pc = "prompt" -> Len(line)
    [] pc = "returned" -> 0
Base == launched - Begun

\* What the stage n of the line makes of its input, wherever that goes.
Input(n) ==
  CASE line[n].from = "file" -> FileData
    [] line[n].from = "none" -> <<>>
    [] OTHER -> Output(Base)[n - 1]
Made(n) ==
  CASE line[n].prog = "emit" -> [j \in 1..line[n].units |-> <<Base + n, j>>]
    [] line[n].prog = "copy" -> Prefix(Input(n), line[n].units)
    [] OTHER -> <<>>

\* What the reader of the pipe p has taken of it.
ReaderOf(p) == p + 1 \in Launches /\ stdin[p + 1] = Read(p) /\ stage[p + 1].prog = "copy"
Taken(p) == IF ReaderOf(p) THEN done[p + 1] ELSE 0

\* Where the shell is with its pipes.
Piped ==
  /\ pc \in {"pipe", "fork"} => in = IF i = 1 THEN Terminal ELSE Read(launched)
  /\ pc = "fork" /\ i < Len(line) => Write(launched + 1) \in fds

\* A pipe has one writer and one reader, who has the end it writes to until it ends.
Wired ==
  \A p, k \in Launches :
    /\ stdout[p] = Write(k) => k = p
    /\ stdin[p] = Read(k) => p = k + 1
    /\ stdin[p] # Write(k)
    /\ state[p] \in {"forked", "running"} /\ stdout[p] = Write(p) => Write(p) \in ends[p]

\* A process that has not started has done nothing, and one that runs can.
Untouched ==
  \A p \in Launches :
    /\ state[p] = "none" /\ p <= launched => p \in harmed
    /\ state[p] \in {"none", "forked"} =>
         done[p] = 0 /\ held[p] = <<>> /\ buffer[p] = <<>> /\ screen[p] = <<>>
    /\ state[p] = "running" => stage[p].prog \in {"emit", "copy"}

\* Its descriptors, with the pipes and with the redirections of the stage n.
PipeIn(n) == IF n = 1 THEN Terminal ELSE Read(Base + n - 1)
PipeOut(n) == IF n < Len(line) THEN Write(Base + n) ELSE Terminal
Plugged(n) ==
  LET p == Base + n
  IN  /\ state[p] = "forked" => stdin[p] = PipeIn(n) /\ stdout[p] = PipeOut(n)
      /\ state[p] = "running" =>
           /\ stdin[p] = CASE line[n].from = "file" -> File
                           [] line[n].from = "none" -> Shut
                           [] OTHER -> PipeIn(n)
           /\ stdout[p] = CASE line[n].to = "file" -> File
                            [] line[n].to = "none" -> Shut
                            [] OTHER -> PipeOut(n)

\* What it has made is on the way: with the reader, in the pipe, in hand or on the terminal.
OnTheWay(n) ==
  LET p == Base + n
  IN  /\ done[p] <= Len(Made(n))
      /\ held[p] # <<>> => done[p] > 0 /\ held[p] = <<Made(n)[done[p]]>>
      /\ line[n].to = "pipe" /\ n < Len(line) =>
           /\ Taken(p) + Len(buffer[p]) + Len(held[p]) = done[p]
           /\ \A j \in 1..Len(buffer[p]) : buffer[p][j] = Made(n)[Taken(p) + j]
      /\ line[n].to = "pipe" /\ n = Len(line) =>
           /\ Len(screen[p]) + Len(held[p]) = done[p]
           /\ \A j \in 1..Len(screen[p]) : screen[p][j] = Made(n)[j]
      /\ line[n].to # "pipe" => buffer[p] = <<>> /\ screen[p] = <<>>
      /\ state[p] \in {"zombie", "reaped"} => held[p] = <<>> /\ done[p] = Len(Made(n))

\* The stages that nothing has happened to, nor to one before them.
Clean(n) == \A m \in 1..n : Base + m \notin harmed
Flows == \A n \in 1..Begun : Clean(n) => stage[Base + n] = line[n] /\ Plugged(n) /\ OnTheWay(n)

\* The inductive invariant, along with IInv.
FlowInv == Begun <= launched /\ Piped /\ Wired /\ Untouched /\ Flows

-----------------------------------------------------------------------------
(* What the stages make, and that it stays while the line is run. *)

\* What a stage makes: as many units as it emits, or the start of what it is given.
LEMMA MadeIs ==
  ASSUME line \in Lines, Base \in Nat, NEW n \in 1..Len(line)
  PROVE  /\ Made(n) \in Seq(Pairs) /\ Input(n) \in Seq(Pairs) /\ line[n].units \in Nat
         /\ Output(Base)[n] = IF line[n].to = "pipe" THEN Made(n) ELSE <<>>
         /\ line[n].prog = "emit" =>
              /\ Len(Made(n)) = line[n].units
              /\ \A j \in 1..Len(Made(n)) : Made(n)[j] = <<Base + n, j>>
         /\ line[n].prog = "copy" =>
              /\ Len(Made(n)) <= line[n].units
              /\ Len(Made(n)) \in {line[n].units, Len(Input(n))}
              /\ Len(Made(n)) <= Len(Input(n))
              /\ \A j \in 1..Len(Made(n)) : Made(n)[j] = Input(n)[j]
         /\ line[n].prog \notin {"emit", "copy"} => Made(n) = <<>>
  <1>1. Len(line) \in Nat /\ line[n] \in StageType /\ n \in Nat /\ n # 0
    BY LineStages
  <1>2. line[n].units \in Nat /\ Base + n \in Nat
    BY <1>1 DEF StageType
  <1>3. n \in 0..Len(line) /\ n - 1 \in 0..Len(line)
    BY <1>1
  <1>4. Output(Base)[n] = OutputStep(Output(Base), n, Base) /\ Output(Base)[n - 1] \in Seq(Pairs)
    BY <1>3, OutputIs
  <1>5. Input(n) \in Seq(Pairs)
    BY <1>4, FileIs DEF Input
  <1> DEFINE u == line[n].units
             P == Prefix(Input(n), u)
  <1>6. /\ P \in Seq(Pairs) /\ Len(P) = (IF u < Len(Input(n)) THEN u ELSE Len(Input(n)))
        /\ \A j \in 1..Len(P) : P[j] = Input(n)[j]
    BY <1>2, <1>5, PrefixIs
  <1> HIDE DEF P
  <1>7. line[n].prog = "copy" => Made(n) = P
    BY DEF Made, P
  <1>8. line[n].prog = "emit" => /\ Made(n) = [j \in 1..u |-> <<Base + n, j>>]
                                 /\ Made(n) \in Seq(Pairs) /\ Len(Made(n)) = u
    BY <1>2, EmitIs DEF Made
  <1>9. line[n].prog \notin {"emit", "copy"} => Made(n) = <<>>
    BY DEF Made
  <1>10. Output(Base)[n] = IF line[n].to = "pipe" THEN Made(n) ELSE <<>>
    <2>1. line[n].prog \in {"emit", "copy"} \/ line[n].prog \notin {"emit", "copy"}
      OBVIOUS
    <2> QED
      BY <1>1, <1>4, <1>9 DEF OutputStep, Made, Input
  <1>11. Made(n) \in Seq(Pairs)
    <2>1. CASE line[n].prog = "emit"
      BY <1>8, <2>1
    <2>2. CASE line[n].prog = "copy"
      BY <1>6, <1>7, <2>2
    <2>3. CASE line[n].prog \notin {"emit", "copy"}
      <3>1. <<>> \in Seq(Pairs)
        OBVIOUS
      <3> QED
        BY <1>9, <2>3, <3>1
    <2> QED
      BY <2>1, <2>2, <2>3
  <1>12. line[n].prog = "copy" =>
           /\ Len(Made(n)) <= u /\ Len(Made(n)) \in {u, Len(Input(n))} /\ Len(Made(n)) <= Len(Input(n))
           /\ \A j \in 1..Len(Made(n)) : Made(n)[j] = Input(n)[j]
    BY <1>2, <1>5, <1>6, <1>7
  <1> QED
    BY <1>2, <1>5, <1>8, <1>9, <1>10, <1>11, <1>12

\* What a stage is given: the file, what the stage before made, or nothing.
LEMMA InputIs ==
  ASSUME line \in Lines, Base \in Nat, NEW n \in 1..Len(line)
  PROVE  /\ line[n].from = "file" => Input(n) = FileData
         /\ line[n].from = "none" => Input(n) = <<>>
         /\ line[n].from = "pipe" /\ n = 1 => Input(n) = <<>>
         /\ line[n].from = "pipe" /\ n > 1 =>
              Input(n) = IF line[n - 1].to = "pipe" THEN Made(n - 1) ELSE <<>>
  <1>1. Len(line) \in Nat /\ n \in Nat
    BY LineStages
  <1>2. n = 1 => Output(Base)[n - 1] = <<>>
    <2> SUFFICES ASSUME n = 1 PROVE Output(Base)[n - 1] = <<>>
      OBVIOUS
    <2>1. n - 1 = 0 /\ 0 \in 0..Len(line)
      BY <1>1
    <2>2. Output(Base)[0] = OutputStep(Output(Base), 0, Base)
      BY <2>1, OutputIs
    <2> QED
      BY <2>1, <2>2 DEF OutputStep
  <1>3. n > 1 => Output(Base)[n - 1] = IF line[n - 1].to = "pipe" THEN Made(n - 1) ELSE <<>>
    <2>1. n > 1 => n - 1 \in 1..Len(line)
      BY <1>1
    <2> QED
      BY <2>1, MadeIs
  <1>4. line[n].from = "pipe" => Input(n) = Output(Base)[n - 1]
    BY DEF Input
  <1> QED
    BY <1>2, <1>3, <1>4 DEF Input

\* It depends on the line and its base alone.
LEMMA MadeKept ==
  ASSUME line' = line, Base' = Base
  PROVE  \A n : /\ Made(n)' = Made(n) /\ PipeIn(n)' = PipeIn(n) /\ PipeOut(n)' = PipeOut(n)
  <1>1. \A b : Output(b)' = Output(b)
    BY DEF Output
  <1>2. Output(Base)' = Output(Base)
    BY <1>1 DEF Output
  <1> QED
    BY <1>2 DEF Made, Input, PipeIn, PipeOut, Read, Write

\* Where the stages of the line are.
LEMMA Where ==
  ASSUME TypeOK, Position, Begun <= launched
  PROVE  /\ launched \in Nat /\ Base \in Nat /\ Begun \in Nat /\ Base + Begun = launched
         /\ Len(line) \in Nat /\ Begun <= Len(line)
         /\ Begun > 0 => line \in Lines
         /\ \A n \in 1..Begun : Base + n \in Launches /\ Base + n \in 1..launched /\ n \in 1..Len(line)
  <1>1. launched \in Nat /\ launched <= MaxLaunches /\ MaxLaunches \in Nat
    BY ShellAssumption DEF TypeOK
  <1>2. Len(line) \in Nat /\ (line \in Lines \/ line = <<>>)
    BY LineStages DEF TypeOK
  <1>3. pc \in {"pipe", "fork", "wait", "close"} => i \in 1..Len(line)
    BY DEF Position
  <1>4. Begun \in Nat /\ Begun <= Len(line)
    BY <1>2, <1>3 DEF Begun, TypeOK
  <1>5. Begun > 0 => line \in Lines
    BY <1>2, <1>4
  <1>6. Base = launched - Begun
    BY DEF Base
  <1> QED
    BY <1>1, <1>2, <1>4, <1>5, <1>6 DEF Launches

\* All of a process but the pipe it writes.
Of(q) == <<state[q], stage[q], stdin[q], stdout[q], done[q], held[q], screen[q]>>

\* Of has these parts.
LEMMA OfKept ==
  ASSUME NEW q, Of(q)' = Of(q)
  PROVE  /\ state'[q] = state[q] /\ stage'[q] = stage[q] /\ stdin'[q] = stdin[q]
         /\ stdout'[q] = stdout[q] /\ done'[q] = done[q] /\ held'[q] = held[q]
         /\ screen'[q] = screen[q]
  BY DEF Of

\* What the reader has taken changes with the reader.
LEMMA TakenKept ==
  ASSUME NEW p, p + 1 \in Launches => Of(p + 1)' = Of(p + 1)
  PROVE  Taken(p)' = Taken(p)
  BY DEF Taken, ReaderOf, Of, Read

\* What is on the way stays as it is while no unit moves, and the stage ends only with all made.
LEMMA WayStays ==
  ASSUME NEW n, NEW p, p = Base + n, line' = line, Base' = Base,
         done'[p] = done[p], held'[p] = held[p], screen'[p] = screen[p],
         buffer'[p] = buffer[p], Taken(p)' = Taken(p), OnTheWay(n),
         state'[p] \in {"zombie", "reaped"} => held[p] = <<>> /\ done[p] = Len(Made(n))
  PROVE  OnTheWay(n)'
  <1>1. Made(n)' = Made(n)
    BY MadeKept
  <1> QED
    BY <1>1 DEF OnTheWay

\* A stage that nothing changes flows on.
LEMMA WayKept ==
  ASSUME NEW n, NEW p, p = Base + n, line' = line, Base' = Base, Of(p)' = Of(p),
         buffer'[p] = buffer[p], Taken(p)' = Taken(p), OnTheWay(n)
  PROVE  OnTheWay(n)'
  <1>1. /\ state'[p] = state[p] /\ done'[p] = done[p] /\ held'[p] = held[p]
        /\ screen'[p] = screen[p]
    BY DEF Of
  <1>2. state[p] \in {"zombie", "reaped"} => held[p] = <<>> /\ done[p] = Len(Made(n))
    BY DEF OnTheWay
  <1> QED
    BY <1>1, <1>2, WayStays

\* What was harmed stays harmed.
LEMMA CleanKept ==
  ASSUME NEW n, Base' = Base, harmed \subseteq harmed', Clean(n)'
  PROVE  Clean(n)
  BY DEF Clean

\* A stage as Flows has it.
Flowing(n) == stage[Base + n] = line[n] /\ Plugged(n) /\ OnTheWay(n)

LEMMA StageKept ==
  ASSUME NEW n, NEW p, p = Base + n, line' = line, Base' = Base, Of(p)' = Of(p),
         buffer'[p] = buffer[p], Taken(p)' = Taken(p), Flowing(n)
  PROVE  Flowing(n)'
  <1>1. OnTheWay(n)'
    BY WayKept DEF Flowing
  <1>2. PipeIn(n)' = PipeIn(n) /\ PipeOut(n)' = PipeOut(n)
    BY MadeKept
  <1>3. stage'[p] = stage[p] /\ state'[p] = state[p] /\ stdin'[p] = stdin[p] /\ stdout'[p] = stdout[p]
    BY OfKept
  <1>4. Plugged(n)'
    BY <1>2, <1>3 DEF Flowing, Plugged, File, Shut
  <1> QED
    BY <1>1, <1>3, <1>4 DEF Flowing

\* A process changes what it does itself, and what the stage before it has on the way.
LEMMA ProcessFlow ==
  ASSUME IInv, FlowInv, NEW q \in Launches, UNCHANGED shell, harmed \subseteq harmed',
         \A p \in Launches : p # q => Of(p)' = Of(p),
         \A p \in Launches : p # q /\ p + 1 # q => buffer'[p] = buffer[p],
         \A n \in 1..Begun : Base + n = q /\ Clean(n) /\ Clean(n)' /\ Flowing(n) => Flowing(n)',
         \A n \in 1..Begun : (Base + n) + 1 = q /\ OnTheWay(n) => OnTheWay(n)'
  PROVE  /\ line' = line /\ Base' = Base /\ Begun' = Begun /\ launched' = launched
         /\ Begun' <= launched' /\ Piped' /\ Flows'
  <1>1. UNCHANGED <<pc, line, i, in, launched, fds>>
    BY DEF shell
  <1>2. Begun' = Begun /\ Base' = Base
    BY <1>1 DEF Base, Begun
  <1>3. Begun' <= launched' /\ Piped'
    BY <1>1, <1>2 DEF FlowInv, Piped, Read, Write, Terminal
  <1>4. ASSUME NEW n \in 1..Begun, Clean(n)'
        PROVE  Flowing(n)'
    <2>1. Clean(n)
      BY <1>2, <1>4, CleanKept
    <2>2. Flowing(n)
      BY <2>1 DEF FlowInv, Flows, Flowing
    <2>3. PICK p \in Launches : p = Base + n
      BY Where DEF FlowInv, IInv
    <2>4. CASE p = q
      BY <1>4, <2>1, <2>2, <2>3, <2>4
    <2>5. CASE p # q
      <3>1. Of(p)' = Of(p)
        BY <2>3, <2>5
      <3>2. CASE p + 1 = q
        <4>1. OnTheWay(n)'
          BY <2>2, <2>3, <3>2 DEF Flowing
        <4>2. stage'[p] = stage[p] /\ state'[p] = state[p]
              /\ stdin'[p] = stdin[p] /\ stdout'[p] = stdout[p]
          BY <3>1, OfKept
        <4>3. PipeIn(n)' = PipeIn(n) /\ PipeOut(n)' = PipeOut(n)
          BY <1>1, <1>2, MadeKept
        <4>4. Plugged(n)'
          BY <1>1, <1>2, <2>2, <2>3, <4>2, <4>3 DEF Flowing, Plugged, File, Shut
        <4> QED
          BY <1>1, <1>2, <2>2, <2>3, <4>1, <4>2, <4>4 DEF Flowing
      <3>3. CASE p + 1 # q
        <4>1. buffer'[p] = buffer[p]
          BY <2>5, <3>3
        <4>2. Taken(p)' = Taken(p)
          BY <3>3, TakenKept
        <4> QED
          BY <1>1, <1>2, <2>2, <2>3, <3>1, <4>1, <4>2, StageKept
      <3> QED
        BY <3>2, <3>3
    <2> QED
      BY <2>4, <2>5
  <1>5. Flows'
    BY <1>2, <1>4 DEF Flows, Flowing
  <1> QED
    BY <1>1, <1>2, <1>3, <1>5

-----------------------------------------------------------------------------
(* The processes. *)

\* A child puts its redirections in place before it has taken or written anything.
LEMMA ExecFlow ==
  ASSUME IInv, FlowInv, NEW q \in Launches, Exec(q)
  PROVE  FlowInv'
  <1>1. /\ state[q] = "forked" /\ stage[q].prog \in {"emit", "copy"}
        /\ state' = [state EXCEPT ![q] = "running"]
        /\ stdin' = [stdin EXCEPT ![q] = Source(q)]
        /\ stdout' = [stdout EXCEPT ![q] = Target(q)]
        /\ ends' = [ends EXCEPT ![q] = Kept(q)]
        /\ UNCHANGED <<shell, stage, done, held, buffer, screen, harmed>>
    BY DEF Exec, data
  <1>2. /\ state'[q] = "running" /\ stdin'[q] = Source(q) /\ stdout'[q] = Target(q) /\ ends'[q] = Kept(q)
        /\ \A p \in Launches : p # q => /\ state'[p] = state[p] /\ stdin'[p] = stdin[p]
                                        /\ stdout'[p] = stdout[p] /\ ends'[p] = ends[p]
    BY <1>1 DEF IInv, TypeOK
  <1>3. \A p \in Launches : p # q => Of(p)' = Of(p)
    BY <1>1, <1>2 DEF Of
  <1>4. done[q] = 0 /\ held[q] = <<>>
    BY <1>1 DEF FlowInv, Untouched
  <1>5. \A p : p + 1 = q => Taken(p)' = Taken(p)
    BY <1>1, <1>4 DEF Taken
  <1>6. line' = line /\ Base' = Base /\ pc' = pc /\ launched' = launched
    BY <1>1 DEF shell, Base, Begun
  <1>7. ASSUME NEW n \in 1..Begun, Base + n = q, Flowing(n) PROVE Flowing(n)'
    <2>1. stage[q] = line[n] /\ line[n] \in StageType
      BY <1>7 DEF Flowing, IInv, TypeOK
    <2>2. stdin[q] = PipeIn(n) /\ stdout[q] = PipeOut(n)
      BY <1>1, <1>7 DEF Flowing, Plugged
    <2>3. PipeIn(n)' = PipeIn(n) /\ PipeOut(n)' = PipeOut(n) /\ Made(n)' = Made(n)
      BY <1>6, MadeKept
    <2>4. Plugged(n)'
      BY <1>2, <1>6, <1>7, <2>1, <2>2, <2>3 DEF Plugged, Source, Target, File, Shut
    <2>5. Taken(q)' = Taken(q)
      <3>1. q + 1 # q
        BY DEF Launches
      <3> QED
        BY <1>3, <3>1, TakenKept
    <2>6. OnTheWay(n)'
      BY <1>1, <1>2, <1>6, <1>7, <2>5, WayStays DEF Flowing
    <2> QED
      BY <1>1, <1>6, <1>7, <2>1, <2>4, <2>6 DEF Flowing
  <1>8. ASSUME NEW n \in 1..Begun, (Base + n) + 1 = q, OnTheWay(n) PROVE OnTheWay(n)'
    <2>1. PICK p \in Launches : p = Base + n
      BY Where DEF FlowInv, IInv
    <2>2. p # q /\ p + 1 = q
      BY <1>8, <2>1 DEF Launches
    <2> QED
      BY <1>1, <1>3, <1>5, <1>6, <1>8, <2>1, <2>2, WayKept
  <1>9. Begun' <= launched' /\ Piped' /\ Flows'
    BY <1>1, <1>3, <1>7, <1>8, ProcessFlow
  <1>10. Wired'
    <2>1. ASSUME NEW k \in Launches
          PROVE  /\ stdout'[q] = Write(k) => k = q /\ stdout[q] = Write(k) /\ Target(q) = stdout[q]
                 /\ stdin'[q] = Read(k) => q = k + 1
                 /\ stdin'[q] # Write(k)
      BY <1>2, EndsDiffer DEF Source, Target, FlowInv, Wired
    <2>2. stdout'[q] = Write(q) => Write(q) \in ends'[q]
      BY <1>1, <1>2, <2>1 DEF FlowInv, Wired, Kept
    <2>3. ASSUME NEW p \in Launches, NEW k \in Launches
          PROVE  /\ stdout'[p] = Write(k) => k = p
                 /\ stdin'[p] = Read(k) => p = k + 1
                 /\ stdin'[p] # Write(k)
                 /\ state'[p] \in {"forked", "running"} /\ stdout'[p] = Write(p) => Write(p) \in ends'[p]
      <3>1. CASE p = q
        BY <2>1, <2>2, <3>1
      <3>2. CASE p # q
        BY <1>2, <3>2 DEF FlowInv, Wired
      <3> QED
        BY <3>1, <3>2
    <2> QED
      BY <2>3 DEF Wired, Read, Write
  <1>11. Untouched'
    BY <1>1, <1>2, <1>6 DEF FlowInv, Untouched
  <1> QED
    BY <1>9, <1>10, <1>11 DEF FlowInv

\* A process that ends has made all it had to, or it was killed.
LEMMA EndFlow ==
  ASSUME IInv, FlowInv, NEW q \in Launches, End(q), state[q] \in {"forked", "running"},
         \/ harmed' = harmed \cup {q}
         \/ /\ harmed' = harmed
            /\ \A n \in 1..Begun : Base + n = q /\ Clean(n) /\ Flowing(n)
                 => held[q] = <<>> /\ done[q] = Len(Made(n))
  PROVE  FlowInv'
  <1>1. /\ state' = [state EXCEPT ![q] = "zombie"]
        /\ ends' = [ends EXCEPT ![q] = {}]
        /\ UNCHANGED <<shell, stage, stdin, stdout, done, held, buffer, screen>>
    BY DEF End, data
  <1>2. /\ state'[q] = "zombie"
        /\ \A p \in Launches : p # q => state'[p] = state[p] /\ ends'[p] = ends[p]
    BY <1>1 DEF IInv, TypeOK
  <1>3. \A p \in Launches : p # q => Of(p)' = Of(p)
    BY <1>1, <1>2 DEF Of
  <1>4. \A p : Taken(p)' = Taken(p)
    BY <1>1 DEF Taken, ReaderOf, Read
  <1>6. line' = line /\ Base' = Base /\ pc' = pc /\ launched' = launched
    BY <1>1 DEF shell, Base, Begun
  <1>7. ASSUME NEW n \in 1..Begun, Base + n = q, Clean(n), Clean(n)', Flowing(n) PROVE Flowing(n)'
    <2>1. q \notin harmed'
      <3>1. n \in 1..n
        OBVIOUS
      <3> QED
        BY <1>6, <1>7, <3>1 DEF Clean
    <2>2. held[q] = <<>> /\ done[q] = Len(Made(n))
      BY <1>7, <2>1
    <2>3. Made(n)' = Made(n)
      BY <1>6, MadeKept
    <2>4. Plugged(n)'
      BY <1>2, <1>6, <1>7 DEF Plugged
    <2>5. OnTheWay(n)'
      BY <1>1, <1>4, <1>6, <1>7, <2>2, WayStays DEF Flowing
    <2> QED
      BY <1>1, <1>6, <1>7, <2>4, <2>5 DEF Flowing
  <1>8. ASSUME NEW n \in 1..Begun, (Base + n) + 1 = q, OnTheWay(n) PROVE OnTheWay(n)'
    <2>1. PICK p \in Launches : p = Base + n
      BY Where DEF FlowInv, IInv
    <2>2. p # q
      BY <1>8, <2>1 DEF Launches
    <2> QED
      BY <1>1, <1>3, <1>4, <1>6, <1>8, <2>1, <2>2, WayKept
  <1>9. Begun' <= launched' /\ Piped' /\ Flows'
    BY <1>1, <1>3, <1>7, <1>8, ProcessFlow
  <1>10. Wired'
    BY <1>1, <1>2 DEF FlowInv, Wired, Read, Write
  <1>11. Untouched'
    BY <1>1, <1>2, <1>6 DEF FlowInv, Untouched
  <1> QED
    BY <1>9, <1>10, <1>11 DEF FlowInv

\* A step that moves data of one process alone, and what its pipes hold.
LEMMA DataFlow ==
  ASSUME IInv, FlowInv, NEW q \in Launches, state[q] = "running",
         UNCHANGED <<shell, state, stage, files, harmed>>,
         \A p \in Launches : p # q =>
           /\ done'[p] = done[p] /\ held'[p] = held[p] /\ screen'[p] = screen[p]
           /\ buffer[p] = <<>> => buffer'[p] = <<>>
           /\ p + 1 # q => buffer'[p] = buffer[p],
         \A n \in 1..Begun : Base + n = q /\ Clean(n) /\ Flowing(n) => OnTheWay(n)',
         \A n \in 1..Begun : (Base + n) + 1 = q /\ OnTheWay(n) => OnTheWay(n)'
  PROVE  FlowInv'
  <1>1. UNCHANGED <<stdin, stdout, ends>>
    BY DEF files
  <1>2. line' = line /\ Base' = Base /\ pc' = pc /\ launched' = launched
    BY DEF shell, Base, Begun
  <1>3. \A p \in Launches : p # q => Of(p)' = Of(p)
    BY <1>1 DEF Of
  <1>4. ASSUME NEW n \in 1..Begun, Base + n = q, Clean(n), Flowing(n) PROVE Flowing(n)'
    <2>1. PipeIn(n)' = PipeIn(n) /\ PipeOut(n)' = PipeOut(n)
      BY <1>2, MadeKept
    <2>2. Plugged(n)'
      BY <1>1, <1>2, <1>4, <2>1 DEF Flowing, Plugged, File, Shut
    <2> QED
      BY <1>2, <1>4, <2>2 DEF Flowing
  <1>5. Begun' <= launched' /\ Piped' /\ Flows'
    BY <1>3, <1>4, ProcessFlow
  <1>6. Wired'
    BY <1>1 DEF FlowInv, Wired, Read, Write
  <1>7. Untouched'
    BY <1>2 DEF FlowInv, Untouched
  <1> QED
    BY <1>5, <1>6, <1>7 DEF FlowInv

\* Types of the data.
LEMMA DataTypes ==
  ASSUME IInv, NEW q \in Launches
  PROVE  /\ q \in Nat /\ done[q] \in Nat /\ Taken(q) \in Nat
         /\ held[q] \in Seq(Units) /\ Len(held[q]) <= 1
         /\ buffer[q] \in Seq(Units) /\ screen[q] \in Seq(Units)
  <1>1. q \in Nat /\ \A p \in Launches : done[p] \in Nat
    BY DEF IInv, TypeOK, Launches
  <1>2. Taken(q) \in Nat
    BY <1>1 DEF Taken, ReaderOf
  <1> QED
    BY <1>1, <1>2 DEF IInv, TypeOK, OneHeld

\* The facts about a stage of the line.
LEMMA StageFacts ==
  ASSUME IInv, FlowInv, NEW n \in 1..Begun
  PROVE  /\ line \in Lines /\ Base \in Nat /\ n \in 1..Len(line) /\ Len(line) \in Nat /\ n \in Nat
         /\ Base + n \in Launches /\ line[n] \in StageType /\ line[n].units \in Nat
         /\ Made(n) \in Seq(Pairs) /\ Len(Made(n)) \in Nat /\ Input(n) \in Seq(Pairs)
  <1>1. /\ Base \in Nat /\ Begun \in Nat /\ Len(line) \in Nat /\ Begun <= Len(line)
        /\ (Begun > 0 => line \in Lines) /\ Base + n \in Launches /\ n \in 1..Len(line)
    BY Where DEF FlowInv, IInv
  <1>2. line \in Lines
    BY <1>1
  <1>3. line[n] \in StageType
    BY <1>1, <1>2, LineStages
  <1>4. Made(n) \in Seq(Pairs) /\ Input(n) \in Seq(Pairs) /\ line[n].units \in Nat
    BY <1>1, <1>2, MadeIs
  <1> QED
    BY <1>1, <1>2, <1>3, <1>4

\* A stage takes its next unit in hand.
LEMMA Took ==
  ASSUME IInv, FlowInv, NEW q \in Launches, NEW n \in 1..Begun, Base + n = q, Flowing(n),
         state[q] = "running", line' = line, Base' = Base, state' = state,
         held[q] = <<>>, done[q] < Len(Made(n)), done'[q] = done[q] + 1,
         held'[q] = <<Made(n)[done[q] + 1]>>, buffer'[q] = buffer[q], screen'[q] = screen[q],
         q + 1 \in Launches => Of(q + 1)' = Of(q + 1)
  PROVE  OnTheWay(n)'
  <1>1. Made(n)' = Made(n) /\ Taken(q)' = Taken(q)
    BY MadeKept, TakenKept
  <1>2. done[q] \in Nat /\ Len(Made(n)) \in Nat /\ Taken(q) \in Nat
        /\ Len(buffer[q]) \in Nat /\ Len(screen[q]) \in Nat
    <2>1. Len(Made(n)) \in Nat
      BY StageFacts, Zenon
    <2>2. /\ done[q] \in Nat /\ Taken(q) \in Nat
          /\ buffer[q] \in Seq(Units) /\ screen[q] \in Seq(Units)
      BY DataTypes, Zenon
    <2>3. Len(buffer[q]) \in Nat /\ Len(screen[q]) \in Nat
      BY <2>2
    <2> QED
      BY <2>1, <2>2, <2>3
  <1>3. Len(held[q]) = 0 /\ Len(held'[q]) = 1
    OBVIOUS
  <1>4. done'[q] <= Len(Made(n)) /\ done'[q] > 0 /\ held'[q] = <<Made(n)[done'[q]]>>
    BY <1>2
  <1>5. line[n].to = "pipe" /\ n < Len(line) =>
          /\ Taken(q) + Len(buffer[q]) + Len(held'[q]) = done'[q]
          /\ \A j \in 1..Len(buffer[q]) : buffer[q][j] = Made(n)[Taken(q) + j]
    <2>1. line[n].to = "pipe" /\ n < Len(line) =>
            /\ Taken(q) + Len(buffer[q]) + Len(held[q]) = done[q]
            /\ \A j \in 1..Len(buffer[q]) : buffer[q][j] = Made(n)[Taken(q) + j]
      BY DEF Flowing, OnTheWay
    <2> QED
      BY <1>2, <1>3, <2>1
  <1>6. line[n].to = "pipe" /\ n = Len(line) =>
          /\ Len(screen[q]) + Len(held'[q]) = done'[q]
          /\ \A j \in 1..Len(screen[q]) : screen[q][j] = Made(n)[j]
    <2>1. line[n].to = "pipe" /\ n = Len(line) =>
            /\ Len(screen[q]) + Len(held[q]) = done[q]
            /\ \A j \in 1..Len(screen[q]) : screen[q][j] = Made(n)[j]
      BY DEF Flowing, OnTheWay
    <2> QED
      BY <1>2, <1>3, <2>1
  <1>7. line[n].to # "pipe" => buffer[q] = <<>> /\ screen[q] = <<>>
    BY DEF Flowing, OnTheWay
  <1>8. Base' + n = q /\ state'[q] = "running"
    OBVIOUS
  <1>9. line'[n].to = "pipe" /\ n < Len(line') =>
          /\ Taken(q)' + Len(buffer'[q]) + Len(held'[q]) = done'[q]
          /\ \A j \in 1..Len(buffer'[q]) : buffer'[q][j] = Made(n)'[Taken(q)' + j]
    BY <1>1, <1>5
  <1>10. line'[n].to = "pipe" /\ n = Len(line') =>
           /\ Len(screen'[q]) + Len(held'[q]) = done'[q]
           /\ \A j \in 1..Len(screen'[q]) : screen'[q][j] = Made(n)'[j]
    BY <1>1, <1>6
  <1>11. done'[q] <= Len(Made(n)') /\ done'[q] > 0 /\ held'[q] = <<Made(n)'[done'[q]]>>
    BY <1>1, <1>4
  <1>12. line'[n].to # "pipe" => buffer'[q] = <<>> /\ screen'[q] = <<>>
    BY <1>7
  <1> QED
    BY <1>8, <1>9, <1>10, <1>11, <1>12 DEF OnTheWay

\* What a step of one process leaves of the others.
LEMMA OthersKept ==
  ASSUME UNCHANGED <<state, stage, files>>, NEW q,
         \A p \in Launches : p # q => done'[p] = done[p] /\ held'[p] = held[p] /\ screen'[p] = screen[p]
  PROVE  \A p \in Launches : p # q => Of(p)' = Of(p)
  BY DEF files, Of

\* A unit of its own is the next of what it makes.
LEMMA EmitFlow ==
  ASSUME IInv, FlowInv, NEW q \in Launches, Emit(q)
  PROVE  FlowInv'
  <1>1. /\ state[q] = "running" /\ stage[q].prog = "emit" /\ held[q] = <<>> /\ done[q] < stage[q].units
        /\ UNCHANGED <<shell, state, stage, files, buffer, screen, harmed>>
    BY DEF Emit
  <1>2. /\ done'[q] = done[q] + 1 /\ held'[q] = <<<<q, done[q] + 1>>>>
        /\ \A p \in Launches : p # q => done'[p] = done[p] /\ held'[p] = held[p]
    BY DEF Emit, IInv, TypeOK
  <1>3. line' = line /\ Base' = Base
    BY <1>1 DEF shell, Base, Begun
  <1>4. \A p \in Launches : p # q => Of(p)' = Of(p)
    BY <1>1, <1>2, OthersKept
  <1>5. ASSUME NEW n \in 1..Begun, Base + n = q, Flowing(n) PROVE OnTheWay(n)'
    <2>1. stage[q] = line[n]
      BY <1>5 DEF Flowing
    <2>2. Len(Made(n)) = line[n].units /\ \A j \in 1..Len(Made(n)) : Made(n)[j] = <<Base + n, j>>
      BY <1>1, <2>1, StageFacts, MadeIs
    <2>3. done[q] < Len(Made(n)) /\ done[q] + 1 \in 1..Len(Made(n))
      <3>1. done[q] \in Nat /\ Len(Made(n)) \in Nat
        BY DataTypes, StageFacts
      <3> QED
        BY <1>1, <2>1, <2>2, <3>1
    <2>4. held'[q] = <<Made(n)[done[q] + 1]>>
      BY <1>2, <1>5, <2>2, <2>3
    <2>5. q + 1 \in Launches => Of(q + 1)' = Of(q + 1)
      <3>1. q + 1 # q
        BY DEF Launches
      <3> QED
        BY <1>4, <3>1
    <2> QED
      BY <1>1, <1>2, <1>3, <1>5, <2>3, <2>4, <2>5, Took
  <1>6. ASSUME NEW n \in 1..Begun, (Base + n) + 1 = q, OnTheWay(n) PROVE OnTheWay(n)'
    <2>1. PICK p \in Launches : p = Base + n
      BY Where DEF FlowInv, IInv
    <2>2. p # q /\ p + 1 = q
      BY <1>6, <2>1 DEF Launches
    <2>3. Taken(p)' = Taken(p)
      BY <1>1, <2>2 DEF Taken, ReaderOf
    <2> QED
      BY <1>1, <1>3, <1>4, <1>6, <2>1, <2>2, <2>3, WayKept
  <1> QED
    BY <1>1, <1>2, <1>5, <1>6, DataFlow

\* So is one of the file.
LEMMA TakeFromFileFlow ==
  ASSUME IInv, FlowInv, NEW q \in Launches, TakeFromFile(q)
  PROVE  FlowInv'
  <1>1. /\ state[q] = "running" /\ stage[q].prog = "copy" /\ held[q] = <<>> /\ done[q] < stage[q].units
        /\ stdin[q] = File /\ done[q] < FileLength
        /\ UNCHANGED <<shell, state, stage, files, buffer, screen, harmed>>
    BY DEF TakeFromFile, Reads
  <1>2. /\ done'[q] = done[q] + 1 /\ held'[q] = <<FileData[done[q] + 1]>>
        /\ \A p \in Launches : p # q => done'[p] = done[p] /\ held'[p] = held[p]
    BY DEF TakeFromFile, IInv, TypeOK
  <1>3. line' = line /\ Base' = Base
    BY <1>1 DEF shell, Base, Begun
  <1>4. \A p \in Launches : p # q => Of(p)' = Of(p)
    BY <1>1, <1>2, OthersKept
  <1>5. ASSUME NEW n \in 1..Begun, Base + n = q, Flowing(n) PROVE OnTheWay(n)'
    <2>1. stage[q] = line[n]
      BY <1>5 DEF Flowing
    <2>2. line \in Lines /\ Base \in Nat /\ n \in 1..Len(line) /\ line[n] \in StageType /\ n \in Nat
      BY StageFacts
    <2>3. line[n].from = "file"
      <3>1. PipeIn(n) # File
        BY DEF PipeIn, Read, Terminal, File
      <3>2. stdin[q] = CASE line[n].from = "file" -> File
                         [] line[n].from = "none" -> Shut
                         [] OTHER -> PipeIn(n)
        BY <1>1, <1>5 DEF Flowing, Plugged
      <3> QED
        BY <1>1, <3>1, <3>2 DEF File, Shut
    <2>4. Input(n) = FileData /\ Len(Input(n)) = FileLength
      BY <2>2, <2>3, InputIs, FileIs
    <2>5. /\ Len(Made(n)) \in {line[n].units, FileLength}
          /\ \A j \in 1..Len(Made(n)) : Made(n)[j] = FileData[j]
      BY <1>1, <2>1, <2>2, <2>4, MadeIs
    <2>6. done[q] < Len(Made(n)) /\ done[q] + 1 \in 1..Len(Made(n))
      <3>1. done[q] \in Nat /\ Len(Made(n)) \in Nat /\ line[n].units \in Nat /\ FileLength \in Nat
        BY DataTypes, StageFacts, ShellAssumption
      <3>2. done[q] < line[n].units /\ done[q] < FileLength
        BY <1>1, <2>1
      <3> QED
        BY <2>5, <3>1, <3>2
    <2>7. held'[q] = <<Made(n)[done[q] + 1]>>
      BY <1>2, <2>5, <2>6
    <2>8. q + 1 \in Launches => Of(q + 1)' = Of(q + 1)
      <3>1. q + 1 # q
        BY DEF Launches
      <3> QED
        BY <1>4, <3>1
    <2> QED
      BY <1>1, <1>2, <1>3, <1>5, <2>6, <2>7, <2>8, Took
  <1>6. ASSUME NEW n \in 1..Begun, (Base + n) + 1 = q, OnTheWay(n) PROVE OnTheWay(n)'
    <2>1. PICK p \in Launches : p = Base + n
      BY Where DEF FlowInv, IInv
    <2>2. p # q /\ p + 1 = q
      BY <1>6, <2>1 DEF Launches
    <2>3. Taken(p)' = Taken(p)
      BY <1>1, <2>1, <2>2, EndsDiffer DEF Taken, ReaderOf, files
    <2> QED
      BY <1>1, <1>3, <1>4, <1>6, <2>1, <2>2, <2>3, WayKept
  <1> QED
    BY <1>1, <1>2, <1>5, <1>6, DataFlow

\* Of a running stage the descriptors say what it is redirected to.
LEMMA Reading ==
  ASSUME IInv, FlowInv, NEW q \in Launches, NEW n \in 1..Begun, Base + n = q, Flowing(n),
         state[q] = "running", NEW k \in Launches, stdin[q] = Read(k)
  PROVE  line[n].from = "pipe" /\ n > 1 /\ Base + (n - 1) = k /\ n - 1 \in 1..Begun
  <1>1. /\ Base \in Nat /\ n \in Nat /\ n > 0 /\ line[n] \in StageType /\ Begun \in Nat /\ n <= Begun
    BY StageFacts, Where DEF FlowInv, IInv
  <1>2. stdin[q] = CASE line[n].from = "file" -> File
                     [] line[n].from = "none" -> Shut
                     [] OTHER -> PipeIn(n)
    BY DEF Flowing, Plugged
  <1>3. stdin[q] \notin {Terminal, File, Shut}
    BY EndsDiffer
  <1>4. line[n].from \notin {"file", "none"} /\ stdin[q] = PipeIn(n)
    BY <1>2, <1>3
  <1>5. line[n].from = "pipe"
    BY <1>1, <1>4 DEF StageType
  <1>6. n # 1 /\ Read(k) = Read(Base + n - 1)
    BY <1>3, <1>4 DEF PipeIn
  <1>7. k = Base + n - 1
    BY <1>6 DEF Read
  <1> QED
    BY <1>1, <1>5, <1>6, <1>7

\* The pipe, the terminal or neither: as the place in the line and the redirection say.
LEMMA Writing ==
  ASSUME IInv, FlowInv, NEW q \in Launches, NEW n \in 1..Begun, Base + n = q, Flowing(n),
         state[q] = "running"
  PROVE  /\ stdout[q] = Write(q) => line[n].to = "pipe" /\ n < Len(line)
         /\ stdout[q] = Terminal => line[n].to = "pipe" /\ n = Len(line)
         /\ stdout[q] \in {File, Shut} => line[n].to # "pipe"
  <1>1. /\ n \in 1..Len(line) /\ Len(line) \in Nat /\ line[n] \in StageType
    BY StageFacts
  <1>2. stdout[q] = CASE line[n].to = "file" -> File
                      [] line[n].to = "none" -> Shut
                      [] OTHER -> IF n < Len(line) THEN Write(q) ELSE Terminal
    BY DEF Flowing, Plugged, PipeOut
  <1>3. Write(q) \notin {Terminal, File, Shut} /\ Terminal \notin {File, Shut}
    BY DEF Write, Terminal, File, Shut
  <1>4. line[n].to \in {"pipe", "file", "none"}
    BY <1>1 DEF StageType
  <1>5. CASE line[n].to = "pipe"
    BY <1>1, <1>2, <1>3, <1>5
  <1>6. CASE line[n].to # "pipe"
    BY <1>2, <1>3, <1>4, <1>6
  <1> QED
    BY <1>5, <1>6

\* The head of a pipe is the next of what the stage before has made, and its reader has one more.
LEMMA TakeFromPipeFlow ==
  ASSUME IInv, FlowInv, NEW q \in Launches, TakeFromPipe(q)
  PROVE  FlowInv'
  <1>1. /\ state[q] = "running" /\ stage[q].prog = "copy" /\ held[q] = <<>> /\ done[q] < stage[q].units
        /\ UNCHANGED <<shell, state, stage, files, screen, harmed>>
    BY DEF TakeFromPipe, Reads
  <1>2. PICK k \in Launches : /\ stdin[q] = Read(k) /\ buffer[k] # <<>>
                              /\ held' = [held EXCEPT ![q] = <<Head(buffer[k])>>]
                              /\ buffer' = [buffer EXCEPT ![k] = Tail(@)]
    BY DEF TakeFromPipe
  <1>3. q = k + 1 /\ k # q /\ k \in Nat
    BY <1>2 DEF FlowInv, Wired, Launches
  <1>4. /\ done'[q] = done[q] + 1 /\ held'[q] = <<Head(buffer[k])>> /\ buffer'[k] = Tail(buffer[k])
        /\ \A p \in Launches : p # q => done'[p] = done[p] /\ held'[p] = held[p]
        /\ \A p \in Launches : p # k => buffer'[p] = buffer[p]
    BY <1>2 DEF TakeFromPipe, IInv, TypeOK
  <1>5. line' = line /\ Base' = Base
    BY <1>1 DEF shell, Base, Begun
  <1>6. \A p \in Launches : p # q => Of(p)' = Of(p)
    BY <1>1, <1>4, OthersKept
  <1>7. Taken(k) = done[q] /\ Taken(k)' = done[q] + 1
    BY <1>1, <1>2, <1>3, <1>4 DEF Taken, ReaderOf, files
  <1>8. /\ done[q] \in Nat /\ done[k] \in Nat /\ Len(held[k]) \in Nat /\ Len(buffer[k]) \in Nat
        /\ Len(buffer[k]) > 0 /\ Head(buffer[k]) = buffer[k][1]
        /\ Len(Tail(buffer[k])) = Len(buffer[k]) - 1
        /\ \A j \in 1..Len(Tail(buffer[k])) : Tail(buffer[k])[j] = buffer[k][j + 1]
    <2>1. buffer[k] \in Seq(Units) /\ buffer[k] # <<>>
      BY <1>2, DataTypes
    <2> QED
      BY <2>1, DataTypes
  <1>9. ASSUME NEW m \in 1..Begun, Base + m = k, OnTheWay(m), m < Len(line)
        PROVE  /\ line[m].to = "pipe"
               /\ done[q] < Len(Made(m)) /\ Head(buffer[k]) = Made(m)[done[q] + 1]
               /\ Taken(k) + Len(buffer[k]) + Len(held[k]) = done[k] /\ done[k] <= Len(Made(m))
               /\ \A j \in 1..Len(buffer[k]) : buffer[k][j] = Made(m)[done[q] + j]
    <2>1. line[m].to = "pipe"
      BY <1>2, <1>9 DEF OnTheWay
    <2>2. /\ done[k] <= Len(Made(m)) /\ Taken(k) + Len(buffer[k]) + Len(held[k]) = done[k]
          /\ \A j \in 1..Len(buffer[k]) : buffer[k][j] = Made(m)[Taken(k) + j]
      BY <1>9, <2>1 DEF OnTheWay
    <2>3. Len(Made(m)) \in Nat
      BY StageFacts
    <2>4. 1 \in 1..Len(buffer[k])
      BY <1>8
    <2> QED
      BY <1>7, <1>8, <2>1, <2>2, <2>3, <2>4
  <1>10. ASSUME NEW n \in 1..Begun, Base + n = q, Clean(n), Flowing(n) PROVE OnTheWay(n)'
    <2>1. stage[q] = line[n]
      BY <1>10 DEF Flowing
    <2>2. line[n].from = "pipe" /\ n > 1 /\ Base + (n - 1) = k /\ n - 1 \in 1..Begun
      BY <1>1, <1>2, <1>10, Reading
    <2>3. line \in Lines /\ Base \in Nat /\ n \in 1..Len(line) /\ n \in Nat /\ Len(line) \in Nat
      BY StageFacts
    <2>4. OnTheWay(n - 1)
      <3>1. Clean(n - 1)
        <4>1. \A m \in 1..(n - 1) : m \in 1..n
          BY <2>3
        <4> QED
          BY <1>10, <4>1 DEF Clean
      <3> QED
        BY <2>2, <3>1 DEF FlowInv, Flows
    <2>5. /\ line[n - 1].to = "pipe" /\ done[q] < Len(Made(n - 1))
          /\ Head(buffer[k]) = Made(n - 1)[done[q] + 1]
      <3>1. n - 1 < Len(line)
        BY <2>3
      <3> QED
        BY <1>9, <2>2, <2>4, <3>1
    <2>6. Input(n) = Made(n - 1)
      BY <2>2, <2>3, <2>5, InputIs
    <2>7. /\ Len(Made(n)) \in {line[n].units, Len(Made(n - 1))}
          /\ \A j \in 1..Len(Made(n)) : Made(n)[j] = Made(n - 1)[j]
      BY <1>1, <2>1, <2>3, <2>6, MadeIs
    <2>8. done[q] < Len(Made(n)) /\ done[q] + 1 \in 1..Len(Made(n))
      <3>1. Len(Made(n)) \in Nat
        BY StageFacts
      <3> QED
        BY <1>1, <1>8, <2>1, <2>5, <2>7, <3>1
    <2>9. held'[q] = <<Made(n)[done[q] + 1]>>
      BY <1>4, <2>5, <2>7, <2>8
    <2>10. q + 1 \in Launches => Of(q + 1)' = Of(q + 1)
      <3>1. q + 1 # q
        BY DEF Launches
      <3> QED
        BY <1>6, <3>1
    <2>11. buffer'[q] = buffer[q] /\ screen'[q] = screen[q]
      BY <1>1, <1>3, <1>4
    <2> QED
      BY <1>1, <1>4, <1>5, <1>10, <2>8, <2>9, <2>10, <2>11, Took
  <1>11. ASSUME NEW n \in 1..Begun, (Base + n) + 1 = q, OnTheWay(n) PROVE OnTheWay(n)'
    <2>1. Base + n = k /\ n \in 1..Len(line) /\ Base \in Nat /\ n \in Nat
      <3>1. Base \in Nat /\ n \in Nat /\ n \in 1..Len(line)
        BY StageFacts
      <3> QED
        BY <1>3, <1>11, <3>1
    <2>2. Made(n)' = Made(n)
      BY <1>5, MadeKept
    <2>3. /\ done'[k] = done[k] /\ held'[k] = held[k] /\ state'[k] = state[k] /\ screen'[k] = screen[k]
      BY <1>1, <1>3, <1>4
    <2>4. line[n].to = "pipe"
      BY <1>2, <1>11, <2>1 DEF OnTheWay
    <2>5. ASSUME n < Len(line)
          PROVE  /\ Taken(k)' + Len(buffer'[k]) + Len(held[k]) = done[k]
                 /\ \A j \in 1..Len(buffer'[k]) : buffer'[k][j] = Made(n)[Taken(k)' + j]
      <3>1. /\ Taken(k) + Len(buffer[k]) + Len(held[k]) = done[k]
            /\ \A j \in 1..Len(buffer[k]) : buffer[k][j] = Made(n)[done[q] + j]
        BY <1>9, <1>11, <2>1, <2>5
      <3>2. Taken(k)' + Len(buffer'[k]) + Len(held[k]) = done[k]
        BY <1>4, <1>7, <1>8, <3>1
      <3>3. ASSUME NEW j \in 1..Len(Tail(buffer[k]))
            PROVE  Tail(buffer[k])[j] = Made(n)[(done[q] + 1) + j]
        <4>1. j + 1 \in 1..Len(buffer[k]) /\ done[q] + (j + 1) = (done[q] + 1) + j
          BY <1>8
        <4>2. Tail(buffer[k])[j] = buffer[k][j + 1]
          BY <1>8
        <4> QED
          BY <3>1, <4>1, <4>2
      <3> QED
        BY <1>4, <1>7, <3>2, <3>3
    <2> QED
      BY <1>5, <1>11, <2>1, <2>2, <2>3, <2>4, <2>5 DEF OnTheWay
  <1>12. \A p \in Launches : p # q =>
           /\ done'[p] = done[p] /\ held'[p] = held[p] /\ screen'[p] = screen[p]
           /\ buffer[p] = <<>> => buffer'[p] = <<>>
           /\ p + 1 # q => buffer'[p] = buffer[p]
    BY <1>1, <1>2, <1>3, <1>4
  <1> QED
    BY <1>1, <1>10, <1>11, <1>12, DataFlow

\* The unit in hand goes to the end of the pipe.
LEMMA PutToPipeFlow ==
  ASSUME IInv, FlowInv, NEW q \in Launches, PutToPipe(q)
  PROVE  FlowInv'
  <1>1. /\ state[q] = "running" /\ held[q] # <<>>
        /\ UNCHANGED <<shell, state, stage, files, done, screen, harmed>>
    BY DEF PutToPipe
  <1>2. stdout[q] = Write(q) /\ buffer' = [buffer EXCEPT ![q] = @ \o held[q]]
    BY DEF PutToPipe, FlowInv, Wired
  <1>3. /\ held'[q] = <<>> /\ buffer'[q] = buffer[q] \o held[q]
        /\ \A p \in Launches : p # q => held'[p] = held[p] /\ buffer'[p] = buffer[p]
    BY <1>2 DEF PutToPipe, IInv, TypeOK
  <1>4. line' = line /\ Base' = Base
    BY <1>1 DEF shell, Base, Begun
  <1>5. \A p \in Launches : p # q => Of(p)' = Of(p)
    BY <1>1, <1>3, OthersKept
  <1>6. \A p : Taken(p)' = Taken(p)
    BY <1>1 DEF Taken, ReaderOf, files, Read
  <1>7. ASSUME NEW n \in 1..Begun, Base + n = q, Flowing(n) PROVE OnTheWay(n)'
    <2>1. line[n].to = "pipe" /\ n < Len(line) /\ Len(line) \in Nat /\ n \in Nat
      BY <1>1, <1>2, <1>7, Writing, StageFacts
    <2>2. Made(n)' = Made(n) /\ Len(Made(n)) \in Nat
      BY <1>4, MadeKept, StageFacts
    <2>3. /\ done[q] <= Len(Made(n)) /\ held[q] = <<Made(n)[done[q]]>>
          /\ Taken(q) + Len(buffer[q]) + Len(held[q]) = done[q]
          /\ \A j \in 1..Len(buffer[q]) : buffer[q][j] = Made(n)[Taken(q) + j]
      BY <1>1, <1>7, <2>1 DEF Flowing, OnTheWay
    <2> DEFINE b == buffer[q]
               x == Made(n)[done[q]]
               c == b \o <<x>>
    <2>4. b \in Seq(Units) /\ x \in Units /\ done[q] \in Nat /\ Taken(q) \in Nat /\ Len(held[q]) = 1
      <3>1. /\ b \in Seq(Units) /\ held[q] \in Seq(Units) /\ done[q] \in Nat /\ Taken(q) \in Nat
            /\ held[q] = <<x>>
        BY <2>3, DataTypes
      <3> HIDE DEF b, x
      <3>2. <<x>>[1] = x /\ Len(<<x>>) = 1
        OBVIOUS
      <3>3. \A t \in Seq(Units) : Len(t) = 1 => t[1] \in Units
        OBVIOUS
      <3> QED
        BY <3>1, <3>2, <3>3
    <2>5. buffer'[q] = c
      BY <1>3, <2>3
    <2> HIDE DEF b, x
    <2>6. Len(c) = Len(b) + 1 /\ c[Len(b) + 1] = x /\ \A j \in 1..Len(b) : c[j] = b[j]
      BY <2>4
    <2>7. Len(b) \in Nat /\ Taken(q) + Len(b) + 1 = done[q]
      BY <2>3, <2>4 DEF b
    <2> HIDE DEF c
    <2>8. Taken(q) + Len(c) + 0 = done[q]
      BY <2>4, <2>6, <2>7
    <2>9. ASSUME NEW j \in 1..Len(c) PROVE c[j] = Made(n)[Taken(q) + j]
      <3>1. CASE j = Len(b) + 1
        <4>1. Taken(q) + j = done[q]
          BY <2>4, <2>7, <3>1
        <4> QED
          BY <2>6, <3>1, <4>1 DEF x
      <3>2. CASE j # Len(b) + 1
        <4>1. j \in 1..Len(b)
          BY <2>6, <2>7, <3>2
        <4> QED
          BY <2>3, <2>6, <4>1 DEF b
      <3> QED
        BY <3>1, <3>2
    <2>10. Len(held'[q]) = 0 /\ held'[q] = <<>>
      BY <1>3
    <2>11. n # Len(line) /\ state[q] \notin {"zombie", "reaped"}
      BY <1>1, <2>1
    <2> QED
      BY <1>1, <1>4, <1>6, <1>7, <2>1, <2>2, <2>3, <2>5, <2>8, <2>9, <2>10, <2>11 DEF OnTheWay
  <1>8. ASSUME NEW n \in 1..Begun, (Base + n) + 1 = q, OnTheWay(n) PROVE OnTheWay(n)'
    <2>1. PICK p \in Launches : p = Base + n
      BY Where DEF FlowInv, IInv
    <2>2. p # q /\ p + 1 = q
      BY <1>8, <2>1 DEF Launches
    <2> QED
      BY <1>1, <1>3, <1>4, <1>5, <1>6, <1>8, <2>1, <2>2, WayKept
  <1> QED
    BY <1>1, <1>3, <1>7, <1>8, DataFlow

\* Or to the end of what the terminal shows.
LEMMA PutFlow ==
  ASSUME IInv, FlowInv, NEW q \in Launches, Put(q)
  PROVE  FlowInv'
  <1>1. /\ state[q] = "running" /\ held[q] # <<>> /\ stdout[q] \in {Terminal, File, Shut}
        /\ UNCHANGED <<shell, state, stage, files, done, buffer, harmed>>
    BY DEF Put
  <1>2. /\ held'[q] = <<>>
        /\ screen'[q] = IF stdout[q] = Terminal THEN screen[q] \o held[q] ELSE screen[q]
        /\ \A p \in Launches : p # q => held'[p] = held[p] /\ screen'[p] = screen[p]
    BY DEF Put, IInv, TypeOK
  <1>3. line' = line /\ Base' = Base
    BY <1>1 DEF shell, Base, Begun
  <1>4. \A p \in Launches : p # q => Of(p)' = Of(p)
    BY <1>1, <1>2, OthersKept
  <1>5. \A p : Taken(p)' = Taken(p)
    BY <1>1 DEF Taken, ReaderOf, files, Read
  <1>6. ASSUME NEW n \in 1..Begun, Base + n = q, Flowing(n) PROVE OnTheWay(n)'
    <2>1. Len(line) \in Nat /\ n \in Nat /\ Len(Made(n)) \in Nat /\ Made(n)' = Made(n)
      BY <1>3, MadeKept, StageFacts
    <2>2. done[q] <= Len(Made(n)) /\ held[q] = <<Made(n)[done[q]]>>
      BY <1>1, <1>6 DEF Flowing, OnTheWay
    <2>3. Len(held'[q]) = 0 /\ held'[q] = <<>> /\ state'[q] \notin {"zombie", "reaped"}
      BY <1>1, <1>2
    <2>4. CASE stdout[q] = Terminal
      <3>1. line[n].to = "pipe" /\ n = Len(line)
        BY <1>1, <1>6, <2>4, Writing
      <3>2. /\ Len(screen[q]) + Len(held[q]) = done[q]
            /\ \A j \in 1..Len(screen[q]) : screen[q][j] = Made(n)[j]
        BY <1>6, <3>1 DEF Flowing, OnTheWay
      <3> DEFINE b == screen[q]
                 x == Made(n)[done[q]]
                 c == b \o <<x>>
      <3>3. b \in Seq(Units) /\ x \in Units /\ done[q] \in Nat /\ Len(held[q]) = 1
        <4>1. b \in Seq(Units) /\ held[q] \in Seq(Units) /\ done[q] \in Nat /\ held[q] = <<x>>
          BY <2>2, DataTypes
        <4> HIDE DEF b, x
        <4>2. <<x>>[1] = x /\ Len(<<x>>) = 1
          OBVIOUS
        <4>3. \A t \in Seq(Units) : Len(t) = 1 => t[1] \in Units
          OBVIOUS
        <4> QED
          BY <4>1, <4>2, <4>3
      <3>4. screen'[q] = c
        BY <1>2, <2>2, <2>4
      <3> HIDE DEF b, x
      <3>5. Len(c) = Len(b) + 1 /\ c[Len(b) + 1] = x /\ \A j \in 1..Len(b) : c[j] = b[j]
        BY <3>3
      <3>6. Len(b) \in Nat /\ Len(b) + 1 = done[q]
        BY <3>2, <3>3 DEF b
      <3> HIDE DEF c
      <3>7. Len(c) + 0 = done[q]
        BY <3>3, <3>5, <3>6
      <3>8. ASSUME NEW j \in 1..Len(c) PROVE c[j] = Made(n)[j]
        <4>1. CASE j = Len(b) + 1
          BY <3>5, <3>6, <4>1 DEF x
        <4>2. CASE j # Len(b) + 1
          <5>1. j \in 1..Len(b)
            BY <3>5, <3>6, <4>2
          <5> QED
            BY <3>2, <3>5, <5>1 DEF b
        <4> QED
          BY <4>1, <4>2
      <3>9. ~ (n < Len(line))
        BY <2>1, <3>1
      <3> QED
        BY <1>1, <1>3, <1>6, <2>1, <2>2, <2>3, <3>1, <3>4, <3>7, <3>8, <3>9 DEF OnTheWay
    <2>5. CASE stdout[q] \in {File, Shut}
      <3>1. line[n].to # "pipe" /\ screen'[q] = screen[q]
        BY <1>1, <1>2, <1>6, <2>5, Writing DEF Terminal, File, Shut
      <3> QED
        BY <1>1, <1>3, <1>6, <2>1, <2>2, <2>3, <3>1 DEF OnTheWay, Flowing
    <2> QED
      BY <1>1, <2>4, <2>5
  <1>7. ASSUME NEW n \in 1..Begun, (Base + n) + 1 = q, OnTheWay(n) PROVE OnTheWay(n)'
    <2>1. PICK p \in Launches : p = Base + n
      BY Where DEF FlowInv, IInv
    <2>2. p # q /\ p + 1 = q
      BY <1>7, <2>1 DEF Launches
    <2> QED
      BY <1>1, <1>3, <1>4, <1>5, <1>7, <2>1, <2>2, WayKept
  <1> QED
    BY <1>1, <1>2, <1>6, <1>7, DataFlow

\* A stage that has come to its end has made all that it makes.
LEMMA ExitFlow ==
  ASSUME IInv, FlowInv, NEW q \in Launches, Exit(q)
  PROVE  FlowInv'
  <1>1. /\ state[q] = "running" /\ held[q] = <<>> /\ End(q) /\ harmed' = harmed
        /\ done[q] = stage[q].units \/ (Reads(q) /\ AtEnd(q))
    BY DEF Exit
  <1>2. ASSUME NEW n \in 1..Begun, Base + n = q, Clean(n), Flowing(n)
        PROVE  done[q] = Len(Made(n))
    <2>1. stage[q] = line[n] /\ done[q] <= Len(Made(n))
      BY <1>2 DEF Flowing, OnTheWay
    <2>2. /\ line \in Lines /\ Base \in Nat /\ n \in 1..Len(line) /\ line[n] \in StageType
          /\ n \in Nat /\ Len(line) \in Nat /\ Len(Made(n)) \in Nat /\ line[n].units \in Nat
          /\ Input(n) \in Seq(Pairs) /\ done[q] \in Nat
      BY StageFacts, DataTypes
    <2>3. line[n].prog \in {"emit", "copy"}
      BY <1>1, <2>1 DEF FlowInv, Untouched
    <2>4. Len(Made(n)) <= line[n].units
      BY <2>2, <2>3, MadeIs
    <2>5. CASE done[q] = stage[q].units
      BY <2>1, <2>2, <2>4, <2>5
    <2>6. CASE Reads(q) /\ AtEnd(q)
      <3>1. line[n].prog = "copy"
        BY <2>1, <2>6 DEF Reads
      <3>2. Len(Made(n)) <= Len(Input(n))
        BY <2>2, <3>1, MadeIs
      <3> SUFFICES Len(Input(n)) <= done[q]
        BY <2>1, <2>2, <3>2
      <3>3. stdin[q] = CASE line[n].from = "file" -> File
                         [] line[n].from = "none" -> Shut
                         [] OTHER -> PipeIn(n)
        BY <1>1, <1>2 DEF Flowing, Plugged
      <3>4. CASE line[n].from = "file"
        <4>1. Len(Input(n)) = FileLength
          BY <2>2, <3>4, InputIs, FileIs
        <4> QED
          BY <2>2, <2>6, <3>3, <3>4, <4>1, ShellAssumption DEF AtEnd
      <3>5. CASE Input(n) = <<>>
        BY <2>2, <3>5
      <3>6. CASE line[n].from = "pipe" /\ n > 1 /\ line[n - 1].to = "pipe"
        <4>1. n - 1 \in 1..Begun /\ n - 1 \in Nat /\ n - 1 < Len(line) /\ Begun \in Nat
          <5>1. Begun \in Nat /\ n <= Begun
            BY Where DEF FlowInv, IInv
          <5> QED
            BY <2>2, <3>6, <5>1
        <4>2. PICK k \in Launches : k = Base + (n - 1)
          BY <4>1, StageFacts
        <4>3. stdin[q] = Read(k) /\ k + 1 = q
          <5>1. Base + n - 1 = k
            BY <2>2, <4>2
          <5> QED
            BY <1>2, <2>2, <3>3, <3>6, <4>2, <5>1 DEF PipeIn
        <4>4. Clean(n - 1) /\ n - 1 \in 1..n
          <5>1. n - 1 \in 1..n /\ \A m \in 1..(n - 1) : m \in 1..n
            BY <2>2, <3>6
          <5> QED
            BY <1>2, <5>1 DEF Clean
        <4>5. Flowing(n - 1)
          BY <4>1, <4>4 DEF FlowInv, Flows, Flowing
        <4>6. k \notin harmed /\ k <= launched
          BY <1>2, <4>1, <4>2, <4>4, Where DEF Clean, FlowInv, IInv
        <4>7. buffer[k] = <<>> /\ HeldBy(Write(k)) = {}
          BY <2>6, <4>3, EndsDiffer DEF AtEnd
        <4>8. state[k] \in {"zombie", "reaped"}
          <5>1. state[k] # "none"
            BY <4>6 DEF FlowInv, Untouched
          <5>2. Write(k) \notin ends[k]
            BY <4>7 DEF HeldBy
          <5>3. ASSUME state[k] \in {"forked", "running"} PROVE stdout[k] = Write(k)
            BY <3>6, <4>1, <4>2, <4>5, <5>3 DEF Flowing, Plugged, PipeOut
          <5> QED
            BY <5>1, <5>2, <5>3 DEF FlowInv, Wired, IInv, TypeOK
        <4>9. held[k] = <<>> /\ done[k] = Len(Made(n - 1))
          BY <4>2, <4>5, <4>8 DEF Flowing, OnTheWay
        <4>10. Taken(k) + Len(buffer[k]) + Len(held[k]) = done[k]
          BY <3>6, <4>1, <4>2, <4>5 DEF Flowing, OnTheWay
        <4>11. Taken(k) = done[q]
          BY <2>1, <3>1, <4>3 DEF Taken, ReaderOf
        <4>12. Input(n) = Made(n - 1)
          BY <2>2, <3>6, InputIs
        <4> QED
          BY <2>2, <4>7, <4>9, <4>10, <4>11, <4>12
      <3> QED
        <4>1. line[n].from \in {"pipe", "file", "none"} /\ (n = 1 \/ n > 1)
          BY <2>2 DEF StageType
        <4>2. line[n].from = "none" => Input(n) = <<>>
          BY <2>2, InputIs
        <4>3. line[n].from = "pipe" /\ n = 1 => Input(n) = <<>>
          BY <2>2, InputIs
        <4>4. line[n].from = "pipe" /\ n > 1 /\ line[n - 1].to # "pipe" => Input(n) = <<>>
          BY <2>2, InputIs
        <4> QED
          BY <3>4, <3>5, <3>6, <4>1, <4>2, <4>3, <4>4
    <2> QED
      BY <1>1, <2>5, <2>6
  <1> QED
    BY <1>1, <1>2, EndFlow

\* A stage that is no program makes nothing.
LEMMA ExecFailsFlow ==
  ASSUME IInv, FlowInv, NEW q \in Launches, ExecFails(q)
  PROVE  FlowInv'
  <1>1. state[q] = "forked" /\ stage[q].prog \notin {"emit", "copy"} /\ End(q) /\ harmed' = harmed
    BY DEF ExecFails
  <1>2. done[q] = 0 /\ held[q] = <<>>
    BY <1>1 DEF FlowInv, Untouched
  <1>3. ASSUME NEW n \in 1..Begun, Base + n = q, Flowing(n) PROVE done[q] = Len(Made(n))
    <2>1. stage[q] = line[n]
      BY <1>3 DEF Flowing
    <2>2. Made(n) = <<>>
      BY <1>1, <2>1, StageFacts, MadeIs
    <2> QED
      BY <1>2, <2>2
  <1> QED
    BY <1>1, <1>2, <1>3, EndFlow

-----------------------------------------------------------------------------
(* The shell. *)

\* The stages before stay as they are when a process starts, or fails to.
LEMMA OlderFlow ==
  ASSUME IInv, FlowInv, line' = line, Base' = Base, harmed \subseteq harmed', NEW q,
         q > launched, \A p \in Launches : p # q => Of(p)' = Of(p),
         \A p \in Launches : p + 1 = q => Taken(p)' = Taken(p),
         UNCHANGED buffer, NEW n \in 1..Begun, Clean(n)'
  PROVE  Flowing(n)'
  <1>1. PICK p \in Launches : p = Base + n /\ p \in 1..launched
    BY Where DEF FlowInv, IInv
  <1>2. p # q
    BY <1>1, Where DEF FlowInv, IInv
  <1>3. Flowing(n)
    <2>1. Clean(n)
      BY CleanKept
    <2> QED
      BY <2>1 DEF FlowInv, Flows, Flowing
  <1>4. Taken(p)' = Taken(p)
    BY <1>1, TakenKept
  <1> QED
    BY <1>1, <1>2, <1>3, <1>4, StageKept

\* A new line has no stage yet.
LEMMA ReadLineFlow ==
  ASSUME IInv, FlowInv, ReadLine
  PROVE  FlowInv'
  <1>1. PICK l \in Lines :
          /\ line' = l
          /\ pc' = CASE Len(l) > 1 -> "pipe" [] Len(l) = 1 /\ l[1].prog = "exit" -> "returned"
                     [] OTHER -> "fork"
    BY DEF ReadLine
  <1>2. i' = 1 /\ in' = Terminal /\ UNCHANGED <<launched, fds, state, stage, files, data, harmed>>
    BY DEF ReadLine
  <1>3. pc' \in {"pipe", "returned", "fork"} /\ (pc' = "fork" => ~ (1 < Len(l)))
    BY <1>1
  <1>4. Begun' = 0
    BY <1>2, <1>3 DEF Begun
  <1>5. launched \in Nat
    BY DEF IInv, TypeOK
  <1>6. Begun' <= launched' /\ Flows'
    BY <1>2, <1>4, <1>5 DEF Flows
  <1>7. Piped'
    BY <1>1, <1>2, <1>3 DEF Piped, Terminal
  <1>8. Wired' /\ Untouched'
    BY <1>2 DEF FlowInv, Wired, Untouched, files, data, Read, Write
  <1> QED
    BY <1>6, <1>7, <1>8 DEF FlowInv

\* A step of the shell that starts nothing.
LEMMA QuietFlow ==
  ASSUME IInv, FlowInv, Begun' = Begun, UNCHANGED <<line, launched, state, stage, files, data, harmed>>
  PROVE  Begun' <= launched' /\ Wired' /\ Untouched' /\ Flows'
  <1>1. Base' = Base
    BY DEF Base
  <1>2. UNCHANGED <<stdin, stdout, ends, done, held, buffer, screen>>
    BY DEF files, data
  <1>3. \A p : Of(p)' = Of(p)
    BY <1>2 DEF Of
  <1>4. ASSUME NEW n \in 1..Begun, Clean(n)' PROVE Flowing(n)'
    <2>1. PICK p \in Launches : p = Base + n
      BY Where DEF FlowInv, IInv
    <2>2. Clean(n)
      BY <1>1, <1>4, CleanKept
    <2>3. Flowing(n)
      BY <2>2 DEF FlowInv, Flows, Flowing
    <2> QED
      BY <1>1, <1>2, <1>3, <2>1, <2>3, StageKept, TakenKept
  <1>5. Flows'
    BY <1>4 DEF Flows, Flowing
  <1>6. Wired' /\ Untouched'
    BY <1>2 DEF FlowInv, Wired, Untouched, Read, Write
  <1> QED
    BY <1>5, <1>6 DEF FlowInv

\* The ends of the next pipe are the shell's.
LEMMA PipeFlow ==
  ASSUME IInv, FlowInv, Pipe
  PROVE  FlowInv'
  <1>1. /\ pc = "pipe" /\ pc' = "fork" /\ fds' = fds \cup {Read(launched + 1), Write(launched + 1)}
        /\ UNCHANGED <<line, i, in, launched, state, stage, files, data, harmed>>
    BY DEF Pipe
  <1>2. Begun' = Begun
    BY <1>1 DEF Begun
  <1>3. Piped'
    BY <1>1 DEF FlowInv, Piped, Read, Write, Terminal
  <1> QED
    BY <1>1, <1>2, <1>3, QuietFlow DEF FlowInv

\* The next stage is to read the pipe of the last one.
LEMMA CloseFlow ==
  ASSUME IInv, FlowInv, Close
  PROVE  FlowInv'
  <1>1. /\ pc = "close" /\ in' = Read(launched) /\ i' = i + 1
        /\ pc' = IF i + 1 < Len(line) THEN "pipe" ELSE "fork"
        /\ UNCHANGED <<line, launched, state, stage, files, data, harmed>>
    BY DEF Close
  <1>2. i \in Nat /\ i > 0 /\ Len(line) \in Nat
    BY <1>1, Where DEF IInv, Position, FlowInv
  <1>3. Begun' = Begun
    BY <1>1, <1>2 DEF Begun
  <1>4. Piped'
    <2>1. i' # 1
      BY <1>1, <1>2
    <2>2. pc' = "fork" => ~ (i' < Len(line'))
      BY <1>1
    <2> QED
      BY <1>1, <2>1, <2>2 DEF Piped, Read
  <1> QED
    BY <1>1, <1>3, <1>4, QuietFlow DEF FlowInv

\* A stage that has ended is collected.
LEMMA WaitFlow ==
  ASSUME IInv, FlowInv, Wait
  PROVE  FlowInv'
  <1> DEFINE q == launched
  <1>1. /\ pc = "wait" /\ state[q] = "zombie" /\ state' = [state EXCEPT ![q] = "reaped"] /\ pc' = Launched
        /\ UNCHANGED <<line, i, in, launched, fds, stage, files, data, harmed>>
    BY DEF Wait
  <1>2. UNCHANGED <<stdin, stdout, ends, done, held, buffer, screen>>
    BY <1>1 DEF files, data
  <1>3. i \in 1..Len(line) /\ Len(line) \in Nat /\ q \in Launches /\ q \in Nat /\ MaxLaunches \in Nat
    <2>1. i \in 1..Len(line) /\ q >= 1
      BY <1>1 DEF IInv, Position
    <2> QED
      BY <2>1, Where, ShellAssumption DEF FlowInv, IInv, TypeOK, Launches
  <1>4. Begun' = Begun
    BY <1>1, <1>3 DEF Begun, Launched
  <1>5. Base' = Base
    BY <1>1, <1>4 DEF Base
  <1>6. /\ state'[q] = "reaped" /\ \A p \in Launches : p # q => state'[p] = state[p]
    BY <1>1, <1>3 DEF IInv, TypeOK
  <1>7. \A p : Taken(p)' = Taken(p)
    BY <1>1, <1>2 DEF Taken, ReaderOf, Read
  <1>8. ASSUME NEW n \in 1..Begun, Clean(n)' PROVE Flowing(n)'
    <2>1. PICK p \in Launches : p = Base + n
      BY Where DEF FlowInv, IInv
    <2>2. Clean(n)
      BY <1>1, <1>5, <1>8, CleanKept
    <2>3. Flowing(n)
      BY <2>2 DEF FlowInv, Flows, Flowing
    <2>4. CASE p # q
      <3>1. Of(p)' = Of(p)
        BY <1>1, <1>2, <1>6, <2>4 DEF Of
      <3> QED
        BY <1>1, <1>2, <1>5, <1>7, <2>1, <2>3, <3>1, StageKept
    <2>5. CASE p = q
      <3>2. Plugged(n)'
        BY <1>5, <1>6, <2>1, <2>5 DEF Plugged
      <3>3. OnTheWay(n)'
        <4>1. held[p] = <<>> /\ done[p] = Len(Made(n))
          BY <1>1, <2>1, <2>3, <2>5 DEF Flowing, OnTheWay
        <4> QED
          BY <1>1, <1>2, <1>5, <1>7, <2>1, <2>3, <4>1, WayStays DEF Flowing
      <3> QED
        BY <1>1, <1>5, <2>1, <2>3, <3>2, <3>3 DEF Flowing
    <2> QED
      BY <2>4, <2>5
  <1>9. Flows'
    BY <1>4, <1>8 DEF Flows, Flowing
  <1>10. Wired' /\ Untouched'
    BY <1>1, <1>2, <1>6 DEF FlowInv, Wired, Untouched, Read, Write
  <1>11. Piped' /\ Begun' <= launched'
    BY <1>1, <1>4 DEF FlowInv, Piped, Launched
  <1> QED
    BY <1>9, <1>10, <1>11 DEF FlowInv

\* What a launch changes of where the shell is.
LEMMA LaunchPlace ==
  ASSUME IInv, FlowInv, pc = "fork", launched' = launched + 1, UNCHANGED <<line, i>>,
         pc' \in {"wait", Launched}
  PROVE  /\ launched + 1 \in Launches /\ launched \in Nat
         /\ i \in 1..Len(line) /\ line \in Lines /\ i \in Nat /\ Len(line) \in Nat
         /\ Begun = i - 1 /\ Begun' = i /\ Base' = Base /\ Base \in Nat /\ Base + i = launched + 1
         /\ Begun' <= launched' /\ Piped'
         /\ state[launched + 1] = "none" /\ launched + 1 \notin harmed
  <1>1. launched + 1 \in Launches /\ launched \in Nat /\ i \in 1..Len(line) /\ line \in Lines
        /\ Len(line) \in Nat
    BY AtStage, ShellAssumption DEF IInv, Position, Launches
  <1>2. Begun = i - 1
    BY DEF Begun
  <1>3. Begun' = i
    BY <1>1 DEF Begun, Launched
  <1>4. Base' = Base /\ Base \in Nat /\ Base + i = launched + 1 /\ Begun' <= launched'
    BY <1>1, <1>2, <1>3, Where DEF Base, FlowInv, IInv
  <1>5. Piped'
    BY DEF Piped, Launched
  <1>6. state[launched + 1] = "none" /\ launched + 1 \notin harmed
    BY <1>1 DEF IInv, Unborn, TypeOK
  <1> QED
    BY <1>1, <1>2, <1>3, <1>4, <1>5, <1>6

\* A new process is one more stage of the line, and has done nothing.
LEMMA ForkFlow ==
  ASSUME IInv, FlowInv, Fork
  PROVE  FlowInv'
  <1>0. PICK q \in Launches : q = launched + 1
    BY LaunchPlace DEF Fork
  <1>1. /\ pc = "fork" /\ launched' = q
        /\ state' = [state EXCEPT ![q] = "forked"] /\ stage' = [stage EXCEPT ![q] = line[i]]
        /\ stdin' = [stdin EXCEPT ![q] = in] /\ stdout' = [stdout EXCEPT ![q] = Out(q)]
        /\ ends' = [ends EXCEPT ![q] = fds]
        /\ UNCHANGED <<line, i, in, fds, data, harmed>> /\ pc' \in {"wait", Launched}
    BY <1>0 DEF Fork
  <1>2. UNCHANGED <<done, held, buffer, screen>>
    BY <1>1 DEF data
  <1>3. /\ q \in Launches /\ launched \in Nat /\ q \in Nat
        /\ i \in 1..Len(line) /\ line \in Lines /\ i \in Nat /\ Len(line) \in Nat
        /\ Begun = i - 1 /\ Begun' = i /\ Base' = Base /\ Base \in Nat /\ Base + i = q
        /\ Begun' <= launched' /\ Piped'
        /\ state[q] = "none" /\ q \notin harmed
    BY <1>0, <1>1, LaunchPlace
  <1>4. /\ state'[q] = "forked" /\ stage'[q] = line[i] /\ stdin'[q] = in /\ stdout'[q] = Out(q)
        /\ ends'[q] = fds
        /\ \A p \in Launches : p # q => /\ state'[p] = state[p] /\ stage'[p] = stage[p]
                                        /\ stdin'[p] = stdin[p] /\ stdout'[p] = stdout[p]
                                        /\ ends'[p] = ends[p]
    BY <1>1, <1>3 DEF IInv, TypeOK
  <1>5. done[q] = 0 /\ held[q] = <<>> /\ buffer[q] = <<>> /\ screen[q] = <<>>
    BY <1>3 DEF FlowInv, Untouched
  <1>6. \A p \in Launches : p # q => Of(p)' = Of(p)
    BY <1>2, <1>4 DEF Of
  <1>7. \A p \in Launches : p + 1 = q => Taken(p)' = Taken(p)
    BY <1>2, <1>5 DEF Taken
  <1>8. in = IF i = 1 THEN Terminal ELSE Read(launched)
    BY <1>1 DEF FlowInv, Piped
  <1>9. ASSUME NEW n \in 1..Begun, Clean(n)' PROVE Flowing(n)'
    <2>1. q > launched
      BY <1>0, <1>3
    <2> QED
      BY <1>1, <1>2, <1>3, <1>6, <1>7, <1>9, <2>1, OlderFlow
  <1>10. \A m : m = i => Flowing(m)'
    <2> SUFFICES ASSUME NEW m, m = i PROVE Flowing(m)'
      OBVIOUS
    <2>1. PipeIn(m) = in /\ PipeOut(m) = Out(q)
      <3>1. Base + i - 1 = launched
        BY <1>0, <1>3
      <3> QED
        BY <1>3, <1>8, <3>1 DEF PipeIn, PipeOut, Out
    <2>2. PipeIn(m)' = PipeIn(m) /\ PipeOut(m)' = PipeOut(m) /\ Made(m)' = Made(m)
      BY <1>1, <1>3, MadeKept
    <2>3. Plugged(m)'
      BY <1>1, <1>3, <1>4, <2>1, <2>2 DEF Plugged
    <2>4. Taken(q)' = 0
      <3>1. q + 1 \in Launches => done[q + 1] = 0
        <4>1. q + 1 > launched
          BY <1>0, <1>3
        <4> QED
          BY <4>1 DEF IInv, Unborn, FlowInv, Untouched
      <3> QED
        BY <1>2, <3>1 DEF Taken, ReaderOf
    <2>5. Made(m) \in Seq(Pairs)
      BY <1>3, MadeIs
    <2>6. OnTheWay(m)'
      <3>1. Len(held[q]) = 0 /\ Len(buffer[q]) = 0 /\ Len(screen[q]) = 0
        BY <1>5
      <3>2. 0 <= Len(Made(m)) /\ 0 + 0 + 0 = 0 /\ 0 + 0 = 0 /\ 1..0 = {}
        BY <2>5
      <3>3. Base' + m = q /\ state'[q] = "forked" /\ line' = line
        BY <1>1, <1>3, <1>4
      <3>4. done'[q] = 0 /\ held'[q] = <<>> /\ buffer'[q] = <<>> /\ screen'[q] = <<>>
        BY <1>2, <1>5
      <3> QED
        BY <2>2, <2>4, <3>1, <3>2, <3>3, <3>4 DEF OnTheWay
    <2> QED
      BY <1>1, <1>3, <1>4, <2>3, <2>6 DEF Flowing
  <1>11. Flows'
    <2>1. \A n \in 1..i : n = i \/ n \in 1..Begun
      BY <1>3
    <2> QED
      BY <1>1, <1>3, <1>9, <1>10, <2>1 DEF Flows, Flowing
  <1>12. Wired'
    <2>1. ASSUME NEW k \in Launches
          PROVE  /\ stdout'[q] = Write(k) => k = q
                 /\ stdin'[q] = Read(k) => q = k + 1
                 /\ stdin'[q] # Write(k)
      <3>1. Out(q) = Write(k) => k = q
        BY <1>3, EndsDiffer DEF Out
      <3>2. in = Read(k) => q = k + 1
        BY <1>0, <1>3, <1>8, EndsDiffer DEF Read, Terminal
      <3>3. in # Write(k)
        BY <1>8 DEF Read, Write, Terminal
      <3> QED
        BY <1>4, <3>1, <3>2, <3>3
    <2>2. stdout'[q] = Write(q) => Write(q) \in ends'[q]
      <3>1. i < Len(line) => Write(q) \in fds
        BY <1>0, <1>1 DEF FlowInv, Piped
      <3>2. Out(q) = Write(q) => i < Len(line)
        BY DEF Out, Write, Terminal
      <3> QED
        BY <1>4, <3>1, <3>2
    <2>3. ASSUME NEW p \in Launches, NEW k \in Launches
          PROVE  /\ stdout'[p] = Write(k) => k = p
                 /\ stdin'[p] = Read(k) => p = k + 1
                 /\ stdin'[p] # Write(k)
                 /\ state'[p] \in {"forked", "running"} /\ stdout'[p] = Write(p) => Write(p) \in ends'[p]
      <3>1. CASE p = q
        BY <2>1, <2>2, <3>1
      <3>2. CASE p # q
        BY <1>4, <3>2 DEF FlowInv, Wired
      <3> QED
        BY <3>1, <3>2
    <2> QED
      BY <2>3 DEF Wired, Read, Write
  <1>13. Untouched'
    <2>1. \A p \in Launches : p # q /\ p <= launched' => p <= launched
      BY <1>0, <1>1, <1>3 DEF Launches
    <2> QED
      BY <1>1, <1>2, <1>4, <1>5, <2>1 DEF FlowInv, Untouched
  <1> QED
    BY <1>3, <1>11, <1>12, <1>13 DEF FlowInv

\* Without it, nothing is claimed of the stage and those after it.
LEMMA ForkFailsFlow ==
  ASSUME IInv, FlowInv, ForkFails
  PROVE  FlowInv'
  <1> DEFINE q == launched + 1
  <1>1. /\ pc = "fork" /\ launched' = q /\ harmed' = harmed \cup {q} /\ pc' \in {"wait", Launched}
        /\ UNCHANGED <<line, i, in, fds, state, stage, files, data>>
    BY DEF ForkFails
  <1>2. UNCHANGED <<stdin, stdout, ends, done, held, buffer, screen>>
    BY <1>1 DEF files, data
  <1>3. /\ q \in Launches /\ launched \in Nat /\ q > launched
        /\ i \in 1..Len(line) /\ i \in Nat
        /\ Begun = i - 1 /\ Begun' = i /\ Base' = Base /\ Base + i = q
        /\ Begun' <= launched' /\ Piped'
    BY <1>1, LaunchPlace
  <1>4. \A p : Of(p)' = Of(p) /\ Taken(p)' = Taken(p)
    BY <1>1, <1>2 DEF Of, Taken, ReaderOf, Read
  <1>5. ASSUME NEW n \in 1..Begun, Clean(n)' PROVE Flowing(n)'
    BY <1>1, <1>2, <1>3, <1>4, <1>5, OlderFlow
  <1>6. ~ Clean(i)'
    <2>1. i \in 1..i
      BY <1>3
    <2> QED
      BY <1>1, <1>3, <2>1 DEF Clean
  <1>7. Flows'
    <2>1. \A n \in 1..i : n = i \/ n \in 1..Begun
      BY <1>3
    <2> QED
      BY <1>1, <1>3, <1>5, <1>6, <2>1 DEF Flows, Flowing
  <1>8. Wired'
    BY <1>2, <1>1 DEF FlowInv, Wired, Read, Write
  <1>9. Untouched'
    <2>1. \A p \in Launches : p <= launched' => p = q \/ p <= launched
      BY <1>1, <1>3 DEF Launches
    <2> QED
      BY <1>1, <1>2, <2>1 DEF FlowInv, Untouched
  <1> QED
    BY <1>3, <1>7, <1>8, <1>9 DEF FlowInv

\* The first state, and every step.
LEMMA FlowInit == Init => FlowInv
  <1> SUFFICES ASSUME Init PROVE FlowInv
    OBVIOUS
  <1>1. Begun = 0
    BY DEF Init, Begun
  <1>2. Piped /\ Flows /\ Begun <= launched
    BY <1>1 DEF Init, Piped, Flows
  <1>3. Wired /\ Untouched
    BY EndsDiffer, ShellAssumption DEF Init, Wired, Untouched, Launches
  <1> QED
    BY <1>2, <1>3 DEF FlowInv

LEMMA FlowNext ==
  ASSUME IInv, FlowInv, [Next]_vars
  PROVE  FlowInv'
  <1>1. CASE ShellStep
    BY <1>1, ReadLineFlow, PipeFlow, ForkFlow, ForkFailsFlow, WaitFlow, CloseFlow DEF ShellStep
  <1>2. ASSUME NEW p \in Launches, ProcessStep(p) PROVE FlowInv'
    <2>1. CASE ExecGarbled(p)
      BY <2>1, EndFlow DEF ExecGarbled
    <2> QED
      BY <1>2, <2>1, ExecFlow, ExecFailsFlow, EmitFlow, TakeFromPipeFlow, TakeFromFileFlow,
         PutToPipeFlow, PutFlow, ExitFlow DEF ProcessStep
  <1>3. ASSUME NEW p \in Launches, Killed(p) PROVE FlowInv'
    BY <1>3, EndFlow DEF Killed
  <1>4. CASE UNCHANGED vars
    <2>1. UNCHANGED <<pc, line, i, in, launched, fds, state, stage, files, data, harmed>>
      BY <1>4 DEF vars, shell
    <2>2. Begun' = Begun /\ Piped'
      BY <2>1 DEF Begun, FlowInv, Piped, Read, Write, Terminal
    <2> QED
      BY <2>1, <2>2, QuietFlow DEF FlowInv
  <1> QED
    BY <1>1, <1>2, <1>3, <1>4 DEF Next

\* At the prompt the last stage has made its output, and the terminal has it.
LEMMA OutputFollows ==
  ASSUME IInv, FlowInv
  PROVE  RightOutput
  <1> DEFINE n == Len(line)
  <1> SUFFICES ASSUME pc = "prompt", line # <<>>,
                      harmed \cap ((launched - n + 1)..launched) = {}, ~ stage[launched].amp
               PROVE  screen[launched] = Output(launched - n)[n]
    BY DEF RightOutput
  <1>1. Begun = n /\ Base = launched - n
    BY DEF Begun, Base
  <1>2. line \in Lines /\ n \in Nat /\ n >= 1 /\ n \in 1..n
    BY LineStages DEF IInv, TypeOK
  <1>3. n \in 1..Begun /\ Base \in Nat /\ launched \in Nat /\ Base + n = launched
        /\ launched \in Launches /\ launched \in 1..launched
    BY <1>1, <1>2, Where DEF FlowInv, IInv
  <1>4. Clean(n)
    <2>1. \A m \in 1..n : Base + m \in (launched - n + 1)..launched
      BY <1>1, <1>2, <1>3
    <2> QED
      BY <2>1 DEF Clean
  <1> HIDE DEF n
  <1>5. Flowing(n) /\ launched \notin harmed
    <2>1. stage[Base + n] = line[n] /\ Plugged(n) /\ OnTheWay(n)
      BY <1>3, <1>4 DEF FlowInv, Flows
    <2> QED
      BY <1>2, <1>3, <1>4, <2>1 DEF Flowing, Clean
  <1>6. state[launched] = "reaped"
    <2>1. state[launched] # "none"
      BY <1>3, <1>5 DEF FlowInv, Untouched
    <2> QED
      BY <1>3, <2>1 DEF IInv, OneAtATime
  <1>7. held[launched] = <<>> /\ done[launched] = Len(Made(n))
    BY <1>3, <1>5, <1>6 DEF Flowing, OnTheWay
  <1>8. Output(launched - n)[n] = IF line[n].to = "pipe" THEN Made(n) ELSE <<>>
    BY <1>1, <1>2, <1>3, MadeIs DEF n
  <1>9. CASE line[n].to = "pipe"
    <2>1. /\ Len(screen[launched]) + Len(held[launched]) = done[launched]
          /\ \A j \in 1..Len(screen[launched]) : screen[launched][j] = Made(n)[j]
      BY <1>3, <1>5, <1>9 DEF Flowing, OnTheWay, n
    <2>2. screen[launched] \in Seq(Units) /\ Made(n) \in Seq(Pairs)
      BY <1>3, DataTypes, StageFacts
    <2>3. Len(screen[launched]) = Len(Made(n))
      BY <1>7, <2>1, <2>2
    <2>4. screen[launched] = Made(n)
      <3>1. \A s, t \in Seq(Units \cup Pairs) :
              Len(s) = Len(t) /\ (\A j \in 1..Len(s) : s[j] = t[j]) => s = t
        OBVIOUS
      <3>2. screen[launched] \in Seq(Units \cup Pairs) /\ Made(n) \in Seq(Units \cup Pairs)
        BY <2>2
      <3> QED
        BY <2>1, <2>3, <3>1, <3>2
    <2> QED
      BY <1>8, <1>9, <2>4
  <1>10. CASE line[n].to # "pipe"
    BY <1>3, <1>5, <1>8, <1>10 DEF Flowing, OnTheWay
  <1> QED
    BY <1>9, <1>10

\* At the prompt the terminal shows the composition of the stages (RightOutput): nothing is lost,
\* repeated or reordered in the pipes, for every line, number of launches and capacity of the pipes.
THEOREM TerminalRight == Spec => []RightOutput
  <1>1. Init => IInv /\ FlowInv
    BY InitInv, FlowInit
  <1>2. IInv /\ FlowInv /\ [Next]_vars => IInv' /\ FlowInv'
    BY StepInv, FlowNext
  <1>3. IInv /\ FlowInv => RightOutput
    BY OutputFollows
  <1> QED
    BY <1>1, <1>2, <1>3, PTL DEF Spec
=============================================================================
