------------------------------- MODULE Shell -------------------------------
(***************************************************************************)
(* The command shell of Assignment 2: shell_loop and shell_launch.         *)
(*                                                                         *)
(* A line is a sequence of stages.  The shell makes a pipe, starts a       *)
(* stage, and waits for it, unless it ends in &, before it starts the      *)
(* next: a stage that writes more than a pipe holds is never read from.    *)
(* The read end of a pipe is never closed in the shell, so every later     *)
(* stage inherits it, and no stage is told that its reader has ended.      *)
(*                                                                         *)
(* Stages and pipes are numbered in the order of the calls of              *)
(* shell_launch, through all lines; stage n writes to pipe n, if to any.   *)
(***************************************************************************)
EXTENDS Naturals, Sequences, FiniteSets

CONSTANTS
  Lines,          \* the lines that the user types
  MaxLaunches,    \* bound: the calls of shell_launch, those of all lines together
  Capacity,       \* the units that a pipe holds
  FileLength      \* the units in the file that < names

\* What a stage runs, and what it asks shell_launch for.  "emit" writes units of its own;
\* "copy" reads units and writes them, to the end of its input or until it has
\* copied that many; "exit" is the built-in, and no program; "missing" is neither.
StageType ==
  [prog : {"emit", "copy", "missing", "exit"}, units : Nat, amp : BOOLEAN,
   from : {"pipe", "file", "none"}, to : {"pipe", "file", "none"}]

ASSUME ShellAssumption ==
  /\ Lines \subseteq Seq(StageType) \ {<<>>}
  /\ MaxLaunches \in Nat
  /\ Capacity \in Nat \ {0}
  /\ FileLength \in Nat

Launches == 1..MaxLaunches

\* The objects that a file descriptor stands for.
Read(k) == <<k, "read">>
Write(k) == <<k, "write">>
Terminal == <<0, "terminal">>
File == <<0, "file">>
Shut == <<0, "shut">>

Ends == {Read(k) : k \in Launches} \cup {Write(k) : k \in Launches}
Streams == Ends \cup {Terminal, File, Shut}

Units == (0..MaxLaunches) \X (Nat \ {0})
FileData == [j \in 1..FileLength |-> <<0, j>>]

VARIABLES
  pc, line, i, in,    \* shell_loop: where it is, and its local variables
  launched,           \* the calls of shell_launch so far
  fds,                \* the pipe ends that the shell has open
  state,              \* of the process of each call of shell_launch
  stage,              \* what it runs
  stdin, stdout,      \* its descriptors 0 and 1
  ends,               \* the pipe ends that it has open
  done, held,         \* the units it has taken, and the one it is about to write
  buffer,             \* the contents of each pipe
  screen,             \* what each process has written to the terminal
  harmed              \* history: the launches that failed: killed, garbled, or not forked

shell == <<pc, line, i, in, launched, fds>>
files == <<stdin, stdout, ends>>
data == <<done, held, buffer, screen>>
vars == <<shell, state, stage, files, data, harmed>>

Init ==
  /\ pc = "prompt" /\ line = <<>> /\ i = 0 /\ in = Terminal
  /\ launched = 0
  /\ fds = {}
  /\ state = [p \in Launches |-> "none"]
  /\ stage = [p \in Launches |-> [prog |-> "missing", units |-> 0, amp |-> FALSE,
                                  from |-> "pipe", to |-> "pipe"]]
  /\ stdin = [p \in Launches |-> Terminal]
  /\ stdout = [p \in Launches |-> Terminal]
  /\ ends = [p \in Launches |-> {}]
  /\ done = [p \in Launches |-> 0]
  /\ held = [p \in Launches |-> <<>>]
  /\ buffer = [k \in Launches |-> <<>>]
  /\ screen = [p \in Launches |-> <<>>]
  /\ harmed = {}

-----------------------------------------------------------------------------
(* The shell. *)

\* A line with one stage may be a built-in; in a pipeline nothing is.
ReadLine ==
  /\ pc = "prompt"
  /\ \E l \in Lines :
       /\ launched + Len(l) <= MaxLaunches
       /\ line' = l
       /\ pc' = CASE Len(l) > 1            -> "pipe"
                  [] Len(l) = 1 /\ l[1].prog = "exit" -> "returned"
                  [] OTHER                 -> "fork"
  /\ i' = 1
  /\ in' = Terminal
  /\ UNCHANGED <<launched, fds, state, stage, files, data, harmed>>

\* pipe(fd)
Pipe ==
  /\ pc = "pipe"
  /\ fds' = fds \cup {Read(launched + 1), Write(launched + 1)}
  /\ pc' = "fork"
  /\ UNCHANGED <<line, i, in, launched, state, stage, files, data, harmed>>

\* Mutant: the loop runs once too often.
LaunchedOffByOne == IF i <= Len(line) THEN "close" ELSE "prompt"

\* Where shell_loop goes when shell_launch has returned.
Launched == IF i < Len(line) THEN "close" ELSE "prompt"

Out(p) == IF i < Len(line) THEN Write(p) ELSE Terminal

\* Mutant: the test of the last argument is the wrong way round.
WaitsSwapped(s) == s.amp

\* The parent waits for the child unless the last argument is &.
Waits(s) == ~s.amp

Fork ==
  /\ pc = "fork"
  /\ LET p == launched + 1
     IN /\ launched' = p
        /\ state' = [state EXCEPT ![p] = "forked"]
        /\ stage' = [stage EXCEPT ![p] = line[i]]
        /\ stdin' = [stdin EXCEPT ![p] = in]
        /\ stdout' = [stdout EXCEPT ![p] = Out(p)]
        /\ ends' = [ends EXCEPT ![p] = fds]
  /\ pc' = IF Waits(line[i]) THEN "wait" ELSE Launched
  /\ UNCHANGED <<line, i, in, fds, data, harmed>>

\* shell_launch prints an error and returns, and the loop goes on.
ForkFails ==
  /\ pc = "fork"
  /\ launched' = launched + 1
  /\ harmed' = harmed \cup {launched + 1}
  /\ pc' = Launched
  /\ UNCHANGED <<line, i, in, fds, state, stage, files, data>>

\* Mutant: waitpid returns with the child running, and is not called again.
WaitOnce ==
  /\ pc = "wait"
  /\ state' = [state EXCEPT ![launched] = IF @ = "zombie" THEN "reaped" ELSE @]
  /\ pc' = Launched
  /\ UNCHANGED <<line, i, in, launched, fds, stage, files, data, harmed>>

\* waitpid(pid, ...), again until the child has ended.
Wait ==
  /\ pc = "wait"
  /\ state[launched] = "zombie"
  /\ state' = [state EXCEPT ![launched] = "reaped"]
  /\ pc' = Launched
  /\ UNCHANGED <<line, i, in, launched, fds, stage, files, data, harmed>>

\* Mutant: the write end is left open.
CloseNothing ==
  /\ pc = "close"
  /\ in' = Read(launched)
  /\ i' = i + 1
  /\ pc' = IF i + 1 < Len(line) THEN "pipe" ELSE "fork"
  /\ UNCHANGED <<line, launched, fds, state, stage, files, data, harmed>>

\* close(fd[1]); in = fd[0].  The previous value of in stays open.
Close ==
  /\ pc = "close"
  /\ fds' = fds \ {Write(launched)}
  /\ in' = Read(launched)
  /\ i' = i + 1
  /\ pc' = IF i + 1 < Len(line) THEN "pipe" ELSE "fork"
  /\ UNCHANGED <<line, launched, state, stage, files, data, harmed>>

-----------------------------------------------------------------------------
(* The child in shell_launch: redirections, then execvp.                   *)

\* Mutant: the pipe is put in place after the redirection, and wins.
SourcePipeWins(p) == stdin[p]

\* close(0) and dup(open(...)), where there is a <; a file that cannot be
\* opened leaves the descriptor shut.
Source(p) == CASE stage[p].from = "file" -> File
               [] stage[p].from = "none" -> Shut
               [] OTHER                  -> stdin[p]

Target(p) == CASE stage[p].to = "file" -> File
               [] stage[p].to = "none" -> Shut
               [] OTHER                -> stdout[p]

\* What dup2 and close do to the pipe ends: one that a redirection replaces is gone.
Kept(p) == {e \in ends[p] : /\ e = stdin[p] => e = Source(p)
                            /\ e = stdout[p] => e = Target(p)}

Exec(p) ==
  /\ state[p] = "forked"
  /\ stage[p].prog \in {"emit", "copy"}
  /\ state' = [state EXCEPT ![p] = "running"]
  /\ stdin' = [stdin EXCEPT ![p] = Source(p)]
  /\ stdout' = [stdout EXCEPT ![p] = Target(p)]
  /\ ends' = [ends EXCEPT ![p] = Kept(p)]
  /\ UNCHANGED <<shell, stage, data, harmed>>

\* What a process has open is closed when it ends; who waits for it finds it then.
End(p) ==
  /\ state' = [state EXCEPT ![p] = "zombie"]
  /\ ends' = [ends EXCEPT ![p] = {}]
  /\ UNCHANGED <<shell, stage, stdin, stdout, data>>

\* There is no such program: the child exits.  The built-ins are none.
ExecFails(p) ==
  /\ state[p] = "forked"
  /\ stage[p].prog \notin {"emit", "copy"}
  /\ End(p)
  /\ UNCHANGED harmed

\* The array args2 has one entry less than args, and nothing puts a null pointer
\* behind the words copied into it: execvp reads on in whatever the heap holds.
\* If that is a null pointer all is well (Exec); if not, execvp fails, or the
\* program meets arguments that are nobody's and gives up.
ExecGarbled(p) ==
  /\ state[p] = "forked"
  /\ stage[p].prog \in {"emit", "copy"}
  /\ End(p)
  /\ harmed' = harmed \cup {p}

-----------------------------------------------------------------------------
(* The programs, and the pipes of the system. *)

Reads(p) == state[p] = "running" /\ stage[p].prog = "copy"

HeldBy(e) == {p \in Launches : e \in ends[p]}

\* The reader of a pipe comes to its end when nobody can write to it any more.
AtEnd(p) ==
  IF stdin[p] = File THEN done[p] >= FileLength
  ELSE \A k \in Launches :
         stdin[p] = Read(k) =>
           /\ buffer[k] = <<>>
           /\ Write(k) \notin fds
           /\ HeldBy(Write(k)) = {}

Emit(p) ==
  /\ state[p] = "running" /\ stage[p].prog = "emit"
  /\ held[p] = <<>> /\ done[p] < stage[p].units
  /\ done' = [done EXCEPT ![p] = @ + 1]
  /\ held' = [held EXCEPT ![p] = <<<<p, done'[p]>>>>]
  /\ UNCHANGED <<shell, state, stage, files, buffer, screen, harmed>>

TakeFromPipe(p) ==
  /\ Reads(p) /\ held[p] = <<>> /\ done[p] < stage[p].units
  /\ \E k \in Launches :
       /\ stdin[p] = Read(k)
       /\ buffer[k] # <<>>
       /\ held' = [held EXCEPT ![p] = <<Head(buffer[k])>>]
       /\ buffer' = [buffer EXCEPT ![k] = Tail(@)]
  /\ done' = [done EXCEPT ![p] = @ + 1]
  /\ UNCHANGED <<shell, state, stage, files, screen, harmed>>

TakeFromFile(p) ==
  /\ Reads(p) /\ held[p] = <<>> /\ done[p] < stage[p].units
  /\ stdin[p] = File /\ done[p] < FileLength
  /\ done' = [done EXCEPT ![p] = @ + 1]
  /\ held' = [held EXCEPT ![p] = <<FileData[done'[p]]>>]
  /\ UNCHANGED <<shell, state, stage, files, buffer, screen, harmed>>

PutToPipe(p) ==
  /\ state[p] = "running" /\ held[p] # <<>>
  /\ \E k \in Launches :
       /\ stdout[p] = Write(k)
       /\ Len(buffer[k]) < Capacity
       /\ buffer' = [buffer EXCEPT ![k] = @ \o held[p]]
  /\ held' = [held EXCEPT ![p] = <<>>]
  /\ UNCHANGED <<shell, state, stage, files, done, screen, harmed>>

\* What is written to a file, or to no file, is not followed further.
Put(p) ==
  /\ state[p] = "running" /\ held[p] # <<>>
  /\ stdout[p] \in {Terminal, File, Shut}
  /\ screen' = IF stdout[p] = Terminal
                 THEN [screen EXCEPT ![p] = @ \o held[p]] ELSE screen
  /\ held' = [held EXCEPT ![p] = <<>>]
  /\ UNCHANGED <<shell, state, stage, files, done, buffer, harmed>>

Exit(p) ==
  /\ state[p] = "running" /\ held[p] = <<>>
  /\ done[p] = stage[p].units \/ (Reads(p) /\ AtEnd(p))
  /\ End(p)
  /\ UNCHANGED harmed

\* A signal from outside ends the process.
Killed(p) ==
  /\ state[p] \in {"forked", "running"}
  /\ End(p)
  /\ harmed' = harmed \cup {p}

-----------------------------------------------------------------------------
ShellStep == ReadLine \/ Pipe \/ Fork \/ ForkFails \/ Wait \/ Close

ProcessStep(p) ==
  \/ Exec(p) \/ ExecFails(p) \/ ExecGarbled(p)
  \/ Emit(p) \/ TakeFromPipe(p) \/ TakeFromFile(p)
  \/ PutToPipe(p) \/ Put(p)
  \/ Exit(p)

Next == ShellStep \/ \E p \in Launches : ProcessStep(p) \/ Killed(p)

\* The shell and every process keep running; nobody need kill one, and a
\* program ends its output and its reading when it can.
Fairness ==
  /\ WF_vars(ShellStep)
  /\ \A p \in Launches : WF_vars(ProcessStep(p))

Spec == Init /\ [][Next]_vars /\ Fairness

-----------------------------------------------------------------------------
(* Properties. *)

TypeOK ==
  /\ pc \in {"prompt", "pipe", "fork", "wait", "close", "returned"}
  /\ line \in Lines \cup {<<>>}
  /\ i \in 0..Len(line)
  /\ in \in Streams
  /\ launched \in 0..MaxLaunches
  /\ fds \in SUBSET Ends
  /\ state \in [Launches -> {"none", "forked", "running", "zombie", "reaped"}]
  /\ stage \in [Launches -> StageType]
  /\ stdin \in [Launches -> Streams] /\ stdout \in [Launches -> Streams]
  /\ ends \in [Launches -> SUBSET Ends]
  /\ done \in [Launches -> Nat]
  /\ held \in [Launches -> Seq(Units)]
  /\ buffer \in [Launches -> Seq(Units)]
  /\ \A k \in Launches : Len(buffer[k]) <= Capacity
  /\ screen \in [Launches -> Seq(Units)]
  /\ harmed \subseteq 1..launched

\* What reads a pipe can come to its end: when the reader has been started, the
\* shell has closed the write end, and only the stage that writes the pipe has
\* it.  The reader itself, in particular, has not inherited it.  This is
\* what close(fd[1]) between two stages is for.
EndCanCome ==
  \A p, k \in Launches :
    (state[p] \in {"forked", "running"} /\ stdin[p] = Read(k)) =>
      /\ Write(k) \notin fds
      /\ HeldBy(Write(k)) \subseteq {k}

\* The stages run one after the other: whenever the shell is not waiting, every
\* stage that it was to wait for has ended and been collected, and when it
\* waits it is for the last one.  No stage but one of & is left behind.
OneAtATime ==
  \A p \in 1..launched :
    \/ stage[p].amp \/ state[p] \in {"none", "reaped"}
    \/ pc = "wait" /\ p = launched

\* What a line does, as a composition of functions: Output(b)[n] is what stage n leaves
\* to the next one, when the stages before this line were b.
Prefix(s, n) == SubSeq(s, 1, IF n < Len(s) THEN n ELSE Len(s))

Output(b) ==
  LET flow[n \in 0..Len(line)] ==
        IF n = 0 \/ line[n].prog \notin {"emit", "copy"} \/ line[n].to # "pipe" THEN <<>>
        ELSE IF line[n].prog = "emit" THEN [j \in 1..line[n].units |-> <<b + n, j>>]
        ELSE Prefix(CASE line[n].from = "file" -> FileData
                      [] line[n].from = "none" -> <<>>
                      [] OTHER                 -> flow[n - 1], line[n].units)
  IN flow

\* When the prompt comes back, the terminal shows what the composition of the
\* stages yields: nothing is lost, repeated or reordered in the pipes, and the
\* redirections take the place of the pipes.  Lines of which a stage
\* was killed, was not forked or got garbled arguments, or whose last one runs in
\* the background, are excepted.
RightOutput ==
  LET b == launched - Len(line)
  IN (pc = "prompt" /\ line # <<>> /\ harmed \cap ((b + 1)..launched) = {} /\ ~stage[launched].amp)
       => screen[launched] = Output(b)[Len(line)]

\* Every stage that the shell waits for before it starts the reader leaves no
\* more than the pipe holds.
Fits == \A n \in 1..(Len(line) - 1) : line[n].amp \/ Len(Output(0)[n]) <= Capacity

\* A line whose intermediate results fit in the pipes always comes to its end,
\* whatever fork, execvp and the signals do.  (One that does not may block for ever.)
LineEnds == (pc \in {"pipe", "fork", "wait", "close"} /\ Fits) ~> (pc = "prompt")

\* Process p waits for input.
Starves(p) ==
  /\ Reads(p) /\ held[p] = <<>> /\ done[p] < stage[p].units
  /\ \E k \in Launches : stdin[p] = Read(k) /\ buffer[k] = <<>>
  /\ ~AtEnd(p)

\* The process that the shell waits for is never left without input for ever:
\* what it reads is being written by the stage before it, which runs in the
\* background and has not ended.  The order of the waits, with a pipe that
\* is full, is the only way in which the shell can block for good.
StarvesOnlyOnBackground ==
  (pc = "wait" /\ Starves(launched)) =>
    \E k \in 1..(launched - 1) :
      stdin[launched] = Read(k) /\ stage[k].amp /\ state[k] \in {"forked", "running"}
=============================================================================
