------------------------------ MODULE JobPool ------------------------------
(***************************************************************************)
(* What the job scheduler of Assignment 5 promises, whatever data          *)
(* structure, lock and processes implement it: a job is made by a          *)
(* producer, posted to a bounded pool, and handed to exactly one consumer, *)
(* always one of the highest priority in the pool.  JobQueue implements    *)
(* it with a binary heap in shared memory (JobQueue!Pool).                 *)
(***************************************************************************)
EXTENDS Naturals, FiniteSets

CONSTANTS
  Producers,   \* the producer processes
  Jobs,        \* how many jobs are to be made
  Priorities,  \* the priorities create_job draws from
  Capacity     \* how many jobs the pool may hold

VARIABLES
  made,        \* how many jobs were made
  held,        \* held[p]: the jobs p made and did not post yet (one at most)
  pool,        \* the jobs waiting for a consumer
  taken        \* the jobs handed to a consumer

vars == <<made, held, pool, taken>>

Job == [id : 1..Jobs, priority : Priorities]

Init ==
  /\ made = 0
  /\ held = [p \in Producers |-> {}]
  /\ pool = {}
  /\ taken = {}

\* p makes a job. Making is refused while the pool is full, but room is not reserved.
Make(p) ==
  /\ made < Jobs
  /\ held[p] = {}
  /\ Cardinality(pool) < Capacity
  /\ made' = made + 1
  /\ \E pri \in Priorities :
       held' = [held EXCEPT ![p] = {[id |-> made + 1, priority |-> pri]}]
  /\ UNCHANGED <<pool, taken>>

\* p posts the job it holds, once there is room.
Post(p) ==
  /\ held[p] # {}
  /\ Cardinality(pool) < Capacity
  /\ pool' = pool \cup held[p]
  /\ held' = [held EXCEPT ![p] = {}]
  /\ UNCHANGED <<made, taken>>

\* Some consumer takes a job no other job in the pool beats.
Take ==
  /\ \E j \in pool :
       /\ \A k \in pool : k.priority <= j.priority
       /\ pool' = pool \ {j}
       /\ taken' = taken \cup {j}
  /\ UNCHANGED <<made, held>>

Next == Take \/ \E p \in Producers : Make(p) \/ Post(p)

Spec == Init /\ [][Next]_vars
=============================================================================
