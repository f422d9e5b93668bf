------------------------------- MODULE Alarm -------------------------------
(***************************************************************************)
(* What timer_sleep of Assignment 3 promises, whatever lists it keeps: a   *)
(* thread sets an alarm, and the first tick that reaches the time of an    *)
(* alarm rings it.  Timer implements it with a sorted list and an          *)
(* interrupt handler that looks at the front of the list only.             *)
(***************************************************************************)
EXTENDS Naturals

CONSTANTS Threads

VARIABLES
  now,     \* the ticks since the start
  alarm    \* the time each thread waits for, 0 for none

vars == <<now, alarm>>

Init == now = 0 /\ alarm = [t \in Threads |-> 0]

Set(t) ==
  /\ alarm[t] = 0
  /\ alarm'[t] \in Nat \ {0}
  /\ alarm' = [alarm EXCEPT ![t] = alarm'[t]]
  /\ UNCHANGED now

\* Every alarm that is due rings at this tick, and no other one.
Ring ==
  /\ now' = now + 1
  /\ alarm' = [t \in Threads |-> IF alarm[t] <= now' THEN 0 ELSE alarm[t]]

Next == Ring \/ \E t \in Threads : Set(t)

Spec == Init /\ [][Next]_vars
=============================================================================
