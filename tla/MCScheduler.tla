---------------------------- MODULE MCScheduler ----------------------------
(* The sets that a configuration file cannot write, for Scheduler.          *)
EXTENDS Scheduler

MCNices == {-1}
===============================================================================
