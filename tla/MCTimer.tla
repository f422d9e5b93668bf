------------------------------ MODULE MCTimer ------------------------------
(* Timer for model checking: the durations hold a negative number, which a   *)
(* configuration cannot.                                                     *)
EXTENDS Timer

MCDurations == {-1, 0, 1, 2}
=============================================================================
