\* Two threads beside main with the fixed-point numbers of the code but for their precision:
\* a list that is not sorted after the update of all priorities.
SPECIFICATION Spec
CONSTANTS
  Main = Main
  Idle = Idle
  NULL = NULL
  Threads = {Main, t1, t2}
  Priorities = {31}
  Nices = {5}
  PRI_MAX = 63
  PRI_DEFAULT = 31
  TIME_SLICE = 4
  TIMER_FREQ = 5
  PriorityPeriod = 4
  LoadSpan = 60
  One = 1024
  MaxTicks = 5
INVARIANTS AlwaysSorted
