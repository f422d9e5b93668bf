\* Three threads and idle, with and without -o mlfqs; two updates of load_avg.
SPECIFICATION Spec
CONSTANTS
  Main = Main
  Idle = Idle
  NULL = NULL
  Threads = {Main, t1, t2}
  Priorities = {0, 2}
  Nices <- MCNices
  PRI_MAX = 2
  PRI_DEFAULT = 1
  TIME_SLICE = 2
  TIMER_FREQ = 2
  PriorityPeriod = 3
  LoadSpan = 2
  One = 2
  MaxTicks = 4
INVARIANTS TypeOK ListsExact PrioritySorted LoadBounded
PROPERTIES NoOvertaking
