\* Three threads sleep for one or two of three ticks, and also for 0 and -1.
SPECIFICATION FairSpec
CONSTANTS
  Threads = {t1, t2, t3}
  Durations <- MCDurations
  MaxTicks = 3
INVARIANTS TypeOK SleepersListed
PROPERTIES NeverEarly OnTime ImplementsAlarm SleeperReturns
CHECK_DEADLOCK FALSE
