\* Two producers and two consumers compete for one slot and two jobs.
SPECIFICATION FairSpec
CONSTANTS
  NProd = 2
  NCons = 2
  Jobs = 2
  PQ_SIZE = 2
  Priorities = {1}
INVARIANTS TypeOK ExactlyOnce KillOnlyWhenQuiet
PROPERTIES AllJobsTaken ChildrenEnd
\* Main exits and the children end.
CHECK_DEADLOCK FALSE
