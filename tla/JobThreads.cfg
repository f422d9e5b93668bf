\* Two producers and two consumers, a heap of up to four jobs on three levels.
SPECIFICATION Spec
CONSTANTS
  NProd = 2
  NCons = 2
  Jobs = 4
  PQ_SIZE = 5
  Priorities = {1, 2}
INVARIANTS NoLockLost
PROPERTIES ImplementsPool
\* Main returns and the threads are gone.
CHECK_DEADLOCK FALSE
