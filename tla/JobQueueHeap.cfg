\* One producer and one consumer, a heap of up to five jobs on three levels.
SPECIFICATION Spec
CONSTANTS
  NProd = 1
  NCons = 1
  Jobs = 5
  PQ_SIZE = 6
  Priorities = {1, 2, 3}
INVARIANTS HeapOrder
PROPERTIES ImplementsPool
\* Main exits and the children end.
CHECK_DEADLOCK FALSE
