\* Has every completed job been computed when main stops?
SPECIFICATION Spec
CONSTANTS
  NProd = 1
  NCons = 1
  Jobs = 1
  PQ_SIZE = 8
  Priorities = {1}
INVARIANTS CompletedMeansComputed
CHECK_DEADLOCK FALSE
