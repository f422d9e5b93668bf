\* Careful programs, two children at a time, fewer pages than processes.
CONSTANTS
  MaxTid = 5
  Pages = {p1, p2, p3}
  NoPage = NoPage
  ExitCodes = {0}
  Careful = TRUE
  MaxUnwaited = 2
SPECIFICATION Spec
INVARIANT WaitsForTheLiving
CHECK_DEADLOCK FALSE
