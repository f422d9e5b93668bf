\* Files of up to two program headers, command lines of up to three tokens.
SPECIFICATION Spec
CONSTANTS
  PGSIZE = 32
  UserPages = 4
  AllPages = 5
  Files <- MCFiles
  CommandLines <- MCCommandLines
INVARIANTS PagesMapped ImageExact ArgvExact
\* load returns, or the kernel stops.
CHECK_DEADLOCK FALSE
