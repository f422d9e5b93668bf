\* Two processes that share one name: it may be the executable of both while
\* one writes to it, and be removed and made again while it is open.
SPECIFICATION Spec
CONSTANTS
  Procs = {p1, p2}
  NNames = 1
  MaxInodes = 2
  MaxNodes = 2
  MaxFd = 2
  MaxContent = 2
INVARIANT TypeOK
INVARIANT CountsRight
INVARIANT DeadHoldNothing
PROPERTY SafeIfAlone
PROPERTY CallsReturn
CHECK_DEADLOCK FALSE
