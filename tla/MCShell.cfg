SPECIFICATION Spec
CONSTANTS
  Lines <- MCLines
  MaxLaunches = 3
  Capacity = 1
  FileLength = 2
INVARIANT TypeOK
INVARIANT EndCanCome
INVARIANT OneAtATime
INVARIANT RightOutput
INVARIANT StarvesOnlyOnBackground
PROPERTY LineEnds
CHECK_DEADLOCK FALSE
