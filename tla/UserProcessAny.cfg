\* Careless programs, three processes besides the initial thread, two pages.
CONSTANTS
  MaxTid = 4
  Pages = {p1, p2}
  NoPage = NoPage
  ExitCodes = {0}
  Careful = FALSE
  MaxUnwaited = 2
SPECIFICATION FairSpec
INVARIANTS TypeOK PagesOwned OneQueue
PROPERTIES ExecReportsLoad WaitReturnsStatus CallsReturn
CHECK_DEADLOCK FALSE
