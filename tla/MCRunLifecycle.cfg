SPECIFICATION FairSpec
CONSTANTS
  r1 = r1
  r2 = r2
  r3 = r3
  b1 = b1
  b2 = b2
  None = None
  Runs <- MCRuns
  Books <- MCBooks
  BookOf <- MCBookOf
  Procs = {p1, p2}
  MaxCommands = 3
  MaxCrashes = 1
INVARIANTS
  OneActivePerBook
  GateOrForced
PROPERTIES
  ImplementsRegister
  FinalStatusExits
  Settles
CHECK_DEADLOCK FALSE
