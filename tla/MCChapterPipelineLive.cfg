SPECIFICATION FairSpec
CONSTANTS
  Runs = {r1}
  Chapters = {c1, c2, c3}
  None = None
  QueueSize = 1
  BatchSize = 2
  MaxAttempts = 2
  Exempt = 0
  MaxKills = 0
  MaxFaults = 1
PROPERTY
  RunReturns
CHECK_DEADLOCK FALSE
