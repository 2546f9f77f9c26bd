SPECIFICATION Spec
CONSTANTS
  Runs = {r1, r2}
  Chapters = {c1, c2}
  None = None
  QueueSize = 1
  BatchSize = 2
  MaxAttempts = 2
  Exempt = 0
  MaxKills = 1
  MaxFaults = 1
SYMMETRY Symmetric
INVARIANTS
  DraftMatchesCheckpoint
  OnlyPendingCalled
  CallsBooked
  SourceIsOrigin
  SummaryMatchesStore
  GateComplete
CHECK_DEADLOCK FALSE
