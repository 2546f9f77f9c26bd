SPECIFICATION FairSpec
CONSTANTS
  Requests = {q1, q2, q3}
  Workers = {w1, w2}
  None = None
  MaxInFlight = 2
  CancelFutures = TRUE
INVARIANTS
  UndoneBounded
  SlotsAccounted
  NobodyStranded
PROPERTIES
  ExpiredNeverStarts
  NoneWaitsBehindStuck
  PoolRecovers
CHECK_DEADLOCK FALSE
