CONSTANTS
  r1 = r1
  r2 = r2
  v1 = v1
  v2 = v2
  v3 = v3
  w1 = w1
  None = None
  Runs <- MCRuns
  Versions <- MCVersions
  FactOf <- MCFactOf
  Operation <- MCOperation
  Chapters <- MCChapters
  Drafts <- MCDrafts
SPECIFICATION Spec
INVARIANTS
  ChainsPointBack
  ChainIsLinear
  AlignedIsTraceable
PROPERTIES
  AnswersStand
SYMMETRY RunSymmetry
