CONSTANTS
  s = s
  t = t
  p = p
  q = q
  None = None
  Size = 2
  ChapterOf <- MCChapterOf
  Configs <- MCConfigs
  Commands = {w1, w2}
  MaxBuilds = 2
  MaxRebuilds = 1
  MaxFaults = 1
  MaxSearches = 1
SPECIFICATION Spec
INVARIANTS
  ServedIsWhole
  VectorsMatchProfile
  TextStaysFindable
  RefusalExplained
SYMMETRY CommandSymmetry
CHECK_DEADLOCK FALSE
