CONSTANTS
  m1 = m1
  m2 = m2
  m3 = m3
  g = g
  h = h
  None = None
  Chapters = {1, 2}
  r1 = r1
  r2 = r2
  Views <- MCViews
  Commands = {p1, p2}
  GistOf <- MCGist
  Sizes = {1, 2}
  Cutoffs = {None, 1}
  Base = 3
  MaxGroupings = 2
  MaxChanges = 1
  MaxSummaries = 3
  MaxFaults = 1
SPECIFICATION Spec
INVARIANTS
  OneValidPerScope
  SummariesCurrent
  OldGroupingsEnd
SYMMETRY CommandSymmetry
CHECK_DEADLOCK FALSE
