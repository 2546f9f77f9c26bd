CONSTANTS
  ra = ra
  rb = rb
  Null = Null
  Runs = {ra, rb}
  Commands = {c1, c2}
  Drafts <- MCDrafts
  Text <- MCText
  Generic = {"Sir"}
  MaxGap = 2
  MaxStarts = 3
  Readers = {}
  Questions <- AllQuestions
  OtherTerms <- MCOtherTerms
  Cutoffs = {1}
  Worlds = {2}
  UsesModel = TRUE
  MaxSummaries = 0
  MaxAsked = 0
  Book <- MCBook
SPECIFICATION Spec
INVARIANTS
  MergesAudited
  CutoffBlind
PROPERTIES
  LinksStand
SYMMETRY Symmetry
CHECK_DEADLOCK FALSE
