CONSTANTS
  ra = ra
  rb = rb
  Null = Null
  Runs = {ra, rb}
  Commands = {c1, c2}
  Drafts <- FewDrafts
  Text <- MCText
  Generic = {"Sir"}
  MaxGap = 2
  MaxStarts = 1
  Readers = {x, y}
  Questions <- MCQuestions
  OtherTerms <- MCOtherTerms
  Cutoffs = {Null}
  Worlds = {Null}
  UsesModel = TRUE
  MaxSummaries = 1
  MaxAsked = 2
  Book <- FewBook
SPECIFICATION Spec
INVARIANTS
  AnswersOfTheirTime
SYMMETRY Symmetry
CHECK_DEADLOCK FALSE
