CONSTANTS
  Null = Null
  Punctuation <- MCPunctuation
  Stops <- MCStops
  MaxSpan = 4
  Texts <- MCTexts
  Window = 5
  Answers <- MCAnswers
  MaxRepairs = 2
SPECIFICATION Spec
INVARIANTS
  QuotedOrRecorded
  UsageComplete
  RefsLeadBack
  EvidenceIsProof
CHECK_DEADLOCK FALSE
