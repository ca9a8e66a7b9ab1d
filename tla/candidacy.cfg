CONSTANTS
  Emails = {ann}
  Names = {N1, N2}
  NoName = NoName
  Requests = {r1, r2, r3}
  Days = {1, 2}
  MaxNow = 3
  DefaultFlag = FALSE
SYMMETRY Symmetry
SPECIFICATION Spec
INVARIANTS
  AuditExplainsRow
  EligibleAnswersWereTrue
  AnsweredCandidateKept
  FlagSurvives
CHECK_DEADLOCK FALSE
