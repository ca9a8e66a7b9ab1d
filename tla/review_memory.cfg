SPECIFICATION Spec
CONSTANTS
  Experts = {e1, e2}
  Supervisors = {s1, s2}
  Admins = {a1}
  NoOne = NoOne
  Adapter = "memory"
  MaxReports = 2
INVARIANTS
  AcknowledgedReviewKept
  SubmittedOnce
  ClaimsMatchTokens
PROPERTY
  ReviewsAreAtomic
CHECK_DEADLOCK FALSE
