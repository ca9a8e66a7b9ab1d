SPECIFICATION Spec
CONSTANTS
  Experts = {e1, e2}
  Supervisors = {s1, s2}
  Admins = {a1}
  NoOne = NoOne
  Adapter = "postgres"
  MaxReports = 2
INVARIANTS
  CompletedByBoth
  CompleteIsStamped
  UntouchedComplete
CHECK_DEADLOCK FALSE
