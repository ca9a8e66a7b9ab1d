CONSTANTS
  Emails = {ann}
  Names = {N1}
  NoName = NoName
  Requests = {r1, r2}
  Days = {1}
  MaxNow = 2
  DefaultFlag = FALSE
SYMMETRY Symmetry
SPECIFICATION Spec
INVARIANT CooldownIsKept
CHECK_DEADLOCK FALSE
