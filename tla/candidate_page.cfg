\* A browser call: two absences, one failed request.
SPECIFICATION Spec
CONSTANTS
  DialFirst = TRUE
  Durations = {2, 5}
  MaxEvents = 2
  MaxAway = 4
  MaxAbsences = 2
  MaxFaults = 1
INVARIANT DocumentedAbsencesFlagged
PROPERTIES PageLearnsTheEnd ClosedTabEndsCall
CHECK_DEADLOCK FALSE
