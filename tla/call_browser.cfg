\* A browser call, with two cancel requests, one database error and one restart.
SPECIFICATION Spec
CONSTANTS
  Cancels = {c1, c2}
  DialingMethod = "browser"
  MaxEnds = 2
  MaxDbFaults = 1
  MaxRestarts = 1
INVARIANTS NoOrphanBot OutcomeIsExplained
PROPERTIES PickupTimeKept RowSpec EndStopsBot CancelStopsBot EndIsRecorded FailureIsRecorded
CHECK_DEADLOCK FALSE
