\* A telephone call, with one call of on_call_ended, one cancel request and one restart.
SPECIFICATION Spec
CONSTANTS
  Cancels = {c1}
  DialingMethod = "pstn"
  MaxEnds = 1
  MaxDbFaults = 0
  MaxRestarts = 1
PROPERTIES RowSpec EndStopsBot
CHECK_DEADLOCK FALSE
