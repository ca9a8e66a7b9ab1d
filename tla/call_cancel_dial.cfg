\* A cancel request that races the dial.
SPECIFICATION Spec
CONSTANTS
  Cancels = {c1}
  DialingMethod = "browser"
  MaxEnds = 3
  MaxDbFaults = 0
  MaxRestarts = 0
INVARIANT CancelledCallHasNoBot
CHECK_DEADLOCK FALSE
