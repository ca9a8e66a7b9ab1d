\* A call of call_ended, a departure and a request for the report.
SPECIFICATION Spec
CONSTANTS
  EndCalls = {c1}
  Departures = {d1}
  Requests = {r1}
  Wired = TRUE
  MaxTurns = 2
  MaxDbFaults = 1
INVARIANTS PipelineFindsTranscript NothingSaidIsLost ProcessedHasReport
PROPERTY EndIsReported
CHECK_DEADLOCK FALSE
