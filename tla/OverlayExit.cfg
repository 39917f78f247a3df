SPECIFICATION Spec
CONSTANTS
  Scenarios <- MCStop
  MaxQuestions = 2
  MaxInFlight = 2
  MaxInner = 1
  None = None
INVARIANT GracefulStopLeavesSummary
CHECK_DEADLOCK FALSE
