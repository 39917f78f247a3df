SPECIFICATION FairSpec
CONSTANTS
  Scenarios <- MCScenarios
  MaxQuestions = 2
  MaxInFlight = 2
  MaxInner = 1
  None = None
INVARIANT TypeOK
INVARIANT ScreenFollowsEvents
INVARIANT RequestsAreAttributed
INVARIANT SummaryIsComplete
PROPERTY SinkEnds
CHECK_DEADLOCK FALSE
