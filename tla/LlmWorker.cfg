CONSTANTS
  interviewer = interviewer
  candidate = candidate
  None = None
  Speakers <- MCSpeakers
  Interviewer = interviewer
  Modes = {"Voice", "LiveCoding"}
  MaxPairs = 1
  MaxQuestions = 2
  MaxDeltas = 2
  MaxClears = 1
  MaxInFlight = 3
  Newline = "newline"
  Code <- MCCode
  Codes <- MCCodes
SPECIFICATION FairSpec
INVARIANT TypeOK
INVARIANT ScreenFollowsWorker
INVARIANT MemoryFollowsAnswers
INVARIANT CodeIsEditedInPlace
PROPERTY ClearedHistoryIsNotAsked
PROPERTY TurnsAreSettled
