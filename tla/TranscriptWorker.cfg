CONSTANTS
  MinUtteranceChars = 2
  ShortFragmentWords = 2
  WordClass <- MCWordClass
  Timed = {1, 3}
  Retrieves = TRUE
  Commands = {"pause", "resume", "LiveCoding"}
  LlmQueueMax = 1
  MaxReports = 3
  MaxWaiting = 2
  MaxCommands = 2
SPECIFICATION FairSpec
INVARIANT TypeOK
INVARIANT QuestionsBecomeRequests
INVARIANT QuestionIsOneTurn
PROPERTY PendingTextSettles
