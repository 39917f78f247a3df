CONSTANTS
  MaxQuestions = 1
SPECIFICATION FairSpec
INVARIANT TypeOK
INVARIANT EndIsTrue
PROPERTY ShutdownReturns
