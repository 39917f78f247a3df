CONSTANTS
  CandidateEnabled = TRUE
  MaxPresses = 3
  MaxStatuses = 2
SPECIFICATION SessionSpec
INVARIANT PauseButtonToggles
