CONSTANTS
  CandidateEnabled = TRUE
  MaxPresses = 3
  MaxStatuses = 2
SPECIFICATION FairSessionSpec
INVARIANT SessionTypeOK
INVARIANT CommandsReachEveryone
PROPERTY OverlayExits
