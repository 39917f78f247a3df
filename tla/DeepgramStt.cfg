CONSTANTS
  CommandMax = 1
  MaxFrames = 2
SPECIFICATION FairSpec
INVARIANT TypeOK
INVARIANT NoFrameIsSkipped
INVARIANT TasksEndWithConnection
PROPERTY FramesKeepTheirOrder
PROPERTY CancelledConnectionEnds
PROPERTY ShutdownReturns
