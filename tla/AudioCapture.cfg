CONSTANTS
  Settings <- MCSettings
  MaxBytes = 4
  MaxProcesses = 2
SPECIFICATION FairSpec
INVARIANT TypeOK
INVARIANT FramesAreWhole
INVARIANT ReturnIsJustified
INVARIANT NoFfmpegLeftBehind
PROPERTY CaptureStops
