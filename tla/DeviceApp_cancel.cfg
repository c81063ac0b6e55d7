\* What the code does with a turn cancelled in PROCESSING.
CONSTANTS
  RingCap = 1
  UploadCap = 1
  AudioCap = 1
  HoldMode = FALSE
SPECIFICATION FairSpec
PROPERTIES
  CancelledTurnEnds
