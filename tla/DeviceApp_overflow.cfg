\* What the code does with an overflow on the last tick of a recording.
CONSTANTS
  RingCap = 1
  UploadCap = 1
  AudioCap = 1
  HoldMode = FALSE
SPECIFICATION FairSpec
PROPERTIES
  OverflowShowsError
