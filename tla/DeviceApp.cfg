\* The button held for the time of a recording, and the captures of the wake
\* word and of a follow-up, which no finger holds; both tasks are scheduled.
CONSTANTS
  RingCap = 2
  UploadCap = 1
  AudioCap = 1
  HoldMode = TRUE
SPECIFICATION FairSpec
INVARIANTS
  WorkerIsSound
  RecordingHears
  GateHeld
  UploadIsWhole
PROPERTIES
  EndsAreKept
  ProcessingEnds
