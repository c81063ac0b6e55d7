\* One part of the gateway at a time, each within its own bounds.
CONSTANTS
  NEvents = 4
  Utterances = {"idea", "start", "cancel", "yes"}
  Slots = {s1}
  MaxRepeats = 0
  MaxQueuedJobs = 1
  DraftMax = 2
  Pages = 1
  Outcomes = {"done"}
  NRecorder = 2
  NAlice = 1
  Listens = 1
  MaxTalkEvents = 2
  Profiles = {1, 2, 3}
  NoSet = 0
  NCues = 2
  MaxAttempts = 2
  Retained = 2
  MaxSetFaults = 2
  MaxChanges = 3
  Audio = {1, 2}
  NoAudio = 0
  MaxCueFaults = 3
SPECIFICATION GatewaySpec
PROPERTIES
  DiscardIsAnswered
  WorkEnds
  SessionsKept
  CuesKept
CHECK_DEADLOCK FALSE
