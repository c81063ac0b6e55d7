\* Overlapping and repeated deliveries around one draft.
CONSTANTS
  NEvents = 3
  Utterances = {"idea", "start", "finish", "cancel", "scrap", "yes"}
  Slots = {s1, s2}
  MaxRepeats = 1
  MaxQueuedJobs = 1
  DraftMax = 1
  Pages = 1
  Outcomes = {"done"}
SPECIFICATION Spec
INVARIANTS
  OneJobPerEvent
  NothingLost
  OneAnswer
  EndInOrder
SYMMETRY SlotSymmetry
