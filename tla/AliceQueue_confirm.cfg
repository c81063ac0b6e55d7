\* A dialogue whose first draft was finished while a cancellation was pending.
CONSTANTS
  NEvents = 5
  Utterances = {"idea", "start", "finish", "cancel", "yes"}
  Slots = {s1}
  MaxRepeats = 0
  MaxQueuedJobs = 1
  DraftMax = 1
  Pages = 1
  Outcomes = {"done", "failed"}
SPECIFICATION Spec
PROPERTIES
  CancelIsConfirmed
