\* A recorder's and Alice's turn, an edit in the vault and one in origin, one restart.
CONSTANTS
  Turns = {t1, t2}
  Durable = {t1}
  Edits = {e1, e2}
  LocalEdits = {e1}
  MaxRestarts = 1
  MaxChanges = 2
  NoOne = NoOne
SPECIFICATION FairSpec
INVARIANTS
  EditsKept
  DoneIsDelivered
  JournalIsWhole
PROPERTIES
  AnswersStand
  PushedUnlessBlocked
