\* Nobody touches the vault; one edit comes through origin.
CONSTANTS
  Turns = {t1}
  Durable = {t1}
  Edits = {e1}
  LocalEdits = {}
  MaxRestarts = 0
  MaxChanges = 1
  NoOne = NoOne
SPECIFICATION FairSpec
PROPERTIES
  PushIsRepeated
