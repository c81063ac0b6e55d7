\* Two requests, two recordings, one queue slot, two restarts.
CONSTANTS
  r1 = r1  r2 = r2  d1 = d1  d2 = d2
  NoDigest = NoDigest
  NoJob = NoJob
  Requests <- TwoRequests
  Digests <- TwoDigests
  MaxQueue = 1
  MaxDuplicates = 1
  MaxRestarts = 2
SPECIFICATION FairSpec
INVARIANTS
  TypeOK
  AckedAudioIsTheTurn
  TurnsOnce
  QueueAndWorker
PROPERTIES
  ScheduledTurnEnds
  ImplementsTurnService
\* Both rows may be left uploading by handlers that died, after the last restart.
CHECK_DEADLOCK FALSE
