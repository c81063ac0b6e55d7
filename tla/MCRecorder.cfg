\* One of the recorder's services at a time, each within its own bounds.
CONSTANTS
  Requests = {r1, r2}
  Digests = {d}
  NoRequest = NoRequest
  NoDigest = NoDigest
  Releases = {1, 2, 3, 4}
  Good = {1, 2, 4}
  OtaFaults = 2
  NCues = 2
  NGens = 3
  CueSize <- TheCueSize
  Limit = 7
  CueFaults = 2
  MaxForms = 1
  MaxTurns = 1
  SettingsFaults = 1
  CodecFaults = 3
  Timeout = 2
  Debounce = 1
  LongPress = 2
  PortalTime = 2
  PowerFaults = 1
  Capacity = 2
  Tries = 2
  Keep = 2
  MaxReported = 2
  ReportFaults = 2
  Pages = {p1, p2}
  NoSsid = NoSsid
SPECIFICATION RecorderSpec
INVARIANTS
  TypesOK
  HeardOnce
  ActiveSetIsPlayed
  ResetIsFinal
  BoardServes
  JournalKept
PROPERTIES
  ReplyIsTrue
  OutcomesAgree
  WorkersEnd
  SpeechIsHeard
  FirmwareKept
  ServicesSettle
  Reachable
  PageIsTrue
  ScreenIsTrue
CHECK_DEADLOCK FALSE
