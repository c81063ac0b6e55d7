----------------------------- MODULE MCRecorder -----------------------------
(***************************************************************************)
(* The recorder beside its main loop, for TLC: the turn client and the     *)
(* services of RecorderServices, and beside them the parts that are only   *)
(* model-checked.  They too share no state and are taken one at a time:    *)
(* `component' names the one that a behaviour is of.  A liveness property  *)
(* is claimed for the behaviours of its component that are fair in the     *)
(* sense of the component's module.                                        *)
(***************************************************************************)
EXTENDS RecorderServices

CONSTANTS Pages, NoSsid

VARIABLES
  ready, epoch, detectionEpoch, fed, half, frames, inference, evidence, heard,
  wake, now, vad, preroll, recorded, mic, age, silent,
  body, got, mp3, result, stream, main, spoken, cancel, cut,
  saved, air, sta, connected, setup, selector, manager, scan, health,
  rec, ring, sound, loop, upload, uploader, session, transport, handle, handles, wire,
  settingsOf, page, editor, touched, typed,
  world, step, copy, drawn, panel, events,
  turned, sensor, pose, shown, held,
  job, answer, arrived, outcome,
  dhcp, captive, names, phones, asked, calls,
  source, pos, line, lines, words, timer,
  detector, onset, sounds, opening, misses,
  kept, median, floorFrames,
  channel, model, mean_value, tone, modelFrames,
  tune, filters, features, bandFrames,
  host, hw, finger, echo, tap,
  announced, nets, scanning, asker, visit,
  ssids, nth, listing,
  bodyFaults

(* The bytes of a reply; then whole replies of both kinds, truncated ones   *)
(* and corrupt ones.                                                       *)
Formats == INSTANCE ReplyAudio WITH
  Bodies <- {}, Block <- 4, StreamCap <- 2, ChunkCap <- 3, MaxBytes <- 14, player <- mp3, heard <- spoken

Sound(k, b) == [kind |-> k, bytes |-> b, framed |-> TRUE, sound |-> TRUE]
Truncated(k, b, n) == [kind |-> k, bytes |-> SubSeq(b, 1, n), framed |-> FALSE, sound |-> FALSE]
Corrupt(k, b, n) == [kind |-> k, bytes |-> SubSeq(b, 1, n), framed |-> TRUE, sound |-> FALSE]
TheBodies ==
  {Sound("mp3", Formats!Mp3(tag, n)) : tag \in {0, 2, 4}, n \in {2, 3}}
    \cup {Sound("wav", Formats!Wav(odd, 3)) : odd \in BOOLEAN}
    \cup {Truncated("mp3", Formats!Mp3(3, 3), n) : n \in {1, 6, 10}}
    \cup {Corrupt("mp3", Formats!Mp3(3, 3), n) : n \in {2, 6, 7, 10}}
    \cup {Truncated("wav", Formats!Wav(TRUE, 2), 15)}
    \cup {Corrupt("wav", Formats!Wav(TRUE, 2), n) : n \in {9, 14, 16}}

TheCueSize == [s \in 0 .. 3 |-> 1]

TheDevice ==
  [wifi |-> <<[ssid |-> "a", pw |-> "a"], [ssid |-> NoSsid, pw |-> NoSsid]>>, server |-> 1]

(* A member that no recorder knows, with the names of known ones in it.     *)
TheExtra ==
  <<"extra", ":", "{", "error", ":", "agent_timeout", ",", "extra", ":", "[", "{",
    "listen", ":", "true", "}", "]", "}">>

(* Silence, a tone in the middle of each band but one, and three that are   *)
(* as loud as a sample can be, one of them constant.                       *)
TheSounds ==
  {[level |-> 0, half |-> 1]} \cup [level : {1000}, half : {3, 5, 10, 20, 80}]
    \cup [level : {32767}, half : {3, 40, 5000}]

(* Four addresses, by themselves and as the socket may have them.           *)
ThePeers ==
  [family : {"ipv4"}, address : 0 .. 3] \cup [family : {"mapped"}, address : {0, 3}]
    \cup {[family |-> "ipv6", address |-> 3]}

TheNetworks ==
  [WIFI_AP_DEF |-> [ip |-> 2, host |-> 1], WIFI_STA_DEF |-> [ip |-> 1, host |-> 0]]

Wake == INSTANCE WakeDetector WITH
  QueueCap <- 2, Stride <- 2, Window <- 3, Warmup <- 1, MaxResets <- 2, MaxHalves <- 10,
  pending <- half, task <- inference
Capture == INSTANCE CaptureWindow WITH
  Clock <- 8, Late <- 2, Burst <- 2, CueMax <- 2, SettleTime <- 2, WaitMax <- 3, Pause <- 2,
  MaxRecord <- 4, Onset <- 2, PreRoll <- 3
Reply == INSTANCE ReplyAudio WITH
  Bodies <- TheBodies, Block <- 4, StreamCap <- 2, ChunkCap <- 3, MaxBytes <- 14,
  player <- mp3, heard <- spoken
Wifi == INSTANCE Connectivity WITH Count <- 2, Attempt <- 2, SetupDelay <- 2, MaxChanges <- 1
Upload == INSTANCE UploadBody WITH
  RingCap <- 4, StreamCap <- 3, Take <- 2, Send <- 2, MaxSound <- 5, MaxRecordings <- 2, MaxFaults <- 1,
  main <- loop, worker <- uploader, client <- handle, faults <- bodyFaults
Page == INSTANCE SetupPage WITH
  Ssids <- {"a", "b"}, None <- NoSsid, Slots <- 2, Devices <- {TheDevice},
  MaxEdits <- 1, MaxServers <- 1, MaxLoads <- 2, MaxFaults <- 1, device <- settingsOf, limits <- typed
Screen == INSTANCE StatusScreen WITH Phases <- 2, MaxEvents <- 2
Orientation == INSTANCE ScreenOrientation WITH
  None <- NoSsid, Clock <- 6, Settle <- 2, Late <- 2, Columns <- 3, Rows <- 5, now <- turned, policy <- pose
Json == INSTANCE TurnJson WITH
  Depth <- 3, Capacity <- 45, Extras <- {TheExtra}, body <- answer, got <- arrived
Portal == INSTANCE CaptivePortal WITH
  MaxLabel <- 1, Bytes <- {0, 1, 2}, MaxBody <- 6, MaxPhones <- 2, MaxCalls <- 3,
  portal <- captive, task <- names, history <- calls
Text == INSTANCE ScreenText WITH
  MaxText <- 4, Width <- 3, Height <- 2, Room <- 3, Clock <- 9, Limit <- 3, drawn <- lines, result <- words
Onset == INSTANCE SpeechOnset WITH Rate <- 16000, FrameSize <- 160, Mode <- 2, Onset <- 20, MaxFaults <- 1
Floor == INSTANCE NoiseFloor WITH
  Values <- {1, 2, 3}, Big <- 9, Keep <- 3, MaxAge <- 4, Wrap <- 7, frames <- floorFrames
Bands == INSTANCE SoundBands WITH
  Sounds <- TheSounds, Length <- 7, MaxFrames <- 14, FrameSize <- 160, sound <- tune, frames <- bandFrames
Server == INSTANCE SetupServer WITH
  Bits <- 2, Peers <- ThePeers, Networks <- TheNetworks,
  scan <- scanning, page <- visit
List == INSTANCE ScanList WITH
  MaxName <- 2, MaxFound <- 2, EntryCap <- 20, BodyCap <- 16, found <- ssids, next <- nth, body <- listing
Loop == INSTANCE HostLoopback WITH
  Cap <- 3, Chunk <- 2, BootTicks <- 2, MaxSound <- 4, app <- host, sound <- echo
Model == INSTANCE NoiseModel WITH
  Channels <- {0, 3, 5}, Features <- {368, 700, 1400, 2005}, Medians <- {368, 1400},
  Length <- 25, MaxFrames <- 50, sound <- tone, frames <- modelFrames

ASSUME
  /\ Wake!DetectorAssumption /\ Capture!TimesAssumption /\ Capture!PreRollAssumption
  /\ Reply!SizesAssumption /\ Wifi!ConnectivityAssumption
  /\ Upload!UploadAssumption /\ Page!PageAssumption /\ Page!DevicesAssumption /\ Screen!ScreenAssumption
  /\ Orientation!OrientationAssumption /\ Json!JsonAssumption /\ Portal!PortalAssumption
  /\ Text!TextAssumption /\ Onset!OnsetAssumption /\ Floor!FloorAssumption
  /\ Model!ModelAssumption /\ Bands!BandsAssumption /\ Loop!LoopbackAssumption
  /\ Server!ServerAssumption /\ List!ListAssumption

wakeVars == <<ready, epoch, detectionEpoch, fed, half, frames, inference, evidence, heard>>
captureVars == <<wake, now, vad, preroll, recorded, mic, age, silent>>
replyVars == <<body, got, mp3, result, stream, main, spoken, cancel, cut>>
wifiVars == <<saved, air, sta, connected, setup, selector, manager, scan, health>>
uploadVars == <<rec, ring, sound, loop, upload, uploader, session, transport, handle, handles, wire, bodyFaults>>
pageVars == <<settingsOf, page, editor, touched, typed>>
screenVars == <<world, step, copy, drawn, panel, events>>
orientationVars == <<turned, sensor, pose, shown, held>>
jsonVars == <<job, answer, arrived, outcome>>
portalVars == <<dhcp, captive, names, phones, asked, calls>>
textVars == <<source, pos, line, lines, words, timer>>
onsetVars == <<detector, onset, sounds, opening, misses>>
floorVars == <<kept, median, floorFrames>>
modelVars == <<channel, model, mean_value, tone, modelFrames>>
bandVars == <<tune, filters, features, bandFrames>>
loopVars == <<host, hw, finger, echo, tap>>
serverVars == <<announced, nets, scanning, asker, visit>>
listVars == <<ssids, nth, listing>>

otherVars == <<wakeVars, captureVars, replyVars, wifiVars, uploadVars, pageVars, screenVars, orientationVars,
               jsonVars, portalVars, textVars, onsetVars, floorVars, modelVars, bandVars, loopVars,
               serverVars, listVars>>

Services == {"client", "ota", "cues", "settings", "codec", "power", "diagnostics"}
Others ==
  {"wake", "capture", "reply", "wifi", "upload", "page", "screen", "orientation", "json", "portal", "text",
   "onset", "floor", "model", "bands", "loopback", "server", "list"}

RecorderInit ==
  /\ component \in Services \cup Others
  /\ ServicesInit
  /\ Wake!Init /\ Upload!Init /\ Page!Init /\ Screen!Init /\ Portal!Init /\ Onset!Init /\ Floor!Init
  /\ Bands!Init /\ Loop!Init
  /\ Server!Init /\ (component # "list" => ssids = <<>>) /\ List!Init
  /\ (component # "orientation" => sensor = TRUE) /\ Orientation!Init
  /\ (component # "model" => channel = 0) /\ Model!Init
  /\ (component # "json" => job = CHOOSE j \in Json!Jobs : TRUE) /\ Json!Init
  /\ Text!Init /\ (component # "text" => source = <<>> /\ timer.start = 0)
  /\ (component # "capture" => now = 0) /\ Capture!Init
  /\ (component # "reply" => body = CHOOSE b \in TheBodies : TRUE) /\ Reply!Init
  /\ (component # "wifi" => saved = {}) /\ Wifi!Init

(* A step of one of the parts beside the services; what is not its own     *)
(* stands still.                                                           *)
OthersNext ==
  /\ UNCHANGED component
  /\ \/ component = "wake" /\ Wake!Next
     \/ component = "capture" /\ Capture!Next
     \/ component = "reply" /\ Reply!Next
     \/ component = "wifi" /\ Wifi!Next
     \/ component = "upload" /\ Upload!Next
     \/ component = "page" /\ Page!Next
     \/ component = "screen" /\ Screen!Next
     \/ component = "orientation" /\ Orientation!Next
     \/ component = "json" /\ Json!Next
     \/ component = "portal" /\ Portal!Next
     \/ component = "text" /\ Text!Next
     \/ component = "onset" /\ Onset!Next
     \/ component = "floor" /\ Floor!Next
     \/ component = "model" /\ Model!Next
     \/ component = "bands" /\ Bands!Next
     \/ component = "loopback" /\ Loop!Next
     \/ component = "server" /\ Server!Next
     \/ component = "list" /\ List!Next
  /\ component # "wake" => UNCHANGED wakeVars
  /\ component # "capture" => UNCHANGED captureVars
  /\ component # "reply" => UNCHANGED replyVars
  /\ component # "wifi" => UNCHANGED wifiVars
  /\ component # "upload" => UNCHANGED uploadVars
  /\ component # "page" => UNCHANGED pageVars
  /\ component # "screen" => UNCHANGED screenVars
  /\ component # "orientation" => UNCHANGED orientationVars
  /\ component # "json" => UNCHANGED jsonVars
  /\ component # "portal" => UNCHANGED portalVars
  /\ component # "text" => UNCHANGED textVars
  /\ component # "onset" => UNCHANGED onsetVars
  /\ component # "floor" => UNCHANGED floorVars
  /\ component # "model" => UNCHANGED modelVars
  /\ component # "bands" => UNCHANGED bandVars
  /\ component # "loopback" => UNCHANGED loopVars
  /\ component # "server" => UNCHANGED serverVars
  /\ component # "list" => UNCHANGED listVars

(* To the services a step of another part is a step that changes nothing,  *)
(* so every behaviour of RecorderSpec is one of ServicesSpec.              *)
RecorderNext ==
  \/ ServicesNext /\ UNCHANGED otherVars
  \/ OthersNext /\ UNCHANGED serviceVars

RecorderSpec == RecorderInit /\ [][RecorderNext]_<<serviceVars, otherVars>>

-----------------------------------------------------------------------------
(* A wake word was heard whole, since the last reset.  A recording has the *)
(* speech that opened it, no click opens one and no pause is missed, by a  *)
(* detector that knows the noise of the place; every stage before it ends  *)
(* in time by a clock that wraps around.  A body that ends at the gateway  *)
(* is the whole sound of its recording.                                    *)
SpeechIsHeard ==
  /\ [](component = "wake" => Wake!TypeOK /\ Wake!HeardWhole)
  /\ [](component = "onset" => Onset!TypeOK /\ Onset!OneClickIsNothing /\ Onset!PauseIsHeard)
  /\ [](component = "floor" => Floor!TypeOK /\ Floor!FloorIsRecent) /\ Floor!NothingIsLost
  /\ [](component = "model" => Model!TypeOK /\ Model!DeviationsFit /\ Model!StillTells)
  /\ [](component = "bands" => Bands!TypeOK /\ Bands!ToneInItsBand /\ Bands!SoundsFade)
  /\ [](component = "capture" => Capture!TypeOK /\ Capture!RecordsTheOnset /\ Capture!EndsInTime)
  /\ [](component = "upload" => Upload!TypeOK /\ Upload!BodyIsSound)

(* The reply is heard in order, and done only when whole; what is taken    *)
(* for the gateway's answer is what the turn's row says.  In the build     *)
(* without a gateway the reply is the recording: the speaker gets it in    *)
(* order, no state keeps what belongs to another, and an error is left by  *)
(* a tap of its own.                                                       *)
ReplyIsTrue ==
  /\ [](component = "reply" => Reply!TypeOK /\ Reply!HeardInOrder /\ Reply!ReadyIsWhole)
  /\ [](component = "json" => Json!TypeOK /\ Json!AnswersAreRead)
  /\ [](component = "loopback" => Loop!TypeOK /\ Loop!EchoIsWhole /\ Loop!NothingLeaks)
  /\ Loop!FreshTap

(* The recorder gets to its gateway, or opens its setup network, and a     *)
(* scan that the portal asked for is not disturbed; phones in the setup    *)
(* network get addresses and names.                                        *)
Reachable ==
  /\ component = "wifi" /\ Wifi!Fairness => Wifi!GetsReady /\ Wifi!SetupFollows
  /\ [](component = "wifi" => Wifi!TypeOK /\ Wifi!ScanUndisturbed)
  /\ [](component = "portal" => Portal!TypeOK /\ Portal!PhonesAreServed /\ Portal!QueriesAreAnswered)

(* The newest release runs, was rejected, or updates are off; the published *)
(* set of cues is the one that plays in the end; an error is reported once  *)
(* the network works; the recorder comes to sleep although accesses fail.   *)
ServicesSettle ==
  /\ component = "ota" /\ Ota!Fairness => Ota!UpdateSettles
  /\ component = "cues" /\ Cues!Fairness => Cues!CuesSettle
  /\ component = "diagnostics" /\ Diagnostics!Fairness => Diagnostics!ErrorsAreTold
  /\ component = "power" /\ Power!Fairness => Power!ComesToSleep

(* A password stays with its network, a form can be sent again, and a save *)
(* changes nothing that its page did not touch.  Pages are served to the   *)
(* recorder's own networks only, none waits for a list that nobody makes,  *)
(* and the list is whole, whatever bytes are in the names around.          *)
PageIsTrue ==
  /\ [](component = "page" => Page!TypeOK /\ Page!PasswordsBelong /\ Page!Retriable)
  /\ Page!UntouchedIsKept
  /\ [](component = "server" => Server!TypeOK /\ Server!ListsCome)
  /\ Server!ServedIsLocal
  /\ [](component = "list" => List!TypeOK /\ List!ListIsWhole)

(* The screen shows in the end what the flags say, the way up in which the  *)
(* recorder is held, every word once and the time that is left.             *)
ScreenIsTrue ==
  /\ component = "screen" /\ Screen!Fairness => Screen!ShowsTheTruth
  /\ [](component = "screen" => Screen!TypeOK)
  /\ [](component = "orientation" => Orientation!TypeOK /\ Orientation!FollowsThePose /\ Orientation!PictureIsWhole)
  /\ Orientation!TurnsAreSettled
  /\ [](component = "text" => Text!TypeOK /\ Text!LinesAreTheText /\ Text!RefusedForAReason /\ Text!TimerIsTrue)

(* The worker ends: its upload by an answer or a failure, and what follows *)
(* it by a reply or the deadline, whatever the network loses.  The reply   *)
(* comes to an end, a sound one to its own.                                *)
WorkersEnd ==
  /\ component = "client" /\ Fairness => WorkerEnds
  /\ component = "upload" /\ Upload!Fairness => Upload!UploadEnds
  /\ component = "reply" /\ Reply!Fairness => Reply!ReplyEnds

=============================================================================
