--------------------------- MODULE RecorderServices ---------------------------
(***************************************************************************)
(* The recorder's turn client, whose names this module has, beside those   *)
(* of its services whose properties are proved for any constants: updates, *)
(* cues, settings, codec, sleep and journal.  These models share no state, *)
(* so a behaviour is one of one of them: `component' names it and the      *)
(* others stay where they start, where their invariants hold and none of   *)
(* their steps is taken.                                                   *)
(***************************************************************************)
EXTENDS TurnClient, Integers, Sequences

CONSTANTS
  Releases, Good, OtaFaults,                              \* OtaUpdate
  NCues, NGens, CueSize, Limit, CueFaults,                \* RecorderCues
  MaxForms, MaxTurns, SettingsFaults,                     \* RecorderSettings
  CodecFaults,                                            \* AudioCodec
  Timeout, Debounce, LongPress, PortalTime, PowerFaults,  \* PowerSleep
  Capacity, Tries, Keep, MaxReported, ReportFaults        \* RecorderDiagnostics

VARIABLES
  component,
  flash, otadata, otaNvs, run, otaRam, otaOffer, proven, unmarked,
  disk, bank, readers, active, worker, gate, idle, player, cueOffer,
  cfgNvs, ram, task, lock, pending, wiped, counts,
  codec, unit, clean,
  at, env, irq, busy, policy, dimmer, portal, screen, since, did,
  app, diag, history, stored, delivery, reports, inbox, net,
  faults

Ota == INSTANCE OtaUpdate WITH
  MaxFaults <- OtaFaults, nvs <- otaNvs, ram <- otaRam, offered <- otaOffer
Cues == INSTANCE RecorderCues WITH MaxFaults <- CueFaults, offered <- cueOffer
Settings == INSTANCE RecorderSettings WITH MaxFaults <- SettingsFaults, nvs <- cfgNvs
Codec == INSTANCE AudioCodec WITH MaxFaults <- CodecFaults, app <- unit
Power == INSTANCE PowerSleep WITH MaxFaults <- PowerFaults
Diagnostics == INSTANCE RecorderDiagnostics WITH MaxTurns <- MaxReported, MaxFaults <- ReportFaults

ASSUME ServicesAssumption ==
  /\ Ota!ReleasesAssumption /\ Ota!FaultsAssumption /\ Cues!CuesAssumption /\ Cues!SizeAssumption
  /\ Settings!BoundsAssumption /\ Codec!FaultsAssumption /\ Power!TimesAssumption
  /\ Diagnostics!DiagnosticsAssumption

otaVars == <<flash, otadata, otaNvs, run, otaRam, otaOffer, proven, unmarked>>
cueVars == <<disk, bank, readers, active, worker, gate, idle, player, cueOffer>>
settingsVars == <<cfgNvs, ram, task, lock, pending, wiped, counts>>
codecVars == <<codec, unit, clean>>
powerVars == <<at, env, irq, busy, policy, dimmer, portal, screen, since, did>>
diagVars == <<app, diag, history, stored, delivery, reports, inbox, net>>
serviceVars == <<component, vars, otaVars, cueVars, settingsVars, codecVars, powerVars, diagVars, faults>>

ServicesInit ==
  /\ Init /\ Ota!Init /\ Cues!Init /\ Settings!Init /\ Codec!Init /\ Power!Init /\ Diagnostics!Init

(* The steps of one component; what is not its own stands still.           *)
ServicesNext ==
  /\ UNCHANGED component
  /\ \/ component = "client" /\ Next /\ UNCHANGED faults
     \/ component = "ota" /\ Ota!Next
     \/ component = "cues" /\ Cues!Next
     \/ component = "settings" /\ Settings!Next /\ UNCHANGED faults
     \/ component = "codec" /\ Codec!Next
     \/ component = "power" /\ Power!Next
     \/ component = "diagnostics" /\ Diagnostics!Next
  /\ component # "client" => UNCHANGED vars
  /\ component # "ota" => UNCHANGED otaVars
  /\ component # "cues" => UNCHANGED cueVars
  /\ component # "settings" => UNCHANGED settingsVars
  /\ component # "codec" => UNCHANGED codecVars
  /\ component # "power" => UNCHANGED powerVars
  /\ component # "diagnostics" => UNCHANGED diagVars

ServicesSpec == ServicesInit /\ [][ServicesNext]_serviceVars

-----------------------------------------------------------------------------
(* Every variable of the client and of the services keeps its type.        *)
TypesOK ==
  /\ TypeOK
  /\ component = "ota" => Ota!TypeOK
  /\ component = "cues" => Cues!TypeOK
  /\ component = "settings" => Settings!TypeOK
  /\ component = "codec" => Codec!TypeOK
  /\ component = "power" => Power!TypeOK
  /\ component = "diagnostics" => Diagnostics!TypeOK

(* A loss of power at any step of an installation leaves a release that    *)
(* passed its self-test; one that was rejected is not started again (both  *)
(* until a rollback marker could not be written).                          *)
FirmwareKept == [](component = "ota" => Ota!ProvenReleaseKept) /\ Ota!RejectedIsFinal

(* No mixture of two sets of cues; every lease of a buffer ends once.      *)
ActiveSetIsPlayed == component = "cues" => Cues!ActiveSetIsPlayed

(* No credential comes back after a factory reset was answered.            *)
ResetIsFinal == component = "settings" => Settings!ResetIsFinal

(* The microphone is closed while the amplifier is on, and open again      *)
(* after a sound, whatever accesses failed before.  No cable is missed on  *)
(* the way to sleep, which only a whole timeout leads to, and a press of   *)
(* KEY2 has one meaning.                                                   *)
BoardServes ==
  /\ component = "codec" => Codec!MicrophoneIsQuiet /\ Codec!HearsAgain
  /\ component = "power" => Power!NoLostWakeup /\ Power!OneMeaning

(* The journal tells what happened, and no two reports share a number.     *)
JournalKept == component = "diagnostics" => Diagnostics!JournalIsTrue /\ Diagnostics!NoConflict

=============================================================================
