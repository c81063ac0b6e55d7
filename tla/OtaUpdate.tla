----------------------------- MODULE OtaUpdate -----------------------------
(***************************************************************************)
(* The recorder updates itself: src/firmware/src/voice_ota_esp.c, its      *)
(* policy and the activity gate, between the publisher of releases, the    *)
(* boot loader and losses of power.  `ota_task` and the main loop's        *)
(* `voice_ota_confirm_boot` interleave; flash and NVS survive, `ram` does  *)
(* not.  A release is its number; a release outside Good never passes the  *)
(* self-test.                                                              *)
(***************************************************************************)
EXTENDS Naturals, Sequences, FiniteSets

CONSTANTS
  Releases,   \* numbers of the releases, the first is flashed over USB
  Good,       \* those that pass board_sticks3_local_self_test
  MaxFaults   \* bound on losses of power and failures to write the marker

ReleasesAssumption ==
  /\ Releases \subseteq Nat \ {0} /\ Good \subseteq Releases
  /\ \E r \in Good : \A q \in Releases : r <= q  \* the one that was flashed works
FaultsAssumption == MaxFaults \in Nat

VARIABLES
  flash,     \* the release in each app slot, Torn when it does not verify
  otadata,   \* the boot loader's entries, newest first
  nvs,       \* attempted and rejected of the NVS namespace zateya_ota
  run,       \* the slot of the running image
  ram,       \* the statics of voice_ota_esp.c and where its task stands
  offered,   \* the release of the gateway's stable.json
  proven,    \* releases that were confirmed once (history)
  unmarked,  \* a rollback marker could not be written (history)
  faults

otaVars == <<flash, otadata, nvs, run, ram, offered, proven, unmarked, faults>>

Torn == 0
NoRelease == 0
Slots == 1 .. 2
Other(s) == 3 - s
Base == CHOOSE r \in Good : \A q \in Releases : r <= q
Current == flash[run]

-----------------------------------------------------------------------------
(* The boot loader of ESP-IDF with APP_ROLLBACK_ENABLE: an entry that was  *)
(* started and not confirmed is aborted, the newest other one is started,  *)
(* and an image that does not verify gives way to one that does.           *)
Aborted(entries) ==
  [i \in DOMAIN entries |->
     IF entries[i].state = "pending" THEN [entries[i] EXCEPT !.state = "aborted"] ELSE entries[i]]

Choice(entries) ==
  LET usable == {i \in DOMAIN entries : entries[i].state # "aborted"}
  IN  IF usable = {} THEN 0 ELSE CHOOSE i \in usable : \A j \in usable : i <= j

Started(entries) ==
  LET i == Choice(entries)
  IN  IF i # 0 /\ entries[i].state = "new" THEN [entries EXCEPT ![i].state = "pending"] ELSE entries

BootSlot(entries) ==
  LET wanted == IF Choice(entries) = 0 THEN 1 ELSE entries[Choice(entries)].slot
  IN  IF flash[wanted] # Torn THEN wanted ELSE Other(wanted)

(* esp_ota_set_boot_partition writes beside the active entry.              *)
SetBoot(slot) ==
  otadata' = <<[slot |-> slot, state |-> "new"]>>
             \o (IF Choice(otadata) = 0 THEN <<>> ELSE <<otadata[Choice(otadata)]>>)

Pending == \E i \in DOMAIN otadata : otadata[i] = [slot |-> run, state |-> "pending"]

(* The RAM of a boot: the gate belongs to the voice until the application  *)
(* gives it up after boot_confirmed.                                       *)
ColdRam ==
  [activity |-> "voice", boot |-> "checking", ticks |-> 0, disabled |-> FALSE,
   rejected |-> 0, pc |-> "check", cand |-> NoRelease]

Boot ==
  /\ otadata' = Started(Aborted(otadata))
  /\ run' = BootSlot(Aborted(otadata))
  /\ ram' = ColdRam

-----------------------------------------------------------------------------
Init ==
  /\ flash = [s \in Slots |-> IF s = 1 THEN Base ELSE Torn]
  /\ otadata = <<[slot |-> 1, state |-> "valid"]>>
  /\ nvs = [attempted |-> 0, rejected |-> 0]
  /\ run = 1 /\ ram = ColdRam
  /\ offered = Base /\ proven = {Base} /\ unmarked = FALSE /\ faults = 0

(* The publisher only moves stable.json forward.                           *)
Publish ==
  /\ \E r \in Releases : r > offered /\ offered' = r
  /\ UNCHANGED <<flash, otadata, nvs, run, ram, proven, unmarked, faults>>

(* Power goes, or the program crashes, between any two steps.              *)
PowerLoss ==
  /\ faults < MaxFaults /\ faults' = faults + 1
  /\ Boot
  /\ UNCHANGED <<flash, nvs, offered, proven, unmarked>>

-----------------------------------------------------------------------------
(* voice_ota_confirm_boot, called by every turn of the main loop.          *)
Confirmed == ram.boot = "done"

Tick(r) == [r EXCEPT !.ticks = IF @ < 3 THEN @ + 1 ELSE 3]

RamStep(r) == ram' = r /\ UNCHANGED <<flash, run, offered, unmarked, faults>>

(* NVS cannot be read: an image under test tries again on the next tick.   *)
ReadFails ==
  /\ ram.boot = "checking"
  /\ RamStep(IF Pending THEN Tick(ram)
             ELSE [Tick(ram) EXCEPT !.disabled = TRUE, !.boot = "done"])
  /\ UNCHANGED <<otadata, nvs, proven>>

(* The main loop must go round three times before the image is confirmed.  *)
LoopOnce ==
  /\ ram.boot = "checking" /\ Pending
  /\ Tick(ram).ticks < 3
  /\ RamStep([Tick(ram) EXCEPT !.rejected = nvs.rejected])
  /\ UNCHANGED <<otadata, nvs, proven>>

SelfTestPasses ==
  /\ ram.boot = "checking" /\ Pending /\ Tick(ram).ticks = 3
  /\ Current \in Good
  /\ otadata' = [i \in DOMAIN otadata |->
                   IF otadata[i].slot = run /\ otadata[i].state = "pending"
                     THEN [otadata[i] EXCEPT !.state = "valid"] ELSE otadata[i]]
  /\ proven' = proven \cup {Current}
  /\ RamStep([Tick(ram) EXCEPT !.rejected = nvs.rejected, !.boot = "clearing"])
  /\ UNCHANGED nvs

(* Thirty seconds without a confirmation.                                  *)
SelfTestTimesOut ==
  /\ ram.boot = "checking" /\ Pending /\ Current \notin Good
  /\ Boot
  /\ UNCHANGED <<flash, nvs, offered, proven, unmarked, faults>>

(* The attempted release came back by a rollback: it is rejected.          *)
Reject(written) ==
  /\ ram.boot = "checking" /\ ~Pending /\ nvs.attempted > Current
  /\ nvs' = IF written THEN [nvs EXCEPT !.rejected = nvs.attempted] ELSE nvs
  /\ RamStep([Tick(ram) EXCEPT !.rejected = nvs.attempted,
                               !.boot = IF written THEN "clearing" ELSE "done",
                               !.disabled = @ \/ ~written])
  /\ UNCHANGED <<otadata, proven>>

NothingAttempted ==
  /\ ram.boot = "checking" /\ ~Pending /\ nvs.attempted <= Current
  /\ RamStep([Tick(ram) EXCEPT !.rejected = nvs.rejected, !.boot = "clearing"])
  /\ UNCHANGED <<otadata, nvs, proven>>

ClearAttempted(written) ==
  /\ ram.boot = "clearing"
  /\ nvs' = IF written THEN [nvs EXCEPT !.attempted = 0] ELSE nvs
  /\ RamStep([ram EXCEPT !.boot = "done", !.disabled = @ \/ (~written /\ nvs.attempted # 0)])
  /\ UNCHANGED <<otadata, proven>>

ConfirmBoot ==
  \/ ReadFails \/ LoopOnce \/ SelfTestPasses \/ SelfTestTimesOut \/ NothingAttempted
  \/ \E written \in BOOLEAN : Reject(written) \/ ClearAttempted(written)

(* The voice and the cue store take the gate and give it back; the voice   *)
(* gives it back only in a confirmed boot.                                 *)
OthersClaim ==
  /\ ram.activity = "idle" /\ Confirmed
  /\ \E owner \in {"voice", "storage"} : RamStep([ram EXCEPT !.activity = owner])
  /\ UNCHANGED <<otadata, nvs, proven>>

OthersRelease ==
  /\ ram.activity \in {"voice", "storage"} /\ Confirmed
  /\ RamStep([ram EXCEPT !.activity = "idle"])
  /\ UNCHANGED <<otadata, nvs, proven>>

-----------------------------------------------------------------------------
(* ota_task.                                                               *)
Goes(pc) == RamStep([ram EXCEPT !.pc = pc]) /\ UNCHANGED proven

Defers_owning ==  \* mutant: a failed installation keeps the gate
  /\ ram' = [ram EXCEPT !.pc = "check"]
  /\ UNCHANGED <<run, offered, proven>>

(* install_image failed: the gate is released and a later check tries the  *)
(* release again.                                                          *)
Defers ==
  /\ ram' = [ram EXCEPT !.pc = "check", !.activity = "idle"]
  /\ UNCHANGED <<run, offered, proven>>

(* The gateway answers 204 when it has nothing newer; a manifest counts    *)
(* whole, signed, and for this board.  Everything else changes nothing.    *)
Reply == IF offered > Current THEN {"manifest", "damaged", "lost"} ELSE {"204", "lost"}
Decoded(reply) == IF reply = "manifest" THEN offered ELSE NoRelease

FetchManifest ==
  /\ ram.pc = "check" /\ ~ram.disabled /\ Confirmed
  /\ \E reply \in Reply :
       /\ Decoded(reply) # NoRelease
       /\ RamStep([ram EXCEPT !.pc = "offer", !.cand = Decoded(reply)])
  /\ UNCHANGED <<otadata, nvs, proven>>

Ignored_once == ram.cand <= Current  \* mutant: a rejected release is offered again

(* voice_ota_decide; network and USB power come and go, so that a deferred *)
(* offer may also run out.                                                 *)
Ignored == ram.cand <= Current \/ ram.cand <= ram.rejected

DropOffer ==
  /\ ram.pc = "offer"
  /\ Goes("check") /\ UNCHANGED <<otadata, nvs>>

Claim ==
  /\ ram.pc = "offer" /\ ~ram.disabled /\ ~Ignored
  /\ ram.activity = "idle"
  /\ RamStep([ram EXCEPT !.pc = "begin", !.activity = "ota"])
  /\ UNCHANGED <<otadata, nvs, proven>>

(* The image is opened with the manifest's size, and the slot is erased.   *)
Begin ==
  /\ ram.pc = "begin"
  /\ flash' = [flash EXCEPT ![Other(run)] = Torn]
  /\ ram' = [ram EXCEPT !.pc = "write"]
  /\ UNCHANGED <<otadata, nvs, run, offered, proven, unmarked, faults>>

(* No connection, another status or another length than the manifest's.    *)
OpenFails == ram.pc = "begin" /\ Defers /\ UNCHANGED <<flash, otadata, nvs, unmarked, faults>>

(* Network, power, flash or time ended the download, the digest of what    *)
(* was written is not the manifest's, or the boot partition stays.         *)
InstallFails ==
  /\ ram.pc \in {"write", "switch"}
  /\ Defers /\ UNCHANGED <<flash, otadata, nvs, unmarked, faults>>

WriteEnds ==
  /\ ram.pc = "write"
  /\ flash' = [flash EXCEPT ![Other(run)] = ram.cand]
  /\ ram' = [ram EXCEPT !.pc = "switch"]
  /\ UNCHANGED <<otadata, nvs, run, offered, proven, unmarked, faults>>

SwitchBoot ==
  /\ ram.pc = "switch"
  /\ SetBoot(Other(run))
  /\ Goes("mark") /\ UNCHANGED nvs

MarkAttempted ==
  /\ ram.pc = "mark"
  /\ nvs' = [nvs EXCEPT !.attempted = ram.cand]
  /\ Boot
  /\ UNCHANGED <<flash, offered, proven, unmarked, faults>>

(* The marker could not be written: the boot partition is set back, and a  *)
(* failure of that is ignored.                                             *)
MarkFails ==
  /\ ram.pc = "mark" /\ faults < MaxFaults /\ faults' = faults + 1
  /\ SetBoot(run) \/ UNCHANGED otadata
  /\ unmarked' = TRUE
  /\ Defers /\ UNCHANGED <<flash, nvs>>

Install == Begin \/ WriteEnds \/ SwitchBoot \/ MarkAttempted
OtaTask == FetchManifest \/ DropOffer \/ Claim \/ OpenFails \/ InstallFails \/ MarkFails \/ Install

Next == Publish \/ PowerLoss \/ ConfirmBoot \/ OthersClaim \/ OthersRelease \/ OtaTask

Spec == Init /\ [][Next]_otaVars

(* The main loop runs (a failing test ends in the restart).  Again and     *)
(* again the gate becomes idle within the ten minutes an offer waits, and  *)
(* network, flash and USB power last for an installation.                  *)
Fairness ==
  /\ WF_otaVars(SelfTestTimesOut)
  /\ WF_otaVars(LoopOnce \/ SelfTestPasses \/ NothingAttempted)
  /\ WF_otaVars(Reject(TRUE) \/ Reject(FALSE))
  /\ WF_otaVars(ClearAttempted(TRUE) \/ ClearAttempted(FALSE))
  /\ SF_otaVars(OthersRelease /\ ram.pc = "offer") /\ SF_otaVars(Claim)
  /\ WF_otaVars(FetchManifest) /\ SF_otaVars(SwitchBoot) /\ SF_otaVars(MarkAttempted)
  /\ WF_otaVars(OtaTask) /\ SF_otaVars(WriteEnds) /\ SF_otaVars(Begin)
FairSpec == Spec /\ Fairness

-----------------------------------------------------------------------------
TypeOK ==
  /\ flash \in [Slots -> Releases \cup {Torn}]
  /\ Len(otadata) \in 1 .. 2
  /\ \A i \in DOMAIN otadata :
       otadata[i] \in [slot : Slots, state : {"new", "pending", "valid", "aborted"}]
  /\ nvs \in [attempted : Releases \cup {0}, rejected : Releases \cup {0}]
  /\ run \in Slots /\ offered \in Releases /\ proven \subseteq Good
  /\ unmarked \in BOOLEAN /\ faults \in 0 .. MaxFaults
  /\ ram \in [activity : {"idle", "voice", "ota", "storage"}, boot : {"checking", "clearing", "done"},
              ticks : 0 .. 3, disabled : BOOLEAN, rejected : Releases \cup {0},
              pc : {"check", "offer", "begin", "write", "switch", "mark"},
              cand : Releases \cup {NoRelease}]

(* Whatever step loses its power, a release that passed its self-test once *)
(* is whole in a slot as long as the boot loader has an entry of one, and  *)
(* that is until a marker could not be written.  The running image is      *)
(* whole, and only a worker that owns the gate touches the other slot.     *)
HasConfirmed == \E i \in DOMAIN otadata : otadata[i].state = "valid"
ProvenReleaseKept ==
  /\ ~unmarked => HasConfirmed
  /\ HasConfirmed => \E s \in Slots : flash[s] \in proven
  /\ Current # Torn
  /\ flash[BootSlot(Aborted(otadata))] # Torn
  /\ ram.pc \in {"begin", "write", "switch", "mark"} => ram.activity = "ota" /\ Confirmed

(* As long as every marker could be written, a release that NVS holds as   *)
(* rejected is not started again: the image that runs changes to a newer   *)
(* one or back to a proven one.                                            *)
RejectedIsFinal ==
  [][~unmarked' /\ flash'[run'] # Current =>
       flash'[run'] > nvs.rejected \/ flash'[run'] \in proven]_otaVars

(* What install_image and voice_ota_confirm_boot keep, both together.      *)
FirmwareKept == []ProvenReleaseKept /\ RejectedIsFinal

(* docs/operations/pull-ota.md: a new image is confirmed by its self-test, *)
(* and one that does not pass it must be rolled back.                      *)
ConfirmedPassed == Confirmed => Current \in proven

(* An image that is started for the first time has its rollback marker in  *)
(* NVS (the comment in install_image says it must).                        *)
BootsWithMarker == Pending => nvs.attempted = Current \/ Current \in proven

(* When nothing newer is published any more, the recorder runs the newest  *)
(* release, has rejected it, or has turned updates off.                    *)
UpdateSettles ==
  <>[](Current = offered \/ ram.disabled \/ nvs.rejected >= offered)

=============================================================================
