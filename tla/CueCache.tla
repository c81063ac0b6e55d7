------------------------------ MODULE CueCache ------------------------------
(***************************************************************************)
(* One spoken cue in the gateway's PCM cache (cues/cache.py): the audio    *)
(* and its metadata are two files, each replaced in one rename.  A cue     *)
(* that an older version stored in its WAV container is unwrapped where    *)
(* it lies; a cue that the metadata does not verify is bought again.  The  *)
(* gateway may be killed between any two renames, and a write may fail.    *)
(***************************************************************************)
EXTENDS Naturals

CONSTANTS
  Audio,      \* recordings of the cue as the provider may make them
  NoAudio,
  MaxFaults   \* bounds kills, failed writes and calls, and damage

CacheAssumption == NoAudio \notin Audio /\ MaxFaults \in Nat

Wrapped(a) == [audio |-> a, wrapped |-> TRUE]
Bare(a) == [audio |-> a, wrapped |-> FALSE]
Files == [audio : Audio \cup {NoAudio}, wrapped : BOOLEAN]
Nothing == Bare(NoAudio)

VARIABLES
  pcm,     \* <version>.pcm
  meta,    \* <version>.json: the files that its digests accept
  step,    \* where _Cue.ensure stands
  served,  \* _pcm and its manifest: what recorders get
  bought,  \* what the provider has just made
  faults

cacheVars == <<pcm, meta, step, served, bought, faults>>

(* Any recording of the cue, stored by this version or an older one, the   *)
(* files possibly those of two recordings.                                 *)
Init ==
  /\ pcm \in Files /\ (pcm.audio = NoAudio => pcm = Nothing)
  /\ meta \in {{}} \cup {{f} : f \in {Wrapped(a) : a \in Audio} \cup {Bare(a) : a \in Audio}}
  /\ step = "load" /\ served = Nothing /\ bought = NoAudio /\ faults = 0

Verified == pcm # Nothing /\ pcm \in meta
Fault == faults < MaxFaults /\ faults' = faults + 1
Publish(f) == served' = f /\ step' = "served"

(* What verifies needs no call of the provider: bare audio is served, a    *)
(* container is unwrapped, and the second digest of a repair that was      *)
(* interrupted is dropped.                                                 *)
Load ==
  /\ step = "load"
  /\ step' = CASE ~Verified -> "buy"
               [] Verified /\ pcm.wrapped -> "intend"
               [] Verified /\ ~pcm.wrapped /\ meta # {pcm} -> "confirm"
               [] OTHER -> "publish"
  /\ UNCHANGED <<pcm, meta, served, bought, faults>>

(* _repair_cache: the metadata accepts both files before the audio is      *)
(* replaced, and only the new one after it.  A failed write defers what is *)
(* left of the repair; its rename may have come about.                     *)
Repaired == Bare(pcm.audio)
Intend ==
  /\ step = "intend"
  /\ meta' = {pcm, Repaired} /\ step' = "replace"
  /\ UNCHANGED <<pcm, served, bought, faults>>
Replace ==
  /\ step = "replace"
  /\ pcm' = Repaired /\ step' = "confirm"
  /\ UNCHANGED <<meta, served, bought, faults>>
Confirm ==
  /\ step = "confirm"
  /\ meta' = {pcm} /\ step' = "publish"
  /\ UNCHANGED <<pcm, served, bought, faults>>
Deferred ==
  /\ step \in {"intend", "replace", "confirm"} /\ Fault
  /\ meta' \in {meta} \cup (IF step = "intend" THEN {{pcm, Repaired}} ELSE IF step = "confirm" THEN {{pcm}} ELSE {})
  /\ pcm' \in {pcm} \cup (IF step = "replace" THEN {Repaired} ELSE {})
  /\ step' = "publish"
  /\ UNCHANGED <<served, bought>>
Serve ==
  /\ step = "publish"
  /\ Publish(Repaired)
  /\ UNCHANGED <<pcm, meta, bought, faults>>

(* A new recording is written beside the old one; the audio is renamed     *)
(* first, so that until its metadata follows nothing verifies.             *)
Buy ==
  /\ step = "buy"
  /\ bought' \in Audio /\ step' = "audio"
  /\ UNCHANGED <<pcm, meta, served, faults>>
WriteAudio ==
  /\ step = "audio"
  /\ pcm' = Bare(bought) /\ step' = "meta"
  /\ UNCHANGED <<meta, served, bought, faults>>
WriteMeta ==
  /\ step = "meta"
  /\ meta' = {Bare(bought)} /\ Publish(Bare(bought))
  /\ UNCHANGED <<pcm, bought, faults>>

(* The provider or a write fails: ensure is called again a minute later.   *)
Fails ==
  /\ step \in {"buy", "audio", "meta"} /\ Fault
  /\ step' = "load"
  /\ UNCHANGED <<pcm, meta, served, bought>>

(* The gateway starts again and has nothing in memory.                     *)
Killed ==
  /\ Fault
  /\ step' = "load" /\ served' = Nothing /\ bought' = NoAudio
  /\ UNCHANGED <<pcm, meta>>

Next ==
  \/ Load \/ Intend \/ Replace \/ Confirm \/ Deferred \/ Serve
  \/ Buy \/ WriteAudio \/ WriteMeta \/ Fails \/ Killed
Spec == Init /\ [][Next]_cacheVars

-----------------------------------------------------------------------------
TypeOK ==
  /\ pcm \in Files /\ meta \subseteq Files
  /\ step \in {"load", "intend", "replace", "confirm", "publish", "served", "buy", "audio", "meta"}
  /\ served \in Files /\ bought \in Audio \cup {NoAudio}

(* "restart completes it without synthesizing again" (cache.py:64): a cue  *)
(* that was paid for and verified once verifies ever after, whenever the   *)
(* gateway is killed while its two files are replaced; the recording stays *)
(* the same, and what recorders get is bare audio.                         *)
PaidOnce == [][Verified => Verified' /\ pcm'.audio = pcm.audio]_cacheVars
ServedIsBare == served # Nothing => ~served.wrapped /\ served.audio = pcm.audio
=============================================================================
