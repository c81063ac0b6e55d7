----------------------------- MODULE TurnService -----------------------------
(***************************************************************************)
(* What the gateway promises a recorder about one request, whatever is     *)
(* retried, lost or restarted: a request is bound to one recording, is     *)
(* processed at most once, ends once, and its reply is streamed at most    *)
(* once.  VoiceJobs implements this specification.                         *)
(***************************************************************************)
CONSTANTS Requests, Digests, NoDigest

VARIABLES
  phase,   \* where the request is
  audio,   \* the recording it is bound to
  played   \* its streamed reply was handed out

vars == <<phase, audio, played>>

Outcome == {"ready", "failed", "interrupted", "cancelled"}

Init ==
  /\ phase = [r \in Requests |-> "open"]
  /\ audio = [r \in Requests |-> NoDigest]
  /\ played = [r \in Requests |-> FALSE]

(* The recording arrived whole: the request keeps it for good.             *)
Accept(r, d) ==
  /\ phase[r] = "open"
  /\ phase' = [phase EXCEPT ![r] = "accepted"]
  /\ audio' = [audio EXCEPT ![r] = d]
  /\ UNCHANGED played

Work(r) ==
  /\ phase[r] = "accepted"
  /\ phase' = [phase EXCEPT ![r] = "working"]
  /\ UNCHANGED <<audio, played>>

(* A restart ends the turn that was being processed; it is not run again.  *)
Finish(r, outcome) ==
  /\ phase[r] = "working"
  /\ phase' = [phase EXCEPT ![r] = outcome]
  /\ UNCHANGED <<audio, played>>

CancelAccepted(r) ==
  /\ phase[r] = "accepted"
  /\ phase' = [phase EXCEPT ![r] = "cancelled"]
  /\ UNCHANGED <<audio, played>>

Play(r) ==
  /\ phase[r] \in {"working", "ready"} /\ ~played[r]
  /\ played' = [played EXCEPT ![r] = TRUE]
  /\ UNCHANGED <<phase, audio>>

Next ==
  \E r \in Requests :
    \/ \E d \in Digests : Accept(r, d)
    \/ Work(r) \/ CancelAccepted(r) \/ Play(r)
    \/ \E outcome \in Outcome : Finish(r, outcome)

Spec == Init /\ [][Next]_vars
=============================================================================
