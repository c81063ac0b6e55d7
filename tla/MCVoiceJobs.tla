----------------------------- MODULE MCVoiceJobs -----------------------------
(* The instance of VoiceJobs for TLC: two turns compete for one worker and *)
(* one place in its queue; a second recording tells a retry from a reuse.  *)
EXTENDS VoiceJobs

CONSTANTS r1, r2, d1, d2

TwoRequests == {r1, r2}
TwoDigests == {d1, d2}
=============================================================================
