--------------------------- MODULE GatewayServices ---------------------------
(***************************************************************************)
(* The gateway beside its voice jobs and its text turns: two conversations *)
(* with the Alice skill, one webhook at a time ("draft" has the utterances *)
(* around a draft, "results" ideas and questions about what became of      *)
(* them), the talk that recorder and Alice share ("talk"), the sets of     *)
(* spoken cues ("sets") and the cache of one of them ("cue").  These share *)
(* no state: `conversation' names the one that a behaviour is of.          *)
(***************************************************************************)
EXTENDS AliceQueue

CONSTANTS
  NRecorder, NAlice, Listens, MaxTalkEvents,                                \* of AgentSessions
  Profiles, NoSet, NCues, MaxAttempts, Retained, MaxSetFaults, MaxChanges,  \* of CueGenerations
  Audio, NoAudio, MaxCueFaults                                              \* of CueCache

VARIABLES
  conversation,
  generation, results, questions, context, proposal, receipt, turn, current, step, answer, history,
  listening, talkEvents,
  folders, staging, pointer, retry, profile, generations, active, attempts, later, pc, ready, paid,
  setFaults, changes,
  pcm, meta, cueStep, served, bought, cueFaults

Results == INSTANCE AliceQueue WITH
  NEvents <- 3, Utterances <- {"idea", "status", "next", "start", "cancel", "no"}, MaxRepeats <- 0, Pages <- 2,
  Outcomes <- {"done", "needs_review"}
Sessions == INSTANCE AgentSessions WITH MaxEvents <- MaxTalkEvents, events <- talkEvents
Sets == INSTANCE CueGenerations WITH MaxFaults <- MaxSetFaults, faults <- setFaults
Cache == INSTANCE CueCache WITH MaxFaults <- MaxCueFaults, step <- cueStep, faults <- cueFaults

ASSUME GatewayAssumption ==
  Sessions!SessionsAssumption /\ Sets!GenerationsAssumption /\ Cache!CacheAssumption

talkVars ==
  <<generation, results, questions, context, proposal, receipt, turn, current, step, answer, history,
    listening, talkEvents>>
setVars ==
  <<folders, staging, pointer, retry, profile, generations, active, attempts, later, pc, ready, paid,
    setFaults, changes>>
cueVars == <<pcm, meta, cueStep, served, bought, cueFaults>>

GatewayInit ==
  /\ conversation \in {"draft", "results", "talk", "sets", "cue"}
  /\ IF conversation = "results" THEN Results!Init ELSE Init
  /\ Sessions!Init /\ Sets!Init
  /\ Cache!Init /\ (conversation # "cue" => pcm = Cache!Nothing /\ meta = {})
GatewayNext ==
  /\ UNCHANGED conversation
  /\ \/ conversation = "draft" /\ Next
     \/ conversation = "results" /\ Results!Next
     \/ conversation = "talk" /\ Sessions!Next
     \/ conversation = "sets" /\ Sets!Next
     \/ conversation = "cue" /\ Cache!Next
  /\ conversation \notin {"draft", "results"} => UNCHANGED vars
  /\ conversation # "talk" => UNCHANGED talkVars
  /\ conversation # "sets" => UNCHANGED setVars
  /\ conversation # "cue" => UNCHANGED cueVars
GatewaySpec == GatewayInit /\ [][GatewayNext]_<<conversation, vars, talkVars, setVars, cueVars>>

-----------------------------------------------------------------------------
(* Under the fairness of the worker every accepted job ends, whatever is   *)
(* said meanwhile, unless the worker dies or the gateway restarts for ever,*)
(* and a question about the results does not change what an idea was       *)
(* answered; under that of the task of the cues the configured set comes   *)
(* into use, unless its attempts are spent.                                *)
WorkEnds ==
  /\ conversation = "draft" /\ WF_vars(Claim) /\ WF_vars(Complete) => JobsEnd
  /\ [](conversation = "results" => Results!OneAnswer)
  /\ conversation = "sets" /\ Sets!Fairness => Sets!SetComes

(* A new talk has nothing of an old one in its history, one question waits *)
(* at a time and is told once, and the recorder listens by itself only a   *)
(* few times in a row.                                                     *)
SessionsKept ==
  /\ [](Sessions!TypeOK /\ Sessions!OneQuestion /\ Sessions!HistoryIsOfThisTalk /\ Sessions!ListensEnd)
  /\ Sessions!QuestionsStand

(* A set of cues that is offered is there and stays until another one is   *)
(* in use, no cue is bought more often than there are attempts, and what   *)
(* was bought once is not bought again.                                    *)
CuesKept ==
  /\ [](Sets!TypeOK /\ Sets!OfferedIsThere /\ Sets!PaidBounded)
  /\ Sets!SetIsKept
  /\ [](Cache!TypeOK /\ Cache!ServedIsBare)
  /\ Cache!PaidOnce
=============================================================================
