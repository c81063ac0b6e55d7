------------------------------ MODULE TurnJson ------------------------------
(***************************************************************************)
(* What the recorder reads in an answer about its turn: the JSON that the  *)
(* gateway makes of a job (status_payload), the connection that may end in *)
(* its middle, and the readers of voice_turn_follow_up.c and               *)
(* voice_turn_client.c one after the other, as read_json calls them.       *)
(*                                                                         *)
(* A body is a sequence of tokens: the punctuation, the literals and the   *)
(* strings.  White space, escapes and the digits of numbers are left out.  *)
(* A body cut within a token is one that is cut before it: neither a       *)
(* string nor a literal without its end is accepted, and the object around *)
(* it is not closed.                                                       *)
(***************************************************************************)
EXTENDS Naturals, Sequences, FiniteSets, SequencesExt

CONSTANTS
  Depth,    \* containers within each other, 8 in the code
  Extras,   \* members that the gateway may add one day: sequences of tokens
  Capacity  \* tokens that the recorder's buffer has room for

JsonAssumption == Depth \in Nat \ {0} /\ Capacity \in Nat

Statuses ==
  {"uploading", "queued", "running", "transcribing", "thinking", "synthesizing", "ready", "failed",
   "upload_failed", "interrupted", "cancelled"}
ErrorCodes ==
  {"agent_timeout", "stt_failed", "empty_transcript", "tts_failed", "audio_receive_failed", "other_code"}
Ids == {"turn", "question"}  \* what the recorder takes for a UUID
Strings == Statuses \cup ErrorCodes \cup Ids \cup
  {"turn_id", "status", "audio_stream_ready", "audio_stream_consumed", "error", "follow_up", "question_id",
   "listen", "answer_url", "extra", "no uuid"}

VARIABLES
  job,     \* the row that the gateway answers about
  body,    \* what it sends
  got,     \* what arrives, and how the connection ends
  outcome  \* what the recorder has read

jsonVars == <<job, body, got, outcome>>

-----------------------------------------------------------------------------
(* status_payload: a stream is either waiting or claimed, an error and a   *)
(* question are there when the row has them.                               *)
Jobs ==
  {j \in [status : Statuses, stream : {"none", "waiting", "claimed"}, error : ErrorCodes \cup {"none"},
          listen : {"none", "true", "false"}, answer : BOOLEAN] :
     /\ j.stream # "none" => j.status \in {"synthesizing", "ready", "failed", "interrupted", "cancelled"}
     /\ (j.stream = "waiting" \/ j.listen # "none" \/ j.answer) => j.status \in {"synthesizing", "ready"}
     /\ j.error # "none" => j.status \in {"failed", "upload_failed", "interrupted", "cancelled"}}

Member(key, value) == <<key, ":">> \o value
Given(condition, member) == IF condition THEN <<member>> ELSE <<>>
Object(members) ==
  <<"{">> \o FoldLeft(LAMBDA done, m : (IF done = <<>> THEN <<>> ELSE Append(done, ",")) \o m, <<>>, members)
    \o <<"}">>

Question(listen) == Object(<<Member("question_id", <<"question">>), Member("listen", <<listen>>)>>)

status_payload(j, extra) ==
  Object(<<Member("turn_id", <<"turn">>), Member("status", <<j.status>>)>>
    \o Given(j.stream = "claimed", Member("audio_stream_consumed", <<"true">>))
    \o Given(j.stream = "waiting", Member("audio_stream_ready", <<"true">>))
    \o Given(j.error # "none", Member("error", <<j.error>>))
    \o Given(j.status = "ready" /\ j.listen # "none", Member("follow_up", Question(j.listen)))
    \o Given(j.status = "ready" /\ j.answer, Member("answer_url", <<"extra">>))
    \o Given(extra # <<>>, extra))

-----------------------------------------------------------------------------
(* The bounded reader: where a value that begins at i ends, 0 if none      *)
(* does.                                                                   *)
At(b, i) == IF i \in 1 .. Len(b) THEN b[i] ELSE "end"
Literals == {"true", "false", "null", "number"}

RECURSIVE Value(_, _, _), Elements(_, _, _, _)

Closing(object) == IF object THEN "}" ELSE "]"

Elements(b, i, depth, object) ==
  LET named == At(b, i) \in Strings /\ At(b, i + 1) = ":"
      after == IF ~object THEN Value(b, i, depth) ELSE IF named THEN Value(b, i + 2, depth) ELSE 0
  IN  CASE after # 0 /\ At(b, after) = Closing(object) -> after + 1
        [] after # 0 /\ At(b, after) = "," -> Elements(b, after + 1, depth, object)
        [] OTHER -> 0

Value(b, i, depth) ==
  LET object == At(b, i) = "{"
  IN  CASE At(b, i) \in {"{", "["} /\ depth < Depth ->
             IF At(b, i + 1) = Closing(object) THEN i + 2 ELSE Elements(b, i + 1, depth + 1, object)
        [] At(b, i) \in Strings \cup Literals -> i + 1
        [] OTHER -> 0

(* The members of the object that begins at i, as <<key, place of the      *)
(* value, place after it>>; <<>> for what is no object.                    *)
RECURSIVE MembersFrom(_, _)
MembersFrom(b, i) ==
  LET after == IF At(b, i) \in Strings /\ At(b, i + 1) = ":" THEN Value(b, i + 2, 0) ELSE 0
  IN  IF after = 0 THEN <<[key |-> "bad", at |-> 0, end |-> 0]>>
      ELSE <<[key |-> b[i], at |-> i + 2, end |-> after]>>
             \o IF At(b, after) = "," THEN MembersFrom(b, after + 1) ELSE <<>>

MembersOf(b, i) ==
  IF At(b, i) # "{" THEN <<[key |-> "bad", at |-> 0, end |-> 0]>>
  ELSE IF At(b, i + 1) = "}" THEN <<>> ELSE MembersFrom(b, i + 1)

EndOf(b, i) == IF MembersOf(b, i) = <<>> THEN i + 1 ELSE Last(MembersOf(b, i)).end
Places_anywhere(b, i, key) ==  \* mutant: a name found in a nested object, or in another one
  {[key |-> key, at |-> n + 2, end |-> n + 3] : n \in {k \in DOMAIN b : b[k] = key}}
Places(b, i, key) == {m \in ToSet(MembersOf(b, i)) : m.key = key}
Named(b, i, key) == Cardinality(Places(b, i, key)) = 1
Of(b, i, key) == At(b, (CHOOSE m \in Places(b, i, key) : TRUE).at)

Whole(b, i) == At(b, i) = "{" /\ Places(b, i, "bad") = {} /\ At(b, EndOf(b, i)) = "}"
Root(b) == Whole(b, 1) /\ EndOf(b, 1) = Len(b)

Once(b, i, key, values) ==
  Places(b, i, key) # {} => Named(b, i, key) /\ Of(b, i, key) \in values

(* voice_turn_parse_metadata and follow: what they accept, and the         *)
(* question and the error that they find.                                  *)
FollowAt(b) == (CHOOSE m \in Places(b, 1, "follow_up") : TRUE).at

FollowOk(b) ==
  /\ Once(b, 1, "follow_up", {"null", "{"})
  /\ Places(b, 1, "follow_up") # {} /\ At(b, FollowAt(b)) = "{" =>
       /\ Whole(b, FollowAt(b))
       /\ Named(b, FollowAt(b), "question_id") /\ Of(b, FollowAt(b), "question_id") \in Ids
       /\ Named(b, FollowAt(b), "listen") /\ Of(b, FollowAt(b), "listen") \in {"true", "false"}

parse_metadata(b) == Root(b) /\ FollowOk(b) /\ Once(b, 1, "error", {"null"} \cup (Strings \ {"no uuid"}))

Asked(b) == Places(b, 1, "follow_up") # {} /\ At(b, FollowAt(b)) = "{"
Listen(b) == IF Asked(b) THEN Of(b, FollowAt(b), "listen") ELSE "none"

Kind(code) ==
  CASE code \in {"none", "null"} -> "NONE" [] code = "agent_timeout" -> "AGENT_TIMEOUT"
    [] code \in {"stt_failed", "empty_transcript"} -> "STT_FAILED" [] code = "tts_failed" -> "TTS_FAILED"
    [] code = "audio_receive_failed" -> "CONNECTION" [] OTHER -> "UNKNOWN"
Error(b) == Kind(IF Places(b, 1, "error") = {} THEN "none" ELSE Of(b, 1, "error"))

(* voice_turn_parse_stream_flags.                                          *)
Flag(b, key) == Places(b, 1, key) # {} /\ Of(b, 1, key) = "true"
parse_stream_flags(b) ==
  /\ Root(b)
  /\ \A key \in {"audio_stream_ready", "audio_stream_consumed"} : Once(b, 1, key, {"true", "false"})
  /\ ~(Flag(b, "audio_stream_ready") /\ Flag(b, "audio_stream_consumed"))

(* voice_turn_parse_status and voice_turn_parse_turn_id look for the first *)
(* place where the quoted name stands.                                     *)
First(b, key) == IF key \in ToSet(b) THEN SelectInSeq(b, LAMBDA t : t = key) ELSE 0
FirstValue(b, key) ==
  IF First(b, key) = 0 \/ At(b, First(b, key) + 1) # ":" THEN "end" ELSE At(b, First(b, key) + 2)

Status(word) ==
  CASE word \in {"queued", "uploading"} -> "QUEUED" [] word = "running" -> "RUNNING"
    [] word = "transcribing" -> "TRANSCRIBING" [] word = "thinking" -> "THINKING"
    [] word = "synthesizing" -> "SYNTHESIZING" [] word = "ready" -> "READY"
    [] word \in {"failed", "upload_failed", "interrupted"} -> "FAILED" [] word = "cancelled" -> "CANCELLED"
    [] OTHER -> "none"

-----------------------------------------------------------------------------
Nothing == [io |-> "none"]

Init ==
  /\ job \in Jobs
  /\ \E extra \in Extras : body = status_payload(job, extra)
  /\ got = [tokens |-> <<>>, http |-> 0, end |-> "none"] /\ outcome = Nothing

(* The network: the whole body, or a part of it, after which the read      *)
(* fails or the connection is closed; or another status.                   *)
Arrives ==
  /\ got.end = "none"
  /\ \E n \in 0 .. Len(body), http \in {200, 404, 401, 503}, end \in {"closed", "failed"} :
       /\ http # 200 => n = 0 /\ end = "closed"
       /\ got' = [tokens |-> SubSeq(body, 1, n), http |-> http, end |-> end]
  /\ UNCHANGED <<job, body, outcome>>

(* read_json.                                                              *)
Accepted(b, needsTurnId) ==
  /\ parse_metadata(b) /\ parse_stream_flags(b)
  /\ Status(FirstValue(b, "status")) # "none"
  /\ needsTurnId => FirstValue(b, "turn_id") \in Ids

Response(b) ==
  [io |-> "OK", status |-> Status(FirstValue(b, "status")), error |-> Error(b), listen |-> Listen(b),
   ready |-> Flag(b, "audio_stream_ready"), consumed |-> Flag(b, "audio_stream_consumed")]

Io(g, needsTurnId) ==
  CASE g.http = 404 -> "NOT_FOUND" [] g.http >= 500 -> "RETRY" [] g.http = 401 -> "FATAL"
    [] g.http = 200 /\ Len(g.tokens) >= Capacity -> "FATAL"
    [] g.http = 200 /\ Len(g.tokens) < Capacity /\ g.end = "failed" -> "RETRY"
    [] OTHER -> IF Accepted(g.tokens, needsTurnId) THEN "OK" ELSE "FATAL"

read_json ==
  /\ got.end # "none" /\ outcome = Nothing
  /\ \E needsTurnId \in BOOLEAN :
       outcome' = IF Io(got, needsTurnId) = "OK" THEN Response(got.tokens) ELSE [io |-> Io(got, needsTurnId)]
  /\ UNCHANGED <<job, body, got>>

Next == Arrives \/ read_json

Spec == Init /\ [][Next]_jsonVars

-----------------------------------------------------------------------------
TypeOK ==
  /\ job \in Jobs /\ ToSet(body) \subseteq Strings \cup Literals \cup {"{", "}", "[", "]", ":", ","}
  /\ got.end \in {"none", "closed", "failed"} /\ outcome.io \in {"none", "OK", "RETRY", "FATAL", "NOT_FOUND"}

(* What the recorder takes for an answer is what the row says, in every    *)
(* part, whatever stands in members that it does not know; a body that     *)
(* ends early is never taken for an answer, and a whole one that fits into *)
(* the buffer always is.                                                   *)
Truth ==
  [io |-> "OK", status |-> Status(job.status), error |-> Kind(job.error),
   listen |-> IF job.status = "ready" THEN job.listen ELSE "none",
   ready |-> job.stream = "waiting", consumed |-> job.stream = "claimed"]

AnswersAreRead ==
  /\ outcome.io = "OK" => got.tokens = body /\ outcome = Truth
  /\ got.end = "closed" /\ got.tokens = body /\ Len(body) < Capacity /\ outcome # Nothing =>
       outcome.io = "OK"

=============================================================================
