----------------------------- MODULE UploadBody -----------------------------
(***************************************************************************)
(* The way of a recording to the gateway, byte by byte: the capture ring   *)
(* (ring_buffer.c) filled and drained by the main loop, the upload stream, *)
(* and the worker's session, transport, client and chunks (http_session.c, *)
(* voice_transport.c, http_voice_client.c, voice_http_chunk.c).  The main  *)
(* loop and the worker interleave at every chunk, and the socket takes any *)
(* part of what it is given.  A sample is numbered by its recording and    *)
(* its place, so that one that is lost, doubled or left over is seen.      *)
(***************************************************************************)
EXTENDS Integers, SequencesExt

CONSTANTS
  RingCap,        \* RING_BUFFER_CAPACITY_DEFAULT, a power of two
  StreamCap,      \* the upload stream
  Take,           \* the main loop's chunk, 256 bytes
  Send,           \* the worker's chunk, 1024 bytes
  MaxSound,       \* samples of a recording
  MaxRecordings,
  MaxFaults       \* bound of failed calls

UploadAssumption ==
  /\ {RingCap, StreamCap, Take, Send, MaxSound, MaxRecordings} \subseteq Nat \ {0}
  /\ MaxFaults \in Nat

VARIABLES
  rec,        \* number of the recording
  ring,       \* app.rb
  sound,      \* what the microphone gave in this recording
  main,       \* where the main loop is
  upload,     \* the stream, turn_upload_failed, _finished, _release_requested
  worker,     \* where the worker is, and what write_all still has to write
  session,    \* the state of http_session_t
  transport,  \* begun, finished
  client,     \* c->client: the recording it was opened for, 0 without one
  handles,    \* clients that were not cleaned up
  wire,       \* what the newest connection carried
  faults

bodyVars == <<rec, ring, sound, main, upload, worker, session, transport, client, handles, wire, faults>>

Sample(r, i) == (MaxSound + 1) * r + i
Fresh == [stream |-> <<>>, failed |-> FALSE, finished |-> FALSE, release |-> FALSE]
At(pc) == [pc |-> pc, todo |-> <<>>]
Fault == faults < MaxFaults /\ faults' = faults + 1

-----------------------------------------------------------------------------
(* ring_buffer_reset leaves the bytes; ring_buffer_push keeps what fits    *)
(* and remembers that something did not; ring_buffer_pop.                  *)
Emptied(rb) == [rb EXCEPT !.head = 0, !.tail = 0, !.count = 0, !.overflow = FALSE]

Pushed(rb, s) ==
  LET n == IF Len(s) < RingCap - rb.count THEN Len(s) ELSE RingCap - rb.count
  IN  [rb EXCEPT !.data = [i \in 0 .. RingCap - 1 |->
                             LET k == (i + RingCap - rb.tail) % RingCap
                             IN  IF k < n THEN s[k + 1] ELSE rb.data[i]],
                 !.tail = (rb.tail + n) % RingCap,
                 !.count = rb.count + n,
                 !.overflow = rb.overflow \/ n < Len(s)]

Oldest(rb, n) == [i \in 1 .. n |-> rb.data[(rb.head + i - 1) % RingCap]]
Popped(rb, n) == [rb EXCEPT !.head = (rb.head + n) % RingCap, !.count = rb.count - n]

Init ==
  /\ rec = 0 /\ sound = <<>> /\ main = "idle" /\ upload = Fresh /\ worker = At("none")
  /\ ring = [data |-> [i \in 0 .. RingCap - 1 |-> 0], head |-> 0, tail |-> 0, count |-> 0,
             overflow |-> FALSE]
  /\ session = "idle" /\ transport = [begun |-> FALSE, finished |-> FALSE]
  /\ client = 0 /\ handles = {} /\ wire = [of |-> 0, sent |-> <<>>] /\ faults = 0

-----------------------------------------------------------------------------
(* The main loop.                                                          *)
Goes(to) == main' = to
Link == <<session, transport, client, handles, wire>>

(* recording_start and start_turn_worker: never while a worker is there.   *)
RecordingStart ==
  /\ main = "idle" /\ worker.pc = "none" /\ rec < MaxRecordings
  /\ rec' = rec + 1 /\ ring' = Emptied(ring) /\ sound' = <<>> /\ upload' = Fresh
  /\ worker' = At("open") /\ Goes("capture")
  /\ UNCHANGED <<Link, faults>>

(* enter_state(STATE_ERROR): the flags tell a worker that is still there.  *)
Broken == IF worker.pc = "none" THEN upload ELSE [upload EXCEPT !.failed = TRUE, !.finished = TRUE]
EnterError == upload' = Broken /\ Goes("idle")

(* The head of RECORDING: overflow, or a worker that gave up.              *)
Look ==
  /\ main = "look"
  /\ IF ring.overflow \/ (worker.pc = "none" /\ upload.failed)
       THEN EnterError
       ELSE Goes("capture") /\ UNCHANGED upload
  /\ UNCHANGED <<rec, ring, sound, worker, Link, faults>>

(* recording_capture: all that the microphone has, whether it fits or not. *)
Capture ==
  /\ main = "capture"
  /\ \E n \in 0 .. MaxSound - Len(sound) :
       LET new == [i \in 1 .. n |-> Sample(rec, Len(sound) + i)]
       IN  ring' = Pushed(ring, new) /\ sound' = sound \o new
  /\ Goes("drain")
  /\ UNCHANGED <<rec, upload, worker, Link, faults>>

(* recording_drain, a chunk at a time, until an overflow, an empty ring or *)
(* a full stream.                                                          *)
Room == StreamCap - Len(upload.stream)
Drains == ~ring.overflow /\ ring.count > 0 /\ Room > 0
Least(S) == CHOOSE x \in S : \A y \in S : x <= y
Piece == Least({Take, ring.count, Room})
Drain ==
  /\ main \in {"drain", "drain rest"} /\ Drains
  /\ upload' = [upload EXCEPT !.stream = @ \o Oldest(ring, Piece)]
  /\ ring' = Popped(ring, Piece)
  /\ UNCHANGED <<rec, sound, main, worker, Link, faults>>

(* The rest of the tick: it goes on, the detector of speech fails, or the  *)
(* recording is over.                                                      *)
GoesOn ==
  /\ main = "drain" /\ ~Drains
  /\ Goes("look")
  /\ UNCHANGED <<rec, ring, sound, upload, worker, Link, faults>>

VadFails ==
  /\ main = "drain" /\ ~Drains
  /\ Fault /\ EnterError
  /\ UNCHANGED <<rec, ring, sound, worker, Link>>

Finish ==
  /\ main = "drain" /\ ~Drains
  /\ Goes("processing") /\ upload' = [upload EXCEPT !.release = TRUE]
  /\ UNCHANGED <<rec, ring, sound, worker, Link, faults>>

(* PROCESSING drains the rest, and waits for the worker.                   *)
Processing ==
  /\ main = "processing"
  /\ IF upload.release /\ ~upload.finished
       THEN Goes("drain rest")
       ELSE worker.pc = "none" /\ Goes("idle")
  /\ UNCHANGED <<rec, ring, sound, upload, worker, Link, faults>>

RestDrained(u) == IF ring.count = 0 THEN [u EXCEPT !.finished = TRUE] ELSE u
DrainedRest ==
  /\ main = "drain rest" /\ ~Drains
  /\ upload' = RestDrained(upload) /\ Goes("processing")
  /\ UNCHANGED <<rec, ring, sound, worker, Link, faults>>

-----------------------------------------------------------------------------
(* The worker: upload_recording.                                           *)
MainLoop == <<rec, ring, sound, main>>

(* abort_body cleans up the client there is; voice_transport_abort.        *)
Abort ==
  /\ handles' = handles \ {client} /\ client' = 0
  /\ transport' = [begun |-> FALSE, finished |-> TRUE]

(* http_session_init, http_session_open and voice_transport_begin, which   *)
(* first gives up the client of the last upload, and begin, which puts its *)
(* new client over the old one and, failing later, leaves it there.        *)
Before == IF transport.begun THEN 0 ELSE client
Left == IF transport.begun THEN handles \ {client} ELSE handles
Opens == {"not ready", "no client", "refused", "open"}
UploadOpen ==
  /\ worker.pc = "open"
  /\ \E outcome \in Opens :
       /\ IF outcome = "open"
            THEN /\ session' = "open" /\ worker' = At("loop")
                 /\ transport' = [begun |-> TRUE, finished |-> FALSE]
                 /\ UNCHANGED <<upload, faults>>
            ELSE /\ session' = "closed" /\ worker' = At("none") /\ Fault
                 /\ transport' = [begun |-> FALSE, finished |-> FALSE]
                 /\ upload' = [upload EXCEPT !.failed = TRUE]
       /\ client' = CASE outcome = "not ready" -> Before
                      [] outcome = "no client" -> 0
                      [] OTHER -> rec
       /\ handles' = IF outcome \in {"refused", "open"} THEN Left \cup {rec} ELSE Left
       /\ wire' = IF outcome = "open" THEN [of |-> rec, sent |-> <<>>] ELSE wire
  /\ UNCHANGED MainLoop

Loop ==
  /\ worker.pc = "loop"
  /\ worker' = At(IF upload.failed THEN "after" ELSE "receive")
  /\ UNCHANGED <<MainLoop, upload, Link, faults>>

(* xStreamBufferReceive, and the chunk as it is written: its length, its   *)
(* bytes, the end of the line.                                             *)
Chunk(s) == <<<<"size", Len(s)>>>> \o [i \in 1 .. Len(s) |-> <<"byte", s[i]>>] \o <<<<"end", 0>>>>
LastChunk == <<<<"last", 0>>>>

Receive ==
  /\ worker.pc = "receive"
  /\ LET n == Least({Send, Len(upload.stream)})
     IN  IF n > 0
           THEN /\ worker' = [pc |-> "write", todo |-> Chunk(SubSeq(upload.stream, 1, n))]
                /\ upload' = [upload EXCEPT !.stream = SubSeq(@, n + 1, Len(@))]
           ELSE worker' = At("check") /\ UNCHANGED upload
  /\ UNCHANGED <<MainLoop, Link, faults>>

(* write_all: the socket takes a part; what is left is written next.       *)
Rest(todo, n) == SubSeq(todo, n + 1, Len(todo))
Written(todo, n) ==
  /\ wire' = [wire EXCEPT !.sent = @ \o SubSeq(todo, 1, n)]
  /\ worker' = IF n < Len(todo) THEN [worker EXCEPT !.todo = Rest(todo, n)]
               ELSE At(IF worker.pc = "write" THEN "check" ELSE "answer")

Write ==
  /\ worker.pc \in {"write", "close"}
  /\ session = "open" /\ transport.begun /\ ~transport.finished /\ client # 0
  /\ \E n \in 1 .. Len(worker.todo) : Written(worker.todo, n)
  /\ UNCHANGED <<MainLoop, upload, session, transport, client, handles, faults>>

(* The socket fails: a chunk ends the loop, the last one is FATAL.         *)
Aborted ==
  /\ Abort /\ session' = "closed" /\ worker' = At("none")
  /\ upload' = [upload EXCEPT !.failed = TRUE]
  /\ UNCHANGED <<MainLoop, wire>>

WriteFails == worker.pc \in {"write", "close"} /\ Fault /\ Aborted

(* The end of the loop: first the flag, then the stream.                   *)
Check ==
  /\ worker.pc = "check"
  /\ worker' = At(IF upload.finished THEN "empty" ELSE "loop")
  /\ UNCHANGED <<MainLoop, upload, Link, faults>>

Empty ==
  /\ worker.pc = "empty"
  /\ worker' = At(IF upload.stream = <<>> THEN "after" ELSE "loop")
  /\ UNCHANGED <<MainLoop, upload, Link, faults>>

UploadClose ==
  /\ worker.pc = "after" /\ ~upload.failed
  /\ worker' = [pc |-> "close", todo |-> LastChunk]
  /\ UNCHANGED <<MainLoop, upload, Link, faults>>

UploadBreaks == worker.pc = "after" /\ upload.failed /\ Aborted /\ UNCHANGED faults

(* finish_body: the status and the turn's id.  The client stays until the  *)
(* next upload begins.                                                     *)
AnswerOk ==
  /\ worker.pc = "answer"
  /\ session' = "closed" /\ transport' = [transport EXCEPT !.finished = TRUE]
  /\ worker' = At("turn")
  /\ UNCHANGED <<MainLoop, upload, client, handles, wire, faults>>

AnswerFails == worker.pc = "answer" /\ Fault /\ Aborted

(* What the worker does with the turn is TurnClient's.                     *)
TurnEnds ==
  /\ worker.pc = "turn" /\ worker' = At("none")
  /\ UNCHANGED <<MainLoop, upload, Link, faults>>

-----------------------------------------------------------------------------
MainStep ==
  Look \/ Capture \/ Drain \/ GoesOn \/ VadFails \/ Finish \/ Processing \/ DrainedRest
WorkerStep ==
  \/ UploadOpen \/ Loop \/ Receive \/ Write \/ WriteFails \/ Check \/ Empty \/ UploadClose
  \/ UploadBreaks \/ AnswerOk \/ AnswerFails \/ TurnEnds

Next == RecordingStart \/ MainStep \/ WorkerStep
Spec == Init /\ [][Next]_bodyVars

(* Both tasks are scheduled, and a recording ends after                    *)
(* MAX_RECORD_SECONDS_DEFAULT at the latest.                               *)
Fairness == WF_bodyVars(MainStep) /\ WF_bodyVars(WorkerStep) /\ SF_bodyVars(Finish)

-----------------------------------------------------------------------------
TypeOK ==
  /\ rec \in 0 .. MaxRecordings /\ faults \in 0 .. MaxFaults
  /\ ring.head \in 0 .. RingCap - 1 /\ ring.count \in 0 .. RingCap
  /\ ring.tail = (ring.head + ring.count) % RingCap
  /\ Len(sound) <= MaxSound /\ Len(upload.stream) <= StreamCap
  /\ main \in {"idle", "look", "capture", "drain", "processing", "drain rest"}
  /\ worker.pc \in {"none", "open", "loop", "receive", "write", "check", "empty", "after", "close",
                    "answer", "turn"}
  /\ session \in {"idle", "open", "closed"} /\ client \in 0 .. rec
  /\ handles \subseteq 1 .. rec /\ client \in handles \cup {0}

(* The gateway's reading of a chunked body.                                *)
Reads(d, token) ==
  CASE token[1] = "size" /\ d.left = -1 -> [d EXCEPT !.left = token[2]]
    [] token[1] = "byte" /\ d.left > 0 -> [d EXCEPT !.left = @ - 1, !.body = Append(@, token[2])]
    [] token[1] = "end" /\ d.left = 0 -> [d EXCEPT !.left = -1]
    [] token[1] = "last" /\ d.left = -1 -> [d EXCEPT !.done = TRUE]
    [] OTHER -> [d EXCEPT !.torn = TRUE]
Read(tokens) == FoldLeft(Reads, [left |-> -1, body |-> <<>>, done |-> FALSE, torn |-> FALSE], tokens)

(* Whatever the socket cuts and wherever the ring wraps, a body that came  *)
(* to its end at the gateway is the whole sound of its recording, in       *)
(* order: a recording that overflowed or broke off has no end.             *)
BodyIsSound ==
  LET d == Read(wire.sent)
  IN  /\ ~d.torn
      /\ wire.of = rec => IsPrefix(d.body, sound) /\ (d.done => d.body = sound)

(* An upload ends, unless the ring overflowed on the recording's last      *)
(* tick, which nobody looks at (DeviceApp's OverflowShowsError).           *)
LastTickOverflow == ring.overflow /\ main \in {"processing", "drain rest"}
UploadEnds == [](worker.pc # "none" => <>(worker.pc = "none" \/ LastTickOverflow))

=============================================================================
