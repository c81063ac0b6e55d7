---------------------------- MODULE HostLoopback ----------------------------
(***************************************************************************)
(* main.c built without ESP_PLATFORM, as the host tests run it: there is   *)
(* no gateway, and the reply is the recording played back.  Every captured *)
(* byte goes into two rings, one drained into the HTTP session, one kept   *)
(* for the speaker.  A step is one app_tick() with what the hardware says  *)
(* in it, a move of the finger, or a failure that a test hook injects.     *)
(***************************************************************************)
EXTENDS Naturals, Sequences

CONSTANTS
  Cap,       \* RING_BUFFER_CAPACITY_DEFAULT, in bytes
  Chunk,     \* sizeof playback_pending
  BootTicks, \* APP_BOOT_TICKS
  MaxSound   \* bound: bytes of one recording

LoopbackAssumption ==
  Cap \in Nat \ {0} /\ Chunk \in Nat \ {0} /\ BootTicks \in Nat \ {0} /\ MaxSound \in Nat

VARIABLES
  app,    \* app_t
  hw,     \* microphone and speaker, what the session was given and what was heard
  finger, \* level of the button
  sound,  \* what the microphone gave since this recording began
  tap     \* what the button did since ERROR was entered

vars == <<app, hw, finger, sound, tap>>

Smaller(a, b) == IF a < b THEN a ELSE b
First(s, n) == SubSeq(s, 1, Smaller(n, Len(s)))
After(s, n) == SubSeq(s, n + 1, Len(s))

-----------------------------------------------------------------------------
(* ring_buffer: what does not fit is lost, and "overflow" stays set.       *)

Empty == [bytes |-> <<>>, overflow |-> FALSE]
Push(rb, s) ==
  LET free == Cap - Len(rb.bytes)
  IN [bytes |-> rb.bytes \o First(s, free), overflow |-> rb.overflow \/ Len(s) > free]

(* http_session without a transport: whatever is written is accepted, and  *)
(* a graceful close cannot fail, so abort is never fallen back to.         *)
Active(a) == a.session \in {"OPEN", "CLOSING"}
CloseOrAbort(a) == IF Active(a) THEN [a EXCEPT !.session = "CLOSED"] ELSE a

(* button_poll with the level of the finger: "settled" when it has lasted  *)
(* for the debounce time, "late" when the recording has its full length.   *)
(* is_pressed follows the debounced level and stands for both.             *)
Down(settled) == IF settled THEN finger ELSE app.btn.is_pressed
Event(settled, late) ==
  CASE Down(settled) /\ ~app.btn.is_pressed -> "PRESSED"
    [] ~Down(settled) /\ app.btn.is_pressed -> "RELEASED"
    [] Down(settled) /\ app.btn.is_pressed /\ late /\ ~app.btn.timeout_fired -> "MAX_RECORD_TIMEOUT"
    [] OTHER -> "NONE"
Poll(a, settled, late) ==
  LET event == Event(settled, late)
  IN [a EXCEPT !.btn = [is_pressed |-> Down(settled),
                        timeout_fired |-> (@.timeout_fired /\ event # "PRESSED") \/ event = "MAX_RECORD_TIMEOUT"]]

Released == [is_pressed |-> FALSE, timeout_fired |-> FALSE]

-----------------------------------------------------------------------------
(* state_machine_step refuses what is not in its table; enter_state does   *)
(* the rest of a legal transition.                                         *)
Legal(from, to) ==
  \/ to = "ERROR" /\ from # "ERROR"
  \/ <<from, to>> \in {<<"BOOT", "IDLE">>, <<"BOOT", "PROCESSING">>, <<"IDLE", "RECORDING">>,
                       <<"RECORDING", "PROCESSING">>, <<"PROCESSING", "PLAYING">>,
                       <<"PLAYING", "IDLE">>, <<"ERROR", "IDLE">>}

Enter(a, next) ==
  IF ~Legal(a.state, next) THEN a ELSE
    [a EXCEPT !.state = next,
              !.error_ack_ready = @ /\ next # "ERROR",
              !.error_ack_pressed = @ /\ next # "ERROR",
              !.btn = IF next = "IDLE" THEN Released ELSE @]

Init ==
  /\ app = [state |-> "BOOT", boot_ticks |-> 0, btn |-> Released,
            error_ack_ready |-> FALSE, error_ack_pressed |-> FALSE,
            rb |-> Empty, playback_rb |-> Empty, session |-> "IDLE",
            playback_pending |-> <<>>, playback_position |-> 0,
            playback_conn_dropped |-> FALSE, playback_bad_wav_header |-> FALSE]
  /\ hw = [capture |-> FALSE, playback |-> FALSE, sent |-> <<>>, heard |-> <<>>]
  /\ finger = FALSE
  /\ sound = [turn |-> 0, bytes |-> <<>>]
  /\ tap = "none"

(* recording_start: both rings are cleaned; nothing is recorded while a    *)
(* session is still active.                                                *)
RecordingStart(polled) ==
  LET clean == [polled EXCEPT !.rb = Empty, !.playback_rb = Empty]
  IN IF Active(app)
       THEN app' = Enter(clean, "ERROR") /\ UNCHANGED <<hw, sound>>
       ELSE /\ app' = Enter([clean EXCEPT !.session = "OPEN"], "RECORDING")
            /\ hw' = [hw EXCEPT !.capture = TRUE, !.sent = <<>>]
            /\ sound' = [turn |-> 1 - sound.turn, bytes |-> <<>>]

(* recording_capture takes the n bytes that the microphone has; a byte is  *)
(* known by its recording and its place in it.                             *)
Ready(n) == [i \in 1 .. n |-> 2 * (Len(sound.bytes) + i) + sound.turn]
Capture(a, n) == [a EXCEPT !.rb = Push(@, Ready(n)), !.playback_rb = Push(@, Ready(n))]

(* recording_drain hands the ring to the session until it overflowed.      *)
Drain(a) == IF a.rb.overflow THEN a ELSE [a EXCEPT !.rb.bytes = <<>>]
Drained(a) == IF a.rb.overflow THEN <<>> ELSE a.rb.bytes

(* playback_release_resources.                                             *)
Release(a) == [a EXCEPT !.playback_rb = Empty, !.playback_pending = <<>>, !.playback_position = 0]

(* playback_drain with room for so many chunks in the speaker, which takes *)
(* a chunk whole or not at all: the refused one stays in playback_pending. *)
Accepted(a, room) ==
  IF a.playback_pending # <<>> /\ room = 0 THEN <<>>
  ELSE a.playback_pending
         \o First(a.playback_rb.bytes, Chunk * (IF a.playback_pending = <<>> THEN room ELSE room - 1))
PlaybackDrain(a, room) ==
  IF a.playback_pending # <<>> /\ room = 0 THEN a ELSE
  LET left == After(a.playback_pending \o a.playback_rb.bytes, Len(Accepted(a, room)))
  IN [a EXCEPT !.playback_position = @ + Len(Accepted(a, room)),
               !.playback_pending = First(left, Chunk),
               !.playback_rb.bytes = After(left, Smaller(Chunk, Len(left)))]

-----------------------------------------------------------------------------
TickBoot ==
  /\ app.state = "BOOT"
  /\ LET a == [app EXCEPT !.boot_ticks = @ + 1]
     IN app' = IF a.boot_ticks >= BootTicks THEN Enter(a, "IDLE") ELSE a
  /\ UNCHANGED <<hw, sound>>

TickIdle(settled, late) ==
  /\ app.state = "IDLE"
  /\ IF Event(settled, late) = "PRESSED"
       THEN RecordingStart(Poll(app, settled, late))
       ELSE app' = Poll(app, settled, late) /\ UNCHANGED <<hw, sound>>

(* on_ring_buffer_overflow                                                 *)
TickOverflow ==
  /\ app.state = "RECORDING" /\ app.rb.overflow
  /\ app' = Enter(CloseOrAbort(app), "ERROR")
  /\ hw' = [hw EXCEPT !.capture = FALSE]
  /\ UNCHANGED sound

TickRecord(n, settled, late) ==
  /\ app.state = "RECORDING" /\ ~app.rb.overflow
  /\ LET heard == Capture(app, n)
         polled == Poll(Drain(heard), settled, late)
         finished == Event(settled, late) \in {"RELEASED", "MAX_RECORD_TIMEOUT"}
     IN /\ app' = IF finished THEN Enter(CloseOrAbort(polled), "PROCESSING") ELSE polled
        /\ hw' = [hw EXCEPT !.sent = @ \o Drained(heard), !.capture = ~finished]
  /\ sound' = [sound EXCEPT !.bytes = @ \o Ready(n)]

(* PROCESSING lasts one tick: playback_start.                              *)
TickProcessing ==
  /\ app.state = "PROCESSING"
  /\ app' = Enter([app EXCEPT !.playback_pending = <<>>, !.playback_position = 0,
                              !.playback_conn_dropped = FALSE, !.playback_bad_wav_header = FALSE],
                  "PLAYING")
  /\ hw' = [hw EXCEPT !.playback = TRUE, !.heard = <<>>]
  /\ UNCHANGED sound

(* on_playback_error                                                       *)
TickPlaybackError ==
  /\ app.state = "PLAYING" /\ (app.playback_conn_dropped \/ app.playback_bad_wav_header)
  /\ app' = Enter(Release(app), "ERROR")
  /\ hw' = [hw EXCEPT !.playback = FALSE]
  /\ UNCHANGED sound

TickPlay(room, drained) ==
  /\ app.state = "PLAYING" /\ ~app.playback_conn_dropped /\ ~app.playback_bad_wav_header
  /\ LET a == PlaybackDrain(app, room)
         finished == a.playback_rb.bytes = <<>> /\ a.playback_pending = <<>> /\ drained
     IN /\ app' = IF finished THEN Enter(Release(a), "IDLE") ELSE a
        /\ hw' = [hw EXCEPT !.heard = @ \o Accepted(app, room), !.playback = ~finished]
  /\ UNCHANGED sound

(* An error is acknowledged by a press and a release, after the button was *)
(* seen up.                                                                *)
TickError(settled, late) ==
  /\ app.state = "ERROR"
  /\ LET polled == Poll(app, settled, late)
         event == Event(settled, late)
     IN app' = IF ~app.error_ack_ready
                 THEN [polled EXCEPT !.error_ack_ready = ~finger /\ ~polled.btn.is_pressed]
               ELSE IF event = "PRESSED" THEN [polled EXCEPT !.error_ack_pressed = TRUE]
               ELSE IF event = "RELEASED" /\ app.error_ack_pressed THEN Enter(polled, "IDLE")
               ELSE polled
  /\ UNCHANGED <<hw, sound>>

Tick ==
  /\ \/ TickBoot
     \/ \E settled, late \in BOOLEAN : TickIdle(settled, late)
     \/ TickOverflow
     \/ \E settled, late \in BOOLEAN, n \in 0 .. MaxSound - Len(sound.bytes) : TickRecord(n, settled, late)
     \/ TickProcessing
     \/ TickPlaybackError
     \/ \E room \in 0 .. Cap, drained \in BOOLEAN : TickPlay(room, drained)
     \/ \E settled, late \in BOOLEAN : TickError(settled, late)
  /\ tap' = CASE app.state # "ERROR" \/ app'.state # "ERROR" -> "none"
              [] tap = "none" /\ ~finger /\ ~app'.btn.is_pressed -> "up"
              [] tap = "up" /\ app'.btn.is_pressed -> "down"
              [] OTHER -> tap
  /\ UNCHANGED finger

Finger == finger' = ~finger /\ UNCHANGED <<app, hw, sound, tap>>

(* The test hooks: the capture outruns the network, the reply breaks off   *)
(* or is no WAV file.                                                      *)
RingOverflows ==
  /\ app.state = "RECORDING" /\ ~app.rb.overflow
  /\ app' = [app EXCEPT !.rb = Push(@, [i \in 1 .. Cap + 1 |-> 0])]
  /\ UNCHANGED <<hw, finger, sound, tap>>

ConnDrops ==
  /\ app.state \in {"PROCESSING", "PLAYING"} /\ ~app.playback_conn_dropped
  /\ app' = [app EXCEPT !.playback_conn_dropped = TRUE]
  /\ UNCHANGED <<hw, finger, sound, tap>>

BadWavHeader ==
  /\ app.state \in {"PROCESSING", "PLAYING"} /\ ~app.playback_bad_wav_header
  /\ app' = [app EXCEPT !.playback_bad_wav_header = TRUE]
  /\ UNCHANGED <<hw, finger, sound, tap>>

Next == Tick \/ Finger \/ RingOverflows \/ ConnDrops \/ BadWavHeader

Spec == Init /\ [][Next]_vars

-----------------------------------------------------------------------------
TypeOK ==
  LET Rings == [bytes : Seq(Nat), overflow : BOOLEAN]
  IN /\ app \in [state : {"BOOT", "IDLE", "RECORDING", "PROCESSING", "PLAYING", "ERROR"},
                 boot_ticks : 0 .. BootTicks, btn : [is_pressed : BOOLEAN, timeout_fired : BOOLEAN],
                 error_ack_ready : BOOLEAN, error_ack_pressed : BOOLEAN,
                 rb : Rings, playback_rb : Rings, session : {"IDLE", "OPEN", "CLOSED"},
                 playback_pending : Seq(Nat), playback_position : Nat,
                 playback_conn_dropped : BOOLEAN, playback_bad_wav_header : BOOLEAN]
     /\ hw \in [capture : BOOLEAN, playback : BOOLEAN, sent : Seq(Nat), heard : Seq(Nat)]
     /\ finger \in BOOLEAN
     /\ sound \in [turn : {0, 1}, bytes : Seq(Nat)]
     /\ tap \in {"none", "up", "down"}

(* The speaker plays this recording, in its order and without a gap or a   *)
(* repetition, all of it unless the ring that keeps it overflowed; and the *)
(* session got all of it too, unless its ring did.  Whatever the speaker   *)
(* refuses meanwhile.                                                      *)
EchoIsWhole ==
  LET left == (IF app.state = "PLAYING" THEN hw.heard ELSE <<>>)
                \o app.playback_pending \o app.playback_rb.bytes
  IN /\ app.state \in {"RECORDING", "PROCESSING", "PLAYING"} =>
          left = IF app.playback_rb.overflow THEN First(sound.bytes, Cap) ELSE sound.bytes
     /\ app.state \in {"PROCESSING", "PLAYING"} /\ ~app.rb.overflow => hw.sent = sound.bytes

(* Whichever way a state is left, its resources are given back: microphone *)
(* and session are those of RECORDING, the speaker, the refused chunk and  *)
(* the position those of PLAYING.                                          *)
NothingLeaks ==
  /\ hw.capture <=> app.state = "RECORDING"
  /\ Active(app) <=> app.state = "RECORDING"
  /\ hw.playback <=> app.state = "PLAYING"
  /\ app.state # "PLAYING" => app.playback_pending = <<>> /\ app.playback_position = 0

(* An error is left by a tap of its own: the button was up, then down, all *)
(* since this error was entered; one that is held, or the acknowledgement  *)
(* of an earlier error, does not count.                                    *)
FreshTap == [][app.state = "ERROR" /\ app'.state = "IDLE" => tap = "down"]_vars

=============================================================================
