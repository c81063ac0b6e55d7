----------------------------- MODULE ReplyAudio -----------------------------
(***************************************************************************)
(* A spoken reply on its way from the gateway's response to the speaker:   *)
(* download_audio and download_mp3 (voice_turn_http.c) read the body in    *)
(* blocks of any size, voice_mp3_player.c or wav_parser.c finds the frames *)
(* or chunks in it, the PCM goes through turn_audio_stream to the main     *)
(* loop, whose turn_playback_drain (main.c) writes it to the speaker.      *)
(*                                                                         *)
(* A byte of the body is a token that says what it belongs to, so that a   *)
(* parser that loses its place is seen to.  A decoded sample is its frame  *)
(* and number, and travels as two bytes.  Sizes are scaled: a probe of two *)
(* tokens for ten bytes, one of header for four (a chunk header: two for   *)
(* eight).                                                                 *)
(***************************************************************************)
EXTENDS Naturals, SequencesExt

CONSTANTS
  Bodies,     \* what the gateway sends: records of kind, bytes, framed, sound
  Block,      \* bytes of one esp_http_client_read
  StreamCap,  \* capacity of turn_audio_stream, in bytes
  ChunkCap,   \* bytes of turn_playback_drain's buffer
  MaxBytes    \* VOICE_MP3_MAX_BYTES

SizesAssumption ==
  /\ Block \in Nat \ {0} /\ MaxBytes \in Nat \ {0}
  /\ StreamCap \in Nat \ {0, 1} /\ StreamCap % 2 = 0
  /\ ChunkCap \in Nat \ {0, 1}

VARIABLES
  body,     \* the response
  got,      \* bytes of it that were read, the bytes the parser took
  player,   \* voice_mp3_player_t or wav_parser_t
  result,   \* of the download
  stream,   \* turn_audio_stream, in bytes
  main,     \* the main loop: turn_pending_byte, playback ended
  heard,    \* samples the speaker took
  cancel,   \* turn_cancel_requested
  cut       \* the deadline, a lost connection or a refusing speaker (history)

audioVars == <<body, got, player, result, stream, main, heard, cancel, cut>>

-----------------------------------------------------------------------------
(* What the gateway may send.                                              *)
Tokens(k, f, n) == [i \in 1 .. n |-> [k |-> k, f |-> f, i |-> i]]
FrameLen == 3
PcmPerFrame == 2

(* The body of an MP3 reply: an ID3 tag of some length, then frames.       *)
Mp3(tag, frames) ==
  (IF tag = 0 THEN <<>> ELSE Tokens("id3", tag - 2, 2) \o Tokens("tag", 0, tag - 2))
    \o FlattenSeq([f \in 1 .. frames |-> Tokens("frame", f, FrameLen)])

(* RIFF, the format, perhaps an odd chunk with its pad byte, and the data. *)
Wav(odd, samples) ==
  Tokens("riff", 1, 2) \o Tokens("wave", 0, 1) \o Tokens("fmt ", 2, 2) \o Tokens("format", 0, 2)
    \o (IF odd THEN Tokens("LIST", 1, 2) \o Tokens("text", 0, 1) \o Tokens("pad", 0, 1) ELSE <<>>)
    \o Tokens("data", 2 * samples, 2)
    \o FlattenSeq([f \in 1 .. samples |-> Tokens("pcm", f, 2)])

(* The samples a whole and sound body stands for.  The first frame only    *)
(* fills the decoder's reservoir.                                          *)
FrameSamples(f) ==
  IF f = 1 THEN <<>> ELSE [i \in 1 .. PcmPerFrame |-> [f |-> f, i |-> i]]

Samples(b) ==
  IF b.kind = "mp3"
    THEN FlattenSeq([f \in 1 .. Len(SelectSeq(b.bytes, LAMBDA t : t.k = "frame")) \div FrameLen
                       |-> FrameSamples(f)])
    ELSE [f \in 1 .. Len(SelectSeq(b.bytes, LAMBDA t : t.k = "pcm" /\ t.i = 1)) |-> [f |-> f, i |-> 1]]

(* The two bytes of each sample.                                           *)
Bytes(samples) ==
  FlattenSeq([s \in DOMAIN samples |-> <<[s |-> samples[s], b |-> 1], [s |-> samples[s], b |-> 2]>>])

-----------------------------------------------------------------------------
Mp3Init == [used |-> <<>>, needed |-> 2, skip |-> 0, total |-> 0, checked |-> FALSE, frames |-> 0,
            out |-> <<>>, pcm |-> 0, failed |-> FALSE]

WavInit == [header |-> <<>>, riff |-> FALSE, fmt |-> FALSE, data |-> FALSE, inData |-> FALSE,
            remaining |-> 0, tail |-> 0, pad |-> FALSE, padAfter |-> FALSE, failed |-> FALSE]

Init ==
  /\ body \in Bodies
  /\ got = [read |-> 0, taken |-> 0]
  /\ player = IF body.kind = "mp3" THEN Mp3Init ELSE WavInit
  /\ result = "none" /\ stream = <<>> /\ heard = <<>>
  /\ main = [pending |-> <<>>, state |-> "playing"]
  /\ cancel = FALSE /\ cut = FALSE

Block0 == SubSeq(body.bytes, got.taken + 1, got.read)
Free == StreamCap - Len(stream)
Least(a, b) == IF a < b THEN a ELSE b

-----------------------------------------------------------------------------
(* voice_mp3_player.c.  drain hands the decoded samples to stream_mp3_pcm, *)
(* which takes whole samples only.                                         *)
DrainTakes(p) == Least(Len(p.out), Free - (Free % 2))

Drains ==
  /\ DrainTakes(player) > 0
  /\ stream' = stream \o SubSeq(player.out, 1, DrainTakes(player))
  /\ player' = [player EXCEPT !.out = SubSeq(@, DrainTakes(player) + 1, Len(@))]

(* The frame the buffer holds is decoded, unless it is none.               *)
Decoded(p) ==
  IF p.used = Tokens("frame", p.used[1].f, FrameLen)
    THEN LET new == FrameSamples(p.used[1].f)
         IN  [p EXCEPT !.out = Bytes(new), !.pcm = @ + Len(new), !.frames = @ + 1,
                       !.used = <<>>, !.needed = 1]
    ELSE [p EXCEPT !.failed = TRUE]

(* The header says how long the frame is.                                  *)
FrameHeader(p) == p.used[1].k = "frame" /\ p.used[1].i = 1

Framed(p) ==
  IF p.needed = 1 /\ ~FrameHeader(p)
    THEN [p EXCEPT !.failed = TRUE]
    ELSE LET q == [p EXCEPT !.needed = FrameLen]
         IN  IF Len(q.used) < q.needed THEN q ELSE Decoded(q)

(* The first bytes may be a tag, which is skipped.                         *)
Probed(p) ==
  LET q == [p EXCEPT !.checked = TRUE, !.needed = 1]
  IN  IF p.used[1].k = "id3"
        THEN [q EXCEPT !.used = <<>>, !.skip = p.used[1].f]
        ELSE Framed(q)

(* One turn of the loop of voice_mp3_player_feed, which takes n bytes.     *)
Wanted(p) == IF p.skip > 0 THEN p.skip ELSE p.needed - Len(p.used)

Fed(p, bytes) ==
  LET taken == [p EXCEPT !.total = @ + Len(bytes)]
      filled == [taken EXCEPT !.used = @ \o bytes]
  IN  IF p.skip > 0 THEN [taken EXCEPT !.skip = @ - Len(bytes)]
      ELSE IF Len(filled.used) < p.needed THEN filled
      ELSE IF ~p.checked THEN Probed(filled)
      ELSE IF p.needed = 1 THEN Framed(filled) ELSE Decoded(filled)

Mp3Feed ==
  /\ body.kind = "mp3" /\ result = "none" /\ ~player.failed /\ ~cancel /\ Block0 # <<>>
  /\ IF player.out # <<>>
       THEN Drains /\ UNCHANGED got
       ELSE LET n == Least(Least(Wanted(player), Len(Block0)), MaxBytes - player.total)
            IN  /\ player' = IF player.total >= MaxBytes THEN [player EXCEPT !.failed = TRUE]
                             ELSE Fed(player, SubSeq(Block0, 1, n))
                /\ got' = [got EXCEPT !.taken = @ + n]
                /\ UNCHANGED stream
  /\ UNCHANGED <<body, result, main, heard, cancel, cut>>

(* The end of the body counts when HTTP framing and the last frame are     *)
(* complete (voice_mp3_player_finish), and everything was handed over.     *)
AtEnd == got.read = Len(body.bytes) /\ Block0 = <<>> /\ result = "none"

Mp3Whole(p) == ~(p.skip > 0 \/ p.used # <<>> \/ p.frames = 0 \/ p.pcm = 0)

Mp3Finish ==
  /\ body.kind = "mp3" /\ AtEnd /\ ~player.failed /\ body.framed
  /\ IF player.out # <<>>
       THEN Drains /\ UNCHANGED result
       ELSE /\ result' = IF cancel THEN "CANCELLED"
                         ELSE IF Mp3Whole(player) THEN "OK" ELSE "FATAL"
            /\ UNCHANGED <<stream, player>>
  /\ UNCHANGED <<body, got, main, heard, cancel, cut>>

-----------------------------------------------------------------------------
(* wav_parser.c.  A chunk header is read whole, then its chunk.            *)
Opened(p, h) ==
  IF h # Tokens(h[1].k, h[1].f, 2) THEN [p EXCEPT !.failed = TRUE]
  ELSE IF ~p.riff
    THEN IF h[1].k = "riff" THEN [p EXCEPT !.riff = TRUE, !.tail = 1, !.header = <<>>]
         ELSE [p EXCEPT !.failed = TRUE]
  ELSE IF h[1].k = "data"
    THEN IF ~p.fmt \/ h[1].f = 0 THEN [p EXCEPT !.failed = TRUE]
         ELSE [p EXCEPT !.data = TRUE, !.inData = TRUE, !.remaining = h[1].f, !.header = <<>>]
  ELSE IF h[1].k = "fmt "
    THEN [p EXCEPT !.remaining = h[1].f, !.header = <<>>, !.fmt = TRUE]
  ELSE [p EXCEPT !.remaining = h[1].f, !.padAfter = h[1].f % 2 = 1, !.header = <<>>]

(* What one turn of the loop of wav_parser_feed takes outside of the data. *)
WavWanted(p) ==
  IF p.tail > 0 THEN p.tail ELSE IF p.pad THEN 1
  ELSE IF p.remaining > 0 THEN p.remaining ELSE 2 - Len(p.header)

PadAfter(p, n) == p.padAfter /\ p.remaining = n

WavFed(p, bytes) ==
  LET n == Len(bytes)
      header == p.header \o bytes
  IN  IF p.tail > 0 THEN [p EXCEPT !.tail = @ - n]
      ELSE IF p.pad THEN [p EXCEPT !.pad = FALSE]
      ELSE IF p.remaining > 0
        THEN [p EXCEPT !.remaining = @ - n,
                       !.pad = PadAfter(p, n),
                       !.padAfter = @ /\ p.remaining # n]
      ELSE IF Len(header) < 2 THEN [p EXCEPT !.header = header]
      ELSE Opened(p, header)

(* stream_pcm waits a moment and takes as many bytes as there is room for, *)
(* even half a sample.                                                     *)
DataTakes(p) == Least(Least(p.remaining, Len(Block0)), Free)

PcmBytes(tokens) ==
  [i \in DOMAIN tokens |-> [s |-> [f |-> tokens[i].f, i |-> 1], b |-> tokens[i].i]]

WavFeed ==
  /\ body.kind = "wav" /\ result = "none" /\ ~player.failed /\ ~cancel /\ Block0 # <<>>
  /\ IF player.inData
       THEN LET n == DataTakes(player)
            IN  /\ n > 0
                /\ stream' = stream \o PcmBytes(SubSeq(Block0, 1, n))
                /\ player' = [player EXCEPT !.remaining = @ - n, !.inData = player.remaining # n]
                /\ got' = [got EXCEPT !.taken = @ + n]
       ELSE LET n == Least(WavWanted(player), Len(Block0))
            IN  /\ player' = WavFed(player, SubSeq(Block0, 1, n))
                /\ got' = [got EXCEPT !.taken = @ + n]
                /\ UNCHANGED stream
  /\ UNCHANGED <<body, result, main, heard, cancel, cut>>

WavWhole(p) == p.data /\ ~p.inData /\ p.remaining = 0 /\ p.header = <<>>

WavFinish ==
  /\ body.kind = "wav" /\ AtEnd /\ ~player.failed /\ body.framed
  /\ result' = IF cancel THEN "CANCELLED" ELSE IF WavWhole(player) THEN "OK" ELSE "FATAL"
  /\ UNCHANGED <<body, got, player, stream, main, heard, cancel, cut>>

-----------------------------------------------------------------------------
(* The download: a block of any size, the deadline, a lost connection, and *)
(* what the parser or the framing refuses.  After sound has started, a     *)
(* WAV reply is not tried again.                                           *)
ReadBlock ==
  /\ result = "none" /\ ~player.failed /\ ~cancel /\ Block0 = <<>>
  /\ \E n \in 1 .. Least(Block, Len(body.bytes) - got.read) : got' = [got EXCEPT !.read = @ + n]
  /\ UNCHANGED <<body, player, result, stream, main, heard, cancel, cut>>

Refused ==
  /\ result = "none" /\ (player.failed \/ (AtEnd /\ ~body.framed))
  /\ result' = IF cancel THEN "CANCELLED" ELSE "FATAL"
  /\ UNCHANGED <<body, got, player, stream, main, heard, cancel, cut>>

Cut ==
  /\ result = "none" /\ ~cancel /\ cut' = TRUE
  /\ result' \in IF body.kind = "wav" /\ stream = <<>> /\ heard = <<>> /\ main.pending = <<>>
                   THEN {"FATAL", "RETRY"} ELSE {"FATAL"}
  /\ UNCHANGED <<body, got, player, stream, main, heard, cancel>>

Cancelled ==
  /\ result = "none" /\ cancel
  /\ result' = "CANCELLED"
  /\ UNCHANGED <<body, got, player, stream, main, heard, cancel, cut>>

Download == ReadBlock \/ Mp3Feed \/ WavFeed \/ Mp3Finish \/ WavFinish \/ Refused \/ Cancelled

-----------------------------------------------------------------------------
(* turn_playback_drain, once per tick: what is there, up to the buffer,    *)
(* behind the odd byte of the tick before; an odd byte is kept for the     *)
(* next one, and the speaker takes the rest or refuses it.                 *)
Whole(bytes) ==
  LET even == Len(bytes) - (Len(bytes) % 2)
  IN  [i \in 1 .. even \div 2 |-> [first |-> bytes[2 * i - 1], second |-> bytes[2 * i]]]

Odd_dropped(bytes) == <<>>  \* mutant: the odd byte is not kept

Odd(bytes) == SubSeq(bytes, Len(bytes) - (Len(bytes) % 2) + 1, Len(bytes))

Drain ==
  /\ main.state = "playing" /\ stream # <<>>
  /\ LET n == Least(Len(stream), ChunkCap - Len(main.pending))
         audio == main.pending \o SubSeq(stream, 1, n)
     IN  /\ main' = [main EXCEPT !.pending = Odd(audio)]
         /\ heard' = heard \o Whole(audio)
         /\ stream' = SubSeq(stream, n + 1, Len(stream))
  /\ UNCHANGED <<body, got, player, result, cancel, cut>>

SpeakerRefuses ==
  /\ main.state = "playing" /\ stream # <<>>
  /\ main' = [pending |-> <<>>, state |-> "error"]
  /\ cancel' = TRUE /\ cut' = TRUE
  /\ UNCHANGED <<body, got, player, result, stream, heard>>

(* A button press, or what the download came to.  What follows a RETRY is  *)
(* TurnClient's.                                                           *)
Press ==
  /\ main.state = "playing"
  /\ main' = [pending |-> <<>>, state |-> "idle"]
  /\ cancel' = TRUE /\ cut' = TRUE
  /\ UNCHANGED <<body, got, player, result, stream, heard>>

Ends ==
  /\ main.state = "playing"
  /\ \/ result = "OK" /\ stream = <<>>
        /\ main' = [pending |-> <<>>, state |-> IF main.pending = <<>> THEN "idle" ELSE "error"]
        /\ cancel' = (cancel \/ main.pending # <<>>)
     \/ result \notin {"none", "OK"}
        /\ main' = [pending |-> <<>>, state |-> IF result = "FATAL" THEN "error" ELSE "idle"]
        /\ cancel' = (cancel \/ result = "FATAL")
  /\ UNCHANGED <<body, got, player, result, stream, heard, cut>>

Next == Download \/ Cut \/ Drain \/ SpeakerRefuses \/ Press \/ Ends

Spec == Init /\ [][Next]_audioVars

(* The worker and the main loop run on; the player retries a full stream   *)
(* every ten milliseconds.                                                 *)
Fairness == WF_audioVars(Download) /\ WF_audioVars(Drain) /\ WF_audioVars(Ends)

-----------------------------------------------------------------------------
TypeOK ==
  /\ body \in Bodies
  /\ got.taken <= got.read /\ got.read <= Len(body.bytes)
  /\ result \in {"none", "OK", "FATAL", "RETRY", "CANCELLED"}
  /\ Len(stream) <= StreamCap /\ Len(main.pending) <= 1
  /\ main.state \in {"playing", "idle", "error"} /\ cancel \in BOOLEAN /\ cut \in BOOLEAN

(* Whatever the sizes of blocks, stream and chunks: the speaker gets the   *)
(* samples of the reply in their order, none split and none lost, and what *)
(* waits in the stream comes next.                                         *)
HeardInOrder ==
  LET played == FlattenSeq([i \in DOMAIN heard |-> <<heard[i].first, heard[i].second>>])
      waiting == IF main.state = "playing" THEN main.pending \o stream ELSE <<>>
  IN  IsPrefix(played \o waiting, Bytes(Samples(body)))

(* A download counts as done only for a body that is whole, after every    *)
(* sample of it was handed over; playing ends with all of it heard.        *)
ReadyIsWhole ==
  /\ result = "OK" => body.sound
  /\ result = "OK" /\ main.state = "playing" =>
       2 * Len(heard) + Len(main.pending) + Len(stream) = 2 * Len(Samples(body))
  /\ main.state = "idle" /\ ~cut => Len(heard) = Len(Samples(body))

(* Every reply comes to an end, and a sound one that nothing disturbs is   *)
(* heard to its end, however slowly the speaker takes it.                  *)
ReplyEnds ==
  /\ <>(result # "none" /\ main.state # "playing")
  /\ <>(cut \/ ~body.sound \/ Len(heard) = Len(Samples(body)))

=============================================================================
