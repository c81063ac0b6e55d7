# Zateya: formal model and proofs

Zateya is a voice recorder (M5Stack StickS3, firmware in C under
`src/firmware`) with a gateway (Python, `src/backend`). The owner dictates; the
gateway transcribes, asks a language model, publishes notes in an Obsidian vault
kept in Git, and answers with speech. A private skill of Alice is a second way in.
This directory holds TLA+ models of the parts that carry the program's own logic,
TLC configurations that check them on small instances, and TLAPS proofs.

Run inside this directory: `tlc -workers 2 -config X.cfg M` for a run,
`tlapm M_proofs.tla` for a proof module. `PROJECT.json` lists the components, the
runs with their properties, one mutant per property, the map from definitions to
source lines, findings, hazards and theorems.

## 1. The system and its parts

| part | state it keeps | operations | what makes it correct | modelled in |
| --- | --- | --- | --- | --- |
| recorder application (`main.c`, `state_machine.c`, `voice_feedback_policy.c`) | state, codec, cue, capture ring, gate, flags shared by main loop and turn worker, saved ids | one iteration of the main loop (feedback, state case, tail), worker steps | hears what it records; the gate is held while anything is alive; a live turn is saved; no silent end | DeviceApp |
| turn client (`voice_turn_client.c`, `voice_turn_http.c`) | ids in flash, phase of the client, early download | record, upload, lookup, poll, download, cancel, deadline | a reply is heard at most once and is the right one; results agree with the gateway; it ends | TurnClient, TurnJson |
| upload (`ring_buffer.c`, `http_session.c`, `http_voice_client.c`, `voice_http_chunk.c`, `voice_transport.c`) | ring indices, stream, session, chunk | write, drain, send, finish | a body that ends is the whole recording | UploadBody |
| reply audio (`voice_mp3_player.c`, `wav_parser.c`, `voice_turn_http.c`) | parser position, stream, decoder | download, parse, drain | in order, whole, none lost, ends | ReplyAudio |
| capture (`voice_wake_policy.c`, `voice_vad.c`, pre-roll) | clock, VAD flags, ring | activate, settle, wait, record | the onset is recorded, every stage ends in time | CaptureWindow |
| wake word (`voice_wake_detector.cpp`, `voice_wake_score.c`) | epochs, queue, span of scores | feed, infer, reset, poll | heard whole and since the last reset | WakeDetector |
| detector of speech (`webrtc_vad`) | filters, smallest values, Gaussians, hangover | split, follow, decide, learn | tones in their bands, a recent floor, a model that still tells, no click opens, no pause is missed | SoundBands, NoiseFloor, NoiseModel, SpeechOnset |
| cues on the recorder (`voice_cue_*.c`, `voice_listening_cue.c`) | flash records and generations, bank, leases | preload, fetch, commit, sweep, play | one set at a time, power loss included | RecorderCues |
| OTA (`voice_ota_esp.c`) | boot partition, `attempted`, `rejected`, offer | install, confirm boot, reject | a proven image stays, a rejected one does not come back, updates settle | OtaUpdate |
| settings and portal (`voice_settings.c`, `voice_config_httpd.c`, `voice_config_form.c`) | settings in RAM and NVS; the pages open in browsers | load, save, reset, scan; edit, submit | a reset is final; a password stays with its network; a save changes only what was touched | RecorderSettings, SetupPage |
| web server (`voice_config_httpd.c`, `voice_setup_access.c`, `voice_mdns.c`) | scan flags, scan body, announcement | serve, scan, announce | serves its own networks only; a list that is asked for comes, and is whole JSON | SetupServer, ScanList |
| host build (`main.c` without ESP) | both rings, button, states | one `app_tick`, test hooks | the echo is the recording | HostLoopback |
| setup network's DNS (`voice_captive_dns.c`) | DHCP options, task | start, answer | phones get addresses and answers | CaptivePortal |
| Wi-Fi, clock, gateway health (`board_sticks3.c`, `voice_wifi_profiles.c`, `voice_wifi_setup.c`, `voice_gateway_health.c`, `voice_tls.c`) | flags of four tasks | connect, scan, set up, probe | gets ready, opens the setup network, a scan is not disturbed | Connectivity |
| board: sleep, keys, codec (`board_sticks3.c`, `power_policy.c`, `audio_sticks3.c`) | PMIC, keys, policy; codec, amplifier | power tick; open, close, play | no lost wake-up; comes to sleep; microphone closed while the amplifier is on | PowerSleep, AudioCodec |
| screen (`board_sticks3.c`, `screen_ui.c`, `screen_renderer.c`, `screen_font.c`, `screen_orientation.c`, `board_orientation.c`) | copy of the flags, panel, pose | update, draw, turn | what is shown is true, whole and the right way up | StatusScreen, ScreenText, ScreenOrientation |
| diagnostics (`voice_diagnostics*.c`, `voice_diag_delivery*.c`, gateway's `diagnostics/`) | ring of events, error in NVS, report, rows | log, observe, deliver, store | the journal is true, reports have one number each, an error is told | RecorderDiagnostics |
| voice jobs (`jobs/`) | rows, files, worker queue, reply streams | upload, duplicate, cancel, worker loop, stream, restart | 202 is a promise; at most once; queue, rows and worker agree; turns end | VoiceJobs, TurnService |
| Alice skill (`alice/`) | events, draft, confirmation, jobs, frozen replies, cursor | webhook (route, accept, wait), worker, restart | no job twice, no text lost, none thrown away unasked while webhooks do not overlap, one answer per event | AliceQueue |
| text turns (`text_turns.py`) | context, result, proposal, history of a turn | capture, refresh, context, ask, publish, review, record | an answer is true of the journal, a decision stands in its talk, and for good once proposed | TextTurns |
| knowledge writer (`knowledge/store.py`) | journal of commits, pages, outbox, `writer.lock` | recover, publish, apply | people's edits are never lost, publications are whole | TextTurns |
| Git publisher (`knowledge/git_sync.py`) | vault, HEAD, origin, outbox | verify, commit, fetch and merge, push, unlink | what is published reaches origin, nothing leaves the outbox before | TextTurns |
| agent sessions, dialogue (`agents/sessions.py`, `dialogue.py`) | generations, results, history; the pending question | begin, save, record, reset; ask, resolve, expire | a new talk has nothing of the old; one question waits; the cap on listening holds | AgentSessions |
| cues on the gateway (`cues/`) | PCM and MP3 files, retry counter, active set | ensure, repair, publish, prune | a crash neither loses a good cue nor repeats a paid call without bound | CueCache, CueGenerations |
| pipeline, STT, TTS (`pipeline.py`, `stt/`, `tts/`) | files of a turn, synthesis thread | run, cancel | cancelled work leaves nothing behind | progress and end only, in VoiceJobs |
| authentication and rate limit (`middleware.py`), usage, archive, metrics, wiring | sliding windows, rows, files | check, count, write | – | not modelled, see section 6 |

How they interact. The recorder talks HTTP to `jobs/api.py`: it uploads a body,
polls the turn, opens one stream of the reply, may cancel. `jobs/api.py` and the
one `VoiceJobWorker` share `voice_jobs` (SQLite) and an `asyncio.Queue`; the
worker runs the pipeline as a child task, and the pipeline calls
`TextTurnProcessor.process`. Alice's webhook writes its own SQLite tables; the
Alice worker calls the same `process` with the owner's context, so that turns of
both channels meet at the context's lock. `process` runs the writer and the Git
publisher in threads; both take `writer.lock`, as does the background publisher
every 15 s. People edit the vault without any lock, and origin moves by other
clones. On the recorder the main loop, the turn worker, the OTA task and the cue
task share atomics, two stream buffers and a compare-and-swap gate; the Wi-Fi
manager, the driver's events, the portal's server, the delivery of reports and
the screen share flags without a lock.

What is hard: tasks and threads that interleave at every await and every flag;
power loss and restarts between two durable writes; lost calls and lost answers
followed by retries; cancellations that meet completions; deadlines that end a
turn whose thread goes on; bounded queues and rings at their limit; people who
edit what the program is about to replace. `PROJECT.json` "hazards" has these
at their lines.

## 2. Plan

Written, in this order, the most important behaviour first:

1. `VoiceJobs` with the abstract `TurnService` it implements, and
   `VoiceJobs_proofs`.
2. `DeviceApp`: main loop and worker of the recorder.
3. `TurnClient`, which composes the recorder's client with `TurnService` across
   a network. Since VoiceJobs implements TurnService,
   what TurnClient assumes of the gateway is what the gateway was shown to do.
4. `AliceQueue`.
5. `TextTurns`, which composes turn, writer, publisher, editors and origin.
6. The recorder's services, each a module of its own: `OtaUpdate`,
   `RecorderCues`, `WakeDetector`, `CaptureWindow`, `ReplyAudio`,
   `RecorderSettings`, `AudioCodec`, `PowerSleep`, `Connectivity`,
   `RecorderDiagnostics`, `UploadBody`, `SetupPage`, `StatusScreen`,
   `ScreenOrientation`, `TurnJson`, `CaptivePortal`, `ScreenText`, `HostLoopback`,
   `SetupServer`, `ScanList`, and the
   detector of speech in four parts (`SpeechOnset`, `NoiseFloor`, `NoiseModel`,
   `SoundBands`). `RecorderServices` puts `TurnClient` and the six of them that are
   proved about side by side, for any constants; `MCRecorder` adds the others.
7. `AgentSessions`, `CueGenerations` and `CueCache` of the gateway, which
   `GatewayServices` puts beside two conversations of `AliceQueue`.

Proofs, after the models: `VoiceJobs_proofs`,
`GatewayServices_proofs` (of `AliceQueue`, `AgentSessions` and the cues),
`TextTurns_proofs`, `DeviceApp_proofs`; of the recorder's services the three that
write to flash (`RecorderSettings_proofs`, `RecorderCues_proofs`,
`OtaUpdate_proofs`); and `RecorderServices_proofs`, which proves turn client, codec,
sleep and journal and joins all seven to theorems about the recorder.

Left, in this order: a `RateLimiter` with two clients and one shared route; the
cancelled synthesis thread and the stream marker of `pipeline.py`; the follow-up query history; the
theorems below.

Theorems still worth proving: the safety properties of the recorder's eighteen
other services, first those with several actors (`Connectivity`, `StatusScreen`,
`CaptureWindow`); those of the detectors and parsers compute over data.

Every module keeps its parameters as constants with named assumptions and has
one action per operation. `CaptivePortal`, `SoundBands` and `TurnJson`, parsers and
arithmetic, declare RECURSIVE operators, and `SetupServer` uses Bitwise; these four stay
with TLC. Each of the others can be proved about.

## 3. Modules

A reader may start with the header comment of a module, which says what it is a
model of and what it abstracts; this section adds how state and actions
correspond to the code, the bounds, and the fairness.
### VoiceJobs, TurnService, VoiceJobs_proofs

`VoiceJobs` is the durable job table (`jobs/store.py`), the one worker
(`jobs/worker.py`) and the HTTP handlers (`jobs/api.py`) of the recorder's
turns. One row per request, a request being the pair (device id, request id).

| model | code |
| --- | --- |
| `status`, `sha`, `createdAt`, `claimed` | columns of `voice_jobs` |
| `file` | `input.pcm` in the turn's archive directory |
| `queue`, `active`, `child`, `killed` | `VoiceJobWorker.queue`, `_active`, the child task running the pipeline (`"dead"` once a database error has ended the worker's own task), `task.cancel()` |
| `owners`, `duplicates` | live `upload_turn` handlers with `is_new` true and false |
| `stream` | the body generator `chunks()` of `GET …/audio?stream=1` |
| `acked`, `runs`, `opened` | ghosts: bodies answered 202, child tasks created, responses opened |

A store method is one SQLite transaction and the code between two awaits is one
turn of the event loop, so each is one action. Two places are split because the
process may die inside: `complete_upload` moves the file before it commits
(`CrashInComplete`, `CommitFails`), and a restart separates what is durable from
what is not (`Crash`, `Close`, `Start`). The database may fail, too: a handler that
cannot mark its failed upload, or is cancelled itself (`api.py:197`, `205` catch no
`CancelledError`), leaves the row uploading without an owner until the restart
(`UploadFails`, `CommitFails`), and an error in `mark_running` or in the `finish` of an
except branch ends the worker's loop for good (`WorkerDiesTaking`,
`WorkerDiesFinishing`). What the pipeline does inside a turn is
reduced to its progress reports and its end.

`TurnService` is what a recorder may rely on: a request is bound to one
recording, processed at most once, ends once, is streamed at most once.
`ImplementsTurnService` is the refinement (open: no accepted upload; accepted:
`queued`; working: the four active statuses).

Run `jobs` (`MCVoiceJobs.cfg`). Two requests are the least with which two turns
compete for the worker and the queue; two recordings tell an honest retry from
another body; one queue slot reaches the full queue; two restarts reach the
restart of a row that a restart already rewrote; one repeated upload in flight
per request races every step of the first. The proofs below hold for any number.

Its properties: `AckedAudioIsTheTurn` (a body answered 202 is the one that is
processed, across repetition, crash and restart), `TurnsOnce` (a turn runs at
most once, its reply is streamed at most once), `QueueAndWorker` (an upload has at most one
owner, and none once it is over; while the worker lives its active row is a row in progress, a recovered queue fits) and the
liveness property `ScheduledTurnEnds`.

Fairness (`FairSpec`): the restart (`restart: unless-stopped` in
docker-compose.yml), the worker's loop, and the end of the child task (the
pipeline runs under `asyncio.timeout`). Uploads, cancellations and streams are
the device's and have none. `ScheduledTurnEnds` therefore speaks of turns that
reached the worker's queue: a turn accepted with 202 while cancelled turns still
occupy the `asyncio.Queue` is not enqueued and waits for the next restart
(hazard at `jobs/api.py:193`), which the model does too. A worker that a database error has ended is excluded by
name: only a restart replaces it.

`CHECK_DEADLOCK FALSE`: both rows may be left uploading after the last restart, without
an owner, and nothing happens to them any more.

Left out: the staged copy of a repeated upload, the read-only routes, the body's
read without a timeout (uploads simply have no fairness).

### DeviceApp

The recorder's program between its hardware and the network. `app` is all its
RAM (`app_t` and the statics of `main.c`): a reboot resets the record whole, and
`nvs`, the ids in flash, is what survives. An iteration of `voice_main_loop` is
three actions in the code's order: `FeedbackStep` (head of `app_tick`), one of
the `Tick…` actions (the case of the state), `Tail` (error entry, gate, stages).
The worker task (`Worker`: upload, lookup, poll, download, exit), the OTA task and the
flash writers that take the activity gate (`GateClaim`, `GateReturn`), the finger
and a reboot interleave between any two of them.

Abstractions, and why they are harmless to the properties:

- `finger` is the debounced level of the button: `button_poll` only delays it.
- A wake word is a nondeterministic event of the idle monitor; `wake_pending` is
  folded into it. Odd-length and speaker rejections of a wake are one outcome.
- Rings and streams count chunks, not bytes; capacities of one or two reach
  empty, full and overflow.
- A saved id is known by its kind only (request, or request and turn): which one
  it is belongs to `TurnClient`.
- Repeated events are told apart only for ANSWERING, the only one whose
  repetition matters. Failures of the codec's own calls are left out.

Runs. `device` (button held while recording, 841,776 distinct states) checks
`WorkerIsSound` (one turn at a time, no worker that ends in silence), `RecordingHears`
(a recording has an open microphone and an empty ring), `GateHeld` (no update and
no flash write while a turn lives), `UploadIsWhole` (what the worker sends has no
hole), `EndsAreKept` (a live turn is in flash; a reboot finds it) and, with
fairness of both tasks, `ProcessingEnds`, for turns that neither overflowed nor were
cancelled. The other kind of button (press to start, press to stop) is
covered by the proofs, which are for both kinds. The
exceptions are the two findings: `device_cancel` (the state machine has no
transition from PROCESSING to IDLE, so a cancelled turn never leaves
PROCESSING), `device_overflow` (an overflow on the recording's last tick is
never looked at again). Fairness: FreeRTOS schedules both tasks (`MainLoop` and
`Worker`, weak: each call to the gateway has a timeout); a cue in the speaker ends
(`CueEnds`, cut after eight seconds by `voice_listening_cue_tick`) and a client
that goes on polling meets its deadline (`ClientFails`, `voice_turn_client_tick`).
The last two are strong because the steps between two polls disable and enable
them again while the clock runs on. The ring has
capacity two in the run, so that a capture and a drain overlap; the
streams need one place, since only empty and full differ.

### TurnClient

One recorder and the gateway, for any set of recordings. The gateway is
`TurnService` instantiated (`Gateway`): its steps are the gateway's steps here.
Every call has the outcomes the client tells apart: lost before or after it took
effect, refused, or answered. The recorder may reboot between any two steps and
the ids may fail to be cleared. The gateway's answer as JSON is `TurnJson`, the bytes
of the body `UploadBody`, those of the reply `ReplyAudio`. `starts` counts the downloads that reached the
speaker.

A cancellation the gateway refuses (401, 404, or 429 of its rate limiter) ends the
worker as CANCELLED too, `voice_turn_client.c:315`, while the turn goes on: the
step is `FinishRefused`, which leaves a mark (`refused`) for the properties.
`CancelledIsOver` says that every other CANCELLED is of a turn nobody works on.

Abstractions: retry delays are dropped, a deadline may pass in any waiting
state; JSON, UUIDs, chunk framing and decoders are one outcome each; an
acceptance that arrives after the recorder gave up is over-approximated by
letting the gateway accept any request whose whole body was sent (`sent`).

In the run `recorder`: two recordings show that nothing of the first is taken for the
second; one content suffices, since contents are `VoiceJobs`' business.
Fairness: the worker's loop (`WF(Worker)`: every call returns, TURN_HTTP_TIMEOUT_MS)
and a deadline that passes (`WF(Expire)`). `WorkerEnds` excludes
two things the code allows: a recorder that reboots for ever, and a cancelling
worker without a network, whose loop never looks at the deadline (hazard at
`main.c:404`).

The proof of `HeardOnce` is inductive with `StartsAreClaimed` (a reply that started
on the recorder was claimed at the gateway: `starts[r] <= 1`, and 1 only when
`played[r]`), `Followed` (a client at work holds a real request, and one that
downloads or has a reply pending a real turn) and `OpenStream` (a client in its
streaming state has claimed, and until it starts nothing of that turn was heard);
the gateway's part is one lemma per step of `TurnService`. It holds for every set of requests, with every loss and reboot.

### AliceQueue

The webhook, the durable store and the worker of the skill, for the one owner
`auth.py` admits. Events are numbered in the order they are said; a text is the
sequence of the events whose utterances it joins, which is enough to see a text
lost, doubled or thrown away. Routing (`Action`) reads the draft on the event
loop; `Accept` is the store's transaction later, in a thread: another webhook may
commit in between, and the thread may outlive its webhook (`late`) when the
budget ends. `Deliver` repeats an event. `Restart` requeues the running job.

Runs: `alice_drafts` (three events with every draft command, two overlapping
webhooks, one repeated delivery: `OneJobPerEvent`, `NothingLost`, `OneAnswer`,
`EndInOrder`; the webhooks are symmetric), `gateway` with its conversation
"draft" (four utterances one at a time, with fairness of the worker's `Claim` and
`Complete`: the worker's loop, and the deadline of the processor) and "results"
(answers, paging and status), and the finding `alice_confirm` (a confirmation
outlives the draft it was asked for; five utterances are the shortest dialogue).
One queued job reaches "full", one or two fragments reach the draft's limit, two
pages reach "next" and its end. `JobsEnd` excludes a worker that died of a database
error: nothing restarts it (`alice/worker.py:64`).

Two more disagreements with `docs/alice-skill.md` are hazards without a run: a
repeated "start" that is routed to "resume" gets an error instead of its answer,
and a "finish" that stored nothing is confirmed; the latter step is in the
model. Left out: token verification, the request quota, the wording,
`set_draft_target` (never called), ties of `created_at` in one millisecond.

### TextTurns

A turn's way from accepted text to answer, with writer, publisher, editors,
origin and crashes, for the turns of one context.

| model | code |
| --- | --- |
| `pc` | where `_process` stands; one turn of a context at a time (`_lock_for`) |
| `thread` | `asyncio.to_thread(self.knowledge.publish, …)`, which outlives its turn |
| `context`, `proposal`, `reviews` | `knowledge-context.json`, `knowledge-proposal.json`, table `reviews` |
| `thisTalk`, `result`, `told` | the turn's row in `results`: its generation is the current one; `result_json`; `history_committed` |
| `answer` | the model's answer in the memory of the attempt |
| `journal`, `applying` | table `commits` with its payload; the loop of `_apply` |
| `lock` | `writer.lock` |
| `outbox` | `.sync/*.json` |
| `work`, `head`, `remote`, `git` | the vault, its HEAD, origin, the run of `_sync` |

A page is the set of contributions in it (turns and edits): who writes a page
keeps what he read and adds his own, so a contribution disappears only when
somebody writes over a page he did not read. A publication writes two pages: one
that the model saw and whose hash is compared (an idea or a topic), and one that
is read and extended under the lock (`index.md`, `log.md`); the outbox entry is
the last write. `_apply` is split at each look and each write, since a crash or
an editor may come between; a transaction and a git command are one step each.
`_recover`, which every locked operation runs first, can only mark rows here:
a part of `JournalIsWhole` checks that a row left pending while the gateway is up matches
neither image.

A new talk (`NewTalk`, refused only while the recorder has a turn) makes the rows of
the session store old: `Ask` is `begin`, which returns the saved result only of this
talk and otherwise replaces the row and has the model asked again; `Answer` saves
nothing and `Record` leaves the history alone when a new talk began meanwhile. So a
decision is not final by the saved result alone. `AnswersStand` says that it stands as
long as its talk goes on, that it is final, with the result, once it is in
`knowledge-proposal.json`, that journal, proposal and saved result never differ, also
when the model was asked twice, and that an answered turn is in the history unless its
talk is over, and enters it only in its own talk.

Run `text_turns`: a recorder's turn (lost at a restart) and an Alice turn
(queued again), an edit made in the vault, an edit that comes through origin,
one restart, and new talks; edits and new talks together are bounded by `MaxChanges`,
two here, so a new talk meets an edit of either side, and a second one meets a turn
whose row the first made old and which was asked again. Two turns are needed for a stale context and for two tasks in the
outbox; one edit per side for conflicts, merges and refused merges; one restart
meets every step of a first attempt. An edit may come at any moment, also between
the writer's last look at a page and its replacement; `EditsKept` says that this
window is the only place where one can be lost, which no lock can prevent since
editors take none (hazard at `store.py:175`).

Fairness: the start, threads and a git call run on (each git call has a timeout
of 30 s), the background task calls `run_once` every 15 s, and the network works
again and again (strong fairness of fetch and push). Turns and people have none.
`PushedUnlessBlocked` allows what must wait for a person: a page that differs
for good from the newest publication in the outbox, or a merge that may conflict.

Finding `text_push`: nobody touches the vault, one edit comes through origin. A
push that fails after the merge leaves the task in the outbox and the merged
page on disk; the hash check of every later run takes the merge for a manual
edit, and text turns fail from then on.

Left out: which pages a proposal may name and how Markdown is built, the
evidence tables, the clarification dialogue (`AgentSessions`), wall-clock order of two
publications (`created_ns` is taken to grow), the Hermes path without a vault.

### The recorder's services, and MCRecorder

Twenty-four modules beside the main loop. They share no state in the models, so
`RecorderServices` and `MCRecorder` put them, and `TurnClient`, side by side without
the product of their states: the variable `component` picks one of 25, only its
steps are taken, and the others stay in one initial state. `RecorderServices` holds
the client and the six services with proofs, and leaves their constants open: what
the run checks of them is, word for word, what the theorems of
`RecorderServices_proofs` state. To its steps those of the other eighteen, which
`MCRecorder` instantiates with the bounds in the WITH, are steps that change
nothing. The run `recorder` has one property for each kind of
promise, a conjunction over the components that make it. What a liveness property
promises is conditional on the fairness of its component's module.

Where two services do meet in the code, the meeting is inside one module: the
activity gate and the storage lock between cues and updates (`RecorderCues`), the
settings between main loop, worker and portal (`RecorderSettings`), the portal's
key and the display's key (`PowerSleep`), the scan between portal and manager
(`Connectivity`), the delivery of reports with a recording (`RecorderDiagnostics`),
main loop and worker at the ring and the stream (`UploadBody`).

| component | states | bounds, and why they are enough |
| --- | --- | --- |
| client | 17,100 | two recordings: nothing of the first is taken for the second |
| ota | 9,500 | four releases, the third fails its self-test: a good one after a bad one, in either slot; two faults: a failed write and then a power loss |
| cues | 20,400 | two cues and three generations, of which two fit: commit, sweep and a full disk; two faults |
| wake | 2,600 | a queue of two, a window of three frames, two resets: a reset while a score is computed and one more before it is compared |
| capture | 17,300 | a clock of eight ticks: every deadline meets the wrap; loop rounds up to two ticks late |
| reply | 7,500 | blocks of four, a stream of two: every header and sample is cut at every place; sound, truncated and corrupt bodies of both formats |
| settings | 33,700 | one form, one turn, one fault: a reset meets a save of each other task |
| codec | 100 | three faults: one per access of a call and one in the call that repairs it |
| power | 30,400 | times of one or two rounds, one failed access |
| wifi | 21,600 | two networks and one change of what is in range |
| diagnostics | 15,800 | a ring of two, two attempts, two turns, two faults |
| upload | 25,600 | a ring of four, a stream of three, two recordings, one fault: wrap, overflow, and what is left of the first in the second |
| page | 6,100 | two slots, two networks, one page loaded before and one after an edit, one lost answer |
| screen | 36,600 | two phases of the animation, two events in an update |
| orientation | 8,200 | a clock of six samples, half a second of two |
| json | 12,800 | three levels of nesting; every answer cut at every token, with one unknown member that holds known names |
| portal | 2,200 | labels of up to one byte, packets of up to six; three calls |
| text | 4,800 | four characters of three widths, a place of three by two; a clock that wraps |
| onset | 9,300 | the code's own rate, mode, hangover and onset |
| floor | 1,100 | three values, three entries, an age of four frames in numbers that wrap at seven |
| model | 11,000 | three channels, features at and beyond the limits, sounds of 25 frames, two in a row |
| bands | 400 | tones in every band but one, full-scale waves and a constant; two sounds in a row |
| loopback | 10,800 | rings of three, chunks of two, four sounds in a recording: a chunk that is not full, a wrap, an overflow |
| server | 11,900 | addresses of two bits in three families, two interfaces that come and go; a page and the manager ask at once |
| list | 1,700 | names of up to two bytes, up to two networks, an entry of 20 and a body of 16: escapes, hidden names, a body that is full |

The run takes less than three minutes for 318,499 distinct states in all.

How each corresponds to the code:

- `OtaUpdate`: `ram.pc` is where `ota_task` stands, one action per call that
  writes flash or NVS, with a fault that is a failed write or a loss of power
  after any part of it; the boot loader's rollback is `Boot`. `run` is the slot whose image
  runs; `Pending` says that it is still on probation.
- `RecorderCues`: `disk` is the partition, file by file with its temporary
  names; `bank` the buffers and `readers` their leases; `worker` the fetch task's
  place. Which decoder plays a cue is left out.
- `WakeDetector`: bytes come in halves of a frame; the network's score is any
  high or low one. `epoch` and `detectionEpoch` are the code's counters.
- `CaptureWindow`: `wake` is `voice_wake_t`, `vad` the flags, `preroll` the ring
  of the last frames. A tick of the model stands for several milliseconds; the
  main loop may come `Late`. The pre-roll is long enough only while a round of
  the loop takes at most about 110 ms, which is `PreRollAssumption`.
- `ReplyAudio`: a token per byte that matters; both parsers are the code's
  state machines. The gapless trim and the high-pass filter are left out.
- `RecorderSettings`: `ram` is `voice_settings`, `cfgNvs` its copy in flash, `task`
  where each of the three tasks stands in load-modify-save, `wiped` that a
  reset was answered.
- `AudioCodec`: `Call` takes any of the outcomes of a call, with the accesses that failed.
- `PowerSleep`: `at` is the place in `board_sticks3_power_tick`; every PMIC
  access on the way to sleep is a step of its own.
- `Connectivity`: manager, scan task, driver events and health probe.
- `RecorderDiagnostics`: the ring of events, the error in NVS, the delivery's
  attempts, the gateway's rows. The week's expiry of rows is left out.
- `UploadBody`: indices of `ring_buffer.c` modulo the capacity, the stream, the
  session's and the chunk's place, the socket that takes any part.
- `SetupPage`: the form's fields per slot in every page, `touched` what the user
  edited; `voice_config_form.c` decides. A stale page that is saved wins over
  what another page saved meanwhile in slots that both edited.
- `StatusScreen`: `copy` and `drawn` are the two structures of
  `display_update`, `panel` what is seen.
- `ScreenOrientation`: `pose` is `screen_orientation_t`; the index function is
  checked for every pixel of a small panel.
- `TurnJson`: `Truth` is the reference definition: what a whole, well-formed
  answer says; the readers are the code's searches through tokens.
- `CaptivePortal`: a call of `voice_captive_dns_start` with the outcome of each
  of its calls; `Named` is the reference reading of a packet's names.
- `ScreenText`: `line` and `lines` are the renderer's; the reference is the text
  itself.
- `HostLoopback`: `app` is `app_t` of the host build, whose `app_tick` is another
  one than the recorder's: no gateway, the recording goes into two rings, of
  which one is sent to a null transport and the other is played as the reply. A
  recording longer than `playback_rb` is echoed without its end, and no error is shown.
- `SetupServer`: who is served (`allow_setup_client`), and four tasks at
  `s_scan_running` and `s_scan_ready`: a page, the manager, the scan task and the
  network. An attempt that could not create its task sets `ready` once more,
  although a newer scan may have begun. Addresses are masked bit by bit with the
  module Bitwise.
- `ScanList`: the list as the scan task writes it, a record at a time, into a body of
  bounded size. Capacities are scaled; bytes above 0x7f are letters, and pass
  unchanged as in the code; one symbol stands for all characters with an escape of two bytes.
- `SpeechOnset`, `NoiseFloor`, `NoiseModel`, `SoundBands`: the detector in the
  order from decision to samples. The first takes any answer of the model for a
  loud frame, the second any value, the third any feature and floor, the
  fourth is the arithmetic from samples to features; so each is checked
  against everything that the stage before it may give, and a little more.

Fairness: `OtaUpdate` the steps of its task and of the main loop (weak; strong
where a download or a write may fail and is tried again); `RecorderCues` the end
of a cue, the return of the gate, the fetch task; `ReplyAudio` download, drain and
end (each read has a timeout); `PowerSleep` the main loop and the scan's end;
`Connectivity` its tasks and the driver's events; `RecorderDiagnostics` app,
delivery and post; `UploadBody` both loops, strong for `Finish`, which waits for
the ring to be drained; `StatusScreen` the loop and the clock; `TurnClient` as
above. Faults are bounded by `MaxFaults`, so that what must come comes after
the last of them; people and networks have no fairness.

The finding `ota_marker`: `install_image` calls `esp_ota_set_boot_partition`
before it writes `attempted`, although its comment says that a power loss after
this point must boot with the marker; a loss between the two boots the image
without it, and nothing remembers that it was tried.

The finding `ota_unproven` was met while proving: the first form of
`ProvenReleaseKept`, without a condition, held for three releases but had no
inductive invariant, and with two more TLC found why. When the marker cannot be
written, `install_image` sets the boot slot back and ignores whether that worked.
If it did not, the boot loader's entries are the switched one and the confirmed
one, and the retry a minute later replaces the confirmed one. A bad image that is
aborted twice leaves no usable entry; the boot loader then starts the first slot,
and if the bad image lies there it is not pending, so `voice_ota_confirm_boot`
confirms it without a test (`ConfirmedPassed`), and the next update may erase the
release that did pass. The history variable `unmarked` says that a marker could not
be written; `ProvenReleaseKept` and `RejectedIsFinal` promise what they can before and
after it. What ESP-IDF does with two aborted entries is external to the repository
and modelled as its boot loader's documentation has it.

Seen in the code and left as they are, none of them a property's subject: a
failed start leaks the client's handle (`http_voice_client.c:32`); an accepted
form is overwritten by the next before it is applied (`voice_config_httpd.c:441`);
a delivery may begin between the look at it and the sleep; a failed sleep leaves
the backlight off until the next key (`board_sticks3.c:459`); the counters of a
report may be those of a later recording (`voice_diag_delivery_esp.c:67`); the
comment at `voice_cue_generation.c:136` speaks of cleaning that comes later than it
says; a marker that could not be written leaves a set-back release "new"
(`docs/operations/pull-ota.md:85`); a DHCP server that did not start is not
started again until the next scan; the hint of the wake word replaces that of
network or server (`board_sticks3.c:548`); `status` and `turn_id` are found by
their first occurrence; the ages of `vad_sp.c:58` last longer than its comment;
three short clicks with their hangovers can make the twenty frames of an onset
(`OneClickIsNothing` excludes one); the comments of `vad_filterbank.c:275` name
the two bands above 2000 Hz the wrong way round; waves of full scale wrap in the
filters, and silence after a sound keeps a small limit cycle above `kMinEnergy`;
a loud sound far outside all Gaussians wraps the 16 bits of `delt`.

### AgentSessions, CueGenerations, CueCache, and GatewayServices

`GatewayServices` puts five parts of the gateway side by side, one per behaviour, as
`MCRecorder` does, and takes their bounds from its configuration:
`conversation` is "draft" or "results" (`AliceQueue`), "talk", "sets" or "cue".

`AgentSessions` ("talk"): one context, to which the recorder's turns and Alice's
belong.

| model | code |
| --- | --- |
| `generation`, `results` | tables `generations` and `results` of `agents/sessions.py` |
| `questions` | table `questions` of `dialogue.py` |
| `context`, `proposal`, `receipt` | the turn's files and the writer's receipt |
| `current`, `step`, `answer` | the holder of the context's lock, its place in `_process`, its variables |
| `history`, `listening` | ghosts: whose history an answer was given with; listens in a row |

A turn may fail at any step (the deadline), the process may restart at any step (a
recorder's turn is interrupted, one of Alice is queued again and finds its
files), a question may expire, and a new talk may begin whenever the recorder has no
turn, with a stop between the two stores. Two recorder turns and one of Alice
with a cap of one are the least with which a cap can be passed; two events let a
new talk and a restart meet. `SessionsKept`: what was answered within an old
talk does not enter the history of a new one, one question waits at a time, a
question is told once, and the recorder listens by itself no more often than the cap.
`TalkKept` (section 4) proves it for any numbers of turns and events and any cap.

Two readings of the documents need care. `docs/voice-knowledge.md:35` says an old
task adds nothing to the new history: an Alice turn that waits or is repeated
after a reset is asked again in the new talk, with the new history, and enters
it; the property says that an answer of the old one never does. And
`docs/protocol.md:101` limits the questions in a row: a repeated turn of Alice counts
from the question saved with its context (`dialogue.py:77`), which may have been
answered since, so that the recorder can listen once more than three times;
`listening.skewed` marks these behaviours, which `ListensEnd` excludes.

`CueGenerations` ("sets"): `folders` with their modification times,
`staging`, `pointer` (`active.json`) and `retry` (`retry.json`) are on disk, the rest
is the process. The gateway is killed between any two writes, a write fails
before or after it took effect, a set is damaged, and the owner changes the
profile. Three profiles, two retained sets, two cues, two attempts, two faults
and three changes reach: a set that is bought in two attempts, spent attempts,
pruning, and one set more than are loaded. `CuesKept` has: what is offered is on
disk and whole; no cue is bought more often than there are attempts; a set goes
out of use for another or because it is damaged. `WorkEnds` adds that under fairness
of the task and the clock the configured set comes, unless the attempts are spent. One case is
excluded by name: with one set more than are loaded (killed between the folder
and the pointer, after a return to an old profile) the set in use may be the
oldest, which a restart then does not load until the new one is pointed to.

`CueCache` ("cue"): the two files of a cue, the repair with its write-ahead
digests, the purchase. From any pair of files an older version may have left: a
cue that was verified once verifies ever after and is not bought again.

## 4. What the proofs show, and from what

Assumptions are the modules' named ASSUMEs on constants (`VoiceJobs`:
`Requests` is finite, the bounds are naturals, `NoDigest` and `NoJob` are not values;
`TurnClient`: `NoRequest` is no request, and the requests need not be finite;
`RecorderServices`: those of its six services, all of them that capacities, times and
numbers of faults are naturals, some of them positive, and that a long press is longer
than the debounce;
`AliceQueue`: the bounds are naturals, utterances and outcomes are the skill's;
`AgentSessions`: the numbers of turns and of events are naturals, the cap is positive;
`CueGenerations`, `CueCache`: there is a profile, cues and attempts are positive, at least two
sets are kept, `NoSet` and `NoAudio` are none of the values;
`DeviceApp`: capacities are positive, the button is of one of two kinds;
`TextTurns`: finitely many turns, `Durable` among them, no turn is an edit, the bounds are naturals;
`RecorderSettings` and `RecorderCues`: bounds and sizes are naturals, there is a
cue; `OtaUpdate`: releases are positive numbers and the first one works). Everything else is proved by TLAPS down to its leaves.

`VoiceJobs_proofs`. The safety properties are not inductive as they stand. `IInv`
adds: a row has one owner at most, and one only while the process is up and the row
uploads (`OwnersInv`); a row has a digest exactly when it is past its upload, its
file is then that body, and no other was answered with 202 (`AcceptedInv`); a row
ran at most once, and not before the worker took it (`RunsInv`); the durable mark
counts the opened streams and a complete one is of a ready turn (`StreamInv`);
active rows, child and worker agree unless the worker died, and nothing is active while the process is
down (`WorkerInv`). Each
conjunct has one lemma with a step per action. From `IInv` follow
`AckedAudioIsTheTurn`, `TurnsOnce` (its parts `ProcessedAtMostOnce` and
`StreamedAtMostOnce`), and of `QueueAndWorker` the parts `UploadHasOneOwner` and
`WorkerOwnsActiveRow`; its part `RecoveredQueueFits` needs
finiteness of the queued rows besides, and `FinalStatusIsFinal` is an action
property from the same invariant. `Refinement` maps every step to a step of
`TurnService` or a stutter, so `Spec => ImplementsTurnService` for every number
of requests, bodies, repeated uploads and restarts.

`RecorderServices_proofs`. First the turn client. `HeardOnce` rests on
`StartsAreClaimed` and `OpenStream` (section 3). For `OutcomesAgree` the invariant adds `Asked` (the
ids of the client and those in flash are of one recording) and `HeardSoFar` (what the
client takes for heard was heard): READY is reported only after a status of this
turn said "ready" and its reply had started, CANCELLED after a cancel the gateway took, or after
one it refused (`refused`: the recorder says CANCELLED then too), and only
the last recording's turn can start to play.

Then three services. *Codec*: a call is a chain of accesses each of which may fail, so
a lemma per routine says of every outcome at once what it leaves alone and, for an
outcome without a failed access, what it has done. `CodecInv` adds to
`MicrophoneIsQuiet` and `HearsAgain` that the driver holds its handles exactly while
it calls itself ready; without that a set-up could be skipped and the microphone
stay closed. *Sleep*: `SleepWatched` says that the policy never counts more
rounds than passed without work, and that the pin is armed before the last look at the
cable, so a cable that comes later is latched. `OneMeaning` is about two readers that
debounce the same key, one of them not at all: `DimmerFollows` says that as long as the
portal's hold lasts the brightness key has seen the key down for as long, and
`PressMeans` that a hold which opened the portal is at its release a long press for
the brightness key, bounces included (`LongHold` counts the debounce of the release). It
needs `LongPress > Debounce`. *Journal*: `RingIsTail` says place by place that the ring is
the end of the history; `ErrorOfRecording` that the kept error was told since the last
start; `ReportsNumbered` that no row of the store is numbered above the report on its
way and that the one with its number, if there, is that report, which is what makes a
repeated delivery harmless.

At the end `ServicesInv` joins these with the invariants of the three services that
have proof modules of their own, and each property of `RecorderServices` follows for
`ServicesSpec`: `TypesOK`, `FirmwareKept`, `ActiveSetIsPlayed`, `ResetIsFinal`,
`BoardServes`, `JournalKept`. The proof modules are instantiated under a second name, so a few
lemmas (`OtaIsProved`, `CuesAreProved`, `SettingsAreProved`) say that both names
mean the same formulas.

`GatewayServices_proofs`. First the skill. None of the four invariants is inductive. `JobsInv` says that
a job is of an accepted event of its own, without which `OneJobPerEvent` breaks
at the next acceptance; `WorkerInv` that one job at most is running and whatever
lies behind an unended job is queued, which is what keeps `EndInOrder` when
`recover_running` queues a job again; `HandlerInv` that a webhook waits for a job
of its own event; `AnswerInv` that a stored reply is frozen once and tells the end
of that job; `TextInv` that an accepted text is in exactly one place of the draft,
the jobs and the discarded. For `DiscardIsAnswered`
the hypothesis is that webhooks do not overlap: with two of them it is false.

Then the talk. `TalkKept` proves `SessionsKept` from `TalkInv`: `RowsInv` ties a row's
generation to the generation whose history was read for it, whoever commits it and
when; `OneWaits` says that the new question supersedes every other; `DepthsInv`
bounds a question's depth by the number of turns that have told one, which is
what the depth in the type rests on. The cap needs `ListensInv`: the recorder has
listened less often in a row than the question that waits is deep, by one more while
the run that asked it is not over (`Room`), and not at all while none
waits. A repeated turn must not be told its question twice for that: `TurnsInv` says
that a recorder's turn has one run, so that its question is new when `Record` looks
at it (`Unasked`).

Last the cues. `CuesHold` proves `CuesKept`. For the sets, `KnownInv`: each set the
process knows lies whole on disk, and the one that is being bought is neither known
nor there; `PaidInv`: `Counted`, the attempts that the disk has for this set, bounds
what was paid for each cue, and strictly so for the cues that the running attempt
may still buy (`Buys`), whatever is killed between the counter and the call;
in memory there is the same number unless the set is in use. That no recorder is
left without a set needs `AllAreNewest`: no more folders than are loaded, then all
are loaded. For the cache, `CacheInv`: the repair is at work only while the audio
verifies, the purchase only while it does not. `GatewayHolds` says that the
composition has what its parts promise.

`TextTurns_proofs`. The three actors meet in the pages, so the invariant says who
may change them when: `LockInv` (the lock's holder is the one at work), `EntryInv`
(an entry adds its turn to both pages, one at most is pending), `AbsentInv` (a turn
without an entry is nowhere, a pending one is not in HEAD, in origin or in another entry), `WholeInv`, `ApplyInv`
(how far the entry being applied is, and that a page found equal to its old image
had everything but what came in the window), `StuckInv` (an entry that
nobody applies has a page that neither image explains), `TaskInv` (a task's
files are all there, then in HEAD, then in origin, as the publisher's run goes on),
`DecisionInv` (while the model is asked nothing is proposed, and
nothing is saved that differs from what it answered; from then on result, proposal and journal
agree wherever two of them exist) and `AnswerInv` (a turn that is told its end is told
what the journal has, and is in the history or of an old talk). `JournalIsWhole`, `DoneIsDelivered`, `EditsKept` and
`AnswersStand` follow, and that no step takes anything from origin.

`DeviceApp_proofs`. One loop iteration is three actions and each may call a dozen
functions of `app_t`, so the proof goes function by function: a lemma says which
fields a function may change (`SameAudio`, `SameWorker`, `SameGate`, `SameCodec`,
`SameTurn` are the frames) and a step cites the lemmas of what it calls.
`RecordingHears` alone is not inductive: `CaptureInv` says that the dialogue of a capture
has the recorder for itself and hears once its listening cue is over, so that a
recording begins with the microphone open. `GateInv`: the gate is the
application's from the claim until all is quiet. `TurnInv`: the worker waits for a
result exactly while it works, its ids are in flash as long, and are gone when
its reply plays, unless the flash failed. `UploadInv`: a ring that overflowed
is never emptied, which is what keeps `UploadIsWhole` when the overflow comes on the last
tick. `Kept` (the two action properties of `EndsAreKept`) is proved along with the
steps. Capacities are any positive numbers, both kinds of button are covered.

`RecorderSettings_proofs`. A reset is final though three tasks save whole copies of
the settings. `LockInv`: whoever has the lock is in a save or in the reset, and
all others stand before their first key, so no save is half done while the reset
empties the keys; `ResetInv`: while it does, the keys before its next one are empty,
and from its end to the restart they all are and nobody can take the lock,
because the reset leaves `pending`; `WipedInv`: after the restart RAM is empty too until
the portal is used again. `BoundsInv` says that a value is of a form that was posted.

`RecorderCues_proofs`. `WorkerInv`: the set that the task fetches, stages or cleans is
never the active one before the manifest names it, so nothing it removes or
truncates is in use, at whatever step power goes; `GateInv`: the gate is the
task's at exactly the steps that use flash or the decoder; `LeaseInv` and `CountInv`:
a buffer is leased only while the main loop is busy, and once. `ActiveSetIsPlayed` follows for any
number of cues and generations, any sizes and any number of losses of power.

`OtaUpdate_proofs`. `ConfirmedInv`: the newest confirmed entry of the boot loader names
a slot with a release that passed its test, and it is the running slot unless the
running image is under test; the other slot is therefore free to be erased
whenever an installation runs (`TaskInv`: only after `voice_ota_confirm_boot`).
`TestedInv`: what came before an image under test was aborted. `MarkedInv`, as long as
every marker was written: there is a confirmed entry, and before it is only what was
aborted, is under test, or was just switched to. `RejectedInv`: the task knows what NVS
holds as rejected, and installs only newer ones. `BootKeeps` shows that the invariant survives
a boot at any step, `SetBootKeeps` that a switch leaves the confirmed entry behind the new one.
`FirmwareKept` follows, the safety half of what an update promises.

Only model-checked: the recorder's other eighteen services, and every liveness
property (`ScheduledTurnEnds`, `ProcessingEnds`, `WorkEnds`, `PushedUnlessBlocked`,
`WorkersEnd`, `ServicesSettle`, and the liveness parts of `Reachable` and
`ScreenIsTrue`), since fairness and ENABLED are out of this prover's reach.

## 5. Runs and findings

| run | what it checks |
| --- | --- |
| `jobs` | VoiceJobs: safety, the end of scheduled turns, the refinement of TurnService |
| `device` | DeviceApp: safety; the end of PROCESSING |
| `recorder` | TurnClient and the 24 services: section 3 |
| `alice_drafts` | AliceQueue with overlapping webhooks |
| `gateway` | AliceQueue one webhook at a time, AgentSessions, CueGenerations, CueCache |
| `text_turns` | TextTurns |

Each property of these runs has a mutant: a definition with a plausible bug in
it, named after the definition and marked "mutant" where it stands, with which
TLC finds the property violated.

Findings, each a run that expects a violation:

| run | what |
| --- | --- |
| `device_cancel` | a turn cancelled in PROCESSING never leaves it |
| `device_overflow` | an overflow on the last tick of a recording is never noticed |
| `alice_confirm` | a pending cancellation survives its draft and is confirmed for the next |
| `text_push` | a failed push after a merge blocks the outbox for good |
| `ota_unproven` | an image that never passed its self-test runs as confirmed after a marker could not be written |
| `ota_marker` | a power loss after the boot slot is switched boots the release without its marker |

Hazards without a property have a note in `PROJECT.json` that says why: accepted
turns that miss the worker's queue, a cancelling worker without a network, a lost
202, and a repeated "start".

## 6. Not modelled

`PROJECT.json` gives the reason for each component. About half of the firmware's
lines are not its own logic: the weights of the wake word (`voice_wake_model_data.h`),
font data, the QR encoder, and those parts of the vendored WebRTC library that
nothing calls (resampling by other rates, the vector operations and their
headers). Of the firmware's own: decoders (Opus, MP3 samples), register writes
of drivers, drawing of shapes, HTML and wording. Of the gateway: the HTTP
clients of speech and language providers, retrieval and citations (pure functions of
one value), the rate limit (counters over a clock that no other part reads; a
shared route's window is as large as one client's, `middleware.py:281`, so that one
client can use it up), usage accounting (nothing reads it back into a turn), the
archive (one atomic file per call), the Hermes fallback, the Opus derivative of
cues, metrics and wiring. `playback_occupancy.c` is called by nothing.
