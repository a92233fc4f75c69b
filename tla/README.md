# MagickVoice Sentinel: TLA+ models, checks and proofs

Sentinel records both sides of a call on a Windows desktop, ships the audio to a server
and analyses it there. This directory holds the TLA+ models of the parts of it whose
correctness depends on order, failure or concurrency, the TLC configurations that check
them on small instances, and theorems that TLAPS proves for every instance.

## 1. Inventory

State, operations and interactions of every part; `PROJECT.json` lists the same parts
with their source files, and the hazards at the line where each one bites.

### Desktop

| Part | State | Operations | Correct when |
|---|---|---|---|
| Spool (`sentinel-core/spool.rs`) | SQLite tables `segments`, `calls`, `acks`; survives a crash | begin, push with eviction, take_pending, ack, end, seal | a row is deleted only when the server has it, or the loss is reported |
| Uplink (`sentinel-agent/uplink`) | one connection, and what was started, ended, resumed and sent on it | pump: connect, send, read | everything spooled is uploaded once a connection lasts; a resume never skips what is not stored |
| Capture pipeline (`pipeline.rs`, `encode.rs`) | open call, encoders, pre-roll | step, block, user change, finish_call | every confirmed call has one call.start, consecutive sequence numbers from 0, one call.end |
| Detector (`state.rs`) | six states, timers | feed, block, unblock, session state, user change | a call is opened only after speech on the far channel, survives holds, and is always closed |
| Agent loop, identity gate (`agent.rs`, `identity.rs`) | grace clock, revocation, pending events | tick, sign in, sign out, heartbeat | no capture without an identity verified within the grace window; a sign-out and a revocation take effect; an event is reported or known to be gone |
| Agent auth (`auth/`) | tokens in memory and in the credential store | restore, PKCE sign-in over a loopback redirect, sign-out | sign-out leaves no token; only the answer to this attempt is exchanged |
| Audio capture (`sentinel-capture`, `capture_source.rs`) | VAD window, foreign-audio and tier decisions, buffered samples | per frame | speech is told from noise with hysteresis; samples arrive in order and gaps are marked |
| Supervisor (`supervisor.rs`, `main.rs`) | a slot per session, process handles, event channel | logon, logoff, reap, poll, launch | every session it was told of gets an agent, every agent it started is watched |
| Enrollment (`enroll.rs`, `device.rs`, `spoolkey.rs`, `devicekey/`) | key, certificate, chain, identity, spool key, tokens | decide, exchange, write, clear token | the files on disk belong together whatever stops between two writes |
| Configuration and update (`config_sync.rs`, `update.rs`) | policy and configuration files | open, persist, refresh, decide | a failed fetch or write never loses the last policy |
| Control pipe (`ipc/`, `pipe.rs`) | pipe instances, frame buffers, shared control state | request, handle, update check | a client gets the answer to its own request; a promised check happens |
| Telemetry (`telemetry/`) | bounded channel, batch, drop counter | emit, flush, ship | never blocks, never carries a forbidden attribute, and a stream with a hole says so |

### Server

| Part | State | Operations | Correct when |
|---|---|---|---|
| Ingest session (`gateway/internal/ingest`) | per connection: open calls, contiguous mark, out-of-order set, orphans | one handler per frame, ticker, revocation poll | an ack promises only stored segments; a call is finalized once, under its own user |
| Finalize outbox (`internal/outbox`, migration 0007) | outbox rows with leases | claim, publish, mark | every finalized call is published at least once |
| Gateway API, auth, CA, live floor, rate limiter (`internal/*`) | Postgres rows, tickets, buckets | HTTP handlers | revocation takes effect; a ticket is used once |
| Pipeline (`sentinel_pipeline`) | JetStream deliveries, transcripts, analyses, flags, budgets | consume, transcribe, analyse, judge, review, retain | a redelivery changes nothing a human decided; no delivery is dropped unreported |
| Portal and widget (`web/`) | session tokens, event stream | refresh, reconnect | user interface |

The desktop's agent is one thread: a tick runs capture and then one pump. The gateway runs
one goroutine per connection that owns its session and selects over frames, a one-second
ticker and the revocation poll. The two meet over one WebSocket at a time, but the session
of a connection the client has given up may still work through frames it had received
while the next connection is already served; they share the Postgres rows. `FinishCall`
hands a call to the pipeline through the outbox table.

The service process runs beside the agents: one body thread that enrolls, reaps and
launches, the service control handler that posts to its bounded channel, and a thread per
pipe client. It shares files with the agents (certificate, identity, spool key) and no
memory.

What is hard in it: acks that are lost or late; two sessions over one stream; a crash
between spooling, sending and acking; storage that fails in the middle of a message; a
spool at its cap; a user who changes between a call and its upload; limits (rows per
pass, calls per connection) that interact with all of that; a service that stops between
two writes of an enrollment whose single-use token is spent; a logoff that meets a
relaunch; a sign-out while the previous user's socket is still answering; a headset that
is unplugged in the middle of a tick.

## 2. Modules

| Module | Models | Notes |
|---|---|---|
| `IngestWire` | `protocol.rs`, `wire.go`, the two directions of each connection | identifiers, frames, replies, failure budget |
| `Spool` | `spool.rs` | effects of its methods on its tables |
| `Uplink` | `uplink/`, and what `pipeline.rs` and `agent.rs` ask of it | EXTENDS `Spool` |
| `IngestSession` | `session.go`, `ws.go`, `sink.go` | independent of the client's modules |
| `Ingest` | the composition, its fairness and its properties | EXTENDS `Uplink`, `IngestSession` |
| `AudioLedger` | what the ingest path promises: custody of recorded audio | abstract; `Ingest` implements it |
| `MCIngest` | instances for TLC | |
| `IngestProofs` | theorems about `Ingest` | EXTENDS `Ingest`, `TLAPS` |
| `LedgerProofs` | the refinement of `AudioLedger` by `Ingest` | EXTENDS `IngestProofs` |
| `Detector` | `state.rs` | pure operators on a detector record, no variables |
| `Capture` | `pipeline.rs`, `encode.rs`, `foreign.rs`, `identity.rs`, the tick of `agent.rs` | EXTENDS `Detector` |
| `MCCapture` | instances for TLC | |
| `CaptureProofs` | theorems about `Capture` | EXTENDS `Capture`, `TLAPS` |
| `RecordProofs` | theorems about what `Capture` records | EXTENDS `CaptureProofs` |
| `CallRecord` | `persistence.py`; `UpdateFlag`, `RespondToFlag`, `ConfirmCall` of `queries.go` | the rows of a finalized call and who writes them |
| `Outbox` | `outbox.go`, `nats.go`, migration 0007, the JetStream stream (external) | EXTENDS `CallRecord` |
| `Delivery` | `consumer.py`, `service.py`, `worker.py` | EXTENDS `Outbox`: composition, fairness and properties |
| `FinalizeDuty` | what the hand-over to the pipeline promises: a duty to finalize | abstract; `Delivery` implements it |
| `MCDelivery` | instances for TLC | |
| `DeliveryProofs` | theorems about `Delivery` | EXTENDS `Delivery`, `TLAPS` |
| `Enrollment` | `enroll.rs`, `device.rs`, `spoolkey.rs`, `devicekey/`, `http.rs`, `enroll.go`, migration 0005 | the machine's files and the gateway's token and device rows |
| `Supervisor` | `supervisor.rs`, `backoff.rs`, the event channel of `scm.rs` | operators on slots |
| `Machine` | `main.rs` of the service, `launcher.rs`, `scm.rs`, the start of an agent (`main.rs`, `device.rs`, `instance.rs`) | EXTENDS `Enrollment`, `Supervisor`: composition, fairness and properties |
| `MachineProofs` | theorems about `Machine` | EXTENDS `Machine`, `TLAPS` |
| `SignIn` | `auth/`, the token endpoint of `api.rs`; the identity provider (external) | |
| `AgentSession` | `agent.rs`, `main.rs`, `identity.rs`, `heartbeat.rs` of the agent; device check and revocation of the gateway | EXTENDS `SignIn`: a run of the agent process, tick by tick |
| `SessionProofs` | theorems about `AgentSession` | EXTENDS `AgentSession`, `TLAPS` |
| `Telemetry` | `telemetry/` | emitting threads, channel, exporter |
| `ServicePipe` | `ipc/`, `pipe.rs`, `ipc.rs` of the agent, the handlers in `main.rs` | clients, pipe instances, service body |
| `CaptureSource` | `capture_source.rs`, `resample.rs`, `endpoint_loopback.rs` | packets in, frames out |
| `ConfigStore` | `config_sync.rs`, `machine.rs`, `config.rs` | files, failed writes, power loss |
| `Vad` | `vad.rs` | one step per frame |
| `Decisions` | `tier.rs`, `device.rs`, `update.rs`, `widget/mod.rs`, `pkce.rs`, `loopback.rs`, `transport.rs` | pure operators, each with a definition of what it is for |
| `ClientRules` | the rules defined by recursion: staging path (`update.rs`), percent coding (`pkce.rs`, `loopback.rs`), `der.rs`, `csr.rs` | EXTENDS `Decisions`: each rule and each decision applied to every input of a small set |
| `ClientParts` | the six above side by side | each behaviour explores one of them: they share no state |
| `PartsProofs` | theorems about `ConfigStore`, `ServicePipe`, `Vad`, `Telemetry`, `CaptureSource` and `Decisions` | EXTENDS these, `TLAPS` |
| `MCMachine`, `MCSession`, `MCParts` | instances for TLC | |

`Capture` and `Ingest` meet at the spool: what `Capture` hands to `push_segment` is what
`Uplink.PushSegment` takes, with any first sequence number, and `Uplink.BeginCall` may
replace a call that was never ended, because `Capture` shows that both happen. That numbers
are consecutive, the guard of `Uplink.NextSegment`, is proved of `Capture`
(`NumbersConsecutive`), for calls that are ended or in progress and whose writes succeed.
`Ingest` and `Delivery` meet at `FinishCall`: `Ingest` shows that a call is enqueued once
(`EnqueuedOnce`), and `Delivery` begins with that row.
`Machine` ends where an agent has opened its spool, and `AgentSession` begins there.
`AgentSession` refines what `Capture` calls `standing` and what `Uplink` calls `user`:
whose token was verified, when, and how it goes away.

**The refinements.** `AudioLedger` knows nothing of rows, frames or sessions. A segment is
held by the client, stored by the server, written off with an event, or turned away; it is
let go only when it is stored or written off, and a call is handed over once. `Ingest`
instantiates it with `held <- segs`, `stored <- durable`, `written <- lossEvents`,
`turned <- refused`, `handed <- outbox` (`Ledger`), and `ImplementsLedger` says that every
step of the detailed system is a step of the ledger or leaves it unchanged. It says more
than `NoSilentLoss`: also that nothing enters the gateway's store that was never recorded,
from a stale frame, an orphan buffer or an overlapping session.

`FinalizeDuty` knows nothing of rows, messages or deliveries. A call that has ended is owed a
finalize; only an owed call is worked on; the duty is let go only for a call that is
recorded, reported as undeliverable or lost, and is never taken up again. `Delivery`
instantiates it (`Duty`): a call has ended when its status is no longer `ingesting`; it is
owed while its row is due or waiting, a drainer holds it, or a message or a delivery of it is
open; it is recorded when it is complete with its findings and a transcript; it is reported
when it is on the dead-letter subject, and lost when the last delivery of one of its messages
died with its process. `ImplementsDuty` says more than `NeverStranded`, which a published
message satisfies for ever: it says what must have been achieved when the last row, message
and delivery of a call are gone, and that none of them ever comes back. A drainer that holds
a call counts because it may still publish after another has marked the row.

### State

A *stream* is one channel of one call, and most state is a function from streams to sets
of sequence numbers (`PerStream`). A cumulative mark "through n" is the set `0..n`, and no
mark is `{}`; the maximum of two marks is their union, and "one past the mark" is what
the mark does not contain. So `u32` arithmetic on marks (`resume.rs` `plan`, `advance`,
`GREATEST` in `SetWatermark`) becomes set algebra, and the missing mark, which
`resume.rs` calls the case that would "silently drop the first second", needs no sentinel.

| Variable | Code |
|---|---|
| `segs`, `acks`, `owner`, `endRow`, `sealed` | tables `segments`, `acks`, and `calls.start_json`, `end_json`, `sealed` |
| `produced`, `lossEvents`, `refused` | history: what the encoders handed to `push`, what a `spool_eviction` event has named, what `push` refused |
| `conn`, `known`, `started`, `ended`, `resumed`, `sent`, `awaiting` | the fields of `Uplink`; the last five are cleared by every connect |
| `user`, `cur`, `revoked` | signed-in user, `Pipeline.current_call`, `Agent.revoked` |
| `open`, `peer`, `sessCalls`, `have`, `acked`, `orphans` | one `Session` per connection slot; `have` is `0..through` together with `ahead` |
| `dbUser`, `durable`, `watermark`, `endedAt`, `outbox` | rows of `calls`, `media_segments` (with their objects), `ingest_watermarks`, `calls.ended_at`, `finalize_outbox` |
| `det` | the `Detector`; `age` is the time since `entered_at_ms` and `last_transition_ms`, which are always set together; counters stop at the threshold they are compared with |
| `sup` | `ForeignAudioSuppressor`: session flag, time since the session went inactive |
| `enc`, `ready`, `cur`, `lastSeq` | per channel `next_seq` with the frames of the segment being built, `ChannelPipe.ready`; `current_call`, `last_seq` |
| `signedIn`, `standing` | `IdentityGate`: a user is signed in; device present, not revoked, verified within the grace window |
| `owner`, `spooled`, `ended`, `endSeq` of `Capture` | what the pipeline has handed to the spool: `call.start`, segments, `call.end` with its `last_seq` |
| `status`, `transcript`, `analysed`, `ptp`, `flags` | rows of `calls`, `transcripts`, `analyses`, `ptps`, `flags`; of a flag, its status and whether a reviewer signed it or the agent answered it |
| `row`, `held`, `sending` | `call_finalize_outbox`: no row, due, claimed and backing off, published; per drainer the claimed entries not yet published, and the one published and not yet marked |
| `stream`, `dlq` | JetStream: every stored message with its delivery count and state (waiting, out, acked, given up on); what was published on the dead-letter subject |
| `tasks` | the `_process` coroutines of every consumer process, each at the next transaction or answer of its finalize |
| `handled`, `ruled`, `done`, `unreported`, `crossed`, `overlapped`, `acts`, `faults` | history: flags a human has written to, calls whose findings were saved, calls carried to complete, messages whose last delivery died, open saves that met another save of the call, calls whose last save did (cleared by the next save that met none); human writes and failures so far |
| `key`, `cert`, `chain`, `ident`, `spoolKey`, `dbKey`, `regTok`, `newTok` | CNG key, `device.crt`, `ca-chain.crt`, `identity.json`, `spool.key`, the key the database was created with, registry token, renewal token file; a file is the number of the exchange it came from |
| `usable`, `registered` and the other gateway variables of `Enrollment` | `enrollment_tokens`, `devices` |
| `slots`, `queue`, `proc` | `Supervisor.slots`, the channel of `scm.rs`, per session the processes and what the service holds a handle to |
| `missed` | history: logons the running service was never told of |
| `auth`, `fresh`, `stored`, `live`, `holder` | `Credentials` in memory and whether their hour runs, the credential store, the provider's valid refresh tokens and whose they are |
| `pc`, `signed`, `revoked`, `pipe`, `pending` | where the tick is, the gate, `Agent.revoked`, `Agent.pipeline`, `pending_events` |
| `proof`, `left`, `undone`, `got`, `gone` | history: ticks since a token of each user was accepted, a sign-out since the last browser sign-in, one whose deletion failed, events recorded and events known to be dropped |
| `failed`, `heard`, `since` | history: failures so far; call speech and finished segments since the detector armed |

### What one action stands for

* A tick of the agent is one action of `Capture`: gate, then one `step` of the pipeline,
  then pump and heartbeat, of which only the verification they may bring is kept
  (`Report`). A step that fails skips them. Time is counted in steps: `step` is the only
  thing that advances the pipeline's clock, by one 20 ms frame. What voice activity
  detection says of a frame is any Boolean, also for a channel that was not read.
* `step` is one action per kind of transition (`StepOn`, `StepRestart`, `StepStart`,
  `StepEnd`), each with what `apply_transition`, `drain_encoders` and `bound_preroll` do
  after it; every write that may fail in the middle is an action of its own.
* `OnSessionState`, `OnSignedIn` and `SignOut` drop the transition the detector answers
  with, as `agent.rs` does.
* A handler of the session is one action; its error paths (`CallStartFailed`,
  `MediaFailed`, `CallEndFailed`) and early returns are actions of their own. A binary
  message is handed to `OnMedia` record by record, so `Media` takes one record off the
  message and ticks can fall in between, which is a superset of the real interleavings; a
  failing `PutSegment` drops the rest of the message, as `dispatch` does.
* `emitDueAcks` decides by timers and counters which streams are due, and a failed
  `SetWatermark` leaves a stream out: every handler acks *any* subset of the streams with
  something new to promise.
* `Tick` runs three independent timers; each is an action.
* One iteration of `send_pending` for one call is one action, `SendCall`. The batches of
  ten records of a pass are one message: what breaks them apart, a failure in the
  middle, is `MediaFailed` or `DropConnection`.
* `CrashRestart` keeps the spool's tables and rebuilds the uplink from `pending_calls`.
* A slot of `Conns` is reused once its session has ended; `SessionLost` may come long
  after the client has dropped the connection, which is how two sessions overlap.
* In `Delivery`, each transaction of a finalize is an action, so a delivery may be killed
  (`ProcessDies`) or fail (`Raises`) before each of them, and the deliveries of one call
  interleave between them. `save_findings` is two: transactions run at READ COMMITTED, so
  its delete sees the flags committed when it starts (`Review`), and the effect appears
  at the commit (`CommitFindings`).
* `ProcessDies` also stands for an exception that leaves `_process`: the publish on the
  dead-letter subject is outside every handler, so its failure ends `gather` and the loop.
* Time is abstract in `Outbox` and `Delivery`: a backoff ends, the broker's duplicate
  window passes and AckWait runs out at any moment.
* In `Machine` every write of an enrollment is an action, and so is every stage of the
  request; the service may stop between any two (`ServiceStops`). The body's loop has its
  own control state: `recv` is the 200 ms wait after a launch, `wait` the idle one; a pass
  in which nothing is due between two six-hour checks is `rested`. Time is one tick of the
  supervisor. An agent reads the identity record and the certificate in two actions
  (`LoadIdentity`, `LoadCredential`), so an exchange may replace the files in between.
* In `AgentSession` a tick is several actions, in the order of the code: gate and capture,
  pump, heartbeat, widget. A failing read ends it early. Time advances once per tick and
  stands still while the browser sign-in blocks the thread. An answer without a refresh
  token leaves the stored one, as `adopt` does, whoever it belonged to.
* In `ClientParts` the initial state chooses a part, and the others stay at rest.
* Which channels are transcribed, whether the budget allows an analysis, what the model
  extracts and what the rules and the judge find are any of the possible outcomes.

### Left out, and why

* In `Machine`: the daily restart counter and the pipe (in `ServicePipe`), and the
  configuration (in `ConfigStore`). In `AgentSession`: sealing and acks (in `Ingest`), what
  the widget shows, the fields of a heartbeat.
* In `Decisions` and `ClientRules`: the SHA-256 of PKCE, the ECDSA signature itself, PEM line breaks.
  Percent coding is modelled on ASCII text: `percent_decode` slices the `str` at
  `pkce.rs` 290, which panics when the slice ends inside a multi-byte character, and converts
  lossily at 314. The rule `query` decodes raw text of a redirect, the rule
  `percent` what the encoder produced. In `CaptureSource`: filter coefficients; a sample is
  its position.
* `replay.rs` (tests), `webview2.rs` (a window), crash dumps, the widget's position file,
  how the configuration URL is found.
* The foreign flag of a segment: `pipeline.rs` 252 marks it after `push_samples` may have
  emitted the segment, so the flag can land on the next one. `VadAssumption` requires
  durations of at least one step, which the server's policy is not checked for.

* The device identity check and a missing users row in `EnsureCall`: one device, and users
  the gateway has authenticated.
* Frames that do not decode: both ends are this repository's encoders.
* `OnHeartbeat` and `send_socket_heartbeat`: no production caller sends the frame.
* An object and its row are one write: `PutSegment` stores the object first, and only a
  row makes a segment known, so a failure in between looks like a failed write.
* A `call.start` for a call the same session has already opened (whose marks are then
  overwritten by the stored ones, as in the code), and orphans that are still buffered when
  their `call.start` comes: the FIFO client sends neither, so the parts of `CallStart` that
  handle them are exercised by no run. The theorems cover them.
* A call that an earlier dropped transition left open may reuse sequence numbers once the
  encoders restart; `Ingest` takes consecutive numbers only.
* In `Capture`: tier A, where nothing is foreign; the reasons of a block and of an end; the
  foreign and silence flags and the timestamps of a segment; Opus errors; client events.
  `DetectorInput::Tick` and `on_device_lost` have no production caller. Neither have
  `Agent::on_session_state` and `IdentityGate::set_pinned_device_present` at this commit
  (only tests call them): the model takes the calls their comments describe as made.
* In `SignIn` and `AgentSession`, likewise: `sign_in_interactive` (`auth/mod.rs` 184) and
  `refresh_now` (218) have no production caller, and `main.rs` 256 builds a
  `HeadlessWidget`. In this commit's binary nobody signs out at the widget and no second
  user signs in; a session is only restored from the stored token. The models are of the
  library code, called the way its comments and `WidgetShell` describe, and
  `SignedOutStays`, `SignOutHonoured` and `grace_inherited` speak of that.
* `standing` may come back after a revocation, which the gate does not allow; the model
  has more behaviours than the code there.
* In `Outbox` and `Delivery`: the attempt number and the last error of an outbox row, kept
  for operators; the stream's seven-day age limit; the order in which due rows are claimed;
  request validation and the correction window of the review handlers. A payload that does
  not decode takes the path of an unprocessable one, which the `Strays` exercise; a real call
  takes it when its lookup raises `ValueError` (`service.py` 265), one of the failures. A rule
  yields at most one finding per run, as the engine gives it.
* Revocation is a close with 4403; a device that is reinstated may connect again after a
  restart of the agent.

## 3. Runs

The runs named `ingest_` are instances of `MCIngest`, `capture_safety` of `MCCapture` and
`delivery_safety` of `MCDelivery`, `machine_` of `MCMachine`, `session` of `MCSession` and
`client_parts` of `MCParts`.

| Run | Instance | Checks |
|---|---|---|
| `ingest_safety` | one call of two segments, one user, two connections, any two failures of eight kinds | `TypeOK`, `NoSilentLoss`, `PromisedIsDurable`, `EnqueuedOnce`, `PromisesKept`, `ImplementsLedger` |
| `ingest_two_calls` | two calls of one segment, two users, one connection that admits one call, one failure | `AttributedToToken` |
| `ingest_liveness` | one call of two segments, two connections, one failure of seven kinds, fairness | `EventuallyStored`, `EventuallyFinalized` |
| `capture_safety` | two calls, two users, segments of three frames, one failure of four kinds | `NumbersConsecutive`, `OneTransitionPerStep`, `ConfirmedBySpeech`, `OpeningWordsKept`, `InCallIsRecorded`, `LastSeqIsHighest`, `HoldKeepsOneCall` |
| `delivery_safety` | one call, one replica, one process with two messages in flight, two stored copies or a stray message, two deliveries of each, one failure, one human act, fairness | `ImplementsDuty`, `NeverStranded`, `AckedIsRecorded`, `DeadLetteredUnlessKilled`, `ReplacedUnlessHandled`, `HumanDecisionsKept`, `FinalizedIsSettled` |
| `machine_safety` | one session, two tokens, two certificates, two requests, two failures | `IdentityHasCredential`, `AgentKeyMatches`, `LockedOutOnlyByLostAnswer`, `RunningIsWatched` |
| `machine_liveness` | two sessions, a channel of one event, one token, one failure, fairness | `SessionServed`, `TokenUsed` |
| `session` | two users, bounded tokens, events and failures, a grace window of two ticks, fairness | `CaptureVerified`, `SignedOutStays`, `EventsAccounted`, `SignOutHonoured`, `RevocationBites` |
| `client_parts` | each of the six parts on a small instance | `HolesAreSaid`, `RequestsHonoured`, `SamplesInOrder`, `ConfigKept`, `VoicedIsSpeech`, `RulesRight` |

Why the bounds are enough: two segments make a gap, an out-of-order arrival and a mark
strictly between nothing and everything; two connections make overlapping sessions; two
failures make a failure during the recovery from another; two users make a spooled call
whose owner is not the signed-in user. `MaxCallsPerConn` (64 in the code) and `PassLimit`
(40) are scaled to the size of the instance so that they bind. The two channels of a call
differ only in the order in which a pass reads them, so one channel is instantiated; the
theorems hold for any number. `ingest_safety` switches deadlock checking off because a
revoked device stops; the other runs check it.

In `capture_safety` the thresholds are 1 to 4 steps, kept in an order in which each of
them decides something: an arm outlasts a segment, so that there is a pre-roll to keep; the
wrap outlasts the debounce; two calls make a call that follows one left open. `MaxSeq`
bounds the numbers a channel uses between two restarts, `MaxSkew` how far one channel may
be read ahead of the other, and `FailKinds` with `Fail` the failures, one in a behaviour.
`MaxSeq` stops reading, so a behaviour may end where the code would go on, and the run
reaches what can happen within two segments of an arm.

In `delivery_safety` two stored copies of the message make two deliveries of one call that
run at the same time, and two deliveries of each make a redelivery and a last one. Two
rules would not meet, since a flag is found by its own rule and tier. `Decisions` holds
only the empty status, so a reviewer signs or notes: a status other than open protects a
flag in the same way, and the theorem covers every status. Deadlock checking is off: the
instance has a finite set of calls, and stops once all are settled.

In `machine_safety` two certificates make a renewal, two tokens a spent one beside a usable
one, and two requests a late answer beside a new exchange; `HealthyRun` outlasts the
backoff, so that a reset differs from a wait. In `machine_liveness` two sessions compete for
a poll that always names the first, and the channel holds one event, so the second is
dropped. In `session` the grace window is longer than a tick and shorter than a behaviour;
two users make an inherited verification possible. In `client_parts` the queue, the batch,
the pipe instances and the frame sizes are two or three, so that each of them is exceeded;
packets and frames have sizes that do not divide each other; the sets of `ClientRules` hold
the boundaries of each rule (127 and 128, 255 and 256, 65535 and 65536, a first byte with
its top bit set, an escape at the end). Deadlock checking is off there because a rule is
applied once, and each history is bounded.

Symmetry is declared over users and connections (or calls) in the safety runs, never where
liveness is checked.

**Fairness.** `FairSpec` assumes weak fairness of what the code does unasked: the agent's
loop pumps on every tick, so it sends, reads, times out waiting for a resume, notices a
dead connection and, since its backoff is bounded, dials again; the gateway's select loop
serves frames and its ticker, and its read fails once the client is gone. Nothing is
assumed of the user, and no failure is ever obliged or forbidden beyond the budget. The
idle close is enabled only when the client has nothing to send, read or wait for: its
timeout (120 s) is longer than every timer of the client.

`FairSpec` of `Delivery` assumes that a drainer keeps claiming, publishing and marking (its
loop never exits while the replica runs, and compose restarts a stopped one), that a
consumer process keeps pulling and working through its batch (the provider clients of this
repository set a timeout of 120 s, except Google's, which is taken to return), and that backoffs and AckWait, which are timers, end. Nothing is assumed of
people, and `FinalizedIsSettled` excuses what no fairness can give: a last delivery that
died with its process.

`LiveSpec` of `Machine` assumes that the service is started again when it stopped
(`recovery.rs` configures the restart actions), that its loop goes on and its timers run
out, and that the gateway or the HTTP timeout answers a request. Logons, logoffs, tokens,
agent crashes and failures come or not. `SessionServed` excuses logons the service was never
told of: it listens only while it runs, and nothing enumerates the sessions at its start.

`FairSpec` of `AgentSession` assumes that the agent's thread takes its next step and that
the gateway's revocation poll runs. A start of the process is not assumed, so the liveness
properties are about one run of it or about its death.

### Disagreements between the code and what is written about it

Each of these runs checks one statement of the repository and TLC refutes it.

* `finalize_early` (`FinalizedComplete`): `wire.md` 3.2 says the server holds finalization
  until every sequence up to `last_seq` has arrived. `FinishCall` never reads `last_seq`,
  and the client sends `call.end` after the first pass of a longer backlog. No failure is
  needed.
* `spool_unreadable` (`SpoolStaysReadable`): `spoolkey.rs` 107-111 says the spool key is made at
  enrollment and nowhere else, because a new key makes the spool on disk unreadable.
  `enroll` stores a new one after every exchange, renewals included. No failure is needed;
  from then on every agent ends with `WrongKey` and is relaunched for ever.
* `grace_inherited` (`GraceNotInherited`): `identity.rs` 103 says the next user's grace window
  must not be inherited from the last one's. An ack on the socket that was opened with the
  previous user's token, which sign-out leaves open, verifies the next user.

Met while modelling, and visible in the models without a run of their own:

* A transient `EnsureCall` failure ends, through the orphan expiry, in a fatal error; the
  client seals a call that is still being recorded, and `push` then refuses every later
  segment without an event. `AudioLedger` calls these segments turned away, and
  `NoSilentLoss` speaks of those the spool took.
* When the ack of a full pass of rows is lost, those rows stay in the spool, the `LIMIT` of
  `take_pending` returns nothing else, and `should_send` skips all of them. And nothing
  removes a drained call from `known_calls`, so every connection opens every call again until
  the gateway's limit closes it. `EventuallyStored` is therefore checked with limits above
  the backlog.
* When the session becomes active after the debounce, the detector arms inside
  `on_session_state`, nobody applies that transition, and the call's numbers do not start
  at 0. `tick`, `sign_out` and `on_signed_in` drop the `CallEnded` that a block or a user
  change returns: the call stays open without a `call.end` and takes idle audio after the
  unblock. `OpeningWordsKept` excludes a call that follows one left open.
* A redelivered finalize that cannot transcribe anything marks a complete call failed.
  When two deliveries save findings at one time, neither delete sees the flags the other
  has not committed and both sets stay: `ReplacedUnlessHandled` allows this only until a
  delivery of the call saves alone. Within one failure no delivery follows such a pair, so
  the run shows the first half and the theorem `FindingsReplaced` the second.
* Enrollment: a renewal replaces the registered certificate, so a lost answer leaves a
  machine whose certificate is refused for good, where `enroll.rs` 364-366 says the previous
  one is still valid (`LockedOutOnlyByLostAnswer` names this as the only way). A spent
  renewal file shadows a usable registry token. A stop between the identity record and the
  spool key leaves the machine without a spool key.
* Service: sessions present at the start of the service are never told to it
  (`supervisor.rs` 63 assumes they are). A duplicate agent exits with 0 and is counted as a
  crash.
* Agent: a transient database error in `attachDevice` answers 403, which the agent takes for
  a revocation until it is restarted; so is a reinstatement noticed only after a restart. A
  failed read silences pump, heartbeat and widget until the grace window has run out, and
  the stream is not reopened. `device_certificate_missing` cannot be delivered: sending it
  needs the certificate. A failed `CredDeleteW` is taken for success, so the user is signed
  in again at the next start (`SignedOutStays` excludes it). A connection that sends nothing
  to the loopback port ends the sign-in, where the comment of `wait_for_callback` speaks of
  favicon requests only.
* Telemetry: `stop` drops its own sender while the layer keeps a clone, so the final flush
  never happens; a partial batch may wait 30 s per record; a failed batch is not counted.
* Pipe: when all instances are busy `serve` returns for good, where `ipc.rs` 92-96 expects a
  client to queue; a frame within three bytes of the limit that arrives in parts is
  dropped; `REQUEST_TIMEOUT` is not used. The agent sends only `GetConfig`, so the service
  never learns of a call.
* `ConfigStore::refresh` has no production caller: the policy is never synced. Files are
  not synced to disk; `ConfigKept` excludes a file a power loss has spoiled.
* Capture: `take_discontinuity` is overridden nowhere, so a gap is filled and never flagged;
  one frame of silence stands for all gaps of a batch; the last partial buffer of a lost
  device is dropped, and so is what a read has taken when `ReleaseBuffer` fails. The tier reported by the service differs from the agent's on Server
  Core, other architectures and old versions (`TierRight` excludes these).
* Uplink and sign-in: `validate_url` cuts the host at the first `:`, so `[::1]`
  (`transport.rs` 103) never matches and `ws://[::1]` is refused; `host_port` takes any
  authority with a colon for one with a port. `percent_decode` takes `+A` for a hex number.

## 4. Theorems

`IngestProofs` proves, for any sets of calls, channels, users and connections and any
bounds, from the assumptions the modules name (`WireAssumption`, `SessionAssumption`,
`UplinkAssumption`: bounds are numbers, the null values are not identifiers):

| Theorem | Property |
|---|---|
| `TypeCorrect` | `TypeOK` |
| `PromisesBacked` | `PromisedIsDurable` |
| `NothingLostSilently` | `NoSilentLoss` |
| `HandedOverOnce` | `EnqueuedOnce` |
| `PromisesNeverShrink` | `PromisesKept` |
| `Attributed` | `AttributedToToken` |

*Along which argument.* `TypeOK` is inductive. `PromisedIsDurable` is the invariant that
carries the rest: an ack deletes rows, so to know that nothing is lost one must know that
every mark the client may ever read is stored, wherever it is now. That is why it names
the sessions, the watermark rows, the replies in flight (also on connections the client
has dropped), the ack table and the resume points; with `TypeOK` it is inductive, since
`durable` only grows, `Prefix` takes a subset of what a session has stored, and the client
copies marks without enlarging them. `NoSilentLoss` follows from it step by step: the one
action that deletes rows without an event is `RecvAck`, and what it deletes is durable.
`PromisesKept` needs `TypeOK` only for the functions to be functions. `AttributedToToken`
is not inductive: it is strengthened to `AttributionInv`, which adds that only calls with
a stored `call.start` are known, recorded, spooled or on their way, and that every
`call.start` in flight carries the user stamped in the spool.

`CaptureProofs` proves, for any sets of calls and users, any segment length, pre-roll and
trailing grace, and every VAD policy whose durations are at least one step
(`VadAssumption`, `CaptureAssumption`):

| Theorem | Property |
|---|---|
| `CaptureTypeCorrect` | `TypeOK` |
| `NoTransitionLost` | `OneTransitionPerStep` |
| `SpeechConfirms` | `ConfirmedBySpeech` |
| `InProgressIsRecorded` | `InCallIsRecorded` |
| `HoldNeverSplits` | `HoldKeepsOneCall` |

*Along which argument.* One lemma, `EvaluateDoes`, says of a single evaluation where an
arm, a call, a wrap and a hang-up come from, and that a detector that has just moved is
*quiet*; a quiet detector does not move again without the passing of time, which is
`NoTransitionLost`. `StepSees` composes the unblock and the two evaluations of a step. The
properties are not inductive: `CaptureInv` adds that detector and suppressor agree on the
session, that an arm at rest is still short of its speech (else a session change would
start a call nobody opens a record for) and history heard no less than the detector, and
that a wrap is no older than the session's inactivity, which gives `HoldNeverSplits`.
`NumbersUsed` is there for `last_seq`: the highest number of a batch exists because the
batch is below the encoder's next number.

`DeliveryProofs` proves, for any sets of calls, rules, replicas and processes, any batch, any
number of deliveries and any bounds (`RecordAssumption`, `OutboxAssumption`,
`DeliveryAssumption`):

| Theorem | Property |
|---|---|
| `DeliveryInductive` | `DeliveryInv` |
| `DeliveryTypes` | `DeliveryTypeOK` |
| `NoCallStranded` | `NeverStranded` |
| `AckedRecorded` | `AckedIsRecorded` |
| `DroppedAccounted` | `DeadLetteredUnlessKilled` |
| `FindingsReplaced` | `ReplacedUnlessHandled` |
| `DecisionsSurvive` | `HumanDecisionsKept` |
| `DeliveryIsDuty` | `ImplementsDuty` |

*Along which argument.* `DeliveryInv` is the invariant, and each part is there for one
property. `NeverStranded` needs `RowsOwed`: a row is marked published only by a drainer
whose message is stored, which must be known from the publish until the mark.
`AckedIsRecorded` needs `TaskProgress`, what a delivery has made durable by the time it
reaches each step; it survives other deliveries because transcripts, `ruled`, `done` and
`dlq` only grow. `DeadLetteredUnlessKilled` needs `DeliveriesCounted`: a message whose
deliveries are used up has a last delivery that is running, was settled or died, from the
fetch on and not only once the broker gives up. `ReplacedUnlessHandled` needs `SavingAlone`,
which says of an open transaction that met no other that whatever it will leave behind is its
own finding or was written by a human, and `DecidedIsHandled`, that only people write the columns the
delete looks at. `HumanDecisionsKept` follows from the guards of `Reconciled` and
`Extracted`, which look at the row again when they are applied.

`DeliveryIsDuty` is the second refinement of section 2. `FinishCall` is `End`, the step that
makes a call's record complete is `Record`, a dead letter is `Report`, and every other step is
`Discharge`, mostly of nothing (`DutyStep`). Two facts carry it. `DischargedIsSettled`: in every
state of `DeliveryInv` a call that has ended and is not owed is recorded, reported or lost,
since its row is published, so it has a message, and that message is acknowledged or given up
on with no delivery of it running. And outside `FinishCall` being owed is never regained
(`BusyWas`, `OutboxBusy`): a row becomes due again only from waiting, a message appears only
for a call a drainer holds, a delivery only of a message that is open. `RowsEnded`, that a row
is written by the commit that ends its call, is added to the invariant for `Record` and
`Report`: a call that is being delivered has ended.

`LedgerProofs` proves `IngestIsLedger`: `Spec => ImplementsLedger`, the first refinement of
section 2, for every value of the constants.

*Along which argument.* Initial states map to initial states, and `LedgerStep` maps every
action: a push is `Take` with the evicted rows as what is written off, a refused push is
`TurnAway`, a media record, a drained orphan or an expired one is `Store`, an ack is
`Release`, `FinishCall` is `HandOver`, and the rest stutters. `Release` is allowed because of
`PromisedIsDurable`, `HandOver` because of `EnqueuedOnce`. `Store` is not: nothing proved
before says that what a frame carries was ever recorded. That is `CustodyInv`: every segment
in a frame under way or in an orphan buffer is in the spool, stored or written off, and those
three and the refused ones were produced. It is inductive with `TypeOK` and
`PromisedIsDurable`, since no step takes a segment out of all three.

`RecordProofs` proves of `Capture`, beyond `CaptureProofs`:

| Theorem | Property |
|---|---|
| `LastSeqNamesHighest` | `LastSeqIsHighest` |
| `OpeningIsKept` | `OpeningWordsKept` |
| `NumbersHaveNoGap` | `NumbersConsecutive` |

*Along which argument.* `RecordInv` says who has a record (`OwnInv`) and that, while a call is
recorded, all its spooled numbers are below those that are ready, and both below the
encoder's next: so the last batch carries the highest number. `OpeningWordsKept` needs
`ArmInv`, an argument about time: each segment finished since the arm lies within the arm's
clock, but for one step (`Slip`) of a tick whose read failed after the other channel was
read. An arm is shorter than `ArmedTimeout`, so no more than `PrerollMax` segments fit, and
`bound_preroll` has nothing to drop. This is where `PrerollAssumption`
(`ArmedTimeout < PrerollMax * SegLen`) comes in: the code's comment makes the same argument
with its numbers, an arm of 20 s and 60 segments of one second. With a shorter pre-roll
`OpeningWordsKept` is false.

`NumbersConsecutive` needs `GapInv`: whatever is ready, and while a call is recorded whatever is
spooled and ready together, *reaches* the encoder's next number without a hole (`Reaches`).
Reading and flushing extend it by the number just used (`ReadReaches`), and `bound_preroll`
keeps it because it drops the oldest (`BoundedReaches`), so it needs no bound on the pre-roll.
With the order of `RecordInv` a hole in the spool could only be filled by something still
ready, which is above all that is spooled.

`MachineProofs` proves of `Machine`, for any sessions, tokens and bounds
(`EnrollmentAssumption`, `SupervisorAssumption`; `PowersAssumption` is a fact of arithmetic,
that a power of two is a number, which the provers do not know and TLC evaluates):

| Theorem | Property |
|---|---|
| `MachineTypeCorrect` | `TypeOK` |
| `IdentityComplete` | `IdentityHasCredential` |
| `AgentsSignWithTheirKey` | `AgentKeyMatches` |
| `LockedOutOnlyByLoss` | `LockedOutOnlyByLostAnswer` |
| `SupervisorWatches` | `RunningIsWatched` |

*Along which argument.* `EnrollInv` has three parts besides the types. `OneKey`: every
certificate was issued for the one key the machine ever makes. `FilesInOrder`: which of the
files the exchange in progress has already replaced, at each of its steps; without it a stop
between two writes could leave an identity ahead of its certificate. `RowInStep`: the gateway's
row is one exchange ahead only while the answer is being written. `AgentKeyMatches` follows from
`OneKey` and `AgentsLoaded`. `RunningIsWatched` speaks of a running service and is not
inductive; `Watched` also holds while it is down, with `DownIsEmpty`.

`SessionProofs` proves of `AgentSession`, for any users and any grace window of at least one
tick (`SignInAssumption`, `AgentSessionAssumption`):

| Theorem | Property |
|---|---|
| `SessionTypeCorrect` | `TypeOK` |
| `SignOutLasts` | `SignedOutStays` |
| `CaptureIsVerified` | `CaptureVerified` |
| `EventsAllAccounted` | `EventsAccounted` |

*Along which argument.* `SignedOutStays` needs that the stored refresh token is gone too
(`SignInInv`), or a restart would restore it. `CaptureVerified` needs `GateInv`, that the age
the gate believes in is never less than that of some user's real acceptance: it is about
*some* user because the code allows no more (`grace_inherited`). `EventInv` adds the types
under which counting events is possible.

`PartsProofs` proves of parts that share no state. `ClientParts` runs them side by side; the
theorems are about each part's own specification, because `ClientParts` also contains
`ClientRules` and its recursive operators, which the prover does not admit.

| Theorem | Property | For every |
|---|---|---|
| `ConfigurationSurvives` | `ConfigKept` | set of configurations and policies (`ConfigAssumption`: an unreadable or absent file is none of them) |
| `EveryRequestHonoured` | `RequestsHonoured` | number of clients, instances and frame sizes (`PipeAssumption`: a length prefix of at least one byte, four in the code) |
| `VoicedMeansSpeech` | `VoicedIsSpeech` | window, margin, onset and hangover of at least one frame (`VadParamsAssumption`; 150, 2 and 25 in the code) |
| `HolesAlwaysSaid` | `HolesAreSaid` | number of threads, queue and batch (`TelemetryAssumption`) |
| `SamplesAlwaysInOrder` | `SamplesInOrder` | buffer, frame and packet length, and integer ratio of the rates above one that the kernel covers (`SourceAssumption`: `Ratio <= 2 * Taps + 1`, 12 and 33 in the code for 192 kHz) |

*Along which argument.* `ConfigInv`: a file no power loss took holds what it was last given,
and that can be read. `PipeInv`: whatever bytes are on a client's wires or in a reader's
buffer are, in order, those of its own request or of a reply it may get; a frame put together
from them is one of these, wherever the reads cut. `VadInv`: the levels kept are the last
window of the frames fed, the two counters are the lengths of the runs at the end of the
history, and the flag is what the history says; the two lemmas `VoicedOn` and `VoicedOff` say
when a further frame turns it. `TelemetryInv`: requests, batch and queue are one stream that
only an emit extends, each thread's records are in it in order or dropped, and the drops not
counted yet are exactly the newest records of the refused threads. Such a record has nothing
behind it, so whatever a request misses has been counted (`MissingCounted`), although the
counter is raised after the drop and read by another thread. `SourceInv`: after `n` source
samples the resampler has made the least `c` with `n - 1 <= c * Ratio` (`Enough`, and
`EnoughUnique`: there is only one), its history is the lead-in and the source from `c * Ratio`
on, and it stands `Taps` samples into it. `EnoughMore` and `Resamples` then say that a pass over
one packet and a pass over the next make what one pass over both makes; `LaidSilence` and
`LaidSamples` that a read's silence and samples go behind the output without moving what is
there. The kernel's width matters: with a step wider than the kernel the part dropped from the
history would reach beyond its end.

The decisions are operators without state, and `PartsProofs` proves of each that it does what
its definition of right says, for every input. `RulesRight` compares the same operators with
the same definitions on small sets.

| Theorem | Operator and its definition of right | For every |
|---|---|---|
| `TiersAgree` | `SentinelCaptureTier`, `TierRight` | version and build |
| `WidgetStaysVisible` | `SnapToEdge`, `SnapRight` | window, work area and threshold (mathematical integers: overflow of `i32` is outside it) |
| `PinnedNeverAnother` | `ResolvePinned`, `PinnedRight` | list of entries and of devices, a device having a name |
| `DialsOnlyItself` | `Dialled`, `DialledRight` | URL after its scheme, as a sequence of tokens |
| `OnlyThisAttemptExchanges` | `ExchangedCode`, `RedirectRight` | sequence of requests on the loopback port, with any parameters |
| `UpdatesOnlyForward` | `Decide`, `UpdateRight` | pair of versions, with any number of fields and unreadable ones |
| `PortalStaysOnSite` | `ValidatePortalPath`, `PortalRight` | path |

*Along which argument.* A loop that stops at a first or a last element is a `CHOOSE` in the
model, and `FirstIs` and `LastIs` say that the element exists and what lies before or after it
(the numbers are well-founded). With them `PinnedNeverAnother` says what
the winning entry is, `OnlyThisAttemptExchanges` that what precedes the ending request is for
other paths and that the last of several parameters of one name counts, and `DialsOnlyItself`
where the authority ends and where its first colon is (`UpToIs`): `validate_url` and
`host_port` cut in different places, and what matters is that both read the same host, which
without TLS is this machine. It claims nothing of the port. `UpdatesOnlyForward` compares the lexicographic order of the code with a number to a
base above all fields: `VectorsCompare` finds the first field that differs, `LeadingDigit` and
`BelowIsSmaller` that it decides the numbers too. `PortalStaysOnSite` needs `BetweenCuts`: a
segment of a path is what lies between two neighbouring separators.

Only model-checked:

* the liveness properties (`EventuallyStored`, `EventuallyFinalized`, `FinalizedIsSettled`,
  `SessionServed`, `TokenUsed`, `SignOutHonoured`, `RevocationBites`): the prover does not
  handle fairness;
* `RulesRight`, for the rules defined by recursion (staging path, percent coding, DER and
  certificate request), which the prover does not admit; its decisions are proved above.

## 5. Plan

1. Ingest path, its abstract specification and the refinement: done.
2. Detector, pipeline and agent loop: done but for the segment flags.
3. Delivery, its abstract specification and the refinement: done but for the tenant's budget, which overlapping finalizes read and write,
   and flags a reviewer reopens.
4. Service, enrollment, supervision, sign-in, heartbeat, configuration, pipe, telemetry,
   voice activity, capture source: done and proved.
5. Retention, cost control, compliance engine, rate limiter, live tickets, as small
   modules or pure operators checked against a reference definition.
