# Verification of deviceconnect

deviceconnect is the service that lets a user of Mender reach a device: a
terminal, a port forward, a file. Devices and users each hold a websocket to some
instance of the service; instances exchange messages over NATS and share a
MongoDB. This directory holds TLA+ models of that program, the TLC
configurations that check them on small instances, and proofs that TLAPS checks
for every instance. Paths below are relative to `src/`.

Contents: [the system](#the-system) · [modules](#modules) ·
[runs](#runs-bounds-and-what-they-show) · [fairness](#fairness) ·
[disagreements found](#where-the-code-and-its-comments-disagree) ·
[proofs](#what-is-proved) · [limits](#what-is-not-modelled-and-why) ·
[plan](#plan)

## The system

| component | state | operations | talks to |
|---|---|---|---|
| Device presence: `api/http/device.go`, `app/app.go`, `store/mongo/datastore_mongo.go` | one document per device (`status`, `version`), per websocket two goroutines, the table of cancel functions | provision, delete, connect, `SetDeviceConnected`, `SetDeviceDisconnected`, graceful shutdown | MongoDB, NATS, user sessions (`PrepareUserSession` refuses a device that is not `connected`) |
| User session: `api/http/management.go`, `app/app.go` | a row in `sessions`, `session.Types`, the audit log, reader and writer goroutines with `errChan` and a context | prepare, log a use, publish, record, limit, free | MongoDB, workflows (audit log), NATS |
| Session recording: `management.go`, `app/recorder.go`, `app/control_recorder.go` | two `bufio.Writer`s shared by two goroutines, the count `BytesRecorded`, documents in `recordings` and `control` | record output, pause, resize; flush | MongoDB |
| Session playback: `WriteSessionRecords`, `recording_reader.go`, `control_reader.go`, `app/playback.go` | cursors, read buffers, bytes sent | read, pop, merge, send | MongoDB, the user's websocket |
| File upload: `api/http/management_filetransfer.go` | handler and inbound goroutine, a one-place channel of acknowledgements, a timer, offsets | handshake, send chunks, wait, answer | NATS, the device's file transfer |
| File download and stat: same file | handler, the goroutine of `chanTimeout`, the expected offset, the response's buffer and status | handshake, stat, chunks, acknowledgements | NATS, the device's file transfer |
| Message relay: `device.go`, `management.go`, `client/nats` | each handler's subscription, channel and table of sessions | connect, forward, publish, stop at the end, unsubscribe | NATS, the device, user sessions |
| Start and graceful shutdown: `server/server.go`, `api/http/status.go`, `App.Shutdown` | the main goroutine, requests in flight, cancel functions, `shutdownDone` | signals, GET /shutdown, cancel, wait, exit | all handlers |
| Internal API: `api/http/internal.go`, one-shot Mender commands | none of its own | provision, delete device or tenant, check-update, send-inventory | MongoDB, NATS |
| Migrations: `store/mongo/migration*.go`, `datastore_mongo.go`, `main.go` | the recorded version of each database, documents of the tenants' databases and of the common one | 1.0.0, 2.0.1, start of `migrate` and `server` | MongoDB |
| Clients, routing, identity, CORS, configuration | none that changes | single requests, decoding, validation | |

What is hard in it, and what makes each part correct:

- *Presence.* Handlers of one device overlap: a device reconnects to another
  instance before the first noticed its loss. A late closing write must not take
  the newer connection off line, and none may leave "connected" behind. The
  version counter in the document decides; deletions restart it, crashes and
  failing writes skip it, a shutdown cancels the context the write uses.
- *User session.* Two goroutines end for many reasons and each may free the
  session. Every use is logged before it reaches the device and closed exactly
  once; the row goes away; a shell left on the device is told to stop; when one
  goroutine ends, so does the other.
- *Recording.* Two goroutines, two unlocked buffers, sticky errors, a context that
  is cancelled under the last flushes. What is stored must be the beginning of the
  output, with every control message at its offset.
- *Playback.* A merge of two streams read in pieces that do not line up.
- *File transfers.* Windows of unacknowledged chunks, lost messages, timers that
  race with messages, goroutines that outlive the handler. Success must mean that
  the file has arrived, and every request must be answered.
- *Relay.* Two handlers of one device are subscribed at once, channels drop when full, a
  status outlives a websocket, and each side ends while the other talks. A shell must not
  outlive its session, a user must learn that the device has gone, and what is answered
  with 202 must have been sent to somebody.
- *Shutdown.* Four kinds of goroutine meet at a mutex, a channel and a deadline. The
  process must end, and end gracefully only after the websockets were cancelled.
- *Migration.* Processes crash, start again and migrate side by side, one may serve
  while another still copies. Nothing may be lost, land with another tenant, or overwrite what
  the service has written since.

PROJECT.json lists each hazard at the line where it bites, with the properties
that would catch it, or the reason why none does yet.

## Modules

| module | models | shape |
|---|---|---|
| `DeviceLease` | what presence promises, without versions | abstract: the newest connection that announced the device holds its status |
| `DevicePresence` | handlers of one device on several instances, the document, shutdown and crashes | `pc[c]` is the reader goroutine, `writer[c]` the other; `device` is the document; `offline`, `epoch`, `verEpoch`, `offBy` are history |
| `MCDevicePresence` | values and symmetry for TLC | |
| `DevicePresenceProofs` | theorems about the two modules above | |
| `UserSession` | one terminal or port-forward session | `pc["reader"]`, `pc["writer"]`; `row`, `opened`, `closed` are the database and the audit log; the reader submits a use (`LogUserSession`) and then appends it to `session.Types` (`AppendType`), which the writer may read in between (`ReadTypes`); each failure sets a flag in `faults` |
| `UserSessionProofs` | theorems about it | |
| `SessionRecorder` | the recording of one session | the steps of the two `bufio.Writer`s interleave: `CopyIn` and `Count` of `Write`, `Flush`, `FlushEnds` (or `FlushFails`) and `Reset` of `Flush`; `job[p]` is the call a goroutine is in; a byte is its position in the output, a document the sequence it holds |
| `SessionPlayback` | playback of what `SessionRecorder` stored (extends it) | `play` is the line of `WriteSessionRecords`; `Read(n)` is `RecordingReader.Read` |
| `MCSessionPlayback` | buffer sizes for TLC | |
| `SessionPlaybackProofs` | theorems about recording and playback | |
| `FileUpload` | one upload: handler, timer, inbound goroutine, device | chunks are numbered by the offset they end at; the device's actions are external |
| `FileUploadProofs` | theorems about it | |
| `FileDownload` | one download or HEAD: handler, forwarder, device | a chunk is a unit; the device's actions are external |
| `FileDownloadProofs` | theorems about it | |
| `GracefulShutdown` | the end of an instance, around the handlers of `DevicePresence` (extends it) | `server` is the line of `InitAndRun`, `requests` what `srv.Shutdown` waits for; `App.Shutdown` is `DevicePresence`'s `phase` |
| `MCGracefulShutdown` | values for TLC | |
| `GracefulShutdownProofs` | theorems about it (extends `DevicePresenceProofs`) | |
| `SessionRelay` | the handlers of `DevicePresence` (extends it) with their NATS channels and tables, the sessions of users, commands | `sub`, `chan`, `table` belong to handlers; `live` and `shell` to the device; `started`, `missed`, `checked` are history |
| `MCSessionRelay` | values and symmetry for TLC | |
| `SessionRelayProofs` | theorems about it (extends `DevicePresenceProofs`) | |
| `Migration` | `SetupDataStore` with both migrations in several processes, and the service that follows | `at[p]` is the line, `job[p]` the loop over databases, `copy[p]` the local state of `migration_2_0_1.Up`; `deleted`, `cut`, `racing` are history |
| `MCMigration` | databases and values for TLC | |
| `MigrationProofs` | theorems about `Migration` | |

Choices worth knowing when reading them:

- A call to the store has up to three outcomes, each an action: done and
  reported, done and not reported (the answer is lost), not done. The same is so
  for the insertion of a recording. `PublishFails`-like actions are NATS's refusals.
- Locks are modelled where something may wait for them: `App.Shutdown` holds the
  mutex of the cancel functions for its whole loop (`MutexFree`), which delays
  `RegisterShutdownCancel` and `UnregisterShutdownCancel`.
- `bufio.Writer` is used by two goroutines without a lock. That is a data race; its
  outcomes are those of interleaving its steps. `Write` copies as much as there is room for
  (`CopyIn`), then raises `b.n` (`Count`), then flushes if the buffer is full; `Flush` hands
  the content to the recorder, compares `b.n` with what the recorder took (`FlushEnds`), then
  sets it to zero (`Reset`). Of two writes of `b.n` at once either may stay (`MayBeLost`), and
  a count beyond the buffer, whose next use would panic, ends the use of the buffer. A
  document may hold the content as it was handed over or as it is when the recorder has
  read it, and one nobody can decompress is a further outcome when two flushes of the output
  run at once, because `app/recorder.go`, unlike `app/control_recorder.go`, has no mutex.
  The exception of the properties, `overlapped`, names the call that came between two such
  steps of another's; a write while the other goroutine waits for the recorder, which a later
  `Flush` test sees, is no exception.
- A message of the shell may be empty, as `recordSession` accepts it, and fits into the
  buffer: `bufio.Writer` passes longer writes on without copying only if its buffer is
  empty, and that path is left out. Control messages have one size, and a control message
  takes one place.
- A resize message is recorded only if it carries *neither* height *nor* width:
  the tests at `api/http/management.go:755-760` return when a property is present. So
  real resizes are not recorded, and the resizes of the model are the messages
  without a size. `TakeResize` follows the code.
- `ControlMessageReader` only ever opens the first document of control messages,
  and stops for good at a message that lies across the end of its 4096-byte buffer.
  `FirstControls` says so; control messages beyond that are not played.
- `created_ts` orders the documents of a recording; ties of the clock are left out.
- External code is `bufio.Writer`, `http.Server.Shutdown`, NATS, the migrator of
  `go-lib-micro` and the device's client. The device of `FileDownload` and `FileUpload` does
  what the handlers rely on and may also refuse, fail, ping, or fall silent at any time.
- A device uses one websocket, its newest, and connects anew only after losing it; the
  handler at the other end may notice the loss late or never. What the old handler's
  channel still holds is lost with the websocket (`missed`).
- NATS delivers at once to every subscribed channel that has room and drops otherwise; what a
  refused `Publish` means is decided by the code that called it. A subscription is that of
  the handler's call, from before the upgrade until its last deferred call.
- A file transfer's and a shutdown's request are "in flight" for the HTTP server, a
  websocket is not: it was hijacked by the upgrade. `slow` says whether
  `gracefulShutdownTimeout` exceeds the server's five seconds, as its default of a minute does.
- A cursor sorted by `_id` reads the tenants' databases, which nobody writes any more.
  `UpdateMany` is one step, since its documents do not depend on each other, and a bulk
  write may stop behind any of its documents.
- An operator whose comment begins with `Mutation:` is a plausible bug used to test that a
  property can fail; it is not part of any specification.

## Runs, bounds and what they show

Deadlock is off in every run because every modelled program ends: its handlers
return and its requests are answered.

| run | configuration | bounds | checks |
|---|---|---|---|
| `presence` | `presence.cfg` | 3 connections, 2 instances, 1 deletion, store faults, crashes of both instances, graceful shutdown of one; connections on the same instance are symmetric; states that differ in the writers are one (`VIEW`) | `ShownIsServed`, `NewestIsShown`, `NoResurrection`, and `ImplementsLease` |
| `presence_live` | `presence_live.cfg` | `GracefulShutdown` with 2 connections, 1 instance, both kinds of request, two signals, crashes, either timeout | `GracefulExitCancels`, `ShutdownCompletes`, `HandlerCloses` |
| `presence_shutdown` | | 2 connections, 1 instance, no faults, shutdown | refutes `LeavingMeansOffline` |
| `relay` | `relay.cfg` | 2 connections, 1 session, 1 command, channels of 1, NATS refusals, link losses | `EndedShellIsStopped`, `StartedIsTold`, `AcceptedIsDelivered` |
| `migration` | `migration.cfg` | 2 processes, 2 starts, 2 tenants, 2 collections, 6 documents, batches of 2, cursor faults, 1 change by the service | `NothingLost`, `OwnPlace`, `NoLateOverwrite` |
| `user_session` | `user_session.cfg` | limit of 2 recorded messages, every fault, deletion of the tenant | `AuditInOrder`, `AuditComplete`, `RowFreed`, `NoOrphanShell`, `SessionEnds` |
| `session_limit` | | the same without faults | refutes `LimitTold` |
| `upload` | `upload.cfg` | 5 bytes, reads of 1 or 2, window 2, channels of 2 messages, NATS faults | `CreatedMeansStored`, `LatestAckKept`, `ChunksInFlight`, `Answers` |
| `upload_timer` | | 2 bytes, no faults | refutes `TimeoutIsDue` |
| `download` | `download.cfg` | 5 chunks, an acknowledgement every 2, device window 2, channels of 3, loss and NATS faults | `BodyIsPrefix`, `OkMeansWhole`, `NobodyStarves`, `SilenceEnds` |
| `recording` | `recording.cfg` | two messages of 0, 2 or 3 bytes, buffer of 3, reads of 2, control buffer of 2 messages, 1 resize, 1 failing insertion | `StoredInOrder`, `StoredIsAll`, `PlayedIsStored`, `ControlsInTime`, `InconsistentOnlyByResize` |
| `recording_panic` | | two messages of 2 or 3 bytes, a limit of 4, 1 failing insertion, no resize | refutes `OffsetInBuffer` |

Each passing run but `presence_live` also checks its module's type invariant, and every property of a passing
run is violated by at least one mutation of the model, listed in PROJECT.json.

Why the bounds suffice for the cases of interest:

- *presence*: a superseded, a superseding and a third handler on two instances
  give every order of opening and closing writes; with one deletion, versions of
  two lives of the document meet. The proofs remove this bound. The view leaves the writers
  out: their steps change nothing else, and the only step that waits for a writer,
  `ReportError`, leads where `ReportTimeout` also leads. `presence_live` keeps them.
- *user_session*: one session is independent of the others except for the row and
  the audit log, which are keyed by session; the limit 2 lets a session be
  below, at and over it.
- *upload, download*: the file is longer than two windows, channels are shorter than
  the messages in flight, so that they overflow.
- *presence_live*: one instance suffices, since instances share only the document; two
  connections let one be registered and one be late when `App.Shutdown` begins.
- *relay*: two connections give an old and a new handler that are subscribed at once;
  a channel of one is full after one message, so a stop behind a spawn is dropped.
- *migration*: one collection is longer than a batch and leaves one document over, the
  next collection, of the same or another tenant, would inherit it if the slice were not
  emptied; two starts are a crash and a second try, or a race. With two tenants every start goes
  through all databases twice, as the code does.
- *recording*: two messages overflow the output buffer in the middle of a message;
  a stored document is longer than a read; a control message can lie beyond the
  read buffer. Two pauses and a resize fill the control buffer of two, so that a flush
  with something left to write happens there too. Each step of a call is one of TLC's, so
  that every interleaving of the two goroutines' calls is covered at this size.

### What the properties say

- `ShownIsServed`, `NewestIsShown`: "connected" is only left behind by a closing
  write that was lost, and a superseded handler of the same life of the
  document never takes the device off line.
- `ImplementsLease`: the handlers with their counters are the lease; the
  only exception, a handler older than the last deletion, is explicit in it.
- `AuditComplete`: the audit log of a session that ended is balanced, except after
  a fault (the handler's return that cancels the writer's part is one), or for a use
  that the reader had not yet appended to `session.Types` when the writer, freeing a
  session over its limit, read it (`late`): its entry may have been submitted before that
  (`app.go:208`, `management.go:710`, `management.go:471`). That use is never closed; the
  property says it is the only one.
- `CreatedMeansStored`: 201 is answered only when the device has stored all of the file.
- `LatestAckKept`: replacing an acknowledgement in a full one-place channel while the handler takes
  it never loses the newest.
- `ChunksInFlight`: one acknowledgement ends a wait although the window may still be
  exceeded, so the bound is one chunk more than the window.
- `OkMeansWhole`: the offset of the end-of-file chunk is not compared, so a
  download of which NATS lost the last chunks is answered as whole: this is the
  third disjunct. The first two are the intended cases.
- `NobodyStarves`: the server acknowledges often enough for the device's window.
- `StoredInOrder`, `StoredIsAll`: failing insertions and writes behind a flush that waits
  for the recorder shorten the recording and never leave a hole in it, unless a call came between
  the steps of another (`overlapped`). Those races do harm: output copied between `Flush`'s
  last test and its reset of `b.n` is lost without an error, and a resize written under a flush
  that is about to reset the buffer can leave a pause stored again, behind a message of a later
  offset.
- `ControlsInTime`: a control message is never sent late, and less than one read
  buffer early.
- `AuditInOrder`: with two goroutines logging and freeing, the order open, use, close holds
  for every use, and no close is logged twice.
- `GracefulExitCancels`: a handler the exit cuts off uncancelled had not registered when
  `App.Shutdown` took the mutex.
- `EndedShellIsStopped`: from the user's end to the device's: whoever sends the stop, it
  reaches the device's websocket or there is a reason in the transport.
- `StartedIsTold`: of the device's last messages about a session, only a spawn's answer leaves the
  handler remembering the terminal (`device.go:345`). The property is what the code
  achieves: no session is left with that answer as its last word. A session whose
  terminal has printed anything since is not told that the device disconnected, although
  `device_test.go:254` expects it of a spawn.
- `AcceptedIsDelivered`: with the check of the status and the `Publish` in two steps, a command
  accepted reached nobody only if the handler that made the status left between the two, or a
  channel was full.
- `NothingLost`: crashes and repetitions included; the exception `cut` is real: `cur.Next` ends
  the loop on an error, `cur.Err` is never asked (`migration_2_0_1.go:134`), and the version is
  recorded with the rest of the collection left out.
- `NoLateOverwrite`: two replicas started at once with `--automigrate` may race: the slower one
  replaces documents the faster one has begun to serve. Nothing but that race can: the process
  must have been migrating the very database when another recorded it (`racing`), so that one
  started, or started again after a crash, when the version was recorded leaves it alone.
- `InconsistentOnlyByResize`: the case that "should never happen"
  (`datastore_mongo.go:478`) does happen, for a resize whose offset was taken before a
  pause was recorded, and for nothing else as long as calls on the control buffer do not overlap.

## Fairness

- `DevicePresence`, `UserSession`: a goroutine that can run does run (weak
  fairness on its own steps), and a read of a websocket that the other goroutine has
  closed fails. In `UserSession` the end is one of several ready cases of a
  `select` that chooses at random, and the read of a closed websocket comes
  behind finitely many messages already received: both are strong fairness.
  Requests, peers, crashes and faults are not fair.
- `GracefulShutdown`: the goroutines of `DevicePresence`, the main goroutine, and the loop of
  `App.Shutdown` with its ticker. That signals arrive, requests end or the process crashes is not
  assumed: a request that never ends is what the server's deadline is for.
- `FileUpload`: weak fairness of the handler, which includes that the user sends the
  request's body or breaks off, and of the timer. Nothing is assumed of the device, NATS or
  the inbound goroutine, which can block for ever.
- `FileDownload`: weak fairness of the handler, the forwarder and the timer. A device that
  goes on sending keeps a request open: `SilenceEnds` says that only it does.
- `SessionRecorder`, `SessionPlayback`, `SessionRelay` and `Migration` check safety only: NATS,
  the device and the operator who starts a process again promise nothing.

## Where the code and its comments disagree

1. *A graceful shutdown leaves devices "connected".* The deferred closing write uses the
   context that the shutdown has just cancelled (`presence_shutdown`).
2. *The user is not told that the session exceeded its limit.* The flag that
   suppresses writes is set before the error is written (`session_limit`).
3. *An upload can time out early.* The timer is reset without being drained
   (`upload_timer`), with the timers of the Go version the module names.
4. *A recording with a hole at its end can stop the process when it is played.* One failed
   insertion ends the recording while later pauses are stored; the playback slices its buffer
   beyond its end, in a goroutine without a `recover` (`recording_panic`).

Met while modelling, and stated as an exception of a property that holds: a device
that was deleted and connects again can be taken off line by the closing of its old
websocket, since versions restart with the new document (`WithdrawOld` of `DeviceLease`,
the second case of `NewestIsShown`); the unread rest of a collection (`NothingLost`); the
forgotten terminal (`StartedIsTold`); the use that is submitted before and appended after the writer's
snapshot (`AuditComplete`); what overlapping calls lose of a recording (`StoredIsAll`), for which the
lock of the control recorder, meant for "two buffered writers using this writer"
(`app/control_recorder.go:55`), does nothing, since there is one, used by two goroutines in front of the
lock; a truncated download that is answered with 200, because the offset of the end-of-file chunk is not
compared (`OkMeansWhole`), where `docs/management_api.yml:169` promises the content of the file.

One is in the model without a property: GET /shutdown sleeps for `gracefulShutdownTimeout`, a minute by default,
as a request in flight, while the HTTP server waits five seconds for requests. A shutdown asked for that way
never completes gracefully with the default configuration (`ShutdownAnswered` needs `~slow`, and `ServerIdle` no
request): the process ends by `l.Fatal`, and the 202 that `docs/internal_api.yml:62` describes is not sent.

## What is proved

Every safety property the passing runs check is also a theorem, for every value of the
constants the assumptions of its module admit. They only say of what kind a constant is, with
these exceptions: a file transfer's window on the device is at least the number of chunks the
server acknowledges at once (`WindowAssumption`), an `_id` is used once (`IdsAssumption`), the
two markers `Migration` uses for a tenant are no databases (`DatabasesAssumption`), a message of
the terminal fits into the buffer of the recording (`RecorderAssumption`), and the process that
starts and ends may crash and be told to leave (`EndsAssumption`).

Each proof has the same form. An invariant is seldom inductive by itself; the proof module
defines what is, a conjunction of named parts with a comment on each, shows that it holds at the
start and that each action keeps it (a lemma per action where the step is long), and derives the
property. TLC, given these invariants with the configuration of the module's run, finds none violated
(with `Begins` read as a comparison of prefixes, and the bound of `SentArrives` as the file's size).

`DevicePresenceProofs` (any connections, instances, routing, bounds and faults):

- `TypeCorrect`, `Inductive`: neither `ShownIsServed` nor `NewestIsShown` is inductive. That
  the newest handler's closing write matches the document, and nobody else's does, needs that
  versions are distinct within one life of the document (`VersionsDistinct`), that the version of
  a document that was connected is some handler's (`VersionCountsConnects`), and that a handler
  has no version before its opening write and has one while it serves (`HandlersVersioned`). That a
  document shown "disconnected" was switched off under its current version by a handler that no
  longer serves (`OffByItsVersion`) then gives `NewestIsShown`.
- `ShownIsServedHolds`, `VersionsDistinctHolds`, `NewestIsShownHolds`, and the action property
  `NoResurrectionHolds`.
- `LeaseImplemented`: `Spec => Lease!Spec`. The holder is the handler with the document's
  version; the invariant makes it unique, so that each step maps to one of the
  lease's actions or to a stutter. A crash maps to `Lose`.

`GracefulShutdownProofs` and `SessionRelayProofs` extend it. `ServiceIsPresence` and
`RelayIsPresence` show that every step of the composed system is a step of the handlers or leaves them alone, so
that all that is proved of presence holds there too (`ServiceShownIsServed`, `RelayShownIsServed`).

- `ServiceInductive`: a handler killed with the process is on an instance that has ended
  (`KilledWithProcess`); once `App.Shutdown` drains, each handler has returned, was cancelled, is
  still to be, or registered late (`Draining`); the main goroutine waits for it only after
  SIGUSR1 (`WaitsIfGraceful`). Hence `GracefulExitCancelsHolds`.
- `AcceptedIsDeliveredHolds`, an action property: from `Subscribed`, a handler is subscribed from
  before its upgrade until it returns.
- `StartedIsToldHolds`: from `StartedHeld`, the handler that told a session of its terminal
  has the session in its table while it serves, and among those to stop while it leaves.
- `EndedShellIsStoppedHolds`: from `Stopped`. Once a session has ended, the channel of the websocket the
  device uses has a stop behind each of its spawns, and one at all if the device has its shell;
  or something of the session was missed.

`UserSessionProofs`: `Inductive` relates the two goroutines by who found the row. Only one of
them can delete it, that one alone closes what was opened and in this order (`RowDeleted`,
`ClosesOnce`, `ClosesAll`), what is opened is in `session.Types` or about to be appended
(`OpensLogged`, `Logged`), and a shell the reader
has forgotten was stopped (`ShellKnown`). `AuditInOrderHolds`, `AuditCompleteHolds`,
`RowFreedHolds` and `NoOrphanShellHolds` follow.

`FileUploadProofs`: `Inductive` says that the newest acknowledgement is never lost between the
inbound goroutine, the one-place channel and the handler (`LatestAckKept`), and that every offset
travelling back is where a stored chunk ends (`EndsAreSent`); so 201 means that the device stored the
file (`CreatedMeansStoredHolds`). `WindowKept` counts: the set of chunk ends beyond the last
acknowledgement has at most one element more than the window. A step of the handler adds one
to it, an acknowledgement removes some, and `ChunksInFlightHolds` is its consequence.

`FileDownloadProofs`: `TypesInductive` has the offsets of chunks in flight; `BodyIsPrefixHolds` is
inductive with it. `FlowInductive`: unless something was lost, every chunk sent was written or is on its way, and no
chunk is behind the end of the file. `AcksArriveInductive`: the newest acknowledgement the device has, or that is on
its way to it, is of all the handler wrote but the chunks counted since, fewer than it acknowledges
at once; so `NobodyStarvesHolds`. `OutcomeInductive` ties the status and what was flushed
to how the handler left; `OkMeansWholeHolds` follows.

`SessionPlaybackProofs` treats the two modules in three parts.

- The recording. Every step of a goroutine leaves a buffer alone or is one of a few steps of a
  call (`Calls`: copy, count, hand over, store, fail, empty), so that each part of the invariant
  is shown once per kind of step and not once per action. `One` says what a call may assume as long as
  none came between the steps of another: what it has flushed is still the beginning of the
  memory, what it has copied fits, and no second flush runs. `Flowing`: behind what is stored the
  memory, what was copied and not counted, and what a call has in hand (`Held`, `Flow`) are the rest of
  the output, in order. `Whole`: nothing stays behind the flushes that end the recording. `Pausing`:
  no pause in the documents, the memory or in hand lies before what is in front of it. Their conjunction is
  `Recording`, while the session lasts; `RecordingInductive` carries what it gives through the
  playback (`StoredWell`), and `StoredInOrderHolds` and `StoredIsAllHolds` follow. Documents are concatenated with `FlattenSeq`, a recursive function of
  the community modules; what is needed of it, that appending a document appends its contents, is
  proved from its definition through the least length at which it would fail (`NatMin`).
- The reading. `FollowingInductive`: what was played, what the reader has left of a document and what the cursor
  has left are together what was stored. `PlayedIsStoredHolds` and `ControlsInTimeHolds` follow.
- The two streams together. `InTurnInductive`: the pauses that are stored are in place, and none
  that is still to be played lies before what was sent or before the message being merged
  (`InTurn`), unless calls on the control buffer overlapped. Hence `InconsistentOnlyByResizeHolds`.

`MigrationProofs` (any number of processes, databases and documents): `Inductive` is, for each
line a process can be at, what has been copied when it is there. A batch holds documents of
the collection being read, in its tenant's name (`BatchOwn`); what was read is copied or in the batch
(`ReadKept`); collections and databases already visited are copied (`CollectionsKept`,
`Visited`); a recorded version means that its database is copied (`RecordedKept`); and the service
changes nothing before all versions are recorded (`ChangesLast`). `OwnPlaceHolds` and
`NothingLostHolds` follow. For the action property `NoLateOverwriteHolds`, a process that is migrating
a database whose version is recorded was there when it was recorded (`RacesKnown`), since none
begins with one that is.

Only model-checked: liveness (`HandlerCloses`, `ShutdownCompletes`, `SessionEnds`, `Answers`,
`SilenceEnds`), which needs fairness and `ENABLED` and is beyond the prover, and the four
disagreements, which are counterexamples.

## What is not modelled, and why

- Encodings, audit-log texts, routing, identity, CORS, configuration: no state that changes.
- The inventory and workflows clients: single requests, present as faults.
- The content of terminals and files; pings between server and browser, which end a
  goroutine like any failed write.
- The goroutines of the `Playback` handler: its writer is the one of `UserSession`.
- Failing cursors of a playback, which end it as the end of the recording does.
- The limit on recorded control messages, which ends recording as the limit on output does:
  recording an output message is never forced in the model.
- `DeleteTenant` collection by collection: the models take its effect on one document.
- Pings between server and device, whose failure is that of a write, and the NATS client's
  reconnection, during which `Publish` buffers or fails.
- Indexes, and processes of version 1.x that still write to the tenants' databases.

## Plan

Done: `DeviceLease`, `DevicePresence` with proofs; `UserSession`; `FileUpload`;
`FileDownload`; `SessionRecorder` and `SessionPlayback`; `GracefulShutdown`; `SessionRelay`;
`Migration`.

Proofs of every safety property of these.

Next, in this order:

1. An abstract specification of recording and playback together, a log that is appended to
   and read from its beginning, as a refinement of `SessionPlayback`; most of it is in
   `Recording` and `Following`. The same for file transfers: a file copied chunk by chunk.
2. `SessionPlaybackProofs` is the longest module; the recording's part could be stated for one buffer of any
   kind and used for both.
3. The goroutines of `Playback`, and `DeleteTenant` step by step.
