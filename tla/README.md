# gstsmith in TLA+

The repository is a collection of GStreamer plugins written in Rust. Most of
what a plugin does is a straight line from a buffer to a library call; what is
hard to get right, and hard to test, is everything around it: an element's
streaming thread, the application thread that starts, flushes and stops it, and
a worker (a tokio task or a thread of the plugin) that talks to a network
service or runs an inference engine, all sharing a small state behind a mutex,
a channel and a few flags. This directory models those protocols in TLA+,
checks them with TLC on small instances, and proves most of their safety properties
with TLAPS for all values of the parameters.

How to run, inside this directory: `tlc -config S2SinkSafety.cfg S2Sink.tla`
for a run (PROJECT.json lists which module belongs to which .cfg), and
`tlapm` on each module whose name ends in `Proofs` for the proofs.

Contents

1. The system
2. Modules and how they correspond to the code
3. Runs, bounds and fairness
4. What the runs found
5. What is proved
6. What is only model-checked, and what is not modelled
7. Plan


## 1. The system

Components, with the state each keeps, its operations, whom it talks to, what
makes it hard, and what makes it correct. PROJECT.json lists the same
components with their source files, and every hazard with its line.

### s2sink (`net/s2/src/s2sink/imp.rs`)

*State*: `SharedQueue`, a mutex around `QueueState` (records, accepting,
flushing, failure, done, drain request), two condition variables (`capacity`,
`done`), a tokio `Notify`, a cancellation token and the `error_posted` flag;
inside the worker, the append producer and the tickets of the records in flight.
*Operations*: `start`, `render`, `event(EOS)`, `unlock`, `unlock_stop`, `stop`,
and `append_worker`'s loop (pop, submit, flush for a drain, wait, close).
*Interaction*: the streaming thread renders and drains for EOS; the application
thread unlocks, flushes and stops; the worker submits to the S2 producer, which
acknowledges or fails at any time.
*Hard*: a drain decides from one look at shared state while a record is in the
worker's hands; requests for drains share a flag; state changes and
notifications are separate steps; timeouts race late acknowledgements; EOS,
render and stop all report failures.
*Correct*: nothing accepted is lost, duplicated or reordered; a barrier that
says "complete" is durable; a stop that succeeds is durable; no thread sleeps
through a wakeup; a failure is final, and told once by whoever of the worker and EOS
claims it, and once more by a stop that fails; drains and stops end although the
service never answers.

### s2src (`net/s2/src/s2src/imp.rs`)

*State*: the current `ReadWorker` (receiver, token, failure slot, join handle),
the last delivered sequence number, the flushing flag.
*Operations*: `start`, `create`, `unlock`, `unlock_stop` (which replaces the
worker), `stop`, and the read worker.
*Hard*: `create` takes the receiver out of the shared state while it waits and
commits the delivered number later; the old worker may still be sending when a
replacement starts behind the last delivered record; a closed channel may mean a
failure, a flush or an abort.
*Correct*: buffers are consecutive across flushes; the receiver is always found
again; only real failures are reported, once; a flush ends `create`, and `stop`
returns, although the service never answers; every record is delivered when it
does.

### natssink and natssrc (`net/nats/src/natssink/imp.rs`, `natssrc/imp.rs`, `connection.rs`)

*State*: the sink has a bounded channel, a publish task, a failure slot and a
drop-on-full setting; the source has a subscriber that `create` takes out of the
state while it waits, and a cancellation token that `unlock_stop` replaces. Both
share a permission-error callback on a task of the client.
*Hard*: the publisher fails between two of render's checks; stop aborts with
messages in the channel or in hand, and with a zero timeout warns only of the former; `stop` overtakes `create` and both look for
the subscriber; a message arrives together with the cancellation.
*Correct*: messages are published in the order of acceptance, a loss is told and
told once (but for what a zero drain timeout drops in hand), the subscriber is never leaked, a flush ends the wait, and messages
are read again after it.

### statsd tracer (`utils/statsd/src/metrics.rs`, `worker.rs`, `statsd/imp.rs`)

*State*: a concurrent map from pads to series with atomic counters, the
registration lock with the number of active series, a bounded channel of
retired series, and in the export worker one cursor per series.
*Operations*: count a push (registering the pad), remove a pad, export
(snapshot, deltas, capped lines, one idle zero), final export at dispose.
*Hard*: counting and iterating take no lock; a removal is two steps; the
channel may be full; counters wrap; the sink rejects lines.
*Correct*: the series cap is exact, no series goes astray, what the lines add up
to is what was counted, and the last export leaves nothing out.

### prometheus tracer (`utils/prometheus/src/metrics.rs`, `server.rs`, `prometheus/imp.rs`)

*State*: a map from pads to entries, families of series keyed by labels with a
cap, four state gauges per pipeline, a cache of queue identities with its dirty
flag, and an HTTP server thread with a shutdown watch, a set of connection tasks
and a count of the open ones.
*Operations*: constructed() with the start handshake, scrapes, the pad, bin,
state-change and object hooks, dispose().
*Hard*: two pads with equal labels share a series; a scrape writes gauges that a
hook is setting; a rename or an unparenting is seen during a rebuild of the
cache; the start handshake may time out while the thread still comes up;
shutdown drains connections with a deadline.
*Correct*: the cap is exact and every push is counted once; an undisturbed scrape
shows the truth; a stale label is marked and heals; constructed() and dispose()
return and leave nothing behind; no connection outlives its lifetime.

### vlmanalysis (`analytics/vlm/src/vlmanalysis/imp.rs`)

*State*: `State::Started` (generation, next request id, sampler with an incomplete
batch), a bounded channel of batches, a task on the plugin's tokio runtime, four
counters, `error_posted`.
*Operations*: `start`, `transform_ip` (select, collect, enqueue), stream events
that advance the generation, the request worker, `stop` with its drain timeout.
*Hard*: the submitted counter moves after the batch is in the channel; stop
aborts with requests queued and in flight; results outlive their generation;
byte limits per frame and per batch.
*Correct*: every request has one fate and the counters say so; a message is
about one generation; the limits the settings promise suffice; `stop` returns.

### ocrsanalysis (`analytics/ocrs/src/ocrsanalysis/imp.rs`, `worker.rs`)

*State*: a `Worker` slot (channel of one job, stop flag, admission flag, thread
handle), sampler and generation, counters, `worker_failure_reported`.
*Operations*: `start` (which reaps a worker that stopped itself), `transform_ip`,
events, the worker loop with its panic guard, `stop` from outside and from a
message handler on the worker thread.
*Hard*: stop on the worker's own thread cannot join it, and a handler there must not
wait for the one that joins it; admission is checked and the message posted in two steps; a panic closes the channel silently.
*Correct*: one worker at a time, silence after stop, counters per run that add
up, one report per failure, lifecycle calls that return unless a handler
and the joiner wait for each other.

### lineenc and lineparse (`text/lines/src`)

*State*: the parser's saved search offset and the bytes its base class gathers.
*Operations*: `handle_frame`, drains at EOS and at a new segment, flushes, the
encoder's `transform`.
*Hard*: a delimiter of two bytes split over buffers, a record at the limit with
and without its delimiter in the window, an offset left from before a flush.
*Correct*: the records of a text do not depend on how it is cut into buffers.

### nanodettensordec (`analytics/nanodet/src`)

*State*: the negotiated contract, scratch vectors reused from frame to frame.
*Operations*: caps negotiation, decoding of a tensor, suppression in place.
*Correct*: the objects of a frame are the greedy choice among that frame's
candidates; offered caps negotiate as what they were offered for.

### tractinference, ortinference and their helpers (`analytics/*-inference`, `inference-common`)

*State*: the plan that binds a model-info to a model, the negotiated video size.
*Operations*: start, caps query and fixation, one run for each buffer.
*Hard*: model, declaration and upstream order tensors differently; symbols and
wildcards; row padding and short planes.
*Correct*: each input of the model gets the tensor declared for it, with the
declared shape; every pixel's colours are where the model wants them.

### console elements (`generic/console/src`)

*State*: the process's standard streams, with one lock each and a line buffer.
*Hard*: partial writes, failures that leave bytes in the buffer, several elements.
*Correct*: records come out one after the other, and whole where that was told.

### One generation of vlmanalysis (`analytics/vlm/src/backend`, `prompt.rs`)

*State*: the response bytes held so far. *Operations*: serialize, send, read
chunks, judge. *Hard*: the limit, the timeout and the status compete.
*Correct*: text is reported only of a whole, successful, bounded response.

### Metadata of buffers (`net/nats/src/message_meta.rs`, `net/s2/src/meta.rs`)

*State*: none over time; the structure on a buffer, which any element may rewrite.
*Correct*: what a source received is what a sink sends, and a command marker is
never sent as a record.

### The rest

Configuration, credentials, the OCR backend and build tooling; section 6 says why
they are left out.


## 2. Modules and how they correspond to the code

Conventions that hold for all modules:

- One action is one critical section, or one step between two of them. Where
  the code releases a lock and acts afterwards (a notification, a counter, a
  message on the bus), that is an action of its own, so every interleaving the
  code allows is a behaviour of the model.
- A thread or task has a program counter (`pc`, `cpc`, `lpc`, `spc`, `wpc`);
  its values name the points of the function where another thread can come in.
- Buffers, records and messages are numbers in the order of arrival; payloads
  and wording are left out. Timestamps are sets of at most one element, `{}`
  meaning no timestamp.
- Variables marked `history` exist in the model only and record what the
  properties speak about; no guard reads them, except to bound the inputs.
- Constants that begin with `Max` and are marked `bound` limit the inputs, not
  the program. Those that model a setting carry its name.
- An operator marked `mutant` is a plausible bug in the definition below it. It
  is not part of the specification; replacing the definition by it must break the
  property PROJECT.json names, which shows that the property depends on that
  line.

| module | models | state and actions |
|---|---|---|
| `S2Sink` | s2sink, one session from `start` to `stop` | `state` is `QueueState`; `permit` is the stored permit of `Notify`; drain flags (`Arc<AtomicBool>`) are numbers; `Enqueue*` is `enqueue_record`, `Drain*` is `drain()` split at its waits, `EosBegin/Forward/Fail` is `event`, `Unlock*`, `Stop*` the element's calls, `Worker*` is `append_worker`, `Acknowledge` and `ProducerFails` the service |
| `DurableLog` | what s2sink promises | accept, persist in order, confirm a barrier when everything accepted is durable |
| `S2SinkProofs`, `S2SrcProofs`, `VlmProofs`, `OcrsProofs`, `StatsdProofs` | proofs about `S2Sink`, `S2Src`, `VlmAnalysis`, `OcrsAnalysis`, `StatsdExport` | section 5 |
| `ElementsProofs` | proofs about the NATS elements alone, and about the parts of the sum `Elements` | section 5 |
| `TracersProofs` | proofs about the parts of the sum `Tracers` | section 5 |
| `DataProofs` | proofs about all parts of the sum `DataPaths`: `LineFraming`, `NanoDet`, `Inference`, `Preprocess`, `RecordMeta` | section 5 |
| `S2Src` | s2src | a worker is an *epoch* with a channel, token, failure slot and error flag of its own; `Create*` is `create()` split at the waits, `UnlockStop` and `Stop`, which end in `Joined`, the replacement and the shutdown (joined or aborted), `Worker*` the read task |
| `NatsSink` | natssink with the event callback | `immediate` is a zero drain-timeout, `warned` that stop logged a loss; `RenderBegin` is render up to `try_send` (which runs under the state lock), `Worker*` is `publish_worker`, `Callback*` the client's event task |
| `NatsSrc` | natssrc with the event callback | `holder` says who owns the subscriber; `Create*` is `create()` split at its waits; `cancelled` the cancelled tokens |
| `StatsdExport` | pad counters and exporter of the statsd tracer | a series has one counter of `CounterSize` values that stands for buffers, bytes and buckets, which the code handles alike; `Push`, `Register`, `PushOrphan`, `Increment` are `update_pad`, `RemovePad` and `Retire` are `remove_pad_key`, `Worker*` is the export worker: `WorkerCollect` walks the map, `WorkerReceive` empties the channel, `WorkerEmit` sends a line, `WorkerRetain` drops cursors |
| `VlmAnalysis` | vlmanalysis | one worker at a time because `stop` returns only when it is gone; `Frame*` and `BatchOffered` are `collect_batch` and `enqueue_batch` with their early returns |
| `OcrsAnalysis` | ocrsanalysis and its worker | everything a start creates is indexed by the run; `StopFromHandler` is a stop from a message handler on the worker's thread, `HandlerBlocks` one that comes while start or stop joins that thread: it waits for the state lock and goes on no more |
| `PromServer` | prometheus tracer's constructed() and dispose(), HTTP server | `Polls` is the first half of `select_shutdown`, in which the flag is looked at; `Respond`, `GiveUp`, `Accept`, `AcceptFails` are what the future then does; `DropTasks` is the end of the runtime |
| `PromSeries` | prometheus pad entries and label-keyed series | `UpdatePad` looks in the pinned map, `Register` is the slow path under the lock, `IncrementEntry` counts in the entry in hand; `RemovePad`, `Unparent`, `Destroy` are the hooks |
| `PromPipelines` | state gauges of a pipeline, in both tracers | a hook and a scrape set four gauges one after the other, the scrape then writes them out one by one |
| `QueueIdentities` | cache of queue identities, in both tracers | a small graph of bins and queues whose edits take effect before their notification or hook; the rebuild walks up from one queue at a time |
| `QueueLimits` | cached limits of a queue, in both tracers | `Set` takes effect before `Notify`; a sample holds the entry's lock from its look at the cache to its store |
| `PadIntervals` | push intervals of the statsd tracer | a hook has its timestamp when it is called and takes the lock later |
| `StatsdWorker` | constructed(), dispose() and the export worker of the statsd tracer | `Lines` sends the data lines of a snapshot, `Report` one of the tracer's own counters, each of which may be refused |
| `LineFraming` | lineparse and lineenc | the adapter of the base class is external; `scanOffset`, `minFrameSize` are the element's |
| `NanoDet` | nanodettensordec | a row is decoded in each step; `scratch` is the vector that suppression compacts in place |
| `Inference` | tractinference, ortinference, model-info checks and caps | a plan is made at start, a frame fed at each buffer; both engines, both modes |
| `Preprocess` | packing of a video frame | one pixel in each step; a byte is its place in the plane |
| `RecordMeta` | record and message metadata | receive, carry (perhaps rewritten), send, for NATS and S2 |
| `ConsoleOutput` | consolesink, consoleprint, `output.rs` | an element holds a stream's lock while it gives a record's bytes in pieces |
| `ChatBackend` | one HTTP generation | `End` is the verdict after the last chunk or error |
| `Tracers`, `Elements`, `DataPaths` | sums of the modules above | see below |
| `MCDataPaths` | the inputs that `DataPaths` is checked with | texts, tensors, models, model-infos: section 3 |

**Sums.** `Tracers` instantiates seven modules, `Elements` five and `DataPaths` five
that share no state. A behaviour of a sum is a behaviour of one part, `part`,
chosen at the start, and the variables of the others rest (`OnlyOf`). One run
checks them all, each with its own bounds, at the sum of their sizes and not the
product; a property of a sum is that of the part it names. The assumptions of the
parts are definitions, which the sum assumes. Nothing is claimed about two parts
acting at once; they have nothing in common but the process.

`NatsSink` and `NatsSrc` include the callback of `connection.rs`; it runs as a
third process against the element and its worker. `S2Sink` composes with
`DurableLog` by a refinement mapping: `log` is the acknowledged prefix of what
the producer took, and `confirmed` is what a completed barrier vouches for.

Some decisions a reader may wonder about:

- `S2Sink` has one session, because `start()` builds a fresh `SharedQueue` and
  nothing of the former one is reachable. `S2Src` and the two analysis modules
  restart, because something does survive there (flush replacement, reaped
  workers, current-run counters).
- GStreamer's own locks are part of the guards: `create`, `unlock_stop` and
  `stop` of a source run under the stream lock, `unlock` does not; `render` holds
  the preroll lock; pads are deactivated before `stop`.
- `NatsSink` gives up a worker in one action, `StopAborts`, enabled from the moment the
  sender is dropped, for a zero drain timeout and an expired one. What differs is
  what is logged: an expired timeout always warns, a zero one only of messages that
  were in the channel (`AbortWarns`, and `StopJoined`, where the worker was faster).
- The error that `stop()` of s2sink returns is posted by the base class, which asks no
  `claim_error_post`: `StopReturns` counts that post, whatever was posted before.
- A settings choice (drop-on-full, start mode, analysis interval, frames per
  request) is a variable chosen at the start and constant during a run, so one
  run of the checker covers all of them.
- In `OcrsAnalysis` a handler on the worker stops the element (`StopFromHandler`) when no
  other lifecycle call is under way, since GStreamer's state lock lets in one at a time.
  If start or stop is joining that very worker, the handler waits for the lock and
  the joiner for the handler (`HandlerBlocks`): both are stuck for good. A handler's
  upward state change is rejected by `change_state`.


## 3. Runs, bounds and fairness

Every run without the word *violation* passes with every action of its module
taken. Each property has a mutant of the code that TLC finds under the very same
configuration. A property that is a conjunction (`Consistent`, `Progress` and the
like) joins the type invariant or a simple part to the part its mutant breaks.

| run | asks | bounds and why they are enough |
|---|---|---|
| S2SinkSafety | Is anything lost, is a barrier durable, is a wakeup lost, is every failure told, is this a durable log? | capacity 2, two in flight, 3 records: queue full, in flight full and a third record waiting at once; two EOS and one flush: a shared drain flag, an interrupted drain and a second request for it, and then stop |
| S2SinkLive | Do drains, stops and renders end, is everything acknowledged? | capacity and in-flight limit 1, 2 records, 1 EOS, 1 flush: each wait of the code occurs; liveness needs no more records than one ahead of another |
| S2SinkEos | *violation*, section 4 | one record, one EOS, one flush |
| S2Src | Are buffers consecutive, failures real, and does nothing hang? | three workers, so two replacements, with failures, stop and restart; a channel of one; two sequence numbers, the second being the largest (`u64::MAX` in the code) so that the end of the number space is met; a configured start at the second, which may be beyond the tail, and one relative to the tail, clamped or not |
| StatsdSafety | Do the cap, the accounts and the lines hold? | two pushing threads, two pads and a cap of one: a race to register at the cap and a slot freed by a removal; counters of 4 values and lines of at most 2, four pushes: wrap and chunks; the sink rejects lines |
| StatsdDelivers | Is everything counted emitted, and is the last export complete? | one of the two pads excluded, removals, a sink that accepts |
| StatsdRace | *violation*, section 4 | |
| Tracers | Does each part of the tracers keep its state right under its actors, do constructors and destructors return, do labels converge? | two clients with one connection each and a panic of the thread; two pads with equal labels among four, one excluded, a cap of two, two pushers, three pushes; two state changes; two queues, a bin in a pipeline, three changes of which two may be outside the bin API, so that a move and its undoing fall around a rebuild; two setters, three sets, three samples; two hooks, a clock to 3, four calls; one data line, one event and two refusals |
| Elements | NATS, OCR, console, HTTP: order, visible loss, silence after stop, whole records, honest verdicts, and do their calls and their work end? | sink: channel of 2, 4 messages: one in hand, a full channel and a rejected one; source: buffer of 2, 3 messages, 2 flushes, so that a token is replaced twice; OCR: two runs, three inputs, with handlers that stop and panics; console: a raw and a text element on each stream, two records; HTTP: limit of 3 bytes in chunks of up to 2 |
| DataPaths | Is what is computed from a buffer's data right? | texts of up to 5 bytes in chunks of up to 2, delimiters of one and two bytes and one that repeats its byte, limits of 1 and 2; two contracts and four rows of tensor data, maxima 1 and 2; two models, one with a symbol for two axes, and five model-infos, up to 3 tensors; frames of 1 or 2 by 1 or 2 with short, exact and padded rows; two names and values of headers |
| Vlm | Fates, generations, byte limit, end of stop | channel of 1, four inputs, batches of one or two frames, frames below and above the limit: one in flight, one queued, one that finds no room |
| VlmJump | *violation*, section 4 | one batch of three frames |

**What the properties say.** They are stated with a comment each at the end of
their module. The ones to read first: `RecordsConserved`, `CompleteMeansAcked`,
`StopOkMeansAcked`, `NoLostWakeup` and `LogImplemented` in `S2Sink`;
`DeliveredInOrder` and `EveryRecordDelivered` in `S2Src`; `PublishedInOrder` and
`LossIsReported` in `NatsSink`; `LossesExplained` in `NatsSrc`; `Consistent` (with `SeriesAccounted`
and `RetiredCursorsGone`), `LinesAddUp` and `FinalExportComplete` in
`StatsdExport`; `ClosedMeansSilent` and `RunAccounted` in `OcrsAnalysis`;
`Consistent` (with `RequestsAccounted`) and `GenerationsApart` in `VlmAnalysis`;
`NothingLeft` in `PromServer`; `ScrapedUnlessRobbed` in `PromSeries`;
`StaleIsMarked` and `LabelsConverge` in `QueueIdentities`; `IntervalsApart` in
`PadIntervals`; `LastReportIsComplete` in `StatsdWorker`; `FramesExactly` in
`LineFraming`; `ChoiceIsGreedy` in `NanoDet`; `InputsByName` and `CapsHonest` in
`Inference`; `PackingFaithful` in `Preprocess`; `StreamsWhole` in
`ConsoleOutput`. A property of a run over a sum (`SinkHonest`, `ServerConsistent`
and so on) is the conjunction of those of one part.

**Deadlock.** S2SinkSafety and S2SinkLive check it: after stop the sink has a
step that stutters. The other configurations say `CHECK_DEADLOCK FALSE`, since
the element is left stopped, or its bounded inputs used up; what must not hang
there is stated as liveness instead.

**Fairness.** Never more than the code's scheduling justifies:

- A thread inside a function goes on, and a tokio task that can run is polled:
  weak fairness of the steps of the streaming thread, the application's current
  call and the worker's local steps.
- A deadline that stays pending expires: weak fairness of `DrainTimeout`,
  `StopAbort`, `StopAborts`, and `Joined`, which in s2src aborts a worker that
  does not end in two seconds. Each is a
  `wait_timeout` or `tokio::time::timeout` in the code.
- Nothing is assumed about when the application calls, when buffers arrive or
  whether anybody flushes. Where a flush, once begun, must end for a property to
  make sense, it is a premise (`FlushesEnd` in `S2Src`), or GStreamer's part of
  the same operation (`UnlockStop` in `NatsSrc`).
- Nothing is assumed about a service: its answer is a *premise inside* the property
  that needs it (`ServiceAnswers`, `ClientAnswers`, `RequestsEnd`), so the
  properties that must hold with a dead service (`BarriersEnd`,
  `FlushAndStopReturn`, `LifecyclesReturn`) are checked without it in the same run.
  `OcrsAnalysis` does assume that the OCR engine returns: stop joins it without
  a timeout, and so does the code. A handler need not return: `LifecyclesReturn` makes one
  exception, `Deadlocked`, for the handler that waits for the call that joins it.
- In a sum each part brings its own fairness (`FairSpec` of `Tracers` and
  `Elements`). Weak fairness of a union of steps of different parts is that of
  each, since a behaviour has one part. In the tracers: the server thread's
  runtime and the export worker run (`Machinery`), constructed() and dispose() go
  on (`Callers`), and thirty seconds pass (`Time`). A client need never connect,
  finish its request or go.


## 4. What the runs found

Three places where the code and its documents disagree.

- **S2SinkEos**: `net/s2/README.md:151` promises that a successful EOS means every
  preceding record was acknowledged. When `unlock()` interrupts the drain, `event`
  forwards EOS all the same (`s2sink/imp.rs:615`). Trace: a record is rendered, EOS
  waits, a pause unlocks, EOS is forwarded with the record still queued. Nothing is
  lost thereby: `StopOkMeansAcked` holds also after it.
- **StatsdRace**: `remove_pad_key` takes a pad out of the map (`metrics.rs:467`)
  before it puts the series into the retirement channel (`:469`). An export
  between the two sees the series in neither place and drops its cursor; the next
  one finds the retirement, starts from a fresh cursor and emits the whole counter
  again, although the README says deltas are since the last accepted emission.
- **VlmJump**: `collect_batch` remembers the timestamp of every buffer as the last one
  seen, also when it has none (`vlmanalysis/imp.rs:245`). A backward jump across a
  buffer without timestamp goes unnoticed, and a batch mixes both sides, against
  `analytics/vlm/README.md:126-127`. (ocrsanalysis keeps the last known timestamp;
  its `SampledApart` holds with such buffers.)

What the checks show without a disagreement with a document, and a user may want to
know:

- A failure of s2sink can be two errors on the bus. The worker and the EOS handler ask
  `claim_error_post` before they report, so that one of them does; but `stop()` returns the
  failure as its error (`s2sink/imp.rs:556`), which the base class posts without asking.
  `SignalsArrive` allows this second post to a `stop()` that fails, and no other.
- ocrsanalysis can deadlock with an application's message handler. A handler on the worker
  may stop the element (the test at `ocrsanalysis/tests.rs:746` does); if `stop()` in another
  thread already joins that worker (`ocrsanalysis/imp.rs:568`), under the element's state
  lock, the handler's state change waits for the lock and the join for the handler.
  `LifecyclesReturn` says that this, `Deadlocked`, is the only way a lifecycle call of
  these elements hangs.
- natssink with `drain-timeout` 0 warns only if messages were in the channel
  (`natssink/imp.rs:341`): the message in the worker's hand, and what was published and
  not flushed, are lost without a word. `LossIsVisible` says that this is the only
  silent loss.
- Two pads with equal labels share a series, and removing one takes the series out
  of the scrape while the other pad still counts into it (`robbed` in
  `PromSeries`). `ScrapedUnlessRobbed` says that this is the only way a tracked
  pad's counts are not seen.
- The record and delimiter of lineenc are read back by lineparse unless the record
  and the delimiter after it hold the delimiter earlier (`Plain` in `LineFraming`):
  a record that ends with the first byte of a delimiter of two equal bytes is cut.
- A queue or a bin that is moved outside the bin API while the queue identities are rebuilt,
  and moved back before the fallback check, leaves a label of the place it was in: the check
  compares the parents that the watches recorded with the present ones, and these agree again
  (`metrics.rs:647-682` of the prometheus tracer, `:555-596` of the statsd tracer), until the
  next edit that sets the flag. `StaleIsMarked` says
  that this, the history variable `torn`, is the only way a wrong label goes unmarked.
- After a failed write, bytes of a record remain in the process's buffer for standard
  output and come out before the next record, of whichever element.


## 5. What is proved

`S2SinkProofs` proves, for every `Capacity`, `MaxUnacked`, number of records, EOS
events and flushes, with and without service failures and timeouts:

| theorem | statement |
|---|---|
| `TypeCorrect` | `Spec => []TypeOK` |
| `Invariant` | `Spec => []IInv` |
| `NothingLost` | `Spec => []RecordsConserved` |
| `BarrierIsDurable` | `Spec => []CompleteMeansAcked` |
| `StopIsDurable` | `Spec => []StopOkMeansAcked` |
| `FailureStays` | `Spec => FailureIsFinal` |
| `SignalsAlwaysArrive` | `Spec => []SignalsArrive` |
| `Implementation` | `Spec => LogImplemented`, that is `Spec => Log!Spec` |

The assumptions are those of `S2Sink`: capacities are positive naturals, bounds
are naturals, switches are Booleans. TLC evaluates them in each S2Sink run.

The argument. `CompleteMeansAcked` is not inductive: a drain becomes complete
because its flag is set or the worker is done, so one must know what a set flag
and `done` stand for. `IInv` says it:

- `RecordsConserved`: `accepted = sent \o cur \o records`, the conservation law.
- `HandsEmpty`, `StartedOnce`, `AckedWasSent`: where the worker can hold a
  record, and that acknowledgements are a prefix of what was sent.
- `EndedClean`: a worker that has ended without failure left the queue empty,
  closed and fully acknowledged.
- `FlagsFresh`: flags are numbered up to `drains`; the one that waits in the
  queue is not set yet and is not the one the worker flushes for.
- `FlagsCover`: the heart of the proof. Everything the holder of a flag wanted is
  acknowledged once the flag is set, and is in the producer's hands while the
  worker flushes for it. The second part holds because the worker takes a drain
  request in the critical section in which it finds the queue empty.
- `StopPhase`: nothing is accepted while a thread drains, `stop` closes the queue
  before it drains, and its drain is never interrupted by a flush; so what it
  asked for is everything.

Each step lemma treats one conjunct; most actions leave its variables alone and
are dispatched by a frame lemma (`RecordsFrame`, `DrainsFrame`, `OutcomesFrame`,
`LogFrame`). `Implementation` uses the invariant at every step: `Persist` is an
acknowledgement (by `RecordsConserved` it is of the next accepted record),
`Confirm` is a drain that evaluates to complete (everything accepted is
acknowledged then, by `FlagsCover`, `EndedClean` and `StopPhase`), and the
rest stutter. `RenderNumbered` gives that the record accepted is one of
`1..MaxRecords`.

`SignalsArrive` (no wakeup is lost, every failure is told) needs less than `IInv`. A
thread goes to sleep in the critical section in which it found its condition false, and
what makes the condition true belongs to a step that leaves its author at the place where
it notifies. `NoLostWakeup` names these places for each kind of waiter, and is inductive
with `TypeOK` and `StartedOnce`. That a stored failure reaches the bus, once and once
more from a `stop()` that fails, adds who is about to put it there (`FailureOnItsWay`),
that whoever reports has stored one (`FailureBehind`), and that `stop()` runs when nobody
renders and returns when the worker is over (`StopAlone`).

`VlmProofs` proves, for every queue capacity, batch size, frame and batch limit that
the settings allow, and any number of runs and inputs:

| theorem | statement |
|---|---|
| `Invariant` | `Spec => []IInv` |
| `LimitNeverMet` | `Spec => []BatchBytesSuffice` |
| `MessagesKeepGeneration` | `Spec => []GenerationsApart` |
| `RequestsStayAccounted` | `Spec => []Consistent` |

It rests on `SettingsAssumption`, which is what `validate_settings` checks:
`frames-per-request * max-frame-bytes <= max-batch-bytes`. The invariant says that
an incomplete batch is shorter than frames-per-request, that its bytes are at most
max-frame-bytes for each of its frames, and that a batch is of one generation in
the sampler, in the channel, in the worker's hands and in its message. The step
that matters is `OneMoreFits`: a frame within its own limit fits the batch, because
the batch still lacks at least one frame. A missing reset of the byte count
(`BytesStay`) or of the frames on an event (`KeepsFrames`) breaks the invariant at
once, and a message that read the current generation would break the second
theorem.

`Consistent` says that every request has one fate and that the four counters and the one
error say so. Its proof follows the requests by their numbers: the answered ones are
older than the one in hand, that is older than those that wait (`InOrder`), and these three
with the requests that bounced, were refused or were abandoned are all numbers given so
far, in one place each (`Places`). A counter lags its event by a place in the code, which
`Uncounted` (the batch is in the channel and `submitted` not raised) and `Unposted` (the
answer is decided and not posted) say; so the tallies are equations, and not bounds.

`S2SrcProofs` proves, for every capacity of the channel, every stream and start setting
and any number of flushes, restarts and failures:

| theorem | statement |
|---|---|
| `SourceResumes` | `Spec => []DeliveredInOrder` |
| `SourceIsConsistent` | `Spec => []Consistent` |

`DeliveredInOrder` speaks of what was delivered, but what keeps it is where the current
worker stands: `NextIsDue` says that while that worker is live (started and not
cancelled) what it hands out next, be it in `create()`'s hands, first in the channel or
next in the session, is the record behind the last one delivered. It rests on `Flow` (a channel
holds consecutive records up to the worker's position), on `Turns` (`create()` works for the
current worker and every other worker is cancelled, so none of them delivers) and on
`Fates` (an uncancelled worker that is over has failed, so `create()` does not take a
flush for a failure). A replacement starts behind `last`, which `create()` commits after it
looked for a flush once more: this is why a record held during a flush is read again.

`ElementsProofs` proves of the NATS elements and `OcrsProofs` of ocrsanalysis alone, and
`ElementsProofs` of them and the others beside the other elements of the sum, for every capacity and any number of messages, flushes, runs and inputs, with and without failures:

| theorem | statement |
|---|---|
| `ElementsProofs!SinkIsHonest` | the sink's own `Spec => [](Consistent /\ PublishedInOrder /\ LossIsReported)` |
| `ElementsProofs!SourceIsHonest` | the source's own `Spec => [](Consistent /\ LossesExplained)` |
| `OcrsProofs!OcrsIsQuiet` | `Spec => [](Consistent /\ PostedInOrder /\ ClosedMeansSilent)` |
| `OcrsProofs!OcrsIsAccounted` | `Spec => [](RunAccounted /\ SampledApart)` |
| `ElementsProofs!SinkStaysHonest` | `Spec => []SinkHonest` |
| `ElementsProofs!SrcStaysHonest` | `Spec => []SrcHonest` |
| `ElementsProofs!OcrsStaysQuiet` | `Spec => []OcrsQuiet` |
| `ElementsProofs!OcrsStaysAccounted` | `Spec => []OcrsAccounted` |
| `ElementsProofs!ConsoleStaysConsistent` | `Spec => []ConsoleConsistent` |
| `ElementsProofs!ChatStaysConsistent` | `Spec => []ChatConsistent` |

The sink. That a worker which ended lost nothing, or somebody was told, needs the reason
why each worker ends: its own failure was reported, the run was rejected, `stop()` gave it
up with a warning or with an empty channel (`SinkGivenUp`), or
nothing was left when it flushed (`SinkFates`). The last reason rests on the conservation law
of a worker that has not failed (`PublishedInOrder`), at the moment in which it finds the
closed channel empty. `SinkTold` ties the reports to the flags that claim them, and `SinkCounted`
says that a late message is the one `render()` had looked for before the failure.

The source. That every message is in one place rests on the order in which messages pass
(`Ordered`): what was delivered is older than what `create()` holds, and that is older than
what waits. The bound of the losses rests on the tokens: every token before the current one
was cancelled (`Tokens`), and `create()` loses one message at most under each, and then
ends (`Few`). `Hands` says who has the subscriber at each place of `create()`, so that a
`stop()` that overtakes it leaves it to `create()` to unsubscribe.

OCR analysis. `Alone`: a living worker is the one of the last run, and either in the
slot or being joined, so `start()` never begins a second one. `Ahead`: what was posted is
older than what the worker has in its hands, that is older than what waits in the channel,
and all were numbered. `Silent`: when a request is barred (undecided as `stop()` closes
admission) its run's admission is closed for good and the worker is not past its check.

The accounts of OCR analysis. What the counters of a run lack is in the channel or in the
engine, exactly, until `stop()` or a panic lets the worker leave a job undone, and no more
than that afterwards (`OutcomesTold`); and a worker's end was told by whoever closed
admission, or once by the stream that found it gone (`Ends`, `Reports`). Requests of a
generation are an interval apart because the sampler's last selected timestamp is that of
the latest request (`Spaced`).

The console. A stream is cut into turns, one for each time an element had its lock. A turn
records where it began (`from`, a history), and the invariant says that it ends where the
next one begins and holds as much of its record as was given (`Cut`); only the last can be
open, and then its element holds the lock and has the rest of the record (`Open`). A
failed write ends its turn, so what it leaves in the process's buffer stays its own.

The HTTP generation. The request is fixed before anything is sent, and the status is known
before the body is read and never forgotten; so the verdict that `GenerationHonest` asks for
is decided by it, whatever the body, the limit or the timeout do later.

In the sum each step of another element is a stutter of these; that an instance of
the OCR model and an instance of its proofs mean the same is proved action by action.

`StatsdProofs` proves of the pad counters, for any number of threads, pads, series, pushes and
removals, and any sizes of counters and lines:

| theorem | statement |
|---|---|
| `SeriesStayAccounted` | `Spec => []Consistent` |
| `RetirementIsFinal` | `Spec => FinalIsFinal` |
| `LinesAlwaysAddUp` | `Spec => []LinesAddUp` |
| `LastExportIsComplete` | `Spec => []FinalExportComplete`, if `Deliverable` |

`Counted` and `Places` are `SeriesAccounted` in a form that steps preserve: the tracked
entries and their identifiers are as many as `active` says and no two pads share a
series; every identifier up to `nextId` is in the map, in the remover's hands, in the channel,
received or dropped, and in one of them only. `EnoughIds` bounds the identifiers by the
pushes, counting the threads that may still register. `Snapshots` carries the second
theorem: what the iteration over the map saw and the worker received, the worker received in
this very export, since a series that is received has left the map and does not come
back; so no later export has it to tell. Besides the sizes the proofs assume that there
is a pad, and that the marks of the lock's other owners are no threads.

`LinesAddUp` speaks of behaviours without a removal so far, because of the double count in
section 4. In these an export only forgets cursors of series it did not see, and it sees
every series that has one (`CursorsSeen`), so a cursor stands where the sum of the accepted
lines stands, modulo the counter's size (`Summed`), whatever lines the sink rejected.

`FinalExportComplete` holds of a sink that accepts, a line that can carry whatever was counted
and a counter that does not wrap: `Deliverable`, which is the hypothesis of the theorem and
true of the run that checks it (`StatsdDelivers`). Without it the code promises nothing of
the last export, which has no later one to retry in. Until the worker has exited, what is
owed of a series is sent, in the worker's hands, or of a pad that the last export has still
to visit (`Coming`).

`TracersProofs` proves of the parts of the tracers, for any clients, pads, threads, setters,
hooks and bounds:

| theorem | statement |
|---|---|
| `ServerStaysConsistent` | `Spec => []ServerConsistent` |
| `SeriesStayConsistent` | `Spec => []SeriesConsistent` |
| `GaugesStayConsistent` | `Spec => []GaugesConsistent` |
| `IntervalsStayConsistent` | `Spec => []IntervalsConsistent` |
| `QueuesStayConsistent` | `Spec => []QueuesConsistent` |
| `WorkerStaysConsistent` | `Spec => []WorkerConsistent` |

The assumptions are those of the parts, which `Tracers` conjoins in `TracersAssumption` and
TLC evaluates: the marks for "nobody" are no clients or limits, there is a pad, a pad has
one element, one of the buckets is above every interval (in the code the last is
unbounded), there is a queue, queues and bins are not each other nor the marks for no parent,
and bounds are naturals.

The server. Whoever is polled holds the runtime's one thread (`ServerPolls`), so the count of
a connection goes down once, whether its client, its deadline, the drain or the runtime's
end closes it; and a thread that can be joined has none left, since each way out of the
runtime drops its tasks first (`ServerPlaces`). A client that is still open was not
answered, which makes the count of failed answers exact (`ServerCounts`).

The series. The lock makes the cap exact (`SeriesCap`); new series are paid for by the pushes
that may register them (`SeriesNumbers`); a label set of the families has a pad tracked
under it (`SeriesFamily`), because the removal that takes away the pad takes away the
series. Each push in flight has a number that one thread holds and no entry has counted
(`SeriesInFlight`), so an increment counts one push more and no push twice (`SeriesCounted`).

The gauges. The sampler is alone with the cache from its look at it to its store: what it
has read so far is the queue's value, or the setter that changed it has not notified yet
(`LimitTruth`), and that notification will clear the cache. A scrape that nothing disturbed
saw the state the pipeline still has (`PipeSeen`); the gauges its refresh has passed are right
(`PipeRefreshed`), and those it has written are the gauges' values (`PipeWritten`).

The intervals. A pad's data reach to its last push, or to its last reset: no interval ends
later, no reset the data know is later, and what the intervals add up to is less
(`IntervalTimes`). A hook that comes late with an earlier time measures nothing, so a new
interval begins where the data reach to. Buckets grow with their bounds and the widest counts
every sample (`IntervalWhole`), also in the copy that the worker exports.

The worker. Its report says the diagnostics in one order, and the emit errors come before
the last line that can be refused: each diagnostic that the report has passed is told, or was
raised or refused since (`WorkerTells`), and so are all when it has exited.

The queue identities. Bins are in the pipeline or nowhere in the model, so the path of an object
has three names at most and can be written without recursion (`Line`, and `PathIsLine` that
it is the path); this is what spares the induction over the path. While nothing is marked
(`Quiet`: no flag, no hook to come, no move that the next check will find, none torn), a
rebuild has watched each object on the way to the root of each queue it is done with
(`SeenAreWalked`, closed under parents but for where the walk stands), and a label, or the
prefix of one, is the path or has an object on the path whose rename is still to be
notified (`DoneAreSettled`, `PrefixesAreRight`). A direct move of a watched object during a
rebuild shows when the parents are compared, and one of an object not seen yet does no harm.
When the rebuild ends, the same holds of the graph that the watches recorded
(`QueueSettled`), which no longer changes; and the check makes that graph the present one
(`QueueMatch`).

`DataProofs` proves of the elements whose hazard is what they compute, for any bytes,
delimiters and buffers, rows, classes and bounds, header names and values, models, model-infos
and tensors, frames, strides and paddings:

| theorem | statement |
|---|---|
| `FramingStaysConsistent` | `Spec => []FramingConsistent` |
| `NanoDetStaysConsistent` | `Spec => []NanoDetConsistent` |
| `InferenceStaysConsistent` | `Spec => []InferenceConsistent` |
| `MetaStaysConsistent` | `Spec => []MetaConsistent` |

It assumes what `DataPaths` states in `DataPathsAssumption` and TLC evaluates. The names of a
model's inputs and outputs tell them apart, as ONNX requires of a graph, and so do those of
the groups of a model-info, as a key file has one group to a name (`ModelsAssumption`).
The sides of a frame are positive and paddings are integers (`FrameAssumption`). The
delimiters are texts of bytes, one of them of one byte as the default is, and the bounds of a
record are numbers (`FramingAssumption`). The contracts of nanodet are told apart by their
size and number of points, and each has the points of its grids, as the four in the code
are and have (`ContractsCover` proves the latter of them); scores are integers or not finite,
and bounds are numbers (`NanoDetAssumption`).

Three of these properties compare a loop over the data with a definition of the whole, so
their proofs go by induction along the data. The library's induction takes the predicate as
an operator; `NatSets` and `UpTo` of `DataProofs` take it as a set of numbers, which is
enough here. With them a recursive function has values (`StepsExist` from the start,
`BackExist` from the end), flattening is a homomorphism (`FlattenConcat`) and a finite set
is sorted by rank.

The framing. The reference cuts a whole text from its start, while the parser has seen a part
of the text only. What relates them is `Cutting`: some lines and a place are a cutting of a
text if *every* text that begins with it is cut into those lines and then as the
reference goes on from that place. It holds at the start with no lines, the bytes still to come
keep it (`CuttingGrows`), and the first delimiter in the bytes not yet cut takes it one
line further (`CuttingNext`). The invariant (`StreamInv`) says that the records pushed are those
of a cutting whose place is where the adapter begins (`Pushed`); that no delimiter begins before
the scan offset, and that none that began there is cut off (`Scanned`, which resuming
at the adapter's end would break); and that a parser which waits has no delimiter and is below its
lookahead (`Waits`), which holds because it asked for one byte more than it saw. When no
delimiter is left, the cutting is the whole reference (`CuttingEnds`). The encoder's round trip adds
that what it sent, as long as each record is plain, is itself a cutting of the text
(`RoundInv`).

The detections. Each candidate of a frame is of a row of its own, so the order in which they
are sorted is total and the sorted vector has each of them once, in its place by rank
(`RowsInv`). The loop then writes into the vector it reads: it keeps as many as it has
places before the one it reads (`retained < index`), so what is not yet read is where sorting
put it, what is kept is in order and apart, and each candidate that was read is kept or
overlaps a kept one before it (`Suppressing`). That is the greedy choice when the vector is
cut. That an offer negotiates as its own contract is that caps of one size and number of
points are of one contract (`OffersNegotiate`).

The metadata. A header map is attached as one array of pairs, a name after the other
in any order, and read back by appending: the values of a name in a flattened sequence of blocks
are those of its block (`ValuesOfConcat`, and the induction over the blocks). Merging puts
them behind the fixed ones. The invariant (`MetaInv`) says of what is attached that it is
one of the arrays of what was received, or the record itself, until somebody edits it; of edited
metadata it says only that what can be read is a header map.

The inference. Since `start()` binds each declaration to an input of its name and there are
as many of both, the binding is one to one, and each input is served (`SlotsAreExact`). A
buffer that names no tensor twice and leaves none out gives each declaration the one
tensor of its id (`CollectedById`). A declared shape that fits the model's, and that a
tensor satisfies, gives the tensor the model's shape, if nothing is left open in it or if
the engine checks it once more (`ShapesAgree`): this is where the two engines differ. Answers
depend on the plan alone, and a stopped element's plan is gone, so an answer is about
the plan in use (`Answered`). Caps are honest whatever the state (`CapsAreHonest`).

The packing. Where the values of a pixel go and the bytes they come from are sums of
multiples of sides and strides; that no two pixels share one and none is left over is
division with rest (`DestinationsAreTheTensor`, `BytesAreApart`), which needs the
stride to be no less than the row, as `preprocess()` checks. The rest is a loop's invariant: the
pixels that were copied are right (`PackingInv`).


## 6. What is only model-checked, and what is not modelled

Only model-checked:

- All liveness: the prover has no support for fairness and ENABLED.
- The three runs that expect a violation: they show a counterexample and prove nothing.

Every invariant and every action property of the passing runs is stated by a theorem of
section 5; the temporal properties left to TLC are liveness properties.

Not modelled, and why:

- *Configuration, credentials, TLS* (`config.rs`, most of `connection.rs`): data code
  that keeps no state.
- *The OCR backend, the inference runtimes and the CoreML cache*: each is one call whose outcomes
  (result, error, panic) are inputs of the modelled element.
- *Text*: the key-file parser of a model-info, JSON, JPEG, the exposition format of a
  scrape and the text of a statsd line. What is read from them or said by them is modelled.
- *Two settings of s2src*: `start-mode=timestamp`, whose first record is the service's
  choice, and `ignore-command-records` (`s2src/imp.rs:555`), which the service's session
  applies.
- *Dead weak references* in the maps of the prometheus tracer: a scrape also removes pipelines
  and queues that it finds dead (`metrics.rs:613-624`, `:679-682`, `:722-725`). In the models a
  pipeline goes by the destruction hook, and queues live as long as the run.
- *A tract model of open rank*: its shape is accepted without a look at the declared
  one (`tract-inference/src/engine.rs:334`); the models' inputs have a rank.
- *consolesrc*: a bin around GStreamer's `fdsrc`.
- *Bins in bins*: `QueueIdentities` has bins in the pipeline only, and `QueuesStayConsistent` is
  about such graphs, with any number of bins and queues.
- *Floating point*: scores, distributions and coordinates of nanodet are small integers, with
  one that stands for what is not finite; rounding is not modelled.
- *Start failures*: elements whose `start` fails validation stay stopped; only
  successful starts are modelled, except for the tracers, whose handshake fails in every way,
  and the inference elements. `VlmAnalysis` states what validation guarantees
  as an assumption on its constants.
- *vlmanalysis and message handlers*: a handler that stops the element on a
  runtime thread makes `stop` block on the runtime from inside it, where tokio
  panics. It is listed as a hazard without a property.
- *Upgrade failures* of weak references in workers: the element is being disposed then.

## 7. Plan

In this order; what is done is marked.

1. `DurableLog`, `S2Sink`, `S2SinkProofs`: the sink and its abstract log (done).
2. `S2Src`, `NatsSink`, `NatsSrc`: the other network elements, and `S2SrcProofs`,
   `ElementsProofs` (done).
3. `StatsdExport`: pad counters and export, and `StatsdProofs` (done).
4. `OcrsAnalysis`, `VlmAnalysis`: the analysis workers, and `OcrsProofs`, `VlmProofs`
   (done).
5. `PromServer`, `PromSeries`, `PromPipelines`, `QueueIdentities`, `QueueLimits`,
   `PadIntervals`, `StatsdWorker`, composed in `Tracers`, and `TracersProofs` (done).
6. `LineFraming`, `NanoDet`, `Inference`, `Preprocess`, `RecordMeta`, composed in
   `DataPaths`, and `DataProofs` of all five (done).
7. `ConsoleOutput`, `ChatBackend`, composed with the NATS elements and OCR analysis in
   `Elements`, and `ElementsProofs` (done).
8. What is left to prove: of `QueueIdentities`, the same with bins of any depth.
