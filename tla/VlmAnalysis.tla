---------------------------- MODULE VlmAnalysis ----------------------------
(***************************************************************************)
(* vlmanalysis (analytics/vlm/src/vlmanalysis/imp.rs): the streaming       *)
(* thread samples frames into batches and offers each batch to a bounded   *)
(* channel; a worker on the tokio runtime sends one request per batch to   *)
(* the model server and posts its outcome; stop() drops the sender and     *)
(* waits, at most drain-timeout, for the worker.                           *)
(*                                                                         *)
(* On every path stop() returns only when the worker is gone, and nothing  *)
(* but start() makes one: there is one worker at a time, and the variables *)
(* below are those of the current run.                                     *)
(***************************************************************************)
EXTENDS Naturals, Sequences, FiniteSets, FiniteSetsExt, SequencesExt

CONSTANTS
  Intervals,      \* the values analysis-interval may have
  BatchSizes,     \* the values frames-per-request may have
  QueueCapacity,  \* queue-capacity
  MaxFrameBytes,  \* max-frame-bytes
  MaxBatchBytes,  \* max-batch-bytes
  Panics,         \* may the worker task panic in a request?
  MaxPts,         \* bound: timestamps are 0..MaxPts
  MaxRuns,        \* bound: starts
  MaxInputs       \* bound: buffers, stream-start, segment and flush-stop events of a run

\* validate_settings: no batch of the largest frames exceeds max-batch-bytes.
ASSUME SettingsAssumption ==
  /\ BatchSizes \subseteq Nat \ {0} /\ {QueueCapacity, MaxFrameBytes} \subseteq Nat \ {0}
  /\ MaxBatchBytes \in Nat
  /\ \A n \in BatchSizes : n * MaxFrameBytes <= MaxBatchBytes
ASSUME VlmAssumption ==
  /\ Intervals # {} /\ BatchSizes # {} /\ Intervals \subseteq Nat /\ Panics \in BOOLEAN
  /\ {MaxPts, MaxRuns, MaxInputs} \subseteq Nat

VARIABLES
  started, setting,        \* State::Started; analysis-interval and frames-per-request
  lpc,                     \* stop(): "idle" or "join"
  sampler, generation, nextId,
  spc,                     \* streaming thread: "idle", or "count" after its batch was taken
  queue, wpc, hand,        \* the channel; the worker and its batch
  errorPosted, count,      \* error_posted, the four counters
  answered,                \* history: <<request-id, generation, frames>> of the worker's messages
  bounced, refused,        \* history: requests that found the queue full, or no worker
  abandoned,               \* history: requests stop() or a panic gave up
  rejected, oversized,     \* history: frames too large alone, and too large for the batch
  fatal,                   \* history: errors posted by the stream
  run, inputs

sampleVars == <<sampler, generation, nextId>>
workVars   == <<queue, wpc, hand>>
tallyVars  == <<errorPosted, count, fatal, rejected, oversized>>
fateVars   == <<answered, bounced, refused, abandoned>>
lifeVars   == <<started, setting, lpc, run>>
vars == <<lifeVars, sampleVars, spc, workVars, tallyVars, fateVars, inputs>>

NoCounts == [submitted |-> 0, completed |-> 0, failed |-> 0, dropped |-> 0]

\* Timestamps are sets of at most one element; {} is no timestamp.
FreshSampler == [seen |-> {}, at |-> {}, withoutPts |-> FALSE, frames |-> <<>>, bytes |-> 0]
NoBatch == [id |-> 0, generation |-> 0, frames |-> <<>>]
Settings == [interval : Intervals, perRequest : BatchSizes]
-----------------------------------------------------------------------------
Init ==
  /\ started = FALSE /\ setting \in Settings /\ run = 0 /\ lpc = "idle" /\ spc = "idle"
  /\ generation = 1 /\ nextId = 1 /\ sampler = FreshSampler
  /\ queue = <<>> /\ wpc = "exited" /\ hand = NoBatch
  /\ count = NoCounts /\ errorPosted = FALSE
  /\ answered = <<>> /\ bounced = {} /\ refused = {} /\ abandoned = {}
  /\ rejected = 0 /\ oversized = 0 /\ fatal = 0 /\ inputs = 0

Start ==
  /\ ~started /\ lpc = "idle" /\ run < MaxRuns
  /\ started' = TRUE /\ setting' \in Settings /\ run' = run + 1
  /\ generation' = 1 /\ nextId' = 1 /\ sampler' = FreshSampler
  /\ queue' = <<>> /\ wpc' = "recv" /\ hand' = NoBatch
  /\ count' = NoCounts /\ errorPosted' = FALSE
  /\ answered' = <<>> /\ bounced' = {} /\ refused' = {} /\ abandoned' = {}
  /\ rejected' = 0 /\ oversized' = 0 /\ fatal' = 0 /\ inputs' = 0
  /\ UNCHANGED <<lpc, spc>>

\* stop(): the sender is dropped; drain-timeout zero aborts at once.
Stop ==
  /\ started /\ lpc = "idle" /\ spc = "idle"
  /\ started' = FALSE /\ lpc' = "join"
  /\ sampler' = FreshSampler
  /\ UNCHANGED <<setting, run, generation, nextId, spc, workVars, tallyVars, fateVars, inputs>>

StopJoined ==
  /\ lpc = "join" /\ wpc = "exited" /\ lpc' = "idle"
  /\ UNCHANGED <<started, setting, run, sampleVars, spc, workVars, tallyVars, fateVars, inputs>>

\* What the worker had not answered is given up with it.
WorkerDies ==
  /\ wpc' = "exited" /\ hand' = NoBatch /\ queue' = <<>>
  /\ abandoned' = abandoned \union ({hand.id} \ {0}) \union {queue[k].id : k \in 1..Len(queue)}

\* The worker is aborted at an await: at once, or when drain-timeout is over.
StopAborts ==
  /\ lpc = "join" /\ wpc \in {"recv", "request"} /\ WorkerDies
  /\ UNCHANGED <<lifeVars, sampleVars, spc, tallyVars, answered, bounced, refused, inputs>>
-----------------------------------------------------------------------------
\* collect_batch: a backward jump advances the generation and empties the sampler.
Backward(pts) == \E p \in pts, q \in sampler.seen : p < q
GenerationAfter(pts) == IF Backward(pts) THEN generation + 1 ELSE generation
Sampled(pts) == [(IF Backward(pts) THEN FreshSampler ELSE sampler) EXCEPT !.seen = pts]

Selected(pts) ==
  LET s == Sampled(pts)
  IN IF pts = {} THEN setting.interval = 0 \/ (~s.withoutPts /\ s.frames = <<>>)
     ELSE s.at = {} \/ setting.interval = 0 \/ \A p \in pts, q \in s.at : p >= q + setting.interval

FitsBatch(pts, size) == Sampled(pts).bytes + size <= MaxBatchBytes
Fits(pts, size) == size <= MaxFrameBytes /\ FitsBatch(pts, size)

\* The sampler with one more frame. A frame is remembered with its PTS and, as
\* history, the generation it was seen in.
Collected(pts, size) ==
  LET s == Sampled(pts)
  IN [s EXCEPT !.withoutPts = @ \/ pts = {},
               !.at = IF pts = {} THEN @ ELSE pts,
               !.frames = Append(@, [pts |-> pts, generation |-> GenerationAfter(pts)]),
               !.bytes = @ + size]
BytesStay(s) == [s EXCEPT !.frames = <<>>]                \* mutant: bytes not reset
Emptied(s) == [s EXCEPT !.frames = <<>>, !.bytes = 0]

\* Buffers reach the element while it is started, on the streaming thread.
Buffer(pts) ==
  /\ started /\ lpc = "idle" /\ spc = "idle" /\ inputs < MaxInputs
  /\ inputs' = inputs + 1 /\ generation' = GenerationAfter(pts)

FrameSkipped(pts) ==
  /\ Buffer(pts) /\ ~Selected(pts)
  /\ sampler' = Sampled(pts)
  /\ UNCHANGED <<lifeVars, nextId, spc, workVars, tallyVars, fateVars>>

\* post_input_error: the frame is too large; it keeps its place in the sampler.
FrameRejected(pts, size) ==
  /\ Buffer(pts) /\ Selected(pts) /\ ~Fits(pts, size)
  /\ sampler' = Sampled(pts)
  /\ count' = [count EXCEPT !.failed = @ + 1] /\ rejected' = rejected + 1
  /\ oversized' = IF size <= MaxFrameBytes THEN oversized + 1 ELSE oversized
  /\ UNCHANGED <<lifeVars, nextId, spc, workVars, errorPosted, fatal, fateVars>>

FrameCollected(pts, size) ==
  /\ Buffer(pts) /\ Selected(pts) /\ Fits(pts, size)
  /\ Len(Collected(pts, size).frames) < setting.perRequest
  /\ sampler' = Collected(pts, size)
  /\ UNCHANGED <<lifeVars, nextId, spc, workVars, tallyVars, fateVars>>

\* enqueue_batch: taken, dropped because the channel is full, or refused because
\* the worker is gone, which is reported once.
Room == Len(queue) < QueueCapacity
Report == errorPosted' = TRUE /\ fatal' = IF errorPosted THEN fatal ELSE fatal + 1

BatchOffered(pts, size) ==
  LET s == Collected(pts, size)
      batch == [id |-> nextId, generation |-> generation', frames |-> s.frames]
  IN /\ Buffer(pts) /\ Selected(pts) /\ Fits(pts, size)
     /\ Len(s.frames) = setting.perRequest
     /\ sampler' = Emptied(s) /\ nextId' = nextId + 1
     /\ \/ /\ wpc # "exited" /\ Room
           /\ queue' = Append(queue, batch) /\ spc' = "count"
           /\ UNCHANGED <<errorPosted, count, fatal, bounced, refused>>
        \/ /\ wpc # "exited" /\ ~Room
           /\ count' = [count EXCEPT !.dropped = @ + 1] /\ bounced' = bounced \union {nextId}
           /\ UNCHANGED <<queue, spc, errorPosted, fatal, refused>>
        \/ /\ wpc = "exited" /\ Report /\ refused' = refused \union {nextId}
           /\ UNCHANGED <<queue, spc, count, bounced>>
     /\ UNCHANGED <<lifeVars, wpc, hand, rejected, oversized, answered, abandoned>>

\* The batch is counted after the worker could have seen it; stop() waits meanwhile.
CountSubmitted ==
  /\ spc = "count" /\ spc' = "idle" /\ count' = [count EXCEPT !.submitted = @ + 1]
  /\ UNCHANGED <<lifeVars, sampleVars, workVars, errorPosted, fatal, rejected, oversized,
                 fateVars, inputs>>

\* sink_event: stream-start, segment and flush-stop.
KeepsFrames == [FreshSampler EXCEPT !.frames = sampler.frames, !.bytes = sampler.bytes]
                                                          \* mutant: batch not discarded
Discarded == FreshSampler
ResetGeneration ==
  /\ started /\ lpc = "idle" /\ spc = "idle" /\ inputs < MaxInputs
  /\ inputs' = inputs + 1
  /\ generation' = generation + 1 /\ sampler' = Discarded
  /\ UNCHANGED <<lifeVars, nextId, spc, workVars, tallyVars, fateVars>>
-----------------------------------------------------------------------------
WorkerReceive ==
  /\ wpc = "recv" /\ queue # <<>>
  /\ hand' = Head(queue) /\ queue' = Tail(queue) /\ wpc' = "request"
  /\ UNCHANGED <<lifeVars, sampleVars, spc, tallyVars, fateVars, inputs>>

\* The channel is closed: the worker ends when it is empty.
LeavesRest == ~started                                    \* mutant: no drain
Drained == ~started /\ queue = <<>>
WorkerDisconnected ==
  /\ wpc = "recv" /\ Drained /\ wpc' = "exited"
  /\ UNCHANGED <<lifeVars, sampleVars, spc, queue, hand, tallyVars, fateVars, inputs>>

\* backend::generate returns a result, or a timeout, an HTTP or a response error.
TimeoutsUncounted ==                                      \* mutant: one outcome uncounted
  /\ wpc = "request" /\ wpc' = "post"
  /\ count' = [count EXCEPT !.completed = @ + 1] \/ UNCHANGED count
  /\ UNCHANGED <<lifeVars, sampleVars, spc, queue, hand, errorPosted, fatal, rejected, oversized,
                 fateVars, inputs>>
WorkerCounts ==
  /\ wpc = "request" /\ wpc' = "post"
  /\ \/ count' = [count EXCEPT !.completed = @ + 1]
     \/ count' = [count EXCEPT !.failed = @ + 1]
  /\ UNCHANGED <<lifeVars, sampleVars, spc, queue, hand, errorPosted, fatal, rejected, oversized,
                 fateVars, inputs>>

\* The task panics in the request: the receiver is dropped with it.
WorkerPanics ==
  /\ Panics /\ wpc = "request" /\ WorkerDies
  /\ UNCHANGED <<lifeVars, sampleVars, spc, tallyVars, answered, bounced, refused, inputs>>

\* The message carries the batch's generation, not the current one.
MessageGeneration == hand.generation
WorkerPosts ==
  /\ wpc = "post" /\ wpc' = "recv" /\ hand' = NoBatch
  /\ answered' = Append(answered, <<hand.id, MessageGeneration, hand.frames>>)
  /\ UNCHANGED <<lifeVars, sampleVars, spc, queue, tallyVars, bounced, refused, abandoned, inputs>>

Answer == WorkerReceive \/ WorkerCounts
Prompt == WorkerDisconnected \/ WorkerPosts
-----------------------------------------------------------------------------
Pts == {{}} \union {{p} : p \in 0..MaxPts}

Next ==
  \/ Start \/ Stop \/ StopJoined \/ StopAborts
  \/ \E pts \in Pts : \/ FrameSkipped(pts)
                      \/ \E size \in 1..(MaxFrameBytes + 1) :
                           FrameRejected(pts, size) \/ FrameCollected(pts, size)
                             \/ BatchOffered(pts, size)
  \/ CountSubmitted \/ ResetGeneration
  \/ Answer \/ Prompt \/ WorkerPanics

Spec == Init /\ [][Next]_vars

\* Threads inside the element and the worker's prompt steps go on, and the
\* timeout of stop() expires. Nothing is promised about the model server.
LocalSpec ==
  Spec /\ WF_vars(CountSubmitted) /\ WF_vars(Prompt) /\ WF_vars(StopJoined) /\ WF_vars(StopAborts)

\* Every request has an outcome: backend::generate is bounded by request-timeout.
RequestsEnd == WF_vars(Answer)
-----------------------------------------------------------------------------
\* Every variable holds a value of its type; channel and batches keep their limits.
TypeOK ==
  /\ {started, errorPosted} \subseteq BOOLEAN /\ setting \in Settings
  /\ lpc \in {"idle", "join"} /\ spc \in {"idle", "count"}
  /\ wpc \in {"recv", "request", "post", "exited"}
  /\ sampler.seen \in Pts /\ sampler.at \in Pts /\ sampler.withoutPts \in BOOLEAN
  /\ sampler.bytes \in 0..MaxBatchBytes
  /\ Len(queue) <= QueueCapacity
  /\ {generation, nextId} \subseteq Nat \ {0} /\ {fatal, rejected, oversized} \subseteq Nat
  /\ Range(count) \subseteq Nat /\ run \in 0..MaxRuns /\ inputs \in 0..MaxInputs

\* Every request of the run has exactly one fate, whatever the stream, the worker
\* and stop() do: it waits, is in the worker's hands, was answered in the order of
\* the requests, found the queue full, found no worker, or was given up by stop()
\* or a panic; and the counters say so.
RequestsAccounted ==
  LET ids == [k \in DOMAIN answered |-> answered[k][1]]
      waiting == {queue[k].id : k \in DOMAIN queue}
      places == <<ToSet(ids), waiting, {hand.id} \ {0}, bounced, refused, abandoned>>
      inHand == IF wpc = "post" THEN 1 ELSE 0
      uncounted == IF spc = "count" THEN 1 ELSE 0
  IN /\ UNION ToSet(places) = 1..(nextId - 1)
     /\ \A j, k \in DOMAIN places : j # k => places[j] \intersect places[k] = {}
     /\ \A k \in 2..Len(ids) : ids[k - 1] < ids[k]
     /\ count.submitted + uncounted + count.dropped + Cardinality(refused) = nextId - 1
     /\ count.completed + count.failed - rejected = Len(ids) + inHand

\* A message is about frames of its own generation only: an event or a backward
\* jump discards the incomplete batch, and what was queued or in flight keeps
\* the generation it was made in (README: "lets consumers reject stale results").
GenerationsApart ==
  \A k \in DOMAIN answered : \A f \in Range(answered[k][3]) : f.generation = answered[k][2]

\* max-batch-bytes rejects nothing: the settings that start() accepts keep every
\* batch below it, however many frames were rejected or discarded before.
BatchBytesSuffice == oversized = 0

\* A worker that is gone although nobody stopped the element is reported once.
ReportedOnce == fatal <= 1 /\ (refused # {} => fatal = 1)

\* Well typed, every request with one fate, and a missing worker reported.
Consistent == TypeOK /\ RequestsAccounted /\ ReportedOnce

\* Batches are made of frames in the order of their timestamps: a backward PTS
\* jump discards the incomplete batch (README: "a backward PTS jump advance the
\* generation and discard an incomplete batch").
BatchPtsOrdered ==
  \A k \in DOMAIN answered : \A i, j \in DOMAIN answered[k][3] :
    i < j => \A p \in answered[k][3][i].pts, q \in answered[k][3][j].pts : p <= q

\* stop() returns although the server never answers ("drain-timeout bounds shutdown").
StopReturns == lpc = "join" ~> lpc = "idle"

\* A request that was taken is answered, also when stop() began meanwhile, unless
\* the timeout gave the worker up or it panicked.
TakenIsAnswered ==
  RequestsEnd =>
    \A id \in 1..MaxInputs :
      (\E k \in DOMAIN queue : queue[k].id = id)
        ~> (\E k \in DOMAIN answered : answered[k][1] = id) \/ id \in abandoned

\* stop() returns in any case, and requests are answered if the server lets them.
Progress == StopReturns /\ TakenIsAnswered
=============================================================================
