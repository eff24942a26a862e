---------------------------- MODULE OcrsAnalysis ----------------------------
(***************************************************************************)
(* ocrsanalysis (analytics/ocrs/src/ocrsanalysis/imp.rs and worker.rs):    *)
(* the streaming thread samples frames and offers them to a channel of one *)
(* job; a worker thread runs the OCR engine and posts one message per job; *)
(* start() and stop() run under the element's state lock, and stop() also  *)
(* after the streaming thread has left the element.                        *)
(*                                                                         *)
(* Messages and property notifications run application handlers on the     *)
(* worker thread, and a handler may stop the element: stop() then runs on  *)
(* the worker itself, which cannot join itself and stays in the slot until *)
(* the next start() or stop() reaps it.  GStreamer holds the state lock of *)
(* an element through start() and stop(): a handler that changes the state *)
(* of the element while its worker is joined waits for that lock.         *)
(*                                                                         *)
(* Runs are numbered; everything that a start creates (channel, flags,     *)
(* thread) is indexed by its run.                                          *)
(***************************************************************************)
EXTENDS Naturals, Sequences, FiniteSets, SequencesExt

CONSTANTS
  Intervals,   \* the values analysis-interval may have
  MaxPts,      \* bound: timestamps are 0..MaxPts
  Reentrant,   \* may a handler stop the element from the worker thread?
  Panics,      \* may the OCR engine panic?
  MaxRuns,     \* bound: starts
  MaxInputs    \* bound: buffers, stream-start, segment and flush-stop events, over all runs

OcrsAssumption ==
  /\ Intervals # {} /\ Intervals \subseteq Nat /\ {MaxPts, MaxRuns, MaxInputs} \subseteq Nat
  /\ {Reentrant, Panics} \subseteq BOOLEAN

VARIABLES
  run, slot,               \* starts so far; the run whose Worker is in the state, or 0
  lpc, leaving,            \* start() or stop(): where it is, the run it joins, or 0
  stop, open, closed,      \* runs whose stop is set, emission_open is set, sender is dropped
  queue, wpc, job,         \* per run: the channel, where the worker is, its job
  spc,                     \* streaming thread: "idle", or "count" after its job was taken
  interval,                \* analysis-interval of this run
  sampler, generation, nextId,
  count,                   \* the four counters
  reported,                \* worker_failure_reported
  jobs,                    \* history: per request of this run its generation and PTS
  doubled, rejected, refused, \* history, this run: results too large to post, frames too
                           \*   large to analyse, jobs offered to a worker that is gone
  posted,                  \* history: <<run, request-id>> of the messages posted
  barred,                  \* history: the requests undecided when admission was closed
  fatal, unavailable,      \* history: per run, errors posted by the worker, by the stream
  inputs

lifeVars    == <<run, slot, lpc, leaving>>
flagVars    == <<stop, open, closed>>
workerVars  == <<queue, wpc, job>>
sampleVars  == <<interval, sampler, generation, nextId, jobs>>
tallyVars   == <<count, doubled, rejected, refused>>
messageVars == <<posted, fatal, unavailable, reported>>
vars == <<lifeVars, flagVars, workerVars, spc, sampleVars, tallyVars, messageVars, barred, inputs>>

Runs == 1..MaxRuns
NoCounts == [submitted |-> 0, completed |-> 0, failed |-> 0, dropped |-> 0]

\* Timestamps are sets of at most one element; {} is no timestamp.
FreshSampler == [seen |-> {}, selected |-> FALSE, at |-> {}]
NoJob == [id |-> 0, outcome |-> "none"]

\* The element is started and nothing has stopped it.
Playing == slot # 0 /\ slot \notin closed
-----------------------------------------------------------------------------
Init ==
  /\ run = 0 /\ slot = 0 /\ lpc = "idle" /\ leaving = 0
  /\ stop = {} /\ open = {} /\ closed = {}
  /\ queue = [r \in Runs |-> <<>>]
  /\ wpc = [r \in Runs |-> "none"] /\ job = [r \in Runs |-> NoJob]
  /\ spc = "idle"
  /\ interval \in Intervals /\ sampler = FreshSampler /\ generation = 1 /\ nextId = 1 /\ jobs = <<>>
  /\ count = NoCounts /\ doubled = 0 /\ rejected = 0 /\ refused = 0
  /\ posted = <<>> /\ reported = FALSE /\ barred = {}
  /\ fatal = [r \in Runs |-> 0] /\ unavailable = [r \in Runs |-> 0]
  /\ inputs = 0

Joinable == TRUE                                          \* mutant: no join
Joined == leaving # 0 => wpc[leaving] = "exited"

\* start(), reap_stale_worker: a worker that stopped itself is taken out and joined.
Start ==
  /\ lpc = "idle" /\ ~Playing /\ run < MaxRuns
  /\ lpc' = "reap" /\ leaving' = slot /\ slot' = 0
  /\ closed' = closed \union ({slot} \ {0})
  /\ UNCHANGED <<run, stop, open, workerVars, spc, sampleVars, tallyVars, messageVars, barred, inputs>>

\* reset_run, of what the new run counts and samples.
ResetRun == sampler' = FreshSampler /\ generation' = 1 /\ nextId' = 1

\* ... the rest of start(): the models load and the worker thread is up.
StartRun ==
  /\ lpc = "reap" /\ Joined
  /\ run' = run + 1 /\ slot' = run + 1 /\ lpc' = "idle" /\ leaving' = 0
  /\ open' = open \union {run + 1}
  /\ wpc' = [wpc EXCEPT ![run + 1] = "recv"]
  /\ interval' \in Intervals
  /\ ResetRun /\ jobs' = <<>> /\ reported' = FALSE
  /\ count' = NoCounts /\ doubled' = 0 /\ rejected' = 0 /\ refused' = 0
  /\ UNCHANGED <<stop, closed, queue, job, spc, posted, fatal, unavailable, barred, inputs>>

StartFails ==
  /\ lpc = "reap" /\ Joined
  /\ lpc' = "idle" /\ leaving' = 0
  /\ UNCHANGED <<run, slot, flagVars, workerVars, spc, sampleVars, tallyVars, messageVars, barred, inputs>>

\* What stop() does to the worker of run r before it joins.
Undecided(r) ==
  {<<r, queue[r][k].id>> : k \in 1..Len(queue[r])}
    \union (IF wpc[r] \in {"infer", "emit"} THEN {<<r, job[r].id>>} ELSE {})
Close(r) ==
  stop' = stop \union {r} /\ open' = open \ {r} /\ closed' = closed \union {r}

Stop ==
  /\ lpc = "idle" /\ slot # 0 /\ spc = "idle"
  /\ lpc' = "join" /\ leaving' = slot /\ slot' = 0
  /\ Close(slot) /\ barred' = barred \union Undecided(slot)
  /\ UNCHANGED <<run, workerVars, spc, sampleVars, tallyVars, messageVars, inputs>>

StopJoined ==
  /\ lpc = "join" /\ Joined
  /\ lpc' = "idle" /\ leaving' = 0 /\ sampler' = FreshSampler
  /\ UNCHANGED <<run, slot, flagVars, workerVars, spc, interval, generation, nextId, jobs,
                 tallyVars, messageVars, barred, inputs>>

\* A handler runs on the worker: of a counter's notification, or of a message.
InHandler(r) == wpc[r] \in {"emit", "posted", "fatal"}

\* stop() on the worker thread, from a handler: the worker goes back into the slot.
StopFromHandler(r) ==
  /\ Reentrant /\ InHandler(r)
  /\ lpc = "idle" /\ slot = r /\ r \notin closed /\ spc = "idle"
  /\ Close(r) /\ barred' = barred \union Undecided(r)
  /\ UNCHANGED <<lifeVars, workerVars, spc, sampleVars, tallyVars, messageVars, inputs>>

Move(r, label) == wpc' = [wpc EXCEPT ![r] = label]

\* A handler that wants to change the state while start() or stop() joins the worker it
\* runs on: the state lock is held by the one that joins, and neither goes on.
HandlerBlocks(r) ==
  /\ Reentrant /\ InHandler(r) /\ leaving = r
  /\ Move(r, "blocked")
  /\ UNCHANGED <<lifeVars, flagVars, queue, job, spc, sampleVars, tallyVars, messageVars,
                 barred, inputs>>
-----------------------------------------------------------------------------
\* select(): the sampler after a backward jump, whether the buffer is due, and
\* the sampler after the buffer.
Backward(pts) == \E p \in pts, q \in sampler.seen : p < q
Sampled(pts) == IF Backward(pts) THEN FreshSampler ELSE sampler
Due(pts) ==
  LET s == Sampled(pts)
  IN \/ interval = 0 \/ ~s.selected
     \/ pts # {} /\ \A p \in pts, q \in s.at : p >= q + interval
SeenNow(pts) == pts                                       \* mutant: forgets the last PTS
SeenAfter(pts) == IF pts = {} THEN Sampled(pts).seen ELSE pts
SamplerAfter(pts) ==
  LET s == Sampled(pts)
      chosen == Due(pts) /\ interval # 0
  IN [seen |-> SeenAfter(pts), selected |-> s.selected \/ chosen,
      at |-> IF chosen /\ pts # {} THEN pts ELSE s.at]

Sample(pts) ==
  /\ Playing /\ lpc = "idle" /\ spc = "idle" /\ inputs < MaxInputs
  /\ inputs' = inputs + 1 /\ UNCHANGED interval
  /\ sampler' = SamplerAfter(pts)
  /\ generation' = IF Backward(pts) THEN generation + 1 ELSE generation

FrameSkipped(pts) ==
  /\ Sample(pts) /\ ~Due(pts)
  /\ UNCHANGED <<lifeVars, flagVars, workerVars, spc, nextId, jobs, tallyVars, messageVars, barred>>

\* input_error: the frame is larger than max-frame-bytes.
FrameTooLarge(pts) ==
  /\ Sample(pts) /\ Due(pts)
  /\ count' = [count EXCEPT !.failed = @ + 1] /\ rejected' = rejected + 1
  /\ UNCHANGED <<lifeVars, flagVars, workerVars, spc, nextId, jobs, doubled, refused,
                 messageVars, barred>>

\* A job is offered: taken, dropped because the channel is full, or refused
\* because the worker is gone, which is reported once.
HasRoom(r) == queue[r] = <<>>
ReportUnavailable ==
  /\ reported' = TRUE
  /\ unavailable' = [unavailable EXCEPT ![slot] = IF reported THEN @ ELSE @ + 1]

FrameOffered(pts) ==
  /\ Sample(pts) /\ Due(pts)
  /\ nextId' = nextId + 1
  /\ jobs' = Append(jobs, [generation |-> generation', pts |-> pts])
  /\ \/ /\ wpc[slot] # "exited" /\ HasRoom(slot)
        /\ queue' = [queue EXCEPT ![slot] = Append(@, [id |-> nextId, outcome |-> "none"])]
        /\ spc' = "count"
        /\ UNCHANGED <<count, refused, reported, unavailable>>
     \/ /\ wpc[slot] # "exited" /\ ~HasRoom(slot)
        /\ count' = [count EXCEPT !.dropped = @ + 1]
        /\ UNCHANGED <<queue, spc, refused, reported, unavailable>>
     \/ /\ wpc[slot] = "exited"
        /\ refused' = refused + 1 /\ ReportUnavailable
        /\ UNCHANGED <<queue, spc, count>>
  /\ UNCHANGED <<lifeVars, flagVars, wpc, job, doubled, rejected, posted, fatal, barred>>

\* The job is counted after the worker could have seen it.
CountSubmitted ==
  /\ spc = "count" /\ spc' = "idle"
  /\ count' = [count EXCEPT !.submitted = @ + 1]
  /\ UNCHANGED <<lifeVars, flagVars, workerVars, sampleVars, doubled, rejected, refused,
                 messageVars, barred, inputs>>

\* sink_event: stream-start, segment and flush-stop.
ResetGeneration ==
  /\ Playing /\ lpc = "idle" /\ spc = "idle" /\ inputs < MaxInputs
  /\ inputs' = inputs + 1
  /\ generation' = generation + 1 /\ sampler' = FreshSampler
  /\ UNCHANGED <<interval, lifeVars, flagVars, workerVars, spc, nextId, jobs, tallyVars, messageVars, barred>>
-----------------------------------------------------------------------------
\* recv(), and the look at the stop flag that follows it.
WorkerReceive(r) ==
  /\ wpc[r] = "recv" /\ queue[r] # <<>>
  /\ queue' = [queue EXCEPT ![r] = Tail(@)]
  /\ IF r \in stop THEN Move(r, "exited") /\ UNCHANGED job
     ELSE Move(r, "infer") /\ job' = [job EXCEPT ![r] = Head(queue[r])]
  /\ UNCHANGED <<lifeVars, flagVars, spc, sampleVars, tallyVars, messageVars, barred, inputs>>

WorkerDisconnected(r) ==
  /\ wpc[r] = "recv" /\ queue[r] = <<>> /\ r \in closed
  /\ Move(r, "exited")
  /\ UNCHANGED <<lifeVars, flagVars, queue, job, spc, sampleVars, tallyVars, messageVars, barred, inputs>>

\* The engine returns a result, one too large for a message, an error, or panics;
\* the counter is raised and its notification runs handlers.
Outcomes == {"result", "oversize", "error"} \union (IF Panics THEN {"panic"} ELSE {})
WorkerInfer(r) ==
  /\ wpc[r] = "infer"
  /\ \E outcome \in Outcomes :
       /\ job' = [job EXCEPT ![r].outcome = outcome]
       /\ count' = IF outcome \in {"result", "oversize"}
                   THEN [count EXCEPT !.completed = @ + 1] ELSE [count EXCEPT !.failed = @ + 1]
  /\ Move(r, "emit")
  /\ UNCHANGED <<lifeVars, flagVars, queue, spc, sampleVars, doubled, rejected, refused,
                 messageVars, barred, inputs>>

\* emission_open decides; a result that is too large becomes an error first.
WorkerAdmit(r) ==
  /\ wpc[r] = "emit" /\ job[r].outcome \in {"result", "error"}
  /\ Move(r, IF r \in open THEN "post" ELSE "recv")
  /\ UNCHANGED <<lifeVars, flagVars, queue, job, spc, sampleVars, tallyVars, messageVars, barred, inputs>>

WorkerOversize(r) ==
  /\ wpc[r] = "emit" /\ job[r].outcome = "oversize"
  /\ IF r \in open
     THEN /\ count' = [count EXCEPT !.failed = @ + 1] /\ doubled' = doubled + 1
          /\ job' = [job EXCEPT ![r].outcome = "error"] /\ UNCHANGED wpc
     ELSE Move(r, "recv") /\ UNCHANGED <<count, doubled, job>>
  /\ UNCHANGED <<lifeVars, flagVars, queue, spc, sampleVars, rejected, refused, messageVars, barred, inputs>>

WorkerPost(r) ==
  /\ wpc[r] = "post"
  /\ posted' = Append(posted, <<r, job[r].id>>)
  /\ Move(r, "posted")
  /\ UNCHANGED <<lifeVars, flagVars, queue, job, spc, sampleVars, tallyVars, fatal, unavailable,
                 reported, barred, inputs>>

\* An engine error does not end the worker.
EndAfterError(r) == IF job[r].outcome = "error" THEN "exited" ELSE "recv"  \* mutant: no recovery
AfterPost(r) == "recv"
WorkerNext(r) ==
  /\ wpc[r] = "posted"
  /\ Move(r, AfterPost(r))
  /\ UNCHANGED <<lifeVars, flagVars, queue, job, spc, sampleVars, tallyVars, messageVars, barred, inputs>>

\* A panic takes the admission for itself and ends the worker.
WorkerPanic(r) ==
  /\ wpc[r] = "emit" /\ job[r].outcome = "panic"
  /\ open' = open \ {r}
  /\ fatal' = [fatal EXCEPT ![r] = IF r \in open THEN @ + 1 ELSE @]
  /\ Move(r, "fatal")
  /\ UNCHANGED <<lifeVars, stop, closed, queue, job, spc, sampleVars, tallyVars, posted,
                 unavailable, reported, barred, inputs>>

WorkerHalt(r) ==
  /\ wpc[r] = "fatal"
  /\ stop' = stop \union {r} /\ Move(r, "exited")
  /\ UNCHANGED <<lifeVars, open, closed, queue, job, spc, sampleVars, tallyVars, messageVars, barred, inputs>>

Worker(r) ==
  \/ WorkerReceive(r) \/ WorkerDisconnected(r) \/ WorkerInfer(r) \/ WorkerAdmit(r)
  \/ WorkerOversize(r) \/ WorkerPost(r) \/ WorkerNext(r) \/ WorkerPanic(r) \/ WorkerHalt(r)
-----------------------------------------------------------------------------
Pts == {{}} \union {{p} : p \in 0..MaxPts}

Stream ==
  \/ \E pts \in Pts : FrameSkipped(pts) \/ FrameTooLarge(pts) \/ FrameOffered(pts)
  \/ CountSubmitted \/ ResetGeneration

StartEnds == StartRun \/ StartFails
Next ==
  \/ Start \/ StartEnds \/ Stop \/ StopJoined \/ Stream
  \/ \E r \in Runs : Worker(r) \/ StopFromHandler(r) \/ HandlerBlocks(r)

Spec == Init /\ [][Next]_vars

-----------------------------------------------------------------------------
\* Every variable holds a value of its type; the channel holds one job at most.
TypeOK ==
  /\ interval \in Intervals
  /\ run \in 0..MaxRuns /\ {slot, leaving} \subseteq 0..MaxRuns /\ lpc \in {"idle", "reap", "join"}
  /\ \A set \in {stop, open, closed} : set \subseteq Runs
  /\ \A r \in Runs : Len(queue[r]) <= 1
  /\ wpc \in [Runs -> {"none", "recv", "infer", "emit", "post", "posted", "fatal", "blocked",
                  "exited"}]
  /\ \A r \in Runs : job[r].outcome \in Outcomes \union {"none"}
  /\ spc \in {"idle", "count"} /\ reported \in BOOLEAN
  /\ \A pts \in {sampler.seen, sampler.at} : pts \in Pts
  /\ {generation, nextId} \subseteq Nat \ {0} /\ Range(count) \subseteq Nat
  /\ {doubled, rejected, refused} \subseteq Nat

\* Only one worker is alive at a time, whoever stopped the last one ("One worker
\* owns the OCR engine", README of the plugin).
OneWorker == Cardinality({r \in Runs : wpc[r] \notin {"none", "exited"}}) <= 1

\* Well typed, and one worker at a time.
Consistent == TypeOK /\ OneWorker

\* Messages come in the order of the requests, at most one per request, and none
\* of an earlier run after one of a later run.
PostedInOrder ==
  \A j, k \in 1..Len(posted) : j < k =>
    \/ posted[j][1] < posted[k][1]
    \/ posted[j][1] = posted[k][1] /\ posted[j][2] < posted[k][2]

\* stop() closes admission: a request that was queued, in the engine or not yet
\* admitted when it did so is never posted (analytics/ocrs/src/ocrsanalysis/tests.rs,
\* shutdown_closes_admission_before_active_work_can_post, for one of these moments).
ClosedMeansSilent == barred \intersect Range(posted) = {}

\* The counters are current-run totals: every request of the run was taken,
\* dropped or refused, and as long as the worker is not stopped every one taken is
\* queued, in the engine, completed or failed; a result too large counts as both.
FramesAccounted ==
  LET taken == count.submitted + (IF spc = "count" THEN 1 ELSE 0)
      ended == count.completed + count.failed - doubled - rejected
      inside == IF run = 0 THEN 0 ELSE Len(queue[run]) + (IF wpc[run] = "infer" THEN 1 ELSE 0)
  IN /\ nextId - 1 = taken + count.dropped + refused
     /\ run # 0 /\ run \notin stop => taken = ended + inside
     /\ taken >= ended

\* A run reports one panic and one missing worker at most, and a worker that is
\* missing although nobody stopped the element has reported why.
FailuresReportedOnce ==
  \A r \in Runs :
    /\ fatal[r] <= 1 /\ unavailable[r] <= 1
    /\ wpc[r] = "exited" /\ r \notin closed => fatal[r] = 1

\* Nothing of a run goes uncounted: neither a frame nor a worker that failed.
RunAccounted == FramesAccounted /\ FailuresReportedOnce

\* Within one generation the requests have ascending timestamps that are at least
\* analysis-interval apart: a backward jump advances the generation, also when
\* buffers without timestamp lie in between.
SampledApart ==
  \A j, k \in 1..Len(jobs) :
    j < k /\ jobs[j].generation = jobs[k].generation =>
      \A p \in jobs[j].pts, q \in jobs[k].pts : q >= p + interval

=============================================================================
