------------------------------- MODULE S2Sink -------------------------------
(***************************************************************************)
(* The s2sink element (net/s2/src/s2sink/imp.rs): the bounded queue between *)
(* the streaming thread and the append worker, the durability barrier that *)
(* EOS and stop() wait on, and the shutdown of the worker.                 *)
(*                                                                         *)
(* Actors: the streaming thread ("stream": render and EOS), the thread     *)
(* that changes the element's state ("app": start, unlock, unlock_stop,    *)
(* stop), the tokio worker task, and the S2 service behind the producer.   *)
(* One action is one critical section of the queue's mutex, or one step    *)
(* taken without it: the notifications that follow a released lock are     *)
(* steps of their own.  start() builds a fresh SharedQueue, so one session *)
(* (start to stop) is the whole behaviour.                                 *)
(***************************************************************************)
EXTENDS Naturals, Sequences

CONSTANTS
  Capacity,       \* queue-capacity
  MaxUnacked,     \* records the producer holds unacknowledged (max-unacked-bytes)
  ServiceFails,   \* may the S2 producer fail?
  TimersExpire,   \* may shutdown-timeout and the join timeout elapse?
  MaxRecords,     \* bound: buffers the pipeline renders
  MaxEos,         \* bound: EOS events
  MaxInterrupts   \* bound: unlock/unlock_stop pairs

ASSUME CapacityAssumption == Capacity \in Nat \ {0} /\ MaxUnacked \in Nat \ {0}
ASSUME SwitchAssumption == ServiceFails \in BOOLEAN /\ TimersExpire \in BOOLEAN
ASSUME BoundAssumption ==
  MaxRecords \in Nat /\ MaxEos \in Nat /\ MaxInterrupts \in Nat

VARIABLES
  state,      \* QueueState, under the mutex
  permit,     \* worker_wakeup holds a stored notification
  cancel,     \* the CancellationToken is cancelled
  posts,      \* error messages posted; until stop() posts, error_posted is posts > 0
  drains,     \* drain flags allocated so far; a flag is named by its number
  drained,    \* the drain flags that are set
  pc,         \* where each of the two threads is
  held,       \* the drain flag a thread waits for
  outcome,    \* the DrainOutcome a thread got
  want,       \* history: records accepted when the thread asked for its drain
  wpc,        \* where the worker is
  cur,        \* the record the worker submits, as a sequence of length <= 1
  job,        \* the drain flag the worker flushes for
  tickets,    \* positions in sent whose RecordSubmitTicket is not yet consumed
  sent,       \* records the producer took, in order
  acked,      \* how many of them the service acknowledged
  producer,   \* "open", "failed" or "closed"
  accepted,   \* history: records the queue accepted, in order
  rendered,   \* buffers rendered so far
  base,       \* GstBaseSink: "running" or "flushing"
  eos,        \* what became of the last EOS event
  eosCount, interrupts

queueVars   == <<state, permit, cancel, posts>>
drainVars   == <<drains, drained, held, outcome, want>>
workerVars  == <<wpc, cur, job, tickets>>
serviceVars == <<sent, acked, producer>>
inputVars   == <<accepted, rendered, base, eos, eosCount, interrupts>>
vars == <<queueVars, drainVars, pc, workerVars, serviceVars, inputVars>>

Threads == {"stream", "app"}
NoDrain == 0
-----------------------------------------------------------------------------
NewSharedQueue ==
  [records |-> <<>>, accepting |-> TRUE, flushing |-> FALSE,
   failure |-> "none", done |-> FALSE, drain |-> NoDrain]

Init ==
  /\ state = NewSharedQueue
  /\ permit = FALSE /\ cancel = FALSE /\ posts = 0
  /\ drains = 0 /\ drained = {}
  /\ pc = [t \in Threads |-> IF t = "app" THEN "null" ELSE "idle"]
  /\ held = [t \in Threads |-> NoDrain]
  /\ outcome = [t \in Threads |-> "none"]
  /\ want = [t \in Threads |-> 0]
  /\ wpc = "unborn" /\ cur = <<>> /\ job = NoDrain /\ tickets = {}
  /\ sent = <<>> /\ acked = 0 /\ producer = "open"
  /\ accepted = <<>> /\ rendered = 0
  /\ base = "running" /\ eos = "none" /\ eosCount = 0 /\ interrupts = 0

\* The element's State is Started: between start() and the take in stop().
Started == pc["app"] \in {"idle", "unlock_notify", "unlocked"}

\* A render() is in progress; GstBaseSink holds PREROLL_LOCK meanwhile.
InRender == pc["stream"] \in {"enqueue", "capacity_wait", "enqueue_notify"}

Goto(t, label) == pc' = [pc EXCEPT ![t] = label]

\* Condvar notify: the waiters go back to acquiring the mutex.
WakeCapacityNobody(p) == p                              \* mutant: notify forgotten
WakeCapacity(p) ==
  [t \in Threads |-> IF p[t] = "capacity_wait" THEN "enqueue" ELSE p[t]]
WakeDone(p) ==
  [t \in Threads |-> IF p[t] = "drain_wait" THEN "drain_check" ELSE p[t]]

\* The two writes of store_failure under the lock: the first failure is kept.
WithLastFailure(s, detail) ==                           \* mutant: the last one is
  [s EXCEPT !.failure = detail, !.accepting = FALSE]
WithFailure(s, detail) ==
  [s EXCEPT !.failure = IF @ = "none" THEN detail ELSE @, !.accepting = FALSE]

\* claim_error_post and the message it guards.
PostOnce == posts' = IF posts = 0 THEN 1 ELSE posts
-----------------------------------------------------------------------------
\* start(), once the settings are valid: the worker is spawned.
Start ==
  /\ pc["app"] = "null"
  /\ Goto("app", "idle")
  /\ wpc' = "connect"
  /\ UNCHANGED <<queueVars, drainVars, cur, job, tickets, serviceVars, inputVars>>

\* render(): a buffer becomes a record (a new number) to enqueue.
Render ==
  /\ Started /\ base = "running" /\ eos # "forwarded"
  /\ pc["stream"] = "idle" /\ rendered < MaxRecords
  /\ rendered' = rendered + 1
  /\ Goto("stream", "enqueue")
  /\ UNCHANGED <<queueVars, drainVars, workerVars, serviceVars,
                 accepted, base, eos, eosCount, interrupts>>

Refusing == state.flushing \/ state.failure # "none" \/ ~state.accepting

\* enqueue_record: flushing, failed or closed queues refuse the record.
EnqueueRefused ==
  /\ pc["stream"] = "enqueue" /\ Refusing
  /\ Goto("stream", "idle")
  /\ UNCHANGED <<queueVars, drainVars, workerVars, serviceVars, inputVars>>

RoomForOneTooMany == Len(state.records) <= Capacity     \* mutant: off by one
HasRoom == Len(state.records) < Capacity

EnqueuePush ==
  /\ pc["stream"] = "enqueue" /\ ~Refusing /\ HasRoom
  /\ state' = [state EXCEPT !.records = Append(@, rendered)]
  /\ accepted' = Append(accepted, rendered)
  /\ Goto("stream", "enqueue_notify")
  /\ UNCHANGED <<permit, cancel, posts, drainVars, workerVars, serviceVars,
                 rendered, base, eos, eosCount, interrupts>>

EnqueueWait ==
  /\ pc["stream"] = "enqueue" /\ ~Refusing /\ ~HasRoom
  /\ Goto("stream", "capacity_wait")
  /\ UNCHANGED <<queueVars, drainVars, workerVars, serviceVars, inputVars>>

EnqueueQuietly ==                                       \* mutant: no notify_one
  /\ pc["stream"] = "enqueue_notify"
  /\ Goto("stream", "idle")
  /\ UNCHANGED <<queueVars, drainVars, workerVars, serviceVars, inputVars>>
EnqueueNotify ==
  /\ pc["stream"] = "enqueue_notify"
  /\ permit' = TRUE
  /\ Goto("stream", "idle")
  /\ UNCHANGED <<state, cancel, posts, drainVars, workerVars, serviceVars, inputVars>>

\* A condition variable may wake a waiter that nobody notified.
SpuriousWakeup(t) ==
  /\ \/ pc[t] = "capacity_wait" /\ Goto(t, "enqueue")
     \/ pc[t] = "drain_wait" /\ Goto(t, "drain_check")
  /\ UNCHANGED <<queueVars, drainVars, workerVars, serviceVars, inputVars>>
-----------------------------------------------------------------------------
\* The loop condition of drain(), and its result when the loop ends.
Blocked(d) ==
  ~state.done /\ d \notin drained /\ ~state.flushing /\ state.failure = "none"
DoneBeforeFailure(d) ==                                 \* mutant: swapped order
  IF state.done \/ d \in drained THEN "complete"
  ELSE IF state.failure # "none" THEN "failure" ELSE "flushing"
DrainOutcome(d) ==
  IF state.failure # "none" THEN "failure"
  ELSE IF state.done \/ d \in drained THEN "complete" ELSE "flushing"

EvaluateDrain(t, d) ==
  /\ Goto(t, IF Blocked(d) THEN "drain_wait" ELSE "drained")
  /\ outcome' = [outcome EXCEPT ![t] = IF Blocked(d) THEN "none" ELSE DrainOutcome(d)]

\* get_or_insert_with: join a request the worker has not taken, or make one.
LatestDrain == IF drains = 0 THEN 1 ELSE drains         \* mutant: flags reused
DrainRequest == IF state.drain = NoDrain THEN drains + 1 ELSE state.drain

\* drain(), up to its first wait.
DrainEnter(t) ==
  LET d == DrainRequest
  IN /\ state' = [state EXCEPT !.drain = d]
     /\ drains' = IF state.drain = NoDrain THEN d ELSE drains
     /\ held' = [held EXCEPT ![t] = d]
     /\ want' = [want EXCEPT ![t] = Len(accepted)]
     /\ permit' = TRUE
     /\ EvaluateDrain(t, d)
     /\ UNCHANGED <<cancel, posts, drained, workerVars, serviceVars>>

DrainCheck(t) ==
  /\ pc[t] = "drain_check"
  /\ EvaluateDrain(t, held[t])
  /\ UNCHANGED <<queueVars, drains, drained, held, want, workerVars, serviceVars, inputVars>>

\* The deadline passed, and the loop condition still holds: the lock is
\* dropped, then cancel, then store_failure.
DrainTimeout(t) ==
  /\ TimersExpire
  /\ \/ pc[t] \in {"drain_wait", "drain_check"} /\ Blocked(held[t])
        /\ Goto(t, "drain_cancel")
     \/ pc[t] = "drain_wait" /\ ~Blocked(held[t])
        /\ Goto(t, "drain_check")
  /\ UNCHANGED <<queueVars, drainVars, workerVars, serviceVars, inputVars>>

DrainCancel(t) ==
  /\ pc[t] = "drain_cancel"
  /\ cancel' = TRUE
  /\ Goto(t, "drain_store")
  /\ UNCHANGED <<state, permit, posts, drainVars, workerVars, serviceVars, inputVars>>

DrainStoreFailure(t) ==
  /\ pc[t] = "drain_store"
  /\ state' = WithFailure(state, "timeout")
  /\ Goto(t, "drain_notify")
  /\ UNCHANGED <<permit, cancel, posts, drainVars, workerVars, serviceVars, inputVars>>

DrainNotify(t) ==
  /\ pc[t] = "drain_notify"
  /\ permit' = TRUE
  /\ pc' = [WakeDone(WakeCapacity(pc)) EXCEPT ![t] = "drained"]
  /\ outcome' = [outcome EXCEPT ![t] = "timeout"]
  /\ UNCHANGED <<state, cancel, posts, drains, drained, held, want,
                 workerVars, serviceVars, inputVars>>
-----------------------------------------------------------------------------
\* event(EOS): the barrier is requested.
EosBegin ==
  /\ Started /\ base = "running" /\ eos # "forwarded"
  /\ pc["stream"] = "idle" /\ eosCount < MaxEos
  /\ eosCount' = eosCount + 1
  /\ eos' = "draining"
  /\ DrainEnter("stream")
  /\ UNCHANGED <<accepted, rendered, base, interrupts>>

\* A complete or flush-interrupted drain forwards EOS to GstBaseSink, which
\* refuses it only while it is flushing itself; any other outcome is an error.
EosForward ==
  /\ pc["stream"] = "drained" /\ outcome["stream"] \in {"complete", "flushing"}
  /\ eos' = IF base = "running" THEN "forwarded" ELSE "refused"
  /\ Goto("stream", "idle")
  /\ UNCHANGED <<queueVars, drainVars, workerVars, serviceVars,
                 accepted, rendered, base, eosCount, interrupts>>

EosFail ==
  /\ pc["stream"] = "drained" /\ outcome["stream"] \in {"timeout", "failure"}
  /\ PostOnce
  /\ eos' = "failed"
  /\ Goto("stream", "idle")
  /\ UNCHANGED <<state, permit, cancel, drainVars, workerVars, serviceVars,
                 accepted, rendered, base, eosCount, interrupts>>
-----------------------------------------------------------------------------
\* unlock(): GstBaseSink calls it without PREROLL_LOCK, for a pause or a flush.
Unlock ==
  /\ pc["app"] = "idle" /\ base = "running" /\ interrupts < MaxInterrupts
  /\ state' = [state EXCEPT !.flushing = TRUE]
  /\ interrupts' = interrupts + 1
  /\ Goto("app", "unlock_notify")
  /\ UNCHANGED <<permit, cancel, posts, drainVars, workerVars, serviceVars,
                 accepted, rendered, base, eos, eosCount>>

UnlockNotify ==
  /\ pc["app"] = "unlock_notify"
  /\ pc' = [WakeDone(WakeCapacity(pc)) EXCEPT !["app"] = "unlocked"]
  /\ UNCHANGED <<queueVars, drainVars, workerVars, serviceVars, inputVars>>

\* unlock_stop(): called once GstBaseSink has PREROLL_LOCK, so after render()
\* returned, but not after an EOS drain did; a flush also stops the base class.
StillFlushing == state                                  \* mutant: missing reset
NotFlushing == [state EXCEPT !.flushing = FALSE]

UnlockStop ==
  /\ pc["app"] = "unlocked" /\ ~InRender
  /\ state' = NotFlushing
  /\ base' \in {"running", "flushing"}
  /\ Goto("app", "idle")
  /\ UNCHANGED <<permit, cancel, posts, drainVars, workerVars, serviceVars,
                 accepted, rendered, eos, eosCount, interrupts>>

\* FLUSH_STOP (or a new activation) holds the stream lock.
FlushStop ==
  /\ pc["app"] = "idle" /\ base = "flushing" /\ pc["stream"] = "idle"
  /\ base' = "running" /\ eos' = "none"
  /\ UNCHANGED <<queueVars, drainVars, pc, workerVars, serviceVars,
                 accepted, rendered, eosCount, interrupts>>

\* stop(): the pads are inactive by then, so no render or EOS is in progress.
Stop ==
  /\ pc["app"] = "idle" /\ pc["stream"] = "idle"
  /\ state' = [state EXCEPT !.accepting = FALSE]
  /\ Goto("app", "close_notify")
  /\ UNCHANGED <<permit, cancel, posts, drainVars, workerVars, serviceVars, inputVars>>

CloseNotify ==
  /\ pc["app"] = "close_notify"
  /\ permit' = TRUE
  /\ pc' = [WakeCapacity(pc) EXCEPT !["app"] = "drain_enter"]
  /\ UNCHANGED <<state, cancel, posts, drainVars, workerVars, serviceVars, inputVars>>

StopDrain ==
  /\ pc["app"] = "drain_enter"
  /\ DrainEnter("app")
  /\ UNCHANGED inputVars

\* stop() returns an error after a drain that timed out or met a failure. The base
\* class posts what stop() returns, without asking claim_error_post.
StopFails == outcome["app"] \in {"timeout", "failure"}
StopReturns ==
  /\ Goto("app", "stopped")
  /\ posts' = IF StopFails THEN posts + 1 ELSE posts
  /\ UNCHANGED <<state, permit, cancel>>

StopJoin ==
  /\ pc["app"] = "drained" /\ wpc = "exited"
  /\ StopReturns
  /\ UNCHANGED <<drainVars, workerVars, serviceVars, inputVars>>

\* The worker did not end within one second: abort() drops it at an await.
StopAbort ==
  /\ TimersExpire /\ pc["app"] = "drained"
  /\ wpc \in {"submit", "flush", "idle", "close", "collect"}
  /\ wpc' = "aborted"
  /\ StopReturns
  /\ UNCHANGED <<drainVars, cur, job, tickets, serviceVars, inputVars>>
-----------------------------------------------------------------------------
\* append_worker before its loop: the client and the producer are built.
WorkerConnect ==
  /\ wpc = "connect"
  /\ wpc' = "take"
  /\ UNCHANGED <<queueVars, drainVars, pc, cur, job, tickets, serviceVars, inputVars>>

\* Top of the loop: one critical section that pops a record or,
\* only when there is none, takes the drain request.
NewestRecord == state.records[Len(state.records)]       \* mutant: wrong end
NextRecord == Head(state.records)

WorkerPop ==
  /\ wpc = "take" /\ state.records # <<>>
  /\ cur' = <<NextRecord>>
  /\ state' = [state EXCEPT !.records = Tail(@)]
  /\ pc' = WakeCapacity(pc)
  /\ wpc' = "submit"
  /\ UNCHANGED <<permit, cancel, posts, drainVars, job, tickets, serviceVars, inputVars>>

WorkerTakeDrain ==
  /\ wpc = "take" /\ state.records = <<>>
  /\ state' = [state EXCEPT !.drain = NoDrain]
  /\ job' = state.drain
  /\ wpc' = IF ~state.accepting THEN "close"
            ELSE IF state.drain # NoDrain THEN "flush" ELSE "idle"
  /\ UNCHANGED <<permit, cancel, posts, drainVars, pc, cur, tickets, serviceVars, inputVars>>

TicketReady(i) == i <= acked \/ producer = "failed"

\* submit_while_observing is biased: cancellation and ready tickets come first.
Preempted == tickets # {} /\ (cancel \/ \E i \in tickets : TicketReady(i))

WorkerSubmit ==
  /\ wpc = "submit" /\ producer = "open" /\ ~Preempted
  /\ Len(sent) - acked < MaxUnacked
  /\ sent' = sent \o cur /\ cur' = <<>>
  /\ tickets' = tickets \union {Len(sent) + 1}
  /\ wpc' = "take"
  /\ UNCHANGED <<queueVars, drainVars, pc, job, acked, producer, inputVars>>

\* producer.flush() returned; complete_drain sets the flag under the lock.
WorkerFlush ==
  /\ wpc = "flush" /\ producer = "open" /\ ~Preempted
  /\ acked = Len(sent)
  /\ drained' = drained \union {job}
  /\ pc' = WakeDone(pc)
  /\ wpc' = "take"
  /\ UNCHANGED <<queueVars, drains, held, outcome, want, cur, job, tickets,
                 serviceVars, inputVars>>

\* An idle worker waits for a notification, a ticket or cancellation.
WorkerWake ==
  /\ wpc = "idle" /\ permit
  /\ permit' = FALSE
  /\ wpc' = "take"
  /\ UNCHANGED <<state, cancel, posts, drainVars, pc, cur, job, tickets,
                 serviceVars, inputVars>>

WorkerTicket ==
  /\ wpc \in {"submit", "flush", "idle", "collect"}
  /\ wpc \in {"submit", "flush"} => ~cancel
  /\ \E i \in tickets : i <= acked /\ tickets' = tickets \ {i}
  /\ wpc' = IF wpc = "idle" THEN "take" ELSE wpc
  /\ UNCHANGED <<queueVars, drainVars, pc, cur, job, serviceVars, inputVars>>

\* producer.close() flushes; it is the last use of the producer.
WorkerClose ==
  /\ wpc = "close" /\ producer = "open" /\ acked = Len(sent)
  /\ producer' = "closed"
  /\ wpc' = "collect"
  /\ UNCHANGED <<queueVars, drainVars, pc, cur, job, tickets, sent, acked, inputVars>>

WorkerCollected ==
  /\ wpc = "collect" /\ tickets = {}
  /\ wpc' = "finish"
  /\ UNCHANGED <<queueVars, drainVars, pc, cur, job, tickets, serviceVars, inputVars>>

\* The worker returns an error: no client, a cancelled wait, a failed ticket,
\* or a failed submit, flush or close.
WorkerError ==
  /\ \/ wpc = "connect" /\ ServiceFails
     \/ wpc \in {"submit", "flush", "idle", "close"} /\ cancel
     \/ wpc \in {"submit", "flush", "close"} /\ producer = "failed"
     \/ wpc = "idle" /\ producer = "failed" /\ \E i \in tickets : i > acked
  /\ wpc' = "store"
  /\ UNCHANGED <<queueVars, drainVars, pc, cur, job, tickets, serviceVars, inputVars>>

WorkerStoreFailure ==
  /\ wpc = "store"
  /\ state' = WithFailure(state, "worker")
  /\ wpc' = "store_notify"
  /\ UNCHANGED <<permit, cancel, posts, drainVars, pc, cur, job, tickets,
                 serviceVars, inputVars>>

WorkerStoreNotify ==
  /\ wpc = "store_notify"
  /\ permit' = TRUE
  /\ pc' = WakeDone(WakeCapacity(pc))
  /\ wpc' = "post"
  /\ UNCHANGED <<state, cancel, posts, drainVars, cur, job, tickets, serviceVars, inputVars>>

WorkerPost ==
  /\ wpc = "post"
  /\ PostOnce
  /\ wpc' = "finish"
  /\ UNCHANGED <<state, permit, cancel, drainVars, pc, cur, job, tickets,
                 serviceVars, inputVars>>

WorkerFinish ==
  /\ wpc = "finish"
  /\ state' = [state EXCEPT !.done = TRUE]
  /\ wpc' = "finish_notify"
  /\ UNCHANGED <<permit, cancel, posts, drainVars, pc, cur, job, tickets,
                 serviceVars, inputVars>>

WorkerFinishNotify ==
  /\ wpc = "finish_notify"
  /\ pc' = WakeDone(WakeCapacity(pc))
  /\ wpc' = "exited"
  /\ UNCHANGED <<queueVars, drainVars, cur, job, tickets, serviceVars, inputVars>>
-----------------------------------------------------------------------------
\* The S2 service acknowledges in order, or the producer fails for good.
Acknowledge ==
  /\ producer = "open" /\ acked < Len(sent)
  /\ acked' = acked + 1
  /\ UNCHANGED <<queueVars, drainVars, pc, workerVars, sent, producer, inputVars>>

ProducerFails ==
  /\ ServiceFails /\ producer = "open" /\ wpc \notin {"unborn", "connect"}
  /\ producer' = "failed"
  /\ UNCHANGED <<queueVars, drainVars, pc, workerVars, sent, acked, inputVars>>

\* The session is over: nothing is left to run.
Stopped ==
  /\ pc["app"] = "stopped" /\ wpc \in {"exited", "aborted"}
  /\ UNCHANGED vars

DrainStep(t) ==
  DrainCheck(t) \/ DrainCancel(t) \/ DrainStoreFailure(t) \/ DrainNotify(t)

StreamStep ==
  \/ EnqueueRefused \/ EnqueuePush \/ EnqueueWait \/ EnqueueNotify
  \/ DrainStep("stream") \/ EosForward \/ EosFail

AppStep ==
  \/ UnlockNotify \/ UnlockStop \/ CloseNotify \/ StopDrain
  \/ DrainStep("app") \/ StopJoin

WorkerStep ==
  \/ WorkerConnect \/ WorkerPop \/ WorkerTakeDrain \/ WorkerSubmit
  \/ WorkerFlush \/ WorkerWake \/ WorkerTicket \/ WorkerClose \/ WorkerCollected \/ WorkerError
  \/ WorkerStoreFailure \/ WorkerStoreNotify \/ WorkerPost
  \/ WorkerFinish \/ WorkerFinishNotify

TimerStep == StopAbort \/ \E t \in Threads : DrainTimeout(t)

Environment ==
  \/ Start \/ Render \/ EosBegin \/ Unlock \/ FlushStop \/ Stop
  \/ \E t \in Threads : SpuriousWakeup(t)

Next ==
  \/ StreamStep \/ AppStep \/ WorkerStep \/ TimerStep \/ Environment
  \/ Acknowledge \/ ProducerFails \/ Stopped

Spec == Init /\ [][Next]_vars

\* Threads and the tokio task are scheduled; a deadline that stays enabled passes.
FairSpec ==
  /\ Spec
  /\ WF_vars(StreamStep) /\ WF_vars(AppStep) /\ WF_vars(WorkerStep)
  /\ WF_vars(StopAbort) /\ \A t \in Threads : WF_vars(DrainTimeout(t))

\* The premise of what also takes a service that keeps acknowledging.
ServiceAnswers == WF_vars(Acknowledge)
-----------------------------------------------------------------------------
QueueStates ==
  [records : Seq(Nat), accepting : BOOLEAN, flushing : BOOLEAN,
   failure : {"none", "worker", "timeout"}, done : BOOLEAN, drain : Nat]

DrainLabels ==
  {"drain_wait", "drain_check", "drain_cancel", "drain_store", "drain_notify", "drained"}
StreamLabels ==
  {"idle", "enqueue", "capacity_wait", "enqueue_notify"} \union DrainLabels
AppLabels ==
  {"null", "idle", "unlock_notify", "unlocked", "close_notify", "drain_enter", "stopped"}
    \union DrainLabels
WorkerLabels ==
  {"unborn", "connect", "take", "submit", "flush", "idle", "close", "collect", "store",
   "store_notify", "post", "finish", "finish_notify", "exited", "aborted"}

QueueTyped ==
  /\ state \in QueueStates /\ Len(state.records) <= Capacity
  /\ permit \in BOOLEAN /\ cancel \in BOOLEAN /\ posts \in Nat
DrainsTyped ==
  /\ drains \in Nat /\ drained \subseteq Nat
  /\ held \in [Threads -> Nat] /\ want \in [Threads -> Nat]
  /\ outcome \in [Threads -> {"none", "complete", "flushing", "timeout", "failure"}]
ThreadsTyped ==
  /\ pc \in [Threads -> StreamLabels \union AppLabels]
  /\ pc["stream"] \in StreamLabels /\ pc["app"] \in AppLabels
WorkerTyped ==
  wpc \in WorkerLabels /\ cur \in Seq(Nat) /\ job \in Nat /\ tickets \subseteq Nat
ServiceTyped ==
  sent \in Seq(Nat) /\ acked \in Nat /\ producer \in {"open", "failed", "closed"}
InputsTyped ==
  /\ accepted \in Seq(Nat) /\ rendered \in Nat
  /\ base \in {"running", "flushing"}
  /\ eos \in {"none", "draining", "forwarded", "refused", "failed"}
  /\ eosCount \in Nat /\ interrupts \in Nat

\* Every variable has its type, and the queue never exceeds queue-capacity.
TypeOK ==
  /\ QueueTyped /\ DrainsTyped /\ ThreadsTyped
  /\ WorkerTyped /\ ServiceTyped /\ InputsTyped

\* Nothing accepted is lost, duplicated or reordered on its way to the
\* producer: what it took, then what the worker holds, then what is queued.
RecordsConserved == accepted = sent \o cur \o state.records

\* A drain that reports Complete does so only when every record accepted
\* before it was requested is acknowledged, whatever flag it shared or found.
CompleteMeansAcked ==
  \A t \in Threads : outcome[t] = "complete" => want[t] <= acked

\* stop() returning Ok means every accepted record was acknowledged, also when
\* the element was paused or flushed before.
StopOkMeansAcked ==
  pc["app"] = "stopped" /\ outcome["app"] \in {"complete", "flushing"}
    => acked = Len(accepted)

\* A thread that changed the state and has yet to notify the condition variables.
DoneNotifyDue ==
  \/ pc["app"] = "unlock_notify" \/ wpc \in {"store_notify", "finish_notify"}
  \/ \E t \in Threads : pc[t] = "drain_notify"
CapacityNotifyDue == DoneNotifyDue \/ pc["app"] = "close_notify"

\* Nobody sleeps through a wakeup. A worker parked on its notification has nothing
\* to do, or the permit is stored, or whoever made the work has yet to notify; a
\* render() parked on a full queue, and a drain parked on done, still have their
\* reason to wait, or a notification of their condition variable is due.
NoLostWakeup ==
  /\ wpc = "idle" /\ ~permit =>
       /\ state.records # <<>> => pc["stream"] = "enqueue_notify"
       /\ state.drain = NoDrain
       /\ ~state.accepting =>
            pc["app"] = "close_notify" \/ \E t \in Threads : pc[t] = "drain_notify"
  /\ pc["stream"] = "capacity_wait" => ~(HasRoom \/ Refusing) \/ CapacityNotifyDue
  /\ \A t \in Threads : pc[t] = "drain_wait" => Blocked(held[t]) \/ DoneNotifyDue

\* The bus hears of every failure, and of nothing else: from whoever of a failed EOS
\* and a failed worker claims the report, once, and from a stop() that fails, once
\* more. A timeout that only stop() met is told by it.
WorkerEnded == wpc \in {"exited", "aborted"}
FailureTold ==
  /\ posts <= IF pc["app"] = "stopped" /\ StopFails THEN 2 ELSE 1
  /\ posts > 0 => state.failure # "none"
  /\ eos = "failed" \/ (WorkerEnded /\ state.failure = "worker") => posts > 0
  /\ pc["app"] = "stopped" /\ state.failure # "none" => posts > 0

\* What was signalled arrives: no thread sleeps through its notification, and
\* the bus hears of a failure.
SignalsArrive == NoLostWakeup /\ FailureTold

\* Once the sink failed, the failure is the one that is reported and nothing
\* more is accepted.
FailureIsFinal ==
  [][state.failure # "none" =>
       state'.failure = state.failure /\ accepted' = accepted]_vars

\* The queue, worker and barriers implement the abstract log.
Log == INSTANCE DurableLog WITH
  Records <- 1..MaxRecords, Barriers <- Threads,
  log <- SubSeq(sent, 1, acked),
  confirmed <- [t \in Threads |-> IF outcome[t] = "complete" THEN want[t] ELSE 0]
LogImplemented == Log!Spec

\* README.md: EOS that succeeds was preceded by the acknowledgement of every
\* accepted record.
EosMeansAcked == eos = "forwarded" => acked = Len(accepted)

Draining(t) == pc[t] \in {"drain_wait", "drain_check"}

\* Even when the service answers nothing at all, shutdown-timeout bounds every
\* drain, and with the join timeout it bounds stop().
DrainEnds == \A t \in Threads : Draining(t) ~> pc[t] = "drained"
StopEnds == pc["app"] = "close_notify" ~> pc["app"] = "stopped"

\* Both, together: no barrier, of the pipeline or of stop(), hangs on the service.
BarriersEnd == DrainEnds /\ StopEnds

\* With a service that answers, a render() held back by a full queue goes on.
RenderReturns == ServiceAnswers => (InRender ~> pc["stream"] = "idle")

\* With a service that answers, every accepted record is acknowledged although
\* nobody asks for it, unless a failure is stored or stop() gave the worker up.
AcceptedIsAcked ==
  ServiceAnswers =>
    \A n \in 1..MaxRecords :
      Len(accepted) >= n ~> acked >= n \/ state.failure # "none" \/ wpc = "aborted"

\* Nothing hangs: no barrier on the service, no render() and no record on a service
\* that answers.
NothingHangs == BarriersEnd /\ RenderReturns /\ AcceptedIsAcked
=============================================================================
