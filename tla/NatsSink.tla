------------------------------ MODULE NatsSink ------------------------------
(***************************************************************************)
(* natssink (net/nats/src/natssink/imp.rs) through one run: render() puts  *)
(* messages into a bounded channel without ever waiting, a publish worker  *)
(* hands them to the Core NATS client and flushes it when the channel      *)
(* closes, and the client's event callback reports denied permissions      *)
(* (net/nats/src/connection.rs).                                           *)
(*                                                                         *)
(* render() holds the state lock from its checks to try_send, so unlock()  *)
(* and stop() do not come in between; the worker and the callback share    *)
(* only the failure slot, error_posted and the rejected token with it.     *)
(***************************************************************************)
EXTENDS Naturals, Sequences, SequencesExt

CONSTANTS
  Capacity,     \* queue-capacity
  ClientFails,  \* may publish or flush fail, or the server deny permission?
  MaxMessages   \* bound: buffers rendered

NatsSinkAssumption ==
  /\ Capacity \in Nat \ {0} /\ MaxMessages \in Nat
  /\ ClientFails \in BOOLEAN

VARIABLES
  started, flushing, dropped,        \* State::Started, dropped_messages
  dropOnFull, immediate,             \* drop-on-full; drain-timeout is zero: set before start
  queue,                             \* the channel
  failure, errorPosted, rejected,    \* shared by render, worker and callback
  pc,                                \* streaming thread: "idle", "send", "ended"
  wpc, hand,                         \* worker: where it is, the message in hand (0: none)
  cbpc,                              \* callback: "idle" or "report"
  spc, queued,                       \* stop(): "none", "stopping", "stopped"; queued_messages
  rendered, accepted, published,     \* history: buffers, and their fate
  late,                              \* history: messages accepted after a failure was stored
  flushed, aborted, warned,          \* history: flush succeeded; stop() gave the worker up,
                                     \*   and logged what it abandoned
  workerErrors, permissionErrors     \* history: messages on the bus

flagVars   == <<failure, errorPosted, rejected>>
streamVars == <<pc, dropped, rendered, accepted, late>>
workerVars == <<wpc, hand, published, flushed>>
stopVars   == <<spc, queued, aborted, warned>>
runVars    == <<started, dropOnFull, immediate, stopVars>>
vars == <<flushing, queue, flagVars, streamVars, workerVars, runVars, cbpc,
          workerErrors, permissionErrors>>
-----------------------------------------------------------------------------
Init ==
  /\ started = TRUE /\ flushing = FALSE /\ dropped = 0
  /\ dropOnFull \in BOOLEAN /\ immediate \in BOOLEAN
  /\ queue = <<>>
  /\ failure = FALSE /\ errorPosted = FALSE /\ rejected = FALSE
  /\ pc = "idle" /\ wpc = "recv" /\ hand = 0 /\ cbpc = "idle"
  /\ spc = "none" /\ queued = 0
  /\ rendered = 0 /\ late = 0 /\ accepted = <<>> /\ published = <<>>
  /\ flushed = FALSE /\ aborted = FALSE /\ warned = FALSE
  /\ workerErrors = 0 /\ permissionErrors = 0

\* error_posted.swap(true): whoever comes first reports.
Report ==
  /\ errorPosted' = TRUE
  /\ workerErrors' = IF errorPosted THEN workerErrors ELSE workerErrors + 1

\* The receiver was closed, or dropped with the worker.
Closed == wpc \in {"flush", "flush_report", "exited"}

\* render(): the checks. While flushing, or after a rejection, the buffer is refused.
RenderRefused ==
  /\ pc = "idle" /\ started /\ rendered < MaxMessages
  /\ ~flushing /\ (rejected \/ failure)
  /\ rendered' = rendered + 1 /\ pc' = "ended"
  /\ IF rejected THEN UNCHANGED <<errorPosted, workerErrors>> ELSE Report
  /\ UNCHANGED <<flushing, queue, failure, rejected, dropped, accepted, late, workerVars, runVars,
                 cbpc, permissionErrors>>

RenderBegin ==
  /\ pc = "idle" /\ started /\ rendered < MaxMessages
  /\ ~flushing /\ ~rejected /\ ~failure
  /\ rendered' = rendered + 1 /\ pc' = "send"
  /\ UNCHANGED <<flushing, queue, flagVars, dropped, accepted, late, workerVars, runVars, cbpc,
                 workerErrors, permissionErrors>>

\* try_send: accepted, dropped, or an error.
Room == Len(queue) < Capacity
RenderSend ==
  /\ pc = "send"
  /\ \/ /\ ~Closed /\ Room
        /\ queue' = Append(queue, rendered) /\ accepted' = Append(accepted, rendered)
        /\ late' = IF failure THEN late + 1 ELSE late
        /\ pc' = "idle" /\ UNCHANGED <<dropped, errorPosted, workerErrors>>
     \/ /\ ~Closed /\ ~Room /\ dropOnFull
        /\ dropped' = dropped + 1 /\ pc' = "idle"
        /\ UNCHANGED <<queue, accepted, late, errorPosted, workerErrors>>
     \/ /\ ~Closed /\ ~Room /\ ~dropOnFull
        /\ pc' = "ended" /\ UNCHANGED <<queue, accepted, late, dropped, errorPosted, workerErrors>>
     \/ /\ Closed
        /\ pc' = "ended" /\ Report /\ UNCHANGED <<queue, accepted, late, dropped>>
  /\ UNCHANGED <<flushing, failure, rejected, rendered, workerVars, runVars, cbpc, permissionErrors>>

Unlock ==
  /\ started /\ pc # "send" /\ flushing' = ~flushing      \* unlock(), unlock_stop()
  /\ UNCHANGED <<queue, flagVars, streamVars, workerVars, runVars, cbpc,
                 workerErrors, permissionErrors>>
-----------------------------------------------------------------------------
\* publish_worker: receive; when the channel is closed and empty, flush.
WorkerReceive ==
  /\ wpc = "recv" /\ queue # <<>>
  /\ hand' = Head(queue) /\ queue' = Tail(queue) /\ wpc' = "publish"
  /\ UNCHANGED <<flushing, flagVars, streamVars, published, flushed, runVars, cbpc,
                 workerErrors, permissionErrors>>

WorkerDrained ==
  /\ wpc = "recv" /\ queue = <<>> /\ ~started
  /\ wpc' = "flush"
  /\ UNCHANGED <<flushing, queue, flagVars, streamVars, hand, published, flushed, runVars, cbpc,
                 workerErrors, permissionErrors>>

WorkerPublish ==
  /\ wpc = "publish"
  /\ \/ published' = Append(published, hand) /\ hand' = 0 /\ wpc' = "recv"
     \/ ClientFails /\ wpc' = "store" /\ UNCHANGED <<published, hand>>
  /\ UNCHANGED <<flushing, queue, flagVars, streamVars, flushed, runVars, cbpc,
                 workerErrors, permissionErrors>>

\* The failure is stored, then reported, then the receiver is closed.
WorkerStore ==
  /\ wpc = "store"
  /\ failure' = TRUE /\ wpc' = "report"
  /\ UNCHANGED <<flushing, queue, errorPosted, rejected, streamVars, hand, published, flushed,
                 runVars, cbpc, workerErrors, permissionErrors>>

WorkerReport ==
  /\ wpc = "report"
  /\ Report /\ wpc' = "flush"
  /\ UNCHANGED <<flushing, queue, failure, rejected, streamVars, hand, published, flushed,
                 runVars, cbpc, permissionErrors>>

\* client.flush(): a failure is stored and reported unless there was one.
WorkerFlush ==
  /\ wpc = "flush"
  /\ \/ flushed' = TRUE /\ wpc' = "exited" /\ UNCHANGED failure
     \/ /\ ClientFails /\ UNCHANGED flushed
        /\ failure' = TRUE /\ wpc' = IF failure THEN "exited" ELSE "flush_report"
  /\ UNCHANGED <<flushing, queue, errorPosted, rejected, streamVars, hand, published,
                 runVars, cbpc, workerErrors, permissionErrors>>

WorkerFlushReport ==
  /\ wpc = "flush_report"
  /\ Report /\ wpc' = "exited"
  /\ UNCHANGED <<flushing, queue, failure, rejected, streamVars, hand, published, flushed,
                 runVars, cbpc, permissionErrors>>

\* run_until_cancelled: at an await the worker may find the token cancelled.
Awaiting == wpc \in {"recv", "publish", "flush"}
WorkerCancelled ==
  /\ Awaiting /\ rejected
  /\ wpc' = "exited"
  /\ UNCHANGED <<flushing, queue, flagVars, streamVars, hand, published, flushed, runVars, cbpc,
                 workerErrors, permissionErrors>>

\* observe_events: the first denied permission rejects the run and is reported.
CallbackReject ==
  /\ ClientFails /\ cbpc = "idle" /\ ~rejected
  /\ started \/ wpc # "exited"
  /\ rejected' = TRUE /\ cbpc' = "report"
  /\ UNCHANGED <<flushing, queue, failure, errorPosted, streamVars, workerVars, runVars,
                 workerErrors, permissionErrors>>

CallbackReport ==
  /\ cbpc = "report" /\ cbpc' = "idle" /\ permissionErrors' = permissionErrors + 1
  /\ UNCHANGED <<flushing, queue, flagVars, streamVars, workerVars, runVars, workerErrors>>
-----------------------------------------------------------------------------
\* stop(): queued_messages is what the channel holds now (nothing once the worker has
\* dropped its receiver), and the sender is dropped.
Stop ==
  /\ started /\ pc # "send"
  /\ started' = FALSE /\ spc' = "stopping"
  /\ queued' = IF wpc = "exited" THEN 0 ELSE Len(queue)
  /\ UNCHANGED <<flushing, queue, flagVars, streamVars, workerVars, dropOnFull, immediate,
                 aborted, warned, cbpc, workerErrors, permissionErrors>>

\* The worker ended by itself. An immediate stop does not ask and goes by queued_messages.
StopJoined ==
  /\ spc = "stopping" /\ wpc = "exited"
  /\ spc' = "stopped" /\ warned' = (immediate /\ queued > 0)
  /\ UNCHANGED <<flushing, queue, flagVars, streamVars, workerVars, started, dropOnFull,
                 immediate, queued, aborted, cbpc, workerErrors, permissionErrors>>

\* The worker is dropped at an await: at once, or when drain-timeout is over. Only the
\* latter always logs it.
WarnsIfQueued == queued > 0                               \* mutant: whatever the timeout
AbortWarns == ~immediate \/ queued > 0
StopAborts ==
  /\ spc = "stopping" /\ Awaiting
  /\ wpc' = "exited" /\ aborted' = TRUE /\ warned' = AbortWarns /\ spc' = "stopped"
  /\ UNCHANGED <<flushing, queue, flagVars, streamVars, hand, published, flushed, started,
                 dropOnFull, immediate, queued, cbpc, workerErrors, permissionErrors>>

\* The steps of the worker and of the callback that wait for nobody.
Prompt == WorkerStore \/ WorkerReport \/ WorkerFlushReport \/ CallbackReport
Worker == WorkerReceive \/ WorkerDrained \/ WorkerPublish \/ WorkerFlush \/ WorkerCancelled
Next ==
  \/ RenderRefused \/ RenderBegin \/ RenderSend \/ Unlock
  \/ Worker \/ Prompt \/ CallbackReject
  \/ Stop \/ StopJoined \/ StopAborts

Spec == Init /\ [][Next]_vars

-----------------------------------------------------------------------------
\* Every variable holds a value of its type; the channel is never over its capacity.
TypeOK ==
  /\ {started, dropOnFull, immediate, flushing, failure, errorPosted, rejected, flushed,
      aborted, warned} \subseteq BOOLEAN
  /\ {rendered, dropped, hand, late} \subseteq 0..MaxMessages
  /\ queue \in Seq(1..MaxMessages) /\ Len(queue) <= Capacity
  /\ {accepted, published} \subseteq Seq(1..MaxMessages)
  /\ pc \in {"idle", "send", "ended"} /\ cbpc \in {"idle", "report"}
  /\ wpc \in {"recv", "publish", "store", "report", "flush", "flush_report", "exited"}
  /\ spc \in {"none", "stopping", "stopped"} /\ queued \in 0..Capacity
  /\ {workerErrors, permissionErrors} \subseteq Nat

\* The message in the worker's hand, as a sequence.
InHand == IF hand = 0 THEN <<>> ELSE <<hand>>

\* Messages are published in the order render() accepted them, none twice and,
\* as long as nothing went wrong, none missing: what was accepted is what was
\* published, the message in hand and the channel.
PublishedInOrder ==
  /\ IsPrefix(published, accepted)
  /\ wpc \in {"recv", "publish"} =>
       accepted = published \o InHand \o queue

\* When stop() returns although an accepted message was not published, or the
\* client not flushed, an error is on the bus or on its way, or a warning was logged:
\* except that a stop with drain-timeout zero loses, without a word, the message in
\* the worker's hand and what it had not flushed, but never one from the channel.
LossIsVisible ==
  spc = "stopped" /\ (accepted # published \/ ~flushed) =>
    \/ workerErrors + permissionErrors > 0 \/ cbpc = "report" \/ warned
    \/ immediate /\ aborted /\ accepted = published \o InHand

\* However render(), the worker and the callback race, a run reports one
\* worker failure and one denied permission at most.
ReportedOnce == workerErrors <= 1 /\ permissionErrors <= 1

\* A stored failure refuses every later render(): only the one that had
\* already looked can still be accepted.
AtMostOneLate == late <= 1

\* Well typed, and after a stored failure render() accepts the late message at most.
Consistent == TypeOK /\ AtMostOneLate

\* A loss is told, but for what drain-timeout zero drops in hand, and told once.
LossIsReported == LossIsVisible /\ ReportedOnce

=============================================================================
