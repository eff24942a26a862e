------------------------------- MODULE S2Src -------------------------------
(***************************************************************************)
(* s2src (net/s2/src/s2src/imp.rs): a read worker on the tokio runtime     *)
(* sends the records of an S2 stream through a bounded channel to          *)
(* create(), which runs on the streaming thread.  A flush replaces the     *)
(* worker; the replacement resumes behind the last record delivered.       *)
(*                                                                         *)
(* Every worker has an epoch of its own: its channel, its cancellation     *)
(* token, its failure slot and its error_posted flag.  GStreamer runs      *)
(* create(), unlock_stop() and stop() under the stream lock, one at a      *)
(* time; unlock() comes from any thread at any moment.                     *)
(***************************************************************************)
EXTENDS Naturals, Sequences

CONSTANTS
  Capacity,      \* queue-capacity, the size of the channel
  MaxSeq,        \* largest sequence number (u64::MAX)
  StartSeqNum,   \* start-seq-num
  TailOffset,    \* tail-offset
  ServiceFails,  \* may S2 calls fail?
  AttachFails,   \* may attaching the metadata fail?
  MaxEpochs      \* bound: workers started; a flush begins only if it can end with one more

ASSUME S2SrcAssumption ==
  /\ Capacity \in Nat \ {0} /\ MaxSeq \in Nat /\ MaxEpochs \in Nat
  /\ StartSeqNum \in 0..MaxSeq /\ TailOffset \in Nat
  /\ {ServiceFails, AttachFails} \subseteq BOOLEAN

VARIABLES
  started, epoch, slot, last, flushing, \* State::Started: worker, worker.receiver, last_delivered
  cancelled, failure, claimed,          \* epochs whose token, failure, error_posted is set
  queue,                                \* per epoch, the records in the channel
  cpc, chan, token, got,                \* create(): where it is, its receiver, its token, its record
  lpc, old,                             \* unlock_stop() or stop(): where it is, the worker it stops
  setting,                              \* start-mode and clamp-to-tail, as set before the start
  wpc, from, pos, upto,                 \* per worker: where it is, start override, the batch left to send
  written,                              \* records on the S2 stream
  broken, posts,                        \* history: failed sessions, messages per epoch
  delivered, unattached                 \* history: buffers returned; an attachment failed

stateVars  == <<started, epoch, slot, last, flushing>>
errorVars  == <<failure, claimed, posts>>
createVars == <<cpc, chan, token, got, delivered, unattached>>
lifeVars   == <<lpc, old, setting>>
workerVars == <<wpc, from, pos, upto, broken>>
vars == <<stateVars, cancelled, errorVars, queue, createVars, lifeVars, workerVars, written>>

Epochs == 1..MaxEpochs
None == MaxSeq + 1                     \* Option::None of a sequence number
NoEpoch == 0
Settings == [startMode : {"sequence", "tail-offset"}, clampToTail : BOOLEAN]
-----------------------------------------------------------------------------
Init ==
  /\ started = FALSE /\ epoch = 0 /\ slot = NoEpoch /\ last = None /\ flushing = FALSE
  /\ cancelled = {} /\ failure = {} /\ claimed = {}
  /\ queue = [e \in Epochs |-> <<>>]
  /\ cpc = "idle" /\ chan = NoEpoch /\ token = NoEpoch /\ got = None
  /\ lpc = "idle" /\ old = NoEpoch /\ setting \in Settings
  /\ wpc = [e \in Epochs |-> "none"] /\ from = [e \in Epochs |-> None]
  /\ pos = [e \in Epochs |-> 0] /\ upto = [e \in Epochs |-> 0]
  /\ written = 0
  /\ broken = {} /\ posts = [e \in Epochs |-> 0] /\ delivered = <<>> /\ unattached = FALSE

\* The stream lock: none of create(), unlock_stop(), start() and stop() is running.
StreamLockFree == cpc \in {"idle", "ended"} /\ lpc = "idle"

\* spawn_worker_with_start: a worker with a channel, a token and flags of its own.
Spawn(resume) ==
  /\ epoch < MaxEpochs
  /\ epoch' = epoch + 1 /\ slot' = epoch + 1
  /\ wpc' = [wpc EXCEPT ![epoch + 1] = "check"]
  /\ from' = [from EXCEPT ![epoch + 1] = resume]
  /\ UNCHANGED <<pos, upto, broken>>

Start ==
  /\ ~started /\ StreamLockFree
  /\ Spawn(None)
  /\ started' = TRUE /\ last' = None /\ flushing' = FALSE
  /\ setting' \in Settings
  /\ cpc' = "idle" /\ delivered' = <<>> /\ unattached' = FALSE
  /\ UNCHANGED <<cancelled, errorVars, queue, chan, token, got, lpc, old, written>>

UnlockQuietly ==                                          \* mutant: nobody cancelled
  /\ started /\ ~flushing /\ epoch < MaxEpochs
  /\ flushing' = TRUE
  /\ UNCHANGED <<started, epoch, slot, last, cancelled, errorVars, queue, createVars, lifeVars,
                 workerVars, written>>
Unlock ==
  /\ started /\ ~flushing /\ epoch < MaxEpochs
  /\ flushing' = TRUE /\ cancelled' = cancelled \union {epoch}
  /\ UNCHANGED <<started, epoch, slot, last, errorVars, queue, createVars, lifeVars,
                 workerVars, written>>

\* last_delivered + 1, or None for the configured start.
ResumeAtLast == last                                      \* mutant: not past it
Resume == IF last = None THEN None ELSE last + 1
Exhausted == last = MaxSeq

\* unlock_stop(): the flush ends; the replacement is in place before the old
\* worker is stopped.  An exhausted sequence leaves the cancelled worker there.
UnlockStop ==
  /\ started /\ flushing /\ StreamLockFree
  /\ flushing' = FALSE
  /\ cpc' = "idle"
  /\ IF Exhausted
     THEN UNCHANGED <<epoch, slot, cancelled, lpc, old, workerVars>>
     ELSE Spawn(Resume) /\ cancelled' = cancelled \union {epoch} /\ lpc' = "join" /\ old' = epoch
  /\ UNCHANGED <<started, last, errorVars, queue, chan, token, got, delivered, unattached, setting,
                 written>>

Stop ==
  /\ started /\ StreamLockFree
  /\ started' = FALSE /\ slot' = NoEpoch
  /\ cancelled' = cancelled \union {epoch}
  /\ lpc' = "join" /\ old' = epoch
  /\ UNCHANGED <<epoch, last, flushing, errorVars, queue, createVars, setting, workerVars, written>>

\* stop_worker: the worker ended, or two seconds passed and it was aborted at an await.
Awaiting == {"check", "open", "read", "send"}
Joined ==
  /\ lpc = "join"
  /\ \/ wpc[old] = "exited" /\ UNCHANGED wpc
     \/ wpc[old] \in Awaiting /\ wpc' = [wpc EXCEPT ![old] = "exited"]
  /\ lpc' = "idle" /\ old' = NoEpoch
  /\ UNCHANGED <<stateVars, cancelled, errorVars, queue, createVars, setting, from, pos, upto, broken,
                 written>>
-----------------------------------------------------------------------------
\* create(): take the receiver out of the state. An error or FLUSHING returned
\* pauses the streaming task ("ended") until a flush ends or the element restarts.
CreateBegin ==
  /\ cpc = "idle" /\ lpc = "idle" /\ started /\ ~flushing
  /\ IF slot = NoEpoch
     THEN cpc' = "ended" /\ UNCHANGED <<slot, chan, token>>
     ELSE cpc' = "wait" /\ slot' = NoEpoch /\ chan' = slot /\ token' = epoch
  /\ UNCHANGED <<started, epoch, last, flushing, cancelled, errorVars, queue, got, delivered, unattached,
                 lifeVars, workerVars, written>>

\* select!: cancelled, a record, or a channel that is empty and closed.
Closed(e) == wpc[e] \in {"failed", "stored", "exited"}
CreateWait ==
  /\ cpc = "wait"
  /\ \/ token \in cancelled /\ UNCHANGED <<got, queue>>
     \/ /\ queue[chan] # <<>>
        /\ got' = Head(queue[chan]) /\ queue' = [queue EXCEPT ![chan] = Tail(@)]
     \/ queue[chan] = <<>> /\ Closed(chan) /\ UNCHANGED <<got, queue>>
  /\ cpc' = "recheck"
  /\ UNCHANGED <<stateVars, cancelled, errorVars, chan, token, delivered, unattached, lifeVars, workerVars,
                 written>>

\* Is this attempt to be given up?
Interrupted == flushing \/ token \in cancelled

\* post_read_error, or the worker's own message, once per worker.
Post(e) ==
  IF e \in claimed THEN UNCHANGED <<claimed, posts>>
  ELSE claimed' = claimed \union {e} /\ posts' = [posts EXCEPT ![e] = @ + 1]

\* Put the receiver back, then give up, fail, or go on with the record.
PutBackUnlessInterrupted == IF Interrupted THEN slot ELSE chan   \* mutant: early return first
PutBack == chan
CreateRecheck ==
  /\ cpc = "recheck"
  /\ slot' = PutBack
  /\ \/ Interrupted /\ cpc' = "ended" /\ got' = None /\ UNCHANGED <<claimed, posts>>
     \/ ~Interrupted /\ got = None /\ cpc' = "ended" /\ Post(epoch) /\ UNCHANGED got
     \/ ~Interrupted /\ got # None /\ cpc' = "commit" /\ UNCHANGED <<got, claimed, posts>>
  /\ UNCHANGED <<started, epoch, last, flushing, cancelled, failure, queue, chan, token, delivered, unattached,
                 lifeVars, workerVars, written>>

\* commit_delivered_cursor: the record counts as delivered, or the attempt is
\* given up; attaching the metadata may have failed before.
GiveUp == Interrupted \/ epoch # token
CreateCommit ==
  /\ cpc = "commit"
  /\ \/ ~GiveUp /\ cpc' = "idle" /\ last' = got /\ delivered' = Append(delivered, got)
        /\ UNCHANGED unattached
     \/ GiveUp /\ cpc' = "ended" /\ UNCHANGED <<last, delivered, unattached>>
     \/ AttachFails /\ cpc' = "ended" /\ unattached' = TRUE /\ UNCHANGED <<last, delivered>>
  /\ got' = None
  /\ UNCHANGED <<started, epoch, slot, flushing, cancelled, errorVars, queue, chan, token,
                 lifeVars, workerVars, written>>

Create == CreateBegin \/ CreateWait \/ CreateRecheck \/ CreateCommit
-----------------------------------------------------------------------------
\* The body of the read worker e; every await also watches the token.
WorkerCancelled(e) ==
  /\ wpc[e] \in Awaiting /\ e \in cancelled
  /\ wpc' = [wpc EXCEPT ![e] = "exited"]
  /\ UNCHANGED <<stateVars, cancelled, errorVars, queue, createVars, lifeVars,
                 from, pos, upto, broken, written>>

\* The configured start is a sequence number or counts from the tail; a resumed
\* read starts where it is told and is never clamped.
StartOf(e) ==
  IF from[e] # None THEN from[e]
  ELSE IF setting.startMode = "sequence" THEN StartSeqNum
  ELSE IF TailOffset < written THEN written - TailOffset ELSE 0
Clamps(e) == setting.clampToTail /\ from[e] = None

\* read_worker returns an error: the sender is gone before the failure is stored.
Break(e) ==
  /\ wpc' = [wpc EXCEPT ![e] = "failed"]
  /\ broken' = broken \union {e}
  /\ UNCHANGED <<stateVars, cancelled, errorVars, queue, createVars, lifeVars,
                 from, pos, upto, written>>

\* An S2 call fails, the session ends, or the start is beyond the tail.
WorkerBreaks(e) ==
  \/ ServiceFails /\ wpc[e] \in {"check", "open", "read"} /\ Break(e)
  \/ wpc[e] = "check" /\ ~Clamps(e) /\ StartOf(e) > written /\ Break(e)

\* check_tail, unless clamping was asked for.
WorkerCheck(e) ==
  /\ wpc[e] = "check" /\ (Clamps(e) \/ StartOf(e) <= written)
  /\ wpc' = [wpc EXCEPT ![e] = "open"]
  /\ UNCHANGED <<stateVars, cancelled, errorVars, queue, createVars, lifeVars,
                 from, pos, upto, broken, written>>

\* read_session: the service places the cursor.
WorkerOpen(e) ==
  LET start == IF Clamps(e) /\ StartOf(e) > written THEN written ELSE StartOf(e)
  IN /\ wpc[e] = "open"
     /\ wpc' = [wpc EXCEPT ![e] = "read"]
     /\ pos' = [pos EXCEPT ![e] = start] /\ upto' = [upto EXCEPT ![e] = start]
     /\ UNCHANGED <<stateVars, cancelled, errorVars, queue, createVars, lifeVars,
                    from, broken, written>>

\* session.next(): a batch of the records behind the cursor.
WorkerRead(e) ==
  /\ wpc[e] = "read"
  /\ \E end \in (pos[e] + 1)..written : upto' = [upto EXCEPT ![e] = end]
  /\ wpc' = [wpc EXCEPT ![e] = "send"]
  /\ UNCHANGED <<stateVars, cancelled, errorVars, queue, createVars, lifeVars,
                 from, pos, broken, written>>

\* sender.send of the next record: room in the channel, or nobody receives any more.
HasReceiver(e) == slot = e \/ (cpc \in {"wait", "recheck"} /\ chan = e)
Room(e) == Len(queue[e]) < Capacity
WorkerSend(e) ==
  /\ wpc[e] = "send"
  /\ \/ /\ HasReceiver(e) /\ Room(e)
        /\ queue' = [queue EXCEPT ![e] = Append(@, pos[e])]
        /\ pos' = [pos EXCEPT ![e] = @ + 1]
        /\ wpc' = [wpc EXCEPT ![e] = IF pos[e] + 1 = upto[e] THEN "read" ELSE "send"]
     \/ ~HasReceiver(e) /\ wpc' = [wpc EXCEPT ![e] = "exited"] /\ UNCHANGED <<queue, pos>>
  /\ UNCHANGED <<stateVars, cancelled, errorVars, createVars, lifeVars, from, upto, broken, written>>

WorkerStoreFailure(e) ==
  /\ wpc[e] = "failed"
  /\ wpc' = [wpc EXCEPT ![e] = "stored"] /\ failure' = failure \union {e}
  /\ UNCHANGED <<stateVars, cancelled, claimed, posts, queue, createVars, lifeVars,
                 from, pos, upto, broken, written>>

WorkerPost(e) ==
  /\ wpc[e] = "stored"
  /\ wpc' = [wpc EXCEPT ![e] = "exited"] /\ Post(e)
  /\ UNCHANGED <<stateVars, cancelled, failure, queue, createVars, lifeVars,
                 from, pos, upto, broken, written>>

Worker(e) ==
  \/ WorkerCancelled(e) \/ WorkerBreaks(e) \/ WorkerCheck(e) \/ WorkerOpen(e) \/ WorkerRead(e)
  \/ WorkerSend(e) \/ WorkerStoreFailure(e) \/ WorkerPost(e)

\* Somebody appends to the S2 stream.
AppendRecord ==
  /\ written <= MaxSeq /\ written' = written + 1
  /\ UNCHANGED <<stateVars, cancelled, errorVars, queue, createVars, lifeVars, workerVars>>
-----------------------------------------------------------------------------
Next ==
  \/ Start \/ Unlock \/ UnlockStop \/ Stop \/ Joined \/ Create
  \/ \E e \in Epochs : Worker(e)
  \/ AppendRecord

Spec == Init /\ [][Next]_vars

\* The streaming thread, a thread inside unlock_stop() or stop(), and the end of
\* a read worker go on. Nothing is promised about the S2 service.
LocalSpec ==
  /\ Spec
  /\ WF_vars(Create) /\ WF_vars(Joined)
  /\ \A e \in Epochs : WF_vars(WorkerStoreFailure(e) \/ WorkerPost(e))

\* Premises of one property below: the service answers, and whoever starts a
\* flush ends it.
ServiceAnswers == \A e \in Epochs : WF_vars(Worker(e))
FlushesEnd == WF_vars(UnlockStop)
-----------------------------------------------------------------------------
SeqNums == 0..MaxSeq

\* Every variable holds a value of its type; a channel holds at most Capacity records.
TypeOK ==
  /\ {started, flushing, unattached} \subseteq BOOLEAN /\ setting \in Settings
  /\ epoch \in 0..MaxEpochs /\ {slot, chan, token, old} \subseteq Epochs \union {NoEpoch}
  /\ {last, got} \subseteq SeqNums \union {None}
  /\ \A set \in {cancelled, failure, claimed, broken} : set \subseteq Epochs
  /\ queue \in [Epochs -> Seq(SeqNums)] /\ \A e \in Epochs : Len(queue[e]) <= Capacity
  /\ cpc \in {"idle", "wait", "recheck", "commit", "ended"} /\ lpc \in {"idle", "join"}
  /\ wpc \in [Epochs -> Awaiting \union {"none", "failed", "stored", "exited"}]
  /\ from \in [Epochs -> SeqNums \union {None}]
  /\ pos \in [Epochs -> 0..(MaxSeq + 1)] /\ upto \in [Epochs -> 0..(MaxSeq + 1)]
  /\ written \in 0..(MaxSeq + 1) /\ posts \in [Epochs -> Nat] /\ delivered \in Seq(SeqNums)

FromSequence == started /\ setting = [startMode |-> "sequence", clampToTail |-> FALSE]

\* From start() on, flushes included, the buffers returned are consecutive
\* records, and a configured sequence number that is not beyond the tail is the
\* first (README: "resumes at the last delivered seq-num + 1").
DeliveredInOrder ==
  /\ \A k \in 1..Len(delivered) : delivered[k] = delivered[1] + k - 1
  /\ delivered # <<>> /\ FromSequence => delivered[1] = StartSeqNum

\* Outside create() the state holds the receiver of the current worker, so that
\* create() finds one and reads from the worker it watches.
ReceiverHome == started /\ cpc \in {"idle", "commit", "ended"} => slot = epoch

\* A worker's failure is reported at most once, by the worker or by create(),
\* and nothing is reported for a worker that did not fail: neither a flush, nor
\* stop(), nor an abort looks like a failure.
ReportedFailuresAreReal ==
  \A e \in Epochs : posts[e] <= 1 /\ (posts[e] = 1 => e \in broken)

\* Well typed, the receiver where create() looks for it, and no failure made up.
Consistent == TypeOK /\ ReceiverHome /\ ReportedFailuresAreReal

\* unlock() makes create() return, whatever the service does (no test covers a
\* flush between two of its steps).
FlushEndsCreate == cpc = "wait" /\ flushing ~> cpc \notin {"wait", "recheck", "commit"}

\* unlock_stop() and stop() return within the two seconds, whatever the service does.
LifecycleReturns == lpc = "join" ~> lpc = "idle"

\* Both, together: neither the streaming thread nor the application hangs on the service.
FlushAndStopReturn == FlushEndsCreate /\ LifecycleReturns

\* A record is due when it is on the stream and the source started at it or before:
\* where, the first delivery tells, or a configured sequence number.
Due(n) ==
  /\ started /\ n < written
  /\ IF delivered # <<>> THEN delivered[1] <= n ELSE FromSequence /\ StartSeqNum <= n

\* With a service that answers and flushes that end, a record that is due is
\* delivered, across any number of flushes, unless the source is stopped, failed
\* to read, or failed to attach the metadata.
EveryRecordDelivered ==
  ServiceAnswers /\ FlushesEnd =>
    \A n \in SeqNums :
      Due(n) ~> ~started \/ broken # {} \/ unattached \/ \E k \in DOMAIN delivered : delivered[k] = n

\* Neither the streaming thread nor the application hangs on the service, and with
\* one that answers every record comes.
Progress == FlushAndStopReturn /\ EveryRecordDelivered
=============================================================================
