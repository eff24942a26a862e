------------------------------ MODULE Elements ------------------------------
(***************************************************************************)
(* Elements with threads and services of their own that share no state,    *)
(* explored side by side as in Tracers: natssink, natssrc, ocrsanalysis,   *)
(* the console elements on the standard streams of one process, and one    *)
(* HTTP generation of vlmanalysis. A behaviour is a behaviour of one part. *)
(***************************************************************************)
EXTENDS Naturals, Sequences, FiniteSets

CONSTANTS
  Capacity, ClientFails, MaxRendered,                        \* NatsSink
  ServerDenies, AttachFails, MaxReceived, MaxFlushes,        \* NatsSrc
  Intervals, MaxPts, Reentrant, Panics, MaxRuns, MaxInputs,  \* OcrsAnalysis
  RawElements, TextElements, MaxTurns,                       \* ConsoleOutput
  MaxResponseBytes, MaxChunk, MaxFrames                      \* ChatBackend

VARIABLES
  part,  \* the part that this behaviour is of
  started, flushing, dropped, dropOnFull, immediate, queue, failure, errorPosted,
  rejected, pc, wpc, hand, cbpc, spc, queued, rendered, accepted, published, late,
  flushed, aborted, warned, workerErrors, permissionErrors,
  srcStarted, token, cancelled, srcRejected, subscriber, srcPc, mine, got, buffer,
  ended, received, overflowed, srcCbpc, delivered, discarded, readErrors,
  formatErrors, srcPermissionErrors,
  run, slot, lpc, leaving, stop, open, closed, channel, ocrsWpc, job, ocrsSpc,
  interval, sampler, generation, nextId, count, reported, jobs, doubled, tooLarge,
  refused, posted, barred, fatal, unavailable, inputs,
  outputs, writing, streamLock, buffered, shown, turns,
  request, sent, status, heldBytes, phase, verdict

Sink == INSTANCE NatsSink WITH MaxMessages <- MaxRendered
Src  == INSTANCE NatsSrc WITH
          MaxMessages <- MaxReceived, started <- srcStarted, rejected <- srcRejected,
          holder <- subscriber, pc <- srcPc, closed <- ended, sent <- received,
          cbpc <- srcCbpc, permissionErrors <- srcPermissionErrors
Ocrs == INSTANCE OcrsAnalysis WITH
          queue <- channel, wpc <- ocrsWpc, spc <- ocrsSpc, rejected <- tooLarge
\* A record without a newline, one with it, and one that is not UTF-8.
ConsolePayloads == {<<"x">>, <<"x", "newline">>, <<"invalid">>}
Console == INSTANCE ConsoleOutput WITH
             Payloads <- ConsolePayloads, jobs <- writing, holder <- streamLock
Chat == INSTANCE ChatBackend

ASSUME ElementsAssumption ==
  /\ Sink!NatsSinkAssumption /\ Src!NatsSrcAssumption /\ Ocrs!OcrsAssumption
  /\ Console!ConsoleAssumption /\ Chat!ChatAssumption

Parts == {"sink", "src", "ocrs", "console", "chat"}

sinkVars == <<started, flushing, dropped, dropOnFull, immediate, queue, failure,
              errorPosted, rejected, pc, wpc, hand, cbpc, spc, queued, rendered, accepted,
              published, late, flushed, aborted, warned, workerErrors, permissionErrors>>
srcVars == <<srcStarted, token, cancelled, srcRejected, subscriber, srcPc, mine, got,
             buffer, ended, received, overflowed, srcCbpc, delivered, discarded,
             readErrors, formatErrors, srcPermissionErrors>>
ocrsVars == <<run, slot, lpc, leaving, stop, open, closed, channel, ocrsWpc, job,
              ocrsSpc, interval, sampler, generation, nextId, count, reported, jobs,
              doubled, tooLarge, refused, posted, barred, fatal, unavailable, inputs>>
consoleVars == <<outputs, writing, streamLock, buffered, shown, turns>>
chatVars == <<request, sent, status, heldBytes, phase, verdict>>
elementsVars == <<part, sinkVars, srcVars, ocrsVars, consoleVars, chatVars>>

\* The variables of every part but one rest.
OnlyOf(p) ==
  /\ part = p
  /\ p # "sink" => UNCHANGED sinkVars
  /\ p # "src" => UNCHANGED srcVars
  /\ p # "ocrs" => UNCHANGED ocrsVars
  /\ p # "console" => UNCHANGED consoleVars
  /\ p # "chat" => UNCHANGED chatVars
  /\ UNCHANGED part
-----------------------------------------------------------------------------
\* The parts that rest do so in one state each: a part's choices are made where
\* the behaviour is its own.
Rest ==
  /\ part # "sink" => ~dropOnFull /\ ~immediate
  /\ part # "ocrs" => interval = CHOOSE i \in Intervals : TRUE
  /\ part # "chat" => request = CHOOSE r \in Chat!Requests : TRUE

Init ==
  /\ part \in Parts
  /\ Sink!Init /\ Src!Init /\ Ocrs!Init /\ Console!Init /\ Chat!Init
  /\ Rest

Next ==
  \/ OnlyOf("sink") /\ Sink!Next
  \/ OnlyOf("src") /\ Src!Next
  \/ OnlyOf("ocrs") /\ Ocrs!Next
  \/ OnlyOf("console") /\ Console!Next
  \/ OnlyOf("chat") /\ Chat!Next

Spec == Init /\ [][Next]_elementsVars

\* Of each part, what its module assumes to be fair; the behaviours of a part
\* know only its own.
Steps ==
  \/ OnlyOf("sink") /\ Sink!Prompt
  \/ OnlyOf("src") /\ Src!Create
  \/ OnlyOf("ocrs") /\ Ocrs!StartEnds
Joins ==
  \/ OnlyOf("sink") /\ Sink!StopJoined
  \/ OnlyOf("src") /\ Src!CallbackReport
  \/ OnlyOf("ocrs") /\ Ocrs!StopJoined
Timeouts ==
  \/ OnlyOf("sink") /\ Sink!StopAborts
  \/ OnlyOf("src") /\ Src!UnlockStop
  \/ OnlyOf("ocrs") /\ Ocrs!CountSubmitted

FairSpec ==
  /\ Spec /\ WF_elementsVars(Steps) /\ WF_elementsVars(Joins) /\ WF_elementsVars(Timeouts)
  /\ \A r \in 1..MaxRuns : WF_elementsVars(OnlyOf("ocrs") /\ Ocrs!Worker(r))

\* The NATS client answers, sooner or later: a premise of one property below.
ClientAnswers == WF_elementsVars(OnlyOf("sink") /\ Sink!Worker)
-----------------------------------------------------------------------------
\* The channel is bounded and the publish order is the order of render(), with
\* one late message at most after a failure; a loss is told, and told once, but for
\* the message in hand and the flush that a stop with drain-timeout zero gives up.
SinkHonest ==
  part = "sink" => Sink!Consistent /\ Sink!PublishedInOrder /\ Sink!LossIsReported

\* The subscriber is never lost between create() and stop(), and every message
\* that was received is somewhere or was lost for a reason.
SrcHonest == part = "src" => Src!Consistent /\ Src!LossesExplained

\* One OCR worker at a time, whoever stops it; after stop() none of what it was
\* doing is posted, and before it messages keep the order of the requests.
OcrsQuiet ==
  part = "ocrs" => Ocrs!Consistent /\ Ocrs!PostedInOrder /\ Ocrs!ClosedMeansSilent

\* Frames of a run are counted, failures told once, and samples of a generation
\* keep their distance.
OcrsAccounted == part = "ocrs" => Ocrs!RunAccounted /\ Ocrs!SampledApart

\* Records of several elements come whole and unmixed out of the process.
ConsoleConsistent == part = "console" => Console!ConsoleConsistent

\* A generation tells the provider what was configured, and the element what
\* became of it.
ChatConsistent == part = "chat" => Chat!ChatConsistent

\* What somebody waits for, and what ends the wait: stop() of natssink and of the
\* OCR element, and create() of natssrc once it is flushed or rejected.
Waits ==
  \/ part = "sink" /\ spc # "none"
  \/ part = "src" /\ srcPc = "wait" /\ (mine \in cancelled \/ srcRejected)
  \/ part = "ocrs" /\ lpc # "idle"
Returned ==
  \/ part = "sink" /\ spc = "stopped"
  \/ part = "src" /\ srcPc \in {"idle", "ended"}
  \/ part = "ocrs" /\ lpc = "idle"

\* The one wait that never ends: start() or stop() of the OCR element joins a worker
\* on which a handler waits to change the element's state itself.
Deadlocked == part = "ocrs" /\ leaving # 0 /\ ocrsWpc[leaving] = "blocked"

\* stop() returns although a NATS client answers nothing, or a handler stopped the
\* OCR element before, if none wants to while the worker is joined; create() returns
\* although no message comes.
LifecyclesReturn == Waits ~> Returned \/ Deadlocked

\* What was taken in, and what becomes of it. The bounds end what comes in, so
\* that it is dealt with as a whole. A message that render() accepted is published,
\* unless the client failed, the server denied, or stop() gave the worker up; one
\* in the subscription is read, unless the source stopped, failed or was rejected,
\* which is told; a job of the OCR worker is posted, unless stopped or panicked.
Unposted == slot # 0 /\ Cardinality({k \in DOMAIN posted : posted[k][1] = slot}) < count.submitted
Owed ==
  \/ part = "sink" /\ accepted # published
  \/ part = "src" /\ (buffer # <<>> \/ srcRejected)
  \/ part = "ocrs" /\ Unposted
Settled ==
  \/ part = "sink" /\ (accepted = published \/ failure \/ rejected \/ aborted)
  \/ part = "src" /\ ~srcRejected /\ (buffer = <<>> \/ ~srcStarted \/ ended \/ formatErrors > 0)
  \/ part = "src" /\ srcPermissionErrors = 1
  \/ part = "ocrs" /\ ~Unposted
  \/ part = "ocrs" /\ (slot \in closed \/ (ocrsWpc[slot] = "exited" /\ fatal[slot] = 1))

\* What was taken in is dealt with, if the NATS client answers.
WorkIsDone == ClientAnswers => Owed ~> Settled
=============================================================================
