---------------------------- MODULE StatsdWorker ----------------------------
(***************************************************************************)
(* The statsd tracer around its counters (utils/statsd/src/statsd/imp.rs,  *)
(* worker.rs): constructed() starts the export worker and waits two        *)
(* seconds for its handshake, dispose() stops it after a last export, and  *)
(* each export sends its lines and reports the tracer's own counters, of   *)
(* which two count the export's own failures.                              *)
(*                                                                         *)
(* Pad series are StatsdExport's; here a snapshot has some data lines      *)
(* (pads, the four states of a pipeline, the six gauges of a queue), each  *)
(* of which the UDP sink may refuse.                                       *)
(***************************************************************************)
EXTENDS Naturals, Sequences

CONSTANTS
  MaxLines,     \* bound: data lines of one snapshot
  MaxEvents,    \* bound: pushes over the cap and dropped retirements
  MaxRefusals,  \* bound: lines the sink refuses, and flushes it fails
  MaxWrites      \* bound: writes of properties

WorkerAssumption == {MaxLines, MaxEvents, MaxRefusals, MaxWrites} \subseteq Nat

VARIABLES
  stage,        \* the tracer: constructed() and dispose()
  settings, validated, \* the settings, and those constructed() cloned
  propertyWrites,
  exporter,     \* where the worker thread is
  handshake,    \* the ready channel
  told,         \* a shutdown message is in its channel
  up,           \* worker-running
  last,         \* is this the export after the shutdown message?
  raised,        \* per diagnostic, its counter
  cursor, wasActive, \* per diagnostic, the cursor: value, was_active
  report,       \* the diagnostics this snapshot has still to report
  failing,      \* ErrorLog.failing
  refused,      \* history: refused lines that are not about export errors
  late,         \* history: diagnostics raised after this snapshot reported them, or refused
  events, refusals

tracerVars == <<stage, settings, validated, propertyWrites>>
threadVars == <<exporter, handshake, told, up, last>>
diagVars   == <<raised, cursor, wasActive, report, failing, refused, late, events, refusals>>
workerVars == <<tracerVars, threadVars, diagVars>>

\* In the order export_snapshot reports them.
Order == <<"untracked", "emit", "flush", "dropped">>
Diagnostics == {"untracked", "emit", "flush", "dropped"}
Running == exporter \notin {"none", "exited", "died"}
-----------------------------------------------------------------------------
Init ==
  /\ stage = "new" /\ settings = "valid" /\ validated = "none" /\ propertyWrites = 0
  /\ exporter = "none" /\ handshake = "empty" /\ told = FALSE /\ up = FALSE /\ last = FALSE
  /\ raised = [d \in Diagnostics |-> 0] /\ cursor = [d \in Diagnostics |-> 0]
  /\ wasActive = [d \in Diagnostics |-> FALSE] /\ report = <<>> /\ failing = FALSE
  /\ refused = 0 /\ late = {} /\ events = 0 /\ refusals = 0

\* set_property: ignored once constructed() has frozen the settings.
SetProperty(v) ==
  /\ propertyWrites < MaxWrites /\ propertyWrites' = propertyWrites + 1
  /\ settings' = IF stage = "new" THEN v ELSE settings
  /\ UNCHANGED <<stage, validated, threadVars, diagVars>>

\* constructed: settings that do not validate leave the tracer inactive.
Construct ==
  /\ stage = "new" /\ validated' = settings
  /\ IF settings = "valid"
     THEN stage' = "starting" /\ exporter' = "bind"
     ELSE stage' = "inert" /\ UNCHANGED exporter
  /\ UNCHANGED <<settings, propertyWrites, handshake, told, up, last, diagVars>>

\* The thread's socket, or its startup error.
Bind ==
  /\ exporter = "bind"
  /\ \/ exporter' = "announce" /\ UNCHANGED handshake
     \/ exporter' = "exited" /\ handshake' = "error"
  /\ UNCHANGED <<tracerVars, told, up, last, diagVars>>

\* running is set before the handshake is answered.
Announce ==
  /\ exporter = "announce"
  /\ up' = TRUE /\ handshake' = "ok" /\ exporter' = "wait"
  /\ UNCHANGED <<tracerVars, told, last, diagVars>>

Started ==
  /\ stage = "starting" /\ handshake = "ok"
  /\ stage' = "serving"
  /\ UNCHANGED <<settings, validated, propertyWrites, threadVars, diagVars>>

\* A startup error, a thread that died, or two seconds without an answer: after
\* a shutdown message the thread is joined.
StartFails ==
  /\ stage = "starting"
  /\ stage' = "failed"
  /\ told' = (handshake # "error")
  /\ UNCHANGED <<settings, validated, propertyWrites, exporter, handshake, up, last, diagVars>>

Dispose ==
  /\ stage \in {"inert", "serving"}
  /\ IF stage = "serving" THEN stage' = "stopping" /\ told' = TRUE
                          ELSE stage' = "disposed" /\ UNCHANGED told
  /\ UNCHANGED <<settings, validated, propertyWrites, exporter, handshake, up, last, diagVars>>

\* WorkerHandle::stop, join_startup_failure: the join, and the flag is down.
Joined ==
  /\ stage \in {"failed", "stopping"} /\ ~Running
  /\ stage' = IF stage = "failed" THEN "inert" ELSE "disposed"
  /\ up' = FALSE
  /\ UNCHANGED <<settings, validated, propertyWrites, exporter, handshake, told, last, diagVars>>
-----------------------------------------------------------------------------
\* Pushes over the cap and retirements without room raise their counters any time.
Event(d) ==
  /\ d \in {"untracked", "dropped"} /\ stage \in {"starting", "serving", "stopping"}
  /\ events < MaxEvents /\ events' = events + 1
  /\ raised' = [raised EXCEPT ![d] = @ + 1] /\ late' = late \union {d}
  /\ UNCHANGED <<tracerVars, threadVars, cursor, wasActive, report, failing, refused, refusals>>

\* recv_timeout: the interval, or the message, which asks for one more export.
SnapshotBegin ==
  /\ exporter = "wait"
  /\ exporter' = "lines" /\ last' = told /\ told' = FALSE
  /\ late' = {}
  /\ UNCHANGED <<tracerVars, handshake, up, raised, cursor, wasActive, report, failing, refused, events, refusals>>

\* The data lines: each one refused is counted, and the log says so.
Lines(n) ==
  /\ exporter = "lines" /\ n <= MaxLines /\ refusals + n <= MaxRefusals
  /\ raised' = [raised EXCEPT !["emit"] = @ + n]
  /\ failing' = (failing \/ n > 0) /\ refused' = refused + n /\ refusals' = refusals + n
  /\ exporter' = "report" /\ report' = Order
  /\ UNCHANGED <<tracerVars, handshake, told, up, last, cursor, wasActive, late, events>>

\* InternalFailurePolicy: a refused line about export errors is not an error itself.
CountsAll(d) == TRUE                                      \* mutant: no SuppressRecursion
CountAndLog(d) == d \in {"untracked", "dropped"}

\* export_internal.
Report ==
  /\ exporter = "report" /\ report # <<>>
  /\ LET d == Head(report)
         idle == raised[d] = cursor[d] /\ ~wasActive[d]
     IN \/ /\ idle /\ UNCHANGED <<raised, cursor, wasActive, failing, refused, refusals, late>>
        \/ /\ ~idle
           /\ cursor' = [cursor EXCEPT ![d] = raised[d]]
           /\ wasActive' = [wasActive EXCEPT ![d] = raised[d] # cursor[d]]
           /\ late' = late \ {d}
           /\ UNCHANGED <<raised, failing, refused, refusals>>
        \/ /\ ~idle /\ refusals < MaxRefusals /\ refusals' = refusals + 1
           /\ IF CountAndLog(d) THEN raised' = [raised EXCEPT !["emit"] = @ + 1] /\ failing' = TRUE
                                ELSE UNCHANGED <<raised, failing>>
           /\ refused' = IF d \in {"untracked", "dropped"} THEN refused + 1 ELSE refused
           /\ late' = late \union {d} \union
                      (IF CountAndLog(d) /\ d = "dropped" THEN {"emit"} ELSE {})
           /\ UNCHANGED <<cursor, wasActive>>
  /\ report' = Tail(report)
  /\ UNCHANGED <<tracerVars, threadVars, events>>

\* The flush, and the end of the loop after the shutdown message.
AfterExport == IF last THEN "exited" ELSE "wait"
Flush ==
  /\ exporter = "report" /\ report = <<>>
  /\ \/ failing' = FALSE /\ UNCHANGED <<raised, late, refusals>>
     \/ /\ refusals < MaxRefusals /\ refusals' = refusals + 1
        /\ raised' = [raised EXCEPT !["flush"] = @ + 1] /\ late' = late \union {"flush"}
        /\ failing' = TRUE
  /\ exporter' = AfterExport /\ up' = (up /\ exporter' # "exited")
  /\ UNCHANGED <<tracerVars, handshake, told, last, cursor, wasActive, report, refused, events>>

\* A panic unwinds through the RunningGuard; the join reports it.
Panic ==
  /\ exporter \in {"lines", "report"}
  /\ exporter' = "died" /\ up' = FALSE
  /\ UNCHANGED <<tracerVars, handshake, told, last, diagVars>>
-----------------------------------------------------------------------------
Exporter ==
  \/ Bind \/ Announce \/ SnapshotBegin \/ Report \/ Flush
  \/ \E n \in 0..MaxLines : Lines(n)
Tracer == Started \/ StartFails \/ Joined

Next ==
  \/ Exporter \/ Tracer \/ Construct \/ Dispose \/ Panic
  \/ \E v \in {"valid", "invalid"} : SetProperty(v)
  \/ \E d \in Diagnostics : Event(d)

Spec == Init /\ [][Next]_workerVars

\* The worker thread runs and its interval ends; constructed() and dispose() go on.
WorkerFairness == WF_workerVars(Exporter) /\ WF_workerVars(Tracer)
FairSpec == Spec /\ WorkerFairness
-----------------------------------------------------------------------------
TypeOK ==
  /\ stage \in {"new", "starting", "failed", "serving", "stopping", "inert", "disposed"}
  /\ settings \in {"valid", "invalid"} /\ validated \in {"none", "valid", "invalid"}
  /\ propertyWrites \in 0..MaxWrites
  /\ exporter \in {"none", "bind", "announce", "wait", "lines", "report", "exited", "died"}
  /\ handshake \in {"empty", "ok", "error"} /\ told \in BOOLEAN /\ up \in BOOLEAN /\ last \in BOOLEAN
  /\ raised \in [Diagnostics -> Nat] /\ cursor \in [Diagnostics -> Nat]
  /\ wasActive \in [Diagnostics -> BOOLEAN] /\ report \in Seq(Diagnostics) /\ failing \in BOOLEAN
  /\ refused \in Nat /\ late \subseteq Diagnostics
  /\ events \in 0..MaxEvents /\ refusals \in 0..MaxRefusals

\* Nothing of the worker outlives dispose() or a start that failed, and
\* worker-running is true only of a worker with the settings in force.
WorkerStatusIsTrue ==
  /\ stage \in {"inert", "disposed"} => ~Running /\ ~up
  /\ stage \in {"serving", "stopping"} /\ up => Running
  /\ stage \in {"serving", "stopping"} => validated = settings

\* Every refused line is an emit error once, and the refusal of a line about
\* export errors is not: the diagnostics do not feed themselves.
ErrorsDoNotFeedThemselves == raised["emit"] = refused

\* When the worker has ended after its last export, what that export's lines leave
\* out is what was raised after its line was sent, or had its line refused.
LastReportIsComplete ==
  exporter = "exited" /\ handshake = "ok" =>
    \A d \in Diagnostics : cursor[d] = raised[d] \/ d \in late

WorkerConsistent ==
  TypeOK /\ WorkerStatusIsTrue /\ ErrorsDoNotFeedThemselves /\ LastReportIsComplete

\* constructed() and dispose() return, whether or not the handshake, the socket or a panic fail.
WorkerProgress ==
  /\ stage = "starting" ~> stage \in {"serving", "inert"}
  /\ stage = "stopping" ~> stage = "disposed"
=============================================================================
