------------------------------ MODULE Tracers ------------------------------
(***************************************************************************)
(* The parts of the two tracers that share no state, explored side by      *)
(* side: a behaviour is a behaviour of one part, chosen at its start, and  *)
(* the others rest. Of the prometheus tracer: the server thread, the pad   *)
(* series, the pipeline gauges. Of both: queue identities and queue        *)
(* limits. Of the statsd tracer: the push intervals and the worker.        *)
(***************************************************************************)
EXTENDS Naturals, Sequences, FiniteSets

CONSTANTS
  Clients, ThreadMayDie, MaxWrites,                         \* PromServer, StatsdWorker
  Pads, Twins, Excluded, Pushers, MaxSeries, MaxPushes, MaxChanges, \* PromSeries
  MaxMoves,                                                 \* PromPipelines
  Queues, Bins, Root, MaxEdits, MaxDirect, MaxGraphChanges, \* QueueIdentities
  Setters, Limits, MaxSets, MaxSamples,                     \* QueueLimits
  Hooks, Bounds, MaxTime, MaxHooks,                         \* PadIntervals
  MaxLines, MaxEvents, MaxRefusals                          \* StatsdWorker

VARIABLES
  part,  \* the part that this behaviour is of
  phase, config, inForce, writes, thread, ready, shutdown, running, stopped, polled,
  client, request, answer, active, tasks, failures,
  entries, trackedCount, holder, family, nextSeries, count, untracked, parented,
  alive, at, with, pusher, fate, push, robbed, pushed, changes,
  live, state, tracked, observed, gauge, hook, hookState, scrape, scrapeState, next,
  output, disturbed, moves,
  parent, name, notifying, hooking, queues, forgotten, dirty, due, unhooked, moved, torn,
  watches, cached, labels, sampler, todo, queue, walk, seen, prefixes, sampled, calm, edits,
  directs,
  limit, limits, lock, read, unread, sample, notice, sets, sampleCount,
  now, doing, stamp, on, lastPush, resetAt, buckets, samples, sum, copy, intervals,
  resets, straddles, calls,
  stage, settings, validated, propertyWrites, exporter, handshake, told, up, last,
  raised, cursor, wasActive, report, failing, refused, late, events, refusals

Server     == INSTANCE PromServer
Series     == INSTANCE PromSeries
Pipelines  == INSTANCE PromPipelines
Ids        == INSTANCE QueueIdentities
LimitCache == INSTANCE QueueLimits
\* Two pads of an element each.
IntervalPads == Twins
Intervals  == INSTANCE PadIntervals WITH
                Pads <- IntervalPads, Elements <- IntervalPads,
                Owner <- [p \in IntervalPads |-> p]
Worker     == INSTANCE StatsdWorker

ASSUME TracersAssumption ==
  /\ Server!ServerAssumption /\ Series!SeriesAssumption
  /\ Pipelines!MovesAssumption /\ Ids!GraphAssumption
  /\ LimitCache!LimitsAssumption /\ Intervals!IntervalsAssumption /\ Worker!WorkerAssumption

Parts == {"server", "series", "pipelines", "identities", "limits", "intervals", "worker"}

serverVars == <<phase, config, inForce, writes, thread, ready, shutdown, running,
                stopped, polled, client, request, answer, active, tasks, failures>>
seriesVars == <<entries, trackedCount, holder, family, nextSeries, count, untracked,
                parented, alive, at, with, pusher, fate, push, robbed, pushed, changes>>
pipelineVars == <<live, state, tracked, observed, gauge, hook, hookState, scrape,
                  scrapeState, next, output, disturbed, moves>>
queueVars == <<parent, name, notifying, hooking, queues, forgotten, dirty, due,
               unhooked, moved, torn, watches, cached, labels, sampler, todo, queue, walk,
               seen, prefixes, sampled, calm, edits, directs>>
limitVars == <<limit, limits, lock, read, unread, sample, notice, sets, sampleCount>>
intervalVars == <<now, doing, stamp, on, lastPush, resetAt, buckets, samples, sum,
                  copy, intervals, resets, straddles, calls>>
workerVars == <<stage, settings, validated, propertyWrites, exporter, handshake, told,
                up, last, raised, cursor, wasActive, report, failing, refused, late,
                events, refusals>>
tracersVars == <<part, serverVars, seriesVars, pipelineVars, queueVars, limitVars, intervalVars, workerVars>>

\* The variables of every part but one rest.
OnlyOf(p) ==
  /\ part = p
  /\ p # "server" => UNCHANGED serverVars
  /\ p # "series" => UNCHANGED seriesVars
  /\ p # "pipelines" => UNCHANGED pipelineVars
  /\ p # "identities" => UNCHANGED queueVars
  /\ p # "limits" => UNCHANGED limitVars
  /\ p # "intervals" => UNCHANGED intervalVars
  /\ p # "worker" => UNCHANGED workerVars
  /\ UNCHANGED part
-----------------------------------------------------------------------------
Init ==
  /\ part \in Parts
  /\ Server!Init
  /\ Series!Init
  /\ Pipelines!Init
  /\ Ids!Init
  /\ LimitCache!Init
  /\ Intervals!Init
  /\ Worker!Init

Next ==
  \/ OnlyOf("server") /\ Server!Next
  \/ OnlyOf("series") /\ Series!Next
  \/ OnlyOf("pipelines") /\ Pipelines!Next
  \/ OnlyOf("identities") /\ Ids!Next
  \/ OnlyOf("limits") /\ LimitCache!Next
  \/ OnlyOf("intervals") /\ Intervals!Next
  \/ OnlyOf("worker") /\ Worker!Next

Spec == Init /\ [][Next]_tracersVars

\* The fairness of each part, for the behaviours that are its: threads and
\* runtimes that run, constructed() and dispose() that go on, time that passes.
Machinery ==
  \/ OnlyOf("server") /\ Server!Runtime
  \/ OnlyOf("identities") /\ Ids!Scrape
  \/ OnlyOf("worker") /\ Worker!Exporter
Callers ==
  \/ OnlyOf("server") /\ Server!Tracer
  \/ OnlyOf("identities") /\ Ids!HookRuns
  \/ OnlyOf("worker") /\ Worker!Tracer
Time == OnlyOf("identities") /\ Ids!ThirtySecondsPass

FairSpec ==
  Spec /\ WF_tracersVars(Machinery) /\ WF_tracersVars(Callers) /\ WF_tracersVars(Time)
-----------------------------------------------------------------------------
\* The invariant of each part: the state it keeps right whatever its actors do.
ServerConsistent     == part = "server" => Server!ServerConsistent
SeriesConsistent     == part = "series" => Series!SeriesConsistent
GaugesConsistent     == /\ part = "pipelines" => Pipelines!PipelinesConsistent
                        /\ part = "limits" => LimitCache!LimitsConsistent
QueuesConsistent     == part = "identities" => Ids!QueuesConsistent
IntervalsConsistent  == part = "intervals" => Intervals!IntervalsConsistent
WorkerConsistent     == part = "worker" => Worker!WorkerConsistent

\* Where the two tracers' constructors and destructors are.
In(server, worker) == \/ part = "server" /\ phase \in server
                      \/ part = "worker" /\ stage \in worker

\* constructed() and dispose() return, in both tracers, whatever socket,
\* handshake, client or worker fails, and no connection outlives its lifetime
\* (of any client; all are alike).
LifecyclesEnd ==
  /\ In({"starting"}, {"starting"}) ~> In({"serving", "inert"}, {"serving", "inert"})
  /\ In({"stopping"}, {"stopping"}) ~> In({"disposed"}, {"disposed"})
  /\ LET c == CHOOSE c \in Clients : TRUE
     IN part = "server" /\ client[c] = "open" ~> client[c] = "closed"

\* Once the graph stays as it is, the samples come to show it for good.
LabelsConverge == part = "identities" => Ids!LabelsConverge
=============================================================================
