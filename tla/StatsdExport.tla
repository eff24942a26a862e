---------------------------- MODULE StatsdExport ----------------------------
(***************************************************************************)
(* The statsd tracer's pad counters (utils/statsd/src/metrics.rs and       *)
(* worker.rs): streaming threads count pushes through a concurrent map of  *)
(* pad series, pads are retired when they go away, and the export worker   *)
(* turns the counters into deltas, remembering per series what it sent.    *)
(*                                                                         *)
(* The registration lock orders registrations and removals; counting on a  *)
(* cached entry, and the worker's iteration over the map, take no lock.    *)
(* Buffers, bytes and interval buckets of a series go through the same     *)
(* code, so a series has one counter here, of CounterSize values.          *)
(***************************************************************************)
EXTENDS Naturals, Sequences, FiniteSets, Functions

CONSTANTS
  Threads,        \* threads that push
  Pads,           \* pads, by address
  Excluded,       \* the pads the filters exclude
  MaxSeries,      \* max-pad-series, also the capacity of the retirement channel
  CounterSize,    \* number of values of a counter (2^64)
  MaxEmit,        \* largest delta one line can carry (i64::MAX)
  EmissionsFail,  \* may the UDP sink reject a line?
  MaxPushes,      \* bound: pushes
  MaxRemovals     \* bound: pads removed or destroyed

ASSUME SizeAssumption ==
  MaxSeries \in Nat \ {0} /\ CounterSize \in Nat \ {0} /\ MaxEmit \in 1..CounterSize
ASSUME StatsdAssumption ==
  /\ Pads # {} /\ Excluded \subseteq Pads /\ EmissionsFail \in BOOLEAN
  /\ Threads \intersect {"free", "remover"} = {}
  /\ MaxPushes \in Nat /\ MaxRemovals \in Nat

VARIABLES
  pads,        \* the map: per pad its PadEntry
  lock,        \* holder of the registration lock
  active,      \* registration.active
  nextId,      \* registration.next_id
  total,       \* per series, pushes counted (the counter is this, modulo its size)
  untracked,   \* untracked_series_limit
  pc, at, entry, \* per pushing thread: where it is, its pad, the entry it pinned
  leaving,     \* the series being retired by the remover, or 0
  channel,     \* the retirement channel
  dropped,     \* history: series whose retirement was dropped
  wpc,         \* where the worker is
  final,       \* is this the export after the shutdown message?
  unseen,      \* pads the worker's iteration has not visited
  activeIds, retiredIds, todo, \* the snapshot: its series, and those left to export
  known,       \* series with a PadCursor
  value, busy, \* the cursor: value, was_active
  stopping,    \* dispose() asked the worker to stop
  line,        \* history: per series, the last accepted line: "none", "count", "zero",
               \*   or "zeros" for a zero that follows no count
  emitted,     \* history: per series, sum of the accepted deltas
  received,    \* history: series whose retirement the worker received
  owed,        \* history: per series mapped when dispose() was called, its total then
  pushes, removals

registryVars == <<pads, lock, active, nextId>>
countVars    == <<total, untracked>>
threadVars   == <<pc, at, entry, pushes>>
retireVars   == <<leaving, channel, dropped, removals>>
stopVars     == <<stopping, owed>>
snapVars     == <<wpc, final, unseen, activeIds, retiredIds, todo, received>>
cursorVars   == <<known, value, busy, line, emitted>>
vars == <<registryVars, countVars, threadVars, retireVars, stopVars, snapVars, cursorVars>>

Ids == 1..MaxPushes
Absent      == [kind |-> "absent", id |-> 0]
Filtered    == [kind |-> "filtered", id |-> 0]
SeriesLimit == [kind |-> "limit", id |-> 0]
AnyPad      == CHOOSE p \in Pads : TRUE
Tracked(i)  == [kind |-> "tracked", id |-> i]

TrackedIds == {pads[p].id : p \in {q \in Pads : pads[q].kind = "tracked"}}
-----------------------------------------------------------------------------
Init ==
  /\ pads = [p \in Pads |-> Absent]
  /\ lock = "free" /\ active = 0 /\ nextId = 1
  /\ total = [i \in Ids |-> 0] /\ untracked = 0
  /\ pc = [t \in Threads |-> "idle"] /\ at = [t \in Threads |-> AnyPad]
  /\ entry = [t \in Threads |-> Absent]
  /\ leaving = 0 /\ channel = <<>> /\ dropped = {}
  /\ wpc = "wait" /\ final = FALSE /\ unseen = {}
  /\ activeIds = {} /\ retiredIds = {} /\ todo = {} /\ received = {}
  /\ known = {} /\ value = [i \in Ids |-> 0] /\ busy = [i \in Ids |-> FALSE]
  /\ stopping = FALSE /\ owed = [i \in Ids |-> 0]
  /\ line = [i \in Ids |-> "none"] /\ emitted = [i \in Ids |-> 0]
  /\ pushes = 0 /\ removals = 0

\* update_pad: the pinned map has an entry for the pad, or the slow path begins.
Push(t, p) ==
  /\ pc[t] = "idle" /\ pushes < MaxPushes
  /\ pushes' = pushes + 1
  /\ at' = [at EXCEPT ![t] = p]
  /\ entry' = [entry EXCEPT ![t] = pads[p]]
  /\ pc' = [pc EXCEPT ![t] = IF pads[p] = Absent THEN "register" ELSE "increment"]
  /\ UNCHANGED <<registryVars, countVars, retireVars, stopVars, snapVars, cursorVars>>

\* What a pad without an entry becomes, and what that does to the registration.
NewEntry(p) ==
  IF p \in Excluded THEN Filtered
  ELSE IF active >= MaxSeries THEN SeriesLimit ELSE Tracked(nextId)

\* The slow path under the lock: another thread's entry, or a new one.
RegisterBlindly(t) ==                                     \* mutant: no second look
  /\ pc[t] = "register" /\ lock = "free"
  /\ lock' = t
  /\ LET new == NewEntry(at[t])
     IN /\ entry' = [entry EXCEPT ![t] = new]
        /\ pads' = [pads EXCEPT ![at[t]] = new]
        /\ active' = IF new.kind = "tracked" THEN active + 1 ELSE active
        /\ nextId' = IF new.kind = "tracked" THEN nextId + 1 ELSE nextId
  /\ pc' = [pc EXCEPT ![t] = "increment"]
  /\ UNCHANGED <<at, pushes, countVars, retireVars, stopVars, snapVars, cursorVars>>
Register(t) ==
  /\ pc[t] = "register" /\ lock = "free"
  /\ lock' = t
  /\ LET new == IF pads[at[t]] # Absent THEN pads[at[t]] ELSE NewEntry(at[t])
         fresh == pads[at[t]] = Absent /\ new.kind = "tracked"
     IN /\ entry' = [entry EXCEPT ![t] = new]
        /\ pads' = [pads EXCEPT ![at[t]] = new]
        /\ active' = IF fresh THEN active + 1 ELSE active
        /\ nextId' = IF fresh THEN nextId + 1 ELSE nextId
  /\ pc' = [pc EXCEPT ![t] = "increment"]
  /\ UNCHANGED <<at, pushes, countVars, retireVars, stopVars, snapVars, cursorVars>>

\* The pad has no parent element any more: the push is not counted.
PushOrphan(t) ==
  /\ pc[t] = "register"
  /\ pc' = [pc EXCEPT ![t] = "idle"]
  /\ at' = [at EXCEPT ![t] = AnyPad]
  /\ UNCHANGED <<registryVars, countVars, entry, pushes, retireVars, stopVars, snapVars, cursorVars>>

\* increment_entry, on the pinned entry, then the lock of the slow path is released.
Increment(t) ==
  /\ pc[t] = "increment"
  /\ total' = IF entry[t].kind = "tracked"
              THEN [total EXCEPT ![entry[t].id] = @ + 1] ELSE total
  /\ untracked' = IF entry[t].kind = "limit" THEN untracked + 1 ELSE untracked
  /\ lock' = IF lock = t THEN "free" ELSE lock
  /\ pc' = [pc EXCEPT ![t] = "idle"]
  /\ entry' = [entry EXCEPT ![t] = Absent] /\ at' = [at EXCEPT ![t] = AnyPad]
  /\ UNCHANGED <<pads, active, nextId, pushes, retireVars, stopVars, snapVars, cursorVars>>
-----------------------------------------------------------------------------
\* remove_pad_key under the lock: the entry goes, and only then is its series
\* handed to the worker.
StillMapped(p) == pads                                    \* mutant: entry not removed
Unmapped(p) == [pads EXCEPT ![p] = Absent]

RemovePad(p) ==
  /\ lock = "free" /\ removals < MaxRemovals /\ pads[p] # Absent
  /\ removals' = removals + 1
  /\ pads' = Unmapped(p)
  /\ IF pads[p].kind = "tracked"
     THEN lock' = "remover" /\ active' = active - 1 /\ leaving' = pads[p].id
     ELSE UNCHANGED <<lock, active, leaving>>
  /\ UNCHANGED <<nextId, countVars, threadVars, channel, dropped, stopVars, snapVars, cursorVars>>

\* try_send: a full channel, or one whose worker is gone, drops the series.
Retire ==
  /\ leaving # 0
  /\ IF Len(channel) < MaxSeries /\ wpc # "exited"
     THEN channel' = Append(channel, leaving) /\ UNCHANGED dropped
     ELSE dropped' = dropped \union {leaving} /\ UNCHANGED channel
  /\ leaving' = 0 /\ lock' = "free"
  /\ UNCHANGED <<pads, active, nextId, countVars, threadVars, removals, stopVars, snapVars, cursorVars>>
-----------------------------------------------------------------------------
\* dispose(): the shutdown message.
Stop ==
  /\ ~stopping /\ stopping' = TRUE
  /\ owed' = [i \in Ids |-> IF i \in TrackedIds THEN total[i] ELSE 0]
  /\ UNCHANGED <<registryVars, countVars, threadVars, retireVars, snapVars, cursorVars>>

WorkerQuits ==                                            \* mutant: no last export
  /\ wpc = "wait"
  /\ wpc' = IF stopping THEN "exited" ELSE "collect"
  /\ final' = FALSE /\ unseen' = Pads
  /\ UNCHANGED <<registryVars, countVars, threadVars, retireVars, stopVars,
                 activeIds, retiredIds, todo, received, cursorVars>>
\* recv_timeout returns, for the flush interval or for the shutdown message.
WorkerBegin ==
  /\ wpc = "wait"
  /\ wpc' = "collect" /\ final' = stopping /\ unseen' = Pads
  /\ UNCHANGED <<registryVars, countVars, threadVars, retireVars, stopVars,
                 activeIds, retiredIds, todo, received, cursorVars>>

\* active_pads: the iteration over the map visits one entry after another.
WorkerCollect(p) ==
  /\ wpc = "collect" /\ p \in unseen
  /\ unseen' = unseen \ {p}
  /\ activeIds' = IF pads[p].kind = "tracked" THEN activeIds \union {pads[p].id} ELSE activeIds
  /\ UNCHANGED <<registryVars, countVars, threadVars, retireVars, stopVars,
                 wpc, final, retiredIds, todo, received, cursorVars>>

\* try_recv, as long as there is something; a retired series replaces its active entry.
WorkerReceive ==
  /\ wpc = "collect" /\ unseen = {} /\ channel # <<>>
  /\ retiredIds' = retiredIds \union {Head(channel)}
  /\ received' = received \union {Head(channel)}
  /\ channel' = Tail(channel)
  /\ UNCHANGED <<registryVars, countVars, threadVars, leaving, dropped, removals, stopVars,
                 wpc, final, unseen, activeIds, todo, cursorVars>>

SnapshotActive == activeIds                               \* mutant: no final drain
Snapshot == activeIds \union retiredIds

WorkerDrained ==
  /\ wpc = "collect" /\ unseen = {} /\ channel = <<>>
  /\ wpc' = "emit" /\ todo' = Snapshot
  /\ UNCHANGED <<registryVars, countVars, threadVars, retireVars, stopVars,
                 final, unseen, activeIds, retiredIds, received, cursorVars>>

\* export_pad_counter: the wrapping distance to the cursor, as much as a line carries.
Pending(i) == (total[i] + CounterSize - value[i]) % CounterSize
Amount(i) == IF Pending(i) <= MaxEmit THEN Pending(i) ELSE MaxEmit
AdvanceToCurrent(i) == total[i] % CounterSize             \* mutant: cap forgotten
Advance(i) == (value[i] + Amount(i)) % CounterSize
StillBusy(i) == TRUE                                      \* mutant: zeros for ever
Busy(i) == Pending(i) # 0

\* export_pad, for one series: nothing to say, or a line the sink accepts or rejects.
WorkerEmit(i) ==
  /\ wpc = "emit" /\ i \in todo
  /\ todo' = todo \ {i} /\ known' = known \union {i}
  /\ \/ /\ Pending(i) # 0 \/ busy[i]
        /\ value' = [value EXCEPT ![i] = Advance(i)]
        /\ busy' = [busy EXCEPT ![i] = Busy(i)]
        /\ emitted' = [emitted EXCEPT ![i] = @ + Amount(i)]
        /\ line' = [line EXCEPT ![i] = IF Pending(i) # 0 THEN "count"
                                     ELSE IF @ = "count" THEN "zero" ELSE "zeros"]
     \/ /\ EmissionsFail \/ (Pending(i) = 0 /\ ~busy[i])
        /\ UNCHANGED <<value, busy, emitted, line>>
  /\ UNCHANGED <<registryVars, countVars, threadVars, retireVars, stopVars,
                 wpc, final, unseen, activeIds, retiredIds, received>>

\* The cursors kept for the next export: those of series this snapshot saw active.
Kept == known \intersect (activeIds \ retiredIds)

WorkerRetain ==
  /\ wpc = "emit" /\ todo = {}
  /\ known' = Kept
  /\ value' = [i \in Ids |-> IF i \in Kept THEN value[i] ELSE 0]
  /\ busy' = [i \in Ids |-> i \in Kept /\ busy[i]]
  /\ activeIds' = {} /\ retiredIds' = {}
  /\ wpc' = IF final THEN "exited" ELSE "wait"
  /\ UNCHANGED <<registryVars, countVars, threadVars, retireVars, stopVars,
                 final, unseen, todo, received, line, emitted>>
-----------------------------------------------------------------------------
ThreadStep(t) == Register(t) \/ PushOrphan(t) \/ Increment(t)
Worker ==
  \/ WorkerBegin \/ WorkerReceive \/ WorkerDrained \/ WorkerRetain
  \/ \E p \in Pads : WorkerCollect(p)
  \/ \E i \in Ids : WorkerEmit(i)

Next ==
  \/ \E t \in Threads : ThreadStep(t) \/ \E p \in Pads : Push(t, p)
  \/ \E p \in Pads : RemovePad(p)
  \/ Retire \/ Stop \/ Worker

Spec == Init /\ [][Next]_vars

\* The scheduler runs the worker and whoever is inside a hook; the flush
\* interval ends. Nothing makes a thread push, or an application remove or stop.
FairSpec ==
  Spec /\ WF_vars(Worker) /\ WF_vars(Retire) /\ \A t \in Threads : WF_vars(ThreadStep(t))
-----------------------------------------------------------------------------
EntryStates == {Absent, Filtered, SeriesLimit} \union {Tracked(i) : i \in Ids}

\* Every variable holds a value of its type.
TypeOK ==
  /\ pads \in [Pads -> EntryStates]
  /\ lock \in Threads \union {"free", "remover"}
  /\ active \in 0..MaxSeries /\ nextId \in 1..(MaxPushes + 1)
  /\ total \in [Ids -> Nat] /\ untracked \in Nat
  /\ pc \in [Threads -> {"idle", "register", "increment"}]
  /\ at \in [Threads -> Pads] /\ entry \in [Threads -> EntryStates]
  /\ leaving \in Ids \union {0} /\ channel \in Seq(Ids) /\ dropped \subseteq Ids
  /\ wpc \in {"wait", "collect", "emit", "exited"} /\ final \in BOOLEAN
  /\ unseen \subseteq Pads
  /\ activeIds \subseteq Ids /\ retiredIds \subseteq Ids /\ todo \subseteq Ids
  /\ known \subseteq Ids /\ value \in [Ids -> 0..(CounterSize - 1)] /\ busy \in [Ids -> BOOLEAN]
  /\ stopping \in BOOLEAN /\ owed \in [Ids -> Nat]
  /\ line \in [Ids -> {"none", "count", "zero", "zeros"}] /\ emitted \in [Ids -> Nat]
  /\ received \subseteq Ids
  /\ pushes \in 0..MaxPushes /\ removals \in 0..MaxRemovals

\* The cap is exact and no series goes astray: active counts the tracked
\* entries, and every identifier handed out is the series of exactly one pad, or
\* on its way to the worker, or received by it, or dropped
\* (update_pad and remove_pad_key against each other).
SeriesAccounted ==
  LET places == <<TrackedIds, {leaving} \ {0}, Range(channel), received, dropped>>
  IN /\ Cardinality(TrackedIds) = active
     /\ Cardinality({p \in Pads : pads[p].kind = "tracked"}) = active
     /\ Len(channel) = Cardinality(Range(channel))
     /\ UNION Range(places) = 1..(nextId - 1)
     /\ \A m, n \in 1..5 : m # n => places[m] \intersect places[n] = {}

\* Between exports the worker keeps no cursor of a series whose retirement it
\* received (export_pad_snapshot), so the cursors do not grow with pad churn.
RetiredCursorsGone == wpc \in {"wait", "exited"} => known \intersect received = {}

\* Well typed, and every series accounted for, by the registry and by the worker.
Consistent == TypeOK /\ SeriesAccounted /\ RetiredCursorsGone

\* The export that receives a retirement is the last that mentions the series:
\* no line for it is accepted later.
FinalIsFinal ==
  [][\A i \in Ids : i \in received \ retiredIds => line'[i] = line[i] /\ emitted'[i] = emitted[i]]_vars

\* What the accepted lines of a series add up to never exceeds the pushes
\* counted ("Buffer attempts since the last accepted emission", README of the tracer).
NeverOverCounted == \A i \in Ids : emitted[i] <= total[i]

\* An accepted idle zero follows an accepted count: never two zeros in a row, and
\* never a zero first ("emits one idle zero and then suppresses").
OneIdleZero == \A i \in Ids : line[i] # "zeros"

\* As long as no pad has gone away, the lines of a series add up: wrapped, capped
\* and rejected ones among them, they count nothing twice and skip nothing, since
\* the cursor stands exactly where the sum of what was accepted stands; and an idle
\* series has one zero line.
LinesAddUp ==
  /\ removals = 0 => NeverOverCounted /\ \A i \in Ids : value[i] = emitted[i] % CounterSize
  /\ OneIdleZero

\* What was counted on a mapped series when dispose() was called has been
\* emitted once the worker has exited, except for a series in the remover's
\* hands: its retirement comes too late, or was dropped.
FinalExportComplete ==
  wpc = "exited" =>
    \A i \in Ids : emitted[i] >= owed[i] \/ i = leaving \/ i \in dropped \union Range(channel)

\* Pushes counted on a series the map holds are eventually emitted, unless the
\* worker is stopped or the series' retirement is dropped.
CountedIsEmitted ==
  \A i \in Ids, n \in 1..MaxPushes :
    i \in TrackedIds /\ total[i] = n ~> emitted[i] >= n \/ i \in dropped \/ stopping
=============================================================================
