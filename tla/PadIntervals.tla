---------------------------- MODULE PadIntervals ----------------------------
(***************************************************************************)
(* The push intervals of the statsd tracer (PadInterval and its hooks,     *)
(* utils/statsd/src/metrics.rs, statsd/imp.rs): a hook carries the time it *)
(* was called at and takes the lock of the pad's interval later, so pushes *)
(* and resets reach the data out of order, from several threads, while the *)
(* export worker copies it.                                                *)
(***************************************************************************)
EXTENDS Naturals, FiniteSets, Functions, FiniteSetsExt

CONSTANTS
  Hooks,       \* threads inside a hook
  Pads,        \* tracked pads
  Elements,
  Owner,       \* per pad, its element
  Bounds,      \* the upper bounds of the buckets, the last of which no interval exceeds
  MaxTime,     \* bound: the clock
  MaxHooks     \* bound: pushes, events and state changes

IntervalsAssumption ==
  /\ Owner \in [Pads -> Elements]
  /\ Bounds \subseteq Nat /\ \E b \in Bounds : b >= MaxTime /\ \A c \in Bounds : c <= b
  /\ MaxTime \in Nat \ {0} /\ MaxHooks \in Nat

VARIABLES
  now,         \* GStreamer's clock
  doing, stamp, on, \* per hook: what it is about to do, its timestamp, its pads
  lastPush, resetAt, \* per pad: last, reset_at
  buckets, samples, sum, \* per pad: the histogram
  copy,        \* per pad: the snapshot the worker exports
  intervals,   \* history: the intervals recorded per pad, as pairs of timestamps
  resets,      \* history: per pad, the timestamps of the resets applied
  straddles,   \* history: an interval over a reset that was applied before
  calls

dataVars  == <<lastPush, resetAt, buckets, samples, sum>>
hookVars  == <<doing, stamp, on, calls>>
intervalVars == <<now, hookVars, dataVars, copy, intervals, resets, straddles>>

Never == 0   \* no previous push; the clock starts at one
Histogram(p) == [buckets |-> buckets[p], samples |-> samples[p], sum |-> sum[p]]
-----------------------------------------------------------------------------
Init ==
  /\ now = 1
  /\ doing = [h \in Hooks |-> "nothing"] /\ stamp = [h \in Hooks |-> 0] /\ on = [h \in Hooks |-> {}]
  /\ lastPush = [p \in Pads |-> Never] /\ resetAt = [p \in Pads |-> 0]
  /\ buckets = [p \in Pads |-> [b \in Bounds |-> 0]]
  /\ samples = [p \in Pads |-> 0] /\ sum = [p \in Pads |-> 0]
  /\ copy = [p \in Pads |-> Histogram(p)]
  /\ intervals = [p \in Pads |-> {}] /\ resets = [p \in Pads |-> {}]
  /\ straddles = FALSE /\ calls = 0

Tick == now < MaxTime /\ now' = now + 1 /\ UNCHANGED <<hookVars, dataVars, copy, intervals, resets, straddles>>

Call(h, what, pads) ==
  /\ doing[h] = "nothing" /\ calls < MaxHooks /\ calls' = calls + 1
  /\ doing' = [doing EXCEPT ![h] = what] /\ stamp' = [stamp EXCEPT ![h] = now]
  /\ on' = [on EXCEPT ![h] = pads]
  /\ UNCHANGED <<now, dataVars, copy, intervals, resets, straddles>>

\* pad_push_pre, pad_push_list_pre.
Push(h, p) == Call(h, "push", {p})

\* pad_push_event_pre: a flush, stream-start, segment or EOS on the pad.
PadEvent(h, p) == Call(h, "reset", {p})

\* element_change_state_pre and _post: every pad of the element.
StateChange(h, e) == Call(h, "reset", {p \in Pads : Owner[p] = e})

Done(h) ==
  /\ doing' = [doing EXCEPT ![h] = IF on'[h] = {} THEN "nothing" ELSE @]
  /\ stamp' = [stamp EXCEPT ![h] = IF on'[h] = {} THEN 0 ELSE @]

\* PadInterval::reset, under the lock of one pad.
ResetNever(p, t) == lastPush[p]                           \* mutant: the baseline stays
Baseline(p, t) == IF lastPush[p] <= Max({resetAt[p], t}) THEN Never ELSE lastPush[p]

Reset(h, p) ==
  /\ doing[h] = "reset" /\ p \in on[h]
  /\ on' = [on EXCEPT ![h] = @ \ {p}]
  /\ resetAt' = [resetAt EXCEPT ![p] = Max({@, stamp[h]})]
  /\ lastPush' = [lastPush EXCEPT ![p] = Baseline(p, stamp[h])]
  /\ resets' = [resets EXCEPT ![p] = @ \union {stamp[h]}]
  /\ Done(h)
  /\ UNCHANGED <<now, calls, buckets, samples, sum, copy, intervals, straddles>>

\* PadInterval::observe: a push from before a reset, or from before the last
\* push, is skipped; the first push only sets the baseline.
Counts(p, t) == t >= resetAt[p] /\ (lastPush[p] # Never => t >= lastPush[p])

Observe(h, p) ==
  /\ doing[h] = "push" /\ p \in on[h]
  /\ on' = [on EXCEPT ![h] = @ \ {p}]
  /\ LET t == stamp[h]
         prev == lastPush[p]
         counts == Counts(p, t)
         sampled == counts /\ prev # Never
     IN /\ lastPush' = IF counts THEN [lastPush EXCEPT ![p] = t] ELSE lastPush
        /\ IF sampled
           THEN /\ buckets' = [buckets EXCEPT ![p] = [b \in Bounds |-> IF t - prev <= b THEN @[b] + 1 ELSE @[b]]]
                /\ samples' = [samples EXCEPT ![p] = @ + 1]
                /\ sum' = [sum EXCEPT ![p] = @ + (t - prev)]
                /\ intervals' = [intervals EXCEPT ![p] = @ \union {<<prev, t>>}]
                /\ straddles' = (straddles \/ \E r \in resets[p] : prev < r /\ r <= t)
           ELSE UNCHANGED <<buckets, samples, sum, intervals, straddles>>
  /\ Done(h)
  /\ UNCHANGED <<now, calls, resetAt, copy, resets>>

\* export_pad: "copy the bounded counters before doing any formatting or network I/O".
Export(p) ==
  /\ copy' = [copy EXCEPT ![p] = Histogram(p)]
  /\ UNCHANGED <<now, hookVars, dataVars, intervals, resets, straddles>>

Next ==
  \/ Tick
  \/ \E p \in Pads : Export(p)
  \/ \E h \in Hooks :
       \/ \E p \in Pads : Push(h, p) \/ PadEvent(h, p) \/ Reset(h, p) \/ Observe(h, p)
       \/ \E e \in Elements : StateChange(h, e)

Spec == Init /\ [][Next]_intervalVars
-----------------------------------------------------------------------------
TypeOK ==
  /\ now \in 1..MaxTime /\ calls \in 0..MaxHooks
  /\ doing \in [Hooks -> {"nothing", "push", "reset"}] /\ stamp \in [Hooks -> 0..MaxTime]
  /\ on \in [Hooks -> SUBSET Pads]
  /\ lastPush \in [Pads -> 0..MaxTime] /\ resetAt \in [Pads -> 0..MaxTime]
  /\ buckets \in [Pads -> [Bounds -> Nat]] /\ samples \in [Pads -> Nat] /\ sum \in [Pads -> Nat]
  /\ intervals \in [Pads -> SUBSET ((1..MaxTime) \X (1..MaxTime))]
  /\ resets \in [Pads -> SUBSET (1..MaxTime)] /\ straddles \in BOOLEAN

\* No interval is measured across a reset the data already knew ("clear that
\* baseline while preserving accumulated counts").
NoIntervalOverReset == ~straddles

\* The intervals of a pad do not overlap, although its hooks arrive in any order.
IntervalsApart ==
  \A p \in Pads :
    \A i, j \in intervals[p] : i = j \/ i[2] <= j[1] \/ j[2] <= i[1]

\* What the worker exports belongs together: the buckets grow with their bounds,
\* the widest counts every sample, and the sum fits the samples' buckets.
HistogramIsWhole ==
  \A p \in Pads :
    LET h == copy[p]
    IN /\ \A b, c \in Bounds : b <= c => h.buckets[b] <= h.buckets[c]
       /\ h.buckets[Max(Bounds)] = h.samples
       /\ h.sum < MaxTime

IntervalsConsistent == TypeOK /\ NoIntervalOverReset /\ IntervalsApart /\ HistogramIsWhole
=============================================================================
