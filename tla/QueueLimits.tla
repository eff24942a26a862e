----------------------------- MODULE QueueLimits -----------------------------
(***************************************************************************)
(* The cached limits of a queue (QueueEntry, utils/statsd/src/metrics.rs;  *)
(* the prometheus tracer has the same): a sample reads the three limits    *)
(* once and keeps them until a notification of one of them clears them.    *)
(* The application's threads set limits while samples run; a limit has its *)
(* new value before its notification is sent.                              *)
(***************************************************************************)
EXTENDS Naturals, FiniteSets

CONSTANTS
  Setters,    \* threads that set limits
  Limits,     \* max-size-buffers, max-size-bytes, max-size-time
  MaxSets,    \* bound: limits set
  MaxSamples  \* bound: samples taken

LimitsAssumption == "quiet" \notin Limits /\ MaxSets \in Nat /\ MaxSamples \in Nat

VARIABLES
  limit,      \* the queue's limits
  limits,     \* QueueEntry.limits: the cached ones, or NoLimits
  lock,       \* holder of its mutex
  read, unread, \* the sampler: the limits it has read, those it has still to read
  sample,     \* the capacities of the last snapshot
  notice,    \* per setter: the limit whose notification it has still to send, or Quiet
  sets, sampleCount

limitVars == <<limit, limits, lock, read, unread, sample, notice, sets, sampleCount>>

NoLimits == [l \in {} |-> 0]
Quiet == "quiet"
Sampler == "sampler"
-----------------------------------------------------------------------------
Init ==
  /\ limit = [l \in Limits |-> 0] /\ limits = NoLimits /\ lock = "free"
  /\ read = NoLimits /\ unread = {} /\ sample = limit
  /\ notice = [s \in Setters |-> Quiet] /\ sets = 0 /\ sampleCount = 0

Set(s, l) ==
  /\ notice[s] = Quiet /\ sets < MaxSets /\ sets' = sets + 1
  /\ limit' = [limit EXCEPT ![l] = @ + 1] /\ notice' = [notice EXCEPT ![s] = l]
  /\ UNCHANGED <<limits, lock, read, unread, sample, sampleCount>>

\* The handler of notify::max-size-*: the cached limits go, under their mutex.
Notify(s) ==
  /\ notice[s] # Quiet /\ lock = "free"
  /\ limits' = NoLimits /\ notice' = [notice EXCEPT ![s] = Quiet]
  /\ UNCHANGED <<limit, lock, read, unread, sample, sets, sampleCount>>

\* queue_snapshots: the mutex is held from the look at the cache to the store of
\* what was read, "so a concurrent setter cannot lose invalidation".
ReadsUnlocked == "free"                                   \* mutant: reads without the mutex
ReadsLocked == Sampler

SampleBegin ==
  /\ lock = "free" /\ unread = {} /\ limits = NoLimits /\ sampleCount < MaxSamples
  /\ lock' = ReadsLocked /\ unread' = Limits /\ read' = NoLimits
  /\ sampleCount' = sampleCount + 1
  /\ UNCHANGED <<limit, limits, sample, notice, sets>>

ReadLimit(l) ==
  /\ l \in unread
  /\ unread' = unread \ {l}
  /\ read' = [k \in DOMAIN read \union {l} |-> IF k = l THEN limit[l] ELSE read[k]]
  /\ IF unread' = {}
     THEN limits' = read' /\ sample' = read' /\ lock' = "free"
     ELSE UNCHANGED <<limits, sample, lock>>
  /\ UNCHANGED <<limit, notice, sets, sampleCount>>

SampleCached ==
  /\ lock = "free" /\ unread = {} /\ limits # NoLimits /\ sampleCount < MaxSamples
  /\ sample' = limits /\ sampleCount' = sampleCount + 1
  /\ UNCHANGED <<limit, limits, lock, read, unread, notice, sets>>

Next ==
  \/ SampleBegin \/ SampleCached \/ \E l \in Limits : ReadLimit(l)
  \/ \E s \in Setters : Notify(s) \/ \E l \in Limits : Set(s, l)

Spec == Init /\ [][Next]_limitVars
-----------------------------------------------------------------------------
TypeOK ==
  /\ limit \in [Limits -> Nat] /\ DOMAIN limits \in {Limits, {}} /\ lock \in {"free", Sampler}
  /\ DOMAIN read \subseteq Limits /\ unread \subseteq Limits /\ sample \in [Limits -> Nat]
  /\ notice \in [Setters -> Limits \union {Quiet}]
  /\ sets \in 0..MaxSets /\ sampleCount \in 0..MaxSamples

\* A cached limit that is not the queue's is about to be cleared: its
\* notification is still to come.
StaleLimitsAreCleared ==
  \A l \in DOMAIN limits : limits[l] = limit[l] \/ \E s \in Setters : notice[s] = l

LimitsConsistent == TypeOK /\ StaleLimitsAreCleared
=============================================================================
