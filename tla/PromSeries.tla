----------------------------- MODULE PromSeries -----------------------------
(***************************************************************************)
(* The pad series of the prometheus tracer (utils/prometheus/src/          *)
(* metrics.rs): streaming threads count pushes through a concurrent map    *)
(* from pads to entries; an entry holds the counters that the metric       *)
(* families hand out per label set, and removing a pad removes its label   *)
(* set from the families.                                                  *)
(*                                                                         *)
(* Pads are keyed by address and series by labels, and two pads may have   *)
(* the same labels (elements of the same path).  Buffers, bytes and the    *)
(* interval histogram are created, used and removed at the same places:    *)
(* they are one series here.                                               *)
(***************************************************************************)
EXTENDS Naturals, FiniteSets, Functions, FiniteSetsExt

CONSTANTS
  Pads,        \* pads, by address
  Twins,       \* pads whose element's path and name are the same
  Excluded,    \* pads whose labels the filters exclude
  Pushers,     \* threads that push
  MaxSeries,   \* max-pad-series
  MaxPushes,   \* bound: pushes
  MaxChanges   \* bound: pads removed, unparented or destroyed

LabelsOf == [p \in Pads |-> IF p \in Twins THEN CHOOSE q \in Twins : TRUE ELSE p]
Labels == Range(LabelsOf)
SeriesAssumption ==
  /\ Pads # {} /\ Twins \subseteq Pads /\ Excluded \subseteq Pads
  /\ MaxSeries \in Nat \ {0} /\ MaxPushes \in Nat /\ MaxChanges \in Nat

VARIABLES
  entries,    \* the map: per pad its PadEntry
  trackedCount, \* tracked_pad_count, whose lock orders registrations and removals
  holder,     \* who has that lock
  family,     \* the families: per label set its series, 0 when there is none
  nextSeries,
  count,      \* per series: its counters
  untracked,  \* untracked_series_limit
  parented, alive, \* per pad: has it a parent, does it exist
  at, with, pusher, \* per thread: its pad, the entry it uses, where it is
  fate, push, \* history: per push, the entry that counted it; per thread, its push
  robbed,     \* history: tracked pads whose labels another pad's removal removed
  pushed, changes

mapVars    == <<entries, trackedCount, family, nextSeries, robbed>>
tallyVars  == <<count, untracked, fate>>
padVars    == <<parented, alive, changes>>
threadVars == <<at, with, pusher, push, pushed>>
seriesVars == <<mapVars, holder, tallyVars, padVars, threadVars>>

SeriesIds   == 1..MaxPushes
Absent      == [kind |-> "absent", series |-> 0]
Filtered    == [kind |-> "filtered", series |-> 0]
SeriesLimit == [kind |-> "limit", series |-> 0]
TrackedAs(s) == [kind |-> "tracked", series |-> s]
InFlight    == [kind |-> "in flight", series |-> 0]
Parentless  == [kind |-> "parentless", series |-> 0]
Entries     == {Absent, Filtered, SeriesLimit} \union {TrackedAs(s) : s \in SeriesIds}
Fates       == (Entries \ {Absent}) \union {InFlight, Parentless}
SomePad     == CHOOSE p \in Pads : TRUE

TrackedPads == {p \in Pads : entries[p].kind = "tracked"}
-----------------------------------------------------------------------------
Init ==
  /\ entries = [p \in Pads |-> Absent] /\ trackedCount = 0 /\ holder = "nobody"
  /\ family = [l \in Labels |-> 0] /\ nextSeries = 1 /\ robbed = {}
  /\ count = [s \in SeriesIds |-> 0] /\ untracked = 0
  /\ fate = [n \in 1..MaxPushes |-> InFlight] /\ push = [t \in Pushers |-> 0]
  /\ parented = [p \in Pads |-> TRUE] /\ alive = [p \in Pads |-> TRUE] /\ changes = 0
  /\ at = [t \in Pushers |-> SomePad] /\ with = [t \in Pushers |-> Absent]
  /\ pusher = [t \in Pushers |-> "idle"] /\ pushed = 0

\* update_pad: the entry of the pinned map, or the slow path, which needs a parent.
UpdatePad(t, p) ==
  /\ pusher[t] = "idle" /\ alive[p] /\ pushed < MaxPushes
  /\ pushed' = pushed + 1
  /\ IF entries[p] = Absent /\ ~parented[p]
     THEN fate' = [fate EXCEPT ![pushed'] = Parentless] /\ UNCHANGED <<at, with, pusher, push>>
     ELSE /\ at' = [at EXCEPT ![t] = p]
          /\ with' = [with EXCEPT ![t] = entries[p]]
          /\ pusher' = [pusher EXCEPT ![t] = IF entries[p] = Absent THEN "register" ELSE "count"]
          /\ push' = [push EXCEPT ![t] = pushed'] /\ UNCHANGED fate
  /\ UNCHANGED <<mapVars, holder, count, untracked, padVars>>

\* included() and the limit decide what a new entry is.
Kind(p) ==
  CASE LabelsOf[p] \in Excluded -> "filtered"
    [] LabelsOf[p] \notin Excluded /\ trackedCount >= MaxSeries -> "limit"
    [] OTHER -> "tracked"

\* get_or_create: the family's series for these labels, or a new one.
SeriesOf(l) == IF family[l] # 0 THEN family[l] ELSE nextSeries

NewEntry(p) ==
  CASE Kind(p) = "filtered" -> Filtered
    [] Kind(p) = "limit" -> SeriesLimit
    [] Kind(p) = "tracked" -> TrackedAs(SeriesOf(LabelsOf[p]))

IsNew(p) == entries[p] = Absent

\* The slow path under the lock: another thread's entry, or a new one.
Register(t) ==
  /\ pusher[t] = "register" /\ holder = "nobody"
  /\ holder' = t
  /\ LET p == at[t]
         new == IF IsNew(p) THEN NewEntry(p) ELSE entries[p]
         tracks == IsNew(p) /\ new.kind = "tracked"
     IN /\ with' = [with EXCEPT ![t] = new]
        /\ entries' = [entries EXCEPT ![p] = new]
        /\ trackedCount' = IF tracks THEN trackedCount + 1 ELSE trackedCount
        /\ family' = IF tracks THEN [family EXCEPT ![LabelsOf[p]] = new.series] ELSE family
        /\ nextSeries' = IF tracks /\ new.series = nextSeries THEN nextSeries + 1 ELSE nextSeries
  /\ pusher' = [pusher EXCEPT ![t] = "count"]
  /\ UNCHANGED <<robbed, tallyVars, padVars, at, push, pushed>>

\* increment_entry, on the entry in hand, which may have left the map meanwhile.
IncrementEntry(t) ==
  /\ pusher[t] = "count"
  /\ LET e == with[t]
     IN /\ count' = IF e.kind = "tracked" THEN [count EXCEPT ![e.series] = @ + 1] ELSE count
        /\ untracked' = IF e.kind = "limit" THEN untracked + 1 ELSE untracked
        /\ fate' = [fate EXCEPT ![push[t]] = e]
  /\ holder' = IF holder = t THEN "nobody" ELSE holder
  /\ pusher' = [pusher EXCEPT ![t] = "idle"] /\ push' = [push EXCEPT ![t] = 0]
  /\ at' = [at EXCEPT ![t] = SomePad] /\ with' = [with EXCEPT ![t] = Absent]
  /\ UNCHANGED <<mapVars, padVars, pushed>>
-----------------------------------------------------------------------------
\* remove_pad_key under the lock: the entry goes, and its labels leave the families.
RemoveKey(p) ==
  /\ holder = "nobody"
  /\ entries' = [entries EXCEPT ![p] = Absent]
  /\ IF p \in TrackedPads
     THEN /\ trackedCount' = trackedCount - 1
          /\ family' = [family EXCEPT ![LabelsOf[p]] = 0]
          /\ robbed' = (robbed \union {q \in TrackedPads : LabelsOf[q] = LabelsOf[p]}) \ {p}
     ELSE UNCHANGED <<trackedCount, family, robbed>>
  /\ UNCHANGED nextSeries
KeepKey(p) == UNCHANGED mapVars                           \* mutant: destroyed pads stay
ForgetKey(p) == RemoveKey(p)

\* The element-remove-pad hook.
RemovePad(p) ==
  /\ alive[p] /\ changes < MaxChanges /\ changes' = changes + 1
  /\ RemoveKey(p)
  /\ UNCHANGED <<holder, tallyVars, parented, alive, threadVars>>

\* The element gives the pad up; the hook may come before or after.
Unparent(p) ==
  /\ parented[p] /\ changes < MaxChanges /\ changes' = changes + 1
  /\ parented' = [parented EXCEPT ![p] = FALSE]
  /\ UNCHANGED <<mapVars, holder, tallyVars, alive, threadVars>>

\* object-destroyed and remove_object_key: nobody holds the pad any more.
Destroy(p) ==
  /\ alive[p] /\ ~parented[p]
  /\ \A t \in Pushers : pusher[t] # "idle" => at[t] # p
  /\ alive' = [alive EXCEPT ![p] = FALSE]
  /\ ForgetKey(p)
  /\ UNCHANGED <<holder, tallyVars, parented, changes, threadVars>>
-----------------------------------------------------------------------------
Next ==
  \/ \E t \in Pushers : Register(t) \/ IncrementEntry(t) \/ \E p \in Pads : UpdatePad(t, p)
  \/ \E p \in Pads : RemovePad(p) \/ Unparent(p) \/ Destroy(p)

Spec == Init /\ [][Next]_seriesVars
-----------------------------------------------------------------------------
TypeOK ==
  /\ entries \in [Pads -> Entries] /\ trackedCount \in 0..MaxSeries
  /\ holder \in Pushers \union {"nobody"}
  /\ family \in [Labels -> {0} \union SeriesIds] /\ nextSeries \in 1..(MaxPushes + 1)
  /\ count \in [SeriesIds -> Nat] /\ untracked \in Nat
  /\ parented \in [Pads -> BOOLEAN] /\ alive \in [Pads -> BOOLEAN] /\ changes \in 0..MaxChanges
  /\ at \in [Pushers -> Pads] /\ with \in [Pushers -> Entries]
  /\ pusher \in [Pushers -> {"idle", "register", "count"}] /\ pushed \in 0..MaxPushes
  /\ fate \in [1..MaxPushes -> Fates] /\ push \in [Pushers -> 0..MaxPushes]
  /\ robbed \subseteq Pads

\* "The cardinality limit remains exact": the count is that of the tracked pads.
LimitIsExact == trackedCount = Cardinality(TrackedPads)

\* Removed and destroyed pads leave nothing behind: a label set in the families
\* has a tracked pad whose series it is, and a destroyed pad has no entry.
NoOrphans ==
  /\ \A l \in Labels : family[l] # 0 =>
       \E p \in TrackedPads : LabelsOf[p] = l /\ entries[p].series = family[l]
  /\ \A p \in Pads : ~alive[p] => entries[p] = Absent

\* A tracked pad counts in the series that is scraped, unless another pad with
\* the same labels was removed: then nothing it pushes is seen again.
ScrapedUnlessRobbed ==
  \A p \in TrackedPads \ robbed : family[LabelsOf[p]] = entries[p].series

\* Every push is counted exactly once, by the entry its thread had in hand: in a
\* series, as untracked, or nowhere on purpose; the others are still under way.
CountedBy(e) == {n \in 1..MaxPushes : fate[n] = e}
PushesConserved ==
  /\ \A s \in SeriesIds : count[s] = Cardinality(CountedBy(TrackedAs(s)))
  /\ untracked = Cardinality(CountedBy(SeriesLimit))
  /\ \A n \in 1..pushed : fate[n] = InFlight <=> \E t \in Pushers : push[t] = n
  /\ \A t, u \in Pushers : push[t] = push[u] => t = u \/ push[t] = 0

SeriesConsistent ==
  TypeOK /\ LimitIsExact /\ NoOrphans /\ ScrapedUnlessRobbed /\ PushesConserved
=============================================================================
