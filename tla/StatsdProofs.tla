---------------------------- MODULE StatsdProofs ----------------------------
(***************************************************************************)
(* Proofs about StatsdExport, for any number of threads, pads, pushes and  *)
(* removals: no more series than the cap, each in one place, from the map  *)
(* through the retirement channel to the worker, and after the export that *)
(* received a series' retirement no line of it, and no cursor; until a pad *)
(* goes away the accepted lines of a series add up to what was counted;    *)
(* and the last export sends what was owed at dispose().                   *)
(*                                                                         *)
(* The second rests on the first: a series the worker received has left    *)
(* the map, so only the iteration of the same export may have seen it.     *)
(***************************************************************************)
EXTENDS StatsdExport, FiniteSetTheorems, SequenceTheorems, TLAPS

IsTracked(p) == pads[p].kind = "tracked"
TrackedPads == {p \in Pads : IsTracked(p)}

\* The types, in five parts.
TypedRegistry ==
  /\ pads \in [Pads -> EntryStates] /\ lock \in Threads \union {"free", "remover"}
  /\ active \in 0..MaxSeries /\ nextId \in 1..(MaxPushes + 1)
TypedThreads ==
  /\ total \in [Ids -> Nat] /\ untracked \in Nat
  /\ pc \in [Threads -> {"idle", "register", "increment"}]
  /\ at \in [Threads -> Pads] /\ entry \in [Threads -> EntryStates]
  /\ pushes \in 0..MaxPushes
TypedRetirement ==
  /\ leaving \in Ids \union {0} /\ channel \in Seq(Ids) /\ dropped \subseteq Ids
  /\ removals \in 0..MaxRemovals /\ stopping \in BOOLEAN /\ owed \in [Ids -> Nat]
TypedSnapshot ==
  /\ wpc \in {"wait", "collect", "emit", "exited"} /\ final \in BOOLEAN /\ unseen \subseteq Pads
  /\ activeIds \subseteq Ids /\ retiredIds \subseteq Ids /\ todo \subseteq Ids
  /\ received \subseteq Ids
TypedCursors ==
  /\ known \subseteq Ids /\ value \in [Ids -> 0..(CounterSize - 1)] /\ busy \in [Ids -> BOOLEAN]
  /\ line \in [Ids -> {"none", "count", "zero", "zeros"}] /\ emitted \in [Ids -> Nat]
Typed == TypedRegistry /\ TypedThreads /\ TypedRetirement /\ TypedSnapshot /\ TypedCursors

\* A thread in the slow path may still hand out an identifier: there are enough.
Registering == {t \in Threads : pc[t] = "register"}
EnoughIds ==
  IsFiniteSet(Registering) /\ Cardinality(Registering) + nextId <= pushes + 1

\* The registration counts the tracked entries, and no two pads have one series.
Counted ==
  /\ IsFiniteSet(TrackedPads) /\ Cardinality(TrackedPads) = active
  /\ IsFiniteSet(TrackedIds) /\ Cardinality(TrackedIds) = active
  /\ \A p, q \in TrackedPads : pads[p].id = pads[q].id => p = q

\* Every identifier handed out is in one place: in the map, in the remover's hands,
\* in the channel, received, or dropped.
Places ==
  /\ leaving # 0 => lock = "remover"
  /\ \A m, n \in 1..Len(channel) : channel[m] = channel[n] => m = n
  /\ IsFiniteSet(Range(channel)) /\ Cardinality(Range(channel)) = Len(channel)
  /\ \A i \in Nat : i \in 1..(nextId - 1) <=>
       i \in TrackedIds \/ (i = leaving /\ i # 0) \/ i \in Range(channel) \union received \union dropped
  /\ leaving \notin TrackedIds \union Range(channel) \union received \union dropped
  /\ TrackedIds \intersect (Range(channel) \union received \union dropped) = {}
  /\ Range(channel) \intersect (received \union dropped) = {}
  /\ received \intersect dropped = {}

\* What an export has to tell it saw in the map or received; what it saw and was
\* received, it received itself.
Snapshots ==
  /\ activeIds \intersect received \subseteq retiredIds
  /\ wpc = "emit" => todo \subseteq activeIds \union retiredIds
  /\ RetiredCursorsGone

IInv == Typed /\ EnoughIds /\ Counted /\ Places /\ Snapshots
-----------------------------------------------------------------------------
\* Identifiers are positive, and an entry that is tracked has one.
LEMMA EntryHasId ==
  ASSUME SizeAssumption, StatsdAssumption
  PROVE  /\ Ids \subseteq Nat \ {0} /\ MaxPushes \in Nat /\ MaxSeries \in Nat /\ CounterSize \in Nat
         /\ \A e \in EntryStates : e.kind = "tracked" => e.id \in Ids
         /\ Absent \in EntryStates /\ Absent.kind # "tracked"
         /\ Filtered \in EntryStates /\ Filtered.kind # "tracked"
         /\ SeriesLimit \in EntryStates /\ SeriesLimit.kind # "tracked"
         /\ \A i \in Ids : Tracked(i) \in EntryStates /\ Tracked(i).kind = "tracked" /\ Tracked(i).id = i
         /\ AnyPad \in Pads
  <1>1. Ids \subseteq Nat \ {0} /\ MaxPushes \in Nat /\ MaxSeries \in Nat /\ CounterSize \in Nat
    BY DEF Ids, SizeAssumption, StatsdAssumption
  <1>2. \A e \in EntryStates : e.kind = "tracked" => e.id \in Ids
    BY DEF EntryStates, Absent, Filtered, SeriesLimit, Tracked
  <1>3. /\ Absent \in EntryStates /\ Absent.kind # "tracked"
        /\ Filtered \in EntryStates /\ Filtered.kind # "tracked"
        /\ SeriesLimit \in EntryStates /\ SeriesLimit.kind # "tracked"
    BY DEF EntryStates, Absent, Filtered, SeriesLimit
  <1>4. \A i \in Ids : Tracked(i) \in EntryStates /\ Tracked(i).kind = "tracked" /\ Tracked(i).id = i
    BY DEF EntryStates, Tracked
  <1>5. AnyPad \in Pads BY DEF StatsdAssumption, AnyPad
  <1> QED BY <1>1, <1>2, <1>3, <1>4, <1>5

\* An identifier the map holds is that of a tracked pad.
LEMMA TrackedIdsAre ==
  /\ \A i : i \in TrackedIds <=> \E p \in TrackedPads : pads[p].id = i
  /\ \A p \in TrackedPads : pads[p].id \in TrackedIds
  BY DEF TrackedIds, TrackedPads, IsTracked

\* Nothing that the map holds changes.
LEMMA SameEntries ==
  ASSUME pads' = pads
  PROVE  TrackedPads' = TrackedPads /\ TrackedIds' = TrackedIds
  BY DEF TrackedPads, IsTracked, TrackedIds

\* A pad that was not tracked gets a series.
LEMMA OneMoreTracked ==
  ASSUME SizeAssumption, StatsdAssumption, TypedRegistry, NEW p \in Pads, p \notin TrackedPads,
         NEW n \in Ids, pads' = [pads EXCEPT ![p] = Tracked(n)]
  PROVE  /\ TrackedPads' = TrackedPads \union {p} /\ TrackedIds' = TrackedIds \union {n}
         /\ pads'[p].id = n /\ \A q \in TrackedPads : pads'[q] = pads[q]
  <1>1. pads \in [Pads -> EntryStates] BY DEF TypedRegistry
  <1>2. pads'[p].kind = "tracked" /\ pads'[p].id = n BY <1>1, EntryHasId
  <1>3. \A q \in Pads \ {p} : pads'[q] = pads[q] BY <1>1
  <1>4. TrackedPads' = TrackedPads \union {p} BY <1>2, <1>3 DEF TrackedPads, IsTracked
  <1>5. \A q \in TrackedPads : pads'[q] = pads[q] BY <1>3 DEF TrackedPads
  <1>6. TrackedIds = {pads[q].id : q \in TrackedPads} BY DEF TrackedIds, TrackedPads, IsTracked
  <1>7. TrackedIds' = {pads'[q].id : q \in TrackedPads'} BY DEF TrackedIds, TrackedPads, IsTracked
  <1>8. TrackedIds' = TrackedIds \union {n} BY <1>2, <1>4, <1>5, <1>6, <1>7
  <1> QED BY <1>2, <1>4, <1>5, <1>8

\* A pad that was not tracked gets an entry without a series, or none.
LEMMA NoMoreTracked ==
  ASSUME SizeAssumption, StatsdAssumption, TypedRegistry, NEW p \in Pads, p \notin TrackedPads,
         NEW e \in EntryStates, e.kind # "tracked", pads' = [pads EXCEPT ![p] = e]
  PROVE  /\ TrackedPads' = TrackedPads /\ TrackedIds' = TrackedIds
         /\ \A q \in TrackedPads : pads'[q] = pads[q]
  <1>1. pads \in [Pads -> EntryStates] BY DEF TypedRegistry
  <1>2. pads'[p].kind # "tracked" /\ \A q \in Pads \ {p} : pads'[q] = pads[q] BY <1>1
  <1>3. TrackedPads' = TrackedPads BY <1>2 DEF TrackedPads, IsTracked
  <1>4. \A q \in TrackedPads : pads'[q] = pads[q] BY <1>2 DEF TrackedPads
  <1>5. TrackedIds = {pads[q].id : q \in TrackedPads} BY DEF TrackedIds, TrackedPads, IsTracked
  <1>6. TrackedIds' = {pads'[q].id : q \in TrackedPads'} BY DEF TrackedIds, TrackedPads, IsTracked
  <1> QED BY <1>3, <1>4, <1>5, <1>6

\* A tracked pad goes away, and its series with it.
LEMMA OneLessTracked ==
  ASSUME SizeAssumption, StatsdAssumption, TypedRegistry, Counted, NEW p \in TrackedPads,
         pads' = [pads EXCEPT ![p] = Absent]
  PROVE  /\ TrackedPads' = TrackedPads \ {p} /\ TrackedIds' = TrackedIds \ {pads[p].id}
         /\ \A q \in TrackedPads \ {p} : pads'[q] = pads[q]
  <1>1. pads \in [Pads -> EntryStates] /\ p \in Pads BY DEF TypedRegistry, TrackedPads
  <1>2. pads'[p].kind # "tracked" /\ \A q \in Pads \ {p} : pads'[q] = pads[q] BY <1>1, EntryHasId
  <1>3. TrackedPads' = TrackedPads \ {p} BY <1>2 DEF TrackedPads, IsTracked
  <1>4. \A q \in TrackedPads \ {p} : pads'[q] = pads[q] BY <1>2 DEF TrackedPads
  <1>5. TrackedIds = {pads[q].id : q \in TrackedPads} BY DEF TrackedIds, TrackedPads, IsTracked
  <1>6. TrackedIds' = {pads'[q].id : q \in TrackedPads'} BY DEF TrackedIds, TrackedPads, IsTracked
  <1>7. \A q \in TrackedPads \ {p} : pads[q].id # pads[p].id BY DEF Counted
  <1>8. TrackedIds' = TrackedIds \ {pads[p].id} BY <1>3, <1>4, <1>5, <1>6, <1>7
  <1> QED BY <1>3, <1>4, <1>8

\* What Range is of a sequence that grows.
LEMMA RangeGrows ==
  ASSUME NEW S, NEW s \in Seq(S), NEW e \in S
  PROVE  /\ Append(s, e) \in Seq(S) /\ Len(Append(s, e)) = Len(s) + 1 /\ Len(s) \in Nat
         /\ Append(s, e)[Len(s) + 1] = e /\ \A k \in 1..Len(s) : Append(s, e)[k] = s[k]
         /\ Range(Append(s, e)) = Range(s) \union {e}
  <1>1. Len(Append(s, e)) = Len(s) + 1 /\ Append(s, e)[Len(s) + 1] = e /\ Len(s) \in Nat OBVIOUS
  <1>2. \A i \in 1..Len(s) : Append(s, e)[i] = s[i] OBVIOUS
  <1>3. Append(s, e) \in Seq(S) OBVIOUS
  <1>4. Range(s) = {s[i] : i \in 1..Len(s)} BY DEF Range
  <1>5. Range(Append(s, e)) = {Append(s, e)[i] : i \in 1..(Len(s) + 1)} BY <1>1, <1>3 DEF Range
  <1>6. 1..(Len(s) + 1) = 1..Len(s) \union {Len(s) + 1} OBVIOUS
  <1> QED BY <1>1, <1>2, <1>3, <1>4, <1>5, <1>6

\* And of one without repetitions whose head is taken.
LEMMA RangeShrinks ==
  ASSUME NEW S, NEW s \in Seq(S), s # <<>>, \A m, n \in 1..Len(s) : s[m] = s[n] => m = n
  PROVE  /\ Head(s) \in S /\ Head(s) \in Range(s) /\ Tail(s) \in Seq(S)
         /\ Len(Tail(s)) = Len(s) - 1 /\ Len(s) \in Nat \ {0}
         /\ Range(Tail(s)) = Range(s) \ {Head(s)}
         /\ \A m, n \in 1..Len(Tail(s)) : Tail(s)[m] = Tail(s)[n] => m = n
  <1>1. Len(s) \in Nat \ {0} BY EmptySeq
  <1>2. /\ Head(s) \in S /\ Tail(s) \in Seq(S) /\ Len(Tail(s)) = Len(s) - 1
        /\ \A k \in 1..(Len(s) - 1) : Tail(s)[k] = s[k + 1]
    BY HeadTailProperties
  <1>3. Head(s) = s[1] /\ 1 \in 1..Len(s) BY <1>1
  <1>4. Range(s) = {s[i] : i \in 1..Len(s)} BY DEF Range
  <1>5. Range(Tail(s)) = {Tail(s)[i] : i \in 1..(Len(s) - 1)}
    <2>1. DOMAIN Tail(s) = 1..(Len(s) - 1) BY <1>2
    <2> QED BY <2>1 DEF Range
  <1>6. \A k \in 1..(Len(s) - 1) : k + 1 \in 1..Len(s) /\ k + 1 # 1 BY <1>1
  <1>7. \A k \in 1..Len(s) : k # 1 => k - 1 \in 1..(Len(s) - 1) /\ (k - 1) + 1 = k BY <1>1
  <1>8. Range(Tail(s)) \subseteq Range(s) \ {Head(s)}
    <2> SUFFICES ASSUME NEW x \in Range(Tail(s)) PROVE x \in Range(s) \ {Head(s)} OBVIOUS
    <2>1. PICK i \in 1..(Len(s) - 1) : x = Tail(s)[i] BY <1>5
    <2>2. x = s[i + 1] /\ i + 1 \in 1..Len(s) /\ i + 1 # 1 BY <1>2, <1>6, <2>1
    <2>3. s[i + 1] # s[1] BY <1>3, <2>2
    <2> QED BY <1>3, <1>4, <2>2, <2>3
  <1>9. Range(s) \ {Head(s)} \subseteq Range(Tail(s))
    <2> SUFFICES ASSUME NEW x \in Range(s) \ {Head(s)} PROVE x \in Range(Tail(s)) OBVIOUS
    <2>1. PICK i \in 1..Len(s) : x = s[i] BY <1>4
    <2>2. i # 1 BY <1>3, <2>1
    <2>3. i - 1 \in 1..(Len(s) - 1) /\ Tail(s)[i - 1] = s[i] BY <1>2, <1>7, <2>2
    <2> QED BY <1>5, <2>1, <2>3
  <1>10. ASSUME NEW m \in 1..Len(Tail(s)), NEW n \in 1..Len(Tail(s)), Tail(s)[m] = Tail(s)[n]
         PROVE  m = n
    <2>1. m \in 1..(Len(s) - 1) /\ n \in 1..(Len(s) - 1) BY <1>2
    <2>2. s[m + 1] = s[n + 1] /\ m + 1 \in 1..Len(s) /\ n + 1 \in 1..Len(s)
      BY <1>2, <1>6, <1>10, <2>1
    <2>3. m + 1 = n + 1 BY <2>2
    <2> QED BY <2>1, <2>3
  <1> QED BY <1>1, <1>2, <1>3, <1>4, <1>8, <1>9, <1>10

\* Register(t) finds an entry, or makes one without a series, or one with the next.
LEMMA RegisterIs ==
  ASSUME SizeAssumption, StatsdAssumption, IInv, NEW t \in Threads, Register(t)
  PROVE  /\ at[t] \in Pads /\ nextId \in Ids /\ lock = "free" /\ t \in Registering
         /\ \/ UNCHANGED <<pads, active, nextId>>
            \/ /\ at[t] \notin TrackedPads /\ UNCHANGED <<active, nextId>>
               /\ \E e \in EntryStates : e.kind # "tracked" /\ pads' = [pads EXCEPT ![at[t]] = e]
            \/ /\ at[t] \notin TrackedPads /\ active < MaxSeries
               /\ pads' = [pads EXCEPT ![at[t]] = Tracked(nextId)]
               /\ active' = active + 1 /\ nextId' = nextId + 1
  <1>1. at[t] \in Pads /\ pads \in [Pads -> EntryStates]
    BY DEF IInv, Typed, TypedThreads, TypedRegistry
  <1>2. t \in Registering /\ lock = "free" BY DEF Register, Registering
  <1>3. nextId \in Ids
    <2>1. Cardinality(Registering) \in Nat /\ Cardinality(Registering) # 0
      BY <1>2, FS_CardinalityType, FS_EmptySet DEF IInv, EnoughIds
    <2>2. nextId \in Nat \ {0} /\ pushes \in Nat /\ pushes <= MaxPushes /\ MaxPushes \in Nat
      BY EntryHasId DEF IInv, Typed, TypedRegistry, TypedThreads
    <2>3. Cardinality(Registering) + nextId <= pushes + 1 BY DEF IInv, EnoughIds
    <2>4. nextId <= MaxPushes BY <2>1, <2>2, <2>3
    <2> QED BY <2>2, <2>4 DEF Ids
  <1>4. CASE pads[at[t]] # Absent
    <2>1. pads' = [pads EXCEPT ![at[t]] = pads[at[t]]] /\ UNCHANGED <<active, nextId>>
      BY <1>4 DEF Register
    <2>2. pads' = pads BY <1>1, <2>1
    <2> QED BY <1>1, <1>2, <1>3, <2>1, <2>2
  <1>5. CASE pads[at[t]] = Absent
    <2> DEFINE new == NewEntry(at[t])
    <2>1. at[t] \notin TrackedPads BY <1>5, EntryHasId DEF TrackedPads, IsTracked
    <2>2. /\ pads' = [pads EXCEPT ![at[t]] = new]
          /\ active' = IF new.kind = "tracked" THEN active + 1 ELSE active
          /\ nextId' = IF new.kind = "tracked" THEN nextId + 1 ELSE nextId
      BY <1>5 DEF Register
    <2>3. CASE new \in {Filtered, SeriesLimit}
      <3>1. new \in EntryStates /\ new.kind # "tracked" BY <2>3, EntryHasId
      <3> QED BY <1>1, <1>2, <1>3, <2>1, <2>2, <3>1
    <2>4. CASE ~(active >= MaxSeries) /\ new = Tracked(nextId)
      <3>1. new.kind = "tracked" BY <1>3, <2>4, EntryHasId
      <3>2. active < MaxSeries
        <4>1. active \in Nat /\ MaxSeries \in Nat BY EntryHasId DEF IInv, Typed, TypedRegistry
        <4> QED BY <2>4, <4>1
      <3> QED BY <1>1, <1>2, <1>3, <2>1, <2>2, <2>4, <3>1, <3>2
    <2> QED BY <2>3, <2>4 DEF NewEntry
  <1> QED BY <1>4, <1>5

\* A finite set with one element more.
LEMMA OneMore ==
  ASSUME NEW S, IsFiniteSet(S), NEW x, x \notin S, NEW n \in Nat, Cardinality(S) = n
  PROVE  IsFiniteSet(S \union {x}) /\ Cardinality(S \union {x}) = n + 1
  BY FS_AddElement

\* A finite set with one element less.
LEMMA OneLess ==
  ASSUME NEW S, IsFiniteSet(S), NEW x \in S, NEW n \in Nat, Cardinality(S) = n
  PROVE  IsFiniteSet(S \ {x}) /\ Cardinality(S \ {x}) = n - 1
  BY FS_RemoveElement

\* Steps that leave the registration, or all places of a series, alone.
LEMMA EnoughFrame ==
  ASSUME EnoughIds, UNCHANGED <<Registering, nextId, pushes>>
  PROVE  EnoughIds'
  BY DEF EnoughIds

LEMMA CountedFrame ==
  ASSUME Counted, TrackedPads' = TrackedPads, TrackedIds' = TrackedIds, active' = active,
         \A q \in TrackedPads : pads'[q] = pads[q]
  PROVE  Counted'
  BY DEF Counted

LEMMA PlacesFrame ==
  ASSUME Places, TrackedIds' = TrackedIds, UNCHANGED <<nextId, leaving, channel, received, dropped>>,
         leaving # 0 => lock' = lock
  PROVE  Places'
  BY DEF Places

\* What a line carries, and where it moves the cursor.
LEMMA EmissionTyped ==
  ASSUME SizeAssumption, Typed, NEW i \in Ids
  PROVE  Amount(i) \in Nat /\ Advance(i) \in 0..(CounterSize - 1)
  <1>1. /\ total[i] \in Nat /\ value[i] \in Nat /\ value[i] <= CounterSize
        /\ CounterSize \in Nat \ {0} /\ MaxEmit \in Nat
    BY DEF Typed, TypedThreads, TypedCursors, SizeAssumption
  <1>2. \A n \in Nat : n % CounterSize \in 0..(CounterSize - 1) BY <1>1
  <1>3. total[i] + CounterSize - value[i] \in Nat BY <1>1
  <1>4. Pending(i) \in Nat BY <1>2, <1>3 DEF Pending
  <1>5. Amount(i) \in Nat BY <1>1, <1>4 DEF Amount
  <1>6. value[i] + Amount(i) \in Nat BY <1>1, <1>5
  <1> QED BY <1>2, <1>5, <1>6 DEF Advance

\* Each part of the types, in every step: the registry,
LEMMA TypedRegistryStep ==
  ASSUME SizeAssumption, StatsdAssumption, IInv, [Next]_vars
  PROVE  TypedRegistry'
  <1> USE DEF IInv, Typed, TypedRegistry, registryVars, countVars, threadVars, retireVars,
    stopVars, snapVars, cursorVars
  <1>0. /\ Ids \subseteq Nat \ {0} /\ MaxPushes \in Nat /\ MaxSeries \in Nat /\ CounterSize \in Nat
        /\ \A e \in EntryStates : e.kind = "tracked" => e.id \in Ids
        /\ Absent \in EntryStates /\ AnyPad \in Pads
    BY EntryHasId
  <1> USE <1>0
  <1>1. ASSUME NEW t \in Threads, NEW p \in Pads, Push(t, p) PROVE TypedRegistry'
    BY <1>1 DEF Push
  <1>2. ASSUME NEW t \in Threads, Register(t) PROVE TypedRegistry'
    <2>1. lock' = t /\ at[t] \in Pads /\ nextId \in Ids BY <1>2, RegisterIs DEF Register
    <2>2. CASE UNCHANGED <<pads, active, nextId>> BY <2>1, <2>2
    <2>3. CASE /\ UNCHANGED <<active, nextId>>
               /\ \E e \in EntryStates : pads' = [pads EXCEPT ![at[t]] = e]
      BY <2>1, <2>3
    <2>4. CASE /\ active < MaxSeries /\ pads' = [pads EXCEPT ![at[t]] = Tracked(nextId)]
               /\ active' = active + 1 /\ nextId' = nextId + 1
      <3>1. Tracked(nextId) \in EntryStates BY <2>1, EntryHasId
      <3>2. active' \in 0..MaxSeries BY <2>4
      <3>3. nextId' \in 1..(MaxPushes + 1) BY <2>1, <2>4 DEF Ids
      <3> QED BY <2>1, <2>4, <3>1, <3>2, <3>3
    <2> QED BY <1>2, <2>2, <2>3, <2>4, RegisterIs
  <1>3. ASSUME NEW t \in Threads, PushOrphan(t) PROVE TypedRegistry'
    BY <1>3 DEF PushOrphan
  <1>4. ASSUME NEW t \in Threads, Increment(t) PROVE TypedRegistry'
    BY <1>4 DEF Increment
  <1>5. ASSUME NEW p \in Pads, RemovePad(p) PROVE TypedRegistry'
    <2>1. pads' = [pads EXCEPT ![p] = Absent] /\ UNCHANGED nextId BY <1>5 DEF RemovePad, Unmapped
    <2>2. CASE pads[p].kind = "tracked"
      <3>1. lock' = "remover" /\ active' = active - 1 BY <1>5, <2>2 DEF RemovePad
      <3>2. p \in TrackedPads BY <2>2 DEF TrackedPads, IsTracked
      <3>3. active # 0 BY <3>2, FS_EmptySet DEF Counted
      <3>4. active - 1 \in 0..MaxSeries BY <3>3
      <3> QED BY <2>1, <3>1, <3>4
    <2>3. CASE pads[p].kind # "tracked"
      <3>1. UNCHANGED <<lock, active>> BY <1>5, <2>3 DEF RemovePad
      <3> QED BY <2>1, <3>1
    <2> QED BY <2>2, <2>3
  <1>6. CASE Retire BY <1>6 DEF Retire
  <1>7. CASE Stop BY <1>7 DEF Stop
  <1>8. CASE WorkerBegin BY <1>8 DEF WorkerBegin
  <1>9. ASSUME NEW p \in Pads, WorkerCollect(p) PROVE TypedRegistry'
    BY <1>9 DEF WorkerCollect
  <1>10. CASE WorkerReceive BY <1>10 DEF WorkerReceive
  <1>11. CASE WorkerDrained BY <1>11 DEF WorkerDrained, Snapshot
  <1>12. ASSUME NEW i \in Ids, WorkerEmit(i) PROVE TypedRegistry'
    BY <1>12 DEF WorkerEmit
  <1>13. CASE WorkerRetain BY <1>13 DEF WorkerRetain, Kept
  <1>14. CASE UNCHANGED vars BY <1>14 DEF vars
  <1> QED
    BY <1>1, <1>2, <1>3, <1>4, <1>5, <1>6, <1>7, <1>8, <1>9, <1>10, <1>11, <1>12, <1>13,
    <1>14 DEF Next, ThreadStep, Worker

\* threads,
LEMMA TypedThreadsStep ==
  ASSUME SizeAssumption, StatsdAssumption, IInv, [Next]_vars
  PROVE  TypedThreads'
  <1> USE DEF IInv, Typed, TypedThreads, registryVars, countVars, threadVars, retireVars,
    stopVars, snapVars, cursorVars
  <1>0. /\ Ids \subseteq Nat \ {0} /\ MaxPushes \in Nat /\ MaxSeries \in Nat /\ CounterSize \in Nat
        /\ \A e \in EntryStates : e.kind = "tracked" => e.id \in Ids
        /\ Absent \in EntryStates /\ AnyPad \in Pads
    BY EntryHasId
  <1> USE <1>0
  <1>1. ASSUME NEW t \in Threads, NEW p \in Pads, Push(t, p) PROVE TypedThreads'
    <2>1. pads[p] \in EntryStates BY DEF TypedRegistry
    <2>2. pushes + 1 \in 0..MaxPushes BY <1>1 DEF Push
    <2> QED BY <1>1, <2>1, <2>2 DEF Push
  <1>2. ASSUME NEW t \in Threads, Register(t) PROVE TypedThreads'
    <2>1. pads' \in [Pads -> EntryStates] BY TypedRegistryStep DEF TypedRegistry
    <2>2. pads \in [Pads -> EntryStates] /\ at[t] \in Pads BY DEF TypedRegistry
    <2>3. entry' = [entry EXCEPT ![t] = pads'[at[t]]] BY <1>2, <2>2 DEF Register
    <2>4. pc' = [pc EXCEPT ![t] = "increment"] /\ UNCHANGED <<at, pushes, total, untracked>>
      BY <1>2 DEF Register
    <2> QED BY <2>1, <2>2, <2>3, <2>4
  <1>3. ASSUME NEW t \in Threads, PushOrphan(t) PROVE TypedThreads'
    BY <1>3 DEF PushOrphan
  <1>4. ASSUME NEW t \in Threads, Increment(t) PROVE TypedThreads'
    <2>1. /\ pc' = [pc EXCEPT ![t] = "idle"] /\ UNCHANGED pushes
          /\ entry' = [entry EXCEPT ![t] = Absent] /\ at' = [at EXCEPT ![t] = AnyPad]
      BY <1>4 DEF Increment
    <2>2. total' \in [Ids -> Nat]
      <3>1. entry[t] \in EntryStates OBVIOUS
      <3>2. CASE entry[t].kind = "tracked"
        <4>1. entry[t].id \in Ids /\ total' = [total EXCEPT ![entry[t].id] = @ + 1]
          BY <1>4, <3>1, <3>2 DEF Increment
        <4>2. total[entry[t].id] \in Nat /\ total \in [Ids -> Nat] BY <4>1
        <4>3. total[entry[t].id] + 1 \in Nat BY <4>2
        <4> QED BY <4>1, <4>2, <4>3
      <3>3. CASE entry[t].kind # "tracked" BY <1>4, <3>3 DEF Increment
      <3> QED BY <3>2, <3>3
    <2>3. untracked' \in Nat BY <1>4 DEF Increment
    <2> QED BY <2>1, <2>2, <2>3
  <1>5. ASSUME NEW p \in Pads, RemovePad(p) PROVE TypedThreads'
    BY <1>5 DEF RemovePad, Unmapped
  <1>6. CASE Retire BY <1>6 DEF Retire
  <1>7. CASE Stop BY <1>7 DEF Stop
  <1>8. CASE WorkerBegin BY <1>8 DEF WorkerBegin
  <1>9. ASSUME NEW p \in Pads, WorkerCollect(p) PROVE TypedThreads'
    BY <1>9 DEF WorkerCollect
  <1>10. CASE WorkerReceive BY <1>10 DEF WorkerReceive
  <1>11. CASE WorkerDrained BY <1>11 DEF WorkerDrained, Snapshot
  <1>12. ASSUME NEW i \in Ids, WorkerEmit(i) PROVE TypedThreads'
    BY <1>12 DEF WorkerEmit
  <1>13. CASE WorkerRetain BY <1>13 DEF WorkerRetain, Kept
  <1>14. CASE UNCHANGED vars BY <1>14 DEF vars
  <1> QED
    BY <1>1, <1>2, <1>3, <1>4, <1>5, <1>6, <1>7, <1>8, <1>9, <1>10, <1>11, <1>12, <1>13,
    <1>14 DEF Next, ThreadStep, Worker

\* retirement,
LEMMA TypedRetirementStep ==
  ASSUME SizeAssumption, StatsdAssumption, IInv, [Next]_vars
  PROVE  TypedRetirement'
  <1> USE DEF IInv, Typed, TypedRetirement, registryVars, countVars, threadVars, retireVars,
    stopVars, snapVars, cursorVars
  <1>0. /\ Ids \subseteq Nat \ {0} /\ MaxPushes \in Nat /\ MaxSeries \in Nat /\ CounterSize \in Nat
        /\ \A e \in EntryStates : e.kind = "tracked" => e.id \in Ids
        /\ Absent \in EntryStates /\ AnyPad \in Pads
    BY EntryHasId
  <1> USE <1>0
  <1>1. ASSUME NEW t \in Threads, NEW p \in Pads, Push(t, p) PROVE TypedRetirement'
    BY <1>1 DEF Push
  <1>2. ASSUME NEW t \in Threads, Register(t) PROVE TypedRetirement'
    BY <1>2 DEF Register
  <1>3. ASSUME NEW t \in Threads, PushOrphan(t) PROVE TypedRetirement'
    BY <1>3 DEF PushOrphan
  <1>4. ASSUME NEW t \in Threads, Increment(t) PROVE TypedRetirement'
    BY <1>4 DEF Increment
  <1>5. ASSUME NEW p \in Pads, RemovePad(p) PROVE TypedRetirement'
    <2>1. removals + 1 \in 0..MaxRemovals BY <1>5 DEF RemovePad, StatsdAssumption
    <2>2. removals' = removals + 1 /\ UNCHANGED <<channel, dropped, stopping, owed>>
      BY <1>5 DEF RemovePad
    <2>3. pads[p] \in EntryStates BY DEF TypedRegistry
    <2>4. leaving' \in Ids \union {0} BY <1>5, <2>3 DEF RemovePad
    <2> QED BY <2>1, <2>2, <2>4
  <1>6. CASE Retire
    <2>1. leaving \in Ids BY <1>6 DEF Retire
    <2>2. Append(channel, leaving) \in Seq(Ids) BY <2>1, RangeGrows
    <2> QED BY <1>6, <2>1, <2>2 DEF Retire
  <1>7. CASE Stop
    <2>1. total \in [Ids -> Nat] BY DEF TypedThreads
    <2>2. owed' \in [Ids -> Nat] BY <1>7, <2>1 DEF Stop
    <2> QED BY <1>7, <2>2 DEF Stop
  <1>8. CASE WorkerBegin BY <1>8 DEF WorkerBegin
  <1>9. ASSUME NEW p \in Pads, WorkerCollect(p) PROVE TypedRetirement'
    BY <1>9 DEF WorkerCollect
  <1>10. CASE WorkerReceive
    <2>1. Tail(channel) \in Seq(Ids) BY <1>10, HeadTailProperties DEF WorkerReceive
    <2> QED BY <1>10, <2>1 DEF WorkerReceive
  <1>11. CASE WorkerDrained BY <1>11 DEF WorkerDrained, Snapshot
  <1>12. ASSUME NEW i \in Ids, WorkerEmit(i) PROVE TypedRetirement'
    BY <1>12 DEF WorkerEmit
  <1>13. CASE WorkerRetain BY <1>13 DEF WorkerRetain, Kept
  <1>14. CASE UNCHANGED vars BY <1>14 DEF vars
  <1> QED
    BY <1>1, <1>2, <1>3, <1>4, <1>5, <1>6, <1>7, <1>8, <1>9, <1>10, <1>11, <1>12, <1>13,
    <1>14 DEF Next, ThreadStep, Worker

\* snapshots,
LEMMA TypedSnapshotStep ==
  ASSUME SizeAssumption, StatsdAssumption, IInv, [Next]_vars
  PROVE  TypedSnapshot'
  <1> USE DEF IInv, Typed, TypedSnapshot, registryVars, countVars, threadVars, retireVars,
    stopVars, snapVars, cursorVars
  <1>0. /\ Ids \subseteq Nat \ {0} /\ MaxPushes \in Nat /\ MaxSeries \in Nat /\ CounterSize \in Nat
        /\ \A e \in EntryStates : e.kind = "tracked" => e.id \in Ids
        /\ Absent \in EntryStates /\ AnyPad \in Pads
    BY EntryHasId
  <1> USE <1>0
  <1>1. ASSUME NEW t \in Threads, NEW p \in Pads, Push(t, p) PROVE TypedSnapshot'
    BY <1>1 DEF Push
  <1>2. ASSUME NEW t \in Threads, Register(t) PROVE TypedSnapshot'
    BY <1>2 DEF Register
  <1>3. ASSUME NEW t \in Threads, PushOrphan(t) PROVE TypedSnapshot'
    BY <1>3 DEF PushOrphan
  <1>4. ASSUME NEW t \in Threads, Increment(t) PROVE TypedSnapshot'
    BY <1>4 DEF Increment
  <1>5. ASSUME NEW p \in Pads, RemovePad(p) PROVE TypedSnapshot'
    BY <1>5 DEF RemovePad, Unmapped
  <1>6. CASE Retire BY <1>6 DEF Retire
  <1>7. CASE Stop BY <1>7 DEF Stop
  <1>8. CASE WorkerBegin
    <2>1. stopping \in BOOLEAN BY DEF TypedRetirement
    <2> QED BY <1>8, <2>1 DEF WorkerBegin
  <1>9. ASSUME NEW p \in Pads, WorkerCollect(p) PROVE TypedSnapshot'
    <2>1. pads[p] \in EntryStates BY DEF TypedRegistry
    <2> QED BY <1>9, <2>1 DEF WorkerCollect
  <1>10. CASE WorkerReceive
    <2>1. Head(channel) \in Ids BY <1>10, HeadTailProperties DEF WorkerReceive, TypedRetirement
    <2> QED BY <1>10, <2>1 DEF WorkerReceive
  <1>11. CASE WorkerDrained BY <1>11 DEF WorkerDrained, Snapshot
  <1>12. ASSUME NEW i \in Ids, WorkerEmit(i) PROVE TypedSnapshot'
    BY <1>12 DEF WorkerEmit
  <1>13. CASE WorkerRetain BY <1>13 DEF WorkerRetain, Kept
  <1>14. CASE UNCHANGED vars BY <1>14 DEF vars
  <1> QED
    BY <1>1, <1>2, <1>3, <1>4, <1>5, <1>6, <1>7, <1>8, <1>9, <1>10, <1>11, <1>12, <1>13,
    <1>14 DEF Next, ThreadStep, Worker

\* and cursors.
LEMMA TypedCursorsStep ==
  ASSUME SizeAssumption, StatsdAssumption, IInv, [Next]_vars
  PROVE  TypedCursors'
  <1> USE DEF IInv, Typed, TypedCursors, registryVars, countVars, threadVars, retireVars,
    stopVars, snapVars, cursorVars
  <1>0. /\ Ids \subseteq Nat \ {0} /\ MaxPushes \in Nat /\ MaxSeries \in Nat /\ CounterSize \in Nat
        /\ \A e \in EntryStates : e.kind = "tracked" => e.id \in Ids
        /\ Absent \in EntryStates /\ AnyPad \in Pads
    BY EntryHasId
  <1> USE <1>0
  <1>1. ASSUME NEW t \in Threads, NEW p \in Pads, Push(t, p) PROVE TypedCursors'
    BY <1>1 DEF Push
  <1>2. ASSUME NEW t \in Threads, Register(t) PROVE TypedCursors'
    BY <1>2 DEF Register
  <1>3. ASSUME NEW t \in Threads, PushOrphan(t) PROVE TypedCursors'
    BY <1>3 DEF PushOrphan
  <1>4. ASSUME NEW t \in Threads, Increment(t) PROVE TypedCursors'
    BY <1>4 DEF Increment
  <1>5. ASSUME NEW p \in Pads, RemovePad(p) PROVE TypedCursors'
    BY <1>5 DEF RemovePad, Unmapped
  <1>6. CASE Retire BY <1>6 DEF Retire
  <1>7. CASE Stop BY <1>7 DEF Stop
  <1>8. CASE WorkerBegin BY <1>8 DEF WorkerBegin
  <1>9. ASSUME NEW p \in Pads, WorkerCollect(p) PROVE TypedCursors'
    BY <1>9 DEF WorkerCollect
  <1>10. CASE WorkerReceive BY <1>10 DEF WorkerReceive
  <1>11. CASE WorkerDrained BY <1>11 DEF WorkerDrained, Snapshot
  <1>12. ASSUME NEW i \in Ids, WorkerEmit(i) PROVE TypedCursors'
    <2>1. known' \subseteq Ids BY <1>12 DEF WorkerEmit
    <2>2. CASE UNCHANGED <<value, busy, emitted, line>> BY <2>1, <2>2
    <2>3. CASE /\ value' = [value EXCEPT ![i] = Advance(i)]
               /\ busy' = [busy EXCEPT ![i] = Busy(i)]
               /\ emitted' = [emitted EXCEPT ![i] = @ + Amount(i)]
               /\ line' = [line EXCEPT ![i] = IF Pending(i) # 0 THEN "count"
                                            ELSE IF @ = "count" THEN "zero" ELSE "zeros"]
      <3>1. Amount(i) \in Nat /\ Advance(i) \in 0..(CounterSize - 1) BY EmissionTyped
      <3>2. value' \in [Ids -> 0..(CounterSize - 1)] BY <2>3, <3>1
      <3>3. emitted[i] + Amount(i) \in Nat BY <3>1
      <3>4. emitted' \in [Ids -> Nat] BY <2>3, <3>3
      <3>5. busy' \in [Ids -> BOOLEAN] BY <2>3 DEF Busy
      <3>6. line' \in [Ids -> {"none", "count", "zero", "zeros"}] BY <2>3
      <3> QED BY <2>1, <3>2, <3>4, <3>5, <3>6
    <2> QED BY <1>12, <2>2, <2>3 DEF WorkerEmit
  <1>13. CASE WorkerRetain
    <2>1. 0 \in 0..(CounterSize - 1) BY DEF SizeAssumption
    <2>2. value' \in [Ids -> 0..(CounterSize - 1)] /\ known' \subseteq Ids
      BY <1>13, <2>1 DEF WorkerRetain, Kept
    <2>3. busy' \in [Ids -> BOOLEAN] BY <1>13 DEF WorkerRetain
    <2> QED BY <1>13, <2>2, <2>3 DEF WorkerRetain
  <1>14. CASE UNCHANGED vars BY <1>14 DEF vars
  <1> QED
    BY <1>1, <1>2, <1>3, <1>4, <1>5, <1>6, <1>7, <1>8, <1>9, <1>10, <1>11, <1>12, <1>13,
    <1>14 DEF Next, ThreadStep, Worker

\* Identifiers suffice: every one is for a push.
LEMMA EnoughIdsStep ==
  ASSUME SizeAssumption, StatsdAssumption, IInv, [Next]_vars
  PROVE  EnoughIds'
  <1> USE DEF IInv, registryVars, countVars, threadVars, retireVars, stopVars, snapVars,
    cursorVars
  <1>0. /\ pc \in [Threads -> {"idle", "register", "increment"}] /\ pushes \in Nat /\ nextId \in Nat
        /\ Cardinality(Registering) \in Nat /\ IsFiniteSet(Registering)
        /\ Cardinality(Registering) + nextId <= pushes + 1
    BY FS_CardinalityType, EntryHasId DEF IInv, Typed, TypedThreads, TypedRegistry, EnoughIds
  <1> USE <1>0
  <1>1. ASSUME NEW t \in Threads, NEW p \in Pads, Push(t, p) PROVE EnoughIds'
    <2>1. UNCHANGED nextId /\ pushes' = pushes + 1 BY <1>1 DEF Push
    <2>2. CASE pc' = [pc EXCEPT ![t] = "register"]
      <3>1. Registering' = Registering \union {t} BY <2>2 DEF Registering
      <3>2. t \notin Registering BY <1>1 DEF Push, Registering
      <3>3. IsFiniteSet(Registering') /\ Cardinality(Registering') = Cardinality(Registering) + 1
        BY <3>1, <3>2, FS_AddElement
      <3> QED BY <2>1, <3>3 DEF EnoughIds
    <2>3. CASE pc' = [pc EXCEPT ![t] = "increment"]
      <3>1. Registering' = Registering BY <1>1, <2>3 DEF Registering, Push
      <3> QED BY <2>1, <3>1 DEF EnoughIds
    <2> QED BY <1>1, <2>2, <2>3 DEF Push
  <1>2. ASSUME NEW t \in Threads, Register(t) PROVE EnoughIds'
    <2>1. t \in Registering /\ Registering' = Registering \ {t} BY <1>2 DEF Register, Registering
    <2>2. IsFiniteSet(Registering') /\ Cardinality(Registering') = Cardinality(Registering) - 1
      BY <2>1, FS_RemoveElement
    <2>3. UNCHANGED pushes /\ nextId' \in {nextId, nextId + 1} BY <1>2, RegisterIs DEF Register
    <2> QED BY <2>2, <2>3 DEF EnoughIds
  <1>3. ASSUME NEW t \in Threads, PushOrphan(t) PROVE EnoughIds'
    <2>1. t \in Registering /\ Registering' = Registering \ {t} BY <1>3 DEF PushOrphan, Registering
    <2>2. IsFiniteSet(Registering') /\ Cardinality(Registering') = Cardinality(Registering) - 1
      BY <2>1, FS_RemoveElement
    <2>3. UNCHANGED <<pushes, nextId>> BY <1>3 DEF PushOrphan
    <2> QED BY <2>2, <2>3 DEF EnoughIds
  <1>4. ASSUME NEW t \in Threads, Increment(t) PROVE EnoughIds'
    BY <1>4, EnoughFrame DEF Increment, Registering
  <1>5. ASSUME NEW p \in Pads, RemovePad(p) PROVE EnoughIds'
    BY <1>5, EnoughFrame DEF RemovePad, Unmapped, Registering
  <1>6. CASE Retire
    BY <1>6, EnoughFrame DEF Retire, Registering
  <1>7. CASE Stop
    BY <1>7, EnoughFrame DEF Stop, Registering
  <1>8. CASE WorkerBegin
    BY <1>8, EnoughFrame DEF WorkerBegin, Registering
  <1>9. ASSUME NEW p \in Pads, WorkerCollect(p) PROVE EnoughIds'
    BY <1>9, EnoughFrame DEF WorkerCollect, Registering
  <1>10. CASE WorkerReceive
    BY <1>10, EnoughFrame DEF WorkerReceive, Registering
  <1>11. CASE WorkerDrained
    BY <1>11, EnoughFrame DEF WorkerDrained, Snapshot, Registering
  <1>12. ASSUME NEW i \in Ids, WorkerEmit(i) PROVE EnoughIds'
    BY <1>12, EnoughFrame DEF WorkerEmit, Registering
  <1>13. CASE WorkerRetain
    BY <1>13, EnoughFrame DEF WorkerRetain, Kept, Registering
  <1>14. CASE UNCHANGED vars BY <1>14, EnoughFrame DEF vars, Registering
  <1> QED
    BY <1>1, <1>2, <1>3, <1>4, <1>5, <1>6, <1>7, <1>8, <1>9, <1>10, <1>11, <1>12, <1>13,
    <1>14 DEF Next, ThreadStep, Worker

\* The cap is exact.
LEMMA CountedStep ==
  ASSUME SizeAssumption, StatsdAssumption, IInv, [Next]_vars
  PROVE  Counted'
  <1> USE DEF IInv, registryVars, countVars, threadVars, retireVars, stopVars, snapVars,
    cursorVars
  <1>0. /\ Counted /\ active \in Nat /\ pads \in [Pads -> EntryStates] /\ nextId \in Nat
        /\ \A i \in TrackedIds : i \in Nat /\ i < nextId
    <2>1. nextId \in Nat /\ nextId >= 1 /\ active \in Nat
      BY EntryHasId DEF IInv, Typed, TypedRegistry
    <2>2. TrackedIds \subseteq Ids BY EntryHasId DEF IInv, Typed, TypedRegistry, TrackedIds
    <2>3. \A i \in TrackedIds : i \in Nat /\ i \in 1..(nextId - 1)
      BY <2>2, EntryHasId DEF IInv, Places
    <2> QED BY <2>1, <2>3 DEF IInv, Typed, TypedRegistry
  <1> USE <1>0
  <1>1. ASSUME NEW t \in Threads, NEW p \in Pads, Push(t, p) PROVE Counted'
    BY <1>1, SameEntries, CountedFrame DEF Push
  <1>2. ASSUME NEW t \in Threads, Register(t) PROVE Counted'
    <2>1. at[t] \in Pads /\ nextId \in Ids /\ TypedRegistry BY <1>2, RegisterIs DEF Typed
    <2>2. CASE UNCHANGED <<pads, active, nextId>> BY <1>2, <2>2, SameEntries, CountedFrame
    <2>3. CASE /\ at[t] \notin TrackedPads /\ UNCHANGED <<active, nextId>>
               /\ \E e \in EntryStates : e.kind # "tracked" /\ pads' = [pads EXCEPT ![at[t]] = e]
      BY <1>2, <2>1, <2>3, NoMoreTracked, CountedFrame
    <2>4. CASE /\ at[t] \notin TrackedPads /\ active < MaxSeries
               /\ pads' = [pads EXCEPT ![at[t]] = Tracked(nextId)]
               /\ active' = active + 1 /\ nextId' = nextId + 1
      <3>1. /\ TrackedPads' = TrackedPads \union {at[t]} /\ TrackedIds' = TrackedIds \union {nextId}
            /\ pads'[at[t]].id = nextId /\ \A q \in TrackedPads : pads'[q] = pads[q]
        BY <2>1, <2>4, OneMoreTracked
      <3>2. nextId \notin TrackedIds OBVIOUS
      <3>3. /\ IsFiniteSet(TrackedPads') /\ Cardinality(TrackedPads') = active + 1
            /\ IsFiniteSet(TrackedIds') /\ Cardinality(TrackedIds') = active + 1
        <4>1. active \in Nat BY DEF Typed, TypedRegistry
        <4>2. IsFiniteSet(TrackedPads) /\ Cardinality(TrackedPads) = active BY DEF Counted
        <4>3. IsFiniteSet(TrackedIds) /\ Cardinality(TrackedIds) = active BY DEF Counted
        <4>4. /\ IsFiniteSet(TrackedPads \union {at[t]})
              /\ Cardinality(TrackedPads \union {at[t]}) = active + 1
          BY <2>4, <4>1, <4>2, OneMore
        <4>5. /\ IsFiniteSet(TrackedIds \union {nextId})
              /\ Cardinality(TrackedIds \union {nextId}) = active + 1
          BY <3>2, <4>1, <4>3, OneMore
        <4> QED BY <3>1, <4>4, <4>5
      <3>4. \A q \in TrackedPads : pads'[q].id # nextId BY <3>1, <3>2, TrackedIdsAre
      <3>5. \A p, q \in TrackedPads' : pads'[p].id = pads'[q].id => p = q BY <3>1, <3>4 DEF Counted
      <3> QED BY <2>4, <3>3, <3>5 DEF Counted
    <2> QED BY <1>2, <2>2, <2>3, <2>4, RegisterIs
  <1>3. ASSUME NEW t \in Threads, PushOrphan(t) PROVE Counted'
    BY <1>3, SameEntries, CountedFrame DEF PushOrphan
  <1>4. ASSUME NEW t \in Threads, Increment(t) PROVE Counted'
    BY <1>4, SameEntries, CountedFrame DEF Increment
  <1>5. ASSUME NEW p \in Pads, RemovePad(p) PROVE Counted'
    <2>1. pads' = [pads EXCEPT ![p] = Absent] /\ TypedRegistry
      BY <1>5 DEF RemovePad, Unmapped, Typed
    <2>2. CASE p \notin TrackedPads
      <3>1. UNCHANGED active BY <1>5, <2>2 DEF RemovePad, TrackedPads, IsTracked
      <3> QED BY <2>1, <2>2, <3>1, EntryHasId, NoMoreTracked, CountedFrame
    <2>3. CASE p \in TrackedPads
      <3>1. active' = active - 1 BY <1>5, <2>3 DEF RemovePad, TrackedPads, IsTracked
      <3>2. /\ TrackedPads' = TrackedPads \ {p} /\ TrackedIds' = TrackedIds \ {pads[p].id}
            /\ \A q \in TrackedPads \ {p} : pads'[q] = pads[q]
        BY <2>1, <2>3, OneLessTracked
      <3>3. pads[p].id \in TrackedIds BY <2>3, TrackedIdsAre
      <3>4. /\ IsFiniteSet(TrackedPads') /\ Cardinality(TrackedPads') = active - 1
            /\ IsFiniteSet(TrackedIds') /\ Cardinality(TrackedIds') = active - 1
        <4>1. active \in Nat BY DEF Typed, TypedRegistry
        <4>2. IsFiniteSet(TrackedPads) /\ Cardinality(TrackedPads) = active BY DEF Counted
        <4>3. IsFiniteSet(TrackedIds) /\ Cardinality(TrackedIds) = active BY DEF Counted
        <4>4. IsFiniteSet(TrackedPads \ {p}) /\ Cardinality(TrackedPads \ {p}) = active - 1
          BY <2>3, <4>1, <4>2, OneLess
        <4>5. /\ IsFiniteSet(TrackedIds \ {pads[p].id})
              /\ Cardinality(TrackedIds \ {pads[p].id}) = active - 1
          BY <3>3, <4>1, <4>3, OneLess
        <4> QED BY <3>2, <4>4, <4>5
      <3>5. \A m, q \in TrackedPads' : pads'[m].id = pads'[q].id => m = q BY <3>2 DEF Counted
      <3> QED BY <3>1, <3>4, <3>5 DEF Counted
    <2> QED BY <2>2, <2>3
  <1>6. CASE Retire
    BY <1>6, SameEntries, CountedFrame DEF Retire
  <1>7. CASE Stop
    BY <1>7, SameEntries, CountedFrame DEF Stop
  <1>8. CASE WorkerBegin
    BY <1>8, SameEntries, CountedFrame DEF WorkerBegin
  <1>9. ASSUME NEW p \in Pads, WorkerCollect(p) PROVE Counted'
    BY <1>9, SameEntries, CountedFrame DEF WorkerCollect
  <1>10. CASE WorkerReceive
    BY <1>10, SameEntries, CountedFrame DEF WorkerReceive
  <1>11. CASE WorkerDrained
    BY <1>11, SameEntries, CountedFrame DEF WorkerDrained, Snapshot
  <1>12. ASSUME NEW i \in Ids, WorkerEmit(i) PROVE Counted'
    BY <1>12, SameEntries, CountedFrame DEF WorkerEmit
  <1>13. CASE WorkerRetain
    BY <1>13, SameEntries, CountedFrame DEF WorkerRetain, Kept
  <1>14. CASE UNCHANGED vars BY <1>14, SameEntries, CountedFrame DEF vars
  <1> QED
    BY <1>1, <1>2, <1>3, <1>4, <1>5, <1>6, <1>7, <1>8, <1>9, <1>10, <1>11, <1>12, <1>13,
    <1>14 DEF Next, ThreadStep, Worker

\* No series goes astray, and none is in two places.
LEMMA PlacesStep ==
  ASSUME SizeAssumption, StatsdAssumption, IInv, [Next]_vars
  PROVE  Places'
  <1> USE DEF IInv, registryVars, countVars, threadVars, retireVars, stopVars, snapVars,
    cursorVars
  <1>0. /\ Places /\ nextId \in Nat \ {0} /\ channel \in Seq(Ids) /\ leaving \in Ids \union {0}
        /\ received \subseteq Ids /\ dropped \subseteq Ids /\ TrackedIds \subseteq Ids
        /\ Ids \subseteq Nat \ {0} /\ Range(channel) \subseteq Ids
    <2>1. TrackedIds \subseteq Ids BY EntryHasId DEF IInv, Typed, TypedRegistry, TrackedIds
    <2>2. Range(channel) \subseteq Ids BY DEF IInv, Typed, TypedRetirement, Range
    <2>3. nextId \in Nat \ {0} BY EntryHasId DEF IInv, Typed, TypedRegistry
    <2> QED BY <2>1, <2>2, <2>3, EntryHasId DEF IInv, Typed, TypedRetirement, TypedSnapshot
  <1> USE <1>0
  <1>1. ASSUME NEW t \in Threads, NEW p \in Pads, Push(t, p) PROVE Places'
    BY <1>1, SameEntries, PlacesFrame DEF Push
  <1>2. ASSUME NEW t \in Threads, Register(t) PROVE Places'
    <2>1. at[t] \in Pads /\ nextId \in Ids /\ TypedRegistry BY <1>2, RegisterIs DEF Typed
    <2>2. CASE UNCHANGED <<pads, active, nextId>>
      BY <1>2, <2>2, SameEntries, PlacesFrame DEF Register, Places
    <2>3. CASE /\ at[t] \notin TrackedPads /\ UNCHANGED <<active, nextId>>
               /\ \E e \in EntryStates : e.kind # "tracked" /\ pads' = [pads EXCEPT ![at[t]] = e]
      BY <1>2, <2>1, <2>3, NoMoreTracked, PlacesFrame DEF Register, Places
    <2>4. CASE /\ at[t] \notin TrackedPads /\ active < MaxSeries
               /\ pads' = [pads EXCEPT ![at[t]] = Tracked(nextId)]
               /\ active' = active + 1 /\ nextId' = nextId + 1
      <3>1. TrackedIds' = TrackedIds \union {nextId} BY <2>1, <2>4, OneMoreTracked
      <3>2. leaving = 0 /\ UNCHANGED <<leaving, channel, received, dropped>>
        BY <1>2 DEF Register, Places
      <3>3. \A i \in Nat : i \in 1..nextId <=> i \in 1..(nextId - 1) \/ i = nextId OBVIOUS
      <3>4. nextId \notin 1..(nextId - 1) /\ nextId \in Nat OBVIOUS
      <3>5. nextId \notin Range(channel) \union received \union dropped BY <3>4 DEF Places
      <3>6. (nextId + 1) - 1 = nextId OBVIOUS
      <3> QED BY <2>4, <3>1, <3>2, <3>3, <3>4, <3>5, <3>6 DEF Places
    <2> QED BY <1>2, <2>2, <2>3, <2>4, RegisterIs
  <1>3. ASSUME NEW t \in Threads, PushOrphan(t) PROVE Places'
    BY <1>3, SameEntries, PlacesFrame DEF PushOrphan
  <1>4. ASSUME NEW t \in Threads, Increment(t) PROVE Places'
    <2>1. leaving # 0 => lock' = lock
      <3>1. t # "remover" BY DEF StatsdAssumption
      <3> QED BY <1>4, <3>1 DEF Increment, Places
    <2> QED BY <1>4, <2>1, SameEntries, PlacesFrame DEF Increment
  <1>5. ASSUME NEW p \in Pads, RemovePad(p) PROVE Places'
    <2>1. /\ pads' = [pads EXCEPT ![p] = Absent] /\ TypedRegistry /\ leaving = 0
          /\ UNCHANGED <<nextId, channel, received, dropped>>
      BY <1>5 DEF RemovePad, Unmapped, Typed, Places
    <2>2. CASE p \notin TrackedPads
      <3>1. UNCHANGED <<leaving, lock>> BY <1>5, <2>2 DEF RemovePad, TrackedPads, IsTracked
      <3>2. TrackedIds' = TrackedIds BY <2>1, <2>2, EntryHasId, NoMoreTracked
      <3> QED BY <2>1, <3>1, <3>2, PlacesFrame
    <2>3. CASE p \in TrackedPads
      <3>1. lock' = "remover" /\ leaving' = pads[p].id
        BY <1>5, <2>3 DEF RemovePad, TrackedPads, IsTracked
      <3>2. TrackedIds' = TrackedIds \ {pads[p].id} /\ pads[p].id \in TrackedIds
        BY <2>1, <2>3, OneLessTracked, TrackedIdsAre DEF IInv
      <3>3. leaving' # 0 /\ leaving' \in TrackedIds /\ TrackedIds' = TrackedIds \ {leaving'}
        BY <3>1, <3>2
      <3> HIDE <3>2
      <3> QED BY <2>1, <3>1, <3>3 DEF Places
    <2> QED BY <2>2, <2>3
  <1>6. CASE Retire
    <2>1. leaving \in Ids /\ leaving # 0 /\ leaving' = 0 /\ UNCHANGED <<nextId, pads, received>>
      BY <1>6 DEF Retire
    <2>2. TrackedIds' = TrackedIds BY <2>1, SameEntries
    <2>3. 0 \notin TrackedIds \union Range(channel) \union received \union dropped OBVIOUS
    <2>4. CASE channel' = Append(channel, leaving) /\ UNCHANGED dropped
      <3>1. /\ Len(channel') = Len(channel) + 1 /\ Len(channel) \in Nat
            /\ channel'[Len(channel) + 1] = leaving /\ \A k \in 1..Len(channel) : channel'[k] = channel[k]
            /\ Range(channel') = Range(channel) \union {leaving}
        BY <2>1, <2>4, RangeGrows
      <3>2. \A k \in 1..Len(channel) : channel[k] # leaving BY DEF Places, Range
      <3>3. \A m, n \in 1..Len(channel') : channel'[m] = channel'[n] => m = n
        <4>1. \A k \in 1..Len(channel') : k \in 1..Len(channel) \/ k = Len(channel) + 1 BY <3>1
        <4> QED BY <3>1, <3>2, <4>1 DEF Places
      <3>4. IsFiniteSet(Range(channel')) /\ Cardinality(Range(channel')) = Len(channel')
        <4>1. leaving \notin Range(channel) BY DEF Places
        <4>2. IsFiniteSet(Range(channel)) /\ Cardinality(Range(channel)) = Len(channel)
          BY DEF Places
        <4>3. /\ IsFiniteSet(Range(channel) \union {leaving})
              /\ Cardinality(Range(channel) \union {leaving}) = Len(channel) + 1
          <5> DEFINE R == Range(channel)
          <5>1. leaving \notin R /\ IsFiniteSet(R) /\ Cardinality(R) = Len(channel) BY <4>1, <4>2
          <5> HIDE DEF R
          <5>2. IsFiniteSet(R \union {leaving}) /\ Cardinality(R \union {leaving}) = Len(channel) + 1
            BY <3>1, <5>1, OneMore
          <5> QED BY <5>2 DEF R
        <4> QED BY <3>1, <4>3
      <3>5. leaving \notin received \union dropped \union TrackedIds BY DEF Places
      <3>6. \A i \in Nat : i \in 1..(nextId' - 1) <=>
              \/ i \in TrackedIds' \/ (i = leaving' /\ i # 0)
              \/ i \in Range(channel') \union received' \union dropped'
        BY <2>1, <2>2, <2>4, <3>1 DEF Places
      <3>7. /\ leaving' \notin TrackedIds' \union Range(channel') \union received' \union dropped'
            /\ TrackedIds' \intersect (Range(channel') \union received' \union dropped') = {}
            /\ Range(channel') \intersect (received' \union dropped') = {}
            /\ received' \intersect dropped' = {}
        BY <2>1, <2>2, <2>3, <2>4, <3>1, <3>5 DEF Places
      <3> QED BY <2>1, <3>3, <3>4, <3>6, <3>7 DEF Places
    <2>5. CASE dropped' = dropped \union {leaving} /\ UNCHANGED channel
      <3>1. leaving \notin received \union Range(channel) \union TrackedIds BY DEF Places
      <3> QED BY <2>1, <2>2, <2>3, <2>5, <3>1 DEF Places
    <2> QED BY <1>6, <2>4, <2>5 DEF Retire
  <1>7. CASE Stop
    BY <1>7, SameEntries, PlacesFrame DEF Stop
  <1>8. CASE WorkerBegin
    BY <1>8, SameEntries, PlacesFrame DEF WorkerBegin
  <1>9. ASSUME NEW p \in Pads, WorkerCollect(p) PROVE Places'
    BY <1>9, SameEntries, PlacesFrame DEF WorkerCollect
  <1>10. CASE WorkerReceive
    <2>1. /\ channel # <<>> /\ channel' = Tail(channel) /\ received' = received \union {Head(channel)}
          /\ UNCHANGED <<nextId, pads, leaving, dropped, lock>>
      BY <1>10 DEF WorkerReceive
    <2>2. TrackedIds' = TrackedIds BY <2>1, SameEntries
    <2>3. /\ Head(channel) \in Range(channel)
          /\ Len(channel') = Len(channel) - 1 /\ Len(channel) \in Nat \ {0}
          /\ Range(channel') = Range(channel) \ {Head(channel)}
          /\ \A m, n \in 1..Len(channel') : channel'[m] = channel'[n] => m = n
      BY <2>1, RangeShrinks DEF Places
    <2>4. IsFiniteSet(Range(channel')) /\ Cardinality(Range(channel')) = Len(channel')
      <3>1. IsFiniteSet(Range(channel)) /\ Cardinality(Range(channel)) = Len(channel) BY DEF Places
      <3>2. Len(channel) \in Nat BY <2>3
      <3> DEFINE R == Range(channel)  h == Head(channel)
      <3>3. h \in R /\ IsFiniteSet(R) /\ Cardinality(R) = Len(channel) BY <2>3, <3>1
      <3> HIDE DEF R, h
      <3>4. IsFiniteSet(R \ {h}) /\ Cardinality(R \ {h}) = Len(channel) - 1 BY <3>2, <3>3, OneLess
      <3>5. Range(channel') = R \ {h} BY <2>3 DEF R, h
      <3> QED BY <2>3, <3>4, <3>5
    <2>5. \A i \in Nat : i \in 1..(nextId' - 1) <=>
            \/ i \in TrackedIds' \/ (i = leaving' /\ i # 0)
            \/ i \in Range(channel') \union received' \union dropped'
      BY <2>1, <2>2, <2>3 DEF Places
    <2>6. /\ leaving' \notin TrackedIds' \union Range(channel') \union received' \union dropped'
          /\ TrackedIds' \intersect (Range(channel') \union received' \union dropped') = {}
          /\ Range(channel') \intersect (received' \union dropped') = {}
          /\ received' \intersect dropped' = {}
      <3>1. Head(channel) \notin dropped \union TrackedIds \union {leaving} BY <2>3 DEF Places
      <3>2. received' = received \union {Head(channel)} /\ dropped' = dropped /\ leaving' = leaving
            /\ Range(channel') = Range(channel) \ {Head(channel)}
        BY <2>1, <2>3
      <3>3. leaving' \notin TrackedIds' \union Range(channel') \union received' \union dropped'
        BY <2>2, <3>1, <3>2 DEF Places
      <3>4. TrackedIds' \intersect (Range(channel') \union received' \union dropped') = {}
        BY <2>2, <3>1, <3>2 DEF Places
      <3>5. /\ Range(channel') \intersect (received' \union dropped') = {}
            /\ received' \intersect dropped' = {}
        <4>1. Range(channel) \intersect (received \union dropped) = {} /\ received \intersect dropped = {}
          BY DEF Places
        <4>2. received' \intersect dropped' = {} BY <3>1, <3>2, <4>1
        <4>3. Range(channel') \intersect (received' \union dropped') = {} BY <3>2, <4>1
        <4> QED BY <4>2, <4>3
      <3> QED BY <3>3, <3>4, <3>5
    <2> QED BY <2>1, <2>3, <2>4, <2>5, <2>6 DEF Places
  <1>11. CASE WorkerDrained
    BY <1>11, SameEntries, PlacesFrame DEF WorkerDrained, Snapshot
  <1>12. ASSUME NEW i \in Ids, WorkerEmit(i) PROVE Places'
    BY <1>12, SameEntries, PlacesFrame DEF WorkerEmit
  <1>13. CASE WorkerRetain
    BY <1>13, SameEntries, PlacesFrame DEF WorkerRetain, Kept
  <1>14. CASE UNCHANGED vars BY <1>14, SameEntries, PlacesFrame DEF vars
  <1> QED
    BY <1>1, <1>2, <1>3, <1>4, <1>5, <1>6, <1>7, <1>8, <1>9, <1>10, <1>11, <1>12, <1>13,
    <1>14 DEF Next, ThreadStep, Worker

\* Only the export that receives a retirement still speaks of the series.
LEMMA SnapshotsStep ==
  ASSUME SizeAssumption, StatsdAssumption, IInv, [Next]_vars
  PROVE  Snapshots'
  <1> USE DEF IInv, Snapshots, RetiredCursorsGone, registryVars, countVars, threadVars,
    retireVars, stopVars, snapVars, cursorVars
  <1>1. ASSUME NEW t \in Threads, NEW p \in Pads, Push(t, p) PROVE Snapshots'
    BY <1>1 DEF Push
  <1>2. ASSUME NEW t \in Threads, Register(t) PROVE Snapshots'
    BY <1>2 DEF Register
  <1>3. ASSUME NEW t \in Threads, PushOrphan(t) PROVE Snapshots'
    BY <1>3 DEF PushOrphan
  <1>4. ASSUME NEW t \in Threads, Increment(t) PROVE Snapshots'
    BY <1>4 DEF Increment
  <1>5. ASSUME NEW p \in Pads, RemovePad(p) PROVE Snapshots'
    BY <1>5 DEF RemovePad, Unmapped
  <1>6. CASE Retire BY <1>6 DEF Retire
  <1>7. CASE Stop BY <1>7 DEF Stop
  <1>8. CASE WorkerBegin BY <1>8 DEF WorkerBegin
  <1>9. ASSUME NEW p \in Pads, WorkerCollect(p) PROVE Snapshots'
    <2>1. activeIds' \subseteq activeIds \union TrackedIds
      <3>1. pads[p].kind = "tracked" => pads[p].id \in TrackedIds
        BY TrackedIdsAre DEF TrackedPads, IsTracked
      <3> QED BY <1>9, <3>1 DEF WorkerCollect
    <2>2. TrackedIds \intersect received = {} BY DEF Places
    <2>3. wpc' = "collect" /\ UNCHANGED <<received, retiredIds>> BY <1>9 DEF WorkerCollect
    <2> QED BY <2>1, <2>2, <2>3
  <1>10. CASE WorkerReceive BY <1>10 DEF WorkerReceive
  <1>11. CASE WorkerDrained BY <1>11 DEF WorkerDrained, Snapshot
  <1>12. ASSUME NEW i \in Ids, WorkerEmit(i) PROVE Snapshots'
    BY <1>12 DEF WorkerEmit
  <1>13. CASE WorkerRetain BY <1>13 DEF WorkerRetain, Kept
  <1>14. CASE UNCHANGED vars BY <1>14 DEF vars
  <1> QED
    BY <1>1, <1>2, <1>3, <1>4, <1>5, <1>6, <1>7, <1>8, <1>9, <1>10, <1>11, <1>12, <1>13,
    <1>14 DEF Next, ThreadStep, Worker

\* It all holds at first.
LEMMA InitIInv ==
  ASSUME SizeAssumption, StatsdAssumption, Init
  PROVE  IInv
  <1> USE DEF Init
  <1>0. /\ MaxPushes \in Nat /\ MaxSeries \in Nat \ {0}
        /\ CounterSize \in Nat \ {0} /\ MaxRemovals \in Nat
        /\ Absent \in EntryStates /\ AnyPad \in Pads /\ Absent.kind # "tracked" /\ Ids = 1..MaxPushes
    BY EntryHasId DEF SizeAssumption, StatsdAssumption, Ids
  <1>1. TypedRegistry BY <1>0 DEF TypedRegistry
  <1>2. TypedThreads BY <1>0 DEF TypedThreads
  <1>3. TypedRetirement
    <2>1. channel \in Seq(Ids) BY EmptySeq
    <2>2. leaving \in Ids \union {0} /\ dropped \subseteq Ids OBVIOUS
    <2>3. removals \in 0..MaxRemovals BY <1>0
    <2>4. stopping \in BOOLEAN OBVIOUS
    <2>5. owed \in [Ids -> Nat] OBVIOUS
    <2> QED BY <2>1, <2>2, <2>3, <2>4, <2>5 DEF TypedRetirement
  <1>4. TypedSnapshot BY DEF TypedSnapshot
  <1>5. TypedCursors BY <1>0 DEF TypedCursors
  <1>6. Registering = {} BY DEF Registering
  <1>7. TrackedPads = {} BY <1>0 DEF TrackedPads, IsTracked
  <1>8. TrackedIds = {} BY <1>7 DEF TrackedIds, TrackedPads, IsTracked
  <1>9. EnoughIds BY <1>6, FS_EmptySet DEF EnoughIds
  <1>10. Counted BY <1>7, <1>8, FS_EmptySet DEF Counted
  <1>11. Places
    <2>1. Len(channel) = 0 BY EmptySeq
    <2>2. Range(channel) = {} BY <2>1 DEF Range
    <2>3. 1..(nextId - 1) = {} /\ leaving = 0 /\ received = {} /\ dropped = {} OBVIOUS
    <2>4. 1..Len(channel) = {} BY <2>1
    <2>5. IsFiniteSet(Range(channel)) /\ Cardinality(Range(channel)) = Len(channel)
      BY <2>1, <2>2, FS_EmptySet
    <2>6. \A i \in Nat : i \in 1..(nextId - 1) <=>
            \/ i \in TrackedIds \/ (i = leaving /\ i # 0)
            \/ i \in Range(channel) \union received \union dropped
      BY <1>8, <2>2, <2>3
    <2> HIDE DEF Init
    <2> QED BY <1>8, <2>2, <2>3, <2>4, <2>5, <2>6 DEF Places
  <1>12. Snapshots BY DEF Snapshots, RetiredCursorsGone
  <1> QED BY <1>1, <1>2, <1>3, <1>4, <1>5, <1>9, <1>10, <1>11, <1>12 DEF IInv, Typed

\* The invariant holds in every step.
LEMMA NextIInv ==
  ASSUME SizeAssumption, StatsdAssumption, IInv, [Next]_vars
  PROVE  IInv'
  BY TypedRegistryStep, TypedThreadsStep, TypedRetirementStep, TypedSnapshotStep, TypedCursorsStep,
     EnoughIdsStep, CountedStep, PlacesStep, SnapshotsStep
  DEF IInv, Typed

\* And so in every reachable state.
LEMMA Invariant ==
  ASSUME SizeAssumption, StatsdAssumption
  PROVE  Spec => []IInv
  <1>1. Init => IInv BY InitIInv
  <1>2. IInv /\ [Next]_vars => IInv' BY NextIInv
  <1> QED BY <1>1, <1>2, PTL DEF Spec

\* It says what a reader of the code wants to know.
LEMMA IInvConsistent ==
  ASSUME SizeAssumption, StatsdAssumption, IInv
  PROVE  Consistent
  <1>1. TypeOK
    BY DEF IInv, Typed, TypedRegistry, TypedThreads, TypedRetirement, TypedSnapshot, TypedCursors, TypeOK
  <1>2. SeriesAccounted
    <2> DEFINE places == <<TrackedIds, {leaving} \ {0}, Range(channel), received, dropped>>
    <2>1. Places /\ Counted BY DEF IInv
    <2>2. /\ Cardinality(TrackedIds) = active
          /\ Cardinality({p \in Pads : pads[p].kind = "tracked"}) = active
      BY <2>1 DEF Counted, TrackedPads, IsTracked
    <2>3. Len(channel) = Cardinality(Range(channel)) BY <2>1 DEF Places
    <2>4. /\ Range(channel) \subseteq Nat /\ TrackedIds \subseteq Nat /\ leaving \in Nat
          /\ received \subseteq Nat /\ dropped \subseteq Nat
      <3>1. Ids \subseteq Nat BY EntryHasId
      <3>2. Range(channel) \subseteq Ids BY DEF IInv, Typed, TypedRetirement, Range
      <3>3. TrackedIds \subseteq Ids BY EntryHasId DEF IInv, Typed, TypedRegistry, TrackedIds
      <3>4. leaving \in Ids \union {0} /\ dropped \subseteq Ids BY DEF IInv, Typed, TypedRetirement
      <3>5. received \subseteq Ids BY DEF IInv, Typed, TypedSnapshot
      <3>6. leaving \in Nat BY <3>1, <3>4
      <3> QED BY <3>1, <3>2, <3>3, <3>4, <3>5, <3>6
    <2>5. UNION Range(places) = 1..(nextId - 1)
      <3>1. Range(places) = {TrackedIds, {leaving} \ {0}, Range(channel), received, dropped}
        <4>1. DOMAIN places = 1..5 OBVIOUS
        <4>2. Range(places) = {places[k] : k \in 1..5} BY <4>1 DEF Range
        <4>3. 1..5 = {1, 2, 3, 4, 5} OBVIOUS
        <4>4. /\ places[1] = TrackedIds /\ places[2] = {leaving} \ {0} /\ places[3] = Range(channel)
              /\ places[4] = received /\ places[5] = dropped
          OBVIOUS
        <4> HIDE DEF places
        <4> QED BY <4>2, <4>3, <4>4
      <3>2. UNION Range(places) =
              TrackedIds \union ({leaving} \ {0}) \union Range(channel) \union received \union dropped
        BY <3>1
      <3>3. 1..(nextId - 1) \subseteq Nat
        BY EntryHasId DEF IInv, Typed, TypedRegistry
      <3> HIDE DEF places
      <3> QED BY <2>1, <2>4, <3>2, <3>3 DEF Places
    <2>6. \A m, n \in 1..5 : m # n => places[m] \intersect places[n] = {}
      <3>1. /\ places[1] = TrackedIds /\ places[2] = {leaving} \ {0} /\ places[3] = Range(channel)
            /\ places[4] = received /\ places[5] = dropped
        OBVIOUS
      <3> HIDE DEF places
      <3>2. \A k \in 1..5 : k = 1 \/ k = 2 \/ k = 3 \/ k = 4 \/ k = 5 OBVIOUS
      <3>3. /\ places[1] \intersect places[2] = {} /\ places[1] \intersect places[3] = {}
            /\ places[1] \intersect places[4] = {} /\ places[1] \intersect places[5] = {}
        BY <2>1, <3>1 DEF Places
      <3>4. /\ places[2] \intersect places[3] = {} /\ places[2] \intersect places[4] = {}
            /\ places[2] \intersect places[5] = {}
        BY <2>1, <3>1 DEF Places
      <3>5. /\ places[3] \intersect places[4] = {} /\ places[3] \intersect places[5] = {}
            /\ places[4] \intersect places[5] = {}
        BY <2>1, <3>1 DEF Places
      <3> QED BY <3>2, <3>3, <3>4, <3>5
    <2> QED BY <2>2, <2>3, <2>5, <2>6 DEF SeriesAccounted
  <1> QED BY <1>1, <1>2 DEF IInv, Snapshots, Consistent

\* The cap on series is exact under any races of registration and removal, every
\* series is in one place until the worker received or lost its retirement, and the
\* worker's cursors do not outlive it.
THEOREM SeriesStayAccounted ==
  ASSUME SizeAssumption, StatsdAssumption
  PROVE  Spec => []Consistent
  <1>1. IInv => Consistent BY IInvConsistent
  <1> QED BY <1>1, Invariant, PTL

\* After the export that received the retirement of a series no line for it is
\* accepted, whatever was counted on a stale entry meanwhile.
THEOREM RetirementIsFinal ==
  ASSUME SizeAssumption, StatsdAssumption
  PROVE  Spec => FinalIsFinal
  <1> DEFINE Silent == \A i \in Ids : i \in received \ retiredIds =>
                         line'[i] = line[i] /\ emitted'[i] = emitted[i]
  <1>1. ASSUME IInv, [Next]_vars PROVE Silent
    <2>1. ASSUME NEW j \in Ids, WorkerEmit(j) PROVE Silent
      <3>1. j \in activeIds \union retiredIds BY <1>1, <2>1 DEF WorkerEmit, IInv, Snapshots
      <3>2. j \notin received \ retiredIds BY <1>1, <3>1 DEF IInv, Snapshots
      <3>3. \A i \in Ids \ {j} : line'[i] = line[i] /\ emitted'[i] = emitted[i]
        BY <1>1, <2>1 DEF WorkerEmit, IInv, Typed, TypedCursors
      <3> QED BY <3>2, <3>3
    <2>2. CASE UNCHANGED <<line, emitted>> BY <2>2
    <2>3. (\E j \in Ids : WorkerEmit(j)) \/ UNCHANGED <<line, emitted>>
      BY <1>1 DEF Next, ThreadStep, Worker, vars, cursorVars, Push, Register, PushOrphan, Increment,
        RemovePad, Retire, Stop, WorkerBegin, WorkerCollect, WorkerReceive, WorkerDrained, WorkerRetain
    <2> QED BY <2>1, <2>2, <2>3
  <1>2. IInv /\ [Next]_vars => [Silent]_vars BY <1>1
  <1> QED BY <1>2, Invariant, PTL DEF Spec, FinalIsFinal
-----------------------------------------------------------------------------
(***************************************************************************)
(* The lines add up. As long as nothing was removed, a cursor stands where *)
(* the sum of the accepted lines stands, modulo the size of a counter: an  *)
(* export only forgets the cursor of a series it did not see, and it sees  *)
(* every series that has one.                                              *)
(***************************************************************************)

\* The export that is going on saw the series, or will: the pad is still ahead.
Visible(i) == i \in activeIds \/ \E p \in TrackedPads : p \in unseen /\ pads[p].id = i

NothingRetired == leaving = 0 /\ channel = <<>> /\ received = {} /\ retiredIds = {}
CursorsSeen ==
  /\ known \subseteq TrackedIds /\ activeIds \subseteq TrackedIds
  /\ wpc = "collect" => \A i \in known : Visible(i)
  /\ wpc = "emit" => known \subseteq activeIds
Summed ==
  /\ \A i \in Ids : emitted[i] <= total[i] /\ value[i] = emitted[i] % CounterSize
  /\ \A i \in Ids \ known : emitted[i] = 0 /\ value[i] = 0
Undisturbed == NothingRetired /\ CursorsSeen /\ Summed

\* A series that was busy at its last accepted line has had a count.
ZeroAfterCount == \A i \in Ids : line[i] # "zeros" /\ (busy[i] => line[i] = "count")

SumsInv == IInv /\ ZeroAfterCount /\ (removals = 0 => Undisturbed)

\* What a division leaves: a remainder,
LEMMA Division ==
  ASSUME NEW c \in Nat \ {0}, NEW a \in Nat
  PROVE  a % c \in 0..(c - 1) /\ a = (c * (a \div c)) + (a % c) /\ a \div c \in Nat /\ a % c <= a
  OBVIOUS

\* and only one.
LEMMA OneRemainder ==
  ASSUME NEW c \in Nat \ {0}, NEW q \in Nat, NEW p \in Nat, NEW r \in 0..(c - 1), NEW s \in 0..(c - 1),
         (c * q) + r = (c * p) + s
  PROVE  r = s
  <1>1. \A a \in Nat : c * (a + 1) = (c * a) + c /\ c * a \in Nat OBVIOUS
  <1>2. \A a, b \in Nat : a < b => c * (a + 1) <= c * b
    <2> SUFFICES ASSUME NEW a \in Nat, NEW b \in Nat, a < b PROVE c * (a + 1) <= c * b OBVIOUS
    <2>1. PICK d \in Nat : b = a + 1 + d
      <3>1. b - a - 1 \in Nat OBVIOUS
      <3> QED BY <3>1
    <2>2. c * b = (c * (a + 1)) + (c * d) /\ c * d \in Nat BY <2>1
    <2> QED BY <2>2
  <1>3. ~(q < p) BY <1>1, <1>2
  <1>4. ~(p < q) BY <1>1, <1>2
  <1>5. q = p BY <1>3, <1>4
  <1> QED BY <1>5

\* Whole turns of a counter do not show.
LEMMA WholeTurns ==
  ASSUME NEW c \in Nat \ {0}, NEW a \in Nat, NEW k \in Nat
  PROVE  (a + (c * k)) % c = a % c
  <1> DEFINE b == a + (c * k)  q == a \div c  p == b \div c  r == a % c  s == b % c
  <1>1. c * k \in Nat OBVIOUS
  <1>2. a = (c * q) + r /\ q \in Nat /\ r \in 0..(c - 1) BY Division
  <1>3. b \in Nat BY <1>1
  <1>4. b = (c * p) + s /\ p \in Nat /\ s \in 0..(c - 1) BY <1>3, Division
  <1>5. b = a + (c * k) OBVIOUS
  <1> HIDE DEF b, q, p, r, s
  <1>6. c * (q + k) = (c * q) + (c * k) /\ q + k \in Nat BY <1>2
  <1>7. (c * p) + s = (c * (q + k)) + r BY <1>1, <1>2, <1>3, <1>4, <1>5, <1>6
  <1>8. s = r BY <1>2, <1>4, <1>6, <1>7, OneRemainder
  <1> QED BY <1>8 DEF b, r, s

\* A cursor that stands at e tells how much of t is missing, up to whole turns, so
\* never too much; and moved by n it stands at e + n.
LEMMA CursorDistance ==
  ASSUME NEW c \in Nat \ {0}, NEW e \in Nat, NEW t \in Nat, e <= t, NEW n \in Nat
  PROVE  /\ (t + c - (e % c)) % c = (t - e) % c
         /\ (t + c - (e % c)) % c <= t - e
         /\ ((e % c) + n) % c = (e + n) % c
  <1> DEFINE q == e \div c  v == e % c  d == t - e
  <1>1. e = (c * q) + v /\ q \in Nat /\ v \in 0..(c - 1) BY Division
  <1>2. d \in Nat /\ t = e + d OBVIOUS
  <1>3. c * q \in Nat /\ c * (q + 1) = (c * q) + c /\ q + 1 \in Nat BY <1>1
  <1> HIDE DEF q, v, d
  <1>4. t + c - v = d + (c * (q + 1)) BY <1>1, <1>2, <1>3
  <1>5. (t + c - v) % c = d % c
    <2>1. \A k \in Nat : (d + (c * k)) % c = d % c BY <1>2, WholeTurns
    <2>2. (d + (c * (q + 1))) % c = d % c BY <1>3, <2>1
    <2> QED BY <1>4, <2>2
  <1>6. d % c <= d BY <1>2, Division
  <1>7. e + n = (v + n) + (c * q) /\ v + n \in Nat BY <1>1, <1>3
  <1>8. (e + n) % c = (v + n) % c
    <2>1. \A k \in Nat : ((v + n) + (c * k)) % c = (v + n) % c BY <1>7, WholeTurns
    <2>2. ((v + n) + (c * q)) % c = (v + n) % c BY <1>1, <2>1
    <2> QED BY <1>7, <2>2
  <1> QED BY <1>5, <1>6, <1>8 DEF v, d

\* As long as the counter has not gone round, the distance is the difference.
LEMMA PendingExact ==
  ASSUME NEW c \in Nat \ {0}, NEW t \in Nat, t < c, NEW v \in Nat, v <= t
  PROVE  (t + c - v) % c = t - v
  <1> DEFINE d == t - v
  <1>1. d \in Nat /\ d < c /\ t + c - v = d + c OBVIOUS
  <1> HIDE DEF d
  <1>2. (d + (c * 1)) % c = d % c BY <1>1, WholeTurns
  <1>3. c * 1 = c /\ d % c = d BY <1>1
  <1>4. (t + c - v) % c = d BY <1>1, <1>2, <1>3
  <1> QED BY <1>4 DEF d

\* A registration leaves every tracked entry as it is.
LEMMA RegisterKeeps ==
  ASSUME SizeAssumption, StatsdAssumption, IInv, NEW t \in Threads, Register(t)
  PROVE  /\ TrackedIds \subseteq TrackedIds'
         /\ \A q \in TrackedPads : q \in TrackedPads' /\ pads'[q] = pads[q]
  <1>0. TypedRegistry BY DEF IInv, Typed
  <1>1. at[t] \in Pads /\ nextId \in Ids BY RegisterIs
  <1>2. CASE UNCHANGED pads BY <1>2, SameEntries
  <1>3. CASE /\ at[t] \notin TrackedPads
             /\ \E e \in EntryStates : e.kind # "tracked" /\ pads' = [pads EXCEPT ![at[t]] = e]
    <2>1. PICK e \in EntryStates : e.kind # "tracked" /\ pads' = [pads EXCEPT ![at[t]] = e] BY <1>3
    <2> QED BY <1>0, <1>1, <1>3, <2>1, NoMoreTracked
  <1>4. CASE at[t] \notin TrackedPads /\ pads' = [pads EXCEPT ![at[t]] = Tracked(nextId)]
    <2> DEFINE p == at[t]  n == nextId
    <2>1. p \in Pads /\ n \in Ids /\ p \notin TrackedPads /\ pads' = [pads EXCEPT ![p] = Tracked(n)]
      BY <1>1, <1>4
    <2> HIDE DEF p, n
    <2>2. /\ TrackedPads' = TrackedPads \union {p} /\ TrackedIds' = TrackedIds \union {n}
          /\ \A q \in TrackedPads : pads'[q] = pads[q]
      BY <1>0, <2>1, OneMoreTracked
    <2> QED BY <2>2
  <1> QED BY <1>2, <1>3, <1>4, RegisterIs

\* The iteration over the map: at its beginning every series is ahead of it,
LEMMA AllVisible ==
  ASSUME NEW i \in TrackedIds, unseen' = Pads, pads' = pads
  PROVE  Visible(i)'
  <1>1. PICK p \in TrackedPads : pads[p].id = i BY TrackedIdsAre
  <1>2. TrackedPads' = TrackedPads BY SameEntries
  <1>3. p \in Pads BY DEF TrackedPads
  <1> QED BY <1>1, <1>2, <1>3 DEF Visible

\* it stays there while its entry does,
LEMMA VisibleKept ==
  ASSUME NEW i, Visible(i), UNCHANGED <<unseen, activeIds>>,
         \A q \in TrackedPads : pads[q].id = i => q \in TrackedPads' /\ pads'[q] = pads[q]
  PROVE  Visible(i)'
  BY DEF Visible

\* a visit takes its series into the snapshot,
LEMMA VisitShows ==
  ASSUME NEW i, Visible(i), NEW p \in Pads, WorkerCollect(p)
  PROVE  Visible(i)'
  <1>1. pads' = pads /\ unseen' = unseen \ {p} BY DEF WorkerCollect, registryVars
  <1>2. TrackedPads' = TrackedPads BY <1>1, SameEntries
  <1>3. activeIds \subseteq activeIds' BY DEF WorkerCollect
  <1>4. p \in TrackedPads => pads[p].id \in activeIds'
    BY DEF WorkerCollect, TrackedPads, IsTracked
  <1> QED BY <1>1, <1>2, <1>3, <1>4 DEF Visible

\* and when all is visited the snapshot has it.
LEMMA AllSeen ==
  ASSUME NEW i, Visible(i), unseen = {}
  PROVE  i \in activeIds
  BY DEF Visible

\* A step that retires nothing, counts no push away and emits nothing.
LEMMA UndisturbedFrame ==
  ASSUME SizeAssumption, StatsdAssumption, IInv, Undisturbed,
         UNCHANGED <<leaving, channel, received, retiredIds, known, wpc, unseen, activeIds,
                     value, emitted>>,
         TrackedIds \subseteq TrackedIds',
         \A q \in TrackedPads : q \in TrackedPads' /\ pads'[q] = pads[q],
         \A i \in Ids : total'[i] \in Nat /\ total'[i] >= total[i]
  PROVE  Undisturbed'
  <1>1. NothingRetired' BY DEF Undisturbed, NothingRetired
  <1>2. CursorsSeen'
    <2>1. \A i : Visible(i) => Visible(i)' BY VisibleKept
    <2> QED BY <2>1 DEF Undisturbed, CursorsSeen
  <1>3. \A i \in Ids : total[i] \in Nat /\ emitted[i] \in Nat
    BY DEF IInv, Typed, TypedThreads, TypedCursors
  <1>4. Summed' BY <1>3 DEF Undisturbed, Summed
  <1> QED BY <1>1, <1>2, <1>4 DEF Undisturbed

\* What an export of one series does to the sums.
LEMMA EmitSums ==
  ASSUME SizeAssumption, StatsdAssumption, IInv, Summed, NEW i \in Ids, WorkerEmit(i)
  PROVE  Summed'
  <1>1. /\ total \in [Ids -> Nat] /\ emitted \in [Ids -> Nat] /\ value \in [Ids -> 0..(CounterSize - 1)]
        /\ CounterSize \in Nat \ {0} /\ MaxEmit \in Nat
    BY DEF IInv, Typed, TypedThreads, TypedCursors, SizeAssumption
  <1>2. total' = total /\ known' = known \union {i}
    BY DEF WorkerEmit, countVars
  <1>3. CASE UNCHANGED <<value, emitted>> BY <1>2, <1>3 DEF Summed
  <1>4. CASE /\ value' = [value EXCEPT ![i] = Advance(i)]
             /\ emitted' = [emitted EXCEPT ![i] = @ + Amount(i)]
    <2>1. emitted[i] <= total[i] /\ value[i] = emitted[i] % CounterSize BY DEF Summed
    <2>2. Amount(i) \in Nat /\ Advance(i) \in 0..(CounterSize - 1) BY EmissionTyped DEF IInv
    <2>3. Pending(i) <= total[i] - emitted[i]
      <3>1. (total[i] + CounterSize - (emitted[i] % CounterSize)) % CounterSize <= total[i] - emitted[i]
        BY <1>1, <2>1, CursorDistance
      <3> QED BY <2>1, <3>1 DEF Pending
    <2>4. Amount(i) <= Pending(i) /\ Pending(i) \in Int
      <3>1. Pending(i) \in Int
        <4>1. total[i] + CounterSize - value[i] \in Nat BY <1>1
        <4> QED BY <1>1, <4>1 DEF Pending
      <3> QED BY <1>1, <3>1 DEF Amount
    <2>5. emitted[i] + Amount(i) <= total[i]
      <3>1. emitted[i] \in Nat /\ total[i] \in Nat BY <1>1
      <3> QED BY <2>2, <2>3, <2>4, <3>1
    <2>6. Advance(i) = (emitted[i] + Amount(i)) % CounterSize
      <3>1. ((emitted[i] % CounterSize) + Amount(i)) % CounterSize =
             (emitted[i] + Amount(i)) % CounterSize
        BY <1>1, <2>1, <2>2, CursorDistance
      <3> QED BY <2>1, <3>1 DEF Advance
    <2>7. emitted'[i] = emitted[i] + Amount(i) /\ value'[i] = Advance(i) BY <1>1, <1>4
    <2>8. \A j \in Ids \ {i} : emitted'[j] = emitted[j] /\ value'[j] = value[j] BY <1>1, <1>4
    <2> QED BY <1>2, <2>5, <2>6, <2>7, <2>8 DEF Summed
  <1> QED BY <1>3, <1>4 DEF WorkerEmit

\* Zero lines follow counts, whatever was removed, wrapped, capped or rejected.
LEMMA ZeroAfterCountStep ==
  ASSUME IInv, ZeroAfterCount, [Next]_vars
  PROVE  ZeroAfterCount'
  <1>0. line \in [Ids -> {"none", "count", "zero", "zeros"}] /\ busy \in [Ids -> BOOLEAN]
    BY DEF IInv, Typed, TypedCursors
  <1>1. ASSUME NEW i \in Ids, WorkerEmit(i) PROVE ZeroAfterCount'
    <2>1. CASE UNCHANGED <<line, busy>> BY <2>1 DEF ZeroAfterCount
    <2>2. CASE /\ Pending(i) # 0 \/ busy[i]
               /\ busy' = [busy EXCEPT ![i] = Busy(i)]
               /\ line' = [line EXCEPT ![i] = IF Pending(i) # 0 THEN "count"
                                              ELSE IF @ = "count" THEN "zero" ELSE "zeros"]
      <3>1. busy'[i] = (Pending(i) # 0) BY <1>0, <2>2 DEF Busy
      <3>2. \A j \in Ids \ {i} : line'[j] = line[j] /\ busy'[j] = busy[j] BY <1>0, <2>2
      <3>3. Pending(i) # 0 => line'[i] = "count" BY <1>0, <2>2
      <3>4. Pending(i) = 0 => line[i] = "count" BY <2>2 DEF ZeroAfterCount
      <3>5. Pending(i) = 0 => line'[i] = "zero" BY <1>0, <2>2, <3>4
      <3> QED BY <3>1, <3>2, <3>3, <3>5 DEF ZeroAfterCount
    <2> QED BY <1>1, <2>1, <2>2 DEF WorkerEmit
  <1>2. CASE WorkerRetain
    <2>1. line' = line /\ \A i \in Ids : busy'[i] => busy[i] BY <1>2 DEF WorkerRetain
    <2> QED BY <2>1 DEF ZeroAfterCount
  <1>3. CASE UNCHANGED <<line, busy>> BY <1>3 DEF ZeroAfterCount
  <1>4. (\E i \in Ids : WorkerEmit(i)) \/ WorkerRetain \/ UNCHANGED <<line, busy>>
    BY DEF Next, ThreadStep, Worker, vars, cursorVars, Push, Register, PushOrphan, Increment,
      RemovePad, Retire, Stop, WorkerBegin, WorkerCollect, WorkerReceive, WorkerDrained
  <1> QED BY <1>1, <1>2, <1>3, <1>4

\* Until something is removed the cursors stand where the sums stand.
LEMMA UndisturbedStep ==
  ASSUME SizeAssumption, StatsdAssumption, IInv, removals = 0 => Undisturbed, [Next]_vars,
         removals' = 0
  PROVE  Undisturbed'
  <1> USE DEF registryVars, countVars, threadVars, retireVars, stopVars, snapVars, cursorVars
  <1>a. removals \in Nat /\ (\A p \in Pads : ~RemovePad(p)) /\ removals = 0
    <2>1. removals \in Nat BY DEF IInv, Typed, TypedRetirement, StatsdAssumption
    <2>2. \A p \in Pads : RemovePad(p) => removals' = removals + 1 BY DEF RemovePad
    <2>3. (\E p \in Pads : RemovePad(p)) \/ removals' = removals
      BY DEF Next, ThreadStep, Worker, vars, Push, Register, PushOrphan, Increment,
        Retire, Stop, WorkerBegin, WorkerCollect, WorkerReceive, WorkerDrained, WorkerEmit, WorkerRetain
    <2> QED BY <2>1, <2>2, <2>3
  <1>b. Undisturbed BY <1>a
  <1>c. \A i \in Ids : total[i] \in Nat BY DEF IInv, Typed, TypedThreads
  <1>d. ASSUME pads' = pads PROVE TrackedIds \subseteq TrackedIds'
                               /\ \A q \in TrackedPads : q \in TrackedPads' /\ pads'[q] = pads[q]
    BY <1>d, SameEntries
  <1>1. ASSUME NEW t \in Threads, NEW p \in Pads, Push(t, p) PROVE Undisturbed'
    <2>1. UNCHANGED <<pads, total, leaving, channel, received, retiredIds, known, wpc, unseen, activeIds,
                     value, emitted>> BY <1>1 DEF Push
    <2> QED BY <1>b, <1>c, <1>d, <2>1, UndisturbedFrame
  <1>2. ASSUME NEW t \in Threads, Register(t) PROVE Undisturbed'
    <2>1. UNCHANGED <<total, leaving, channel, received, retiredIds, known, wpc, unseen, activeIds,
                     value, emitted>> BY <1>2 DEF Register
    <2>2. /\ TrackedIds \subseteq TrackedIds'
          /\ \A q \in TrackedPads : q \in TrackedPads' /\ pads'[q] = pads[q]
      BY <1>2, RegisterKeeps
    <2> QED BY <1>b, <1>c, <2>1, <2>2, UndisturbedFrame
  <1>3. ASSUME NEW t \in Threads, PushOrphan(t) PROVE Undisturbed'
    <2>1. UNCHANGED <<pads, total, leaving, channel, received, retiredIds, known, wpc, unseen, activeIds,
                     value, emitted>> BY <1>3 DEF PushOrphan
    <2> QED BY <1>b, <1>c, <1>d, <2>1, UndisturbedFrame
  <1>4. ASSUME NEW t \in Threads, Increment(t) PROVE Undisturbed'
    <2>1. UNCHANGED <<pads, leaving, channel, received, retiredIds, known, wpc, unseen, activeIds,
                     value, emitted>> BY <1>4 DEF Increment
    <2>2. \A i \in Ids : total'[i] \in Nat /\ total'[i] >= total[i]
      <3>1. total' = total \/ total' = [total EXCEPT ![entry[t].id] = @ + 1] BY <1>4 DEF Increment
      <3>2. total \in [Ids -> Nat] BY DEF IInv, Typed, TypedThreads
      <3>3. \A i \in Ids : total'[i] = total[i] \/ total'[i] = total[i] + 1 BY <3>1, <3>2
      <3> QED BY <1>c, <3>3
    <2> QED BY <1>b, <1>d, <2>1, <2>2, UndisturbedFrame
  <1>6. ~Retire /\ ~WorkerReceive
    BY <1>b DEF Undisturbed, NothingRetired, Retire, WorkerReceive
  <1>7. CASE Stop
    <2>1. UNCHANGED <<pads, total, leaving, channel, received, retiredIds, known, wpc, unseen, activeIds,
                     value, emitted>> BY <1>7 DEF Stop
    <2> QED BY <1>b, <1>c, <1>d, <2>1, UndisturbedFrame
  <1>8. CASE WorkerBegin
    <2>1. /\ UNCHANGED <<pads, total, leaving, channel, received, retiredIds, known, value, emitted>>
          /\ wpc' = "collect" /\ unseen' = Pads /\ activeIds' = activeIds
      BY <1>8 DEF WorkerBegin
    <2>2. TrackedIds' = TrackedIds BY <2>1, SameEntries
    <2>3. CursorsSeen'
      <3>1. \A i \in known : Visible(i)' BY <1>b, <2>1, AllVisible DEF Undisturbed, CursorsSeen
      <3> QED BY <1>b, <2>1, <2>2, <3>1 DEF Undisturbed, CursorsSeen
    <2> QED BY <1>b, <2>1, <2>3 DEF Undisturbed, NothingRetired, Summed
  <1>9. ASSUME NEW p \in Pads, WorkerCollect(p) PROVE Undisturbed'
    <2>1. /\ UNCHANGED <<pads, total, leaving, channel, received, retiredIds, known, value, emitted>>
          /\ wpc = "collect" /\ wpc' = wpc
      BY <1>9 DEF WorkerCollect
    <2>2. TrackedIds' = TrackedIds BY <2>1, SameEntries
    <2>3. CursorsSeen'
      <3>1. \A i \in known : Visible(i)' BY <1>b, <1>9, <2>1, VisitShows DEF Undisturbed, CursorsSeen
      <3>2. pads[p].kind = "tracked" => pads[p].id \in TrackedIds
        BY TrackedIdsAre DEF TrackedPads, IsTracked
      <3>3. activeIds' \subseteq activeIds \union TrackedIds BY <1>9, <3>2 DEF WorkerCollect
      <3> QED BY <1>b, <2>1, <2>2, <3>1, <3>3 DEF Undisturbed, CursorsSeen
    <2> QED BY <1>b, <2>1, <2>3 DEF Undisturbed, NothingRetired, Summed
  <1>11. CASE WorkerDrained
    <2>1. /\ UNCHANGED <<pads, total, leaving, channel, received, retiredIds, known, value, emitted>>
          /\ UNCHANGED activeIds
          /\ wpc = "collect" /\ wpc' = "emit" /\ unseen = {}
      BY <1>11 DEF WorkerDrained
    <2>2. TrackedIds' = TrackedIds BY <2>1, SameEntries
    <2>3. CursorsSeen'
      <3>1. known \subseteq activeIds BY <1>b, <2>1, AllSeen DEF Undisturbed, CursorsSeen
      <3> QED BY <1>b, <2>1, <2>2, <3>1 DEF Undisturbed, CursorsSeen
    <2> QED BY <1>b, <2>1, <2>3 DEF Undisturbed, NothingRetired, Summed
  <1>12. ASSUME NEW i \in Ids, WorkerEmit(i) PROVE Undisturbed'
    <2>1. /\ UNCHANGED <<pads, leaving, channel, received, retiredIds, activeIds>>
          /\ wpc = "emit" /\ wpc' = wpc /\ known' = known \union {i} /\ i \in todo
      BY <1>12 DEF WorkerEmit
    <2>2. TrackedIds' = TrackedIds BY <2>1, SameEntries
    <2>3. i \in activeIds
      BY <1>b, <2>1 DEF IInv, Snapshots, Undisturbed, NothingRetired
    <2>4. activeIds \subseteq TrackedIds
      BY <1>b DEF Undisturbed, CursorsSeen
    <2>5. Summed' BY <1>b, <1>12, EmitSums DEF Undisturbed
    <2> QED BY <1>b, <2>1, <2>2, <2>3, <2>4, <2>5 DEF Undisturbed, NothingRetired, CursorsSeen
  <1>13. CASE WorkerRetain
    <2>1. /\ UNCHANGED <<pads, total, leaving, channel, received, emitted>>
          /\ wpc = "emit" /\ wpc' \in {"wait", "exited"} /\ retiredIds' = {} /\ activeIds' = {}
          /\ known' = Kept
          /\ value' = [j \in Ids |-> IF j \in Kept THEN value[j] ELSE 0]
      BY <1>13 DEF WorkerRetain
    <2>2. TrackedIds' = TrackedIds BY <2>1, SameEntries
    <2>3. Kept = known BY <1>b, <2>1 DEF Kept, Undisturbed, NothingRetired, CursorsSeen
    <2>4. \A j \in Ids : value'[j] = value[j] BY <1>b, <2>1, <2>3 DEF Undisturbed, Summed
    <2> QED BY <1>b, <2>1, <2>2, <2>3, <2>4 DEF Undisturbed, NothingRetired, CursorsSeen, Summed
  <1>14. CASE UNCHANGED vars
    <2>1. UNCHANGED <<pads, total, leaving, channel, received, retiredIds, known, wpc, unseen, activeIds,
                     value, emitted>> BY <1>14 DEF vars
    <2> QED BY <1>b, <1>c, <1>d, <2>1, UndisturbedFrame
  <1> QED
    BY <1>a, <1>1, <1>2, <1>3, <1>4, <1>6, <1>7, <1>8, <1>9, <1>11, <1>12, <1>13,
    <1>14 DEF Next, ThreadStep, Worker

\* The lines of a series add up to what was counted, or stay behind it by what the
\* next line carries; and an idle series has one zero line.
THEOREM LinesAlwaysAddUp ==
  ASSUME SizeAssumption, StatsdAssumption
  PROVE  Spec => []LinesAddUp
  <1>1. Init => SumsInv
    <2> SUFFICES ASSUME Init PROVE SumsInv OBVIOUS
    <2>1. CounterSize \in Nat \ {0} BY DEF SizeAssumption
    <2>2. IInv BY InitIInv
    <2>3. ZeroAfterCount BY DEF Init, ZeroAfterCount
    <2>4. NothingRetired /\ CursorsSeen BY DEF Init, NothingRetired, CursorsSeen
    <2>5. Summed BY <2>1 DEF Init, Summed
    <2> QED BY <2>2, <2>3, <2>4, <2>5 DEF SumsInv, Undisturbed
  <1>2. SumsInv /\ [Next]_vars => SumsInv'
    BY NextIInv, ZeroAfterCountStep, UndisturbedStep DEF SumsInv
  <1>3. SumsInv => LinesAddUp
    BY DEF SumsInv, ZeroAfterCount, Undisturbed, Summed, LinesAddUp, NeverOverCounted, OneIdleZero
  <1> QED BY <1>1, <1>2, <1>3, PTL DEF Spec
-----------------------------------------------------------------------------
(***************************************************************************)
(* The last export. When no line is rejected and none is too large for     *)
(* what can be counted, an export of a series brings the sum of its lines  *)
(* to its total; so until the worker has exited, a series with something   *)
(* owed is one the worker still has to export, or one whose retirement it  *)
(* still has to receive, or never will.                                    *)
(***************************************************************************)

\* A thread inside a hook has pushed, and not yet counted; no counter wraps.
Doing == {t \in Threads : pc[t] # "idle"}
CountsBounded ==
  IsFiniteSet(Doing) /\ \A i \in Ids : total[i] + Cardinality(Doing) <= pushes

\* A cursor never stands past its counter, nor past what was emitted: forgetting it
\* only takes it back.
CursorsBehind == \A i \in Ids : value[i] <= total[i] /\ value[i] <= emitted[i]
OwedCounted == \A i \in Ids : owed[i] <= total[i]

\* The export after the shutdown message is the last.
Phases ==
  /\ ~stopping => \A i \in Ids : owed[i] = 0
  /\ final => stopping
  /\ wpc = "wait" => ~final
  /\ wpc = "exited" => final

Sent(i)   == emitted[i] >= owed[i] \/ i = leaving \/ i \in dropped \union Range(channel)
InHand(i) == i \in retiredIds /\ (wpc = "collect" \/ (wpc = "emit" /\ i \in todo))
Mapped(i) ==
  /\ i \in TrackedIds /\ wpc # "exited"
  /\ final /\ wpc = "collect" => Visible(i)
  /\ final /\ wpc = "emit" => i \in todo
Coming == \A i \in Ids : Sent(i) \/ InHand(i) \/ Mapped(i)

\* No line is rejected, and one can carry whatever is counted.
Deliverable == ~EmissionsFail /\ MaxPushes <= MaxEmit /\ MaxPushes < CounterSize

DeliveryInv == IInv /\ CountsBounded /\ CursorsBehind /\ OwedCounted /\ Phases /\ Coming

\* A push is counted once, by the thread that made it.
LEMMA CountsBoundedStep ==
  ASSUME SizeAssumption, StatsdAssumption, IInv, CountsBounded, [Next]_vars
  PROVE  CountsBounded'
  <1> USE DEF registryVars, countVars, threadVars, retireVars, stopVars, snapVars, cursorVars
  <1>0. /\ IsFiniteSet(Doing) /\ Cardinality(Doing) \in Nat /\ pushes \in Nat
        /\ total \in [Ids -> Nat] /\ pc \in [Threads -> {"idle", "register", "increment"}]
        /\ \A i \in Ids : total[i] \in Nat /\ total[i] + Cardinality(Doing) <= pushes
    BY FS_CardinalityType DEF CountsBounded, IInv, Typed, TypedThreads
  <1>1. ASSUME NEW t \in Threads, NEW p \in Pads, Push(t, p) PROVE CountsBounded'
    <2>1. /\ pc[t] = "idle" /\ pushes' = pushes + 1 /\ total' = total
          /\ pc'[t] # "idle" /\ \A u \in Threads \ {t} : pc'[u] = pc[u]
      BY <1>0, <1>1 DEF Push
    <2>2. Doing' = Doing \union {t} /\ t \notin Doing BY <2>1 DEF Doing
    <2> DEFINE D == Doing  n == Cardinality(Doing)
    <2>3. IsFiniteSet(D) /\ t \notin D /\ n \in Nat /\ Cardinality(D) = n BY <1>0, <2>2
    <2> HIDE DEF D, n
    <2>4. IsFiniteSet(D \union {t}) /\ Cardinality(D \union {t}) = n + 1 BY <2>3, OneMore
    <2>5. IsFiniteSet(Doing') /\ Cardinality(Doing') = Cardinality(Doing) + 1 BY <2>2, <2>4 DEF D, n
    <2>6. \A i \in Ids : total'[i] + Cardinality(Doing') <= pushes' BY <1>0, <2>1, <2>5
    <2> QED BY <2>5, <2>6 DEF CountsBounded
  <1>2. ASSUME NEW t \in Threads, PushOrphan(t) \/ Increment(t) PROVE CountsBounded'
    <2>1. /\ pc[t] # "idle" /\ pushes' = pushes /\ pc'[t] = "idle"
          /\ \A u \in Threads \ {t} : pc'[u] = pc[u]
      BY <1>0, <1>2 DEF PushOrphan, Increment
    <2>2. Doing' = Doing \ {t} /\ t \in Doing BY <2>1 DEF Doing
    <2> DEFINE D == Doing  n == Cardinality(Doing)
    <2>3. IsFiniteSet(D) /\ t \in D /\ n \in Nat /\ Cardinality(D) = n BY <1>0, <2>2
    <2> HIDE DEF D, n
    <2>4. IsFiniteSet(D \ {t}) /\ Cardinality(D \ {t}) = n - 1 BY <2>3, OneLess
    <2>5. IsFiniteSet(Doing') /\ Cardinality(Doing') = Cardinality(Doing) - 1 BY <2>2, <2>4 DEF D, n
    <2>6. \A i \in Ids : total'[i] = total[i] \/ total'[i] = total[i] + 1
      <3>1. total' = total \/ total' = [total EXCEPT ![entry[t].id] = @ + 1]
        BY <1>2 DEF PushOrphan, Increment
      <3> QED BY <1>0, <3>1
    <2>7. \A i \in Ids : total'[i] + Cardinality(Doing') <= pushes' BY <1>0, <2>1, <2>5, <2>6
    <2> QED BY <2>5, <2>7 DEF CountsBounded
  <1>3. ASSUME NEW t \in Threads, Register(t) PROVE CountsBounded'
    <2>1. UNCHANGED <<total, pushes>> /\ pc[t] # "idle" /\ pc' = [pc EXCEPT ![t] = "increment"]
      BY <1>3 DEF Register
    <2>2. pc'[t] = "increment" /\ \A u \in Threads \ {t} : pc'[u] = pc[u] BY <1>0, <2>1
    <2>3. Doing' = Doing BY <2>1, <2>2 DEF Doing
    <2> QED BY <2>1, <2>3 DEF CountsBounded
  <1>4. CASE UNCHANGED <<pc, pushes, total>> BY <1>4 DEF CountsBounded, Doing
  <1>5. \/ \E t \in Threads : Register(t) \/ PushOrphan(t) \/ Increment(t) \/ \E p \in Pads : Push(t, p)
        \/ UNCHANGED <<pc, pushes, total>>
    BY DEF Next, ThreadStep, Worker, vars, RemovePad, Retire, Stop, WorkerBegin, WorkerCollect,
      WorkerReceive, WorkerDrained, WorkerEmit, WorkerRetain
  <1> QED BY <1>1, <1>2, <1>3, <1>4, <1>5

\* So an export of a series carries all that is missing, and catches up.
LEMMA EmitCatchesUp ==
  ASSUME SizeAssumption, StatsdAssumption, Deliverable, IInv, CountsBounded, CursorsBehind,
         NEW i \in Ids, WorkerEmit(i)
  PROVE  /\ value'[i] = total[i] /\ emitted'[i] \in Nat /\ emitted'[i] >= total[i]
         /\ \A j \in Ids \ {i} : value'[j] = value[j] /\ emitted'[j] = emitted[j]
  <1>1. /\ total \in [Ids -> Nat] /\ emitted \in [Ids -> Nat] /\ value \in [Ids -> 0..(CounterSize - 1)]
        /\ CounterSize \in Nat \ {0} /\ MaxEmit \in Nat /\ MaxPushes \in Nat
        /\ pushes \in Nat /\ pushes <= MaxPushes
    BY DEF IInv, Typed, TypedThreads, TypedCursors, SizeAssumption, StatsdAssumption
  <1>2. total[i] <= MaxPushes
    <2>1. Cardinality(Doing) \in Nat /\ total[i] + Cardinality(Doing) <= pushes
      BY FS_CardinalityType DEF CountsBounded
    <2>2. total[i] \in Nat BY <1>1
    <2> QED BY <1>1, <2>1, <2>2
  <1> DEFINE c == CounterSize  t == total[i]  v == value[i]  e == emitted[i]
  <1>3. /\ c \in Nat \ {0} /\ t \in Nat /\ v \in Nat /\ e \in Nat
        /\ t < c /\ t <= MaxEmit /\ v <= t /\ v <= e
    BY <1>1, <1>2 DEF CursorsBehind, Deliverable
  <1>4. Pending(i) = (t + c - v) % c /\ Advance(i) = (v + Amount(i)) % c
    BY DEF Pending, Advance
  <1>5. CASE /\ value' = [value EXCEPT ![i] = Advance(i)]
             /\ emitted' = [emitted EXCEPT ![i] = @ + Amount(i)]
    <2>1. value'[i] = Advance(i) /\ emitted'[i] = e + Amount(i) BY <1>1, <1>5
    <2>2. \A j \in Ids \ {i} : value'[j] = value[j] /\ emitted'[j] = emitted[j] BY <1>1, <1>5
    <2> HIDE DEF c, t, v, e
    <2>3. Pending(i) = t - v BY <1>3, <1>4, PendingExact
    <2>4. Amount(i) = t - v BY <1>1, <1>3, <2>3 DEF Amount
    <2>5. v + Amount(i) = t BY <1>3, <2>4
    <2>6. Advance(i) = t
      <3>1. t % c = t BY <1>3
      <3> QED BY <1>4, <2>5, <3>1
    <2>7. e + Amount(i) \in Nat /\ e + Amount(i) >= t BY <1>3, <2>4
    <2> QED BY <2>1, <2>2, <2>6, <2>7 DEF t
  <1>6. CASE Pending(i) = 0 /\ UNCHANGED <<value, emitted>>
    <2>1. value' = value /\ emitted' = emitted BY <1>6
    <2> HIDE DEF c, t, v, e
    <2>2. Pending(i) = t - v BY <1>3, <1>4, PendingExact
    <2>3. v = t /\ e >= t BY <1>3, <1>6, <2>2
    <2> QED BY <1>3, <2>1, <2>3 DEF t, v, e
  <1> QED BY <1>5, <1>6 DEF WorkerEmit, Deliverable

\* Cursors stay behind: only an export moves one forward,
LEMMA CursorsBehindStep ==
  ASSUME SizeAssumption, StatsdAssumption, Deliverable, IInv, CountsBounded, CursorsBehind,
         [Next]_vars
  PROVE  CursorsBehind'
  <1> USE DEF registryVars, countVars, threadVars, retireVars, stopVars, snapVars, cursorVars
  <1>0. \A i \in Ids : /\ total[i] \in Nat /\ emitted[i] \in Nat /\ value[i] \in Nat
                       /\ value[i] <= total[i] /\ value[i] <= emitted[i]
    BY DEF IInv, Typed, TypedThreads, TypedCursors, SizeAssumption, CursorsBehind
  <1>1. ASSUME NEW t \in Threads, Increment(t) PROVE CursorsBehind'
    <2>1. total' = total \/ total' = [total EXCEPT ![entry[t].id] = @ + 1] BY <1>1 DEF Increment
    <2>2. total \in [Ids -> Nat] BY DEF IInv, Typed, TypedThreads
    <2>3. \A i \in Ids : total'[i] = total[i] \/ total'[i] = total[i] + 1 BY <2>1, <2>2
    <2>4. UNCHANGED <<value, emitted>> BY <1>1 DEF Increment
    <2> QED BY <1>0, <2>3, <2>4 DEF CursorsBehind
  <1>2. ASSUME NEW i \in Ids, WorkerEmit(i) PROVE CursorsBehind'
    <2>1. /\ value'[i] = total[i] /\ emitted'[i] >= total[i]
          /\ \A j \in Ids \ {i} : value'[j] = value[j] /\ emitted'[j] = emitted[j]
      BY <1>2, EmitCatchesUp
    <2>2. total' = total BY <1>2 DEF WorkerEmit
    <2>3. value'[i] <= total'[i] /\ value'[i] <= emitted'[i]
      <3>1. emitted'[i] \in Nat BY <1>2, EmitCatchesUp
      <3> QED BY <1>0, <2>1, <2>2, <3>1
    <2> QED BY <1>0, <2>1, <2>2, <2>3 DEF CursorsBehind
  <1>3. CASE WorkerRetain
    <2>1. \A i \in Ids : value'[i] = value[i] \/ value'[i] = 0 BY <1>3 DEF WorkerRetain
    <2>2. UNCHANGED <<total, emitted>> BY <1>3 DEF WorkerRetain
    <2> QED BY <1>0, <2>1, <2>2 DEF CursorsBehind
  <1>4. CASE UNCHANGED <<total, value, emitted>> BY <1>4 DEF CursorsBehind
  <1>5. \/ (\E t \in Threads : Increment(t)) \/ (\E i \in Ids : WorkerEmit(i)) \/ WorkerRetain
        \/ UNCHANGED <<total, value, emitted>>
    BY DEF Next, ThreadStep, Worker, vars, Push, Register, PushOrphan, RemovePad, Retire, Stop,
      WorkerBegin, WorkerCollect, WorkerReceive, WorkerDrained
  <1> QED BY <1>1, <1>2, <1>3, <1>4, <1>5

\* what is owed was counted,
LEMMA OwedCountedStep ==
  ASSUME IInv, OwedCounted, [Next]_vars
  PROVE  OwedCounted'
  <1> USE DEF registryVars, countVars, threadVars, retireVars, stopVars, snapVars, cursorVars
  <1>0. /\ total \in [Ids -> Nat]
        /\ \A i \in Ids : total[i] \in Nat /\ owed[i] \in Nat /\ owed[i] <= total[i]
    BY DEF IInv, Typed, TypedThreads, TypedRetirement, OwedCounted
  <1>1. ASSUME NEW t \in Threads, Increment(t) PROVE OwedCounted'
    <2>1. total' = total \/ total' = [total EXCEPT ![entry[t].id] = @ + 1] BY <1>1 DEF Increment
    <2>2. \A i \in Ids : total'[i] = total[i] \/ total'[i] = total[i] + 1 BY <1>0, <2>1
    <2>3. UNCHANGED owed BY <1>1 DEF Increment
    <2> QED BY <1>0, <2>2, <2>3 DEF OwedCounted
  <1>2. CASE Stop
    <2>1. total' = total /\ \A i \in Ids : owed'[i] = total[i] \/ owed'[i] = 0 BY <1>2 DEF Stop
    <2> QED BY <1>0, <2>1 DEF OwedCounted
  <1>3. CASE UNCHANGED <<total, owed>> BY <1>3 DEF OwedCounted
  <1>4. (\E t \in Threads : Increment(t)) \/ Stop \/ UNCHANGED <<total, owed>>
    BY DEF Next, ThreadStep, Worker, vars, Push, Register, PushOrphan, RemovePad, Retire,
      WorkerBegin, WorkerCollect, WorkerReceive, WorkerDrained, WorkerEmit, WorkerRetain
  <1> QED BY <1>1, <1>2, <1>3, <1>4

\* and the worker leaves after the export that knows of the shutdown, not before.
LEMMA PhasesStep ==
  ASSUME IInv, Phases, [Next]_vars
  PROVE  Phases'
  <1> USE DEF registryVars, countVars, threadVars, retireVars, stopVars, snapVars, cursorVars
  <1>1. CASE Stop
    <2>1. stopping' = TRUE /\ UNCHANGED <<final, wpc>> BY <1>1 DEF Stop
    <2> QED BY <2>1 DEF Phases
  <1>2. CASE WorkerBegin
    <2>1. wpc' = "collect" /\ final' = stopping /\ UNCHANGED <<stopping, owed>> BY <1>2 DEF WorkerBegin
    <2> QED BY <2>1 DEF Phases
  <1>3. CASE WorkerDrained
    <2>1. wpc' = "emit" /\ UNCHANGED <<final, stopping, owed>> BY <1>3 DEF WorkerDrained
    <2> QED BY <2>1 DEF Phases
  <1>4. CASE WorkerRetain
    <2>1. wpc' = (IF final THEN "exited" ELSE "wait") /\ UNCHANGED <<final, stopping, owed>>
      BY <1>4 DEF WorkerRetain
    <2> QED BY <2>1 DEF Phases
  <1>5. CASE UNCHANGED <<wpc, final, stopping, owed>> BY <1>5 DEF Phases
  <1>6. Stop \/ WorkerBegin \/ WorkerDrained \/ WorkerRetain \/ UNCHANGED <<wpc, final, stopping, owed>>
    BY DEF Next, ThreadStep, Worker, vars, Push, Register, PushOrphan, Increment, RemovePad, Retire,
      WorkerCollect, WorkerReceive, WorkerEmit
  <1> QED BY <1>1, <1>2, <1>3, <1>4, <1>5, <1>6

\* Nothing owed is lost by a hook, which at most maps one pad more.
LEMMA ComingFrame ==
  ASSUME Coming, TrackedIds \subseteq TrackedIds',
         \A q \in TrackedPads : q \in TrackedPads' /\ pads'[q] = pads[q],
         UNCHANGED <<emitted, owed, leaving, channel, dropped, retiredIds, activeIds, unseen, todo,
                     wpc, final>>
  PROVE  Coming'
  <1>1. \A i : Visible(i) => Visible(i)' BY VisibleKept
  <1>2. \A i \in Ids : Mapped(i) => Mapped(i)' BY <1>1 DEF Mapped
  <1>3. \A i \in Ids : Sent(i) => Sent(i)' BY DEF Sent
  <1>4. \A i \in Ids : InHand(i) => InHand(i)' BY DEF InHand
  <1> QED BY <1>2, <1>3, <1>4 DEF Coming

\* What is owed stays on its way: from the map through the remover's hands and the
\* channel into the snapshot, and from the snapshot into a line.
LEMMA ComingStep ==
  ASSUME SizeAssumption, StatsdAssumption, Deliverable, DeliveryInv, [Next]_vars
  PROVE  Coming'
  <1> USE DEF registryVars, countVars, threadVars, retireVars, stopVars, snapVars, cursorVars
  <1>a. IInv /\ CountsBounded /\ CursorsBehind /\ OwedCounted /\ Phases /\ Coming BY DEF DeliveryInv
  <1>b. \A i \in Ids : /\ total[i] \in Nat /\ owed[i] \in Nat /\ emitted[i] \in Nat
                       /\ owed[i] <= total[i]
    BY <1>a DEF IInv, Typed, TypedThreads, TypedRetirement, TypedCursors, OwedCounted
  <1>c. ASSUME pads' = pads
        PROVE  TrackedIds' = TrackedIds /\ \A q \in TrackedPads : q \in TrackedPads' /\ pads'[q] = pads[q]
    BY <1>c, SameEntries
  <1>1. ASSUME NEW t \in Threads, NEW p \in Pads, Push(t, p) PROVE Coming'
    <2>1. UNCHANGED <<pads, emitted, owed, leaving, channel, dropped, retiredIds, activeIds, unseen, todo,
                     wpc, final>> BY <1>1 DEF Push
    <2> QED BY <1>a, <1>c, <2>1, ComingFrame
  <1>2. ASSUME NEW t \in Threads, Register(t) PROVE Coming'
    <2>1. UNCHANGED <<emitted, owed, leaving, channel, dropped, retiredIds, activeIds, unseen, todo,
                     wpc, final>> BY <1>2 DEF Register
    <2>2. /\ TrackedIds \subseteq TrackedIds'
          /\ \A q \in TrackedPads : q \in TrackedPads' /\ pads'[q] = pads[q]
      BY <1>a, <1>2, RegisterKeeps
    <2> QED BY <1>a, <2>1, <2>2, ComingFrame
  <1>3. ASSUME NEW t \in Threads, PushOrphan(t) PROVE Coming'
    <2>1. UNCHANGED <<pads, emitted, owed, leaving, channel, dropped, retiredIds, activeIds, unseen, todo,
                     wpc, final>> BY <1>3 DEF PushOrphan
    <2> QED BY <1>a, <1>c, <2>1, ComingFrame
  <1>4. ASSUME NEW t \in Threads, Increment(t) PROVE Coming'
    <2>1. UNCHANGED <<pads, emitted, owed, leaving, channel, dropped, retiredIds, activeIds, unseen, todo,
                     wpc, final>> BY <1>4 DEF Increment
    <2> QED BY <1>a, <1>c, <2>1, ComingFrame
  <1>5. ASSUME NEW p \in Pads, RemovePad(p) PROVE Coming'
    <2>0. TypedRegistry /\ Counted BY <1>a DEF IInv, Typed
    <2>1. /\ pads' = [pads EXCEPT ![p] = Absent] /\ lock = "free"
          /\ UNCHANGED <<emitted, owed, channel, dropped, retiredIds, activeIds, unseen, todo, wpc,
                         final>>
      BY <1>5 DEF RemovePad, Unmapped
    <2>2. leaving = 0 BY <1>a, <2>1 DEF IInv, Places
    <2>3. CASE p \in TrackedPads
      <3> DEFINE n == pads[p].id
      <3>1. leaving' = n BY <1>5, <2>3 DEF RemovePad, TrackedPads, IsTracked
      <3>2. /\ TrackedPads' = TrackedPads \ {p} /\ TrackedIds' = TrackedIds \ {n}
            /\ \A q \in TrackedPads \ {p} : pads'[q] = pads[q]
        BY <2>0, <2>1, <2>3, OneLessTracked
      <3> HIDE DEF n
      <3>3. ASSUME NEW i \in Ids, i # n PROVE Sent(i)' \/ InHand(i)' \/ Mapped(i)'
        <4>1. CASE Sent(i)
          <5>1. i # leaving BY <1>b, <2>2, EntryHasId
          <5> QED BY <2>1, <4>1, <5>1 DEF Sent
        <4>2. CASE InHand(i) BY <2>1, <4>2 DEF InHand
        <4>3. CASE Mapped(i)
          <5>1. \A q \in TrackedPads : pads[q].id = i => q # p BY <3>3 DEF n
          <5>2. Visible(i) => Visible(i)' BY <2>1, <3>2, <5>1, VisibleKept
          <5> QED BY <2>1, <3>2, <3>3, <4>3, <5>2 DEF Mapped
        <4> QED BY <1>a, <4>1, <4>2, <4>3 DEF Coming
      <3> QED BY <3>1, <3>3 DEF Coming, Sent
    <2>4. CASE p \notin TrackedPads
      <3>1. leaving' = leaving BY <1>5, <2>4 DEF RemovePad, TrackedPads, IsTracked
      <3>2. Absent \in EntryStates /\ Absent.kind # "tracked" BY EntryHasId
      <3>3. /\ TrackedPads' = TrackedPads /\ TrackedIds' = TrackedIds
            /\ \A q \in TrackedPads : pads'[q] = pads[q]
        BY <2>0, <2>1, <2>4, <3>2, NoMoreTracked
      <3> QED BY <1>a, <2>1, <3>1, <3>3, ComingFrame
    <2> QED BY <2>3, <2>4
  <1>6. CASE Retire
    <2>1. /\ UNCHANGED <<pads, emitted, owed, retiredIds, activeIds, unseen, todo, wpc, final>>
          /\ \/ channel' = Append(channel, leaving) /\ dropped' = dropped
             \/ dropped' = dropped \union {leaving} /\ channel' = channel
      BY <1>6 DEF Retire
    <2>2. leaving \in dropped' \union Range(channel')
          /\ dropped \union Range(channel) \subseteq dropped' \union Range(channel')
      <3>1. leaving \in Ids /\ channel \in Seq(Ids)
        BY <1>a, <1>6 DEF Retire, IInv, Typed, TypedRetirement
      <3>2. Range(Append(channel, leaving)) = Range(channel) \union {leaving} BY <3>1, RangeGrows
      <3> QED BY <2>1, <3>2
    <2>3. \A i \in Ids : Sent(i) => Sent(i)' BY <2>1, <2>2 DEF Sent
    <2>4. \A i \in Ids : InHand(i) => InHand(i)' BY <2>1 DEF InHand
    <2>5. \A i : Visible(i) => Visible(i)' BY <1>c, <2>1, VisibleKept
    <2>6. \A i \in Ids : Mapped(i) => Mapped(i)' BY <1>c, <2>1, <2>5 DEF Mapped
    <2> QED BY <1>a, <2>3, <2>4, <2>6 DEF Coming
  <1>7. CASE Stop
    <2>1. /\ ~stopping /\ UNCHANGED <<pads, wpc, final, emitted>>
          /\ owed' = [i \in Ids |-> IF i \in TrackedIds THEN total[i] ELSE 0]
      BY <1>7 DEF Stop
    <2>2. ~final /\ wpc # "exited" BY <1>a, <2>1 DEF Phases
    <2>3. ASSUME NEW i \in Ids PROVE Sent(i)' \/ Mapped(i)'
      <3>1. CASE i \in TrackedIds BY <1>c, <2>1, <2>2, <3>1 DEF Mapped
      <3>2. CASE i \notin TrackedIds
        <4>1. owed'[i] = 0 /\ emitted'[i] \in Nat BY <1>b, <2>1, <3>2
        <4> QED BY <4>1 DEF Sent
      <3> QED BY <3>1, <3>2
    <2> QED BY <2>3 DEF Coming
  <1>8. CASE WorkerBegin
    <2>1. /\ UNCHANGED <<pads, emitted, owed, leaving, channel, dropped>>
          /\ wpc = "wait" /\ wpc' = "collect" /\ unseen' = Pads
      BY <1>8 DEF WorkerBegin
    <2>2. \A i \in Ids : Sent(i) => Sent(i)' BY <2>1 DEF Sent
    <2>3. \A i \in Ids : ~InHand(i) BY <2>1 DEF InHand
    <2>4. \A i \in Ids : Mapped(i) => Mapped(i)'
      <3>1. \A i \in TrackedIds : Visible(i)' BY <2>1, AllVisible
      <3> QED BY <1>c, <2>1, <3>1 DEF Mapped
    <2> QED BY <1>a, <2>2, <2>3, <2>4 DEF Coming
  <1>9. ASSUME NEW p \in Pads, WorkerCollect(p) PROVE Coming'
    <2>1. /\ UNCHANGED <<pads, emitted, owed, leaving, channel, dropped, retiredIds, todo, wpc, final>>
          /\ wpc = "collect"
      BY <1>9 DEF WorkerCollect
    <2>2. \A i \in Ids : Sent(i) => Sent(i)' BY <2>1 DEF Sent
    <2>3. \A i \in Ids : InHand(i) => InHand(i)' BY <2>1 DEF InHand
    <2>4. \A i : Visible(i) => Visible(i)' BY <1>9, VisitShows
    <2>5. \A i \in Ids : Mapped(i) => Mapped(i)' BY <1>c, <2>1, <2>4 DEF Mapped
    <2> QED BY <1>a, <2>2, <2>3, <2>5 DEF Coming
  <1>10. CASE WorkerReceive
    <2>1. /\ UNCHANGED <<pads, emitted, owed, leaving, dropped, todo, wpc, final, activeIds, unseen>>
          /\ wpc = "collect" /\ channel # <<>> /\ channel' = Tail(channel)
          /\ retiredIds' = retiredIds \union {Head(channel)}
      BY <1>10 DEF WorkerReceive
    <2>2. Range(channel') = Range(channel) \ {Head(channel)}
      <3>1. channel \in Seq(Ids) /\ \A m, n \in 1..Len(channel) : channel[m] = channel[n] => m = n
        BY <1>a DEF IInv, Places, Typed, TypedRetirement
      <3> QED BY <2>1, <3>1, RangeShrinks
    <2>3. \A i \in Ids : Sent(i) => Sent(i)' \/ InHand(i)' BY <2>1, <2>2 DEF Sent, InHand
    <2>4. \A i \in Ids : InHand(i) => InHand(i)' BY <2>1 DEF InHand
    <2>5. \A i : Visible(i) => Visible(i)' BY <1>c, <2>1, VisibleKept
    <2>6. \A i \in Ids : Mapped(i) => Mapped(i)' BY <1>c, <2>1, <2>5 DEF Mapped
    <2> QED BY <1>a, <2>3, <2>4, <2>6 DEF Coming
  <1>11. CASE WorkerDrained
    <2>1. /\ UNCHANGED <<pads, emitted, owed, leaving, channel, dropped, retiredIds, activeIds, final>>
          /\ wpc = "collect" /\ wpc' = "emit" /\ unseen = {} /\ todo' = activeIds \union retiredIds
      BY <1>11 DEF WorkerDrained, Snapshot
    <2>2. \A i \in Ids : Sent(i) => Sent(i)' BY <2>1 DEF Sent
    <2>3. \A i \in Ids : InHand(i) => InHand(i)' BY <2>1 DEF InHand
    <2>4. \A i \in Ids : Mapped(i) => Mapped(i)'
      <3>1. \A i : Visible(i) => i \in activeIds BY <2>1, AllSeen
      <3> QED BY <1>c, <2>1, <3>1 DEF Mapped
    <2> QED BY <1>a, <2>2, <2>3, <2>4 DEF Coming
  <1>12. ASSUME NEW n \in Ids, WorkerEmit(n) PROVE Coming'
    <2>1. /\ UNCHANGED <<pads, owed, leaving, channel, dropped, retiredIds, activeIds, unseen, final,
                         wpc>>
          /\ todo' = todo \ {n} /\ wpc = "emit"
      BY <1>12 DEF WorkerEmit
    <2>2. /\ emitted'[n] \in Nat /\ emitted'[n] >= total[n]
          /\ \A j \in Ids \ {n} : emitted'[j] = emitted[j]
      BY <1>a, <1>12, EmitCatchesUp
    <2>3. Sent(n)'
      <3>1. emitted'[n] >= owed'[n] BY <1>b, <2>1, <2>2
      <3> QED BY <3>1 DEF Sent
    <2>4. ASSUME NEW i \in Ids, i # n PROVE Sent(i)' \/ InHand(i)' \/ Mapped(i)'
      <3>1. CASE Sent(i) BY <2>1, <2>2, <2>4, <3>1 DEF Sent
      <3>2. CASE InHand(i) BY <2>1, <2>4, <3>2 DEF InHand
      <3>3. CASE Mapped(i) BY <1>c, <2>1, <2>4, <3>3 DEF Mapped
      <3> QED BY <1>a, <3>1, <3>2, <3>3 DEF Coming
    <2> QED BY <2>3, <2>4 DEF Coming
  <1>13. CASE WorkerRetain
    <2>1. /\ UNCHANGED <<pads, emitted, owed, leaving, channel, dropped, final>>
          /\ wpc = "emit" /\ todo = {} /\ wpc' = IF final THEN "exited" ELSE "wait"
      BY <1>13 DEF WorkerRetain
    <2>2. \A i \in Ids : Sent(i) => Sent(i)' BY <2>1 DEF Sent
    <2>3. \A i \in Ids : ~InHand(i) BY <2>1 DEF InHand
    <2>4. \A i \in Ids : Mapped(i) => ~final BY <2>1 DEF Mapped
    <2>5. \A i \in Ids : Mapped(i) => Mapped(i)' BY <1>c, <2>1, <2>4 DEF Mapped
    <2> QED BY <1>a, <2>2, <2>3, <2>5 DEF Coming
  <1>14. CASE UNCHANGED vars
    <2>1. UNCHANGED <<pads, emitted, owed, leaving, channel, dropped, retiredIds, activeIds, unseen, todo,
                     wpc, final>> BY <1>14 DEF vars
    <2> QED BY <1>a, <1>c, <2>1, ComingFrame
  <1> QED
    BY <1>1, <1>2, <1>3, <1>4, <1>5, <1>6, <1>7, <1>8, <1>9, <1>10, <1>11, <1>12, <1>13,
    <1>14 DEF Next, ThreadStep, Worker

\* When no line is rejected and none too large for the counters, the worker has sent,
\* when it exits, what was counted on a mapped series before dispose(), unless the
\* series' retirement was in the remover's hands, or dropped.
THEOREM LastExportIsComplete ==
  ASSUME SizeAssumption, StatsdAssumption, Deliverable
  PROVE  Spec => []FinalExportComplete
  <1>1. Init => DeliveryInv
    <2> SUFFICES ASSUME Init PROVE DeliveryInv OBVIOUS
    <2>1. IInv BY InitIInv
    <2>2. CountsBounded
      <3>1. Doing = {} BY DEF Init, Doing
      <3>2. Cardinality({}) = 0 /\ IsFiniteSet({}) BY FS_EmptySet
      <3>3. pushes = 0 /\ \A i \in Ids : total[i] = 0 BY DEF Init
      <3> QED BY <3>1, <3>2, <3>3 DEF CountsBounded
    <2>3. CursorsBehind /\ OwedCounted BY DEF Init, CursorsBehind, OwedCounted
    <2>4. Phases BY DEF Init, Phases
    <2>5. Coming BY DEF Init, Coming, Sent
    <2> QED BY <2>1, <2>2, <2>3, <2>4, <2>5 DEF DeliveryInv
  <1>2. DeliveryInv /\ [Next]_vars => DeliveryInv'
    BY NextIInv, CountsBoundedStep, CursorsBehindStep, OwedCountedStep, PhasesStep, ComingStep
    DEF DeliveryInv
  <1>3. DeliveryInv => FinalExportComplete
    BY DEF DeliveryInv, Coming, Sent, InHand, Mapped, FinalExportComplete
  <1> QED BY <1>1, <1>2, <1>3, PTL DEF Spec
=============================================================================
