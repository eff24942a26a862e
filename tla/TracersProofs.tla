--------------------------- MODULE TracersProofs ---------------------------
(***************************************************************************)
(* Proofs about the parts of the tracers: the statsd worker, the           *)
(* Prometheus server, the series of the Prometheus counters, the cached    *)
(* limits of a queue and the gauges of a pipeline, the intervals of the    *)
(* statsd pads, and the identities of the queues. A behaviour of Tracers   *)
(* is one of a part, chosen at its start, and the parts share no variable: *)
(* each part has an inductive invariant of its own, which its own steps    *)
(* preserve, and a step of another part leaves all that it speaks of       *)
(* unchanged.                                                              *)
(***************************************************************************)
EXTENDS Tracers, FiniteSetTheorems, TLAPS

-----------------------------------------------------------------------------
(***************************************************************************)
(* The statsd worker. A snapshot reports its diagnostics in an order that  *)
(* counts: those already reported are told, or were raised or refused      *)
(* since, and a refused line raises the emit errors, which are reported    *)
(* before the last line that can.                                          *)
(***************************************************************************)

\* What the report has still to say.
Suffixes ==
  {Worker!Order, <<"emit", "flush", "dropped">>, <<"flush", "dropped">>, <<"dropped">>, <<>>}

\* The flag of the worker is up while it waits or exports, and no other time.
WorkerPlaces ==
  /\ up => exporter \in {"wait", "lines", "report"}
  /\ stage = "new" => exporter = "none"
  /\ stage \in {"inert", "disposed"} => ~Worker!Running
  /\ stage # "new" => validated = settings

\* A diagnostic's value is the one last sent, or it was raised or refused since.
Told(d) == cursor[d] = raised[d] \/ d \in late

\* What was reported before the rest of the report is told.
WorkerTells ==
  /\ exporter = "report" /\ Len(report) <= 3 => Told("untracked")
  /\ exporter = "report" /\ Len(report) <= 2 => Told("emit")
  /\ exporter = "report" /\ Len(report) <= 1 => Told("flush")
  /\ exporter = "report" /\ report = <<>> => Told("dropped")
  /\ exporter = "exited" /\ handshake = "ok" =>
       \A d \in Worker!Diagnostics : Told(d)

\* Places and flags, and the counters of the diagnostics.
WorkerFlags ==
  /\ stage \in {"new", "starting", "failed", "serving", "stopping", "inert", "disposed"}
  /\ settings \in {"valid", "invalid"} /\ validated \in {"none", "valid", "invalid"}
  /\ exporter \in {"none", "bind", "announce", "wait", "lines", "report", "exited", "died"}
  /\ handshake \in {"empty", "ok", "error"} /\ told \in BOOLEAN /\ up \in BOOLEAN
  /\ last \in BOOLEAN /\ failing \in BOOLEAN
WorkerNumbers ==
  /\ propertyWrites \in 0..MaxWrites /\ events \in 0..MaxEvents /\ refusals \in 0..MaxRefusals
  /\ refused \in Nat
WorkerCounters ==
  /\ raised \in [Worker!Diagnostics -> Nat] /\ cursor \in [Worker!Diagnostics -> Nat]
  /\ wasActive \in [Worker!Diagnostics -> BOOLEAN]
  /\ report \in Suffixes /\ late \subseteq Worker!Diagnostics

WorkerInv ==
  /\ WorkerFlags /\ WorkerNumbers /\ WorkerCounters
  /\ WorkerPlaces /\ WorkerTells /\ raised["emit"] = refused

\* What is left after the head.
LEMMA ReportShrinks ==
  /\ <<>> \in Suffixes /\ Worker!Order \in Suffixes
  /\ \A r \in Suffixes : r = <<>> \/ Tail(r) \in Suffixes
  /\ \A r \in Suffixes : r # <<>> =>
       /\ Head(r) \in Worker!Diagnostics /\ Len(r) \in 1..4 /\ Len(Tail(r)) = Len(r) - 1
       /\ Head(r) = "untracked" <=> Len(r) = 4
       /\ Head(r) = "emit" <=> Len(r) = 3
       /\ Head(r) = "flush" <=> Len(r) = 2
       /\ Head(r) = "dropped" <=> Len(r) = 1
       /\ Tail(r) = <<>> <=> Len(r) = 1
  <1>1. Tail(<<"untracked", "emit", "flush", "dropped">>) = <<"emit", "flush", "dropped">> OBVIOUS
  <1>2. Tail(<<"emit", "flush", "dropped">>) = <<"flush", "dropped">> OBVIOUS
  <1>3. Tail(<<"flush", "dropped">>) = <<"dropped">> OBVIOUS
  <1>4. Tail(<<"dropped">>) = <<>> OBVIOUS
  <1>5. /\ Len(<<"untracked", "emit", "flush", "dropped">>) = 4
        /\ Len(<<"emit", "flush", "dropped">>) = 3 /\ Len(<<"flush", "dropped">>) = 2
        /\ Len(<<"dropped">>) = 1 /\ Len(<<>>) = 0
    OBVIOUS
  <1>6. /\ Head(<<"untracked", "emit", "flush", "dropped">>) = "untracked"
        /\ Head(<<"emit", "flush", "dropped">>) = "emit" /\ Head(<<"flush", "dropped">>) = "flush"
        /\ Head(<<"dropped">>) = "dropped"
    OBVIOUS
  <1>7. <<"dropped">> # <<>> /\ <<"flush", "dropped">> # <<>> /\ <<"emit", "flush", "dropped">> # <<>>
        /\ <<"untracked", "emit", "flush", "dropped">> # <<>>
    BY <1>5
  <1> QED
    BY <1>1, <1>2, <1>3, <1>4, <1>5, <1>6, <1>7 DEF Suffixes, Worker!Order, Worker!Diagnostics

\* The worker begins with the invariant.
LEMMA WorkerInitInv ==
  ASSUME Worker!WorkerAssumption, Worker!Init
  PROVE  WorkerInv
  <1>1. WorkerFlags BY DEF Worker!Init, WorkerFlags
  <1>1a. WorkerNumbers BY DEF Worker!WorkerAssumption, Worker!Init, WorkerNumbers
  <1>2. WorkerCounters BY DEF Worker!Init, Suffixes, WorkerCounters
  <1>3. WorkerPlaces BY DEF Worker!Init, WorkerPlaces, Worker!Running
  <1>4. WorkerTells BY DEF Worker!Init, WorkerTells
  <1>5. raised["emit"] = refused BY DEF Worker!Init, Worker!Diagnostics
  <1> QED BY <1>1, <1>1a, <1>2, <1>3, <1>4, <1>5 DEF WorkerInv

\* Raising a counter.
LEMMA Raised ==
  ASSUME raised \in [Worker!Diagnostics -> Nat], NEW d \in Worker!Diagnostics, NEW n \in Nat,
         raised' = [raised EXCEPT ![d] = @ + n]
  PROVE  /\ raised' \in [Worker!Diagnostics -> Nat] /\ raised'[d] = raised[d] + n
         /\ \A e \in Worker!Diagnostics : e # d => raised'[e] = raised[e]
  OBVIOUS

\* The worker's flags.
LEMMA WorkerFlagsStep ==
  ASSUME Worker!WorkerAssumption, WorkerInv, Worker!Next
  PROVE  WorkerFlags'
  <1>0. WorkerFlags /\ WorkerPlaces BY DEF WorkerInv
  <1> USE <1>0 DEF WorkerFlags, Worker!tracerVars, Worker!threadVars, Worker!diagVars
  <1>1. CASE Worker!Bind BY <1>1 DEF Worker!Bind
  <1>2. CASE Worker!Announce BY <1>2 DEF Worker!Announce
  <1>3. CASE Worker!SnapshotBegin BY <1>3 DEF Worker!SnapshotBegin
  <1>4. CASE Worker!Report
    <2>1. failing' = failing \/ failing' = TRUE BY <1>4 DEF Worker!Report
    <2>2. UNCHANGED <<stage, settings, validated, exporter, handshake, told, up, last>>
      BY <1>4 DEF Worker!Report
    <2>3. failing' \in BOOLEAN BY <2>1
    <2> QED BY <2>2, <2>3
  <1>5. CASE Worker!Flush
    BY <1>5 DEF Worker!Flush, Worker!AfterExport
  <1>6. ASSUME NEW n \in 0..MaxLines, Worker!Lines(n) PROVE WorkerFlags' BY <1>6 DEF Worker!Lines
  <1>7. CASE Worker!Started BY <1>7 DEF Worker!Started
  <1>8. CASE Worker!StartFails BY <1>8 DEF Worker!StartFails
  <1>9. CASE Worker!Joined BY <1>9 DEF Worker!Joined
  <1>10. CASE Worker!Construct
    <2>1. stage' \in {"starting", "inert"} /\ exporter' \in {"bind", exporter} /\ validated' = settings
      BY <1>10 DEF Worker!Construct
    <2>2. UNCHANGED <<settings, handshake, told, up, last, failing>> BY <1>10 DEF Worker!Construct
    <2>3. /\ stage' \in {"new", "starting", "failed", "serving", "stopping", "inert", "disposed"}
          /\ exporter' \in {"none", "bind", "announce", "wait", "lines", "report", "exited", "died"}
          /\ validated' \in {"none", "valid", "invalid"}
      BY <2>1
    <2> QED BY <2>2, <2>3
  <1>11. CASE Worker!Dispose BY <1>11 DEF Worker!Dispose
  <1>12. CASE Worker!Panic BY <1>12 DEF Worker!Panic
  <1>13. ASSUME NEW v \in {"valid", "invalid"}, Worker!SetProperty(v) PROVE WorkerFlags'
    BY <1>13 DEF Worker!SetProperty
  <1>14. ASSUME NEW d \in Worker!Diagnostics, Worker!Event(d) PROVE WorkerFlags'
    BY <1>14 DEF Worker!Event
  <1> QED
    BY <1>1, <1>2, <1>3, <1>4, <1>5, <1>6, <1>7, <1>8, <1>9, <1>10, <1>11, <1>12, <1>13, <1>14
    DEF Worker!Next, Worker!Exporter, Worker!Tracer

\* The bounded counts.
LEMMA WorkerNumbersStep ==
  ASSUME Worker!WorkerAssumption, WorkerInv, Worker!Next
  PROVE  WorkerNumbers'
  <1>0. WorkerNumbers BY DEF WorkerInv
  <1> USE <1>0 DEF WorkerNumbers, Worker!WorkerAssumption, Worker!tracerVars,
    Worker!threadVars, Worker!diagVars
  <1>1. CASE Worker!Bind BY <1>1 DEF Worker!Bind
  <1>2. CASE Worker!Announce BY <1>2 DEF Worker!Announce
  <1>3. CASE Worker!SnapshotBegin BY <1>3 DEF Worker!SnapshotBegin
  <1>4. CASE Worker!Report BY <1>4 DEF Worker!Report
  <1>5. CASE Worker!Flush BY <1>5 DEF Worker!Flush
  <1>6. ASSUME NEW n \in 0..MaxLines, Worker!Lines(n) PROVE WorkerNumbers' BY <1>6 DEF Worker!Lines
  <1>7. CASE Worker!Started BY <1>7 DEF Worker!Started
  <1>8. CASE Worker!StartFails BY <1>8 DEF Worker!StartFails
  <1>9. CASE Worker!Joined BY <1>9 DEF Worker!Joined
  <1>10. CASE Worker!Construct BY <1>10 DEF Worker!Construct
  <1>11. CASE Worker!Dispose BY <1>11 DEF Worker!Dispose
  <1>12. CASE Worker!Panic BY <1>12 DEF Worker!Panic
  <1>13. ASSUME NEW v \in {"valid", "invalid"}, Worker!SetProperty(v) PROVE WorkerNumbers'
    BY <1>13 DEF Worker!SetProperty
  <1>14. ASSUME NEW d \in Worker!Diagnostics, Worker!Event(d) PROVE WorkerNumbers'
    BY <1>14 DEF Worker!Event
  <1> QED
    BY <1>1, <1>2, <1>3, <1>4, <1>5, <1>6, <1>7, <1>8, <1>9, <1>10, <1>11, <1>12, <1>13, <1>14
    DEF Worker!Next, Worker!Exporter, Worker!Tracer

\* The counters and cursors of the diagnostics.
LEMMA WorkerCountersStep ==
  ASSUME Worker!WorkerAssumption, WorkerInv, Worker!Next
  PROVE  WorkerCounters'
  <1>0. WorkerCounters BY DEF WorkerInv
  <1> USE <1>0 DEF WorkerCounters, Worker!tracerVars, Worker!threadVars, Worker!diagVars
  <1>1. CASE Worker!Bind BY <1>1 DEF Worker!Bind
  <1>2. CASE Worker!Announce BY <1>2 DEF Worker!Announce
  <1>3. CASE Worker!SnapshotBegin BY <1>3 DEF Worker!SnapshotBegin
  <1>4. CASE Worker!Report
    <2>1. report # <<>> /\ report' = Tail(report) BY <1>4 DEF Worker!Report
    <2>2. Head(report) \in Worker!Diagnostics /\ report' \in Suffixes BY <2>1, ReportShrinks
    <2>3. PICK d \in Worker!Diagnostics : d = Head(report) BY <2>2
    <2>4. "emit" \in Worker!Diagnostics BY DEF Worker!Diagnostics
    <2>5. raised' = raised \/ raised' = [raised EXCEPT !["emit"] = @ + 1] BY <1>4 DEF Worker!Report
    <2>6. raised' \in [Worker!Diagnostics -> Nat] BY <2>4, <2>5, Raised
    <2>7. cursor' = cursor \/ cursor' = [cursor EXCEPT ![d] = raised[d]] BY <1>4, <2>3 DEF Worker!Report
    <2>8. cursor' \in [Worker!Diagnostics -> Nat] BY <2>7
    <2>9. wasActive' = wasActive \/ wasActive' = [wasActive EXCEPT ![d] = raised[d] # cursor[d]]
      BY <1>4, <2>3 DEF Worker!Report
    <2>10. (raised[d] # cursor[d]) \in BOOLEAN OBVIOUS
    <2>11. wasActive' \in [Worker!Diagnostics -> BOOLEAN] BY <2>9, <2>10
    <2>12. late' \subseteq Worker!Diagnostics BY <1>4, <2>2, <2>4 DEF Worker!Report
    <2> QED BY <2>2, <2>6, <2>8, <2>11, <2>12
  <1>5. CASE Worker!Flush
    <2>1. "flush" \in Worker!Diagnostics BY DEF Worker!Diagnostics
    <2>2. raised' = raised \/ raised' = [raised EXCEPT !["flush"] = @ + 1] BY <1>5 DEF Worker!Flush
    <2>3. raised' \in [Worker!Diagnostics -> Nat] BY <2>1, <2>2, Raised
    <2> QED BY <1>5, <2>1, <2>3 DEF Worker!Flush
  <1>6. ASSUME NEW n \in 0..MaxLines, Worker!Lines(n) PROVE WorkerCounters'
    <2>1. "emit" \in Worker!Diagnostics /\ n \in Nat BY DEF Worker!Diagnostics, Worker!WorkerAssumption
    <2>2. raised' \in [Worker!Diagnostics -> Nat] BY <1>6, <2>1, Raised DEF Worker!Lines
    <2> QED BY <1>6, <2>2, ReportShrinks DEF Worker!Lines
  <1>7. CASE Worker!Started BY <1>7 DEF Worker!Started
  <1>8. CASE Worker!StartFails BY <1>8 DEF Worker!StartFails
  <1>9. CASE Worker!Joined BY <1>9 DEF Worker!Joined
  <1>10. CASE Worker!Construct BY <1>10 DEF Worker!Construct
  <1>11. CASE Worker!Dispose BY <1>11 DEF Worker!Dispose
  <1>12. CASE Worker!Panic BY <1>12 DEF Worker!Panic
  <1>13. ASSUME NEW v \in {"valid", "invalid"}, Worker!SetProperty(v) PROVE WorkerCounters'
    BY <1>13 DEF Worker!SetProperty
  <1>14. ASSUME NEW d \in Worker!Diagnostics, Worker!Event(d) PROVE WorkerCounters'
    <2>1. raised' \in [Worker!Diagnostics -> Nat] BY <1>14, Raised DEF Worker!Event
    <2> QED BY <1>14, <2>1 DEF Worker!Event
  <1> QED
    BY <1>1, <1>2, <1>3, <1>4, <1>5, <1>6, <1>7, <1>8, <1>9, <1>10, <1>11, <1>12, <1>13, <1>14
    DEF Worker!Next, Worker!Exporter, Worker!Tracer

\* The flag of the worker follows it.
LEMMA WorkerPlacesStep ==
  ASSUME Worker!WorkerAssumption, WorkerInv, Worker!Next
  PROVE  WorkerPlaces'
  <1>0. WorkerFlags /\ WorkerPlaces BY DEF WorkerInv
  <1> USE <1>0 DEF WorkerFlags, WorkerPlaces, Worker!Running, Worker!tracerVars,
    Worker!threadVars, Worker!diagVars
  <1>1. CASE Worker!Bind BY <1>1 DEF Worker!Bind
  <1>2. CASE Worker!Announce BY <1>2 DEF Worker!Announce
  <1>3. CASE Worker!SnapshotBegin BY <1>3 DEF Worker!SnapshotBegin
  <1>4. CASE Worker!Report BY <1>4 DEF Worker!Report
  <1>5. CASE Worker!Flush
    BY <1>5 DEF Worker!Flush, Worker!AfterExport
  <1>6. ASSUME NEW n \in 0..MaxLines, Worker!Lines(n) PROVE WorkerPlaces' BY <1>6 DEF Worker!Lines
  <1>7. CASE Worker!Started BY <1>7 DEF Worker!Started
  <1>8. CASE Worker!StartFails BY <1>8 DEF Worker!StartFails
  <1>9. CASE Worker!Joined BY <1>9 DEF Worker!Joined
  <1>10. CASE Worker!Construct BY <1>10 DEF Worker!Construct
  <1>11. CASE Worker!Dispose BY <1>11 DEF Worker!Dispose
  <1>12. CASE Worker!Panic BY <1>12 DEF Worker!Panic
  <1>13. ASSUME NEW v \in {"valid", "invalid"}, Worker!SetProperty(v) PROVE WorkerPlaces'
    BY <1>13 DEF Worker!SetProperty
  <1>14. ASSUME NEW d \in Worker!Diagnostics, Worker!Event(d) PROVE WorkerPlaces'
    BY <1>14 DEF Worker!Event
  <1> QED
    BY <1>1, <1>2, <1>3, <1>4, <1>5, <1>6, <1>7, <1>8, <1>9, <1>10, <1>11, <1>12, <1>13, <1>14
    DEF Worker!Next, Worker!Exporter, Worker!Tracer

\* A diagnostic that is told stays so unless it is raised, and then it is late.
LEMMA StillTold ==
  ASSUME NEW d \in Worker!Diagnostics, Told(d), cursor'[d] = cursor[d],
         raised'[d] = raised[d] \/ d \in late', late \subseteq late'
  PROVE  Told(d)'
  BY DEF Told

\* Every refused line is an emit error, unless it is about export errors.
LEMMA WorkerRefusedStep ==
  ASSUME Worker!WorkerAssumption, WorkerInv, Worker!Next
  PROVE  raised'["emit"] = refused'
  <1> USE DEF Worker!tracerVars, Worker!threadVars, Worker!diagVars
  <1>0. raised \in [Worker!Diagnostics -> Nat] /\ raised["emit"] = refused /\ refused \in Nat
    BY DEF WorkerInv, WorkerCounters, WorkerNumbers
  <1>0a. "emit" \in Worker!Diagnostics /\ "flush" \in Worker!Diagnostics BY DEF Worker!Diagnostics
  <1>1. CASE UNCHANGED <<raised, refused>> BY <1>0, <1>1
  <1>2. CASE Worker!Report
    <2>1. PICK d : d = Head(report) OBVIOUS
    <2>2. CASE UNCHANGED <<raised, refused>> BY <1>0, <2>2
    <2>3. CASE /\ IF Worker!CountAndLog(d)
                  THEN raised' = [raised EXCEPT !["emit"] = @ + 1]
                  ELSE UNCHANGED raised
               /\ refused' = IF d \in {"untracked", "dropped"} THEN refused + 1 ELSE refused
      <3>1. CASE d \in {"untracked", "dropped"}
        <4>1. raised'["emit"] = raised["emit"] + 1
          BY <1>0, <1>0a, <2>3, <3>1, Raised DEF Worker!CountAndLog
        <4> QED BY <1>0, <2>3, <3>1, <4>1
      <3>2. CASE d \notin {"untracked", "dropped"} BY <1>0, <2>3, <3>2 DEF Worker!CountAndLog
      <3> QED BY <3>1, <3>2
    <2> QED BY <1>2, <2>1, <2>2, <2>3 DEF Worker!Report
  <1>3. CASE Worker!Flush
    <2>1. refused' = refused /\ (raised' = raised \/ raised' = [raised EXCEPT !["flush"] = @ + 1])
      BY <1>3 DEF Worker!Flush
    <2>2. raised'["emit"] = raised["emit"] BY <1>0, <1>0a, <2>1, Raised
    <2> QED BY <1>0, <2>1, <2>2
  <1>4. ASSUME NEW n \in 0..MaxLines, Worker!Lines(n) PROVE raised'["emit"] = refused'
    <2>1. n \in Nat BY DEF Worker!WorkerAssumption
    <2>2. raised'["emit"] = raised["emit"] + n BY <1>0, <1>0a, <1>4, <2>1, Raised DEF Worker!Lines
    <2> QED BY <1>0, <1>4, <2>2 DEF Worker!Lines
  <1>5. ASSUME NEW d \in Worker!Diagnostics, Worker!Event(d) PROVE raised'["emit"] = refused'
    <2>1. d # "emit" /\ UNCHANGED refused BY <1>5 DEF Worker!Event
    <2>2. raised'["emit"] = raised["emit"] BY <1>0, <1>0a, <1>5, <2>1, Raised DEF Worker!Event
    <2> QED BY <1>0, <2>1, <2>2
  <1>6. CASE Worker!Bind BY <1>1, <1>6 DEF Worker!Bind
  <1>7. CASE Worker!Announce BY <1>1, <1>7 DEF Worker!Announce
  <1>8. CASE Worker!SnapshotBegin BY <1>1, <1>8 DEF Worker!SnapshotBegin
  <1>9. CASE Worker!Started BY <1>1, <1>9 DEF Worker!Started
  <1>10. CASE Worker!StartFails BY <1>1, <1>10 DEF Worker!StartFails
  <1>11. CASE Worker!Joined BY <1>1, <1>11 DEF Worker!Joined
  <1>12. CASE Worker!Construct BY <1>1, <1>12 DEF Worker!Construct
  <1>13. CASE Worker!Dispose BY <1>1, <1>13 DEF Worker!Dispose
  <1>14. CASE Worker!Panic BY <1>1, <1>14 DEF Worker!Panic
  <1>15. ASSUME NEW v \in {"valid", "invalid"}, Worker!SetProperty(v) PROVE raised'["emit"] = refused'
    BY <1>1, <1>15 DEF Worker!SetProperty
  <1> QED
    BY <1>2, <1>3, <1>4, <1>5, <1>6, <1>7, <1>8, <1>9, <1>10, <1>11, <1>12, <1>13, <1>14, <1>15
    DEF Worker!Next, Worker!Exporter, Worker!Tracer

\* What a report says, and what it leaves for the next one.
LEMMA WorkerReports ==
  ASSUME WorkerInv, Worker!Report
  PROVE  WorkerTells'
  <1>0. /\ raised \in [Worker!Diagnostics -> Nat] /\ cursor \in [Worker!Diagnostics -> Nat]
        /\ report \in Suffixes
    BY DEF WorkerInv, WorkerCounters
  <1>1. /\ exporter = "report" /\ UNCHANGED <<exporter, handshake>>
        /\ report # <<>> /\ report' = Tail(report)
    BY DEF Worker!Report, Worker!threadVars
  <1>2. PICK d \in Worker!Diagnostics : d = Head(report) BY <1>0, <1>1, ReportShrinks
  <1>3. Len(report) \in 1..4 /\ Len(report') = Len(report) - 1 BY <1>0, <1>1, ReportShrinks
  <1>4. \/ /\ raised[d] = cursor[d] /\ UNCHANGED <<raised, cursor, late>>
        \/ /\ cursor' = [cursor EXCEPT ![d] = raised[d]] /\ late' = late \ {d} /\ UNCHANGED raised
        \/ /\ d \in late' /\ late \subseteq late' /\ UNCHANGED cursor
           /\ \/ UNCHANGED raised
              \/ /\ raised' = [raised EXCEPT !["emit"] = @ + 1]
                 /\ d = "untracked" \/ (d = "dropped" /\ "emit" \in late')
    <2>1. CASE UNCHANGED <<raised, cursor, late>> /\ raised[d] = cursor[d] BY <2>1
    <2>2. CASE cursor' = [cursor EXCEPT ![d] = raised[d]] /\ late' = late \ {d} /\ UNCHANGED raised
      BY <2>2
    <2>3. CASE /\ IF Worker!CountAndLog(d)
                  THEN raised' = [raised EXCEPT !["emit"] = @ + 1]
                  ELSE UNCHANGED raised
               /\ late' = late \union {d} \union
                           (IF Worker!CountAndLog(d) /\ d = "dropped" THEN {"emit"} ELSE {})
               /\ UNCHANGED cursor
      <3>1. d \in late' /\ late \subseteq late' BY <2>3
      <3>2. CASE d = "untracked"
        <4>1. Worker!CountAndLog(d) BY <3>2 DEF Worker!CountAndLog
        <4>2. raised' = [raised EXCEPT !["emit"] = @ + 1] /\ UNCHANGED cursor BY <2>3, <4>1
        <4>3. d = "untracked" \/ (d = "dropped" /\ "emit" \in late') BY <3>2
        <4> QED BY <3>1, <4>2, <4>3
      <3>3. CASE d = "dropped"
        <4>1. "emit" \in late' BY <2>3, <3>3 DEF Worker!CountAndLog
        <4> QED BY <2>3, <3>1, <3>3, <4>1 DEF Worker!CountAndLog
      <3>4. CASE d \notin {"untracked", "dropped"} BY <2>3, <3>1, <3>4 DEF Worker!CountAndLog
      <3> QED BY <3>2, <3>3, <3>4
    <2> QED BY <1>2, <2>1, <2>2, <2>3 DEF Worker!Report
  <1>5. Told(d)'
    <2>1. CASE raised[d] = cursor[d] /\ UNCHANGED <<raised, cursor, late>> BY <2>1 DEF Told
    <2>2. CASE cursor' = [cursor EXCEPT ![d] = raised[d]] /\ UNCHANGED raised
      <3>1. cursor'[d] = raised[d] BY <1>0, <2>2
      <3> QED BY <2>2, <3>1 DEF Told
    <2>3. CASE d \in late' BY <2>3 DEF Told
    <2> QED BY <1>4, <2>1, <2>2, <2>3
  <1>6. ASSUME NEW e \in Worker!Diagnostics, e # d, Told(e), e = "emit" => d # "untracked"
        PROVE  Told(e)'
    <2>1. CASE UNCHANGED <<raised, cursor, late>> BY <1>6, <2>1 DEF Told
    <2>2. CASE cursor' = [cursor EXCEPT ![d] = raised[d]] /\ late' = late \ {d} /\ UNCHANGED raised
      <3>1. cursor'[e] = cursor[e] BY <1>0, <1>6, <2>2
      <3> QED BY <1>6, <2>2, <3>1 DEF Told
    <2>3. CASE late \subseteq late' /\ UNCHANGED cursor /\ UNCHANGED raised BY <1>6, <2>3 DEF Told
    <2>4. CASE /\ late \subseteq late' /\ UNCHANGED cursor
               /\ raised' = [raised EXCEPT !["emit"] = @ + 1]
               /\ d = "untracked" \/ (d = "dropped" /\ "emit" \in late')
      <3>1. CASE e = "emit" BY <1>6, <2>4, <3>1 DEF Told
      <3>2. CASE e # "emit"
        <4>1. raised'[e] = raised[e] BY <1>0, <2>4, <3>2
        <4> QED BY <1>6, <2>4, <4>1, StillTold
      <3> QED BY <3>1, <3>2
    <2> QED BY <1>4, <2>1, <2>2, <2>3, <2>4
  <1>7. /\ Len(report) = 4 => d = "untracked"
        /\ Len(report) = 3 => d = "emit" /\ Told("untracked")
        /\ Len(report) = 2 => d = "flush" /\ Told("untracked") /\ Told("emit")
        /\ Len(report) = 1 => d = "dropped" /\ Told("untracked") /\ Told("emit") /\ Told("flush")
    <2>1. /\ Len(report) = 4 => d = "untracked"
          /\ Len(report) = 3 => d = "emit"
          /\ Len(report) = 2 => d = "flush"
          /\ Len(report) = 1 => d = "dropped"
      BY <1>0, <1>1, <1>2, ReportShrinks
    <2>2. /\ Len(report) <= 3 => Told("untracked")
          /\ Len(report) <= 2 => Told("emit")
          /\ Len(report) <= 1 => Told("flush")
      BY <1>1 DEF WorkerInv, WorkerTells
    <2> QED BY <1>3, <2>1, <2>2
  <1>8. {"untracked", "emit", "flush", "dropped"} = Worker!Diagnostics BY DEF Worker!Diagnostics
  <1>9. /\ Told("untracked")'
        /\ Len(report) <= 3 => Told("emit")'
        /\ Len(report) <= 2 => Told("flush")'
        /\ Len(report) = 1 => Told("dropped")'
    <2>1. CASE Len(report) = 4 BY <1>5, <1>7, <2>1
    <2>2. CASE Len(report) = 3 BY <1>5, <1>6, <1>7, <1>8, <2>2
    <2>3. CASE Len(report) = 2 BY <1>5, <1>6, <1>7, <1>8, <2>3
    <2>4. CASE Len(report) = 1 BY <1>5, <1>6, <1>7, <1>8, <2>4
    <2> QED BY <1>3, <2>1, <2>2, <2>3, <2>4
  <1>10. report' = <<>> => Len(report) = 1 BY <1>0, <1>1, ReportShrinks
  <1> QED BY <1>1, <1>3, <1>9, <1>10 DEF WorkerTells

\* Reported diagnostics stay told, and the last export's all are.
LEMMA WorkerTellsStep ==
  ASSUME Worker!WorkerAssumption, WorkerInv, Worker!Next
  PROVE  WorkerTells'
  <1> USE DEF Worker!tracerVars, Worker!threadVars, Worker!diagVars
  <1>0. /\ raised \in [Worker!Diagnostics -> Nat] /\ report \in Suffixes
        /\ Worker!Diagnostics = {"untracked", "emit", "flush", "dropped"}
    BY DEF WorkerInv, WorkerCounters, Worker!Diagnostics
  <1>1. WorkerTells BY DEF WorkerInv
  <1>2. CASE Worker!Report BY <1>2, WorkerReports
  <1>3. CASE Worker!Flush
    <2>1. /\ exporter = "report" /\ report = <<>> /\ exporter' \in {"wait", "exited"}
          /\ \/ UNCHANGED <<raised, late>>
             \/ raised' = [raised EXCEPT !["flush"] = @ + 1] /\ late' = late \union {"flush"}
          /\ UNCHANGED cursor
      BY <1>3 DEF Worker!Flush, Worker!AfterExport
    <2>2. Len(report) = 0 BY <2>1
    <2>3. \A d \in Worker!Diagnostics : Told(d) BY <1>0, <1>1, <2>1, <2>2 DEF WorkerTells
    <2>4. ASSUME NEW d \in Worker!Diagnostics PROVE Told(d)'
      <3>1. raised'[d] = raised[d] \/ d \in late' BY <1>0, <2>1
      <3> QED BY <2>1, <2>3, <3>1, StillTold
    <2> QED BY <2>1, <2>4 DEF WorkerTells
  <1>4. ASSUME NEW n \in 0..MaxLines, Worker!Lines(n) PROVE WorkerTells'
    <2>1. exporter' = "report" /\ report' = Worker!Order BY <1>4 DEF Worker!Lines
    <2>2. Len(Worker!Order) = 4 /\ Worker!Order # <<>> BY DEF Worker!Order
    <2> QED BY <2>1, <2>2 DEF WorkerTells
  <1>5. ASSUME NEW e \in Worker!Diagnostics, Worker!Event(e) PROVE WorkerTells'
    <2>1. /\ UNCHANGED <<exporter, report, handshake, cursor>> /\ late' = late \union {e}
          /\ raised' = [raised EXCEPT ![e] = @ + 1]
      BY <1>5 DEF Worker!Event
    <2>2. ASSUME NEW d \in Worker!Diagnostics, Told(d) PROVE Told(d)'
      <3>1. raised'[d] = raised[d] \/ d \in late' BY <1>0, <2>1
      <3> QED BY <2>1, <2>2, <3>1, StillTold
    <2>3. "untracked" \in Worker!Diagnostics /\ "emit" \in Worker!Diagnostics
          /\ "flush" \in Worker!Diagnostics /\ "dropped" \in Worker!Diagnostics
      BY <1>0
    <2>4. /\ exporter = "exited" /\ handshake = "ok" =>
               \A d \in Worker!Diagnostics : Told(d)'
      BY <1>1, <2>2 DEF WorkerTells
    <2> QED BY <1>1, <2>1, <2>2, <2>3, <2>4 DEF WorkerTells
  <1>6. CASE Worker!Bind BY <1>1, <1>6 DEF Worker!Bind, WorkerTells
  <1>7. CASE Worker!Announce BY <1>1, <1>7 DEF Worker!Announce, WorkerTells
  <1>8. CASE Worker!SnapshotBegin BY <1>1, <1>8 DEF Worker!SnapshotBegin, WorkerTells
  <1>a. CASE UNCHANGED <<exporter, report, handshake, cursor, raised, late>>
    BY <1>1, <1>a DEF WorkerTells, Told
  <1>9. CASE Worker!Started BY <1>a, <1>9 DEF Worker!Started
  <1>10. CASE Worker!StartFails BY <1>a, <1>10 DEF Worker!StartFails
  <1>11. CASE Worker!Joined BY <1>a, <1>11 DEF Worker!Joined
  <1>12. CASE Worker!Construct
    <2>1. exporter' \in {"bind", "none"} BY <1>12 DEF Worker!Construct, WorkerInv, WorkerPlaces
    <2> QED BY <2>1 DEF WorkerTells
  <1>13. CASE Worker!Dispose BY <1>a, <1>13 DEF Worker!Dispose
  <1>14. CASE Worker!Panic BY <1>14 DEF Worker!Panic, WorkerTells
  <1>15. ASSUME NEW v \in {"valid", "invalid"}, Worker!SetProperty(v) PROVE WorkerTells'
    BY <1>a, <1>15 DEF Worker!SetProperty
  <1> QED
    BY <1>2, <1>3, <1>4, <1>5, <1>6, <1>7, <1>8, <1>9, <1>10, <1>11, <1>12, <1>13, <1>14, <1>15
    DEF Worker!Next, Worker!Exporter, Worker!Tracer

\* No step of any part breaks the worker's invariant.
LEMMA WorkerNextInv ==
  ASSUME Worker!WorkerAssumption, WorkerInv, [Next]_tracersVars
  PROVE  WorkerInv'
  <1>1. CASE OnlyOf("worker") /\ Worker!Next
    BY <1>1, WorkerFlagsStep, WorkerNumbersStep, WorkerCountersStep, WorkerPlacesStep, WorkerTellsStep,
       WorkerRefusedStep
    DEF WorkerInv
  <1>2. CASE UNCHANGED workerVars
    BY <1>2 DEF workerVars, WorkerInv, WorkerFlags, WorkerNumbers, WorkerCounters, WorkerPlaces,
      WorkerTells, Told, Worker!Running
  <1>3. CASE OnlyOf("server") \/ OnlyOf("series") \/ OnlyOf("pipelines") \/ OnlyOf("identities")
             \/ OnlyOf("limits") \/ OnlyOf("intervals")
    BY <1>2, <1>3 DEF OnlyOf
  <1>4. CASE UNCHANGED tracersVars BY <1>2, <1>4 DEF tracersVars
  <1> QED BY <1>1, <1>3, <1>4 DEF Next

\* The invariant says what an observer may rely on.
LEMMA WorkerInvTells ==
  ASSUME WorkerInv
  PROVE  Worker!WorkerConsistent
  <1>1. report \in Seq(Worker!Diagnostics)
    <2>1. /\ <<"untracked", "emit", "flush", "dropped">> \in Seq(Worker!Diagnostics)
          /\ <<"emit", "flush", "dropped">> \in Seq(Worker!Diagnostics)
          /\ <<"flush", "dropped">> \in Seq(Worker!Diagnostics)
          /\ <<"dropped">> \in Seq(Worker!Diagnostics) /\ <<>> \in Seq(Worker!Diagnostics)
      BY DEF Worker!Diagnostics
    <2>2. report \in Suffixes BY DEF WorkerInv, WorkerCounters
    <2> QED BY <2>1, <2>2 DEF Suffixes, Worker!Order
  <1>2. Worker!TypeOK
    BY <1>1 DEF WorkerInv, WorkerFlags, WorkerNumbers, WorkerCounters, Worker!TypeOK
  <1>3. Worker!WorkerStatusIsTrue
    BY DEF WorkerInv, WorkerFlags, WorkerPlaces, Worker!WorkerStatusIsTrue, Worker!Running
  <1>4. Worker!LastReportIsComplete
    BY DEF WorkerInv, WorkerTells, Told, Worker!LastReportIsComplete
  <1> QED BY <1>2, <1>3, <1>4
    DEF WorkerInv, Worker!WorkerConsistent, Worker!ErrorsDoNotFeedThemselves

\* The statsd worker: nothing of it outlives a start that failed or dispose(),
\* its flag is true, and its diagnostics neither feed themselves nor are lost from
\* the last export, for any number of lines, events, refusals and property writes.
THEOREM WorkerStaysConsistent ==
  Spec => []WorkerConsistent
  <1>0. Worker!WorkerAssumption BY TracersAssumption DEF TracersAssumption
  <1>1. Init => WorkerInv BY <1>0, WorkerInitInv DEF Init
  <1>2. WorkerInv /\ [Next]_tracersVars => WorkerInv' BY <1>0, WorkerNextInv
  <1>3. WorkerInv => WorkerConsistent BY WorkerInvTells DEF WorkerConsistent
  <1> QED BY <1>1, <1>2, <1>3, PTL DEF Spec

-----------------------------------------------------------------------------
(***************************************************************************)
(* The server of the prometheus tracer. Whoever is polled holds the one    *)
(* thread of the runtime, which is what makes each connection's count go   *)
(* down once; a thread that can be joined has dropped its connections; and *)
(* a client that was not answered yet cannot have failed.                  *)
(***************************************************************************)
ServerFlags ==
  /\ phase \in {"new", "starting", "failed", "serving", "stopping", "inert", "disposed"}
  /\ config \in Server!Configs /\ inForce \in Server!Configs \union {"none"}
  /\ writes \in 0..MaxWrites
  /\ ready \in {"empty", "ok", "error"} /\ shutdown \in BOOLEAN /\ running \in BOOLEAN
  /\ stopped \in {"none", "ok", "thread", "connections"}
ServerThread ==
  /\ thread \in {"none", "build", "announce", "serve", "drain", "drained", "dropping",
                 "exited", "died"}
  /\ polled \in Clients \union {"nobody", "listener"}
ServerClients ==
  /\ client \in [Clients -> {"away", "connecting", "open", "closed"}]
  /\ request \in [Clients -> Server!Requests]
  /\ answer \in [Clients -> {"none", "ok", "failed", "not found", "not allowed"}]

\* Where the tracer and its thread are, together.
ServerPlaces ==
  /\ phase = "new" => thread = "none"
  /\ phase \in {"inert", "disposed"} => Server!Joinable
  /\ phase = "serving" => ready = "ok"
  /\ ready = "ok" => thread \notin {"none", "build", "announce"}
  /\ running => thread \notin {"none", "build", "dropping", "exited"}
  /\ phase \in {"starting", "serving", "stopping"} => config = inForce
  /\ stopped # "connections" /\ (stopped = "thread" => thread = "died")

\* Who is polled; a thread that does not serve yet, or is gone, has no connection.
ServerPolls ==
  /\ polled = "listener" => thread = "serve"
  /\ polled \in Clients => thread \in {"serve", "drain"} /\ client[polled] = "open"
  /\ thread \in {"none", "build", "announce", "exited", "died"} => Server!Open = {}

\* The clients whose answer says that the encoding failed.
FailedClients == {c \in Clients : answer[c] = "failed"}

\* Connections and failed answers are counted.
ServerCounts ==
  /\ active = Cardinality(Server!Open) /\ tasks \subseteq Clients /\ Server!Open \subseteq tasks
  /\ failures = Cardinality(FailedClients)
  /\ \A c \in Clients : client[c] # "closed" => answer[c] = "none"

ServerInv ==
  ServerFlags /\ ServerThread /\ ServerClients /\ ServerPlaces /\ ServerPolls /\ ServerCounts

\* Sets of clients are finite, one more counts one more, and one less one less.
LEMMA ClientsCounted ==
  ASSUME Server!ServerAssumption, NEW S \in SUBSET Clients
  PROVE  /\ IsFiniteSet(S) /\ Cardinality(S) \in Nat /\ (Cardinality(S) = 0 <=> S = {})
         /\ \A c \in Clients \ S : Cardinality(S \union {c}) = Cardinality(S) + 1
         /\ \A c \in S : Cardinality(S \ {c}) = Cardinality(S) - 1
  <1>1. IsFiniteSet(Clients) BY DEF Server!ServerAssumption, Server!IsFiniteSet, IsFiniteSet
  <1>2. IsFiniteSet(S) BY <1>1, FS_Subset
  <1>3. Cardinality(S) \in Nat /\ (Cardinality(S) = 0 <=> S = {})
    BY <1>2, FS_CardinalityType, FS_EmptySet
  <1>4. \A c \in Clients \ S : Cardinality(S \union {c}) = Cardinality(S) + 1
    BY <1>2, FS_AddElement
  <1>5. \A c \in S : Cardinality(S \ {c}) = Cardinality(S) - 1
    BY <1>2, FS_RemoveElement
  <1> QED BY <1>2, <1>3, <1>4, <1>5

\* The server begins with the invariant.
LEMMA ServerInitInv ==
  ASSUME Server!ServerAssumption, Server!Init
  PROVE  ServerInv
  <1>0. 0 \in 0..MaxWrites BY DEF Server!ServerAssumption
  <1>1. ServerFlags BY <1>0 DEF Server!Init, ServerFlags, Server!Configs
  <1>2. ServerThread BY DEF Server!Init, ServerThread, Server!Nobody
  <1>3. ServerClients BY DEF Server!Init, ServerClients, Server!Requests
  <1>4. ServerPlaces BY DEF Server!Init, ServerPlaces, Server!Joinable
  <1>5. Server!Open = {} BY DEF Server!Init, Server!Open
  <1>6. ServerPolls
    BY <1>5 DEF Server!Init, ServerPolls, Server!Nobody, Server!ServerAssumption
  <1>7. FailedClients = {} BY DEF Server!Init, FailedClients
  <1>8. Cardinality({}) = 0 BY FS_EmptySet
  <1>9. ServerCounts BY <1>5, <1>7, <1>8 DEF Server!Init, ServerCounts
  <1> QED BY <1>1, <1>2, <1>3, <1>4, <1>6, <1>9 DEF ServerInv

\* What closing a connection changes.
LEMMA Closing ==
  ASSUME Server!ServerAssumption, ServerInv, NEW c \in Clients, client[c] = "open", Server!Close(c)
  PROVE  /\ client' \in [Clients -> {"away", "connecting", "open", "closed"}]
         /\ client'[c] = "closed" /\ \A d \in Clients \ {c} : client'[d] = client[d]
         /\ Server!Open' = Server!Open \ {c} /\ active' = Cardinality(Server!Open')
  <1>1. /\ client' \in [Clients -> {"away", "connecting", "open", "closed"}]
        /\ client'[c] = "closed" /\ \A d \in Clients \ {c} : client'[d] = client[d]
    BY DEF Server!Close, ServerInv, ServerClients
  <1>2. Server!Open' = Server!Open \ {c} BY <1>1 DEF Server!Open
  <1>3. c \in Server!Open /\ Server!Open \subseteq Clients BY DEF Server!Open
  <1>4. Cardinality(Server!Open \ {c}) = Cardinality(Server!Open) - 1 BY <1>3, ClientsCounted
  <1> QED BY <1>1, <1>2, <1>4 DEF Server!Close, ServerInv, ServerCounts

\* What dropping the runtime changes.
LEMMA Dropping ==
  ASSUME Server!ServerAssumption, ServerInv, Server!DropTasks
  PROVE  /\ client' \in [Clients -> {"away", "connecting", "open", "closed"}]
         /\ \A d \in Clients : client'[d] # "open" /\ (client[d] = "closed" => client'[d] = "closed")
         /\ \A d \in Clients : client'[d] \in {client[d], "closed"}
         /\ Server!Open' = {} /\ active' = 0 /\ tasks' = {}
  <1>1. /\ client' \in [Clients -> {"away", "connecting", "open", "closed"}]
        /\ \A d \in Clients : client'[d] # "open" /\ (client[d] = "closed" => client'[d] = "closed")
        /\ \A d \in Clients : client'[d] \in {client[d], "closed"}
    BY DEF Server!DropTasks, Server!Open, ServerInv, ServerClients
  <1>2. Server!Open' = {} BY <1>1 DEF Server!Open
  <1>3. Cardinality(Server!Open) \in Nat BY ClientsCounted DEF Server!Open
  <1>4. Server!Cardinality(Server!Open) = Cardinality(Server!Open) BY DEF Server!Cardinality, Cardinality
  <1> QED BY <1>1, <1>2, <1>3, <1>4 DEF Server!DropTasks, ServerInv, ServerCounts

\* The flags of the server.
LEMMA ServerFlagsStep ==
  ASSUME Server!ServerAssumption, ServerInv, Server!Next
  PROVE  ServerFlags'
  <1>0. ServerFlags BY DEF ServerInv
  <1> USE <1>0 DEF ServerFlags, Server!ServerAssumption, Server!tracerVars, Server!flagVars,
    Server!connVars
  <1>1. CASE Server!ThreadBuilds BY <1>1 DEF Server!ThreadBuilds
  <1>2. CASE Server!ThreadAnnounces BY <1>2 DEF Server!ThreadAnnounces
  <1>3. CASE Server!ListenerStops BY <1>3 DEF Server!ListenerStops
  <1>4. CASE Server!DrainEnds BY <1>4 DEF Server!DrainEnds
  <1>5. CASE Server!ThreadClears BY <1>5 DEF Server!ThreadClears
  <1>6. CASE Server!ThreadExits BY <1>6 DEF Server!ThreadExits
  <1>7. CASE Server!AcceptFails BY <1>7 DEF Server!AcceptFails
  <1>8. ASSUME NEW x \in Clients \union {Server!Listener}, Server!Polls(x) PROVE ServerFlags'
    BY <1>8 DEF Server!Polls
  <1>9. ASSUME NEW c \in Clients, Server!Accept(c) PROVE ServerFlags' BY <1>9 DEF Server!Accept
  <1>10. ASSUME NEW c \in Clients, Server!Respond(c) PROVE ServerFlags' BY <1>10 DEF Server!Respond
  <1>11. ASSUME NEW c \in Clients, Server!GiveUp(c) PROVE ServerFlags' BY <1>11 DEF Server!GiveUp
  <1>12. ASSUME NEW c \in Clients, Server!TaskStops(c) PROVE ServerFlags'
    BY <1>12 DEF Server!TaskStops
  <1>13. ASSUME NEW c \in Clients, Server!DrainJoins(c) PROVE ServerFlags'
    BY <1>13 DEF Server!DrainJoins
  <1>14. CASE Server!Started BY <1>14 DEF Server!Started
  <1>15. CASE Server!StartFails BY <1>15 DEF Server!StartFails, Server!AsksToStop
  <1>16. CASE Server!StartJoined BY <1>16 DEF Server!StartJoined
  <1>17. CASE Server!StopJoined BY <1>17 DEF Server!StopJoined
  <1>18. CASE Server!Construct BY <1>18 DEF Server!Construct
  <1>19. CASE Server!Dispose BY <1>19 DEF Server!Dispose, Server!AsksToStop
  <1>20. CASE Server!ThreadDies BY <1>20 DEF Server!ThreadDies
  <1>21. ASSUME NEW v \in Server!Configs, Server!SetProperty(v) PROVE ServerFlags'
    BY <1>21 DEF Server!SetProperty, Server!Accepts
  <1>22. ASSUME NEW c \in Clients, NEW r \in Server!Requests, Server!Connect(c, r) PROVE ServerFlags'
    BY <1>22 DEF Server!Connect
  <1> QED
    BY <1>1, <1>2, <1>3, <1>4, <1>5, <1>6, <1>7, <1>8, <1>9, <1>10, <1>11, <1>12, <1>13,
      <1>14, <1>15, <1>16, <1>17, <1>18, <1>19, <1>20, <1>21, <1>22
    DEF Server!Next, Server!Runtime, Server!Tracer

\* The server thread and whom it polls.
LEMMA ServerThreadStep ==
  ASSUME Server!ServerAssumption, ServerInv, Server!Next
  PROVE  ServerThread'
  <1>0. ServerThread BY DEF ServerInv
  <1> USE <1>0 DEF ServerThread, Server!Nobody, Server!Listener, Server!tracerVars,
    Server!flagVars, Server!connVars
  <1>1. CASE Server!ThreadBuilds BY <1>1 DEF Server!ThreadBuilds
  <1>2. CASE Server!ThreadAnnounces BY <1>2 DEF Server!ThreadAnnounces
  <1>3. CASE Server!ListenerStops BY <1>3 DEF Server!ListenerStops
  <1>4. CASE Server!DrainEnds BY <1>4 DEF Server!DrainEnds
  <1>5. CASE Server!ThreadClears BY <1>5 DEF Server!ThreadClears
  <1>6. CASE Server!ThreadExits BY <1>6 DEF Server!ThreadExits
  <1>7. CASE Server!AcceptFails BY <1>7 DEF Server!AcceptFails
  <1>8. ASSUME NEW x \in Clients \union {Server!Listener}, Server!Polls(x) PROVE ServerThread'
    BY <1>8 DEF Server!Polls
  <1>9. ASSUME NEW c \in Clients, Server!Accept(c) PROVE ServerThread' BY <1>9 DEF Server!Accept
  <1>10. ASSUME NEW c \in Clients, Server!Respond(c) PROVE ServerThread' BY <1>10 DEF Server!Respond
  <1>11. ASSUME NEW c \in Clients, Server!GiveUp(c) PROVE ServerThread' BY <1>11 DEF Server!GiveUp
  <1>12. ASSUME NEW c \in Clients, Server!TaskStops(c) PROVE ServerThread'
    BY <1>12 DEF Server!TaskStops
  <1>13. ASSUME NEW c \in Clients, Server!DrainJoins(c) PROVE ServerThread'
    BY <1>13 DEF Server!DrainJoins
  <1>14. CASE Server!Started BY <1>14 DEF Server!Started
  <1>15. CASE Server!StartFails BY <1>15 DEF Server!StartFails
  <1>16. CASE Server!StartJoined BY <1>16 DEF Server!StartJoined
  <1>17. CASE Server!StopJoined BY <1>17 DEF Server!StopJoined
  <1>18. CASE Server!Construct BY <1>18 DEF Server!Construct
  <1>19. CASE Server!Dispose BY <1>19 DEF Server!Dispose
  <1>20. CASE Server!ThreadDies BY <1>20 DEF Server!ThreadDies
  <1>21. ASSUME NEW v \in Server!Configs, Server!SetProperty(v) PROVE ServerThread'
    BY <1>21 DEF Server!SetProperty
  <1>22. ASSUME NEW c \in Clients, NEW r \in Server!Requests, Server!Connect(c, r) PROVE ServerThread'
    BY <1>22 DEF Server!Connect
  <1> QED
    BY <1>1, <1>2, <1>3, <1>4, <1>5, <1>6, <1>7, <1>8, <1>9, <1>10, <1>11, <1>12, <1>13,
      <1>14, <1>15, <1>16, <1>17, <1>18, <1>19, <1>20, <1>21, <1>22
    DEF Server!Next, Server!Runtime, Server!Tracer

\* The tracer and its thread go together.
LEMMA ServerPlacesStep ==
  ASSUME Server!ServerAssumption, ServerInv, Server!Next
  PROVE  ServerPlaces'
  <1>0. ServerPlaces /\ ServerThread /\ ServerFlags BY DEF ServerInv
  <1> USE <1>0 DEF ServerPlaces, Server!Joinable, Server!tracerVars, Server!flagVars, Server!connVars
  <1>1. CASE Server!ThreadBuilds BY <1>1 DEF Server!ThreadBuilds
  <1>2. CASE Server!ThreadAnnounces BY <1>2 DEF Server!ThreadAnnounces
  <1>3. CASE Server!ListenerStops BY <1>3 DEF Server!ListenerStops
  <1>4. CASE Server!DrainEnds BY <1>4 DEF Server!DrainEnds
  <1>5. CASE Server!ThreadClears BY <1>5 DEF Server!ThreadClears
  <1>6. CASE Server!ThreadExits
    <2>1. thread = "dropping" /\ thread' = "exited" /\ ~running
      BY <1>6 DEF Server!ThreadExits
    <2>2. UNCHANGED <<phase, ready, running, config, inForce, stopped>> BY <1>6 DEF Server!ThreadExits
    <2> QED BY <2>1, <2>2
  <1>7. CASE Server!AcceptFails
    <2>1. thread = "serve" /\ thread' = "drain"
      BY <1>7 DEF Server!AcceptFails, ServerInv, ServerPolls, Server!Listener
    <2>2. UNCHANGED <<phase, ready, running, config, inForce, stopped>> BY <1>7 DEF Server!AcceptFails
    <2> QED BY <2>1, <2>2
  <1>8. ASSUME NEW x \in Clients \union {Server!Listener}, Server!Polls(x) PROVE ServerPlaces'
    BY <1>8 DEF Server!Polls
  <1>9. ASSUME NEW c \in Clients, Server!Accept(c) PROVE ServerPlaces' BY <1>9 DEF Server!Accept
  <1>10. ASSUME NEW c \in Clients, Server!Respond(c) PROVE ServerPlaces' BY <1>10 DEF Server!Respond
  <1>11. ASSUME NEW c \in Clients, Server!GiveUp(c) PROVE ServerPlaces' BY <1>11 DEF Server!GiveUp
  <1>12. ASSUME NEW c \in Clients, Server!TaskStops(c) PROVE ServerPlaces'
    BY <1>12 DEF Server!TaskStops
  <1>13. ASSUME NEW c \in Clients, Server!DrainJoins(c) PROVE ServerPlaces'
    BY <1>13 DEF Server!DrainJoins
  <1>14. CASE Server!Started BY <1>14 DEF Server!Started
  <1>15. CASE Server!StartFails BY <1>15 DEF Server!StartFails, Server!AsksToStop
  <1>16. CASE Server!StartJoined BY <1>16 DEF Server!StartJoined
  <1>17. CASE Server!StopJoined
    <2>1. active = 0
      <3>1. Server!Open = {} BY <1>17 DEF Server!StopJoined, ServerInv, ServerPolls, Server!Joinable
      <3> QED BY <3>1, FS_EmptySet DEF ServerInv, ServerCounts
    <2> QED BY <1>17, <2>1 DEF Server!StopJoined
  <1>18. CASE Server!Construct BY <1>18 DEF Server!Construct
  <1>19. CASE Server!Dispose BY <1>19 DEF Server!Dispose, Server!AsksToStop
  <1>20. CASE Server!ThreadDies BY <1>20 DEF Server!ThreadDies
  <1>21. ASSUME NEW v \in Server!Configs, Server!SetProperty(v) PROVE ServerPlaces'
    BY <1>21 DEF Server!SetProperty, Server!Accepts
  <1>22. ASSUME NEW c \in Clients, NEW r \in Server!Requests, Server!Connect(c, r) PROVE ServerPlaces'
    BY <1>22 DEF Server!Connect
  <1> QED
    BY <1>1, <1>2, <1>3, <1>4, <1>5, <1>6, <1>7, <1>8, <1>9, <1>10, <1>11, <1>12, <1>13,
      <1>14, <1>15, <1>16, <1>17, <1>18, <1>19, <1>20, <1>21, <1>22
    DEF Server!Next, Server!Runtime, Server!Tracer

\* What an answer is.
LEMMA Answered ==
  ASSUME ServerClients, NEW c \in Clients, Server!Respond(c)
  PROVE  /\ answer' \in [Clients -> {"none", "ok", "failed", "not found", "not allowed"}]
         /\ answer'[c] # "none" /\ \A d \in Clients \ {c} : answer'[d] = answer[d]
         /\ failures' = IF answer'[c] = "failed" THEN failures + 1 ELSE failures
  <1>1. PICK encoded \in BOOLEAN :
          /\ answer' = [answer EXCEPT ![c] = Server!Response(request[c], encoded)]
          /\ failures' = IF answer'[c] = "failed" THEN failures + 1 ELSE failures
    BY DEF Server!Respond
  <1>2. request[c] \in {"get", "post", "other path"} BY DEF Server!Respond, ServerClients, Server!Requests
  <1>3. Server!Response(request[c], encoded) \in {"ok", "failed", "not found", "not allowed"}
    <2>1. CASE request[c] = "get" BY <2>1 DEF Server!Response
    <2>2. CASE request[c] = "post" BY <2>2 DEF Server!Response
    <2>3. CASE request[c] = "other path" BY <2>3 DEF Server!Response
    <2> QED BY <1>2, <2>1, <2>2, <2>3
  <1>4. PICK a \in {"ok", "failed", "not found", "not allowed"} : a = Server!Response(request[c], encoded)
    BY <1>3
  <1> QED BY <1>1, <1>4 DEF ServerClients

\* Clients, their requests and their answers.
LEMMA ServerClientsStep ==
  ASSUME Server!ServerAssumption, ServerInv, Server!Next
  PROVE  ServerClients'
  <1>0. ServerClients BY DEF ServerInv
  <1> USE <1>0 DEF ServerClients, Server!tracerVars, Server!flagVars, Server!connVars
  <1>1. CASE Server!ThreadBuilds BY <1>1 DEF Server!ThreadBuilds
  <1>2. CASE Server!ThreadAnnounces BY <1>2 DEF Server!ThreadAnnounces
  <1>3. CASE Server!ListenerStops BY <1>3 DEF Server!ListenerStops
  <1>4. CASE Server!DrainEnds BY <1>4 DEF Server!DrainEnds
  <1>5. CASE Server!ThreadClears BY <1>5 DEF Server!ThreadClears
  <1>6. CASE Server!ThreadExits
    <2>1. client' \in [Clients -> {"away", "connecting", "open", "closed"}]
      BY <1>6, Dropping DEF Server!ThreadExits
    <2> QED BY <1>6, <2>1 DEF Server!ThreadExits
  <1>7. CASE Server!AcceptFails BY <1>7 DEF Server!AcceptFails
  <1>8. ASSUME NEW x \in Clients \union {Server!Listener}, Server!Polls(x) PROVE ServerClients'
    BY <1>8 DEF Server!Polls
  <1>9. ASSUME NEW c \in Clients, Server!Accept(c) PROVE ServerClients' BY <1>9 DEF Server!Accept
  <1>10. ASSUME NEW c \in Clients, Server!Respond(c) PROVE ServerClients'
    <2>1. client[c] = "open" BY <1>10 DEF Server!Respond, ServerInv, ServerPolls
    <2>2. client' \in [Clients -> {"away", "connecting", "open", "closed"}]
      BY <1>10, <2>1, Closing DEF Server!Respond
    <2>3. answer' \in [Clients -> {"none", "ok", "failed", "not found", "not allowed"}]
      BY <1>10, Answered DEF Server!Respond
    <2> QED BY <1>10, <2>2, <2>3 DEF Server!Respond
  <1>11. ASSUME NEW c \in Clients, Server!GiveUp(c) PROVE ServerClients'
    <2>1. client[c] = "open" BY <1>11 DEF Server!GiveUp, ServerInv, ServerPolls, Server!Open
    <2>2. client' \in [Clients -> {"away", "connecting", "open", "closed"}]
      BY <1>11, <2>1, Closing DEF Server!GiveUp
    <2> QED BY <1>11, <2>2 DEF Server!GiveUp
  <1>12. ASSUME NEW c \in Clients, Server!TaskStops(c) PROVE ServerClients'
    <2>1. client[c] = "open" BY <1>12 DEF Server!TaskStops, ServerInv, ServerPolls, Server!Open
    <2>2. client' \in [Clients -> {"away", "connecting", "open", "closed"}]
      BY <1>12, <2>1, Closing DEF Server!TaskStops
    <2> QED BY <1>12, <2>2 DEF Server!TaskStops
  <1>13. ASSUME NEW c \in Clients, Server!DrainJoins(c) PROVE ServerClients'
    BY <1>13 DEF Server!DrainJoins
  <1>14. CASE Server!Started BY <1>14 DEF Server!Started
  <1>15. CASE Server!StartFails BY <1>15 DEF Server!StartFails
  <1>16. CASE Server!StartJoined BY <1>16 DEF Server!StartJoined
  <1>17. CASE Server!StopJoined BY <1>17 DEF Server!StopJoined
  <1>18. CASE Server!Construct BY <1>18 DEF Server!Construct
  <1>19. CASE Server!Dispose BY <1>19 DEF Server!Dispose
  <1>20. CASE Server!ThreadDies
    <2>1. client' \in [Clients -> {"away", "connecting", "open", "closed"}]
      BY <1>20, Dropping DEF Server!ThreadDies
    <2> QED BY <1>20, <2>1 DEF Server!ThreadDies
  <1>21. ASSUME NEW v \in Server!Configs, Server!SetProperty(v) PROVE ServerClients'
    BY <1>21 DEF Server!SetProperty
  <1>22. ASSUME NEW c \in Clients, NEW r \in Server!Requests, Server!Connect(c, r) PROVE ServerClients'
    BY <1>22 DEF Server!Connect
  <1> QED
    BY <1>1, <1>2, <1>3, <1>4, <1>5, <1>6, <1>7, <1>8, <1>9, <1>10, <1>11, <1>12, <1>13,
      <1>14, <1>15, <1>16, <1>17, <1>18, <1>19, <1>20, <1>21, <1>22
    DEF Server!Next, Server!Runtime, Server!Tracer

\* Whoever is polled has the thread, and a thread that is gone has no connection.
LEMMA ServerPollsStep ==
  ASSUME Server!ServerAssumption, ServerInv, Server!Next
  PROVE  ServerPolls'
  <1>0. ServerPolls /\ ServerThread /\ ServerPlaces BY DEF ServerInv
  <1>a. CASE UNCHANGED <<thread, polled, client>>
    BY <1>0, <1>a DEF ServerPolls, Server!Open
  <1>0a. Server!Nobody \notin Clients \union {Server!Listener}
    BY DEF Server!ServerAssumption, Server!Nobody, Server!Listener
  <1> USE <1>0, <1>0a DEF ServerPolls, ServerThread, Server!Joinable, Server!Nobody, Server!Listener,
    Server!ServerAssumption, Server!tracerVars, Server!flagVars, Server!connVars
  <1>1. CASE Server!ThreadBuilds
    <2>1. /\ thread = "build" /\ thread' \in {"announce", "exited"}
          /\ UNCHANGED <<client, polled>>
      BY <1>1 DEF Server!ThreadBuilds
    <2>2. Server!Open' = Server!Open BY <2>1 DEF Server!Open
    <2> QED BY <2>1, <2>2
  <1>2. CASE Server!ThreadAnnounces BY <1>2 DEF Server!ThreadAnnounces, Server!Open
  <1>3. CASE Server!ListenerStops BY <1>3 DEF Server!ListenerStops, Server!Open
  <1>4. CASE Server!DrainEnds BY <1>4 DEF Server!DrainEnds, Server!Open
  <1>5. CASE Server!ThreadClears BY <1>5 DEF Server!ThreadClears, Server!Open
  <1>6. CASE Server!ThreadExits
    <2>1. Server!Open' = {} BY <1>6, Dropping DEF Server!ThreadExits
    <2>2. polled' \notin Clients \union {"listener"}
      BY <1>6 DEF Server!ThreadExits, ServerThread
    <2> QED BY <2>1, <2>2
  <1>7. CASE Server!AcceptFails BY <1>7 DEF Server!AcceptFails, Server!Open
  <1>8. ASSUME NEW x \in Clients \union {Server!Listener}, Server!Polls(x) PROVE ServerPolls'
    <2>1. /\ polled' = x /\ UNCHANGED <<client, thread>>
          /\ \/ x = "listener" /\ thread = "serve"
             \/ x \in Clients /\ client[x] = "open" /\ thread \in {"serve", "drain"}
      BY <1>8 DEF Server!Polls, Server!Open
    <2>2. Server!Open' = Server!Open BY <2>1 DEF Server!Open
    <2> QED BY <2>1, <2>2
  <1>9. ASSUME NEW c \in Clients, Server!Accept(c) PROVE ServerPolls'
    <2>1. thread = "serve" /\ thread' = thread /\ polled' = Server!Nobody
      BY <1>9 DEF Server!Accept
    <2> QED BY <2>1
  <1>10. ASSUME NEW c \in Clients, Server!Respond(c) PROVE ServerPolls'
    <2>1. client[c] = "open" BY <1>10 DEF Server!Respond, ServerInv, ServerPolls, Server!Open
    <2>2. Server!Open' = Server!Open \ {c} BY <1>10, <2>1, Closing DEF Server!Respond
    <2>3. polled' = Server!Nobody /\ thread' = thread BY <1>10 DEF Server!Respond
    <2> QED BY <2>2, <2>3
  <1>11. ASSUME NEW c \in Clients, Server!GiveUp(c) PROVE ServerPolls'
    <2>1. client[c] = "open" BY <1>11 DEF Server!GiveUp, ServerInv, ServerPolls, Server!Open
    <2>2. Server!Open' = Server!Open \ {c} BY <1>11, <2>1, Closing DEF Server!GiveUp
    <2>3. polled' = Server!Nobody /\ thread' = thread BY <1>11 DEF Server!GiveUp
    <2> QED BY <2>2, <2>3
  <1>12. ASSUME NEW c \in Clients, Server!TaskStops(c) PROVE ServerPolls'
    <2>1. client[c] = "open" BY <1>12 DEF Server!TaskStops, ServerInv, ServerPolls, Server!Open
    <2>2. Server!Open' = Server!Open \ {c} BY <1>12, <2>1, Closing DEF Server!TaskStops
    <2>3. polled' = Server!Nobody /\ thread' = thread BY <1>12 DEF Server!TaskStops
    <2> QED BY <2>2, <2>3
  <1>13. ASSUME NEW c \in Clients, Server!DrainJoins(c) PROVE ServerPolls'
    BY <1>13 DEF Server!DrainJoins, Server!Open
  <1>14. CASE Server!Started BY <1>14, <1>a DEF Server!Started
  <1>15. CASE Server!StartFails BY <1>15, <1>a DEF Server!StartFails
  <1>16. CASE Server!StartJoined BY <1>16, <1>a DEF Server!StartJoined
  <1>17. CASE Server!StopJoined BY <1>17, <1>a DEF Server!StopJoined
  <1>18. CASE Server!Construct
    <2>1. /\ thread = "none" /\ thread' \in {"build", "none"} /\ UNCHANGED <<client, polled>>
      BY <1>18 DEF Server!Construct, ServerPlaces
    <2>2. Server!Open' = Server!Open BY <2>1 DEF Server!Open
    <2> QED BY <2>1, <2>2
  <1>19. CASE Server!Dispose BY <1>19, <1>a DEF Server!Dispose
  <1>20. CASE Server!ThreadDies
    <2>1. Server!Open' = {} BY <1>20, Dropping DEF Server!ThreadDies
    <2>2. polled' \notin Clients \union {"listener"}
      BY <1>20 DEF Server!ThreadDies, ServerThread
    <2> QED BY <2>1, <2>2
  <1>21. ASSUME NEW v \in Server!Configs, Server!SetProperty(v) PROVE ServerPolls'
    BY <1>21, <1>a DEF Server!SetProperty
  <1>22. ASSUME NEW c \in Clients, NEW r \in Server!Requests, Server!Connect(c, r) PROVE ServerPolls'
    <2>1. thread \in {"build", "announce", "serve"} /\ UNCHANGED <<thread, polled>>
      BY <1>22 DEF Server!Connect
    <2>2. \A d \in Clients : client[d] = "open" <=> client'[d] = "open"
      BY <1>22 DEF Server!Connect, ServerInv, ServerClients
    <2>3. Server!Open' = Server!Open BY <2>2 DEF Server!Open
    <2> QED BY <2>1, <2>2, <2>3
  <1> QED
    BY <1>1, <1>2, <1>3, <1>4, <1>5, <1>6, <1>7, <1>8, <1>9, <1>10, <1>11, <1>12, <1>13,
      <1>14, <1>15, <1>16, <1>17, <1>18, <1>19, <1>20, <1>21, <1>22
    DEF Server!Next, Server!Runtime, Server!Tracer

\* Connections are counted while they are open, and failed answers once.
LEMMA ServerCountsStep ==
  ASSUME Server!ServerAssumption, ServerInv, Server!Next
  PROVE  ServerCounts'
  <1>0. ServerCounts BY DEF ServerInv
  <1>a. CASE UNCHANGED Server!connVars
    BY <1>0, <1>a DEF ServerCounts, Server!connVars, Server!Open, FailedClients
  <1> USE <1>0 DEF ServerCounts, Server!tracerVars, Server!flagVars, Server!connVars
  <1>1. CASE Server!ThreadBuilds BY <1>1, <1>a DEF Server!ThreadBuilds
  <1>2. CASE Server!ThreadAnnounces BY <1>2, <1>a DEF Server!ThreadAnnounces
  <1>3. CASE Server!ListenerStops BY <1>3, <1>a DEF Server!ListenerStops
  <1>4. CASE Server!DrainEnds BY <1>4, <1>a DEF Server!DrainEnds
  <1>5. CASE Server!ThreadClears BY <1>5, <1>a DEF Server!ThreadClears
  <1>6. CASE Server!ThreadExits
    <2>1. /\ \A d \in Clients : client'[d] \in {client[d], "closed"}
          /\ Server!Open' = {} /\ active' = 0 /\ tasks' = {}
      BY <1>6, Dropping DEF Server!ThreadExits
    <2>2. UNCHANGED <<answer, failures>> BY <1>6 DEF Server!ThreadExits
    <2>3. Cardinality({}) = 0 BY FS_EmptySet
    <2> QED BY <2>1, <2>2, <2>3 DEF FailedClients
  <1>7. CASE Server!AcceptFails BY <1>7, <1>a DEF Server!AcceptFails
  <1>8. ASSUME NEW x \in Clients \union {Server!Listener}, Server!Polls(x) PROVE ServerCounts'
    BY <1>8, <1>a DEF Server!Polls
  <1>9. ASSUME NEW c \in Clients, Server!Accept(c) PROVE ServerCounts'
    <2>1. /\ client[c] = "connecting" /\ client' = [client EXCEPT ![c] = "open"]
          /\ active' = active + 1 /\ tasks' = (tasks \intersect Server!Open) \union {c}
          /\ UNCHANGED <<answer, failures>>
      BY <1>9 DEF Server!Accept
    <2>2. client'[c] = "open" /\ \A d \in Clients \ {c} : client'[d] = client[d]
      BY <2>1 DEF ServerInv, ServerClients
    <2>3. Server!Open' = Server!Open \union {c} BY <2>2 DEF Server!Open
    <2>4. c \notin Server!Open /\ Server!Open \subseteq Clients BY <2>1 DEF Server!Open
    <2>5. Cardinality(Server!Open \union {c}) = Cardinality(Server!Open) + 1 BY <2>4, ClientsCounted
    <2> QED BY <2>1, <2>2, <2>3, <2>5 DEF FailedClients
  <1>10. ASSUME NEW c \in Clients, Server!Respond(c) PROVE ServerCounts'
    <2>1. client[c] = "open" BY <1>10 DEF Server!Respond, ServerInv, ServerPolls
    <2>2. /\ client'[c] = "closed" /\ \A d \in Clients \ {c} : client'[d] = client[d]
          /\ Server!Open' = Server!Open \ {c} /\ active' = Cardinality(Server!Open')
      BY <1>10, <2>1, Closing DEF Server!Respond
    <2>3. UNCHANGED tasks BY <1>10 DEF Server!Respond
    <2>4. /\ answer'[c] # "none" /\ \A d \in Clients \ {c} : answer'[d] = answer[d]
          /\ failures' = IF answer'[c] = "failed" THEN failures + 1 ELSE failures
      BY <1>10, Answered DEF ServerInv
    <2>5. FailedClients \subseteq Clients /\ c \notin FailedClients BY <2>1 DEF FailedClients
    <2>6. failures' = Cardinality(FailedClients')
      <3>1. CASE answer'[c] = "failed"
        <4>1. FailedClients' = FailedClients \union {c} BY <2>4, <3>1 DEF FailedClients
        <4>2. Cardinality(FailedClients \union {c}) = Cardinality(FailedClients) + 1
          BY <2>5, ClientsCounted
        <4> QED BY <2>4, <3>1, <4>1, <4>2
      <3>2. CASE answer'[c] # "failed"
        <4>1. FailedClients' = FailedClients BY <2>4, <2>5, <3>2 DEF FailedClients
        <4> QED BY <2>4, <3>2, <4>1
      <3> QED BY <3>1, <3>2
    <2> QED BY <2>2, <2>3, <2>4, <2>6
  <1>11. ASSUME NEW c \in Clients, Server!GiveUp(c) PROVE ServerCounts'
    <2>1. client[c] = "open" BY <1>11 DEF Server!GiveUp, ServerInv, ServerPolls, Server!Open
    <2>2. /\ client'[c] = "closed" /\ \A d \in Clients \ {c} : client'[d] = client[d]
          /\ Server!Open' = Server!Open \ {c} /\ active' = Cardinality(Server!Open')
      BY <1>11, <2>1, Closing DEF Server!GiveUp
    <2>3. UNCHANGED <<answer, failures, tasks>> BY <1>11 DEF Server!GiveUp
    <2> QED BY <2>2, <2>3 DEF FailedClients
  <1>12. ASSUME NEW c \in Clients, Server!TaskStops(c) PROVE ServerCounts'
    <2>1. client[c] = "open" BY <1>12 DEF Server!TaskStops, ServerInv, ServerPolls, Server!Open
    <2>2. /\ client'[c] = "closed" /\ \A d \in Clients \ {c} : client'[d] = client[d]
          /\ Server!Open' = Server!Open \ {c} /\ active' = Cardinality(Server!Open')
      BY <1>12, <2>1, Closing DEF Server!TaskStops
    <2>3. UNCHANGED <<answer, failures, tasks>> BY <1>12 DEF Server!TaskStops
    <2> QED BY <2>2, <2>3 DEF FailedClients
  <1>13. ASSUME NEW c \in Clients, Server!DrainJoins(c) PROVE ServerCounts'
    <2>1. tasks' = tasks \ {c} /\ c \notin Server!Open /\ UNCHANGED <<client, active, answer, failures>>
      BY <1>13 DEF Server!DrainJoins
    <2>2. UNCHANGED <<Server!Open, FailedClients>> BY <2>1 DEF Server!Open, FailedClients
    <2> QED BY <2>1, <2>2
  <1>14. CASE Server!Started BY <1>14, <1>a DEF Server!Started
  <1>15. CASE Server!StartFails BY <1>15, <1>a DEF Server!StartFails
  <1>16. CASE Server!StartJoined BY <1>16, <1>a DEF Server!StartJoined
  <1>17. CASE Server!StopJoined BY <1>17, <1>a DEF Server!StopJoined
  <1>18. CASE Server!Construct BY <1>18, <1>a DEF Server!Construct
  <1>19. CASE Server!Dispose BY <1>19, <1>a DEF Server!Dispose
  <1>20. CASE Server!ThreadDies
    <2>1. /\ \A d \in Clients : client'[d] \in {client[d], "closed"}
          /\ Server!Open' = {} /\ active' = 0 /\ tasks' = {}
      BY <1>20, Dropping DEF Server!ThreadDies
    <2>2. UNCHANGED <<answer, failures>> BY <1>20 DEF Server!ThreadDies
    <2>3. Cardinality({}) = 0 BY FS_EmptySet
    <2> QED BY <2>1, <2>2, <2>3 DEF FailedClients
  <1>21. ASSUME NEW v \in Server!Configs, Server!SetProperty(v) PROVE ServerCounts'
    BY <1>21, <1>a DEF Server!SetProperty
  <1>22. ASSUME NEW c \in Clients, NEW r \in Server!Requests, Server!Connect(c, r) PROVE ServerCounts'
    <2>1. /\ client[c] = "away" /\ client' = [client EXCEPT ![c] = "connecting"]
          /\ UNCHANGED <<active, tasks, answer, failures>>
      BY <1>22 DEF Server!Connect
    <2>2. client'[c] = "connecting" /\ \A d \in Clients \ {c} : client'[d] = client[d]
      BY <2>1 DEF ServerInv, ServerClients
    <2>3. Server!Open' = Server!Open BY <2>1, <2>2 DEF Server!Open
    <2> QED BY <2>1, <2>2, <2>3 DEF FailedClients
  <1> QED
    BY <1>1, <1>2, <1>3, <1>4, <1>5, <1>6, <1>7, <1>8, <1>9, <1>10, <1>11, <1>12, <1>13,
      <1>14, <1>15, <1>16, <1>17, <1>18, <1>19, <1>20, <1>21, <1>22
    DEF Server!Next, Server!Runtime, Server!Tracer

\* No step of any part breaks the server's invariant.
LEMMA ServerNextInv ==
  ASSUME Server!ServerAssumption, ServerInv, [Next]_tracersVars
  PROVE  ServerInv'
  <1>1. CASE OnlyOf("server") /\ Server!Next
    BY <1>1, ServerFlagsStep, ServerThreadStep, ServerPlacesStep, ServerClientsStep, ServerPollsStep,
       ServerCountsStep
    DEF ServerInv
  <1>2. CASE UNCHANGED serverVars
    <2> USE DEF serverVars
    <2>1. ServerFlags' BY <1>2 DEF ServerInv, ServerFlags
    <2>2. ServerThread' /\ ServerClients' BY <1>2 DEF ServerInv, ServerThread, ServerClients
    <2>3. ServerPlaces' BY <1>2 DEF ServerInv, ServerPlaces, Server!Joinable
    <2>4. Server!Open' = Server!Open /\ FailedClients' = FailedClients
      BY <1>2 DEF Server!Open, FailedClients
    <2>5. ServerPolls' BY <1>2, <2>4 DEF ServerInv, ServerPolls
    <2>6. ServerCounts' BY <1>2, <2>4 DEF ServerInv, ServerCounts
    <2> QED BY <2>1, <2>2, <2>3, <2>5, <2>6 DEF ServerInv
  <1>3. CASE OnlyOf("worker") \/ OnlyOf("series") \/ OnlyOf("pipelines") \/ OnlyOf("identities")
             \/ OnlyOf("limits") \/ OnlyOf("intervals")
    BY <1>2, <1>3 DEF OnlyOf
  <1>4. CASE UNCHANGED tracersVars BY <1>2, <1>4 DEF tracersVars
  <1> QED BY <1>1, <1>3, <1>4 DEF Next

\* The invariant says what an observer may rely on.
LEMMA ServerInvTells ==
  ASSUME Server!ServerAssumption, ServerInv
  PROVE  Server!ServerConsistent
  <1>0. \A S : Server!Cardinality(S) = Cardinality(S) BY DEF Server!Cardinality, Cardinality
  <1>1. Cardinality(Server!Open) \in Nat /\ Cardinality(FailedClients) \in Nat
    BY ClientsCounted DEF Server!Open, FailedClients
  <1>2. Server!TypeOK
    BY <1>1 DEF ServerInv, ServerFlags, ServerThread, ServerClients, ServerCounts, Server!TypeOK,
      Server!Nobody, Server!Listener
  <1>3. Server!ActiveIsExact BY <1>0 DEF ServerInv, ServerCounts, Server!ActiveIsExact
  <1>4. Server!NothingLeft
    BY DEF ServerInv, ServerPlaces, ServerPolls, Server!NothingLeft, Server!Joinable
  <1>5. Server!StatusIsTrue
    BY DEF ServerInv, ServerPlaces, ServerThread, Server!StatusIsTrue
  <1>6. Server!FailuresCounted
    BY <1>0 DEF ServerInv, ServerCounts, FailedClients, Server!FailuresCounted
  <1> QED BY <1>2, <1>3, <1>4, <1>5, <1>6 DEF Server!ServerConsistent

\* The server of the prometheus tracer: its count of connections is exact, nothing
\* is left of it once dispose() or a failed start is over, its status is true and
\* every failed encoding is counted, for any number of clients and property writes,
\* with and without a thread that dies.
THEOREM ServerStaysConsistent ==
  Spec => []ServerConsistent
  <1>0. Server!ServerAssumption BY TracersAssumption DEF TracersAssumption
  <1>1. Init => ServerInv BY <1>0, ServerInitInv DEF Init
  <1>2. ServerInv /\ [Next]_tracersVars => ServerInv' BY <1>0, ServerNextInv
  <1>3. ServerInv => ServerConsistent BY <1>0, ServerInvTells DEF ServerConsistent
  <1> QED BY <1>1, <1>2, <1>3, PTL DEF Spec

-----------------------------------------------------------------------------
(***************************************************************************)
(* The pad series of the prometheus tracer. The lock makes the cap exact;  *)
(* every new series is paid for by a push that registers; a label set in   *)
(* the families has a pad that is tracked under it; and each push in       *)
(* flight has a number of its own, that no entry has counted yet.          *)
(***************************************************************************)
SeriesMaps ==
  /\ entries \in [Pads -> Series!Entries] /\ robbed \subseteq Pads
  /\ family \in [Series!Labels -> {0} \union Series!SeriesIds]
SeriesThreads ==
  /\ at \in [Pushers -> Pads] /\ with \in [Pushers -> Series!Entries]
  /\ pusher \in [Pushers -> {"idle", "register", "count"}]
  /\ holder \in Pushers \union {"nobody"}
SeriesTallies ==
  /\ count \in [Series!SeriesIds -> Nat] /\ untracked \in Nat
  /\ fate \in [1..MaxPushes -> Series!Fates]
SeriesPads ==
  /\ parented \in [Pads -> BOOLEAN] /\ alive \in [Pads -> BOOLEAN] /\ changes \in 0..MaxChanges

\* The count is that of the tracked pads, and does not exceed the limit.
SeriesCap ==
  /\ IsFiniteSet(Series!TrackedPads) /\ trackedCount = Cardinality(Series!TrackedPads)
  /\ trackedCount \in 0..MaxSeries

\* A thread that registers may need a series, and there are as many as pushes.
Registering == {t \in Pushers : pusher[t] = "register"}
SeriesNumbers ==
  /\ nextSeries \in Nat \ {0} /\ pushed \in 0..MaxPushes
  /\ IsFiniteSet(Registering) /\ nextSeries - 1 + Cardinality(Registering) <= pushed

\* The families and the map, and the pads and the threads on them.
SeriesFamily ==
  /\ \A l \in Series!Labels : family[l] # 0 =>
       \E p \in Series!TrackedPads : Series!LabelsOf[p] = l /\ entries[p].series = family[l]
  /\ \A p \in Series!TrackedPads \ robbed : family[Series!LabelsOf[p]] = entries[p].series
SeriesAlive ==
  /\ \A p \in Pads : ~alive[p] => entries[p] = Series!Absent
  /\ \A t \in Pushers : pusher[t] # "idle" => alive[at[t]]

\* Pushes in flight, ...
SeriesInFlight ==
  /\ push \in [Pushers -> 0..MaxPushes]
  /\ \A t \in Pushers :
       /\ pusher[t] = "idle" <=> push[t] = 0
       /\ push[t] # 0 => push[t] <= pushed /\ fate[push[t]] = Series!InFlight
       /\ pusher[t] = "count" => with[t] # Series!Absent
  /\ \A t, u \in Pushers : push[t] = push[u] => t = u \/ push[t] = 0
  /\ \A n \in 1..MaxPushes :
       fate[n] = Series!InFlight <=> (n > pushed \/ \E t \in Pushers : push[t] = n)

\* ... and the others, by the entry that counted them.
SeriesCounted ==
  /\ \A s \in Series!SeriesIds : count[s] = Cardinality(Series!CountedBy(Series!TrackedAs(s)))
  /\ untracked = Cardinality(Series!CountedBy(Series!SeriesLimit))

SeriesInv ==
  /\ SeriesMaps /\ SeriesThreads /\ SeriesTallies /\ SeriesPads /\ SeriesCap /\ SeriesNumbers
  /\ SeriesFamily /\ SeriesAlive /\ SeriesInFlight /\ SeriesCounted

\* The entries apart.
LEMMA EntriesApart ==
  /\ \A e \in Series!Entries :
       /\ e.kind \in {"absent", "filtered", "limit", "tracked"}
       /\ e.kind = "tracked" <=> (e.series \in Series!SeriesIds /\ e = Series!TrackedAs(e.series))
       /\ e.kind = "limit" <=> e = Series!SeriesLimit
       /\ e.kind = "absent" <=> e = Series!Absent
       /\ e # Series!Absent => e \in Series!Fates
       /\ e # Series!InFlight /\ e # Series!Parentless
  /\ \A s \in Series!SeriesIds :
       /\ Series!TrackedAs(s) \in Series!Entries
       /\ Series!TrackedAs(s).kind = "tracked" /\ Series!TrackedAs(s).series = s
       /\ \A r \in Series!SeriesIds : Series!TrackedAs(r) = Series!TrackedAs(s) => r = s
  /\ Series!Absent \in Series!Entries /\ Series!Filtered \in Series!Entries
  /\ Series!SeriesLimit \in Series!Entries
  /\ Series!InFlight \in Series!Fates /\ Series!Parentless \in Series!Fates
  /\ Series!InFlight # Series!Parentless
  <1> USE DEF Series!Absent, Series!Filtered, Series!SeriesLimit, Series!TrackedAs,
    Series!InFlight, Series!Parentless
  <1>1. ASSUME NEW e \in Series!Entries
        PROVE  /\ e.kind \in {"absent", "filtered", "limit", "tracked"}
               /\ e.kind = "tracked" <=> (e.series \in Series!SeriesIds /\ e = Series!TrackedAs(e.series))
               /\ e.kind = "limit" <=> e = Series!SeriesLimit
               /\ e.kind = "absent" <=> e = Series!Absent
               /\ e # Series!Absent => e \in Series!Fates
               /\ e # Series!InFlight /\ e # Series!Parentless
    <2>1. ASSUME NEW s \in Series!SeriesIds, e = Series!TrackedAs(s)
          PROVE  e.kind = "tracked" /\ e.series = s
      BY <2>1
    <2>2. e \in {Series!Absent, Series!Filtered, Series!SeriesLimit} \/
            \E s \in Series!SeriesIds : e = Series!TrackedAs(s)
      BY DEF Series!Entries
    <2>3. e.kind \in {"absent", "filtered", "limit", "tracked"} BY <2>1, <2>2
    <2>4. e.kind = "tracked" => (e.series \in Series!SeriesIds /\ e = Series!TrackedAs(e.series))
      BY <2>1, <2>2
    <2>5. e.kind = "limit" <=> e = Series!SeriesLimit BY <2>1, <2>2
    <2>6. e.kind = "absent" <=> e = Series!Absent BY <2>1, <2>2
    <2>7. e # Series!Absent => e \in Series!Fates BY DEF Series!Fates
    <2>7a. Series!InFlight.kind = "in flight" /\ Series!Parentless.kind = "parentless" OBVIOUS
    <2>8. e # Series!InFlight /\ e # Series!Parentless
      <3> HIDE DEF Series!InFlight, Series!Parentless
      <3> QED BY <2>3, <2>7a
    <2>9. (e.series \in Series!SeriesIds /\ e = Series!TrackedAs(e.series)) => e.kind = "tracked"
      BY <2>1
    <2> QED BY <2>3, <2>4, <2>5, <2>6, <2>7, <2>8, <2>9
  <1>2. ASSUME NEW s \in Series!SeriesIds
        PROVE  /\ Series!TrackedAs(s) \in Series!Entries
               /\ Series!TrackedAs(s).kind = "tracked" /\ Series!TrackedAs(s).series = s
               /\ \A r \in Series!SeriesIds : Series!TrackedAs(r) = Series!TrackedAs(s) => r = s
    BY DEF Series!Entries
  <1>3. /\ Series!Absent \in Series!Entries /\ Series!Filtered \in Series!Entries
        /\ Series!SeriesLimit \in Series!Entries
    BY DEF Series!Entries
  <1>4. Series!InFlight \in Series!Fates /\ Series!Parentless \in Series!Fates BY DEF Series!Fates
  <1>5. Series!InFlight # Series!Parentless OBVIOUS
  <1> QED BY <1>1, <1>2, <1>3, <1>4, <1>5

\* Pads have labels.
LEMMA PadsHaveLabels ==
  \A p \in Pads : Series!LabelsOf[p] \in Series!Labels
  BY DEF Series!Labels, Series!Range, Series!LabelsOf

\* Sets of pushes are finite, and one more push counts one more.
LEMMA PushesAreFinite ==
  ASSUME Series!SeriesAssumption
  PROVE  /\ \A S \in SUBSET (1..MaxPushes) :
              /\ IsFiniteSet(S) /\ Cardinality(S) \in Nat
              /\ \A n \in 1..MaxPushes : n \notin S => Cardinality(S \union {n}) = Cardinality(S) + 1
         /\ \A e : Series!CountedBy(e) \in SUBSET (1..MaxPushes)
  <1>1. IsFiniteSet(1..MaxPushes) BY FS_Interval DEF Series!SeriesAssumption
  <1>2. ASSUME NEW S \in SUBSET (1..MaxPushes)
        PROVE  /\ IsFiniteSet(S) /\ Cardinality(S) \in Nat
               /\ \A n \in 1..MaxPushes : n \notin S => Cardinality(S \union {n}) = Cardinality(S) + 1
    <2>1. IsFiniteSet(S) BY <1>1, FS_Subset
    <2> QED BY <2>1, FS_CardinalityType, FS_AddElement
  <1>3. \A e : Series!CountedBy(e) \in SUBSET (1..MaxPushes) BY DEF Series!CountedBy
  <1> QED BY <1>2, <1>3

\* The map and the counters begin with the invariant.
LEMMA SeriesInitInv ==
  ASSUME Series!SeriesAssumption, Series!Init
  PROVE  SeriesInv
  <1> USE DEF Series!Init
  <1>0. MaxSeries \in Nat /\ MaxPushes \in Nat /\ MaxChanges \in Nat BY DEF Series!SeriesAssumption
  <1>1. SeriesMaps
    <2>1. robbed = {} /\ entries \in [Pads -> Series!Entries] BY EntriesApart
    <2> QED BY <2>1 DEF SeriesMaps
  <1>2. SeriesThreads
    <2>1. Series!SomePad \in Pads BY DEF Series!SomePad, Series!SeriesAssumption
    <2>2. at \in [Pushers -> Pads] BY <2>1
    <2>3. with \in [Pushers -> Series!Entries] BY EntriesApart
    <2> QED BY <2>2, <2>3 DEF SeriesThreads
  <1>3. SeriesTallies
    <2>1. fate \in [1..MaxPushes -> Series!Fates] BY EntriesApart
    <2> QED BY <2>1 DEF SeriesTallies
  <1>4. SeriesPads BY <1>0 DEF SeriesPads
  <1>5. SeriesCap
    <2>1. Series!TrackedPads = {} BY DEF Series!TrackedPads, Series!Absent
    <2> QED BY <1>0, <2>1, FS_EmptySet DEF SeriesCap
  <1>6. SeriesNumbers
    <2>1. Registering = {} BY DEF Registering
    <2> QED BY <1>0, <2>1, FS_EmptySet DEF SeriesNumbers
  <1>7. SeriesFamily
    <2>1. Series!TrackedPads = {} BY DEF Series!TrackedPads, Series!Absent
    <2> QED BY <2>1 DEF SeriesFamily
  <1>8. SeriesAlive BY DEF SeriesAlive
  <1>9. SeriesInFlight
    <2>1. push \in [Pushers -> 0..MaxPushes] /\ \A t \in Pushers : push[t] = 0 BY <1>0
    <2>2. \A t \in Pushers : pusher[t] = "idle" OBVIOUS
    <2>3. \A n \in 1..MaxPushes : n > pushed /\ fate[n] = Series!InFlight BY <1>0
    <2> QED BY <2>1, <2>2, <2>3 DEF SeriesInFlight
  <1>10. SeriesCounted
    <2>1. \A e \in Series!Entries : Series!CountedBy(e) = {}
      BY EntriesApart DEF Series!CountedBy
    <2>2. Cardinality({}) = 0 BY FS_EmptySet
    <2>3. \A s \in Series!SeriesIds : Series!CountedBy(Series!TrackedAs(s)) = {} BY <2>1, EntriesApart
    <2>4. Series!CountedBy(Series!SeriesLimit) = {} BY <2>1, EntriesApart
    <2> QED BY <2>2, <2>3, <2>4 DEF SeriesCounted
  <1> QED BY <1>1, <1>2, <1>3, <1>4, <1>5, <1>6, <1>7, <1>8, <1>9, <1>10 DEF SeriesInv

\* A thread that registers finds an entry, or makes one.
Found(e, p) == entries[p] = e /\ UNCHANGED <<trackedCount, family, nextSeries>>
Ignores(e, p) ==
  /\ entries[p] = Series!Absent /\ e \in {Series!Filtered, Series!SeriesLimit}
  /\ UNCHANGED <<trackedCount, family, nextSeries>>
Tracks(e, p) ==
  /\ entries[p] = Series!Absent /\ e.kind = "tracked"
  /\ e.series = Series!SeriesOf(Series!LabelsOf[p])
  /\ trackedCount < MaxSeries /\ trackedCount' = trackedCount + 1
  /\ family' = [family EXCEPT ![Series!LabelsOf[p]] = e.series]
  /\ nextSeries' = IF e.series = nextSeries THEN nextSeries + 1 ELSE nextSeries

\* What registering is, as one of the three.
LEMMA Registers ==
  ASSUME Series!SeriesAssumption, SeriesInv, NEW t \in Pushers, Series!Register(t)
  PROVE  /\ at[t] \in Pads /\ pusher[t] = "register"
         /\ \E e \in Series!Entries :
              /\ e # Series!Absent /\ with' = [with EXCEPT ![t] = e]
              /\ entries' = [entries EXCEPT ![at[t]] = e]
              /\ Found(e, at[t]) \/ Ignores(e, at[t]) \/ Tracks(e, at[t])
  <1>1. at[t] \in Pads /\ pusher[t] = "register" BY DEF Series!Register, SeriesInv, SeriesThreads
  <1> DEFINE p == at[t]
             l == Series!LabelsOf[p]
             new == IF Series!IsNew(p) THEN Series!NewEntry(p) ELSE entries[p]
             tracks == Series!IsNew(p) /\ new.kind = "tracked"
  <1>2. /\ with' = [with EXCEPT ![t] = new] /\ entries' = [entries EXCEPT ![p] = new]
        /\ trackedCount' = IF tracks THEN trackedCount + 1 ELSE trackedCount
        /\ family' = IF tracks THEN [family EXCEPT ![l] = new.series] ELSE family
        /\ nextSeries' = IF tracks /\ new.series = nextSeries THEN nextSeries + 1 ELSE nextSeries
    BY DEF Series!Register
  <1>3. CASE ~Series!IsNew(p)
    <2>1. new = entries[p] /\ ~tracks BY <1>3
    <2>2. new \in Series!Entries /\ new # Series!Absent
      BY <1>1, <1>3, <2>1 DEF Series!IsNew, SeriesInv, SeriesMaps
    <2> HIDE DEF new
    <2>3. Found(new, p) BY <1>2, <2>1 DEF Found
    <2> QED BY <1>1, <1>2, <2>2, <2>3
  <1>4. CASE Series!IsNew(p)
    <2>0. new = Series!NewEntry(p) /\ entries[p] = Series!Absent BY <1>4 DEF Series!IsNew
    <2>1. Series!Kind(p) \in {"filtered", "limit", "tracked"} BY DEF Series!Kind
    <2>2. CASE Series!Kind(p) \in {"filtered", "limit"}
      <3>1. new \in {Series!Filtered, Series!SeriesLimit} BY <2>0, <2>2 DEF Series!NewEntry
      <3>2. new.kind # "tracked" BY <3>1 DEF Series!Filtered, Series!SeriesLimit
      <3>3. new \in Series!Entries /\ new # Series!Absent
        BY <3>1, EntriesApart DEF Series!Filtered, Series!SeriesLimit, Series!Absent
      <3> HIDE DEF new
      <3>4. Ignores(new, p) BY <1>2, <2>0, <3>1, <3>2 DEF Ignores
      <3> QED BY <1>1, <1>2, <3>3, <3>4
    <2>3. CASE Series!Kind(p) = "tracked"
      <3>1. new = Series!TrackedAs(Series!SeriesOf(l)) BY <2>0, <2>3 DEF Series!NewEntry
      <3>2. ~(trackedCount >= MaxSeries) BY <2>3 DEF Series!Kind
      <3>3. trackedCount < MaxSeries
        BY <3>2 DEF SeriesInv, SeriesCap, Series!SeriesAssumption
      <3>4. l \in Series!Labels BY <1>1, PadsHaveLabels
      <3>5. nextSeries <= MaxPushes
        <4>1. t \in Registering BY <1>1 DEF Registering
        <4>2. Cardinality(Registering) \in Nat /\ Cardinality(Registering) # 0
          BY <4>1, FS_CardinalityType, FS_EmptySet DEF SeriesInv, SeriesNumbers
        <4> DEFINE k == Cardinality(Registering)
        <4>3. k \in Nat /\ k # 0 /\ nextSeries - 1 + k <= pushed BY <4>2 DEF SeriesInv, SeriesNumbers
        <4> HIDE DEF k
        <4>4. nextSeries \in Nat /\ pushed \in 0..MaxPushes /\ MaxPushes \in Nat
          BY DEF SeriesInv, SeriesNumbers, Series!SeriesAssumption
        <4> QED BY <4>3, <4>4
      <3>6. Series!SeriesOf(l) \in Series!SeriesIds
        <4>1. family[l] \in {0} \union Series!SeriesIds BY <3>4 DEF SeriesInv, SeriesMaps
        <4>2. nextSeries \in Nat \ {0} /\ MaxPushes \in Nat
          BY DEF SeriesInv, SeriesNumbers, Series!SeriesAssumption
        <4> QED BY <3>5, <4>1, <4>2 DEF Series!SeriesOf, Series!SeriesIds
      <3>7. /\ new \in Series!Entries /\ new # Series!Absent /\ new.kind = "tracked"
            /\ new.series = Series!SeriesOf(l)
        BY <3>1, <3>6, EntriesApart DEF Series!Absent, Series!TrackedAs
      <3> HIDE DEF new
      <3>8. Tracks(new, p) BY <1>2, <1>4, <2>0, <3>3, <3>7 DEF Tracks
      <3> QED BY <1>1, <1>2, <3>7, <3>8
    <2> QED BY <2>1, <2>2, <2>3
  <1> QED BY <1>3, <1>4

\* The tracked pads after an entry was put into the map.
LEMMA TrackedPadsNow ==
  ASSUME SeriesMaps, NEW p \in Pads, NEW e \in Series!Entries,
         entries' = [entries EXCEPT ![p] = e]
  PROVE  /\ entries' \in [Pads -> Series!Entries]
         /\ entries'[p] = e /\ \A q \in Pads \ {p} : entries'[q] = entries[q]
         /\ e.kind = "tracked" => Series!TrackedPads' = Series!TrackedPads \union {p}
         /\ e.kind # "tracked" => Series!TrackedPads' = Series!TrackedPads \ {p}
  <1>1. /\ entries' \in [Pads -> Series!Entries]
        /\ entries'[p] = e /\ \A q \in Pads \ {p} : entries'[q] = entries[q]
    BY DEF SeriesMaps
  <1> QED BY <1>1 DEF Series!TrackedPads

\* Removing a key keeps the count exact, and leaves no label set without its pad.
LEMMA RemovesKey ==
  ASSUME Series!SeriesAssumption, SeriesInv, NEW p \in Pads, Series!RemoveKey(p)
  PROVE  /\ entries' = [entries EXCEPT ![p] = Series!Absent] /\ nextSeries' = nextSeries
         /\ SeriesMaps' /\ SeriesCap' /\ SeriesFamily'
  <1>1. entries' = [entries EXCEPT ![p] = Series!Absent] /\ nextSeries' = nextSeries
    BY DEF Series!RemoveKey
  <1>2. /\ entries' \in [Pads -> Series!Entries]
        /\ \A q \in Pads \ {p} : entries'[q] = entries[q]
        /\ Series!TrackedPads' = Series!TrackedPads \ {p}
    <2>1. Series!Absent.kind # "tracked" BY DEF Series!Absent
    <2> QED BY <1>1, <2>1, TrackedPadsNow, EntriesApart DEF SeriesInv
  <1>3. Series!TrackedPads \subseteq Pads BY DEF Series!TrackedPads
  <1>4. Series!LabelsOf[p] \in Series!Labels BY PadsHaveLabels
  <1>5. CASE p \in Series!TrackedPads
    <2>1. /\ trackedCount' = trackedCount - 1
          /\ family' = [family EXCEPT ![Series!LabelsOf[p]] = 0]
          /\ robbed' = (robbed \union {q \in Series!TrackedPads :
                                         Series!LabelsOf[q] = Series!LabelsOf[p]}) \ {p}
      BY <1>5 DEF Series!RemoveKey
    <2>2. /\ family' \in [Series!Labels -> {0} \union Series!SeriesIds] /\ robbed' \subseteq Pads
          /\ \A m \in Series!Labels : family'[m] = IF m = Series!LabelsOf[p] THEN 0 ELSE family[m]
      BY <1>3, <1>4, <2>1 DEF SeriesInv, SeriesMaps
    <2>3. SeriesMaps' BY <1>2, <2>2 DEF SeriesMaps
    <2>4. SeriesCap'
      <3>1. IsFiniteSet(Series!TrackedPads \ {p}) BY FS_RemoveElement DEF SeriesInv, SeriesCap
      <3>2. Cardinality(Series!TrackedPads \ {p}) = Cardinality(Series!TrackedPads) - 1
        BY <1>5, FS_RemoveElement DEF SeriesInv, SeriesCap
      <3>3. Cardinality(Series!TrackedPads \ {p}) \in Nat BY <3>1, FS_CardinalityType
      <3> DEFINE k == Cardinality(Series!TrackedPads \ {p})
                 c == Cardinality(Series!TrackedPads)
      <3>4. k = c - 1 /\ k \in Nat BY <3>2, <3>3
      <3>5. trackedCount = c /\ trackedCount \in 0..MaxSeries BY DEF SeriesInv, SeriesCap
      <3> HIDE DEF k, c
      <3>6. trackedCount' = k /\ k \in 0..MaxSeries BY <2>1, <3>4, <3>5 DEF Series!SeriesAssumption
      <3> USE DEF k
      <3> QED BY <1>2, <3>1, <3>6 DEF SeriesCap
    <2>5. ASSUME NEW m \in Series!Labels, family'[m] # 0
          PROVE  \E q \in Series!TrackedPads' : Series!LabelsOf[q] = m /\ entries'[q].series = family'[m]
      <3>1. m # Series!LabelsOf[p] /\ family'[m] = family[m] BY <2>2, <2>5
      <3>2. PICK q \in Series!TrackedPads : Series!LabelsOf[q] = m /\ entries[q].series = family[m]
        BY <2>5, <3>1 DEF SeriesInv, SeriesFamily
      <3>3. q # p /\ q \in Pads BY <1>3, <3>1, <3>2
      <3> QED BY <1>2, <3>1, <3>2, <3>3
    <2>6. ASSUME NEW q \in Series!TrackedPads' \ robbed'
          PROVE  family'[Series!LabelsOf[q]] = entries'[q].series
      <3>1. q # p /\ q \in Series!TrackedPads /\ q \in Pads BY <1>2, <1>3
      <3>2. q \notin robbed /\ Series!LabelsOf[q] # Series!LabelsOf[p] BY <2>1, <3>1
      <3>3. Series!LabelsOf[q] \in Series!Labels BY <3>1, PadsHaveLabels
      <3>4. family[Series!LabelsOf[q]] = entries[q].series BY <3>1, <3>2 DEF SeriesInv, SeriesFamily
      <3> QED BY <1>2, <2>2, <3>1, <3>2, <3>3, <3>4
    <2>7. SeriesFamily' BY <2>5, <2>6 DEF SeriesFamily
    <2> QED BY <1>1, <2>3, <2>4, <2>7
  <1>6. CASE p \notin Series!TrackedPads
    <2>1. UNCHANGED <<trackedCount, family, robbed>> BY <1>6 DEF Series!RemoveKey
    <2>2. Series!TrackedPads' = Series!TrackedPads BY <1>2, <1>6
    <2>3. SeriesMaps' BY <1>2, <2>1 DEF SeriesInv, SeriesMaps
    <2>4. SeriesCap' BY <2>1, <2>2 DEF SeriesInv, SeriesCap
    <2>5. \A q \in Series!TrackedPads : entries'[q] = entries[q] BY <1>2, <1>3, <1>6
    <2>6. SeriesFamily' BY <2>1, <2>2, <2>5 DEF SeriesInv, SeriesFamily
    <2> QED BY <1>1, <2>3, <2>4, <2>6
  <1> QED BY <1>5, <1>6

\* Registering keeps the map, the count and the families together.
LEMMA RegisterKeeps ==
  ASSUME Series!SeriesAssumption, SeriesInv, NEW t \in Pushers, Series!Register(t)
  PROVE  SeriesMaps' /\ SeriesCap' /\ SeriesFamily'
  <1>1. PICK e \in Series!Entries :
          /\ e # Series!Absent /\ with' = [with EXCEPT ![t] = e]
          /\ entries' = [entries EXCEPT ![at[t]] = e]
          /\ Found(e, at[t]) \/ Ignores(e, at[t]) \/ Tracks(e, at[t])
    BY Registers
  <1>2. PICK p \in Pads : p = at[t] BY Registers
  <1>3. robbed' = robbed BY DEF Series!Register
  <1>4. /\ entries' \in [Pads -> Series!Entries]
        /\ entries'[p] = e /\ \A q \in Pads \ {p} : entries'[q] = entries[q]
        /\ e.kind = "tracked" => Series!TrackedPads' = Series!TrackedPads \union {p}
        /\ e.kind # "tracked" => Series!TrackedPads' = Series!TrackedPads \ {p}
    BY <1>1, <1>2, TrackedPadsNow DEF SeriesInv
  <1>5. Series!TrackedPads \subseteq Pads /\ Series!LabelsOf[p] \in Series!Labels
    BY PadsHaveLabels DEF Series!TrackedPads
  <1>6. CASE Found(e, p) \/ Ignores(e, p)
    <2>1. UNCHANGED <<trackedCount, family>> BY <1>6 DEF Found, Ignores
    <2>2. /\ Series!TrackedPads' = Series!TrackedPads
          /\ \A q \in Series!TrackedPads : entries'[q] = entries[q]
      <3>1. CASE Found(e, p)
        <4>1. \A q \in Pads : entries'[q] = entries[q] BY <1>4, <3>1 DEF Found
        <4> QED BY <1>5, <4>1 DEF Series!TrackedPads
      <3>2. CASE Ignores(e, p)
        <4>1. e.kind # "tracked" /\ p \notin Series!TrackedPads
          BY <3>2 DEF Ignores, Series!TrackedPads, Series!Absent, Series!Filtered, Series!SeriesLimit
        <4> QED BY <1>4, <1>5, <4>1
      <3> QED BY <1>6, <3>1, <3>2
    <2>3. SeriesMaps' BY <1>3, <1>4, <2>1 DEF SeriesInv, SeriesMaps
    <2>4. SeriesCap' BY <2>1, <2>2 DEF SeriesInv, SeriesCap
    <2>5. SeriesFamily' BY <1>3, <2>1, <2>2 DEF SeriesInv, SeriesFamily
    <2> QED BY <2>3, <2>4, <2>5
  <1>7. CASE Tracks(e, p)
    <2>1. /\ entries[p] = Series!Absent /\ e.kind = "tracked"
          /\ e.series = Series!SeriesOf(Series!LabelsOf[p])
          /\ trackedCount < MaxSeries /\ trackedCount' = trackedCount + 1
          /\ family' = [family EXCEPT ![Series!LabelsOf[p]] = e.series]
      BY <1>7 DEF Tracks
    <2>2. /\ Series!TrackedPads' = Series!TrackedPads \union {p} /\ p \notin Series!TrackedPads
      BY <1>4, <2>1 DEF Series!TrackedPads, Series!Absent
    <2>3. e.series \in Series!SeriesIds BY <2>1, EntriesApart
    <2>4. /\ family' \in [Series!Labels -> {0} \union Series!SeriesIds]
          /\ \A m \in Series!Labels :
               family'[m] = IF m = Series!LabelsOf[p] THEN e.series ELSE family[m]
      BY <1>5, <2>1, <2>3 DEF SeriesInv, SeriesMaps
    <2>5. SeriesMaps' BY <1>3, <1>4, <2>4 DEF SeriesInv, SeriesMaps
    <2>6. SeriesCap'
      <3>1. IsFiniteSet(Series!TrackedPads \union {p}) BY FS_AddElement DEF SeriesInv, SeriesCap
      <3>2. Cardinality(Series!TrackedPads \union {p}) = Cardinality(Series!TrackedPads) + 1
        BY <2>2, FS_AddElement DEF SeriesInv, SeriesCap
      <3> DEFINE k == Cardinality(Series!TrackedPads \union {p})
                 c == Cardinality(Series!TrackedPads)
      <3>3. k = c + 1 BY <3>2
      <3>4. trackedCount = c /\ trackedCount \in 0..MaxSeries BY DEF SeriesInv, SeriesCap
      <3> HIDE DEF k, c
      <3>5. trackedCount' = k /\ k \in 0..MaxSeries BY <2>1, <3>3, <3>4 DEF Series!SeriesAssumption
      <3> USE DEF k
      <3> QED BY <2>2, <3>1, <3>5 DEF SeriesCap
    <2>7. family[Series!LabelsOf[p]] # 0 => e.series = family[Series!LabelsOf[p]]
      BY <2>1 DEF Series!SeriesOf
    <2>8. ASSUME NEW m \in Series!Labels, family'[m] # 0
          PROVE  \E q \in Series!TrackedPads' : Series!LabelsOf[q] = m /\ entries'[q].series = family'[m]
      <3>1. CASE m = Series!LabelsOf[p] BY <1>4, <2>2, <2>4, <3>1
      <3>2. CASE m # Series!LabelsOf[p]
        <4>1. family[m] # 0 BY <2>4, <2>8, <3>2
        <4>2. PICK q \in Series!TrackedPads : Series!LabelsOf[q] = m /\ entries[q].series = family[m]
          BY <4>1 DEF SeriesInv, SeriesFamily
        <4> QED BY <1>4, <1>5, <2>2, <2>4, <3>2, <4>2
      <3> QED BY <3>1, <3>2
    <2>9. ASSUME NEW q \in Series!TrackedPads' \ robbed'
          PROVE  family'[Series!LabelsOf[q]] = entries'[q].series
      <3>1. CASE q = p BY <1>4, <1>5, <2>4, <3>1
      <3>2. CASE q # p
        <4>1. q \in Series!TrackedPads \ robbed /\ q \in Pads BY <1>3, <1>5, <2>2, <3>2
        <4>2. family[Series!LabelsOf[q]] = entries[q].series BY <4>1 DEF SeriesInv, SeriesFamily
        <4>3. entries'[q] = entries[q] BY <1>4, <3>2, <4>1
        <4>4. Series!LabelsOf[q] \in Series!Labels BY <4>1, PadsHaveLabels
        <4>5. entries[q].series # 0
          <5>1. entries[q] \in Series!Entries /\ entries[q].kind = "tracked"
            BY <4>1 DEF SeriesInv, SeriesMaps, Series!TrackedPads
          <5>2. entries[q].series \in Series!SeriesIds BY <5>1, EntriesApart
          <5> QED BY <5>2 DEF Series!SeriesIds
        <4> QED BY <2>4, <2>7, <4>2, <4>3, <4>4, <4>5
      <3> QED BY <3>1, <3>2
    <2>10. SeriesFamily' BY <2>8, <2>9 DEF SeriesFamily
    <2> QED BY <2>5, <2>6, <2>10
  <1> QED BY <1>1, <1>2, <1>6, <1>7

\* The map, its count and the families stay together.
LEMMA SeriesMapStep ==
  ASSUME Series!SeriesAssumption, SeriesInv, Series!Next
  PROVE  SeriesMaps' /\ SeriesCap' /\ SeriesFamily'
  <1>a. CASE UNCHANGED Series!mapVars
    <2> USE DEF Series!mapVars
    <2>1. Series!TrackedPads' = Series!TrackedPads BY <1>a DEF Series!TrackedPads
    <2>2. SeriesMaps' BY <1>a DEF SeriesInv, SeriesMaps
    <2>3. SeriesCap' BY <1>a, <2>1 DEF SeriesInv, SeriesCap
    <2>4. SeriesFamily' BY <1>a, <2>1 DEF SeriesInv, SeriesFamily
    <2> QED BY <2>2, <2>3, <2>4
  <1> USE DEF Series!mapVars, Series!tallyVars, Series!padVars, Series!threadVars
  <1>1. ASSUME NEW t \in Pushers, NEW p \in Pads, Series!UpdatePad(t, p)
        PROVE SeriesMaps' /\ SeriesCap' /\ SeriesFamily'
    BY <1>1, <1>a DEF Series!UpdatePad
  <1>2. ASSUME NEW t \in Pushers, Series!Register(t) PROVE SeriesMaps' /\ SeriesCap' /\ SeriesFamily'
    BY <1>2, RegisterKeeps
  <1>3. ASSUME NEW t \in Pushers, Series!IncrementEntry(t)
        PROVE SeriesMaps' /\ SeriesCap' /\ SeriesFamily'
    BY <1>3, <1>a DEF Series!IncrementEntry
  <1>4. ASSUME NEW p \in Pads, Series!RemovePad(p) PROVE SeriesMaps' /\ SeriesCap' /\ SeriesFamily'
    BY <1>4, RemovesKey DEF Series!RemovePad
  <1>5. ASSUME NEW p \in Pads, Series!Unparent(p) PROVE SeriesMaps' /\ SeriesCap' /\ SeriesFamily'
    BY <1>5, <1>a DEF Series!Unparent
  <1>6. ASSUME NEW p \in Pads, Series!Destroy(p) PROVE SeriesMaps' /\ SeriesCap' /\ SeriesFamily'
    BY <1>6, RemovesKey DEF Series!Destroy, Series!ForgetKey
  <1> QED
    BY <1>1, <1>2, <1>3, <1>4, <1>5, <1>6
    DEF Series!Next

\* The threads and what they hold.
LEMMA SeriesThreadsStep ==
  ASSUME Series!SeriesAssumption, SeriesInv, Series!Next
  PROVE  SeriesThreads'
  <1>0. SeriesThreads BY DEF SeriesInv
  <1> USE <1>0 DEF SeriesThreads, Series!mapVars, Series!tallyVars, Series!padVars, Series!threadVars
  <1>1. ASSUME NEW t \in Pushers, NEW p \in Pads, Series!UpdatePad(t, p) PROVE SeriesThreads'
    <2>1. holder' = holder BY <1>1 DEF Series!UpdatePad
    <2>2. CASE entries[p] = Series!Absent /\ ~parented[p]
      BY <1>1, <2>1, <2>2 DEF Series!UpdatePad
    <2>3. CASE ~(entries[p] = Series!Absent /\ ~parented[p])
      <3>1. PICK e \in Series!Entries : e = entries[p] BY DEF SeriesInv, SeriesMaps
      <3>2. at' = [at EXCEPT ![t] = p] /\ with' = [with EXCEPT ![t] = e]
        BY <1>1, <2>3, <3>1 DEF Series!UpdatePad
      <3>3. \/ pusher' = [pusher EXCEPT ![t] = "register"]
            \/ pusher' = [pusher EXCEPT ![t] = "count"]
        BY <1>1, <2>3 DEF Series!UpdatePad
      <3> QED BY <2>1, <3>2, <3>3
    <2> QED BY <2>2, <2>3
  <1>2. ASSUME NEW t \in Pushers, Series!Register(t) PROVE SeriesThreads'
    <2>1. PICK e \in Series!Entries : with' = [with EXCEPT ![t] = e] BY <1>2, Registers
    <2>2. /\ at' = at /\ holder' = t /\ pusher' = [pusher EXCEPT ![t] = "count"]
      BY <1>2 DEF Series!Register
    <2> QED BY <2>1, <2>2
  <1>3. ASSUME NEW t \in Pushers, Series!IncrementEntry(t) PROVE SeriesThreads'
    <2>1. PICK p \in Pads : p = Series!SomePad BY DEF Series!SomePad, Series!SeriesAssumption
    <2>2. PICK e \in Series!Entries : e = Series!Absent BY EntriesApart
    <2>3. /\ pusher' = [pusher EXCEPT ![t] = "idle"]
          /\ at' = [at EXCEPT ![t] = p] /\ with' = [with EXCEPT ![t] = e]
      BY <1>3, <2>1, <2>2 DEF Series!IncrementEntry
    <2>4. holder' \in {holder, "nobody"} BY <1>3 DEF Series!IncrementEntry
    <2> QED BY <2>3, <2>4
  <1>4. ASSUME NEW p \in Pads, Series!RemovePad(p) PROVE SeriesThreads' BY <1>4 DEF Series!RemovePad
  <1>5. ASSUME NEW p \in Pads, Series!Unparent(p) PROVE SeriesThreads' BY <1>5 DEF Series!Unparent
  <1>6. ASSUME NEW p \in Pads, Series!Destroy(p) PROVE SeriesThreads' BY <1>6 DEF Series!Destroy
  <1> QED
    BY <1>1, <1>2, <1>3, <1>4, <1>5, <1>6
    DEF Series!Next

\* The pads.
LEMMA SeriesPadsStep ==
  ASSUME Series!SeriesAssumption, SeriesInv, Series!Next
  PROVE  SeriesPads'
  <1>0. SeriesPads /\ MaxChanges \in Nat BY DEF SeriesInv, Series!SeriesAssumption
  <1> USE <1>0 DEF SeriesPads, Series!mapVars, Series!tallyVars, Series!padVars, Series!threadVars
  <1>1. ASSUME NEW t \in Pushers, NEW p \in Pads, Series!UpdatePad(t, p) PROVE SeriesPads'
    BY <1>1 DEF Series!UpdatePad
  <1>2. ASSUME NEW t \in Pushers, Series!Register(t) PROVE SeriesPads' BY <1>2 DEF Series!Register
  <1>3. ASSUME NEW t \in Pushers, Series!IncrementEntry(t) PROVE SeriesPads'
    BY <1>3 DEF Series!IncrementEntry
  <1>4. ASSUME NEW p \in Pads, Series!RemovePad(p) PROVE SeriesPads' BY <1>4 DEF Series!RemovePad
  <1>5. ASSUME NEW p \in Pads, Series!Unparent(p) PROVE SeriesPads' BY <1>5 DEF Series!Unparent
  <1>6. ASSUME NEW p \in Pads, Series!Destroy(p) PROVE SeriesPads' BY <1>6 DEF Series!Destroy
  <1> QED
    BY <1>1, <1>2, <1>3, <1>4, <1>5, <1>6
    DEF Series!Next

\* A pad that is gone has no entry, and no thread works on it.
LEMMA SeriesAliveStep ==
  ASSUME Series!SeriesAssumption, SeriesInv, Series!Next
  PROVE  SeriesAlive'
  <1>0. SeriesAlive BY DEF SeriesInv
  <1>0a. /\ entries \in [Pads -> Series!Entries] /\ at \in [Pushers -> Pads]
         /\ pusher \in [Pushers -> {"idle", "register", "count"}] /\ alive \in [Pads -> BOOLEAN]
    BY DEF SeriesInv, SeriesMaps, SeriesThreads, SeriesPads
  <1> USE <1>0, <1>0a DEF Series!mapVars, Series!tallyVars, Series!padVars, Series!threadVars
  <1>1. ASSUME NEW t \in Pushers, NEW p \in Pads, Series!UpdatePad(t, p) PROVE SeriesAlive'
    <2>1. /\ UNCHANGED <<entries, alive>> /\ alive[p]
          /\ \/ UNCHANGED <<at, pusher>>
             \/ \E x : at' = [at EXCEPT ![t] = p] /\ pusher' = [pusher EXCEPT ![t] = x]
      BY <1>1 DEF Series!UpdatePad
    <2>2. \A u \in Pushers \ {t} : at'[u] = at[u] /\ pusher'[u] = pusher[u] BY <2>1
    <2>3. at'[t] = p \/ (at'[t] = at[t] /\ pusher'[t] = pusher[t]) BY <2>1
    <2> QED BY <2>1, <2>2, <2>3 DEF SeriesAlive
  <1>2. ASSUME NEW t \in Pushers, Series!Register(t) PROVE SeriesAlive'
    <2>1. /\ UNCHANGED <<alive, at>> /\ pusher[t] = "register"
          /\ pusher' = [pusher EXCEPT ![t] = "count"]
      BY <1>2 DEF Series!Register
    <2>2. PICK e \in Series!Entries : entries' = [entries EXCEPT ![at[t]] = e] BY <1>2, Registers
    <2>3. \A q \in Pads : entries'[q] = entries[q] \/ q = at[t] BY <2>2
    <2>4. \A u \in Pushers : pusher'[u] # "idle" => pusher[u] # "idle" BY <2>1
    <2> QED BY <2>1, <2>3, <2>4 DEF SeriesAlive
  <1>3. ASSUME NEW t \in Pushers, Series!IncrementEntry(t) PROVE SeriesAlive'
    <2>1. /\ UNCHANGED <<alive, entries>> /\ pusher' = [pusher EXCEPT ![t] = "idle"]
          /\ at' = [at EXCEPT ![t] = Series!SomePad]
      BY <1>3 DEF Series!IncrementEntry
    <2>2. pusher'[t] = "idle" /\ \A u \in Pushers \ {t} : at'[u] = at[u] /\ pusher'[u] = pusher[u]
      BY <2>1
    <2> QED BY <2>1, <2>2 DEF SeriesAlive
  <1>4. ASSUME NEW p \in Pads, Series!RemovePad(p) PROVE SeriesAlive'
    <2>1. /\ entries' = [entries EXCEPT ![p] = Series!Absent]
      BY <1>4, RemovesKey DEF Series!RemovePad
    <2>2. UNCHANGED <<alive, at, pusher>> BY <1>4 DEF Series!RemovePad
    <2>3. \A q \in Pads : entries'[q] \in {entries[q], Series!Absent} BY <2>1
    <2> QED BY <2>2, <2>3 DEF SeriesAlive
  <1>5. ASSUME NEW p \in Pads, Series!Unparent(p) PROVE SeriesAlive'
    BY <1>5 DEF Series!Unparent, SeriesAlive
  <1>6. ASSUME NEW p \in Pads, Series!Destroy(p) PROVE SeriesAlive'
    <2>1. /\ entries' = [entries EXCEPT ![p] = Series!Absent]
      BY <1>6, RemovesKey DEF Series!Destroy, Series!ForgetKey
    <2>2. /\ UNCHANGED <<at, pusher>> /\ alive' = [alive EXCEPT ![p] = FALSE]
          /\ \A u \in Pushers : pusher[u] # "idle" => at[u] # p
      BY <1>6 DEF Series!Destroy
    <2>3. \A q \in Pads : entries'[q] \in {entries[q], Series!Absent} BY <2>1
    <2>4. entries'[p] = Series!Absent /\ \A q \in Pads \ {p} : alive'[q] = alive[q] BY <2>1, <2>2
    <2> QED BY <2>2, <2>3, <2>4 DEF SeriesAlive
  <1> QED
    BY <1>1, <1>2, <1>3, <1>4, <1>5, <1>6
    DEF Series!Next

\* Every new series is paid for by a push.
LEMMA SeriesNumbersStep ==
  ASSUME Series!SeriesAssumption, SeriesInv, Series!Next
  PROVE  SeriesNumbers'
  <1>0. /\ nextSeries \in Nat \ {0} /\ pushed \in 0..MaxPushes /\ MaxPushes \in Nat
        /\ IsFiniteSet(Registering) /\ Cardinality(Registering) \in Nat
        /\ nextSeries - 1 + Cardinality(Registering) <= pushed
    BY FS_CardinalityType DEF SeriesInv, SeriesNumbers, Series!SeriesAssumption
  <1>0a. pusher \in [Pushers -> {"idle", "register", "count"}] BY DEF SeriesInv, SeriesThreads
  <1> USE <1>0a DEF Series!mapVars, Series!tallyVars, Series!padVars, Series!threadVars
  <1>1. ASSUME NEW t \in Pushers, NEW p \in Pads, Series!UpdatePad(t, p) PROVE SeriesNumbers'
    <2>1. pushed < MaxPushes /\ pushed' = pushed + 1 /\ UNCHANGED nextSeries /\ pusher[t] = "idle"
      BY <1>1 DEF Series!UpdatePad
    <2>2. UNCHANGED pusher \/ \E x : pusher' = [pusher EXCEPT ![t] = x]
      BY <1>1 DEF Series!UpdatePad
    <2>3. Registering' = Registering \/ Registering' = Registering \union {t}
      BY <2>1, <2>2 DEF Registering
    <2>4. t \notin Registering BY <2>1 DEF Registering
    <2>5. /\ IsFiniteSet(Registering \union {t})
          /\ Cardinality(Registering \union {t}) = Cardinality(Registering) + 1
      BY <1>0, <2>4, FS_AddElement
    <2> DEFINE k == Cardinality(Registering)
    <2>6. IsFiniteSet(Registering') /\ Cardinality(Registering') \in {k, k + 1}
      BY <1>0, <2>3, <2>5
    <2>7. PICK m \in {k, k + 1} : m = Cardinality(Registering') BY <2>6
    <2>8. k \in Nat /\ nextSeries - 1 + k <= pushed BY <1>0
    <2> HIDE DEF k
    <2>9. nextSeries' - 1 + m <= pushed' /\ pushed' \in 0..MaxPushes BY <1>0, <2>1, <2>7, <2>8
    <2> QED BY <1>0, <2>1, <2>6, <2>7, <2>9 DEF SeriesNumbers
  <1>2. ASSUME NEW t \in Pushers, Series!Register(t) PROVE SeriesNumbers'
    <2>1. PICK e \in Series!Entries : Found(e, at[t]) \/ Ignores(e, at[t]) \/ Tracks(e, at[t])
      BY <1>2, Registers
    <2>2. nextSeries' \in {nextSeries, nextSeries + 1} BY <2>1 DEF Found, Ignores, Tracks
    <2>3. pushed' = pushed /\ pusher[t] = "register" /\ pusher' = [pusher EXCEPT ![t] = "count"]
      BY <1>2 DEF Series!Register
    <2>4. Registering' = Registering \ {t} /\ t \in Registering BY <2>3 DEF Registering
    <2>5. /\ IsFiniteSet(Registering \ {t})
          /\ Cardinality(Registering \ {t}) = Cardinality(Registering) - 1
      BY <1>0, <2>4, FS_RemoveElement
    <2>6. PICK k \in Nat : k = Cardinality(Registering) BY <1>0
    <2>7. PICK m \in Int : m = Cardinality(Registering \ {t}) /\ m = k - 1 BY <2>5, <2>6
    <2>8. nextSeries - 1 + k <= pushed /\ nextSeries \in Nat \ {0} /\ pushed \in Nat BY <1>0, <2>6
    <2>9. PICK n \in {nextSeries, nextSeries + 1} : n = nextSeries' BY <2>2
    <2>10. n - 1 + m <= pushed /\ n \in Nat \ {0}
      <3> HIDE <1>0a
      <3> QED BY <2>7, <2>8, <2>9
    <2> QED BY <1>0, <2>3, <2>4, <2>5, <2>7, <2>9, <2>10 DEF SeriesNumbers
  <1>3. ASSUME NEW t \in Pushers, Series!IncrementEntry(t) PROVE SeriesNumbers'
    <2>1. /\ UNCHANGED <<nextSeries, pushed>> /\ pusher[t] = "count"
          /\ pusher' = [pusher EXCEPT ![t] = "idle"]
      BY <1>3 DEF Series!IncrementEntry
    <2>2. Registering' = Registering BY <2>1 DEF Registering
    <2> QED BY <2>1, <2>2 DEF SeriesInv, SeriesNumbers
  <1>4. ASSUME NEW p \in Pads, Series!RemovePad(p) PROVE SeriesNumbers'
    <2>1. UNCHANGED <<nextSeries, pushed, pusher>> BY <1>4, RemovesKey DEF Series!RemovePad
    <2>2. Registering' = Registering BY <2>1 DEF Registering
    <2> QED BY <2>1, <2>2 DEF SeriesInv, SeriesNumbers
  <1>5. ASSUME NEW p \in Pads, Series!Unparent(p) PROVE SeriesNumbers'
    <2>1. UNCHANGED <<nextSeries, pushed, pusher>> BY <1>5 DEF Series!Unparent
    <2>2. Registering' = Registering BY <2>1 DEF Registering
    <2> QED BY <2>1, <2>2 DEF SeriesInv, SeriesNumbers
  <1>6. ASSUME NEW p \in Pads, Series!Destroy(p) PROVE SeriesNumbers'
    <2>1. UNCHANGED <<nextSeries, pushed, pusher>>
      BY <1>6, RemovesKey DEF Series!Destroy, Series!ForgetKey
    <2>2. Registering' = Registering BY <2>1 DEF Registering
    <2> QED BY <2>1, <2>2 DEF SeriesInv, SeriesNumbers
  <1> QED
    BY <1>1, <1>2, <1>3, <1>4, <1>5, <1>6
    DEF Series!Next

\* What counting a push is.
LEMMA Counts ==
  ASSUME SeriesInv, NEW t \in Pushers, Series!IncrementEntry(t)
  PROVE  /\ pusher[t] = "count" /\ push[t] \in 1..MaxPushes /\ push[t] <= pushed
         /\ fate[push[t]] = Series!InFlight
         /\ \E e \in Series!Entries :
              /\ e = with[t] /\ e # Series!Absent /\ e \in Series!Fates
              /\ fate' = [fate EXCEPT ![push[t]] = e]
              /\ count' = IF e.kind = "tracked" THEN [count EXCEPT ![e.series] = @ + 1] ELSE count
              /\ untracked' = IF e.kind = "limit" THEN untracked + 1 ELSE untracked
         /\ push' = [push EXCEPT ![t] = 0] /\ pusher' = [pusher EXCEPT ![t] = "idle"]
         /\ with' = [with EXCEPT ![t] = Series!Absent] /\ pushed' = pushed
  <1>1. pusher[t] = "count" BY DEF Series!IncrementEntry
  <1>2. push[t] # 0 /\ push[t] \in 0..MaxPushes /\ push[t] <= pushed
        /\ fate[push[t]] = Series!InFlight /\ with[t] # Series!Absent
    BY <1>1 DEF SeriesInv, SeriesInFlight
  <1>3. push[t] \in 1..MaxPushes BY <1>2
  <1>4. PICK e \in Series!Entries : e = with[t] BY DEF SeriesInv, SeriesThreads
  <1>5. e \in Series!Fates BY <1>2, <1>4, EntriesApart
  <1>6. /\ fate' = [fate EXCEPT ![push[t]] = e]
        /\ count' = IF e.kind = "tracked" THEN [count EXCEPT ![e.series] = @ + 1] ELSE count
        /\ untracked' = IF e.kind = "limit" THEN untracked + 1 ELSE untracked
        /\ push' = [push EXCEPT ![t] = 0] /\ pusher' = [pusher EXCEPT ![t] = "idle"]
        /\ with' = [with EXCEPT ![t] = Series!Absent] /\ pushed' = pushed
    BY <1>4 DEF Series!IncrementEntry
  <1> QED BY <1>1, <1>2, <1>3, <1>4, <1>5, <1>6

\* A push begins in flight, or ends for want of a parent.
LEMMA Pushes ==
  ASSUME Series!SeriesAssumption, SeriesInv, NEW t \in Pushers, NEW p \in Pads, Series!UpdatePad(t, p)
  PROVE  /\ pusher[t] = "idle" /\ pushed + 1 \in 1..MaxPushes /\ pushed' = pushed + 1 /\ pushed \in Nat
         /\ UNCHANGED <<count, untracked>>
         /\ fate[pushed + 1] = Series!InFlight
         /\ \/ /\ fate' = [fate EXCEPT ![pushed + 1] = Series!Parentless]
               /\ UNCHANGED <<with, pusher, push>>
            \/ /\ push' = [push EXCEPT ![t] = pushed + 1] /\ UNCHANGED fate
               /\ \E e \in Series!Entries :
                    /\ with' = [with EXCEPT ![t] = e]
                    /\ pusher' = [pusher EXCEPT ![t] =
                                    IF e = Series!Absent THEN "register" ELSE "count"]
  <1>1. pushed \in 0..MaxPushes /\ MaxPushes \in Nat
    BY DEF SeriesInv, SeriesNumbers, Series!SeriesAssumption
  <1>2. pusher[t] = "idle" /\ pushed < MaxPushes /\ pushed' = pushed + 1 /\ UNCHANGED <<count, untracked>>
    BY DEF Series!UpdatePad
  <1>3. pushed + 1 \in 1..MaxPushes /\ pushed + 1 > pushed /\ pushed \in Nat BY <1>1, <1>2
  <1>4. fate[pushed + 1] = Series!InFlight BY <1>3 DEF SeriesInv, SeriesInFlight
  <1>5. PICK e \in Series!Entries : e = entries[p] BY DEF SeriesInv, SeriesMaps
  <1>6. CASE entries[p] = Series!Absent /\ ~parented[p]
    BY <1>2, <1>3, <1>4, <1>6 DEF Series!UpdatePad
  <1>7. CASE ~(entries[p] = Series!Absent /\ ~parented[p])
    <2>1. /\ push' = [push EXCEPT ![t] = pushed + 1] /\ UNCHANGED fate
          /\ with' = [with EXCEPT ![t] = e]
          /\ pusher' = [pusher EXCEPT ![t] = IF e = Series!Absent THEN "register" ELSE "count"]
      BY <1>2, <1>5, <1>7 DEF Series!UpdatePad
    <2> QED BY <1>2, <1>3, <1>4, <2>1
  <1> QED BY <1>6, <1>7

\* An account is larger by one push, and the others stay.
LEMMA OneMoreCounted ==
  ASSUME Series!SeriesAssumption, SeriesTallies, NEW n \in 1..MaxPushes, NEW e \in Series!Fates,
         fate[n] = Series!InFlight, fate' = [fate EXCEPT ![n] = e]
  PROVE  /\ fate' \in [1..MaxPushes -> Series!Fates] /\ fate'[n] = e
         /\ \A m \in 1..MaxPushes : m # n => fate'[m] = fate[m]
         /\ \A f : f # Series!InFlight =>
              Cardinality(Series!CountedBy(f)') =
                IF f = e THEN Cardinality(Series!CountedBy(f)) + 1 ELSE Cardinality(Series!CountedBy(f))
  <1>1. /\ fate' \in [1..MaxPushes -> Series!Fates] /\ fate'[n] = e
        /\ \A m \in 1..MaxPushes : m # n => fate'[m] = fate[m]
    BY DEF SeriesTallies
  <1>2. ASSUME NEW f, f # Series!InFlight
        PROVE  Cardinality(Series!CountedBy(f)') =
                 IF f = e THEN Cardinality(Series!CountedBy(f)) + 1 ELSE Cardinality(Series!CountedBy(f))
    <2>1. CASE f = e
      <3>1. Series!CountedBy(f)' = Series!CountedBy(f) \union {n} BY <1>1, <2>1 DEF Series!CountedBy
      <3>2. n \notin Series!CountedBy(f) BY <1>2 DEF Series!CountedBy
      <3>3. Cardinality(Series!CountedBy(f) \union {n}) = Cardinality(Series!CountedBy(f)) + 1
        BY <3>2, PushesAreFinite
      <3> QED BY <2>1, <3>1, <3>3
    <2>2. CASE f # e
      <3>1. Series!CountedBy(f)' = Series!CountedBy(f) BY <1>1, <1>2, <2>2 DEF Series!CountedBy
      <3> QED BY <2>2, <3>1
    <2> QED BY <2>1, <2>2
  <1> QED BY <1>1, <1>2

\* The counters.
LEMMA SeriesTalliesStep ==
  ASSUME Series!SeriesAssumption, SeriesInv, Series!Next
  PROVE  SeriesTallies'
  <1>a. CASE UNCHANGED <<count, untracked, fate>> BY <1>a DEF SeriesInv, SeriesTallies
  <1>1. ASSUME NEW t \in Pushers, NEW p \in Pads, Series!UpdatePad(t, p) PROVE SeriesTallies'
    <2>1. UNCHANGED <<count, untracked>> BY <1>1, Pushes
    <2>2. CASE fate' = fate BY <1>a, <2>1, <2>2
    <2>3. CASE fate' = [fate EXCEPT ![pushed + 1] = Series!Parentless]
      <3>1. PICK e \in Series!Fates : e = Series!Parentless BY EntriesApart
      <3>2. fate' \in [1..MaxPushes -> Series!Fates] BY <2>3, <3>1 DEF SeriesInv, SeriesTallies
      <3> QED BY <2>1, <3>2 DEF SeriesInv, SeriesTallies
    <2> QED BY <1>1, <2>2, <2>3, Pushes
  <1>2. ASSUME NEW t \in Pushers, Series!Register(t) PROVE SeriesTallies'
    BY <1>2, <1>a DEF Series!Register, Series!tallyVars
  <1>3. ASSUME NEW t \in Pushers, Series!IncrementEntry(t) PROVE SeriesTallies'
    <2>1. PICK e \in Series!Entries :
            /\ e \in Series!Fates /\ fate' = [fate EXCEPT ![push[t]] = e]
            /\ count' = IF e.kind = "tracked" THEN [count EXCEPT ![e.series] = @ + 1] ELSE count
            /\ untracked' = IF e.kind = "limit" THEN untracked + 1 ELSE untracked
      BY <1>3, Counts
    <2>2. fate' \in [1..MaxPushes -> Series!Fates] BY <2>1 DEF SeriesInv, SeriesTallies
    <2>3. e.kind = "tracked" => e.series \in Series!SeriesIds BY EntriesApart
    <2>4. count' \in [Series!SeriesIds -> Nat] BY <2>1, <2>3 DEF SeriesInv, SeriesTallies
    <2>5. untracked' \in Nat BY <2>1 DEF SeriesInv, SeriesTallies
    <2> QED BY <2>2, <2>4, <2>5 DEF SeriesTallies
  <1>4. ASSUME NEW p \in Pads, Series!RemovePad(p) PROVE SeriesTallies'
    BY <1>4, <1>a DEF Series!RemovePad, Series!tallyVars
  <1>5. ASSUME NEW p \in Pads, Series!Unparent(p) PROVE SeriesTallies'
    BY <1>5, <1>a DEF Series!Unparent, Series!tallyVars
  <1>6. ASSUME NEW p \in Pads, Series!Destroy(p) PROVE SeriesTallies'
    BY <1>6, <1>a DEF Series!Destroy, Series!tallyVars
  <1> QED
    BY <1>1, <1>2, <1>3, <1>4, <1>5, <1>6
    DEF Series!Next

\* Every push in flight has its own number, and no counter yet.
LEMMA SeriesInFlightStep ==
  ASSUME Series!SeriesAssumption, SeriesInv, Series!Next
  PROVE  SeriesInFlight'
  <1>0. /\ push \in [Pushers -> 0..MaxPushes] /\ pushed \in 0..MaxPushes /\ MaxPushes \in Nat
        /\ \A t \in Pushers :
             /\ pusher[t] = "idle" <=> push[t] = 0
             /\ push[t] # 0 => push[t] <= pushed /\ fate[push[t]] = Series!InFlight
             /\ pusher[t] = "count" => with[t] # Series!Absent
        /\ \A t, u \in Pushers : push[t] = push[u] => t = u \/ push[t] = 0
        /\ \A n \in 1..MaxPushes :
             fate[n] = Series!InFlight <=> (n > pushed \/ \E t \in Pushers : push[t] = n)
    BY DEF SeriesInv, SeriesInFlight, SeriesNumbers, Series!SeriesAssumption
  <1>0a. /\ with \in [Pushers -> Series!Entries] /\ pusher \in [Pushers -> {"idle", "register", "count"}]
    BY DEF SeriesInv, SeriesThreads
  <1>a. CASE UNCHANGED <<push, pushed, fate, pusher, with>> BY <1>0, <1>a DEF SeriesInFlight
  <1>1. ASSUME NEW t \in Pushers, NEW p \in Pads, Series!UpdatePad(t, p) PROVE SeriesInFlight'
    <2>1. /\ pusher[t] = "idle" /\ pushed + 1 \in 1..MaxPushes /\ pushed' = pushed + 1
          /\ pushed \in Nat /\ fate[pushed + 1] = Series!InFlight
      BY <1>1, Pushes
    <2>2. \A u \in Pushers : push[u] # pushed + 1 BY <1>0, <2>1
    <2>3. CASE fate' = [fate EXCEPT ![pushed + 1] = Series!Parentless] /\ UNCHANGED <<with, pusher, push>>
      <3>1. /\ fate'[pushed + 1] # Series!InFlight
            /\ \A n \in 1..MaxPushes : n # pushed + 1 => fate'[n] = fate[n]
        BY <2>1, <2>3, OneMoreCounted, EntriesApart DEF SeriesInv
      <3>2. \A u \in Pushers : push[u] # 0 => push[u] <= pushed' /\ fate'[push[u]] = Series!InFlight
        <4>1. ASSUME NEW u \in Pushers, push[u] # 0 PROVE push[u] \in 1..MaxPushes /\ push[u] <= pushed
          BY <1>0, <4>1
        <4> QED BY <1>0, <2>1, <2>2, <3>1, <4>1
      <3>3. \A n \in 1..MaxPushes :
              fate'[n] = Series!InFlight <=> (n > pushed' \/ \E u \in Pushers : push[u] = n)
        <4>1. ASSUME NEW n \in 1..MaxPushes, n # pushed + 1 PROVE n > pushed' <=> n > pushed
          BY <2>1, <4>1
        <4>2. ~(pushed + 1 > pushed') BY <2>1
        <4> QED BY <1>0, <2>1, <2>2, <3>1, <4>1, <4>2
      <3> QED BY <1>0, <2>3, <3>2, <3>3 DEF SeriesInFlight
    <2>4. CASE /\ push' = [push EXCEPT ![t] = pushed + 1] /\ UNCHANGED fate
               /\ \E e \in Series!Entries :
                    /\ with' = [with EXCEPT ![t] = e]
                    /\ pusher' = [pusher EXCEPT ![t] =
                                    IF e = Series!Absent THEN "register" ELSE "count"]
      <3>1. PICK e \in Series!Entries :
              /\ with' = [with EXCEPT ![t] = e]
              /\ pusher' = [pusher EXCEPT ![t] = IF e = Series!Absent THEN "register" ELSE "count"]
        BY <2>4
      <3>2. /\ push' \in [Pushers -> 0..MaxPushes] /\ push'[t] = pushed + 1
            /\ \A u \in Pushers \ {t} : push'[u] = push[u]
        BY <1>0, <2>1, <2>4
      <3>3. /\ pusher'[t] # "idle" /\ (pusher'[t] = "count" => with'[t] # Series!Absent)
            /\ \A u \in Pushers \ {t} : pusher'[u] = pusher[u] /\ with'[u] = with[u]
        BY <1>0a, <3>1
      <3>4. push[t] = 0 BY <1>0, <2>1
      <3>5. \A u \in Pushers :
              /\ pusher'[u] = "idle" <=> push'[u] = 0
              /\ push'[u] # 0 => push'[u] <= pushed' /\ fate'[push'[u]] = Series!InFlight
              /\ pusher'[u] = "count" => with'[u] # Series!Absent
        <4>1. ASSUME NEW u \in Pushers, u # t, push[u] # 0 PROVE push[u] <= pushed'
          BY <1>0, <2>1, <4>1
        <4> QED BY <1>0, <2>1, <2>4, <3>2, <3>3, <4>1
      <3>6. \A u, v \in Pushers : push'[u] = push'[v] => u = v \/ push'[u] = 0
        BY <1>0, <2>2, <3>2
      <3>7. \A n \in 1..MaxPushes :
              fate'[n] = Series!InFlight <=> (n > pushed' \/ \E u \in Pushers : push'[u] = n)
        <4>1. ASSUME NEW n \in 1..MaxPushes, n # pushed + 1 PROVE n > pushed' <=> n > pushed
          BY <2>1, <4>1
        <4>2. ASSUME NEW n \in 1..MaxPushes, n # pushed + 1
              PROVE  (\E u \in Pushers : push'[u] = n) <=> (\E u \in Pushers : push[u] = n)
          BY <3>2, <3>4, <4>2
        <4>3. ASSUME NEW n \in 1..MaxPushes, n = pushed + 1
              PROVE  fate'[n] = Series!InFlight <=> (n > pushed' \/ \E u \in Pushers : push'[u] = n)
          BY <2>1, <2>4, <3>2, <4>3
        <4> QED BY <1>0, <2>4, <4>1, <4>2, <4>3
      <3> QED BY <3>2, <3>5, <3>6, <3>7 DEF SeriesInFlight
    <2> QED BY <1>1, <2>3, <2>4, Pushes
  <1>2. ASSUME NEW t \in Pushers, Series!Register(t) PROVE SeriesInFlight'
    <2>1. PICK e \in Series!Entries : e # Series!Absent /\ with' = [with EXCEPT ![t] = e]
      BY <1>2, Registers
    <2>2. /\ pusher[t] = "register" /\ pusher' = [pusher EXCEPT ![t] = "count"]
          /\ UNCHANGED <<push, pushed, fate>>
      BY <1>2 DEF Series!Register, Series!tallyVars
    <2>3. with'[t] # Series!Absent /\ pusher'[t] = "count" BY <1>0a, <2>1, <2>2
    <2>4. \A u \in Pushers \ {t} : with'[u] = with[u] /\ pusher'[u] = pusher[u] BY <1>0a, <2>1, <2>2
    <2>5. \A u \in Pushers : /\ pusher'[u] = "idle" <=> push'[u] = 0
                             /\ push'[u] # 0 => push'[u] <= pushed' /\ fate'[push'[u]] = Series!InFlight
                             /\ pusher'[u] = "count" => with'[u] # Series!Absent
      BY <1>0, <2>2, <2>3, <2>4
    <2> QED BY <1>0, <2>2, <2>5 DEF SeriesInFlight
  <1>3. ASSUME NEW t \in Pushers, Series!IncrementEntry(t) PROVE SeriesInFlight'
    <2>1. /\ push[t] \in 1..MaxPushes /\ push[t] <= pushed /\ fate[push[t]] = Series!InFlight
          /\ push' = [push EXCEPT ![t] = 0] /\ pusher' = [pusher EXCEPT ![t] = "idle"]
          /\ with' = [with EXCEPT ![t] = Series!Absent] /\ pushed' = pushed
      BY <1>3, Counts
    <2>2. PICK e \in Series!Entries : e \in Series!Fates /\ fate' = [fate EXCEPT ![push[t]] = e]
      BY <1>3, Counts
    <2>3. /\ fate'[push[t]] # Series!InFlight
          /\ \A n \in 1..MaxPushes : n # push[t] => fate'[n] = fate[n]
      BY <2>1, <2>2, OneMoreCounted, EntriesApart DEF SeriesInv
    <2>4. /\ push' \in [Pushers -> 0..MaxPushes] /\ push'[t] = 0
          /\ \A u \in Pushers \ {t} : push'[u] = push[u]
      BY <1>0, <2>1
    <2>5. /\ pusher'[t] = "idle"
          /\ \A u \in Pushers \ {t} : pusher'[u] = pusher[u] /\ with'[u] = with[u]
      BY <1>0a, <2>1
    <2>6. \A u \in Pushers \ {t} : push[u] # push[t] BY <1>0, <2>1
    <2>7. \A u \in Pushers :
            /\ pusher'[u] = "idle" <=> push'[u] = 0
            /\ push'[u] # 0 => push'[u] <= pushed' /\ fate'[push'[u]] = Series!InFlight
            /\ pusher'[u] = "count" => with'[u] # Series!Absent
      <3>1. ASSUME NEW u \in Pushers, push[u] # 0 PROVE push[u] \in 1..MaxPushes BY <1>0, <3>1
      <3> QED BY <1>0, <2>1, <2>3, <2>4, <2>5, <2>6, <3>1
    <2>8. \A u, v \in Pushers : push'[u] = push'[v] => u = v \/ push'[u] = 0 BY <1>0, <2>4
    <2>9. \A n \in 1..MaxPushes :
            fate'[n] = Series!InFlight <=> (n > pushed' \/ \E u \in Pushers : push'[u] = n)
      <3>1. ~(push[t] > pushed) BY <1>0, <2>1
      <3>2. ~ \E u \in Pushers : push'[u] = push[t] BY <2>1, <2>4, <2>6
      <3>3. ASSUME NEW n \in 1..MaxPushes, n # push[t]
            PROVE  (\E u \in Pushers : push'[u] = n) <=> (\E u \in Pushers : push[u] = n)
        BY <2>4, <3>3
      <3> QED BY <1>0, <2>1, <2>3, <3>1, <3>2, <3>3
    <2> QED BY <2>4, <2>7, <2>8, <2>9 DEF SeriesInFlight
  <1>4. ASSUME NEW p \in Pads, Series!RemovePad(p) PROVE SeriesInFlight'
    BY <1>4, <1>a DEF Series!RemovePad, Series!tallyVars, Series!threadVars
  <1>5. ASSUME NEW p \in Pads, Series!Unparent(p) PROVE SeriesInFlight'
    BY <1>5, <1>a DEF Series!Unparent, Series!tallyVars, Series!threadVars
  <1>6. ASSUME NEW p \in Pads, Series!Destroy(p) PROVE SeriesInFlight'
    BY <1>6, <1>a DEF Series!Destroy, Series!tallyVars, Series!threadVars
  <1> QED
    BY <1>1, <1>2, <1>3, <1>4, <1>5, <1>6
    DEF Series!Next

\* Every push is counted by the entry in hand, once.
LEMMA SeriesCountedStep ==
  ASSUME Series!SeriesAssumption, SeriesInv, Series!Next
  PROVE  SeriesCounted'
  <1>0. SeriesTallies BY DEF SeriesInv
  <1>a. CASE UNCHANGED <<count, untracked, fate>>
    <2>1. \A f : Series!CountedBy(f)' = Series!CountedBy(f) BY <1>a DEF Series!CountedBy
    <2> QED BY <1>a, <2>1 DEF SeriesInv, SeriesCounted
  <1>1. ASSUME NEW t \in Pushers, NEW p \in Pads, Series!UpdatePad(t, p) PROVE SeriesCounted'
    <2>1. /\ UNCHANGED <<count, untracked>>
          /\ pushed + 1 \in 1..MaxPushes /\ fate[pushed + 1] = Series!InFlight
      BY <1>1, Pushes
    <2>2. CASE fate' = fate BY <1>a, <2>1, <2>2
    <2>3. CASE fate' = [fate EXCEPT ![pushed + 1] = Series!Parentless]
      <3>0. PICK e \in Series!Fates : e = Series!Parentless BY EntriesApart
      <3>0a. fate' = [fate EXCEPT ![pushed + 1] = e] BY <2>3, <3>0
      <3>0b. \A f : f # Series!InFlight => Cardinality(Series!CountedBy(f)') =
               IF f = e THEN Cardinality(Series!CountedBy(f)) + 1
               ELSE Cardinality(Series!CountedBy(f))
        BY <1>0, <2>1, <3>0a, OneMoreCounted
      <3>0c. \A f \in Series!Entries : f # Series!InFlight /\ f # e BY <3>0, EntriesApart
      <3>1. \A f \in Series!Entries :
              Cardinality(Series!CountedBy(f)') = Cardinality(Series!CountedBy(f))
        BY <3>0b, <3>0c
      <3> QED BY <2>1, <3>1, EntriesApart DEF SeriesInv, SeriesCounted
    <2> QED BY <1>1, <2>2, <2>3, Pushes
  <1>2. ASSUME NEW t \in Pushers, Series!Register(t) PROVE SeriesCounted'
    BY <1>2, <1>a DEF Series!Register, Series!tallyVars
  <1>3. ASSUME NEW t \in Pushers, Series!IncrementEntry(t) PROVE SeriesCounted'
    <2>1. push[t] \in 1..MaxPushes /\ fate[push[t]] = Series!InFlight BY <1>3, Counts
    <2>2. PICK e \in Series!Entries :
            /\ e \in Series!Fates /\ fate' = [fate EXCEPT ![push[t]] = e]
            /\ count' = IF e.kind = "tracked" THEN [count EXCEPT ![e.series] = @ + 1] ELSE count
            /\ untracked' = IF e.kind = "limit" THEN untracked + 1 ELSE untracked
      BY <1>3, Counts
    <2>3. \A f \in Series!Entries : Cardinality(Series!CountedBy(f)') =
            IF f = e THEN Cardinality(Series!CountedBy(f)) + 1 ELSE Cardinality(Series!CountedBy(f))
      <3>1. \A f : f # Series!InFlight => Cardinality(Series!CountedBy(f)') =
              IF f = e THEN Cardinality(Series!CountedBy(f)) + 1
              ELSE Cardinality(Series!CountedBy(f))
        BY <1>0, <2>1, <2>2, OneMoreCounted
      <3>2. \A f \in Series!Entries : f # Series!InFlight BY EntriesApart
      <3> QED BY <3>1, <3>2
    <2>4. untracked' = Cardinality(Series!CountedBy(Series!SeriesLimit)')
      <3>1. e.kind = "limit" <=> Series!SeriesLimit = e BY EntriesApart
      <3>2. Series!SeriesLimit \in Series!Entries BY EntriesApart
      <3> QED BY <2>2, <2>3, <3>1, <3>2 DEF SeriesInv, SeriesCounted
    <2>5. ASSUME NEW s \in Series!SeriesIds
          PROVE  count'[s] = Cardinality(Series!CountedBy(Series!TrackedAs(s))')
      <3>1. Series!TrackedAs(s) \in Series!Entries BY EntriesApart
      <3>2. count[s] = Cardinality(Series!CountedBy(Series!TrackedAs(s))) BY DEF SeriesInv, SeriesCounted
      <3>3. count \in [Series!SeriesIds -> Nat] BY DEF SeriesInv, SeriesTallies
      <3>4. CASE Series!TrackedAs(s) = e
        <4>1. e.kind = "tracked" /\ e.series = s BY <3>4, EntriesApart
        <4>2. count'[s] = count[s] + 1 BY <2>2, <3>3, <4>1
        <4> QED BY <2>3, <3>1, <3>2, <3>4, <4>2
      <3>5. CASE Series!TrackedAs(s) # e
        <4>1. e.kind = "tracked" => e.series # s /\ e.series \in Series!SeriesIds
          BY <3>5, EntriesApart
        <4>2. count'[s] = count[s] BY <2>2, <3>3, <4>1
        <4> QED BY <2>3, <3>1, <3>2, <3>5, <4>2
      <3> QED BY <3>4, <3>5
    <2> QED BY <2>4, <2>5 DEF SeriesCounted
  <1>4. ASSUME NEW p \in Pads, Series!RemovePad(p) PROVE SeriesCounted'
    BY <1>4, <1>a DEF Series!RemovePad, Series!tallyVars
  <1>5. ASSUME NEW p \in Pads, Series!Unparent(p) PROVE SeriesCounted'
    BY <1>5, <1>a DEF Series!Unparent, Series!tallyVars
  <1>6. ASSUME NEW p \in Pads, Series!Destroy(p) PROVE SeriesCounted'
    BY <1>6, <1>a DEF Series!Destroy, Series!tallyVars
  <1> QED
    BY <1>1, <1>2, <1>3, <1>4, <1>5, <1>6
    DEF Series!Next

\* No step of any part breaks the invariant of the pad series, ...
LEMMA SeriesNextInv ==
  ASSUME Series!SeriesAssumption, SeriesInv, [Next]_tracersVars
  PROVE  SeriesInv'
  <1>1. CASE OnlyOf("series") /\ Series!Next
    BY <1>1, SeriesMapStep, SeriesThreadsStep, SeriesPadsStep, SeriesAliveStep, SeriesNumbersStep,
       SeriesTalliesStep, SeriesInFlightStep, SeriesCountedStep
    DEF SeriesInv
  <1>2. CASE UNCHANGED seriesVars
    <2> USE DEF seriesVars
    <2>1. SeriesMaps' /\ SeriesThreads' BY <1>2 DEF SeriesInv, SeriesMaps, SeriesThreads
    <2>2. SeriesTallies' /\ SeriesPads' BY <1>2 DEF SeriesInv, SeriesTallies, SeriesPads
    <2>3. Series!TrackedPads' = Series!TrackedPads BY <1>2 DEF Series!TrackedPads
    <2>4. SeriesCap' /\ SeriesFamily' BY <1>2, <2>3 DEF SeriesInv, SeriesCap, SeriesFamily
    <2>5. Registering' = Registering BY <1>2 DEF Registering
    <2>6. SeriesNumbers' BY <1>2, <2>5 DEF SeriesInv, SeriesNumbers
    <2>7. SeriesAlive' /\ SeriesInFlight' BY <1>2 DEF SeriesInv, SeriesAlive, SeriesInFlight
    <2>8. \A f : Series!CountedBy(f)' = Series!CountedBy(f) BY <1>2 DEF Series!CountedBy
    <2>9. SeriesCounted' BY <1>2, <2>8 DEF SeriesInv, SeriesCounted
    <2> QED BY <2>1, <2>2, <2>4, <2>6, <2>7, <2>9 DEF SeriesInv
  <1>3. CASE OnlyOf("server") \/ OnlyOf("pipelines") \/ OnlyOf("limits") \/ OnlyOf("identities")
             \/ OnlyOf("worker") \/ OnlyOf("intervals")
    BY <1>2, <1>3 DEF OnlyOf
  <1>4. CASE UNCHANGED tracersVars BY <1>2, <1>4 DEF tracersVars
  <1> QED BY <1>1, <1>3, <1>4 DEF Next

\* ... and the invariant says what is true of the pads, the families and the pushes.
LEMMA SeriesInvTells ==
  ASSUME Series!SeriesAssumption, SeriesInv
  PROVE  Series!SeriesConsistent
  <1>0. \A S : Series!Cardinality(S) = Cardinality(S) BY DEF Series!Cardinality, Cardinality
  <1>1. Series!LimitIsExact BY <1>0 DEF SeriesInv, SeriesCap, Series!LimitIsExact
  <1>2. Series!NoOrphans BY DEF SeriesInv, SeriesFamily, SeriesAlive, Series!NoOrphans
  <1>3. Series!ScrapedUnlessRobbed BY DEF SeriesInv, SeriesFamily, Series!ScrapedUnlessRobbed
  <1>4. Series!PushesConserved
    <2>1. \A s \in Series!SeriesIds : count[s] = Series!Cardinality(Series!CountedBy(Series!TrackedAs(s)))
      BY <1>0 DEF SeriesInv, SeriesCounted
    <2>2. untracked = Series!Cardinality(Series!CountedBy(Series!SeriesLimit))
      BY <1>0 DEF SeriesInv, SeriesCounted
    <2>3. \A n \in 1..pushed : n \in 1..MaxPushes /\ ~(n > pushed)
      BY DEF SeriesInv, SeriesNumbers, Series!SeriesAssumption
    <2>4. \A n \in 1..pushed : fate[n] = Series!InFlight <=> \E t \in Pushers : push[t] = n
      BY <2>3 DEF SeriesInv, SeriesInFlight
    <2>5. \A t, u \in Pushers : push[t] = push[u] => t = u \/ push[t] = 0
      BY DEF SeriesInv, SeriesInFlight
    <2> QED BY <2>1, <2>2, <2>4, <2>5 DEF Series!PushesConserved
  <1>5. nextSeries \in 1..(MaxPushes + 1)
    <2>1. PICK k \in Nat : k = Cardinality(Registering)
      BY FS_CardinalityType DEF SeriesInv, SeriesNumbers
    <2>2. /\ nextSeries - 1 + k <= pushed /\ nextSeries \in Nat \ {0}
          /\ pushed \in 0..MaxPushes /\ MaxPushes \in Nat
      BY <2>1 DEF SeriesInv, SeriesNumbers, Series!SeriesAssumption
    <2> QED BY <2>2
  <1>6. Series!TypeOK
    BY <1>5 DEF SeriesInv, SeriesMaps, SeriesThreads, SeriesTallies, SeriesPads, SeriesCap,
      SeriesNumbers, SeriesInFlight, Series!TypeOK
  <1> QED BY <1>1, <1>2, <1>3, <1>4, <1>6 DEF Series!SeriesConsistent

\* The pad series of the prometheus tracer: the limit is exact, no label set is left
\* without its pad, a pad is scraped in its own series unless a twin's removal took
\* it, and every push is counted by exactly one entry, for any set of pads, filters,
\* pushing threads and limits.
THEOREM SeriesStayConsistent ==
  Spec => []SeriesConsistent
  <1>0. Series!SeriesAssumption BY TracersAssumption DEF TracersAssumption
  <1>1. Init => SeriesInv BY <1>0, SeriesInitInv DEF Init
  <1>2. SeriesInv /\ [Next]_tracersVars => SeriesInv' BY <1>0, SeriesNextInv
  <1>3. SeriesInv => SeriesConsistent BY <1>0, SeriesInvTells DEF SeriesConsistent
  <1> QED BY <1>1, <1>2, <1>3, PTL DEF Spec

-----------------------------------------------------------------------------
(***************************************************************************)
(* The cached limits of a queue. The mutex makes the sampler alone with    *)
(* the cache while it reads: what it has read is the queue's, or about to  *)
(* be notified of, as what is cached is.                                   *)
(***************************************************************************)
LimitNumbers ==
  /\ limit \in [Limits -> Nat] /\ sample \in [Limits -> Nat]
  /\ lock \in {"free", "sampler"} /\ unread \subseteq Limits
  /\ sets \in 0..MaxSets /\ sampleCount \in 0..MaxSamples
LimitCaches ==
  /\ limits \in [DOMAIN limits -> Nat] /\ DOMAIN limits \in {Limits, {}}
  /\ read \in [DOMAIN read -> Nat] /\ DOMAIN read \subseteq Limits
LimitNotices == notice \in [Setters -> Limits \union {"quiet"}]

\* While the sampler reads, nothing is cached, and it has read all that it need not read.
LimitLock ==
  /\ unread # {} => lock = "sampler"
  /\ lock = "sampler" => DOMAIN limits = {} /\ DOMAIN read = Limits \ unread

\* A value that is not the queue's has its notification still to come.
Awaited(l) == \E s \in Setters : notice[s] = l
LimitTruth ==
  /\ \A l \in DOMAIN limits : limits[l] = limit[l] \/ Awaited(l)
  /\ lock = "sampler" => \A l \in DOMAIN read : read[l] = limit[l] \/ Awaited(l)

LimitInv == LimitNumbers /\ LimitCaches /\ LimitNotices /\ LimitLock /\ LimitTruth

\* The cache begins with the invariant.
LEMMA LimitInitInv ==
  ASSUME LimitCache!LimitsAssumption, LimitCache!Init
  PROVE  LimitInv
  <1> USE DEF LimitCache!Init, LimitCache!NoLimits
  <1>1. LimitNumbers BY DEF LimitNumbers, LimitCache!LimitsAssumption
  <1>2. LimitCaches BY DEF LimitCaches
  <1>3. LimitNotices BY DEF LimitNotices, LimitCache!Quiet
  <1>4. LimitLock BY DEF LimitLock
  <1>5. LimitTruth BY DEF LimitTruth
  <1> QED BY <1>1, <1>2, <1>3, <1>4, <1>5 DEF LimitInv

\* What reading one limit leaves: it is the queue's, and what was read stays.
LEMMA OneLimitRead ==
  ASSUME LimitInv, NEW l \in Limits, LimitCache!ReadLimit(l)
  PROVE  /\ lock = "sampler" /\ unread' = unread \ {l} /\ UNCHANGED <<limit, notice>>
         /\ read' \in [DOMAIN read' -> Nat] /\ DOMAIN read' = Limits \ unread'
         /\ \A k \in DOMAIN read' : read'[k] = limit[k] \/ Awaited(k)
  <1>1. l \in unread /\ unread' = unread \ {l} /\ UNCHANGED <<limit, notice>>
    BY DEF LimitCache!ReadLimit
  <1>2. read' = [k \in DOMAIN read \union {l} |-> IF k = l THEN limit[l] ELSE read[k]]
    BY DEF LimitCache!ReadLimit
  <1>3. lock = "sampler" BY <1>1 DEF LimitInv, LimitLock
  <1>4. DOMAIN read' = DOMAIN read \union {l} BY <1>2
  <1>5. DOMAIN read' = Limits \ unread' BY <1>1, <1>3, <1>4 DEF LimitInv, LimitLock, LimitNumbers
  <1>6. \A k \in DOMAIN read' : read'[k] = IF k = l THEN limit[l] ELSE read[k] BY <1>2, <1>4
  <1>7. \A k \in DOMAIN read' : read'[k] \in Nat
    BY <1>4, <1>6 DEF LimitInv, LimitCaches, LimitNumbers
  <1>8. read' \in [DOMAIN read' -> Nat] BY <1>2, <1>4, <1>7
  <1>9. \A k \in DOMAIN read' : read'[k] = limit[k] \/ Awaited(k)
    BY <1>3, <1>4, <1>6 DEF LimitInv, LimitTruth
  <1> QED BY <1>1, <1>3, <1>5, <1>8, <1>9

\* No step of a setter or the sampler breaks the invariant.
LEMMA LimitStep ==
  ASSUME LimitCache!LimitsAssumption, LimitInv, LimitCache!Next
  PROVE  LimitInv'
  <1>1. ASSUME NEW s \in Setters, NEW l \in Limits, LimitCache!Set(s, l) PROVE LimitInv'
    <2>1. /\ notice[s] = "quiet" /\ limit' = [limit EXCEPT ![l] = @ + 1]
          /\ notice' = [notice EXCEPT ![s] = l] /\ sets < MaxSets /\ sets' = sets + 1
          /\ UNCHANGED <<limits, lock, read, unread, sample, sampleCount>>
      BY <1>1 DEF LimitCache!Set, LimitCache!Quiet
    <2>2. /\ limit' \in [Limits -> Nat] /\ \A k \in Limits \ {l} : limit'[k] = limit[k]
      BY <2>1 DEF LimitInv, LimitNumbers
    <2>3. sets' \in 0..MaxSets BY <2>1 DEF LimitInv, LimitNumbers, LimitCache!LimitsAssumption
    <2>4. LimitNumbers' BY <2>1, <2>2, <2>3 DEF LimitInv, LimitNumbers
    <2>5. LimitCaches' /\ LimitLock' BY <2>1 DEF LimitInv, LimitCaches, LimitLock
    <2>6. /\ LimitNotices' /\ notice'[s] = l
          /\ \A r \in Setters \ {s} : notice'[r] = notice[r]
      BY <2>1 DEF LimitInv, LimitNotices
    <2>7. Awaited(l)' BY <2>6 DEF Awaited
    <2>8. ASSUME NEW k \in Limits, Awaited(k) PROVE Awaited(k)'
      <3>1. PICK r \in Setters : notice[r] = k BY <2>8 DEF Awaited
      <3>2. r # s BY <2>1, <3>1 DEF LimitCache!LimitsAssumption
      <3> QED BY <2>6, <3>1, <3>2 DEF Awaited
    <2>9. DOMAIN limits \subseteq Limits /\ DOMAIN read \subseteq Limits BY DEF LimitInv, LimitCaches
    <2>10. ASSUME NEW k \in Limits, NEW v, v = limit[k] \/ Awaited(k)
           PROVE  v = limit'[k] \/ Awaited(k)'
      BY <2>2, <2>7, <2>8, <2>10
    <2>11. \A k \in DOMAIN limits : limits[k] = limit'[k] \/ Awaited(k)'
      BY <2>9, <2>10 DEF LimitInv, LimitTruth
    <2>12. lock = "sampler" => \A k \in DOMAIN read : read[k] = limit'[k] \/ Awaited(k)'
      BY <2>9, <2>10 DEF LimitInv, LimitTruth
    <2>13. LimitTruth' BY <2>1, <2>11, <2>12 DEF LimitTruth
    <2> QED BY <2>4, <2>5, <2>6, <2>13 DEF LimitInv
  <1>2. ASSUME NEW s \in Setters, LimitCache!Notify(s) PROVE LimitInv'
    <2>1. /\ lock = "free" /\ limits' = LimitCache!NoLimits /\ notice' = [notice EXCEPT ![s] = "quiet"]
          /\ UNCHANGED <<limit, lock, read, unread, sample, sets, sampleCount>>
      BY <1>2 DEF LimitCache!Notify, LimitCache!Quiet
    <2>2. DOMAIN limits' = {} /\ limits' \in [DOMAIN limits' -> Nat] BY <2>1 DEF LimitCache!NoLimits
    <2>3. LimitNumbers' /\ LimitNotices' BY <2>1 DEF LimitInv, LimitNumbers, LimitNotices
    <2>4. LimitCaches' BY <2>1, <2>2 DEF LimitInv, LimitCaches
    <2>5. LimitLock' BY <2>1, <2>2 DEF LimitInv, LimitLock
    <2>6. LimitTruth' BY <2>1, <2>2 DEF LimitTruth
    <2> QED BY <2>3, <2>4, <2>5, <2>6 DEF LimitInv
  <1>3. CASE LimitCache!SampleBegin
    <2>1. /\ limits = LimitCache!NoLimits /\ lock' = "sampler" /\ unread' = Limits
          /\ read' = LimitCache!NoLimits /\ sampleCount < MaxSamples /\ sampleCount' = sampleCount + 1
          /\ UNCHANGED <<limit, limits, sample, notice, sets>>
      BY <1>3 DEF LimitCache!SampleBegin, LimitCache!ReadsLocked, LimitCache!Sampler
    <2>2. /\ DOMAIN limits' = {} /\ limits' \in [DOMAIN limits' -> Nat]
          /\ DOMAIN read' = {} /\ read' \in [DOMAIN read' -> Nat]
      BY <2>1 DEF LimitCache!NoLimits
    <2>3. sampleCount' \in 0..MaxSamples
      BY <2>1 DEF LimitInv, LimitNumbers, LimitCache!LimitsAssumption
    <2>4. LimitNumbers' /\ LimitNotices' BY <2>1, <2>3 DEF LimitInv, LimitNumbers, LimitNotices
    <2>5. LimitCaches' BY <2>2 DEF LimitCaches
    <2>6. LimitLock' BY <2>1, <2>2 DEF LimitLock
    <2>7. LimitTruth' BY <2>1, <2>2 DEF LimitTruth
    <2> QED BY <2>4, <2>5, <2>6, <2>7 DEF LimitInv
  <1>4. ASSUME NEW l \in Limits, LimitCache!ReadLimit(l) PROVE LimitInv'
    <2>1. /\ lock = "sampler" /\ unread' = unread \ {l} /\ UNCHANGED <<limit, notice>>
          /\ read' \in [DOMAIN read' -> Nat] /\ DOMAIN read' = Limits \ unread'
          /\ \A k \in DOMAIN read' : read'[k] = limit[k] \/ Awaited(k)
      BY <1>4, OneLimitRead
    <2>2. UNCHANGED <<sets, sampleCount>> BY <1>4 DEF LimitCache!ReadLimit
    <2>4. \A k : Awaited(k)' <=> Awaited(k) BY <2>1 DEF Awaited
    <2>5. LimitNotices' BY <2>1 DEF LimitInv, LimitNotices
    <2>6. CASE unread' = {}
      <3>1. limits' = read' /\ sample' = read' /\ lock' = "free"
        BY <1>4, <2>6 DEF LimitCache!ReadLimit
      <3>2. DOMAIN read' = Limits BY <2>1, <2>6
      <3>3. LimitNumbers' BY <2>1, <2>2, <2>6, <3>1, <3>2 DEF LimitInv, LimitNumbers
      <3>4. LimitCaches' BY <2>1, <3>1, <3>2 DEF LimitCaches
      <3>5. LimitLock' BY <2>6, <3>1 DEF LimitLock
      <3>6. LimitTruth' BY <2>1, <2>4, <3>1 DEF LimitTruth
      <3> QED BY <2>5, <3>3, <3>4, <3>5, <3>6 DEF LimitInv
    <2>7. CASE unread' # {}
      <3>1. UNCHANGED <<limits, sample, lock>> BY <1>4, <2>7 DEF LimitCache!ReadLimit
      <3>2. LimitNumbers' BY <2>1, <2>2, <3>1 DEF LimitInv, LimitNumbers
      <3>3. LimitCaches' BY <2>1, <3>1 DEF LimitInv, LimitCaches
      <3>4. LimitLock' BY <2>1, <3>1 DEF LimitInv, LimitLock
      <3>5. LimitTruth' BY <2>1, <2>4, <3>1 DEF LimitInv, LimitTruth
      <3> QED BY <2>5, <3>2, <3>3, <3>4, <3>5 DEF LimitInv
    <2> QED BY <2>6, <2>7
  <1>5. CASE LimitCache!SampleCached
    <2>1. /\ limits # LimitCache!NoLimits /\ sample' = limits
          /\ sampleCount < MaxSamples /\ sampleCount' = sampleCount + 1
          /\ UNCHANGED <<limit, limits, lock, read, unread, notice, sets>>
      BY <1>5 DEF LimitCache!SampleCached
    <2>2. DOMAIN limits # {} \/ Limits = {}
      BY <2>1 DEF LimitInv, LimitCaches, LimitCache!NoLimits
    <2>3. limits \in [Limits -> Nat] BY <2>2 DEF LimitInv, LimitCaches
    <2>4. sampleCount' \in 0..MaxSamples
      BY <2>1 DEF LimitInv, LimitNumbers, LimitCache!LimitsAssumption
    <2>5. LimitNumbers' BY <2>1, <2>3, <2>4 DEF LimitInv, LimitNumbers
    <2>6. LimitCaches' /\ LimitNotices' /\ LimitLock'
      BY <2>1 DEF LimitInv, LimitCaches, LimitNotices, LimitLock
    <2>7. LimitTruth' BY <2>1 DEF LimitInv, LimitTruth, Awaited
    <2> QED BY <2>5, <2>6, <2>7 DEF LimitInv
  <1> QED BY <1>1, <1>2, <1>3, <1>4, <1>5 DEF LimitCache!Next

\* No step of any part breaks the invariant of the cached limits, ...
LEMMA LimitNextInv ==
  ASSUME LimitCache!LimitsAssumption, LimitInv, [Next]_tracersVars
  PROVE  LimitInv'
  <1>1. CASE OnlyOf("limits") /\ LimitCache!Next BY <1>1, LimitStep
  <1>2. CASE UNCHANGED limitVars
    <2> USE DEF limitVars
    <2>1. LimitNumbers' BY <1>2 DEF LimitInv, LimitNumbers
    <2>2. LimitCaches' BY <1>2 DEF LimitInv, LimitCaches
    <2>3. LimitNotices' /\ LimitLock' BY <1>2 DEF LimitInv, LimitNotices, LimitLock
    <2>4. LimitTruth' BY <1>2 DEF LimitInv, LimitTruth, Awaited
    <2> QED BY <2>1, <2>2, <2>3, <2>4 DEF LimitInv
  <1>3. CASE OnlyOf("server") \/ OnlyOf("series") \/ OnlyOf("pipelines") \/ OnlyOf("identities")
             \/ OnlyOf("worker") \/ OnlyOf("intervals")
    BY <1>2, <1>3 DEF OnlyOf
  <1>4. CASE UNCHANGED tracersVars BY <1>2, <1>4 DEF tracersVars
  <1> QED BY <1>1, <1>3, <1>4 DEF Next

\* ... and the invariant says what an observer may rely on.
LEMMA LimitInvTells ==
  ASSUME LimitCache!LimitsAssumption, LimitInv
  PROVE  LimitCache!LimitsConsistent
  <1>1. LimitCache!TypeOK
    BY DEF LimitInv, LimitNumbers, LimitCaches, LimitNotices, LimitCache!TypeOK,
      LimitCache!Sampler, LimitCache!Quiet
  <1>2. LimitCache!StaleLimitsAreCleared
    BY DEF LimitInv, LimitTruth, Awaited, LimitCache!StaleLimitsAreCleared
  <1> QED BY <1>1, <1>2 DEF LimitCache!LimitsConsistent

-----------------------------------------------------------------------------
(***************************************************************************)
(* The state gauges of a pipeline. A scrape that nothing disturbed saw the *)
(* state the pipeline still has; its refresh has made the gauges it passed *)
(* the right ones, and it has written each gauge that it passed.           *)
(***************************************************************************)
PipeNumbers ==
  /\ state \in 0..3 /\ hook \in 0..4 /\ hookState \in 0..3
  /\ scrapeState \in 0..3 /\ next \in 0..3 /\ moves \in 0..MaxMoves
PipeFlags ==
  /\ live \in BOOLEAN /\ tracked \in BOOLEAN /\ observed \in BOOLEAN /\ disturbed \in BOOLEAN
  /\ scrape \in {"idle", "refresh", "write", "done"}
PipeGauges == gauge \in [0..3 -> 0..1] /\ output \in [0..3 -> {0, 1, 2}]

\* A pipeline that is gone is not tracked; one that is tracked has gauges at zero
\* until its first transition.
PipeEntry ==
  /\ ~live => ~tracked /\ hook = 4
  /\ observed => tracked
  /\ hook # 4 => observed
  /\ scrape = "refresh" => observed \/ ~live
  /\ live /\ ~observed => \A i \in 0..3 : gauge[i] = 0

\* What an undisturbed scrape saw still is.
PipeSeen == scrape # "idle" /\ ~disturbed => hook = 4 /\ scrapeState = state

Hot(i) == gauge[i] = IF i = scrapeState THEN 1 ELSE 0
PipeRefreshed ==
  /\ scrape = "refresh" /\ ~disturbed => observed /\ \A i \in 0..3 : i < next => Hot(i)
  /\ scrape \in {"write", "done"} /\ ~disturbed /\ observed => \A i \in 0..3 : Hot(i)

Written(i) == output[i] = IF tracked THEN gauge[i] ELSE 2
PipeWritten ==
  /\ scrape = "refresh" => \A i \in 0..3 : output[i] = 2
  /\ scrape = "write" =>
       \A i \in 0..3 : /\ i < next /\ ~disturbed => Written(i)
                       /\ ~(i < next) => output[i] = 2
  /\ scrape = "done" /\ ~disturbed => \A i \in 0..3 : Written(i)

PipeInv ==
  /\ PipeNumbers /\ PipeFlags /\ PipeGauges /\ PipeEntry
  /\ PipeSeen /\ PipeRefreshed /\ PipeWritten

\* The pipeline begins with the invariant.
LEMMA PipeInitInv ==
  ASSUME Pipelines!MovesAssumption, Pipelines!Init
  PROVE  PipeInv
  <1> USE DEF Pipelines!Init, Pipelines!States, Pipelines!Missing, Pipelines!Idle
  <1>0. 0 \in 0..MaxMoves BY DEF Pipelines!MovesAssumption
  <1>1a. PipeNumbers BY <1>0 DEF PipeNumbers
  <1>1. PipeFlags BY DEF PipeFlags
  <1>2. PipeGauges BY DEF PipeGauges
  <1>3. PipeEntry BY DEF PipeEntry
  <1>4. PipeSeen /\ PipeRefreshed /\ PipeWritten BY DEF PipeSeen, PipeRefreshed, PipeWritten
  <1> QED BY <1>1a, <1>1, <1>2, <1>3, <1>4 DEF PipeInv

\* The next gauge, and the first one after the last.
LEMMA NextGauge ==
  ASSUME next \in 0..3
  PROVE  /\ (next + 1) % 4 = (IF next = 3 THEN 0 ELSE next + 1)
         /\ (next + 1) % 4 \in 0..3
  <1>1. next = 0 \/ next = 1 \/ next = 2 \/ next = 3 OBVIOUS
  <1>2. CASE next = 0 BY <1>2
  <1>3. CASE next = 1 BY <1>3
  <1>4. CASE next = 2 BY <1>4
  <1>5. CASE next = 3 BY <1>5
  <1> QED BY <1>1, <1>2, <1>3, <1>4, <1>5

\* The counters of the gauges stay in their ranges.
LEMMA PipeNumbersStep ==
  ASSUME Pipelines!MovesAssumption, PipeInv, Pipelines!Next
  PROVE  PipeNumbers'
  <1>0. PipeNumbers BY DEF PipeInv
  <1> USE <1>0 DEF PipeNumbers, Pipelines!MovesAssumption, Pipelines!States, Pipelines!Missing,
    Pipelines!Idle
  <1>1. CASE Pipelines!TrackPipeline BY <1>1 DEF Pipelines!TrackPipeline
  <1>2. CASE Pipelines!HookSets BY <1>2 DEF Pipelines!HookSets
  <1>3. CASE Pipelines!Destroy BY <1>3 DEF Pipelines!Destroy
  <1>4. CASE Pipelines!ScrapeBegin BY <1>4 DEF Pipelines!ScrapeBegin
  <1>5. CASE Pipelines!ScrapeSets BY <1>5, NextGauge DEF Pipelines!ScrapeSets
  <1>6. CASE Pipelines!ScrapeWrites BY <1>6, NextGauge DEF Pipelines!ScrapeWrites
  <1>7. CASE Pipelines!ScrapeEnd BY <1>7 DEF Pipelines!ScrapeEnd
  <1>8. ASSUME NEW s \in 0..3, Pipelines!Commit(s) PROVE PipeNumbers' BY <1>8 DEF Pipelines!Commit
  <1>9. ASSUME NEW s \in 0..3, Pipelines!StateHook(s) PROVE PipeNumbers'
    BY <1>9 DEF Pipelines!StateHook
  <1> QED
    BY <1>1, <1>2, <1>3, <1>4, <1>5, <1>6, <1>7, <1>8, <1>9
    DEF Pipelines!Next, Pipelines!States

\* The flags of the gauges.
LEMMA PipeFlagsStep ==
  ASSUME Pipelines!MovesAssumption, PipeInv, Pipelines!Next
  PROVE  PipeFlags'
  <1>0. PipeFlags BY DEF PipeInv
  <1> USE <1>0 DEF PipeFlags, Pipelines!States, Pipelines!Missing, Pipelines!Idle
  <1>1. CASE Pipelines!TrackPipeline BY <1>1 DEF Pipelines!TrackPipeline
  <1>2. CASE Pipelines!HookSets BY <1>2 DEF Pipelines!HookSets
  <1>3. CASE Pipelines!Destroy BY <1>3 DEF Pipelines!Destroy
  <1>4. CASE Pipelines!ScrapeBegin
    <2>1. disturbed' \in BOOLEAN
      BY <1>4 DEF Pipelines!ScrapeBegin
    <2>2. scrape' \in {"refresh", "write"} /\ UNCHANGED <<live, tracked, observed>>
      BY <1>4 DEF Pipelines!ScrapeBegin
    <2> QED BY <2>1, <2>2
  <1>5. CASE Pipelines!ScrapeSets BY <1>5 DEF Pipelines!ScrapeSets
  <1>6. CASE Pipelines!ScrapeWrites BY <1>6 DEF Pipelines!ScrapeWrites
  <1>7. CASE Pipelines!ScrapeEnd BY <1>7 DEF Pipelines!ScrapeEnd
  <1>8. ASSUME NEW s \in 0..3, Pipelines!Commit(s) PROVE PipeFlags' BY <1>8 DEF Pipelines!Commit
  <1>9. ASSUME NEW s \in 0..3, Pipelines!StateHook(s) PROVE PipeFlags'
    BY <1>9 DEF Pipelines!StateHook
  <1> QED
    BY <1>1, <1>2, <1>3, <1>4, <1>5, <1>6, <1>7, <1>8, <1>9
    DEF Pipelines!Next, Pipelines!States

\* Gauges are zero or one, and so is what was written of them.
LEMMA PipeGaugesStep ==
  ASSUME Pipelines!MovesAssumption, PipeInv, Pipelines!Next
  PROVE  PipeGauges'
  <1>0. PipeGauges /\ PipeNumbers BY DEF PipeInv
  <1> USE <1>0 DEF PipeGauges, PipeNumbers, Pipelines!States, Pipelines!Missing, Pipelines!Idle
  <1>1. CASE Pipelines!TrackPipeline BY <1>1 DEF Pipelines!TrackPipeline
  <1>2. CASE Pipelines!HookSets
    <2>1. hook \in 0..3 /\ UNCHANGED output
      BY <1>2 DEF Pipelines!HookSets
    <2>2. gauge' = [gauge EXCEPT ![hook] = IF hook = hookState THEN 1 ELSE 0]
      BY <1>2 DEF Pipelines!HookSets
    <2>3. PICK g \in 0..1 : g = IF hook = hookState THEN 1 ELSE 0 OBVIOUS
    <2>4. gauge' = [gauge EXCEPT ![hook] = g] BY <2>2, <2>3
    <2> QED BY <2>1, <2>4
  <1>3. CASE Pipelines!Destroy BY <1>3 DEF Pipelines!Destroy
  <1>4. CASE Pipelines!ScrapeBegin BY <1>4 DEF Pipelines!ScrapeBegin
  <1>5. CASE Pipelines!ScrapeSets
    <2>1. UNCHANGED output BY <1>5 DEF Pipelines!ScrapeSets
    <2>2. \/ gauge' = gauge
          \/ gauge' = [gauge EXCEPT ![next] = IF next = scrapeState THEN 1 ELSE 0]
      BY <1>5 DEF Pipelines!ScrapeSets
    <2>3. PICK g \in 0..1 : g = IF next = scrapeState THEN 1 ELSE 0 OBVIOUS
    <2>4. gauge' = gauge \/ gauge' = [gauge EXCEPT ![next] = g] BY <2>2, <2>3
    <2> QED BY <2>1, <2>4
  <1>6. CASE Pipelines!ScrapeWrites
    <2>1. UNCHANGED gauge BY <1>6 DEF Pipelines!ScrapeWrites
    <2>2. PICK g \in 0..1 : output' = output \/ output' = [output EXCEPT ![next] = g]
      BY <1>6 DEF Pipelines!ScrapeWrites
    <2> QED BY <2>1, <2>2
  <1>7. CASE Pipelines!ScrapeEnd BY <1>7 DEF Pipelines!ScrapeEnd
  <1>8. ASSUME NEW s \in 0..3, Pipelines!Commit(s) PROVE PipeGauges' BY <1>8 DEF Pipelines!Commit
  <1>9. ASSUME NEW s \in 0..3, Pipelines!StateHook(s) PROVE PipeGauges'
    BY <1>9 DEF Pipelines!StateHook
  <1> QED
    BY <1>1, <1>2, <1>3, <1>4, <1>5, <1>6, <1>7, <1>8, <1>9
    DEF Pipelines!Next, Pipelines!States

\* An entry and its gauges go with the pipeline.
LEMMA PipeEntryStep ==
  ASSUME Pipelines!MovesAssumption, PipeInv, Pipelines!Next
  PROVE  PipeEntry'
  <1>0. PipeEntry /\ PipeNumbers /\ PipeGauges BY DEF PipeInv
  <1> USE <1>0 DEF PipeEntry, PipeNumbers, PipeGauges, Pipelines!Refreshes, Pipelines!States,
    Pipelines!Missing, Pipelines!Idle
  <1>1. CASE Pipelines!TrackPipeline BY <1>1 DEF Pipelines!TrackPipeline
  <1>2. CASE Pipelines!HookSets
    <2>1. hook # 4 /\ observed /\ live /\ UNCHANGED <<live, tracked, observed, scrape>>
      BY <1>2 DEF Pipelines!HookSets
    <2> QED BY <2>1
  <1>3. CASE Pipelines!Destroy BY <1>3 DEF Pipelines!Destroy
  <1>4. CASE Pipelines!ScrapeBegin BY <1>4 DEF Pipelines!ScrapeBegin
  <1>5. CASE Pipelines!ScrapeSets BY <1>5 DEF Pipelines!ScrapeSets
  <1>6. CASE Pipelines!ScrapeWrites BY <1>6 DEF Pipelines!ScrapeWrites
  <1>7. CASE Pipelines!ScrapeEnd BY <1>7 DEF Pipelines!ScrapeEnd
  <1>8. ASSUME NEW s \in 0..3, Pipelines!Commit(s) PROVE PipeEntry' BY <1>8 DEF Pipelines!Commit
  <1>9. ASSUME NEW s \in 0..3, Pipelines!StateHook(s) PROVE PipeEntry'
    BY <1>9 DEF Pipelines!StateHook
  <1> QED
    BY <1>1, <1>2, <1>3, <1>4, <1>5, <1>6, <1>7, <1>8, <1>9
    DEF Pipelines!Next, Pipelines!States

\* What an undisturbed scrape saw still is.
LEMMA PipeSeenStep ==
  ASSUME Pipelines!MovesAssumption, PipeInv, Pipelines!Next
  PROVE  PipeSeen'
  <1>0. PipeSeen BY DEF PipeInv
  <1> USE <1>0 DEF PipeSeen, Pipelines!States, Pipelines!Missing, Pipelines!Idle
  <1>1. CASE Pipelines!TrackPipeline BY <1>1 DEF Pipelines!TrackPipeline
  <1>2. CASE Pipelines!HookSets BY <1>2 DEF Pipelines!HookSets
  <1>3. CASE Pipelines!Destroy BY <1>3 DEF Pipelines!Destroy
  <1>4. CASE Pipelines!ScrapeBegin
    <2>1. disturbed' = (hook # 4) /\ scrapeState' = state /\ UNCHANGED <<state, hook>>
      BY <1>4 DEF Pipelines!ScrapeBegin
    <2> QED BY <2>1
  <1>5. CASE Pipelines!ScrapeSets BY <1>5 DEF Pipelines!ScrapeSets
  <1>6. CASE Pipelines!ScrapeWrites BY <1>6 DEF Pipelines!ScrapeWrites
  <1>7. CASE Pipelines!ScrapeEnd BY <1>7 DEF Pipelines!ScrapeEnd
  <1>8. ASSUME NEW s \in 0..3, Pipelines!Commit(s) PROVE PipeSeen' BY <1>8 DEF Pipelines!Commit
  <1>9. ASSUME NEW s \in 0..3, Pipelines!StateHook(s) PROVE PipeSeen'
    BY <1>9 DEF Pipelines!StateHook
  <1> QED
    BY <1>1, <1>2, <1>3, <1>4, <1>5, <1>6, <1>7, <1>8, <1>9
    DEF Pipelines!Next, Pipelines!States

\* A scrape that refreshed made the gauges right.
LEMMA PipeRefreshedStep ==
  ASSUME Pipelines!MovesAssumption, PipeInv, Pipelines!Next
  PROVE  PipeRefreshed'
  <1>0. PipeRefreshed /\ PipeSeen /\ PipeEntry BY DEF PipeInv
  <1> USE <1>0 DEF PipeRefreshed, Hot, Pipelines!States, Pipelines!Missing, Pipelines!Idle
  <1>1. CASE Pipelines!TrackPipeline BY <1>1 DEF Pipelines!TrackPipeline
  <1>2. CASE Pipelines!HookSets BY <1>2 DEF Pipelines!HookSets
  <1>3. CASE Pipelines!Destroy BY <1>3 DEF Pipelines!Destroy
  <1>4. CASE Pipelines!ScrapeBegin
    <2>1. /\ scrape' = IF Pipelines!Refreshes THEN "refresh" ELSE "write"
          /\ next' = 0 /\ UNCHANGED <<observed, live, tracked, gauge>>
      BY <1>4 DEF Pipelines!ScrapeBegin
    <2>2. observed => Pipelines!Refreshes BY DEF Pipelines!Refreshes, PipeEntry, PipeInv, PipeFlags
    <2>3. CASE Pipelines!Refreshes BY <2>1, <2>3 DEF Pipelines!Refreshes
    <2>4. CASE ~Pipelines!Refreshes BY <2>1, <2>2, <2>4
    <2> QED BY <2>3, <2>4
  <1>5. CASE Pipelines!ScrapeSets
    <2>1. /\ scrape = "refresh" /\ UNCHANGED <<observed, tracked, scrapeState, disturbed>>
          /\ scrape' = IF next = 3 THEN "write" ELSE "refresh"
      BY <1>5 DEF Pipelines!ScrapeSets
    <2>2. CASE disturbed BY <2>1, <2>2
    <2>3. CASE ~disturbed
      <3>1. observed /\ tracked BY <2>1, <2>3 DEF PipeEntry
      <3>2. gauge' = [gauge EXCEPT ![next] = IF next = scrapeState THEN 1 ELSE 0]
        BY <1>5, <3>1 DEF Pipelines!ScrapeSets
      <3>3. next \in 0..3 /\ gauge \in [0..3 -> 0..1] BY DEF PipeInv, PipeNumbers, PipeGauges
      <3>4. \A i \in 0..3 : (i < next \/ i = next) =>
              gauge'[i] = IF i = scrapeState THEN 1 ELSE 0
        BY <2>1, <2>3, <3>2, <3>3
      <3>5. next # 3 => next' = next + 1 BY <1>5, <3>3, NextGauge DEF Pipelines!ScrapeSets
      <3>6. \A i \in 0..3 : ((next # 3 /\ i < next') \/ next = 3) => i < next \/ i = next
        BY <3>3, <3>5
      <3> QED BY <2>1, <3>1, <3>4, <3>6
    <2> QED BY <2>2, <2>3 DEF PipeInv, PipeFlags
  <1>6. CASE Pipelines!ScrapeWrites
    <2>1. /\ scrape = "write" /\ scrape' \in {"write", "done"}
          /\ UNCHANGED <<observed, scrapeState, disturbed, gauge>>
      BY <1>6 DEF Pipelines!ScrapeWrites
    <2> QED BY <2>1
  <1>7. CASE Pipelines!ScrapeEnd BY <1>7 DEF Pipelines!ScrapeEnd
  <1>8. ASSUME NEW s \in 0..3, Pipelines!Commit(s) PROVE PipeRefreshed' BY <1>8 DEF Pipelines!Commit
  <1>9. ASSUME NEW s \in 0..3, Pipelines!StateHook(s) PROVE PipeRefreshed'
    BY <1>9 DEF Pipelines!StateHook
  <1> QED
    BY <1>1, <1>2, <1>3, <1>4, <1>5, <1>6, <1>7, <1>8, <1>9
    DEF Pipelines!Next, Pipelines!States

\* A scrape has written the gauges that it passed.
LEMMA PipeWrittenStep ==
  ASSUME Pipelines!MovesAssumption, PipeInv, Pipelines!Next
  PROVE  PipeWritten'
  <1>0. PipeWritten BY DEF PipeInv
  <1> USE <1>0 DEF PipeWritten, Written, Pipelines!States, Pipelines!Missing, Pipelines!Idle
  <1>1. CASE Pipelines!TrackPipeline BY <1>1 DEF Pipelines!TrackPipeline
  <1>2. CASE Pipelines!HookSets
    <2>1. disturbed' /\ UNCHANGED <<scrape, next, output>> BY <1>2 DEF Pipelines!HookSets
    <2> QED BY <2>1
  <1>3. CASE Pipelines!Destroy BY <1>3 DEF Pipelines!Destroy
  <1>4. CASE Pipelines!ScrapeBegin
    <2>1. next' = 0 /\ \A i \in 0..3 : output'[i] = 2 BY <1>4 DEF Pipelines!ScrapeBegin
    <2>2. scrape' \in {"refresh", "write"} BY <1>4 DEF Pipelines!ScrapeBegin
    <2> QED BY <2>1, <2>2
  <1>5. CASE Pipelines!ScrapeSets
    <2>1. /\ scrape = "refresh" /\ UNCHANGED <<output, disturbed, tracked>>
          /\ scrape' = IF next = 3 THEN "write" ELSE "refresh"
      BY <1>5 DEF Pipelines!ScrapeSets
    <2>2. next = 3 => next' = 0 BY <1>5, NextGauge DEF Pipelines!ScrapeSets, PipeInv, PipeNumbers
    <2> QED BY <2>1, <2>2
  <1>6. CASE Pipelines!ScrapeWrites
    <2>1. /\ scrape = "write" /\ UNCHANGED <<disturbed, tracked, gauge>>
          /\ output' = IF tracked THEN [output EXCEPT ![next] = gauge[next]] ELSE output
          /\ scrape' = IF next = 3 THEN "done" ELSE "write"
      BY <1>6 DEF Pipelines!ScrapeWrites
    <2>2. /\ next \in 0..3 /\ output \in [0..3 -> {0, 1, 2}] /\ tracked \in BOOLEAN
      BY DEF PipeInv, PipeNumbers, PipeGauges, PipeFlags
    <2>3. next # 3 => next' = next + 1 BY <1>6, <2>2, NextGauge DEF Pipelines!ScrapeWrites
    <2>4. \A i \in 0..3 : i # next => output'[i] = output[i] BY <2>1, <2>2
    <2>5. output'[next] = IF tracked THEN gauge[next] ELSE 2
      BY <2>1, <2>2
    <2>6. \A i \in 0..3 : i < next /\ ~disturbed => Written(i)' BY <2>1, <2>2, <2>4
    <2>7. \A i \in 0..3 : i = next => Written(i)' BY <2>1, <2>5
    <2>8. CASE next = 3
      <3>1. \A i \in 0..3 : i < next \/ i = next BY <2>8
      <3> QED BY <2>1, <2>6, <2>7, <2>8, <3>1
    <2>9. CASE next # 3
      <3>1. \A i \in 0..3 : i < next' <=> i < next \/ i = next BY <2>2, <2>3, <2>9
      <3>2. \A i \in 0..3 : ~(i < next') => output'[i] = 2 BY <2>1, <2>2, <2>4, <3>1
      <3> QED BY <2>1, <2>6, <2>7, <2>9, <3>1, <3>2
    <2> QED BY <2>8, <2>9
  <1>7. CASE Pipelines!ScrapeEnd BY <1>7 DEF Pipelines!ScrapeEnd
  <1>8. ASSUME NEW s \in 0..3, Pipelines!Commit(s) PROVE PipeWritten' BY <1>8 DEF Pipelines!Commit
  <1>9. ASSUME NEW s \in 0..3, Pipelines!StateHook(s) PROVE PipeWritten'
    BY <1>9 DEF Pipelines!StateHook
  <1> QED
    BY <1>1, <1>2, <1>3, <1>4, <1>5, <1>6, <1>7, <1>8, <1>9
    DEF Pipelines!Next, Pipelines!States

\* No step of any part breaks the invariant of the gauges, ...
LEMMA PipeNextInv ==
  ASSUME Pipelines!MovesAssumption, PipeInv, [Next]_tracersVars
  PROVE  PipeInv'
  <1>1. CASE OnlyOf("pipelines") /\ Pipelines!Next
    BY <1>1, PipeNumbersStep, PipeFlagsStep, PipeGaugesStep, PipeEntryStep, PipeSeenStep,
       PipeRefreshedStep, PipeWrittenStep
    DEF PipeInv
  <1>2. CASE UNCHANGED pipelineVars
    <2> USE DEF pipelineVars
    <2>1. PipeNumbers' /\ PipeFlags' BY <1>2 DEF PipeInv, PipeNumbers, PipeFlags
    <2>2. PipeGauges' BY <1>2 DEF PipeInv, PipeGauges
    <2>3. PipeEntry' BY <1>2 DEF PipeInv, PipeEntry
    <2>4. PipeSeen' BY <1>2 DEF PipeInv, PipeSeen
    <2>5. PipeRefreshed' BY <1>2 DEF PipeInv, PipeRefreshed, Hot
    <2>6. PipeWritten' BY <1>2 DEF PipeInv, PipeWritten, Written
    <2> QED BY <2>1, <2>2, <2>3, <2>4, <2>5, <2>6 DEF PipeInv
  <1>3. CASE OnlyOf("server") \/ OnlyOf("series") \/ OnlyOf("limits") \/ OnlyOf("identities")
             \/ OnlyOf("worker") \/ OnlyOf("intervals")
    BY <1>2, <1>3 DEF OnlyOf
  <1>4. CASE UNCHANGED tracersVars BY <1>2, <1>4 DEF tracersVars
  <1> QED BY <1>1, <1>3, <1>4 DEF Next

\* ... and the invariant says what a scrape may rely on.
LEMMA PipeInvTells ==
  ASSUME PipeInv
  PROVE  Pipelines!PipelinesConsistent
  <1> USE DEF Pipelines!States, Pipelines!Missing, Pipelines!Idle
  <1>1. Pipelines!TypeOK
    BY DEF PipeInv, PipeNumbers, PipeFlags, PipeGauges, Pipelines!TypeOK
  <1>2. ASSUME scrape = "done", ~disturbed
        PROVE  output = IF ~tracked THEN [i \in Pipelines!States |-> Pipelines!Missing]
                        ELSE IF observed THEN Pipelines!OneHot(state)
                             ELSE [i \in Pipelines!States |-> 0]
    <2>1. output \in [0..3 -> {0, 1, 2}] BY DEF PipeInv, PipeGauges
    <2>2. \A i \in 0..3 : output[i] = IF tracked THEN gauge[i] ELSE 2
      BY <1>2 DEF PipeInv, PipeWritten, Written
    <2>3. CASE ~tracked
      <3>1. \A i \in 0..3 : output[i] = 2 BY <2>2, <2>3
      <3>2. output = [i \in 0..3 |-> 2] BY <2>1, <3>1
      <3> QED BY <2>3, <3>2
    <2>4. CASE tracked /\ observed
      <3>1. scrapeState = state BY <1>2 DEF PipeInv, PipeSeen
      <3>2. \A i \in 0..3 : output[i] = IF i = state THEN 1 ELSE 0
        BY <1>2, <2>2, <2>4, <3>1 DEF PipeInv, PipeRefreshed, Hot
      <3>3. output = [i \in 0..3 |-> IF i = state THEN 1 ELSE 0] BY <2>1, <3>2
      <3> QED BY <2>4, <3>3 DEF Pipelines!OneHot
    <2>5. CASE tracked /\ ~observed
      <3>1. \A i \in 0..3 : output[i] = 0
        BY <2>2, <2>5 DEF PipeInv, PipeEntry, PipeFlags
      <3>2. output = [i \in 0..3 |-> 0] BY <2>1, <3>1
      <3> QED BY <2>5, <3>2
    <2> QED BY <2>3, <2>4, <2>5
  <1>3. Pipelines!ScrapeIsRight BY <1>2 DEF Pipelines!ScrapeIsRight
  <1> QED BY <1>1, <1>3 DEF Pipelines!PipelinesConsistent

\* The gauges of both tracers: a scrape that no state change and no hook overlapped
\* shows the state the pipeline is in, whatever torn values were left before it, and
\* a cached queue limit that is not the queue's is about to be cleared, for any
\* number of state changes, setters, limits and samples.
THEOREM GaugesStayConsistent ==
  Spec => []GaugesConsistent
  <1>0. Pipelines!MovesAssumption /\ LimitCache!LimitsAssumption
    BY TracersAssumption DEF TracersAssumption
  <1>1. Init => PipeInv /\ LimitInv BY <1>0, PipeInitInv, LimitInitInv DEF Init
  <1>2. PipeInv /\ LimitInv /\ [Next]_tracersVars => (PipeInv /\ LimitInv)'
    BY <1>0, PipeNextInv, LimitNextInv
  <1>3. PipeInv /\ LimitInv => GaugesConsistent
    BY <1>0, PipeInvTells, LimitInvTells DEF GaugesConsistent
  <1> QED BY <1>1, <1>2, <1>3, PTL DEF Spec

-----------------------------------------------------------------------------
(***************************************************************************)
(* The push intervals. A pad's baseline is not before its last reset, its  *)
(* intervals end at the baseline or before, and they add up to less than   *)
(* it: so a new one overlaps none, and spans no reset.                     *)
(***************************************************************************)
IntervalNumbers == now \in 1..MaxTime /\ calls \in 0..MaxHooks
IntervalHooks ==
  /\ doing \in [Hooks -> {"nothing", "push", "reset"}]
  /\ stamp \in [Hooks -> 0..MaxTime] /\ on \in [Hooks -> SUBSET IntervalPads]
  /\ \A h \in Hooks : on[h] # {} => stamp[h] # 0
IntervalData ==
  /\ lastPush \in [IntervalPads -> 0..MaxTime] /\ resetAt \in [IntervalPads -> 0..MaxTime]
  /\ samples \in [IntervalPads -> Nat] /\ sum \in [IntervalPads -> Nat]
  /\ buckets \in [IntervalPads -> [Bounds -> Nat]]
IntervalPast ==
  /\ intervals \in [IntervalPads -> SUBSET ((1..MaxTime) \X (1..MaxTime))]
  /\ resets \in [IntervalPads -> SUBSET (1..MaxTime)]
  /\ straddles = FALSE

\* The time until which the data of a pad reaches: its last push, or its last reset.
Reached(base, reset) == IF base = 0 THEN reset ELSE base
Based(base, reset, total) ==
  /\ base # 0 => reset <= base
  /\ total = 0 \/ total < Reached(base, reset)
Past(done, cleared, base, reset) ==
  /\ \A r \in cleared : r <= reset
  /\ \A i \in done : i[1] <= i[2] /\ i[2] <= Reached(base, reset)
  /\ \A i, j \in done : i = j \/ i[2] <= j[1] \/ j[2] <= i[1]
IntervalTimes ==
  \A p \in IntervalPads :
    /\ Based(lastPush[p], resetAt[p], sum[p])
    /\ Past(intervals[p], resets[p], lastPush[p], resetAt[p])

\* The buckets grow with their bounds, and the widest counts every sample.
Whole(b, n) ==
  /\ \A c, d \in Bounds : c <= d => b[c] <= b[d]
  /\ \A w \in Bounds : (\A c \in Bounds : c <= w) => b[w] = n
IntervalWhole == \A p \in IntervalPads : Whole(buckets[p], samples[p])
IntervalCopies ==
  \A p \in IntervalPads : Whole(copy[p].buckets, copy[p].samples) /\ copy[p].sum < MaxTime

IntervalInv ==
  /\ IntervalNumbers /\ IntervalHooks /\ IntervalData /\ IntervalPast
  /\ IntervalTimes /\ IntervalWhole /\ IntervalCopies

\* The later of two times.
LEMMA Later ==
  ASSUME NEW a \in Nat, NEW b \in Nat
  PROVE  Intervals!Max({a, b}) = IF a <= b THEN b ELSE a
  <1>1. \E x \in {a, b} : \A y \in {a, b} : x >= y
    <2>1. CASE a <= b BY <2>1
    <2>2. CASE ~(a <= b) BY <2>2
    <2> QED BY <2>1, <2>2
  <1>2. /\ Intervals!Max({a, b}) \in {a, b}
        /\ \A y \in {a, b} : Intervals!Max({a, b}) >= y
    BY <1>1 DEF Intervals!Max
  <1> HIDE DEF Intervals!Max
  <1> QED BY <1>2

\* The intervals begin with the invariant.
LEMMA IntervalInitInv ==
  ASSUME Intervals!IntervalsAssumption, Intervals!Init
  PROVE  IntervalInv
  <1>0. MaxTime \in Nat \ {0} /\ MaxHooks \in Nat BY DEF Intervals!IntervalsAssumption
  <1> USE DEF Intervals!Init, Intervals!Never
  <1>1. IntervalNumbers BY <1>0 DEF IntervalNumbers
  <1>2. IntervalHooks BY <1>0 DEF IntervalHooks
  <1>3. IntervalData BY <1>0 DEF IntervalData
  <1>4. IntervalPast BY DEF IntervalPast
  <1>5. IntervalTimes BY DEF IntervalTimes, Based, Past
  <1>6. \A p \in IntervalPads : buckets[p] = [b \in Bounds |-> 0] /\ samples[p] = 0 /\ sum[p] = 0 OBVIOUS
  <1>7. Whole([b \in Bounds |-> 0], 0) BY DEF Whole
  <1>8. IntervalWhole BY <1>6, <1>7 DEF IntervalWhole
  <1>9. \A p \in IntervalPads : /\ copy[p].buckets = buckets[p] /\ copy[p].samples = samples[p]
                               /\ copy[p].sum = sum[p]
    BY DEF Intervals!Histogram
  <1>10. IntervalCopies BY <1>0, <1>6, <1>7, <1>9 DEF IntervalCopies
  <1> QED BY <1>1, <1>2, <1>3, <1>4, <1>5, <1>8, <1>10 DEF IntervalInv

\* What a pad's data holds is less than the clock's bound.
LEMMA SumFits ==
  ASSUME Intervals!IntervalsAssumption, IntervalInv, NEW p \in IntervalPads
  PROVE  sum[p] < MaxTime
  <1>1. /\ lastPush[p] \in 0..MaxTime /\ resetAt[p] \in 0..MaxTime /\ sum[p] \in Nat
        /\ MaxTime \in Nat \ {0}
    BY DEF IntervalInv, IntervalData, Intervals!IntervalsAssumption
  <1>2. sum[p] = 0 \/ sum[p] < Reached(lastPush[p], resetAt[p])
    BY DEF IntervalInv, IntervalTimes, Based
  <1> QED BY <1>1, <1>2 DEF Reached

\* A reset moves the reset time on, and takes the baseline that it passed.
LEMMA ResetsPad ==
  ASSUME IntervalInv, Intervals!IntervalsAssumption,
         NEW h \in Hooks, NEW p \in IntervalPads, Intervals!Reset(h, p)
  PROVE  IntervalData' /\ IntervalPast' /\ IntervalTimes'
  <1>0. MaxTime \in Nat BY DEF Intervals!IntervalsAssumption
  <1>1. PICK t \in 1..MaxTime : t = stamp[h]
    <2>1. on[h] # {} /\ stamp[h] \in 0..MaxTime /\ stamp[h] # 0
      BY DEF Intervals!Reset, IntervalInv, IntervalHooks
    <2> QED BY <1>0, <2>1
  <1>2. PICK base \in 0..MaxTime, reset \in 0..MaxTime : base = lastPush[p] /\ reset = resetAt[p]
    BY DEF IntervalInv, IntervalData
  <1>3. PICK newReset \in 0..MaxTime : newReset = IF reset <= t THEN t ELSE reset BY <1>0
  <1>4. Intervals!Max({reset, t}) = newReset BY <1>0, <1>3, Later
  <1>5. PICK newBase \in 0..MaxTime : newBase = IF base <= newReset THEN 0 ELSE base BY <1>0
  <1>6. /\ resetAt' = [resetAt EXCEPT ![p] = newReset] /\ lastPush' = [lastPush EXCEPT ![p] = newBase]
        /\ resets' = [resets EXCEPT ![p] = @ \union {t}]
        /\ UNCHANGED <<buckets, samples, sum, intervals, straddles>>
    BY <1>1, <1>2, <1>4, <1>5 DEF Intervals!Reset, Intervals!Baseline, Intervals!Never
  <1>7. /\ lastPush' \in [IntervalPads -> 0..MaxTime] /\ lastPush'[p] = newBase
        /\ resetAt' \in [IntervalPads -> 0..MaxTime] /\ resetAt'[p] = newReset
        /\ \A q \in IntervalPads \ {p} : lastPush'[q] = lastPush[q] /\ resetAt'[q] = resetAt[q]
    BY <1>6 DEF IntervalInv, IntervalData
  <1>8. IntervalData' BY <1>6, <1>7 DEF IntervalInv, IntervalData
  <1>9. /\ resets' \in [IntervalPads -> SUBSET (1..MaxTime)] /\ resets'[p] = resets[p] \union {t}
        /\ \A q \in IntervalPads \ {p} : resets'[q] = resets[q]
    BY <1>6 DEF IntervalInv, IntervalPast
  <1>10. IntervalPast' BY <1>6, <1>9 DEF IntervalInv, IntervalPast
  <1>11. reset <= newReset /\ t <= newReset /\ Reached(base, reset) <= Reached(newBase, newReset)
         /\ (newBase # 0 => newReset <= newBase)
    <2>1. reset \in Nat /\ t \in Nat /\ base \in Nat /\ newReset \in Nat BY <1>0
    <2>2. reset <= newReset /\ t <= newReset BY <1>3, <2>1
    <2>3. CASE base <= newReset
      <3>1. newBase = 0 BY <1>5, <2>3
      <3>2. Reached(newBase, newReset) = newReset BY <3>1 DEF Reached
      <3>3. Reached(base, reset) <= newReset BY <2>2, <2>3 DEF Reached
      <3> QED BY <2>2, <3>1, <3>2, <3>3
    <2>4. CASE ~(base <= newReset)
      <3>1. newBase = base /\ base # 0 /\ newReset <= base BY <1>5, <2>1, <2>4
      <3>2. Reached(newBase, newReset) = base /\ Reached(base, reset) = base BY <3>1 DEF Reached
      <3> QED BY <2>1, <2>2, <3>1, <3>2
    <2> QED BY <2>3, <2>4
  <1>12. Based(base, reset, sum[p]) /\ sum[p] \in Nat
    BY <1>2 DEF IntervalInv, IntervalTimes, IntervalData
  <1>13. Reached(base, reset) \in Nat /\ Reached(newBase, newReset) \in Nat BY <1>0 DEF Reached
  <1>14. Based(newBase, newReset, sum[p]) BY <1>11, <1>12, <1>13 DEF Based
  <1>15. Past(intervals[p], resets[p] \union {t}, newBase, newReset)
    <2>1. Past(intervals[p], resets[p], base, reset) BY <1>2 DEF IntervalInv, IntervalTimes
    <2>2. resets[p] \subseteq 1..MaxTime /\ intervals[p] \subseteq (1..MaxTime) \X (1..MaxTime)
      BY DEF IntervalInv, IntervalPast
    <2>3. \A r \in resets[p] : r <= newReset BY <1>0, <1>11, <2>1, <2>2 DEF Past
    <2>4. \A i \in intervals[p] : i[2] \in 1..MaxTime /\ i[1] <= i[2] /\ i[2] <= Reached(base, reset)
      BY <2>1, <2>2 DEF Past
    <2>5. \A i \in intervals[p] : i[1] <= i[2] /\ i[2] <= Reached(newBase, newReset)
      BY <1>0, <1>11, <1>13, <2>4
    <2> QED BY <1>11, <2>1, <2>3, <2>5 DEF Past
  <1>16. IntervalTimes'
    <2>1. Based(lastPush'[p], resetAt'[p], sum'[p]) BY <1>6, <1>7, <1>14
    <2>2. Past(intervals'[p], resets'[p], lastPush'[p], resetAt'[p]) BY <1>6, <1>7, <1>9, <1>15
    <2>3. \A q \in IntervalPads \ {p} :
            /\ Based(lastPush'[q], resetAt'[q], sum'[q])
            /\ Past(intervals'[q], resets'[q], lastPush'[q], resetAt'[q])
      BY <1>6, <1>7, <1>9 DEF IntervalInv, IntervalTimes
    <2> QED BY <2>1, <2>2, <2>3 DEF IntervalTimes
  <1> QED BY <1>8, <1>10, <1>16

\* A push of a pad measures at most the time since the baseline.
LEMMA ObservesPad ==
  ASSUME IntervalInv, Intervals!IntervalsAssumption,
         NEW h \in Hooks, NEW p \in IntervalPads, Intervals!Observe(h, p)
  PROVE  IntervalData' /\ IntervalPast' /\ IntervalTimes' /\ IntervalWhole'
  <1>0. MaxTime \in Nat BY DEF Intervals!IntervalsAssumption
  <1>1. PICK t \in 1..MaxTime : t = stamp[h]
    <2>1. on[h] # {} /\ stamp[h] \in 0..MaxTime /\ stamp[h] # 0
      BY DEF Intervals!Observe, IntervalInv, IntervalHooks
    <2> QED BY <1>0, <2>1
  <1>2. PICK base \in 0..MaxTime, reset \in 0..MaxTime : base = lastPush[p] /\ reset = resetAt[p]
    BY DEF IntervalInv, IntervalData
  <1>3. PICK total \in Nat : total = sum[p] BY DEF IntervalInv, IntervalData
  <1>4. Based(base, reset, total) /\ Past(intervals[p], resets[p], base, reset)
    BY <1>2, <1>3 DEF IntervalInv, IntervalTimes
  <1>5. resets' = resets /\ resetAt' = resetAt BY DEF Intervals!Observe
  <1> DEFINE counts == t >= reset /\ (base # 0 => t >= base)
  <1>6. Intervals!Counts(p, t) <=> counts BY <1>2 DEF Intervals!Counts, Intervals!Never
  <1>7. CASE ~counts
    <2>1. UNCHANGED <<lastPush, buckets, samples, sum, intervals, straddles>>
      BY <1>1, <1>6, <1>7 DEF Intervals!Observe
    <2>2. IntervalData' /\ IntervalPast' BY <1>5, <2>1 DEF IntervalInv, IntervalData, IntervalPast
    <2>3. IntervalTimes' /\ IntervalWhole' BY <1>5, <2>1 DEF IntervalInv, IntervalTimes, IntervalWhole
    <2> QED BY <2>2, <2>3
  <1>8. CASE counts /\ base = 0
    <2>1. /\ lastPush' = [lastPush EXCEPT ![p] = t]
          /\ UNCHANGED <<buckets, samples, sum, intervals, straddles>>
      BY <1>1, <1>2, <1>6, <1>8 DEF Intervals!Observe, Intervals!Never
    <2>2. /\ lastPush' \in [IntervalPads -> 0..MaxTime] /\ lastPush'[p] = t
          /\ \A q \in IntervalPads \ {p} : lastPush'[q] = lastPush[q]
      BY <1>0, <2>1 DEF IntervalInv, IntervalData
    <2>3. IntervalData' /\ IntervalPast' /\ IntervalWhole'
      BY <1>5, <2>1, <2>2 DEF IntervalInv, IntervalData, IntervalPast, IntervalWhole
    <2>4. Reached(base, reset) = reset /\ Reached(t, reset) = t /\ reset <= t
      BY <1>0, <1>8 DEF Reached
    <2>5. Based(t, reset, total) BY <1>0, <1>4, <2>4 DEF Based
    <2>6. Past(intervals[p], resets[p], t, reset)
      <3>1. \A i \in intervals[p] : i[2] \in 1..MaxTime /\ i[2] <= reset
        BY <1>4, <2>4 DEF Past, IntervalInv, IntervalPast
      <3>2. \A i \in intervals[p] : i[2] <= t BY <1>0, <2>4, <3>1
      <3> QED BY <1>4, <2>4, <3>2 DEF Past
    <2>7. \A q \in IntervalPads \ {p} :
            /\ Based(lastPush'[q], resetAt'[q], sum'[q])
            /\ Past(intervals'[q], resets'[q], lastPush'[q], resetAt'[q])
      BY <1>5, <2>1, <2>2 DEF IntervalInv, IntervalTimes
    <2>8. Based(lastPush'[p], resetAt'[p], sum'[p]) BY <1>2, <1>3, <1>5, <2>1, <2>2, <2>5
    <2>9. Past(intervals'[p], resets'[p], lastPush'[p], resetAt'[p])
      BY <1>2, <1>5, <2>1, <2>2, <2>6
    <2>10. IntervalTimes' BY <2>7, <2>8, <2>9 DEF IntervalTimes
    <2> QED BY <2>3, <2>10
  <1>9. CASE counts /\ base # 0
    <2>1. /\ lastPush' = [lastPush EXCEPT ![p] = t]
          /\ buckets' = [buckets EXCEPT ![p] =
                           [b \in Bounds |-> IF t - base <= b THEN @[b] + 1 ELSE @[b]]]
          /\ samples' = [samples EXCEPT ![p] = @ + 1]
          /\ sum' = [sum EXCEPT ![p] = @ + (t - base)]
          /\ intervals' = [intervals EXCEPT ![p] = @ \union {<<base, t>>}]
          /\ straddles' = (straddles \/ \E r \in resets[p] : base < r /\ r <= t)
      BY <1>1, <1>2, <1>6, <1>9 DEF Intervals!Observe, Intervals!Never
    <2>2. base \in 1..MaxTime /\ reset <= base /\ base <= t /\ reset <= t
      BY <1>0, <1>4, <1>9 DEF Based
    <2>3. Reached(base, reset) = base /\ Reached(t, reset) = t BY <1>0, <2>2 DEF Reached
    <2>4. PICK span \in Nat : span = t - base /\ span <= MaxTime BY <1>0, <2>2
    <2>5. /\ lastPush' \in [IntervalPads -> 0..MaxTime] /\ lastPush'[p] = t
          /\ \A q \in IntervalPads \ {p} : lastPush'[q] = lastPush[q]
      BY <1>0, <2>1 DEF IntervalInv, IntervalData
    <2>6. /\ samples' \in [IntervalPads -> Nat] /\ samples'[p] = samples[p] + 1
          /\ \A q \in IntervalPads \ {p} : samples'[q] = samples[q]
      BY <2>1 DEF IntervalInv, IntervalData
    <2>7. /\ sum' \in [IntervalPads -> Nat] /\ sum'[p] = total + span
          /\ \A q \in IntervalPads \ {p} : sum'[q] = sum[q]
      BY <1>3, <2>1, <2>4 DEF IntervalInv, IntervalData
    <2>8. PICK new \in [Bounds -> Nat] :
            new = [b \in Bounds |-> IF span <= b THEN buckets[p][b] + 1 ELSE buckets[p][b]]
      <3>1. PICK old \in [Bounds -> Nat] : old = buckets[p] BY DEF IntervalInv, IntervalData
      <3>2. \A b \in Bounds : (IF span <= b THEN old[b] + 1 ELSE old[b]) \in Nat BY <3>1
      <3>3. [b \in Bounds |-> IF span <= b THEN old[b] + 1 ELSE old[b]] \in [Bounds -> Nat] BY <3>2
      <3> QED BY <3>1, <3>3
    <2>9. buckets' = [buckets EXCEPT ![p] = new] BY <2>1, <2>4, <2>8
    <2>10. /\ buckets' \in [IntervalPads -> [Bounds -> Nat]] /\ buckets'[p] = new
           /\ \A q \in IntervalPads \ {p} : buckets'[q] = buckets[q]
      BY <2>9 DEF IntervalInv, IntervalData
    <2>11. IntervalData' BY <1>5, <2>5, <2>6, <2>7, <2>10 DEF IntervalInv, IntervalData
    <2>12. PICK piece \in (1..MaxTime) \X (1..MaxTime) :
             piece = <<base, t>> /\ piece[1] = base /\ piece[2] = t
      <3>1. <<base, t>> \in (1..MaxTime) \X (1..MaxTime) BY <2>2
      <3> QED BY <3>1
    <2>13. /\ intervals' \in [IntervalPads -> SUBSET ((1..MaxTime) \X (1..MaxTime))]
           /\ intervals'[p] = intervals[p] \union {piece}
           /\ \A q \in IntervalPads \ {p} : intervals'[q] = intervals[q]
      BY <2>1, <2>12 DEF IntervalInv, IntervalPast
    <2>14. ~ \E r \in resets[p] : base < r /\ r <= t
      <3>1. \A r \in resets[p] : r \in 1..MaxTime /\ r <= reset
        BY <1>4 DEF Past, IntervalInv, IntervalPast
      <3> QED BY <1>0, <2>2, <3>1
    <2>15. IntervalPast' BY <1>5, <2>1, <2>13, <2>14 DEF IntervalInv, IntervalPast
    <2>16. Based(t, reset, total + span)
      <3>1. total = 0 \/ total < base BY <1>4, <2>3 DEF Based
      <3>2. total + span < t BY <1>0, <2>2, <2>4, <3>1
      <3> QED BY <2>2, <2>3, <3>2 DEF Based
    <2>17. Past(intervals[p] \union {piece}, resets[p], t, reset)
      <3>1. \A i \in intervals[p] : i[2] \in 1..MaxTime /\ i[1] <= i[2] /\ i[2] <= base
        BY <1>4, <2>3 DEF Past, IntervalInv, IntervalPast
      <3>2. \A i \in intervals[p] : i[2] <= t /\ i[2] <= piece[1] BY <1>0, <2>2, <2>12, <3>1
      <3>3. piece[1] <= piece[2] /\ piece[2] <= t BY <1>0, <2>2, <2>12
      <3>4. \A i \in intervals[p] \union {piece} : i[1] <= i[2] /\ i[2] <= Reached(t, reset)
        BY <2>3, <3>1, <3>2, <3>3
      <3>5. \A i, j \in intervals[p] \union {piece} : i = j \/ i[2] <= j[1] \/ j[2] <= i[1]
        BY <1>4, <3>2 DEF Past
      <3> QED BY <1>4, <3>4, <3>5 DEF Past
    <2>18. \A q \in IntervalPads \ {p} :
            /\ Based(lastPush'[q], resetAt'[q], sum'[q])
            /\ Past(intervals'[q], resets'[q], lastPush'[q], resetAt'[q])
      BY <1>5, <2>5, <2>7, <2>13 DEF IntervalInv, IntervalTimes
    <2>19. Based(lastPush'[p], resetAt'[p], sum'[p]) BY <1>2, <1>5, <2>5, <2>7, <2>16
    <2>20. Past(intervals'[p], resets'[p], lastPush'[p], resetAt'[p])
      BY <1>2, <1>5, <2>5, <2>13, <2>17
    <2>21. IntervalTimes' BY <2>18, <2>19, <2>20 DEF IntervalTimes
    <2>22. Whole(new, samples[p] + 1)
      <3>1. Whole(buckets[p], samples[p]) /\ buckets[p] \in [Bounds -> Nat]
        BY DEF IntervalInv, IntervalWhole, IntervalData
      <3>2. Bounds \subseteq Nat BY DEF Intervals!IntervalsAssumption
      <3>3. \A b \in Bounds : new[b] = IF span <= b THEN buckets[p][b] + 1 ELSE buckets[p][b]
        BY <2>8
      <3>4. ASSUME NEW c \in Bounds, NEW d \in Bounds, c <= d PROVE new[c] <= new[d]
        <4>1. buckets[p][c] <= buckets[p][d] /\ buckets[p][c] \in Nat /\ buckets[p][d] \in Nat
          BY <3>1, <3>4 DEF Whole
        <4>2. span <= c => span <= d BY <3>2, <3>4
        <4>3. new[c] \in Nat /\ new[d] \in Nat OBVIOUS
        <4> QED BY <3>3, <4>1, <4>2, <4>3
      <3>5. ASSUME NEW w \in Bounds, \A c \in Bounds : c <= w PROVE new[w] = samples[p] + 1
        <4>1. PICK b \in Bounds : b >= MaxTime BY DEF Intervals!IntervalsAssumption
        <4>2. b <= w /\ b \in Nat /\ w \in Nat BY <3>2, <3>5
        <4>3. span <= w BY <1>0, <2>4, <4>1, <4>2
        <4>4. buckets[p][w] = samples[p] BY <3>1, <3>5 DEF Whole
        <4> QED BY <3>3, <4>3, <4>4
      <3> QED BY <3>4, <3>5 DEF Whole
    <2>23. \A q \in IntervalPads \ {p} : Whole(buckets'[q], samples'[q])
      BY <2>6, <2>10 DEF IntervalInv, IntervalWhole
    <2>24. Whole(buckets'[p], samples'[p]) BY <2>6, <2>10, <2>22
    <2>25. IntervalWhole' BY <2>23, <2>24 DEF IntervalWhole
    <2> QED BY <2>11, <2>15, <2>21, <2>25
  <1> QED BY <1>7, <1>8, <1>9

\* The clock and the calls are bounded.
LEMMA IntervalNumbersStep ==
  ASSUME Intervals!IntervalsAssumption, IntervalInv, Intervals!Next
  PROVE  IntervalNumbers'
  <1>0. IntervalNumbers /\ MaxTime \in Nat /\ MaxHooks \in Nat
    BY DEF IntervalInv, Intervals!IntervalsAssumption
  <1> USE <1>0 DEF IntervalNumbers, Intervals!Call, Intervals!hookVars, Intervals!dataVars
  <1>1. CASE Intervals!Tick BY <1>1 DEF Intervals!Tick
  <1>2. ASSUME NEW p \in IntervalPads, Intervals!Export(p) PROVE IntervalNumbers'
    BY <1>2 DEF Intervals!Export
  <1>3. ASSUME NEW h \in Hooks, NEW p \in IntervalPads, Intervals!Push(h, p) PROVE IntervalNumbers'
    BY <1>3 DEF Intervals!Push
  <1>4. ASSUME NEW h \in Hooks, NEW p \in IntervalPads, Intervals!PadEvent(h, p)
        PROVE IntervalNumbers'
    BY <1>4 DEF Intervals!PadEvent
  <1>5. ASSUME NEW h \in Hooks, NEW p \in IntervalPads, Intervals!Reset(h, p) PROVE IntervalNumbers'
    BY <1>5 DEF Intervals!Reset
  <1>6. ASSUME NEW h \in Hooks, NEW p \in IntervalPads, Intervals!Observe(h, p) PROVE IntervalNumbers'
    BY <1>6 DEF Intervals!Observe
  <1>7. ASSUME NEW h \in Hooks, NEW e \in IntervalPads, Intervals!StateChange(h, e)
        PROVE IntervalNumbers'
    BY <1>7 DEF Intervals!StateChange
  <1> QED
    BY <1>1, <1>2, <1>3, <1>4, <1>5, <1>6, <1>7
    DEF Intervals!Next

\* A hook that begins has the present time, and the pads that it is for.
LEMMA HookBegins ==
  ASSUME IntervalInv, NEW h \in Hooks, NEW what \in {"push", "reset"},
         NEW S \in SUBSET IntervalPads, Intervals!Call(h, what, S)
  PROVE  IntervalHooks'
  <1>1. PICK t \in 1..MaxTime : t = now BY DEF IntervalInv, IntervalNumbers
  <1>2. /\ doing' = [doing EXCEPT ![h] = what] /\ stamp' = [stamp EXCEPT ![h] = t]
        /\ on' = [on EXCEPT ![h] = S]
    BY <1>1 DEF Intervals!Call
  <1>3. /\ doing' \in [Hooks -> {"nothing", "push", "reset"}] /\ on' \in [Hooks -> SUBSET IntervalPads]
        /\ \A g \in Hooks \ {h} : on'[g] = on[g]
    BY <1>2 DEF IntervalInv, IntervalHooks
  <1>4. /\ stamp' \in [Hooks -> 0..MaxTime] /\ stamp'[h] # 0
        /\ \A g \in Hooks \ {h} : stamp'[g] = stamp[g]
    BY <1>2 DEF IntervalInv, IntervalHooks
  <1> QED BY <1>3, <1>4 DEF IntervalInv, IntervalHooks

\* A hook that is done with a pad keeps its time for the others.
LEMMA HookGoesOn ==
  ASSUME Intervals!IntervalsAssumption, IntervalInv,
         NEW h \in Hooks, NEW p, on' = [on EXCEPT ![h] = @ \ {p}], Intervals!Done(h)
  PROVE  IntervalHooks'
  <1>1. /\ on' \in [Hooks -> SUBSET IntervalPads] /\ on'[h] = on[h] \ {p}
        /\ \A g \in Hooks \ {h} : on'[g] = on[g]
    BY DEF IntervalInv, IntervalHooks
  <1>2. /\ doing' \in [Hooks -> {"nothing", "push", "reset"}] /\ stamp' \in [Hooks -> 0..MaxTime]
        /\ \A g \in Hooks \ {h} : stamp'[g] = stamp[g]
        /\ on'[h] # {} => stamp'[h] = stamp[h]
    <2>1. CASE on'[h] = {}
      <3>1. doing' = [doing EXCEPT ![h] = "nothing"] /\ stamp' = [stamp EXCEPT ![h] = 0]
        BY <2>1 DEF Intervals!Done
      <3>2. 0 \in 0..MaxTime BY DEF Intervals!IntervalsAssumption
      <3> QED BY <2>1, <3>1, <3>2 DEF IntervalInv, IntervalHooks
    <2>2. CASE on'[h] # {}
      <3>1. doing' = [doing EXCEPT ![h] = @] /\ stamp' = [stamp EXCEPT ![h] = @]
        BY <2>2 DEF Intervals!Done
      <3> QED BY <3>1 DEF IntervalInv, IntervalHooks
    <2> QED BY <2>1, <2>2
  <1> QED BY <1>1, <1>2 DEF IntervalInv, IntervalHooks

\* The hooks and the times they carry.
LEMMA IntervalHooksStep ==
  ASSUME Intervals!IntervalsAssumption, IntervalInv, Intervals!Next
  PROVE  IntervalHooks'
  <1> USE DEF Intervals!hookVars, Intervals!dataVars
  <1>1. CASE Intervals!Tick BY <1>1 DEF Intervals!Tick, IntervalInv, IntervalHooks
  <1>2. ASSUME NEW p \in IntervalPads, Intervals!Export(p) PROVE IntervalHooks'
    BY <1>2 DEF Intervals!Export, IntervalInv, IntervalHooks
  <1>3. ASSUME NEW h \in Hooks, NEW p \in IntervalPads, Intervals!Push(h, p) PROVE IntervalHooks'
    BY <1>3, HookBegins DEF Intervals!Push
  <1>4. ASSUME NEW h \in Hooks, NEW p \in IntervalPads, Intervals!PadEvent(h, p) PROVE IntervalHooks'
    BY <1>4, HookBegins DEF Intervals!PadEvent
  <1>5. ASSUME NEW h \in Hooks, NEW p \in IntervalPads, Intervals!Reset(h, p) PROVE IntervalHooks'
    BY <1>5, HookGoesOn DEF Intervals!Reset
  <1>6. ASSUME NEW h \in Hooks, NEW p \in IntervalPads, Intervals!Observe(h, p) PROVE IntervalHooks'
    BY <1>6, HookGoesOn DEF Intervals!Observe
  <1>7. ASSUME NEW h \in Hooks, NEW e \in IntervalPads, Intervals!StateChange(h, e)
        PROVE IntervalHooks'
    <2>1. PICK S \in SUBSET IntervalPads : Intervals!Call(h, "reset", S)
      BY <1>7 DEF Intervals!StateChange
    <2> QED BY <2>1, HookBegins
  <1> QED
    BY <1>1, <1>2, <1>3, <1>4, <1>5, <1>6, <1>7
    DEF Intervals!Next

\* The data of the pads.
LEMMA IntervalDataStep ==
  ASSUME Intervals!IntervalsAssumption, IntervalInv, Intervals!Next
  PROVE  IntervalData' /\ IntervalPast' /\ IntervalTimes' /\ IntervalWhole'
  <1>a. CASE UNCHANGED <<Intervals!dataVars, intervals, resets, straddles>>
    <2> USE DEF Intervals!dataVars
    <2>1. IntervalData' /\ IntervalPast' BY <1>a DEF IntervalInv, IntervalData, IntervalPast
    <2>2. IntervalTimes' /\ IntervalWhole' BY <1>a DEF IntervalInv, IntervalTimes, IntervalWhole
    <2> QED BY <2>1, <2>2
  <1> USE DEF Intervals!hookVars, Intervals!dataVars, Intervals!Call
  <1>1. CASE Intervals!Tick BY <1>1, <1>a DEF Intervals!Tick
  <1>2. ASSUME NEW p \in IntervalPads, Intervals!Export(p)
        PROVE IntervalData' /\ IntervalPast' /\ IntervalTimes' /\ IntervalWhole'
    BY <1>2, <1>a DEF Intervals!Export
  <1>3. ASSUME NEW h \in Hooks, NEW p \in IntervalPads, Intervals!Push(h, p)
        PROVE IntervalData' /\ IntervalPast' /\ IntervalTimes' /\ IntervalWhole'
    BY <1>3, <1>a DEF Intervals!Push
  <1>4. ASSUME NEW h \in Hooks, NEW p \in IntervalPads, Intervals!PadEvent(h, p)
        PROVE IntervalData' /\ IntervalPast' /\ IntervalTimes' /\ IntervalWhole'
    BY <1>4, <1>a DEF Intervals!PadEvent
  <1>5. ASSUME NEW h \in Hooks, NEW p \in IntervalPads, Intervals!Reset(h, p)
        PROVE IntervalData' /\ IntervalPast' /\ IntervalTimes' /\ IntervalWhole'
    <2>1. IntervalData' /\ IntervalPast' /\ IntervalTimes' BY <1>5, ResetsPad
    <2>2. UNCHANGED <<buckets, samples>> BY <1>5 DEF Intervals!Reset
    <2>3. IntervalWhole' BY <2>2 DEF IntervalInv, IntervalWhole
    <2> QED BY <2>1, <2>3
  <1>6. ASSUME NEW h \in Hooks, NEW p \in IntervalPads, Intervals!Observe(h, p)
        PROVE IntervalData' /\ IntervalPast' /\ IntervalTimes' /\ IntervalWhole'
    BY <1>6, ObservesPad
  <1>7. ASSUME NEW h \in Hooks, NEW e \in IntervalPads, Intervals!StateChange(h, e)
        PROVE IntervalData' /\ IntervalPast' /\ IntervalTimes' /\ IntervalWhole'
    BY <1>7, <1>a DEF Intervals!StateChange
  <1> QED
    BY <1>1, <1>2, <1>3, <1>4, <1>5, <1>6, <1>7
    DEF Intervals!Next

\* The copies that the worker exports.
LEMMA IntervalCopiesStep ==
  ASSUME Intervals!IntervalsAssumption, IntervalInv, Intervals!Next
  PROVE  IntervalCopies'
  <1>a. CASE UNCHANGED copy BY <1>a DEF IntervalInv, IntervalCopies
  <1> USE DEF Intervals!hookVars, Intervals!dataVars, Intervals!Call
  <1>1. CASE Intervals!Tick BY <1>1, <1>a DEF Intervals!Tick
  <1>2. ASSUME NEW p \in IntervalPads, Intervals!Export(p) PROVE IntervalCopies'
    <2>1. copy' = [copy EXCEPT ![p] = Intervals!Histogram(p)] BY <1>2 DEF Intervals!Export
    <2>2. PICK r : r = Intervals!Histogram(p) OBVIOUS
    <2>3. r.buckets = buckets[p] /\ r.samples = samples[p] /\ r.sum = sum[p]
      BY <2>2 DEF Intervals!Histogram
    <2>4. Whole(r.buckets, r.samples) /\ r.sum < MaxTime
      BY <2>3, SumFits DEF IntervalInv, IntervalWhole
    <2>5. \A p1 \in IntervalPads : copy'[p1] = copy[p1] \/ copy'[p1] = r BY <2>1, <2>2
    <2> QED BY <2>4, <2>5 DEF IntervalInv, IntervalCopies
  <1>3. ASSUME NEW h \in Hooks, NEW p \in IntervalPads, Intervals!Push(h, p) PROVE IntervalCopies'
    BY <1>3, <1>a DEF Intervals!Push
  <1>4. ASSUME NEW h \in Hooks, NEW p \in IntervalPads, Intervals!PadEvent(h, p) PROVE IntervalCopies'
    BY <1>4, <1>a DEF Intervals!PadEvent
  <1>5. ASSUME NEW h \in Hooks, NEW p \in IntervalPads, Intervals!Reset(h, p) PROVE IntervalCopies'
    BY <1>5, <1>a DEF Intervals!Reset
  <1>6. ASSUME NEW h \in Hooks, NEW p \in IntervalPads, Intervals!Observe(h, p) PROVE IntervalCopies'
    BY <1>6, <1>a DEF Intervals!Observe
  <1>7. ASSUME NEW h \in Hooks, NEW e \in IntervalPads, Intervals!StateChange(h, e)
        PROVE IntervalCopies'
    BY <1>7, <1>a DEF Intervals!StateChange
  <1> QED
    BY <1>1, <1>2, <1>3, <1>4, <1>5, <1>6, <1>7
    DEF Intervals!Next

\* No step of any part breaks the invariant of the intervals, ...
LEMMA IntervalNextInv ==
  ASSUME Intervals!IntervalsAssumption, IntervalInv, [Next]_tracersVars
  PROVE  IntervalInv'
  <1>1. CASE OnlyOf("intervals") /\ Intervals!Next
    BY <1>1, IntervalNumbersStep, IntervalHooksStep, IntervalDataStep, IntervalCopiesStep
    DEF IntervalInv
  <1>2. CASE UNCHANGED intervalVars
    <2> USE DEF intervalVars
    <2>1. IntervalNumbers' /\ IntervalHooks' BY <1>2 DEF IntervalInv, IntervalNumbers, IntervalHooks
    <2>2. IntervalData' /\ IntervalPast' BY <1>2 DEF IntervalInv, IntervalData, IntervalPast
    <2>3. IntervalTimes' /\ IntervalWhole' BY <1>2 DEF IntervalInv, IntervalTimes, IntervalWhole
    <2>4. IntervalCopies' BY <1>2 DEF IntervalInv, IntervalCopies
    <2> QED BY <2>1, <2>2, <2>3, <2>4 DEF IntervalInv
  <1>3. CASE OnlyOf("server") \/ OnlyOf("pipelines") \/ OnlyOf("limits") \/ OnlyOf("identities")
             \/ OnlyOf("worker") \/ OnlyOf("series")
    BY <1>2, <1>3 DEF OnlyOf
  <1>4. CASE UNCHANGED tracersVars BY <1>2, <1>4 DEF tracersVars
  <1> QED BY <1>1, <1>3, <1>4 DEF Next

\* ... and the invariant says what is true of what is measured and exported.
LEMMA IntervalInvTells ==
  ASSUME Intervals!IntervalsAssumption, IntervalInv
  PROVE  Intervals!IntervalsConsistent
  <1>1. Intervals!TypeOK
    BY DEF IntervalInv, IntervalNumbers, IntervalHooks, IntervalData, IntervalPast, Intervals!TypeOK
  <1>2. Intervals!NoIntervalOverReset BY DEF IntervalInv, IntervalPast, Intervals!NoIntervalOverReset
  <1>3. Intervals!IntervalsApart
    BY DEF IntervalInv, IntervalTimes, Past, Intervals!IntervalsApart
  <1>4. Intervals!HistogramIsWhole
    <2>1. Intervals!Max(Bounds) \in Bounds /\ \A c \in Bounds : c <= Intervals!Max(Bounds)
      <3>1. Bounds \subseteq Nat /\ \E w \in Bounds : \A c \in Bounds : c <= w
        BY DEF Intervals!IntervalsAssumption
      <3>2. \E w \in Bounds : \A c \in Bounds : w >= c BY <3>1
      <3>3. Intervals!Max(Bounds) \in Bounds /\ \A c \in Bounds : Intervals!Max(Bounds) >= c
        BY <3>2 DEF Intervals!Max
      <3> HIDE DEF Intervals!Max
      <3> QED BY <3>1, <3>3
    <2>2. PICK w \in Bounds : w = Intervals!Max(Bounds) /\ \A c \in Bounds : c <= w BY <2>1
    <2>3. \A p \in IntervalPads :
            /\ \A b, c \in Bounds : b <= c => copy[p].buckets[b] <= copy[p].buckets[c]
            /\ copy[p].buckets[w] = copy[p].samples
            /\ copy[p].sum < MaxTime
      BY <2>2 DEF IntervalInv, IntervalCopies, Whole
    <2> QED BY <2>2, <2>3 DEF Intervals!HistogramIsWhole
  <1> QED BY <1>1, <1>2, <1>3, <1>4 DEF Intervals!IntervalsConsistent

\* The push intervals of the statsd tracer: none is measured over a reset that was
\* applied, the intervals of a pad do not overlap, and every exported histogram is
\* whole, for any pads, hooks, bounds and times, in whatever order hooks arrive.
THEOREM IntervalsStayConsistent ==
  Spec => []IntervalsConsistent
  <1>0. Intervals!IntervalsAssumption BY TracersAssumption DEF TracersAssumption
  <1>1. Init => IntervalInv BY <1>0, IntervalInitInv DEF Init
  <1>2. IntervalInv /\ [Next]_tracersVars => IntervalInv' BY <1>0, IntervalNextInv
  <1>3. IntervalInv => IntervalsConsistent BY <1>0, IntervalInvTells DEF IntervalsConsistent
  <1> QED BY <1>1, <1>2, <1>3, PTL DEF Spec

-----------------------------------------------------------------------------
(***************************************************************************)
(* The identities of the queues. A rebuild has seen the ancestors of each  *)
(* queue it labelled, so a rename of one of them has its notification to   *)
(* come, and a move of one is either told by a hook, or is one the next    *)
(* check will find: unless it was moved back, which is what torn says.     *)
(***************************************************************************)
\* A hook that will set the flag is still to come.
Coming == \E o \in Ids!Objects : <<"added", o>> \in hooking \/ <<"removed", o>> \in hooking

\* The next check will find a move.
Caught == \E o \in seen \intersect moved : watches[o] # parent[o]
Quiet == ~dirty /\ ~Coming /\ ~torn /\ ~Caught

\* Bins are in the root at most, so paths have three names at most: those of the chain.
Line(f, n, x) ==
  IF f[x] = Ids!Nothing THEN <<n[x]>>
  ELSE IF f[f[x]] = Ids!Nothing THEN <<n[f[x]], n[x]>>
  ELSE <<n[f[f[x]]], n[f[x]], n[x]>>
Chain(f, x) == {o \in Ids!Objects : o = x \/ (f[x] # Ids!Nothing /\ (o = f[x] \/ o = f[f[x]]))}
Forest(f) ==
  /\ f \in [Ids!Objects -> Bins \union {Ids!Nothing}]
  /\ f[Root] = Ids!Nothing /\ \A b \in Bins : f[b] \in {Ids!Nothing, Root}

\* A label is its queue's path in f, or that path is being renamed.
Shown(q, path) == IF q \in queues /\ Ids!Included(path) THEN path ELSE Ids!NoLabel
Settled(f, q) ==
  /\ q \in seen /\ Chain(f, q) \subseteq seen
  /\ cached[q] = Shown(q, Line(f, name, q)) \/ Chain(f, q) \intersect notifying # {}
Prefixed(b) ==
  /\ b \in seen /\ Chain(parent, b) \subseteq seen
  /\ prefixes[b] = Line(parent, name, b) \/ Chain(parent, b) \intersect notifying # {}

QueueGraph ==
  /\ Forest(parent) /\ watches[Root] \in {Ids!Unwatched, Ids!Nothing}
  /\ \A b \in Bins : watches[b] \in {Ids!Unwatched, Ids!Nothing, Root}
  /\ \A x \in seen : watches[x] # Ids!Unwatched

\* An object has one edit at a time, which tells where it is.
QueueHooks ==
  /\ \A g, h \in hooking : g[2] = h[2] => g = h
  /\ \A h \in hooking : h[1] = "removed" <=> parent[h[2]] = Ids!Nothing
QueueTracked ==
  directs = 0 => \A q \in Queues :
    /\ (\A h \in hooking : h[2] # q) => (parent[q] # Ids!Nothing <=> q \in queues \union forgotten)
    /\ <<"removing", q>> \in hooking => q \notin queues
    /\ <<"removed", q>> \in hooking => q \notin queues \union forgotten

\* Only queues of the map have labels; a rebuild has not sampled yet.
QueueCached ==
  /\ \A q \in Queues \ queues : cached[q] = Ids!NoLabel
  /\ Ids!Rebuilding => sampled = {} /\ (moved # {} => unhooked)

\* What is watched is where the watch says, unless something says it is not.
QueueMatch ==
  ~dirty /\ ~Coming /\ ~unhooked =>
    /\ ~Ids!Rebuilding => Ids!ParentsMatch
    /\ sampler # "snapshot" => \A x \in seen : watches[x] = parent[x]

\* What a rebuild has done so far is right, and so is what it leaves.
Walked(x) ==
  /\ watches[x] = parent[x]
  /\ parent[x] \in seen \union {Ids!Nothing} \/ (sampler = "watch" /\ walk = parent[x])
SeenAreWalked == \A x \in seen : Walked(x)
DoneAreSettled == \A q \in queues \ todo : (sampler = "watch" /\ q = queue) \/ Settled(parent, q)
PrefixesAreRight == \A b \in Bins : prefixes[b] # Ids!NoLabel => Prefixed(b)
QueueRebuild ==
  sampler \in {"rebuild", "watch"} /\ Quiet =>
    /\ SeenAreWalked /\ DoneAreSettled /\ PrefixesAreRight
    /\ sampler = "watch" => queue \in seen \/ walk = queue
QueueSettled == ~Ids!Rebuilding /\ Quiet => \A q \in queues : Settled(watches, q)

\* A scrape that nothing overlaps has sampled, or will, what is cached.
Labels(cache, S) == {cache[q] : q \in S} \ {Ids!NoLabel}
QueueCalm ==
  calm =>
    /\ ~dirty /\ notifying = {} /\ hooking = {} /\ ~unhooked /\ ~torn
    /\ sampler = "sample" => sampled \union Labels(cached, todo) = Labels(cached, Queues)
    /\ sampler = "idle" => labels = Labels(cached, Queues)

QueueInv ==
  /\ Ids!TypeOK /\ QueueGraph /\ QueueHooks /\ QueueTracked /\ QueueCached /\ QueueMatch
  /\ QueueRebuild /\ QueueSettled /\ QueueCalm

\* The objects apart from the marks.
LEMMA ObjectsApart ==
  ASSUME Ids!GraphAssumption
  PROVE  /\ Ids!Nothing \notin Ids!Objects /\ Ids!Unwatched \notin Ids!Objects
         /\ Ids!Nothing # Ids!Unwatched /\ Bins \subseteq Ids!Objects /\ Queues \subseteq Ids!Objects
         /\ Root \in Bins /\ Queues # {} /\ Ids!AnyQueue \in Queues
  BY DEF Ids!GraphAssumption, Ids!Nothing, Ids!Unwatched, Ids!Objects, Ids!AnyQueue

\* A hook more, of an object that has none, leaves one for each.
LEMMA OneHookEach ==
  ASSUME NEW S, NEW T, NEW new, T \subseteq S \union {new},
         \A g, h \in S : g[2] = h[2] => g = h, \A g \in T \ {new} : g[2] # new[2]
  PROVE  \A g, h \in T : g[2] = h[2] => g = h
  <1> TAKE g, h \in T
  <1>1. CASE g = new /\ h = new BY <1>1
  <1>2. CASE g = new /\ h # new BY <1>2
  <1>3. CASE g # new /\ h = new BY <1>3
  <1>4. CASE g # new /\ h # new BY <1>4
  <1> QED BY <1>1, <1>2, <1>3, <1>4

\* What Append makes of a name or two.
LEMMA AppendedOne ==
  ASSUME NEW a \in Ids!Names, NEW b \in Ids!Names, NEW s, NEW t, s = <<a>>, t = <<a, b>>
  PROVE  t = Append(s, b)
  OBVIOUS

\* The same, of two and a third.
LEMMA AppendedTwo ==
  ASSUME NEW a \in Ids!Names, NEW b \in Ids!Names, NEW c \in Ids!Names, NEW s, NEW t,
         s = <<a, b>>, t = <<a, b, c>>
  PROVE  t = Append(s, c)
  OBVIOUS

\* The path of an object, as its definition computes it, has the names of its line.
LEMMA PathIsLine ==
  ASSUME Ids!GraphAssumption, Forest(parent), name \in [Ids!Objects -> Ids!Names]
  PROVE  \A x \in Ids!Objects : Ids!Path(x) = Line(parent, name, x)
  <1> DEFINE Is(p) == p = [x \in Ids!Objects |-> IF parent[x] = Ids!Nothing THEN <<name[x]>>
                                                ELSE Append(p[parent[x]], name[x])]
             L == [x \in Ids!Objects |-> Line(parent, name, x)]
  <1>1. ASSUME NEW x \in Ids!Objects
        PROVE  /\ parent[x] \in Bins \union {Ids!Nothing}
               /\ parent[x] # Ids!Nothing =>
                    parent[x] \in Ids!Objects /\ parent[parent[x]] \in {Ids!Nothing, Root}
               /\ parent[Root] = Ids!Nothing /\ Root \in Ids!Objects
               /\ Ids!Nothing \notin Ids!Objects /\ Root # Ids!Nothing
    BY <1>1, ObjectsApart DEF Forest
  <1>2. ASSUME NEW x \in Ids!Objects
        PROVE  L[x] = IF parent[x] = Ids!Nothing THEN <<name[x]>> ELSE Append(L[parent[x]], name[x])
    <2>1. CASE parent[x] = Ids!Nothing BY <2>1 DEF Line
    <2>2. CASE parent[x] # Ids!Nothing /\ parent[parent[x]] = Ids!Nothing
      <3>1. L[parent[x]] = <<name[parent[x]]>> BY <1>1, <2>2 DEF Line
      <3>2. L[x] = <<name[parent[x]], name[x]>> BY <2>2 DEF Line
      <3> HIDE DEF L
      <3>3. L[x] = Append(L[parent[x]], name[x]) BY <1>1, <2>2, <3>1, <3>2, AppendedOne
      <3> QED BY <2>2, <3>3
    <2>3. CASE parent[x] # Ids!Nothing /\ parent[parent[x]] # Ids!Nothing
      <3>1. parent[parent[x]] = Root BY <1>1, <2>3
      <3>2. L[parent[x]] = <<name[Root], name[parent[x]]>> BY <1>1, <2>3, <3>1 DEF Line
      <3>3. L[x] = <<name[Root], name[parent[x]], name[x]>> BY <2>3, <3>1 DEF Line
      <3> HIDE DEF L
      <3>4. L[x] = Append(L[parent[x]], name[x]) BY <1>1, <2>3, <3>2, <3>3, AppendedTwo
      <3> QED BY <2>3, <3>4
    <2> QED BY <2>1, <2>2, <2>3
  <1>3. Is(L)
    <2> DEFINE R == [x \in Ids!Objects |-> IF parent[x] = Ids!Nothing THEN <<name[x]>>
                                          ELSE Append(L[parent[x]], name[x])]
    <2>1. \A x \in Ids!Objects : L[x] = R[x] BY <1>2
    <2> QED BY <2>1
  <1> DEFINE P == CHOOSE p : Is(p)
  <1>4. Is(P) BY <1>3
  <1>5. \A x \in Ids!Objects : P[x] = IF parent[x] = Ids!Nothing THEN <<name[x]>>
                                    ELSE Append(P[parent[x]], name[x])
    BY <1>4
  <1>6. \A x \in Ids!Objects : Ids!Path(x) = P[x] BY DEF Ids!Path
  <1> HIDE DEF P, L, Is
  <1>7. ASSUME NEW x \in Ids!Objects, parent[x] = Ids!Nothing PROVE P[x] = L[x]
    BY <1>2, <1>5, <1>7
  <1>8. ASSUME NEW x \in Ids!Objects, parent[x] = Root PROVE P[x] = L[x]
    <2>1. P[Root] = L[Root] BY <1>1, <1>7
    <2>2. parent[x] # Ids!Nothing BY <1>1, <1>8
    <2> QED BY <1>2, <1>5, <1>8, <2>1, <2>2
  <1>9. ASSUME NEW x \in Ids!Objects, parent[x] # Ids!Nothing PROVE P[x] = L[x]
    <2>1. P[parent[x]] = L[parent[x]] BY <1>1, <1>7, <1>8, <1>9
    <2> QED BY <1>1, <1>2, <1>5, <1>9, <2>1
  <1> QED BY <1>6, <1>7, <1>9 DEF L

\* Paths are sequences of names, and a child's is its parent's and its own name.
LEMMA LineShape ==
  ASSUME Ids!GraphAssumption, NEW f, Forest(f), NEW n \in [Ids!Objects -> Ids!Names],
         NEW x \in Ids!Objects
  PROVE  /\ Line(f, n, x) \in Seq(Ids!Names) /\ Line(f, n, x) # Ids!NoLabel
         /\ f[x] = Ids!Nothing => Line(f, n, x) = Append(<<>>, n[x])
         /\ f[x] # Ids!Nothing =>
              /\ f[x] \in Bins
              /\ Line(f, n, x) = Append(Line(f, n, f[x]), n[x])
              /\ Chain(f, x) = Chain(f, f[x]) \union {x}
  <1>1. /\ f[x] \in Bins \union {Ids!Nothing}
        /\ f[x] # Ids!Nothing => f[x] \in Ids!Objects /\ f[f[x]] \in {Ids!Nothing, Root}
        /\ f[Root] = Ids!Nothing /\ Root \in Ids!Objects
        /\ Ids!Nothing \notin Ids!Objects /\ Root # Ids!Nothing
    BY ObjectsApart DEF Forest
  <1>2. CASE f[x] = Ids!Nothing BY <1>2 DEF Line, Ids!NoLabel
  <1>3. CASE f[x] # Ids!Nothing /\ f[f[x]] = Ids!Nothing
    BY <1>1, <1>3 DEF Line, Ids!NoLabel, Chain
  <1>4. CASE f[x] # Ids!Nothing /\ f[f[x]] # Ids!Nothing
    <2>1. f[f[x]] = Root BY <1>1, <1>4
    <2>2. /\ Line(f, n, f[x]) = <<n[Root], n[f[x]]>>
          /\ Line(f, n, x) = <<n[Root], n[f[x]], n[x]>>
      BY <1>1, <1>4, <2>1 DEF Line
    <2>3. n[Root] \in Ids!Names /\ n[f[x]] \in Ids!Names /\ n[x] \in Ids!Names BY <1>1, <1>4
    <2>4. Chain(f, x) = Chain(f, f[x]) \union {x}
      BY <1>1, <1>4, <2>1 DEF Chain
    <2> QED BY <1>1, <1>4, <2>2, <2>3, <2>4 DEF Ids!NoLabel
  <1> QED BY <1>2, <1>3, <1>4

\* Two graphs that agree on what has been seen have the same lines there.
LEMMA LineSame ==
  ASSUME Ids!GraphAssumption, NEW f, NEW g, NEW n, NEW S \in SUBSET Ids!Objects, NEW x \in S,
         Chain(g, x) \subseteq S, \A y \in S : f[y] = g[y] /\ g[y] \in Ids!Objects \union {Ids!Nothing}
  PROVE  Line(f, n, x) = Line(g, n, x) /\ Chain(f, x) = Chain(g, x)
  <1>1. f[x] = g[x] OBVIOUS
  <1>2. CASE g[x] = Ids!Nothing BY <1>1, <1>2 DEF Line, Chain
  <1>3. CASE g[x] # Ids!Nothing
    <2>1. g[x] \in S BY <1>3 DEF Chain
    <2>2. f[g[x]] = g[g[x]] BY <2>1
    <2> QED BY <1>1, <1>3, <2>2 DEF Line, Chain
  <1> QED BY <1>2, <1>3

\* A rename outside a chain leaves its line.
LEMMA LineNamed ==
  ASSUME NEW f, NEW m, NEW n, NEW o, \A y \in Ids!Objects \ {o} : m[y] = n[y],
         NEW S \in SUBSET Ids!Objects, NEW x \in S, o \notin Chain(f, x), Ids!Nothing \notin Ids!Objects,
         Chain(f, x) \subseteq S, \A y \in S : f[y] \in Ids!Objects \union {Ids!Nothing}
  PROVE  Line(f, m, x) = Line(f, n, x)
  <1>1. \A y \in Chain(f, x) : m[y] = n[y] BY DEF Chain
  <1>2. x \in Chain(f, x) BY DEF Chain
  <1>3. Line(f, m, x) = Line(f, n, x)
    <2>1. CASE f[x] = Ids!Nothing BY <1>1, <1>2, <2>1 DEF Line
    <2>2. CASE f[x] # Ids!Nothing
      <3>1. f[x] \in Chain(f, x) /\ f[x] \in S BY <2>2 DEF Chain
      <3>2. f[f[x]] # Ids!Nothing => f[f[x]] \in Chain(f, x) BY <2>2, <3>1 DEF Chain
      <3>3. m[x] = n[x] /\ m[f[x]] = n[f[x]] BY <1>1, <1>2, <3>1
      <3>4. f[f[x]] # Ids!Nothing => m[f[f[x]]] = n[f[f[x]]] BY <1>1, <3>2
      <3>5. CASE f[f[x]] = Ids!Nothing BY <2>2, <3>3, <3>5 DEF Line
      <3>6. CASE f[f[x]] # Ids!Nothing BY <2>2, <3>3, <3>4, <3>6 DEF Line
      <3> QED BY <3>5, <3>6
    <2> QED BY <2>1, <2>2
  <1> QED BY <1>3

\* Types.
LEMMA QueueTypeStep ==
  ASSUME Ids!GraphAssumption, QueueInv, Ids!Next
  PROVE  Ids!TypeOK'
  <1> USE Ids!GraphAssumption, QueueInv, ObjectsApart DEF Ids!TypeOK, QueueInv
  <1>1. ASSUME NEW o \in Ids!Objects, NEW n \in Ids!Names, Ids!Rename(o, n) PROVE Ids!TypeOK'
    <2>1. name' \in [Ids!Objects -> Ids!Names] BY <1>1 DEF Ids!Rename, Ids!Edit
    <2>2. notifying' \subseteq Ids!Objects BY <1>1 DEF Ids!Rename, Ids!Edit
    <2>3. edits' \in 0..MaxEdits BY <1>1 DEF Ids!Rename, Ids!Edit, Ids!GraphAssumption
    <2>4. calm' = FALSE BY <1>1 DEF Ids!Rename, Ids!Edit, Ids!Hooked, Ids!OutsideScrape, Ids!localVars
    <2>5. UNCHANGED <<parent, hooking, queues, forgotten, dirty, due, unhooked, moved, torn,
                      watches, cached, labels, sampler, todo, queue, walk, seen, prefixes, sampled,
                      directs>>
      BY <1>1 DEF Ids!Rename, Ids!Edit, Ids!Hooked, Ids!OutsideScrape, Ids!localVars
    <2> QED BY <2>1, <2>2, <2>3, <2>4, <2>5
  <1>2. ASSUME NEW o \in Ids!Objects, Ids!Notify(o) PROVE Ids!TypeOK'
    BY <1>2
      DEF Ids!Notify, Ids!Heard, Ids!Hooked, Ids!OutsideScrape, Ids!localVars
  <1>3. ASSUME NEW o \in Ids!Objects, NEW b \in Bins, Ids!Add(o, b) PROVE Ids!TypeOK'
    <2>1. parent' \in [Ids!Objects -> Bins \union {Ids!Nothing}] BY <1>3 DEF Ids!Add, Ids!Edit
    <2>2. hooking' \subseteq {"added", "removing", "removed"} \X Ids!Objects BY <1>3 DEF Ids!Add, Ids!Edit
    <2>3. edits' \in 0..MaxEdits BY <1>3 DEF Ids!Add, Ids!Edit, Ids!GraphAssumption
    <2>4. calm' = FALSE BY <1>3 DEF Ids!Add, Ids!Edit, Ids!Hooked, Ids!OutsideScrape, Ids!localVars
    <2>5. UNCHANGED <<name, notifying, queues, forgotten, dirty, due, unhooked, moved, torn,
                      watches, cached, labels, sampler, todo, queue, walk, seen, prefixes, sampled,
                      directs>>
      BY <1>3 DEF Ids!Add, Ids!Edit, Ids!Hooked, Ids!OutsideScrape, Ids!localVars
    <2> QED BY <2>1, <2>2, <2>3, <2>4, <2>5
  <1>4. ASSUME NEW o \in Ids!Objects, Ids!BinAddPost(o) PROVE Ids!TypeOK'
    BY <1>4
      DEF Ids!BinAddPost, Ids!Heard, Ids!Hooked, Ids!OutsideScrape, Ids!localVars
  <1>5. ASSUME NEW o \in Ids!Objects, Ids!BinRemovePre(o) PROVE Ids!TypeOK'
    <2>1. hooking' \subseteq {"added", "removing", "removed"} \X Ids!Objects
      BY <1>5 DEF Ids!BinRemovePre, Ids!Edit
    <2>2. cached' \in [Queues -> Seq(Ids!Names)] BY <1>5 DEF Ids!BinRemovePre, Ids!Edit, Ids!NoLabel
    <2>3. edits' \in 0..MaxEdits BY <1>5 DEF Ids!BinRemovePre, Ids!Edit, Ids!GraphAssumption
    <2>4. calm' = FALSE /\ dirty' = TRUE /\ queues' = queues \ {o}
      BY <1>5 DEF Ids!BinRemovePre, Ids!Edit, Ids!Hooked, Ids!OutsideScrape, Ids!localVars
    <2>5. UNCHANGED <<parent, name, notifying, forgotten, due, unhooked, moved, torn, watches,
                      labels, sampler, todo, queue, walk, seen, prefixes, sampled, directs>>
      BY <1>5 DEF Ids!BinRemovePre, Ids!Edit, Ids!Hooked, Ids!OutsideScrape, Ids!localVars
    <2> QED BY <2>1, <2>2, <2>3, <2>4, <2>5
  <1>6. ASSUME NEW o \in Ids!Objects, Ids!Unparent(o) PROVE Ids!TypeOK'
    <2>1. parent' \in [Ids!Objects -> Bins \union {Ids!Nothing}] BY <1>6 DEF Ids!Unparent, Ids!Heard
    <2>2. hooking' \subseteq {"added", "removing", "removed"} \X Ids!Objects
      BY <1>6 DEF Ids!Unparent, Ids!Heard
    <2>3. calm' = FALSE /\ forgotten' = forgotten \ {o}
      BY <1>6 DEF Ids!Unparent, Ids!Heard, Ids!Hooked, Ids!OutsideScrape, Ids!localVars
    <2>4. UNCHANGED <<name, notifying, queues, dirty, due, unhooked, moved, torn, watches, cached,
                      labels, sampler, todo, queue, walk, seen, prefixes, sampled, edits, directs>>
      BY <1>6 DEF Ids!Unparent, Ids!Heard, Ids!Hooked, Ids!OutsideScrape, Ids!localVars
    <2> QED BY <2>1, <2>2, <2>3, <2>4
  <1>7. ASSUME NEW o \in Ids!Objects, Ids!RemoveFails(o) PROVE Ids!TypeOK'
    BY <1>7
      DEF Ids!RemoveFails, Ids!Heard, Ids!Hooked, Ids!OutsideScrape, Ids!localVars
  <1>8. ASSUME NEW o \in Ids!Objects, Ids!BinRemovePost(o) PROVE Ids!TypeOK'
    BY <1>8
      DEF Ids!BinRemovePost, Ids!Heard, Ids!Hooked, Ids!OutsideScrape, Ids!localVars, Ids!NowDirty
  <1>9. ASSUME NEW o \in Ids!Objects, NEW b \in Bins \union {Ids!Nothing}, Ids!DirectParent(o, b)
        PROVE Ids!TypeOK'
    <2>1. parent' \in [Ids!Objects -> Bins \union {Ids!Nothing}] BY <1>9 DEF Ids!DirectParent
    <2>2. moved' \subseteq Ids!Objects BY <1>9 DEF Ids!DirectParent, Ids!Rebuilding
    <2>3. directs' \in 0..MaxDirect BY <1>9 DEF Ids!DirectParent, Ids!GraphAssumption
    <2>4. calm' = FALSE /\ unhooked' = TRUE /\ torn' = (torn \/ o \in moved)
      BY <1>9 DEF Ids!DirectParent, Ids!OutsideScrape, Ids!localVars
    <2>5. UNCHANGED <<name, notifying, hooking, queues, forgotten, dirty, due, watches, cached,
                      labels, sampler, todo, queue, walk, seen, prefixes, sampled, edits>>
      BY <1>9 DEF Ids!DirectParent, Ids!OutsideScrape, Ids!localVars
    <2> QED BY <2>1, <2>2, <2>3, <2>4, <2>5
  <1>10. CASE Ids!ThirtySecondsPass BY <1>10
      DEF Ids!ThirtySecondsPass, Ids!graphVars, Ids!localVars
  <1>11. CASE Ids!ScrapeBegin BY <1>11
      DEF Ids!ScrapeBegin
  <1>12. CASE Ids!Snapshot BY <1>12
      DEF Ids!Snapshot, Ids!graphVars, Ids!NoLabel
  <1>13. ASSUME NEW q \in Queues, Ids!RebuildQueue(q) PROVE Ids!TypeOK'
    BY <1>13
      DEF Ids!RebuildQueue, Ids!graphVars, Ids!Objects
  <1>14. CASE Ids!WatchAncestor BY <1>14
      DEF Ids!WatchAncestor, Ids!graphVars, Ids!Objects
  <1>15. CASE Ids!ReadIdentity
    <2> DEFINE c == IF parent[queue] = Ids!Nothing THEN <<>>
                    ELSE IF prefixes[parent[queue]] # Ids!NoLabel THEN prefixes[parent[queue]]
                    ELSE Ids!Path(parent[queue])
    <2>0. queue \in Ids!Objects /\ name[queue] \in Ids!Names BY DEF Ids!Objects
    <2>1. parent[queue] # Ids!Nothing => parent[queue] \in Bins /\ parent[queue] \in Ids!Objects
      BY <2>0
    <2>2. c \in Seq(Ids!Names)
      <3>1. <<>> \in Seq(Ids!Names) OBVIOUS
      <3>2. ASSUME NEW x \in Ids!Objects PROVE Ids!Path(x) \in Seq(Ids!Names)
        <4>1. Ids!Path(x) = Line(parent, name, x) BY PathIsLine DEF QueueGraph
        <4>2. Line(parent, name, x) \in Seq(Ids!Names) BY LineShape DEF QueueGraph
        <4> QED BY <4>1, <4>2
      <3> QED BY <2>1, <3>1, <3>2
    <2> DEFINE l == Append(c, name[queue])
    <2>3. l \in Seq(Ids!Names) BY <2>0, <2>2
    <2>4. cached' = [cached EXCEPT ![queue] =
                       IF Ids!Included(l) /\ queue \in queues THEN l ELSE Ids!NoLabel]
      BY <1>15 DEF Ids!ReadIdentity
    <2>5. prefixes' = IF parent[queue] = Ids!Nothing THEN prefixes
                      ELSE [prefixes EXCEPT ![parent[queue]] = c]
      BY <1>15 DEF Ids!ReadIdentity
    <2> HIDE DEF c, l
    <2>6. Ids!NoLabel \in Seq(Ids!Names) BY DEF Ids!NoLabel
    <2>7. cached' \in [Queues -> Seq(Ids!Names)] BY <2>3, <2>4, <2>6
    <2>8. prefixes' \in [Bins -> Seq(Ids!Names)] BY <2>1, <2>2, <2>5
    <2>9. sampler' = "rebuild" /\ walk' = Ids!Nothing BY <1>15 DEF Ids!ReadIdentity
    <2>10. UNCHANGED <<Ids!graphVars, queues, dirty, due, watches, labels, todo, queue, seen,
                       sampled, calm>>
      BY <1>15 DEF Ids!ReadIdentity
    <2> QED BY <2>7, <2>8, <2>9, <2>10 DEF Ids!graphVars
  <1>16. CASE Ids!RetainWatches BY <1>16
      DEF Ids!RetainWatches, Ids!graphVars
  <1>17. ASSUME NEW q \in Queues, Ids!SampleQueue(q) PROVE Ids!TypeOK'
    BY <1>17
      DEF Ids!SampleQueue, Ids!graphVars
  <1>18. CASE Ids!ScrapeEnd BY <1>18
      DEF Ids!ScrapeEnd, Ids!graphVars, Ids!CurrentLabels
  <1> QED
    BY <1>1, <1>2, <1>3, <1>4, <1>5, <1>6, <1>7, <1>8, <1>9, <1>10, <1>11, <1>12, <1>13,
      <1>14, <1>15, <1>16, <1>17, <1>18
    DEF Ids!Next, Ids!Scrape, Ids!HookRuns

\* The bins stay below the root.
LEMMA QueueGraphStep ==
  ASSUME Ids!GraphAssumption, QueueInv, Ids!Next
  PROVE  QueueGraph'
  <1> USE Ids!GraphAssumption, QueueInv, ObjectsApart DEF Ids!TypeOK, QueueInv, QueueGraph
  <1>1. ASSUME NEW o \in Ids!Objects, NEW n \in Ids!Names, Ids!Rename(o, n) PROVE QueueGraph'
    BY <1>1
      DEF Ids!Rename, Ids!Edit, Ids!Hooked, Ids!OutsideScrape, Ids!localVars
  <1>2. ASSUME NEW o \in Ids!Objects, Ids!Notify(o) PROVE QueueGraph'
    BY <1>2
      DEF Ids!Notify, Ids!Heard, Ids!Hooked, Ids!OutsideScrape, Ids!localVars
  <1>3. ASSUME NEW o \in Ids!Objects, NEW b \in Bins, Ids!Add(o, b) PROVE QueueGraph'
    BY <1>3
      DEF Ids!Add, Ids!Edit, Ids!Hooked, Ids!OutsideScrape, Ids!localVars, Ids!MayHold, Forest,
          Ids!GraphAssumption
  <1>4. ASSUME NEW o \in Ids!Objects, Ids!BinAddPost(o) PROVE QueueGraph'
    BY <1>4
      DEF Ids!BinAddPost, Ids!Heard, Ids!Hooked, Ids!OutsideScrape, Ids!localVars
  <1>5. ASSUME NEW o \in Ids!Objects, Ids!BinRemovePre(o) PROVE QueueGraph'
    BY <1>5
      DEF Ids!BinRemovePre, Ids!Edit, Ids!Hooked, Ids!OutsideScrape, Ids!localVars
  <1>6. ASSUME NEW o \in Ids!Objects, Ids!Unparent(o) PROVE QueueGraph'
    BY <1>6
      DEF Ids!Unparent, Ids!Heard, Ids!Hooked, Ids!OutsideScrape, Ids!localVars, Forest
  <1>7. ASSUME NEW o \in Ids!Objects, Ids!RemoveFails(o) PROVE QueueGraph'
    BY <1>7
      DEF Ids!RemoveFails, Ids!Heard, Ids!Hooked, Ids!OutsideScrape, Ids!localVars
  <1>8. ASSUME NEW o \in Ids!Objects, Ids!BinRemovePost(o) PROVE QueueGraph'
    BY <1>8
      DEF Ids!BinRemovePost, Ids!Heard, Ids!Hooked, Ids!OutsideScrape, Ids!localVars, Ids!NowDirty
  <1>9. ASSUME NEW o \in Ids!Objects, NEW b \in Bins \union {Ids!Nothing}, Ids!DirectParent(o, b)
        PROVE QueueGraph'
    BY <1>9
      DEF Ids!DirectParent, Ids!OutsideScrape, Ids!localVars, Ids!MayHold, Forest, Ids!GraphAssumption
  <1>10. CASE Ids!ThirtySecondsPass BY <1>10
      DEF Ids!ThirtySecondsPass, Ids!graphVars, Ids!localVars
  <1>11. CASE Ids!ScrapeBegin BY <1>11
      DEF Ids!ScrapeBegin
  <1>12. CASE Ids!Snapshot BY <1>12
      DEF Ids!Snapshot, Ids!graphVars
  <1>13. ASSUME NEW q \in Queues, Ids!RebuildQueue(q) PROVE QueueGraph'
    BY <1>13
      DEF Ids!RebuildQueue, Ids!graphVars
  <1>14. CASE Ids!WatchAncestor BY <1>14
      DEF Ids!WatchAncestor, Ids!graphVars, Forest
  <1>15. CASE Ids!ReadIdentity BY <1>15
      DEF Ids!ReadIdentity, Ids!graphVars
  <1>16. CASE Ids!RetainWatches BY <1>16
      DEF Ids!RetainWatches, Ids!graphVars
  <1>17. ASSUME NEW q \in Queues, Ids!SampleQueue(q) PROVE QueueGraph'
    BY <1>17
      DEF Ids!SampleQueue, Ids!graphVars
  <1>18. CASE Ids!ScrapeEnd BY <1>18
      DEF Ids!ScrapeEnd, Ids!graphVars, Ids!CurrentLabels
  <1> QED
    BY <1>1, <1>2, <1>3, <1>4, <1>5, <1>6, <1>7, <1>8, <1>9, <1>10, <1>11, <1>12, <1>13,
      <1>14, <1>15, <1>16, <1>17, <1>18
    DEF Ids!Next, Ids!Scrape, Ids!HookRuns

\* One edit of an object at a time.
LEMMA QueueHooksStep ==
  ASSUME Ids!GraphAssumption, QueueInv, Ids!Next
  PROVE  QueueHooks'
  <1> USE Ids!GraphAssumption, QueueInv, ObjectsApart DEF Ids!TypeOK, QueueInv, QueueHooks
  <1>1. ASSUME NEW o \in Ids!Objects, NEW n \in Ids!Names, Ids!Rename(o, n) PROVE QueueHooks'
    BY <1>1
      DEF Ids!Rename, Ids!Edit, Ids!Hooked, Ids!OutsideScrape, Ids!localVars
  <1>2. ASSUME NEW o \in Ids!Objects, Ids!Notify(o) PROVE QueueHooks'
    BY <1>2
      DEF Ids!Notify, Ids!Heard, Ids!Hooked, Ids!OutsideScrape, Ids!localVars
  <1>3. ASSUME NEW o \in Ids!Objects, NEW b \in Bins, Ids!Add(o, b) PROVE QueueHooks'
    <2>1. PICK new \in {"added", "removing", "removed"} \X Ids!Objects :
            new = <<"added", o>> /\ new[1] = "added" /\ new[2] = o
      <3>1. <<"added", o>> \in {"added", "removing", "removed"} \X Ids!Objects BY <1>3
      <3> QED BY <3>1
    <2>2. /\ hooking' = hooking \union {new} /\ \A h \in hooking : h[2] # o
          /\ parent' = [parent EXCEPT ![o] = b] /\ b # Ids!Nothing /\ o \in Ids!Objects
      BY <1>3, <2>1 DEF Ids!Add
    <2>3. parent'[o] = b /\ \A h \in hooking : parent'[h[2]] = parent[h[2]] BY <2>2
    <2>4. \A g, h \in hooking' : g[2] = h[2] => g = h
      <3>1. \A g, h \in hooking : g[2] = h[2] => g = h BY DEF QueueHooks
      <3>2. \A g \in hooking' \ {new} : g[2] # new[2] BY <2>1, <2>2
      <3>3. hooking' \subseteq hooking \union {new} BY <2>2
      <3> QED BY <3>1, <3>2, <3>3, OneHookEach
    <2>5. \A h \in hooking' : h[1] = "removed" <=> parent'[h[2]] = Ids!Nothing BY <2>1, <2>2, <2>3
    <2> QED BY <2>4, <2>5
  <1>4. ASSUME NEW o \in Ids!Objects, Ids!BinAddPost(o) PROVE QueueHooks'
    BY <1>4
      DEF Ids!BinAddPost, Ids!Heard, Ids!Hooked, Ids!OutsideScrape, Ids!localVars
  <1>5. ASSUME NEW o \in Ids!Objects, Ids!BinRemovePre(o) PROVE QueueHooks'
    <2>1. PICK new \in {"added", "removing", "removed"} \X Ids!Objects :
            new = <<"removing", o>> /\ new[1] = "removing" /\ new[2] = o
      <3>1. <<"removing", o>> \in {"added", "removing", "removed"} \X Ids!Objects BY <1>5
      <3> QED BY <3>1
    <2>2. /\ hooking' = hooking \union {new} /\ \A h \in hooking : h[2] # o
          /\ parent' = parent /\ parent[o] # Ids!Nothing
      BY <1>5, <2>1 DEF Ids!BinRemovePre
    <2>3. \A g, h \in hooking' : g[2] = h[2] => g = h
      <3>1. \A g, h \in hooking : g[2] = h[2] => g = h BY DEF QueueHooks
      <3>2. \A g \in hooking' \ {new} : g[2] # new[2] BY <2>1, <2>2
      <3>3. hooking' \subseteq hooking \union {new} BY <2>2
      <3> QED BY <3>1, <3>2, <3>3, OneHookEach
    <2>4. \A h \in hooking' : h[1] = "removed" <=> parent'[h[2]] = Ids!Nothing BY <2>1, <2>2
    <2> QED BY <2>3, <2>4
  <1>6. ASSUME NEW o \in Ids!Objects, Ids!Unparent(o) PROVE QueueHooks'
    <2>1. PICK new \in {"added", "removing", "removed"} \X Ids!Objects :
            new = <<"removed", o>> /\ new[1] = "removed" /\ new[2] = o
      <3>1. <<"removed", o>> \in {"added", "removing", "removed"} \X Ids!Objects BY <1>6
      <3> QED BY <3>1
    <2>2. PICK old \in hooking : old = <<"removing", o>> /\ old[2] = o BY <1>6 DEF Ids!Unparent
    <2>3. /\ hooking' = (hooking \ {old}) \union {new} /\ o \in Ids!Objects
          /\ parent' = [parent EXCEPT ![o] = Ids!Nothing]
      BY <1>6, <2>1, <2>2 DEF Ids!Unparent
    <2>4. \A h \in hooking \ {old} : h[2] # o BY <2>2
    <2>5. parent'[o] = Ids!Nothing /\ \A h \in hooking \ {old} : parent'[h[2]] = parent[h[2]]
      BY <2>3, <2>4
    <2>6. \A g, h \in hooking' : g[2] = h[2] => g = h
      <3>1. \A g, h \in hooking : g[2] = h[2] => g = h BY DEF QueueHooks
      <3>2. \A g \in hooking' \ {new} : g[2] # new[2] BY <2>1, <2>3, <2>4
      <3>3. hooking' \subseteq hooking \union {new} BY <2>3
      <3> QED BY <3>1, <3>2, <3>3, OneHookEach
    <2>7. \A h \in hooking' : h[1] = "removed" <=> parent'[h[2]] = Ids!Nothing BY <2>1, <2>3, <2>5
    <2> QED BY <2>6, <2>7
  <1>7. ASSUME NEW o \in Ids!Objects, Ids!RemoveFails(o) PROVE QueueHooks'
    BY <1>7
      DEF Ids!RemoveFails, Ids!Heard, Ids!Hooked, Ids!OutsideScrape, Ids!localVars
  <1>8. ASSUME NEW o \in Ids!Objects, Ids!BinRemovePost(o) PROVE QueueHooks'
    BY <1>8
      DEF Ids!BinRemovePost, Ids!Heard, Ids!Hooked, Ids!OutsideScrape, Ids!localVars, Ids!NowDirty
  <1>9. ASSUME NEW o \in Ids!Objects, NEW b \in Bins \union {Ids!Nothing}, Ids!DirectParent(o, b)
        PROVE QueueHooks'
    BY <1>9
      DEF Ids!DirectParent, Ids!OutsideScrape, Ids!localVars
  <1>10. CASE Ids!ThirtySecondsPass BY <1>10
      DEF Ids!ThirtySecondsPass, Ids!graphVars, Ids!localVars
  <1>11. CASE Ids!ScrapeBegin BY <1>11
      DEF Ids!ScrapeBegin
  <1>12. CASE Ids!Snapshot BY <1>12
      DEF Ids!Snapshot, Ids!graphVars
  <1>13. ASSUME NEW q \in Queues, Ids!RebuildQueue(q) PROVE QueueHooks'
    BY <1>13
      DEF Ids!RebuildQueue, Ids!graphVars
  <1>14. CASE Ids!WatchAncestor BY <1>14
      DEF Ids!WatchAncestor, Ids!graphVars
  <1>15. CASE Ids!ReadIdentity BY <1>15
      DEF Ids!ReadIdentity, Ids!graphVars
  <1>16. CASE Ids!RetainWatches BY <1>16
      DEF Ids!RetainWatches, Ids!graphVars
  <1>17. ASSUME NEW q \in Queues, Ids!SampleQueue(q) PROVE QueueHooks'
    BY <1>17
      DEF Ids!SampleQueue, Ids!graphVars
  <1>18. CASE Ids!ScrapeEnd BY <1>18
      DEF Ids!ScrapeEnd, Ids!graphVars, Ids!CurrentLabels
  <1> QED
    BY <1>1, <1>2, <1>3, <1>4, <1>5, <1>6, <1>7, <1>8, <1>9, <1>10, <1>11, <1>12, <1>13,
      <1>14, <1>15, <1>16, <1>17, <1>18
    DEF Ids!Next, Ids!Scrape, Ids!HookRuns

\* A queue goes into the map with its addition, and out of it with its removal.
LEMMA QueueTrackedStep ==
  ASSUME Ids!GraphAssumption, QueueInv, Ids!Next
  PROVE  QueueTracked'
  <1> USE Ids!GraphAssumption, QueueInv, ObjectsApart DEF Ids!TypeOK, QueueInv
  <1>1. ASSUME NEW o \in Ids!Objects, NEW n \in Ids!Names, Ids!Rename(o, n) PROVE QueueTracked'
    BY <1>1
      DEF Ids!Rename, Ids!Edit, Ids!Hooked, Ids!OutsideScrape, Ids!localVars, QueueTracked
  <1>2. ASSUME NEW o \in Ids!Objects, Ids!Notify(o) PROVE QueueTracked'
    BY <1>2
      DEF Ids!Notify, Ids!Heard, Ids!Hooked, Ids!OutsideScrape, Ids!localVars, QueueTracked
  <1>3. ASSUME NEW o \in Ids!Objects, NEW b \in Bins, Ids!Add(o, b) PROVE QueueTracked'
    <2> SUFFICES ASSUME directs' = 0, NEW q \in Queues
                 PROVE  /\ (\A h \in hooking' : h[2] # q) =>
                             (parent'[q] # Ids!Nothing <=> q \in queues' \union forgotten')
                        /\ <<"removing", q>> \in hooking' => q \notin queues'
                        /\ <<"removed", q>> \in hooking' => q \notin queues' \union forgotten'
      BY <1>3 DEF QueueTracked
    <2>1. directs = 0 /\ q \in Ids!Objects /\ o \in Ids!Objects BY <1>3 DEF Ids!Add, Ids!Edit
    <2>2. /\ (\A h \in hooking : h[2] # q) => (parent[q] # Ids!Nothing <=> q \in queues \union forgotten)
          /\ <<"removing", q>> \in hooking => q \notin queues
          /\ <<"removed", q>> \in hooking => q \notin queues \union forgotten
      BY <2>1 DEF QueueTracked
    <2>3. PICK new \in {"added", "removing", "removed"} \X Ids!Objects :
            new = <<"added", o>> /\ new[1] = "added" /\ new[2] = o
      <3>1. <<"added", o>> \in {"added", "removing", "removed"} \X Ids!Objects BY <2>1
      <3> QED BY <3>1
    <2>4. hooking' = hooking \union {new} /\ queues' = queues /\ forgotten' = forgotten
      BY <1>3, <2>3 DEF Ids!Add
    <2>5. q # o => parent'[q] = parent[q] BY <1>3, <2>1 DEF Ids!Add
    <2>6. <<"removing", q>> # new /\ <<"removed", q>> # new BY <2>3
    <2>7. (\A h \in hooking' : h[2] # q) => q # o /\ \A h \in hooking : h[2] # q BY <2>3, <2>4
    <2> QED BY <2>2, <2>4, <2>5, <2>6, <2>7
  <1>4. ASSUME NEW o \in Ids!Objects, Ids!BinAddPost(o) PROVE QueueTracked'
    <2> SUFFICES ASSUME directs' = 0, NEW q \in Queues
                 PROVE  /\ (\A h \in hooking' : h[2] # q) =>
                             (parent'[q] # Ids!Nothing <=> q \in queues' \union forgotten')
                        /\ <<"removing", q>> \in hooking' => q \notin queues'
                        /\ <<"removed", q>> \in hooking' => q \notin queues' \union forgotten'
      BY <1>4 DEF QueueTracked
    <2>1. directs = 0 /\ q \in Ids!Objects /\ o \in Ids!Objects BY <1>4 DEF Ids!BinAddPost, Ids!Heard
    <2>2. /\ (\A h \in hooking : h[2] # q) => (parent[q] # Ids!Nothing <=> q \in queues \union forgotten)
          /\ <<"removing", q>> \in hooking => q \notin queues
          /\ <<"removed", q>> \in hooking => q \notin queues \union forgotten
      BY <2>1 DEF QueueTracked
    <2>3. PICK old \in hooking : old = <<"added", o>> /\ old[1] = "added" /\ old[2] = o
      BY <1>4 DEF Ids!BinAddPost
    <2>4. /\ hooking' = hooking \ {old} /\ parent' = parent
          /\ queues' = queues \union ({o} \intersect Queues) /\ forgotten' = forgotten \ {o}
      BY <1>4, <2>3 DEF Ids!BinAddPost
    <2>5. CASE q = o
      <3>1. parent[q] # Ids!Nothing BY <2>3, <2>5 DEF QueueHooks
      <3>2. <<"removing", q>> \notin hooking /\ <<"removed", q>> \notin hooking
        <4>1. \A h \in hooking : h[2] = o => h[1] = "added" BY <2>3 DEF QueueHooks
        <4> QED BY <2>5, <4>1
      <3> QED BY <2>4, <2>5, <3>1, <3>2
    <2>6. CASE q # o
      <3>1. (\A h \in hooking' : h[2] # q) => \A h \in hooking : h[2] # q BY <2>3, <2>4, <2>6
      <3>2. /\ <<"removing", q>> \in hooking' => <<"removing", q>> \in hooking
            /\ <<"removed", q>> \in hooking' => <<"removed", q>> \in hooking
        BY <2>4
      <3>3. (q \in queues' <=> q \in queues) /\ (q \in forgotten' <=> q \in forgotten) BY <2>4, <2>6
      <3> QED BY <2>2, <2>4, <3>1, <3>2, <3>3
    <2> QED BY <2>5, <2>6
  <1>5. ASSUME NEW o \in Ids!Objects, Ids!BinRemovePre(o) PROVE QueueTracked'
    <2> SUFFICES ASSUME directs' = 0, NEW q \in Queues
                 PROVE  /\ (\A h \in hooking' : h[2] # q) =>
                             (parent'[q] # Ids!Nothing <=> q \in queues' \union forgotten')
                        /\ <<"removing", q>> \in hooking' => q \notin queues'
                        /\ <<"removed", q>> \in hooking' => q \notin queues' \union forgotten'
      BY <1>5 DEF QueueTracked
    <2>1. directs = 0 /\ q \in Ids!Objects /\ o \in Ids!Objects BY <1>5 DEF Ids!BinRemovePre, Ids!Edit
    <2>2. /\ (\A h \in hooking : h[2] # q) => (parent[q] # Ids!Nothing <=> q \in queues \union forgotten)
          /\ <<"removing", q>> \in hooking => q \notin queues
          /\ <<"removed", q>> \in hooking => q \notin queues \union forgotten
      BY <2>1 DEF QueueTracked
    <2>3. PICK new \in {"added", "removing", "removed"} \X Ids!Objects :
            new = <<"removing", o>> /\ new[1] = "removing" /\ new[2] = o
      <3>1. <<"removing", o>> \in {"added", "removing", "removed"} \X Ids!Objects BY <2>1
      <3> QED BY <3>1
    <2>4. /\ hooking' = hooking \union {new} /\ queues' = queues \ {o} /\ forgotten' = forgotten
          /\ parent' = parent /\ \A h \in hooking : h[2] # o
      BY <1>5, <2>3 DEF Ids!BinRemovePre
    <2>5. <<"removed", q>> # new /\ (<<"removing", q>> = new => q = o) BY <2>3
    <2>6. (\A h \in hooking' : h[2] # q) => q # o /\ \A h \in hooking : h[2] # q BY <2>3, <2>4
    <2> QED BY <2>2, <2>4, <2>5, <2>6
  <1>6. ASSUME NEW o \in Ids!Objects, Ids!Unparent(o) PROVE QueueTracked'
    <2> SUFFICES ASSUME directs' = 0, NEW q \in Queues
                 PROVE  /\ (\A h \in hooking' : h[2] # q) =>
                             (parent'[q] # Ids!Nothing <=> q \in queues' \union forgotten')
                        /\ <<"removing", q>> \in hooking' => q \notin queues'
                        /\ <<"removed", q>> \in hooking' => q \notin queues' \union forgotten'
      BY <1>6 DEF QueueTracked
    <2>1. directs = 0 /\ q \in Ids!Objects /\ o \in Ids!Objects BY <1>6 DEF Ids!Unparent, Ids!Heard
    <2>2. /\ (\A h \in hooking : h[2] # q) => (parent[q] # Ids!Nothing <=> q \in queues \union forgotten)
          /\ <<"removing", q>> \in hooking => q \notin queues
          /\ <<"removed", q>> \in hooking => q \notin queues \union forgotten
      BY <2>1 DEF QueueTracked
    <2>3. PICK old \in hooking : old = <<"removing", o>> /\ old[1] = "removing" /\ old[2] = o
      BY <1>6 DEF Ids!Unparent
    <2>4. PICK new \in {"added", "removing", "removed"} \X Ids!Objects :
            new = <<"removed", o>> /\ new[1] = "removed" /\ new[2] = o
      <3>1. <<"removed", o>> \in {"added", "removing", "removed"} \X Ids!Objects BY <2>1
      <3> QED BY <3>1
    <2>5. /\ hooking' = (hooking \ {old}) \union {new} /\ queues' = queues /\ forgotten' = forgotten \ {o}
          /\ q # o => parent'[q] = parent[q]
      BY <1>6, <2>1, <2>3, <2>4 DEF Ids!Unparent
    <2>6. <<"removing", q>> # new /\ (<<"removed", q>> = new => q = o) BY <2>4
    <2>7. (\A h \in hooking' : h[2] # q) => q # o BY <2>4, <2>5
    <2>8. CASE q = o
      <3>1. q \notin queues BY <2>2, <2>3, <2>8
      <3> QED BY <2>5, <2>7, <2>8, <3>1
    <2>9. CASE q # o
      <3>1. (\A h \in hooking' : h[2] # q) => \A h \in hooking : h[2] # q BY <2>3, <2>5, <2>9
      <3>2. /\ <<"removing", q>> \in hooking' => <<"removing", q>> \in hooking
            /\ <<"removed", q>> \in hooking' => <<"removed", q>> \in hooking
        BY <2>5, <2>6, <2>9
      <3>3. q \in forgotten' <=> q \in forgotten BY <2>5, <2>9
      <3> QED BY <2>2, <2>5, <2>9, <3>1, <3>2, <3>3
    <2> QED BY <2>8, <2>9
  <1>7. ASSUME NEW o \in Ids!Objects, Ids!RemoveFails(o) PROVE QueueTracked'
    <2> SUFFICES ASSUME directs' = 0, NEW q \in Queues
                 PROVE  /\ (\A h \in hooking' : h[2] # q) =>
                             (parent'[q] # Ids!Nothing <=> q \in queues' \union forgotten')
                        /\ <<"removing", q>> \in hooking' => q \notin queues'
                        /\ <<"removed", q>> \in hooking' => q \notin queues' \union forgotten'
      BY <1>7 DEF QueueTracked
    <2>1. directs = 0 /\ q \in Ids!Objects /\ o \in Ids!Objects BY <1>7 DEF Ids!RemoveFails, Ids!Heard
    <2>2. /\ (\A h \in hooking : h[2] # q) => (parent[q] # Ids!Nothing <=> q \in queues \union forgotten)
          /\ <<"removing", q>> \in hooking => q \notin queues
          /\ <<"removed", q>> \in hooking => q \notin queues \union forgotten
      BY <2>1 DEF QueueTracked
    <2>3. PICK old \in hooking : old = <<"removing", o>> /\ old[1] = "removing" /\ old[2] = o
      BY <1>7 DEF Ids!RemoveFails
    <2>4. /\ hooking' = hooking \ {old} /\ parent' = parent /\ queues' = queues
          /\ forgotten' = forgotten \union ({o} \intersect Queues)
      BY <1>7, <2>3 DEF Ids!RemoveFails
    <2>5. CASE q = o
      <3>1. parent[q] # Ids!Nothing BY <2>3, <2>5 DEF QueueHooks
      <3>2. <<"removed", q>> \notin hooking
        <4>1. \A h \in hooking : h[2] = o => h[1] = "removing" BY <2>3 DEF QueueHooks
        <4> QED BY <2>5, <4>1
      <3>3. q \notin queues BY <2>2, <2>3, <2>5
      <3> QED BY <2>4, <2>5, <3>1, <3>2, <3>3
    <2>6. CASE q # o
      <3>1. (\A h \in hooking' : h[2] # q) => \A h \in hooking : h[2] # q BY <2>3, <2>4, <2>6
      <3>2. /\ <<"removing", q>> \in hooking' => <<"removing", q>> \in hooking
            /\ <<"removed", q>> \in hooking' => <<"removed", q>> \in hooking
        BY <2>4
      <3>3. (q \in queues' <=> q \in queues) /\ (q \in forgotten' <=> q \in forgotten) BY <2>4, <2>6
      <3> QED BY <2>2, <2>4, <3>1, <3>2, <3>3
    <2> QED BY <2>5, <2>6
  <1>8. ASSUME NEW o \in Ids!Objects, Ids!BinRemovePost(o) PROVE QueueTracked'
    <2> SUFFICES ASSUME directs' = 0, NEW q \in Queues
                 PROVE  /\ (\A h \in hooking' : h[2] # q) =>
                             (parent'[q] # Ids!Nothing <=> q \in queues' \union forgotten')
                        /\ <<"removing", q>> \in hooking' => q \notin queues'
                        /\ <<"removed", q>> \in hooking' => q \notin queues' \union forgotten'
      BY <1>8 DEF QueueTracked
    <2>1. directs = 0 /\ q \in Ids!Objects /\ o \in Ids!Objects BY <1>8 DEF Ids!BinRemovePost, Ids!Heard
    <2>2. /\ (\A h \in hooking : h[2] # q) => (parent[q] # Ids!Nothing <=> q \in queues \union forgotten)
          /\ <<"removing", q>> \in hooking => q \notin queues
          /\ <<"removed", q>> \in hooking => q \notin queues \union forgotten
      BY <2>1 DEF QueueTracked
    <2>3. PICK old \in hooking : old = <<"removed", o>> /\ old[1] = "removed" /\ old[2] = o
      BY <1>8 DEF Ids!BinRemovePost
    <2>4. hooking' = hooking \ {old} /\ parent' = parent /\ queues' = queues /\ forgotten' = forgotten
      BY <1>8, <2>3 DEF Ids!BinRemovePost
    <2>5. CASE q = o
      <3>1. parent[q] = Ids!Nothing BY <2>3, <2>5 DEF QueueHooks
      <3>2. q \notin queues \union forgotten BY <2>2, <2>3, <2>5
      <3> QED BY <2>4, <3>1, <3>2
    <2>6. CASE q # o
      <3>1. (\A h \in hooking' : h[2] # q) => \A h \in hooking : h[2] # q BY <2>3, <2>4, <2>6
      <3>2. /\ <<"removing", q>> \in hooking' => <<"removing", q>> \in hooking
            /\ <<"removed", q>> \in hooking' => <<"removed", q>> \in hooking
        BY <2>4
      <3>3. (q \in queues' <=> q \in queues) /\ (q \in forgotten' <=> q \in forgotten) BY <2>4, <2>6
      <3> QED BY <2>2, <2>4, <3>1, <3>2, <3>3
    <2> QED BY <2>5, <2>6
  <1>9. ASSUME NEW o \in Ids!Objects, NEW b \in Bins \union {Ids!Nothing}, Ids!DirectParent(o, b)
        PROVE QueueTracked'
    <2>1. directs \in Nat /\ directs' = directs + 1 BY <1>9 DEF Ids!DirectParent, Ids!GraphAssumption
    <2>2. directs' # 0 BY <2>1
    <2> QED BY <2>2 DEF QueueTracked
  <1>10. CASE Ids!ThirtySecondsPass
    BY <1>10
      DEF Ids!ThirtySecondsPass, Ids!graphVars, Ids!localVars, QueueTracked
  <1>11. CASE Ids!ScrapeBegin BY <1>11
      DEF Ids!ScrapeBegin, QueueTracked
  <1>12. CASE Ids!Snapshot BY <1>12
      DEF Ids!Snapshot, Ids!graphVars, QueueTracked
  <1>13. ASSUME NEW q \in Queues, Ids!RebuildQueue(q) PROVE QueueTracked'
    BY <1>13
      DEF Ids!RebuildQueue, Ids!graphVars, QueueTracked
  <1>14. CASE Ids!WatchAncestor BY <1>14
      DEF Ids!WatchAncestor, Ids!graphVars, QueueTracked
  <1>15. CASE Ids!ReadIdentity BY <1>15
      DEF Ids!ReadIdentity, Ids!graphVars, QueueTracked
  <1>16. CASE Ids!RetainWatches BY <1>16
      DEF Ids!RetainWatches, Ids!graphVars, QueueTracked
  <1>17. ASSUME NEW q \in Queues, Ids!SampleQueue(q) PROVE QueueTracked'
    BY <1>17
      DEF Ids!SampleQueue, Ids!graphVars, QueueTracked
  <1>18. CASE Ids!ScrapeEnd BY <1>18
      DEF Ids!ScrapeEnd, Ids!graphVars, Ids!CurrentLabels, QueueTracked
  <1> QED
    BY <1>1, <1>2, <1>3, <1>4, <1>5, <1>6, <1>7, <1>8, <1>9, <1>10, <1>11, <1>12, <1>13,
      <1>14, <1>15, <1>16, <1>17, <1>18
    DEF Ids!Next, Ids!Scrape, Ids!HookRuns

\* What leaves the map loses its label.
LEMMA QueueCachedStep ==
  ASSUME Ids!GraphAssumption, QueueInv, Ids!Next
  PROVE  QueueCached'
  <1> USE Ids!GraphAssumption, QueueInv, ObjectsApart DEF Ids!TypeOK, QueueInv, QueueCached,
      Ids!Rebuilding
  <1>1. ASSUME NEW o \in Ids!Objects, NEW n \in Ids!Names, Ids!Rename(o, n) PROVE QueueCached'
    BY <1>1
      DEF Ids!Rename, Ids!Edit, Ids!Hooked, Ids!OutsideScrape, Ids!localVars
  <1>2. ASSUME NEW o \in Ids!Objects, Ids!Notify(o) PROVE QueueCached'
    BY <1>2
      DEF Ids!Notify, Ids!Heard, Ids!Hooked, Ids!OutsideScrape, Ids!localVars
  <1>3. ASSUME NEW o \in Ids!Objects, NEW b \in Bins, Ids!Add(o, b) PROVE QueueCached'
    BY <1>3
      DEF Ids!Add, Ids!Edit, Ids!Hooked, Ids!OutsideScrape, Ids!localVars
  <1>4. ASSUME NEW o \in Ids!Objects, Ids!BinAddPost(o) PROVE QueueCached'
    BY <1>4
      DEF Ids!BinAddPost, Ids!Heard, Ids!Hooked, Ids!OutsideScrape, Ids!localVars
  <1>5. ASSUME NEW o \in Ids!Objects, Ids!BinRemovePre(o) PROVE QueueCached'
    BY <1>5
      DEF Ids!BinRemovePre, Ids!Edit, Ids!Hooked, Ids!OutsideScrape, Ids!localVars
  <1>6. ASSUME NEW o \in Ids!Objects, Ids!Unparent(o) PROVE QueueCached'
    BY <1>6
      DEF Ids!Unparent, Ids!Heard, Ids!Hooked, Ids!OutsideScrape, Ids!localVars
  <1>7. ASSUME NEW o \in Ids!Objects, Ids!RemoveFails(o) PROVE QueueCached'
    BY <1>7
      DEF Ids!RemoveFails, Ids!Heard, Ids!Hooked, Ids!OutsideScrape, Ids!localVars
  <1>8. ASSUME NEW o \in Ids!Objects, Ids!BinRemovePost(o) PROVE QueueCached'
    BY <1>8
      DEF Ids!BinRemovePost, Ids!Heard, Ids!Hooked, Ids!OutsideScrape, Ids!localVars, Ids!NowDirty
  <1>9. ASSUME NEW o \in Ids!Objects, NEW b \in Bins \union {Ids!Nothing}, Ids!DirectParent(o, b)
        PROVE QueueCached'
    BY <1>9
      DEF Ids!DirectParent, Ids!OutsideScrape, Ids!localVars
  <1>10. CASE Ids!ThirtySecondsPass BY <1>10
      DEF Ids!ThirtySecondsPass, Ids!graphVars, Ids!localVars
  <1>11. CASE Ids!ScrapeBegin BY <1>11
      DEF Ids!ScrapeBegin
  <1>12. CASE Ids!Snapshot BY <1>12
      DEF Ids!Snapshot, Ids!graphVars
  <1>13. ASSUME NEW q \in Queues, Ids!RebuildQueue(q) PROVE QueueCached'
    BY <1>13
      DEF Ids!RebuildQueue, Ids!graphVars
  <1>14. CASE Ids!WatchAncestor BY <1>14
      DEF Ids!WatchAncestor, Ids!graphVars
  <1>15. CASE Ids!ReadIdentity BY <1>15
      DEF Ids!ReadIdentity, Ids!graphVars
  <1>16. CASE Ids!RetainWatches BY <1>16
      DEF Ids!RetainWatches, Ids!graphVars
  <1>17. ASSUME NEW q \in Queues, Ids!SampleQueue(q) PROVE QueueCached'
    BY <1>17
      DEF Ids!SampleQueue, Ids!graphVars
  <1>18. CASE Ids!ScrapeEnd BY <1>18
      DEF Ids!ScrapeEnd, Ids!graphVars, Ids!CurrentLabels
  <1> QED
    BY <1>1, <1>2, <1>3, <1>4, <1>5, <1>6, <1>7, <1>8, <1>9, <1>10, <1>11, <1>12, <1>13,
      <1>14, <1>15, <1>16, <1>17, <1>18
    DEF Ids!Next, Ids!Scrape, Ids!HookRuns

\* Nothing moves without the flag, a hook to come, or the next check finding it.
LEMMA QueueMatchStep ==
  ASSUME Ids!GraphAssumption, QueueInv, Ids!Next
  PROVE  QueueMatch'
  <1> USE Ids!GraphAssumption, QueueInv, ObjectsApart DEF Ids!TypeOK, QueueInv, QueueMatch,
    Ids!Rebuilding, Ids!ParentsMatch, Coming
  <1>1. ASSUME NEW o \in Ids!Objects, NEW n \in Ids!Names, Ids!Rename(o, n) PROVE QueueMatch'
    BY <1>1
      DEF Ids!Rename, Ids!Edit, Ids!Hooked, Ids!OutsideScrape, Ids!localVars
  <1>2. ASSUME NEW o \in Ids!Objects, Ids!Notify(o) PROVE QueueMatch'
    BY <1>2
      DEF Ids!Notify, Ids!Heard, Ids!Hooked, Ids!OutsideScrape, Ids!localVars
  <1>3. ASSUME NEW o \in Ids!Objects, NEW b \in Bins, Ids!Add(o, b) PROVE QueueMatch'
    BY <1>3
      DEF Ids!Add, Ids!Edit, Ids!Hooked, Ids!OutsideScrape, Ids!localVars
  <1>4. ASSUME NEW o \in Ids!Objects, Ids!BinAddPost(o) PROVE QueueMatch'
    BY <1>4
      DEF Ids!BinAddPost, Ids!Heard, Ids!Hooked, Ids!OutsideScrape, Ids!localVars
  <1>5. ASSUME NEW o \in Ids!Objects, Ids!BinRemovePre(o) PROVE QueueMatch'
    BY <1>5
      DEF Ids!BinRemovePre, Ids!Edit, Ids!Hooked, Ids!OutsideScrape, Ids!localVars
  <1>6. ASSUME NEW o \in Ids!Objects, Ids!Unparent(o) PROVE QueueMatch'
    BY <1>6
      DEF Ids!Unparent, Ids!Heard, Ids!Hooked, Ids!OutsideScrape, Ids!localVars
  <1>7. ASSUME NEW o \in Ids!Objects, Ids!RemoveFails(o) PROVE QueueMatch'
    BY <1>7
      DEF Ids!RemoveFails, Ids!Heard, Ids!Hooked, Ids!OutsideScrape, Ids!localVars
  <1>8. ASSUME NEW o \in Ids!Objects, Ids!BinRemovePost(o) PROVE QueueMatch'
    BY <1>8
      DEF Ids!BinRemovePost, Ids!Heard, Ids!Hooked, Ids!OutsideScrape, Ids!localVars, Ids!NowDirty
  <1>9. ASSUME NEW o \in Ids!Objects, NEW b \in Bins \union {Ids!Nothing}, Ids!DirectParent(o, b)
        PROVE QueueMatch'
    BY <1>9
      DEF Ids!DirectParent, Ids!OutsideScrape, Ids!localVars
  <1>10. CASE Ids!ThirtySecondsPass BY <1>10
      DEF Ids!ThirtySecondsPass, Ids!graphVars, Ids!localVars
  <1>11. CASE Ids!ScrapeBegin BY <1>11
      DEF Ids!ScrapeBegin, QueueGraph
  <1>12. CASE Ids!Snapshot BY <1>12
      DEF Ids!Snapshot, Ids!graphVars
  <1>13. ASSUME NEW q \in Queues, Ids!RebuildQueue(q) PROVE QueueMatch'
    BY <1>13
      DEF Ids!RebuildQueue, Ids!graphVars
  <1>14. CASE Ids!WatchAncestor BY <1>14
      DEF Ids!WatchAncestor, Ids!graphVars
  <1>15. CASE Ids!ReadIdentity BY <1>15
      DEF Ids!ReadIdentity, Ids!graphVars
  <1>16. CASE Ids!RetainWatches BY <1>16
      DEF Ids!RetainWatches, Ids!graphVars
  <1>17. ASSUME NEW q \in Queues, Ids!SampleQueue(q) PROVE QueueMatch'
    BY <1>17
      DEF Ids!SampleQueue, Ids!graphVars
  <1>18. CASE Ids!ScrapeEnd BY <1>18
      DEF Ids!ScrapeEnd, Ids!graphVars, Ids!CurrentLabels
  <1> QED
    BY <1>1, <1>2, <1>3, <1>4, <1>5, <1>6, <1>7, <1>8, <1>9, <1>10, <1>11, <1>12, <1>13,
      <1>14, <1>15, <1>16, <1>17, <1>18
    DEF Ids!Next, Ids!Scrape, Ids!HookRuns

\* A rebuild works on while nothing is marked: what moves it has not seen, what is renamed will tell.
LEMMA QueueRebuildStep ==
  ASSUME Ids!GraphAssumption, QueueInv, Ids!Next
  PROVE  QueueRebuild'
  <1> USE Ids!GraphAssumption, QueueInv, ObjectsApart DEF QueueInv
  <1>1. ASSUME NEW o \in Ids!Objects, NEW n \in Ids!Names, Ids!Rename(o, n) PROVE QueueRebuild'
    <2>1. /\ name' = [name EXCEPT ![o] = n] /\ notifying' = notifying \union {o}
          /\ UNCHANGED <<parent, hooking, queues, dirty, unhooked, moved, torn, watches, cached,
                         sampler, todo, queue, walk, seen, prefixes>>
      BY <1>1 DEF Ids!Rename, Ids!Edit, Ids!Hooked, Ids!OutsideScrape, Ids!localVars
    <2>2. Quiet' => Quiet BY <2>1 DEF Quiet, Coming, Caught
    <2>3. ASSUME NEW f, \A x \in seen : f[x] \in Ids!Objects \union {Ids!Nothing}, NEW x \in seen,
                 Chain(f, x) \subseteq seen
          PROVE  Line(f, name', x) = Line(f, name, x) \/ o \in Chain(f, x)
      <3>1. /\ seen \in SUBSET Ids!Objects /\ name \in [Ids!Objects -> Ids!Names]
            /\ Ids!Nothing \notin Ids!Objects
        BY ObjectsApart DEF Ids!TypeOK
      <3>2. \A y \in seen : f[y] \in Ids!Objects \union {Ids!Nothing} BY <2>3
      <3>3. \A y \in Ids!Objects \ {o} : name'[y] = name[y] BY <2>1, <3>1
      <3> QED BY <2>3, <3>1, <3>2, <3>3, LineNamed
    <2> SUFFICES ASSUME QueueRebuild, sampler \in {"rebuild", "watch"}, Quiet PROVE QueueRebuild'
      BY <2>1, <2>2 DEF QueueRebuild
    <2>4. \A x \in seen : parent[x] \in Ids!Objects \union {Ids!Nothing} BY DEF Ids!TypeOK
    <2>5. SeenAreWalked' BY <2>1 DEF QueueRebuild, SeenAreWalked, Walked
    <2>6. DoneAreSettled'
      <3>1. ASSUME NEW q \in queues \ todo, Settled(parent, q) PROVE Settled(parent, q)'
        <4>1. q \in seen /\ Chain(parent, q) \subseteq seen BY <3>1 DEF Settled
        <4>2. Line(parent, name', q) = Line(parent, name, q) \/ o \in Chain(parent, q)
          BY <2>3, <2>4, <4>1
        <4> QED BY <2>1, <3>1, <4>2 DEF Settled, Shown
      <3> QED BY <2>1, <3>1 DEF QueueRebuild, DoneAreSettled
    <2>7. PrefixesAreRight'
      <3>1. ASSUME NEW b \in Bins, Prefixed(b) PROVE Prefixed(b)'
        <4>1. b \in seen /\ Chain(parent, b) \subseteq seen BY <3>1 DEF Prefixed
        <4>2. Line(parent, name', b) = Line(parent, name, b) \/ o \in Chain(parent, b)
          BY <2>3, <2>4, <4>1
        <4> QED BY <2>1, <3>1, <4>2 DEF Prefixed
      <3> QED BY <2>1, <3>1 DEF QueueRebuild, PrefixesAreRight
    <2> QED BY <2>1, <2>5, <2>6, <2>7 DEF QueueRebuild
  <1>2. ASSUME NEW o \in Ids!Objects, Ids!Notify(o) PROVE QueueRebuild'
    <2>1. /\ notifying' = notifying \ {o} /\ dirty' = (dirty \/ watches[o] # Ids!Unwatched)
          /\ UNCHANGED <<parent, name, hooking, queues, unhooked, moved, torn, watches, cached,
                         sampler, todo, queue, walk, seen, prefixes>>
      BY <1>2 DEF Ids!Notify, Ids!Heard, Ids!Hooked, Ids!OutsideScrape, Ids!localVars
    <2>2. Quiet' => Quiet /\ o \notin seen BY <2>1 DEF Quiet, Coming, Caught, QueueGraph
    <2> SUFFICES ASSUME QueueRebuild, sampler \in {"rebuild", "watch"}, Quiet, o \notin seen
                 PROVE  QueueRebuild'
      BY <2>1, <2>2 DEF QueueRebuild
    <2>5. SeenAreWalked' BY <2>1 DEF QueueRebuild, SeenAreWalked, Walked
    <2>6. DoneAreSettled'
      <3>1. ASSUME NEW q \in queues \ todo, Settled(parent, q) PROVE Settled(parent, q)'
        BY <2>1, <3>1 DEF Settled, Shown
      <3> QED BY <2>1, <3>1 DEF QueueRebuild, DoneAreSettled
    <2>7. PrefixesAreRight'
      <3>1. ASSUME NEW b \in Bins, Prefixed(b) PROVE Prefixed(b)' BY <2>1, <3>1 DEF Prefixed
      <3> QED BY <2>1, <3>1 DEF QueueRebuild, PrefixesAreRight
    <2> QED BY <2>1, <2>5, <2>6, <2>7 DEF QueueRebuild
  <1>3. ASSUME NEW o \in Ids!Objects, NEW b \in Bins, Ids!Add(o, b) PROVE QueueRebuild'
    <2>1. Coming' BY <1>3 DEF Ids!Add, Coming
    <2> QED BY <2>1 DEF Quiet, QueueRebuild
  <1>4. ASSUME NEW o \in Ids!Objects, Ids!BinAddPost(o) PROVE QueueRebuild'
    BY <1>4 DEF Ids!BinAddPost, Quiet, QueueRebuild
  <1>5. ASSUME NEW o \in Ids!Objects, Ids!BinRemovePre(o) PROVE QueueRebuild'
    BY <1>5 DEF Ids!BinRemovePre, Quiet, QueueRebuild
  <1>6. ASSUME NEW o \in Ids!Objects, Ids!Unparent(o) PROVE QueueRebuild'
    <2>1. Coming' BY <1>6 DEF Ids!Unparent, Coming
    <2> QED BY <2>1 DEF Quiet, QueueRebuild
  <1>7. ASSUME NEW o \in Ids!Objects, Ids!RemoveFails(o) PROVE QueueRebuild'
    <2>1. Coming <=> Coming'
      <3>1. \A x \in Ids!Objects :
              <<"added", x>> # <<"removing", o>> /\ <<"removed", x>> # <<"removing", o>>
        OBVIOUS
      <3> QED BY <1>7, <3>1 DEF Ids!RemoveFails, Coming
    <2>2. UNCHANGED <<parent, name, notifying, queues, dirty, unhooked, moved, torn, watches, cached,
                      sampler, todo, queue, walk, seen, prefixes>>
      BY <1>7 DEF Ids!RemoveFails, Ids!Heard, Ids!Hooked, Ids!OutsideScrape, Ids!localVars
    <2> QED
      BY <2>1, <2>2
        DEF QueueRebuild, Quiet, Caught, SeenAreWalked, Walked, DoneAreSettled, PrefixesAreRight,
                              Settled, Shown, Prefixed
  <1>8. ASSUME NEW o \in Ids!Objects, Ids!BinRemovePost(o) PROVE QueueRebuild'
    BY <1>8 DEF Ids!BinRemovePost, Ids!NowDirty, Quiet, QueueRebuild
  <1>9. ASSUME NEW o \in Ids!Objects, NEW b \in Bins \union {Ids!Nothing}, Ids!DirectParent(o, b)
        PROVE QueueRebuild'
    <2> SUFFICES ASSUME sampler' \in {"rebuild", "watch"}, Quiet' PROVE QueueRebuild'
      BY DEF QueueRebuild
    <2>1. /\ parent' = [parent EXCEPT ![o] = b] /\ parent[o] # b
          /\ torn' = (torn \/ o \in moved)
          /\ UNCHANGED <<name, notifying, hooking, queues, dirty, watches, cached,
                         sampler, todo, queue, walk, seen, prefixes>>
      BY <1>9 DEF Ids!DirectParent, Ids!OutsideScrape, Ids!localVars
    <2>2. moved' = moved \union {o} BY <1>9, <2>1 DEF Ids!DirectParent, Ids!Rebuilding
    <2>3. parent'[o] = b /\ \A x \in Ids!Objects \ {o} : parent'[x] = parent[x] BY <2>1 DEF Ids!TypeOK
    <2>4. o \notin moved /\ ~torn /\ ~dirty /\ ~Coming BY <2>1 DEF Quiet, Coming
    <2>5. \A x \in seen \intersect moved' : watches[x] = parent'[x] BY <2>1 DEF Quiet, Caught
    <2>6. ~Caught BY <2>2, <2>3, <2>4, <2>5 DEF Caught, Ids!TypeOK
    <2>7. /\ SeenAreWalked /\ DoneAreSettled /\ PrefixesAreRight
          /\ (sampler = "watch" => queue \in seen \/ walk = queue)
      BY <2>1, <2>4, <2>6 DEF QueueRebuild, Quiet
    <2>8. o \notin seen BY <2>1, <2>2, <2>3, <2>5, <2>7 DEF SeenAreWalked, Walked
    <2>9. \A x \in seen : parent'[x] = parent[x] /\ parent[x] \in Ids!Objects \union {Ids!Nothing}
      BY <2>3, <2>8 DEF Ids!TypeOK
    <2>10. ASSUME NEW x \in seen, Chain(parent, x) \subseteq seen
           PROVE  Line(parent', name, x) = Line(parent, name, x) /\ Chain(parent', x) = Chain(parent, x)
      <3>1. seen \in SUBSET Ids!Objects BY DEF Ids!TypeOK
      <3> QED BY <2>9, <2>10, <3>1, LineSame
    <2>11. SeenAreWalked' BY <2>1, <2>7, <2>9 DEF SeenAreWalked, Walked
    <2>12. DoneAreSettled'
      <3>1. ASSUME NEW q \in queues \ todo, Settled(parent, q) PROVE Settled(parent, q)'
        BY <2>1, <2>10, <3>1 DEF Settled, Shown
      <3> QED BY <2>1, <2>7, <3>1 DEF DoneAreSettled
    <2>13. PrefixesAreRight'
      <3>1. ASSUME NEW c \in Bins, Prefixed(c) PROVE Prefixed(c)' BY <2>1, <2>10, <3>1 DEF Prefixed
      <3> QED BY <2>1, <2>7, <3>1 DEF PrefixesAreRight
    <2> QED BY <2>1, <2>7, <2>11, <2>12, <2>13 DEF QueueRebuild
  <1>10. CASE Ids!ThirtySecondsPass
    <2>1. Coming <=> Coming' BY <1>10 DEF Ids!ThirtySecondsPass, Ids!graphVars, Coming
    <2>2. UNCHANGED <<parent, name, notifying, queues, dirty, unhooked, moved, torn, watches, cached,
                      sampler, todo, queue, walk, seen, prefixes>>
      BY <1>10 DEF Ids!ThirtySecondsPass, Ids!graphVars, Ids!localVars
    <2> QED
      BY <2>1, <2>2
        DEF QueueRebuild, Quiet, Caught, SeenAreWalked, Walked, DoneAreSettled, PrefixesAreRight,
                              Settled, Shown, Prefixed
  <1>11. CASE Ids!ScrapeBegin BY <1>11
      DEF Ids!ScrapeBegin, QueueRebuild
  <1>12. CASE Ids!Snapshot
    <2>1. seen' = {} /\ todo' = queues' /\ prefixes' = [c \in Bins |-> Ids!NoLabel] /\ sampler' = "rebuild"
      BY <1>12 DEF Ids!Snapshot
    <2>2. SeenAreWalked' /\ DoneAreSettled' BY <2>1 DEF SeenAreWalked, DoneAreSettled
    <2>3. PrefixesAreRight' BY <2>1 DEF PrefixesAreRight
    <2> QED BY <2>1, <2>2, <2>3 DEF QueueRebuild
  <1>13. ASSUME NEW q \in Queues, Ids!RebuildQueue(q) PROVE QueueRebuild'
    <2>1. /\ sampler = "rebuild" /\ sampler' = "watch" /\ queue' = q /\ walk' = q /\ todo' = todo \ {q}
          /\ UNCHANGED <<parent, name, notifying, hooking, queues, dirty, moved, torn, watches, cached,
                         seen, prefixes>>
      BY <1>13 DEF Ids!RebuildQueue, Ids!graphVars
    <2>2. Quiet' => Quiet BY <2>1 DEF Quiet, Coming, Caught
    <2> SUFFICES ASSUME QueueRebuild, sampler = "rebuild", Quiet PROVE QueueRebuild'
      BY <2>1, <2>2 DEF QueueRebuild
    <2>5. SeenAreWalked' BY <2>1 DEF QueueRebuild, SeenAreWalked, Walked
    <2>6. DoneAreSettled'
      <3>1. ASSUME NEW x \in queues \ todo, Settled(parent, x) PROVE Settled(parent, x)'
        BY <2>1, <3>1 DEF Settled, Shown
      <3> QED BY <2>1, <3>1 DEF QueueRebuild, DoneAreSettled
    <2>7. PrefixesAreRight'
      <3>1. ASSUME NEW b \in Bins, Prefixed(b) PROVE Prefixed(b)' BY <2>1, <3>1 DEF Prefixed
      <3> QED BY <2>1, <3>1 DEF QueueRebuild, PrefixesAreRight
    <2> QED BY <2>1, <2>5, <2>6, <2>7 DEF QueueRebuild
  <1>14. CASE Ids!WatchAncestor
    <2>1. /\ sampler = "watch" /\ sampler' = "watch" /\ walk \notin seen \union {Ids!Nothing}
          /\ seen' = seen \union {walk} /\ watches' = [watches EXCEPT ![walk] = parent[walk]]
          /\ walk' = parent[walk]
          /\ UNCHANGED <<parent, name, notifying, hooking, queues, dirty, moved, torn, cached,
                         todo, queue, prefixes>>
      BY <1>14 DEF Ids!WatchAncestor, Ids!graphVars
    <2>2. watches'[walk] = parent[walk] /\ \A x \in seen : watches'[x] = watches[x] BY <2>1 DEF Ids!TypeOK
    <2>3. Quiet' => Quiet BY <2>1, <2>2 DEF Quiet, Coming, Caught
    <2> SUFFICES ASSUME QueueRebuild, Quiet PROVE QueueRebuild'
      BY <2>1, <2>3 DEF QueueRebuild
    <2>5. SeenAreWalked' BY <2>1, <2>2 DEF QueueRebuild, SeenAreWalked, Walked
    <2>6. DoneAreSettled'
      <3>1. ASSUME NEW x \in queues \ todo, Settled(parent, x) PROVE Settled(parent, x)'
        BY <2>1, <3>1 DEF Settled, Shown
      <3> QED BY <2>1, <3>1 DEF QueueRebuild, DoneAreSettled
    <2>7. PrefixesAreRight'
      <3>1. ASSUME NEW b \in Bins, Prefixed(b) PROVE Prefixed(b)' BY <2>1, <3>1 DEF Prefixed
      <3> QED BY <2>1, <3>1 DEF QueueRebuild, PrefixesAreRight
    <2> QED BY <2>1, <2>5, <2>6, <2>7 DEF QueueRebuild
  <1>15. CASE Ids!ReadIdentity
    <2> DEFINE b == parent[queue]
    <2> DEFINE c == IF b = Ids!Nothing THEN <<>>
                    ELSE IF prefixes[b] # Ids!NoLabel THEN prefixes[b]
                    ELSE Ids!Path(b)
    <2> DEFINE l == Append(c, name[queue])
    <2>1. /\ sampler = "watch" /\ sampler' = "rebuild" /\ walk \in seen \union {Ids!Nothing}
          /\ UNCHANGED <<parent, name, notifying, hooking, queues, dirty, moved, torn, watches,
                         todo, queue, seen>>
      BY <1>15 DEF Ids!ReadIdentity, Ids!graphVars
    <2>2. cached' = [cached EXCEPT ![queue] =
                       IF Ids!Included(l) /\ queue \in queues THEN l ELSE Ids!NoLabel]
      BY <1>15 DEF Ids!ReadIdentity
    <2>3. prefixes' = IF b = Ids!Nothing THEN prefixes ELSE [prefixes EXCEPT ![b] = c]
      BY <1>15 DEF Ids!ReadIdentity
    <2>4. Quiet' => Quiet BY <2>1 DEF Quiet, Coming, Caught
    <2> SUFFICES ASSUME QueueRebuild, Quiet PROVE QueueRebuild'
      BY <2>1, <2>4 DEF QueueRebuild
    <2>5. SeenAreWalked /\ DoneAreSettled /\ PrefixesAreRight /\ (queue \in seen \/ walk = queue)
      BY <2>1 DEF QueueRebuild
    <2>6. queue \in seen /\ queue \in Ids!Objects /\ queue \in Queues /\ name[queue] \in Ids!Names
      BY <2>1, <2>5 DEF Ids!TypeOK
    <2>7. SeenAreWalked' BY <2>1, <2>5 DEF SeenAreWalked, Walked
    <2>8. \A x \in seen : parent[x] \in seen \union {Ids!Nothing} BY <2>1, <2>5 DEF SeenAreWalked, Walked
    <2>9. \A x \in seen : Chain(parent, x) \subseteq seen BY <2>8 DEF Chain
    <2>10. Forest(parent) /\ name \in [Ids!Objects -> Ids!Names] BY DEF QueueGraph, Ids!TypeOK
    <2>11. b # Ids!Nothing =>
             /\ b \in Bins /\ b \in Ids!Objects /\ b \in seen
             /\ c = Line(parent, name, b) \/ Chain(parent, b) \intersect notifying # {}
      <3>1. b # Ids!Nothing => b \in Bins /\ b \in Ids!Objects /\ b \in seen
        BY <2>6, <2>8 DEF Ids!TypeOK
      <3>2. CASE b # Ids!Nothing /\ prefixes[b] # Ids!NoLabel
        BY <2>5, <3>1, <3>2 DEF PrefixesAreRight, Prefixed
      <3>3. CASE b # Ids!Nothing /\ prefixes[b] = Ids!NoLabel
        BY <2>10, <3>1, <3>3, PathIsLine
      <3> QED BY <3>1, <3>2, <3>3
    <2>12. l = Line(parent, name, queue) \/ Chain(parent, queue) \intersect notifying # {}
      <3>1. /\ b = Ids!Nothing => Line(parent, name, queue) = Append(<<>>, name[queue])
            /\ b # Ids!Nothing =>
                 /\ Line(parent, name, queue) = Append(Line(parent, name, b), name[queue])
                 /\ Chain(parent, queue) = Chain(parent, b) \union {queue}
        BY <2>6, <2>10, LineShape
      <3>2. CASE b = Ids!Nothing BY <3>1, <3>2
      <3>3. CASE b # Ids!Nothing
        <4>1. CASE c = Line(parent, name, b) BY <3>1, <3>3, <4>1
        <4>2. CASE Chain(parent, b) \intersect notifying # {} BY <3>1, <3>3, <4>2
        <4> QED BY <2>11, <3>3, <4>1, <4>2
      <3> QED BY <3>2, <3>3
    <2> HIDE DEF b, c, l
    <2>13. b # Ids!Nothing => b \in seen BY <2>11
    <2>14. b # Ids!Nothing => Chain(parent, b) \subseteq seen BY <2>9, <2>13
    <2>15. DoneAreSettled'
      <3>1. ASSUME NEW x \in queues \ todo, x # queue PROVE Settled(parent, x)'
        <4>1. Settled(parent, x) /\ x \in Queues BY <2>5, <3>1 DEF DoneAreSettled, Ids!TypeOK
        <4>2. cached'[x] = cached[x] BY <2>2, <3>1, <4>1 DEF Ids!TypeOK
        <4> QED BY <2>1, <4>1, <4>2 DEF Settled, Shown
      <3>2. Settled(parent, queue)'
        <4>1. cached'[queue] = Shown(queue, l) BY <2>2, <2>6 DEF Ids!TypeOK, Shown
        <4>2. Chain(parent, queue) \subseteq seen BY <2>6, <2>9
        <4> QED BY <2>1, <2>6, <2>12, <4>1, <4>2 DEF Settled, Shown
      <3> QED BY <2>1, <3>1, <3>2 DEF DoneAreSettled
    <2>16. PrefixesAreRight'
      <3>1. ASSUME NEW d \in Bins, prefixes'[d] # Ids!NoLabel PROVE Prefixed(d)'
        <4>1. CASE b # Ids!Nothing /\ d = b
          <5>0. prefixes \in [Bins -> Seq(Ids!Names)] BY DEF Ids!TypeOK
          <5>1. prefixes'[d] = c BY <2>3, <4>1, <5>0
          <5>2. d = b /\ b # Ids!Nothing BY <4>1
          <5>4. Chain(parent, d) \subseteq seen BY <2>14, <5>2
          <5>3. d \in seen /\ (c = Line(parent, name, d) \/ Chain(parent, d) \intersect notifying # {})
            BY <2>11, <5>2
          <5> QED BY <2>1, <5>1, <5>3, <5>4 DEF Prefixed
        <4>2. CASE b = Ids!Nothing \/ d # b
          <5>1. prefixes'[d] = prefixes[d] BY <2>3, <4>2 DEF Ids!TypeOK
          <5>2. Prefixed(d) BY <2>5, <3>1, <5>1 DEF PrefixesAreRight
          <5> QED BY <2>1, <5>1, <5>2 DEF Prefixed
        <4> QED BY <4>1, <4>2
      <3> QED BY <3>1 DEF PrefixesAreRight
    <2> QED BY <2>1, <2>7, <2>15, <2>16 DEF QueueRebuild
  <1>16. CASE Ids!RetainWatches BY <1>16
      DEF Ids!RetainWatches, Ids!graphVars, QueueRebuild
  <1>17. ASSUME NEW q \in Queues, Ids!SampleQueue(q) PROVE QueueRebuild'
    BY <1>17
      DEF Ids!SampleQueue, Ids!graphVars, QueueRebuild
  <1>18. CASE Ids!ScrapeEnd BY <1>18
      DEF Ids!ScrapeEnd, Ids!graphVars, Ids!CurrentLabels, QueueRebuild
  <1> QED
    BY <1>1, <1>2, <1>3, <1>4, <1>5, <1>6, <1>7, <1>8, <1>9, <1>10, <1>11, <1>12, <1>13,
      <1>14, <1>15, <1>16, <1>17, <1>18
    DEF Ids!Next, Ids!Scrape, Ids!HookRuns

\* What a rebuild leaves stays right while nothing is marked.
LEMMA QueueSettledStep ==
  ASSUME Ids!GraphAssumption, QueueInv, Ids!Next
  PROVE  QueueSettled'
  <1> USE Ids!GraphAssumption, QueueInv, ObjectsApart DEF QueueInv
  <1>1. ASSUME NEW o \in Ids!Objects, NEW n \in Ids!Names, Ids!Rename(o, n) PROVE QueueSettled'
    <2>1. /\ name' = [name EXCEPT ![o] = n] /\ notifying' = notifying \union {o}
          /\ UNCHANGED <<parent, hooking, queues, dirty, unhooked, moved, torn, watches, cached,
                         sampler, todo, queue, walk, seen, prefixes>>
      BY <1>1 DEF Ids!Rename, Ids!Edit, Ids!Hooked, Ids!OutsideScrape, Ids!localVars
    <2>2. Quiet' => Quiet BY <2>1 DEF Quiet, Coming, Caught
    <2>3. ASSUME NEW f, \A x \in seen : f[x] \in Ids!Objects \union {Ids!Nothing}, NEW x \in seen,
                 Chain(f, x) \subseteq seen
          PROVE  Line(f, name', x) = Line(f, name, x) \/ o \in Chain(f, x)
      <3>1. /\ seen \in SUBSET Ids!Objects /\ name \in [Ids!Objects -> Ids!Names]
            /\ Ids!Nothing \notin Ids!Objects
        BY ObjectsApart DEF Ids!TypeOK
      <3>2. \A y \in seen : f[y] \in Ids!Objects \union {Ids!Nothing} BY <2>3
      <3>3. \A y \in Ids!Objects \ {o} : name'[y] = name[y] BY <2>1, <3>1
      <3> QED BY <2>3, <3>1, <3>2, <3>3, LineNamed
    <2> SUFFICES ASSUME \A q \in queues : Settled(watches, q)
                 PROVE  \A q \in queues : Settled(watches, q)'
      BY <2>1, <2>2 DEF QueueSettled, Ids!Rebuilding
    <2>4. \A x \in seen : watches[x] \in Ids!Objects \union {Ids!Nothing} BY DEF Ids!TypeOK, QueueGraph
    <2>5. ASSUME NEW q \in queues PROVE Settled(watches, q)'
      <3>1. q \in seen /\ Chain(watches, q) \subseteq seen BY <2>5 DEF Settled
      <3>2. Line(watches, name', q) = Line(watches, name, q) \/ o \in Chain(watches, q)
        BY <2>3, <2>4, <3>1
      <3> QED BY <2>1, <2>5, <3>2 DEF Settled, Shown
    <2> QED BY <2>5
  <1>2. ASSUME NEW o \in Ids!Objects, Ids!Notify(o) PROVE QueueSettled'
    <2>1. /\ notifying' = notifying \ {o} /\ dirty' = (dirty \/ watches[o] # Ids!Unwatched)
          /\ UNCHANGED <<parent, name, hooking, queues, unhooked, moved, torn, watches, cached,
                         sampler, todo, queue, walk, seen, prefixes>>
      BY <1>2 DEF Ids!Notify, Ids!Heard, Ids!Hooked, Ids!OutsideScrape, Ids!localVars
    <2>2. Quiet' => Quiet /\ o \notin seen BY <2>1 DEF Quiet, Coming, Caught, QueueGraph
    <2> SUFFICES ASSUME \A q \in queues : Settled(watches, q), o \notin seen
                 PROVE  \A q \in queues : Settled(watches, q)'
      BY <2>1, <2>2 DEF QueueSettled, Ids!Rebuilding
    <2>3. ASSUME NEW q \in queues PROVE Settled(watches, q)' BY <2>1, <2>3 DEF Settled, Shown
    <2> QED BY <2>3
  <1>3. ASSUME NEW o \in Ids!Objects, NEW b \in Bins, Ids!Add(o, b) PROVE QueueSettled'
    <2>1. Coming' BY <1>3 DEF Ids!Add, Coming
    <2> QED BY <2>1 DEF Quiet, QueueSettled
  <1>4. ASSUME NEW o \in Ids!Objects, Ids!BinAddPost(o) PROVE QueueSettled'
    BY <1>4 DEF Ids!BinAddPost, Quiet, QueueSettled
  <1>5. ASSUME NEW o \in Ids!Objects, Ids!BinRemovePre(o) PROVE QueueSettled'
    BY <1>5 DEF Ids!BinRemovePre, Quiet, QueueSettled
  <1>6. ASSUME NEW o \in Ids!Objects, Ids!Unparent(o) PROVE QueueSettled'
    <2>1. Coming' BY <1>6 DEF Ids!Unparent, Coming
    <2> QED BY <2>1 DEF Quiet, QueueSettled
  <1>7. ASSUME NEW o \in Ids!Objects, Ids!RemoveFails(o) PROVE QueueSettled'
    <2>1. Coming <=> Coming'
      <3>1. \A x \in Ids!Objects :
              <<"added", x>> # <<"removing", o>> /\ <<"removed", x>> # <<"removing", o>>
        OBVIOUS
      <3> QED BY <1>7, <3>1 DEF Ids!RemoveFails, Coming
    <2>2. UNCHANGED <<parent, name, notifying, queues, dirty, unhooked, moved, torn, watches, cached,
                      sampler, todo, queue, walk, seen, prefixes>>
      BY <1>7 DEF Ids!RemoveFails, Ids!Heard, Ids!Hooked, Ids!OutsideScrape, Ids!localVars
    <2> QED BY <2>1, <2>2 DEF QueueSettled, Quiet, Caught, Settled, Shown, Ids!Rebuilding
  <1>8. ASSUME NEW o \in Ids!Objects, Ids!BinRemovePost(o) PROVE QueueSettled'
    BY <1>8 DEF Ids!BinRemovePost, Ids!NowDirty, Quiet, QueueSettled
  <1>9. ASSUME NEW o \in Ids!Objects, NEW b \in Bins \union {Ids!Nothing}, Ids!DirectParent(o, b)
        PROVE QueueSettled'
    <2> SUFFICES ASSUME ~Ids!Rebuilding', Quiet' PROVE \A q \in queues' : Settled(watches, q)'
      BY DEF QueueSettled
    <2>1. /\ parent' = [parent EXCEPT ![o] = b] /\ torn' = (torn \/ o \in moved)
          /\ UNCHANGED <<name, notifying, hooking, queues, dirty, watches, cached, sampler, seen>>
      BY <1>9 DEF Ids!DirectParent, Ids!OutsideScrape, Ids!localVars
    <2>2. ~Ids!Rebuilding BY <2>1 DEF Ids!Rebuilding
    <2>3. moved' = moved BY <1>9, <2>2 DEF Ids!DirectParent
    <2>4. o \notin moved /\ ~torn /\ ~dirty /\ ~Coming BY <2>1 DEF Quiet, Coming
    <2>5. \A x \in seen \intersect moved : parent'[x] = parent[x] BY <2>1, <2>4 DEF Ids!TypeOK
    <2>6. Quiet BY <2>1, <2>3, <2>4, <2>5 DEF Quiet, Caught
    <2>7. \A q \in queues : Settled(watches, q) BY <2>2, <2>6 DEF QueueSettled
    <2>8. ASSUME NEW q \in queues PROVE Settled(watches, q)' BY <2>1, <2>7, <2>8 DEF Settled, Shown
    <2> QED BY <2>1, <2>8
  <1>10. CASE Ids!ThirtySecondsPass
    <2>1. Coming <=> Coming' BY <1>10 DEF Ids!ThirtySecondsPass, Ids!graphVars, Coming
    <2>2. UNCHANGED <<parent, name, notifying, queues, dirty, unhooked, moved, torn, watches, cached,
                      sampler, todo, queue, walk, seen, prefixes>>
      BY <1>10 DEF Ids!ThirtySecondsPass, Ids!graphVars, Ids!localVars
    <2> QED BY <2>1, <2>2 DEF QueueSettled, Quiet, Caught, Settled, Shown, Ids!Rebuilding
  <1>11. CASE Ids!ScrapeBegin
    <2> SUFFICES ASSUME ~Ids!Rebuilding', Quiet' PROVE \A q \in queues' : Settled(watches, q)'
      BY DEF QueueSettled
    <2>1. sampler = "idle" /\ sampler' = "sample" /\ ~dirty /\ ~Ids!Rebuilding
      BY <1>11 DEF Ids!ScrapeBegin, Ids!Rebuilding
    <2>2. /\ moved' = moved /\ torn' = torn
          /\ UNCHANGED <<parent, name, notifying, hooking, queues, watches, cached, seen>>
      BY <1>11, <2>1 DEF Ids!ScrapeBegin, Ids!TypeOK
    <2>3. Quiet BY <2>1, <2>2 DEF Quiet, Coming, Caught
    <2>4. \A q \in queues : Settled(watches, q) BY <2>1, <2>3 DEF QueueSettled
    <2>5. ASSUME NEW q \in queues PROVE Settled(watches, q)' BY <2>2, <2>4, <2>5 DEF Settled, Shown
    <2> QED BY <2>2, <2>5
  <1>12. CASE Ids!Snapshot BY <1>12
      DEF Ids!Snapshot, Ids!graphVars, QueueSettled, Ids!Rebuilding
  <1>13. ASSUME NEW q \in Queues, Ids!RebuildQueue(q) PROVE QueueSettled'
    BY <1>13
      DEF Ids!RebuildQueue, Ids!graphVars, QueueSettled, Ids!Rebuilding
  <1>14. CASE Ids!WatchAncestor
    BY <1>14
      DEF Ids!WatchAncestor, Ids!graphVars, QueueSettled, Ids!Rebuilding
  <1>15. CASE Ids!ReadIdentity
    BY <1>15
      DEF Ids!ReadIdentity, Ids!graphVars, QueueSettled, Ids!Rebuilding
  <1>16. CASE Ids!RetainWatches
    <2>1. /\ sampler = "rebuild" /\ todo = {}
          /\ watches' = [x \in Ids!Objects |-> IF x \in seen THEN watches[x] ELSE Ids!Unwatched]
          /\ UNCHANGED <<parent, name, notifying, hooking, queues, dirty, moved, torn, cached, seen>>
      BY <1>16 DEF Ids!RetainWatches, Ids!graphVars
    <2>2. \A x \in seen : watches'[x] = watches[x] BY <2>1 DEF Ids!TypeOK
    <2>3. Quiet' => Quiet BY <2>1, <2>2 DEF Quiet, Coming, Caught
    <2> SUFFICES ASSUME SeenAreWalked, DoneAreSettled PROVE \A q \in queues : Settled(watches, q)'
      BY <2>1, <2>3 DEF QueueSettled, QueueRebuild
    <2>4. \A x \in seen : watches'[x] = parent[x] /\ parent[x] \in Ids!Objects \union {Ids!Nothing}
      BY <2>2 DEF SeenAreWalked, Walked, Ids!TypeOK
    <2>5. ASSUME NEW q \in queues PROVE Settled(watches, q)'
      <3>1. Settled(parent, q) BY <2>1, <2>5 DEF DoneAreSettled
      <3>2. q \in seen /\ Chain(parent, q) \subseteq seen BY <3>1 DEF Settled
      <3>3. seen \in SUBSET Ids!Objects BY DEF Ids!TypeOK
      <3>4. Line(watches', name, q) = Line(parent, name, q) /\ Chain(watches', q) = Chain(parent, q)
        BY <2>4, <3>2, <3>3, LineSame
      <3> QED BY <2>1, <3>1, <3>4 DEF Settled, Shown
    <2> QED BY <2>5
  <1>17. ASSUME NEW q \in Queues, Ids!SampleQueue(q) PROVE QueueSettled'
    <2>1. /\ sampler = "sample" /\ ~Ids!Rebuilding
          /\ UNCHANGED <<parent, name, notifying, hooking, queues, dirty, moved, torn, watches,
                         cached, seen>>
      BY <1>17 DEF Ids!SampleQueue, Ids!graphVars, Ids!Rebuilding
    <2>2. Quiet' => Quiet BY <2>1 DEF Quiet, Coming, Caught
    <2>3. ASSUME NEW x \in queues, Settled(watches, x) PROVE Settled(watches, x)'
      BY <2>1, <2>3 DEF Settled, Shown
    <2> QED BY <2>1, <2>2, <2>3 DEF QueueSettled
  <1>18. CASE Ids!ScrapeEnd
    <2>1. /\ sampler = "sample" /\ ~Ids!Rebuilding
          /\ UNCHANGED <<parent, name, notifying, hooking, queues, dirty, moved, torn, watches,
                         cached, seen>>
      BY <1>18 DEF Ids!ScrapeEnd, Ids!graphVars, Ids!Rebuilding
    <2>2. Quiet' => Quiet BY <2>1 DEF Quiet, Coming, Caught
    <2>3. ASSUME NEW x \in queues, Settled(watches, x) PROVE Settled(watches, x)'
      BY <2>1, <2>3 DEF Settled, Shown
    <2> QED BY <2>1, <2>2, <2>3 DEF QueueSettled
  <1> QED
    BY <1>1, <1>2, <1>3, <1>4, <1>5, <1>6, <1>7, <1>8, <1>9, <1>10, <1>11, <1>12, <1>13,
      <1>14, <1>15, <1>16, <1>17, <1>18
    DEF Ids!Next, Ids!Scrape, Ids!HookRuns

\* A scrape that nothing overlaps samples what is cached.
LEMMA QueueCalmStep ==
  ASSUME Ids!GraphAssumption, QueueInv, Ids!Next
  PROVE  QueueCalm'
  <1> USE Ids!GraphAssumption, QueueInv, ObjectsApart DEF QueueInv
  <1>1. ASSUME NEW o \in Ids!Objects, NEW n \in Ids!Names, Ids!Rename(o, n) PROVE QueueCalm'
    BY <1>1 DEF Ids!Rename, Ids!Edit, QueueCalm
  <1>2. ASSUME NEW o \in Ids!Objects, Ids!Notify(o) PROVE QueueCalm'
    BY <1>2 DEF Ids!Notify, Ids!Heard, QueueCalm
  <1>3. ASSUME NEW o \in Ids!Objects, NEW b \in Bins, Ids!Add(o, b) PROVE QueueCalm'
    BY <1>3 DEF Ids!Add, Ids!Edit, QueueCalm
  <1>4. ASSUME NEW o \in Ids!Objects, Ids!BinAddPost(o) PROVE QueueCalm'
    BY <1>4 DEF Ids!BinAddPost, Ids!Heard, QueueCalm
  <1>5. ASSUME NEW o \in Ids!Objects, Ids!BinRemovePre(o) PROVE QueueCalm'
    BY <1>5 DEF Ids!BinRemovePre, Ids!Edit, QueueCalm
  <1>6. ASSUME NEW o \in Ids!Objects, Ids!Unparent(o) PROVE QueueCalm'
    BY <1>6 DEF Ids!Unparent, Ids!Heard, QueueCalm
  <1>7. ASSUME NEW o \in Ids!Objects, Ids!RemoveFails(o) PROVE QueueCalm'
    BY <1>7 DEF Ids!RemoveFails, Ids!Heard, QueueCalm
  <1>8. ASSUME NEW o \in Ids!Objects, Ids!BinRemovePost(o) PROVE QueueCalm'
    BY <1>8 DEF Ids!BinRemovePost, Ids!Heard, QueueCalm
  <1>9. ASSUME NEW o \in Ids!Objects, NEW b \in Bins \union {Ids!Nothing}, Ids!DirectParent(o, b)
        PROVE QueueCalm'
    BY <1>9 DEF Ids!DirectParent, QueueCalm
  <1>10. CASE Ids!ThirtySecondsPass
    BY <1>10
      DEF Ids!ThirtySecondsPass, Ids!graphVars, Ids!localVars, QueueCalm
  <1>11. CASE Ids!ScrapeBegin
    <2> SUFFICES ASSUME calm' PROVE QueueCalm' BY DEF QueueCalm
    <2>1. /\ ~dirty' /\ ~Ids!Pending /\ ~unhooked' /\ ~torn' /\ sampler' \in {"snapshot", "sample"}
          /\ notifying' = notifying /\ hooking' = hooking /\ cached' = cached /\ sampled' = {}
          /\ sampler' = "sample" => todo' = {q \in Queues : cached[q] # Ids!NoLabel}
      BY <1>11 DEF Ids!ScrapeBegin
    <2>2. Labels(cached, {q \in Queues : cached[q] # Ids!NoLabel}) = Labels(cached, Queues) BY DEF Labels
    <2> QED BY <2>1, <2>2 DEF QueueCalm, Ids!Pending
  <1>12. CASE Ids!Snapshot BY <1>12
      DEF Ids!Snapshot, Ids!graphVars, QueueCalm
  <1>13. ASSUME NEW q \in Queues, Ids!RebuildQueue(q) PROVE QueueCalm'
    BY <1>13
      DEF Ids!RebuildQueue, Ids!graphVars, QueueCalm
  <1>14. CASE Ids!WatchAncestor BY <1>14
      DEF Ids!WatchAncestor, Ids!graphVars, QueueCalm
  <1>15. CASE Ids!ReadIdentity BY <1>15
      DEF Ids!ReadIdentity, Ids!graphVars, QueueCalm
  <1>16. CASE Ids!RetainWatches
    <2> SUFFICES ASSUME calm, calm' PROVE QueueCalm' BY <1>16 DEF QueueCalm, Ids!RetainWatches
    <2>1. /\ sampler' = "sample" /\ sampled = {} /\ todo' = {q \in Queues : cached[q] # Ids!NoLabel}
          /\ UNCHANGED <<dirty, notifying, hooking, unhooked, torn, cached, sampled>>
      BY <1>16 DEF Ids!RetainWatches, Ids!graphVars, QueueCached, Ids!Rebuilding
    <2>2. Labels(cached, {q \in Queues : cached[q] # Ids!NoLabel}) = Labels(cached, Queues) BY DEF Labels
    <2>3. ~dirty /\ notifying = {} /\ hooking = {} /\ ~unhooked /\ ~torn BY DEF QueueCalm
    <2> QED BY <2>1, <2>2, <2>3 DEF QueueCalm
  <1>17. ASSUME NEW q \in Queues, Ids!SampleQueue(q) PROVE QueueCalm'
    <2> SUFFICES ASSUME calm, calm' PROVE QueueCalm' BY <1>17 DEF QueueCalm, Ids!SampleQueue
    <2>1. /\ sampler = "sample" /\ sampler' = "sample" /\ q \in todo /\ todo' = todo \ {q}
          /\ sampled' = IF cached[q] # Ids!NoLabel THEN sampled \union {cached[q]} ELSE sampled
          /\ UNCHANGED <<dirty, notifying, hooking, unhooked, torn, cached>>
      BY <1>17 DEF Ids!SampleQueue, Ids!graphVars
    <2>2. sampled' \union Labels(cached, todo \ {q}) = sampled \union Labels(cached, todo)
      BY <2>1 DEF Labels
    <2>3. /\ ~dirty /\ notifying = {} /\ hooking = {} /\ ~unhooked /\ ~torn
          /\ sampled \union Labels(cached, todo) = Labels(cached, Queues)
      BY <2>1 DEF QueueCalm
    <2> QED BY <2>1, <2>2, <2>3 DEF QueueCalm
  <1>18. CASE Ids!ScrapeEnd
    <2> SUFFICES ASSUME calm, calm' PROVE QueueCalm'
      BY <1>18 DEF QueueCalm, Ids!ScrapeEnd, Ids!CurrentLabels
    <2>1. /\ sampler = "sample" /\ sampler' = "idle" /\ todo = {} /\ labels' = sampled
          /\ UNCHANGED <<dirty, notifying, hooking, unhooked, torn, cached>>
      BY <1>18 DEF Ids!ScrapeEnd, Ids!graphVars, Ids!CurrentLabels
    <2>2. Labels(cached, todo) = {} BY <2>1 DEF Labels
    <2>3. /\ ~dirty /\ notifying = {} /\ hooking = {} /\ ~unhooked /\ ~torn
          /\ sampled \union Labels(cached, todo) = Labels(cached, Queues)
      BY <2>1 DEF QueueCalm
    <2> QED BY <2>1, <2>2, <2>3 DEF QueueCalm
  <1> QED
    BY <1>1, <1>2, <1>3, <1>4, <1>5, <1>6, <1>7, <1>8, <1>9, <1>10, <1>11, <1>12, <1>13,
      <1>14, <1>15, <1>16, <1>17, <1>18
    DEF Ids!Next, Ids!Scrape, Ids!HookRuns

\* At first nothing is in the graph's bins, the map, or the cache.
LEMMA QueueInvInit ==
  ASSUME Ids!GraphAssumption, Ids!Init
  PROVE  QueueInv
  <1> USE ObjectsApart DEF Ids!Init
  <1>1. Ids!TypeOK
    <2>1. 0 \in 0..MaxEdits /\ 0 \in 0..MaxDirect BY DEF Ids!GraphAssumption
    <2>2. Ids!NoLabel \in Seq(Ids!Names) BY DEF Ids!NoLabel
    <2>3. name \in [Ids!Objects -> Ids!Names] BY DEF Ids!Names
    <2> QED BY <2>1, <2>2, <2>3 DEF Ids!TypeOK
  <1>2. QueueGraph BY DEF QueueGraph, Forest
  <1>3. QueueHooks BY DEF QueueHooks
  <1>4. QueueTracked BY DEF QueueTracked
  <1>5. QueueCached BY DEF QueueCached, Ids!Rebuilding
  <1>6. QueueMatch BY DEF QueueMatch, Ids!ParentsMatch
  <1>7. QueueRebuild BY DEF QueueRebuild
  <1>8. QueueSettled BY DEF QueueSettled
  <1>9. QueueCalm BY DEF QueueCalm
  <1> QED BY <1>1, <1>2, <1>3, <1>4, <1>5, <1>6, <1>7, <1>8, <1>9 DEF QueueInv

\* The invariant keeps, also while the other parts move.
LEMMA QueueInvStep ==
  ASSUME Ids!GraphAssumption, QueueInv, Ids!Next \/ UNCHANGED queueVars
  PROVE  QueueInv'
  <1>1. CASE Ids!Next
    BY <1>1, QueueTypeStep, QueueGraphStep, QueueHooksStep, QueueTrackedStep, QueueCachedStep,
       QueueMatchStep, QueueRebuildStep, QueueSettledStep, QueueCalmStep DEF QueueInv
  <1>2. CASE UNCHANGED queueVars
    <2> USE <1>2 DEF queueVars, QueueInv
    <2>1. Ids!TypeOK' BY DEF Ids!TypeOK
    <2>2. QueueGraph' BY DEF QueueGraph, Forest
    <2>3. QueueHooks' BY DEF QueueHooks
    <2>4. QueueTracked' BY DEF QueueTracked
    <2>5. QueueCached' BY DEF QueueCached, Ids!Rebuilding
    <2>6. QueueMatch' BY DEF QueueMatch, Ids!ParentsMatch, Coming, Ids!Rebuilding
    <2>7. QueueRebuild'
      BY DEF QueueRebuild, Quiet, Coming, Caught, SeenAreWalked, Walked, DoneAreSettled,
             PrefixesAreRight, Settled, Shown, Prefixed
    <2>8. QueueSettled' BY DEF QueueSettled, Quiet, Coming, Caught, Settled, Shown, Ids!Rebuilding
    <2>9. QueueCalm' BY DEF QueueCalm
    <2> QED BY <2>1, <2>2, <2>3, <2>4, <2>5, <2>6, <2>7, <2>8, <2>9
  <1> QED BY <1>1, <1>2

\* What nothing marks is right: each queue has the label of the path it has.
LEMMA QueueInvMeans ==
  ASSUME Ids!GraphAssumption, QueueInv
  PROVE  Ids!QueuesConsistent
  <1> USE ObjectsApart DEF QueueInv
  <1>1. ASSUME sampler = "idle", ~dirty, notifying = {}, hooking = {}, ~unhooked, ~torn
        PROVE  \A q \in Queues : cached[q] = Ids!Truth(q)
    <2>1. ~Coming BY <1>1 DEF Coming
    <2>2. \A x \in seen : watches[x] = parent[x] BY <1>1, <2>1 DEF QueueMatch
    <2>3. Quiet /\ ~Ids!Rebuilding BY <1>1, <2>1, <2>2 DEF Quiet, Caught, Ids!Rebuilding
    <2>4. ASSUME NEW q \in queues PROVE cached[q] = Ids!Truth(q)
      <3>1. Settled(watches, q) BY <2>3, <2>4 DEF QueueSettled
      <3>2. /\ q \in seen /\ Chain(watches, q) \subseteq seen
            /\ cached[q] = Shown(q, Line(watches, name, q))
        BY <1>1, <3>1 DEF Settled
      <3>3. \A x \in seen : parent[x] = watches[x] /\ watches[x] \in Ids!Objects \union {Ids!Nothing}
        BY <2>2 DEF Ids!TypeOK
      <3>4. seen \in SUBSET Ids!Objects BY DEF Ids!TypeOK
      <3>5. Line(parent, name, q) = Line(watches, name, q) BY <3>2, <3>3, <3>4, LineSame
      <3>6. Forest(parent) /\ name \in [Ids!Objects -> Ids!Names] /\ q \in Ids!Objects
        BY <2>4 DEF QueueGraph, Ids!TypeOK
      <3>7. Ids!Path(q) = Line(parent, name, q) BY <3>6, PathIsLine
      <3> QED BY <3>2, <3>5, <3>7 DEF Shown, Ids!Truth
    <2>5. ASSUME NEW q \in Queues \ queues PROVE cached[q] = Ids!Truth(q)
      BY <2>5 DEF QueueCached, Ids!Truth
    <2> QED BY <2>4, <2>5
  <1>2. Ids!StaleIsMarked BY <1>1 DEF Ids!StaleIsMarked, Ids!Pending
  <1>3. Ids!CalmScrapeIsRight
    <2> SUFFICES ASSUME sampler = "idle", calm PROVE labels = {Ids!Truth(q) : q \in Queues} \ {Ids!NoLabel}
      BY DEF Ids!CalmScrapeIsRight
    <2>1. \A q \in Queues : cached[q] = Ids!Truth(q) BY <1>1 DEF QueueCalm
    <2>2. labels = {cached[q] : q \in Queues} \ {Ids!NoLabel} BY DEF QueueCalm, Labels
    <2> QED BY <2>1, <2>2
  <1>4. Ids!ParentedAreTracked
    <2> SUFFICES ASSUME directs = 0, hooking = {}
                 PROVE  {q \in Queues : parent[q] # Ids!Nothing} = queues \union forgotten
      BY DEF Ids!ParentedAreTracked
    <2>1. \A q \in Queues : parent[q] # Ids!Nothing <=> q \in queues \union forgotten BY DEF QueueTracked
    <2>2. queues \union forgotten \subseteq Queues BY DEF Ids!TypeOK
    <2> QED BY <2>1, <2>2
  <1> QED BY <1>2, <1>3, <1>4 DEF Ids!QueuesConsistent

\* Of every behaviour of the tracers, and for any number of queues, bins and edits: a
\* cached label that is not its queue's path is marked (QueueCache of both tracers), a
\* scrape that nothing overlapped shows the paths, and parented queues are in the map.
THEOREM QueuesStayConsistent ==
  Spec => []QueuesConsistent
  <1>0. Ids!GraphAssumption BY TracersAssumption DEF TracersAssumption
  <1>1. Init => QueueInv BY <1>0, QueueInvInit DEF Init
  <1>2. QueueInv /\ [Next]_tracersVars => QueueInv'
    <2>1. ASSUME [Next]_tracersVars PROVE Ids!Next \/ UNCHANGED queueVars
      <3>1. CASE OnlyOf("identities") /\ Ids!Next BY <3>1
      <3>2. CASE OnlyOf("server") \/ OnlyOf("pipelines") \/ OnlyOf("limits") \/ OnlyOf("intervals")
                 \/ OnlyOf("worker") \/ OnlyOf("series")
        BY <3>2 DEF OnlyOf
      <3>3. CASE UNCHANGED tracersVars BY <3>3 DEF tracersVars
      <3> QED BY <2>1, <3>1, <3>2, <3>3 DEF Next
    <2> QED BY <1>0, <2>1, QueueInvStep
  <1>3. QueueInv => QueuesConsistent BY <1>0, QueueInvMeans DEF QueuesConsistent
  <1> QED BY <1>1, <1>2, <1>3, PTL DEF Spec
=============================================================================
