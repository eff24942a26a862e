----------------------------- MODULE OcrsProofs -----------------------------
(***************************************************************************)
(* Proofs about OcrsAnalysis, for any number of runs and inputs, whatever  *)
(* the intervals, with and without handlers that stop the element and an   *)
(* engine that panics: one worker is alive at a time, messages keep the    *)
(* order of the requests, what stop() found undecided is never posted,     *)
(* every frame and every worker that fails is accounted for, and requests  *)
(* of a generation keep their distance.                                    *)
(*                                                                         *)
(* The first rests on who holds a living worker: the slot, or the thread   *)
(* that joins it. The second follows it: only the last run's worker posts, *)
(* and its requests are numbered as they go through channel and engine.    *)
(* The third rests on the second and on admission, which is final. The     *)
(* counters rest on the first and on what lies between a job and its count.*)
(***************************************************************************)
EXTENDS OcrsAnalysis, FiniteSetTheorems, SequenceTheorems, TLAPS

WorkerPlaces ==
  {"none", "recv", "infer", "emit", "post", "posted", "fatal", "blocked", "exited"}
Job == [id : Nat, outcome : Outcomes \union {"none"}]

Lives ==
  /\ run \in 0..MaxRuns /\ slot \in 0..MaxRuns /\ leaving \in 0..MaxRuns
  /\ lpc \in {"idle", "reap", "join"} /\ spc \in {"idle", "count"}
  /\ lpc = "reap" => run < MaxRuns
Flags == stop \subseteq Runs /\ open \subseteq Runs /\ closed \subseteq Runs /\ reported \in BOOLEAN
Works ==
  /\ queue \in [Runs -> Seq(Job)] /\ \A r \in Runs : Len(queue[r]) <= 1
  /\ wpc \in [Runs -> WorkerPlaces] /\ job \in [Runs -> Job]
Samples ==
  /\ interval \in Intervals
  /\ sampler \in [seen : Pts, selected : BOOLEAN, at : Pts]
  /\ generation \in Nat \ {0} /\ nextId \in Nat \ {0}
Tallies ==
  /\ count \in [submitted : Nat, completed : Nat, failed : Nat, dropped : Nat]
  /\ doubled \in Nat /\ rejected \in Nat /\ refused \in Nat
Requests == Runs \X Nat
Messages == posted \in Seq(Requests) /\ barred \subseteq Requests
Typed == Lives /\ Flags /\ Works /\ Samples /\ Tallies /\ Messages

\* A living worker is the last run's, and in the slot or being joined.
Alive(r) == wpc[r] \notin {"none", "exited"}
Alone ==
  /\ slot \in {0, run} /\ leaving \in {0, run}
  /\ IF lpc = "idle" THEN leaving = 0 ELSE slot = 0
  /\ \A r \in Runs : Alive(r) => r = run /\ (slot = r \/ leaving = r)
  /\ \A r \in Runs : r > run => queue[r] = <<>>

\* Posted, in the worker's hands, in the channel: later and later requests.
Ahead ==
  /\ \A k \in 1..Len(posted) : posted[k][1] <= run
  /\ \A k \in 1..Len(posted) : posted[k][1] = run =>
       /\ posted[k][2] < nextId
       /\ queue[run] # <<>> => posted[k][2] < Head(queue[run]).id
       /\ wpc[run] \in {"infer", "emit", "post"} => posted[k][2] < job[run].id
  /\ run # 0 /\ queue[run] # <<>> => Head(queue[run]).id < nextId
  /\ run # 0 /\ wpc[run] \in {"infer", "emit", "post"} =>
       /\ job[run].id < nextId
       /\ queue[run] # <<>> => job[run].id < Head(queue[run]).id

\* What is barred was not posted and will not be: admission of its run is closed.
Silent ==
  /\ ClosedMeansSilent
  /\ \A r \in Runs : wpc[r] = "post" => <<r, job[r].id>> \notin barred
  /\ \A r \in Runs, n \in Nat : <<r, n>> \in barred => r <= run /\ r \notin open

IInv == Typed /\ Alone /\ Ahead /\ PostedInOrder /\ Silent
-----------------------------------------------------------------------------
\* A channel holds one job at most.
LEMMA OneJob ==
  ASSUME NEW q \in Seq(Job), Len(q) <= 1, q # <<>>
  PROVE  Head(q) \in Job /\ Tail(q) = <<>>
  <1>0. Len(q) \in Nat \ {0} BY EmptySeq
  <1>a. \A n \in Nat \ {0} : n <= 1 => n = 1 OBVIOUS
  <1>1. Len(q) = 1 BY <1>0, <1>a
  <1>2. Head(q) = q[1] /\ q[1] \in Job BY <1>1
  <1>3. Tail(q) \in Seq(Job) /\ Len(Tail(q)) = 0 BY <1>1
  <1> QED BY <1>2, <1>3

\* The head of a channel that was empty is what was put in.
LEMMA FirstJob ==
  ASSUME NEW e \in Job
  PROVE  Append(<<>>, e) \in Seq(Job) /\ Len(Append(<<>>, e)) = 1
         /\ Head(Append(<<>>, e)) = e /\ Append(<<>>, e) # <<>>
  OBVIOUS

\* What Range is of a sequence that grows.
LEMMA RangeGrows ==
  ASSUME NEW S, NEW s \in Seq(S), NEW e \in S
  PROVE  /\ Append(s, e) \in Seq(S) /\ Len(Append(s, e)) = Len(s) + 1
         /\ Append(s, e)[Len(s) + 1] = e /\ \A k \in 1..Len(s) : Append(s, e)[k] = s[k]
         /\ Range(Append(s, e)) = Range(s) \union {e}
  <1>1. Len(Append(s, e)) = Len(s) + 1 /\ Append(s, e)[Len(s) + 1] = e OBVIOUS
  <1>2. \A i \in 1..Len(s) : Append(s, e)[i] = s[i] OBVIOUS
  <1>3. Append(s, e) \in Seq(S) OBVIOUS
  <1>4. Range(s) = {s[i] : i \in 1..Len(s)} BY DEF Range
  <1>5. Range(Append(s, e)) = {Append(s, e)[i] : i \in 1..(Len(s) + 1)} BY <1>1, <1>3 DEF Range
  <1>6. 1..(Len(s) + 1) = 1..Len(s) \union {Len(s) + 1} OBVIOUS
  <1> QED BY <1>1, <1>2, <1>3, <1>4, <1>5, <1>6

\* A request has a run and a number.
LEMMA RequestIs ==
  /\ \A p \in Requests : p[1] \in Runs /\ p[2] \in Nat /\ p = <<p[1], p[2]>>
  /\ \A r \in Runs, n \in Nat : <<r, n>> \in Requests
  BY DEF Requests

\* So has each that was posted.
LEMMA PostedTyped ==
  ASSUME OcrsAssumption, Messages
  PROVE  /\ \A k \in 1..Len(posted) :
              posted[k] \in Requests /\ posted[k][1] \in Nat /\ posted[k][2] \in Nat
         /\ posted \in Seq(Requests)
  <1>1. Runs \subseteq Nat BY DEF Runs
  <1>2. \A k \in 1..Len(posted) : posted[k] \in Requests BY DEF Messages
  <1>3. posted \in Seq(Requests) BY DEF Messages
  <1> QED BY <1>1, <1>2, <1>3, RequestIs

\* And each that waits or is worked on.
LEMMA JobsTyped ==
  ASSUME Works
  PROVE  \A r \in Runs : job[r].id \in Nat /\ (queue[r] # <<>> => Head(queue[r]).id \in Nat)
  <1>1. ASSUME NEW r \in Runs PROVE job[r].id \in Nat BY DEF Works, Job
  <1>2. ASSUME NEW r \in Runs, queue[r] # <<>> PROVE Head(queue[r]).id \in Nat
    <2>1. queue[r] \in Seq(Job) /\ Len(queue[r]) <= 1 BY DEF Works
    <2>2. Head(queue[r]) \in Job BY <1>2, <2>1, OneJob
    <2> QED BY <2>2 DEF Job
  <1> QED BY <1>1, <1>2

\* What Append makes of the posted messages.
LEMMA PostedGrows ==
  ASSUME OcrsAssumption, Messages, NEW p \in Requests, posted' = Append(posted, p)
  PROVE  /\ Len(posted') = Len(posted) + 1 /\ posted'[Len(posted) + 1] = p
         /\ \A k \in 1..Len(posted) : posted'[k] = posted[k]
         /\ Range(posted') = Range(posted) \union {p}
  <1>1. posted \in Seq(Requests) BY DEF Messages
  <1> QED BY <1>1, RangeGrows

\* What admission closes over: the job in the channel and the one in the engine.
LEMMA UndecidedIs ==
  ASSUME Works, NEW r \in Runs
  PROVE  /\ Undecided(r) \subseteq Requests
         /\ \A s \in Runs, n \in Nat : <<s, n>> \in Undecided(r) =>
              /\ s = r
              /\ \/ queue[r] # <<>> /\ n = Head(queue[r]).id
                 \/ wpc[r] \in {"infer", "emit"} /\ n = job[r].id
  <1> DEFINE waiting == {<<r, queue[r][k].id>> : k \in 1..Len(queue[r])}
             working == IF wpc[r] \in {"infer", "emit"} THEN {<<r, job[r].id>>} ELSE {}
  <1>1. Undecided(r) = waiting \union working BY DEF Undecided
  <1>2. job[r] \in Job /\ queue[r] \in Seq(Job) /\ Len(queue[r]) <= 1 BY DEF Works
  <1>3. job[r].id \in Nat BY <1>2 DEF Job
  <1>4. ASSUME NEW u \in waiting PROVE queue[r] # <<>> /\ u = <<r, Head(queue[r]).id>> /\ u \in Requests
    <2>1. PICK k \in 1..Len(queue[r]) : u = <<r, queue[r][k].id>> OBVIOUS
    <2>2. k = 1 /\ queue[r] # <<>> BY <1>2, <2>1
    <2>3. queue[r][1] \in Job /\ Head(queue[r]) = queue[r][1] BY <1>2, <2>1, <2>2
    <2>4. queue[r][1].id \in Nat BY <2>3 DEF Job
    <2> QED BY <2>1, <2>2, <2>3, <2>4 DEF Requests
  <1>5. ASSUME NEW u \in working
        PROVE  wpc[r] \in {"infer", "emit"} /\ u = <<r, job[r].id>> /\ u \in Requests
    BY <1>3 DEF Requests
  <1> HIDE DEF waiting, working
  <1>6. ASSUME NEW s \in Runs, NEW n \in Nat, <<s, n>> \in Undecided(r)
        PROVE  /\ s = r
               /\ \/ queue[r] # <<>> /\ n = Head(queue[r]).id
                  \/ wpc[r] \in {"infer", "emit"} /\ n = job[r].id
    <2>1. CASE <<s, n>> \in waiting BY <1>4, <2>1
    <2>2. CASE <<s, n>> \in working BY <1>5, <2>2
    <2> QED BY <1>1, <1>6, <2>1, <2>2
  <1> QED BY <1>1, <1>4, <1>5, <1>6

\* Runs are numbered up to the bound.
LEMMA LivesStep ==
  ASSUME OcrsAssumption, IInv, [Next]_vars
  PROVE  Lives'
  <1> USE DEF OcrsAssumption, IInv, Typed, Lives, Alone, lifeVars, flagVars, workerVars,
    sampleVars, tallyVars, messageVars
  <1>1. CASE Start BY <1>1 DEF Start, Playing
  <1>2. CASE StartRun BY <1>2 DEF StartRun, Joined, ResetRun
  <1>3. CASE StartFails BY <1>3 DEF StartFails, Joined
  <1>4. CASE Stop BY <1>4 DEF Stop, Close
  <1>5. CASE StopJoined BY <1>5 DEF StopJoined, Joined
  <1>6. CASE CountSubmitted BY <1>6 DEF CountSubmitted
  <1>7. CASE ResetGeneration BY <1>7 DEF ResetGeneration, Playing
  <1>8. ASSUME NEW pts \in Pts, FrameSkipped(pts) PROVE Lives'
    BY <1>8 DEF FrameSkipped, Sample, Playing
  <1>9. ASSUME NEW pts \in Pts, FrameTooLarge(pts) PROVE Lives'
    BY <1>9 DEF FrameTooLarge, Sample, Playing
  <1>10. ASSUME NEW pts \in Pts, FrameOffered(pts) PROVE Lives'
    BY <1>10 DEF FrameOffered, Sample, Playing, HasRoom, ReportUnavailable
  <1>11. ASSUME NEW r \in Runs, WorkerReceive(r) PROVE Lives'
    BY <1>11 DEF WorkerReceive, Move
  <1>12. ASSUME NEW r \in Runs, WorkerDisconnected(r) PROVE Lives'
    BY <1>12 DEF WorkerDisconnected, Move
  <1>13. ASSUME NEW r \in Runs, WorkerInfer(r) PROVE Lives'
    BY <1>13 DEF WorkerInfer, Move
  <1>14. ASSUME NEW r \in Runs, WorkerAdmit(r) PROVE Lives'
    BY <1>14 DEF WorkerAdmit, Move
  <1>15. ASSUME NEW r \in Runs, WorkerOversize(r) PROVE Lives'
    BY <1>15 DEF WorkerOversize, Move
  <1>16. ASSUME NEW r \in Runs, WorkerPost(r) PROVE Lives'
    BY <1>16 DEF WorkerPost, Move
  <1>17. ASSUME NEW r \in Runs, WorkerNext(r) PROVE Lives'
    BY <1>17 DEF WorkerNext, AfterPost, Move
  <1>18. ASSUME NEW r \in Runs, WorkerPanic(r) PROVE Lives'
    BY <1>18 DEF WorkerPanic, Move
  <1>19. ASSUME NEW r \in Runs, WorkerHalt(r) PROVE Lives'
    BY <1>19 DEF WorkerHalt, Move
  <1>20. ASSUME NEW r \in Runs, StopFromHandler(r) PROVE Lives'
    BY <1>20 DEF StopFromHandler, Close
  <1>21. ASSUME NEW r \in Runs, HandlerBlocks(r) PROVE Lives'
    BY <1>21 DEF HandlerBlocks, InHandler, Move
  <1>22. CASE UNCHANGED vars BY <1>22 DEF vars
  <1> QED
    BY <1>1, <1>2, <1>3, <1>4, <1>5, <1>6, <1>7, <1>8, <1>9, <1>10, <1>11, <1>12, <1>13,
    <1>14, <1>15, <1>16, <1>17, <1>18, <1>19, <1>20, <1>21, <1>22 DEF Next, StartEnds,
    Stream, Worker

\* Flags are of runs.
LEMMA FlagsStep ==
  ASSUME OcrsAssumption, IInv, [Next]_vars
  PROVE  Flags'
  <1> USE DEF OcrsAssumption, IInv, Typed, Lives, Flags, Runs, lifeVars, flagVars, workerVars,
    sampleVars, tallyVars, messageVars
  <1>1. CASE Start BY <1>1 DEF Start, Playing
  <1>2. CASE StartRun
    <2>1. run + 1 \in 1..MaxRuns BY <1>2 DEF StartRun
    <2>2. open' \subseteq 1..MaxRuns BY <1>2, <2>1 DEF StartRun
    <2> QED BY <1>2, <2>2 DEF StartRun
  <1>3. CASE StartFails BY <1>3 DEF StartFails, Joined
  <1>4. CASE Stop BY <1>4 DEF Stop, Close
  <1>5. CASE StopJoined BY <1>5 DEF StopJoined, Joined
  <1>6. CASE CountSubmitted BY <1>6 DEF CountSubmitted
  <1>7. CASE ResetGeneration BY <1>7 DEF ResetGeneration, Playing
  <1>8. ASSUME NEW pts \in Pts, FrameSkipped(pts) PROVE Flags'
    BY <1>8 DEF FrameSkipped, Sample, Playing
  <1>9. ASSUME NEW pts \in Pts, FrameTooLarge(pts) PROVE Flags'
    BY <1>9 DEF FrameTooLarge, Sample, Playing
  <1>10. ASSUME NEW pts \in Pts, FrameOffered(pts) PROVE Flags'
    BY <1>10 DEF FrameOffered, Sample, Playing, HasRoom, ReportUnavailable
  <1>11. ASSUME NEW r \in Runs, WorkerReceive(r) PROVE Flags'
    BY <1>11 DEF WorkerReceive, Move
  <1>12. ASSUME NEW r \in Runs, WorkerDisconnected(r) PROVE Flags'
    BY <1>12 DEF WorkerDisconnected, Move
  <1>13. ASSUME NEW r \in Runs, WorkerInfer(r) PROVE Flags'
    BY <1>13 DEF WorkerInfer, Move
  <1>14. ASSUME NEW r \in Runs, WorkerAdmit(r) PROVE Flags'
    BY <1>14 DEF WorkerAdmit, Move
  <1>15. ASSUME NEW r \in Runs, WorkerOversize(r) PROVE Flags'
    BY <1>15 DEF WorkerOversize, Move
  <1>16. ASSUME NEW r \in Runs, WorkerPost(r) PROVE Flags'
    BY <1>16 DEF WorkerPost, Move
  <1>17. ASSUME NEW r \in Runs, WorkerNext(r) PROVE Flags'
    BY <1>17 DEF WorkerNext, AfterPost, Move
  <1>18. ASSUME NEW r \in Runs, WorkerPanic(r) PROVE Flags'
    BY <1>18 DEF WorkerPanic, Move
  <1>19. ASSUME NEW r \in Runs, WorkerHalt(r) PROVE Flags'
    BY <1>19 DEF WorkerHalt, Move
  <1>20. ASSUME NEW r \in Runs, StopFromHandler(r) PROVE Flags'
    BY <1>20 DEF StopFromHandler, Close
  <1>21. ASSUME NEW r \in Runs, HandlerBlocks(r) PROVE Flags'
    BY <1>21 DEF HandlerBlocks, InHandler, Move
  <1>22. CASE UNCHANGED vars BY <1>22 DEF vars
  <1> QED
    BY <1>1, <1>2, <1>3, <1>4, <1>5, <1>6, <1>7, <1>8, <1>9, <1>10, <1>11, <1>12, <1>13,
    <1>14, <1>15, <1>16, <1>17, <1>18, <1>19, <1>20, <1>21, <1>22 DEF Next, StartEnds,
    Stream, Worker

\* A channel never holds more than a job.
LEMMA WorksStep ==
  ASSUME OcrsAssumption, IInv, [Next]_vars
  PROVE  Works'
  <1> USE DEF OcrsAssumption, IInv, Typed, Lives, Works, Samples, Alone, Runs, WorkerPlaces,
    lifeVars, flagVars, workerVars, sampleVars, tallyVars, messageVars
  <1>1. CASE Start BY <1>1 DEF Start, Playing
  <1>2. CASE StartRun BY <1>2 DEF StartRun, Joined, ResetRun
  <1>3. CASE StartFails BY <1>3 DEF StartFails, Joined
  <1>4. CASE Stop BY <1>4 DEF Stop, Close
  <1>5. CASE StopJoined BY <1>5 DEF StopJoined, Joined
  <1>6. CASE CountSubmitted BY <1>6 DEF CountSubmitted
  <1>7. CASE ResetGeneration BY <1>7 DEF ResetGeneration, Playing
  <1>8. ASSUME NEW pts \in Pts, FrameSkipped(pts) PROVE Works'
    BY <1>8 DEF FrameSkipped, Sample, Playing
  <1>9. ASSUME NEW pts \in Pts, FrameTooLarge(pts) PROVE Works'
    BY <1>9 DEF FrameTooLarge, Sample, Playing
  <1>10. ASSUME NEW pts \in Pts, FrameOffered(pts) PROVE Works'
    <2>1. slot \in Runs /\ slot = run BY <1>10 DEF FrameOffered, Sample, Playing
    <2>2. [id |-> nextId, outcome |-> "none"] \in Job BY DEF Job
    <2>3. CASE UNCHANGED queue BY <1>10, <2>3 DEF FrameOffered
    <2>4. CASE HasRoom(slot)
               /\ queue' = [queue EXCEPT ![slot] = Append(@, [id |-> nextId, outcome |-> "none"])]
      <3>1. queue'[slot] = Append(<<>>, [id |-> nextId, outcome |-> "none"])
        BY <2>1, <2>4 DEF HasRoom
      <3>2. queue'[slot] \in Seq(Job) /\ Len(queue'[slot]) = 1 BY <2>2, <3>1, FirstJob
      <3>3. \A s \in Runs : s # slot => queue'[s] = queue[s] BY <2>1, <2>4
      <3>4. queue' \in [Runs -> Seq(Job)] BY <2>1, <2>4, <3>2, <3>3
      <3>5. ASSUME NEW s \in Runs PROVE Len(queue'[s]) <= 1
        <4>a. \A n \in Nat : n = 1 => n <= 1 OBVIOUS
        <4>1. CASE s = slot BY <3>2, <4>1, <4>a
        <4>2. CASE s # slot BY <3>3, <4>2
        <4> QED BY <4>1, <4>2
      <3>6. UNCHANGED <<wpc, job>> BY <1>10 DEF FrameOffered
      <3> QED BY <3>4, <3>5, <3>6
    <2> QED BY <1>10, <2>3, <2>4 DEF FrameOffered
  <1>11. ASSUME NEW r \in Runs, WorkerReceive(r) PROVE Works'
    <2>1. queue[r] # <<>> /\ queue[r] \in Seq(Job) /\ Len(queue[r]) <= 1 BY <1>11 DEF WorkerReceive
    <2>2. Head(queue[r]) \in Job /\ Tail(queue[r]) = <<>> BY <2>1, OneJob
    <2>3. queue' = [queue EXCEPT ![r] = <<>>] BY <1>11, <2>2 DEF WorkerReceive
    <2>4. queue' \in [Runs -> Seq(Job)] /\ \A s \in Runs : Len(queue'[s]) <= 1 BY <2>3
    <2>5. job' \in [Runs -> Job] BY <1>11, <2>2 DEF WorkerReceive, Move
    <2> QED BY <1>11, <2>4, <2>5 DEF WorkerReceive, Move
  <1>12. ASSUME NEW r \in Runs, WorkerDisconnected(r) PROVE Works'
    BY <1>12 DEF WorkerDisconnected, Move
  <1>13. ASSUME NEW r \in Runs, WorkerInfer(r) PROVE Works'
    <2>1. PICK outcome \in Outcomes : job' = [job EXCEPT ![r].outcome = outcome]
      BY <1>13 DEF WorkerInfer
    <2>2. job[r] \in Job OBVIOUS
    <2>3. [job[r] EXCEPT !.outcome = outcome] \in Job BY <2>2 DEF Job
    <2>4. job' \in [Runs -> Job] BY <2>1, <2>3
    <2> QED BY <1>13, <2>4 DEF WorkerInfer, Move
  <1>14. ASSUME NEW r \in Runs, WorkerAdmit(r) PROVE Works'
    BY <1>14 DEF WorkerAdmit, Move
  <1>15. ASSUME NEW r \in Runs, WorkerOversize(r) PROVE Works'
    <2>1. "error" \in Outcomes BY DEF Outcomes
    <2>2. job[r] \in Job OBVIOUS
    <2>3. [job[r] EXCEPT !.outcome = "error"] \in Job BY <2>1, <2>2 DEF Job
    <2>4. job' \in [Runs -> Job] BY <1>15, <2>3 DEF WorkerOversize
    <2> QED BY <1>15, <2>4 DEF WorkerOversize, Move
  <1>16. ASSUME NEW r \in Runs, WorkerPost(r) PROVE Works'
    BY <1>16 DEF WorkerPost, Move
  <1>17. ASSUME NEW r \in Runs, WorkerNext(r) PROVE Works'
    BY <1>17 DEF WorkerNext, AfterPost, Move
  <1>18. ASSUME NEW r \in Runs, WorkerPanic(r) PROVE Works'
    BY <1>18 DEF WorkerPanic, Move
  <1>19. ASSUME NEW r \in Runs, WorkerHalt(r) PROVE Works'
    BY <1>19 DEF WorkerHalt, Move
  <1>20. ASSUME NEW r \in Runs, StopFromHandler(r) PROVE Works'
    BY <1>20 DEF StopFromHandler, Close
  <1>21. ASSUME NEW r \in Runs, HandlerBlocks(r) PROVE Works'
    BY <1>21 DEF HandlerBlocks, InHandler, Move
  <1>22. CASE UNCHANGED vars BY <1>22 DEF vars
  <1> QED
    BY <1>1, <1>2, <1>3, <1>4, <1>5, <1>6, <1>7, <1>8, <1>9, <1>10, <1>11, <1>12, <1>13,
    <1>14, <1>15, <1>16, <1>17, <1>18, <1>19, <1>20, <1>21, <1>22 DEF Next, StartEnds,
    Stream, Worker

\* A timestamp that the sampler keeps is one that it has met.
LEMMA SamplerTyped ==
  ASSUME OcrsAssumption, Samples, NEW pts \in Pts
  PROVE  SamplerAfter(pts) \in [seen : Pts, selected : BOOLEAN, at : Pts]
  <1>1. {} \in Pts BY DEF Pts
  <1>2. Sampled(pts) \in [seen : Pts, selected : BOOLEAN, at : Pts]
    BY <1>1 DEF Samples, Sampled, FreshSampler
  <1>3. Due(pts) \in BOOLEAN /\ SeenAfter(pts) \in Pts BY <1>2 DEF Due, SeenAfter
  <1> QED BY <1>2, <1>3 DEF SamplerAfter

\* The sampler knows timestamps.
LEMMA SamplesStep ==
  ASSUME OcrsAssumption, IInv, [Next]_vars
  PROVE  Samples'
  <1> USE DEF OcrsAssumption, IInv, Typed, Samples, lifeVars, flagVars, workerVars,
    sampleVars, tallyVars, messageVars
  <1>1. CASE Start
    BY <1>1 DEF Start
  <1>2. CASE StartRun
    <2>1. {} \in Pts BY DEF Pts
    <2> QED BY <1>2, <2>1 DEF StartRun, ResetRun, FreshSampler
  <1>3. CASE StartFails BY <1>3 DEF StartFails, Joined
  <1>4. CASE Stop BY <1>4 DEF Stop, Close
  <1>5. CASE StopJoined
    <2>1. {} \in Pts BY DEF Pts
    <2> QED BY <1>5, <2>1 DEF StopJoined, FreshSampler
  <1>6. CASE CountSubmitted BY <1>6 DEF CountSubmitted
  <1>7. CASE ResetGeneration
    <2>1. {} \in Pts BY DEF Pts
    <2> QED BY <1>7, <2>1 DEF ResetGeneration, FreshSampler
  <1>8. ASSUME NEW pts \in Pts, FrameSkipped(pts) PROVE Samples'
    BY <1>8, SamplerTyped DEF FrameSkipped, Sample
  <1>9. ASSUME NEW pts \in Pts, FrameTooLarge(pts) PROVE Samples'
    BY <1>9, SamplerTyped DEF FrameTooLarge, Sample
  <1>10. ASSUME NEW pts \in Pts, FrameOffered(pts) PROVE Samples'
    BY <1>10, SamplerTyped DEF FrameOffered, Sample
  <1>11. ASSUME NEW r \in Runs, WorkerReceive(r) PROVE Samples'
    BY <1>11 DEF WorkerReceive, Move
  <1>12. ASSUME NEW r \in Runs, WorkerDisconnected(r) PROVE Samples'
    BY <1>12 DEF WorkerDisconnected, Move
  <1>13. ASSUME NEW r \in Runs, WorkerInfer(r) PROVE Samples'
    BY <1>13 DEF WorkerInfer, Move
  <1>14. ASSUME NEW r \in Runs, WorkerAdmit(r) PROVE Samples'
    BY <1>14 DEF WorkerAdmit, Move
  <1>15. ASSUME NEW r \in Runs, WorkerOversize(r) PROVE Samples'
    BY <1>15 DEF WorkerOversize, Move
  <1>16. ASSUME NEW r \in Runs, WorkerPost(r) PROVE Samples'
    BY <1>16 DEF WorkerPost, Move
  <1>17. ASSUME NEW r \in Runs, WorkerNext(r) PROVE Samples'
    BY <1>17 DEF WorkerNext, AfterPost, Move
  <1>18. ASSUME NEW r \in Runs, WorkerPanic(r) PROVE Samples'
    BY <1>18 DEF WorkerPanic, Move
  <1>19. ASSUME NEW r \in Runs, WorkerHalt(r) PROVE Samples'
    BY <1>19 DEF WorkerHalt, Move
  <1>20. ASSUME NEW r \in Runs, StopFromHandler(r) PROVE Samples'
    BY <1>20 DEF StopFromHandler, Close
  <1>21. ASSUME NEW r \in Runs, HandlerBlocks(r) PROVE Samples'
    BY <1>21 DEF HandlerBlocks, InHandler, Move
  <1>22. CASE UNCHANGED vars BY <1>22 DEF vars
  <1> QED
    BY <1>1, <1>2, <1>3, <1>4, <1>5, <1>6, <1>7, <1>8, <1>9, <1>10, <1>11, <1>12, <1>13,
    <1>14, <1>15, <1>16, <1>17, <1>18, <1>19, <1>20, <1>21, <1>22 DEF Next, StartEnds,
    Stream, Worker

\* Counters count up.
LEMMA TalliesStep ==
  ASSUME OcrsAssumption, IInv, [Next]_vars
  PROVE  Tallies'
  <1> USE DEF OcrsAssumption, IInv, Typed, Tallies, NoCounts, lifeVars, flagVars, workerVars,
    sampleVars, tallyVars, messageVars
  <1>1. CASE Start BY <1>1 DEF Start, Playing
  <1>2. CASE StartRun BY <1>2 DEF StartRun, Joined, ResetRun
  <1>3. CASE StartFails BY <1>3 DEF StartFails, Joined
  <1>4. CASE Stop BY <1>4 DEF Stop, Close
  <1>5. CASE StopJoined BY <1>5 DEF StopJoined, Joined
  <1>6. CASE CountSubmitted BY <1>6 DEF CountSubmitted
  <1>7. CASE ResetGeneration BY <1>7 DEF ResetGeneration, Playing
  <1>8. ASSUME NEW pts \in Pts, FrameSkipped(pts) PROVE Tallies'
    BY <1>8 DEF FrameSkipped, Sample, Playing
  <1>9. ASSUME NEW pts \in Pts, FrameTooLarge(pts) PROVE Tallies'
    BY <1>9 DEF FrameTooLarge, Sample, Playing
  <1>10. ASSUME NEW pts \in Pts, FrameOffered(pts) PROVE Tallies'
    BY <1>10 DEF FrameOffered, Sample
  <1>11. ASSUME NEW r \in Runs, WorkerReceive(r) PROVE Tallies'
    BY <1>11 DEF WorkerReceive, Move
  <1>12. ASSUME NEW r \in Runs, WorkerDisconnected(r) PROVE Tallies'
    BY <1>12 DEF WorkerDisconnected, Move
  <1>13. ASSUME NEW r \in Runs, WorkerInfer(r) PROVE Tallies'
    BY <1>13 DEF WorkerInfer, Move
  <1>14. ASSUME NEW r \in Runs, WorkerAdmit(r) PROVE Tallies'
    BY <1>14 DEF WorkerAdmit, Move
  <1>15. ASSUME NEW r \in Runs, WorkerOversize(r) PROVE Tallies'
    BY <1>15 DEF WorkerOversize, Move
  <1>16. ASSUME NEW r \in Runs, WorkerPost(r) PROVE Tallies'
    BY <1>16 DEF WorkerPost, Move
  <1>17. ASSUME NEW r \in Runs, WorkerNext(r) PROVE Tallies'
    BY <1>17 DEF WorkerNext, AfterPost, Move
  <1>18. ASSUME NEW r \in Runs, WorkerPanic(r) PROVE Tallies'
    BY <1>18 DEF WorkerPanic, Move
  <1>19. ASSUME NEW r \in Runs, WorkerHalt(r) PROVE Tallies'
    BY <1>19 DEF WorkerHalt, Move
  <1>20. ASSUME NEW r \in Runs, StopFromHandler(r) PROVE Tallies'
    BY <1>20 DEF StopFromHandler, Close
  <1>21. ASSUME NEW r \in Runs, HandlerBlocks(r) PROVE Tallies'
    BY <1>21 DEF HandlerBlocks, InHandler, Move
  <1>22. CASE UNCHANGED vars BY <1>22 DEF vars
  <1> QED
    BY <1>1, <1>2, <1>3, <1>4, <1>5, <1>6, <1>7, <1>8, <1>9, <1>10, <1>11, <1>12, <1>13,
    <1>14, <1>15, <1>16, <1>17, <1>18, <1>19, <1>20, <1>21, <1>22 DEF Next, StartEnds,
    Stream, Worker

\* What is posted or barred is a request of a run.
LEMMA MessagesStep ==
  ASSUME OcrsAssumption, IInv, [Next]_vars
  PROVE  Messages'
  <1> USE DEF OcrsAssumption, IInv, Typed, Lives, Works, Messages, Alone, Runs, lifeVars,
    flagVars, workerVars, sampleVars, tallyVars, messageVars
  <1>1. CASE Start BY <1>1 DEF Start, Playing
  <1>2. CASE StartRun BY <1>2 DEF StartRun, Joined, ResetRun
  <1>3. CASE StartFails BY <1>3 DEF StartFails, Joined
  <1>4. CASE Stop
    <2>1. slot \in Runs BY <1>4 DEF Stop
    <2> QED BY <1>4, <2>1, UndecidedIs DEF Stop, Runs
  <1>5. CASE StopJoined BY <1>5 DEF StopJoined, Joined
  <1>6. CASE CountSubmitted BY <1>6 DEF CountSubmitted
  <1>7. CASE ResetGeneration BY <1>7 DEF ResetGeneration, Playing
  <1>8. ASSUME NEW pts \in Pts, FrameSkipped(pts) PROVE Messages'
    BY <1>8 DEF FrameSkipped, Sample, Playing
  <1>9. ASSUME NEW pts \in Pts, FrameTooLarge(pts) PROVE Messages'
    BY <1>9 DEF FrameTooLarge, Sample, Playing
  <1>10. ASSUME NEW pts \in Pts, FrameOffered(pts) PROVE Messages'
    BY <1>10 DEF FrameOffered, Sample, Playing, HasRoom, ReportUnavailable
  <1>11. ASSUME NEW r \in Runs, WorkerReceive(r) PROVE Messages'
    BY <1>11 DEF WorkerReceive, Move
  <1>12. ASSUME NEW r \in Runs, WorkerDisconnected(r) PROVE Messages'
    BY <1>12 DEF WorkerDisconnected, Move
  <1>13. ASSUME NEW r \in Runs, WorkerInfer(r) PROVE Messages'
    BY <1>13 DEF WorkerInfer, Move
  <1>14. ASSUME NEW r \in Runs, WorkerAdmit(r) PROVE Messages'
    BY <1>14 DEF WorkerAdmit, Move
  <1>15. ASSUME NEW r \in Runs, WorkerOversize(r) PROVE Messages'
    BY <1>15 DEF WorkerOversize, Move
  <1>16. ASSUME NEW r \in Runs, WorkerPost(r) PROVE Messages'
    <2>1. job[r].id \in Nat BY DEF Job
    <2>2. <<r, job[r].id>> \in Requests BY <2>1 DEF Requests
    <2> QED BY <1>16, <2>2 DEF WorkerPost, Move
  <1>17. ASSUME NEW r \in Runs, WorkerNext(r) PROVE Messages'
    BY <1>17 DEF WorkerNext, AfterPost, Move
  <1>18. ASSUME NEW r \in Runs, WorkerPanic(r) PROVE Messages'
    BY <1>18 DEF WorkerPanic, Move
  <1>19. ASSUME NEW r \in Runs, WorkerHalt(r) PROVE Messages'
    BY <1>19 DEF WorkerHalt, Move
  <1>20. ASSUME NEW r \in Runs, StopFromHandler(r) PROVE Messages'
    BY <1>20, UndecidedIs DEF StopFromHandler, Runs
  <1>21. ASSUME NEW r \in Runs, HandlerBlocks(r) PROVE Messages'
    BY <1>21 DEF HandlerBlocks, InHandler, Move
  <1>22. CASE UNCHANGED vars BY <1>22 DEF vars
  <1> QED
    BY <1>1, <1>2, <1>3, <1>4, <1>5, <1>6, <1>7, <1>8, <1>9, <1>10, <1>11, <1>12, <1>13,
    <1>14, <1>15, <1>16, <1>17, <1>18, <1>19, <1>20, <1>21, <1>22 DEF Next, StartEnds,
    Stream, Worker

\* A worker is started only when the one before it has ended.
LEMMA AloneStep ==
  ASSUME OcrsAssumption, IInv, [Next]_vars
  PROVE  Alone'
  <1> USE DEF OcrsAssumption, IInv, Typed, Lives, Works, Alone, Alive, Runs, WorkerPlaces,
    lifeVars, flagVars, workerVars, sampleVars, tallyVars, messageVars
  <1>1. CASE Start BY <1>1 DEF Start, Playing
  <1>2. CASE StartRun BY <1>2 DEF StartRun, Joined, ResetRun
  <1>3. CASE StartFails BY <1>3 DEF StartFails, Joined
  <1>4. CASE Stop BY <1>4 DEF Stop, Close
  <1>5. CASE StopJoined BY <1>5 DEF StopJoined, Joined
  <1>6. CASE CountSubmitted BY <1>6 DEF CountSubmitted
  <1>7. CASE ResetGeneration BY <1>7 DEF ResetGeneration, Playing
  <1>8. ASSUME NEW pts \in Pts, FrameSkipped(pts) PROVE Alone'
    BY <1>8 DEF FrameSkipped, Sample, Playing
  <1>9. ASSUME NEW pts \in Pts, FrameTooLarge(pts) PROVE Alone'
    BY <1>9 DEF FrameTooLarge, Sample, Playing
  <1>10. ASSUME NEW pts \in Pts, FrameOffered(pts) PROVE Alone'
    <2>1. slot \in Runs /\ slot = run BY <1>10 DEF FrameOffered, Sample, Playing
    <2>2. \A s \in Runs : s # slot => queue'[s] = queue[s] BY <1>10, <2>1 DEF FrameOffered
    <2>3. UNCHANGED <<run, slot, leaving, lpc, wpc>> BY <1>10 DEF FrameOffered
    <2>4. \A s \in Runs : s > run => queue'[s] = <<>> BY <2>1, <2>2
    <2> QED BY <2>3, <2>4
  <1>11. ASSUME NEW r \in Runs, WorkerReceive(r) PROVE Alone'
    BY <1>11 DEF WorkerReceive, Move
  <1>12. ASSUME NEW r \in Runs, WorkerDisconnected(r) PROVE Alone'
    BY <1>12 DEF WorkerDisconnected, Move
  <1>13. ASSUME NEW r \in Runs, WorkerInfer(r) PROVE Alone'
    BY <1>13 DEF WorkerInfer, Move
  <1>14. ASSUME NEW r \in Runs, WorkerAdmit(r) PROVE Alone'
    BY <1>14 DEF WorkerAdmit, Move
  <1>15. ASSUME NEW r \in Runs, WorkerOversize(r) PROVE Alone'
    BY <1>15 DEF WorkerOversize, Move
  <1>16. ASSUME NEW r \in Runs, WorkerPost(r) PROVE Alone'
    BY <1>16 DEF WorkerPost, Move
  <1>17. ASSUME NEW r \in Runs, WorkerNext(r) PROVE Alone'
    BY <1>17 DEF WorkerNext, AfterPost, Move
  <1>18. ASSUME NEW r \in Runs, WorkerPanic(r) PROVE Alone'
    BY <1>18 DEF WorkerPanic, Move
  <1>19. ASSUME NEW r \in Runs, WorkerHalt(r) PROVE Alone'
    BY <1>19 DEF WorkerHalt, Move
  <1>20. ASSUME NEW r \in Runs, StopFromHandler(r) PROVE Alone'
    BY <1>20 DEF StopFromHandler, Close
  <1>21. ASSUME NEW r \in Runs, HandlerBlocks(r) PROVE Alone'
    BY <1>21 DEF HandlerBlocks, InHandler, Move
  <1>22. CASE UNCHANGED vars BY <1>22 DEF vars
  <1> QED
    BY <1>1, <1>2, <1>3, <1>4, <1>5, <1>6, <1>7, <1>8, <1>9, <1>10, <1>11, <1>12, <1>13,
    <1>14, <1>15, <1>16, <1>17, <1>18, <1>19, <1>20, <1>21, <1>22 DEF Next, StartEnds,
    Stream, Worker

\* Requests go through the channel and the engine in the order of their numbers.
LEMMA AheadStep ==
  ASSUME OcrsAssumption, IInv, [Next]_vars
  PROVE  Ahead'
  <1> USE DEF OcrsAssumption, IInv, Typed, Lives, Works, Samples, Messages, Alone, Alive,
    Ahead, Runs, WorkerPlaces, lifeVars, flagVars, workerVars, sampleVars, tallyVars,
    messageVars
  <1>1. CASE Start BY <1>1 DEF Start, Playing
  <1>2. CASE StartRun
    <2>1. run + 1 \in Runs /\ queue[run + 1] = <<>> BY <1>2 DEF StartRun
    <2>2. \A k \in 1..Len(posted) : posted[k][1] \in Nat /\ posted[k][1] <= run BY PostedTyped
    <2>3. \A k \in 1..Len(posted) : posted[k][1] <= run + 1 /\ posted[k][1] # run + 1 BY <2>2
    <2> QED BY <1>2, <2>1, <2>3 DEF StartRun
  <1>3. CASE StartFails BY <1>3 DEF StartFails, Joined
  <1>4. CASE Stop BY <1>4 DEF Stop, Close
  <1>5. CASE StopJoined BY <1>5 DEF StopJoined, Joined
  <1>6. CASE CountSubmitted BY <1>6 DEF CountSubmitted
  <1>7. CASE ResetGeneration BY <1>7 DEF ResetGeneration, Playing
  <1>8. ASSUME NEW pts \in Pts, FrameSkipped(pts) PROVE Ahead'
    BY <1>8 DEF FrameSkipped, Sample, Playing
  <1>9. ASSUME NEW pts \in Pts, FrameTooLarge(pts) PROVE Ahead'
    BY <1>9 DEF FrameTooLarge, Sample, Playing
  <1>10. ASSUME NEW pts \in Pts, FrameOffered(pts) PROVE Ahead'
    <2>1. slot \in Runs /\ slot = run BY <1>10 DEF FrameOffered, Sample, Playing
    <2>2. UNCHANGED <<run, posted, wpc, job>> /\ nextId' = nextId + 1 /\ run # 0
      BY <1>10, <2>1 DEF FrameOffered
    <2>3. \A k \in 1..Len(posted) : posted[k][1] \in Nat /\ posted[k][2] \in Nat BY PostedTyped
    <2>4. job[run].id \in Nat /\ (queue[run] # <<>> => Head(queue[run]).id \in Nat)
      BY <2>1, JobsTyped
    <2>5. nextId \in Nat /\ \A n \in Nat : n < nextId => n < nextId + 1 OBVIOUS
    <2>6. CASE UNCHANGED queue BY <2>2, <2>3, <2>4, <2>5, <2>6
    <2>7. CASE HasRoom(slot)
               /\ queue' = [queue EXCEPT ![slot] = Append(@, [id |-> nextId, outcome |-> "none"])]
      <3>1. [id |-> nextId, outcome |-> "none"] \in Job BY DEF Job
      <3>2. queue'[run] = Append(<<>>, [id |-> nextId, outcome |-> "none"])
        BY <2>1, <2>7 DEF HasRoom
      <3>3. Head(queue'[run]).id = nextId BY <3>1, <3>2, FirstJob
      <3>4. \A k \in 1..Len(posted) : posted[k][1] <= run BY DEF Ahead
      <3>5. ASSUME NEW k \in 1..Len(posted), posted[k][1] = run
            PROVE  /\ posted[k][2] < nextId /\ posted[k][2] < nextId + 1
                   /\ wpc[run] \in {"infer", "emit", "post"} => posted[k][2] < job[run].id
        BY <2>3, <2>5, <3>5
      <3>6. wpc[run] \in {"infer", "emit", "post"} => job[run].id < nextId /\ job[run].id < nextId + 1
        BY <2>2, <2>4, <2>5
      <3>7. nextId < nextId + 1 BY <2>5
      <3> QED BY <2>2, <3>3, <3>4, <3>5, <3>6, <3>7
    <2> QED BY <1>10, <2>6, <2>7 DEF FrameOffered
  <1>11. ASSUME NEW r \in Runs, WorkerReceive(r) PROVE Ahead'
    <2>1. r = run BY <1>11 DEF WorkerReceive
    <2>2. queue[r] # <<>> /\ Head(queue[r]) \in Job /\ Tail(queue[r]) = <<>>
      BY <1>11, OneJob DEF WorkerReceive
    <2>3. queue'[r] = <<>> BY <1>11, <2>2 DEF WorkerReceive
    <2>4. UNCHANGED <<posted, run, nextId>> BY <1>11 DEF WorkerReceive
    <2>5. CASE wpc'[r] = "exited"
      BY <2>1, <2>3, <2>4, <2>5
    <2>6. CASE wpc'[r] = "infer" /\ job'[r] = Head(queue[r])
      BY <2>1, <2>2, <2>3, <2>4, <2>6
    <2> QED BY <1>11, <2>5, <2>6 DEF WorkerReceive, Move
  <1>12. ASSUME NEW r \in Runs, WorkerDisconnected(r) PROVE Ahead'
    BY <1>12 DEF WorkerDisconnected, Move
  <1>13. ASSUME NEW r \in Runs, WorkerInfer(r) PROVE Ahead'
    <2>1. r = run BY <1>13 DEF WorkerInfer
    <2>2. job[r] \in Job OBVIOUS
    <2>3. PICK outcome \in Outcomes : job' = [job EXCEPT ![r].outcome = outcome]
      BY <1>13 DEF WorkerInfer
    <2>4. job'[r] = [job[r] EXCEPT !.outcome = outcome] BY <2>3
    <2>5. job'[r].id = job[r].id BY <2>2, <2>4 DEF Job
    <2> QED BY <1>13, <2>1, <2>5 DEF WorkerInfer, Move
  <1>14. ASSUME NEW r \in Runs, WorkerAdmit(r) PROVE Ahead'
    BY <1>14 DEF WorkerAdmit, Move
  <1>15. ASSUME NEW r \in Runs, WorkerOversize(r) PROVE Ahead'
    <2>1. r = run BY <1>15 DEF WorkerOversize
    <2>2. job[r] \in Job OBVIOUS
    <2>4. job'[r] = job[r] \/ job'[r] = [job[r] EXCEPT !.outcome = "error"]
      BY <1>15 DEF WorkerOversize
    <2>5. job'[r].id = job[r].id BY <2>2, <2>4 DEF Job
    <2> QED BY <1>15, <2>1, <2>5 DEF WorkerOversize, Move
  <1>16. ASSUME NEW r \in Runs, WorkerPost(r) PROVE Ahead'
    <2>1. r = run BY <1>16 DEF WorkerPost
    <2>2. job[r].id \in Nat BY DEF Job
    <2>3. PICK p \in Requests : p = <<r, job[r].id>> BY <2>2, RequestIs
    <2>3a. posted' = Append(posted, p) BY <1>16, <2>3 DEF WorkerPost
    <2>4a. Len(posted') = Len(posted) + 1 /\ posted'[Len(posted) + 1] = p
           /\ \A k \in 1..Len(posted) : posted'[k] = posted[k]
      BY <2>3a, PostedGrows
    <2>4b. p[1] = r /\ p[2] = job[r].id BY <2>3
    <2>4c. \A k \in 1..Len(posted) : posted[k][1] \in Nat /\ posted[k][2] \in Nat
      BY PostedTyped
    <2>4. /\ Len(posted') = Len(posted) + 1
          /\ posted'[Len(posted) + 1][1] = r /\ posted'[Len(posted) + 1][2] = job[r].id
          /\ \A k \in 1..Len(posted) : /\ posted'[k] = posted[k]
                                       /\ posted[k][1] \in Nat /\ posted[k][2] \in Nat
      BY <2>4a, <2>4b, <2>4c
    <2>5. wpc'[run] = "posted" /\ UNCHANGED <<run, nextId, queue, job>>
      BY <1>16, <2>1 DEF WorkerPost, Move
    <2>6. wpc[run] = "post" BY <1>16, <2>1 DEF WorkerPost
    <2>7. ASSUME NEW k \in 1..Len(posted')
          PROVE  /\ posted'[k][1] <= run
                 /\ posted'[k][1] = run =>
                      posted'[k][2] < nextId /\ (queue[run] # <<>> => posted'[k][2] < Head(queue[run]).id)
      <3>1. CASE k \in 1..Len(posted) BY <2>4, <3>1
      <3>2. CASE k = Len(posted) + 1 BY <2>1, <2>4, <2>6, <3>2
      <3> QED BY <2>4, <2>7, <3>1, <3>2
    <2> QED BY <2>5, <2>7
  <1>17. ASSUME NEW r \in Runs, WorkerNext(r) PROVE Ahead'
    BY <1>17 DEF WorkerNext, AfterPost, Move
  <1>18. ASSUME NEW r \in Runs, WorkerPanic(r) PROVE Ahead'
    BY <1>18 DEF WorkerPanic, Move
  <1>19. ASSUME NEW r \in Runs, WorkerHalt(r) PROVE Ahead'
    BY <1>19 DEF WorkerHalt, Move
  <1>20. ASSUME NEW r \in Runs, StopFromHandler(r) PROVE Ahead'
    BY <1>20 DEF StopFromHandler, Close
  <1>21. ASSUME NEW r \in Runs, HandlerBlocks(r) PROVE Ahead'
    BY <1>21 DEF HandlerBlocks, InHandler, Move
  <1>22. CASE UNCHANGED vars BY <1>22 DEF vars
  <1> QED
    BY <1>1, <1>2, <1>3, <1>4, <1>5, <1>6, <1>7, <1>8, <1>9, <1>10, <1>11, <1>12, <1>13,
    <1>14, <1>15, <1>16, <1>17, <1>18, <1>19, <1>20, <1>21, <1>22 DEF Next, StartEnds,
    Stream, Worker

\* A message is posted after all before it.
LEMMA PostedInOrderStep ==
  ASSUME OcrsAssumption, IInv, [Next]_vars
  PROVE  PostedInOrder'
  <1> USE DEF OcrsAssumption, IInv, Typed, Lives, Works, Messages, Alone, Alive, Ahead,
    PostedInOrder, Runs, lifeVars, flagVars, workerVars, sampleVars, tallyVars, messageVars
  <1>1. CASE Start BY <1>1 DEF Start, Playing
  <1>2. CASE StartRun BY <1>2 DEF StartRun, Joined, ResetRun
  <1>3. CASE StartFails BY <1>3 DEF StartFails, Joined
  <1>4. CASE Stop BY <1>4 DEF Stop, Close
  <1>5. CASE StopJoined BY <1>5 DEF StopJoined, Joined
  <1>6. CASE CountSubmitted BY <1>6 DEF CountSubmitted
  <1>7. CASE ResetGeneration BY <1>7 DEF ResetGeneration, Playing
  <1>8. ASSUME NEW pts \in Pts, FrameSkipped(pts) PROVE PostedInOrder'
    BY <1>8 DEF FrameSkipped, Sample, Playing
  <1>9. ASSUME NEW pts \in Pts, FrameTooLarge(pts) PROVE PostedInOrder'
    BY <1>9 DEF FrameTooLarge, Sample, Playing
  <1>10. ASSUME NEW pts \in Pts, FrameOffered(pts) PROVE PostedInOrder'
    BY <1>10 DEF FrameOffered, Sample, Playing, HasRoom, ReportUnavailable
  <1>11. ASSUME NEW r \in Runs, WorkerReceive(r) PROVE PostedInOrder'
    BY <1>11 DEF WorkerReceive, Move
  <1>12. ASSUME NEW r \in Runs, WorkerDisconnected(r) PROVE PostedInOrder'
    BY <1>12 DEF WorkerDisconnected, Move
  <1>13. ASSUME NEW r \in Runs, WorkerInfer(r) PROVE PostedInOrder'
    BY <1>13 DEF WorkerInfer, Move
  <1>14. ASSUME NEW r \in Runs, WorkerAdmit(r) PROVE PostedInOrder'
    BY <1>14 DEF WorkerAdmit, Move
  <1>15. ASSUME NEW r \in Runs, WorkerOversize(r) PROVE PostedInOrder'
    BY <1>15 DEF WorkerOversize, Move
  <1>16. ASSUME NEW r \in Runs, WorkerPost(r) PROVE PostedInOrder'
    <2>1. r = run /\ wpc[run] = "post" BY <1>16 DEF WorkerPost
    <2>2. job[r].id \in Nat BY DEF Job
    <2>3. PICK p \in Requests : p = <<r, job[r].id>> BY <2>2, RequestIs
    <2>3a. posted' = Append(posted, p) BY <1>16, <2>3 DEF WorkerPost
    <2>4a. Len(posted') = Len(posted) + 1 /\ posted'[Len(posted) + 1] = p
           /\ \A k \in 1..Len(posted) : posted'[k] = posted[k]
      BY <2>3a, PostedGrows
    <2>4b. p[1] = r /\ p[2] = job[r].id BY <2>3
    <2>4c. \A k \in 1..Len(posted) : posted[k][1] \in Nat /\ posted[k][2] \in Nat
      BY PostedTyped
    <2>4. /\ Len(posted') = Len(posted) + 1
          /\ posted'[Len(posted) + 1][1] = r /\ posted'[Len(posted) + 1][2] = job[r].id
          /\ \A k \in 1..Len(posted) : /\ posted'[k] = posted[k]
                                       /\ posted[k][1] \in Nat /\ posted[k][2] \in Nat
      BY <2>4a, <2>4b, <2>4c
    <2>4d. \A k \in 1..Len(posted) : posted[k][1] <= r /\ (posted[k][1] = r => posted[k][2] < job[r].id)
      BY <2>1
    <2>5. \A k \in 1..Len(posted) : posted[k][1] < r \/ (posted[k][1] = r /\ posted[k][2] < job[r].id)
      BY <2>4c, <2>4d
    <2>6. ASSUME NEW j \in 1..Len(posted'), NEW k \in 1..Len(posted'), j < k
          PROVE  \/ posted'[j][1] < posted'[k][1]
                 \/ posted'[j][1] = posted'[k][1] /\ posted'[j][2] < posted'[k][2]
      <3>1. j \in 1..Len(posted) BY <2>4, <2>6
      <3>2. CASE k \in 1..Len(posted)
        <4>1. posted'[j] = posted[j] /\ posted'[k] = posted[k] BY <2>4, <3>1, <3>2
        <4>2. \/ posted[j][1] < posted[k][1]
              \/ posted[j][1] = posted[k][1] /\ posted[j][2] < posted[k][2]
          BY <2>6, <3>1, <3>2
        <4> QED BY <4>1, <4>2
      <3>3. CASE k = Len(posted) + 1 BY <2>4, <2>5, <3>1, <3>3
      <3> QED BY <2>4, <3>2, <3>3
    <2> QED BY <2>6
  <1>17. ASSUME NEW r \in Runs, WorkerNext(r) PROVE PostedInOrder'
    BY <1>17 DEF WorkerNext, AfterPost, Move
  <1>18. ASSUME NEW r \in Runs, WorkerPanic(r) PROVE PostedInOrder'
    BY <1>18 DEF WorkerPanic, Move
  <1>19. ASSUME NEW r \in Runs, WorkerHalt(r) PROVE PostedInOrder'
    BY <1>19 DEF WorkerHalt, Move
  <1>20. ASSUME NEW r \in Runs, StopFromHandler(r) PROVE PostedInOrder'
    BY <1>20 DEF StopFromHandler, Close
  <1>21. ASSUME NEW r \in Runs, HandlerBlocks(r) PROVE PostedInOrder'
    BY <1>21 DEF HandlerBlocks, InHandler, Move
  <1>22. CASE UNCHANGED vars BY <1>22 DEF vars
  <1> QED
    BY <1>1, <1>2, <1>3, <1>4, <1>5, <1>6, <1>7, <1>8, <1>9, <1>10, <1>11, <1>12, <1>13,
    <1>14, <1>15, <1>16, <1>17, <1>18, <1>19, <1>20, <1>21, <1>22 DEF Next, StartEnds,
    Stream, Worker

\* A request that admission closes over was not posted.
LEMMA UndecidedUnsaid ==
  ASSUME OcrsAssumption, IInv, run # 0
  PROVE  /\ Undecided(run) \intersect Range(posted) = {}
         /\ wpc[run] = "post" => <<run, job[run].id>> \notin Undecided(run)
  <1> USE DEF IInv, Typed, Lives, Works, Messages, Runs
  <1>1. run \in Runs BY DEF OcrsAssumption
  <1>2. Range(posted) = {posted[k] : k \in 1..Len(posted)} BY DEF Range
  <1>3. ASSUME NEW k \in 1..Len(posted), posted[k] \in Undecided(run) PROVE FALSE
    <2>1. posted[k] \in Requests OBVIOUS
    <2>2. PICK s \in Runs, n \in Nat : posted[k] = <<s, n>> BY <2>1, RequestIs
    <2>3. s = run /\ (\/ queue[run] # <<>> /\ n = Head(queue[run]).id
                      \/ wpc[run] \in {"infer", "emit"} /\ n = job[run].id)
      BY <1>1, <1>3, <2>2, UndecidedIs
    <2>4. posted[k][1] = run /\ posted[k][2] = n BY <2>2, <2>3
    <2>5. ~(n < n) OBVIOUS
    <2> QED BY <2>3, <2>4, <2>5 DEF Ahead
  <1>4. job[run].id \in Nat BY <1>1 DEF Job
  <1>5. ASSUME wpc[run] = "post", <<run, job[run].id>> \in Undecided(run) PROVE FALSE
    <2>1. queue[run] # <<>> /\ job[run].id = Head(queue[run]).id
      BY <1>1, <1>4, <1>5, UndecidedIs
    <2>2. job[run].id < job[run].id
      BY <1>1, <1>5, <2>1 DEF Ahead
    <2> QED BY <1>4, <2>2
  <1> QED BY <1>2, <1>3, <1>5

\* Admission is closed over what is undecided, and opens for a new run only.
LEMMA SilentStep ==
  ASSUME OcrsAssumption, IInv, [Next]_vars
  PROVE  Silent'
  <1> USE DEF OcrsAssumption, IInv, Typed, Lives, Flags, Works, Messages, Alone, Alive,
    Silent, ClosedMeansSilent, Runs, lifeVars, flagVars, workerVars, sampleVars, tallyVars,
    messageVars
  <1>1. CASE Start BY <1>1 DEF Start, Playing
  <1>2. CASE StartRun
    <2>1. run + 1 \in Runs /\ \A n \in Nat : <<run + 1, n>> \notin barred BY <1>2 DEF StartRun
    <2> QED BY <1>2, <2>1 DEF StartRun, Joined, ResetRun
  <1>3. CASE StartFails BY <1>3 DEF StartFails, Joined
  <1>4. CASE Stop
    <2>1. run # 0 /\ run \in Runs /\ slot = run BY <1>4 DEF Stop
    <2>2. barred' = barred \union Undecided(run) /\ open' = open \ {run}
          /\ UNCHANGED <<run, wpc, job, posted>>
      BY <1>4, <2>1 DEF Stop, Close
    <2>3. /\ Undecided(run) \intersect Range(posted) = {}
          /\ wpc[run] = "post" => <<run, job[run].id>> \notin Undecided(run)
      BY <2>1, UndecidedUnsaid
    <2>4. \A s \in Runs, n \in Nat : <<s, n>> \in Undecided(run) => s = run BY <2>1, UndecidedIs
    <2>5. \A s \in Runs : job[s].id \in Nat BY DEF Job
    <2>6. ASSUME NEW s \in Runs, wpc[s] = "post" PROVE <<s, job[s].id>> \notin barred'
      BY <2>2, <2>3, <2>4, <2>5, <2>6
    <2>7. ASSUME NEW s \in Runs, NEW n \in Nat, <<s, n>> \in barred' PROVE s <= run /\ s \notin open'
      BY <2>1, <2>2, <2>4, <2>7
    <2>8. ClosedMeansSilent' BY <2>2, <2>3
    <2> QED BY <2>2, <2>6, <2>7, <2>8
  <1>5. CASE StopJoined BY <1>5 DEF StopJoined, Joined
  <1>6. CASE CountSubmitted BY <1>6 DEF CountSubmitted
  <1>7. CASE ResetGeneration BY <1>7 DEF ResetGeneration, Playing
  <1>8. ASSUME NEW pts \in Pts, FrameSkipped(pts) PROVE Silent'
    BY <1>8 DEF FrameSkipped, Sample, Playing
  <1>9. ASSUME NEW pts \in Pts, FrameTooLarge(pts) PROVE Silent'
    BY <1>9 DEF FrameTooLarge, Sample, Playing
  <1>10. ASSUME NEW pts \in Pts, FrameOffered(pts) PROVE Silent'
    BY <1>10 DEF FrameOffered, Sample, Playing, HasRoom, ReportUnavailable
  <1>11. ASSUME NEW r \in Runs, WorkerReceive(r) PROVE Silent'
    <2>1. \A s \in Runs : wpc'[s] = "post" => s # r /\ wpc[s] = "post" /\ job'[s] = job[s]
      BY <1>11 DEF WorkerReceive, Move
    <2> QED BY <1>11, <2>1 DEF WorkerReceive
  <1>12. ASSUME NEW r \in Runs, WorkerDisconnected(r) PROVE Silent'
    BY <1>12 DEF WorkerDisconnected, Move
  <1>13. ASSUME NEW r \in Runs, WorkerInfer(r) PROVE Silent'
    <2>1. \A s \in Runs : wpc'[s] = "post" => s # r /\ wpc[s] = "post" /\ job'[s] = job[s]
      BY <1>13 DEF WorkerInfer, Move
    <2> QED BY <1>13, <2>1 DEF WorkerInfer
  <1>14. ASSUME NEW r \in Runs, WorkerAdmit(r) PROVE Silent'
    <2>1. \A s \in Runs : job[s].id \in Nat BY DEF Job
    <2> QED BY <1>14, <2>1 DEF WorkerAdmit, Move
  <1>15. ASSUME NEW r \in Runs, WorkerOversize(r) PROVE Silent'
    <2>1. \A s \in Runs : wpc'[s] = "post" => s # r /\ wpc[s] = "post" /\ job'[s] = job[s]
      BY <1>15 DEF WorkerOversize, Move
    <2> QED BY <1>15, <2>1 DEF WorkerOversize
  <1>16. ASSUME NEW r \in Runs, WorkerPost(r) PROVE Silent'
    <2>1. job[r].id \in Nat BY DEF Job
    <2>2. PICK p \in Requests : p = <<r, job[r].id>> BY <2>1, RequestIs
    <2>3. posted' = Append(posted, p) BY <1>16, <2>2 DEF WorkerPost
    <2>4. Range(posted') = Range(posted) \union {p} BY <2>3, PostedGrows
    <2>5. p \notin barred BY <1>16, <2>2 DEF WorkerPost
    <2>6. ClosedMeansSilent' BY <1>16, <2>4, <2>5 DEF WorkerPost
    <2>7. \A s \in Runs : wpc'[s] = "post" => wpc[s] = "post" BY <1>16 DEF WorkerPost, Move
    <2> QED BY <1>16, <2>6, <2>7 DEF WorkerPost
  <1>17. ASSUME NEW r \in Runs, WorkerNext(r) PROVE Silent'
    BY <1>17 DEF WorkerNext, AfterPost, Move
  <1>18. ASSUME NEW r \in Runs, WorkerPanic(r) PROVE Silent'
    BY <1>18 DEF WorkerPanic, Move
  <1>19. ASSUME NEW r \in Runs, WorkerHalt(r) PROVE Silent'
    BY <1>19 DEF WorkerHalt, Move
  <1>20. ASSUME NEW r \in Runs, StopFromHandler(r) PROVE Silent'
    <2>1. run # 0 /\ run \in Runs /\ r = run BY <1>20 DEF StopFromHandler
    <2>2. barred' = barred \union Undecided(run) /\ open' = open \ {run}
          /\ UNCHANGED <<run, wpc, job, posted>>
      BY <1>20, <2>1 DEF StopFromHandler, Close
    <2>3. /\ Undecided(run) \intersect Range(posted) = {}
          /\ wpc[run] = "post" => <<run, job[run].id>> \notin Undecided(run)
      BY <2>1, UndecidedUnsaid
    <2>4. \A s \in Runs, n \in Nat : <<s, n>> \in Undecided(run) => s = run BY <2>1, UndecidedIs
    <2>5. \A s \in Runs : job[s].id \in Nat BY DEF Job
    <2>6. ASSUME NEW s \in Runs, wpc[s] = "post" PROVE <<s, job[s].id>> \notin barred'
      BY <2>2, <2>3, <2>4, <2>5, <2>6
    <2>7. ASSUME NEW s \in Runs, NEW n \in Nat, <<s, n>> \in barred' PROVE s <= run /\ s \notin open'
      BY <2>1, <2>2, <2>4, <2>7
    <2>8. ClosedMeansSilent' BY <2>2, <2>3
    <2> QED BY <2>2, <2>6, <2>7, <2>8
  <1>21. ASSUME NEW r \in Runs, HandlerBlocks(r) PROVE Silent'
    BY <1>21 DEF HandlerBlocks, InHandler, Move
  <1>22. CASE UNCHANGED vars BY <1>22 DEF vars
  <1> QED
    BY <1>1, <1>2, <1>3, <1>4, <1>5, <1>6, <1>7, <1>8, <1>9, <1>10, <1>11, <1>12, <1>13,
    <1>14, <1>15, <1>16, <1>17, <1>18, <1>19, <1>20, <1>21, <1>22 DEF Next, StartEnds,
    Stream, Worker

-----------------------------------------------------------------------------
\* The first start finds the invariant.
LEMMA InitIInv ==
  ASSUME OcrsAssumption, Init
  PROVE  IInv
  <1> USE DEF OcrsAssumption, Init
  <1>0. MaxRuns \in Nat OBVIOUS
  <1>1a. Lives BY <1>0 DEF Lives
  <1>1b. Flags BY DEF Flags
  <1>2. NoJob \in Job BY DEF NoJob, Job
  <1>3. Works BY <1>2 DEF Works, WorkerPlaces
  <1>4. {} \in Pts BY DEF Pts
  <1>5. Samples BY <1>4 DEF Samples, FreshSampler
  <1>6. Tallies BY DEF Tallies, NoCounts
  <1>7. Messages BY DEF Messages
  <1>8. Alone BY DEF Alone, Alive
  <1>9. Ahead /\ PostedInOrder BY DEF Ahead, PostedInOrder
  <1>10. Silent BY DEF Silent, ClosedMeansSilent
  <1> QED BY <1>1a, <1>1b, <1>3, <1>5, <1>6, <1>7, <1>8, <1>9, <1>10 DEF IInv, Typed

\* No step breaks the invariant.
LEMMA NextIInv ==
  ASSUME OcrsAssumption, IInv, [Next]_vars
  PROVE  IInv'
  BY LivesStep, FlagsStep, WorksStep, SamplesStep, TalliesStep, MessagesStep, AloneStep,
     AheadStep, PostedInOrderStep, SilentStep
  DEF IInv, Typed

\* The invariant says what a reader of the code wants to know.
LEMMA IInvQuiet ==
  ASSUME OcrsAssumption, IInv
  PROVE  Consistent /\ PostedInOrder /\ ClosedMeansSilent
  <1>1. TypeOK
    <2>1. interval \in Intervals /\ run \in 0..MaxRuns /\ {slot, leaving} \subseteq 0..MaxRuns
          /\ lpc \in {"idle", "reap", "join"} /\ spc \in {"idle", "count"} /\ reported \in BOOLEAN
          /\ \A set \in {stop, open, closed} : set \subseteq Runs
      BY DEF IInv, Typed, Lives, Flags, Samples
    <2>2. /\ \A r \in Runs : Len(queue[r]) <= 1
          /\ wpc \in [Runs -> {"none", "recv", "infer", "emit", "post", "posted", "fatal", "blocked",
                          "exited"}]
          /\ \A r \in Runs : job[r].outcome \in Outcomes \union {"none"}
      BY DEF IInv, Typed, Works, WorkerPlaces, Job
    <2>3. \A pts \in {sampler.seen, sampler.at} : pts \in Pts BY DEF IInv, Typed, Samples
    <2>4. Range(count) \subseteq Nat BY DEF IInv, Typed, Tallies, Range
    <2>5. {generation, nextId} \subseteq Nat \ {0} /\ {doubled, rejected, refused} \subseteq Nat
      BY DEF IInv, Typed, Samples, Tallies
    <2> QED BY <2>1, <2>2, <2>3, <2>4, <2>5 DEF TypeOK
  <1>2. OneWorker
    <2> DEFINE living == {r \in Runs : wpc[r] \notin {"none", "exited"}}
    <2>1. living \subseteq {run} BY DEF IInv, Alone, Alive
    <2>2. IsFiniteSet({run}) /\ Cardinality({run}) = 1 BY FS_Singleton
    <2>3. Cardinality(living) <= 1 BY <2>1, <2>2, FS_Subset
    <2> QED BY <2>3 DEF OneWorker
  <1> QED BY <1>1, <1>2 DEF IInv, Silent, Consistent

\* One OCR worker is alive at a time, messages come in the order of the requests,
\* and nothing that stop() found undecided is posted: for any number of runs and
\* inputs, whoever stops the element and however the engine fails.
THEOREM OcrsIsQuiet ==
  ASSUME OcrsAssumption
  PROVE  Spec => [](Consistent /\ PostedInOrder /\ ClosedMeansSilent)
  <1>1. Init => IInv BY InitIInv
  <1>2. IInv /\ [Next]_vars => IInv' BY NextIInv
  <1>3. IInv => Consistent /\ PostedInOrder /\ ClosedMeansSilent BY IInvQuiet
  <1> QED BY <1>1, <1>2, <1>3, PTL DEF Spec
-----------------------------------------------------------------------------
(***************************************************************************)
(* Nothing of a run goes uncounted. What is inside, the channel and the    *)
(* engine, lags what was taken exactly, until stop() or a panic lets the   *)
(* worker leave jobs undone; a failure is told by whoever closed admission *)
(* or, once a run, by the stream that finds its worker gone.               *)
(***************************************************************************)

Taken == count.submitted + (IF spc = "count" THEN 1 ELSE 0)
Waiting == IF run # 0 /\ queue[run] # <<>> THEN 1 ELSE 0
Working == IF run # 0 /\ wpc[run] = "infer" THEN 1 ELSE 0

\* Between the channel and the counter stands the stream, and nothing else moves it.
Between == spc = "count" => Playing /\ lpc = "idle"
FramesTold == Taken + count.dropped + refused + 1 = nextId
OutcomesTold ==
  LET told == count.completed + count.failed + Waiting + Working
  IN /\ Taken + doubled + rejected >= told
     /\ run \notin stop => Taken + doubled + rejected = told

\* What becomes of the flags of a run, and who reported its end.
Ends ==
  /\ \A r \in Runs : r \in stop => r \in closed \/ wpc[r] = "exited"
  /\ \A r \in Runs : r <= run /\ r \notin open => r \in closed \/ fatal[r] = 1
  /\ \A r \in Runs : r \in open \/ r > run => fatal[r] = 0
  /\ \A r \in Runs : r > run => wpc[r] = "none" /\ unavailable[r] = 0 /\ r \notin stop
  /\ \A r \in Runs : wpc[r] = "fatal" => r \notin open
Reports ==
  /\ fatal \in [Runs -> {0, 1}] /\ unavailable \in [Runs -> {0, 1}]
  /\ \A r \in Runs : r = run /\ unavailable[r] = 1 => reported
  /\ \A r \in Runs : wpc[r] = "exited" /\ r \notin closed => fatal[r] = 1

\* The frames that were sampled in the generation so far: none before the sampler
\* has selected one, and none later than the last it has selected, or has seen.
Jobs == [generation : Nat, pts : Pts]
Spaced ==
  /\ jobs \in Seq(Jobs)
  /\ \A k \in 1..Len(jobs) : jobs[k].generation <= generation
  /\ Playing => \A k \in 1..Len(jobs) : jobs[k].generation = generation =>
       /\ interval # 0 => sampler.selected
       /\ \A p \in jobs[k].pts :
            \E q \in IF interval = 0 THEN sampler.seen ELSE sampler.at : p <= q

AInv == IInv /\ Between /\ FramesTold /\ OutcomesTold /\ Ends /\ Reports /\ Spaced /\ SampledApart

\* What no step of a worker touches.
LEMMA WorkerFrame ==
  ASSUME Tallies, NEW r \in Runs, Worker(r)
  PROVE  /\ UNCHANGED <<run, slot, lpc, leaving, closed, spc, interval, sampler, generation, nextId,
                        jobs, rejected, refused, unavailable, reported, barred, inputs>>
         /\ count' \in [submitted : Nat, completed : Nat, failed : Nat, dropped : Nat]
         /\ count'.submitted = count.submitted /\ count'.dropped = count.dropped
  <1> USE DEF Tallies, lifeVars, flagVars, workerVars, sampleVars, tallyVars, messageVars, Move
  <1>1. CASE WorkerReceive(r) BY <1>1 DEF WorkerReceive
  <1>2. CASE WorkerDisconnected(r) BY <1>2 DEF WorkerDisconnected
  <1>3. CASE WorkerInfer(r)
    <2>1. \/ count' = [count EXCEPT !.completed = @ + 1] \/ count' = [count EXCEPT !.failed = @ + 1]
      BY <1>3 DEF WorkerInfer
    <2> QED BY <1>3, <2>1 DEF WorkerInfer
  <1>4. CASE WorkerAdmit(r) BY <1>4 DEF WorkerAdmit
  <1>5. CASE WorkerOversize(r) BY <1>5 DEF WorkerOversize
  <1>6. CASE WorkerPost(r) BY <1>6 DEF WorkerPost
  <1>7. CASE WorkerNext(r) BY <1>7 DEF WorkerNext
  <1>8. CASE WorkerPanic(r) BY <1>8 DEF WorkerPanic
  <1>9. CASE WorkerHalt(r) BY <1>9 DEF WorkerHalt
  <1> QED BY <1>1, <1>2, <1>3, <1>4, <1>5, <1>6, <1>7, <1>8, <1>9 DEF Worker

\* What the steps of start() and stop() leave alone when they do not begin a run.
LEMMA LifeFrame ==
  ASSUME Start \/ StartFails \/ Stop \/ StopJoined \/ \E r \in Runs : StopFromHandler(r)
  PROVE  /\ UNCHANGED <<run, queue, wpc, job, spc, interval, generation, nextId, jobs, count, doubled,
                        rejected, refused, posted, fatal, unavailable, reported>>
         /\ open' \subseteq open /\ closed \subseteq closed' /\ stop \subseteq stop'
         /\ stop' \subseteq stop \union closed' /\ open \subseteq open' \union closed'
  <1> USE DEF lifeVars, flagVars, workerVars, sampleVars, tallyVars, messageVars, Close
  <1>1. CASE Start BY <1>1 DEF Start
  <1>2. CASE StartFails BY <1>2 DEF StartFails
  <1>3. CASE Stop BY <1>3 DEF Stop
  <1>4. CASE StopJoined BY <1>4 DEF StopJoined
  <1>5. ASSUME NEW r \in Runs, StopFromHandler(r)
        PROVE  /\ UNCHANGED <<run, queue, wpc, job, spc, interval, generation, nextId, jobs, count,
                              doubled, rejected, refused, posted, fatal, unavailable, reported>>
               /\ open' = open \ {r} /\ closed' = closed \union {r} /\ stop' = stop \union {r}
    BY <1>5 DEF StopFromHandler
  <1> QED BY <1>1, <1>2, <1>3, <1>4, <1>5

\* A handler that blocks moves its worker and nothing else.
LEMMA BlockFrame ==
  ASSUME NEW r \in Runs, HandlerBlocks(r)
  PROVE  /\ UNCHANGED <<run, slot, lpc, leaving, stop, open, closed, queue, job, spc, interval,
                        sampler, generation, nextId, jobs, count, doubled, rejected, refused,
                        posted, fatal, unavailable, reported>>
         /\ wpc[r] \in {"emit", "posted", "fatal"} /\ wpc' = [wpc EXCEPT ![r] = "blocked"]
  BY DEF HandlerBlocks, InHandler, Move, lifeVars, flagVars, sampleVars, tallyVars, messageVars

\* Only the streaming thread stands between the channel and the counter, and only
\* while the element plays.
LEMMA BetweenStep ==
  ASSUME IInv, Between, [Next]_vars
  PROVE  Between'
  <1> USE DEF Between, Playing, lifeVars, flagVars, workerVars, sampleVars, tallyVars, messageVars
  <1>0. Tallies BY DEF IInv, Typed
  <1>1. CASE Start BY <1>1 DEF Start
  <1>2. CASE StartRun BY <1>2 DEF StartRun
  <1>3. CASE StartFails BY <1>3 DEF StartFails
  <1>4. CASE Stop BY <1>4 DEF Stop
  <1>5. CASE StopJoined BY <1>5 DEF StopJoined
  <1>6. CASE CountSubmitted BY <1>6 DEF CountSubmitted
  <1>7. CASE ResetGeneration BY <1>7 DEF ResetGeneration
  <1>8. ASSUME NEW pts \in Pts, FrameSkipped(pts) PROVE Between' BY <1>8 DEF FrameSkipped, Sample
  <1>9. ASSUME NEW pts \in Pts, FrameTooLarge(pts) PROVE Between' BY <1>9 DEF FrameTooLarge, Sample
  <1>10. ASSUME NEW pts \in Pts, FrameOffered(pts) PROVE Between' BY <1>10 DEF FrameOffered, Sample
  <1>11. ASSUME NEW r \in Runs, Worker(r) PROVE Between' BY <1>0, <1>11, WorkerFrame
  <1>12. ASSUME NEW r \in Runs, StopFromHandler(r) PROVE Between' BY <1>12 DEF StopFromHandler
  <1>13. ASSUME NEW r \in Runs, HandlerBlocks(r) PROVE Between' BY <1>13, BlockFrame
  <1>14. CASE UNCHANGED vars BY <1>14 DEF vars
  <1> QED
    BY <1>1, <1>2, <1>3, <1>4, <1>5, <1>6, <1>7, <1>8, <1>9, <1>10, <1>11, <1>12, <1>13, <1>14
    DEF Next, StartEnds, Stream

\* What an offer does: it takes a number, and is taken, dropped or refused.
LEMMA OfferIs ==
  ASSUME IInv, NEW pts \in Pts, FrameOffered(pts)
  PROVE  /\ slot = run /\ run \in Runs /\ spc = "idle" /\ nextId' = nextId + 1
         /\ UNCHANGED <<run, slot, lpc, leaving, stop, open, closed, wpc, job, doubled, rejected,
                        fatal, interval>>
         /\ \/ /\ queue[run] = <<>> /\ queue'[run] # <<>> /\ spc' = "count"
               /\ UNCHANGED <<count, refused, reported, unavailable>>
            \/ /\ count' = [count EXCEPT !.dropped = @ + 1]
               /\ UNCHANGED <<queue, spc, refused, reported, unavailable>>
            \/ /\ refused' = refused + 1 /\ ReportUnavailable /\ wpc[run] = "exited"
               /\ UNCHANGED <<queue, spc, count>>
  <1>1. /\ slot \in 1..MaxRuns /\ slot = run /\ spc = "idle" /\ nextId' = nextId + 1
        /\ UNCHANGED <<run, slot, lpc, leaving, stop, open, closed, wpc, job, doubled, rejected,
                       fatal, interval>>
    BY DEF FrameOffered, Sample, Playing, IInv, Typed, Lives, Alone, lifeVars, flagVars
  <1>2. run \in Runs BY <1>1 DEF Runs
  <1>3. queue \in [Runs -> Seq(Job)] BY DEF IInv, Typed, Works
  <1>4. CASE /\ HasRoom(slot) /\ spc' = "count" /\ UNCHANGED <<count, refused, reported, unavailable>>
             /\ queue' = [queue EXCEPT ![slot] = Append(@, [id |-> nextId, outcome |-> "none"])]
    <2>1. queue[run] = <<>> BY <1>1, <1>4 DEF HasRoom
    <2>2. queue'[run] = Append(<<>>, [id |-> nextId, outcome |-> "none"]) BY <1>1, <1>2, <1>3, <1>4, <2>1
    <2>3. queue'[run] # <<>> BY <2>2
    <2> QED BY <1>1, <1>2, <1>4, <2>1, <2>3
  <1>5. CASE /\ count' = [count EXCEPT !.dropped = @ + 1]
             /\ UNCHANGED <<queue, spc, refused, reported, unavailable>>
    BY <1>1, <1>2, <1>5
  <1>6. CASE /\ wpc[slot] = "exited" /\ refused' = refused + 1 /\ ReportUnavailable
             /\ UNCHANGED <<queue, spc, count>>
    BY <1>1, <1>2, <1>6
  <1> QED BY <1>4, <1>5, <1>6 DEF FrameOffered

\* Every request of the run was taken, dropped or refused.
LEMMA FramesToldStep ==
  ASSUME OcrsAssumption, IInv, Between, FramesTold, [Next]_vars
  PROVE  FramesTold'
  <1>0. /\ Tallies /\ nextId \in Nat /\ count.submitted \in Nat /\ count.dropped \in Nat
        /\ refused \in Nat /\ count.completed \in Nat /\ count.failed \in Nat
        /\ count \in [submitted : Nat, completed : Nat, failed : Nat, dropped : Nat]
    BY DEF IInv, Typed, Samples, Tallies
  <1>a. Taken \in Nat BY <1>0 DEF Taken
  <1> DEFINE s == count.submitted  d == count.dropped
  <1>b. s \in Nat /\ d \in Nat /\ refused \in Nat /\ nextId \in Nat /\ Taken + d + refused + 1 = nextId
    BY <1>0 DEF FramesTold
  <1>f. ASSUME UNCHANGED <<count, spc, refused, nextId>> PROVE FramesTold'
    BY <1>f DEF FramesTold, Taken
  <1> USE DEF lifeVars, flagVars, workerVars, sampleVars, tallyVars, messageVars
  <1>1. CASE Start \/ StartFails \/ Stop \/ StopJoined \/ \E r \in Runs : StopFromHandler(r)
    <2>1. UNCHANGED <<count, spc, refused, nextId>> BY <1>1, LifeFrame
    <2> QED BY <1>f, <2>1
  <1>2. CASE StartRun
    <2>1. count' = NoCounts /\ spc' = spc /\ refused' = 0 /\ nextId' = 1 /\ lpc = "reap"
      BY <1>2 DEF StartRun, ResetRun
    <2>2. spc' # "count" BY <2>1 DEF Between
    <2>3. count'.submitted = 0 /\ count'.dropped = 0 BY <2>1 DEF NoCounts
    <2> QED BY <2>1, <2>2, <2>3 DEF FramesTold, Taken
  <1>3. CASE CountSubmitted
    <2>1. /\ spc = "count" /\ spc' = "idle" /\ count' = [count EXCEPT !.submitted = @ + 1]
          /\ refused' = refused /\ nextId' = nextId
      BY <1>3 DEF CountSubmitted
    <2>2. count'.submitted = count.submitted + 1 /\ count'.dropped = count.dropped BY <1>0, <2>1
    <2>3. Taken' = Taken BY <1>0, <2>1, <2>2 DEF Taken
    <2> QED BY <1>b, <2>1, <2>2, <2>3 DEF FramesTold
  <1>4. CASE ResetGeneration \/ \E pts \in Pts : FrameSkipped(pts)
    BY <1>4, <1>f DEF ResetGeneration, FrameSkipped, Sample
  <1>5. ASSUME NEW pts \in Pts, FrameTooLarge(pts) PROVE FramesTold'
    <2>1. count' = [count EXCEPT !.failed = @ + 1] /\ UNCHANGED <<spc, refused, nextId>>
      BY <1>5 DEF FrameTooLarge
    <2>2. count'.submitted = count.submitted /\ count'.dropped = count.dropped BY <1>0, <2>1
    <2> QED BY <2>1, <2>2 DEF FramesTold, Taken
  <1>6. ASSUME NEW pts \in Pts, FrameOffered(pts) PROVE FramesTold'
    <2>1. spc = "idle" /\ nextId' = nextId + 1 BY <1>6, OfferIs
    <2>2. CASE spc' = "count" /\ UNCHANGED <<count, refused>>
      <3>1. Taken' = Taken + 1 BY <1>0, <2>1, <2>2 DEF Taken
      <3>2. (Taken + 1) + d + refused + 1 = nextId + 1 BY <1>a, <1>b
      <3> QED BY <2>1, <2>2, <3>1, <3>2 DEF FramesTold
    <2>3. CASE count' = [count EXCEPT !.dropped = @ + 1] /\ UNCHANGED <<spc, refused>>
      <3>1. count'.submitted = count.submitted /\ count'.dropped = count.dropped + 1 BY <1>0, <2>3
      <3>2. Taken' = Taken BY <2>3, <3>1 DEF Taken
      <3>3. Taken + (d + 1) + refused + 1 = nextId + 1 BY <1>a, <1>b
      <3> QED BY <2>1, <2>3, <3>1, <3>2, <3>3 DEF FramesTold
    <2>4. CASE refused' = refused + 1 /\ UNCHANGED <<spc, count>>
      <3>1. Taken' = Taken BY <2>4 DEF Taken
      <3>2. Taken + d + (refused + 1) + 1 = nextId + 1 BY <1>a, <1>b
      <3> QED BY <2>1, <2>4, <3>1, <3>2 DEF FramesTold
    <2> QED BY <1>6, <2>2, <2>3, <2>4, OfferIs
  <1>7. ASSUME NEW r \in Runs, Worker(r) PROVE FramesTold'
    <2>1. /\ count'.submitted = count.submitted /\ count'.dropped = count.dropped
          /\ UNCHANGED <<spc, refused, nextId>>
      BY <1>0, <1>7, WorkerFrame
    <2> QED BY <2>1 DEF FramesTold, Taken
  <1>8. CASE UNCHANGED vars BY <1>8, <1>f DEF vars
  <1>9. ASSUME NEW r \in Runs, HandlerBlocks(r) PROVE FramesTold' BY <1>9, <1>f, BlockFrame
  <1> QED BY <1>1, <1>2, <1>3, <1>4, <1>5, <1>6, <1>7, <1>8, <1>9 DEF Next, StartEnds, Stream

\* A taken job is in the channel, in the engine or told, as long as nothing stops
\* the worker; and never more is told than was taken.
LEMMA OutcomesToldStep ==
  ASSUME OcrsAssumption, IInv, Between, OutcomesTold, Ends, [Next]_vars
  PROVE  OutcomesTold'
  <1>0. /\ Tallies /\ run \in Nat
        /\ count \in [submitted : Nat, completed : Nat, failed : Nat, dropped : Nat]
        /\ wpc \in [Runs -> WorkerPlaces] /\ queue \in [Runs -> Seq(Job)]
        /\ \A r \in Runs : Len(queue[r]) <= 1
    BY DEF IInv, Typed, Lives, Works, Tallies
  <1> DEFINE s == count.submitted  c == count.completed  f == count.failed
  <1>a. /\ s \in Nat /\ c \in Nat /\ f \in Nat /\ Waiting \in Nat /\ Working \in Nat
        /\ Taken \in Nat /\ doubled \in Nat /\ rejected \in Nat
    BY <1>0 DEF Taken, Waiting, Working, Tallies
  <1>b. /\ Taken + doubled + rejected >= c + f + Waiting + Working
        /\ run \notin stop => Taken + doubled + rejected = c + f + Waiting + Working
    BY DEF OutcomesTold
  <1>f. ASSUME UNCHANGED <<run, count, spc, doubled, rejected>>, Waiting' = Waiting, Working' = Working,
               stop \subseteq stop'
        PROVE  OutcomesTold'
    <2>1. Taken' = Taken BY <1>f DEF Taken
    <2> QED BY <1>b, <1>f, <2>1 DEF OutcomesTold
  <1> USE DEF lifeVars, flagVars, workerVars, sampleVars, tallyVars, messageVars
  <1>1. CASE Start \/ StartFails \/ Stop \/ StopJoined \/ \E r \in Runs : StopFromHandler(r)
    <2>1. UNCHANGED <<run, queue, wpc, count, spc, doubled, rejected>> /\ stop \subseteq stop'
      BY <1>1, LifeFrame
    <2>2. Waiting' = Waiting /\ Working' = Working BY <2>1 DEF Waiting, Working
    <2> QED BY <1>f, <2>1, <2>2
  <1>2. CASE StartRun
    <2>1. /\ count' = NoCounts /\ spc' = spc /\ doubled' = 0 /\ rejected' = 0 /\ run' = run + 1
          /\ queue' = queue /\ wpc' = [wpc EXCEPT ![run + 1] = "recv"] /\ lpc = "reap"
      BY <1>2 DEF StartRun
    <2>2. spc' # "count" BY <2>1 DEF Between
    <2>3. run + 1 \in Runs /\ run + 1 > run BY <1>0, <2>1 DEF IInv, Typed, Lives, Runs, OcrsAssumption
    <2>4. queue[run + 1] = <<>> BY <2>3 DEF IInv, Alone
    <2>5. Waiting' = 0 /\ Working' = 0 BY <1>0, <2>1, <2>3, <2>4 DEF Waiting, Working
    <2>6. count'.submitted = 0 /\ count'.completed = 0 /\ count'.failed = 0 BY <2>1 DEF NoCounts
    <2>7. Taken' = 0 BY <2>2, <2>6 DEF Taken
    <2> QED BY <2>1, <2>5, <2>6, <2>7 DEF OutcomesTold
  <1>3. CASE CountSubmitted
    <2>1. /\ spc = "count" /\ spc' = "idle" /\ count' = [count EXCEPT !.submitted = @ + 1]
          /\ UNCHANGED <<run, queue, wpc, stop, doubled, rejected>>
      BY <1>3 DEF CountSubmitted
    <2>2. /\ count'.submitted = count.submitted + 1 /\ count'.completed = count.completed
          /\ count'.failed = count.failed
      BY <1>0, <2>1
    <2>3. Taken' = Taken BY <1>0, <2>1, <2>2 DEF Taken
    <2>4. Waiting' = Waiting /\ Working' = Working BY <2>1 DEF Waiting, Working
    <2> QED BY <1>b, <2>1, <2>2, <2>3, <2>4 DEF OutcomesTold
  <1>4. CASE ResetGeneration \/ \E pts \in Pts : FrameSkipped(pts)
    <2>1. UNCHANGED <<run, queue, wpc, count, spc, stop, doubled, rejected>>
      BY <1>4 DEF ResetGeneration, FrameSkipped, Sample
    <2>2. Waiting' = Waiting /\ Working' = Working BY <2>1 DEF Waiting, Working
    <2> QED BY <1>f, <2>1, <2>2
  <1>5. ASSUME NEW pts \in Pts, FrameTooLarge(pts) PROVE OutcomesTold'
    <2>1. /\ count' = [count EXCEPT !.failed = @ + 1] /\ rejected' = rejected + 1
          /\ UNCHANGED <<run, queue, wpc, spc, stop, doubled>>
      BY <1>5 DEF FrameTooLarge
    <2>2. /\ count'.submitted = s /\ count'.completed = c /\ count'.failed = f + 1
      BY <1>0, <2>1
    <2>3. Waiting' = Waiting /\ Working' = Working /\ Taken' = Taken
      BY <2>1, <2>2 DEF Waiting, Working, Taken
    <2>4. /\ Taken + doubled + (rejected + 1) >= c + (f + 1) + Waiting + Working
          /\ run \notin stop => Taken + doubled + (rejected + 1) = c + (f + 1) + Waiting + Working
      <3> HIDE DEF c, f
      <3> QED BY <1>a, <1>b
    <2> QED BY <2>1, <2>2, <2>3, <2>4 DEF OutcomesTold
  <1>6. ASSUME NEW pts \in Pts, FrameOffered(pts) PROVE OutcomesTold'
    <2>1. /\ run \in Runs /\ spc = "idle" /\ UNCHANGED <<run, wpc, stop, doubled, rejected>>
      BY <1>6, OfferIs
    <2>2. Working' = Working BY <2>1 DEF Working
    <2>3. CASE /\ queue[run] = <<>> /\ queue'[run] # <<>> /\ spc' = "count" /\ UNCHANGED count
      <3>1. run # 0 BY <2>1 DEF Runs
      <3>2. Waiting = 0 /\ Waiting' = 1 BY <2>1, <2>3, <3>1 DEF Waiting
      <3>3. Taken' = Taken + 1 BY <1>0, <2>1, <2>3 DEF Taken
      <3>4. /\ (Taken + 1) + doubled + rejected >= c + f + 1 + Working
            /\ run \notin stop => (Taken + 1) + doubled + rejected = c + f + 1 + Working
        <4> HIDE DEF c, f
        <4> QED BY <1>a, <1>b, <3>2
      <3> QED BY <2>1, <2>2, <2>3, <3>2, <3>3, <3>4 DEF OutcomesTold
    <2>4. CASE count' = [count EXCEPT !.dropped = @ + 1] /\ UNCHANGED <<queue, spc>>
      <3>1. /\ count'.submitted = count.submitted /\ count'.completed = count.completed
            /\ count'.failed = count.failed
        BY <1>0, <2>4
      <3>2. Taken' = Taken /\ Waiting' = Waiting BY <2>1, <2>4, <3>1 DEF Taken, Waiting
      <3> QED BY <1>b, <2>1, <2>2, <3>1, <3>2 DEF OutcomesTold
    <2>5. CASE UNCHANGED <<queue, spc, count>>
      <3>1. Waiting' = Waiting BY <2>1, <2>5 DEF Waiting
      <3> QED BY <1>f, <2>1, <2>2, <2>5, <3>1
    <2> QED BY <1>6, <2>3, <2>4, <2>5, OfferIs
  <1>7. ASSUME NEW r \in Runs, Worker(r) PROVE OutcomesTold'
    <2>1. /\ count' \in [submitted : Nat, completed : Nat, failed : Nat, dropped : Nat]
          /\ count'.submitted = s /\ UNCHANGED <<run, spc, rejected, closed>>
      BY <1>0, <1>7, WorkerFrame
    <2>2. Taken' = Taken BY <2>1 DEF Taken
    <2>3. wpc[r] \notin {"none", "exited"} /\ wpc'= [wpc EXCEPT ![r] = wpc'[r]] /\ stop \subseteq stop'
          /\ \A q \in Runs : q # r => queue'[q] = queue[q]
      <3> USE <1>0 DEF Move
      <3>1. CASE WorkerReceive(r) BY <3>1 DEF WorkerReceive
      <3>2. CASE WorkerDisconnected(r) BY <3>2 DEF WorkerDisconnected
      <3>3. CASE WorkerInfer(r) BY <3>3 DEF WorkerInfer
      <3>4. CASE WorkerAdmit(r) BY <3>4 DEF WorkerAdmit
      <3>5. CASE WorkerOversize(r) BY <3>5 DEF WorkerOversize
      <3>6. CASE WorkerPost(r) BY <3>6 DEF WorkerPost
      <3>7. CASE WorkerNext(r) BY <3>7 DEF WorkerNext
      <3>8. CASE WorkerPanic(r) BY <3>8 DEF WorkerPanic
      <3>9. CASE WorkerHalt(r) BY <3>9 DEF WorkerHalt
      <3> QED BY <1>7, <3>1, <3>2, <3>3, <3>4, <3>5, <3>6, <3>7, <3>8, <3>9 DEF Worker
    <2>4. r = run /\ run # 0 /\ run \in Nat BY <1>0, <2>3 DEF IInv, Alone, Alive, Runs
    <2>5. CASE WorkerReceive(r)
      <3>1. /\ wpc[run] = "recv" /\ queue[run] # <<>> /\ queue' = [queue EXCEPT ![run] = Tail(@)]
            /\ UNCHANGED <<count, doubled, stop>>
            /\ wpc' = [wpc EXCEPT ![run] = IF run \in stop THEN "exited" ELSE "infer"]
        BY <2>4, <2>5 DEF WorkerReceive, Move
      <3>2. Tail(queue[run]) = <<>> BY <1>0, <2>4, <3>1, OneJob
      <3>3. Waiting = 1 /\ Waiting' = 0 /\ Working = 0
        BY <1>0, <2>1, <2>4, <3>1, <3>2 DEF Waiting, Working
      <3>4. Working' = IF run \in stop THEN 0 ELSE 1 BY <1>0, <2>1, <2>4, <3>1 DEF Working
      <3>5. /\ Taken + doubled + rejected >= c + f + Working'
            /\ run \notin stop => Taken + doubled + rejected = c + f + Working'
        <4> HIDE DEF c, f
        <4> QED BY <1>a, <1>b, <3>3, <3>4
      <3> QED BY <1>a, <2>1, <2>2, <3>1, <3>3, <3>4, <3>5 DEF OutcomesTold
    <2>6. CASE WorkerInfer(r)
      <3>1. /\ wpc[run] = "infer" /\ wpc' = [wpc EXCEPT ![run] = "emit"]
            /\ UNCHANGED <<queue, doubled, stop>>
            /\ \/ count' = [count EXCEPT !.completed = @ + 1] \/ count' = [count EXCEPT !.failed = @ + 1]
        BY <2>4, <2>6 DEF WorkerInfer, Move
      <3>2. Working = 1 /\ Working' = 0 /\ Waiting' = Waiting
        BY <1>0, <2>1, <2>4, <3>1 DEF Waiting, Working
      <3>3. \/ count'.completed = c + 1 /\ count'.failed = f
            \/ count'.completed = c /\ count'.failed = f + 1
        BY <1>0, <3>1
      <3>4. /\ Taken + doubled + rejected >= c + (f + 1) + Waiting
            /\ run \notin stop => Taken + doubled + rejected = c + (f + 1) + Waiting
            /\ Taken + doubled + rejected >= (c + 1) + f + Waiting
            /\ run \notin stop => Taken + doubled + rejected = (c + 1) + f + Waiting
        <4> HIDE DEF c, f
        <4> QED BY <1>a, <1>b, <3>2
      <3>5. CASE count'.completed = c + 1 /\ count'.failed = f
        <4>1. /\ (c + 1) + f + Waiting + 0 = (c + 1) + f + Waiting
          BY <1>a
        <4> QED BY <2>1, <2>2, <3>1, <3>2, <3>4, <3>5, <4>1 DEF OutcomesTold
      <3>6. CASE count'.completed = c /\ count'.failed = f + 1
        <4>1. /\ c + (f + 1) + Waiting + 0 = c + (f + 1) + Waiting
          BY <1>a
        <4> QED BY <2>1, <2>2, <3>1, <3>2, <3>4, <3>6, <4>1 DEF OutcomesTold
      <3> QED BY <3>3, <3>5, <3>6
    <2>7. CASE WorkerOversize(r) /\ r \in open
      <3>1. /\ wpc' = wpc /\ count' = [count EXCEPT !.failed = @ + 1] /\ doubled' = doubled + 1
            /\ UNCHANGED <<queue, stop>>
        BY <2>4, <2>7 DEF WorkerOversize
      <3>2. Working' = Working /\ Waiting' = Waiting BY <2>1, <3>1 DEF Waiting, Working
      <3>3. count'.completed = c /\ count'.failed = f + 1 BY <1>0, <3>1
      <3>4. /\ Taken + (doubled + 1) + rejected >= c + (f + 1) + Waiting + Working
            /\ run \notin stop => Taken + (doubled + 1) + rejected = c + (f + 1) + Waiting + Working
        <4> HIDE DEF c, f
        <4> QED BY <1>a, <1>b
      <3> QED BY <2>1, <2>2, <3>1, <3>2, <3>3, <3>4 DEF OutcomesTold
    <2>8. ASSUME wpc[r] # "infer", wpc'[r] # "infer", UNCHANGED <<queue, count, doubled>>
          PROVE  OutcomesTold'
      <3>1. Working' = Working /\ Waiting' = Waiting BY <2>1, <2>4, <2>8 DEF Working, Waiting
      <3> QED BY <1>f, <2>1, <2>3, <2>8, <3>1
    <2> USE <1>0 DEF Move
    <2>9. CASE WorkerDisconnected(r) BY <2>8, <2>9 DEF WorkerDisconnected
    <2>10. CASE WorkerAdmit(r) BY <2>8, <2>10 DEF WorkerAdmit
    <2>11. CASE WorkerOversize(r) /\ r \notin open BY <2>8, <2>11 DEF WorkerOversize
    <2>12. CASE WorkerPost(r) BY <2>8, <2>12 DEF WorkerPost
    <2>13. CASE WorkerNext(r) BY <2>8, <2>13 DEF WorkerNext, AfterPost
    <2>14. CASE WorkerPanic(r) BY <2>8, <2>14 DEF WorkerPanic
    <2>15. CASE WorkerHalt(r) BY <2>8, <2>15 DEF WorkerHalt
    <2> QED BY <1>7, <2>5, <2>6, <2>7, <2>9, <2>10, <2>11, <2>12, <2>13, <2>14, <2>15 DEF Worker
  <1>8. CASE UNCHANGED vars
    <2>1. UNCHANGED <<run, queue, wpc, count, spc, stop, doubled, rejected>> BY <1>8 DEF vars
    <2>2. Waiting' = Waiting /\ Working' = Working BY <2>1 DEF Waiting, Working
    <2> QED BY <1>f, <2>1, <2>2
  <1>9. ASSUME NEW r \in Runs, HandlerBlocks(r) PROVE OutcomesTold'
    <2>1. /\ UNCHANGED <<run, queue, count, spc, stop, doubled, rejected>>
          /\ wpc[r] \in {"emit", "posted", "fatal"} /\ wpc' = [wpc EXCEPT ![r] = "blocked"]
      BY <1>9, BlockFrame
    <2>2. run # 0 => (wpc'[run] = "infer" <=> wpc[run] = "infer")
      <3>1. wpc \in [Runs -> WorkerPlaces] BY <1>0 DEF IInv, Typed, Works
      <3> QED BY <2>1, <3>1
    <2>3. Waiting' = Waiting /\ Working' = Working BY <2>1, <2>2 DEF Waiting, Working
    <2> QED BY <1>f, <2>1, <2>3
  <1> QED BY <1>1, <1>2, <1>3, <1>4, <1>5, <1>6, <1>7, <1>8, <1>9 DEF Next, StartEnds, Stream

\* A flag that ends a run was raised by stop() or by a worker that ended.
LEMMA EndsStep ==
  ASSUME OcrsAssumption, IInv, Ends, Reports, [Next]_vars
  PROVE  Ends'
  <1>0. /\ run \in Nat /\ wpc \in [Runs -> WorkerPlaces] /\ fatal \in [Runs -> {0, 1}]
        /\ unavailable \in [Runs -> {0, 1}] /\ Tallies /\ Runs \subseteq Nat
        /\ \A r \in Runs : Alive(r) => r = run
    BY DEF IInv, Typed, Lives, Works, Alone, Reports, Runs
  <1> USE DEF Ends, lifeVars, flagVars, workerVars, sampleVars, tallyVars, messageVars
  <1>1. CASE Start \/ StartFails \/ Stop \/ StopJoined \/ \E r \in Runs : StopFromHandler(r)
    <2>1. /\ UNCHANGED <<run, wpc, fatal, unavailable>> /\ closed \subseteq closed'
          /\ open' \subseteq open /\ open \subseteq open' \union closed'
          /\ stop \subseteq stop' /\ stop' \subseteq stop \union closed'
      BY <1>1, LifeFrame
    <2>2. stop' \subseteq stop \union {run}
      <3>1. CASE Start \/ StartFails \/ StopJoined BY <3>1 DEF Start, StartFails, StopJoined
      <3>2. CASE Stop BY <3>2 DEF Stop, Close, IInv, Alone
      <3>3. ASSUME NEW r \in Runs, StopFromHandler(r) PROVE stop' \subseteq stop \union {run}
        BY <1>0, <3>3 DEF StopFromHandler, InHandler, Close, Alive
      <3> QED BY <1>1, <3>1, <3>2, <3>3
    <2>3. \A r \in Runs : r > run => r \notin stop' BY <1>0, <2>2
    <2> QED BY <2>1, <2>3
  <1>2. CASE StartRun
    <2>1. /\ run' = run + 1 /\ wpc' = [wpc EXCEPT ![run + 1] = "recv"] /\ open' = open \union {run + 1}
          /\ UNCHANGED <<closed, stop, fatal, unavailable>>
      BY <1>2 DEF StartRun
    <2>2. /\ \A r \in Runs : r > run + 1 => r > run /\ r # run + 1
          /\ \A r \in Runs : r <= run + 1 => r <= run \/ r = run + 1
          /\ \A r \in Runs : r = run + 1 => r > run
      BY <1>0
    <2>3. \A r \in Runs : wpc'[r] = IF r = run + 1 THEN "recv" ELSE wpc[r] BY <1>0, <2>1
    <2>4. \A r \in Runs : r \in stop => r \in closed \/ wpc'[r] = "exited" BY <2>2, <2>3
    <2>5. \A r \in Runs : r <= run' /\ r \notin open' => r \in closed \/ fatal[r] = 1 BY <2>1, <2>2
    <2>6. \A r \in Runs : r \in open' \/ r > run' => fatal[r] = 0 BY <2>1, <2>2
    <2>7. \A r \in Runs : r > run' => wpc'[r] = "none" /\ unavailable[r] = 0 /\ r \notin stop
      BY <2>1, <2>2, <2>3
    <2>8. \A r \in Runs : wpc'[r] = "fatal" => r \notin open'
      <3>1. \A r \in Runs : wpc'[r] = "fatal" => r # run + 1 /\ wpc[r] = "fatal" BY <2>3
      <3> QED BY <2>1, <3>1
    <2> QED BY <2>1, <2>4, <2>5, <2>6, <2>7, <2>8
  <1>3. CASE CountSubmitted BY <1>3 DEF CountSubmitted
  <1>4. CASE ResetGeneration BY <1>4 DEF ResetGeneration
  <1>5. ASSUME NEW pts \in Pts, FrameSkipped(pts) \/ FrameTooLarge(pts) PROVE Ends'
    BY <1>5 DEF FrameSkipped, FrameTooLarge
  <1>6. ASSUME NEW pts \in Pts, FrameOffered(pts) PROVE Ends'
    <2>1. /\ slot = run /\ UNCHANGED <<run, slot, stop, open, closed, wpc, fatal>>
          /\ UNCHANGED unavailable \/ ReportUnavailable
      BY <1>6, OfferIs
    <2>2. \A r \in Runs : r > run => unavailable'[r] = unavailable[r]
      <3>1. \A r \in Runs : r > run => r # run BY <1>0
      <3> QED BY <1>0, <2>1, <3>1 DEF ReportUnavailable
    <2> QED BY <2>1, <2>2
  <1>7. ASSUME NEW r \in Runs, Worker(r) PROVE Ends'
    <2>1. UNCHANGED <<run, closed, unavailable>> BY <1>0, <1>7, WorkerFrame
    <2>2. ASSUME NEW label \in WorkerPlaces, wpc[r] \notin {"none", "exited"}, label # "none",
                 wpc' = [wpc EXCEPT ![r] = label],
                 UNCHANGED <<stop, open, fatal>>, label # "fatal"
          PROVE  Ends'
      <3>1. r = run BY <1>0, <2>2 DEF Alive
      <3>2. \A q \in Runs : wpc'[q] = IF q = r THEN label ELSE wpc[q] BY <1>0, <2>2
      <3>3. \A q \in Runs : q > run => q # r BY <1>0, <3>1
      <3>4. r \in stop => r \in closed BY <2>2
      <3> QED BY <2>1, <2>2, <3>2, <3>3, <3>4
    <2> USE DEF Move
    <2>3. CASE WorkerReceive(r)
      <3>1. CASE r \in stop BY <2>2, <2>3, <3>1 DEF WorkerReceive, WorkerPlaces
      <3>2. CASE r \notin stop BY <2>2, <2>3, <3>2 DEF WorkerReceive, WorkerPlaces
      <3> QED BY <3>1, <3>2
    <2>4. CASE WorkerDisconnected(r) BY <2>2, <2>4 DEF WorkerDisconnected, WorkerPlaces
    <2>5. CASE WorkerInfer(r) BY <2>2, <2>5 DEF WorkerInfer, WorkerPlaces
    <2>6. CASE WorkerAdmit(r)
      <3>1. CASE r \in open BY <2>2, <2>6, <3>1 DEF WorkerAdmit, WorkerPlaces
      <3>2. CASE r \notin open BY <2>2, <2>6, <3>2 DEF WorkerAdmit, WorkerPlaces
      <3> QED BY <3>1, <3>2
    <2>7. CASE WorkerOversize(r)
      <3>1. CASE r \in open BY <2>1, <2>7, <3>1 DEF WorkerOversize
      <3>2. CASE r \notin open BY <2>2, <2>7, <3>2 DEF WorkerOversize, WorkerPlaces
      <3> QED BY <3>1, <3>2
    <2>8. CASE WorkerPost(r) BY <2>2, <2>8 DEF WorkerPost, WorkerPlaces
    <2>9. CASE WorkerNext(r) BY <2>2, <2>9 DEF WorkerNext, AfterPost, WorkerPlaces
    <2>10. CASE WorkerPanic(r)
      <3>1. /\ wpc[r] = "emit" /\ open' = open \ {r} /\ wpc' = [wpc EXCEPT ![r] = "fatal"]
            /\ fatal' = [fatal EXCEPT ![r] = IF r \in open THEN @ + 1 ELSE @] /\ stop' = stop
        BY <2>10 DEF WorkerPanic
      <3>2. r = run BY <1>0, <3>1 DEF Alive
      <3>3. \A q \in Runs : wpc'[q] = IF q = r THEN "fatal" ELSE wpc[q] BY <1>0, <3>1
      <3>4. \A q \in Runs : q # r => fatal'[q] = fatal[q] BY <1>0, <3>1
      <3>5. fatal'[r] = IF r \in open THEN 1 ELSE fatal[r] BY <1>0, <3>1
      <3>6. r \in closed \/ fatal'[r] = 1
        <4>1. r <= run BY <1>0, <3>2
        <4> QED BY <3>5, <4>1
      <3>7. \A q \in Runs : q > run => q # r BY <1>0, <3>2
      <3>8. r \in stop => r \in closed BY <3>1
      <3> QED BY <2>1, <3>1, <3>3, <3>4, <3>6, <3>7, <3>8
    <2>11. CASE WorkerHalt(r)
      <3>1. /\ wpc[r] = "fatal" /\ stop' = stop \union {r} /\ wpc' = [wpc EXCEPT ![r] = "exited"]
            /\ UNCHANGED <<open, fatal>>
        BY <2>11 DEF WorkerHalt
      <3>2. r = run BY <1>0, <3>1 DEF Alive
      <3>3. \A q \in Runs : wpc'[q] = IF q = r THEN "exited" ELSE wpc[q] BY <1>0, <3>1
      <3>4. \A q \in Runs : q > run => q # r BY <1>0, <3>2
      <3> QED BY <2>1, <3>1, <3>3, <3>4
    <2> QED BY <1>7, <2>3, <2>4, <2>5, <2>6, <2>7, <2>8, <2>9, <2>10, <2>11 DEF Worker
  <1>8. CASE UNCHANGED vars BY <1>8 DEF vars
  <1>9. ASSUME NEW r \in Runs, HandlerBlocks(r) PROVE Ends'
    <2>1. /\ UNCHANGED <<run, stop, open, closed, fatal, unavailable>>
          /\ wpc[r] \in {"emit", "posted", "fatal"} /\ wpc' = [wpc EXCEPT ![r] = "blocked"]
      BY <1>9, BlockFrame
    <2>2. \A q \in Runs : wpc'[q] = IF q = r THEN "blocked" ELSE wpc[q] BY <1>0, <2>1
    <2>3. r = run BY <1>0, <2>1 DEF Alive
    <2>4. \A q \in Runs : q > run => q # r BY <1>0, <2>3
    <2> QED BY <2>1, <2>2, <2>4
  <1> QED BY <1>1, <1>2, <1>3, <1>4, <1>5, <1>6, <1>7, <1>8, <1>9 DEF Next, StartEnds, Stream

\* A worker that is gone although nobody stopped the element has said why, and
\* the stream says so once.
LEMMA ReportsStep ==
  ASSUME OcrsAssumption, IInv, Ends, Reports, [Next]_vars
  PROVE  Reports'
  <1>0. /\ run \in Nat /\ wpc \in [Runs -> WorkerPlaces] /\ fatal \in [Runs -> {0, 1}]
        /\ unavailable \in [Runs -> {0, 1}] /\ Tallies /\ Runs \subseteq Nat
        /\ \A r \in Runs : Alive(r) => r = run
    BY DEF IInv, Typed, Lives, Works, Alone, Reports, Runs
  <1> USE DEF Reports, lifeVars, flagVars, workerVars, sampleVars, tallyVars, messageVars
  <1>1. CASE Start \/ StartFails \/ Stop \/ StopJoined \/ \E r \in Runs : StopFromHandler(r)
    <2>1. UNCHANGED <<run, wpc, fatal, unavailable, reported>> /\ closed \subseteq closed'
      BY <1>1, LifeFrame
    <2> QED BY <2>1
  <1>2. CASE StartRun
    <2>1. /\ run' = run + 1 /\ wpc' = [wpc EXCEPT ![run + 1] = "recv"]
          /\ UNCHANGED <<closed, fatal, unavailable>>
      BY <1>2 DEF StartRun
    <2>2. \A r \in Runs : r = run + 1 => unavailable[r] # 1 BY <1>0 DEF Ends
    <2>3. \A r \in Runs : wpc'[r] = "exited" => wpc[r] = "exited" BY <1>0, <2>1
    <2> QED BY <2>1, <2>2, <2>3
  <1>3. CASE CountSubmitted BY <1>3 DEF CountSubmitted
  <1>4. CASE ResetGeneration BY <1>4 DEF ResetGeneration
  <1>5. ASSUME NEW pts \in Pts, FrameSkipped(pts) \/ FrameTooLarge(pts) PROVE Reports'
    BY <1>5 DEF FrameSkipped, FrameTooLarge
  <1>6. ASSUME NEW pts \in Pts, FrameOffered(pts) PROVE Reports'
    <2>1. /\ slot = run /\ run \in Runs /\ UNCHANGED <<run, slot, closed, wpc, fatal>>
          /\ UNCHANGED <<reported, unavailable>> \/ ReportUnavailable
      BY <1>6, OfferIs
    <2>2. CASE UNCHANGED <<reported, unavailable>> BY <2>1, <2>2
    <2>3. CASE ReportUnavailable
      <3>1. /\ reported' = TRUE
            /\ unavailable' = [unavailable EXCEPT ![run] = IF reported THEN @ ELSE @ + 1]
        BY <2>1, <2>3 DEF ReportUnavailable
      <3>2. ~reported => unavailable[run] = 0 BY <1>0, <2>1
      <3>3. unavailable' \in [Runs -> {0, 1}] BY <1>0, <2>1, <3>1, <3>2
      <3> QED BY <2>1, <3>1, <3>3
    <2> QED BY <2>1, <2>2, <2>3
  <1>7. ASSUME NEW r \in Runs, Worker(r) PROVE Reports'
    <2>1. UNCHANGED <<run, closed, unavailable, reported>> BY <1>0, <1>7, WorkerFrame
    <2>2. ASSUME NEW label \in WorkerPlaces, wpc' = [wpc EXCEPT ![r] = label], UNCHANGED fatal,
                 label = "exited" /\ r \notin closed => fatal[r] = 1
          PROVE  Reports'
      <3>1. \A q \in Runs : wpc'[q] = IF q = r THEN label ELSE wpc[q] BY <1>0, <2>2
      <3> QED BY <2>1, <2>2, <3>1
    <2> USE DEF Move
    <2>3. CASE WorkerReceive(r)
      <3>1. CASE r \in stop
        <4>1. r \in closed BY <2>3, <3>1 DEF WorkerReceive, Ends
        <4> QED BY <2>2, <2>3, <3>1, <4>1 DEF WorkerReceive, WorkerPlaces
      <3>2. CASE r \notin stop BY <2>2, <2>3, <3>2 DEF WorkerReceive, WorkerPlaces
      <3> QED BY <3>1, <3>2
    <2>4. CASE WorkerDisconnected(r) BY <2>2, <2>4 DEF WorkerDisconnected, WorkerPlaces
    <2>5. CASE WorkerInfer(r) BY <2>2, <2>5 DEF WorkerInfer, WorkerPlaces
    <2>6. CASE WorkerAdmit(r)
      <3>1. CASE r \in open BY <2>2, <2>6, <3>1 DEF WorkerAdmit, WorkerPlaces
      <3>2. CASE r \notin open BY <2>2, <2>6, <3>2 DEF WorkerAdmit, WorkerPlaces
      <3> QED BY <3>1, <3>2
    <2>7. CASE WorkerOversize(r)
      <3>1. CASE r \in open BY <2>1, <2>7, <3>1 DEF WorkerOversize
      <3>2. CASE r \notin open BY <2>2, <2>7, <3>2 DEF WorkerOversize, WorkerPlaces
      <3> QED BY <3>1, <3>2
    <2>8. CASE WorkerPost(r) BY <2>2, <2>8 DEF WorkerPost, WorkerPlaces
    <2>9. CASE WorkerNext(r) BY <2>2, <2>9 DEF WorkerNext, AfterPost, WorkerPlaces
    <2>10. CASE WorkerPanic(r)
      <3>1. /\ wpc' = [wpc EXCEPT ![r] = "fatal"]
            /\ fatal' = [fatal EXCEPT ![r] = IF r \in open THEN @ + 1 ELSE @]
        BY <2>10 DEF WorkerPanic
      <3>2. r \in open => fatal[r] = 0 BY DEF Ends
      <3>3. fatal' \in [Runs -> {0, 1}] BY <1>0, <3>1, <3>2
      <3>4. \A q \in Runs : wpc'[q] = IF q = r THEN "fatal" ELSE wpc[q] BY <1>0, <3>1
      <3>5. \A q \in Runs : q # r => fatal'[q] = fatal[q] BY <1>0, <3>1
      <3> QED BY <2>1, <3>3, <3>4, <3>5
    <2>11. CASE WorkerHalt(r)
      <3>1. wpc[r] = "fatal" /\ wpc' = [wpc EXCEPT ![r] = "exited"] /\ UNCHANGED fatal
        BY <2>11 DEF WorkerHalt
      <3>2. r <= run BY <1>0, <3>1 DEF Alive
      <3>3. r \in closed \/ fatal[r] = 1 BY <3>1, <3>2 DEF Ends
      <3> QED BY <2>2, <3>1, <3>3 DEF WorkerPlaces
    <2> QED BY <1>7, <2>3, <2>4, <2>5, <2>6, <2>7, <2>8, <2>9, <2>10, <2>11 DEF Worker
  <1>8. CASE UNCHANGED vars BY <1>8 DEF vars
  <1>9. ASSUME NEW r \in Runs, HandlerBlocks(r) PROVE Reports'
    <2>1. /\ UNCHANGED <<run, closed, fatal, unavailable, reported>>
          /\ wpc' = [wpc EXCEPT ![r] = "blocked"]
      BY <1>9, BlockFrame
    <2>2. \A q \in Runs : wpc'[q] = IF q = r THEN "blocked" ELSE wpc[q] BY <1>0, <2>1
    <2> QED BY <2>1, <2>2
  <1> QED BY <1>1, <1>2, <1>3, <1>4, <1>5, <1>6, <1>7, <1>8, <1>9 DEF Next, StartEnds, Stream

\* A timestamp is none or a number, so that the frames of a generation are compared
\* with the last that counted.
LEMMA Timestamps ==
  ASSUME OcrsAssumption
  PROVE  /\ Intervals \subseteq Nat /\ {} \in Pts
         /\ \A pts \in Pts : \A p, q \in pts : p = q /\ p \in Nat
  BY DEF OcrsAssumption, Pts

\* What a buffer that reaches the sampler leaves of the generation and its frames:
\* a backward jump begins a generation, and otherwise what was selected and the
\* last timestamps only grow.
LEMMA SampleIs ==
  ASSUME OcrsAssumption, Samples, Spaced, Playing, NEW pts \in Pts, Due(pts) \/ ~Due(pts),
         sampler' = SamplerAfter(pts), interval' = interval,
         generation' = IF Backward(pts) THEN generation + 1 ELSE generation
  PROVE  \A k \in 1..Len(jobs) : jobs[k].generation = generation' =>
           /\ generation' = generation
           /\ interval # 0 => sampler'.selected
           /\ \A p \in jobs[k].pts :
                \E q \in IF interval = 0 THEN sampler'.seen ELSE sampler'.at : p <= q
           /\ Due(pts) => \A p \in jobs[k].pts, q \in pts : q >= p + interval
  <1>0. /\ interval \in Nat /\ generation \in Nat /\ jobs \in Seq(Jobs)
        /\ sampler.seen \in Pts /\ sampler.at \in Pts
    BY Timestamps DEF Samples, Spaced
  <1> SUFFICES ASSUME NEW k \in 1..Len(jobs), jobs[k].generation = generation'
               PROVE  /\ generation' = generation
                      /\ interval # 0 => sampler'.selected
                      /\ \A p \in jobs[k].pts :
                           \E q \in IF interval = 0 THEN sampler'.seen ELSE sampler'.at : p <= q
                      /\ Due(pts) => \A p \in jobs[k].pts, q \in pts : q >= p + interval
    OBVIOUS
  <1>1. jobs[k] \in Jobs BY <1>0
  <1>2. jobs[k].generation \in Nat /\ jobs[k].pts \in Pts /\ jobs[k].generation <= generation
    BY <1>1 DEF Jobs, Spaced
  <1>3. ~Backward(pts) /\ generation' = generation BY <1>0, <1>2
  <1>4. Sampled(pts) = sampler BY <1>3 DEF Sampled
  <1>5. /\ interval # 0 => sampler.selected
        /\ \A p \in jobs[k].pts : \E q \in IF interval = 0 THEN sampler.seen ELSE sampler.at : p <= q
    BY <1>3 DEF Spaced
  <1>6. /\ sampler'.seen = (IF pts = {} THEN sampler.seen ELSE pts)
        /\ sampler'.selected = (sampler.selected \/ (Due(pts) /\ interval # 0))
        /\ sampler'.at = (IF Due(pts) /\ interval # 0 /\ pts # {} THEN pts ELSE sampler.at)
    BY <1>4 DEF SamplerAfter, SeenAfter
  <1>7. \A p \in pts, q \in sampler.seen : p >= q BY <1>0, <1>3, Timestamps DEF Backward
  <1>8. Due(pts) /\ interval # 0 => \A p \in pts, q \in sampler.at : p >= q + interval
    BY <1>4, <1>5 DEF Due
  <1>9. \A p \in jobs[k].pts : p \in Nat BY <1>2, Timestamps
  <1>10. \A p \in pts : p \in Nat BY Timestamps
  <1>11. (\A q \in sampler.seen : q \in Nat) /\ \A q \in sampler.at : q \in Nat BY <1>0, Timestamps
  <1>12. interval # 0 => sampler'.selected BY <1>5, <1>6
  <1>13. ASSUME NEW p \in jobs[k].pts
         PROVE  /\ \E q \in IF interval = 0 THEN sampler'.seen ELSE sampler'.at : p <= q
                /\ Due(pts) => \A q \in pts : q >= p + interval
    <2>1. CASE interval = 0
      <3>1. PICK q \in sampler.seen : p <= q BY <1>5, <1>13, <2>1
      <3>2. ASSUME NEW r \in pts PROVE p <= r /\ r >= p + interval
        <4>1. r >= q /\ r \in Nat /\ q \in Nat /\ p \in Nat BY <1>7, <1>9, <1>10, <1>11, <3>1, <3>2
        <4> QED BY <2>1, <3>1, <4>1
      <3>3. \E r \in sampler'.seen : p <= r
        <4>1. CASE pts = {} BY <1>6, <3>1, <4>1
        <4>2. CASE pts # {} BY <1>6, <3>2, <4>2
        <4> QED BY <4>1, <4>2
      <3> QED BY <2>1, <3>2, <3>3
    <2>2. CASE interval # 0
      <3>1. PICK q \in sampler.at : p <= q BY <1>5, <1>13, <2>2
      <3>2. ASSUME NEW r \in pts, Due(pts) PROVE p <= r /\ r >= p + interval
        <4>1. r >= q + interval /\ r \in Nat /\ q \in Nat /\ p \in Nat
          BY <1>8, <1>9, <1>10, <1>11, <2>2, <3>1, <3>2
        <4> QED BY <1>0, <3>1, <4>1
      <3>3. \E r \in sampler'.at : p <= r
        <4>1. CASE Due(pts) /\ pts # {} BY <1>6, <2>2, <3>2, <4>1
        <4>2. CASE ~(Due(pts) /\ pts # {}) BY <1>6, <2>2, <3>1, <4>2
        <4> QED BY <4>1, <4>2
      <3> QED BY <2>2, <3>2, <3>3
    <2> QED BY <2>1, <2>2
  <1> QED BY <1>3, <1>12, <1>13

\* The frames of a generation stand behind the sampler, and keep their distance.
LEMMA SpacedStep ==
  ASSUME OcrsAssumption, IInv, Spaced, SampledApart, [Next]_vars
  PROVE  Spaced' /\ SampledApart'
  <1>0. /\ generation \in Nat /\ interval \in Nat /\ jobs \in Seq(Jobs) /\ Samples /\ Tallies
        /\ \A k \in 1..Len(jobs) : jobs[k] \in Jobs /\ jobs[k].generation \in Nat
    <2>1. Samples /\ Tallies /\ jobs \in Seq(Jobs) BY DEF IInv, Typed, Spaced
    <2>2. \A k \in 1..Len(jobs) : jobs[k] \in Jobs BY <2>1
    <2> QED BY <2>1, <2>2, Timestamps DEF Samples, Jobs
  <1>f. ASSUME UNCHANGED <<jobs, generation, interval, sampler>>, Playing' => Playing
        PROVE  Spaced' /\ SampledApart'
    BY <1>f DEF Spaced, SampledApart
  <1>g. ASSUME UNCHANGED <<jobs, generation, interval>>, ~Playing' PROVE Spaced' /\ SampledApart'
    BY <1>g DEF Spaced, SampledApart
  <1> USE DEF lifeVars, flagVars, workerVars, sampleVars, tallyVars, messageVars
  <1>1. CASE Start BY <1>1, <1>g DEF Start, Playing
  <1>2. CASE StartRun
    <2>1. jobs' = <<>> BY <1>2 DEF StartRun
    <2>2. jobs' \in Seq(Jobs) /\ Len(jobs') = 0 BY <2>1
    <2>3. 1..Len(jobs') = {} BY <2>2
    <2> QED BY <2>2, <2>3 DEF Spaced, SampledApart
  <1>3. CASE StartFails
    <2>1. UNCHANGED <<jobs, generation, interval, sampler, slot, closed>> BY <1>3 DEF StartFails
    <2> QED BY <1>f, <2>1 DEF Playing
  <1>4. CASE Stop BY <1>4, <1>g DEF Stop, Playing
  <1>5. CASE StopJoined
    <2>1. slot = 0 /\ UNCHANGED <<jobs, generation, interval, slot>>
      BY <1>5 DEF StopJoined, IInv, Alone
    <2> QED BY <1>g, <2>1 DEF Playing
  <1>6. CASE CountSubmitted BY <1>6, <1>f DEF CountSubmitted, Playing
  <1>7. CASE ResetGeneration
    <2>1. UNCHANGED <<jobs, interval>> /\ generation' = generation + 1 BY <1>7 DEF ResetGeneration
    <2>2. \A k \in 1..Len(jobs) : jobs[k].generation <= generation' /\ jobs[k].generation # generation'
      BY <1>0, <2>1 DEF Spaced
    <2> QED BY <1>0, <2>1, <2>2 DEF Spaced, SampledApart
  <1>8. ASSUME NEW pts \in Pts, Sample(pts), jobs' = jobs, UNCHANGED <<lifeVars, flagVars>>
        PROVE  Spaced' /\ SampledApart'
    <2>1. /\ sampler' = SamplerAfter(pts) /\ interval' = interval /\ Playing
          /\ generation' = IF Backward(pts) THEN generation + 1 ELSE generation
      BY <1>8 DEF Sample
    <2>2. generation' >= generation /\ generation' \in Nat BY <1>0, <2>1
    <2>3. \A k \in 1..Len(jobs) : jobs[k].generation <= generation' BY <1>0, <2>2 DEF Spaced
    <2>4. \A k \in 1..Len(jobs) : jobs[k].generation = generation' =>
            /\ interval # 0 => sampler'.selected
            /\ \A p \in jobs[k].pts :
                 \E q \in IF interval = 0 THEN sampler'.seen ELSE sampler'.at : p <= q
      BY <1>0, <2>1, SampleIs
    <2>5. Spaced' BY <1>0, <1>8, <2>1, <2>3, <2>4 DEF Spaced
    <2> QED BY <1>8, <2>1, <2>5 DEF SampledApart
  <1>9. ASSUME NEW pts \in Pts, FrameSkipped(pts) \/ FrameTooLarge(pts) PROVE Spaced' /\ SampledApart'
    BY <1>8, <1>9 DEF FrameSkipped, FrameTooLarge
  <1>10. ASSUME NEW pts \in Pts, FrameOffered(pts) PROVE Spaced' /\ SampledApart'
    <2> DEFINE new == [generation |-> generation', pts |-> pts]  n == Len(jobs)
    <2>1. /\ sampler' = SamplerAfter(pts) /\ interval' = interval /\ Playing /\ Due(pts)
          /\ generation' = IF Backward(pts) THEN generation + 1 ELSE generation
          /\ jobs' = Append(jobs, new)
      BY <1>10 DEF FrameOffered, Sample
    <2>2. generation' >= generation /\ generation' \in Nat /\ new \in Jobs BY <1>0, <2>1 DEF Jobs
    <2>3. /\ jobs' \in Seq(Jobs) /\ Len(jobs') = n + 1 /\ jobs'[n + 1] = new /\ n \in Nat
          /\ \A k \in 1..n : jobs'[k] = jobs[k]
      BY <1>0, <2>1, <2>2, RangeGrows
    <2>4. \A k \in 1..n : jobs[k].generation = generation' =>
            /\ interval # 0 => sampler'.selected
            /\ \A p \in jobs[k].pts :
                 \E q \in IF interval = 0 THEN sampler'.seen ELSE sampler'.at : p <= q
            /\ \A p \in jobs[k].pts, q \in pts : q >= p + interval
      BY <1>0, <2>1, SampleIs
    <2>5. /\ interval # 0 => sampler'.selected
          /\ \A p \in pts : \E q \in IF interval = 0 THEN sampler'.seen ELSE sampler'.at : p <= q
      <3>1. /\ sampler'.seen = SeenAfter(pts) /\ (interval # 0 => sampler'.selected)
            /\ (pts # {} => SeenAfter(pts) = pts)
            /\ (interval # 0 /\ pts # {} => sampler'.at = pts)
        BY <2>1 DEF SamplerAfter, SeenAfter
      <3>2. \A p \in pts : p <= p BY Timestamps
      <3> QED BY <3>1, <3>2
    <2>6. 1..Len(jobs') = 1..n \union {n + 1} BY <2>3
    <2> HIDE DEF n
    <2>7. Spaced'
      <3>1. \A k \in 1..n : jobs[k].generation <= generation' BY <1>0, <2>2 DEF Spaced, n
      <3>2. \A k \in 1..Len(jobs') : jobs'[k].generation <= generation'
        BY <2>2, <2>3, <2>6, <3>1
      <3>3. ASSUME NEW k \in 1..Len(jobs'), jobs'[k].generation = generation'
            PROVE  /\ interval # 0 => sampler'.selected
                   /\ \A p \in jobs'[k].pts :
                        \E q \in IF interval = 0 THEN sampler'.seen ELSE sampler'.at : p <= q
        <4>1. CASE k \in 1..n BY <2>3, <2>4, <3>3, <4>1
        <4>2. CASE k = n + 1 BY <2>3, <2>5, <4>2
        <4> QED BY <2>6, <4>1, <4>2
      <3> QED BY <2>1, <2>3, <3>2, <3>3 DEF Spaced
    <2>8. SampledApart'
      <3> SUFFICES ASSUME NEW j \in 1..Len(jobs'), NEW k \in 1..Len(jobs'), j < k,
                          jobs'[j].generation = jobs'[k].generation,
                          NEW p \in jobs'[j].pts, NEW q \in jobs'[k].pts
                   PROVE  q >= p + interval'
        BY DEF SampledApart
      <3>1. CASE k \in 1..n
        <4>1. j \in 1..n BY <2>3, <2>6, <3>1
        <4> QED BY <2>1, <2>3, <3>1, <4>1 DEF SampledApart, n
      <3>2. CASE k = n + 1
        <4>1. j \in 1..n BY <2>3, <2>6, <3>2
        <4> QED BY <2>1, <2>3, <2>4, <3>2, <4>1
      <3> QED BY <2>6, <3>1, <3>2
    <2> QED BY <2>7, <2>8
  <1>11. ASSUME NEW r \in Runs, Worker(r) PROVE Spaced' /\ SampledApart'
    BY <1>0, <1>11, <1>f, WorkerFrame DEF Playing
  <1>12. ASSUME NEW r \in Runs, StopFromHandler(r) PROVE Spaced' /\ SampledApart'
    BY <1>12, <1>g DEF StopFromHandler, Close, Playing
  <1>13. ASSUME NEW r \in Runs, HandlerBlocks(r) PROVE Spaced' /\ SampledApart'
    BY <1>13, <1>f, BlockFrame DEF Playing
  <1>14. CASE UNCHANGED vars BY <1>14, <1>f DEF vars, Playing
  <1> QED
    BY <1>1, <1>2, <1>3, <1>4, <1>5, <1>6, <1>7, <1>9, <1>10, <1>11, <1>12, <1>13, <1>14
    DEF Next, StartEnds, Stream

\* The first start finds this invariant too.
LEMMA InitAInv ==
  ASSUME OcrsAssumption, Init
  PROVE  AInv
  <1>1. IInv BY InitIInv
  <1> USE DEF Init
  <1>2. Between BY DEF Between
  <1>3. count.submitted = 0 /\ count.completed = 0 /\ count.failed = 0 /\ count.dropped = 0
    BY DEF NoCounts
  <1>4. FramesTold BY <1>3 DEF FramesTold, Taken
  <1>5. OutcomesTold BY <1>3 DEF OutcomesTold, Taken, Waiting, Working
  <1>6. Runs \subseteq Nat \ {0} BY DEF Runs
  <1>7. Ends BY <1>6 DEF Ends
  <1>8. Reports BY DEF Reports
  <1>9. jobs \in Seq(Jobs) /\ 1..Len(jobs) = {} OBVIOUS
  <1>10. Spaced /\ SampledApart BY <1>9 DEF Spaced, SampledApart
  <1> QED BY <1>1, <1>2, <1>4, <1>5, <1>7, <1>8, <1>10 DEF AInv

\* And no step breaks it.
LEMMA NextAInv ==
  ASSUME OcrsAssumption, AInv, [Next]_vars
  PROVE  AInv'
  BY NextIInv, BetweenStep, FramesToldStep, OutcomesToldStep, EndsStep, ReportsStep, SpacedStep
  DEF AInv

\* What it says of the counters.
LEMMA AInvAccounted ==
  ASSUME OcrsAssumption, AInv
  PROVE  RunAccounted /\ SampledApart
  <1>1. FramesAccounted
    <2> DEFINE s == count.submitted  c == count.completed  f == count.failed  d == count.dropped
               taken == s + (IF spc = "count" THEN 1 ELSE 0)
               ended == c + f - doubled - rejected
               inside == IF run = 0 THEN 0 ELSE Len(queue[run]) + (IF wpc[run] = "infer" THEN 1 ELSE 0)
    <2>1. /\ s \in Nat /\ c \in Nat /\ f \in Nat /\ d \in Nat /\ nextId \in Nat
          /\ doubled \in Nat /\ rejected \in Nat /\ refused \in Nat /\ taken \in Nat
      BY DEF AInv, IInv, Typed, Tallies, Samples
    <2>2. taken = Taken BY DEF Taken
    <2>3. /\ taken + d + refused + 1 = nextId
          /\ taken + doubled + rejected >= c + f + Waiting + Working
          /\ run \notin stop => taken + doubled + rejected = c + f + Waiting + Working
      BY <2>2 DEF AInv, FramesTold, OutcomesTold
    <2>4. Waiting \in Nat /\ Working \in Nat /\ inside = Waiting + Working
      <3>1. CASE run = 0 BY <3>1 DEF Waiting, Working
      <3>2. CASE run # 0
        <4>1. run \in Runs BY <3>2 DEF AInv, IInv, Typed, Lives, Runs, OcrsAssumption
        <4>2. queue[run] \in Seq(Job) /\ Len(queue[run]) <= 1 BY <4>1 DEF AInv, IInv, Typed, Works
        <4>3. Len(queue[run]) = IF queue[run] = <<>> THEN 0 ELSE 1 BY <4>2, EmptySeq
        <4> QED BY <3>2, <4>3 DEF Waiting, Working
      <3> QED BY <3>1, <3>2
    <2> HIDE DEF s, c, f, d, taken, inside
    <2>5. nextId - 1 = taken + d + refused BY <2>1, <2>3
    <2>6. run # 0 /\ run \notin stop => taken = ended + inside BY <2>1, <2>3, <2>4
    <2>7. taken >= ended BY <2>1, <2>3, <2>4
    <2> QED BY <2>5, <2>6, <2>7 DEF FramesAccounted, s, c, f, d, taken, inside
  <1>2. FailuresReportedOnce BY DEF AInv, Reports, FailuresReportedOnce
  <1> QED BY <1>1, <1>2 DEF AInv, RunAccounted

\* Every frame of a run and every worker that fails is accounted for, and the
\* requests of a generation are an interval apart, whatever the engine and the
\* stream do and whoever stops the element.
THEOREM OcrsIsAccounted ==
  ASSUME OcrsAssumption
  PROVE  Spec => [](RunAccounted /\ SampledApart)
  <1>1. Init => AInv BY InitAInv
  <1>2. AInv /\ [Next]_vars => AInv' BY NextAInv
  <1>3. AInv => RunAccounted /\ SampledApart BY AInvAccounted
  <1> QED BY <1>1, <1>2, <1>3, PTL DEF Spec
=============================================================================
