------------------------------ MODULE VlmProofs ------------------------------
(***************************************************************************)
(* Proofs about VlmAnalysis, for every queue capacity, frame and batch     *)
(* limit and batch size that the settings allow, and for any number of     *)
(* runs and inputs: max-batch-bytes rejects nothing, no message mixes      *)
(* generations, and every request has exactly one fate, counted once.      *)
(*                                                                         *)
(* None is inductive.  What carries the first is that an incomplete batch  *)
(* is shorter than frames-per-request and has at most max-frame-bytes for  *)
(* each of its frames; what carries the second is that a batch has one     *)
(* generation wherever it is: in the sampler, in the channel, in the       *)
(* worker's hands and in a message.  What carries the third is the order   *)
(* of the ids along the answers, the hands and the channel, which keeps    *)
(* these three places apart, and that each counter lags what it counts by  *)
(* the one step its thread has still to take.                              *)
(***************************************************************************)
EXTENDS VlmAnalysis, FiniteSetTheorems, TLAPS

Frames == [pts : SUBSET Nat, generation : Nat]
Samplers == [seen : SUBSET Nat, at : SUBSET Nat, withoutPts : BOOLEAN,
             frames : Seq(Frames), bytes : Nat]
Batches == [id : Nat, generation : Nat, frames : Seq(Frames)]

Typed ==
  /\ setting \in Settings /\ sampler \in Samplers
  /\ generation \in Nat /\ nextId \in Nat
  /\ queue \in Seq(Batches) /\ hand \in Batches
  /\ answered \in Seq(Nat \X Nat \X Seq(Frames))

OfGeneration(frames, g) == \A k \in DOMAIN frames : frames[k].generation = g

\* An incomplete batch s, collected in generation g, has room for one more frame.
Incomplete(s, g) ==
  /\ s \in Samplers
  /\ Len(s.frames) < setting.perRequest
  /\ s.bytes <= Len(s.frames) * MaxFrameBytes
  /\ OfGeneration(s.frames, g)

BatchesApart ==
  /\ OfGeneration(hand.frames, hand.generation)
  /\ \A k \in DOMAIN queue : OfGeneration(queue[k].frames, queue[k].generation)
  /\ \A k \in DOMAIN answered : OfGeneration(answered[k][3], answered[k][2])

IInv == Typed /\ Incomplete(sampler, generation) /\ BatchesApart /\ BatchBytesSuffice
-----------------------------------------------------------------------------
\* The settings allow at least one frame, and the empty sampler is a beginning.
LEMMA FreshIncomplete ==
  ASSUME NEW s \in Settings, NEW g \in Nat
  PROVE  /\ FreshSampler \in Samplers /\ Len(FreshSampler.frames) < s.perRequest
         /\ FreshSampler.bytes <= Len(FreshSampler.frames) * MaxFrameBytes
         /\ OfGeneration(FreshSampler.frames, g)
  <1>1. s.perRequest \in Nat \ {0} /\ MaxFrameBytes \in Nat
    BY SettingsAssumption DEF Settings
  <1>2. FreshSampler.frames = <<>> /\ FreshSampler.bytes = 0 BY DEF FreshSampler
  <1>3. FreshSampler \in Samplers BY DEF FreshSampler, Samplers
  <1> QED BY <1>1, <1>2, <1>3 DEF OfGeneration

\* Timestamps are sets of naturals.
LEMMA PtsAreNaturals == Pts \subseteq SUBSET Nat
  BY VlmAssumption DEF Pts

\* A backward jump leaves nothing of the old generation in the sampler.
LEMMA SampledIncomplete ==
  ASSUME IInv, NEW pts \in Pts
  PROVE  Incomplete(Sampled(pts), GenerationAfter(pts)) /\ GenerationAfter(pts) \in Nat
  <1>1. pts \in SUBSET Nat BY PtsAreNaturals
  <1>2. CASE Backward(pts)
    <2>1. Sampled(pts) = [FreshSampler EXCEPT !.seen = pts] /\ GenerationAfter(pts) = generation + 1
      BY <1>2 DEF Sampled, GenerationAfter
    <2>2. GenerationAfter(pts) \in Nat BY <2>1 DEF IInv, Typed
    <2>2a. FreshSampler \in Samplers BY FreshIncomplete DEF IInv, Typed
    <2>3. Sampled(pts).frames = FreshSampler.frames /\ Sampled(pts).bytes = FreshSampler.bytes
          /\ Sampled(pts) \in Samplers
      BY <1>1, <2>1, <2>2a DEF Samplers
    <2> QED BY <2>2, <2>3, FreshIncomplete DEF Incomplete, IInv, Typed
  <1>3. CASE ~Backward(pts)
    <2>1. Sampled(pts) = [sampler EXCEPT !.seen = pts] /\ GenerationAfter(pts) = generation
      BY <1>3 DEF Sampled, GenerationAfter
    <2>2. Sampled(pts).frames = sampler.frames /\ Sampled(pts).bytes = sampler.bytes
          /\ Sampled(pts) \in Samplers
      BY <1>1, <2>1 DEF Samplers, IInv, Typed
    <2> QED BY <2>1, <2>2 DEF Incomplete, IInv, Typed
  <1> QED BY <1>2, <1>3

\* What the settings are for: one more frame within max-frame-bytes always fits.
LEMMA OneMoreFits ==
  ASSUME IInv, NEW pts \in Pts, NEW size \in Nat, size <= MaxFrameBytes
  PROVE  FitsBatch(pts, size)
  <1> DEFINE s == Sampled(pts)  n == Len(s.frames)  p == setting.perRequest
  <1>1. Incomplete(s, GenerationAfter(pts)) BY SampledIncomplete
  <1>2. n \in Nat /\ s.bytes \in Nat /\ n < p /\ s.bytes <= n * MaxFrameBytes
    BY <1>1 DEF Incomplete, Samplers
  <1>3. p \in Nat /\ MaxFrameBytes \in Nat /\ MaxBatchBytes \in Nat /\ p * MaxFrameBytes <= MaxBatchBytes
    BY SettingsAssumption DEF IInv, Typed, Settings
  <1>4. s.bytes + size <= (n + 1) * MaxFrameBytes
    <2> HIDE DEF n, s
    <2>1. (n + 1) * MaxFrameBytes = n * MaxFrameBytes + MaxFrameBytes /\ n * MaxFrameBytes \in Nat
      BY <1>2, <1>3
    <2> QED BY <1>2, <1>3, <2>1
  <1>5. (n + 1) * MaxFrameBytes <= p * MaxFrameBytes
    <2> HIDE DEF n, s, p
    <2>1. PICK d \in Nat : p = (n + 1) + d
      <3>1. p - (n + 1) \in Nat /\ p = (n + 1) + (p - (n + 1)) BY <1>2, <1>3
      <3> QED BY <3>1
    <2>2. p * MaxFrameBytes = (n + 1) * MaxFrameBytes + d * MaxFrameBytes BY <1>2, <1>3, <2>1
    <2>3. d * MaxFrameBytes \in Nat /\ (n + 1) * MaxFrameBytes \in Nat BY <1>2, <1>3, <2>1
    <2> QED BY <2>2, <2>3
  <1>6. (n + 1) * MaxFrameBytes \in Nat /\ p * MaxFrameBytes \in Nat BY <1>2, <1>3
  <1>7. s.bytes + size <= MaxBatchBytes
    <2> HIDE DEF n, s, p
    <2> QED BY <1>2, <1>3, <1>4, <1>5, <1>6
  <1> QED BY <1>7 DEF FitsBatch

\* The sampler after one more frame, whether or not that completes the batch.
LEMMA CollectedFrames ==
  ASSUME IInv, NEW pts \in Pts, NEW size \in Nat, size <= MaxFrameBytes
  PROVE  LET s == Collected(pts, size)
         IN /\ s \in Samplers /\ s.bytes <= Len(s.frames) * MaxFrameBytes
            /\ OfGeneration(s.frames, GenerationAfter(pts))
            /\ GenerationAfter(pts) \in Nat
  <1> DEFINE old == Sampled(pts)  s == Collected(pts, size)  g == GenerationAfter(pts)
             frame == [pts |-> pts, generation |-> g]
  <1>1. Incomplete(old, g) /\ g \in Nat BY SampledIncomplete
  <1>2. pts \in SUBSET Nat BY PtsAreNaturals
  <1>3. frame \in Frames BY <1>1, <1>2 DEF Frames
  <1>4. old \in Samplers /\ old.bytes <= Len(old.frames) * MaxFrameBytes /\ OfGeneration(old.frames, g)
    BY <1>1 DEF Incomplete
  <1>5. /\ s \in Samplers /\ s.frames = Append(old.frames, frame) /\ s.bytes = old.bytes + size
    <2> HIDE DEF old, frame
    <2>1. s = [old EXCEPT !.withoutPts = @ \/ pts = {}, !.at = IF pts = {} THEN @ ELSE pts,
                          !.frames = Append(@, frame), !.bytes = @ + size]
      BY DEF Collected, old, frame
    <2>2. Append(old.frames, frame) \in Seq(Frames) /\ old.bytes + size \in Nat
      BY <1>3, <1>4 DEF Samplers
    <2>3. (old.withoutPts \/ pts = {}) \in BOOLEAN OBVIOUS
    <2> QED BY <1>2, <1>4, <2>1, <2>2, <2>3 DEF Samplers
  <1>6. s.bytes <= Len(s.frames) * MaxFrameBytes
    <2>1. old.frames \in Seq(Frames) /\ old.bytes \in Nat BY <1>4 DEF Samplers
    <2>2. Len(s.frames) = Len(old.frames) + 1 /\ Len(old.frames) \in Nat BY <1>5, <2>1
    <2>3. MaxFrameBytes \in Nat BY SettingsAssumption
    <2> DEFINE n == Len(old.frames)
    <2>4. old.bytes <= n * MaxFrameBytes /\ n \in Nat /\ s.bytes = old.bytes + size
          /\ Len(s.frames) = n + 1
      BY <1>4, <1>5, <2>2
    <2> HIDE DEF n, old, s
    <2>5. (n + 1) * MaxFrameBytes = n * MaxFrameBytes + MaxFrameBytes /\ n * MaxFrameBytes \in Nat
      BY <2>3, <2>4
    <2> QED BY <2>1, <2>3, <2>4, <2>5
  <1>7. OfGeneration(s.frames, g)
    <2> SUFFICES ASSUME NEW k \in DOMAIN s.frames PROVE s.frames[k].generation = g
      BY DEF OfGeneration
    <2>1. old.frames \in Seq(Frames) BY <1>4 DEF Samplers
    <2> HIDE DEF old, s, frame, g
    <2>2. k \in 1..(Len(old.frames) + 1) BY <1>3, <1>5, <2>1
    <2>3. CASE k = Len(old.frames) + 1
      <3>1. s.frames[k] = frame BY <1>3, <1>5, <2>1, <2>3
      <3> QED BY <3>1 DEF frame
    <2>4. CASE k # Len(old.frames) + 1
      <3>1. k \in DOMAIN old.frames /\ s.frames[k] = old.frames[k] BY <1>3, <1>5, <2>1, <2>2, <2>4
      <3> QED BY <1>4, <3>1 DEF OfGeneration
    <2> QED BY <2>3, <2>4
  <1> QED BY <1>1, <1>5, <1>6, <1>7
-----------------------------------------------------------------------------
\* The initial sampler is empty, and nothing is queued or answered.
LEMMA InvariantInit == Init => IInv
  <1> SUFFICES ASSUME Init PROVE IInv OBVIOUS
  <1> USE DEF Init
  <1>1. NoBatch \in Batches BY DEF NoBatch, Batches
  <1>2. Incomplete(sampler, generation)
    <2>1. setting \in Settings /\ generation \in Nat /\ sampler = FreshSampler OBVIOUS
    <2> QED BY <2>1, FreshIncomplete DEF Incomplete
  <1>3. Typed BY <1>1, <1>2 DEF Typed, Incomplete
  <1>4. BatchesApart BY DEF BatchesApart, OfGeneration, NoBatch
  <1> QED BY <1>2, <1>3, <1>4 DEF IInv, BatchBytesSuffice

\* start() begins again with an empty sampler, whatever the settings have become.
LEMMA StartStep == ASSUME IInv, Start PROVE IInv'
  <1> USE DEF Start
  <1>1. NoBatch \in Batches BY DEF NoBatch, Batches
  <1>2. Incomplete(sampler, generation)'
    <2>1. setting' \in Settings /\ generation' = 1 /\ sampler' = FreshSampler OBVIOUS
    <2> QED BY <2>1, FreshIncomplete DEF Incomplete
  <1>3. Typed' BY <1>1, <1>2 DEF Typed, Incomplete
  <1>4. BatchesApart' BY DEF BatchesApart, OfGeneration, NoBatch
  <1> QED BY <1>2, <1>3, <1>4 DEF IInv, BatchBytesSuffice

\* A worker that dies takes its batch and the channel with it.
LEMMA DeathStep ==
  ASSUME IInv, WorkerDies, UNCHANGED <<setting, sampleVars, oversized, answered>>
  PROVE  IInv'
  <1> USE DEF WorkerDies, sampleVars
  <1>1. NoBatch \in Batches BY DEF NoBatch, Batches
  <1>2. Typed' BY <1>1 DEF Typed, IInv
  <1>3. BatchesApart' BY DEF BatchesApart, OfGeneration, NoBatch, IInv
  <1> QED BY <1>2, <1>3 DEF IInv, Incomplete, BatchBytesSuffice

\* stop() and the stream events empty the sampler.
LEMMA EmptyingStep ==
  ASSUME IInv, sampler' = FreshSampler, generation' \in Nat,
         UNCHANGED <<setting, nextId, queue, hand, answered, oversized>>
  PROVE  IInv'
  <1>1. Incomplete(sampler, generation)'
    <2>1. setting' \in Settings BY DEF IInv, Typed
    <2> QED BY <2>1, FreshIncomplete DEF Incomplete
  <1>2. Typed' BY <1>1 DEF Typed, IInv, Incomplete
  <1>3. BatchesApart' BY DEF BatchesApart, OfGeneration, IInv
  <1> QED BY <1>1, <1>2, <1>3 DEF IInv, BatchBytesSuffice

\* A buffer that adds no frame leaves the sampler incomplete, in its generation.
LEMMA SkippingStep ==
  ASSUME IInv, NEW pts \in Pts, Buffer(pts), sampler' = Sampled(pts),
         UNCHANGED <<setting, nextId, queue, hand, answered, oversized>>
  PROVE  IInv'
  <1>1. generation' = GenerationAfter(pts) BY DEF Buffer
  <1>2. Incomplete(sampler, generation)'
    BY <1>1, SampledIncomplete DEF Incomplete
  <1>3. Typed' BY <1>1, <1>2, SampledIncomplete DEF Typed, IInv, Incomplete
  <1>4. BatchesApart' BY DEF BatchesApart, OfGeneration, IInv
  <1> QED BY <1>2, <1>3, <1>4 DEF IInv, BatchBytesSuffice

\* A frame that does not complete the batch keeps it incomplete and of one generation.
LEMMA CollectingStep ==
  ASSUME IInv, NEW pts \in Pts, NEW size \in Nat, FrameCollected(pts, size)
  PROVE  IInv'
  <1> USE DEF FrameCollected
  <1>1. generation' = GenerationAfter(pts) /\ sampler' = Collected(pts, size)
    BY DEF Buffer
  <1>2. size <= MaxFrameBytes BY DEF Fits
  <1>3. UNCHANGED <<setting, nextId, queue, hand, answered, oversized>>
    BY DEF lifeVars, workVars, tallyVars, fateVars
  <1>4. Len(sampler'.frames) < setting'.perRequest BY <1>1, <1>3
  <1>5. Incomplete(sampler, generation)' BY <1>1, <1>2, <1>4, CollectedFrames DEF Incomplete
  <1>6. Typed' BY <1>1, <1>2, <1>3, <1>5, CollectedFrames DEF Typed, IInv, Incomplete
  <1>7. BatchesApart' BY <1>3 DEF BatchesApart, OfGeneration, IInv
  <1> QED BY <1>3, <1>5, <1>6, <1>7 DEF IInv, BatchBytesSuffice

\* A frame within its own limit is never rejected for the batch's.
LEMMA RejectingStep ==
  ASSUME IInv, NEW pts \in Pts, NEW size \in Nat, FrameRejected(pts, size)
  PROVE  IInv'
  <1> USE DEF FrameRejected
  <1>1. ~(size <= MaxFrameBytes)
    BY OneMoreFits DEF Fits
  <1>2. oversized' = oversized BY <1>1
  <1>3. UNCHANGED <<setting, nextId, queue, hand, answered, oversized>>
    BY <1>2 DEF lifeVars, workVars, fateVars
  <1>4. Buffer(pts) /\ sampler' = Sampled(pts) OBVIOUS
  <1> QED BY <1>3, <1>4, SkippingStep

\* A complete batch leaves the sampler empty; if the channel takes it, it takes it
\* with its generation.
LEMMA OfferingStep ==
  ASSUME IInv, NEW pts \in Pts, NEW size \in Nat, BatchOffered(pts, size)
  PROVE  IInv'
  <1> DEFINE s == Collected(pts, size)
             batch == [id |-> nextId, generation |-> generation', frames |-> s.frames]
  <1>1. /\ Buffer(pts) /\ size <= MaxFrameBytes
        /\ sampler' = Emptied(s) /\ nextId' = nextId + 1
        /\ queue' = Append(queue, batch) \/ queue' = queue
        /\ UNCHANGED <<setting, hand, answered, oversized>>
    BY DEF BatchOffered, Fits, lifeVars, Report
  <1>2. /\ s \in Samplers /\ OfGeneration(s.frames, generation') /\ generation' \in Nat
    BY <1>1, CollectedFrames DEF Buffer
  <1> HIDE DEF s
  <1>3. sampler'.frames = <<>> /\ sampler'.bytes = 0 /\ sampler' \in Samplers
    <2>1. sampler' = [s EXCEPT !.frames = <<>>, !.bytes = 0] BY <1>1 DEF Emptied
    <2>2. <<>> \in Seq(Frames) OBVIOUS
    <2> QED BY <1>2, <2>1, <2>2 DEF Samplers
  <1>4. Incomplete(sampler, generation)'
    <2>1. setting'.perRequest \in Nat \ {0} /\ MaxFrameBytes \in Nat
      BY <1>1, SettingsAssumption DEF IInv, Typed, Settings
    <2> QED BY <1>3, <2>1 DEF Incomplete, OfGeneration
  <1>5. batch \in Batches BY <1>2 DEF Batches, Samplers, IInv, Typed
  <1>6. queue \in Seq(Batches) /\ queue' \in Seq(Batches)
    <2>1. queue \in Seq(Batches) BY DEF IInv, Typed
    <2> HIDE DEF batch
    <2> QED BY <1>1, <1>5, <2>1
  <1>7. Typed' BY <1>1, <1>2, <1>3, <1>6 DEF Typed, IInv
  <1>8. \A k \in DOMAIN queue' : OfGeneration(queue'[k].frames, queue'[k].generation)
    <2> SUFFICES ASSUME NEW k \in DOMAIN queue'
                 PROVE  OfGeneration(queue'[k].frames, queue'[k].generation)
      OBVIOUS
    <2>1. CASE k \in DOMAIN queue /\ queue'[k] = queue[k]
      BY <2>1 DEF IInv, BatchesApart
    <2>2. CASE queue'[k] = batch BY <1>2, <2>2
    <2>3. (k \in DOMAIN queue /\ queue'[k] = queue[k]) \/ queue'[k] = batch
      <3> HIDE DEF batch
      <3> QED BY <1>1, <1>5, <1>6
    <2> QED BY <2>1, <2>2, <2>3
  <1>9. BatchesApart' BY <1>1, <1>8 DEF BatchesApart, OfGeneration, IInv
  <1> QED BY <1>1, <1>4, <1>7, <1>9 DEF IInv, BatchBytesSuffice

\* The worker takes the oldest batch, generation and all.
LEMMA ReceiveStep == ASSUME IInv, WorkerReceive PROVE IInv'
  <1> USE DEF WorkerReceive, lifeVars, sampleVars, tallyVars, fateVars
  <1>1. queue \in Seq(Batches) /\ queue # <<>> BY DEF IInv, Typed
  <1>2. Head(queue) \in Batches /\ Tail(queue) \in Seq(Batches) BY <1>1
  <1>3. Typed' BY <1>2 DEF Typed, IInv
  <1>4. OfGeneration(hand'.frames, hand'.generation)
    <2>1. 1 \in DOMAIN queue /\ hand' = queue[1] BY <1>1
    <2> QED BY <2>1 DEF IInv, BatchesApart
  <1>5. \A k \in DOMAIN queue' : OfGeneration(queue'[k].frames, queue'[k].generation)
    <2> SUFFICES ASSUME NEW k \in DOMAIN queue'
                 PROVE  OfGeneration(queue'[k].frames, queue'[k].generation)
      OBVIOUS
    <2>1. k + 1 \in DOMAIN queue /\ queue'[k] = queue[k + 1] BY <1>1
    <2> QED BY <2>1 DEF IInv, BatchesApart
  <1>6. BatchesApart' BY <1>4, <1>5 DEF BatchesApart, OfGeneration, IInv
  <1> QED BY <1>3, <1>6 DEF IInv, Incomplete, BatchBytesSuffice

\* A message is the batch the worker had in hand.
LEMMA PostStep == ASSUME IInv, WorkerPosts PROVE IInv'
  <1> USE DEF WorkerPosts, lifeVars, sampleVars, tallyVars, MessageGeneration
  <1> DEFINE message == <<hand.id, hand.generation, hand.frames>>
  <1>1. message \in Nat \X Nat \X Seq(Frames) BY DEF IInv, Typed, Batches
  <1>2. NoBatch \in Batches BY DEF NoBatch, Batches
  <1>3. answered \in Seq(Nat \X Nat \X Seq(Frames)) /\ answered' = Append(answered, message)
    BY DEF IInv, Typed
  <1>4. Typed' BY <1>1, <1>2, <1>3 DEF Typed, IInv
  <1>5. \A k \in DOMAIN answered' : OfGeneration(answered'[k][3], answered'[k][2])
    <2> SUFFICES ASSUME NEW k \in DOMAIN answered'
                 PROVE  OfGeneration(answered'[k][3], answered'[k][2])
      OBVIOUS
    <2>1. CASE k \in DOMAIN answered /\ answered'[k] = answered[k]
      BY <2>1 DEF IInv, BatchesApart
    <2>2. CASE answered'[k] = message BY <2>2 DEF IInv, BatchesApart
    <2>3. (k \in DOMAIN answered /\ answered'[k] = answered[k]) \/ answered'[k] = message
      <3>1. answered \in Seq(Nat \X Nat \X Seq(Frames)) BY DEF IInv, Typed
      <3>2. Len(Append(answered, message)) = Len(answered) + 1
        <4> HIDE DEF message
        <4> QED BY <1>1, <3>1
      <3>3. k \in 1..Len(answered) \/ k = Len(answered) + 1 BY <1>3, <3>1, <3>2
      <3> HIDE DEF message
      <3> QED BY <1>1, <1>3, <3>1, <3>3
    <2> QED BY <2>1, <2>2, <2>3
  <1>6. BatchesApart' BY <1>5 DEF BatchesApart, OfGeneration, NoBatch, IInv
  <1> QED BY <1>4, <1>6 DEF IInv, Incomplete, BatchBytesSuffice

\* Steps that touch no batch.
LEMMA FrameStep ==
  ASSUME IInv, UNCHANGED <<setting, sampleVars, queue, hand, answered, oversized>>
  PROVE  IInv'
  BY DEF IInv, Typed, Incomplete, BatchesApart, OfGeneration, BatchBytesSuffice, sampleVars

\* Every step is one of the above.
LEMMA InvariantStep == IInv /\ [Next]_vars => IInv'
  <1> SUFFICES ASSUME IInv, [Next]_vars PROVE IInv' OBVIOUS
  <1>1. CASE Start BY <1>1, StartStep
  <1>2. CASE Stop
    <2>1. sampler' = FreshSampler /\ generation' \in Nat
          /\ UNCHANGED <<setting, nextId, queue, hand, answered, oversized>>
      BY <1>2 DEF Stop, workVars, tallyVars, fateVars, IInv, Typed
    <2> QED BY <2>1, EmptyingStep
  <1>3. CASE StopJoined
    BY <1>3, FrameStep DEF StopJoined, workVars, tallyVars, fateVars
  <1>4. CASE StopAborts
    BY <1>4, DeathStep DEF StopAborts, lifeVars, tallyVars
  <1>5. ASSUME NEW pts \in Pts, FrameSkipped(pts) PROVE IInv'
    <2>1. Buffer(pts) /\ sampler' = Sampled(pts)
          /\ UNCHANGED <<setting, nextId, queue, hand, answered, oversized>>
      BY <1>5 DEF FrameSkipped, lifeVars, workVars, tallyVars, fateVars
    <2> QED BY <2>1, SkippingStep
  <1>6. ASSUME NEW pts \in Pts, NEW size \in 1..(MaxFrameBytes + 1),
               FrameRejected(pts, size) \/ FrameCollected(pts, size) \/ BatchOffered(pts, size)
        PROVE  IInv'
    <2>1. size \in Nat BY SettingsAssumption
    <2> QED BY <1>6, <2>1, RejectingStep, CollectingStep, OfferingStep
  <1>7. CASE CountSubmitted
    BY <1>7, FrameStep DEF CountSubmitted, lifeVars, workVars, fateVars
  <1>8. CASE ResetGeneration
    <2>1. sampler' = FreshSampler /\ generation' \in Nat
          /\ UNCHANGED <<setting, nextId, queue, hand, answered, oversized>>
      BY <1>8 DEF ResetGeneration, Discarded, lifeVars, workVars, tallyVars, fateVars, IInv, Typed
    <2> QED BY <2>1, EmptyingStep
  <1>9. CASE WorkerReceive BY <1>9, ReceiveStep
  <1>10. CASE WorkerCounts
    BY <1>10, FrameStep DEF WorkerCounts, lifeVars, fateVars
  <1>11. CASE WorkerDisconnected
    BY <1>11, FrameStep DEF WorkerDisconnected, lifeVars, tallyVars, fateVars
  <1>12. CASE WorkerPosts BY <1>12, PostStep
  <1>13. CASE WorkerPanics
    BY <1>13, DeathStep DEF WorkerPanics, lifeVars, tallyVars
  <1>14. CASE UNCHANGED vars
    BY <1>14, FrameStep DEF vars, lifeVars, workVars, tallyVars, fateVars
  <1> QED
    BY <1>1, <1>2, <1>3, <1>4, <1>5, <1>6, <1>7, <1>8, <1>9, <1>10, <1>11, <1>12, <1>13, <1>14
    DEF Next, Answer, Prompt

\* The invariant holds in every reachable state, for all settings.
THEOREM Invariant == Spec => []IInv
  BY InvariantInit, InvariantStep, PTL DEF Spec

\* BatchBytesSuffice: with settings that start() accepts, collect_batch never
\* rejects a frame because the batch would exceed max-batch-bytes.
THEOREM LimitNeverMet == Spec => []BatchBytesSuffice
  <1>1. IInv => BatchBytesSuffice BY DEF IInv
  <1> QED BY <1>1, Invariant, PTL

\* GenerationsApart: the frames of a message were all seen in the generation the
\* message carries, however late it is posted.
THEOREM MessagesKeepGeneration == Spec => []GenerationsApart
  <1>1. IInv => GenerationsApart
    <2> SUFFICES ASSUME IInv, NEW k \in DOMAIN answered, NEW f \in Range(answered[k][3])
                 PROVE  f.generation = answered[k][2]
      BY DEF GenerationsApart
    <2>1. PICK j \in DOMAIN answered[k][3] : f = answered[k][3][j] BY DEF Range
    <2> QED BY <2>1 DEF IInv, BatchesApart, OfGeneration
  <1> QED BY <1>1, Invariant, PTL
-----------------------------------------------------------------------------
(***************************************************************************)
(* Every request has one fate. The channel, the worker's hands and the     *)
(* answers hold the requests in order, oldest answered; a request that     *)
(* never got into the channel is in one of two sets; and what a dying      *)
(* worker leaves behind goes to a third, of which nothing comes back.      *)
(***************************************************************************)

Counts == [submitted : Nat, completed : Nat, failed : Nat, dropped : Nat]
TypedRun ==
  /\ started \in BOOLEAN /\ errorPosted \in BOOLEAN
  /\ lpc \in {"idle", "join"} /\ spc \in {"idle", "count"}
  /\ wpc \in {"recv", "request", "post", "exited"}
  /\ count \in Counts /\ fatal \in Nat /\ rejected \in Nat /\ oversized \in Nat
  /\ run \in 0..MaxRuns /\ inputs \in 0..MaxInputs
InLimits ==
  /\ sampler.seen \in Pts /\ sampler.at \in Pts
  /\ Len(queue) <= QueueCapacity
  /\ generation # 0 /\ nextId # 0

\* A stopped element counts nothing, and a worker that is gone holds nothing.
Turns ==
  /\ ~started => spc = "idle"
  /\ lpc = "join" => ~started
  /\ wpc = "exited" => queue = <<>>
  /\ abandoned # {} => wpc = "exited"
  /\ hand.id # 0 <=> wpc \in {"request", "post"}

Answered == {answered[k][1] : k \in DOMAIN answered}
Waiting == {queue[k].id : k \in DOMAIN queue}
InHand == {hand.id} \ {0}

InOrder ==
  /\ \A j, k \in DOMAIN answered : j < k => answered[j][1] < answered[k][1]
  /\ \A j, k \in DOMAIN queue : j < k => queue[j].id < queue[k].id
  /\ \A a \in Answered : (\A h \in InHand : a < h) /\ \A w \in Waiting : a < w
  /\ \A h \in InHand, w \in Waiting : h < w

Places ==
  /\ Answered \union Waiting \union InHand \union bounced \union refused \union abandoned
       = 1..(nextId - 1)
  /\ bounced \intersect refused = {}
  /\ (bounced \union refused) \intersect (Answered \union Waiting \union InHand \union abandoned) = {}
  /\ abandoned \intersect (Answered \union Waiting \union InHand) = {}

Uncounted == IF spc = "count" THEN 1 ELSE 0
Unposted == IF wpc = "post" THEN 1 ELSE 0
RequestsCounted == count.submitted + Uncounted + count.dropped + Cardinality(refused) = nextId - 1
OutcomesCounted == count.completed + count.failed = Len(answered) + rejected + Unposted
Tallies ==
  /\ IsFiniteSet(refused) /\ RequestsCounted /\ OutcomesCounted
  /\ fatal = IF errorPosted THEN 1 ELSE 0
  /\ refused # {} => errorPosted

FateInv == IInv /\ TypedRun /\ InLimits /\ Turns /\ InOrder /\ Places /\ Tallies


\* The ids of what is queued, in hand and answered are naturals.
LEMMA IdsAreNaturals ==
  ASSUME IInv
  PROVE  /\ queue \in Seq(Batches) /\ answered \in Seq(Nat \X Nat \X Seq(Frames)) /\ hand \in Batches
         /\ Waiting \subseteq Nat /\ Answered \subseteq Nat /\ InHand \subseteq Nat \ {0}
         /\ hand.id \in Nat /\ nextId \in Nat
  <1>1. queue \in Seq(Batches) /\ answered \in Seq(Nat \X Nat \X Seq(Frames)) /\ hand \in Batches
        /\ nextId \in Nat
    BY DEF IInv, Typed
  <1>2. \A k \in DOMAIN queue : queue[k].id \in Nat
    <2>1. \A k \in DOMAIN queue : queue[k] \in Batches BY <1>1
    <2> QED BY <2>1 DEF Batches
  <1>3. \A k \in DOMAIN answered : answered[k][1] \in Nat BY <1>1
  <1>4. hand.id \in Nat BY <1>1 DEF Batches
  <1> QED BY <1>1, <1>2, <1>3, <1>4 DEF Waiting, Answered, InHand

\* The limits and the kinds of what the run counts, in every step.
LEMMA TypedRunStep ==
  ASSUME IInv, TypedRun, [Next]_vars
  PROVE  TypedRun'
  <1> USE DEF TypedRun, lifeVars, sampleVars, workVars, tallyVars, fateVars
  <1>0. \A n \in {"submitted", "completed", "failed", "dropped"} :
          [count EXCEPT ![n] = @ + 1] \in Counts /\ count[n] \in Nat
    BY DEF Counts
  <1>1. /\ [count EXCEPT !.submitted = @ + 1] \in Counts /\ [count EXCEPT !.completed = @ + 1] \in Counts
        /\ [count EXCEPT !.failed = @ + 1] \in Counts /\ [count EXCEPT !.dropped = @ + 1] \in Counts
    BY DEF Counts
  <1>2. MaxRuns \in Nat /\ MaxInputs \in Nat BY VlmAssumption
  <1>3. CASE Start
    <2>1. NoCounts \in Counts BY DEF NoCounts, Counts
    <2>2. run' \in 0..MaxRuns BY <1>2, <1>3 DEF Start
    <2>3. inputs' \in 0..MaxInputs BY <1>2, <1>3 DEF Start
    <2>4. /\ started' = TRUE /\ errorPosted' = FALSE /\ UNCHANGED <<lpc, spc>> /\ wpc' = "recv"
          /\ count' = NoCounts /\ fatal' = 0 /\ rejected' = 0 /\ oversized' = 0
      BY <1>3 DEF Start
    <2> QED BY <2>1, <2>2, <2>3, <2>4
  <1>4. CASE Stop BY <1>4 DEF Stop
  <1>5. CASE StopJoined BY <1>5 DEF StopJoined
  <1>6. CASE StopAborts BY <1>6 DEF StopAborts, WorkerDies
  <1>7. ASSUME NEW pts \in Pts, Buffer(pts) PROVE inputs' \in 0..MaxInputs
    BY <1>2, <1>7 DEF Buffer
  <1>8. ASSUME NEW pts \in Pts, FrameSkipped(pts) PROVE TypedRun'
    BY <1>7, <1>8 DEF FrameSkipped
  <1>9. ASSUME NEW pts \in Pts, NEW size, FrameRejected(pts, size) PROVE TypedRun'
    BY <1>1, <1>7, <1>9 DEF FrameRejected
  <1>10. ASSUME NEW pts \in Pts, NEW size, FrameCollected(pts, size) PROVE TypedRun'
    BY <1>7, <1>10 DEF FrameCollected
  <1>11. ASSUME NEW pts \in Pts, NEW size, BatchOffered(pts, size) PROVE TypedRun'
    <2>1. inputs' \in 0..MaxInputs /\ UNCHANGED <<lifeVars, wpc, rejected, oversized>>
      BY <1>7, <1>11 DEF BatchOffered
    <2>2. spc' \in {"idle", "count"} BY <1>11 DEF BatchOffered
    <2>3. count' \in Counts BY <1>1, <1>11 DEF BatchOffered
    <2>4. errorPosted' \in {errorPosted, TRUE} /\ fatal' \in {fatal, fatal + 1}
      BY <1>11 DEF BatchOffered, Report
    <2>5. errorPosted' \in BOOLEAN BY <2>4
    <2>6. fatal' \in Nat BY <2>4
    <2> QED BY <2>1, <2>2, <2>3, <2>5, <2>6
  <1>12. CASE CountSubmitted BY <1>1, <1>12 DEF CountSubmitted
  <1>13. CASE ResetGeneration BY <1>2, <1>13 DEF ResetGeneration
  <1>14. CASE WorkerReceive BY <1>14 DEF WorkerReceive
  <1>15. CASE WorkerCounts BY <1>1, <1>15 DEF WorkerCounts
  <1>16. CASE WorkerDisconnected BY <1>16 DEF WorkerDisconnected
  <1>17. CASE WorkerPosts BY <1>17 DEF WorkerPosts
  <1>18. CASE WorkerPanics BY <1>18 DEF WorkerPanics, WorkerDies
  <1>19. CASE UNCHANGED vars BY <1>19 DEF vars
  <1> QED
    BY <1>3, <1>4, <1>5, <1>6, <1>8, <1>9, <1>10, <1>11, <1>12, <1>13, <1>14, <1>15, <1>16, <1>17,
    <1>18, <1>19
    DEF Next, Answer, Prompt

\* The channel stays within its capacity, and timestamps are those of the stream.
LEMMA InLimitsStep ==
  ASSUME IInv, InLimits, [Next]_vars
  PROVE  InLimits'
  <1> USE DEF InLimits, lifeVars, sampleVars, workVars, tallyVars, fateVars
  <1>a. queue \in Seq(Batches) /\ generation \in Nat /\ nextId \in Nat /\ sampler \in Samplers
    BY DEF IInv, Typed
  <1>b. QueueCapacity \in Nat \ {0} BY SettingsAssumption
  <1>c. {} \in Pts BY DEF Pts
  <1>d. FreshSampler.seen = {} /\ FreshSampler.at = {} BY DEF FreshSampler
  <1>e. ASSUME NEW pts \in Pts
        PROVE  Sampled(pts).seen \in Pts /\ Sampled(pts).at \in Pts /\ GenerationAfter(pts) # 0
    <2>1. Sampled(pts).seen = pts /\ Sampled(pts).at \in {sampler.at, FreshSampler.at}
      BY <1>a DEF Sampled, Samplers, FreshSampler
    <2>2. GenerationAfter(pts) # 0 BY <1>a DEF GenerationAfter
    <2> QED BY <1>c, <1>d, <2>1, <2>2
  <1>f. ASSUME NEW pts \in Pts, NEW size
        PROVE  Collected(pts, size).seen \in Pts /\ Collected(pts, size).at \in Pts
    <2> DEFINE s == Sampled(pts)
               new == [s EXCEPT !.withoutPts = @ \/ pts = {}, !.at = IF pts = {} THEN @ ELSE pts,
                         !.frames = Append(@, [pts |-> pts, generation |-> GenerationAfter(pts)]),
                         !.bytes = @ + size]
    <2>1. Collected(pts, size) = new BY DEF Collected
    <2>2. s \in Samplers BY SampledIncomplete DEF Incomplete
    <2>3. s.seen \in Pts /\ s.at \in Pts BY <1>e
    <2> HIDE DEF s
    <2>4. new.seen = s.seen /\ new.at \in {s.at, pts} BY <2>2 DEF Samplers
    <2> HIDE DEF new
    <2> QED BY <2>1, <2>3, <2>4
  <1>3. CASE Start
    <2>1. sampler' = FreshSampler /\ queue' = <<>> /\ generation' = 1 /\ nextId' = 1 BY <1>3 DEF Start
    <2>2. Len(queue') = 0 /\ Len(queue') <= QueueCapacity BY <1>b, <2>1
    <2>3. sampler'.seen \in Pts /\ sampler'.at \in Pts BY <1>c, <1>d, <2>1
    <2> QED BY <2>1, <2>2, <2>3
  <1>4. CASE Stop
    <2>1. sampler' = FreshSampler /\ UNCHANGED <<queue, generation, nextId>> BY <1>4 DEF Stop
    <2> QED BY <1>c, <1>d, <2>1
  <1>5. CASE StopJoined BY <1>5 DEF StopJoined
  <1>6. ASSUME WorkerDies, UNCHANGED sampleVars PROVE InLimits'
    <2>1. queue' = <<>> /\ Len(queue') = 0 BY <1>6 DEF WorkerDies
    <2> QED BY <1>6, <1>b, <2>1
  <1>7. ASSUME NEW pts \in Pts, FrameSkipped(pts) PROVE InLimits'
    <2>1. sampler' = Sampled(pts) /\ generation' = GenerationAfter(pts) /\ UNCHANGED <<queue, nextId>>
      BY <1>7 DEF FrameSkipped, Buffer
    <2> QED BY <1>e, <2>1
  <1>8. ASSUME NEW pts \in Pts, NEW size, FrameRejected(pts, size) PROVE InLimits'
    <2>1. sampler' = Sampled(pts) /\ generation' = GenerationAfter(pts) /\ UNCHANGED <<queue, nextId>>
      BY <1>8 DEF FrameRejected, Buffer
    <2> QED BY <1>e, <2>1
  <1>9. ASSUME NEW pts \in Pts, NEW size, FrameCollected(pts, size) PROVE InLimits'
    <2>1. sampler' = Collected(pts, size) /\ generation' = GenerationAfter(pts)
          /\ UNCHANGED <<queue, nextId>>
      BY <1>9 DEF FrameCollected, Buffer
    <2> QED BY <1>e, <1>f, <2>1
  <1>10. ASSUME NEW pts \in Pts, NEW size \in Nat, BatchOffered(pts, size) PROVE InLimits'
    <2>1. /\ sampler' = Emptied(Collected(pts, size)) /\ generation' = GenerationAfter(pts)
          /\ nextId' = nextId + 1 /\ size <= MaxFrameBytes
          /\ \/ queue' = queue
             \/ Room /\ queue' = Append(queue, [id |-> nextId, generation |-> generation',
                                                frames |-> Collected(pts, size).frames])
      BY <1>10 DEF BatchOffered, Buffer, Fits
    <2>2. sampler'.seen \in Pts /\ sampler'.at \in Pts
      <3> DEFINE s == Collected(pts, size)
      <3>1. s \in Samplers BY <2>1, CollectedFrames
      <3>2. s.seen \in Pts /\ s.at \in Pts BY <1>f
      <3>3. sampler' = [s EXCEPT !.frames = <<>>, !.bytes = 0] BY <2>1 DEF Emptied
      <3> HIDE DEF s
      <3>4. sampler'.seen = s.seen /\ sampler'.at = s.at BY <3>1, <3>3 DEF Samplers
      <3> QED BY <3>2, <3>4
    <2>3. Len(queue') <= QueueCapacity
      <3>1. CASE queue' = queue BY <3>1
      <3>2. CASE Room /\ queue' = Append(queue, [id |-> nextId, generation |-> generation',
                                                 frames |-> Collected(pts, size).frames])
        <4>1. Len(queue') = Len(queue) + 1 /\ Len(queue) \in Nat BY <1>a, <3>2
        <4> QED BY <1>b, <3>2, <4>1 DEF Room
      <3> QED BY <2>1, <3>1, <3>2
    <2> QED BY <1>a, <1>e, <2>1, <2>2, <2>3
  <1>11. CASE CountSubmitted BY <1>11 DEF CountSubmitted
  <1>12. CASE ResetGeneration
    <2>1. sampler' = FreshSampler /\ generation' = generation + 1 /\ UNCHANGED <<queue, nextId>>
      BY <1>12 DEF ResetGeneration, Discarded
    <2>2. sampler'.seen \in Pts /\ sampler'.at \in Pts BY <1>c, <1>d, <2>1
    <2> QED BY <1>a, <2>1, <2>2
  <1>13. CASE WorkerReceive
    <2>1. queue # <<>> /\ queue' = Tail(queue) /\ UNCHANGED sampleVars BY <1>13 DEF WorkerReceive
    <2>2. Len(queue') = Len(queue) - 1 /\ Len(queue) \in Nat BY <1>a, <2>1
    <2> QED BY <1>b, <2>1, <2>2
  <1>14. CASE WorkerCounts BY <1>14 DEF WorkerCounts
  <1>15. CASE WorkerDisconnected BY <1>15 DEF WorkerDisconnected
  <1>16. CASE WorkerPosts BY <1>16 DEF WorkerPosts
  <1>17. CASE StopAborts BY <1>6, <1>17 DEF StopAborts
  <1>18. CASE WorkerPanics BY <1>6, <1>18 DEF WorkerPanics
  <1>19. CASE UNCHANGED vars BY <1>19 DEF vars
  <1>20. 1..(MaxFrameBytes + 1) \subseteq Nat BY SettingsAssumption
  <1> QED
    BY <1>3, <1>4, <1>5, <1>7, <1>8, <1>9, <1>10, <1>11, <1>12, <1>13, <1>14, <1>15, <1>16, <1>17,
    <1>18, <1>19, <1>20
    DEF Next, Answer, Prompt

\* Who may do what when, in every step.
LEMMA TurnsStep ==
  ASSUME IInv, TypedRun, InLimits, Turns, InOrder, Places, [Next]_vars
  PROVE  Turns'
  <1> USE DEF Turns, lifeVars, sampleVars, workVars, tallyVars, fateVars
  <1>a. NoBatch.id = 0 BY DEF NoBatch
  <1>3. CASE Start BY <1>3, <1>a DEF Start
  <1>4. CASE Stop BY <1>4 DEF Stop
  <1>5. CASE StopJoined BY <1>5 DEF StopJoined
  <1>6. CASE StopAborts BY <1>6, <1>a DEF StopAborts, WorkerDies
  <1>7. ASSUME NEW pts \in Pts, FrameSkipped(pts) PROVE Turns'
    BY <1>7 DEF FrameSkipped, Buffer
  <1>8. ASSUME NEW pts \in Pts, NEW size, FrameRejected(pts, size) PROVE Turns'
    BY <1>8 DEF FrameRejected, Buffer
  <1>9. ASSUME NEW pts \in Pts, NEW size, FrameCollected(pts, size) PROVE Turns'
    BY <1>9 DEF FrameCollected, Buffer
  <1>10. ASSUME NEW pts \in Pts, NEW size, BatchOffered(pts, size) PROVE Turns'
    <2>1. started /\ lpc = "idle" /\ UNCHANGED <<started, lpc, wpc, hand, abandoned>>
      BY <1>10 DEF BatchOffered, Buffer
    <2>2. queue' = queue \/ wpc # "exited" BY <1>10 DEF BatchOffered
    <2> QED BY <2>1, <2>2
  <1>11. CASE CountSubmitted BY <1>11 DEF CountSubmitted
  <1>12. CASE ResetGeneration BY <1>12 DEF ResetGeneration
  <1>13. CASE WorkerReceive
    <2>1. queue # <<>> /\ hand' = Head(queue) /\ wpc = "recv" /\ wpc' = "request"
          /\ UNCHANGED <<started, lpc, spc, abandoned>>
      BY <1>13 DEF WorkerReceive
    <2>2. 1 \in DOMAIN queue /\ hand' = queue[1] BY <2>1, IdsAreNaturals
    <2>3. hand'.id \in 1..(nextId - 1) BY <2>2 DEF Places, Waiting
    <2>4. hand'.id # 0 BY <2>3, IdsAreNaturals
    <2> QED BY <2>1, <2>4
  <1>14. CASE WorkerCounts BY <1>14 DEF WorkerCounts
  <1>15. CASE WorkerDisconnected BY <1>15 DEF WorkerDisconnected, Drained
  <1>16. CASE WorkerPosts BY <1>16, <1>a DEF WorkerPosts
  <1>17. CASE WorkerPanics BY <1>17, <1>a DEF WorkerPanics, WorkerDies
  <1>18. CASE UNCHANGED vars BY <1>18 DEF vars
  <1> QED
    BY <1>3, <1>4, <1>5, <1>6, <1>7, <1>8, <1>9, <1>10, <1>11, <1>12, <1>13, <1>14, <1>15, <1>16,
    <1>17, <1>18
    DEF Next, Answer, Prompt


\* Requests move; none is made or lost on the way.
LEMMA FateFrame ==
  ASSUME InOrder, Places, UNCHANGED <<answered, queue, hand, nextId, bounced, refused, abandoned>>
  PROVE  InOrder' /\ Places'
  BY DEF InOrder, Places, Answered, Waiting, InHand

\* start() forgets the last run.
LEMMA StartFates ==
  ASSUME IInv, Start
  PROVE  InOrder' /\ Places'
  <1>1. /\ answered' = <<>> /\ queue' = <<>> /\ hand'.id = 0 /\ nextId' = 1
        /\ bounced' = {} /\ refused' = {} /\ abandoned' = {}
    BY DEF Start, NoBatch
  <1>2. DOMAIN answered' = {} /\ DOMAIN queue' = {} BY <1>1
  <1>3. Answered' = {} /\ Waiting' = {} /\ InHand' = {} BY <1>1, <1>2 DEF Answered, Waiting, InHand
  <1>4. 1..(nextId' - 1) = {} BY <1>1
  <1> QED BY <1>1, <1>2, <1>3, <1>4 DEF InOrder, Places

\* A worker that dies gives up what it held and what waited.
LEMMA DeathFates ==
  ASSUME IInv, InOrder, Places, WorkerDies, UNCHANGED <<answered, nextId, bounced, refused>>
  PROVE  InOrder' /\ Places'
  <1>1. queue' = <<>> /\ hand'.id = 0 BY DEF WorkerDies, NoBatch
  <1>2. DOMAIN queue' = {} BY <1>1
  <1>3. Answered' = Answered /\ Waiting' = {} /\ InHand' = {}
    BY <1>1, <1>2 DEF Answered, Waiting, InHand
  <1>4. abandoned' = abandoned \union InHand \union Waiting
    <2>1. DOMAIN queue = 1..Len(queue) BY IdsAreNaturals
    <2> QED BY <2>1 DEF WorkerDies, Waiting, InHand
  <1>5. InOrder' BY <1>2, <1>3 DEF InOrder
  <1>6. Places'
    <2>1. nextId' = nextId /\ bounced' = bounced /\ refused' = refused OBVIOUS
    <2>2. Answered' \union Waiting' \union InHand' \union bounced' \union refused' \union abandoned'
            = Answered \union Waiting \union InHand \union bounced \union refused \union abandoned
      BY <1>3, <1>4, <2>1
    <2>3. /\ (bounced' \union refused') \intersect
               (Answered' \union Waiting' \union InHand' \union abandoned') = {}
          /\ abandoned' \intersect (Answered' \union Waiting' \union InHand') = {}
      <3>1. /\ (bounced \union refused) \intersect
                 (Answered \union Waiting \union InHand \union abandoned) = {}
            /\ abandoned \intersect (Answered \union Waiting \union InHand) = {}
        BY DEF Places
      <3>2. Answered \intersect (InHand \union Waiting) = {}
        <4>1. \A a \in Answered : a \in Nat /\ a \notin InHand /\ a \notin Waiting
          BY IdsAreNaturals DEF InOrder
        <4> QED BY <4>1
      <3> QED BY <1>3, <1>4, <2>1, <3>1, <3>2
    <2> QED BY <2>1, <2>2, <2>3 DEF Places
  <1> QED BY <1>5, <1>6

\* A new request is the youngest: it queues last, or never queues.
LEMMA OfferFates ==
  ASSUME IInv, InLimits, InOrder, Places, NEW pts \in Pts, NEW size \in Nat, BatchOffered(pts, size)
  PROVE  InOrder' /\ Places'
  <1> USE DEF lifeVars, sampleVars, workVars, tallyVars, fateVars
  <1>1. nextId \in Nat \ {0} /\ nextId' = nextId + 1 /\ UNCHANGED <<hand, answered, abandoned>>
    BY IdsAreNaturals DEF InLimits, BatchOffered
  <1>2. 1..(nextId' - 1) = 1..(nextId - 1) \union {nextId} /\ nextId \notin 1..(nextId - 1) BY <1>1
  <1>3. \A i \in 1..(nextId - 1) : i < nextId BY <1>1
  <1>4. Answered' = Answered /\ InHand' = InHand BY <1>1 DEF Answered, InHand
  <1>5. CASE queue' = queue /\ bounced' = bounced \union {nextId} /\ refused' = refused
    <2>1. Waiting' = Waiting BY <1>5 DEF Waiting
    <2>2. InOrder' BY <1>1, <1>4, <1>5, <2>1 DEF InOrder
    <2>3. Places' BY <1>1, <1>2, <1>4, <1>5, <2>1 DEF Places
    <2> QED BY <2>2, <2>3
  <1>6. CASE queue' = queue /\ refused' = refused \union {nextId} /\ bounced' = bounced
    <2>1. Waiting' = Waiting BY <1>6 DEF Waiting
    <2>2. InOrder' BY <1>1, <1>4, <1>6, <2>1 DEF InOrder
    <2>3. Places' BY <1>1, <1>2, <1>4, <1>6, <2>1 DEF Places
    <2> QED BY <2>2, <2>3
  <1>7. ASSUME NEW b \in Batches, b.id = nextId, queue' = Append(queue, b),
               UNCHANGED <<bounced, refused>>
        PROVE  InOrder' /\ Places'
    <2>1. /\ DOMAIN queue = 1..Len(queue) /\ Len(queue) \in Nat /\ DOMAIN queue' = 1..(Len(queue) + 1)
          /\ queue'[Len(queue) + 1] = b /\ \A k \in 1..Len(queue) : queue'[k] = queue[k]
      BY <1>7, IdsAreNaturals
    <2> DEFINE n == Len(queue)
    <2>2. n \in Nat /\ 1..(n + 1) = 1..n \union {n + 1} BY <2>1
    <2> HIDE DEF n
    <2>3. DOMAIN queue' = DOMAIN queue \union {n + 1} BY <2>1, <2>2 DEF n
    <2>4. queue'[n + 1] = b /\ \A k \in DOMAIN queue : queue'[k] = queue[k] BY <2>1 DEF n
    <2>5. Waiting' = Waiting \union {nextId} BY <1>7, <2>3, <2>4 DEF Waiting
    <2>6. Answered \union Waiting \union InHand \subseteq 1..(nextId - 1) BY DEF Places
    <2>7. \A j, k \in DOMAIN queue' : j < k => queue'[j].id < queue'[k].id
      <3>1. \A k \in DOMAIN queue : k \in Nat /\ ~(n + 1 < k) /\ queue[k].id < nextId
        <4>1. \A k \in DOMAIN queue : k \in 1..n BY <2>1 DEF n
        <4>2. \A k \in DOMAIN queue : queue[k].id \in 1..(nextId - 1) BY <2>6 DEF Waiting
        <4> QED BY <1>3, <2>2, <4>1, <4>2
      <3>2. ~(n + 1 < n + 1) BY <2>2
      <3> QED BY <1>7, <2>3, <2>4, <3>1, <3>2 DEF InOrder
    <2>8. \A a \in Answered \union InHand : a < nextId BY <1>3, <2>6
    <2>9. InOrder' BY <1>1, <1>4, <2>5, <2>7, <2>8 DEF InOrder
    <2>10. Places' BY <1>1, <1>2, <1>4, <1>7, <2>5, <2>6 DEF Places
    <2> QED BY <2>9, <2>10
  <1>8. [id |-> nextId, generation |-> generation', frames |-> Collected(pts, size).frames] \in Batches
    <2>1. size <= MaxFrameBytes /\ generation' = GenerationAfter(pts) BY DEF BatchOffered, Fits, Buffer
    <2>2. Collected(pts, size) \in Samplers /\ GenerationAfter(pts) \in Nat BY <2>1, CollectedFrames
    <2> QED BY <1>1, <2>1, <2>2 DEF Batches, Samplers
  <1>9. \/ queue' = queue /\ bounced' = bounced \union {nextId} /\ refused' = refused
        \/ queue' = queue /\ refused' = refused \union {nextId} /\ bounced' = bounced
        \/ /\ queue' = Append(queue, [id |-> nextId, generation |-> generation',
                                     frames |-> Collected(pts, size).frames])
           /\ UNCHANGED <<bounced, refused>>
    BY DEF BatchOffered
  <1> QED BY <1>5, <1>6, <1>7, <1>8, <1>9

\* The worker takes the oldest request that waits,
LEMMA ReceiveFates ==
  ASSUME IInv, Turns, InOrder, Places, WorkerReceive
  PROVE  InOrder' /\ Places'
  <1> USE DEF lifeVars, sampleVars, workVars, tallyVars, fateVars
  <1>1. /\ queue # <<>> /\ hand' = Head(queue) /\ queue' = Tail(queue) /\ hand.id = 0
        /\ UNCHANGED <<answered, nextId, bounced, refused, abandoned>>
    BY DEF WorkerReceive, Turns
  <1> DEFINE n == Len(queue)  h == queue[1].id
  <1>2. /\ n \in Nat \ {0} /\ DOMAIN queue = 1..n /\ hand' = queue[1]
        /\ DOMAIN queue' = 1..(n - 1) /\ \A k \in 1..(n - 1) : queue'[k] = queue[k + 1]
    BY <1>1, IdsAreNaturals
  <1> HIDE DEF n
  <1>3. 1 \in 1..n /\ (\A k \in 1..(n - 1) : k \in Nat /\ k + 1 \in 1..n /\ 1 < k + 1)
        /\ \A k \in 1..n : k # 1 => k - 1 \in 1..(n - 1) /\ (k - 1) + 1 = k
    BY <1>2
  <1>4. h \in Waiting BY <1>2, <1>3 DEF Waiting
  <1>5. \A w \in Waiting : w = h \/ h < w
    <2> SUFFICES ASSUME NEW k \in 1..n PROVE queue[k].id = h \/ h < queue[k].id
      BY <1>2 DEF Waiting
    <2>1. CASE k = 1 BY <2>1
    <2>2. CASE k # 1
      <3>1. 1 < k BY <2>2, <1>2
      <3> QED BY <1>2, <1>3, <3>1 DEF InOrder
    <2> QED BY <2>1, <2>2
  <1>6. Waiting' = Waiting \ {h}
    <2>1. Waiting = {queue[k].id : k \in 1..n} BY <1>2 DEF Waiting
    <2>2. Waiting' = {queue'[k].id : k \in 1..(n - 1)} BY <1>2 DEF Waiting
    <2>3. \A w \in Waiting' : w \in Waiting /\ w # h
      <3> SUFFICES ASSUME NEW k \in 1..(n - 1) PROVE queue'[k].id \in Waiting /\ queue'[k].id # h
        BY <2>2
      <3>1. queue'[k].id = queue[k + 1].id /\ k + 1 \in 1..n BY <1>2, <1>3
      <3>2. h < queue[k + 1].id BY <1>2, <1>3, <3>1 DEF InOrder
      <3>3. queue[k + 1].id \in Waiting BY <2>1, <3>1
      <3>4. h \in Nat /\ queue[k + 1].id \in Nat BY <1>4, <3>3, IdsAreNaturals
      <3> HIDE DEF h
      <3>5. queue[k + 1].id # h BY <3>2, <3>4
      <3> QED BY <3>1, <3>3, <3>5
    <2>4. \A w \in Waiting : w # h => w \in Waiting'
      <3> SUFFICES ASSUME NEW k \in 1..n, queue[k].id # h PROVE queue[k].id \in Waiting'
        BY <2>1
      <3>1. k # 1 OBVIOUS
      <3>2. k - 1 \in 1..(n - 1) /\ queue'[k - 1] = queue[k] BY <1>2, <1>3, <3>1
      <3> QED BY <2>2, <3>2
    <2> QED BY <1>4, <2>3, <2>4
  <1>7. InHand = {} /\ Answered' = Answered BY <1>1 DEF InHand, Answered
  <1>8. InHand' = {h}
    <2>1. h \in 1..(nextId - 1) BY <1>4 DEF Places
    <2>2. h # 0 BY <2>1, IdsAreNaturals
    <2> QED BY <1>2, <2>2 DEF InHand
  <1>9. \A j, k \in DOMAIN queue' : j < k => queue'[j].id < queue'[k].id
    <2> SUFFICES ASSUME NEW j \in 1..(n - 1), NEW k \in 1..(n - 1), j < k
                 PROVE  queue'[j].id < queue'[k].id
      BY <1>2
    <2>1. j + 1 < k + 1 BY <1>3
    <2>2. queue[j + 1].id < queue[k + 1].id BY <1>2, <1>3, <2>1 DEF InOrder
    <2> QED BY <1>2, <2>2
  <1> HIDE DEF h
  <1>10. InOrder' BY <1>1, <1>4, <1>5, <1>6, <1>7, <1>8, <1>9 DEF InOrder
  <1>11. Places' BY <1>1, <1>4, <1>6, <1>7, <1>8 DEF Places
  <1> QED BY <1>10, <1>11

\* and answers the request it has.
LEMMA PostFates ==
  ASSUME IInv, Turns, InOrder, Places, WorkerPosts
  PROVE  InOrder' /\ Places' /\ Len(answered') = Len(answered) + 1
  <1> USE DEF lifeVars, sampleVars, workVars, tallyVars, fateVars
  <1> DEFINE n == Len(answered)  h == hand.id  message == <<hand.id, hand.generation, hand.frames>>
  <1>1. /\ answered' = Append(answered, message) /\ hand'.id = 0 /\ h # 0
        /\ UNCHANGED <<queue, nextId, bounced, refused, abandoned>>
    BY DEF WorkerPosts, MessageGeneration, NoBatch, Turns
  <1>2. message \in Nat \X Nat \X Seq(Frames) /\ message[1] = h BY DEF IInv, Typed, Batches
  <1>3. answered \in Seq(Nat \X Nat \X Seq(Frames)) /\ h \in Nat BY IdsAreNaturals
  <1> HIDE DEF message
  <1>4. /\ n \in Nat /\ DOMAIN answered = 1..n /\ DOMAIN answered' = 1..(n + 1) /\ Len(answered') = n + 1
        /\ answered'[n + 1] = message /\ \A k \in 1..n : answered'[k] = answered[k]
    BY <1>1, <1>2, <1>3
  <1> HIDE DEF n
  <1>5. 1..(n + 1) = 1..n \union {n + 1} BY <1>4
  <1>6. DOMAIN answered' = DOMAIN answered \union {n + 1} BY <1>4, <1>5
  <1>7. Answered' = Answered \union {h}
    BY <1>2, <1>4, <1>6 DEF Answered
  <1>8. InHand = {h} /\ InHand' = {} /\ Waiting' = Waiting BY <1>1 DEF InHand, Waiting
  <1>9. \A j, k \in DOMAIN answered' : j < k => answered'[j][1] < answered'[k][1]
    <2>1. \A k \in DOMAIN answered : k \in Nat /\ ~(n + 1 < k) /\ answered[k][1] < h
      <3>1. \A k \in DOMAIN answered : k \in 1..n BY <1>4
      <3>2. \A k \in DOMAIN answered : answered[k][1] \in Answered BY DEF Answered
      <3>3. \A a \in Answered : a < h BY <1>8 DEF InOrder
      <3> QED BY <1>4, <3>1, <3>2, <3>3
    <2>2. ~(n + 1 < n + 1) BY <1>4
    <2>3. \A k \in DOMAIN answered : answered'[k] = answered[k] BY <1>4
    <2>4. answered'[n + 1][1] = h BY <1>2, <1>4
    <2> QED BY <1>6, <2>1, <2>2, <2>3, <2>4 DEF InOrder
  <1> HIDE DEF h
  <1>10. InOrder' BY <1>1, <1>7, <1>8, <1>9 DEF InOrder
  <1>11. Places' BY <1>1, <1>7, <1>8 DEF Places
  <1> QED BY <1>4, <1>10, <1>11 DEF n

\* The order of the requests, and the place of each, in every step.
LEMMA FatesStep ==
  ASSUME IInv, TypedRun, InLimits, Turns, InOrder, Places, [Next]_vars
  PROVE  InOrder' /\ Places'
  <1> USE DEF lifeVars, sampleVars, workVars, tallyVars, fateVars
  <1>1. CASE Start BY <1>1, StartFates
  <1>2. CASE StopAborts \/ WorkerPanics
    <2>1. WorkerDies /\ UNCHANGED <<answered, nextId, bounced, refused>>
      BY <1>2 DEF StopAborts, WorkerPanics
    <2> QED BY <2>1, DeathFates
  <1>3. ASSUME NEW pts \in Pts, NEW size \in 1..(MaxFrameBytes + 1), BatchOffered(pts, size)
        PROVE  InOrder' /\ Places'
    <2>1. size \in Nat BY SettingsAssumption
    <2> QED BY <1>3, <2>1, OfferFates
  <1>4. CASE WorkerReceive BY <1>4, ReceiveFates
  <1>5. CASE WorkerPosts BY <1>5, PostFates
  <1>6. ASSUME Stop \/ StopJoined \/ CountSubmitted \/ ResetGeneration \/ WorkerCounts
                 \/ WorkerDisconnected \/ UNCHANGED vars
        PROVE  UNCHANGED <<answered, queue, hand, nextId, bounced, refused, abandoned>>
    BY <1>6 DEF Stop, StopJoined, CountSubmitted, ResetGeneration, WorkerCounts, WorkerDisconnected, vars
  <1>7. ASSUME NEW pts \in Pts, NEW size,
               FrameSkipped(pts) \/ FrameRejected(pts, size) \/ FrameCollected(pts, size)
        PROVE  UNCHANGED <<answered, queue, hand, nextId, bounced, refused, abandoned>>
    BY <1>7 DEF FrameSkipped, FrameRejected, FrameCollected
  <1> QED
    BY <1>1, <1>2, <1>3, <1>4, <1>5, <1>6, <1>7, FateFrame DEF Next, Answer, Prompt


\* A count and what it counts grow together.
LEMMA CountGrows ==
  ASSUME NEW a \in Nat, NEW b \in Nat, NEW c \in Nat, NEW d \in Nat, NEW n \in Nat
  PROVE  a + b = c + n + d => a + (b + 1) = c + (n + 1) + d
  OBVIOUS

\* And the counters, which follow the requests.
LEMMA TalliesStep ==
  ASSUME IInv, TypedRun, InLimits, Turns, InOrder, Places, Tallies, [Next]_vars
  PROVE  Tallies'
  <1> USE DEF lifeVars, sampleVars, workVars, tallyVars, fateVars
  <1>a. /\ count \in Counts /\ rejected \in Nat /\ fatal \in Nat /\ nextId \in Nat
        /\ answered \in Seq(Nat \X Nat \X Seq(Frames)) /\ Len(answered) \in Nat
        /\ IsFiniteSet(refused) /\ Cardinality(refused) \in Nat
    BY IdsAreNaturals, FS_CardinalityType DEF TypedRun, Tallies
  <1>b. /\ count.submitted \in Nat /\ count.completed \in Nat /\ count.failed \in Nat
        /\ count.dropped \in Nat
    BY <1>a DEF Counts
  <1>c. /\ IsFiniteSet(refused) /\ RequestsCounted /\ OutcomesCounted
        /\ fatal = (IF errorPosted THEN 1 ELSE 0) /\ (refused # {} => errorPosted)
    BY DEF Tallies
  <1>d. Uncounted \in Nat /\ Unposted \in Nat BY DEF Uncounted, Unposted
  <1>h. /\ Cardinality(refused) \in Nat /\ nextId \in Nat /\ Len(answered) \in Nat
        /\ rejected \in Nat
    BY <1>a
  <1>i. count.submitted + Uncounted + count.dropped + Cardinality(refused) = nextId - 1
    BY <1>c DEF RequestsCounted
  <1>j. count.completed + count.failed = Len(answered) + rejected + Unposted
    BY <1>c DEF OutcomesCounted
  <1>k. /\ count.submitted + (Uncounted + 1) + count.dropped + Cardinality(refused) = (nextId + 1) - 1
        /\ count.submitted + Uncounted + (count.dropped + 1) + Cardinality(refused) = (nextId + 1) - 1
    <2> DEFINE s == count.submitted  u == Uncounted  d == count.dropped  r == Cardinality(refused)
    <2>1. /\ s \in Nat /\ u \in Nat /\ d \in Nat /\ r \in Nat /\ nextId \in Nat
          /\ s + u + d + r = nextId - 1
      BY <1>b, <1>d, <1>h, <1>i
    <2> HIDE DEF s, u, d, r
    <2>2. s + (u + 1) + d + r = (nextId + 1) - 1 /\ s + u + (d + 1) + r = (nextId + 1) - 1 BY <2>1
    <2> QED BY <2>2 DEF s, u, d, r
  <1>e. ASSUME UNCHANGED <<errorPosted, fatal, refused>>, RequestsCounted', OutcomesCounted'
        PROVE  Tallies'
    BY <1>c, <1>e DEF Tallies
  <1>f. ASSUME UNCHANGED <<count, refused, spc, nextId>> PROVE RequestsCounted'
    BY <1>c, <1>f DEF RequestsCounted, Uncounted
  <1>g. ASSUME UNCHANGED <<count, answered, rejected, wpc>> PROVE OutcomesCounted'
    BY <1>c, <1>g DEF OutcomesCounted, Unposted
  <1>1. CASE Start
    <2>1. /\ count' = NoCounts /\ spc = "idle" /\ spc' = spc /\ nextId' = 1 /\ wpc' = "recv"
          /\ refused' = {} /\ answered' = <<>> /\ rejected' = 0 /\ fatal' = 0 /\ errorPosted' = FALSE
      BY <1>1 DEF Start, Turns
    <2>2. IsFiniteSet(refused') /\ Cardinality(refused') = 0 BY <2>1, FS_EmptySet
    <2>3. Len(answered') = 0 BY <2>1
    <2>4. count'.submitted = 0 /\ count'.completed = 0 /\ count'.failed = 0 /\ count'.dropped = 0
      BY <2>1 DEF NoCounts
    <2>5. RequestsCounted' BY <2>1, <2>2, <2>4 DEF RequestsCounted, Uncounted
    <2>6. OutcomesCounted' BY <2>1, <2>3, <2>4 DEF OutcomesCounted, Unposted
    <2> QED BY <2>1, <2>2, <2>5, <2>6 DEF Tallies
  <1>2. CASE StopAborts \/ WorkerPanics
    <2>1. /\ wpc # "post" /\ wpc' = "exited"
          /\ UNCHANGED <<refused, count, spc, nextId, answered, rejected, fatal, errorPosted>>
      BY <1>2 DEF StopAborts, WorkerPanics, WorkerDies
    <2>2. OutcomesCounted' BY <1>c, <2>1 DEF OutcomesCounted, Unposted
    <2> QED BY <1>e, <1>f, <2>1, <2>2
  <1>3. ASSUME NEW pts \in Pts, NEW size, FrameRejected(pts, size) PROVE Tallies'
    <2>1. /\ count' = [count EXCEPT !.failed = @ + 1] /\ rejected' = rejected + 1
          /\ UNCHANGED <<refused, spc, wpc, nextId, answered, fatal, errorPosted>>
      BY <1>3 DEF FrameRejected
    <2>2. /\ count'.failed = count.failed + 1 /\ count'.submitted = count.submitted
          /\ count'.completed = count.completed /\ count'.dropped = count.dropped
      BY <1>a, <2>1 DEF Counts
    <2>3. Uncounted' = Uncounted /\ Unposted' = Unposted BY <2>1 DEF Uncounted, Unposted
    <2>4. RequestsCounted' BY <1>c, <2>1, <2>2, <2>3 DEF RequestsCounted
    <2>5. count.completed + (count.failed + 1) = Len(answered) + (rejected + 1) + Unposted
      BY <1>b, <1>d, <1>h, <1>j, CountGrows
    <2>6. OutcomesCounted' BY <2>1, <2>2, <2>3, <2>5 DEF OutcomesCounted
    <2> QED BY <1>e, <2>1, <2>4, <2>6
  <1>4. ASSUME NEW pts \in Pts, NEW size, BatchOffered(pts, size) PROVE Tallies'
    <2>1. /\ nextId' = nextId + 1 /\ spc = "idle" /\ Uncounted = 0
          /\ UNCHANGED <<wpc, answered, rejected>>
      BY <1>4 DEF BatchOffered, Buffer, Uncounted
    <2>2. CASE spc' = "count" /\ UNCHANGED <<errorPosted, count, fatal, refused>>
      <3>1. Uncounted' = 1 BY <2>2 DEF Uncounted
      <3>2. count.submitted + (Uncounted + 1) + count.dropped + Cardinality(refused) = (nextId + 1) - 1
        BY <1>k
      <3>3. Uncounted' = Uncounted + 1 BY <2>1, <3>1
      <3>4. RequestsCounted' BY <2>1, <2>2, <3>2, <3>3 DEF RequestsCounted
      <3> QED BY <1>e, <1>g, <2>1, <2>2, <3>4
    <2>3. CASE /\ count' = [count EXCEPT !.dropped = @ + 1]
               /\ UNCHANGED <<spc, errorPosted, fatal, refused>>
      <3>1. /\ count'.failed = count.failed /\ count'.submitted = count.submitted
            /\ count'.completed = count.completed /\ count'.dropped = count.dropped + 1
        BY <1>a, <2>3 DEF Counts
      <3>2. Uncounted' = Uncounted /\ Unposted' = Unposted BY <2>1, <2>3 DEF Uncounted, Unposted
      <3>3. count.submitted + Uncounted + (count.dropped + 1) + Cardinality(refused) = (nextId + 1) - 1
        BY <1>k
      <3>4. RequestsCounted' BY <2>1, <2>3, <3>1, <3>2, <3>3 DEF RequestsCounted
      <3>5. OutcomesCounted' BY <1>c, <2>1, <3>1, <3>2 DEF OutcomesCounted
      <3> QED BY <1>e, <2>3, <3>4, <3>5
    <2>4. CASE Report /\ refused' = refused \union {nextId} /\ UNCHANGED <<spc, count>>
      <3>1. nextId \notin refused
        <4>1. refused \subseteq 1..(nextId - 1) BY DEF Places
        <4> QED BY <1>a, <4>1
      <3> DEFINE R == refused
      <3>2. IsFiniteSet(R) /\ nextId \notin R /\ Cardinality(R) \in Nat BY <1>a, <3>1
      <3> HIDE DEF R
      <3>3. IsFiniteSet(R \union {nextId}) /\ Cardinality(R \union {nextId}) = Cardinality(R) + 1
        BY <3>2, FS_AddElement
      <3>4. IsFiniteSet(refused') /\ Cardinality(refused') = Cardinality(refused) + 1
        BY <2>4, <3>3 DEF R
      <3>5. Uncounted' = Uncounted BY <2>4 DEF Uncounted
      <3>6. RequestsCounted' BY <1>b, <1>h, <1>i, <1>d, <2>1, <2>4, <3>4, <3>5 DEF RequestsCounted
      <3>7. errorPosted' = TRUE /\ fatal' = 1 BY <1>c, <2>4 DEF Report
      <3>8. OutcomesCounted' BY <1>g, <2>1, <2>4
      <3> QED BY <3>4, <3>6, <3>7, <3>8 DEF Tallies
    <2> QED BY <1>4, <2>2, <2>3, <2>4 DEF BatchOffered
  <1>5. CASE CountSubmitted
    <2>1. /\ spc = "count" /\ spc' = "idle" /\ count' = [count EXCEPT !.submitted = @ + 1]
          /\ UNCHANGED <<refused, wpc, nextId, answered, rejected, fatal, errorPosted>>
      BY <1>5 DEF CountSubmitted
    <2>2. /\ count'.failed = count.failed /\ count'.submitted = count.submitted + 1
          /\ count'.completed = count.completed /\ count'.dropped = count.dropped
      BY <1>a, <2>1 DEF Counts
    <2>3. Uncounted = 1 /\ Uncounted' = 0 /\ Unposted' = Unposted BY <2>1 DEF Uncounted, Unposted
    <2>4. RequestsCounted' BY <1>b, <1>h, <1>i, <2>1, <2>2, <2>3 DEF RequestsCounted
    <2>5. OutcomesCounted' BY <1>c, <2>1, <2>2, <2>3 DEF OutcomesCounted
    <2> QED BY <1>e, <2>1, <2>4, <2>5
  <1>6. CASE WorkerCounts
    <2>1. /\ wpc = "request" /\ wpc' = "post"
          /\ UNCHANGED <<refused, spc, nextId, answered, rejected, fatal, errorPosted>>
          /\ \/ count' = [count EXCEPT !.completed = @ + 1]
             \/ count' = [count EXCEPT !.failed = @ + 1]
      BY <1>6 DEF WorkerCounts
    <2>2. /\ count'.submitted = count.submitted /\ count'.dropped = count.dropped
          /\ \/ count'.completed = count.completed + 1 /\ count'.failed = count.failed
             \/ count'.completed = count.completed /\ count'.failed = count.failed + 1
      BY <1>a, <2>1 DEF Counts
    <2>3. Uncounted' = Uncounted /\ Unposted = 0 /\ Unposted' = 1 BY <2>1 DEF Uncounted, Unposted
    <2>4. RequestsCounted' BY <1>c, <2>1, <2>2, <2>3 DEF RequestsCounted
    <2>5. OutcomesCounted' BY <1>b, <1>h, <1>j, <2>1, <2>2, <2>3 DEF OutcomesCounted
    <2> QED BY <1>e, <2>1, <2>4, <2>5
  <1>7. CASE WorkerPosts
    <2>1. /\ wpc = "post" /\ wpc' = "recv"
          /\ UNCHANGED <<refused, count, spc, nextId, rejected, fatal, errorPosted>>
      BY <1>7 DEF WorkerPosts
    <2>2. Len(answered') = Len(answered) + 1 BY <1>7, PostFates
    <2>3. Unposted = 1 /\ Unposted' = 0 BY <2>1 DEF Unposted
    <2>4. OutcomesCounted' BY <1>b, <1>h, <1>j, <2>1, <2>2, <2>3 DEF OutcomesCounted
    <2> QED BY <1>e, <1>f, <2>1, <2>4
  <1>8. ASSUME WorkerReceive \/ WorkerDisconnected PROVE Tallies'
    <2>1. /\ wpc = "recv" /\ wpc' # "post"
          /\ UNCHANGED <<refused, count, spc, nextId, answered, rejected, fatal, errorPosted>>
      BY <1>8 DEF WorkerReceive, WorkerDisconnected
    <2>2. OutcomesCounted' BY <1>c, <2>1 DEF OutcomesCounted, Unposted
    <2> QED BY <1>e, <1>f, <2>1, <2>2
  <1>9. ASSUME Stop \/ StopJoined \/ ResetGeneration \/ UNCHANGED vars PROVE Tallies'
    <2>1. UNCHANGED <<refused, count, spc, wpc, nextId, answered, rejected, fatal, errorPosted>>
      BY <1>9 DEF Stop, StopJoined, ResetGeneration, vars
    <2> QED BY <1>e, <1>f, <1>g, <2>1
  <1>10. ASSUME NEW pts \in Pts, NEW size, FrameSkipped(pts) \/ FrameCollected(pts, size)
         PROVE  Tallies'
    <2>1. UNCHANGED <<refused, count, spc, wpc, nextId, answered, rejected, fatal, errorPosted>>
      BY <1>10 DEF FrameSkipped, FrameCollected
    <2> QED BY <1>e, <1>f, <1>g, <2>1
  <1> QED
    BY <1>1, <1>2, <1>3, <1>4, <1>5, <1>6, <1>7, <1>8, <1>9, <1>10 DEF Next, Answer, Prompt

\* No run has begun: nothing has a fate yet.
LEMMA FateInit == ASSUME Init PROVE FateInv
  <1> USE DEF Init
  <1>1. IInv BY InvariantInit
  <1>2. /\ answered = <<>> /\ queue = <<>> /\ hand.id = 0 /\ nextId = 1
        /\ bounced = {} /\ refused = {} /\ abandoned = {}
    BY DEF NoBatch
  <1>3. DOMAIN answered = {} /\ DOMAIN queue = {} /\ Len(answered) = 0 /\ Len(queue) = 0 BY <1>2
  <1>4. Answered = {} /\ Waiting = {} /\ InHand = {} BY <1>2, <1>3 DEF Answered, Waiting, InHand
  <1>5. NoCounts \in Counts /\ NoCounts.submitted = 0 /\ NoCounts.completed = 0 /\ NoCounts.failed = 0
        /\ NoCounts.dropped = 0
    BY DEF NoCounts, Counts
  <1>6. MaxRuns \in Nat /\ MaxInputs \in Nat /\ QueueCapacity \in Nat
    BY VlmAssumption, SettingsAssumption
  <1>7. TypedRun
    <2>1. started \in BOOLEAN /\ errorPosted \in BOOLEAN OBVIOUS
    <2>2. run \in 0..MaxRuns /\ inputs \in 0..MaxInputs BY <1>6
    <2> QED BY <1>5, <2>1, <2>2 DEF TypedRun
  <1>8. InLimits
    <2>1. sampler.seen = {} /\ sampler.at = {} /\ {} \in Pts BY DEF FreshSampler, Pts
    <2> QED BY <1>3, <1>6, <2>1 DEF InLimits
  <1>9. Turns BY <1>2 DEF Turns
  <1>10. 1..(nextId - 1) = {} OBVIOUS
  <1>11. InOrder BY <1>3, <1>4 DEF InOrder
  <1>12. Places BY <1>2, <1>4, <1>10 DEF Places
  <1>13. IsFiniteSet(refused) /\ Cardinality(refused) = 0 BY <1>2, FS_EmptySet
  <1>14. RequestsCounted BY <1>5, <1>13 DEF RequestsCounted, Uncounted
  <1>15. OutcomesCounted BY <1>3, <1>5 DEF OutcomesCounted, Unposted
  <1>16. Tallies BY <1>13, <1>14, <1>15 DEF Tallies
  <1> QED BY <1>1, <1>7, <1>8, <1>9, <1>11, <1>12, <1>16 DEF FateInv

\* What the parts say together.
LEMMA FateInvConsistent == ASSUME FateInv PROVE Consistent
  <1> USE DEF FateInv
  <1>0. /\ queue \in Seq(Batches) /\ answered \in Seq(Nat \X Nat \X Seq(Frames)) /\ hand \in Batches
        /\ nextId \in Nat /\ generation \in Nat /\ sampler \in Samplers /\ setting \in Settings
    BY DEF IInv, Typed
  <1>1. TypeOK
    <2>1. Range(count) \subseteq Nat
      <3>1. count \in Counts BY DEF TypedRun
      <3> SUFFICES ASSUME NEW x \in DOMAIN count PROVE count[x] \in Nat BY DEF Range
      <3>2. x \in {"submitted", "completed", "failed", "dropped"} BY <3>1 DEF Counts
      <3> QED BY <3>1, <3>2 DEF Counts
    <2>2. sampler.bytes \in 0..MaxBatchBytes
      <3> DEFINE n == Len(sampler.frames)  p == setting.perRequest  b == sampler.bytes
      <3>1. b \in Nat /\ n \in Nat /\ n < p /\ b <= n * MaxFrameBytes
        BY <1>0 DEF IInv, Incomplete, Samplers
      <3>2. /\ p \in Nat /\ MaxFrameBytes \in Nat /\ MaxBatchBytes \in Nat
            /\ p * MaxFrameBytes <= MaxBatchBytes
        BY <1>0, SettingsAssumption DEF Settings
      <3> HIDE DEF n, p, b
      <3>3. PICK d \in Nat : p = n + d
        <4>1. p - n \in Nat /\ p = n + (p - n) BY <3>1, <3>2
        <4> QED BY <4>1
      <3>4. p * MaxFrameBytes = n * MaxFrameBytes + d * MaxFrameBytes BY <3>1, <3>2, <3>3
      <3>5. d * MaxFrameBytes \in Nat /\ n * MaxFrameBytes \in Nat BY <3>1, <3>2, <3>3
      <3>6. b <= MaxBatchBytes BY <3>1, <3>2, <3>4, <3>5
      <3>7. b \in 0..MaxBatchBytes BY <3>1, <3>2, <3>6
      <3> QED BY <3>7 DEF b
    <2>3. sampler.withoutPts \in BOOLEAN BY <1>0 DEF Samplers
    <2>4. {started, errorPosted} \subseteq BOOLEAN BY DEF TypedRun
    <2>5. {generation, nextId} \subseteq Nat \ {0} BY <1>0 DEF InLimits
    <2> QED BY <1>0, <2>1, <2>2, <2>3, <2>4, <2>5 DEF TypeOK, TypedRun, InLimits
  <1>2. RequestsAccounted
    <2> DEFINE ids == [k \in DOMAIN answered |-> answered[k][1]]
               waiting == {queue[k].id : k \in DOMAIN queue}
               places == <<ToSet(ids), waiting, {hand.id} \ {0}, bounced, refused, abandoned>>
               inHand == IF wpc = "post" THEN 1 ELSE 0
               uncounted == IF spc = "count" THEN 1 ELSE 0
    <2>1. DOMAIN answered = 1..Len(answered) /\ Len(answered) \in Nat BY <1>0
    <2>2. ids \in Seq(Nat) /\ Len(ids) = Len(answered) /\ DOMAIN ids = DOMAIN answered
      <3>1. \A k \in 1..Len(answered) : answered[k][1] \in Nat BY <1>0
      <3>2. ids \in [1..Len(answered) -> Nat] BY <2>1, <3>1
      <3> HIDE DEF ids
      <3> QED BY <2>1, <3>2
    <2>3. ToSet(ids) = Answered
      <3>1. ToSet(ids) = {ids[k] : k \in DOMAIN ids} BY DEF ToSet
      <3>2. \A k \in DOMAIN answered : ids[k] = answered[k][1] OBVIOUS
      <3> HIDE DEF ids
      <3> QED BY <2>2, <3>1, <3>2 DEF Answered
    <2>4. /\ places[1] = Answered /\ places[2] = Waiting /\ places[3] = InHand /\ places[4] = bounced
          /\ places[5] = refused /\ places[6] = abandoned /\ DOMAIN places = {1, 2, 3, 4, 5, 6}
      <3>1. DOMAIN places = 1..6 OBVIOUS
      <3>2. 1..6 = {1, 2, 3, 4, 5, 6} OBVIOUS
      <3> QED BY <2>3, <3>1, <3>2 DEF Waiting, InHand
    <2>5. \A k \in 2..Len(ids) : ids[k - 1] < ids[k]
      <3> SUFFICES ASSUME NEW k \in 2..Len(answered) PROVE ids[k - 1] < ids[k] BY <2>2
      <3>1. k \in 1..Len(answered) /\ k - 1 \in 1..Len(answered) /\ k - 1 < k BY <2>1
      <3>2. answered[k - 1][1] < answered[k][1] BY <2>1, <3>1 DEF InOrder
      <3> QED BY <2>1, <3>1, <3>2
    <2>6. count.submitted + uncounted + count.dropped + Cardinality(refused) = nextId - 1
      BY DEF Tallies, RequestsCounted, Uncounted
    <2>7. count.completed + count.failed - rejected = Len(ids) + inHand
      <3>1. /\ count.completed \in Nat /\ count.failed \in Nat /\ rejected \in Nat
        BY DEF TypedRun, Counts
      <3>2. inHand \in Nat OBVIOUS
      <3>3. count.completed + count.failed = Len(answered) + rejected + inHand
        BY DEF Tallies, OutcomesCounted, Unposted
      <3> DEFINE c == count.completed  f == count.failed  n == Len(answered)  m == Len(ids)
      <3>4. /\ c \in Nat /\ f \in Nat /\ rejected \in Nat /\ n \in Nat /\ m = n
            /\ c + f = n + rejected + inHand
        BY <2>1, <2>2, <3>1, <3>3
      <3> HIDE DEF inHand, c, f, n, m
      <3>5. c + f - rejected = m + inHand BY <3>2, <3>4
      <3> QED BY <3>5 DEF c, f, m
    <2> HIDE DEF places, ids
    <2>8. UNION ToSet(places) = 1..(nextId - 1)
      <3>1. ToSet(places) = {places[k] : k \in DOMAIN places} BY DEF ToSet
      <3>2. ToSet(places) = {Answered, Waiting, InHand, bounced, refused, abandoned} BY <2>4, <3>1
      <3>3. UNION ToSet(places) =
              Answered \union Waiting \union InHand \union bounced \union refused \union abandoned
        BY <3>2
      <3> QED BY <3>3 DEF Places
    <2>9. \A j, k \in DOMAIN places : j # k => places[j] \intersect places[k] = {}
      <3>1. /\ Answered \intersect Waiting = {} /\ Answered \intersect InHand = {}
            /\ Waiting \intersect InHand = {}
        <4>1. \A a \in Answered : a \in Nat /\ a \notin InHand /\ a \notin Waiting
          BY IdsAreNaturals DEF InOrder
        <4>2. \A h \in InHand : h \in Nat /\ h \notin Waiting
          BY IdsAreNaturals DEF InOrder
        <4> QED BY <4>1, <4>2
      <3>2. /\ bounced \intersect refused = {} /\ bounced \intersect abandoned = {}
            /\ refused \intersect abandoned = {}
        BY DEF Places
      <3>3. \A s \in {Answered, Waiting, InHand} :
              s \intersect bounced = {} /\ s \intersect refused = {} /\ s \intersect abandoned = {}
        BY DEF Places
      <3> SUFFICES ASSUME NEW j \in {1, 2, 3, 4, 5, 6}, NEW k \in {1, 2, 3, 4, 5, 6}, j # k
                   PROVE  places[j] \intersect places[k] = {}
        BY <2>4
      <3>4. \/ j = 1 \/ j = 2 \/ j = 3 \/ j = 4 \/ j = 5 \/ j = 6 OBVIOUS
      <3>5. CASE j = 1 BY <2>4, <3>1, <3>3, <3>5
      <3>6. CASE j = 2 BY <2>4, <3>1, <3>3, <3>6
      <3>7. CASE j = 3 BY <2>4, <3>1, <3>3, <3>7
      <3>8. CASE j = 4 BY <2>4, <3>2, <3>3, <3>8
      <3>9. CASE j = 5 BY <2>4, <3>2, <3>3, <3>9
      <3>10. CASE j = 6 BY <2>4, <3>2, <3>3, <3>10
      <3> QED BY <3>4, <3>5, <3>6, <3>7, <3>8, <3>9, <3>10
    <2> QED BY <2>5, <2>6, <2>7, <2>8, <2>9 DEF RequestsAccounted, places, ids
  <1>3. ReportedOnce BY DEF ReportedOnce, Tallies
  <1> QED BY <1>1, <1>2, <1>3 DEF Consistent

\* Every request of a run has exactly one fate, requests are answered in their order,
\* and the four counters and the one error say so, whatever the stream, the worker,
\* the server and stop() do.
THEOREM RequestsStayAccounted == Spec => []Consistent
  <1>1. Init => FateInv BY FateInit
  <1>2. FateInv /\ [Next]_vars => FateInv'
    BY InvariantStep, TypedRunStep, InLimitsStep, TurnsStep, FatesStep, TalliesStep DEF FateInv
  <1>3. FateInv => Consistent BY FateInvConsistent
  <1> QED BY <1>1, <1>2, <1>3, PTL DEF Spec
=============================================================================
