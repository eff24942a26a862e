---------------------------- MODULE S2SinkProofs ----------------------------
(***************************************************************************)
(* Proofs about S2Sink for every queue capacity, every bound and every     *)
(* interleaving: its types, the conservation of records, the durability    *)
(* that a successful EOS drain or stop() stands for, that no notification  *)
(* is lost, and that the sink is the abstract log.                         *)
(***************************************************************************)
EXTENDS S2Sink, SequenceTheorems, TLAPS

USE CapacityAssumption, SwitchAssumption, BoundAssumption
USE DEF queueVars, drainVars, workerVars, serviceVars, inputVars, Goto
-----------------------------------------------------------------------------
\* A fresh element and a fresh queue have the right types.
LEMMA TypeInit == Init => TypeOK
  <1> SUFFICES ASSUME Init PROVE TypeOK
    OBVIOUS
  <1>0. <<>> \in Seq(Nat) /\ Len(<<>>) = 0
    BY EmptySeq
  <1>1. QueueTyped
    <2>1. state \in QueueStates BY <1>0 DEF Init, QueueStates, NewSharedQueue, NoDrain
    <2>2. state.records = <<>> BY DEF Init, NewSharedQueue
    <2>3. 0 <= Capacity BY CapacityAssumption
    <2> QED BY <1>0, <2>1, <2>2, <2>3 DEF Init, QueueTyped
  <1>2. ThreadsTyped
    BY DEF Init, ThreadsTyped, Threads, StreamLabels, AppLabels, DrainLabels
  <1>3. DrainsTyped BY DEF Init, DrainsTyped, NoDrain
  <1>4. WorkerTyped BY <1>0 DEF Init, WorkerTyped, WorkerLabels, NoDrain
  <1>5. ServiceTyped /\ InputsTyped BY <1>0 DEF Init, ServiceTyped, InputsTyped
  <1> QED BY <1>1, <1>2, <1>3, <1>4, <1>5 DEF TypeOK

\* A thread that requests a drain keeps the types of the queue and of the drains.
LEMMA EnterTypes ==
  ASSUME TypeOK, NEW t \in Threads, DrainEnter(t) PROVE QueueTyped' /\ DrainsTyped'
  <1> USE DEF TypeOK
  <1>1. state.drain \in Nat /\ DrainRequest \in Nat
    BY DEF DrainRequest, QueueTyped, QueueStates, DrainsTyped
  <1>2. state' \in QueueStates /\ state'.records = state.records
    BY <1>1 DEF DrainEnter, QueueTyped, QueueStates
  <1>3. QueueTyped' BY <1>2 DEF DrainEnter, QueueTyped
  <1>4. Len(accepted) \in Nat BY LenProperties DEF InputsTyped
  <1>5. DrainOutcome(DrainRequest) \in {"complete", "flushing", "failure"}
    BY DEF DrainOutcome
  <1>6. drains' \in Nat /\ drained' \subseteq Nat /\ held' \in [Threads -> Nat]
    BY <1>1 DEF DrainEnter, DrainsTyped
  <1>7. want' \in [Threads -> Nat] BY <1>4 DEF DrainEnter, DrainsTyped
  <1>8. outcome' \in [Threads -> {"none", "complete", "flushing", "timeout", "failure"}]
    BY <1>5 DEF DrainEnter, DrainsTyped, EvaluateDrain
  <1> QED BY <1>3, <1>6, <1>7, <1>8 DEF DrainsTyped

\* The steps inside drain() keep the types.
LEMMA DrainTypes == ASSUME TypeOK, NEW t \in Threads, DrainStep(t) \/ DrainTimeout(t) \/
  SpuriousWakeup(t) PROVE TypeOK'
  <1> USE DEF TypeOK
  <1>1. CASE DrainCheck(t)
    <2>1. ThreadsTyped' BY <1>1 DEF DrainCheck, EvaluateDrain, ThreadsTyped, StreamLabels,
      AppLabels, DrainLabels, Threads
    <2>2. DrainsTyped' BY <1>1 DEF DrainCheck, EvaluateDrain, DrainOutcome, DrainsTyped
    <2> QED BY <1>1, <2>1, <2>2 DEF DrainCheck, QueueTyped, WorkerTyped, ServiceTyped,
      InputsTyped
  <1>2. CASE DrainCancel(t)
    <2>1. QueueTyped' BY <1>2 DEF DrainCancel, QueueTyped, QueueStates
    <2>2. ThreadsTyped' BY <1>2 DEF DrainCancel, ThreadsTyped, StreamLabels, AppLabels,
      DrainLabels, Threads
    <2> QED BY <1>2, <2>1, <2>2 DEF DrainCancel, DrainsTyped, WorkerTyped, ServiceTyped,
      InputsTyped
  <1>3. CASE DrainStoreFailure(t)
    <2>1. QueueTyped' BY <1>3 DEF DrainStoreFailure, WithFailure, QueueTyped, QueueStates
    <2>2. ThreadsTyped' BY <1>3 DEF DrainStoreFailure, ThreadsTyped, StreamLabels,
      AppLabels, DrainLabels, Threads
    <2> QED BY <1>3, <2>1, <2>2 DEF DrainStoreFailure, DrainsTyped, WorkerTyped,
      ServiceTyped, InputsTyped
  <1>4. CASE DrainNotify(t)
    <2>1. QueueTyped' BY <1>4 DEF DrainNotify, QueueTyped, QueueStates
    <2>2. ThreadsTyped' BY <1>4 DEF DrainNotify, WakeDone, WakeCapacity, ThreadsTyped,
      StreamLabels, AppLabels, DrainLabels, Threads
    <2>3. DrainsTyped' BY <1>4 DEF DrainNotify, DrainsTyped
    <2> QED BY <1>4, <2>1, <2>2, <2>3 DEF DrainNotify, WorkerTyped, ServiceTyped,
      InputsTyped
  <1>5. CASE DrainTimeout(t)
    BY <1>5 DEF DrainTimeout, ThreadsTyped, StreamLabels, AppLabels, DrainLabels, Threads,
      QueueTyped, DrainsTyped, WorkerTyped, ServiceTyped, InputsTyped
  <1>6. CASE SpuriousWakeup(t)
    BY <1>6 DEF SpuriousWakeup, ThreadsTyped, StreamLabels, AppLabels, DrainLabels, Threads,
      QueueTyped, DrainsTyped, WorkerTyped, ServiceTyped, InputsTyped
  <1> QED BY <1>1, <1>2, <1>3, <1>4, <1>5, <1>6 DEF DrainStep

\* The steps of the streaming thread keep the types.
LEMMA StreamTypes == ASSUME TypeOK, StreamStep PROVE TypeOK'
  <1> USE DEF TypeOK
  <1>1. CASE EnqueueRefused
    BY <1>1 DEF EnqueueRefused, ThreadsTyped, StreamLabels, AppLabels, DrainLabels, Threads,
      QueueTyped, DrainsTyped, WorkerTyped, ServiceTyped, InputsTyped
  <1>2. CASE EnqueuePush
    <2>1. QueueTyped'
      <3>1. /\ Append(state.records, rendered) \in Seq(Nat)
            /\ Len(Append(state.records, rendered)) = Len(state.records) + 1
        BY AppendProperties DEF QueueTyped, QueueStates, InputsTyped
      <3>2. state' = [state EXCEPT !.records = Append(state.records, rendered)]
        BY <1>2 DEF EnqueuePush
      <3>3. state' \in QueueStates BY <3>1, <3>2 DEF QueueTyped, QueueStates
      <3>4. state'.records = Append(state.records, rendered)
        BY <3>1, <3>2 DEF QueueTyped, QueueStates
      <3>5. Len(state.records) \in Nat BY LenProperties DEF QueueTyped, QueueStates
      <3>6. Len(state'.records) <= Capacity BY <1>2, <3>1, <3>4, <3>5 DEF EnqueuePush,
        HasRoom
      <3> QED BY <1>2, <3>3, <3>6 DEF EnqueuePush, QueueTyped
    <2>2. ThreadsTyped' BY <1>2 DEF EnqueuePush, ThreadsTyped, StreamLabels, AppLabels,
      DrainLabels, Threads
    <2>3. InputsTyped' BY <1>2, AppendProperties DEF EnqueuePush, InputsTyped
    <2> QED BY <1>2, <2>1, <2>2, <2>3 DEF EnqueuePush, DrainsTyped, WorkerTyped,
      ServiceTyped
  <1>3. CASE EnqueueWait
    BY <1>3 DEF EnqueueWait, ThreadsTyped, StreamLabels, AppLabels, DrainLabels, Threads,
      QueueTyped, DrainsTyped, WorkerTyped, ServiceTyped, InputsTyped
  <1>4. CASE EnqueueNotify
    <2>1. QueueTyped' BY <1>4 DEF EnqueueNotify, QueueTyped, QueueStates
    <2>2. ThreadsTyped' BY <1>4 DEF EnqueueNotify, ThreadsTyped, StreamLabels, AppLabels,
      DrainLabels, Threads
    <2> QED BY <1>4, <2>1, <2>2 DEF EnqueueNotify, DrainsTyped, WorkerTyped, ServiceTyped,
      InputsTyped
  <1>5. CASE EosForward
    <2>1. ThreadsTyped' BY <1>5 DEF EosForward, ThreadsTyped, StreamLabels, AppLabels,
      DrainLabels, Threads
    <2>2. InputsTyped' BY <1>5 DEF EosForward, InputsTyped
    <2> QED BY <1>5, <2>1, <2>2 DEF EosForward, QueueTyped, DrainsTyped, WorkerTyped,
      ServiceTyped
  <1>6. CASE EosFail
    <2>1. QueueTyped' BY <1>6 DEF EosFail, PostOnce, QueueTyped, QueueStates
    <2>2. ThreadsTyped' BY <1>6 DEF EosFail, ThreadsTyped, StreamLabels, AppLabels,
      DrainLabels, Threads
    <2>3. InputsTyped' BY <1>6 DEF EosFail, InputsTyped
    <2> QED BY <1>6, <2>1, <2>2, <2>3 DEF EosFail, DrainsTyped, WorkerTyped, ServiceTyped
  <1>7. CASE DrainStep("stream")
    BY <1>7, DrainTypes DEF Threads
  <1> QED BY <1>1, <1>2, <1>3, <1>4, <1>5, <1>6, <1>7 DEF StreamStep

\* The steps of unlock(), unlock_stop() and stop() keep the types.
LEMMA AppTypes == ASSUME TypeOK, AppStep PROVE TypeOK'
  <1> USE DEF TypeOK
  <1>1. CASE UnlockNotify
    BY <1>1 DEF UnlockNotify, WakeDone, WakeCapacity, ThreadsTyped, StreamLabels, AppLabels,
      DrainLabels, Threads, QueueTyped, DrainsTyped, WorkerTyped, ServiceTyped, InputsTyped
  <1>2. CASE UnlockStop
    <2>1. QueueTyped' BY <1>2 DEF UnlockStop, NotFlushing, QueueTyped, QueueStates
    <2>2. ThreadsTyped' BY <1>2 DEF UnlockStop, ThreadsTyped, StreamLabels, AppLabels,
      DrainLabels, Threads
    <2>3. InputsTyped' BY <1>2 DEF UnlockStop, InputsTyped
    <2> QED BY <1>2, <2>1, <2>2, <2>3 DEF UnlockStop, DrainsTyped, WorkerTyped, ServiceTyped
  <1>3. CASE CloseNotify
    <2>1. QueueTyped' BY <1>3 DEF CloseNotify, QueueTyped, QueueStates
    <2>2. ThreadsTyped' BY <1>3 DEF CloseNotify, WakeCapacity, ThreadsTyped, StreamLabels,
      AppLabels, DrainLabels, Threads
    <2> QED BY <1>3, <2>1, <2>2 DEF CloseNotify, DrainsTyped, WorkerTyped, ServiceTyped,
      InputsTyped
  <1>4. CASE StopDrain
    <2>1. QueueTyped' BY <1>4, EnterTypes DEF StopDrain, Threads
    <2>2. DrainsTyped' BY <1>4, EnterTypes DEF StopDrain, Threads
    <2>3. ThreadsTyped' BY <1>4 DEF StopDrain, DrainEnter, EvaluateDrain, ThreadsTyped,
      StreamLabels, AppLabels, DrainLabels, Threads
    <2> QED BY <1>4, <2>1, <2>2, <2>3 DEF StopDrain, DrainEnter, WorkerTyped, ServiceTyped,
      InputsTyped
  <1>5. CASE StopJoin
    <2>1. QueueTyped' BY <1>5 DEF StopJoin, StopReturns, QueueTyped
    <2>2. ThreadsTyped' BY <1>5 DEF StopJoin, StopReturns, ThreadsTyped, StreamLabels,
      AppLabels, DrainLabels, Threads
    <2> QED BY <1>5, <2>1, <2>2 DEF StopJoin, DrainsTyped, WorkerTyped, ServiceTyped,
      InputsTyped
  <1>6. CASE DrainStep("app")
    BY <1>6, DrainTypes DEF Threads
  <1> QED BY <1>1, <1>2, <1>3, <1>4, <1>5, <1>6 DEF AppStep

\* The steps of the append worker keep the types.
LEMMA WorkerTypes == ASSUME TypeOK, WorkerStep PROVE TypeOK'
  <1> USE DEF TypeOK
  <1>1. CASE WorkerConnect
    BY <1>1 DEF WorkerConnect, WorkerTyped, WorkerLabels, QueueTyped, DrainsTyped,
      ThreadsTyped, ServiceTyped, InputsTyped
  <1>2. CASE WorkerPop
    <2>1. QueueTyped'
      <3>1. state.records \in Seq(Nat) /\ state.records # <<>>
        BY <1>2 DEF WorkerPop, QueueTyped, QueueStates
      <3>2. /\ Tail(state.records) \in Seq(Nat)
            /\ Len(Tail(state.records)) = Len(state.records) - 1
            /\ Len(state.records) \in Nat
        BY <3>1, HeadTailProperties, LenProperties
      <3>3. state' = [state EXCEPT !.records = Tail(state.records)] BY <1>2 DEF WorkerPop
      <3>4. state' \in QueueStates /\ state'.records = Tail(state.records)
        BY <3>2, <3>3 DEF QueueTyped, QueueStates
      <3> QED BY <1>2, <3>2, <3>4 DEF WorkerPop, QueueTyped
    <2>2. ThreadsTyped' BY <1>2 DEF WorkerPop, WakeCapacity, ThreadsTyped, StreamLabels,
      AppLabels, DrainLabels, Threads
    <2>3. WorkerTyped'
      <3>1. Head(state.records) \in Nat
        BY <1>2, HeadTailProperties DEF WorkerPop, QueueTyped, QueueStates
      <3>2. cur' \in Seq(Nat) BY <1>2, <3>1 DEF WorkerPop, NextRecord
      <3> QED BY <1>2, <3>2 DEF WorkerPop, WorkerTyped, WorkerLabels
    <2> QED BY <1>2, <2>1, <2>2, <2>3 DEF WorkerPop, DrainsTyped, ServiceTyped, InputsTyped
  <1>3. CASE WorkerTakeDrain
    <2>1. QueueTyped' BY <1>3 DEF WorkerTakeDrain, NoDrain, QueueTyped, QueueStates
    <2>2. WorkerTyped' BY <1>3 DEF WorkerTakeDrain, QueueTyped, QueueStates, WorkerTyped,
      WorkerLabels
    <2> QED BY <1>3, <2>1, <2>2 DEF WorkerTakeDrain, DrainsTyped, ThreadsTyped,
      ServiceTyped, InputsTyped
  <1>4. CASE WorkerSubmit
    <2>1. WorkerTyped'
      <3>1. Len(sent) \in Nat BY LenProperties DEF ServiceTyped
      <3>2. <<>> \in Seq(Nat) BY EmptySeq
      <3>3. cur' \in Seq(Nat) BY <1>4, <3>2 DEF WorkerSubmit
      <3>4. tickets' \subseteq Nat
        <4>1. Len(sent) + 1 \in Nat BY <3>1
        <4>2. tickets' = tickets \union {Len(sent) + 1} BY <1>4 DEF WorkerSubmit
        <4>3. tickets \subseteq Nat BY DEF WorkerTyped
        <4> QED BY <4>1, <4>2, <4>3
      <3> QED BY <1>4, <3>3, <3>4 DEF WorkerSubmit, WorkerTyped, WorkerLabels
    <2>2. ServiceTyped'
      BY <1>4, ConcatProperties DEF WorkerSubmit, ServiceTyped, WorkerTyped
    <2> QED BY <1>4, <2>1, <2>2 DEF WorkerSubmit, QueueTyped, DrainsTyped, ThreadsTyped,
      InputsTyped
  <1>5. CASE WorkerFlush
    <2>1. ThreadsTyped' BY <1>5 DEF WorkerFlush, WakeDone, ThreadsTyped, StreamLabels,
      AppLabels, DrainLabels, Threads
    <2>2. DrainsTyped' BY <1>5 DEF WorkerFlush, WorkerTyped, DrainsTyped
    <2>3. WorkerTyped' BY <1>5 DEF WorkerFlush, WorkerTyped, WorkerLabels
    <2> QED BY <1>5, <2>1, <2>2, <2>3 DEF WorkerFlush, QueueTyped, ServiceTyped, InputsTyped
  <1>6. CASE WorkerWake
    <2>1. QueueTyped' BY <1>6 DEF WorkerWake, QueueTyped, QueueStates
    <2>2. WorkerTyped' BY <1>6 DEF WorkerWake, WorkerTyped, WorkerLabels
    <2> QED BY <1>6, <2>1, <2>2 DEF WorkerWake, DrainsTyped, ThreadsTyped, ServiceTyped,
      InputsTyped
  <1>7. CASE WorkerTicket
    BY <1>7 DEF WorkerTicket, WorkerTyped, WorkerLabels, QueueTyped, DrainsTyped,
      ThreadsTyped, ServiceTyped, InputsTyped
  <1>8. CASE WorkerClose
    <2>1. WorkerTyped' BY <1>8 DEF WorkerClose, WorkerTyped, WorkerLabels
    <2>2. ServiceTyped' BY <1>8 DEF WorkerClose, ServiceTyped
    <2> QED BY <1>8, <2>1, <2>2 DEF WorkerClose, QueueTyped, DrainsTyped, ThreadsTyped,
      InputsTyped
  <1>9. CASE WorkerCollected
    BY <1>9 DEF WorkerCollected, WorkerTyped, WorkerLabels, QueueTyped, DrainsTyped,
      ThreadsTyped, ServiceTyped, InputsTyped
  <1>10. CASE WorkerError
    BY <1>10 DEF WorkerError, WorkerTyped, WorkerLabels, QueueTyped, DrainsTyped,
      ThreadsTyped, ServiceTyped, InputsTyped
  <1>11. CASE WorkerStoreFailure
    <2>1. QueueTyped' BY <1>11 DEF WorkerStoreFailure, WithFailure, QueueTyped, QueueStates
    <2>2. WorkerTyped' BY <1>11 DEF WorkerStoreFailure, WorkerTyped, WorkerLabels
    <2> QED BY <1>11, <2>1, <2>2 DEF WorkerStoreFailure, DrainsTyped, ThreadsTyped,
      ServiceTyped, InputsTyped
  <1>12. CASE WorkerStoreNotify
    <2>1. QueueTyped' BY <1>12 DEF WorkerStoreNotify, QueueTyped, QueueStates
    <2>2. ThreadsTyped' BY <1>12 DEF WorkerStoreNotify, WakeDone, WakeCapacity,
      ThreadsTyped, StreamLabels, AppLabels, DrainLabels, Threads
    <2>3. WorkerTyped' BY <1>12 DEF WorkerStoreNotify, WorkerTyped, WorkerLabels
    <2> QED BY <1>12, <2>1, <2>2, <2>3 DEF WorkerStoreNotify, DrainsTyped, ServiceTyped,
      InputsTyped
  <1>13. CASE WorkerPost
    <2>1. QueueTyped' BY <1>13 DEF WorkerPost, PostOnce, QueueTyped, QueueStates
    <2>2. WorkerTyped' BY <1>13 DEF WorkerPost, WorkerTyped, WorkerLabels
    <2> QED BY <1>13, <2>1, <2>2 DEF WorkerPost, DrainsTyped, ThreadsTyped, ServiceTyped,
      InputsTyped
  <1>14. CASE WorkerFinish
    <2>1. QueueTyped' BY <1>14 DEF WorkerFinish, QueueTyped, QueueStates
    <2>2. WorkerTyped' BY <1>14 DEF WorkerFinish, WorkerTyped, WorkerLabels
    <2> QED BY <1>14, <2>1, <2>2 DEF WorkerFinish, DrainsTyped, ThreadsTyped, ServiceTyped,
      InputsTyped
  <1>15. CASE WorkerFinishNotify
    <2>1. ThreadsTyped' BY <1>15 DEF WorkerFinishNotify, WakeDone, WakeCapacity,
      ThreadsTyped, StreamLabels, AppLabels, DrainLabels, Threads
    <2>2. WorkerTyped' BY <1>15 DEF WorkerFinishNotify, WorkerTyped, WorkerLabels
    <2> QED BY <1>15, <2>1, <2>2 DEF WorkerFinishNotify, QueueTyped, DrainsTyped,
      ServiceTyped, InputsTyped
  <1> QED BY <1>1, <1>2, <1>3, <1>4, <1>5, <1>6, <1>7, <1>8, <1>9, <1>10, <1>11, <1>12,
    <1>13, <1>14, <1>15 DEF WorkerStep

\* The calls GStreamer makes, the timers and the service keep the types.
LEMMA OuterTypes == ASSUME TypeOK, Environment \/ TimerStep \/ Acknowledge \/ ProducerFails
  PROVE TypeOK'
  <1> USE DEF TypeOK
  <1>1. CASE Start
    <2>1. ThreadsTyped' BY <1>1 DEF Start, ThreadsTyped, StreamLabels, AppLabels,
      DrainLabels, Threads
    <2>2. WorkerTyped' BY <1>1 DEF Start, WorkerTyped, WorkerLabels
    <2> QED BY <1>1, <2>1, <2>2 DEF Start, QueueTyped, DrainsTyped, ServiceTyped,
      InputsTyped
  <1>2. CASE Render
    <2>1. ThreadsTyped' BY <1>2 DEF Render, ThreadsTyped, StreamLabels, AppLabels,
      DrainLabels, Threads
    <2>2. InputsTyped' BY <1>2 DEF Render, InputsTyped
    <2> QED BY <1>2, <2>1, <2>2 DEF Render, QueueTyped, DrainsTyped, WorkerTyped,
      ServiceTyped
  <1>3. CASE EosBegin
    <2>1. QueueTyped' BY <1>3, EnterTypes DEF EosBegin, Threads
    <2>2. DrainsTyped' BY <1>3, EnterTypes DEF EosBegin, Threads
    <2>3. ThreadsTyped' BY <1>3 DEF EosBegin, DrainEnter, EvaluateDrain, ThreadsTyped,
      StreamLabels, AppLabels, DrainLabels, Threads
    <2>4. InputsTyped' BY <1>3 DEF EosBegin, InputsTyped
    <2> QED BY <1>3, <2>1, <2>2, <2>3, <2>4 DEF EosBegin, DrainEnter, WorkerTyped,
      ServiceTyped
  <1>4. CASE Unlock
    <2>1. QueueTyped' BY <1>4 DEF Unlock, QueueTyped, QueueStates
    <2>2. ThreadsTyped' BY <1>4 DEF Unlock, ThreadsTyped, StreamLabels, AppLabels,
      DrainLabels, Threads
    <2>3. InputsTyped' BY <1>4 DEF Unlock, InputsTyped
    <2> QED BY <1>4, <2>1, <2>2, <2>3 DEF Unlock, DrainsTyped, WorkerTyped, ServiceTyped
  <1>5. CASE FlushStop
    BY <1>5 DEF FlushStop, InputsTyped, QueueTyped, DrainsTyped, ThreadsTyped, WorkerTyped,
      ServiceTyped
  <1>6. CASE Stop
    <2>1. QueueTyped' BY <1>6 DEF Stop, QueueTyped, QueueStates
    <2>2. ThreadsTyped' BY <1>6 DEF Stop, ThreadsTyped, StreamLabels, AppLabels,
      DrainLabels, Threads
    <2> QED BY <1>6, <2>1, <2>2 DEF Stop, DrainsTyped, WorkerTyped, ServiceTyped,
      InputsTyped
  <1>7. CASE StopAbort
    <2>1. ThreadsTyped' BY <1>7 DEF StopAbort, StopReturns, ThreadsTyped, StreamLabels,
      AppLabels,
      DrainLabels, Threads
    <2>2. WorkerTyped' BY <1>7 DEF StopAbort, WorkerTyped, WorkerLabels
    <2>3. QueueTyped' BY <1>7 DEF StopAbort, StopReturns, QueueTyped
    <2> QED BY <1>7, <2>1, <2>2, <2>3 DEF StopAbort, DrainsTyped, ServiceTyped, InputsTyped
  <1>8. CASE Acknowledge
    BY <1>8 DEF Acknowledge, ServiceTyped, QueueTyped, DrainsTyped, ThreadsTyped,
      WorkerTyped, InputsTyped
  <1>9. CASE ProducerFails
    BY <1>9 DEF ProducerFails, ServiceTyped, QueueTyped, DrainsTyped, ThreadsTyped,
      WorkerTyped, InputsTyped
  <1>10. ASSUME NEW t \in Threads, DrainTimeout(t) \/ SpuriousWakeup(t) PROVE TypeOK'
    BY <1>10, DrainTypes
  <1> QED BY <1>1, <1>2, <1>3, <1>4, <1>5, <1>6, <1>7, <1>8, <1>9, <1>10 DEF Environment,
    TimerStep

\* Every step keeps the types.
LEMMA TypeStep == ASSUME TypeOK, [Next]_vars PROVE TypeOK'
  <1>1. CASE StreamStep BY <1>1, StreamTypes
  <1>2. CASE AppStep BY <1>2, AppTypes
  <1>3. CASE WorkerStep BY <1>3, WorkerTypes
  <1>4. CASE Environment \/ TimerStep \/ Acknowledge \/ ProducerFails BY <1>4, OuterTypes
  <1>5. CASE UNCHANGED vars
    BY <1>5 DEF vars, TypeOK, QueueTyped, ThreadsTyped, DrainsTyped, WorkerTyped,
      ServiceTyped, InputsTyped
  <1> QED BY <1>1, <1>2, <1>3, <1>4, <1>5 DEF Next, Stopped

\* The queue stays within queue-capacity and every variable keeps its type, whatever
\* the capacity and however the threads, the worker and the service interleave.
THEOREM TypeCorrect == Spec => []TypeOK
  BY TypeInit, TypeStep, PTL DEF Spec
-----------------------------------------------------------------------------
(***************************************************************************)
(* The inductive invariant.  CompleteMeansAcked speaks of outcomes only;   *)
(* what makes it inductive is where a record can be (RecordsConserved,     *)
(* HandsEmpty), what each drain flag stands for while it travels from the  *)
(* request to the worker and back (FlagsFresh, FlagsCover), and what a     *)
(* worker that ended without failure left behind (EndedClean).             *)
(***************************************************************************)
\* The worker exists only after start().
StartedOnce == pc["app"] = "null" => wpc = "unborn"

\* Outside a submission the worker holds no record.
HandsEmpty ==
  wpc \in {"unborn", "connect", "take", "flush", "idle", "close", "collect"} => cur = <<>>

AckedWasSent == acked <= Len(sent)

QueueClosed == ~state.accepting /\ state.records = <<>>

\* The worker closes the producer only when nothing can follow, and ends with
\* everything acknowledged or with a failure that stays.
EndedClean ==
  /\ wpc \in {"store_notify", "post"} => state.failure # "none"
  /\ wpc \in {"close", "collect"} => QueueClosed
  /\ wpc = "collect" => acked = Len(sent)
  /\ wpc \in {"finish", "finish_notify", "exited"} /\ state.failure = "none" =>
       QueueClosed /\ cur = <<>> /\ acked = Len(sent)
  /\ state.done => wpc \in {"finish_notify", "exited"}

\* A flag that waits in the queue is not set, and is not the one being flushed.
FlagsFresh ==
  /\ state.drain <= drains /\ drained \subseteq 1..drains
  /\ state.drain \notin drained
  /\ wpc = "flush" => job \in 1..drains /\ job # state.drain

\* A flag that is set, or that the worker flushes for, covers every record that
\* was accepted when any of its waiters asked.
FlagsCover ==
  \A t \in Threads :
    /\ want[t] <= Len(accepted)
    /\ held[t] \in drained => want[t] <= acked
    /\ wpc = "flush" /\ job = held[t] => want[t] <= Len(sent)

\* Nothing is accepted while a thread drains, and stop() is never flushed.
StopPhase ==
  /\ pc["stream"] \in DrainLabels => want["stream"] = Len(accepted)
  /\ pc["app"] \in DrainLabels \union {"stopped"} => want["app"] = Len(accepted)
  /\ pc["app"] \in DrainLabels \union {"close_notify", "drain_enter", "stopped"} =>
       ~state.accepting
  /\ state.flushing => pc["app"] \in {"unlock_notify", "unlocked"}
  /\ outcome["app"] # "flushing"

IInv ==
  /\ TypeOK /\ RecordsConserved /\ StartedOnce /\ HandsEmpty /\ AckedWasSent
  /\ EndedClean /\ FlagsFresh /\ FlagsCover /\ StopPhase /\ CompleteMeansAcked
-----------------------------------------------------------------------------
\* Concatenation is associative.
LEMMA ThreeParts ==
  ASSUME NEW s \in Seq(Nat), NEW r \in Seq(Nat), NEW u \in Seq(Nat)
  PROVE  (s \o r) \o u = s \o (r \o u)
  OBVIOUS

\* An index of a sequence is one of a longer sequence.
LEMMA InLonger ==
  ASSUME NEW a \in Nat, NEW b \in Nat, NEW c \in Nat, NEW n \in 1..a
  PROVE  n \in 1..(a + b) + c /\ n <= a + b
  OBVIOUS

\* Appending to the last part of a concatenation is appending to the whole.
LEMMA AppendMovesOut ==
  ASSUME NEW s \in Seq(Nat), NEW r \in Seq(Nat), NEW e \in Nat
  PROVE  s \o Append(r, e) = Append(s \o r, e)
  <1>0. <<e>> \in Seq(Nat) OBVIOUS
  <1>1. PICK u \in Seq(Nat) : u = <<e>> BY <1>0
  <1>2. Append(r, e) = r \o u BY <1>1, AppendIsConcat
  <1>3. s \o r \in Seq(Nat) BY ConcatProperties
  <1>4. Append(s \o r, e) = (s \o r) \o u BY <1>1, <1>3, AppendIsConcat
  <1>5. (s \o r) \o u = s \o (r \o u) BY ThreeParts
  <1> QED BY <1>2, <1>4, <1>5

\* Moving the head of the second sequence to the end of the first changes nothing.
LEMMA HeadMovesOut ==
  ASSUME NEW s \in Seq(Nat), NEW r \in Seq(Nat), r # <<>>
  PROVE  (s \o <<Head(r)>>) \o Tail(r) = s \o r
  <1>1. Head(r) \in Nat /\ Tail(r) \in Seq(Nat) BY HeadTailProperties
  <1>0. <<Head(r)>> \in Seq(Nat) BY <1>1
  <1>2. PICK u \in Seq(Nat) : u = <<Head(r)>> BY <1>0
  <1>3. u \o Tail(r) = r
    <2>1. r = SubSeq(r, 1, Len(r)) BY SubSeqFull
    <2>2. Len(r) \in Nat \ {0} BY EmptySeq
    <2>2a. 1 \in 1..Len(r) /\ Len(r) \in 1..Len(r) BY <2>2
    <2>3. SubSeq(r, 1, Len(r)) = <<r[1]>> \o SubSeq(r, 2, Len(r)) BY <2>2a, SubSeqRecursiveFirst
    <2>4. Tail(r) = SubSeq(r, 2, Len(r)) BY TailIsSubSeq
    <2>5. Head(r) = r[1] OBVIOUS
    <2> QED BY <1>2, <2>1, <2>3, <2>4, <2>5
  <1>4. (s \o u) \o Tail(r) = s \o (u \o Tail(r)) BY <1>1, ThreeParts
  <1> QED BY <1>2, <1>3, <1>4

\* Only three steps move a record.
LEMMA RecordsFrame ==
  ASSUME TypeOK, [Next]_vars
  PROVE  \/ EnqueuePush \/ WorkerPop \/ WorkerSubmit
         \/ UNCHANGED <<accepted, sent, cur>> /\ state'.records = state.records
  <1> DEFINE Same == UNCHANGED <<accepted, sent, cur>> /\ state'.records = state.records
  <1> USE DEF TypeOK, QueueTyped, QueueStates
  <1>1. ASSUME NEW t \in Threads, DrainStep(t) \/ DrainTimeout(t) \/ SpuriousWakeup(t)
        PROVE  Same
    BY <1>1 DEF DrainStep, DrainCheck, DrainCancel, DrainStoreFailure, DrainNotify,
      WithFailure, DrainTimeout, SpuriousWakeup
  <1>2. CASE StreamStep
    BY <1>1, <1>2 DEF StreamStep, EnqueueRefused, EnqueueWait, EnqueueNotify, EosForward,
      EosFail, Threads
  <1>3. CASE AppStep
    BY <1>1, <1>3 DEF AppStep, UnlockNotify, UnlockStop, NotFlushing, CloseNotify, StopDrain,
      DrainEnter,
      StopJoin, StopReturns, Threads
  <1>4. CASE WorkerStep
    BY <1>4 DEF WorkerStep, WorkerConnect, WorkerTakeDrain, WorkerFlush, WorkerWake,
      WorkerTicket,
     WorkerClose, WorkerCollected, WorkerError, WorkerStoreFailure, WithFailure,
     WorkerStoreNotify, WorkerPost, WorkerFinish, WorkerFinishNotify
  <1>5. CASE Environment
    BY <1>1, <1>5 DEF Environment, Start, Render, EosBegin, DrainEnter, Unlock, FlushStop, Stop
  <1>6. CASE TimerStep \/ Acknowledge \/ ProducerFails \/ Stopped \/ UNCHANGED vars
    BY <1>1, <1>6 DEF TimerStep, StopAbort, StopReturns, Acknowledge, ProducerFails, Stopped,
      vars
  <1> QED BY <1>2, <1>3, <1>4, <1>5, <1>6 DEF Next

\* The steps that move a record move it from one end of a part to the next part.
LEMMA RecordsStep ==
  ASSUME IInv, [Next]_vars PROVE RecordsConserved'
  <1> USE DEF IInv
  <1>0. /\ accepted \in Seq(Nat) /\ sent \in Seq(Nat) /\ cur \in Seq(Nat)
        /\ state.records \in Seq(Nat) /\ rendered \in Nat
    BY DEF TypeOK, QueueTyped, QueueStates, InputsTyped, ServiceTyped, WorkerTyped
  <1>1. CASE EnqueuePush
    <2>1. /\ accepted' = Append(accepted, rendered)
          /\ state'.records = Append(state.records, rendered)
          /\ sent' = sent /\ cur' = cur
      BY <1>1 DEF EnqueuePush, TypeOK, QueueTyped, QueueStates
    <2>2. sent \o cur \in Seq(Nat) BY <1>0, ConcatProperties
    <2>3. (sent \o cur) \o Append(state.records, rendered)
            = Append((sent \o cur) \o state.records, rendered)
      BY <1>0, <2>2, AppendMovesOut
    <2> QED BY <2>1, <2>3 DEF RecordsConserved
  <1>2. CASE WorkerPop
    <2>1. cur = <<>> BY <1>2 DEF WorkerPop, HandsEmpty
    <2>2. /\ cur' = <<Head(state.records)>>
          /\ state'.records = Tail(state.records) /\ state.records # <<>>
          /\ UNCHANGED <<sent, accepted>>
      BY <1>2 DEF WorkerPop, NextRecord, TypeOK, QueueTyped, QueueStates
    <2>3. sent \o cur = sent BY <1>0, <2>1, ConcatEmptySeq
    <2>4. (sent \o <<Head(state.records)>>) \o Tail(state.records) = sent \o state.records
      BY <1>0, <2>2, HeadMovesOut
    <2> QED BY <2>2, <2>3, <2>4 DEF RecordsConserved
  <1>3. CASE WorkerSubmit
    <2>1. /\ sent' = sent \o cur /\ cur' = <<>> /\ state'.records = state.records
          /\ accepted' = accepted
      BY <1>3 DEF WorkerSubmit
    <2>2. sent' \o cur' = sent \o cur BY <1>0, <2>1, ConcatProperties, ConcatEmptySeq
    <2> QED BY <2>1, <2>2 DEF RecordsConserved
  <1>4. CASE UNCHANGED <<accepted, sent, cur>> /\ state'.records = state.records
    BY <1>4 DEF RecordsConserved
  <1> QED BY <1>1, <1>2, <1>3, <1>4, RecordsFrame DEF IInv

\* Every accepted record is in exactly one of the three places.
LEMMA RecordsCounted ==
  ASSUME TypeOK, RecordsConserved
  PROVE  /\ Len(accepted) = Len(sent) + Len(cur) + Len(state.records)
         /\ Len(accepted) \in Nat /\ Len(sent) \in Nat
         /\ Len(cur) \in Nat /\ Len(state.records) \in Nat
         /\ Len(sent) <= Len(accepted)
         /\ cur = <<>> => Len(cur) = 0
         /\ state.records = <<>> => Len(state.records) = 0
  <1>1. /\ accepted \in Seq(Nat) /\ sent \in Seq(Nat) /\ cur \in Seq(Nat)
        /\ state.records \in Seq(Nat)
    BY DEF TypeOK, QueueTyped, QueueStates, InputsTyped, ServiceTyped, WorkerTyped
  <1>2. sent \o cur \in Seq(Nat) /\ Len(sent \o cur) = Len(sent) + Len(cur)
    BY <1>1, ConcatProperties
  <1>3. Len(accepted) = Len(sent \o cur) + Len(state.records)
    BY <1>1, <1>2, ConcatProperties DEF RecordsConserved
  <1>4. /\ Len(accepted) \in Nat /\ Len(sent) \in Nat
        /\ Len(cur) \in Nat /\ Len(state.records) \in Nat
    BY <1>1, LenProperties
  <1>5. \A a, b, c, d \in Nat : a = b + c + d => b <= a
    OBVIOUS
  <1>6. Len(accepted) = Len(sent) + Len(cur) + Len(state.records)
    BY <1>2, <1>3
  <1>7. Len(sent) <= Len(accepted) BY <1>4, <1>5, <1>6
  <1> QED BY <1>4, <1>6, <1>7, EmptySeq

\* Only start() creates the worker, and the state never returns to NULL within a session.
LEMMA StartedStep ==
  ASSUME TypeOK, StartedOnce, [Next]_vars PROVE StartedOnce'
  <1> USE DEF StartedOnce
  <1>0. pc \in [Threads -> StreamLabels \union AppLabels]
    BY DEF TypeOK, ThreadsTyped
  <1>1. ASSUME NEW t \in Threads, DrainStep(t) \/ DrainTimeout(t) \/ SpuriousWakeup(t)
        PROVE  StartedOnce'
    BY <1>0, <1>1 DEF DrainStep, DrainCheck, EvaluateDrain, DrainCancel, DrainStoreFailure,
      DrainNotify, DrainTimeout, SpuriousWakeup, WakeDone, WakeCapacity, Threads
  <1>2. CASE StreamStep
    BY <1>0, <1>1, <1>2 DEF StreamStep, EnqueueRefused, EnqueuePush, EnqueueWait,
      EnqueueNotify, EosForward, EosFail, Threads
  <1>3. CASE AppStep
    BY <1>0, <1>1, <1>3 DEF AppStep, UnlockNotify, UnlockStop, CloseNotify, StopDrain,
      DrainEnter, EvaluateDrain, StopJoin, StopReturns, WakeDone, WakeCapacity, Threads
  <1>4. CASE WorkerStep
    <2>1. wpc # "unborn"
      BY <1>4 DEF WorkerStep, WorkerConnect, WorkerPop, WorkerTakeDrain, WorkerSubmit,
        WorkerFlush, WorkerWake, WorkerTicket, WorkerClose, WorkerCollected, WorkerError,
        WorkerStoreFailure, WorkerStoreNotify, WorkerPost, WorkerFinish, WorkerFinishNotify
    <2>2. pc' = pc \/ pc' = WakeCapacity(pc) \/ pc' = WakeDone(pc)
            \/ pc' = WakeDone(WakeCapacity(pc))
      BY <1>4 DEF WorkerStep, WorkerConnect, WorkerPop, WorkerTakeDrain, WorkerSubmit,
        WorkerFlush, WorkerWake, WorkerTicket, WorkerClose, WorkerCollected, WorkerError,
        WorkerStoreFailure, WorkerStoreNotify, WorkerPost, WorkerFinish, WorkerFinishNotify
    <2> QED BY <1>0, <2>1, <2>2 DEF WakeDone, WakeCapacity, Threads
  <1>5. CASE Environment
    BY <1>0, <1>1, <1>5 DEF Environment, Start, Render, EosBegin, DrainEnter, EvaluateDrain,
      Unlock, FlushStop, Stop, Threads
  <1>6. CASE TimerStep \/ Acknowledge \/ ProducerFails \/ Stopped \/ UNCHANGED vars
    BY <1>0, <1>1, <1>6 DEF TimerStep, StopAbort, StopReturns, Acknowledge, ProducerFails,
      Stopped, vars,
      Threads
  <1> QED BY <1>2, <1>3, <1>4, <1>5, <1>6 DEF Next

\* What the worker holds, and what it left behind when it ended.
LEMMA WorkerInvStep ==
  ASSUME IInv, [Next]_vars PROVE HandsEmpty' /\ AckedWasSent' /\ EndedClean'
  <1> USE DEF IInv, HandsEmpty, AckedWasSent, EndedClean, QueueClosed
  <1> DEFINE Goal == HandsEmpty' /\ AckedWasSent' /\ EndedClean'
  <1>0. /\ acked \in Nat /\ Len(sent) \in Nat /\ acked <= Len(sent) /\ state \in QueueStates
    BY RecordsCounted DEF TypeOK, ServiceTyped, QueueTyped
  <1>1. ASSUME NEW t \in Threads, DrainStep(t) \/ DrainTimeout(t) \/ SpuriousWakeup(t)
        PROVE  Goal
    BY <1>0, <1>1 DEF DrainStep, DrainCheck, DrainCancel, DrainStoreFailure, DrainNotify,
      WithFailure, DrainTimeout, SpuriousWakeup, QueueStates
  <1>2. CASE StreamStep
    BY <1>0, <1>1, <1>2 DEF StreamStep, EnqueueRefused, EnqueuePush, Refusing, EnqueueWait,
      EnqueueNotify, EosForward, EosFail, Threads, QueueStates
  <1>3. CASE AppStep
    BY <1>0, <1>1, <1>3 DEF AppStep, UnlockNotify, UnlockStop, NotFlushing, CloseNotify,
      StopDrain, DrainEnter, StopJoin, StopReturns, Threads, QueueStates
  <1>4. CASE WorkerSubmit
    <2>1. Len(sent') >= Len(sent)
      BY <1>4, ConcatProperties, LenProperties DEF WorkerSubmit, TypeOK, ServiceTyped,
        WorkerTyped
    <2>2. Len(sent') \in Nat
      BY <1>4, ConcatProperties, LenProperties DEF WorkerSubmit, TypeOK, ServiceTyped,
        WorkerTyped
    <2> QED BY <1>0, <1>4, <2>1, <2>2 DEF WorkerSubmit, QueueStates
  <1>5. CASE WorkerStep /\ ~WorkerSubmit
    BY <1>0, <1>5 DEF WorkerStep, WorkerConnect, WorkerTakeDrain, WorkerPop, WorkerFlush,
      WorkerWake, WorkerTicket, WorkerClose, WorkerCollected, WorkerError,
      WorkerStoreFailure, WithFailure, WorkerStoreNotify, WorkerPost, WorkerFinish,
      WorkerFinishNotify, QueueStates
  <1>6. CASE Environment
    <2>1. CASE EosBegin
      BY <1>0, <2>1 DEF EosBegin, DrainEnter, QueueStates
    <2>2. CASE Start \/ Render \/ FlushStop
      BY <1>0, <2>2 DEF Start, Render, FlushStop, StartedOnce
    <2>3. CASE Unlock \/ Stop
      BY <1>0, <2>3 DEF Unlock, Stop, QueueStates
    <2> QED BY <1>1, <1>6, <2>1, <2>2, <2>3 DEF Environment
  <1>7. CASE TimerStep \/ Acknowledge \/ ProducerFails \/ Stopped \/ UNCHANGED vars
    BY <1>0, <1>1, <1>7 DEF TimerStep, StopAbort, StopReturns, Acknowledge, ProducerFails,
      Stopped, vars,
      QueueStates
  <1> QED BY <1>2, <1>3, <1>4, <1>5, <1>6, <1>7 DEF Next

-----------------------------------------------------------------------------
\* Only four steps touch a drain flag or what is recorded about it.
LEMMA DrainsFrame ==
  ASSUME TypeOK, [Next]_vars
  PROVE  \/ EosBegin \/ StopDrain \/ WorkerTakeDrain \/ WorkerFlush
         \/ /\ UNCHANGED <<drains, drained, held, want, job>>
            /\ state'.drain = state.drain
            /\ wpc' = "flush" => wpc = "flush"
  <1> DEFINE Same == /\ UNCHANGED <<drains, drained, held, want, job>>
                     /\ state'.drain = state.drain
                     /\ wpc' = "flush" => wpc = "flush"
  <1> USE DEF TypeOK, QueueTyped, QueueStates
  <1>1. ASSUME NEW t \in Threads, DrainStep(t) \/ DrainTimeout(t) \/ SpuriousWakeup(t)
        PROVE  Same
    BY <1>1 DEF DrainStep, DrainCheck, DrainCancel, DrainStoreFailure, DrainNotify,
      WithFailure, DrainTimeout, SpuriousWakeup
  <1>2. CASE StreamStep
    BY <1>1, <1>2 DEF StreamStep, EnqueueRefused, EnqueuePush, EnqueueWait, EnqueueNotify,
      EosForward, EosFail, Threads
  <1>3. CASE AppStep
    BY <1>1, <1>3 DEF AppStep, UnlockNotify, UnlockStop, NotFlushing, CloseNotify, StopJoin,
      StopReturns,
      Threads
  <1>4. CASE WorkerStep
    BY <1>4 DEF WorkerStep, WorkerConnect, WorkerPop, WorkerSubmit, WorkerWake, WorkerTicket,
      WorkerClose, WorkerCollected, WorkerError, WorkerStoreFailure, WithFailure,
      WorkerStoreNotify, WorkerPost, WorkerFinish, WorkerFinishNotify
  <1>5. CASE Environment
    BY <1>1, <1>5 DEF Environment, Start, Render, Unlock, FlushStop, Stop
  <1>6. CASE TimerStep \/ Acknowledge \/ ProducerFails \/ Stopped \/ UNCHANGED vars
    BY <1>1, <1>6 DEF TimerStep, StopAbort, StopReturns, Acknowledge, ProducerFails, Stopped,
      vars
  <1> QED BY <1>2, <1>3, <1>4, <1>5, <1>6 DEF Next

\* A flag is asked for once, taken once and set once.
LEMMA FlagsFreshStep ==
  ASSUME IInv, [Next]_vars PROVE FlagsFresh'
  <1> USE DEF IInv, FlagsFresh
  <1>0. /\ state \in QueueStates /\ drains \in Nat /\ drained \subseteq Nat /\ job \in Nat
        /\ state.drain \in Nat
    BY DEF TypeOK, QueueTyped, QueueStates, DrainsTyped, WorkerTyped
  <1>1. ASSUME NEW t \in Threads, DrainEnter(t) PROVE FlagsFresh'
    <2>1. state'.drain = DrainRequest /\ drained' = drained /\ wpc' = wpc /\ job' = job
      BY <1>0, <1>1 DEF DrainEnter, QueueStates
    <2>2. drains' = IF state.drain = NoDrain THEN drains + 1 ELSE drains
      BY <1>1 DEF DrainEnter, DrainRequest
    <2> QED BY <1>0, <2>1, <2>2 DEF DrainRequest, NoDrain
  <1>2. CASE WorkerTakeDrain
    <2>1. state'.drain = NoDrain /\ drained' = drained /\ drains' = drains
      BY <1>0, <1>2 DEF WorkerTakeDrain, QueueStates
    <2>2. wpc' = "flush" => state.drain # NoDrain /\ job' = state.drain
      BY <1>2 DEF WorkerTakeDrain
    <2> QED BY <1>0, <2>1, <2>2 DEF NoDrain
  <1>3. CASE WorkerFlush
    <2>1. /\ state' = state /\ drained' = drained \union {job} /\ drains' = drains
          /\ wpc = "flush" /\ wpc' = "take"
      BY <1>3 DEF WorkerFlush
    <2> QED BY <1>0, <2>1
  <1>4. CASE /\ UNCHANGED <<drains, drained, held, want, job>>
             /\ state'.drain = state.drain
             /\ wpc' = "flush" => wpc = "flush"
    BY <1>4
  <1> QED BY <1>1, <1>2, <1>3, <1>4, DrainsFrame DEF EosBegin, StopDrain, Threads

\* Records are only ever added, taken further and acknowledged.
LEMMA Monotone ==
  ASSUME TypeOK, [Next]_vars
  PROVE  /\ Len(accepted) <= Len(accepted') /\ Len(sent) <= Len(sent') /\ acked <= acked'
         /\ Len(accepted) \in Nat /\ Len(accepted') \in Nat
         /\ Len(sent) \in Nat /\ Len(sent') \in Nat /\ acked \in Nat /\ acked' \in Nat
  <1>0. TypeOK' BY TypeStep
  <1>1. /\ accepted \in Seq(Nat) /\ sent \in Seq(Nat) /\ cur \in Seq(Nat)
        /\ rendered \in Nat
    BY DEF TypeOK, InputsTyped, ServiceTyped, WorkerTyped
  <1>2. /\ Len(accepted) \in Nat /\ Len(accepted') \in Nat /\ Len(sent) \in Nat
        /\ Len(sent') \in Nat /\ acked \in Nat /\ acked' \in Nat
    BY <1>0, LenProperties DEF TypeOK, InputsTyped, ServiceTyped
  <1>3. Len(accepted) <= Len(accepted')
    BY <1>1, <1>2, RecordsFrame, AppendProperties DEF EnqueuePush, WorkerPop, WorkerSubmit
  <1>4. Len(sent) <= Len(sent')
    BY <1>1, <1>2, RecordsFrame, ConcatProperties, LenProperties
      DEF EnqueuePush, WorkerPop, WorkerSubmit
  <1>5. acked <= acked'
    <2>1. ASSUME NEW t \in Threads, DrainStep(t) \/ DrainTimeout(t) \/ SpuriousWakeup(t)
          PROVE  acked' = acked
      BY <2>1 DEF DrainStep, DrainCheck, DrainCancel, DrainStoreFailure, DrainNotify,
        DrainTimeout, SpuriousWakeup
    <2>2. CASE StreamStep
      BY <1>2, <2>1, <2>2 DEF StreamStep, EnqueueRefused, EnqueuePush, EnqueueWait,
        EnqueueNotify, EosForward, EosFail, Threads
    <2>3. CASE AppStep
      BY <1>2, <2>1, <2>3 DEF AppStep, UnlockNotify, UnlockStop, CloseNotify, StopDrain,
        DrainEnter, StopJoin, StopReturns, Threads
    <2>4. CASE WorkerStep
      BY <1>2, <2>4 DEF WorkerStep, WorkerConnect, WorkerPop, WorkerTakeDrain, WorkerSubmit,
        WorkerFlush, WorkerWake, WorkerTicket, WorkerClose, WorkerCollected, WorkerError,
        WorkerStoreFailure, WorkerStoreNotify, WorkerPost, WorkerFinish, WorkerFinishNotify
    <2>5. CASE Environment
      BY <1>2, <2>1, <2>5 DEF Environment, Start, Render, EosBegin, DrainEnter, Unlock,
        FlushStop, Stop
    <2>6. CASE TimerStep \/ Acknowledge \/ ProducerFails \/ Stopped \/ UNCHANGED vars
      BY <1>2, <2>1, <2>6 DEF TimerStep, StopAbort, StopReturns, Acknowledge, ProducerFails,
        Stopped, vars
    <2> QED BY <2>2, <2>3, <2>4, <2>5, <2>6 DEF Next
  <1> QED BY <1>2, <1>3, <1>4, <1>5

\* A flag goes on covering the records of those who wait for it.
LEMMA FlagsCoverStep ==
  ASSUME IInv, [Next]_vars PROVE FlagsCover'
  <1> USE DEF IInv
  <1>0. /\ state \in QueueStates /\ drains \in Nat /\ drained \subseteq Nat /\ job \in Nat
        /\ state.drain \in Nat /\ held \in [Threads -> Nat] /\ want \in [Threads -> Nat]
    BY DEF TypeOK, QueueTyped, QueueStates, DrainsTyped, WorkerTyped
  <1> SUFFICES ASSUME NEW u \in Threads
               PROVE  /\ want'[u] <= Len(accepted')
                      /\ held'[u] \in drained' => want'[u] <= acked'
                      /\ wpc' = "flush" /\ job' = held'[u] => want'[u] <= Len(sent')
    BY DEF FlagsCover
  <1>1. /\ want[u] \in Nat /\ want[u] <= Len(accepted)
        /\ held[u] \in drained => want[u] <= acked
        /\ wpc = "flush" /\ job = held[u] => want[u] <= Len(sent)
    BY <1>0 DEF FlagsCover
  <1>2. ASSUME NEW t \in Threads, DrainEnter(t), accepted' = accepted
        PROVE  /\ want'[u] <= Len(accepted')
               /\ held'[u] \in drained' => want'[u] <= acked'
               /\ wpc' = "flush" /\ job' = held'[u] => want'[u] <= Len(sent')
    <2>1. /\ held' = [held EXCEPT ![t] = DrainRequest]
          /\ want' = [want EXCEPT ![t] = Len(accepted)]
          /\ UNCHANGED <<drained, wpc, job, sent, acked>>
      BY <1>2 DEF DrainEnter
    <2>2. DrainRequest \notin drained /\ (wpc = "flush" => job # DrainRequest)
      BY <1>0 DEF FlagsFresh, DrainRequest, NoDrain
    <2> QED BY <1>0, <1>1, <1>2, <2>1, <2>2, Monotone
  <1>3. CASE WorkerTakeDrain
    <2>1. UNCHANGED <<held, want, drained, acked, sent, accepted>>
      BY <1>3 DEF WorkerTakeDrain
    <2>2. Len(accepted) = Len(sent)
      BY <1>3, RecordsCounted DEF WorkerTakeDrain, HandsEmpty
    <2> QED BY <1>1, <2>1, <2>2
  <1>4. CASE WorkerFlush
    <2>1. /\ UNCHANGED <<held, want, acked, sent, accepted, job>>
          /\ drained' = drained \union {job} /\ wpc = "flush" /\ wpc' = "take"
          /\ acked = Len(sent)
      BY <1>4 DEF WorkerFlush
    <2> QED BY <1>1, <2>1
  <1>5. CASE /\ UNCHANGED <<drains, drained, held, want, job>>
             /\ state'.drain = state.drain
             /\ wpc' = "flush" => wpc = "flush"
    BY <1>1, <1>5, Monotone
  <1> QED BY <1>2, <1>3, <1>4, <1>5, DrainsFrame DEF EosBegin, StopDrain, Threads, inputVars

\* A drain that ends as Complete finds its flag set, or a worker that ended clean.
LEMMA CompleteIsCovered ==
  ASSUME IInv, NEW t \in Threads, NEW d \in Nat, DrainOutcome(d) = "complete",
         d \in drained => d = held[t]
  PROVE  \/ d \in drained /\ want[t] <= acked
         \/ acked = Len(accepted)
  <1>1. state.failure = "none" /\ (state.done \/ d \in drained)
    BY DEF DrainOutcome
  <1>2. CASE d \in drained
    BY <1>2 DEF IInv, FlagsCover
  <1>3. CASE state.done
    <2>1. QueueClosed /\ cur = <<>> /\ acked = Len(sent)
      BY <1>1, <1>3 DEF IInv, EndedClean
    <2> QED BY <2>1, RecordsCounted DEF IInv, QueueClosed
  <1> QED BY <1>1, <1>2, <1>3

\* Only requests and the evaluation of a drain's loop decide an outcome.
LEMMA OutcomesFrame ==
  ASSUME [Next]_vars
  PROVE  \/ EosBegin \/ StopDrain
         \/ \E t \in Threads : DrainCheck(t) \/ DrainNotify(t)
         \/ UNCHANGED <<want, outcome>>
  <1>1. ASSUME NEW t \in Threads, DrainStep(t) \/ DrainTimeout(t) \/ SpuriousWakeup(t)
        PROVE  DrainCheck(t) \/ DrainNotify(t) \/ UNCHANGED <<want, outcome>>
    BY <1>1 DEF DrainStep, DrainCancel, DrainStoreFailure, DrainTimeout, SpuriousWakeup
  <1>2. CASE StreamStep
    BY <1>1, <1>2 DEF StreamStep, EnqueueRefused, EnqueuePush, EnqueueWait, EnqueueNotify,
      EosForward, EosFail, Threads
  <1>3. CASE AppStep
    BY <1>1, <1>3 DEF AppStep, UnlockNotify, UnlockStop, CloseNotify, StopJoin, StopReturns,
      Threads
  <1>4. CASE WorkerStep
    BY <1>4 DEF WorkerStep, WorkerConnect, WorkerPop, WorkerTakeDrain, WorkerSubmit,
      WorkerFlush, WorkerWake, WorkerTicket, WorkerClose, WorkerCollected, WorkerError,
      WorkerStoreFailure, WorkerStoreNotify, WorkerPost, WorkerFinish, WorkerFinishNotify
  <1>5. CASE Environment
    BY <1>1, <1>5 DEF Environment, Start, Render, Unlock, FlushStop, Stop
  <1>6. CASE TimerStep \/ Acknowledge \/ ProducerFails \/ Stopped \/ UNCHANGED vars
    BY <1>1, <1>6 DEF TimerStep, StopAbort, StopReturns, Acknowledge, ProducerFails, Stopped,
      vars
  <1> QED BY <1>2, <1>3, <1>4, <1>5, <1>6 DEF Next

\* A Complete outcome stays true, and a new one is true.
LEMMA CompleteStep ==
  ASSUME IInv, [Next]_vars PROVE CompleteMeansAcked'
  <1> SUFFICES ASSUME NEW u \in Threads, outcome'[u] = "complete" PROVE want'[u] <= acked'
    BY DEF CompleteMeansAcked
  <1>0. /\ state \in QueueStates /\ state.drain \in Nat /\ drains \in Nat
        /\ held \in [Threads -> Nat] /\ want \in [Threads -> Nat]
        /\ outcome \in [Threads -> {"none", "complete", "flushing", "timeout", "failure"}]
    BY DEF IInv, TypeOK, QueueTyped, QueueStates, DrainsTyped
  <1>1. outcome[u] = "complete" => want[u] <= acked
    BY DEF IInv, CompleteMeansAcked
  <1>2. want[u] \in Nat /\ acked <= acked' /\ acked \in Nat /\ acked' \in Nat
        /\ Len(accepted) \in Nat
    BY <1>0, Monotone DEF IInv
  <1>3. ASSUME NEW t \in Threads, DrainEnter(t) PROVE want'[u] <= acked'
    <2>1. /\ want' = [want EXCEPT ![t] = Len(accepted)] /\ acked' = acked
          /\ outcome' = [outcome EXCEPT ![t] = IF Blocked(DrainRequest) THEN "none"
                                               ELSE DrainOutcome(DrainRequest)]
      BY <1>3 DEF DrainEnter, EvaluateDrain
    <2>2. CASE u # t
      BY <1>0, <1>1, <2>1, <2>2
    <2>3. CASE u = t
      <3>1. DrainOutcome(DrainRequest) = "complete"
        BY <1>0, <2>1, <2>3
      <3>2. DrainRequest \in Nat /\ DrainRequest \notin drained
        BY <1>0 DEF IInv, FlagsFresh, DrainRequest, NoDrain
      <3>3. acked = Len(accepted)
        BY <3>1, <3>2, CompleteIsCovered
      <3> QED BY <1>0, <1>2, <2>1, <2>3, <3>3
    <2> QED BY <2>2, <2>3
  <1>4. ASSUME NEW t \in Threads, DrainCheck(t) PROVE want'[u] <= acked'
    <2>1. /\ want' = want /\ acked' = acked
          /\ outcome' = [outcome EXCEPT ![t] = IF Blocked(held[t]) THEN "none"
                                               ELSE DrainOutcome(held[t])]
      BY <1>4 DEF DrainCheck, EvaluateDrain
    <2>2. CASE u # t
      BY <1>0, <1>1, <2>1, <2>2
    <2>3. CASE u = t
      <3>1. DrainOutcome(held[t]) = "complete" /\ held[t] \in Nat
        BY <1>0, <2>1, <2>3
      <3>2. want[t] <= acked \/ acked = Len(accepted)
        BY <3>1, CompleteIsCovered
      <3>3. want[t] <= Len(accepted) BY DEF IInv, FlagsCover
      <3> QED BY <2>1, <2>3, <3>2, <3>3
    <2> QED BY <2>2, <2>3
  <1>5. ASSUME NEW t \in Threads, DrainNotify(t) PROVE want'[u] <= acked'
    <2>1. want' = want /\ acked' = acked /\ outcome' = [outcome EXCEPT ![t] = "timeout"]
      BY <1>5 DEF DrainNotify
    <2> QED BY <1>0, <1>1, <2>1
  <1>6. CASE UNCHANGED <<want, outcome>>
    BY <1>1, <1>2, <1>6
  <1> QED BY <1>3, <1>4, <1>5, <1>6, OutcomesFrame DEF EosBegin, StopDrain, Threads

\* The order of render(), drain() and stop() on the two threads.
LEMMA StopPhaseStep ==
  ASSUME IInv, [Next]_vars PROVE StopPhase'
  <1> USE DEF IInv, StopPhase, DrainLabels
  <1>0. /\ state \in QueueStates
        /\ pc \in [Threads -> StreamLabels \union AppLabels]
        /\ pc["stream"] \in StreamLabels /\ pc["app"] \in AppLabels
        /\ want \in [Threads -> Nat]
        /\ outcome \in [Threads -> {"none", "complete", "flushing", "timeout", "failure"}]
    BY DEF TypeOK, QueueTyped, ThreadsTyped, DrainsTyped
  <1>1. ASSUME NEW t \in Threads, DrainStep(t) \/ DrainTimeout(t) \/ SpuriousWakeup(t)
        PROVE  StopPhase'
    <2>1. CASE DrainCheck(t)
      BY <1>0, <2>1 DEF DrainCheck, EvaluateDrain, DrainOutcome, Blocked, Threads, QueueStates
    <2>2. CASE DrainCancel(t)
      BY <1>0, <2>2 DEF DrainCancel, Threads, QueueStates
    <2>3. CASE DrainStoreFailure(t)
      BY <1>0, <2>3 DEF DrainStoreFailure, WithFailure, Threads, QueueStates
    <2>4. CASE DrainNotify(t)
      BY <1>0, <2>4 DEF DrainNotify, WakeDone, WakeCapacity, Threads
    <2>5. CASE DrainTimeout(t)
      BY <1>0, <2>5 DEF DrainTimeout, EvaluateDrain, DrainOutcome, Blocked, Threads,
        QueueStates
    <2>6. CASE SpuriousWakeup(t)
      BY <1>0, <2>6 DEF SpuriousWakeup, Threads
    <2> QED BY <1>1, <2>1, <2>2, <2>3, <2>4, <2>5, <2>6 DEF DrainStep
  <1>2. CASE StreamStep
    BY <1>0, <1>1, <1>2 DEF StreamStep, EnqueueRefused, EnqueuePush, Refusing, EnqueueWait,
      EnqueueNotify, EosForward, EosFail, Threads, QueueStates
  <1>3. CASE AppStep
    <2>1. CASE UnlockNotify \/ CloseNotify
      BY <1>0, <2>1 DEF UnlockNotify, CloseNotify, WakeDone, WakeCapacity, Threads
    <2>2. CASE UnlockStop
      BY <1>0, <2>2 DEF UnlockStop, NotFlushing, Threads, QueueStates
    <2>3. CASE StopDrain
      BY <1>0, <2>3 DEF StopDrain, DrainEnter, EvaluateDrain, DrainOutcome, Blocked, Threads,
        QueueStates
    <2>4. CASE StopJoin
      BY <1>0, <2>4 DEF StopJoin, StopReturns, Threads
    <2> QED BY <1>1, <1>3, <2>1, <2>2, <2>3, <2>4 DEF AppStep, Threads
  <1>4. CASE WorkerStep
    <2>1. UNCHANGED <<want, outcome, accepted>>
      BY <1>4 DEF WorkerStep, WorkerConnect, WorkerPop, WorkerTakeDrain, WorkerSubmit,
        WorkerFlush, WorkerWake, WorkerTicket, WorkerClose, WorkerCollected, WorkerError,
        WorkerStoreFailure, WorkerStoreNotify, WorkerPost, WorkerFinish, WorkerFinishNotify
    <2>2. \/ pc' = pc \/ pc' = WakeCapacity(pc) \/ pc' = WakeDone(pc)
          \/ pc' = WakeDone(WakeCapacity(pc))
      BY <1>4 DEF WorkerStep, WorkerConnect, WorkerPop, WorkerTakeDrain, WorkerSubmit,
        WorkerFlush, WorkerWake, WorkerTicket, WorkerClose, WorkerCollected, WorkerError,
        WorkerStoreFailure, WorkerStoreNotify, WorkerPost, WorkerFinish, WorkerFinishNotify
    <2>3. /\ state'.accepting => state.accepting
          /\ state'.flushing = state.flushing
      BY <1>0, <1>4 DEF WorkerStep, WorkerConnect, WorkerPop, WorkerTakeDrain, WorkerSubmit,
        WorkerFlush, WorkerWake, WorkerTicket, WorkerClose, WorkerCollected, WorkerError,
        WorkerStoreFailure, WithFailure, WorkerStoreNotify, WorkerPost, WorkerFinish,
        WorkerFinishNotify, QueueStates
    <2>4. \A t \in Threads : \A l \in StreamLabels \union AppLabels :
            /\ pc'[t] \in DrainLabels <=> pc[t] \in DrainLabels
            /\ l \notin DrainLabels \union {"capacity_wait", "enqueue"} =>
                 (pc'[t] = l <=> pc[t] = l)
      BY <1>0, <2>2 DEF WakeDone, WakeCapacity
    <2> QED BY <1>0, <2>1, <2>3, <2>4 DEF AppLabels, Threads
  <1>5. CASE Environment
    BY <1>0, <1>1, <1>5 DEF Environment, Start, Render, EosBegin, DrainEnter, EvaluateDrain,
      DrainOutcome, Blocked, Unlock, FlushStop, Stop, Started, Threads, QueueStates
  <1>6. CASE TimerStep \/ Acknowledge \/ ProducerFails \/ Stopped \/ UNCHANGED vars
    BY <1>0, <1>1, <1>6 DEF TimerStep, StopAbort, StopReturns, Acknowledge, ProducerFails,
      Stopped, vars,
      Threads
  <1> QED BY <1>2, <1>3, <1>4, <1>5, <1>6 DEF Next

-----------------------------------------------------------------------------
\* A fresh element and a fresh queue satisfy the invariant.
LEMMA InvariantInit == Init => IInv
  <1> SUFFICES ASSUME Init PROVE IInv
    OBVIOUS
  <1>1. TypeOK BY TypeInit
  <1>2. state = NewSharedQueue /\ state.records = <<>> /\ state.drain = NoDrain
          /\ state.failure = "none" /\ ~state.done /\ ~state.flushing
    BY DEF Init, NewSharedQueue
  <1>3. RecordsConserved
    BY <1>2, EmptySeq, ConcatEmptySeq DEF Init, RecordsConserved
  <1>4. Len(<<>>) = 0 BY EmptySeq
  <1>5. HandsEmpty /\ AckedWasSent /\ StartedOnce
    BY <1>4 DEF Init, HandsEmpty, AckedWasSent, StartedOnce, Threads
  <1>6. EndedClean /\ FlagsFresh BY <1>2 DEF Init, EndedClean, FlagsFresh, NoDrain
  <1>7. FlagsCover BY <1>4 DEF Init, FlagsCover, NoDrain
  <1>8. StopPhase /\ CompleteMeansAcked
    BY <1>2 DEF Init, StopPhase, CompleteMeansAcked, DrainLabels, Threads
  <1> QED BY <1>1, <1>3, <1>5, <1>6, <1>7, <1>8 DEF IInv

\* Every critical section of the two threads, the worker and the service keeps it.
LEMMA InvariantStep == IInv /\ [Next]_vars => IInv'
  BY TypeStep, StartedStep, RecordsStep, WorkerInvStep, FlagsFreshStep, FlagsCoverStep,
     StopPhaseStep, CompleteStep DEF IInv

\* The inductive invariant of the queue, the worker and the drain flags holds.
THEOREM Invariant == Spec => []IInv
  BY InvariantInit, InvariantStep, PTL DEF Spec

\* Nothing the queue accepted is lost, duplicated or reordered on its way through
\* enqueue_record, the queue, append_worker and the producer, for every capacity.
THEOREM NothingLost == Spec => []RecordsConserved
  <1>1. IInv => RecordsConserved BY DEF IInv
  <1> QED BY <1>1, Invariant, PTL

\* Whenever drain() returns Complete, to EOS or to stop(), every record accepted
\* before it asked has been acknowledged by the service.
THEOREM BarrierIsDurable == Spec => []CompleteMeansAcked
  <1>1. IInv => CompleteMeansAcked BY DEF IInv
  <1> QED BY <1>1, Invariant, PTL

\* When stop() returns Ok, every record the session accepted is acknowledged.
THEOREM StopIsDurable == Spec => []StopOkMeansAcked
  <1>1. ASSUME IInv PROVE StopOkMeansAcked
    <2> SUFFICES ASSUME pc["app"] = "stopped", outcome["app"] \in {"complete", "flushing"}
                 PROVE  acked = Len(accepted)
      BY DEF StopOkMeansAcked
    <2>1. outcome["app"] = "complete" /\ want["app"] = Len(accepted)
      BY <1>1 DEF IInv, StopPhase
    <2>2. Len(accepted) <= acked
      BY <1>1, <2>1 DEF IInv, CompleteMeansAcked, Threads
    <2>3. acked <= Len(sent) /\ acked \in Nat
      BY <1>1 DEF IInv, AckedWasSent, TypeOK, ServiceTyped
    <2>4. Len(sent) <= Len(accepted) /\ Len(accepted) \in Nat /\ Len(sent) \in Nat
      BY <1>1, RecordsCounted DEF IInv
    <2> QED BY <2>2, <2>3, <2>4
  <1> QED BY <1>1, Invariant, PTL
\* Once store_failure kept a failure, no step replaces it and nothing more is accepted.
THEOREM FailureStays == Spec => FailureIsFinal
  <1> DEFINE Kept == state.failure # "none" =>
                       state'.failure = state.failure /\ accepted' = accepted
  <1>1. ASSUME TypeOK, [Next]_vars PROVE Kept
    <2> USE DEF TypeOK, QueueTyped, QueueStates
    <2>1. ASSUME NEW t \in Threads, DrainStep(t) \/ DrainTimeout(t) \/ SpuriousWakeup(t)
          PROVE  Kept
      BY <1>1, <2>1 DEF DrainStep, DrainCheck, DrainCancel, DrainStoreFailure, DrainNotify,
        WithFailure, DrainTimeout, SpuriousWakeup
    <2>2. CASE StreamStep
      BY <1>1, <2>1, <2>2 DEF StreamStep, EnqueueRefused, EnqueuePush, Refusing, EnqueueWait,
        EnqueueNotify, EosForward, EosFail, Threads
    <2>3. CASE AppStep
      BY <1>1, <2>1, <2>3 DEF AppStep, UnlockNotify, UnlockStop, NotFlushing, CloseNotify,
        StopDrain, DrainEnter, StopJoin, StopReturns, Threads
    <2>4. CASE WorkerStep
      BY <1>1, <2>4 DEF WorkerStep, WorkerConnect, WorkerPop, WorkerTakeDrain, WorkerSubmit,
        WorkerFlush, WorkerWake, WorkerTicket, WorkerClose, WorkerCollected, WorkerError,
        WorkerStoreFailure, WithFailure, WorkerStoreNotify, WorkerPost, WorkerFinish,
        WorkerFinishNotify
    <2>5. CASE Environment
      BY <1>1, <2>1, <2>5 DEF Environment, Start, Render, EosBegin, DrainEnter, Unlock,
        FlushStop, Stop
    <2>6. CASE TimerStep \/ Acknowledge \/ ProducerFails \/ Stopped \/ UNCHANGED vars
      BY <1>1, <2>1, <2>6 DEF TimerStep, StopAbort, StopReturns, Acknowledge, ProducerFails,
        Stopped, vars
    <2> QED BY <1>1, <2>2, <2>3, <2>4, <2>5, <2>6 DEF Next
  <1>2. TypeOK /\ [Next]_vars => [Kept]_vars BY <1>1
  <1> QED BY <1>2, TypeCorrect, PTL DEF Spec, FailureIsFinal
-----------------------------------------------------------------------------
(***************************************************************************)
(* Notifications and the report of a failure.                              *)
(***************************************************************************)
Failing(t) == outcome[t] \in {"timeout", "failure"}

\* stop() runs when no render or EOS is in progress, and joins the worker.
StopAlone ==
  /\ pc["app"] \in DrainLabels \union {"close_notify", "drain_enter", "stopped"} =>
       pc["stream"] = "idle"
  /\ pc["app"] = "stopped" => WorkerEnded

\* Whoever reports a failure has one to report.
FailureBehind ==
  /\ wpc \in {"store_notify", "post"} => state.failure # "none"
  /\ \A t \in Threads : pc[t] = "drain_notify" \/ Failing(t) => state.failure # "none"

\* The failure is on the bus, or whoever met it is about to put it there: the worker,
\* or the thread whose drain timed out.
FailureOnItsWay ==
  /\ posts <= IF pc["app"] = "stopped" /\ StopFails THEN 2 ELSE 1
  /\ posts > 0 => state.failure # "none"
  /\ eos = "failed" => posts > 0
  /\ state.failure = "worker" => wpc \in {"store_notify", "post"} \/ posts > 0
  /\ state.failure = "timeout" =>
       \/ posts > 0
       \/ \E t \in Threads : pc[t] = "drain_notify" \/ (pc[t] = "drained" /\ Failing(t))

SignalsInv ==
  /\ TypeOK /\ StartedOnce /\ NoLostWakeup
  /\ StopAlone /\ FailureBehind /\ FailureOnItsWay

\* Where the threads are after a step inside drain(), and what is due then.
LEMMA SignalsDrain ==
  ASSUME SignalsInv, NEW t \in Threads, DrainStep(t) \/ DrainTimeout(t) \/ SpuriousWakeup(t)
  PROVE  NoLostWakeup'
  <1> USE DEF SignalsInv, NoLostWakeup, TypeOK, QueueTyped, QueueStates, ThreadsTyped,
        DoneNotifyDue, CapacityNotifyDue, HasRoom, Refusing, Blocked, Threads
  <1>1. CASE DrainCheck(t)
    BY <1>1 DEF DrainCheck, EvaluateDrain, AppLabels, DrainLabels
  <1>2. CASE DrainCancel(t) BY <1>2 DEF DrainCancel, AppLabels, DrainLabels
  <1>3. CASE DrainStoreFailure(t) BY <1>3 DEF DrainStoreFailure, WithFailure
  <1>4. CASE DrainNotify(t)
    <2>1. pc' = [WakeDone(WakeCapacity(pc)) EXCEPT ![t] = "drained"] /\ permit'
      BY <1>4 DEF DrainNotify
    <2>2. \A u \in Threads : pc'[u] # "drain_wait" /\ pc'[u] # "capacity_wait"
      BY <2>1 DEF WakeDone, WakeCapacity
    <2> QED BY <2>1, <2>2
  <1>5. CASE DrainTimeout(t) BY <1>5 DEF DrainTimeout, AppLabels, DrainLabels
  <1>6. CASE SpuriousWakeup(t) BY <1>6 DEF SpuriousWakeup, AppLabels, DrainLabels
  <1> QED BY <1>1, <1>2, <1>3, <1>4, <1>5, <1>6 DEF DrainStep

\* A thread that asks for a drain leaves a permit for the worker.
LEMMA SignalsEnter ==
  ASSUME SignalsInv, NEW t \in Threads, DrainEnter(t),
         t = "stream" => pc["stream"] = "idle", t = "app" => pc["app"] = "drain_enter"
  PROVE  NoLostWakeup'
  <1> USE DEF SignalsInv, TypeOK, QueueTyped, QueueStates, DrainsTyped, ThreadsTyped, Threads
  <1>1. /\ permit' /\ wpc' = wpc /\ drained' = drained
        /\ state' = [state EXCEPT !.drain = DrainRequest] /\ held' = [held EXCEPT ![t] = DrainRequest]
        /\ pc' = [pc EXCEPT ![t] = IF Blocked(DrainRequest) THEN "drain_wait" ELSE "drained"]
    BY DEF DrainEnter, EvaluateDrain
  <1>2. /\ state'.records = state.records /\ state'.accepting = state.accepting
        /\ state'.flushing = state.flushing /\ state'.failure = state.failure /\ state'.done = state.done
    BY <1>1
  <1>3. \A u \in Threads : u # t => pc'[u] = pc[u] /\ held'[u] = held[u]
    BY <1>1
  <1>4. pc'[t] \in {"drain_wait", "drained"} /\ held'[t] = DrainRequest
        /\ (pc'[t] = "drain_wait" => Blocked(DrainRequest))
    BY <1>1
  <1>5. DoneNotifyDue' <=> DoneNotifyDue
    BY <1>1, <1>3, <1>4 DEF DoneNotifyDue
  <1>6. \A u \in Threads : pc'[u] = "drain_wait" => Blocked(held[u])' \/ DoneNotifyDue'
    BY <1>1, <1>2, <1>3, <1>4, <1>5 DEF NoLostWakeup, Blocked
  <1>7. pc'["stream"] = "capacity_wait" => ~(HasRoom \/ Refusing)' \/ CapacityNotifyDue'
    BY <1>1, <1>2, <1>3, <1>4, <1>5 DEF NoLostWakeup, HasRoom, Refusing, CapacityNotifyDue
  <1> QED BY <1>1, <1>6, <1>7 DEF NoLostWakeup

\* Every step that gives a waiter its reason to go on notifies it, or is about to.
LEMMA NoLostWakeupStep == ASSUME SignalsInv, [Next]_vars PROVE NoLostWakeup'
  <1> USE DEF SignalsInv, TypeOK, QueueTyped, QueueStates, ThreadsTyped, Threads
  <1>1. ASSUME NEW t \in Threads, DrainStep(t) \/ DrainTimeout(t) \/ SpuriousWakeup(t)
        PROVE  NoLostWakeup'
    BY <1>1, SignalsDrain
  <1>2. CASE StreamStep
    <2> USE DEF NoLostWakeup, DoneNotifyDue, CapacityNotifyDue, HasRoom, Refusing, Blocked
    <2>1. CASE EnqueueRefused BY <2>1 DEF EnqueueRefused
    <2>2. CASE EnqueuePush BY <2>2 DEF EnqueuePush
    <2>3. CASE EnqueueWait BY <2>3 DEF EnqueueWait
    <2>4. CASE EnqueueNotify BY <2>4 DEF EnqueueNotify
    <2>5. CASE EosForward BY <2>5 DEF EosForward
    <2>6. CASE EosFail BY <2>6 DEF EosFail
    <2> QED BY <1>1, <1>2, <2>1, <2>2, <2>3, <2>4, <2>5, <2>6 DEF StreamStep
  <1>3. CASE AppStep
    <2>1. CASE UnlockNotify
      <3>1. pc' = [WakeDone(WakeCapacity(pc)) EXCEPT !["app"] = "unlocked"]
            /\ pc["app"] = "unlock_notify" /\ UNCHANGED <<state, permit, wpc, held, drained>>
        BY <2>1 DEF UnlockNotify, queueVars, drainVars, workerVars
      <3>2. \A u \in Threads : pc'[u] # "drain_wait" /\ pc'[u] # "capacity_wait"
        BY <3>1 DEF WakeDone, WakeCapacity
      <3>3. \A l \in {"enqueue_notify", "drain_notify"} : \A u \in Threads :
              pc'[u] = l <=> pc[u] = l
        BY <3>1 DEF WakeDone, WakeCapacity
      <3> QED BY <3>1, <3>2, <3>3 DEF NoLostWakeup
    <2>2. CASE CloseNotify
      <3>1. pc' = [WakeCapacity(pc) EXCEPT !["app"] = "drain_enter"] /\ permit'
            /\ pc["app"] = "close_notify" /\ UNCHANGED <<state, wpc, held, drained>>
        BY <2>2 DEF CloseNotify, drainVars, workerVars
      <3>2. \A u \in Threads : pc'[u] # "capacity_wait"
        BY <3>1 DEF WakeCapacity
      <3>3. \A l \in {"drain_wait", "drain_notify"} : \A u \in Threads : pc'[u] = l <=> pc[u] = l
        BY <3>1 DEF WakeCapacity
      <3>4. pc'["app"] = "drain_enter" BY <3>1 DEF WakeCapacity
      <3>5. DoneNotifyDue' <=> DoneNotifyDue BY <3>1, <3>3, <3>4 DEF DoneNotifyDue
      <3> QED BY <3>1, <3>2, <3>3, <3>5 DEF NoLostWakeup, Blocked
    <2>3. CASE UnlockStop \/ StopJoin
      BY <2>3 DEF UnlockStop, NotFlushing, StopJoin, StopReturns, NoLostWakeup, DoneNotifyDue,
        CapacityNotifyDue, HasRoom, Refusing, Blocked, InRender
    <2>4. CASE StopDrain BY <2>4, SignalsEnter DEF StopDrain
    <2> QED BY <1>1, <1>3, <2>1, <2>2, <2>3, <2>4 DEF AppStep
  <1>4. CASE WorkerStep
    <2> USE DEF queueVars, drainVars
    <2>1. CASE WorkerConnect \/ WorkerSubmit \/ WorkerClose \/ WorkerCollected \/ WorkerError
               \/ WorkerWake \/ WorkerTicket \/ WorkerPost
      BY <2>1 DEF WorkerConnect, WorkerSubmit, WorkerClose, WorkerCollected, WorkerError,
        WorkerWake, WorkerTicket, WorkerPost, NoLostWakeup, DoneNotifyDue, CapacityNotifyDue,
        HasRoom, Refusing, Blocked
    <2>2. CASE WorkerPop
      <3>1. /\ pc' = WakeCapacity(pc) /\ wpc' = "submit" /\ UNCHANGED <<held, drained>>
            /\ state' = [state EXCEPT !.records = Tail(@)] /\ wpc = "take"
        BY <2>2 DEF WorkerPop
      <3>2. pc'["stream"] # "capacity_wait" BY <3>1 DEF WakeCapacity
      <3>3. \A l \in {"drain_wait", "drain_notify", "unlock_notify"} : \A u \in Threads :
              pc'[u] = l <=> pc[u] = l
        BY <3>1 DEF WakeCapacity
      <3>4. /\ state'.flushing = state.flushing /\ state'.failure = state.failure
            /\ state'.done = state.done
        BY <3>1
      <3>5. DoneNotifyDue' <=> DoneNotifyDue BY <3>1, <3>3 DEF DoneNotifyDue
      <3> QED BY <3>1, <3>2, <3>3, <3>4, <3>5 DEF NoLostWakeup, Blocked
    <2>3. CASE WorkerTakeDrain
      BY <2>3 DEF WorkerTakeDrain, NoLostWakeup, DoneNotifyDue, CapacityNotifyDue, HasRoom,
        Refusing, Blocked
    <2>4. CASE WorkerFlush
      <3>1. /\ pc' = WakeDone(pc) /\ wpc' = "take" /\ wpc = "flush" /\ state' = state
        BY <2>4 DEF WorkerFlush
      <3>2. \A u \in Threads : pc'[u] # "drain_wait" BY <3>1 DEF WakeDone
      <3>3. \A l \in {"capacity_wait", "close_notify", "drain_notify", "unlock_notify"} :
              \A u \in Threads : pc'[u] = l <=> pc[u] = l
        BY <3>1 DEF WakeDone
      <3>4. CapacityNotifyDue' <=> CapacityNotifyDue
        BY <3>1, <3>3 DEF DoneNotifyDue, CapacityNotifyDue
      <3> QED BY <3>1, <3>2, <3>3, <3>4 DEF NoLostWakeup, HasRoom, Refusing
    <2>5. CASE WorkerStoreFailure \/ WorkerFinish
      BY <2>5 DEF WorkerStoreFailure, WithFailure, WorkerFinish, NoLostWakeup, DoneNotifyDue,
        CapacityNotifyDue, HasRoom, Refusing, Blocked
    <2>6. CASE WorkerStoreNotify \/ WorkerFinishNotify
      <3>1. pc' = WakeDone(WakeCapacity(pc)) /\ wpc' # "idle"
        BY <2>6 DEF WorkerStoreNotify, WorkerFinishNotify
      <3>2. \A u \in Threads : pc'[u] # "drain_wait" /\ pc'[u] # "capacity_wait"
        BY <3>1 DEF WakeDone, WakeCapacity
      <3> QED BY <3>1, <3>2 DEF NoLostWakeup
    <2> QED BY <1>4, <2>1, <2>2, <2>3, <2>4, <2>5, <2>6 DEF WorkerStep
  <1>5. CASE Environment
    <2>1. CASE EosBegin BY <2>1, SignalsEnter DEF EosBegin
    <2> USE DEF NoLostWakeup, DoneNotifyDue, CapacityNotifyDue, HasRoom, Refusing, Blocked
    <2>2. CASE Start BY <2>2 DEF Start, StartedOnce
    <2>3. CASE Render BY <2>3 DEF Render, Started
    <2>4. CASE Unlock BY <2>4 DEF Unlock
    <2>5. CASE FlushStop BY <2>5 DEF FlushStop
    <2>6. CASE Stop BY <2>6 DEF Stop
    <2> QED BY <1>1, <1>5, <2>1, <2>2, <2>3, <2>4, <2>5, <2>6 DEF Environment
  <1>6. CASE StopAbort \/ Acknowledge \/ ProducerFails \/ Stopped \/ UNCHANGED vars
    BY <1>6 DEF StopAbort, StopReturns, Acknowledge, ProducerFails, Stopped, vars,
      NoLostWakeup,
      DoneNotifyDue, CapacityNotifyDue, HasRoom, Refusing, Blocked
  <1> QED BY <1>1, <1>2, <1>3, <1>4, <1>5, <1>6 DEF Next, TimerStep

\* A step of the worker moves no thread but those that wait.
LEMMA WorkerMoves ==
  ASSUME TypeOK, WorkerStep
  PROVE  /\ UNCHANGED <<outcome, eos>>
         /\ \A t \in Threads :
              \/ pc'[t] = pc[t]
              \/ pc[t] = "capacity_wait" /\ pc'[t] = "enqueue"
              \/ pc[t] = "drain_wait" /\ pc'[t] = "drain_check"
  <1>0. pc \in [Threads -> StreamLabels \union AppLabels] BY DEF TypeOK, ThreadsTyped
  <1>1. \/ pc' = pc \/ pc' = WakeCapacity(pc) \/ pc' = WakeDone(pc)
        \/ pc' = WakeDone(WakeCapacity(pc))
    BY DEF WorkerStep, WorkerConnect, WorkerPop, WorkerTakeDrain, WorkerSubmit,
      WorkerFlush, WorkerWake, WorkerTicket, WorkerClose, WorkerCollected, WorkerError,
      WorkerStoreFailure, WorkerStoreNotify, WorkerPost, WorkerFinish, WorkerFinishNotify
  <1>2. UNCHANGED <<outcome, eos>>
    BY DEF WorkerStep, WorkerConnect, WorkerPop, WorkerTakeDrain, WorkerSubmit,
      WorkerFlush, WorkerWake, WorkerTicket, WorkerClose, WorkerCollected, WorkerError,
      WorkerStoreFailure, WorkerStoreNotify, WorkerPost, WorkerFinish, WorkerFinishNotify
  <1> QED BY <1>0, <1>1, <1>2 DEF WakeDone, WakeCapacity

\* stop() starts when the streaming thread is idle, and returns when the worker ended.
LEMMA StopAloneStep == ASSUME SignalsInv, [Next]_vars PROVE StopAlone'
  <1> USE DEF StopAlone, WorkerEnded, DrainLabels
  <1>0. /\ pc \in [Threads -> StreamLabels \union AppLabels] /\ StopAlone
        /\ "stream" \in Threads /\ "app" \in Threads
    BY DEF SignalsInv, TypeOK, ThreadsTyped, Threads
  <1>1. ASSUME NEW t \in Threads, DrainStep(t) \/ DrainTimeout(t) \/ SpuriousWakeup(t)
        PROVE  StopAlone'
    BY <1>0, <1>1 DEF DrainStep, DrainCheck, EvaluateDrain, DrainCancel, DrainStoreFailure,
      DrainNotify, DrainTimeout, SpuriousWakeup, WakeDone, WakeCapacity, Threads
  <1>2. CASE StreamStep
    BY <1>0, <1>1, <1>2 DEF StreamStep, EnqueueRefused, EnqueuePush, EnqueueWait,
      EnqueueNotify, EosForward, EosFail, Threads
  <1>3. CASE AppStep
    BY <1>0, <1>1, <1>3 DEF AppStep, UnlockNotify, UnlockStop, CloseNotify, StopDrain,
      DrainEnter, EvaluateDrain, StopJoin, StopReturns, WakeDone, WakeCapacity, Threads
  <1>4. CASE WorkerStep
    <2>1. wpc \notin {"exited", "aborted"}
      BY <1>4 DEF WorkerStep, WorkerConnect, WorkerPop, WorkerTakeDrain, WorkerSubmit,
        WorkerFlush, WorkerWake, WorkerTicket, WorkerClose, WorkerCollected, WorkerError,
        WorkerStoreFailure, WorkerStoreNotify, WorkerPost, WorkerFinish, WorkerFinishNotify
    <2> QED BY <1>0, <1>4, <2>1, WorkerMoves DEF SignalsInv
  <1>5. CASE Environment
    BY <1>0, <1>1, <1>5 DEF Environment, Start, Render, EosBegin, DrainEnter, EvaluateDrain,
      Unlock, FlushStop, Stop, Started, Threads
  <1>6. CASE TimerStep \/ Acknowledge \/ ProducerFails \/ Stopped \/ UNCHANGED vars
    BY <1>0, <1>1, <1>6 DEF TimerStep, StopAbort, StopReturns, Acknowledge, ProducerFails,
      Stopped, vars, Threads
  <1> QED BY <1>2, <1>3, <1>4, <1>5, <1>6 DEF Next

\* A failure is kept, and what is reported is stored first.
LEMMA FailureBehindStep == ASSUME SignalsInv, [Next]_vars PROVE FailureBehind'
  <1> USE DEF FailureBehind, Failing
  <1>0. /\ pc \in [Threads -> StreamLabels \union AppLabels] /\ state \in QueueStates
        /\ outcome \in [Threads -> {"none", "complete", "flushing", "timeout", "failure"}]
        /\ FailureBehind /\ StartedOnce /\ "stream" \in Threads /\ "app" \in Threads
    BY DEF SignalsInv, TypeOK, ThreadsTyped, QueueTyped, DrainsTyped, Threads
  <1>1. ASSUME NEW t \in Threads, DrainStep(t) \/ DrainTimeout(t) \/ SpuriousWakeup(t)
        PROVE  FailureBehind'
    <2>1. CASE DrainCheck(t)
      BY <1>0, <2>1 DEF DrainCheck, EvaluateDrain, DrainOutcome
    <2>2. CASE DrainStoreFailure(t)
      BY <1>0, <2>2 DEF DrainStoreFailure, WithFailure, QueueStates
    <2>3. CASE DrainNotify(t)
      BY <1>0, <2>3 DEF DrainNotify, WakeDone, WakeCapacity
    <2>4. CASE DrainCancel(t) \/ DrainTimeout(t) \/ SpuriousWakeup(t)
      BY <1>0, <2>4 DEF DrainCancel, DrainTimeout, SpuriousWakeup
    <2> QED BY <1>1, <2>1, <2>2, <2>3, <2>4 DEF DrainStep
  <1>2. CASE StreamStep
    BY <1>0, <1>1, <1>2 DEF StreamStep, EnqueueRefused, EnqueuePush, EnqueueWait,
      EnqueueNotify, EosForward, EosFail, QueueStates
  <1>3. ASSUME NEW t \in Threads, DrainEnter(t) PROVE FailureBehind'
    BY <1>0, <1>3 DEF DrainEnter, EvaluateDrain, DrainOutcome, QueueStates
  <1>4. CASE AppStep
    <2>1. CASE UnlockNotify \/ CloseNotify
      BY <1>0, <2>1 DEF UnlockNotify, CloseNotify, WakeDone, WakeCapacity
    <2>2. CASE UnlockStop BY <1>0, <2>2 DEF UnlockStop, NotFlushing, QueueStates
    <2>3. CASE StopJoin BY <1>0, <2>3 DEF StopJoin, StopReturns
    <2>4. CASE StopDrain BY <1>3, <2>4 DEF StopDrain, Threads
    <2> QED BY <1>1, <1>4, <2>1, <2>2, <2>3, <2>4 DEF AppStep, Threads
  <1>5. CASE WorkerStep
    <2>1. /\ state'.failure = state.failure \/ state'.failure # "none"
          /\ wpc' \in {"store_notify", "post"} =>
               state'.failure # "none" \/ (wpc = "store_notify" /\ state' = state)
      BY <1>0, <1>5 DEF WorkerStep, WorkerConnect, WorkerPop, WorkerTakeDrain, WorkerSubmit,
        WorkerFlush, WorkerWake, WorkerTicket, WorkerClose, WorkerCollected, WorkerError,
        WorkerStoreFailure, WithFailure, WorkerStoreNotify, WorkerPost, WorkerFinish,
        WorkerFinishNotify, QueueStates
    <2> QED BY <1>0, <1>5, <2>1, WorkerMoves DEF SignalsInv
  <1>6. CASE Environment
    BY <1>0, <1>1, <1>3, <1>6 DEF Environment, Start, Render, EosBegin, Unlock, FlushStop,
      Stop, QueueStates
  <1>7. CASE TimerStep \/ Acknowledge \/ ProducerFails \/ Stopped \/ UNCHANGED vars
    BY <1>0, <1>1, <1>7 DEF TimerStep, StopAbort, StopReturns, Acknowledge, ProducerFails,
      Stopped, vars
  <1> QED BY <1>2, <1>4, <1>5, <1>6, <1>7 DEF Next

\* A stop() that returns adds its own report to the one that was claimed, if it failed.
LEMMA StopReports ==
  ASSUME SignalsInv, StopReturns, pc["app"] = "drained", UNCHANGED <<outcome, eos>>,
         wpc \notin {"store_notify", "post"}
  PROVE  FailureOnItsWay'
  <1> USE DEF FailureOnItsWay, StopFails, Failing, Threads
  <1>0. /\ pc \in [Threads -> StreamLabels \union AppLabels] /\ posts \in Nat
        /\ FailureOnItsWay /\ FailureBehind /\ pc["stream"] = "idle"
    BY DEF SignalsInv, TypeOK, ThreadsTyped, QueueTyped, StopAlone, DrainLabels
  <1>1. /\ pc' = [pc EXCEPT !["app"] = "stopped"] /\ state' = state
        /\ posts' = IF StopFails THEN posts + 1 ELSE posts
    BY DEF StopReturns
  <1>2. posts <= 1 /\ (StopFails' <=> StopFails) BY <1>0
  <1>3. StopFails => state.failure # "none" BY <1>0 DEF FailureBehind
  <1>4. posts > 0 => posts' > 0 BY <1>0, <1>1
  <1>5. state.failure # "none" => posts' > 0
    <2>1. CASE StopFails BY <1>0, <1>1, <2>1
    <2>2. CASE ~StopFails
      <3>1. state.failure = "timeout" => posts > 0
        BY <1>0, <2>2
      <3>2. state.failure \in {"none", "worker", "timeout"}
        BY DEF SignalsInv, TypeOK, QueueTyped, QueueStates
      <3> QED BY <1>0, <1>4, <3>1, <3>2
    <2> QED BY <2>1, <2>2
  <1>6. posts' <= IF pc'["app"] = "stopped" /\ StopFails' THEN 2 ELSE 1
    BY <1>0, <1>1, <1>2
  <1>7. posts' > 0 => state'.failure # "none" BY <1>0, <1>1, <1>3
  <1> QED BY <1>0, <1>1, <1>4, <1>5, <1>6, <1>7

\* Who claims the report: the failed EOS, or the worker before it ends.
LEMMA PostedStep == ASSUME SignalsInv, [Next]_vars PROVE FailureOnItsWay'
  <1> USE DEF FailureOnItsWay, StopFails, Failing
  <1>0. /\ pc \in [Threads -> StreamLabels \union AppLabels] /\ state \in QueueStates
        /\ outcome \in [Threads -> {"none", "complete", "flushing", "timeout", "failure"}]
        /\ posts \in Nat /\ "stream" \in Threads /\ "app" \in Threads
        /\ FailureOnItsWay /\ FailureBehind /\ StartedOnce
    BY DEF SignalsInv, TypeOK, ThreadsTyped, QueueTyped, DrainsTyped, Threads
  <1>1. ASSUME NEW t \in Threads, DrainStep(t) \/ DrainTimeout(t) \/ SpuriousWakeup(t)
        PROVE  FailureOnItsWay'
    <2>0. wpc' = wpc /\ posts' = posts /\ eos' = eos
      BY <1>1 DEF DrainStep, DrainCheck, DrainCancel, DrainStoreFailure, DrainNotify,
        DrainTimeout, SpuriousWakeup
    <2>1. CASE DrainCheck(t)
      BY <1>0, <2>0, <2>1 DEF DrainCheck, EvaluateDrain, Threads
    <2>2. CASE DrainStoreFailure(t)
      BY <1>0, <2>0, <2>2 DEF DrainStoreFailure, WithFailure, QueueStates
    <2>3. CASE DrainNotify(t)
      <3>1. /\ pc' = [WakeDone(WakeCapacity(pc)) EXCEPT ![t] = "drained"] /\ state' = state
            /\ outcome' = [outcome EXCEPT ![t] = "timeout"] /\ pc[t] = "drain_notify"
        BY <2>3 DEF DrainNotify
      <3>2. pc'[t] = "drained" /\ outcome'[t] = "timeout"
        BY <1>0, <3>1 DEF WakeDone, WakeCapacity
      <3>3. pc'["app"] = "stopped" => pc["app"] = "stopped" /\ t # "app"
        BY <1>0, <3>1 DEF WakeDone, WakeCapacity
      <3>4. pc["app"] = "stopped" => t = "app"
        BY <1>0, <3>1 DEF SignalsInv, StopAlone, Threads
      <3>5. posts <= 1 BY <1>0, <3>1, <3>4
      <3> QED BY <1>0, <2>0, <3>1, <3>2, <3>3, <3>4, <3>5
    <2>4. CASE DrainCancel(t) \/ DrainTimeout(t) \/ SpuriousWakeup(t)
      BY <1>0, <2>0, <2>4 DEF DrainCancel, DrainTimeout, SpuriousWakeup
    <2> QED BY <1>1, <2>1, <2>2, <2>3, <2>4 DEF DrainStep
  <1>2. CASE StreamStep
    <2>1. CASE EosFail
      BY <1>0, <2>1 DEF EosFail, PostOnce, FailureBehind, SignalsInv, StopAlone
    <2>2. CASE EosForward
      BY <1>0, <2>2 DEF EosForward
    <2>3. CASE EnqueueRefused \/ EnqueuePush \/ EnqueueWait \/ EnqueueNotify
      BY <1>0, <2>3 DEF EnqueueRefused, EnqueuePush, EnqueueWait, EnqueueNotify, QueueStates
    <2> QED BY <1>0, <1>1, <1>2, <2>1, <2>2, <2>3 DEF StreamStep
  <1>3. ASSUME NEW t \in Threads, DrainEnter(t), pc[t] \in {"idle", "drain_enter"},
               eos' \in {eos, "draining"}
        PROVE  FailureOnItsWay'
    <2>1. /\ UNCHANGED <<wpc, posts>> /\ state'.failure = state.failure
          /\ \A u \in Threads : u # t => pc'[u] = pc[u] /\ outcome'[u] = outcome[u]
          /\ pc'[t] \in {"drain_wait", "drained"}
      BY <1>0, <1>3 DEF DrainEnter, EvaluateDrain, QueueStates
    <2> QED BY <1>0, <1>3, <2>1
  <1>4. CASE AppStep
    <2>1. CASE UnlockNotify \/ UnlockStop \/ CloseNotify
      BY <1>0, <2>1 DEF UnlockNotify, UnlockStop, NotFlushing, CloseNotify, WakeDone,
        WakeCapacity, QueueStates
    <2>2. CASE StopDrain BY <1>0, <1>3, <2>2 DEF StopDrain
    <2>3. CASE StopJoin BY <2>3, StopReports DEF StopJoin
    <2> QED BY <1>0, <1>1, <1>4, <2>1, <2>2, <2>3 DEF AppStep
  <1>5. CASE WorkerStep
    <2>1. CASE WorkerPost
      BY <1>0, <2>1 DEF WorkerPost, PostOnce, FailureBehind
    <2>2. CASE ~WorkerPost
      <3>1. /\ posts' = posts
            /\ \/ state'.failure = state.failure
               \/ state'.failure = "worker" /\ wpc' = "store_notify"
            /\ wpc \in {"store_notify", "post"} => wpc' = "post"
        BY <1>0, <1>5, <2>2 DEF WorkerStep, WorkerConnect, WorkerPop, WorkerTakeDrain,
          WorkerSubmit, WorkerFlush, WorkerWake, WorkerTicket, WorkerClose, WorkerCollected,
          WorkerError, WorkerStoreFailure, WithFailure, WorkerStoreNotify, WorkerFinish,
          WorkerFinishNotify, QueueStates
      <3>2. /\ UNCHANGED <<outcome, eos>>
            /\ \A t \in Threads : \A l \in {"stopped", "drained", "drain_notify"} :
                 pc'[t] = l <=> pc[t] = l
        BY <1>5, WorkerMoves DEF SignalsInv
      <3> QED BY <1>0, <3>1, <3>2
    <2> QED BY <2>1, <2>2
  <1>6. CASE Environment
    <2>1. CASE EosBegin BY <1>0, <1>3, <2>1 DEF EosBegin
    <2>2. CASE Start \/ Render \/ Unlock \/ FlushStop \/ Stop
      <3>1. /\ state'.failure = state.failure /\ posts' = posts /\ outcome' = outcome
            /\ eos' \in {eos, "none"} /\ (wpc' = wpc \/ wpc = "unborn")
        BY <1>0, <2>2 DEF Start, Render, Unlock, FlushStop, Stop, StartedOnce, QueueStates
      <3>2. \A t \in Threads : \A l \in {"stopped", "drained", "drain_notify"} :
              pc'[t] = l <=> pc[t] = l
        BY <1>0, <2>2 DEF Start, Render, Unlock, FlushStop, Stop, Threads
      <3> QED BY <1>0, <3>1, <3>2
    <2> QED BY <1>1, <1>6, <2>1, <2>2 DEF Environment
  <1>7. CASE StopAbort BY <1>7, StopReports DEF StopAbort
  <1>8. CASE Acknowledge \/ ProducerFails \/ Stopped \/ UNCHANGED vars
    BY <1>0, <1>8 DEF Acknowledge, ProducerFails, Stopped, vars
  <1> QED BY <1>1, <1>2, <1>4, <1>5, <1>6, <1>7, <1>8 DEF Next, TimerStep

\* No thread sleeps through its notification, however the three of them interleave;
\* the bus hears of every failure and of nothing else, once, and once more from a
\* stop() that fails.
THEOREM SignalsAlwaysArrive == Spec => []SignalsArrive
  <1>1. Init => SignalsInv
    <2> SUFFICES ASSUME Init PROVE SignalsInv
      OBVIOUS
    <2>1. StartedOnce /\ NoLostWakeup
      BY DEF Init, StartedOnce, NewSharedQueue, NoLostWakeup, Threads
    <2>2. StopAlone /\ FailureBehind /\ FailureOnItsWay
      BY DEF Init, NewSharedQueue, StopAlone, FailureBehind, FailureOnItsWay, Failing,
        DrainLabels, Threads
    <2> QED BY <2>1, <2>2, TypeInit DEF SignalsInv
  <1>2. SignalsInv /\ [Next]_vars => SignalsInv'
    BY TypeStep, StartedStep, NoLostWakeupStep, StopAloneStep, FailureBehindStep, PostedStep
      DEF SignalsInv
  <1>3. ASSUME SignalsInv PROVE SignalsArrive
    <2>1. /\ state.failure \in {"none", "worker", "timeout"} /\ FailureOnItsWay
          /\ pc["app"] = "stopped" => pc["stream"] = "idle" /\ WorkerEnded
      BY <1>3 DEF SignalsInv, TypeOK, QueueTyped, QueueStates, StopAlone
    <2>2. FailureTold
      BY <2>1 DEF FailureTold, FailureOnItsWay, WorkerEnded, Threads
    <2> QED BY <1>3, <2>2 DEF SignalsInv, SignalsArrive
  <1> QED BY <1>1, <1>2, <1>3, PTL DEF Spec
-----------------------------------------------------------------------------
(***************************************************************************)
(* The implementation of DurableLog.                                       *)
(***************************************************************************)
\* The record a render() brings to the queue has a number of its own.
RenderNumbered ==
  /\ rendered <= MaxRecords
  /\ pc["stream"] \in {"enqueue", "capacity_wait"} => 0 < rendered

\* No record is on its way before the first render().
LEMMA RenderNumberedInit == Init => RenderNumbered
  BY DEF Init, RenderNumbered, Threads

\* Only render() numbers a record, and it does so before enqueue_record.
LEMMA RenderNumberedStep ==
  ASSUME TypeOK, RenderNumbered, [Next]_vars PROVE RenderNumbered'
  <1> USE DEF RenderNumbered, DrainLabels
  <1>0. /\ pc \in [Threads -> StreamLabels \union AppLabels] /\ rendered \in Nat
    BY DEF TypeOK, ThreadsTyped, InputsTyped
  <1>1. ASSUME NEW t \in Threads, DrainStep(t) \/ DrainTimeout(t) \/ SpuriousWakeup(t)
        PROVE  RenderNumbered'
    BY <1>0, <1>1 DEF DrainStep, DrainCheck, EvaluateDrain, DrainCancel, DrainStoreFailure,
      DrainNotify, DrainTimeout, SpuriousWakeup, WakeDone, WakeCapacity, Threads
  <1>2. CASE StreamStep
    BY <1>0, <1>1, <1>2 DEF StreamStep, EnqueueRefused, EnqueuePush, EnqueueWait,
      EnqueueNotify, EosForward, EosFail, Threads
  <1>3. CASE AppStep
    BY <1>0, <1>1, <1>3 DEF AppStep, UnlockNotify, UnlockStop, CloseNotify, StopDrain,
      DrainEnter, EvaluateDrain, StopJoin, StopReturns, WakeDone, WakeCapacity, Threads
  <1>4. CASE WorkerStep
    <2>1. rendered' = rendered
      BY <1>4 DEF WorkerStep, WorkerConnect, WorkerPop, WorkerTakeDrain, WorkerSubmit,
        WorkerFlush, WorkerWake, WorkerTicket, WorkerClose, WorkerCollected, WorkerError,
        WorkerStoreFailure, WorkerStoreNotify, WorkerPost, WorkerFinish, WorkerFinishNotify
    <2>2. \/ pc' = pc \/ pc' = WakeCapacity(pc) \/ pc' = WakeDone(pc)
          \/ pc' = WakeDone(WakeCapacity(pc))
      BY <1>4 DEF WorkerStep, WorkerConnect, WorkerPop, WorkerTakeDrain, WorkerSubmit,
        WorkerFlush, WorkerWake, WorkerTicket, WorkerClose, WorkerCollected, WorkerError,
        WorkerStoreFailure, WorkerStoreNotify, WorkerPost, WorkerFinish, WorkerFinishNotify
    <2> QED BY <1>0, <2>1, <2>2 DEF WakeDone, WakeCapacity, Threads
  <1>5. CASE Environment
    BY <1>0, <1>1, <1>5 DEF Environment, Start, Render, EosBegin, DrainEnter, EvaluateDrain,
      Unlock, FlushStop, Stop, Threads
  <1>6. CASE TimerStep \/ Acknowledge \/ ProducerFails \/ Stopped \/ UNCHANGED vars
    BY <1>0, <1>1, <1>6 DEF TimerStep, StopAbort, StopReturns, Acknowledge, ProducerFails,
      Stopped, vars,
      Threads
  <1> QED BY <1>2, <1>3, <1>4, <1>5, <1>6 DEF Next

\* What a step can change of the state the abstract log is read from.
LEMMA LogFrame ==
  ASSUME TypeOK, [Next]_vars
  PROVE  \/ EnqueuePush \/ WorkerSubmit \/ Acknowledge \/ EosBegin \/ StopDrain
         \/ \E t \in Threads : DrainCheck(t) \/ DrainNotify(t)
         \/ UNCHANGED <<accepted, sent, acked, want, outcome>>
  <1> DEFINE Same == UNCHANGED <<accepted, sent, acked, want, outcome>>
  <1>1. ASSUME NEW t \in Threads, DrainStep(t) \/ DrainTimeout(t) \/ SpuriousWakeup(t)
        PROVE  DrainCheck(t) \/ DrainNotify(t) \/ Same
    BY <1>1 DEF DrainStep, DrainCancel, DrainStoreFailure, DrainTimeout, SpuriousWakeup
  <1>2. CASE StreamStep
    BY <1>1, <1>2 DEF StreamStep, EnqueueRefused, EnqueueWait, EnqueueNotify, EosForward,
      EosFail, Threads
  <1>3. CASE AppStep
    BY <1>1, <1>3 DEF AppStep, UnlockNotify, UnlockStop, CloseNotify, StopJoin, StopReturns,
      Threads
  <1>4. CASE WorkerStep
    BY <1>4 DEF WorkerStep, WorkerConnect, WorkerPop, WorkerTakeDrain, WorkerFlush,
      WorkerWake, WorkerTicket, WorkerClose, WorkerCollected, WorkerError,
      WorkerStoreFailure, WorkerStoreNotify, WorkerPost, WorkerFinish, WorkerFinishNotify
  <1>5. CASE Environment
    BY <1>1, <1>5 DEF Environment, Start, Render, Unlock, FlushStop, Stop
  <1>6. CASE TimerStep \/ ProducerFails \/ Stopped \/ UNCHANGED vars
    BY <1>1, <1>6 DEF TimerStep, StopAbort, StopReturns, ProducerFails, Stopped, vars
  <1> QED BY <1>2, <1>3, <1>4, <1>5, <1>6 DEF Next

\* The value the refinement mapping gives to the abstract variable confirmed.
Vouched == [t \in Threads |-> IF outcome[t] = "complete" THEN want[t] ELSE 0]

\* A fresh element maps to the empty log.
LEMMA LogInit == Init => Log!Init
  <1> SUFFICES ASSUME Init PROVE Log!Init
    OBVIOUS
  <1>1. SubSeq(sent, 1, acked) = <<>> BY SubSeqEmpty DEF Init
  <1>2. Vouched = [b \in Threads |-> 0] BY DEF Init, Vouched
  <1> QED BY <1>1, <1>2 DEF Init, Log!Init, Vouched

\* Every step of the element is a step of the abstract log, or invisible to it.
LEMMA LogStep ==
  ASSUME IInv, RenderNumbered, [Next]_vars
  PROVE  Log!Next \/ UNCHANGED <<accepted, SubSeq(sent, 1, acked), Vouched>>
  <1>0. /\ accepted \in Seq(Nat) /\ sent \in Seq(Nat) /\ cur \in Seq(Nat)
        /\ state.records \in Seq(Nat) /\ acked \in Nat /\ acked <= Len(sent)
        /\ held \in [Threads -> Nat] /\ want \in [Threads -> Nat]
        /\ state.drain \in Nat /\ drains \in Nat
        /\ outcome \in [Threads -> {"none", "complete", "flushing", "timeout", "failure"}]
    BY DEF IInv, AckedWasSent, TypeOK, QueueTyped, QueueStates, InputsTyped, ServiceTyped,
      WorkerTyped, DrainsTyped
  <1>1. /\ Len(sent) <= Len(accepted) /\ Len(accepted) \in Nat /\ Len(sent) \in Nat
        /\ Len(cur) \in Nat /\ Len(state.records) \in Nat
    BY RecordsCounted DEF IInv
  <1>2. Len(SubSeq(sent, 1, acked)) = acked
    <2>1. \A i \in 1..acked : sent[i] \in Nat BY <1>0, <1>1, ElementOfSeq
    <2> QED BY <1>0, <2>1, SubSeqProperties
  <1>3. CASE EnqueuePush
    <2>1. rendered \in 1..MaxRecords
      BY <1>3 DEF EnqueuePush, RenderNumbered, IInv, TypeOK, InputsTyped
    <2>2. /\ accepted' = Append(accepted, rendered)
          /\ UNCHANGED <<sent, acked, want, outcome>>
      BY <1>3 DEF EnqueuePush
    <2>3. Log!Accept(rendered) BY <2>2 DEF Log!Accept
    <2> QED BY <2>1, <2>3 DEF Log!Next
  <1>4. CASE WorkerSubmit
    <2>1. sent' = sent \o cur /\ UNCHANGED <<accepted, acked, want, outcome>>
      BY <1>4 DEF WorkerSubmit
    <2>2. SubSeq(sent \o cur, 1, acked) = SubSeq(sent, 1, acked)
      <3>1. CASE acked = 0 BY <3>1, SubSeqEmpty
      <3>2. CASE acked # 0
        <4>1. 1 \in 1..Len(sent) /\ acked \in 1..Len(sent) BY <1>0, <1>1, <3>2
        <4> QED BY <1>0, <4>1, SubSeqOfConcat1
      <3> QED BY <3>1, <3>2
    <2> QED BY <2>1, <2>2 DEF Vouched
  <1>5. CASE Acknowledge
    <2>1. acked' = acked + 1 /\ acked < Len(sent) /\ UNCHANGED <<accepted, sent, want, outcome>>
      BY <1>5 DEF Acknowledge
    <2>2. acked + 1 \in 1..Len(sent) /\ 1 \in 1..Len(sent) /\ acked + 1 \in 1..acked + 1
      BY <1>0, <1>1, <2>1
    <2>3. sent[acked + 1] = accepted[acked + 1]
      <3>1. sent \o cur \in Seq(Nat) /\ Len(sent \o cur) = Len(sent) + Len(cur)
              /\ (sent \o cur)[acked + 1] = sent[acked + 1]
        BY <1>0, <1>1, <2>2, ConcatProperties
      <3>2. ((sent \o cur) \o state.records)[acked + 1] = (sent \o cur)[acked + 1]
        <4>1. acked + 1 \in 1..Len(sent \o cur) + Len(state.records)
                /\ acked + 1 <= Len(sent \o cur)
          <5>1. Len(sent) \in Nat /\ Len(cur) \in Nat /\ Len(state.records) \in Nat BY <1>0
          <5> QED BY <2>2, <3>1, <5>1, InLonger
        <4> QED BY <1>0, <3>1, <4>1, ConcatProperties
      <3> QED BY <3>1, <3>2 DEF IInv, RecordsConserved
    <2>4. SubSeq(sent, 1, acked + 1) = SubSeq(sent, 1, acked) \o <<sent[acked + 1]>>
      <3>1. SubSeq(sent, 1, acked + 1)
              = SubSeq(sent, 1, (acked + 1) - 1) \o <<sent[acked + 1]>>
        BY <1>0, <1>1, <2>1, <2>2, SubSeqRecursiveSecond
      <3>2. (acked + 1) - 1 = acked BY <1>0
      <3> QED BY <3>1, <3>2
    <2>5. SubSeq(sent, 1, acked) \in Seq(Nat) /\ sent[acked + 1] \in Nat
      <3>1. \A i \in 1..acked + 1 : sent[i] \in Nat BY <1>0, <1>1, <2>1, ElementOfSeq
      <3>2. \A i \in 1..acked : sent[i] \in Nat BY <1>0, <3>1
      <3> QED BY <1>0, <2>2, <3>1, <3>2, SubSeqProperties
    <2>6. SubSeq(sent, 1, acked + 1) = Append(SubSeq(sent, 1, acked), accepted[acked + 1])
      BY <2>3, <2>4, <2>5, AppendIsConcat
    <2>7. acked < Len(accepted) BY <1>0, <1>1, <2>1
    <2>8. Log!Persist BY <1>2, <2>1, <2>6, <2>7 DEF Log!Persist
    <2> QED BY <2>8 DEF Log!Next
  <1>6. ASSUME NEW t \in Threads, UNCHANGED <<accepted, sent, acked>>,
               NEW o \in {"none", "complete", "flushing", "timeout", "failure"},
               outcome' = [outcome EXCEPT ![t] = o],
               want' = [want EXCEPT ![t] = want'[t]],
               o = "complete" => acked = Len(accepted) /\ want'[t] = Len(accepted)
        PROVE  Log!Next
    <2>1. CASE o = "complete"
      <3>1. Vouched' = [Vouched EXCEPT ![t] = acked]
        BY <1>0, <1>6, <2>1 DEF Vouched
      <3>2. Log!Confirm(t) BY <1>2, <1>6, <2>1, <3>1 DEF Log!Confirm, Vouched
      <3> QED BY <3>2 DEF Log!Next
    <2>2. CASE o # "complete"
      <3>1. Vouched' = [Vouched EXCEPT ![t] = 0]
        BY <1>0, <1>6, <2>2 DEF Vouched
      <3>2. Log!Request(t) BY <1>6, <3>1 DEF Log!Request, Vouched
      <3> QED BY <3>2 DEF Log!Next
    <2> QED BY <2>1, <2>2
  <1>7. ASSUME NEW t \in Threads, DrainEnter(t), accepted' = accepted PROVE Log!Next
    <2> DEFINE o == IF Blocked(DrainRequest) THEN "none" ELSE DrainOutcome(DrainRequest)
    <2>1. /\ UNCHANGED <<accepted, sent, acked>>
          /\ outcome' = [outcome EXCEPT ![t] = o]
          /\ want' = [want EXCEPT ![t] = Len(accepted)]
      BY <1>7 DEF DrainEnter, EvaluateDrain
    <2>2. want'[t] = Len(accepted) BY <1>0, <2>1
    <2>3. o \in {"none", "complete", "flushing", "timeout", "failure"} BY DEF DrainOutcome
    <2>4. DrainRequest \in Nat /\ DrainRequest \notin drained
      BY <1>0 DEF IInv, FlagsFresh, DrainRequest, NoDrain
    <2>5. o = "complete" => acked = Len(accepted)
      BY <2>4, CompleteIsCovered
    <2> HIDE DEF o
    <2> QED BY <1>6, <2>1, <2>2, <2>3, <2>5
  <1>8. ASSUME NEW t \in Threads, DrainCheck(t) PROVE Log!Next
    <2> DEFINE o == IF Blocked(held[t]) THEN "none" ELSE DrainOutcome(held[t])
    <2>1. /\ UNCHANGED <<accepted, sent, acked>> /\ want' = want
          /\ outcome' = [outcome EXCEPT ![t] = o]
      BY <1>8 DEF DrainCheck, EvaluateDrain
    <2>2. want[t] = Len(accepted)
      BY <1>8 DEF DrainCheck, IInv, StopPhase, DrainLabels, Threads
    <2>3. o \in {"none", "complete", "flushing", "timeout", "failure"} BY DEF DrainOutcome
    <2>4. want' = [want EXCEPT ![t] = want'[t]] BY <1>0, <2>1
    <2>5. o = "complete" => acked = Len(accepted)
      <3> SUFFICES ASSUME o = "complete" PROVE acked = Len(accepted)
        OBVIOUS
      <3>1. DrainOutcome(held[t]) = "complete" /\ held[t] \in Nat BY <1>0
      <3>2. want[t] <= acked \/ acked = Len(accepted) BY <3>1, CompleteIsCovered
      <3> QED BY <1>0, <1>1, <2>2, <3>2
    <2> HIDE DEF o
    <2> QED BY <1>6, <2>1, <2>2, <2>3, <2>4, <2>5
  <1>9. ASSUME NEW t \in Threads, DrainNotify(t) PROVE Log!Next
    <2>1. /\ UNCHANGED <<accepted, sent, acked>> /\ want' = want
          /\ outcome' = [outcome EXCEPT ![t] = "timeout"]
      BY <1>9 DEF DrainNotify
    <2>2. want' = [want EXCEPT ![t] = want'[t]] BY <1>0, <2>1
    <2> QED BY <1>6, <2>1, <2>2
  <1>10. CASE UNCHANGED <<accepted, sent, acked, want, outcome>>
    BY <1>10 DEF Vouched
  <1> QED
    BY <1>3, <1>4, <1>5, <1>7, <1>8, <1>9, <1>10, LogFrame DEF IInv, EosBegin, StopDrain,
      Threads

\* The queue, the worker and the barriers of EOS and stop() implement the durable log.
THEOREM Implementation == Spec => LogImplemented
  <1>1. Init => Log!Init BY LogInit
  <1>2. IInv /\ RenderNumbered /\ [Next]_vars => [Log!Next]_(Log!logVars)
    BY LogStep DEF Log!logVars, Vouched
  <1>3. IInv /\ RenderNumbered /\ [Next]_vars => RenderNumbered'
    BY RenderNumberedStep DEF IInv
  <1> QED
    BY <1>1, <1>2, <1>3, RenderNumberedInit, Invariant, PTL DEF Spec, LogImplemented, Log!Spec
=============================================================================
