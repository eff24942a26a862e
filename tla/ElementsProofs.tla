--------------------------- MODULE ElementsProofs ---------------------------
(***************************************************************************)
(* Proofs about the elements that Elements sums: natssink and natssrc,     *)
(* the OCR element, the console elements and the chat backend.             *)
(*                                                                         *)
(* The sink, for every capacity and any number of buffers, with and        *)
(* without a client that fails: messages are published in the order in     *)
(* which render() accepted them, one late message at most is accepted      *)
(* after a failure, and a loss is told, once, but for the message in hand  *)
(* and the flush that a stop with drain-timeout zero gives up in silence.  *)
(* What carries the first is the conservation law of a worker that has not *)
(* failed; what carries the last is why a worker ends: its failure was     *)
(* reported, the run was rejected, nothing is left over, or stop() gave it *)
(* up, with a warning or with an empty channel.                            *)
(*                                                                         *)
(* The source, for every capacity and any number of messages and flushes:  *)
(* the subscriber is never lost between create() and stop(), and every     *)
(* message received is delivered in order, waiting, in create()'s hands,   *)
(* or lost for a reason of its own. The accounts rest on the order in      *)
(* which messages pass the subscription: what was delivered is older than  *)
(* what create() holds, and that is older than what waits. The bound of    *)
(* the losses rests on the tokens: between two losses there is a flush, a  *)
(* rejection or a failed attachment.                                       *)
(*                                                                         *)
(* Of the OCR element, what OcrsProofs proves of it alone is shown to hold *)
(* of its instance. Elements instantiates the model, and this module its   *)
(* proofs, so that each name is here twice, with one meaning. Of the other *)
(* two, the proofs are from the steps of the instances themselves.         *)
(***************************************************************************)
EXTENDS Elements, FiniteSetTheorems, SequenceTheorems, TLAPS

-----------------------------------------------------------------------------
\* natssink.

SinkFlags ==
  /\ started \in BOOLEAN /\ dropOnFull \in BOOLEAN /\ flushing \in BOOLEAN
  /\ failure \in BOOLEAN /\ errorPosted \in BOOLEAN /\ rejected \in BOOLEAN
  /\ flushed \in BOOLEAN /\ aborted \in BOOLEAN /\ warned \in BOOLEAN /\ immediate \in BOOLEAN
SinkPlaces ==
  /\ pc \in {"idle", "send", "ended"} /\ cbpc \in {"idle", "report"}
  /\ wpc \in {"recv", "publish", "store", "report", "flush", "flush_report", "exited"}
  /\ spc \in {"none", "stopping", "stopped"}
SinkNumbers ==
  /\ rendered \in 0..MaxRendered /\ hand \in 0..MaxRendered /\ queued \in 0..Capacity
  /\ dropped \in Nat /\ late \in Nat /\ workerErrors \in Nat /\ permissionErrors \in Nat
SinkMessages ==
  /\ queue \in Seq(1..MaxRendered) /\ Len(queue) <= Capacity
  /\ accepted \in Seq(1..MaxRendered) /\ published \in Seq(1..MaxRendered)
SinkTyped == SinkFlags /\ SinkPlaces /\ SinkNumbers /\ SinkMessages

\* A buffer in render() is not yet dropped, and a late one is not in render().
SinkCounted ==
  /\ dropped <= rendered /\ (pc = "send" => dropped < rendered)
  /\ late <= 1 /\ late <= rendered
  /\ late = 1 => failure /\ pc # "send"

\* The message in hand is between the published ones and the channel, as long
\* as the worker has not failed; afterwards nothing more is published.
SinkInOrder ==
  /\ Sink!PublishedInOrder
  /\ (wpc = "recv" => hand = 0) /\ (wpc = "publish" => hand # 0)

\* Reports are counted by the flags that claim them.
SinkTold ==
  /\ workerErrors = IF errorPosted THEN 1 ELSE 0
  /\ IF rejected THEN permissionErrors = IF cbpc = "report" THEN 0 ELSE 1
     ELSE cbpc = "idle" /\ permissionErrors = 0

\* Nothing is left to publish, and nothing more comes.
SinkNothingLeft == accepted = published /\ hand = 0 /\ ~started /\ pc # "send"

\* stop() gave the worker up: it said so, or had nothing from the channel to report.
SinkGivenUp ==
  /\ aborted /\ spc = "stopped"
  /\ warned \/ (immediate /\ accepted = published \o Sink!InHand)

\* Why a worker is where it is.
SinkFates ==
  /\ (started <=> spc = "none") /\ (pc = "send" => started)
  /\ spc = "stopped" => wpc = "exited"
  /\ wpc \in {"recv", "publish", "store"} => ~failure
  /\ wpc = "flush" => errorPosted \/ (SinkNothingLeft /\ ~failure)
  /\ ~started /\ queued = 0 /\ wpc # "exited" => queue = <<>>
  /\ wpc = "exited" => errorPosted \/ rejected \/ (SinkNothingLeft /\ flushed) \/ SinkGivenUp

SinkIInv == SinkTyped /\ SinkCounted /\ SinkInOrder /\ SinkTold /\ SinkFates

-----------------------------------------------------------------------------
\* A sequence is a prefix of what extends it.
LEMMA PrefixOfConcat ==
  ASSUME NEW S, NEW p \in Seq(S), NEW q \in Seq(S)
  PROVE  Sink!IsPrefix(p, p \o q)
  <1>1. Len(p \o q) = Len(p) + Len(q) /\ p \o q \in Seq(S) OBVIOUS
  <1>2. \A k \in 1..Len(p) : (p \o q)[k] = p[k] OBVIOUS
  <1>3. SubSeq(p, 1, Len(p)) = SubSeq(p \o q, 1, Len(p)) BY <1>1, <1>2
  <1> QED BY <1>1, <1>3 DEF Sink!IsPrefix

\* A prefix stays one when the sequence grows.
LEMMA PrefixGrows ==
  ASSUME NEW S, NEW p \in Seq(S), NEW a \in Seq(S), NEW e \in S, Sink!IsPrefix(p, a)
  PROVE  Sink!IsPrefix(p, Append(a, e))
  <1>1. Len(p) <= Len(a) /\ SubSeq(p, 1, Len(p)) = SubSeq(a, 1, Len(p)) BY DEF Sink!IsPrefix
  <1>2. Len(Append(a, e)) = Len(a) + 1 /\ \A k \in 1..Len(a) : Append(a, e)[k] = a[k] OBVIOUS
  <1>3. SubSeq(Append(a, e), 1, Len(p)) = SubSeq(a, 1, Len(p)) BY <1>1, <1>2
  <1> QED BY <1>1, <1>2, <1>3 DEF Sink!IsPrefix

\* The head of a sequence is of its elements.
LEMMA HeadOf ==
  ASSUME NEW S, NEW q \in Seq(S), q # <<>>
  PROVE  Head(q) \in S
  OBVIOUS

\* What render() accepts goes to the end of the channel.
LEMMA SinkAccepting ==
  ASSUME MaxRendered \in Nat, SinkMessages, hand \in 0..MaxRendered, rendered \in 1..MaxRendered
  PROVE  Append(published \o Sink!InHand \o queue,
      rendered) = published \o Sink!InHand \o Append(queue, rendered)
  <1> DEFINE Ids == 1..MaxRendered
  <1>1. Sink!InHand \in Seq(1..MaxRendered)
    <2>1. CASE hand = 0 BY <2>1 DEF Sink!InHand
    <2>2. CASE hand # 0
      <3>1. hand \in 1..MaxRendered BY <2>2
      <3> QED BY <2>2, <3>1 DEF Sink!InHand
    <2> QED BY <2>1, <2>2
  <1>2. published \in Seq(Ids) /\ queue \in Seq(Ids) BY DEF SinkMessages
  <1>3. published \o Sink!InHand \in Seq(Ids) BY <1>1, <1>2, ConcatProperties
  <1>4. rendered \in Ids OBVIOUS
  <1>5. PICK T : T = Ids OBVIOUS
  <1> HIDE DEF Ids
  <1>6. PICK p \in Seq(T) : p = published \o Sink!InHand BY <1>3, <1>5
  <1>7. PICK q \in Seq(T) : q = queue BY <1>2, <1>5
  <1>8. PICK e \in T : e = rendered BY <1>4, <1>5
  <1>9. Append(p \o q, e) = p \o Append(q, e)
    <2>1. <<e>> \in Seq(T) OBVIOUS
    <2>2. PICK u \in Seq(T) : u = <<e>> BY <2>1
    <2>3. Append(q, e) = q \o u BY <2>2, AppendIsConcat
    <2>4. p \o q \in Seq(T) BY ConcatProperties
    <2>5. Append(p \o q, e) = (p \o q) \o u BY <2>2, <2>4, AppendIsConcat
    <2>6. (p \o q) \o u = p \o (q \o u) BY ConcatAssociative
    <2> QED BY <2>3, <2>5, <2>6
  <1> QED BY <1>6, <1>7, <1>8, <1>9

\* What the worker takes, and what it publishes, stays in its place.
LEMMA SinkMoves ==
  ASSUME NEW S, NEW p \in Seq(S), NEW q \in Seq(S), NEW e \in S
  PROVE  /\ p \o <<e>> \o q = Append(p, e) \o <<>> \o q
         /\ p \o <<>> \o <<>> = p
         /\ q # <<>> => p \o <<>> \o q = p \o <<Head(q)>> \o Tail(q)
  <1>1. p \o <<e>> \o q = Append(p, e) \o <<>> \o q OBVIOUS
  <1>2. p \o <<>> \o <<>> = p OBVIOUS
  <1>3. ASSUME q # <<>> PROVE p \o <<>> \o q = p \o <<Head(q)>> \o Tail(q)
    <2>1. q = <<Head(q)>> \o Tail(q) BY <1>3
    <2>2. p \o <<>> = p OBVIOUS
    <2>3. Head(q) \in S /\ Tail(q) \in Seq(S) /\ <<Head(q)>> \in Seq(S) BY <1>3
    <2>4. p \o (<<Head(q)>> \o Tail(q)) = p \o <<Head(q)>> \o Tail(q) BY <2>3
    <2> QED BY <2>1, <2>2, <2>4
  <1> QED BY <1>1, <1>2, <1>3

\* The same of the message in hand.
LEMMA SinkPublishing ==
  ASSUME SinkMessages, hand \in 1..MaxRendered
  PROVE  published \o <<hand>> \o queue = Append(published, hand) \o <<>> \o queue
  <1>1. PICK S : S = 1..MaxRendered OBVIOUS
  <1>2. published \in Seq(S) /\ queue \in Seq(S) /\ hand \in S BY <1>1 DEF SinkMessages
  <1> QED BY <1>2, SinkMoves

\* With an empty channel the message in hand is the last.
LEMMA SinkNothingBehind ==
  ASSUME SinkMessages, hand \in 0..MaxRendered, MaxRendered \in Nat
  PROVE  published \o Sink!InHand \o <<>> = published \o Sink!InHand
  <1>1. PICK S : S = 1..MaxRendered OBVIOUS
  <1>2. Sink!InHand \in Seq(S)
    <2>1. CASE hand = 0 BY <2>1 DEF Sink!InHand
    <2>2. CASE hand # 0
      <3>1. hand \in S BY <1>1, <2>2
      <3> QED BY <2>2, <3>1 DEF Sink!InHand
    <2> QED BY <2>1, <2>2
  <1>3. PICK p \in Seq(S) : p = published BY <1>1 DEF SinkMessages
  <1>4. PICK h \in Seq(S) : h = Sink!InHand BY <1>2
  <1>5. PICK t \in Seq(S) : t = p \o h BY ConcatProperties
  <1>6. t \o <<>> = t OBVIOUS
  <1> QED BY <1>3, <1>4, <1>5, <1>6

\* Flags stay Boolean.
LEMMA SinkFlagsStep ==
  ASSUME Sink!NatsSinkAssumption, SinkIInv, [Sink!Next]_(Sink!vars)
  PROVE  SinkFlags'
  <1> USE DEF SinkIInv, SinkTyped, SinkFlags, Sink!flagVars, Sink!streamVars, Sink!workerVars,
      Sink!runVars, Sink!stopVars
  <1>1. CASE Sink!RenderRefused BY <1>1 DEF Sink!RenderRefused, Sink!Report
  <1>2. CASE Sink!RenderBegin BY <1>2 DEF Sink!RenderBegin
  <1>3. CASE Sink!RenderSend BY <1>3 DEF Sink!RenderSend, Sink!Report
  <1>4. CASE Sink!Unlock BY <1>4 DEF Sink!Unlock
  <1>5. CASE Sink!WorkerReceive BY <1>5 DEF Sink!WorkerReceive
  <1>6. CASE Sink!WorkerDrained BY <1>6 DEF Sink!WorkerDrained
  <1>7. CASE Sink!WorkerPublish BY <1>7 DEF Sink!WorkerPublish
  <1>8. CASE Sink!WorkerFlush BY <1>8 DEF Sink!WorkerFlush
  <1>9. CASE Sink!WorkerCancelled BY <1>9 DEF Sink!WorkerCancelled
  <1>10. CASE Sink!WorkerStore BY <1>10 DEF Sink!WorkerStore
  <1>11. CASE Sink!WorkerReport BY <1>11 DEF Sink!WorkerReport, Sink!Report
  <1>12. CASE Sink!WorkerFlushReport BY <1>12 DEF Sink!WorkerFlushReport, Sink!Report
  <1>13. CASE Sink!CallbackReport BY <1>13 DEF Sink!CallbackReport
  <1>14. CASE Sink!CallbackReject BY <1>14 DEF Sink!CallbackReject
  <1>15. CASE Sink!Stop BY <1>15 DEF Sink!Stop
  <1>16. CASE Sink!StopJoined
    <2>1. warned' = (immediate /\ queued > 0) BY <1>16 DEF Sink!StopJoined
    <2>2. warned' \in BOOLEAN BY ONLY <2>1, Zenon
    <2>3. UNCHANGED <<started, dropOnFull, flushing, failure, errorPosted, rejected, flushed,
        aborted, immediate>> BY <1>16 DEF Sink!StopJoined
    <2> QED BY <2>2, <2>3
  <1>17. CASE Sink!StopAborts
    <2>1. warned' = (~immediate \/ queued > 0) BY <1>17 DEF Sink!StopAborts, Sink!AbortWarns
    <2>2. warned' \in BOOLEAN BY ONLY <2>1, Zenon
    <2>3. aborted' \in BOOLEAN BY <1>17 DEF Sink!StopAborts
    <2>4. UNCHANGED <<started, dropOnFull, flushing, failure, errorPosted, rejected, flushed,
        immediate>> BY <1>17 DEF Sink!StopAborts
    <2> QED BY <2>2, <2>3, <2>4
  <1>18. CASE UNCHANGED Sink!vars BY <1>18 DEF Sink!vars
  <1> QED
    BY <1>1, <1>2, <1>3, <1>4, <1>5, <1>6, <1>7, <1>8, <1>9, <1>10, <1>11, <1>12,
       <1>13, <1>14, <1>15, <1>16, <1>17, <1>18 DEF Sink!Next, Sink!Worker, Sink!Prompt

\* Every thread stays at one of its places.
LEMMA SinkPlacesStep ==
  ASSUME Sink!NatsSinkAssumption, SinkIInv, [Sink!Next]_(Sink!vars)
  PROVE  SinkPlaces'
  <1> USE DEF SinkIInv, SinkTyped, SinkPlaces, Sink!flagVars, Sink!streamVars, Sink!workerVars,
      Sink!runVars, Sink!stopVars
  <1>1. CASE Sink!RenderRefused BY <1>1 DEF Sink!RenderRefused
  <1>2. CASE Sink!RenderBegin BY <1>2 DEF Sink!RenderBegin
  <1>3. CASE Sink!RenderSend BY <1>3 DEF Sink!RenderSend
  <1>4. CASE Sink!Unlock BY <1>4 DEF Sink!Unlock
  <1>5. CASE Sink!WorkerReceive BY <1>5 DEF Sink!WorkerReceive
  <1>6. CASE Sink!WorkerDrained BY <1>6 DEF Sink!WorkerDrained
  <1>7. CASE Sink!WorkerPublish BY <1>7 DEF Sink!WorkerPublish
  <1>8. CASE Sink!WorkerFlush BY <1>8 DEF Sink!WorkerFlush
  <1>9. CASE Sink!WorkerCancelled BY <1>9 DEF Sink!WorkerCancelled
  <1>10. CASE Sink!WorkerStore BY <1>10 DEF Sink!WorkerStore
  <1>11. CASE Sink!WorkerReport BY <1>11 DEF Sink!WorkerReport
  <1>12. CASE Sink!WorkerFlushReport BY <1>12 DEF Sink!WorkerFlushReport
  <1>13. CASE Sink!CallbackReport BY <1>13 DEF Sink!CallbackReport
  <1>14. CASE Sink!CallbackReject BY <1>14 DEF Sink!CallbackReject
  <1>15. CASE Sink!Stop BY <1>15 DEF Sink!Stop
  <1>16. CASE Sink!StopJoined BY <1>16 DEF Sink!StopJoined
  <1>17. CASE Sink!StopAborts BY <1>17 DEF Sink!StopAborts
  <1>18. CASE UNCHANGED Sink!vars BY <1>18 DEF Sink!vars
  <1> QED
    BY <1>1, <1>2, <1>3, <1>4, <1>5, <1>6, <1>7, <1>8, <1>9, <1>10, <1>11, <1>12,
       <1>13, <1>14, <1>15, <1>16, <1>17, <1>18 DEF Sink!Next, Sink!Worker, Sink!Prompt

\* Counters count up from zero, and no buffer has a number past the bound.
LEMMA SinkNumbersStep ==
  ASSUME Sink!NatsSinkAssumption, SinkIInv, [Sink!Next]_(Sink!vars)
  PROVE  SinkNumbers'
  <1> USE DEF Sink!NatsSinkAssumption, SinkIInv, SinkTyped, SinkNumbers, SinkMessages,
      Sink!flagVars, Sink!streamVars, Sink!workerVars, Sink!runVars, Sink!stopVars
  <1>1. CASE Sink!RenderRefused BY <1>1 DEF Sink!RenderRefused, Sink!Report
  <1>2. CASE Sink!RenderBegin BY <1>2 DEF Sink!RenderBegin
  <1>3. CASE Sink!RenderSend
    <2>1. UNCHANGED <<rendered, hand, queued, permissionErrors>> BY <1>3 DEF Sink!RenderSend
    <2>2. dropped' \in {dropped, dropped + 1} /\ late' \in {late, late + 1} BY <1>3
        DEF Sink!RenderSend
    <2>3. workerErrors' \in {workerErrors, workerErrors + 1} BY <1>3 DEF Sink!RenderSend,
        Sink!Report
    <2> QED BY <2>1, <2>2, <2>3
  <1>4. CASE Sink!Unlock BY <1>4 DEF Sink!Unlock
  <1>5. CASE Sink!WorkerReceive BY <1>5 DEF Sink!WorkerReceive
  <1>6. CASE Sink!WorkerDrained BY <1>6 DEF Sink!WorkerDrained
  <1>7. CASE Sink!WorkerPublish BY <1>7 DEF Sink!WorkerPublish
  <1>8. CASE Sink!WorkerFlush BY <1>8 DEF Sink!WorkerFlush
  <1>9. CASE Sink!WorkerCancelled BY <1>9 DEF Sink!WorkerCancelled
  <1>10. CASE Sink!WorkerStore BY <1>10 DEF Sink!WorkerStore
  <1>11. CASE Sink!WorkerReport BY <1>11 DEF Sink!WorkerReport, Sink!Report
  <1>12. CASE Sink!WorkerFlushReport BY <1>12 DEF Sink!WorkerFlushReport, Sink!Report
  <1>13. CASE Sink!CallbackReport BY <1>13 DEF Sink!CallbackReport
  <1>14. CASE Sink!CallbackReject BY <1>14 DEF Sink!CallbackReject
  <1>15. CASE Sink!Stop BY <1>15 DEF Sink!Stop
  <1>16. CASE Sink!StopJoined BY <1>16 DEF Sink!StopJoined
  <1>17. CASE Sink!StopAborts BY <1>17 DEF Sink!StopAborts
  <1>18. CASE UNCHANGED Sink!vars BY <1>18 DEF Sink!vars
  <1> QED
    BY <1>1, <1>2, <1>3, <1>4, <1>5, <1>6, <1>7, <1>8, <1>9, <1>10, <1>11, <1>12,
       <1>13, <1>14, <1>15, <1>16, <1>17, <1>18 DEF Sink!Next, Sink!Worker, Sink!Prompt

\* The channel never holds more than its capacity.
LEMMA SinkMessagesStep ==
  ASSUME Sink!NatsSinkAssumption, SinkIInv, [Sink!Next]_(Sink!vars)
  PROVE  SinkMessages'
  <1> USE DEF Sink!NatsSinkAssumption, SinkIInv, SinkTyped, SinkNumbers, SinkMessages,
      Sink!flagVars, Sink!streamVars, Sink!workerVars, Sink!runVars, Sink!stopVars
  <1>1. CASE Sink!RenderRefused BY <1>1 DEF Sink!RenderRefused
  <1>2. CASE Sink!RenderBegin BY <1>2 DEF Sink!RenderBegin
  <1>3. CASE Sink!RenderSend
    <2>1. pc = "send" /\ rendered \in 1..MaxRendered BY <1>3 DEF Sink!RenderSend, SinkCounted
    <2>2. CASE queue' = queue /\ accepted' = accepted BY <1>3, <2>2 DEF Sink!RenderSend
    <2>3. CASE Sink!Room /\ queue' = Append(queue, rendered) /\ accepted' = Append(accepted,
        rendered)
      <3>1. queue' \in Seq(1..MaxRendered) /\ accepted' \in Seq(1..MaxRendered)
            /\ Len(queue') = Len(queue) + 1
        BY <2>1, <2>3
      <3> QED BY <1>3, <2>3, <3>1 DEF Sink!RenderSend, Sink!Room
    <2> QED BY <1>3, <2>2, <2>3 DEF Sink!RenderSend
  <1>4. CASE Sink!Unlock BY <1>4 DEF Sink!Unlock
  <1>5. CASE Sink!WorkerReceive BY <1>5 DEF Sink!WorkerReceive
  <1>6. CASE Sink!WorkerDrained BY <1>6 DEF Sink!WorkerDrained
  <1>7. CASE Sink!WorkerPublish
    <2>1. hand \in 1..MaxRendered BY <1>7 DEF Sink!WorkerPublish, SinkInOrder
    <2>2. CASE published' = published BY <1>7, <2>2 DEF Sink!WorkerPublish
    <2>3. CASE published' = Append(published, hand)
      <3>1. published' \in Seq(1..MaxRendered) BY <2>1, <2>3
      <3> QED BY <1>7, <3>1 DEF Sink!WorkerPublish
    <2> QED BY <1>7, <2>2, <2>3 DEF Sink!WorkerPublish
  <1>8. CASE Sink!WorkerFlush BY <1>8 DEF Sink!WorkerFlush
  <1>9. CASE Sink!WorkerCancelled BY <1>9 DEF Sink!WorkerCancelled
  <1>10. CASE Sink!WorkerStore BY <1>10 DEF Sink!WorkerStore
  <1>11. CASE Sink!WorkerReport BY <1>11 DEF Sink!WorkerReport
  <1>12. CASE Sink!WorkerFlushReport BY <1>12 DEF Sink!WorkerFlushReport
  <1>13. CASE Sink!CallbackReport BY <1>13 DEF Sink!CallbackReport
  <1>14. CASE Sink!CallbackReject BY <1>14 DEF Sink!CallbackReject
  <1>15. CASE Sink!Stop BY <1>15 DEF Sink!Stop
  <1>16. CASE Sink!StopJoined BY <1>16 DEF Sink!StopJoined
  <1>17. CASE Sink!StopAborts BY <1>17 DEF Sink!StopAborts
  <1>18. CASE UNCHANGED Sink!vars BY <1>18 DEF Sink!vars
  <1> QED
    BY <1>1, <1>2, <1>3, <1>4, <1>5, <1>6, <1>7, <1>8, <1>9, <1>10, <1>11, <1>12,
       <1>13, <1>14, <1>15, <1>16, <1>17, <1>18 DEF Sink!Next, Sink!Worker, Sink!Prompt

\* A late message is the one that render() had already looked for.
LEMMA SinkCountedStep ==
  ASSUME Sink!NatsSinkAssumption, SinkIInv, [Sink!Next]_(Sink!vars)
  PROVE  SinkCounted'
  <1> USE DEF Sink!NatsSinkAssumption, SinkIInv, SinkTyped, SinkPlaces, SinkNumbers, SinkCounted,
      Sink!flagVars, Sink!streamVars, Sink!workerVars, Sink!runVars, Sink!stopVars
  <1>1. CASE Sink!RenderRefused BY <1>1 DEF Sink!RenderRefused
  <1>2. CASE Sink!RenderBegin BY <1>2 DEF Sink!RenderBegin
  <1>3. CASE Sink!RenderSend BY <1>3 DEF Sink!RenderSend
  <1>4. CASE Sink!Unlock BY <1>4 DEF Sink!Unlock
  <1>5. CASE Sink!WorkerReceive BY <1>5 DEF Sink!WorkerReceive
  <1>6. CASE Sink!WorkerDrained BY <1>6 DEF Sink!WorkerDrained
  <1>7. CASE Sink!WorkerPublish BY <1>7 DEF Sink!WorkerPublish
  <1>8. CASE Sink!WorkerFlush BY <1>8 DEF Sink!WorkerFlush
  <1>9. CASE Sink!WorkerCancelled BY <1>9 DEF Sink!WorkerCancelled
  <1>10. CASE Sink!WorkerStore BY <1>10 DEF Sink!WorkerStore
  <1>11. CASE Sink!WorkerReport BY <1>11 DEF Sink!WorkerReport
  <1>12. CASE Sink!WorkerFlushReport BY <1>12 DEF Sink!WorkerFlushReport
  <1>13. CASE Sink!CallbackReport BY <1>13 DEF Sink!CallbackReport
  <1>14. CASE Sink!CallbackReject BY <1>14 DEF Sink!CallbackReject
  <1>15. CASE Sink!Stop BY <1>15 DEF Sink!Stop
  <1>16. CASE Sink!StopJoined BY <1>16 DEF Sink!StopJoined
  <1>17. CASE Sink!StopAborts BY <1>17 DEF Sink!StopAborts
  <1>18. CASE UNCHANGED Sink!vars BY <1>18 DEF Sink!vars
  <1> QED
    BY <1>1, <1>2, <1>3, <1>4, <1>5, <1>6, <1>7, <1>8, <1>9, <1>10, <1>11, <1>12,
       <1>13, <1>14, <1>15, <1>16, <1>17, <1>18 DEF Sink!Next, Sink!Worker, Sink!Prompt

\* Whoever reports first claims the flag.
LEMMA SinkToldStep ==
  ASSUME Sink!NatsSinkAssumption, SinkIInv, [Sink!Next]_(Sink!vars)
  PROVE  SinkTold'
  <1> USE DEF SinkIInv, SinkTyped, SinkPlaces, SinkNumbers, SinkTold, Sink!flagVars,
      Sink!streamVars, Sink!workerVars, Sink!runVars, Sink!stopVars
  <1>1. CASE Sink!RenderRefused BY <1>1 DEF Sink!RenderRefused, Sink!Report
  <1>2. CASE Sink!RenderBegin BY <1>2 DEF Sink!RenderBegin
  <1>3. CASE Sink!RenderSend BY <1>3 DEF Sink!RenderSend, Sink!Report
  <1>4. CASE Sink!Unlock BY <1>4 DEF Sink!Unlock
  <1>5. CASE Sink!WorkerReceive BY <1>5 DEF Sink!WorkerReceive
  <1>6. CASE Sink!WorkerDrained BY <1>6 DEF Sink!WorkerDrained
  <1>7. CASE Sink!WorkerPublish BY <1>7 DEF Sink!WorkerPublish
  <1>8. CASE Sink!WorkerFlush BY <1>8 DEF Sink!WorkerFlush
  <1>9. CASE Sink!WorkerCancelled BY <1>9 DEF Sink!WorkerCancelled
  <1>10. CASE Sink!WorkerStore BY <1>10 DEF Sink!WorkerStore
  <1>11. CASE Sink!WorkerReport BY <1>11 DEF Sink!WorkerReport, Sink!Report
  <1>12. CASE Sink!WorkerFlushReport BY <1>12 DEF Sink!WorkerFlushReport, Sink!Report
  <1>13. CASE Sink!CallbackReport BY <1>13 DEF Sink!CallbackReport
  <1>14. CASE Sink!CallbackReject BY <1>14 DEF Sink!CallbackReject
  <1>15. CASE Sink!Stop BY <1>15 DEF Sink!Stop
  <1>16. CASE Sink!StopJoined BY <1>16 DEF Sink!StopJoined
  <1>17. CASE Sink!StopAborts BY <1>17 DEF Sink!StopAborts
  <1>18. CASE UNCHANGED Sink!vars BY <1>18 DEF Sink!vars
  <1> QED
    BY <1>1, <1>2, <1>3, <1>4, <1>5, <1>6, <1>7, <1>8, <1>9, <1>10, <1>11, <1>12,
       <1>13, <1>14, <1>15, <1>16, <1>17, <1>18 DEF Sink!Next, Sink!Worker, Sink!Prompt

\* A worker ends only for a reason: it leaves nothing behind when it flushes.
LEMMA SinkFatesStep ==
  ASSUME Sink!NatsSinkAssumption, SinkIInv, [Sink!Next]_(Sink!vars)
  PROVE  SinkFates'
  <1> USE DEF SinkIInv, SinkTyped, SinkFlags, SinkPlaces, SinkFates, SinkNothingLeft, SinkGivenUp,
      Sink!InHand, Sink!flagVars, Sink!streamVars, Sink!workerVars, Sink!runVars, Sink!stopVars
  <1>1. CASE Sink!RenderRefused BY <1>1 DEF Sink!RenderRefused, Sink!Report
  <1>2. CASE Sink!RenderBegin BY <1>2 DEF Sink!RenderBegin
  <1>3. CASE Sink!RenderSend BY <1>3 DEF Sink!RenderSend, Sink!Report
  <1>4. CASE Sink!Unlock BY <1>4 DEF Sink!Unlock
  <1>5. CASE Sink!WorkerReceive BY <1>5 DEF Sink!WorkerReceive
  <1>6. CASE Sink!WorkerDrained
    <2>1. accepted = published \o <<>> \o <<>>
      BY <1>6 DEF Sink!WorkerDrained, SinkInOrder, Sink!PublishedInOrder, Sink!InHand
    <2>2. accepted = published BY <2>1, SinkMoves DEF SinkMessages
    <2>3. hand = 0 BY <1>6 DEF Sink!WorkerDrained, SinkInOrder
    <2> QED BY <1>6, <2>2, <2>3 DEF Sink!WorkerDrained
  <1>7. CASE Sink!WorkerPublish BY <1>7 DEF Sink!WorkerPublish
  <1>8. CASE Sink!WorkerFlush BY <1>8 DEF Sink!WorkerFlush
  <1>9. CASE Sink!WorkerCancelled BY <1>9 DEF Sink!WorkerCancelled
  <1>10. CASE Sink!WorkerStore BY <1>10 DEF Sink!WorkerStore
  <1>11. CASE Sink!WorkerReport BY <1>11 DEF Sink!WorkerReport, Sink!Report
  <1>12. CASE Sink!WorkerFlushReport BY <1>12 DEF Sink!WorkerFlushReport, Sink!Report
  <1>13. CASE Sink!CallbackReport BY <1>13 DEF Sink!CallbackReport
  <1>14. CASE Sink!CallbackReject BY <1>14 DEF Sink!CallbackReject
  <1>15. CASE Sink!Stop
    <2>1. wpc # "exited" /\ queued' = 0 => queue = <<>> BY <1>15 DEF Sink!Stop, SinkMessages
    <2> QED BY <1>15, <2>1 DEF Sink!Stop
  <1>16. CASE Sink!StopJoined BY <1>16 DEF Sink!StopJoined
  <1>17. CASE Sink!StopAborts
    <2>1. ~warned' => immediate /\ ~(queued > 0)
      BY <1>17 DEF Sink!StopAborts, Sink!AbortWarns
    <2>2. ~started /\ wpc \in {"recv", "publish", "flush"} BY <1>17 DEF Sink!StopAborts, Sink!Awaiting
    <2>3. ASSUME ~warned' PROVE queue = <<>>
      <3>1. queued \in Nat BY DEF SinkNumbers, Sink!NatsSinkAssumption
      <3>2. queued = 0 BY <2>1, <2>3, <3>1
      <3> QED BY <2>2, <3>2
    <2>4. ASSUME ~warned', wpc \in {"recv", "publish"} PROVE accepted = published \o Sink!InHand
      <3>1. accepted = published \o Sink!InHand \o <<>>
        BY <2>3, <2>4 DEF SinkInOrder, Sink!PublishedInOrder
      <3> QED BY <3>1, SinkNothingBehind DEF Sink!NatsSinkAssumption, SinkNumbers
    <2>5. ASSUME wpc = "flush", ~errorPosted PROVE accepted = published \o Sink!InHand
      BY <2>5 DEF SinkMessages
    <2>6. errorPosted \/ warned' \/ (immediate /\ accepted = published \o Sink!InHand)
      BY <2>1, <2>2, <2>4, <2>5
    <2>7. /\ wpc' = "exited" /\ spc' = "stopped" /\ aborted'
          /\ UNCHANGED <<accepted, published, hand, errorPosted, started, pc, immediate>>
      BY <1>17 DEF Sink!StopAborts
    <2> QED BY <2>2, <2>6, <2>7
  <1>18. CASE UNCHANGED Sink!vars BY <1>18 DEF Sink!vars
  <1> QED
    BY <1>1, <1>2, <1>3, <1>4, <1>5, <1>6, <1>7, <1>8, <1>9, <1>10, <1>11, <1>12,
       <1>13, <1>14, <1>15, <1>16, <1>17, <1>18 DEF Sink!Next, Sink!Worker, Sink!Prompt

\* A message that the worker has not lost is where its place in the order says.
LEMMA SinkInOrderStep ==
  ASSUME Sink!NatsSinkAssumption, SinkIInv, [Sink!Next]_(Sink!vars)
  PROVE  SinkInOrder'
  <1> USE DEF SinkIInv, SinkTyped, SinkPlaces, SinkInOrder, Sink!PublishedInOrder, Sink!InHand,
      Sink!flagVars, Sink!streamVars, Sink!workerVars, Sink!runVars, Sink!stopVars
  <1>1. CASE Sink!RenderRefused BY <1>1 DEF Sink!RenderRefused
  <1>2. CASE Sink!RenderBegin BY <1>2 DEF Sink!RenderBegin
  <1>3. CASE Sink!RenderSend
    <2>1. CASE UNCHANGED <<queue, accepted>> BY <1>3, <2>1 DEF Sink!RenderSend
    <2>2. CASE queue' = Append(queue, rendered) /\ accepted' = Append(accepted, rendered)
      <3>1. pc = "send" /\ rendered \in 1..MaxRendered BY <1>3 DEF Sink!RenderSend, SinkNumbers,
          SinkCounted
      <3>2. Sink!IsPrefix(published, Append(accepted, rendered)) BY <3>1, PrefixGrows
          DEF SinkMessages
      <3>4. wpc \in {"recv", "publish"} => accepted = published \o Sink!InHand \o queue BY
          DEF Sink!InHand
      <3>5. wpc \in {"recv", "publish"} =>
              Append(accepted, rendered) = published \o Sink!InHand \o Append(queue, rendered)
        BY <3>1, <3>4, SinkAccepting DEF Sink!NatsSinkAssumption, SinkNumbers
      <3>6. UNCHANGED <<wpc, hand, published>> BY <1>3 DEF Sink!RenderSend
      <3> QED BY <2>2, <3>2, <3>5, <3>6 DEF Sink!InHand
    <2> QED BY <1>3, <2>1, <2>2 DEF Sink!RenderSend
  <1>4. CASE Sink!Unlock BY <1>4 DEF Sink!Unlock
  <1>5. CASE Sink!WorkerReceive
    <2>1. queue # <<>> /\ hand = 0 /\ accepted = published \o <<>> \o queue BY <1>5
        DEF Sink!WorkerReceive
    <2>2. Head(queue) \in 1..MaxRendered BY <2>1, HeadOf DEF SinkMessages
    <2>3. accepted = published \o <<Head(queue)>> \o Tail(queue) BY <2>1, <2>2, SinkMoves
        DEF SinkMessages
    <2>4. /\ hand' = Head(queue) /\ queue' = Tail(queue) /\ wpc' = "publish"
          /\ accepted' = accepted /\ published' = published
      BY <1>5 DEF Sink!WorkerReceive
    <2>5. Sink!IsPrefix(published, accepted) /\ Head(queue) # 0
      BY <2>2
    <2>6. accepted' = published' \o Sink!InHand' \o queue'
      <3>1. Sink!InHand' = <<Head(queue)>>
        BY <2>4, <2>5 DEF Sink!InHand
      <3> QED BY <2>3, <2>4, <3>1
    <2> QED BY <2>4, <2>5, <2>6 DEF Sink!InHand
  <1>6. CASE Sink!WorkerDrained BY <1>6 DEF Sink!WorkerDrained
  <1>7. CASE Sink!WorkerPublish
    <2>1. hand \in 1..MaxRendered /\ accepted = published \o <<hand>> \o queue
      BY <1>7 DEF Sink!WorkerPublish, SinkNumbers
    <2>2. accepted = Append(published, hand) \o <<>> \o queue BY <2>1, SinkPublishing
    <2>3. CASE UNCHANGED published BY <1>7, <2>3 DEF Sink!WorkerPublish
    <2>4. CASE published' = Append(published, hand) /\ hand' = 0 /\ wpc' = "recv"
      <3>1. Append(published, hand) \in Seq(1..MaxRendered) BY <2>1 DEF SinkMessages
      <3>2. accepted = Append(published, hand) \o queue BY <2>2, <3>1 DEF SinkMessages
      <3>3. Sink!IsPrefix(Append(published, hand), accepted) BY <3>1, <3>2, PrefixOfConcat
          DEF SinkMessages
      <3> QED BY <1>7, <2>2, <2>4, <3>3 DEF Sink!WorkerPublish
    <2> QED BY <1>7, <2>3, <2>4 DEF Sink!WorkerPublish
  <1>8. CASE Sink!WorkerFlush BY <1>8 DEF Sink!WorkerFlush
  <1>9. CASE Sink!WorkerCancelled BY <1>9 DEF Sink!WorkerCancelled
  <1>10. CASE Sink!WorkerStore BY <1>10 DEF Sink!WorkerStore
  <1>11. CASE Sink!WorkerReport BY <1>11 DEF Sink!WorkerReport
  <1>12. CASE Sink!WorkerFlushReport BY <1>12 DEF Sink!WorkerFlushReport
  <1>13. CASE Sink!CallbackReport BY <1>13 DEF Sink!CallbackReport
  <1>14. CASE Sink!CallbackReject BY <1>14 DEF Sink!CallbackReject
  <1>15. CASE Sink!Stop BY <1>15 DEF Sink!Stop
  <1>16. CASE Sink!StopJoined BY <1>16 DEF Sink!StopJoined
  <1>17. CASE Sink!StopAborts BY <1>17 DEF Sink!StopAborts
  <1>18. CASE UNCHANGED Sink!vars BY <1>18 DEF Sink!vars
  <1> QED
    BY <1>1, <1>2, <1>3, <1>4, <1>5, <1>6, <1>7, <1>8, <1>9, <1>10, <1>11, <1>12,
       <1>13, <1>14, <1>15, <1>16, <1>17, <1>18 DEF Sink!Next, Sink!Worker, Sink!Prompt

-----------------------------------------------------------------------------
\* The run begins with the invariant.
LEMMA SinkInitIInv ==
  ASSUME Sink!NatsSinkAssumption, Sink!Init
  PROVE  SinkIInv
  <1>1. SinkFlags /\ SinkPlaces BY DEF Sink!Init, SinkFlags, SinkPlaces
  <1>1a. SinkNumbers /\ SinkMessages BY DEF Sink!NatsSinkAssumption, Sink!Init, SinkNumbers,
      SinkMessages
  <1>2. SinkCounted /\ SinkTold /\ SinkFates BY DEF Sink!Init, SinkCounted, SinkTold, SinkFates
  <1>3. Sink!IsPrefix(<<>>, <<>>) BY DEF Sink!IsPrefix
  <1>4. SinkInOrder BY <1>3 DEF Sink!Init, SinkInOrder, Sink!PublishedInOrder, Sink!InHand
  <1> QED BY <1>1, <1>1a, <1>2, <1>4 DEF SinkIInv, SinkTyped

\* No step breaks the invariant.
LEMMA SinkNextIInv ==
  ASSUME Sink!NatsSinkAssumption, SinkIInv, [Sink!Next]_(Sink!vars)
  PROVE  SinkIInv'
  BY SinkFlagsStep, SinkPlacesStep, SinkNumbersStep, SinkMessagesStep, SinkCountedStep,
      SinkToldStep, SinkFatesStep, SinkInOrderStep
  DEF SinkIInv, SinkTyped

\* The channel is bounded, the order is that of render(), one late message at
\* most follows a stored failure, and a loss is told, and told once, but for what
\* drain-timeout zero drops in hand or unflushed.
LEMMA SinkIInvHonest ==
  ASSUME Sink!NatsSinkAssumption, SinkIInv
  PROVE  Sink!Consistent /\ Sink!PublishedInOrder /\ Sink!LossIsReported
  <1>1. Sink!TypeOK
    <2>1. dropped \in 0..MaxRendered /\ late \in 0..MaxRendered
      BY DEF Sink!NatsSinkAssumption, SinkIInv, SinkTyped, SinkNumbers, SinkCounted
    <2> QED BY <2>1 DEF SinkIInv, SinkTyped, SinkFlags, SinkPlaces, SinkNumbers, SinkMessages,
        Sink!TypeOK
  <1>2. Sink!AtMostOneLate BY DEF SinkIInv, SinkCounted, Sink!AtMostOneLate
  <1>3. Sink!PublishedInOrder BY DEF SinkIInv, SinkInOrder
  <1>4. Sink!ReportedOnce BY DEF SinkIInv, SinkTyped, SinkPlaces, SinkTold, Sink!ReportedOnce
  <1>5. Sink!LossIsVisible
    BY DEF SinkIInv, SinkTyped, SinkFlags, SinkPlaces, SinkNumbers, SinkTold, SinkFates,
        SinkNothingLeft, SinkGivenUp, Sink!LossIsVisible
  <1> QED BY <1>1, <1>2, <1>3, <1>4, <1>5 DEF Sink!Consistent, Sink!LossIsReported

\* Messages are published in the order in which render() accepted them, a
\* stored failure lets one late message through at most, and when stop()
\* returns over a lost message an error or a warning told of it, an error once;
\* drain-timeout zero alone loses in silence, and only the message in hand and the
\* last flush. For every capacity, any number of buffers, and every interleaving of
\* render(), stop(), the worker and the callback.
THEOREM SinkIsHonest ==
  ASSUME Sink!NatsSinkAssumption
  PROVE  Sink!Spec => [](Sink!Consistent /\ Sink!PublishedInOrder /\ Sink!LossIsReported)
  <1>1. Sink!Init => SinkIInv BY SinkInitIInv
  <1>2. SinkIInv /\ [Sink!Next]_(Sink!vars) => SinkIInv' BY SinkNextIInv
  <1>3. SinkIInv => Sink!Consistent /\ Sink!PublishedInOrder /\ Sink!LossIsReported
      BY SinkIInvHonest
  <1> QED BY <1>1, <1>2, <1>3, PTL DEF Sink!Spec

\* Among the elements the sink moves by its own steps only.
LEMMA SinkSteps ==
  ASSUME [Next]_elementsVars
  PROVE  [Sink!Next]_(Sink!vars)
  <1> USE DEF sinkVars, Sink!vars, Sink!flagVars, Sink!streamVars, Sink!workerVars, Sink!runVars,
      Sink!stopVars
  <1>1. CASE OnlyOf("src") \/ OnlyOf("ocrs") \/ OnlyOf("console") \/ OnlyOf("chat")
    BY <1>1 DEF OnlyOf
  <1>2. CASE UNCHANGED elementsVars BY <1>2 DEF elementsVars
  <1> QED BY <1>1, <1>2 DEF Next

\* natssink beside the other elements: its channel stays bounded, its messages
\* go out in the order of render(), and a loss is told once, but for the message in
\* hand and the flush of a stop with drain-timeout zero: for every value of the
\* constants of all of them.
THEOREM SinkStaysHonest ==
  Spec => []SinkHonest
  <1>0. Sink!NatsSinkAssumption BY ElementsAssumption DEF ElementsAssumption
  <1>1. Init => SinkIInv BY <1>0, SinkInitIInv DEF Init
  <1>2. SinkIInv /\ [Next]_elementsVars => SinkIInv' BY <1>0, SinkSteps, SinkNextIInv
  <1>3. SinkIInv => SinkHonest BY <1>0, SinkIInvHonest DEF SinkHonest
  <1> QED BY <1>1, <1>2, <1>3, PTL DEF Spec

-----------------------------------------------------------------------------
\* natssrc.

SrcFlags ==
  /\ srcStarted \in BOOLEAN /\ srcRejected \in BOOLEAN /\ ended \in BOOLEAN
  /\ srcCbpc \in {"idle", "report"}
SrcPlaces ==
  /\ subscriber \in {"state", "create", "released"}
  /\ srcPc \in {"idle", "wait", "put_back", "check", "ended"}
SrcCounts ==
  /\ got \in 0..(MaxReceived + 1) /\ received \in 0..MaxReceived
  /\ readErrors \in Nat /\ formatErrors \in Nat /\ srcPermissionErrors \in Nat
SrcFates ==
  /\ buffer \in Seq(Src!Messages) /\ Len(buffer) <= Capacity /\ delivered \in Seq(Src!Messages)
  /\ overflowed \subseteq Src!Messages /\ discarded \subseteq Src!Messages

\* Every token before the current one was cancelled, none after it; create()
\* waits under the current one.
SrcTokens ==
  /\ token \in 0..MaxFlushes /\ mine \in 0..token
  /\ cancelled \subseteq 0..token /\ 0..(token - 1) \subseteq cancelled
  /\ srcPc \in {"wait", "put_back", "check"} => mine = token
  /\ IF srcStarted THEN token \in cancelled => token < MaxFlushes ELSE token \in cancelled

\* Who has the subscriber, and when create() has something in its hands.
SrcHands ==
  /\ srcPc \in {"wait", "put_back"} => subscriber = "create"
  /\ Src!SubscriberNotLeaked
  /\ srcPc \in {"idle", "wait", "ended"} => got = Src!Nothing

\* A sequence of growing numbers.
Rising(s) == \A i, j \in 1..Len(s) : i < j => s[i] < s[j]

\* The message in create()'s hands, if any.
SrcHeld == {got} \intersect Src!Messages

\* Old messages are delivered, newer ones held, the newest wait; and each message
\* is in one place.
SrcOrdered ==
  /\ Rising(delivered) /\ Rising(buffer)
  /\ \A d \in Src!ToSet(delivered), h \in SrcHeld : d < h
  /\ \A d \in Src!ToSet(delivered), b \in Src!ToSet(buffer) : d < b
  /\ \A h \in SrcHeld, b \in Src!ToSet(buffer) : h < b
SrcPlaced ==
  /\ Src!ToSet(delivered) \union Src!ToSet(buffer) \union SrcHeld \union overflowed \union discarded
       = 1..received
  /\ overflowed \intersect discarded = {}
  /\ (overflowed \union discarded)
       \intersect (Src!ToSet(delivered) \union Src!ToSet(buffer) \union SrcHeld) = {}

\* One loss at most for each token, and the current one's has its reason.
SrcFew ==
  /\ srcPc # "ended" => Cardinality(discarded) <= token
  /\ srcPc = "ended" =>
       \/ Cardinality(discarded) <= token
       \/ Cardinality(discarded) <= token + 1 /\ (token \in cancelled \/ srcRejected \/ formatErrors > 0)

SrcTyped == SrcFlags /\ SrcPlaces /\ SrcCounts /\ SrcFates
SrcIInv == SrcTyped /\ SrcTokens /\ SrcHands /\ SrcOrdered /\ SrcPlaced /\ SrcFew
-----------------------------------------------------------------------------
\* What the elements of a sequence are when it grows.
LEMMA SrcElementsGrow ==
  ASSUME NEW S, NEW s \in Seq(S), NEW e \in S
  PROVE  Src!ToSet(Append(s, e)) = Src!ToSet(s) \union {e}
  <1>1. Len(Append(s, e)) = Len(s) + 1 /\ Append(s, e)[Len(s) + 1] = e OBVIOUS
  <1>2. \A i \in 1..Len(s) : Append(s, e)[i] = s[i] OBVIOUS
  <1>3. Append(s, e) \in Seq(S) OBVIOUS
  <1>4. Src!ToSet(s) = {s[i] : i \in 1..Len(s)} BY DEF Src!ToSet
  <1>5. Src!ToSet(Append(s, e)) = {Append(s, e)[i] : i \in 1..(Len(s) + 1)} BY <1>1, <1>3
      DEF Src!ToSet
  <1>6. 1..(Len(s) + 1) = 1..Len(s) \union {Len(s) + 1} OBVIOUS
  <1> QED BY <1>1, <1>2, <1>4, <1>5, <1>6

\* And when its head is taken: the head is the least of a rising sequence.
LEMMA SrcElementsShrink ==
  ASSUME NEW S \in SUBSET Nat, NEW s \in Seq(S), s # <<>>, Rising(s)
  PROVE  /\ Head(s) \in S /\ Tail(s) \in Seq(S) /\ Len(Tail(s)) = Len(s) - 1
         /\ Rising(Tail(s))
         /\ Head(s) \in Src!ToSet(s) /\ Src!ToSet(s) = {Head(s)} \union Src!ToSet(Tail(s))
         /\ \A t \in Src!ToSet(Tail(s)) : Head(s) < t
  <1>1. Len(s) \in Nat \ {0} /\ Head(s) = s[1] /\ Head(s) \in S OBVIOUS
  <1>2. Tail(s) \in Seq(S) /\ Len(Tail(s)) = Len(s) - 1 OBVIOUS
  <1>3. \A i \in 1..(Len(s) - 1) : Tail(s)[i] = s[i + 1] BY <1>1, <1>2
  <1>4. Rising(Tail(s)) BY <1>1, <1>2, <1>3 DEF Rising
  <1>5. Src!ToSet(s) = {s[i] : i \in 1..Len(s)} BY DEF Src!ToSet
  <1>6. Src!ToSet(Tail(s)) = {Tail(s)[i] : i \in 1..(Len(s) - 1)}
    <2>1. DOMAIN Tail(s) = 1..(Len(s) - 1) BY <1>1, <1>2
    <2> QED BY <2>1 DEF Src!ToSet
  <1>7. Head(s) \in Src!ToSet(s) BY <1>1, <1>5
  <1>8. ASSUME NEW t \in Src!ToSet(Tail(s)) PROVE Head(s) < t /\ t \in Src!ToSet(s)
    <2>1. PICK i \in 1..(Len(s) - 1) : t = s[i + 1] BY <1>3, <1>6
    <2>2. 1 \in 1..Len(s) /\ i + 1 \in 1..Len(s) /\ 1 < i + 1 BY <1>1, <2>1
    <2> QED BY <1>1, <1>5, <2>1, <2>2 DEF Rising
  <1>9. ASSUME NEW t \in Src!ToSet(s), t # Head(s) PROVE t \in Src!ToSet(Tail(s))
    <2>1. PICK i \in 1..Len(s) : t = s[i] BY <1>5
    <2>2. i - 1 \in 1..(Len(s) - 1) BY <1>1, <1>9, <2>1
    <2>3. t = Tail(s)[i - 1] BY <1>3, <2>1, <2>2
    <2> QED BY <1>6, <2>2, <2>3
  <1>10. Src!ToSet(s) = {Head(s)} \union Src!ToSet(Tail(s)) BY <1>7, <1>8, <1>9
  <1> QED BY <1>1, <1>2, <1>4, <1>7, <1>8, <1>10

\* A sequence still rises when something greater than all of it follows.
LEMMA SrcStillRising ==
  ASSUME NEW S \in SUBSET Nat, NEW s \in Seq(S), NEW e \in S, Rising(s),
         \A t \in Src!ToSet(s) : t < e
  PROVE  Rising(Append(s, e))
  <1>1. Len(Append(s, e)) = Len(s) + 1 /\ Append(s, e)[Len(s) + 1] = e OBVIOUS
  <1>2. \A i \in 1..Len(s) : Append(s, e)[i] = s[i] OBVIOUS
  <1>3. \A i \in 1..Len(s) : s[i] < e BY DEF Src!ToSet
  <1> QED BY <1>1, <1>2, <1>3 DEF Rising

\* Giving up a message is one more loss.
LEMMA SrcOneMore ==
  ASSUME Src!NatsSrcAssumption, SrcFates
  PROVE  /\ IsFiniteSet(discarded) /\ Cardinality(discarded) \in Nat
         /\ \A m \in Src!Messages : Cardinality(discarded \union {m}) \in Nat
              /\ Cardinality(discarded \union {m}) <= Cardinality(discarded) + 1
  <1>1. IsFiniteSet(Src!Messages) BY FS_Interval DEF Src!Messages, Src!NatsSrcAssumption
  <1>2. IsFiniteSet(discarded) BY <1>1, FS_Subset DEF SrcFates
  <1>3. Cardinality(discarded) \in Nat BY <1>2, FS_CardinalityType
  <1>4. ASSUME NEW m \in Src!Messages
        PROVE  Cardinality(discarded \union {m}) \in Nat
               /\ Cardinality(discarded \union {m}) <= Cardinality(discarded) + 1
    <2>1. Cardinality(discarded \union {m}) =
            IF m \in discarded THEN Cardinality(discarded) ELSE Cardinality(discarded) + 1
      BY <1>2, FS_AddElement
    <2> QED BY <1>3, <2>1
  <1> QED BY <1>2, <1>3, <1>4

\* One token was cancelled for each before the current one, which may be.
LEMMA SrcTokensCounted ==
  ASSUME Src!NatsSrcAssumption, SrcTokens
  PROVE  /\ Cardinality(cancelled) \in Nat
         /\ Cardinality(cancelled) = IF token \in cancelled THEN token + 1 ELSE token
  <1>1. CASE token \in cancelled
    <2>1. cancelled = 0..token
      <3>1. ASSUME NEW t \in 0..token PROVE t \in 0..(token - 1) \/ t = token
        BY DEF Src!NatsSrcAssumption, SrcTokens
      <3> QED BY <1>1, <3>1 DEF SrcTokens
    <2>2. Cardinality(0..token) = token + 1 BY FS_Interval DEF Src!NatsSrcAssumption, SrcTokens
    <2> QED BY <1>1, <2>1, <2>2 DEF SrcTokens
  <1>2. CASE token \notin cancelled
    <2>1. cancelled = 0..(token - 1)
      <3>1. ASSUME NEW t \in 0..token, t # token PROVE t \in 0..(token - 1)
        BY <3>1 DEF Src!NatsSrcAssumption, SrcTokens
      <3>2. ASSUME NEW t \in cancelled PROVE t \in 0..(token - 1) BY <1>2, <3>1 DEF SrcTokens
      <3> QED BY <3>2 DEF SrcTokens
    <2>2. Cardinality(0..(token - 1)) = token BY FS_Interval DEF Src!NatsSrcAssumption, SrcTokens
    <2> QED BY <1>2, <2>1, <2>2 DEF SrcTokens
  <1> QED BY <1>1, <1>2

\* Flags stay Boolean.
LEMMA SrcFlagsStep ==
  ASSUME Src!NatsSrcAssumption, SrcIInv, [Src!Next]_(Src!vars)
  PROVE  SrcFlags'
  <1> USE DEF SrcIInv, SrcTyped, SrcFlags, Src!stateVars, Src!createVars, Src!clientVars,
      Src!fateVars
  <1>1. CASE Src!CreateBegin BY <1>1 DEF Src!CreateBegin
  <1>2. CASE Src!CreateWait BY <1>2 DEF Src!CreateWait
  <1>3. CASE Src!CreatePutBack BY <1>3 DEF Src!CreatePutBack, Src!GivenUp
  <1>4. CASE Src!CreateCheck BY <1>4 DEF Src!CreateCheck, Src!GivenUp, Src!Interrupted
  <1>5. CASE Src!Unlock BY <1>5 DEF Src!Unlock
  <1>6. CASE Src!UnlockStop BY <1>6 DEF Src!UnlockStop, Src!NextToken
  <1>7. CASE Src!Stop BY <1>7 DEF Src!Stop
  <1>8. CASE Src!Receive BY <1>8 DEF Src!Receive, Src!Room
  <1>9. CASE Src!Close BY <1>9 DEF Src!Close
  <1>10. CASE Src!CallbackReject BY <1>10 DEF Src!CallbackReject
  <1>11. CASE Src!CallbackReport BY <1>11 DEF Src!CallbackReport
  <1>12. CASE UNCHANGED Src!vars BY <1>12 DEF Src!vars
  <1> QED
    BY <1>1, <1>2, <1>3, <1>4, <1>5, <1>6, <1>7, <1>8, <1>9, <1>10, <1>11, <1>12 DEF
    Src!Next, Src!Create, Src!Client

\* Everybody stays at one of its places.
LEMMA SrcPlacesStep ==
  ASSUME Src!NatsSrcAssumption, SrcIInv, [Src!Next]_(Src!vars)
  PROVE  SrcPlaces'
  <1> USE DEF SrcIInv, SrcTyped, SrcPlaces, Src!stateVars, Src!createVars, Src!clientVars,
      Src!fateVars
  <1>1. CASE Src!CreateBegin BY <1>1 DEF Src!CreateBegin
  <1>2. CASE Src!CreateWait BY <1>2 DEF Src!CreateWait
  <1>3. CASE Src!CreatePutBack BY <1>3 DEF Src!CreatePutBack, Src!GivenUp
  <1>4. CASE Src!CreateCheck BY <1>4 DEF Src!CreateCheck, Src!GivenUp, Src!Interrupted
  <1>5. CASE Src!Unlock BY <1>5 DEF Src!Unlock
  <1>6. CASE Src!UnlockStop BY <1>6 DEF Src!UnlockStop, Src!NextToken
  <1>7. CASE Src!Stop BY <1>7 DEF Src!Stop
  <1>8. CASE Src!Receive BY <1>8 DEF Src!Receive, Src!Room
  <1>9. CASE Src!Close BY <1>9 DEF Src!Close
  <1>10. CASE Src!CallbackReject BY <1>10 DEF Src!CallbackReject
  <1>11. CASE Src!CallbackReport BY <1>11 DEF Src!CallbackReport
  <1>12. CASE UNCHANGED Src!vars BY <1>12 DEF Src!vars
  <1> QED
    BY <1>1, <1>2, <1>3, <1>4, <1>5, <1>6, <1>7, <1>8, <1>9, <1>10, <1>11, <1>12 DEF
    Src!Next, Src!Create, Src!Client

\* Counters count up, and what is held has a number.
LEMMA SrcCountsStep ==
  ASSUME Src!NatsSrcAssumption, SrcIInv, [Src!Next]_(Src!vars)
  PROVE  SrcCounts'
  <1> USE DEF Src!NatsSrcAssumption, SrcIInv, SrcTyped, SrcCounts, SrcFates, Src!Nothing, Src!End,
      Src!Messages,
    Src!stateVars, Src!createVars, Src!clientVars, Src!fateVars
  <1>1. CASE Src!CreateBegin BY <1>1 DEF Src!CreateBegin
  <1>2. CASE Src!CreateWait
    <2>1. Head(buffer) \in Src!Messages \/ buffer = <<>> OBVIOUS
    <2> QED BY <1>2, <2>1 DEF Src!CreateWait
  <1>3. CASE Src!CreatePutBack BY <1>3 DEF Src!CreatePutBack, Src!GivenUp
  <1>4. CASE Src!CreateCheck BY <1>4 DEF Src!CreateCheck, Src!GivenUp, Src!Interrupted
  <1>5. CASE Src!Unlock BY <1>5 DEF Src!Unlock
  <1>6. CASE Src!UnlockStop BY <1>6 DEF Src!UnlockStop, Src!NextToken
  <1>7. CASE Src!Stop BY <1>7 DEF Src!Stop
  <1>8. CASE Src!Receive BY <1>8 DEF Src!Receive, Src!Room
  <1>9. CASE Src!Close BY <1>9 DEF Src!Close
  <1>10. CASE Src!CallbackReject BY <1>10 DEF Src!CallbackReject
  <1>11. CASE Src!CallbackReport BY <1>11 DEF Src!CallbackReport
  <1>12. CASE UNCHANGED Src!vars BY <1>12 DEF Src!vars
  <1> QED
    BY <1>1, <1>2, <1>3, <1>4, <1>5, <1>6, <1>7, <1>8, <1>9, <1>10, <1>11, <1>12 DEF
    Src!Next, Src!Create, Src!Client

\* The buffer stays within its capacity.
LEMMA SrcFatesStep ==
  ASSUME Src!NatsSrcAssumption, SrcIInv, [Src!Next]_(Src!vars)
  PROVE  SrcFates'
  <1> USE DEF Src!NatsSrcAssumption, SrcIInv, SrcTyped, SrcCounts, SrcFates, Src!stateVars,
      Src!createVars,
    Src!clientVars, Src!fateVars
  <1>1. CASE Src!CreateBegin BY <1>1 DEF Src!CreateBegin
  <1>2. CASE Src!CreateWait
    <2>1. buffer # <<>>
        => Tail(buffer) \in Seq(Src!Messages) /\ Len(Tail(buffer)) = Len(buffer) - 1 OBVIOUS
    <2> QED BY <1>2, <2>1 DEF Src!CreateWait
  <1>3. CASE Src!CreatePutBack BY <1>3 DEF Src!CreatePutBack, Src!GivenUp
  <1>4. CASE Src!CreateCheck
    <2>1. got # Src!Nothing /\ got # Src!End => got \in Src!Messages BY DEF Src!Nothing, Src!End,
        Src!Messages
    <2>2. discarded' \subseteq Src!Messages BY <1>4 DEF Src!CreateCheck, Src!GivenUp
    <2>3. CASE UNCHANGED delivered BY <1>4, <2>2, <2>3 DEF Src!CreateCheck
    <2>4. CASE got \in Src!Messages /\ delivered' = Append(delivered, got)
      <3>1. delivered' \in Seq(Src!Messages) BY <2>4
      <3> QED BY <1>4, <2>2, <3>1 DEF Src!CreateCheck
    <2> QED BY <1>4, <2>1, <2>3, <2>4 DEF Src!CreateCheck, Src!Interrupted
  <1>5. CASE Src!Unlock BY <1>5 DEF Src!Unlock
  <1>6. CASE Src!UnlockStop BY <1>6 DEF Src!UnlockStop, Src!NextToken
  <1>7. CASE Src!Stop BY <1>7 DEF Src!Stop
  <1>8. CASE Src!Receive
    <2>1. received + 1 \in Src!Messages BY <1>8 DEF Src!Receive, Src!Messages
    <2>2. CASE Src!Room
      <3>1. Append(buffer, received + 1) \in Seq(Src!Messages) /\ Len(Append(buffer,
          received + 1)) = Len(buffer) + 1
        BY <2>1
      <3> QED BY <1>8, <2>2, <3>1 DEF Src!Receive, Src!Room
    <2>3. CASE ~Src!Room BY <1>8, <2>1, <2>3 DEF Src!Receive
    <2> QED BY <2>2, <2>3
  <1>9. CASE Src!Close BY <1>9 DEF Src!Close
  <1>10. CASE Src!CallbackReject BY <1>10 DEF Src!CallbackReject
  <1>11. CASE Src!CallbackReport BY <1>11 DEF Src!CallbackReport
  <1>12. CASE UNCHANGED Src!vars BY <1>12 DEF Src!vars
  <1> QED
    BY <1>1, <1>2, <1>3, <1>4, <1>5, <1>6, <1>7, <1>8, <1>9, <1>10, <1>11, <1>12 DEF
    Src!Next, Src!Create, Src!Client

\* A token is new only when the one before it is cancelled and create() is out.
LEMMA SrcTokensStep ==
  ASSUME Src!NatsSrcAssumption, SrcIInv, [Src!Next]_(Src!vars)
  PROVE  SrcTokens'
  <1> USE DEF Src!NatsSrcAssumption, SrcIInv, SrcTyped, SrcFlags, SrcPlaces, SrcTokens,
      Src!stateVars,
    Src!createVars, Src!clientVars, Src!fateVars
  <1>1. CASE Src!CreateBegin BY <1>1 DEF Src!CreateBegin
  <1>2. CASE Src!CreateWait BY <1>2 DEF Src!CreateWait
  <1>3. CASE Src!CreatePutBack BY <1>3 DEF Src!CreatePutBack, Src!GivenUp
  <1>4. CASE Src!CreateCheck BY <1>4 DEF Src!CreateCheck, Src!GivenUp, Src!Interrupted
  <1>5. CASE Src!Unlock BY <1>5 DEF Src!Unlock
  <1>6. CASE Src!UnlockStop
    <2>1. \A t \in 0..token : t \in 0..(token - 1) \/ t = token OBVIOUS
    <2>2. token' = token + 1 /\ token + 1 \in 0..MaxFlushes /\ token + 1 \notin cancelled
      BY <1>6 DEF Src!UnlockStop, Src!NextToken
    <2>3. 0..(token' - 1) \subseteq cancelled BY <1>6, <2>1, <2>2 DEF Src!UnlockStop
    <2> QED BY <1>6, <2>2, <2>3 DEF Src!UnlockStop
  <1>7. CASE Src!Stop BY <1>7 DEF Src!Stop
  <1>8. CASE Src!Receive BY <1>8 DEF Src!Receive, Src!Room
  <1>9. CASE Src!Close BY <1>9 DEF Src!Close
  <1>10. CASE Src!CallbackReject BY <1>10 DEF Src!CallbackReject
  <1>11. CASE Src!CallbackReport BY <1>11 DEF Src!CallbackReport
  <1>12. CASE UNCHANGED Src!vars BY <1>12 DEF Src!vars
  <1> QED
    BY <1>1, <1>2, <1>3, <1>4, <1>5, <1>6, <1>7, <1>8, <1>9, <1>10, <1>11, <1>12 DEF
    Src!Next, Src!Create, Src!Client

\* Whoever takes the subscriber puts it back or gives it up.
LEMMA SrcHandsStep ==
  ASSUME Src!NatsSrcAssumption, SrcIInv, [Src!Next]_(Src!vars)
  PROVE  SrcHands'
  <1> USE DEF SrcIInv, SrcTyped, SrcFlags, SrcPlaces, SrcTokens, SrcHands,
      Src!SubscriberNotLeaked, Src!stateVars,
    Src!createVars, Src!clientVars, Src!fateVars
  <1>1. CASE Src!CreateBegin BY <1>1 DEF Src!CreateBegin
  <1>2. CASE Src!CreateWait BY <1>2 DEF Src!CreateWait
  <1>3. CASE Src!CreatePutBack BY <1>3 DEF Src!CreatePutBack, Src!GivenUp
  <1>4. CASE Src!CreateCheck BY <1>4 DEF Src!CreateCheck, Src!GivenUp, Src!Interrupted
  <1>5. CASE Src!Unlock BY <1>5 DEF Src!Unlock
  <1>6. CASE Src!UnlockStop BY <1>6 DEF Src!UnlockStop, Src!NextToken
  <1>7. CASE Src!Stop BY <1>7 DEF Src!Stop
  <1>8. CASE Src!Receive BY <1>8 DEF Src!Receive, Src!Room
  <1>9. CASE Src!Close BY <1>9 DEF Src!Close
  <1>10. CASE Src!CallbackReject BY <1>10 DEF Src!CallbackReject
  <1>11. CASE Src!CallbackReport BY <1>11 DEF Src!CallbackReport
  <1>12. CASE UNCHANGED Src!vars BY <1>12 DEF Src!vars
  <1> QED
    BY <1>1, <1>2, <1>3, <1>4, <1>5, <1>6, <1>7, <1>8, <1>9, <1>10, <1>11, <1>12 DEF
    Src!Next, Src!Create, Src!Client

\* What create() holds, and what it gives up.
LEMMA SrcHeldIs ==
  /\ SrcHeld = IF got \in Src!Messages THEN {got} ELSE {}
  /\ Src!GivenUp(got) = discarded \union SrcHeld
  BY DEF SrcHeld, Src!GivenUp

\* What the three steps that move a held message do to it.
LEMMA SrcWaitMoves ==
  ASSUME Src!NatsSrcAssumption, SrcIInv, Src!CreateWait
  PROVE  /\ SrcHeld = {} /\ UNCHANGED <<delivered, overflowed, discarded, received>>
         /\ \/ SrcHeld' = {} /\ UNCHANGED buffer
            \/ /\ buffer # <<>> /\ Head(buffer) \in Src!Messages
               /\ SrcHeld' = {Head(buffer)} /\ buffer' = Tail(buffer)
  <1> USE DEF SrcIInv, SrcTyped, SrcFates, Src!CreateWait, Src!fateVars
  <1>1. Src!Nothing \notin Src!Messages /\ Src!End \notin Src!Messages BY
      DEF Src!NatsSrcAssumption, Src!Nothing, Src!End, Src!Messages
  <1>2. SrcHeld = {} BY <1>1 DEF SrcHands, SrcHeld
  <1>3. buffer # <<>> => Head(buffer) \in Src!Messages OBVIOUS
  <1>4. CASE got' \in {Src!Nothing, Src!End} /\ UNCHANGED buffer BY <1>1, <1>2, <1>4 DEF SrcHeld,
      Src!Messages
  <1>5. CASE buffer # <<>> /\ got' = Head(buffer) /\ buffer' = Tail(buffer)
    BY <1>2, <1>3, <1>5 DEF SrcHeld, Src!Messages
  <1> QED BY <1>4, <1>5

\* A late stop() gives up what is held.
LEMMA SrcPutBackMoves ==
  ASSUME Src!NatsSrcAssumption, Src!CreatePutBack
  PROVE  /\ UNCHANGED <<delivered, buffer, overflowed, received>>
         /\ \/ UNCHANGED <<got, discarded>>
            \/ SrcHeld' = {} /\ discarded' = discarded \union SrcHeld
  <1>1. Src!Nothing \notin Src!Messages BY DEF Src!Nothing, Src!Messages
  <1> QED BY <1>1, SrcHeldIs DEF Src!CreatePutBack, SrcHeld, Src!Messages, Src!clientVars

\* What was held is delivered or given up.
LEMMA SrcCheckMoves ==
  ASSUME Src!NatsSrcAssumption, SrcIInv, Src!CreateCheck
  PROVE  /\ SrcHeld' = {} /\ UNCHANGED <<buffer, overflowed, received>>
         /\ \/ UNCHANGED delivered /\ discarded' = discarded \union SrcHeld
            \/ /\ got \in Src!Messages /\ SrcHeld = {got}
               /\ delivered' = Append(delivered, got) /\ UNCHANGED discarded
  <1> USE DEF Src!CreateCheck, Src!clientVars
  <1>1. Src!Nothing \notin Src!Messages /\ Src!End \notin Src!Messages BY
      DEF Src!NatsSrcAssumption, Src!Nothing, Src!End, Src!Messages
  <1>2. SrcHeld' = {} BY <1>1 DEF SrcHeld, Src!Messages
  <1>3. got # Src!Nothing /\ got # Src!End => got \in Src!Messages
    BY DEF SrcIInv, SrcTyped, SrcCounts, Src!Nothing, Src!End, Src!Messages, Src!NatsSrcAssumption
  <1>4. CASE discarded' = Src!GivenUp(got) /\ UNCHANGED delivered BY <1>2, <1>4, SrcHeldIs
  <1>5. CASE got = Src!End /\ UNCHANGED <<delivered, discarded>> BY <1>1, <1>2, <1>5, SrcHeldIs
  <1>6. CASE got # Src!Nothing /\ got # Src!End /\ delivered' = Append(delivered, got)
           /\ UNCHANGED discarded
    BY <1>2, <1>3, <1>6, SrcHeldIs
  <1> QED BY <1>4, <1>5, <1>6 DEF Src!Interrupted

\* The message that comes is the newest.
LEMMA SrcReceiveMoves ==
  ASSUME Src!NatsSrcAssumption, SrcIInv, Src!Receive
  PROVE  /\ UNCHANGED <<delivered, discarded, got>> /\ received' = received + 1
         /\ received + 1 \in Src!Messages
         /\ \/ /\ buffer' = Append(buffer, received + 1) /\ UNCHANGED overflowed
               /\ Src!ToSet(buffer') = Src!ToSet(buffer) \union {received + 1}
            \/ overflowed' = overflowed \union {received + 1} /\ UNCHANGED buffer
  <1>1. received + 1 \in Src!Messages BY DEF Src!NatsSrcAssumption, Src!Receive, SrcIInv,
      SrcTyped, SrcCounts, Src!Messages
  <1>2. Src!ToSet(Append(buffer, received + 1)) = Src!ToSet(buffer) \union {received + 1}
    BY <1>1, SrcElementsGrow DEF SrcIInv, SrcTyped, SrcFates
  <1> QED BY <1>1, <1>2 DEF Src!Receive, Src!createVars, Src!fateVars

\* Messages pass through create() in the order in which they came.
LEMMA SrcOrderedStep ==
  ASSUME Src!NatsSrcAssumption, SrcIInv, [Src!Next]_(Src!vars)
  PROVE  SrcOrdered'
  <1> USE DEF SrcIInv, SrcTyped, SrcFates, SrcOrdered, SrcHeld, Src!stateVars, Src!createVars,
      Src!clientVars,
    Src!fateVars
  <1>1. CASE Src!CreateBegin BY <1>1 DEF Src!CreateBegin
  <1>2. CASE Src!CreateWait
    <2>1. CASE SrcHeld' = {} /\ UNCHANGED <<delivered, buffer>> BY <2>1
    <2>2. CASE buffer # <<>> /\ SrcHeld' = {Head(buffer)} /\ buffer' = Tail(buffer) /\ UNCHANGED delivered
      <3>1. Src!Messages \in SUBSET Nat BY DEF Src!Messages
      <3>2. /\ Rising(Tail(buffer)) /\ Head(buffer) \in Src!ToSet(buffer)
            /\ Src!ToSet(Tail(buffer)) \subseteq Src!ToSet(buffer)
            /\ \A t \in Src!ToSet(Tail(buffer)) : Head(buffer) < t
        BY <2>2, <3>1, SrcElementsShrink
      <3> HIDE DEF SrcHeld
      <3> QED BY <2>2, <3>2
    <2> QED BY <1>2, <2>1, <2>2, SrcWaitMoves
  <1>3. CASE Src!CreatePutBack
    <2> HIDE DEF SrcHeld
    <2>1. CASE SrcHeld' = {} /\ UNCHANGED <<delivered, buffer>> BY <2>1
    <2>2. CASE UNCHANGED <<got, delivered, buffer>> BY <2>2 DEF SrcHeld, Src!Messages
    <2> QED BY <1>3, <2>1, <2>2, SrcPutBackMoves
  <1>4. CASE Src!CreateCheck
    <2> HIDE DEF SrcHeld
    <2>1. CASE SrcHeld' = {} /\ UNCHANGED <<delivered, buffer>> BY <2>1
    <2>2. CASE /\ SrcHeld' = {} /\ UNCHANGED buffer /\ got \in Src!Messages /\ SrcHeld = {got}
               /\ delivered' = Append(delivered, got)
      <3>1. Src!Messages \in SUBSET Nat BY DEF Src!Messages
      <3>2. Rising(Append(delivered, got)) BY <2>2, <3>1, SrcStillRising
      <3>3. Src!ToSet(Append(delivered, got)) = Src!ToSet(delivered) \union {got} BY <2>2,
          SrcElementsGrow
      <3> QED BY <2>2, <3>2, <3>3
    <2> QED BY <1>4, <2>1, <2>2, SrcCheckMoves
  <1>5. CASE Src!Unlock BY <1>5 DEF Src!Unlock
  <1>6. CASE Src!UnlockStop BY <1>6 DEF Src!UnlockStop, Src!NextToken
  <1>7. CASE Src!Stop BY <1>7 DEF Src!Stop
  <1>8. CASE Src!Receive
    <2> HIDE DEF SrcHeld
    <2>1. SrcHeld' = SrcHeld /\ received + 1 \in Src!Messages BY <1>8, SrcReceiveMoves
        DEF SrcHeld, Src!Messages
    <2>2. CASE UNCHANGED <<delivered, buffer>> BY <2>1, <2>2
    <2>3. CASE /\ UNCHANGED delivered /\ buffer' = Append(buffer, received + 1)
               /\ Src!ToSet(buffer') = Src!ToSet(buffer) \union {received + 1}
      <3>1. Src!Messages \in SUBSET Nat BY DEF Src!Messages
      <3>2. \A m \in Src!ToSet(delivered) \union Src!ToSet(buffer) \union SrcHeld : m < received + 1
        BY DEF SrcPlaced, SrcCounts
      <3>3. Rising(Append(buffer, received + 1)) BY <2>1, <3>1, <3>2, SrcStillRising
      <3> QED BY <2>1, <2>3, <3>2, <3>3
    <2> QED BY <1>8, <2>2, <2>3, SrcReceiveMoves
  <1>9. CASE Src!Close BY <1>9 DEF Src!Close
  <1>10. CASE Src!CallbackReject BY <1>10 DEF Src!CallbackReject
  <1>11. CASE Src!CallbackReport BY <1>11 DEF Src!CallbackReport
  <1>12. CASE UNCHANGED Src!vars BY <1>12 DEF Src!vars
  <1> QED
    BY <1>1, <1>2, <1>3, <1>4, <1>5, <1>6, <1>7, <1>8, <1>9, <1>10, <1>11, <1>12 DEF
    Src!Next, Src!Create, Src!Client

\* What is held is neither delivered nor waiting.
LEMMA SrcHeldApart ==
  ASSUME SrcIInv
  PROVE  SrcHeld \intersect (Src!ToSet(delivered) \union Src!ToSet(buffer)) = {}
  <1>1. ASSUME NEW h \in SrcHeld PROVE h \notin Src!ToSet(delivered) /\ h \notin Src!ToSet(buffer)
    <2>1. h \in Nat BY DEF SrcHeld, Src!Messages
    <2>2. ~(h < h) BY <2>1
    <2> QED BY <2>2 DEF SrcIInv, SrcOrdered
  <1> QED BY <1>1

\* A message moves from one place to another, and a new one to one.
LEMMA SrcPlacedStep ==
  ASSUME Src!NatsSrcAssumption, SrcIInv, [Src!Next]_(Src!vars)
  PROVE  SrcPlaced'
  <1> USE DEF SrcIInv, SrcTyped, SrcFates, SrcPlaced, SrcHeld, Src!stateVars, Src!createVars,
      Src!clientVars,
    Src!fateVars
  <1>1. CASE Src!CreateBegin BY <1>1 DEF Src!CreateBegin
  <1>2. CASE Src!CreateWait
    <2> HIDE DEF SrcHeld
    <2>1. CASE /\ SrcHeld = {} /\ SrcHeld' = {}
               /\ UNCHANGED <<delivered, buffer, overflowed, discarded, received>>
      BY <2>1
    <2>2. CASE /\ SrcHeld = {} /\ buffer # <<>> /\ SrcHeld' = {Head(buffer)} /\ buffer' = Tail(buffer)
               /\ UNCHANGED <<delivered, overflowed, discarded, received>>
      <3>1. Src!Messages \in SUBSET Nat BY DEF Src!Messages
      <3>2. Src!ToSet(buffer) = {Head(buffer)} \union Src!ToSet(Tail(buffer))
        BY <2>2, <3>1, SrcElementsShrink DEF SrcOrdered
      <3> QED BY <2>2, <3>2
    <2> QED BY <1>2, <2>1, <2>2, SrcWaitMoves
  <1>3. CASE Src!CreatePutBack
    <2> HIDE DEF SrcHeld
    <2>1. CASE /\ SrcHeld' = {} /\ discarded' = discarded \union SrcHeld
               /\ UNCHANGED <<delivered, buffer, overflowed, received>>
      <3>1. SrcHeld \intersect (Src!ToSet(delivered) \union Src!ToSet(buffer)) = {}
        BY SrcHeldApart
      <3> QED BY <2>1, <3>1
    <2>2. CASE UNCHANGED <<got, delivered, buffer, overflowed, discarded, received>> BY <2>2
        DEF SrcHeld, Src!Messages
    <2> QED BY <1>3, <2>1, <2>2, SrcPutBackMoves
  <1>4. CASE Src!CreateCheck
    <2> HIDE DEF SrcHeld
    <2>0. SrcHeld \intersect (Src!ToSet(delivered) \union Src!ToSet(buffer)) = {} BY SrcHeldApart
    <2>1. CASE /\ SrcHeld' = {} /\ discarded' = discarded \union SrcHeld
               /\ UNCHANGED <<delivered, buffer, overflowed, received>>
      BY <2>0, <2>1
    <2>2. CASE /\ SrcHeld' = {} /\ UNCHANGED <<buffer, overflowed, discarded, received>>
               /\ got \in Src!Messages /\ SrcHeld = {got} /\ delivered' = Append(delivered, got)
      <3>1. Src!ToSet(Append(delivered, got)) = Src!ToSet(delivered) \union {got} BY <2>2,
          SrcElementsGrow
      <3> QED BY <2>0, <2>2, <3>1
    <2> QED BY <1>4, <2>1, <2>2, SrcCheckMoves
  <1>5. CASE Src!Unlock BY <1>5 DEF Src!Unlock
  <1>6. CASE Src!UnlockStop BY <1>6 DEF Src!UnlockStop, Src!NextToken
  <1>7. CASE Src!Stop BY <1>7 DEF Src!Stop
  <1>8. CASE Src!Receive
    <2> HIDE DEF SrcHeld
    <2>1. SrcHeld' = SrcHeld BY <1>8, SrcReceiveMoves DEF SrcHeld, Src!Messages
    <2>2. received + 1 \notin 1..received /\ 1..(received + 1) = 1..received \union {received + 1}
      BY DEF SrcCounts
    <2> QED BY <1>8, <2>1, <2>2, SrcReceiveMoves
  <1>9. CASE Src!Close BY <1>9 DEF Src!Close
  <1>10. CASE Src!CallbackReject BY <1>10 DEF Src!CallbackReject
  <1>11. CASE Src!CallbackReport BY <1>11 DEF Src!CallbackReport
  <1>12. CASE UNCHANGED Src!vars BY <1>12 DEF Src!vars
  <1> QED
    BY <1>1, <1>2, <1>3, <1>4, <1>5, <1>6, <1>7, <1>8, <1>9, <1>10, <1>11, <1>12 DEF
    Src!Next, Src!Create, Src!Client

\* A loss is the last thing that create() does under its token.
LEMMA SrcFewStep ==
  ASSUME Src!NatsSrcAssumption, SrcIInv, [Src!Next]_(Src!vars)
  PROVE  SrcFew'
  <1> USE DEF Src!NatsSrcAssumption, SrcIInv, SrcTyped, SrcFlags, SrcPlaces, SrcCounts, SrcTokens,
      SrcFew,
    Src!stateVars, Src!createVars, Src!clientVars, Src!fateVars
  <1>1. CASE Src!CreateBegin BY <1>1 DEF Src!CreateBegin
  <1>2. CASE Src!CreateWait
    BY <1>2 DEF Src!CreateWait
  <1>3. CASE Src!CreatePutBack
    <2>1. \/ discarded' = discarded
          \/ got \in Src!Messages /\ discarded' = discarded \union {got} /\ ~srcStarted
      BY <1>3 DEF Src!CreatePutBack, Src!GivenUp
    <2>2. Cardinality(discarded) <= token BY <1>3 DEF Src!CreatePutBack
    <2>3. Cardinality(discarded') \in Nat /\ Cardinality(discarded') <= token + 1 BY <2>1, <2>2,
        SrcOneMore
    <2>4. ~srcStarted => srcPc' = "ended" /\ token \in cancelled BY <1>3 DEF Src!CreatePutBack
    <2>5. UNCHANGED <<token, cancelled, srcRejected, formatErrors>> BY <1>3 DEF Src!CreatePutBack
    <2>6. srcStarted => discarded' = discarded BY <1>3 DEF Src!CreatePutBack
    <2> QED BY <2>2, <2>3, <2>4, <2>5, <2>6
  <1>4. CASE Src!CreateCheck
    <2>1. Cardinality(discarded) \in Nat /\ Cardinality(discarded) <= token BY <1>4,
        SrcOneMore DEF Src!CreateCheck
    <2>2. UNCHANGED <<token, cancelled, srcRejected>> /\ mine = token BY <1>4 DEF Src!CreateCheck
    <2>3. CASE UNCHANGED discarded /\ srcPc' \in {"ended", "idle"} BY <2>1, <2>2, <2>3
    <2>4. CASE /\ discarded' = Src!GivenUp(got) /\ srcPc' = "ended" /\ got # Src!Nothing
               /\ token \in cancelled \/ srcRejected \/ formatErrors' > 0
      <3>1. Cardinality(discarded') \in Nat /\ Cardinality(discarded') <= token + 1
        BY <2>1, <2>4, SrcOneMore DEF Src!GivenUp
      <3> QED BY <2>2, <2>4, <3>1
    <2>5. CASE got = Src!Nothing /\ Src!Interrupted
      <3>1. Src!GivenUp(got) = discarded BY <2>5 DEF Src!GivenUp, Src!Nothing, Src!Messages
      <3> QED BY <1>4, <2>3, <2>5, <3>1 DEF Src!CreateCheck
    <2>6. CASE got # Src!Nothing /\ Src!Interrupted
      BY <1>4, <2>2, <2>4, <2>6 DEF Src!CreateCheck, Src!Interrupted
    <2>7. CASE ~Src!Interrupted
      <3>1. CASE UNCHANGED discarded BY <1>4, <2>3, <2>7, <3>1 DEF Src!CreateCheck
      <3>2. CASE srcPc' = "ended" /\ discarded' = Src!GivenUp(got) /\ formatErrors' = formatErrors + 1
        BY <2>4, <2>7, <3>2 DEF Src!Interrupted
      <3> QED BY <1>4, <2>7, <3>1, <3>2 DEF Src!CreateCheck
    <2> QED BY <2>5, <2>6, <2>7
  <1>5. CASE Src!Unlock BY <1>5 DEF Src!Unlock
  <1>6. CASE Src!UnlockStop
    BY <1>6, SrcOneMore DEF Src!UnlockStop, Src!NextToken
  <1>7. CASE Src!Stop BY <1>7 DEF Src!Stop
  <1>8. CASE Src!Receive BY <1>8 DEF Src!Receive, Src!Room
  <1>9. CASE Src!Close BY <1>9 DEF Src!Close
  <1>10. CASE Src!CallbackReject BY <1>10 DEF Src!CallbackReject
  <1>11. CASE Src!CallbackReport BY <1>11 DEF Src!CallbackReport
  <1>12. CASE UNCHANGED Src!vars BY <1>12 DEF Src!vars
  <1> QED
    BY <1>1, <1>2, <1>3, <1>4, <1>5, <1>6, <1>7, <1>8, <1>9, <1>10, <1>11, <1>12 DEF
    Src!Next, Src!Create, Src!Client

-----------------------------------------------------------------------------
\* The run begins with the invariant.
LEMMA SrcInitIInv ==
  ASSUME Src!NatsSrcAssumption, Src!Init
  PROVE  SrcIInv
  <1> USE DEF Src!NatsSrcAssumption, Src!Init, Src!Nothing, Src!Messages
  <1>0. SrcFlags /\ SrcPlaces BY DEF SrcFlags, SrcPlaces
  <1>1a. SrcCounts BY DEF SrcCounts
  <1>1b. SrcFates BY DEF SrcFates
  <1>1. SrcTyped BY <1>0, <1>1a, <1>1b DEF SrcTyped
  <1>2. SrcTokens /\ SrcHands BY DEF SrcTokens, SrcHands, Src!SubscriberNotLeaked
  <1>3. Src!ToSet(<<>>) = {} /\ SrcHeld = {} BY DEF Src!ToSet, SrcHeld
  <1>4. SrcOrdered BY <1>3 DEF SrcOrdered, Rising
  <1>5. SrcPlaced BY <1>3 DEF SrcPlaced
  <1>6. Cardinality({}) = 0 BY FS_EmptySet
  <1>7. SrcFew BY <1>6 DEF SrcFew
  <1> QED BY <1>1, <1>2, <1>4, <1>5, <1>7 DEF SrcIInv

\* No step breaks the invariant.
LEMMA SrcNextIInv ==
  ASSUME Src!NatsSrcAssumption, SrcIInv, [Src!Next]_(Src!vars)
  PROVE  SrcIInv'
  BY SrcFlagsStep, SrcPlacesStep, SrcCountsStep, SrcFatesStep, SrcTokensStep, SrcHandsStep,
      SrcOrderedStep, SrcPlacedStep, SrcFewStep
  DEF SrcIInv, SrcTyped

\* The losses have their reasons: as many as tokens, attachments and the
\* rejection account for.
LEMMA SrcLossesHaveReasons ==
  ASSUME Src!NatsSrcAssumption, SrcIInv
  PROVE  Cardinality(discarded) <= Cardinality(cancelled) + formatErrors + (IF srcRejected THEN 1 ELSE 0)
  BY SrcOneMore, SrcTokensCounted DEF SrcIInv, SrcTyped, SrcCounts, SrcFlags, SrcTokens, SrcFew,
      Src!NatsSrcAssumption

\* The invariant says what a reader of the code wants to know.
LEMMA SrcIInvHonest ==
  ASSUME Src!NatsSrcAssumption, SrcIInv
  PROVE  Src!Consistent /\ Src!LossesExplained
  <1> DEFINE parts == <<Src!ToSet(delivered), Src!ToSet(buffer), SrcHeld, overflowed, discarded>>
  <1>1. Src!TypeOK
    BY DEF Src!NatsSrcAssumption, SrcIInv, SrcTyped, SrcFlags, SrcPlaces, SrcCounts, SrcFates,
        SrcTokens, Src!TypeOK
  <1>2. Src!SubscriberNotLeaked BY DEF SrcIInv, SrcHands
  <1>3. \A k \in 2..Len(delivered) : delivered[k - 1] < delivered[k]
    BY DEF SrcIInv, SrcTyped, SrcFates, SrcOrdered, Rising
  <1>4. UNION Src!ToSet(parts) = 1..received
    <2>1. Src!ToSet(parts) = {Src!ToSet(delivered), Src!ToSet(buffer), SrcHeld, overflowed,
        discarded}
      <3>1. DOMAIN parts = 1..5 OBVIOUS
      <3>2. Src!ToSet(parts) = {parts[i] : i \in 1..5} BY <3>1 DEF Src!ToSet
      <3>3. 1..5 = {1, 2, 3, 4, 5} OBVIOUS
      <3>4. {parts[i] : i \in {1, 2, 3, 4, 5}} = {parts[1], parts[2], parts[3], parts[4], parts[5]}
        BY Zenon
      <3> QED BY <3>2, <3>3, <3>4
    <2> QED BY <2>1 DEF SrcIInv, SrcPlaced
  <1>5. \A j, k \in 1..5 : j # k => parts[j] \intersect parts[k] = {}
    <2>1. SrcHeld \intersect (Src!ToSet(delivered) \union Src!ToSet(buffer)) = {} BY SrcHeldApart
    <2>2. Src!ToSet(delivered) \subseteq Nat BY DEF SrcIInv, SrcPlaced
    <2>3. Src!ToSet(delivered) \intersect Src!ToSet(buffer) = {} BY <2>2 DEF SrcIInv, SrcOrdered
    <2>4. parts[1] = Src!ToSet(delivered) /\ parts[2] = Src!ToSet(buffer) /\ parts[3] = SrcHeld
          /\ parts[4] = overflowed /\ parts[5] = discarded
      OBVIOUS
    <2> QED BY <2>1, <2>3, <2>4 DEF SrcIInv, SrcPlaced
  <1>6. Src!LossesExplained
    <2>1. Src!Cardinality(discarded)
            <= Src!Cardinality(cancelled) + formatErrors + (IF srcRejected THEN 1 ELSE 0)
      BY SrcLossesHaveReasons DEF Src!Cardinality, Cardinality
    <2> QED BY <1>3, <1>4, <1>5, <2>1 DEF Src!LossesExplained, SrcHeld
  <1> QED BY <1>1, <1>2, <1>6 DEF Src!Consistent

\* The subscriber is never lost, and every message received is delivered in
\* order, waiting, held, or lost for a reason of its own: for every capacity,
\* any number of messages and flushes, with a stop() that overtakes create().
THEOREM SourceIsHonest ==
  ASSUME Src!NatsSrcAssumption
  PROVE  Src!Spec => [](Src!Consistent /\ Src!LossesExplained)
  <1>1. Src!Init => SrcIInv BY SrcInitIInv
  <1>2. SrcIInv /\ [Src!Next]_(Src!vars) => SrcIInv' BY SrcNextIInv
  <1>3. SrcIInv => Src!Consistent /\ Src!LossesExplained BY SrcIInvHonest
  <1> QED BY <1>1, <1>2, <1>3, PTL DEF Src!Spec

\* Among the elements the source moves by its own steps only.
LEMMA SrcSteps ==
  ASSUME [Next]_elementsVars
  PROVE  [Src!Next]_(Src!vars)
  <1> USE DEF srcVars, Src!vars, Src!stateVars, Src!createVars, Src!clientVars, Src!fateVars
  <1>1. CASE OnlyOf("sink") \/ OnlyOf("ocrs") \/ OnlyOf("console") \/ OnlyOf("chat")
    BY <1>1 DEF OnlyOf
  <1>2. CASE UNCHANGED elementsVars BY <1>2 DEF elementsVars
  <1> QED BY <1>1, <1>2 DEF Next

\* natssrc beside the other elements: the subscriber is never lost, and every
\* message received is delivered in order, waiting, held or lost for a reason,
\* for every value of the constants of all of them.
THEOREM SrcStaysHonest ==
  Spec => []SrcHonest
  <1>0. Src!NatsSrcAssumption BY ElementsAssumption DEF ElementsAssumption
  <1>1. Init => SrcIInv BY <1>0, SrcInitIInv DEF Init
  <1>2. SrcIInv /\ [Next]_elementsVars => SrcIInv' BY <1>0, SrcSteps, SrcNextIInv
  <1>3. SrcIInv => SrcHonest BY <1>0, SrcIInvHonest DEF SrcHonest
  <1> QED BY <1>1, <1>2, <1>3, PTL DEF Spec

-----------------------------------------------------------------------------
\* The OCR element: its instance here takes the steps of the proved one.

OcrsP == INSTANCE OcrsProofs WITH
           queue <- channel, wpc <- ocrsWpc, spc <- ocrsSpc, rejected <- tooLarge

\* The two instances of the OCR element name the same steps.
LEMMA SameOcrsSteps ==
  Ocrs!Next => OcrsP!Next
  <1> USE DEF Ocrs!lifeVars, OcrsP!lifeVars, Ocrs!flagVars, OcrsP!flagVars, Ocrs!workerVars,
    OcrsP!workerVars, Ocrs!sampleVars, OcrsP!sampleVars, Ocrs!tallyVars, OcrsP!tallyVars,
    Ocrs!messageVars, OcrsP!messageVars
  <1>1. Ocrs!Start => OcrsP!Start
    BY DEF Ocrs!Start, OcrsP!Start, Ocrs!Playing, OcrsP!Playing
  <1>2. Ocrs!StartRun => OcrsP!StartRun
    BY DEF Ocrs!StartRun, OcrsP!StartRun, Ocrs!Joined, OcrsP!Joined, Ocrs!ResetRun,
    OcrsP!ResetRun, Ocrs!FreshSampler, OcrsP!FreshSampler, Ocrs!NoCounts, OcrsP!NoCounts
  <1>3. Ocrs!StartFails => OcrsP!StartFails
    BY DEF Ocrs!StartFails, OcrsP!StartFails, Ocrs!Joined, OcrsP!Joined
  <1>4. Ocrs!Stop => OcrsP!Stop
    BY DEF Ocrs!Stop, OcrsP!Stop, Ocrs!Close, OcrsP!Close, Ocrs!Undecided, OcrsP!Undecided
  <1>5. Ocrs!StopJoined => OcrsP!StopJoined
    BY DEF Ocrs!StopJoined, OcrsP!StopJoined, Ocrs!Joined, OcrsP!Joined, Ocrs!FreshSampler,
    OcrsP!FreshSampler
  <1>6. Ocrs!CountSubmitted => OcrsP!CountSubmitted
    BY DEF Ocrs!CountSubmitted, OcrsP!CountSubmitted
  <1>7. Ocrs!ResetGeneration => OcrsP!ResetGeneration
    BY DEF Ocrs!ResetGeneration, OcrsP!ResetGeneration, Ocrs!Playing, OcrsP!Playing,
    Ocrs!FreshSampler, OcrsP!FreshSampler
  <1>8. \A pts \in Ocrs!Pts : Ocrs!FrameSkipped(pts) => OcrsP!FrameSkipped(pts)
    BY DEF Ocrs!FrameSkipped, OcrsP!FrameSkipped, Ocrs!Sample, OcrsP!Sample, Ocrs!Playing,
    OcrsP!Playing, Ocrs!Due, OcrsP!Due, Ocrs!SamplerAfter, OcrsP!SamplerAfter,
    Ocrs!SeenAfter, OcrsP!SeenAfter, Ocrs!Sampled, OcrsP!Sampled, Ocrs!Backward,
    OcrsP!Backward, Ocrs!FreshSampler, OcrsP!FreshSampler
  <1>9. \A pts \in Ocrs!Pts : Ocrs!FrameTooLarge(pts) => OcrsP!FrameTooLarge(pts)
    BY DEF Ocrs!FrameTooLarge, OcrsP!FrameTooLarge, Ocrs!Sample, OcrsP!Sample, Ocrs!Playing,
    OcrsP!Playing, Ocrs!Due, OcrsP!Due, Ocrs!SamplerAfter, OcrsP!SamplerAfter,
    Ocrs!SeenAfter, OcrsP!SeenAfter, Ocrs!Sampled, OcrsP!Sampled, Ocrs!Backward,
    OcrsP!Backward, Ocrs!FreshSampler, OcrsP!FreshSampler
  <1>10. \A pts \in Ocrs!Pts : Ocrs!FrameOffered(pts) => OcrsP!FrameOffered(pts)
    BY DEF Ocrs!FrameOffered, OcrsP!FrameOffered, Ocrs!Sample, OcrsP!Sample, Ocrs!Playing,
    OcrsP!Playing, Ocrs!Due, OcrsP!Due, Ocrs!SamplerAfter, OcrsP!SamplerAfter,
    Ocrs!SeenAfter, OcrsP!SeenAfter, Ocrs!Sampled, OcrsP!Sampled, Ocrs!Backward,
    OcrsP!Backward, Ocrs!FreshSampler, OcrsP!FreshSampler, Ocrs!HasRoom, OcrsP!HasRoom,
    Ocrs!ReportUnavailable, OcrsP!ReportUnavailable
  <1>11. \A r \in Ocrs!Runs : Ocrs!WorkerReceive(r) => OcrsP!WorkerReceive(r)
    BY DEF Ocrs!WorkerReceive, OcrsP!WorkerReceive, Ocrs!Move, OcrsP!Move
  <1>12. \A r \in Ocrs!Runs : Ocrs!WorkerDisconnected(r) => OcrsP!WorkerDisconnected(r)
    BY DEF Ocrs!WorkerDisconnected, OcrsP!WorkerDisconnected, Ocrs!Move, OcrsP!Move
  <1>13. \A r \in Ocrs!Runs : Ocrs!WorkerInfer(r) => OcrsP!WorkerInfer(r)
    BY DEF Ocrs!WorkerInfer, OcrsP!WorkerInfer, Ocrs!Move, OcrsP!Move, Ocrs!Outcomes,
    OcrsP!Outcomes
  <1>14. \A r \in Ocrs!Runs : Ocrs!WorkerAdmit(r) => OcrsP!WorkerAdmit(r)
    BY DEF Ocrs!WorkerAdmit, OcrsP!WorkerAdmit, Ocrs!Move, OcrsP!Move
  <1>15. \A r \in Ocrs!Runs : Ocrs!WorkerOversize(r) => OcrsP!WorkerOversize(r)
    BY DEF Ocrs!WorkerOversize, OcrsP!WorkerOversize, Ocrs!Move, OcrsP!Move
  <1>16. \A r \in Ocrs!Runs : Ocrs!WorkerPost(r) => OcrsP!WorkerPost(r)
    BY DEF Ocrs!WorkerPost, OcrsP!WorkerPost, Ocrs!Move, OcrsP!Move
  <1>17. \A r \in Ocrs!Runs : Ocrs!WorkerNext(r) => OcrsP!WorkerNext(r)
    BY DEF Ocrs!WorkerNext, OcrsP!WorkerNext, Ocrs!Move, OcrsP!Move, Ocrs!AfterPost,
    OcrsP!AfterPost
  <1>18. \A r \in Ocrs!Runs : Ocrs!WorkerPanic(r) => OcrsP!WorkerPanic(r)
    BY DEF Ocrs!WorkerPanic, OcrsP!WorkerPanic, Ocrs!Move, OcrsP!Move
  <1>19. \A r \in Ocrs!Runs : Ocrs!WorkerHalt(r) => OcrsP!WorkerHalt(r)
    BY DEF Ocrs!WorkerHalt, OcrsP!WorkerHalt, Ocrs!Move, OcrsP!Move
  <1>20. \A r \in Ocrs!Runs : Ocrs!StopFromHandler(r) => OcrsP!StopFromHandler(r)
    BY DEF Ocrs!StopFromHandler, OcrsP!StopFromHandler, Ocrs!InHandler, OcrsP!InHandler,
    Ocrs!Close, OcrsP!Close, Ocrs!Undecided, OcrsP!Undecided
  <1>21. \A r \in Ocrs!Runs : Ocrs!HandlerBlocks(r) => OcrsP!HandlerBlocks(r)
    BY DEF Ocrs!HandlerBlocks, OcrsP!HandlerBlocks, Ocrs!InHandler, OcrsP!InHandler, Ocrs!Move,
    OcrsP!Move
  <1> QED
    BY <1>1, <1>2, <1>3, <1>4, <1>5, <1>6, <1>7, <1>8, <1>9, <1>10, <1>11, <1>12, <1>13,
    <1>14, <1>15, <1>16, <1>17, <1>18, <1>19, <1>20, <1>21 DEF Ocrs!Next, OcrsP!Next,
    Ocrs!StartEnds, OcrsP!StartEnds, Ocrs!Stream, OcrsP!Stream, Ocrs!Worker, OcrsP!Worker,
    Ocrs!Runs, OcrsP!Runs, Ocrs!Pts, OcrsP!Pts

\* Among the elements the OCR element moves by its own steps only.
LEMMA OcrsSteps ==
  ASSUME [Next]_elementsVars
  PROVE  [OcrsP!Next]_(OcrsP!vars)
  <1> USE DEF ocrsVars, OcrsP!vars, OcrsP!lifeVars, OcrsP!flagVars, OcrsP!workerVars,
              OcrsP!sampleVars, OcrsP!tallyVars, OcrsP!messageVars
  <1>1. CASE OnlyOf("ocrs") /\ Ocrs!Next BY <1>1, SameOcrsSteps
  <1>2. CASE OnlyOf("sink") \/ OnlyOf("src") \/ OnlyOf("console") \/ OnlyOf("chat")
    BY <1>2 DEF OnlyOf
  <1>3. CASE UNCHANGED elementsVars BY <1>3 DEF elementsVars
  <1> QED BY <1>1, <1>2, <1>3 DEF Next

\* And it begins as it does alone.
LEMMA OcrsBegins ==
  ASSUME Init
  PROVE  OcrsP!Init
  BY DEF Init, Ocrs!Init, OcrsP!Init, Ocrs!Runs, OcrsP!Runs, Ocrs!NoJob, OcrsP!NoJob,
    Ocrs!FreshSampler, OcrsP!FreshSampler, Ocrs!NoCounts, OcrsP!NoCounts

\* The two instances of the OCR element name the same properties.
LEMMA SameOcrsProperties ==
  ASSUME OcrsP!Consistent, OcrsP!PostedInOrder, OcrsP!ClosedMeansSilent
  PROVE  OcrsQuiet
  <1>1. Ocrs!TypeOK
    BY DEF OcrsP!Consistent, Ocrs!TypeOK, OcrsP!TypeOK, Ocrs!Runs, OcrsP!Runs, Ocrs!Pts, OcrsP!Pts,
    Ocrs!Outcomes, OcrsP!Outcomes, Ocrs!Range, OcrsP!Range
  <1>2. Ocrs!OneWorker
    BY DEF OcrsP!Consistent, Ocrs!OneWorker, OcrsP!OneWorker, Ocrs!Runs, OcrsP!Runs,
    Ocrs!Cardinality, OcrsP!Cardinality
  <1>3. Ocrs!PostedInOrder BY DEF Ocrs!PostedInOrder, OcrsP!PostedInOrder
  <1>4. Ocrs!ClosedMeansSilent
    BY DEF Ocrs!ClosedMeansSilent, OcrsP!ClosedMeansSilent, Ocrs!Range, OcrsP!Range
  <1> QED BY <1>1, <1>2, <1>3, <1>4 DEF OcrsQuiet, Ocrs!Consistent

\* ocrsanalysis beside the other elements: one worker is alive at a time, messages
\* keep the order of the requests, and what stop() found undecided is never posted,
\* for every value of the constants of all of them.
THEOREM OcrsStaysQuiet ==
  Spec => []OcrsQuiet
  <1>0. OcrsP!OcrsAssumption
    BY ElementsAssumption DEF ElementsAssumption, Ocrs!OcrsAssumption, OcrsP!OcrsAssumption
  <1>1. Init => OcrsP!IInv BY <1>0, OcrsBegins, OcrsP!InitIInv
  <1>2. OcrsP!IInv /\ [Next]_elementsVars => OcrsP!IInv' BY <1>0, OcrsSteps, OcrsP!NextIInv
  <1>3. OcrsP!IInv => OcrsQuiet BY <1>0, OcrsP!IInvQuiet, SameOcrsProperties
  <1> QED BY <1>1, <1>2, <1>3, PTL DEF Spec

\* The two instances of the OCR element name the same counts.
LEMMA SameOcrsCounts ==
  ASSUME OcrsP!RunAccounted, OcrsP!SampledApart
  PROVE  OcrsAccounted
  <1>1. Ocrs!FramesAccounted
    BY DEF OcrsP!RunAccounted, Ocrs!FramesAccounted, OcrsP!FramesAccounted
  <1>2. Ocrs!FailuresReportedOnce
    BY DEF OcrsP!RunAccounted, Ocrs!FailuresReportedOnce, OcrsP!FailuresReportedOnce, Ocrs!Runs,
    OcrsP!Runs
  <1>3. Ocrs!SampledApart BY DEF Ocrs!SampledApart, OcrsP!SampledApart
  <1> QED BY <1>1, <1>2, <1>3 DEF OcrsAccounted, Ocrs!RunAccounted

\* ocrsanalysis beside the other elements: every frame of a run and every worker
\* that fails is accounted for, and requests of a generation keep their distance,
\* for every value of the constants of all of them.
THEOREM OcrsStaysAccounted ==
  Spec => []OcrsAccounted
  <1>0. OcrsP!OcrsAssumption
    BY ElementsAssumption DEF ElementsAssumption, Ocrs!OcrsAssumption, OcrsP!OcrsAssumption
  <1>1. Init => OcrsP!AInv BY <1>0, OcrsBegins, OcrsP!InitAInv
  <1>2. OcrsP!AInv /\ [Next]_elementsVars => OcrsP!AInv' BY <1>0, OcrsSteps, OcrsP!NextAInv
  <1>3. OcrsP!AInv => OcrsAccounted BY <1>0, OcrsP!AInvAccounted, SameOcrsCounts
  <1> QED BY <1>1, <1>2, <1>3, PTL DEF Spec
-----------------------------------------------------------------------------
(***************************************************************************)
(* The console elements. A stream is cut into turns: each begins where the *)
(* one before it ends and holds as many bytes of its record as were given; *)
(* only the last can be open, and then its element has the lock and the    *)
(* rest of the record.                                                     *)
(***************************************************************************)

Bytes == [by : Console!Printers, byte : Console!Contents]
Writings == [at : {"idle", "waiting", "writing"}, stream : Console!Streams, left : Seq(Bytes)]
Turn == [by : Console!Printers, record : Seq(Bytes), from : Nat, given : Nat,
         result : {"open", "ok", "error"}]
Written(s) == Console!Written(s)

ConsoleTyped ==
  /\ outputs \in [Console!Printers -> [stream : Console!Streams, newline : BOOLEAN]]
  /\ \A e \in Console!Printers : outputs[e].newline => e \in TextElements
  /\ writing \in [Console!Printers -> Writings]
  /\ streamLock \in [Console!Streams -> Console!Printers \union {"none"}]
  /\ buffered \in Seq(Bytes) /\ shown \in [Console!Streams -> Seq(Bytes)]
  /\ turns \in [Console!Streams -> Seq(Turn)]

\* An element writes while it has the lock of its stream.
Locks ==
  \A s \in Console!Streams, e \in Console!Printers :
    streamLock[s] = e <=> writing[e].at = "writing" /\ writing[e].stream = s

\* The content of a record, and where it comes from.
Content(record) == [i \in DOMAIN record |-> record[i].byte]
TrueRecord(e, record) ==
  LET bytes == Content(record)
  IN \/ bytes \in ConsolePayloads
     \/ /\ e \in TextElements /\ Console!EndsLine(bytes)
        /\ Console!Front(bytes) \in ConsolePayloads /\ ~Console!EndsLine(Console!Front(bytes))
OwnRecord(e, record) ==
  (\A i \in 1..Len(record) : record[i].by = e) /\ TrueRecord(e, record)
Owned ==
  /\ \A e \in Console!Printers : writing[e].at = "waiting" => OwnRecord(e, writing[e].left)
  /\ \A s \in Console!Streams : \A t \in 1..Len(turns[s]) :
       OwnRecord(turns[s][t].by, turns[s][t].record)

Open(s) ==
  LET n == Len(turns[s])
      left == writing[streamLock[s]].left
  IN /\ \A t \in 1..n : turns[s][t].result = "open" => t = n /\ streamLock[s] # "none"
     /\ streamLock[s] # "none" =>
          /\ n > 0 /\ turns[s][n].by = streamLock[s] /\ turns[s][n].result = "open"
          /\ turns[s][n].given + Len(left) = Len(turns[s][n].record)
          /\ \A i \in 1..Len(left) : left[i] = turns[s][n].record[turns[s][n].given + i]

\* A turn of stream s.
Piece(s, t) ==
  LET turn == turns[s][t]
  IN /\ turn.given <= Len(turn.record) /\ (turn.result = "ok" => turn.given = Len(turn.record))
     /\ (t = 1 => turn.from = 0) /\ Console!Until(s, t) = turn.from + turn.given
     /\ turn.from + turn.given <= Len(Written(s))
     /\ \A i \in 1..turn.given : Written(s)[turn.from + i] = turn.record[i]
Cut(s) ==
  /\ turns[s] = <<>> => Written(s) = <<>>
  /\ \A t \in 1..Len(turns[s]) : Piece(s, t)

\* After a turn that went well nothing is owed.
Settles(s) ==
  LET n == Len(turns[s])
  IN n > 0 /\ turns[s][n].result = "ok" =>
       Len(shown[s]) >= Len(turns[s][n].record) /\ (s = "stdout" => buffered = <<>>)

Streaming == \A s \in Console!Streams : Open(s) /\ Cut(s) /\ Settles(s)
ConsoleInv == ConsoleTyped /\ Locks /\ Owned /\ Streaming

\* Sequences that grow at their end, and one that is poured into another.
LEMMA GrownAtEnd ==
  ASSUME NEW S, NEW w \in Seq(S), NEW x \in S
  PROVE  /\ Append(w, x) \in Seq(S) /\ Len(Append(w, x)) = Len(w) + 1
         /\ Append(w, x)[Len(w) + 1] = x /\ Append(w, x) # <<>>
         /\ \A i \in 1..Len(w) : Append(w, x)[i] = w[i]
  OBVIOUS

\* Adding to the second piece adds to the two together.
LEMMA GivenToTheRest ==
  ASSUME NEW S, NEW a \in Seq(S), NEW b \in Seq(S), NEW x \in S
  PROVE  a \o Append(b, x) = Append(a \o b, x)
  OBVIOUS

\* Moving the head of the second piece to the first leaves the two together alone.
LEMMA PouredOver ==
  ASSUME NEW S, NEW a \in Seq(S), NEW b \in Seq(S), b # <<>>
  PROVE  Append(a, Head(b)) \o Tail(b) = a \o b
  OBVIOUS

\* A sequence that is not empty is its head and the rest.
LEMMA RestAfterHead ==
  ASSUME NEW S, NEW b \in Seq(S), b # <<>>
  PROVE  /\ Head(b) \in S /\ Tail(b) \in Seq(S) /\ Len(b) \in Nat \ {0} /\ Len(Tail(b)) + 1 = Len(b)
         /\ Head(b) = b[1] /\ \A i \in 1..Len(Tail(b)) : Tail(b)[i] = b[i + 1]
  OBVIOUS

\* Replacing one element leaves the others and the length.
LEMMA OneReplaced ==
  ASSUME NEW S, NEW w \in Seq(S), NEW n \in 1..Len(w), NEW x \in S
  PROVE  /\ [w EXCEPT ![n] = x] \in Seq(S) /\ Len([w EXCEPT ![n] = x]) = Len(w)
         /\ [w EXCEPT ![n] = x][n] = x
         /\ \A i \in 1..Len(w) : i # n => [w EXCEPT ![n] = x][i] = w[i]
  OBVIOUS

\* Two sequences with the same elements are one.
LEMMA SameElements ==
  ASSUME NEW S, NEW a \in Seq(S), NEW b \in Seq(S), Len(a) = Len(b),
         \A i \in 1..Len(a) : a[i] = b[i]
  PROVE  a = b
  OBVIOUS

\* Two pieces make a sequence.
LEMMA TwoPieces ==
  ASSUME NEW S, NEW a \in Seq(S), NEW b \in Seq(S)
  PROVE  a \o b \in Seq(S) /\ Len(a \o b) \in Nat
  OBVIOUS

\* What was written is a sequence of bytes.
LEMMA WrittenIs ==
  ASSUME ConsoleTyped
  PROVE  /\ Written("stdout") = shown["stdout"] \o buffered
         /\ Written("stderr") = shown["stderr"] \o <<>> /\ Written("stderr") = shown["stderr"]
         /\ \A s \in Console!Streams : Written(s) \in Seq(Bytes) /\ Len(Written(s)) \in Nat
  <1>1. Console!Streams = {"stdout", "stderr"} BY DEF Console!Streams
  <1>2. shown["stdout"] \in Seq(Bytes) /\ shown["stderr"] \in Seq(Bytes) /\ buffered \in Seq(Bytes)
    BY <1>1 DEF ConsoleTyped
  <1>3. Written("stdout") = shown["stdout"] \o buffered BY DEF Written, Console!Written
  <1>4. Written("stderr") = shown["stderr"] \o <<>> BY DEF Written, Console!Written
  <1>5. shown["stderr"] \o <<>> = shown["stderr"] BY <1>2
  <1>6. shown["stdout"] \o buffered \in Seq(Bytes)
    <2> DEFINE a == shown["stdout"]
    <2>1. a \in Seq(Bytes) /\ buffered \in Seq(Bytes) BY <1>2
    <2> HIDE DEF a
    <2>2. a \o buffered \in Seq(Bytes) BY <2>1, TwoPieces
    <2> QED BY <2>2 DEF a
  <1>a. \A w \in Seq(Bytes) : Len(w) \in Nat OBVIOUS
  <1>7. Written("stdout") \in Seq(Bytes) /\ Len(Written("stdout")) \in Nat
    <2>1. Written("stdout") \in Seq(Bytes) BY <1>3, <1>6
    <2> QED BY <1>a, <2>1
  <1>8. Written("stderr") \in Seq(Bytes) /\ Len(Written("stderr")) \in Nat
    <2>1. Written("stderr") \in Seq(Bytes) BY <1>2, <1>4, <1>5
    <2> QED BY <1>a, <2>1
  <1> QED BY <1>1, <1>3, <1>4, <1>5, <1>7, <1>8

\* A turn and a write in progress, field by field.
LEMMA TurnIs ==
  ASSUME ConsoleTyped
  PROVE  /\ \A s \in Console!Streams : turns[s] \in Seq(Turn) /\ Len(turns[s]) \in Nat
         /\ \A s \in Console!Streams : \A t \in 1..Len(turns[s]) :
              /\ turns[s][t] \in Turn /\ turns[s][t].by \in Console!Printers
              /\ turns[s][t].record \in Seq(Bytes) /\ turns[s][t].from \in Nat
              /\ turns[s][t].given \in Nat /\ Len(turns[s][t].record) \in Nat
         /\ \A e \in Console!Printers :
              /\ writing[e] \in Writings /\ writing[e].left \in Seq(Bytes) /\ Len(writing[e].left) \in Nat
              /\ writing[e].stream \in Console!Streams
  <1>1. \A s \in Console!Streams : turns[s] \in Seq(Turn) /\ Len(turns[s]) \in Nat BY DEF ConsoleTyped
  <1>2. ASSUME NEW s \in Console!Streams, NEW t \in 1..Len(turns[s])
        PROVE  /\ turns[s][t] \in Turn /\ turns[s][t].by \in Console!Printers
               /\ turns[s][t].record \in Seq(Bytes) /\ turns[s][t].from \in Nat
               /\ turns[s][t].given \in Nat /\ Len(turns[s][t].record) \in Nat
    <2>1. turns[s][t] \in Turn BY <1>1
    <2>2. turns[s][t].record \in Seq(Bytes) BY <2>1 DEF Turn
    <2> QED BY <2>1, <2>2 DEF Turn
  <1>3. ASSUME NEW e \in Console!Printers
        PROVE  /\ writing[e] \in Writings /\ writing[e].left \in Seq(Bytes) /\ Len(writing[e].left) \in Nat
               /\ writing[e].stream \in Console!Streams
    <2>1. writing[e] \in Writings BY DEF ConsoleTyped
    <2>2. writing[e].left \in Seq(Bytes) BY <2>1 DEF Writings
    <2> QED BY <2>1, <2>2 DEF Writings
  <1> QED BY <1>1, <1>2, <1>3

\* A stream on which nothing happens stays as it is.
LEMMA StreamKept ==
  ASSUME ConsoleTyped, NEW s \in Console!Streams, turns'[s] = turns[s], Written(s)' = Written(s),
         streamLock'[s] = streamLock[s],
         streamLock[s] # "none" => writing'[streamLock[s]].left = writing[streamLock[s]].left
  PROVE  (Open(s) => Open(s)') /\ (Cut(s) => Cut(s)')
  <1>1. Open(s) => Open(s)' BY DEF Open
  <1>2. \A t : Piece(s, t) => Piece(s, t)' BY DEF Piece, Console!Until, Written
  <1> QED BY <1>1, <1>2 DEF Cut
-----------------------------------------------------------------------------
\* The record of a payload: bytes of the element, and what the properties make of them.
LEMMA RecordIs ==
  ASSUME ConsoleTyped, Console!ConsoleAssumption, NEW e \in Console!Printers, NEW payload \in ConsolePayloads
  PROVE  LET record == Console!Tagged(e, Console!Record(payload, outputs[e].newline))
         IN record \in Seq(Bytes) /\ OwnRecord(e, record)
  <1> DEFINE bytes == Console!Record(payload, outputs[e].newline)
             record == Console!Tagged(e, bytes)
  <1>1. payload \in Seq(Console!Contents) BY DEF Console!ConsoleAssumption
  <1>2. "newline" \in Console!Contents BY DEF Console!Contents
  <1>3. bytes \in Seq(Console!Contents)
    <2>1. payload \o <<"newline">> \in Seq(Console!Contents) BY <1>1, <1>2
    <2> QED BY <1>1, <2>1 DEF Console!Record
  <1>4. \/ bytes = payload
        \/ bytes = payload \o <<"newline">> /\ outputs[e].newline /\ ~Console!EndsLine(payload)
    BY DEF Console!Record
  <1> HIDE DEF bytes
  <1>5. record = [i \in DOMAIN bytes |-> [by |-> e, byte |-> bytes[i]]] BY DEF Console!Tagged
  <1>6. DOMAIN bytes = 1..Len(bytes) /\ Len(bytes) \in Nat BY <1>3
  <1>7. \A i \in 1..Len(bytes) : [by |-> e, byte |-> bytes[i]] \in Bytes BY <1>3 DEF Bytes
  <1> HIDE DEF record
  <1>8. record \in Seq(Bytes) /\ Len(record) = Len(bytes) /\ DOMAIN record = DOMAIN bytes
    <2>1. record \in [1..Len(bytes) -> Bytes] BY <1>5, <1>6, <1>7
    <2> QED BY <1>6, <2>1
  <1>9. \A i \in 1..Len(record) : record[i].by = e BY <1>5, <1>6, <1>8
  <1>10. Content(record) = bytes
    <2>1. Content(record) = [i \in DOMAIN bytes |-> record[i].byte] BY <1>8 DEF Content
    <2>2. \A i \in DOMAIN bytes : record[i].byte = bytes[i] BY <1>5
    <2>3. Content(record) = [i \in DOMAIN bytes |-> bytes[i]] BY <2>1, <2>2
    <2>4. bytes = [i \in 1..Len(bytes) |-> bytes[i]] BY <1>3
    <2> QED BY <1>6, <2>3, <2>4
  <1>11. TrueRecord(e, record)
    <2>1. CASE bytes = payload BY <1>10, <2>1 DEF TrueRecord
    <2>2. CASE bytes = payload \o <<"newline">> /\ outputs[e].newline /\ ~Console!EndsLine(payload)
      <3>1. e \in TextElements BY <2>2 DEF ConsoleTyped
      <3>2. Len(bytes) = Len(payload) + 1 /\ bytes[Len(payload) + 1] = "newline" /\ bytes # <<>>
            /\ \A i \in 1..Len(payload) : bytes[i] = payload[i]
        BY <1>1, <2>2
      <3>3. Console!EndsLine(bytes) BY <3>2 DEF Console!EndsLine, Console!Last
      <3>4. Console!Front(bytes) = payload
        <4>1. Console!Front(bytes) = SubSeq(bytes, 1, Len(bytes) - 1) BY DEF Console!Front
        <4>2. Len(bytes) - 1 = Len(payload) /\ Len(payload) \in Nat BY <1>1, <3>2
        <4>3. SubSeq(bytes, 1, Len(payload)) \in Seq(Console!Contents)
              /\ Len(SubSeq(bytes, 1, Len(payload))) = Len(payload)
              /\ \A i \in 1..Len(payload) : SubSeq(bytes, 1, Len(payload))[i] = bytes[i]
          BY <1>3, <3>2, <4>2
        <4>4. SubSeq(bytes, 1, Len(payload)) = payload BY <1>1, <3>2, <4>3
        <4> QED BY <4>1, <4>2, <4>4
      <3> QED BY <1>10, <2>2, <3>1, <3>3, <3>4 DEF TrueRecord
    <2> QED BY <1>4, <2>1, <2>2
  <1> QED BY <1>8, <1>9, <1>11 DEF OwnRecord, record, bytes
-----------------------------------------------------------------------------
\* New settings are for the records to come.
LEMMA SettingsKeep ==
  ASSUME ConsoleInv, NEW e \in Console!Printers, Console!SetProperty(e)
  PROVE  ConsoleInv'
  <1>1. /\ UNCHANGED <<writing, streamLock, buffered, shown, turns>>
        /\ \E stream \in Console!Streams, newline \in {b \in BOOLEAN : b => e \in TextElements} :
             outputs' = [outputs EXCEPT ![e] = [stream |-> stream, newline |-> newline]]
    BY DEF Console!SetProperty
  <1>2. ConsoleTyped' BY <1>1 DEF ConsoleInv, ConsoleTyped
  <1>3. Locks' BY <1>1 DEF ConsoleInv, Locks
  <1>4. Owned' BY <1>1 DEF ConsoleInv, Owned
  <1>5. ASSUME NEW s \in Console!Streams PROVE (Open(s) /\ Cut(s) /\ Settles(s))'
    <2>1. Written(s)' = Written(s) BY <1>1 DEF Written, Console!Written
    <2>2. Open(s)' /\ Cut(s)' BY <1>1, <2>1, StreamKept DEF ConsoleInv, Streaming
    <2>3. Settles(s)' BY <1>1 DEF ConsoleInv, Streaming, Settles
    <2> QED BY <2>2, <2>3
  <1> QED BY <1>2, <1>3, <1>4, <1>5 DEF ConsoleInv, Streaming

\* A record is made, and waits for the lock.
LEMMA RenderKeeps ==
  ASSUME Console!ConsoleAssumption, ConsoleInv, NEW e \in Console!Printers, Console!Render(e)
  PROVE  ConsoleInv'
  <1>0. ConsoleTyped BY DEF ConsoleInv
  <1>1. PICK payload \in ConsolePayloads :
          writing' = [writing EXCEPT ![e] =
            [at |-> "waiting", stream |-> outputs[e].stream,
             left |-> Console!Tagged(e, Console!Record(payload, outputs[e].newline))]]
    BY DEF Console!Render
  <1>2. writing[e].at = "idle" /\ UNCHANGED <<outputs, streamLock, buffered, shown, turns>>
    BY DEF Console!Render
  <1> DEFINE record == Console!Tagged(e, Console!Record(payload, outputs[e].newline))
             asked == [at |-> "waiting", stream |-> outputs[e].stream, left |-> record]
  <1>3. record \in Seq(Bytes) /\ OwnRecord(e, record) BY <1>0, RecordIs
  <1>4. asked.at = "waiting" /\ asked.left = record /\ asked \in Writings
    BY <1>0, <1>3 DEF ConsoleTyped, Writings
  <1>5. writing' = [writing EXCEPT ![e] = asked] BY <1>1
  <1> HIDE DEF asked, record
  <1>6. \A d \in Console!Printers : writing'[d] = IF d = e THEN asked ELSE writing[d]
    BY <1>0, <1>5 DEF ConsoleTyped
  <1>7. ConsoleTyped' BY <1>0, <1>2, <1>4, <1>5 DEF ConsoleTyped
  <1>8. Locks' BY <1>2, <1>4, <1>6 DEF ConsoleInv, Locks
  <1>9. Owned' BY <1>2, <1>3, <1>4, <1>6 DEF ConsoleInv, Owned
  <1>10. ASSUME NEW s \in Console!Streams PROVE (Open(s) /\ Cut(s) /\ Settles(s))'
    <2>1. Written(s)' = Written(s) BY <1>2 DEF Written, Console!Written
    <2>2. streamLock[s] # "none" => streamLock[s] \in Console!Printers /\ streamLock[s] # e
      BY <1>0, <1>2 DEF ConsoleTyped, ConsoleInv, Locks
    <2>3. streamLock[s] # "none" => writing'[streamLock[s]].left = writing[streamLock[s]].left
      BY <1>6, <2>2
    <2>4. Open(s)' /\ Cut(s)' BY <1>0, <1>2, <2>1, <2>3, StreamKept DEF ConsoleInv, Streaming
    <2>5. Settles(s)' BY <1>2 DEF ConsoleInv, Streaming, Settles
    <2> QED BY <2>4, <2>5
  <1> QED BY <1>7, <1>8, <1>9, <1>10 DEF ConsoleInv, Streaming

\* The lock is taken: a turn begins where the last one ended.
LEMMA LockKeeps ==
  ASSUME Console!ConsoleAssumption, ConsoleInv, NEW e \in Console!Printers, Console!Lock(e)
  PROVE  ConsoleInv'
  <1>0. ConsoleTyped BY DEF ConsoleInv
  <1>s. PICK s \in Console!Streams : s = writing[e].stream BY <1>0, TurnIs
  <1>n. PICK n \in Nat : n = Len(turns[s]) BY <1>0, TurnIs
  <1> DEFINE turn == [by |-> e, record |-> writing[e].left, from |-> Len(Written(s)), given |-> 0,
                     result |-> "open"]
  <1>1. /\ writing[e].at = "waiting" /\ streamLock[s] = "none"
        /\ streamLock' = [streamLock EXCEPT ![s] = e]
        /\ writing' = [writing EXCEPT ![e].at = "writing"]
        /\ turns' = [turns EXCEPT ![s] = Append(turns[s], turn)]
        /\ UNCHANGED <<outputs, buffered, shown>>
    BY <1>s DEF Console!Lock, Console!NoElement, Written
  <1>2. /\ s \in Console!Streams /\ writing[e] \in Writings /\ writing[e].left \in Seq(Bytes)
        /\ turns[s] \in Seq(Turn) /\ Len(turns[s]) = n /\ e # "none"
        /\ \A d \in Console!Printers : d # "none"
    BY <1>0, <1>n, TurnIs DEF Console!ConsoleAssumption, Console!NoElement
  <1>3. turn \in Turn BY <1>0, <1>2, WrittenIs DEF Turn
  <1>4. /\ turn.by = e /\ turn.record = writing[e].left /\ turn.from = Len(Written(s)) /\ turn.given = 0
        /\ turn.result = "open"
    OBVIOUS
  <1>5. \A r \in Console!Streams : Written(r)' = Written(r) BY <1>1 DEF Written, Console!Written
  <1> HIDE DEF turn
  <1>6. /\ turns'[s] \in Seq(Turn) /\ Len(turns'[s]) = n + 1 /\ turns'[s][n + 1] = turn
        /\ turns'[s] # <<>> /\ \A t \in 1..n : turns'[s][t] = turns[s][t]
        /\ \A r \in Console!Streams : r # s => turns'[r] = turns[r]
    <2>1. turns'[s] = Append(turns[s], turn) BY <1>0, <1>1, <1>2 DEF ConsoleTyped
    <2>2. \A r \in Console!Streams : r # s => turns'[r] = turns[r] BY <1>0, <1>1 DEF ConsoleTyped
    <2> QED BY <1>2, <1>3, <2>1, <2>2, GrownAtEnd
  <1>7. /\ \A d \in Console!Printers : writing'[d].left = writing[d].left /\ writing'[d].stream = writing[d].stream
        /\ \A d \in Console!Printers : writing'[d].at = IF d = e THEN "writing" ELSE writing[d].at
        /\ writing' \in [Console!Printers -> Writings]
    <2>1. [writing[e] EXCEPT !.at = "writing"] \in Writings
          /\ [writing[e] EXCEPT !.at = "writing"].left = writing[e].left
          /\ [writing[e] EXCEPT !.at = "writing"].stream = writing[e].stream
          /\ [writing[e] EXCEPT !.at = "writing"].at = "writing"
      BY <1>2 DEF Writings
    <2>2. writing' = [writing EXCEPT ![e] = [writing[e] EXCEPT !.at = "writing"]] BY <1>1
    <2> QED BY <1>0, <2>1, <2>2 DEF ConsoleTyped
  <1>8. \A r \in Console!Streams : streamLock'[r] = IF r = s THEN e ELSE streamLock[r]
    BY <1>0, <1>1 DEF ConsoleTyped
  <1>9. ConsoleTyped'
    <2>1. turns' \in [Console!Streams -> Seq(Turn)]
      <3>1. turns' = [turns EXCEPT ![s] = turns'[s]] BY <1>0, <1>1, <1>2 DEF ConsoleTyped
      <3> QED BY <1>0, <1>6, <3>1 DEF ConsoleTyped
    <2>2. streamLock' \in [Console!Streams -> Console!Printers \union {"none"}]
      BY <1>0, <1>1 DEF ConsoleTyped
    <2> QED BY <1>0, <1>1, <1>7, <2>1, <2>2 DEF ConsoleTyped
  <1>10. Locks'
    <2> SUFFICES ASSUME NEW r \in Console!Streams, NEW d \in Console!Printers
                 PROVE  streamLock'[r] = d <=> writing'[d].at = "writing" /\ writing'[d].stream = r
      BY DEF Locks
    <2>1. streamLock[r] = d <=> writing[d].at = "writing" /\ writing[d].stream = r
      BY DEF ConsoleInv, Locks
    <2>2. d # "none" BY <1>2
    <2>3. CASE d = e BY <1>1, <1>7, <1>8, <1>s, <2>1, <2>3
    <2>4. CASE d # e BY <1>1, <1>7, <1>8, <1>s, <2>1, <2>2, <2>4
    <2> QED BY <2>3, <2>4
  <1>11. Owned'
    <2>1. \A d \in Console!Printers : writing'[d].at = "waiting" => OwnRecord(d, writing'[d].left)
      BY <1>7 DEF ConsoleInv, Owned
    <2>2. OwnRecord(turn.by, turn.record) BY <1>1, <1>4 DEF ConsoleInv, Owned
    <2>3. ASSUME NEW r \in Console!Streams, NEW t \in 1..Len(turns'[r])
          PROVE  OwnRecord(turns'[r][t].by, turns'[r][t].record)
      <3>1. CASE r # s BY <1>6, <2>3, <3>1 DEF ConsoleInv, Owned
      <3>2. CASE r = s /\ t = n + 1 BY <1>6, <2>2, <3>2
      <3>3. CASE r = s /\ t # n + 1
        <4>1. t \in 1..n BY <1>2, <1>6, <2>3, <3>3
        <4> QED BY <1>2, <1>6, <3>3, <4>1 DEF ConsoleInv, Owned
      <3> QED BY <3>1, <3>2, <3>3
    <2> QED BY <2>1, <2>3 DEF Owned
  <1>12. ASSUME NEW r \in Console!Streams, r # s PROVE (Open(r) /\ Cut(r) /\ Settles(r))'
    <2>1. streamLock[r] # "none" => streamLock[r] \in Console!Printers BY <1>0 DEF ConsoleTyped
    <2>2. Open(r)' /\ Cut(r)'
      BY <1>0, <1>5, <1>6, <1>7, <1>8, <1>12, <2>1, StreamKept DEF ConsoleInv, Streaming
    <2>3. Settles(r)' BY <1>1, <1>6, <1>12 DEF ConsoleInv, Streaming, Settles
    <2> QED BY <2>2, <2>3
  <1>13. Open(s) /\ Cut(s) BY <1>2 DEF ConsoleInv, Streaming
  <1>14. Open(s)'
    <2>1. \A t \in 1..n : turns[s][t].result # "open" BY <1>1, <1>2, <1>13 DEF Open
    <2>2. \A t \in 1..(n + 1) : turns'[s][t].result = "open" => t = n + 1
      <3>1. \A t \in 1..(n + 1) : t \in 1..n \/ t = n + 1 BY <1>2
      <3> QED BY <1>6, <2>1, <3>1
    <2>3. streamLock'[s] = e /\ writing'[e].left = writing[e].left BY <1>2, <1>7, <1>8
    <2>4. Len(writing[e].left) \in Nat BY <1>2
    <2>5. 0 + Len(writing[e].left) = Len(writing[e].left)
          /\ \A i \in 1..Len(writing[e].left) : 0 + i = i
      BY <2>4
    <2>6. n + 1 > 0 BY <1>2
    <2> QED BY <1>2, <1>4, <1>6, <2>2, <2>3, <2>5, <2>6 DEF Open
  <1>15. Cut(s)'
    <2> DEFINE w == Len(Written(s))
    <2>0. w \in Nat /\ Written(s)' = Written(s) BY <1>0, <1>2, <1>5, WrittenIs
    <2> HIDE DEF w
    <2>1. ASSUME NEW t \in 1..n PROVE Piece(s, t)'
      <3>1. Piece(s, t) /\ turns'[s][t] = turns[s][t] /\ t # n + 1 /\ t \in Nat
        BY <1>2, <1>6, <1>13, <2>1 DEF Cut
      <3>2. Console!Until(s, t)' = Console!Until(s, t)
        <4>1. Console!Until(s, t)' = turns'[s][t + 1].from BY <1>6, <3>1 DEF Console!Until
        <4>2. CASE t = n
          <5>1. Console!Until(s, t)' = w BY <1>4, <1>6, <4>1, <4>2 DEF w
          <5>2. Console!Until(s, t) = w BY <1>2, <4>2 DEF Console!Until, w, Written
          <5> QED BY <5>1, <5>2
        <4>3. CASE t # n
          <5>1. t + 1 \in 1..n BY <1>2, <2>1, <4>3
          <5> QED BY <1>2, <1>6, <4>1, <4>3, <5>1 DEF Console!Until
        <4> QED BY <4>2, <4>3
      <3> QED BY <2>0, <3>1, <3>2 DEF Piece
    <2>2. Piece(s, n + 1)'
      <3>1. n + 1 = 1 => w = 0
        <4>1. CASE n = 0
          <5>1. turns[s] = <<>> BY <1>2, <4>1
          <5>2. Written(s) = <<>> BY <1>13, <5>1 DEF Cut
          <5> QED BY <5>2 DEF w
        <4>2. CASE n # 0 BY <1>2, <4>2
        <4> QED BY <4>1, <4>2
      <3>2. Console!Until(s, n + 1)' = w BY <1>6, <2>0 DEF Console!Until, w, Written
      <3>3. w = w + 0 /\ w + 0 <= w /\ 1..0 = {} BY <2>0
      <3>4. Len(turn.record) \in Nat /\ 0 <= Len(turn.record) BY <1>2, <1>4
      <3> QED BY <1>4, <1>6, <2>0, <3>1, <3>2, <3>3, <3>4 DEF Piece, w
    <2>3. \A t \in 1..(n + 1) : t \in 1..n \/ t = n + 1 BY <1>2
    <2> QED BY <1>6, <2>1, <2>2, <2>3 DEF Cut
  <1>16. Settles(s)' BY <1>4, <1>6 DEF Settles
  <1> QED BY <1>9, <1>10, <1>11, <1>12, <1>14, <1>15, <1>16 DEF ConsoleInv, Streaming
-----------------------------------------------------------------------------
\* The element with the lock hands over a byte, the next of its record.
LEMMA GiveKeeps ==
  ASSUME Console!ConsoleAssumption, ConsoleInv, NEW e \in Console!Printers, Console!Give(e)
  PROVE  ConsoleInv'
  <1>0. ConsoleTyped BY DEF ConsoleInv
  <1>s. PICK s \in Console!Streams : s = writing[e].stream BY <1>0, TurnIs
  <1>n. PICK n \in Nat : n = Len(turns[s]) BY <1>0, TurnIs
  <1>d. PICK left : left = writing[e].left OBVIOUS
  <1>b. PICK byte : byte = Head(left) OBVIOUS
  <1>1. /\ writing[e].at = "writing" /\ left # <<>>
        /\ writing' = [writing EXCEPT ![e].left = Tail(left)]
        /\ turns' = [turns EXCEPT ![s][n].given = turns[s][n].given + 1]
        /\ UNCHANGED <<outputs, streamLock>>
        /\ IF s = "stdout" THEN buffered' = Append(buffered, byte) /\ UNCHANGED shown
           ELSE shown' = [shown EXCEPT ![s] = Append(shown[s], byte)] /\ UNCHANGED buffered
    BY <1>s, <1>n, <1>d, <1>b DEF Console!Give
  <1>2. /\ writing[e] \in Writings /\ left \in Seq(Bytes) /\ turns[s] \in Seq(Turn)
        /\ Len(turns[s]) = n /\ streamLock[s] = e /\ e # "none"
        /\ \A d \in Console!Printers : d # "none"
    BY <1>0, <1>1, <1>s, <1>n, <1>d, TurnIs
    DEF Console!ConsoleAssumption, Console!NoElement, ConsoleInv, Locks
  <1>3. /\ byte \in Bytes /\ Tail(left) \in Seq(Bytes) /\ Len(left) \in Nat /\ Len(Tail(left)) \in Nat
        /\ Len(Tail(left)) + 1 = Len(left) /\ byte = left[1] /\ 1 \in 1..Len(left)
        /\ \A i \in 1..Len(Tail(left)) : Tail(left)[i] = left[i + 1] /\ i + 1 \in 1..Len(left)
    <2>1. /\ byte \in Bytes /\ Tail(left) \in Seq(Bytes) /\ Len(left) \in Nat \ {0}
          /\ Len(Tail(left)) + 1 = Len(left) /\ byte = left[1]
          /\ \A i \in 1..Len(Tail(left)) : Tail(left)[i] = left[i + 1]
      BY <1>1, <1>2, <1>b, RestAfterHead
    <2>2. Len(Tail(left)) \in Nat BY <2>1
    <2> QED BY <2>1, <2>2
  <1>4. Open(s) /\ Cut(s) BY DEF ConsoleInv, Streaming
  <1>5. /\ n > 0 /\ n \in 1..n /\ turns[s][n].by = e /\ turns[s][n].result = "open"
        /\ turns[s][n].given + Len(left) = Len(turns[s][n].record)
        /\ \A i \in 1..Len(left) : left[i] = turns[s][n].record[turns[s][n].given + i]
    BY <1>2, <1>4, <1>d DEF Open
  <1>t. PICK turn \in Turn : turn = turns[s][n] BY <1>2, <1>5
  <1>6. /\ turn.given \in Nat /\ turn.from \in Nat /\ turn.record \in Seq(Bytes)
        /\ Len(turn.record) \in Nat /\ turn.by \in Console!Printers
    <2>1. turn.record \in Seq(Bytes) BY <1>t DEF Turn
    <2> QED BY <1>t, <2>1 DEF Turn
  <1>v. PICK next : next = [turn EXCEPT !.given = turn.given + 1] OBVIOUS
  <1>7. /\ next \in Turn /\ next.by = turn.by /\ next.record = turn.record /\ next.from = turn.from
        /\ next.given = turn.given + 1 /\ next.result = turn.result
    BY <1>6, <1>t, <1>v DEF Turn
  <1>8. /\ turns'[s] \in Seq(Turn) /\ Len(turns'[s]) = n /\ turns'[s][n] = next
        /\ \A t \in 1..n : t # n => turns'[s][t] = turns[s][t]
        /\ \A r \in Console!Streams : r # s => turns'[r] = turns[r]
        /\ turns' \in [Console!Streams -> Seq(Turn)]
    <2>1. turns'[s] = [turns[s] EXCEPT ![n] = next]
          /\ \A r \in Console!Streams : r # s => turns'[r] = turns[r]
          /\ turns' = [turns EXCEPT ![s] = [turns[s] EXCEPT ![n] = next]]
      BY <1>0, <1>1, <1>t, <1>v DEF ConsoleTyped
    <2>2. /\ [turns[s] EXCEPT ![n] = next] \in Seq(Turn) /\ Len([turns[s] EXCEPT ![n] = next]) = n
          /\ [turns[s] EXCEPT ![n] = next][n] = next
          /\ \A t \in 1..n : t # n => [turns[s] EXCEPT ![n] = next][t] = turns[s][t]
      <3>1. PICK w \in Seq(Turn) : w = turns[s] BY <1>2
      <3>2. n \in 1..Len(w) /\ Len(w) = n BY <1>2, <1>5, <3>1
      <3>3. /\ [w EXCEPT ![n] = next] \in Seq(Turn) /\ Len([w EXCEPT ![n] = next]) = Len(w)
            /\ [w EXCEPT ![n] = next][n] = next
            /\ \A t \in 1..Len(w) : t # n => [w EXCEPT ![n] = next][t] = w[t]
        BY <1>7, <3>2, OneReplaced
      <3> QED BY <3>1, <3>2, <3>3
    <2>3. turns' \in [Console!Streams -> Seq(Turn)]
      <3>1. turns' = [r \in Console!Streams |-> turns'[r]] BY <1>0, <1>1 DEF ConsoleTyped
      <3>2. turns'[s] \in Seq(Turn) BY <2>1, <2>2
      <3>3. \A r \in Console!Streams : r # s => turns'[r] \in Seq(Turn)
        BY <1>0, <2>1 DEF ConsoleTyped
      <3> QED BY <3>1, <3>2, <3>3
    <2> QED BY <2>1, <2>2, <2>3
  <1>9. /\ writing' \in [Console!Printers -> Writings] /\ writing'[e].left = Tail(left)
        /\ \A d \in Console!Printers : d # e => writing'[d] = writing[d]
        /\ \A d \in Console!Printers : writing'[d].at = writing[d].at /\ writing'[d].stream = writing[d].stream
    <2>1. [writing[e] EXCEPT !.left = Tail(left)] \in Writings
          /\ [writing[e] EXCEPT !.left = Tail(left)].left = Tail(left)
          /\ [writing[e] EXCEPT !.left = Tail(left)].at = writing[e].at
          /\ [writing[e] EXCEPT !.left = Tail(left)].stream = writing[e].stream
      BY <1>2, <1>3 DEF Writings
    <2>2. writing' = [writing EXCEPT ![e] = [writing[e] EXCEPT !.left = Tail(left)]] BY <1>1
    <2> QED BY <1>0, <2>1, <2>2 DEF ConsoleTyped
  <1>10. /\ Written(s)' = Append(Written(s), byte) /\ Written(s) \in Seq(Bytes)
         /\ \A r \in Console!Streams : r # s => Written(r)' = Written(r) /\ shown'[r] = shown[r]
         /\ buffered' \in Seq(Bytes) /\ shown' \in [Console!Streams -> Seq(Bytes)]
    <2>0. /\ Console!Streams = {"stdout", "stderr"} /\ shown["stdout"] \in Seq(Bytes)
          /\ shown["stderr"] \in Seq(Bytes) /\ buffered \in Seq(Bytes)
      BY <1>0 DEF Console!Streams, ConsoleTyped
    <2>1. Written(s) \in Seq(Bytes) BY <1>0, WrittenIs
    <2>2. CASE s = "stdout"
      <3>1. buffered' = Append(buffered, byte) /\ shown' = shown BY <1>1, <2>2
      <3>2. shown["stdout"] \o Append(buffered, byte) = Append(shown["stdout"] \o buffered, byte)
        <4>1. PICK a \in Seq(Bytes), b \in Seq(Bytes) : a = shown["stdout"] /\ b = buffered BY <2>0
        <4>2. a \o Append(b, byte) = Append(a \o b, byte) BY <1>3, GivenToTheRest
        <4> QED BY <4>1, <4>2
      <3>3. Written("stdout") = shown["stdout"] \o buffered
            /\ Written("stdout")' = shown["stdout"]' \o buffered'
        BY DEF Written, Console!Written
      <3>4. Written("stderr")' = Written("stderr") BY <3>1 DEF Written, Console!Written
      <3>5. buffered' \in Seq(Bytes) BY <1>3, <2>0, <3>1
      <3>6. Written("stdout")' = Append(Written("stdout"), byte) BY <3>1, <3>2, <3>3
      <3> QED BY <1>0, <2>0, <2>1, <2>2, <3>1, <3>4, <3>5, <3>6 DEF ConsoleTyped
    <2>3. CASE s = "stderr"
      <3>1. /\ buffered' = buffered /\ shown'["stderr"] = Append(shown["stderr"], byte)
            /\ shown'["stdout"] = shown["stdout"]
            /\ shown' = [shown EXCEPT !["stderr"] = Append(shown["stderr"], byte)]
        BY <1>0, <1>1, <2>3 DEF ConsoleTyped, Console!Streams
      <3>2. Append(shown["stderr"], byte) \in Seq(Bytes) BY <1>3, <2>0
      <3>3. Append(shown["stderr"], byte) \o <<>> = Append(shown["stderr"], byte) BY <3>2
      <3>4. /\ Written("stderr") = shown["stderr"] BY <1>0, WrittenIs
      <3>5. Written("stderr")' = Append(shown["stderr"], byte) BY <3>1, <3>3 DEF Written, Console!Written
      <3>6. Written("stdout")' = Written("stdout") BY <3>1 DEF Written, Console!Written
      <3>7. shown' \in [Console!Streams -> Seq(Bytes)] BY <1>0, <3>1, <3>2 DEF ConsoleTyped
      <3> QED BY <2>0, <2>1, <2>3, <3>1, <3>4, <3>5, <3>6, <3>7
    <2> QED BY <2>0, <2>2, <2>3
  <1>11. /\ Len(Written(s)) \in Nat /\ Len(Written(s)') = Len(Written(s)) + 1
         /\ Written(s)'[Len(Written(s)) + 1] = byte
         /\ \A i \in 1..Len(Written(s)) : Written(s)'[i] = Written(s)[i]
    <2>1. Len(Written(s)) \in Nat BY <1>0, WrittenIs
    <2> QED BY <1>3, <1>10, <2>1, GrownAtEnd
  <1>12. ConsoleTyped' BY <1>0, <1>1, <1>8, <1>9, <1>10 DEF ConsoleTyped
  <1>13. Locks' BY <1>1, <1>9 DEF ConsoleInv, Locks
  <1>14. Owned'
    <2>1. \A d \in Console!Printers : writing'[d].at = "waiting" => OwnRecord(d, writing'[d].left)
      BY <1>1, <1>9 DEF ConsoleInv, Owned
    <2>2. ASSUME NEW r \in Console!Streams, NEW t \in 1..Len(turns'[r])
          PROVE  OwnRecord(turns'[r][t].by, turns'[r][t].record)
      <3>1. CASE r # s BY <1>8, <2>2, <3>1 DEF ConsoleInv, Owned
      <3>2. CASE r = s /\ t = n BY <1>2, <1>5, <1>7, <1>8, <1>t, <3>2 DEF ConsoleInv, Owned
      <3>3. CASE r = s /\ t # n BY <1>2, <1>8, <2>2, <3>3 DEF ConsoleInv, Owned
      <3> QED BY <3>1, <3>2, <3>3
    <2> QED BY <2>1, <2>2 DEF Owned
  <1>15. ASSUME NEW r \in Console!Streams, r # s PROVE (Open(r) /\ Cut(r) /\ Settles(r))'
    <2>1. streamLock[r] # "none" => streamLock[r] \in Console!Printers BY <1>0 DEF ConsoleTyped
    <2>2. streamLock[r] # e BY <1>s, <1>15 DEF ConsoleInv, Locks
    <2>3. streamLock[r] # "none" => writing'[streamLock[r]].left = writing[streamLock[r]].left
      BY <1>9, <2>1, <2>2
    <2>4. Open(r)' /\ Cut(r)' BY <1>0, <1>1, <1>8, <1>10, <1>15, <2>3, StreamKept DEF ConsoleInv, Streaming
    <2>5. Settles(r)'
      <3>1. Settles(r) BY DEF ConsoleInv, Streaming
      <3>2. r = "stdout" => buffered' = buffered BY <1>1, <1>15
      <3> QED BY <1>8, <1>10, <1>15, <3>1, <3>2 DEF Settles
    <2> QED BY <2>4, <2>5
  <1>16. Open(s)'
    <2>1. \A t \in 1..n : turns'[s][t].result = "open" => t = n
      BY <1>2, <1>4, <1>7, <1>8, <1>t DEF Open
    <2>2. next.given + Len(Tail(left)) = Len(next.record) BY <1>3, <1>5, <1>6, <1>7, <1>t
    <2>3. ASSUME NEW i \in 1..Len(Tail(left)) PROVE Tail(left)[i] = next.record[next.given + i]
      <3>1. Tail(left)[i] = left[i + 1] /\ i + 1 \in 1..Len(left) /\ i \in Nat BY <1>3
      <3>2. left[i + 1] = turn.record[turn.given + (i + 1)] BY <1>5, <1>t, <3>1
      <3>3. turn.given + (i + 1) = next.given + i BY <1>6, <1>7, <3>1
      <3> QED BY <1>7, <3>1, <3>2, <3>3
    <2>4. streamLock'[s] = e /\ writing'[e].left = Tail(left) /\ Len(turns'[s]) = n BY <1>1, <1>2, <1>8, <1>9
    <2>5. turns'[s][n] = next /\ next.by = e /\ next.result = "open" BY <1>5, <1>7, <1>8, <1>t
    <2> QED BY <1>2, <1>5, <2>1, <2>2, <2>3, <2>4, <2>5 DEF Open
  <1>17. Cut(s)'
    <2>1. turns'[s] # <<>> BY <1>5, <1>8
    <2>2. ASSUME NEW t \in 1..n, t # n PROVE Piece(s, t)'
      <3>1. Piece(s, t) /\ turns'[s][t] = turns[s][t] BY <1>2, <1>4, <1>8, <2>2 DEF Cut
      <3>2. t + 1 \in 1..n BY <2>2
      <3>3. turns'[s][t + 1].from = turns[s][t + 1].from BY <1>7, <1>8, <1>t, <3>2
      <3>4. Console!Until(s, t)' = Console!Until(s, t) BY <1>2, <1>8, <2>2, <3>3 DEF Console!Until
      <3>5. turns[s][t].from \in Nat /\ turns[s][t].given \in Nat BY <1>0, <1>2, TurnIs
      <3> DEFINE f == turns[s][t].from  g == turns[s][t].given  w == Len(Written(s))
      <3>6. f + g <= w /\ w \in Nat /\ f \in Nat /\ g \in Nat BY <1>11, <3>1, <3>5 DEF Piece
      <3> HIDE DEF f, g, w
      <3>7. f + g <= w + 1 /\ \A i \in 1..g : f + i \in 1..w BY <3>6
      <3>8. \A i \in 1..turns[s][t].given : Written(s)'[turns[s][t].from + i] = Written(s)[turns[s][t].from + i]
        BY <1>11, <3>7 DEF f, g, w
      <3> QED BY <1>11, <3>1, <3>4, <3>7, <3>8 DEF Piece, f, g, w
    <2>3. Piece(s, n)'
      <3>1. Piece(s, n) BY <1>2, <1>4, <1>5 DEF Cut
      <3> DEFINE f == turn.from  g == turn.given  w == Len(Written(s))  r == Len(turn.record)
      <3>2. Console!Until(s, n) = w BY <1>2 DEF Console!Until, Written
      <3>3. Console!Until(s, n)' = w + 1 BY <1>8, <1>11 DEF Console!Until, Written
      <3>4. /\ f \in Nat /\ g \in Nat /\ w \in Nat /\ r \in Nat /\ Len(left) \in Nat /\ Len(left) # 0
            /\ w = f + g /\ g + Len(left) = r /\ (n = 1 => f = 0)
        BY <1>3, <1>5, <1>6, <1>11, <1>t, <3>1, <3>2 DEF Piece
      <3>5. \A i \in 1..g : Written(s)[f + i] = turn.record[i] BY <1>t, <3>1 DEF Piece
      <3>6. left[1] = turn.record[g + 1] BY <1>3, <1>5, <1>t
      <3> HIDE DEF f, g, w, r
      <3>7. g + 1 <= r /\ w + 1 = f + (g + 1) /\ \A i \in 1..g : f + i \in 1..w BY <3>4
      <3>8. \A i \in 1..(g + 1) : i \in 1..g \/ i = g + 1 BY <3>4
      <3>9. Written(s)'[f + (g + 1)] = turn.record[g + 1] BY <1>3, <1>11, <3>6, <3>7 DEF w
      <3>10. \A i \in 1..g : Written(s)'[f + i] = turn.record[i] BY <1>11, <3>5, <3>7 DEF w
      <3>11. \A i \in 1..(g + 1) : Written(s)'[f + i] = turn.record[i] BY <3>8, <3>9, <3>10
      <3>12. turns'[s][n] = next /\ next.from = f /\ next.given = g + 1 /\ next.record = turn.record
             /\ next.result = "open" /\ Len(Written(s)') = w + 1
        BY <1>5, <1>7, <1>8, <1>11, <1>t DEF f, g, w
      <3> QED BY <3>3, <3>4, <3>7, <3>11, <3>12 DEF Piece, r
    <2> QED BY <1>8, <2>1, <2>2, <2>3 DEF Cut
  <1>18. Settles(s)' BY <1>5, <1>7, <1>8, <1>t DEF Settles
  <1> QED BY <1>12, <1>13, <1>14, <1>15, <1>16, <1>17, <1>18 DEF ConsoleInv, Streaming

\* Standard output empties its buffer: what was written stays the same.
LEMMA EmitKeeps ==
  ASSUME ConsoleInv, Console!Emit
  PROVE  ConsoleInv'
  <1>0. ConsoleTyped BY DEF ConsoleInv
  <1>1. /\ buffered # <<>> /\ streamLock["stdout"] # "none"
        /\ shown' = [shown EXCEPT !["stdout"] = Append(shown["stdout"], Head(buffered))]
        /\ buffered' = Tail(buffered) /\ UNCHANGED <<outputs, writing, streamLock, turns>>
    BY DEF Console!Emit, Console!NoElement
  <1>2. /\ Console!Streams = {"stdout", "stderr"} /\ shown["stdout"] \in Seq(Bytes)
        /\ buffered \in Seq(Bytes)
    BY <1>0 DEF Console!Streams, ConsoleTyped
  <1>3. Head(buffered) \in Bytes /\ Tail(buffered) \in Seq(Bytes) BY <1>1, <1>2, RestAfterHead
  <1>4. Append(shown["stdout"], Head(buffered)) \in Seq(Bytes) BY <1>2, <1>3
  <1>5. /\ shown'["stdout"] = Append(shown["stdout"], Head(buffered))
        /\ shown'["stderr"] = shown["stderr"] /\ shown' \in [Console!Streams -> Seq(Bytes)]
    BY <1>0, <1>1, <1>2, <1>4 DEF ConsoleTyped
  <1>6. Written("stdout")' = Written("stdout")
    <2>1. Append(shown["stdout"], Head(buffered)) \o Tail(buffered) = shown["stdout"] \o buffered
      BY <1>1, <1>2, PouredOver
    <2>2. Written("stdout")' = shown["stdout"]' \o buffered' BY DEF Written, Console!Written
    <2> QED BY <1>0, <1>1, <1>5, <2>1, <2>2, WrittenIs
  <1>7. Written("stderr")' = Written("stderr") BY <1>5 DEF Written, Console!Written
  <1>8. ConsoleTyped' BY <1>0, <1>1, <1>3, <1>5 DEF ConsoleTyped
  <1>9. Locks' /\ Owned' BY <1>1 DEF ConsoleInv, Locks, Owned
  <1>10. ASSUME NEW s \in Console!Streams PROVE (Open(s) /\ Cut(s))'
    <2>1. Written(s)' = Written(s) BY <1>2, <1>6, <1>7
    <2> QED BY <1>0, <1>1, <2>1, StreamKept DEF ConsoleInv, Streaming
  <1>11. Settles("stderr")' BY <1>1, <1>2, <1>5 DEF ConsoleInv, Streaming, Settles
  <1>12. Settles("stdout")' BY <1>1, <1>2 DEF ConsoleInv, Streaming, Settles, Open
  <1> QED BY <1>2, <1>8, <1>9, <1>10, <1>11, <1>12 DEF ConsoleInv, Streaming

\* A turn ends: its element was told the result, and leaves the stream.
LEMMA ReleaseKeeps ==
  ASSUME Console!ConsoleAssumption, ConsoleInv, NEW e \in Console!Printers,
         Console!Flushed(e) \/ Console!Fail(e)
  PROVE  ConsoleInv'
  <1>0. ConsoleTyped BY DEF ConsoleInv
  <1>s. PICK s \in Console!Streams : s = writing[e].stream BY <1>0, TurnIs
  <1>n. PICK n \in Nat : n = Len(turns[s]) BY <1>0, TurnIs
  <1>r. PICK result \in {"ok", "error"} :
          /\ writing[e].at = "writing" /\ Console!Release(e, result)
          /\ result = "ok" => writing[e].left = <<>> /\ (s = "stdout" => buffered = <<>>)
    <2>1. CASE Console!Flushed(e) BY <1>s, <2>1 DEF Console!Flushed
    <2>2. CASE Console!Fail(e) BY <2>2 DEF Console!Fail
    <2> QED BY <2>1, <2>2
  <1>1. /\ writing' = [writing EXCEPT ![e] = Console!Idle]
        /\ streamLock' = [streamLock EXCEPT ![s] = "none"]
        /\ turns' = [turns EXCEPT ![s][n].result = result]
        /\ UNCHANGED <<outputs, buffered, shown>>
    BY <1>r, <1>s, <1>n DEF Console!Release, Console!NoElement
  <1>2. /\ writing[e] \in Writings /\ turns[s] \in Seq(Turn) /\ Len(turns[s]) = n
        /\ streamLock[s] = e /\ \A d \in Console!Printers : d # "none"
    BY <1>0, <1>r, <1>s, <1>n, TurnIs
    DEF Console!ConsoleAssumption, Console!NoElement, ConsoleInv, Locks
  <1>3. Open(s) /\ Cut(s) BY DEF ConsoleInv, Streaming
  <1>4. /\ n > 0 /\ n \in 1..n /\ turns[s][n].by = e /\ turns[s][n].result = "open"
        /\ turns[s][n].given + Len(writing[e].left) = Len(turns[s][n].record)
        /\ \A t \in 1..n : turns[s][t].result = "open" => t = n
    BY <1>2, <1>3 DEF Open
  <1>t. PICK turn \in Turn : turn = turns[s][n] BY <1>2, <1>4
  <1>v. PICK next : next = [turn EXCEPT !.result = result] OBVIOUS
  <1>5. /\ next \in Turn /\ next.by = turn.by /\ next.record = turn.record /\ next.from = turn.from
        /\ next.given = turn.given /\ next.result = result /\ result # "open"
    BY <1>t, <1>v DEF Turn
  <1>6. /\ turns' \in [Console!Streams -> Seq(Turn)] /\ Len(turns'[s]) = n /\ turns'[s][n] = next
        /\ \A t \in 1..n : t # n => turns'[s][t] = turns[s][t]
        /\ \A r \in Console!Streams : r # s => turns'[r] = turns[r]
    <2>1. turns'[s] = [turns[s] EXCEPT ![n] = next]
          /\ \A r \in Console!Streams : r # s => turns'[r] = turns[r]
          /\ turns' = [turns EXCEPT ![s] = [turns[s] EXCEPT ![n] = next]]
      BY <1>0, <1>1, <1>t, <1>v DEF ConsoleTyped
    <2>2. /\ [turns[s] EXCEPT ![n] = next] \in Seq(Turn) /\ Len([turns[s] EXCEPT ![n] = next]) = n
          /\ [turns[s] EXCEPT ![n] = next][n] = next
          /\ \A t \in 1..n : t # n => [turns[s] EXCEPT ![n] = next][t] = turns[s][t]
      <3>1. PICK w \in Seq(Turn) : w = turns[s] BY <1>2
      <3>2. n \in 1..Len(w) /\ Len(w) = n BY <1>2, <1>4, <3>1
      <3>3. /\ [w EXCEPT ![n] = next] \in Seq(Turn) /\ Len([w EXCEPT ![n] = next]) = Len(w)
            /\ [w EXCEPT ![n] = next][n] = next
            /\ \A t \in 1..Len(w) : t # n => [w EXCEPT ![n] = next][t] = w[t]
        BY <1>5, <3>2, OneReplaced
      <3> QED BY <3>1, <3>2, <3>3
    <2>3. turns' \in [Console!Streams -> Seq(Turn)]
      <3>1. turns' = [r \in Console!Streams |-> turns'[r]] BY <1>0, <1>1 DEF ConsoleTyped
      <3>2. turns'[s] \in Seq(Turn) BY <2>1, <2>2
      <3>3. \A r \in Console!Streams : r # s => turns'[r] \in Seq(Turn)
        BY <1>0, <2>1 DEF ConsoleTyped
      <3> QED BY <3>1, <3>2, <3>3
    <2> QED BY <2>1, <2>2, <2>3
  <1>7. /\ Console!Idle \in Writings /\ writing' \in [Console!Printers -> Writings]
        /\ writing'[e].at = "idle"
        /\ \A d \in Console!Printers : d # e => writing'[d] = writing[d]
    <2>1. Console!Idle \in Writings /\ Console!Idle.at = "idle"
      BY DEF Console!Idle, Writings, Console!Streams
    <2> QED BY <1>0, <1>1, <2>1 DEF ConsoleTyped
  <1>8. \A r \in Console!Streams : Written(r)' = Written(r) BY <1>1 DEF Written, Console!Written
  <1>9. /\ streamLock'[s] = "none"
        /\ \A r \in Console!Streams : r # s => streamLock'[r] = streamLock[r]
        /\ streamLock' \in [Console!Streams -> Console!Printers \union {"none"}]
    BY <1>0, <1>1 DEF ConsoleTyped
  <1>10. ConsoleTyped' BY <1>0, <1>1, <1>6, <1>7, <1>9 DEF ConsoleTyped
  <1>11. Locks'
    <2>1. ASSUME NEW r \in Console!Streams, NEW d \in Console!Printers
          PROVE  streamLock'[r] = d <=> writing'[d].at = "writing" /\ writing'[d].stream = r
      <3>1. streamLock[r] = d <=> writing[d].at = "writing" /\ writing[d].stream = r
        BY DEF ConsoleInv, Locks
      <3>2. CASE r = s BY <1>2, <1>7, <1>9, <3>1, <3>2
      <3>3. CASE r # s BY <1>2, <1>7, <1>9, <1>s, <3>1, <3>3
      <3> QED BY <3>2, <3>3
    <2> QED BY <2>1 DEF Locks
  <1>12. Owned'
    <2>1. \A d \in Console!Printers : writing'[d].at = "waiting" => OwnRecord(d, writing'[d].left)
      BY <1>7 DEF ConsoleInv, Owned
    <2>2. ASSUME NEW r \in Console!Streams, NEW t \in 1..Len(turns'[r])
          PROVE  OwnRecord(turns'[r][t].by, turns'[r][t].record)
      <3>1. CASE r # s BY <1>6, <2>2, <3>1 DEF ConsoleInv, Owned
      <3>2. CASE r = s /\ t = n BY <1>2, <1>4, <1>5, <1>6, <1>t, <3>2 DEF ConsoleInv, Owned
      <3>3. CASE r = s /\ t # n BY <1>2, <1>6, <2>2, <3>3 DEF ConsoleInv, Owned
      <3> QED BY <3>1, <3>2, <3>3
    <2> QED BY <2>1, <2>2 DEF Owned
  <1>13. ASSUME NEW r \in Console!Streams, r # s PROVE (Open(r) /\ Cut(r) /\ Settles(r))'
    <2>1. streamLock[r] # "none" => streamLock[r] \in Console!Printers BY <1>0 DEF ConsoleTyped
    <2>2. streamLock[r] # e BY <1>s, <1>13 DEF ConsoleInv, Locks
    <2>3. streamLock[r] # "none" => writing'[streamLock[r]].left = writing[streamLock[r]].left
      BY <1>7, <2>1, <2>2
    <2>4. Open(r)' /\ Cut(r)'
      BY <1>0, <1>6, <1>8, <1>9, <1>13, <2>3, StreamKept DEF ConsoleInv, Streaming
    <2>5. Settles(r)' BY <1>1, <1>6, <1>13 DEF ConsoleInv, Streaming, Settles
    <2> QED BY <2>4, <2>5
  <1>14. Open(s)' BY <1>2, <1>4, <1>5, <1>6, <1>9 DEF Open
  <1>15. result = "ok" => turn.given = Len(turn.record)
    <2>1. turn.given \in Nat BY <1>t DEF Turn
    <2> QED BY <1>4, <1>r, <1>t, <2>1
  <1>16. Piece(s, n)'
    <2>1. Piece(s, n) BY <1>2, <1>3, <1>4 DEF Cut
    <2>2. Console!Until(s, n)' = Console!Until(s, n)
      BY <1>2, <1>6, <1>8 DEF Console!Until, Written
    <2> QED BY <1>5, <1>6, <1>8, <1>15, <1>t, <2>1, <2>2 DEF Piece
  <1>17. Cut(s)'
    <2>1. turns'[s] # <<>> BY <1>4, <1>6
    <2>2. ASSUME NEW t \in 1..n, t # n PROVE Piece(s, t)'
      <3>1. Piece(s, t) /\ turns'[s][t] = turns[s][t] BY <1>2, <1>3, <1>6, <2>2 DEF Cut
      <3>2. t + 1 \in 1..n BY <2>2
      <3>3. turns'[s][t + 1].from = turns[s][t + 1].from BY <1>5, <1>6, <1>t, <3>2
      <3>4. Console!Until(s, t)' = Console!Until(s, t) BY <1>2, <1>6, <2>2, <3>3 DEF Console!Until
      <3> QED BY <1>8, <3>1, <3>4 DEF Piece
    <2> QED BY <1>6, <1>16, <2>1, <2>2 DEF Cut
  <1>18. Settles(s)'
    <2>1. SUFFICES ASSUME result = "ok"
                   PROVE  /\ Len(shown[s]) >= Len(turn.record) /\ (s = "stdout" => buffered = <<>>)
      BY <1>1, <1>5, <1>6 DEF Settles
    <2>2. s = "stdout" => buffered = <<>> BY <1>r, <2>1
    <2>3. shown[s] \in Seq(Bytes) BY <1>0 DEF ConsoleTyped
    <2>4. Written(s) = shown[s]
      <3>1. s = "stdout" \/ s = "stderr" BY DEF Console!Streams
      <3>2. CASE s = "stderr" BY <1>0, <3>2, WrittenIs
      <3>3. CASE s = "stdout"
        <4>1. shown["stdout"] \o <<>> = shown["stdout"] BY <2>3, <3>3
        <4> QED BY <1>0, <2>2, <3>3, <4>1, WrittenIs
      <3> QED BY <3>1, <3>2, <3>3
    <2>5. Piece(s, n) BY <1>2, <1>3, <1>4 DEF Cut
    <2>6. turn.from + turn.given <= Len(Written(s)) BY <1>t, <2>5 DEF Piece
    <2>7. /\ turn.from \in Nat /\ turn.given \in Nat /\ Len(shown[s]) \in Nat
          /\ turn.given = Len(turn.record)
      BY <1>15, <1>t, <2>1, <2>3 DEF Turn
    <2>8. Len(shown[s]) >= Len(turn.record) BY <2>4, <2>6, <2>7
    <2> QED BY <2>2, <2>8
  <1> QED BY <1>10, <1>11, <1>12, <1>13, <1>14, <1>17, <1>18 DEF ConsoleInv, Streaming

\* Before anything is written the streams are empty and no element has one.
LEMMA ConsoleInit ==
  ASSUME Console!ConsoleAssumption, Console!Init
  PROVE  ConsoleInv
  <1>1. /\ outputs \in [Console!Printers -> [stream : Console!Streams, newline : BOOLEAN]]
        /\ \A e \in Console!Printers : outputs[e].newline => e \in TextElements
    <2>1. \A e \in Console!Printers : (e \in TextElements) \in BOOLEAN OBVIOUS
    <2>2. outputs = [e \in Console!Printers |-> [stream |-> "stdout", newline |-> e \in TextElements]]
      BY DEF Console!Init
    <2>3. \A e \in Console!Printers :
            /\ outputs[e] = [stream |-> "stdout", newline |-> e \in TextElements]
            /\ outputs[e].newline = (e \in TextElements)
      BY <2>2
    <2>4. \A e \in Console!Printers :
            [stream |-> "stdout", newline |-> e \in TextElements]
              \in [stream : Console!Streams, newline : BOOLEAN]
      BY <2>1 DEF Console!Streams
    <2> QED BY <2>2, <2>3, <2>4
  <1>2. /\ writing \in [Console!Printers -> Writings]
        /\ \A e \in Console!Printers : writing[e].at = "idle"
    BY DEF Console!Init, Console!Idle, Writings, Console!Streams
  <1>3. /\ streamLock \in [Console!Streams -> Console!Printers \union {"none"}]
        /\ \A s \in Console!Streams : streamLock[s] = "none"
    BY DEF Console!Init, Console!NoElement
  <1>4. /\ buffered = <<>> /\ buffered \in Seq(Bytes) /\ shown \in [Console!Streams -> Seq(Bytes)]
        /\ turns \in [Console!Streams -> Seq(Turn)]
        /\ \A s \in Console!Streams : shown[s] = <<>> /\ turns[s] = <<>> /\ Len(turns[s]) = 0
    BY DEF Console!Init
  <1>5. ConsoleTyped BY <1>1, <1>2, <1>3, <1>4 DEF ConsoleTyped
  <1>6. Locks BY <1>2, <1>3 DEF Locks, Console!ConsoleAssumption, Console!NoElement
  <1>7. Owned BY <1>2, <1>4 DEF Owned
  <1>8. ASSUME NEW s \in Console!Streams PROVE Open(s) /\ Cut(s) /\ Settles(s)
    <2>1. Written(s) = <<>>
      <3>1. <<>> \o <<>> = <<>> OBVIOUS
      <3>2. Written(s) = shown[s] \o (IF s = "stdout" THEN buffered ELSE <<>>)
        BY DEF Written, Console!Written
      <3> QED BY <1>4, <3>1, <3>2
    <2>2. Open(s) BY <1>3, <1>4 DEF Open
    <2>3. Cut(s) BY <1>4, <2>1 DEF Cut
    <2>4. Settles(s) BY <1>4 DEF Settles
    <2> QED BY <2>2, <2>3, <2>4
  <1> QED BY <1>5, <1>6, <1>7, <1>8 DEF ConsoleInv, Streaming

\* Every step of the console elements, and every step that is not theirs.
LEMMA ConsoleSteps ==
  ASSUME Console!ConsoleAssumption, ConsoleInv, [Next]_elementsVars
  PROVE  ConsoleInv'
  <1>1. CASE OnlyOf("console") /\ Console!Next
    <2>1. ASSUME NEW e \in Console!Printers,
                 Console!SetProperty(e) \/ Console!Render(e) \/ Console!Lock(e) \/ Console!Give(e)
                   \/ Console!Flushed(e) \/ Console!Fail(e)
          PROVE  ConsoleInv'
      <3>1. CASE Console!SetProperty(e) BY <3>1, SettingsKeep
      <3>2. CASE Console!Render(e) BY <3>2, RenderKeeps
      <3>3. CASE Console!Lock(e) BY <3>3, LockKeeps
      <3>4. CASE Console!Give(e) BY <3>4, GiveKeeps
      <3>5. CASE Console!Flushed(e) \/ Console!Fail(e) BY <3>5, ReleaseKeeps
      <3> QED BY <2>1, <3>1, <3>2, <3>3, <3>4, <3>5
    <2>2. CASE Console!Emit BY <2>2, EmitKeeps
    <2> QED BY <1>1, <2>1, <2>2 DEF Console!Next
  <1>2. CASE UNCHANGED consoleVars
    <2> USE <1>2 DEF consoleVars
    <2>1. ConsoleTyped' /\ Locks' /\ Owned' BY DEF ConsoleInv, ConsoleTyped, Locks, Owned
    <2>2. \A s \in Console!Streams : Written(s)' = Written(s) BY DEF Written, Console!Written
    <2>3. \A s \in Console!Streams : Open(s)' /\ Settles(s)'
      BY DEF ConsoleInv, Streaming, Open, Settles
    <2>4. \A s \in Console!Streams : Cut(s)'
      <3>1. ASSUME NEW s \in Console!Streams PROVE Open(s)' /\ Cut(s)'
        BY <2>2, StreamKept DEF ConsoleInv, Streaming
      <3> QED BY <3>1
    <2> QED BY <2>1, <2>3, <2>4 DEF ConsoleInv, Streaming
  <1>3. CASE OnlyOf("sink") \/ OnlyOf("src") \/ OnlyOf("ocrs") \/ OnlyOf("chat")
    BY <1>2, <1>3 DEF OnlyOf
  <1>4. CASE UNCHANGED elementsVars BY <1>2, <1>4 DEF elementsVars
  <1> QED BY <1>1, <1>3, <1>4 DEF Next

\* What the invariant says of the streams is what an observer may rely on.
LEMMA ConsoleInvTells ==
  ASSUME ConsoleInv
  PROVE  Console!ConsoleConsistent
  <1>0. ConsoleTyped BY DEF ConsoleInv
  <1>1. ASSUME NEW s \in Console!Streams, NEW t \in 1..Len(turns[s])
        PROVE  /\ t = 1 => turns[s][t].from = 0
               /\ Console!Until(s, t) = turns[s][t].from + turns[s][t].given
               /\ SubSeq(Written(s), turns[s][t].from + 1, Console!Until(s, t))
                    = Console!Given(turns[s][t])
               /\ turns[s][t].result = "ok" => turns[s][t].given = Len(turns[s][t].record)
    <2>1. Piece(s, t) BY DEF ConsoleInv, Streaming, Cut
    <2>2. PICK turn \in Turn : turn = turns[s][t] BY <1>0, TurnIs
    <2>3. PICK w \in Seq(Bytes) : w = Written(s) BY <1>0, WrittenIs
    <2>4. PICK f \in Nat, g \in Nat : f = turn.from /\ g = turn.given BY DEF Turn
    <2>5. PICK record \in Seq(Bytes) : record = turn.record BY DEF Turn
    <2>6. /\ Len(w) \in Nat /\ Len(record) \in Nat /\ g <= Len(record) /\ f + g <= Len(w)
          /\ \A i \in 1..g : w[f + i] = record[i]
      BY <2>1, <2>2, <2>3, <2>4, <2>5 DEF Piece
    <2>7. SubSeq(w, f + 1, f + g) = SubSeq(record, 1, g)
      <3>1. /\ SubSeq(w, f + 1, f + g) \in Seq(Bytes) /\ Len(SubSeq(w, f + 1, f + g)) = g
            /\ \A i \in 1..g : SubSeq(w, f + 1, f + g)[i] = w[f + i]
        BY <2>6
      <3>2. /\ SubSeq(record, 1, g) \in Seq(Bytes) /\ Len(SubSeq(record, 1, g)) = g
            /\ \A i \in 1..g : SubSeq(record, 1, g)[i] = record[i]
        BY <2>6
      <3>3. PICK a \in Seq(Bytes) : a = SubSeq(w, f + 1, f + g) BY <3>1
      <3>4. PICK b \in Seq(Bytes) : b = SubSeq(record, 1, g) BY <3>2
      <3>5. Len(a) = g /\ Len(b) = g /\ \A i \in 1..g : a[i] = b[i]
        BY <2>6, <3>1, <3>2, <3>3, <3>4
      <3>6. a = b BY <3>5, SameElements
      <3> QED BY <3>3, <3>4, <3>6
    <2> QED BY <2>1, <2>2, <2>3, <2>4, <2>5, <2>7 DEF Piece, Console!Given
  <1>2. ASSUME NEW s \in Console!Streams, NEW t \in 1..Len(turns[s])
        PROVE  OwnRecord(turns[s][t].by, turns[s][t].record)
    BY DEF ConsoleInv, Owned
  <1>3. \A s \in Console!Streams : DOMAIN turns[s] = 1..Len(turns[s]) BY <1>0, TurnIs
  <1>4. \A s \in Console!Streams : \A t \in 1..Len(turns[s]) :
          DOMAIN turns[s][t].record = 1..Len(turns[s][t].record)
    <2>1. ASSUME NEW s \in Console!Streams, NEW t \in 1..Len(turns[s])
          PROVE  DOMAIN turns[s][t].record = 1..Len(turns[s][t].record)
      <3>1. PICK turn \in Turn : turn = turns[s][t] BY <1>0, TurnIs
      <3>2. turn.record \in Seq(Bytes) BY DEF Turn
      <3> QED BY <3>1, <3>2
    <2> QED BY <2>1
  <1>5. \A s \in Console!Streams : turns[s] # <<>> =>
          Len(turns[s]) > 0 /\ Console!Last(turns[s]) = turns[s][Len(turns[s])]
    <2>1. ASSUME NEW s \in Console!Streams, turns[s] # <<>>
          PROVE  Len(turns[s]) > 0 /\ Console!Last(turns[s]) = turns[s][Len(turns[s])]
      <3>1. turns[s] \in Seq(Turn) BY <1>0, TurnIs
      <3> QED BY <2>1, <3>1 DEF Console!Last
    <2> QED BY <2>1
  <1>6. Console!StreamsWhole
    <2>1. ASSUME NEW s \in Console!Streams
          PROVE  /\ turns[s] = <<>> => Written(s) = <<>>
                 /\ turns[s] # <<>> /\ Console!Last(turns[s]).result = "ok" =>
                      /\ Len(shown[s]) >= Len(Console!Last(turns[s]).record)
                      /\ s = "stdout" => buffered = <<>>
      BY <1>5 DEF ConsoleInv, Streaming, Cut, Settles
    <2>2. \A s \in Console!Streams : \A t \in 1..Len(turns[s]) :
            \A i \in 1..Len(turns[s][t].record) : turns[s][t].record[i].by = turns[s][t].by
      BY <1>2 DEF OwnRecord
    <2>3. \A s \in Console!Streams : \A t \in DOMAIN turns[s] :
            /\ t \in 1..Len(turns[s])
            /\ \A i \in DOMAIN turns[s][t].record : turns[s][t].record[i].by = turns[s][t].by
      BY <1>3, <1>4, <2>2
    <2>4. \A s \in Console!Streams : Console!Written(s) = Written(s) BY DEF Written
    <2> HIDE DEF Written
    <2> QED BY <1>1, <2>1, <2>3, <2>4 DEF Console!StreamsWhole
  <1>7. Console!RecordsTrue BY <1>2, <1>3 DEF Console!RecordsTrue, OwnRecord, TrueRecord, Content
  <1> QED BY <1>6, <1>7 DEF Console!ConsoleConsistent

\* The console elements beside the other ones, for every number of elements and
\* of writes: a record leaves the process whole and unmixed with another's, in
\* the place where the one before it ended, whatever fails between.
THEOREM ConsoleStaysConsistent ==
  Spec => []ConsoleConsistent
  <1>0. Console!ConsoleAssumption BY ElementsAssumption DEF ElementsAssumption
  <1>1. Init => ConsoleInv BY <1>0, ConsoleInit DEF Init
  <1>2. ConsoleInv /\ [Next]_elementsVars => ConsoleInv' BY <1>0, ConsoleSteps
  <1>3. ConsoleInv => ConsoleConsistent BY ConsoleInvTells DEF ConsoleConsistent
  <1> QED BY <1>1, <1>2, <1>3, PTL DEF Spec
-----------------------------------------------------------------------------
(***************************************************************************)
(* The HTTP generation of vlmanalysis. The request is what the settings    *)
(* say from the moment it is built; of the response the invariant keeps    *)
(* the status, which nothing that happens to the body may hide.            *)
(***************************************************************************)

SystemMessage(text) == [role |-> "system", parts |-> <<text>>]
UserMessage(r) ==
  [role |-> "user", parts |-> <<"prompt">> \o [f \in 1..r.frames |-> <<"frame", f>>]]

ChatTyped ==
  /\ request \in Chat!Requests
  /\ heldBytes \in Nat /\ heldBytes <= MaxResponseBytes
ChatOrder ==
  /\ phase \in {"idle", "sending", "reading", "done"}
  /\ phase \in {"idle", "sending"} => status = 0
  /\ phase = "reading" => status \in Chat!Statuses
  /\ phase # "done" => verdict = Chat!NoVerdict
ChatTold == sent = Chat!NotSent \/ sent = Chat!Serialize(request)
ChatInv == ChatTyped /\ ChatOrder /\ ChatTold /\ Chat!GenerationHonest

\* Two sequences one after the other.
LEMMA OneThenOther ==
  ASSUME NEW S, NEW a \in Seq(S), NEW b \in Seq(S)
  PROVE  /\ Len(a \o b) = Len(a) + Len(b)
         /\ \A i \in 1..Len(a) : (a \o b)[i] = a[i]
         /\ \A i \in 1..Len(b) : (a \o b)[Len(a) + i] = b[i]
  OBVIOUS

\* And two elements.
LEMMA OneAfterOther ==
  ASSUME NEW a, NEW b
  PROVE  <<a>> \o <<b>> = <<a, b>>
  <1>0. <<a>> \in Seq({a, b}) /\ <<b>> \in Seq({a, b}) /\ <<a, b>> \in Seq({a, b}) OBVIOUS
  <1>1. PICK S : S = {a, b} OBVIOUS
  <1>2. PICK v \in Seq(S) : v = <<a>> BY <1>0, <1>1
  <1>3. PICK w \in Seq(S) : w = <<b>> BY <1>0, <1>1
  <1>4. PICK q \in Seq(S) : q = <<a, b>> BY <1>0, <1>1
  <1>5. PICK p \in Seq(S) : p = v \o w BY TwoPieces
  <1>6. /\ Len(p) = Len(v) + Len(w)
        /\ \A i \in 1..Len(v) : p[i] = v[i]
        /\ \A i \in 1..Len(w) : p[Len(v) + i] = w[i]
    BY <1>5, OneThenOther
  <1>7. Len(v) = 1 /\ v[1] = a /\ Len(w) = 1 /\ w[1] = b BY <1>2, <1>3
  <1>8. Len(p) = 2 /\ p[1] = a /\ p[2] = b BY <1>6, <1>7
  <1>9. Len(q) = 2 /\ q[1] = a /\ q[2] = b BY <1>4
  <1>10. \A i \in 1..2 : i = 1 \/ i = 2 OBVIOUS
  <1>11. p = q BY <1>8, <1>9, <1>10, SameElements
  <1> QED BY <1>2, <1>3, <1>4, <1>5, <1>11

\* A set of one element or none as a sequence.
LEMMA FewInOrder ==
  /\ Chat!SetToSeq({}) = <<>>
  /\ \A x : Chat!SetToSeq({x}) = <<x>>
  <1>1. \A S : Chat!Cardinality(S) = Cardinality(S) BY DEF Chat!Cardinality, Cardinality
  <1>2. Chat!SetToSeq({}) = <<>>
    <2>1. 1..Chat!Cardinality({}) = {} BY <1>1, FS_EmptySet
    <2>2. <<>> \in [{} -> {}] /\ Chat!IsInjective(<<>>) BY DEF Chat!IsInjective
    <2>3. \A f \in [{} -> {}] : f = <<>>
      <3>1. ASSUME NEW f \in [{} -> {}] PROVE f = <<>>
        <4>1. f \in Seq({}) /\ Len(f) = 0
          <5>1. 1..0 = {} OBVIOUS
          <5>2. f \in [1..0 -> {}] BY <5>1
          <5> QED BY <5>2
        <4> QED BY <4>1
      <3> QED BY <3>1
    <2> QED BY <2>1, <2>2, <2>3 DEF Chat!SetToSeq
  <1>3. ASSUME NEW x PROVE Chat!SetToSeq({x}) = <<x>>
    <2>1. 1..Chat!Cardinality({x}) = 1..1 BY <1>1, FS_Singleton
    <2>2. <<x>> \in [1..1 -> {x}] /\ Chat!IsInjective(<<x>>) BY DEF Chat!IsInjective
    <2>3. \A f \in [1..1 -> {x}] : f = <<x>>
      <3>1. ASSUME NEW f \in [1..1 -> {x}] PROVE f = <<x>>
        <4>1. f \in Seq({x}) /\ Len(f) = 1 /\ f[1] = x OBVIOUS
        <4> QED BY <4>1
      <3> QED BY <3>1
    <2> QED BY <2>1, <2>2, <2>3 DEF Chat!SetToSeq
  <1> QED BY <1>2, <1>3

\* The messages of a request: the system prompt if there is one, and the user's.
LEMMA MessagesAre ==
  ASSUME NEW r \in Chat!Requests
  PROVE  \/ r.system = {} /\ Chat!Messages(r) = <<UserMessage(r)>>
         \/ \E text : /\ r.system = {text}
                      /\ Chat!Messages(r) = <<SystemMessage(text), UserMessage(r)>>
  <1>1. Chat!Messages(r) = Chat!SetToSeq({SystemMessage(text) : text \in r.system}) \o <<UserMessage(r)>>
    BY DEF Chat!Messages, SystemMessage, UserMessage
  <1>2. r.system \in {{}, {""}, {"instructions"}} BY DEF Chat!Requests
  <1> DEFINE user == UserMessage(r)
  <1> HIDE DEF user
  <1>3. CASE r.system = {}
    <2>1. {SystemMessage(text) : text \in r.system} = {} BY <1>3
    <2>2. Chat!Messages(r) = <<>> \o <<user>> BY <1>1, <2>1, FewInOrder DEF user
    <2>3. <<>> \o <<user>> = <<user>> OBVIOUS
    <2> QED BY <1>3, <2>2, <2>3 DEF user
  <1>4. ASSUME NEW text, r.system = {text}
        PROVE  Chat!Messages(r) = <<SystemMessage(text), user>>
    <2>1. {SystemMessage(t) : t \in r.system} = {SystemMessage(text)} BY <1>4
    <2> DEFINE system == SystemMessage(text)
    <2>2. Chat!SetToSeq({system}) = <<system>> BY FewInOrder
    <2>3. Chat!Messages(r) = <<system>> \o <<user>> BY <1>1, <2>1, <2>2 DEF user
    <2> HIDE DEF system
    <2>4. <<system>> \o <<user>> = <<system, user>> BY OneAfterOther
    <2> QED BY <2>3, <2>4 DEF system
  <1> QED BY <1>2, <1>3, <1>4 DEF user

\* The parts of the user's message.
LEMMA UserPartsAre ==
  ASSUME Chat!ChatAssumption, NEW r \in Chat!Requests
  PROVE  LET parts == UserMessage(r).parts
         IN /\ Len(parts) = r.frames + 1 /\ parts[1] = "prompt" /\ r.frames \in Nat
            /\ \A f \in 1..r.frames : parts[f + 1] = <<"frame", f>>
  <1> DEFINE n == r.frames
  <1>1. n \in Nat
    <2>1. n \in 0..MaxFrames BY DEF Chat!Requests
    <2>2. MaxFrames \in Nat BY DEF Chat!ChatAssumption
    <2> QED BY <2>1, <2>2
  <1> HIDE DEF n
  <1> DEFINE T == {"prompt"} \union {<<"frame", f>> : f \in 1..n}
             frames == [f \in 1..n |-> <<"frame", f>>]
             prompt == <<"prompt">>
  <1>2. frames \in Seq(T) /\ Len(frames) = n /\ \A f \in 1..n : frames[f] = <<"frame", f>> BY <1>1
  <1>3. prompt \in Seq(T) /\ Len(prompt) = 1 /\ prompt[1] = "prompt" OBVIOUS
  <1> HIDE DEF T, frames, prompt
  <1>4. /\ Len(prompt \o frames) = n + 1 /\ (prompt \o frames)[1] = prompt[1]
        /\ \A f \in 1..n : (prompt \o frames)[f + 1] = frames[f]
    <2>1. /\ Len(prompt \o frames) = Len(prompt) + Len(frames)
          /\ \A i \in 1..Len(prompt) : (prompt \o frames)[i] = prompt[i]
          /\ \A i \in 1..Len(frames) : (prompt \o frames)[Len(prompt) + i] = frames[i]
      <3>1. PICK a \in Seq(T), b \in Seq(T) : a = prompt /\ b = frames BY <1>2, <1>3
      <3>2. /\ Len(a \o b) = Len(a) + Len(b)
            /\ \A i \in 1..Len(a) : (a \o b)[i] = a[i]
            /\ \A i \in 1..Len(b) : (a \o b)[Len(a) + i] = b[i]
        BY OneThenOther
      <3> QED BY <3>1, <3>2
    <2>2. 1 \in 1..1 /\ 1 + n = n + 1 /\ \A f \in 1..n : 1 + f = f + 1 BY <1>1
    <2> QED BY <1>2, <1>3, <2>1, <2>2
  <1>5. UserMessage(r).parts = prompt \o frames BY DEF UserMessage, prompt, frames, n
  <1> QED BY <1>1, <1>2, <1>3, <1>4, <1>5 DEF n

\* What a wire request says of the request it was built from.
SaysRequest(r, wire, user) ==
  /\ (wire.maxTokens = {}) # (wire.maxCompletionTokens = {})
  /\ (wire.temperature = {}) = (wire.topP = {})
  /\ user.role = "user" /\ user.parts[1] = "prompt"
  /\ \A f \in 1..r.frames : user.parts[f + 1] = <<"frame", f>>
  /\ user.plain = (r.frames = 0)
  /\ {m.parts[1] : m \in Chat!ToSet(Chat!Front(wire.messages))} = r.system

\* A request that was built says what RequestTrue asks of it.
LEMMA SerializedIsTrue ==
  ASSUME Chat!ChatAssumption, NEW r \in Chat!Requests, NEW wire, wire = Chat!Serialize(r),
         NEW user, user = Chat!Last(wire.messages)
  PROVE  SaysRequest(r, wire, user)
  <1> DEFINE u == Chat!WireMessage(UserMessage(r))
             n == r.frames
  <1>1. /\ Len(UserMessage(r).parts) = n + 1 /\ UserMessage(r).parts[1] = "prompt" /\ n \in Nat
        /\ \A f \in 1..n : UserMessage(r).parts[f + 1] = <<"frame", f>>
    BY UserPartsAre
  <1>2. /\ u.role = "user" /\ u.parts = UserMessage(r).parts
        /\ u.plain = (Len(UserMessage(r).parts) = 1)
    BY DEF Chat!WireMessage, UserMessage
  <1>3. u.plain = (n = 0) BY <1>1, <1>2
  <1>4. wire.messages = [m \in DOMAIN Chat!Messages(r) |-> Chat!WireMessage(Chat!Messages(r)[m])]
    BY DEF Chat!Serialize
  <1>5. /\ Chat!Last(wire.messages) = u
        /\ {m.parts[1] : m \in Chat!ToSet(Chat!Front(wire.messages))} = r.system
    <2> HIDE DEF u
    <2>1. CASE r.system = {} /\ Chat!Messages(r) = <<UserMessage(r)>>
      <3>1. wire.messages = <<u>>
        <4>1. DOMAIN <<UserMessage(r)>> = 1..1 /\ <<UserMessage(r)>>[1] = UserMessage(r) OBVIOUS
        <4>2. wire.messages = [m \in 1..1 |-> u]
          BY <1>4, <2>1, <4>1 DEF u
        <4> QED BY <4>2
      <3>2. Len(<<u>>) = 1 /\ <<u>>[1] = u OBVIOUS
      <3>3. SubSeq(<<u>>, 1, 0) = <<>> OBVIOUS
      <3>4. Chat!Last(wire.messages) = u BY <3>1, <3>2 DEF Chat!Last
      <3>5. Chat!Front(wire.messages) = <<>> BY <3>1, <3>2, <3>3 DEF Chat!Front
      <3>6. Chat!ToSet(<<>>) = {} BY DEF Chat!ToSet
      <3> QED BY <2>1, <3>4, <3>5, <3>6
    <2>2. ASSUME NEW text, r.system = {text},
                 Chat!Messages(r) = <<SystemMessage(text), UserMessage(r)>>
          PROVE  /\ Chat!Last(wire.messages) = u
                 /\ {m.parts[1] : m \in Chat!ToSet(Chat!Front(wire.messages))} = r.system
      <3> DEFINE s == Chat!WireMessage(SystemMessage(text))
      <3>0. s.parts[1] = text BY DEF Chat!WireMessage, SystemMessage
      <3> HIDE DEF s
      <3>1. wire.messages = <<s, u>>
        <4> DEFINE messages == <<SystemMessage(text), UserMessage(r)>>
        <4>1. /\ DOMAIN messages = 1..2 /\ messages[1] = SystemMessage(text)
              /\ messages[2] = UserMessage(r)
          OBVIOUS
        <4> HIDE DEF messages
        <4>2. wire.messages = [m \in 1..2 |-> Chat!WireMessage(messages[m])]
          BY <1>4, <2>2, <4>1 DEF messages
        <4>3. wire.messages[1] = s /\ wire.messages[2] = u BY <4>1, <4>2 DEF s, u
        <4>4. wire.messages \in Seq({s, u}) /\ Len(wire.messages) = 2 BY <4>2, <4>3
        <4> QED BY <4>3, <4>4
      <3>2. Len(<<s, u>>) = 2 /\ <<s, u>>[2] = u OBVIOUS
      <3>3. SubSeq(<<s, u>>, 1, 1) = <<s>>
        <4>0. <<s>> \in Seq({s, u}) /\ <<s, u>> \in Seq({s, u}) OBVIOUS
        <4>1. PICK S : S = {s, u} OBVIOUS
        <4>2. PICK q \in Seq(S) : q = <<s, u>> BY <4>0, <4>1
        <4>3. PICK w \in Seq(S) : w = <<s>> BY <4>0, <4>1
        <4>4. Len(q) = 2 /\ q[1] = s /\ Len(w) = 1 /\ w[1] = s BY <4>2, <4>3
        <4>5. PICK p \in Seq(S) : p = SubSeq(q, 1, 1) BY <4>4
        <4>6. Len(p) = 1 /\ p[1] = s BY <4>4, <4>5
        <4>7. \A i \in 1..1 : i = 1 OBVIOUS
        <4>8. p = w BY <4>4, <4>6, <4>7, SameElements
        <4> QED BY <4>2, <4>3, <4>5, <4>8
      <3>4. Chat!Last(wire.messages) = u BY <3>1, <3>2 DEF Chat!Last
      <3>5. Chat!Front(wire.messages) = <<s>> BY <3>1, <3>2, <3>3 DEF Chat!Front
      <3>6. Chat!ToSet(<<s>>) = {s} BY DEF Chat!ToSet
      <3>7. {m.parts[1] : m \in {s}} = {s.parts[1]} OBVIOUS
      <3> QED BY <2>2, <3>0, <3>4, <3>5, <3>6, <3>7
    <2> QED BY <2>1, <2>2, MessagesAre
  <1>6. (wire.maxTokens = {}) # (wire.maxCompletionTokens = {})
    <2>1. r.limit \in {"legacy", "completion"} BY DEF Chat!Requests
    <2>2. /\ wire.maxTokens = Chat!Given(r.limit = "legacy", "max")
          /\ wire.maxCompletionTokens = Chat!Given(r.limit = "completion", "max")
      BY DEF Chat!Serialize
    <2>3. /\ wire.maxTokens = {} <=> r.limit # "legacy"
          /\ wire.maxCompletionTokens = {} <=> r.limit # "completion"
      BY <2>2 DEF Chat!Given
    <2> QED BY <2>1, <2>3
  <1>7. (wire.temperature = {}) = (wire.topP = {})
    <2>1. /\ wire.temperature = Chat!Given(r.sampling = "configured", "t")
          /\ wire.topP = Chat!Given(r.sampling = "configured", "p")
      BY DEF Chat!Serialize
    <2>2. /\ wire.temperature = {} <=> r.sampling # "configured"
          /\ wire.topP = {} <=> r.sampling # "configured"
      BY <2>1 DEF Chat!Given
    <2> QED BY <2>2
  <1>8. user = u BY <1>5
  <1> HIDE DEF u
  <1>9. /\ user.role = "user" /\ user.parts[1] = "prompt"
        /\ \A f \in 1..r.frames : user.parts[f + 1] = <<"frame", f>>
    BY <1>1, <1>2, <1>8
  <1>10. user.plain = (r.frames = 0) BY <1>3, <1>8
  <1> QED BY <1>5, <1>6, <1>7, <1>9, <1>10 DEF SaysRequest

\* The answer to a body that ended, for whatever reason: the status first.
LEMMA EndIsHonest ==
  ASSUME ChatTyped, NEW fault \in {"none", "read", "large"}, NEW bytes \in Nat,
         heldBytes <= bytes, Chat!End(fault, bytes), status \in Chat!Statuses,
         UNCHANGED <<request, status, heldBytes>>
  PROVE  phase' = "done" /\ Chat!GenerationHonest'
  <1>0. /\ phase' = "done" /\ request' = request /\ status' = status /\ heldBytes' = heldBytes
        /\ heldBytes' <= MaxResponseBytes /\ status # 0
    BY DEF Chat!End, Chat!Conclude, ChatTyped, Chat!Statuses
  <1>1. CASE ~Chat!Success(status)
    <2>1. verdict' = [kind |-> "http", status |-> {status}, bytes |-> {bytes}, text |-> "none"]
      BY <1>1 DEF Chat!End, Chat!Conclude
    <2>2. /\ verdict'.kind = "http" /\ verdict'.status = {status} /\ verdict'.bytes = {bytes}
      BY <2>1
    <2>3. \E b \in verdict'.bytes : b >= heldBytes'
      <3>1. bytes >= heldBytes' BY <1>0 DEF ChatTyped
      <3> QED BY <2>2, <3>1
    <2>4. ~Chat!Success(status)' BY <1>0, <1>1 DEF Chat!Success
    <2> QED BY <1>0, <2>2, <2>3, <2>4 DEF Chat!GenerationHonest
  <1>2. CASE Chat!Success(status)
    <2>1. Chat!Success(status)' BY <1>0, <1>2 DEF Chat!Success
    <2>2. \/ verdict'.kind \in {"http", "response"} /\ verdict'.status = {}
          \/ \E choices \in Chat!Documents :
               /\ choices # <<>> /\ Chat!Acceptable(Head(choices))
               /\ verdict' = [kind |-> "generated", status |-> {}, bytes |-> {},
                              text |-> Head(choices).content]
      BY <1>2 DEF Chat!End, Chat!Conclude
    <2>3. CASE verdict'.kind \in {"http", "response"} /\ verdict'.status = {}
      BY <1>0, <2>1, <2>3 DEF Chat!GenerationHonest
    <2>4. CASE \E choices \in Chat!Documents :
                 /\ choices # <<>> /\ Chat!Acceptable(Head(choices))
                 /\ verdict' = [kind |-> "generated", status |-> {}, bytes |-> {},
                                text |-> Head(choices).content]
      <3>0. PICK choices \in Chat!Documents :
              /\ choices # <<>> /\ Chat!Acceptable(Head(choices))
              /\ verdict' = [kind |-> "generated", status |-> {}, bytes |-> {},
                             text |-> Head(choices).content]
        BY <2>4
      <3>1. PICK answer : answer = Head(choices) OBVIOUS
      <3>2. answer.content \in {"none", "", "text", "array", "object"}
        <4>1. CASE choices \in {<<a>> : a \in Chat!Answers}
          <5>1. PICK a \in Chat!Answers : choices = <<a>> BY <4>1
          <5>2. Head(<<a>>) = a OBVIOUS
          <5>3. a.content \in {"none", "", "text", "array", "object"} BY DEF Chat!Answers
          <5> QED BY <3>1, <5>1, <5>2, <5>3
        <4>2. CASE choices = <<[refusal |-> "refused", finish |-> "stop", content |-> "text"],
                               [refusal |-> "", finish |-> "stop", content |-> "object"]>>
          <5>1. \A a, b : Head(<<a, b>>) = a OBVIOUS
          <5>2. PICK a : a = [refusal |-> "refused", finish |-> "stop", content |-> "text"] OBVIOUS
          <5>3. PICK b : b = [refusal |-> "", finish |-> "stop", content |-> "object"] OBVIOUS
          <5>4. choices = <<a, b>> BY <4>2, <5>2, <5>3
          <5>5. answer = a BY <3>1, <5>1, <5>4
          <5>6. a.content = "text" BY <5>2
          <5> QED BY <5>5, <5>6
        <4> QED BY <3>0, <4>1, <4>2 DEF Chat!Documents
      <3>3. /\ answer.content \in {"text", "array", "object"}
            /\ request.format \in {"json-object", "json-schema"} => answer.content = "object"
        BY <3>0, <3>1, <3>2 DEF Chat!Acceptable
      <3>4. /\ verdict'.kind = "generated" /\ verdict'.status = {} /\ verdict'.text = answer.content
        BY <3>0, <3>1
      <3> QED BY <1>0, <2>1, <3>3, <3>4 DEF Chat!GenerationHonest
    <2> QED BY <2>2, <2>3, <2>4
  <1> QED BY <1>0, <1>1, <1>2

\* Every step of a generation.
LEMMA ChatSteps ==
  ASSUME Chat!ChatAssumption, ChatInv, [Next]_elementsVars
  PROVE  ChatInv'
  <1>0. ChatTyped /\ ChatOrder /\ ChatTold /\ Chat!GenerationHonest BY DEF ChatInv
  <1>1. CASE UNCHANGED chatVars
    <2> USE <1>1 DEF chatVars
    <2>1. ChatTyped' /\ ChatOrder' BY <1>0 DEF ChatTyped, ChatOrder
    <2>2. ChatTold' BY <1>0 DEF ChatTold
    <2>3. Chat!GenerationHonest' BY <1>0 DEF Chat!GenerationHonest, Chat!Success
    <2> QED BY <2>1, <2>2, <2>3 DEF ChatInv
  <1>2. CASE Chat!Generate
    <2>1. /\ status = 0 /\ verdict = Chat!NoVerdict /\ phase = "idle"
          /\ UNCHANGED <<request, status, heldBytes>>
      BY <1>0, <1>2 DEF Chat!Generate, ChatOrder
    <2>2. CASE Chat!Serializable(request)
      <3>1. /\ sent' = Chat!Serialize(request) /\ phase' = "sending" /\ UNCHANGED verdict
        BY <1>2, <2>2 DEF Chat!Generate
      <3>2. ChatTyped' /\ ChatOrder' BY <1>0, <2>1, <3>1 DEF ChatTyped, ChatOrder
      <3>3. ChatTold' BY <2>1, <3>1 DEF ChatTold
      <3>4. Chat!GenerationHonest' BY <1>0, <2>1, <3>1 DEF Chat!GenerationHonest, Chat!Success
      <3> QED BY <3>2, <3>3, <3>4 DEF ChatInv
    <2>3. CASE ~Chat!Serializable(request)
      <3>1. /\ phase' = "done" /\ UNCHANGED sent
            /\ verdict' = [kind |-> "response", status |-> {}, bytes |-> {}, text |-> "none"]
        BY <1>2, <2>3 DEF Chat!Generate, Chat!Conclude
      <3>2. verdict'.kind = "response" /\ verdict'.status = {} BY <3>1
      <3>3. ChatTyped' /\ ChatOrder' BY <1>0, <2>1, <3>1 DEF ChatTyped, ChatOrder
      <3>4. ChatTold' BY <1>0, <2>1, <3>1 DEF ChatTold
      <3>5. heldBytes' <= MaxResponseBytes BY <1>0, <2>1 DEF ChatTyped
      <3>6. Chat!GenerationHonest' BY <2>1, <3>1, <3>2, <3>5 DEF Chat!GenerationHonest
      <3> QED BY <3>3, <3>4, <3>6 DEF ChatInv
    <2> QED BY <2>2, <2>3
  <1>3. CASE Chat!Respond
    <2>1. /\ phase = "sending" /\ phase' = "reading" /\ status' \in Chat!Statuses
          /\ UNCHANGED <<request, sent, heldBytes, verdict>> /\ verdict = Chat!NoVerdict
      BY <1>0, <1>3 DEF Chat!Respond, ChatOrder
    <2>2. ChatTyped' /\ ChatOrder' BY <1>0, <2>1 DEF ChatTyped, ChatOrder
    <2>3. ChatTold' BY <1>0, <2>1 DEF ChatTold
    <2>4. verdict'.kind = "none" /\ verdict'.status = {} BY <2>1 DEF Chat!NoVerdict
    <2>5. heldBytes' <= MaxResponseBytes BY <1>0, <2>1 DEF ChatTyped
    <2>6. Chat!GenerationHonest' BY <2>1, <2>4, <2>5 DEF Chat!GenerationHonest
    <2> QED BY <2>2, <2>3, <2>6 DEF ChatInv
  <1>4. CASE Chat!SendFails \/ Chat!Timeout
    <2>1. /\ phase \in {"sending", "reading"} /\ phase' = "done"
          /\ UNCHANGED <<request, sent, status, heldBytes>>
      BY <1>4 DEF Chat!SendFails, Chat!Timeout, Chat!Conclude
    <2>2. /\ verdict'.kind \in {"http", "timeout"} /\ verdict'.status = {}
          /\ verdict'.kind = "http" => status = 0
      <3>1. CASE Chat!SendFails
        <4>1. /\ verdict' = [kind |-> "http", status |-> {}, bytes |-> {}, text |-> "none"]
              /\ phase = "sending"
          BY <3>1 DEF Chat!SendFails, Chat!Conclude
        <4> QED BY <1>0, <4>1 DEF ChatOrder
      <3>2. CASE Chat!Timeout
        <4>1. verdict' = [kind |-> "timeout", status |-> {}, bytes |-> {}, text |-> "none"]
          BY <3>2 DEF Chat!Timeout, Chat!Conclude
        <4> QED BY <4>1
      <3> QED BY <1>4, <3>1, <3>2
    <2>3. ChatTyped' /\ ChatOrder' BY <1>0, <2>1 DEF ChatTyped, ChatOrder
    <2>4. ChatTold' BY <1>0, <2>1 DEF ChatTold
    <2>5. heldBytes' <= MaxResponseBytes BY <1>0, <2>1 DEF ChatTyped
    <2>6. Chat!GenerationHonest' BY <2>1, <2>2, <2>5 DEF Chat!GenerationHonest
    <2> QED BY <2>3, <2>4, <2>6 DEF ChatInv
  <1>5. ASSUME NEW fault \in {"none", "read", "large"}, NEW bytes \in Nat, heldBytes <= bytes,
               phase = "reading", Chat!End(fault, bytes), UNCHANGED <<request, sent, status, heldBytes>>
        PROVE  ChatInv'
    <2>1. phase' = "done" /\ Chat!GenerationHonest' BY <1>0, <1>5, EndIsHonest DEF ChatOrder
    <2>2. ChatTyped' /\ ChatOrder' BY <1>0, <1>5, <2>1 DEF ChatTyped, ChatOrder
    <2>3. ChatTold' BY <1>0, <1>5 DEF ChatTold
    <2> QED BY <2>1, <2>2, <2>3 DEF ChatInv
  <1>6. CASE Chat!Chunk
    <2>1. PICK size \in 1..MaxChunk :
            IF heldBytes + size > MaxResponseBytes
            THEN Chat!End("large", heldBytes + size) /\ UNCHANGED heldBytes
            ELSE heldBytes' = heldBytes + size /\ UNCHANGED <<phase, verdict>>
      BY <1>6 DEF Chat!Chunk
    <2>2. phase = "reading" /\ UNCHANGED <<request, sent, status>> BY <1>6 DEF Chat!Chunk
    <2>3. heldBytes + size \in Nat /\ heldBytes <= heldBytes + size BY <1>0 DEF ChatTyped
    <2>4. CASE heldBytes + size > MaxResponseBytes BY <1>5, <2>1, <2>2, <2>3, <2>4
    <2>5. CASE ~(heldBytes + size > MaxResponseBytes)
      <3>1. /\ heldBytes' = heldBytes + size /\ UNCHANGED <<phase, verdict>>
            /\ verdict = Chat!NoVerdict
        BY <1>0, <2>1, <2>2, <2>5 DEF ChatOrder
      <3>2. MaxResponseBytes \in Nat BY DEF Chat!ChatAssumption
      <3>3. heldBytes' \in Nat /\ heldBytes' <= MaxResponseBytes BY <2>3, <2>5, <3>1, <3>2
      <3>4. ChatTyped' /\ ChatOrder' BY <1>0, <2>2, <3>1, <3>3 DEF ChatTyped, ChatOrder
      <3>5. ChatTold' BY <1>0, <2>2 DEF ChatTold
      <3>6. verdict'.kind = "none" /\ verdict'.status = {} BY <3>1 DEF Chat!NoVerdict
      <3>7. Chat!GenerationHonest' BY <2>2, <3>1, <3>3, <3>6 DEF Chat!GenerationHonest
      <3> QED BY <3>4, <3>5, <3>7 DEF ChatInv
    <2> QED BY <2>4, <2>5
  <1>7. CASE Chat!BodyFails
    <2>1. heldBytes \in Nat /\ heldBytes <= heldBytes BY <1>0 DEF ChatTyped
    <2> QED BY <1>5, <1>7, <2>1 DEF Chat!BodyFails
  <1>8. CASE Chat!BodyEnds
    <2>1. heldBytes \in Nat /\ heldBytes <= heldBytes BY <1>0 DEF ChatTyped
    <2> QED BY <1>5, <1>8, <2>1 DEF Chat!BodyEnds
  <1>9. CASE OnlyOf("chat") /\ Chat!Next
    BY <1>2, <1>3, <1>4, <1>6, <1>7, <1>8, <1>9 DEF Chat!Next
  <1>10. CASE OnlyOf("sink") \/ OnlyOf("src") \/ OnlyOf("ocrs") \/ OnlyOf("console")
    BY <1>1, <1>10 DEF OnlyOf
  <1>11. CASE UNCHANGED elementsVars BY <1>1, <1>11 DEF elementsVars
  <1> QED BY <1>9, <1>10, <1>11 DEF Next

\* One generation beside the other elements, for every limit of the response and
\* every number of frames: the provider is told what was configured, and the
\* element what became of it, the status of a failure above all.
THEOREM ChatStaysConsistent ==
  Spec => []ChatConsistent
  <1>0. Chat!ChatAssumption BY ElementsAssumption DEF ElementsAssumption
  <1>1. Init => ChatInv
    <2> SUFFICES ASSUME Init PROVE ChatInv OBVIOUS
    <2>1. Chat!Init BY DEF Init
    <2>2. MaxResponseBytes \in Nat BY <1>0 DEF Chat!ChatAssumption
    <2>3. ChatTyped /\ ChatTold BY <2>1, <2>2 DEF Chat!Init, ChatTyped, ChatTold
    <2>4. ChatOrder BY <2>1 DEF Chat!Init, ChatOrder
    <2>5. verdict.kind = "none" /\ verdict.status = {} BY <2>1 DEF Chat!Init, Chat!NoVerdict
    <2>6. Chat!GenerationHonest BY <2>1, <2>3, <2>5 DEF Chat!Init, ChatTyped, Chat!GenerationHonest
    <2> QED BY <2>3, <2>4, <2>6 DEF ChatInv
  <1>2. ChatInv /\ [Next]_elementsVars => ChatInv' BY <1>0, ChatSteps
  <1>3. ChatInv => ChatConsistent
    <2> SUFFICES ASSUME ChatInv PROVE ChatConsistent OBVIOUS
    <2>1. Chat!GenerationHonest /\ ChatTold /\ request \in Chat!Requests BY DEF ChatInv, ChatTyped
    <2>2. Chat!RequestTrue
      <3>1. SUFFICES ASSUME sent # Chat!NotSent
                     PROVE  SaysRequest(request, sent, Chat!Last(sent.messages))
        BY DEF Chat!RequestTrue, SaysRequest
      <3>2. sent = Chat!Serialize(request) BY <2>1, <3>1 DEF ChatTold
      <3>3. PICK r \in Chat!Requests : r = request BY <2>1
      <3>4. PICK wire : wire = sent OBVIOUS
      <3>5. PICK user : user = Chat!Last(wire.messages) OBVIOUS
      <3>6. wire = Chat!Serialize(r) BY <3>2, <3>3, <3>4
      <3>7. SaysRequest(r, wire, user) BY <1>0, <3>5, <3>6, SerializedIsTrue
      <3> QED BY <3>3, <3>4, <3>5, <3>7
    <2> QED BY <2>1, <2>2 DEF ChatConsistent, Chat!ChatConsistent
  <1> QED BY <1>1, <1>2, <1>3, PTL DEF Spec
=============================================================================
