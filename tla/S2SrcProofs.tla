----------------------------- MODULE S2SrcProofs -----------------------------
(***************************************************************************)
(* Proofs about S2Src, for every capacity, start setting and stream, and   *)
(* any number of flushes, restarts and failures: the buffers returned are  *)
(* consecutive records, the receiver is where create() looks for it, and   *)
(* no failure is made up or reported twice.                                *)
(*                                                                         *)
(* The heart is NextIsDue: while the current worker is live, what it       *)
(* hands out next, from create()'s hands, the channel or the session, is   *)
(* the record behind the last one delivered.                               *)
(***************************************************************************)
EXTENDS S2Src, SequenceTheorems, TLAPS

\* The types, in five parts.
TypedFlags ==
  /\ started \in BOOLEAN /\ flushing \in BOOLEAN /\ unattached \in BOOLEAN /\ setting \in Settings
  /\ cpc \in {"idle", "wait", "recheck", "commit", "ended"} /\ lpc \in {"idle", "join"}
TypedEpochs ==
  /\ epoch \in 0..MaxEpochs /\ slot \in 0..MaxEpochs /\ chan \in 0..MaxEpochs
  /\ token \in 0..MaxEpochs /\ old \in 0..MaxEpochs
TypedErrors ==
  /\ cancelled \subseteq Epochs /\ failure \subseteq Epochs /\ claimed \subseteq Epochs
  /\ broken \subseteq Epochs /\ posts \in [Epochs -> Nat]
TypedCursors ==
  /\ last \in SeqNums \union {None} /\ got \in SeqNums \union {None}
  /\ delivered \in Seq(SeqNums)
TypedWorkers ==
  /\ wpc \in [Epochs -> Awaiting \union {"none", "failed", "stored", "exited"}]
  /\ from \in [Epochs -> SeqNums \union {None}] /\ written \in 0..(MaxSeq + 1)
  /\ pos \in [Epochs -> 0..(MaxSeq + 1)] /\ upto \in [Epochs -> 0..(MaxSeq + 1)]
TypedChannels ==
  /\ queue \in [Epochs -> Seq(SeqNums)] /\ \A e \in Epochs : Len(queue[e]) <= Capacity
Typed == TypedFlags /\ TypedEpochs /\ TypedErrors /\ TypedCursors /\ TypedWorkers /\ TypedChannels

\* Who runs: create() works for the current worker, an ended turn holds no
\* record, and every worker but the current one is cancelled.
Turns ==
  /\ started => epoch \in Epochs
  /\ cpc \in {"wait", "recheck", "commit"} => started /\ chan = epoch /\ token = epoch
  /\ cpc \in {"idle", "wait", "ended"} => got = None
  /\ cpc = "commit" => got # None
  /\ lpc = "join" => old \in Epochs /\ old \in cancelled
  /\ flushing => epoch \in cancelled
  /\ \A e \in Epochs : e > epoch => wpc[e] = "none"
  /\ \A e \in Epochs : e <= epoch => (started /\ e = epoch) \/ e \in cancelled

\* Why workers end: an uncancelled one that is over has failed.
Fates ==
  /\ claimed \subseteq broken
  /\ \A e \in Epochs : posts[e] = IF e \in claimed THEN 1 ELSE 0
  /\ \A e \in Epochs : wpc[e] \in {"failed", "stored"} => e \in broken
  /\ \A e \in Epochs : wpc[e] = "exited" => e \in broken \/ e \in cancelled
  /\ cpc = "recheck" /\ got = None => epoch \in cancelled \/ epoch \in broken

\* A channel holds consecutive records, up to the worker's position.
Flow ==
  /\ \A e \in Epochs : wpc[e] \in {"none", "check", "open"} => queue[e] = <<>>
  /\ \A e \in Epochs : wpc[e] = "send" => pos[e] < upto[e] /\ upto[e] <= written
  /\ \A e \in Epochs : \A k \in 1..Len(queue[e]) : queue[e][k] + Len(queue[e]) + 1 = pos[e] + k

\* The buffers returned since start(), and the cursor committed with the last.
Returned ==
  /\ DeliveredInOrder
  /\ IF delivered = <<>> THEN last = None ELSE last = delivered[Len(delivered)]

\* What the current worker hands out next is the record that is due.
IsDue(n) == IF last = None THEN FromSequence => n = StartSeqNum ELSE n = last + 1
Live == started /\ epoch \notin cancelled /\ cpc # "ended"
Begun == queue[epoch] # <<>> \/ wpc[epoch] \in {"read", "send"}
Front == IF queue[epoch] # <<>> THEN Head(queue[epoch]) ELSE pos[epoch]
NextIsDue ==
  /\ got # None => wpc[epoch] \notin {"none", "check", "open"}
  /\ Live /\ wpc[epoch] \in {"check", "open"} => from[epoch] = Resume /\ ~Exhausted
  /\ Live /\ Begun /\ got = None => IsDue(Front)
  /\ Live /\ got # None => IsDue(got) /\ (Begun => Front = got + 1)

IInv == Typed /\ ReceiverHome /\ Turns /\ Fates /\ Flow /\ Returned /\ NextIsDue
-----------------------------------------------------------------------------
\* None is not a sequence number.
LEMMA NoneIsNoSeqNum ==
  ASSUME S2SrcAssumption
  PROVE  None \in Nat /\ None \notin SeqNums /\ SeqNums \subseteq Nat /\ MaxSeq \in Nat
  BY DEF S2SrcAssumption, None, SeqNums

\* What waits in a channel or was delivered are numbers.
LEMMA Numbers ==
  ASSUME S2SrcAssumption, NEW s \in Seq(SeqNums)
  PROVE  Len(s) \in Nat /\ \A k \in 1..Len(s) : s[k] \in SeqNums /\ s[k] \in Nat
  <1>1. \A k \in 1..Len(s) : s[k] \in SeqNums OBVIOUS
  <1> QED BY <1>1, NoneIsNoSeqNum

\* The head and the tail of a channel that holds something.
LEMMA HeadAndTail ==
  ASSUME NEW S, NEW s \in Seq(S), s # <<>>
  PROVE  /\ Len(s) \in Nat \ {0} /\ Head(s) = s[1] /\ Head(s) \in S
         /\ Tail(s) \in Seq(S) /\ Len(Tail(s)) = Len(s) - 1
         /\ \A k \in 1..Len(Tail(s)) : Tail(s)[k] = s[k + 1]
         /\ Tail(s) = <<>> <=> Len(s) = 1
  <1>1. Len(s) \in Nat \ {0} BY EmptySeq
  <1>2. /\ Head(s) \in S /\ Tail(s) \in Seq(S) /\ Len(Tail(s)) = Len(s) - 1
        /\ \A k \in 1..(Len(s) - 1) : Tail(s)[k] = s[k + 1]
    BY HeadTailProperties
  <1>3. Head(s) = s[1] BY <1>1
  <1>4. Tail(s) = <<>> <=> Len(Tail(s)) = 0 BY <1>2, EmptySeq
  <1>5. Len(s) - 1 = 0 <=> Len(s) = 1 BY <1>1
  <1> QED BY <1>1, <1>2, <1>3, <1>4, <1>5

\* What is left of consecutive records when the first is taken.
LEMMA RestIsConsecutive ==
  ASSUME S2SrcAssumption, NEW q \in Seq(SeqNums), q # <<>>, NEW p \in Nat,
         \A k \in 1..Len(q) : q[k] + Len(q) + 1 = p + k
  PROVE  \A k \in 1..Len(Tail(q)) : Tail(q)[k] + Len(Tail(q)) + 1 = p + k
  <1> TAKE k \in 1..Len(Tail(q))
  <1>1. Len(q) \in Nat \ {0} /\ Len(Tail(q)) = Len(q) - 1 /\ Tail(q)[k] = q[k + 1] BY HeadAndTail
  <1>2. k \in Nat /\ k + 1 \in 1..Len(q) BY <1>1
  <1>3. q[k + 1] \in Nat /\ q[k + 1] + Len(q) + 1 = p + (k + 1) BY <1>2, Numbers
  <1>4. ASSUME NEW a \in Nat, NEW l \in Nat, NEW n \in Nat, a + l + 1 = p + (n + 1)
        PROVE  a + (l - 1) + 1 = p + n
    BY <1>4
  <1>5. q[k + 1] + (Len(q) - 1) + 1 = p + k BY <1>1, <1>2, <1>3, <1>4
  <1> QED BY <1>1, <1>5

\* A sequence that grows.
LEMMA Grown ==
  ASSUME NEW S, NEW s \in Seq(S), NEW n \in S
  PROVE  /\ Append(s, n) \in Seq(S) /\ Len(Append(s, n)) = Len(s) + 1 /\ Append(s, n) # <<>>
         /\ Append(s, n)[Len(s) + 1] = n /\ \A k \in 1..Len(s) : Append(s, n)[k] = s[k]
         /\ Head(Append(s, n)) = IF s = <<>> THEN n ELSE Head(s)
  OBVIOUS

\* The invariant's types are those of the model.
LEMMA TypedIsTypeOK ==
  ASSUME S2SrcAssumption, Typed
  PROVE  TypeOK
  <1>1. Epochs \union {NoEpoch} = 0..MaxEpochs BY DEF S2SrcAssumption, Epochs, NoEpoch
  <1>2. {started, flushing, unattached} \subseteq BOOLEAN BY Zenon DEF Typed, TypedFlags
  <1>3. \A set \in {cancelled, failure, claimed, broken} : set \subseteq Epochs
    BY DEF Typed, TypedErrors
  <1>4. {slot, chan, token, old} \subseteq Epochs \union {NoEpoch} /\ epoch \in 0..MaxEpochs
    BY <1>1 DEF Typed, TypedEpochs
  <1>5. {last, got} \subseteq SeqNums \union {None} /\ delivered \in Seq(SeqNums)
    BY DEF Typed, TypedCursors
  <1>6. /\ wpc \in [Epochs -> Awaiting \union {"none", "failed", "stored", "exited"}]
        /\ from \in [Epochs -> SeqNums \union {None}] /\ written \in 0..(MaxSeq + 1)
        /\ pos \in [Epochs -> 0..(MaxSeq + 1)] /\ upto \in [Epochs -> 0..(MaxSeq + 1)]
    BY DEF Typed, TypedWorkers
  <1>7. setting \in Settings /\ cpc \in {"idle", "wait", "recheck", "commit", "ended"}
        /\ lpc \in {"idle", "join"} /\ posts \in [Epochs -> Nat]
    BY DEF Typed, TypedFlags, TypedErrors
  <1>8. queue \in [Epochs -> Seq(SeqNums)] /\ \A e \in Epochs : Len(queue[e]) <= Capacity
    BY DEF Typed, TypedChannels
  <1> QED BY <1>2, <1>3, <1>4, <1>5, <1>6, <1>7, <1>8 DEF TypeOK

\* What the other proofs need of them.
LEMMA Types ==
  ASSUME S2SrcAssumption, Typed
  PROVE  /\ epoch \in Nat /\ epoch <= MaxEpochs /\ MaxEpochs \in Nat /\ cancelled \subseteq Epochs
         /\ claimed \subseteq Epochs /\ broken \subseteq Epochs /\ posts \in [Epochs -> Nat]
         /\ wpc \in [Epochs -> Awaiting \union {"none", "failed", "stored", "exited"}]
         /\ from \in [Epochs -> SeqNums \union {None}] /\ written \in Nat
         /\ pos \in [Epochs -> Nat] /\ upto \in [Epochs -> Nat]
         /\ queue \in [Epochs -> Seq(SeqNums)]
         /\ last \in SeqNums \union {None} /\ got \in SeqNums \union {None}
         /\ delivered \in Seq(SeqNums)
  <1>1. 0..(MaxSeq + 1) \subseteq Nat /\ MaxEpochs \in Nat BY DEF S2SrcAssumption
  <1>2. pos \in [Epochs -> Nat] /\ upto \in [Epochs -> Nat] /\ written \in Nat
    BY <1>1 DEF Typed, TypedWorkers
  <1>3. epoch \in Nat /\ epoch <= MaxEpochs BY <1>1 DEF Typed, TypedEpochs
  <1> QED BY <1>1, <1>2, <1>3 DEF Typed, TypedErrors, TypedWorkers, TypedChannels, TypedCursors

\* A step that changes nothing Flow speaks of, but for what is written.
LEMMA FlowFrame ==
  ASSUME S2SrcAssumption, Typed, Flow, UNCHANGED <<queue, pos, wpc, upto>>, written' = written
  PROVE  Flow'
  BY DEF Flow

\* A step after which the current worker hands out what it did before.
LEMMA DueFrame ==
  ASSUME S2SrcAssumption, Typed, Turns, NextIsDue,
         UNCHANGED <<epoch, got, last, from, setting, started>>,
         Live' => Live, queue'[epoch] = queue[epoch], pos'[epoch] = pos[epoch],
         epoch \in Epochs =>
           \A places \in {{"check", "open"}, {"none", "check", "open"}, {"read", "send"}} :
             wpc'[epoch] \in places => wpc[epoch] \in places
  PROVE  NextIsDue'
  <1>0. epoch \notin Epochs => got = None /\ ~Live
    <2>1. cpc \in {"idle", "wait", "recheck", "commit", "ended"} BY DEF Typed, TypedFlags
    <2> QED BY <2>1 DEF Turns, Live
  <1>1. Resume' = Resume /\ Exhausted' = Exhausted /\ Front' = Front
    BY DEF Resume, Exhausted, Front
  <1>2. \A n : IsDue(n) => IsDue(n)' BY DEF IsDue, FromSequence
  <1>3. epoch \in Epochs /\ Begun' => Begun BY DEF Begun
  <1>4. got # None => wpc'[epoch] \notin {"none", "check", "open"} BY <1>0 DEF NextIsDue
  <1>5. Live' /\ wpc'[epoch] \in {"check", "open"} => from[epoch] = Resume /\ ~Exhausted
    BY <1>0 DEF NextIsDue
  <1>6. Live' /\ Begun' /\ got = None => IsDue(Front) BY <1>0, <1>3 DEF NextIsDue
  <1>7. Live' /\ got # None => IsDue(got) /\ (Begun' => Front = got + 1) BY <1>0, <1>3 DEF NextIsDue
  <1>8. IsDue(Front) => IsDue(Front)' BY <1>1, <1>2
  <1>9. IsDue(got) => IsDue(got)' BY <1>2
  <1> QED BY <1>1, <1>4, <1>5, <1>6, <1>7, <1>8, <1>9 DEF NextIsDue

\* A step after which nobody waits for the current worker.
LEMMA DueIdle ==
  ASSUME got' = None, ~Live'
  PROVE  NextIsDue'
  BY DEF NextIsDue, None

\* It all holds at first.
LEMMA InitIInv ==
  ASSUME S2SrcAssumption, Init
  PROVE  IInv
  <1> USE DEF S2SrcAssumption, Init, None, Epochs, NoEpoch
  <1>1. Len(<<>>) = 0 /\ <<>> \in Seq(SeqNums) BY EmptySeq
  <1>2. TypedFlags /\ TypedEpochs
    <2>1. TypedFlags BY Zenon DEF TypedFlags
    <2>2. TypedEpochs BY DEF TypedEpochs
    <2> QED BY <2>1, <2>2
  <1>3. TypedErrors BY DEF TypedErrors
  <1>4. TypedCursors /\ TypedWorkers BY <1>1 DEF TypedCursors, TypedWorkers, SeqNums
  <1>5. TypedChannels BY <1>1 DEF TypedChannels
  <1>6. Typed BY <1>2, <1>3, <1>4, <1>5 DEF Typed
  <1>7. ReceiverHome /\ Turns BY DEF ReceiverHome, Turns
  <1>8. Fates /\ Flow BY DEF Fates, Flow
  <1>9. Returned BY DEF Returned, DeliveredInOrder
  <1>10. NextIsDue BY DEF NextIsDue, Live
  <1> QED BY <1>6, <1>7, <1>8, <1>9, <1>10 DEF IInv

\* The receiver comes home: create() puts back what it took.
LEMMA ReceiverHomeStep ==
  ASSUME S2SrcAssumption, IInv, [Next]_vars
  PROVE  ReceiverHome'
  <1> USE DEF IInv, Turns, ReceiverHome, Epochs, NoEpoch, S2SrcAssumption, stateVars,
    errorVars, createVars, lifeVars, workerVars
  <1>1. CASE Start BY <1>1 DEF Start, Spawn, StreamLockFree
  <1>2. CASE Unlock BY <1>2 DEF Unlock
  <1>3. CASE UnlockStop BY <1>3 DEF UnlockStop, Spawn, StreamLockFree
  <1>4. CASE Stop BY <1>4 DEF Stop, StreamLockFree
  <1>5. CASE Joined BY <1>5 DEF Joined
  <1>6. CASE CreateBegin BY <1>6 DEF CreateBegin
  <1>7. CASE CreateWait BY <1>7 DEF CreateWait
  <1>8. CASE CreateRecheck BY <1>8 DEF CreateRecheck, Post, PutBack
  <1>9. CASE CreateCommit BY <1>9 DEF CreateCommit
  <1>10. ASSUME NEW e \in Epochs, WorkerCancelled(e) PROVE ReceiverHome'
    BY <1>10 DEF WorkerCancelled
  <1>11. ASSUME NEW e \in Epochs, WorkerBreaks(e) PROVE ReceiverHome'
    BY <1>11 DEF WorkerBreaks, Break
  <1>12. ASSUME NEW e \in Epochs, WorkerCheck(e) PROVE ReceiverHome'
    BY <1>12 DEF WorkerCheck
  <1>13. ASSUME NEW e \in Epochs, WorkerOpen(e) PROVE ReceiverHome'
    BY <1>13 DEF WorkerOpen
  <1>14. ASSUME NEW e \in Epochs, WorkerRead(e) PROVE ReceiverHome'
    BY <1>14 DEF WorkerRead
  <1>15. ASSUME NEW e \in Epochs, WorkerSend(e) PROVE ReceiverHome'
    BY <1>15 DEF WorkerSend
  <1>16. ASSUME NEW e \in Epochs, WorkerStoreFailure(e) PROVE ReceiverHome'
    BY <1>16 DEF WorkerStoreFailure
  <1>17. ASSUME NEW e \in Epochs, WorkerPost(e) PROVE ReceiverHome'
    BY <1>17 DEF WorkerPost, Post
  <1>18. CASE AppendRecord BY <1>18 DEF AppendRecord
  <1>19. CASE UNCHANGED vars BY <1>19 DEF vars
  <1> QED
    BY <1>1, <1>2, <1>3, <1>4, <1>5, <1>6, <1>7, <1>8, <1>9, <1>10, <1>11, <1>12, <1>13,
    <1>14, <1>15, <1>16, <1>17, <1>18, <1>19 DEF Next, Create, Worker

\* create() works for the current worker, and the others are cancelled.
LEMMA TurnsStep ==
  ASSUME S2SrcAssumption, IInv, [Next]_vars
  PROVE  Turns'
  <1> USE DEF IInv, Turns, ReceiverHome, Epochs, NoEpoch, S2SrcAssumption, stateVars,
    errorVars, createVars, lifeVars, workerVars
  <1>0. /\ epoch \in Nat /\ MaxEpochs \in Nat /\ cancelled \subseteq Epochs
        /\ wpc \in [Epochs -> Awaiting \union {"none", "failed", "stored", "exited"}]
    BY Types DEF IInv
  <1> USE <1>0
  <1>1. CASE Start BY <1>1 DEF Start, Spawn, StreamLockFree
  <1>2. CASE Unlock BY <1>2 DEF Unlock
  <1>3. CASE UnlockStop BY <1>3 DEF UnlockStop, Spawn, StreamLockFree
  <1>4. CASE Stop BY <1>4 DEF Stop, StreamLockFree
  <1>5. CASE Joined BY <1>5 DEF Joined, Awaiting
  <1>6. CASE CreateBegin BY <1>6 DEF CreateBegin
  <1>7. CASE CreateWait BY <1>7 DEF CreateWait
  <1>8. CASE CreateRecheck BY <1>8 DEF CreateRecheck, Post, PutBack
  <1>9. CASE CreateCommit BY <1>9 DEF CreateCommit
  <1>10. ASSUME NEW e \in Epochs, WorkerCancelled(e) PROVE Turns'
    BY <1>10 DEF WorkerCancelled, Awaiting
  <1>11. ASSUME NEW e \in Epochs, WorkerBreaks(e) PROVE Turns'
    BY <1>11 DEF WorkerBreaks, Break
  <1>12. ASSUME NEW e \in Epochs, WorkerCheck(e) PROVE Turns'
    BY <1>12 DEF WorkerCheck
  <1>13. ASSUME NEW e \in Epochs, WorkerOpen(e) PROVE Turns'
    BY <1>13 DEF WorkerOpen
  <1>14. ASSUME NEW e \in Epochs, WorkerRead(e) PROVE Turns'
    BY <1>14 DEF WorkerRead
  <1>15. ASSUME NEW e \in Epochs, WorkerSend(e) PROVE Turns'
    BY <1>15 DEF WorkerSend
  <1>16. ASSUME NEW e \in Epochs, WorkerStoreFailure(e) PROVE Turns'
    BY <1>16 DEF WorkerStoreFailure
  <1>17. ASSUME NEW e \in Epochs, WorkerPost(e) PROVE Turns'
    BY <1>17 DEF WorkerPost, Post
  <1>18. CASE AppendRecord BY <1>18 DEF AppendRecord
  <1>19. CASE UNCHANGED vars BY <1>19 DEF vars
  <1> QED
    BY <1>1, <1>2, <1>3, <1>4, <1>5, <1>6, <1>7, <1>8, <1>9, <1>10, <1>11, <1>12, <1>13,
    <1>14, <1>15, <1>16, <1>17, <1>18, <1>19 DEF Next, Create, Worker

\* What ended uncancelled has failed, and a failure is told once.
LEMMA FatesStep ==
  ASSUME S2SrcAssumption, IInv, [Next]_vars
  PROVE  Fates'
  <1> USE DEF IInv, Fates, stateVars, errorVars, createVars, lifeVars, workerVars
  <1>0. /\ claimed \subseteq broken /\ broken \subseteq Epochs /\ posts \in [Epochs -> Nat]
        /\ queue \in [Epochs -> Seq(SeqNums)]
        /\ wpc \in [Epochs -> Awaiting \union {"none", "failed", "stored", "exited"}]
        /\ (started => epoch \in Epochs)
    BY Types DEF IInv, Fates, Turns
  <1> USE <1>0
  <1>1. CASE Start
    <2>0. epoch < MaxEpochs /\ epoch \in Nat /\ MaxEpochs \in Nat BY <1>1, Types DEF Start, Spawn
    <2>1. epoch + 1 \in Epochs BY <2>0 DEF Epochs
    <2>2. wpc'[epoch + 1] = "check" /\ UNCHANGED <<claimed, broken, posts, cancelled>> /\ cpc' = "idle"
      BY <1>1, <2>1 DEF Start, Spawn
    <2> QED BY <1>1, <2>2 DEF Start, Spawn
  <1>2. CASE Unlock BY <1>2 DEF Unlock
  <1>3. CASE UnlockStop BY <1>3 DEF UnlockStop, Spawn, StreamLockFree
  <1>4. CASE Stop BY <1>4 DEF Stop, StreamLockFree
  <1>5. CASE Joined
    BY <1>5 DEF Joined, Turns
  <1>6. CASE CreateBegin
    <2>1. UNCHANGED <<claimed, broken, posts, wpc, cancelled, got>> /\ cpc' # "recheck"
      BY <1>6 DEF CreateBegin
    <2> QED BY <2>1
  <1>7. CASE CreateWait
    <2>1. chan = epoch /\ token = epoch /\ epoch \in Epochs /\ got = None
      BY <1>7 DEF CreateWait, Turns
    <2>2. UNCHANGED <<claimed, broken, posts, wpc, cancelled, epoch>> BY <1>7 DEF CreateWait
    <2>3. CASE token \in cancelled BY <2>1, <2>2, <2>3
    <2>4. CASE queue[chan] # <<>> /\ got' = Head(queue[chan])
      <3>1. got' # None BY <2>1, <2>4, HeadAndTail, NoneIsNoSeqNum
      <3> QED BY <2>2, <3>1
    <2>5. CASE Closed(chan) BY <2>1, <2>2, <2>5 DEF Closed
    <2> QED BY <1>7, <2>3, <2>4, <2>5 DEF CreateWait
  <1>8. CASE CreateRecheck
    <2>1. token = epoch /\ epoch \in Epochs BY <1>8 DEF CreateRecheck, Turns
    <2>2. UNCHANGED <<broken, wpc, cancelled, epoch>> /\ cpc' # "recheck" BY <1>8 DEF CreateRecheck
    <2>3. CASE UNCHANGED <<claimed, posts>> BY <2>2, <2>3
    <2>4. CASE ~Interrupted /\ got = None /\ Post(epoch)
      <3>1. epoch \in broken BY <1>8, <2>1, <2>4 DEF CreateRecheck, Interrupted
      <3> QED BY <2>1, <2>2, <2>4, <3>1 DEF Post
    <2> QED BY <1>8, <2>3, <2>4 DEF CreateRecheck
  <1>9. CASE CreateCommit BY <1>9 DEF CreateCommit
  <1>10. ASSUME NEW e \in Epochs, WorkerCancelled(e) PROVE Fates'
    BY <1>10 DEF WorkerCancelled
  <1>11. ASSUME NEW e \in Epochs, WorkerBreaks(e) PROVE Fates'
    BY <1>11 DEF WorkerBreaks, Break
  <1>12. ASSUME NEW e \in Epochs, WorkerCheck(e) PROVE Fates'
    BY <1>12 DEF WorkerCheck
  <1>13. ASSUME NEW e \in Epochs, WorkerOpen(e) PROVE Fates'
    BY <1>13 DEF WorkerOpen
  <1>14. ASSUME NEW e \in Epochs, WorkerRead(e) PROVE Fates'
    BY <1>14 DEF WorkerRead
  <1>15. ASSUME NEW e \in Epochs, WorkerSend(e) PROVE Fates'
    <2>1. UNCHANGED <<claimed, broken, posts, cancelled, cpc, got, epoch>> BY <1>15 DEF WorkerSend
    <2>2. wpc[e] = "send" BY <1>15 DEF WorkerSend
    <2>3. CASE wpc' = [wpc EXCEPT ![e] = IF pos[e] + 1 = upto[e] THEN "read" ELSE "send"]
      BY <2>1, <2>3
    <2>4. CASE ~HasReceiver(e) /\ wpc' = [wpc EXCEPT ![e] = "exited"]
      <3>1. e \in cancelled
        <4>1. ~(started /\ e = epoch)
          <5>1. cpc \in {"idle", "wait", "recheck", "commit", "ended"} BY DEF Typed, TypedFlags
          <5>2. CASE cpc \in {"wait", "recheck"} BY <2>4, <5>2 DEF HasReceiver, Turns
          <5>3. CASE cpc \in {"idle", "commit", "ended"} BY <2>4, <5>3 DEF HasReceiver, ReceiverHome
          <5> QED BY <5>1, <5>2, <5>3
        <4>2. e <= epoch
          <5>1. e \in Nat /\ epoch \in Nat BY Types DEF Epochs
          <5>2. ~(e > epoch) BY <2>2 DEF Turns
          <5> QED BY <5>1, <5>2
        <4> QED BY <4>1, <4>2 DEF Turns
      <3> QED BY <2>1, <2>4, <3>1
    <2> QED BY <1>15, <2>3, <2>4 DEF WorkerSend
  <1>16. ASSUME NEW e \in Epochs, WorkerStoreFailure(e) PROVE Fates'
    BY <1>16 DEF WorkerStoreFailure
  <1>17. ASSUME NEW e \in Epochs, WorkerPost(e) PROVE Fates'
    BY <1>17 DEF WorkerPost, Post
  <1>18. CASE AppendRecord BY <1>18 DEF AppendRecord
  <1>19. CASE UNCHANGED vars BY <1>19 DEF vars
  <1> QED
    BY <1>1, <1>2, <1>3, <1>4, <1>5, <1>6, <1>7, <1>8, <1>9, <1>10, <1>11, <1>12, <1>13,
    <1>14, <1>15, <1>16, <1>17, <1>18, <1>19 DEF Next, Create, Worker

\* Each part of the types, in every step: flags and places,
LEMMA TypedFlagsStep ==
  ASSUME S2SrcAssumption, IInv, [Next]_vars
  PROVE  TypedFlags'
  <1> USE DEF IInv, Typed, TypedFlags, stateVars, errorVars, createVars, lifeVars, workerVars
  <1>1. CASE Start BY <1>1 DEF Start, Spawn, StreamLockFree
  <1>2. CASE Unlock BY <1>2 DEF Unlock
  <1>3. CASE UnlockStop BY <1>3 DEF UnlockStop, Spawn, StreamLockFree
  <1>4. CASE Stop BY <1>4 DEF Stop, StreamLockFree
  <1>5. CASE Joined BY <1>5 DEF Joined
  <1>6. CASE CreateBegin BY <1>6 DEF CreateBegin
  <1>7. CASE CreateWait BY <1>7 DEF CreateWait
  <1>8. CASE CreateRecheck BY <1>8 DEF CreateRecheck, Post, PutBack
  <1>9. CASE CreateCommit BY <1>9 DEF CreateCommit
  <1>10. ASSUME NEW e \in Epochs, WorkerCancelled(e) PROVE TypedFlags'
    BY <1>10 DEF WorkerCancelled
  <1>11. ASSUME NEW e \in Epochs, WorkerBreaks(e) PROVE TypedFlags'
    BY <1>11 DEF WorkerBreaks, Break
  <1>12. ASSUME NEW e \in Epochs, WorkerCheck(e) PROVE TypedFlags'
    BY <1>12 DEF WorkerCheck
  <1>13. ASSUME NEW e \in Epochs, WorkerOpen(e) PROVE TypedFlags'
    BY <1>13 DEF WorkerOpen
  <1>14. ASSUME NEW e \in Epochs, WorkerRead(e) PROVE TypedFlags'
    BY <1>14 DEF WorkerRead
  <1>15. ASSUME NEW e \in Epochs, WorkerSend(e) PROVE TypedFlags'
    BY <1>15 DEF WorkerSend
  <1>16. ASSUME NEW e \in Epochs, WorkerStoreFailure(e) PROVE TypedFlags'
    BY <1>16 DEF WorkerStoreFailure
  <1>17. ASSUME NEW e \in Epochs, WorkerPost(e) PROVE TypedFlags'
    BY <1>17 DEF WorkerPost, Post
  <1>18. CASE AppendRecord BY <1>18 DEF AppendRecord
  <1>19. CASE UNCHANGED vars BY <1>19 DEF vars
  <1> QED
    BY <1>1, <1>2, <1>3, <1>4, <1>5, <1>6, <1>7, <1>8, <1>9, <1>10, <1>11, <1>12, <1>13,
    <1>14, <1>15, <1>16, <1>17, <1>18, <1>19 DEF Next, Create, Worker

\* epochs,
LEMMA TypedEpochsStep ==
  ASSUME S2SrcAssumption, IInv, [Next]_vars
  PROVE  TypedEpochs'
  <1> USE DEF IInv, Typed, TypedEpochs, NoEpoch, S2SrcAssumption, stateVars, errorVars,
    createVars, lifeVars, workerVars
  <1>1. CASE Start BY <1>1 DEF Start, Spawn, StreamLockFree
  <1>2. CASE Unlock BY <1>2 DEF Unlock
  <1>3. CASE UnlockStop BY <1>3 DEF UnlockStop, Spawn, StreamLockFree
  <1>4. CASE Stop BY <1>4 DEF Stop, StreamLockFree
  <1>5. CASE Joined BY <1>5 DEF Joined
  <1>6. CASE CreateBegin BY <1>6 DEF CreateBegin
  <1>7. CASE CreateWait BY <1>7 DEF CreateWait
  <1>8. CASE CreateRecheck BY <1>8 DEF CreateRecheck, Post, PutBack
  <1>9. CASE CreateCommit BY <1>9 DEF CreateCommit
  <1>10. ASSUME NEW e \in Epochs, WorkerCancelled(e) PROVE TypedEpochs'
    BY <1>10 DEF WorkerCancelled
  <1>11. ASSUME NEW e \in Epochs, WorkerBreaks(e) PROVE TypedEpochs'
    BY <1>11 DEF WorkerBreaks, Break
  <1>12. ASSUME NEW e \in Epochs, WorkerCheck(e) PROVE TypedEpochs'
    BY <1>12 DEF WorkerCheck
  <1>13. ASSUME NEW e \in Epochs, WorkerOpen(e) PROVE TypedEpochs'
    BY <1>13 DEF WorkerOpen
  <1>14. ASSUME NEW e \in Epochs, WorkerRead(e) PROVE TypedEpochs'
    BY <1>14 DEF WorkerRead
  <1>15. ASSUME NEW e \in Epochs, WorkerSend(e) PROVE TypedEpochs'
    BY <1>15 DEF WorkerSend
  <1>16. ASSUME NEW e \in Epochs, WorkerStoreFailure(e) PROVE TypedEpochs'
    BY <1>16 DEF WorkerStoreFailure
  <1>17. ASSUME NEW e \in Epochs, WorkerPost(e) PROVE TypedEpochs'
    BY <1>17 DEF WorkerPost, Post
  <1>18. CASE AppendRecord BY <1>18 DEF AppendRecord
  <1>19. CASE UNCHANGED vars BY <1>19 DEF vars
  <1> QED
    BY <1>1, <1>2, <1>3, <1>4, <1>5, <1>6, <1>7, <1>8, <1>9, <1>10, <1>11, <1>12, <1>13,
    <1>14, <1>15, <1>16, <1>17, <1>18, <1>19 DEF Next, Create, Worker

\* what is cancelled, has failed and was told,
LEMMA TypedErrorsStep ==
  ASSUME S2SrcAssumption, IInv, [Next]_vars
  PROVE  TypedErrors'
  <1> USE DEF IInv, Typed, TypedErrors, stateVars, errorVars, createVars, lifeVars, workerVars
  <1>0. /\ (started => epoch \in Epochs) /\ (cpc = "recheck" => epoch \in Epochs)
        /\ epoch \in 0..MaxEpochs /\ MaxEpochs \in Nat
    BY DEF IInv, Typed, TypedEpochs, Turns, S2SrcAssumption
  <1> USE <1>0
  <1>1. CASE Start BY <1>1 DEF Start, Spawn, StreamLockFree
  <1>2. CASE Unlock BY <1>2 DEF Unlock
  <1>3. CASE UnlockStop BY <1>3 DEF UnlockStop, Spawn, StreamLockFree
  <1>4. CASE Stop BY <1>4 DEF Stop, StreamLockFree
  <1>5. CASE Joined BY <1>5 DEF Joined
  <1>6. CASE CreateBegin BY <1>6 DEF CreateBegin
  <1>7. CASE CreateWait BY <1>7 DEF CreateWait
  <1>8. CASE CreateRecheck BY <1>8 DEF CreateRecheck, Post, PutBack
  <1>9. CASE CreateCommit BY <1>9 DEF CreateCommit
  <1>10. ASSUME NEW e \in Epochs, WorkerCancelled(e) PROVE TypedErrors'
    BY <1>10 DEF WorkerCancelled
  <1>11. ASSUME NEW e \in Epochs, WorkerBreaks(e) PROVE TypedErrors'
    BY <1>11 DEF WorkerBreaks, Break
  <1>12. ASSUME NEW e \in Epochs, WorkerCheck(e) PROVE TypedErrors'
    BY <1>12 DEF WorkerCheck
  <1>13. ASSUME NEW e \in Epochs, WorkerOpen(e) PROVE TypedErrors'
    BY <1>13 DEF WorkerOpen
  <1>14. ASSUME NEW e \in Epochs, WorkerRead(e) PROVE TypedErrors'
    BY <1>14 DEF WorkerRead
  <1>15. ASSUME NEW e \in Epochs, WorkerSend(e) PROVE TypedErrors'
    BY <1>15 DEF WorkerSend
  <1>16. ASSUME NEW e \in Epochs, WorkerStoreFailure(e) PROVE TypedErrors'
    BY <1>16 DEF WorkerStoreFailure
  <1>17. ASSUME NEW e \in Epochs, WorkerPost(e) PROVE TypedErrors'
    BY <1>17 DEF WorkerPost, Post
  <1>18. CASE AppendRecord BY <1>18 DEF AppendRecord
  <1>19. CASE UNCHANGED vars BY <1>19 DEF vars
  <1> QED
    BY <1>1, <1>2, <1>3, <1>4, <1>5, <1>6, <1>7, <1>8, <1>9, <1>10, <1>11, <1>12, <1>13,
    <1>14, <1>15, <1>16, <1>17, <1>18, <1>19 DEF Next, Create, Worker

\* sequence numbers that were delivered or are at hand,
LEMMA TypedCursorsStep ==
  ASSUME S2SrcAssumption, IInv, [Next]_vars
  PROVE  TypedCursors'
  <1> USE DEF IInv, Typed, TypedCursors, stateVars, errorVars, createVars, lifeVars,
    workerVars
  <1>0. /\ MaxEpochs \in Nat /\ MaxSeq \in Nat /\ None = MaxSeq + 1
        /\ \A n : n \in SeqNums <=> n \in Nat /\ n <= MaxSeq
        /\ \A n : n \in 0..(MaxSeq + 1) <=> n \in Nat /\ n <= MaxSeq + 1
    BY DEF S2SrcAssumption, SeqNums, None
  <1> USE <1>0
  <1>1. CASE Start BY <1>1 DEF Start, Spawn, StreamLockFree
  <1>2. CASE Unlock BY <1>2 DEF Unlock
  <1>3. CASE UnlockStop BY <1>3 DEF UnlockStop, Spawn, StreamLockFree
  <1>4. CASE Stop BY <1>4 DEF Stop, StreamLockFree
  <1>5. CASE Joined BY <1>5 DEF Joined
  <1>6. CASE CreateBegin BY <1>6 DEF CreateBegin
  <1>7. CASE CreateWait
    <2>1. UNCHANGED <<last, delivered>> BY <1>7 DEF CreateWait
    <2>2. CASE queue[chan] # <<>> /\ got' = Head(queue[chan])
      <3>1. chan \in Epochs /\ queue[chan] \in Seq(SeqNums) BY <1>7, Types DEF CreateWait, Turns
      <3> QED BY <2>1, <2>2, <3>1, HeadAndTail
    <2>3. CASE UNCHANGED got BY <2>1, <2>3
    <2> QED BY <1>7, <2>2, <2>3 DEF CreateWait
  <1>8. CASE CreateRecheck BY <1>8 DEF CreateRecheck, Post, PutBack
  <1>9. CASE CreateCommit
    <2>1. got \in SeqNums BY <1>9 DEF CreateCommit, Turns
    <2>2. Append(delivered, got) \in Seq(SeqNums) BY <2>1, Grown
    <2> QED BY <1>9, <2>1, <2>2 DEF CreateCommit
  <1>10. ASSUME NEW e \in Epochs, WorkerCancelled(e) PROVE TypedCursors'
    BY <1>10 DEF WorkerCancelled
  <1>11. ASSUME NEW e \in Epochs, WorkerBreaks(e) PROVE TypedCursors'
    BY <1>11 DEF WorkerBreaks, Break
  <1>12. ASSUME NEW e \in Epochs, WorkerCheck(e) PROVE TypedCursors'
    BY <1>12 DEF WorkerCheck
  <1>13. ASSUME NEW e \in Epochs, WorkerOpen(e) PROVE TypedCursors'
    BY <1>13 DEF WorkerOpen
  <1>14. ASSUME NEW e \in Epochs, WorkerRead(e) PROVE TypedCursors'
    BY <1>14 DEF WorkerRead
  <1>15. ASSUME NEW e \in Epochs, WorkerSend(e) PROVE TypedCursors'
    BY <1>15 DEF WorkerSend
  <1>16. ASSUME NEW e \in Epochs, WorkerStoreFailure(e) PROVE TypedCursors'
    BY <1>16 DEF WorkerStoreFailure
  <1>17. ASSUME NEW e \in Epochs, WorkerPost(e) PROVE TypedCursors'
    BY <1>17 DEF WorkerPost, Post
  <1>18. CASE AppendRecord BY <1>18 DEF AppendRecord
  <1>19. CASE UNCHANGED vars BY <1>19 DEF vars
  <1> QED
    BY <1>1, <1>2, <1>3, <1>4, <1>5, <1>6, <1>7, <1>8, <1>9, <1>10, <1>11, <1>12, <1>13,
    <1>14, <1>15, <1>16, <1>17, <1>18, <1>19 DEF Next, Create, Worker

\* workers,
LEMMA TypedWorkersStep ==
  ASSUME S2SrcAssumption, IInv, [Next]_vars
  PROVE  TypedWorkers'
  <1> USE DEF IInv, Typed, TypedWorkers, stateVars, errorVars, createVars, lifeVars,
    workerVars
  <1>0. /\ MaxEpochs \in Nat /\ MaxSeq \in Nat /\ None = MaxSeq + 1
        /\ \A n : n \in SeqNums <=> n \in Nat /\ n <= MaxSeq
        /\ \A n : n \in 0..(MaxSeq + 1) <=> n \in Nat /\ n <= MaxSeq + 1
    BY DEF S2SrcAssumption, SeqNums, None
  <1> USE <1>0
  <1>1. CASE Start BY <1>1 DEF Start, Spawn, StreamLockFree, Awaiting
  <1>2. CASE Unlock BY <1>2 DEF Unlock
  <1>3. CASE UnlockStop
    <2>1. CASE UNCHANGED <<wpc, from>> BY <1>3, <2>1 DEF UnlockStop, Spawn
    <2>2. CASE Spawn(Resume)
      <3>1. Resume \in SeqNums \union {None}
        <4>1. CASE last = None BY <4>1 DEF Resume
        <4>2. CASE last # None
          <5>1. last \in Nat /\ last <= MaxSeq BY <4>2, Types
          <5>2. last + 1 \in Nat /\ (last + 1 <= MaxSeq \/ last + 1 = MaxSeq + 1) BY <5>1
          <5> QED BY <4>2, <5>2 DEF Resume
        <4> QED BY <4>1, <4>2
      <3>2. UNCHANGED <<pos, upto, written>> BY <1>3, <2>2 DEF UnlockStop, Spawn
      <3> QED BY <1>3, <2>2, <3>1, <3>2 DEF Spawn, Awaiting
    <2> QED BY <1>3, <2>1, <2>2 DEF UnlockStop
  <1>4. CASE Stop BY <1>4 DEF Stop, StreamLockFree
  <1>5. CASE Joined BY <1>5 DEF Joined
  <1>6. CASE CreateBegin BY <1>6 DEF CreateBegin
  <1>7. CASE CreateWait BY <1>7 DEF CreateWait
  <1>8. CASE CreateRecheck BY <1>8 DEF CreateRecheck, Post, PutBack
  <1>9. CASE CreateCommit BY <1>9 DEF CreateCommit
  <1>10. ASSUME NEW e \in Epochs, WorkerCancelled(e) PROVE TypedWorkers'
    BY <1>10 DEF WorkerCancelled
  <1>11. ASSUME NEW e \in Epochs, WorkerBreaks(e) PROVE TypedWorkers'
    BY <1>11 DEF WorkerBreaks, Break, Awaiting
  <1>12. ASSUME NEW e \in Epochs, WorkerCheck(e) PROVE TypedWorkers'
    BY <1>12 DEF WorkerCheck, Awaiting
  <1>13. ASSUME NEW e \in Epochs, WorkerOpen(e) PROVE TypedWorkers'
    <2> DEFINE start == IF Clamps(e) /\ StartOf(e) > written THEN written ELSE StartOf(e)
    <2>1. StartSeqNum \in 0..MaxSeq /\ TailOffset \in Nat BY DEF S2SrcAssumption
    <2>2. from[e] \in SeqNums \union {None} /\ written \in Nat /\ written <= MaxSeq + 1 OBVIOUS
    <2>3. StartOf(e) \in 0..(MaxSeq + 1)
      <3>1. TailOffset < written => written - TailOffset \in 0..(MaxSeq + 1) BY <2>1, <2>2
      <3> QED BY <2>1, <2>2, <3>1 DEF StartOf
    <2>4. start \in 0..(MaxSeq + 1) BY <2>2, <2>3
    <2>5. UNCHANGED <<from, written>> /\ wpc' = [wpc EXCEPT ![e] = "read"]
          /\ pos' = [pos EXCEPT ![e] = start] /\ upto' = [upto EXCEPT ![e] = start]
      BY <1>13 DEF WorkerOpen
    <2> HIDE DEF start
    <2> QED BY <2>4, <2>5 DEF Awaiting
  <1>14. ASSUME NEW e \in Epochs, WorkerRead(e) PROVE TypedWorkers'
    BY <1>14 DEF WorkerRead, Awaiting
  <1>15. ASSUME NEW e \in Epochs, WorkerSend(e) PROVE TypedWorkers'
    <2>1. UNCHANGED <<from, written, upto>> BY <1>15 DEF WorkerSend
    <2>2. CASE UNCHANGED pos BY <1>15, <2>1, <2>2 DEF WorkerSend, Awaiting
    <2>3. CASE /\ pos' = [pos EXCEPT ![e] = @ + 1]
               /\ wpc' = [wpc EXCEPT ![e] = IF pos[e] + 1 = upto[e] THEN "read" ELSE "send"]
      <3>1. pos[e] \in Nat /\ written \in Nat /\ upto[e] \in Nat /\ written <= MaxSeq + 1
        BY Types
      <3>2. pos[e] < upto[e] /\ upto[e] <= written BY <1>15 DEF WorkerSend, Flow
      <3>3. pos[e] + 1 \in 0..(MaxSeq + 1) BY <3>1, <3>2
      <3> QED BY <2>1, <2>3, <3>3 DEF Awaiting
    <2> QED BY <1>15, <2>2, <2>3 DEF WorkerSend
  <1>16. ASSUME NEW e \in Epochs, WorkerStoreFailure(e) PROVE TypedWorkers'
    BY <1>16 DEF WorkerStoreFailure
  <1>17. ASSUME NEW e \in Epochs, WorkerPost(e) PROVE TypedWorkers'
    BY <1>17 DEF WorkerPost, Post
  <1>18. CASE AppendRecord BY <1>18 DEF AppendRecord
  <1>19. CASE UNCHANGED vars BY <1>19 DEF vars
  <1> QED
    BY <1>1, <1>2, <1>3, <1>4, <1>5, <1>6, <1>7, <1>8, <1>9, <1>10, <1>11, <1>12, <1>13,
    <1>14, <1>15, <1>16, <1>17, <1>18, <1>19 DEF Next, Create, Worker

\* and channels, within their bound.
LEMMA TypedChannelsStep ==
  ASSUME S2SrcAssumption, IInv, [Next]_vars
  PROVE  TypedChannels'
  <1> USE DEF IInv, Typed, TypedChannels, stateVars, errorVars, createVars, lifeVars,
    workerVars
  <1>1. CASE Start BY <1>1 DEF Start, Spawn, StreamLockFree
  <1>2. CASE Unlock BY <1>2 DEF Unlock
  <1>3. CASE UnlockStop BY <1>3 DEF UnlockStop, Spawn, StreamLockFree
  <1>4. CASE Stop BY <1>4 DEF Stop, StreamLockFree
  <1>5. CASE Joined BY <1>5 DEF Joined
  <1>6. CASE CreateBegin BY <1>6 DEF CreateBegin
  <1>7. CASE CreateWait
    <2>1. CASE UNCHANGED queue BY <2>1
    <2>2. CASE queue[chan] # <<>> /\ queue' = [queue EXCEPT ![chan] = Tail(@)]
      <3>1. chan \in Epochs BY <1>7 DEF CreateWait, Turns
      <3>2. Tail(queue[chan]) \in Seq(SeqNums) /\ Len(Tail(queue[chan])) = Len(queue[chan]) - 1
            /\ Len(queue[chan]) \in Nat /\ Len(queue[chan]) <= Capacity /\ Capacity \in Nat
        BY <2>2, <3>1, HeadAndTail DEF S2SrcAssumption
      <3>3. Len(Tail(queue[chan])) <= Capacity BY <3>2
      <3> QED BY <2>2, <3>1, <3>2, <3>3
    <2> QED BY <1>7, <2>1, <2>2 DEF CreateWait
  <1>8. CASE CreateRecheck BY <1>8 DEF CreateRecheck, Post, PutBack
  <1>9. CASE CreateCommit BY <1>9 DEF CreateCommit
  <1>10. ASSUME NEW e \in Epochs, WorkerCancelled(e) PROVE TypedChannels'
    BY <1>10 DEF WorkerCancelled
  <1>11. ASSUME NEW e \in Epochs, WorkerBreaks(e) PROVE TypedChannels'
    BY <1>11 DEF WorkerBreaks, Break
  <1>12. ASSUME NEW e \in Epochs, WorkerCheck(e) PROVE TypedChannels'
    BY <1>12 DEF WorkerCheck
  <1>13. ASSUME NEW e \in Epochs, WorkerOpen(e) PROVE TypedChannels'
    BY <1>13 DEF WorkerOpen
  <1>14. ASSUME NEW e \in Epochs, WorkerRead(e) PROVE TypedChannels'
    BY <1>14 DEF WorkerRead
  <1>15. ASSUME NEW e \in Epochs, WorkerSend(e) PROVE TypedChannels'
    <2>1. CASE UNCHANGED queue BY <2>1
    <2>2. CASE Room(e) /\ queue' = [queue EXCEPT ![e] = Append(@, pos[e])]
      <3>1. pos[e] \in SeqNums
        <4>1. pos[e] < upto[e] /\ upto[e] <= written BY <1>15 DEF WorkerSend, Flow
        <4>2. pos[e] \in Nat /\ upto[e] \in Nat /\ written \in Nat /\ MaxSeq \in Nat
          BY Types, NoneIsNoSeqNum
        <4>3. written <= MaxSeq + 1 BY <4>2 DEF TypedWorkers
        <4> QED BY <4>1, <4>2, <4>3 DEF SeqNums
      <3>2. Append(queue[e], pos[e]) \in Seq(SeqNums) /\ Len(Append(queue[e], pos[e])) = Len(queue[e]) + 1
        BY <3>1, Grown
      <3>3. Len(queue[e]) \in Nat /\ Len(queue[e]) < Capacity /\ Capacity \in Nat
        BY <2>2 DEF Room, S2SrcAssumption
      <3>4. Len(queue[e]) + 1 <= Capacity BY <3>3
      <3> QED BY <2>2, <3>2, <3>4
    <2> QED BY <1>15, <2>1, <2>2 DEF WorkerSend
  <1>16. ASSUME NEW e \in Epochs, WorkerStoreFailure(e) PROVE TypedChannels'
    BY <1>16 DEF WorkerStoreFailure
  <1>17. ASSUME NEW e \in Epochs, WorkerPost(e) PROVE TypedChannels'
    BY <1>17 DEF WorkerPost, Post
  <1>18. CASE AppendRecord BY <1>18 DEF AppendRecord
  <1>19. CASE UNCHANGED vars BY <1>19 DEF vars
  <1> QED
    BY <1>1, <1>2, <1>3, <1>4, <1>5, <1>6, <1>7, <1>8, <1>9, <1>10, <1>11, <1>12, <1>13,
    <1>14, <1>15, <1>16, <1>17, <1>18, <1>19 DEF Next, Create, Worker

\* Records go through a channel in their order.
LEMMA FlowStep ==
  ASSUME S2SrcAssumption, IInv, [Next]_vars
  PROVE  Flow'
  <1> USE DEF IInv, Flow, stateVars, errorVars, createVars, lifeVars, workerVars
  <1>0. /\ wpc \in [Epochs -> Awaiting \union {"none", "failed", "stored", "exited"}]
        /\ pos \in [Epochs -> Nat] /\ upto \in [Epochs -> Nat] /\ written \in Nat
        /\ queue \in [Epochs -> Seq(SeqNums)] /\ SeqNums \subseteq Nat
        /\ \A e \in Epochs : e > epoch => wpc[e] = "none"
        /\ (started => epoch \in Epochs)
    BY Types, NoneIsNoSeqNum DEF IInv, Turns
  <1> USE <1>0
  <1>1. CASE Start
    <2>0. epoch < MaxEpochs /\ epoch \in Nat /\ MaxEpochs \in Nat BY <1>1, Types DEF Start, Spawn
    <2>1. epoch + 1 \in Epochs /\ epoch + 1 > epoch BY <2>0 DEF Epochs
    <2>2. queue[epoch + 1] = <<>> BY <2>1
    <2>3. UNCHANGED <<queue, pos, upto, written>> /\ wpc' = [wpc EXCEPT ![epoch + 1] = "check"]
      BY <1>1 DEF Start, Spawn
    <2> QED BY <2>1, <2>2, <2>3
  <1>2. CASE Unlock BY <1>2 DEF Unlock
  <1>3. CASE UnlockStop
    <2>1. CASE UNCHANGED <<wpc, pos, upto>> BY <1>3, <2>1, FlowFrame DEF UnlockStop
    <2>2. CASE Spawn(Resume)
      <3>0. epoch < MaxEpochs /\ epoch \in Nat /\ MaxEpochs \in Nat BY <2>2, Types DEF Spawn
      <3>1. epoch + 1 \in Epochs /\ epoch + 1 > epoch BY <3>0 DEF Epochs
      <3>2. queue[epoch + 1] = <<>> BY <3>1
      <3>3. UNCHANGED <<queue, pos, upto, written>> /\ wpc' = [wpc EXCEPT ![epoch + 1] = "check"]
        BY <1>3, <2>2 DEF UnlockStop, Spawn
      <3> QED BY <3>1, <3>2, <3>3
    <2> QED BY <1>3, <2>1, <2>2 DEF UnlockStop
  <1>4. CASE Stop BY <1>4 DEF Stop, StreamLockFree
  <1>5. CASE Joined BY <1>5 DEF Joined
  <1>6. CASE CreateBegin
    BY <1>6, FlowFrame DEF CreateBegin
  <1>7. CASE CreateWait
    <2>1. CASE UNCHANGED queue BY <1>7, <2>1, FlowFrame DEF CreateWait
    <2>2. CASE queue[chan] # <<>> /\ queue' = [queue EXCEPT ![chan] = Tail(@)]
      <3>1. chan \in Epochs /\ UNCHANGED <<pos, wpc, upto, written>> BY <1>7 DEF CreateWait, Turns
      <3> DEFINE q == queue[chan]
      <3>a. q \in Seq(SeqNums) /\ q # <<>> BY <2>2, <3>1
      <3>3. \A k \in 1..Len(q) : q[k] + Len(q) + 1 = pos[chan] + k BY <3>1
      <3>4. \A k \in 1..Len(Tail(q)) : Tail(q)[k] + Len(Tail(q)) + 1 = pos[chan] + k
        BY <3>1, <3>3, <3>a, RestIsConsecutive
      <3>5. wpc[chan] \notin {"none", "check", "open"} BY <2>2, <3>1
      <3>6. queue'[chan] = Tail(q) /\ \A e \in Epochs \ {chan} : queue'[e] = queue[e] BY <2>2, <3>1
      <3> HIDE DEF q
      <3>7. ASSUME NEW e \in Epochs
            PROVE  /\ wpc[e] \in {"none", "check", "open"} => queue'[e] = <<>>
                   /\ \A k \in 1..Len(queue'[e]) : queue'[e][k] + Len(queue'[e]) + 1 = pos[e] + k
        <4>1. CASE e = chan BY <3>4, <3>5, <3>6, <4>1
        <4>2. CASE e # chan BY <3>6, <4>2
        <4> QED BY <4>1, <4>2
      <3> QED BY <3>1, <3>7
    <2> QED BY <1>7, <2>1, <2>2 DEF CreateWait
  <1>8. CASE CreateRecheck BY <1>8 DEF CreateRecheck, Post, PutBack
  <1>9. CASE CreateCommit BY <1>9 DEF CreateCommit
  <1>10. ASSUME NEW e \in Epochs, WorkerCancelled(e) PROVE Flow'
    BY <1>10 DEF WorkerCancelled
  <1>11. ASSUME NEW e \in Epochs, WorkerBreaks(e) PROVE Flow'
    BY <1>11 DEF WorkerBreaks, Break
  <1>12. ASSUME NEW e \in Epochs, WorkerCheck(e) PROVE Flow'
    BY <1>12 DEF WorkerCheck
  <1>13. ASSUME NEW e \in Epochs, WorkerOpen(e) PROVE Flow'
    BY <1>13 DEF WorkerOpen
  <1>14. ASSUME NEW e \in Epochs, WorkerRead(e) PROVE Flow'
    BY <1>14 DEF WorkerRead
  <1>15. ASSUME NEW e \in Epochs, WorkerSend(e) PROVE Flow'
    <2>1. wpc[e] = "send" /\ UNCHANGED <<upto, written>> BY <1>15 DEF WorkerSend
    <2>2. CASE UNCHANGED <<queue, pos>> /\ wpc' = [wpc EXCEPT ![e] = "exited"] BY <2>1, <2>2
    <2>3. CASE /\ queue' = [queue EXCEPT ![e] = Append(@, pos[e])]
               /\ pos' = [pos EXCEPT ![e] = @ + 1]
               /\ wpc' = [wpc EXCEPT ![e] = IF pos[e] + 1 = upto[e] THEN "read" ELSE "send"]
      <3> DEFINE q == queue[e]  r == Append(q, pos[e])
      <3>1. pos[e] < upto[e] /\ upto[e] <= written /\ pos[e] \in Nat /\ upto[e] \in Nat BY <2>1
      <3>2. pos[e] \in SeqNums
        <4>1. written <= MaxSeq + 1 /\ MaxSeq \in Nat BY NoneIsNoSeqNum DEF Typed, TypedWorkers
        <4> QED BY <3>1, <4>1 DEF SeqNums
      <3>a. q \in Seq(SeqNums) OBVIOUS
      <3>b. Len(q) \in Nat /\ \A k \in 1..Len(q) : q[k] \in Nat BY <3>a, Numbers
      <3>3. /\ Len(r) = Len(q) + 1 /\ r[Len(q) + 1] = pos[e] /\ Len(q) \in Nat
            /\ \A k \in 1..Len(q) : r[k] = q[k]
        BY <3>2, <3>a, Grown
      <3>4. \A k \in 1..Len(q) : q[k] + Len(q) + 1 = pos[e] + k OBVIOUS
      <3>5. ASSUME NEW k \in 1..Len(r) PROVE r[k] + Len(r) + 1 = (pos[e] + 1) + k
        <4>1. CASE k = Len(q) + 1 BY <3>1, <3>3, <4>1
        <4>2. CASE k \in 1..Len(q)
          <5>1. r[k] = q[k] /\ q[k] \in Nat /\ q[k] + Len(q) + 1 = pos[e] + k
            BY <3>3, <3>4, <3>b, <4>2
          <5> QED BY <3>1, <3>3, <4>2, <5>1
        <4> QED BY <3>3, <4>1, <4>2
      <3>6. pos[e] + 1 # upto[e] => pos[e] + 1 < upto[e] BY <3>1
      <3>7. queue'[e] = r /\ pos'[e] = pos[e] + 1 /\ wpc'[e] \in {"read", "send"}
            /\ (wpc'[e] = "send" => pos[e] + 1 # upto[e])
        BY <2>3
      <3>8. \A d \in Epochs \ {e} : queue'[d] = queue[d] /\ pos'[d] = pos[d] /\ wpc'[d] = wpc[d]
        BY <2>3
      <3> HIDE DEF q, r
      <3>9. ASSUME NEW d \in Epochs
            PROVE  /\ wpc'[d] \in {"none", "check", "open"} => queue'[d] = <<>>
                   /\ wpc'[d] = "send" => pos'[d] < upto[d] /\ upto[d] <= written
                   /\ \A k \in 1..Len(queue'[d]) : queue'[d][k] + Len(queue'[d]) + 1 = pos'[d] + k
        <4>1. CASE d = e BY <3>1, <3>5, <3>6, <3>7, <4>1
        <4>2. CASE d # e BY <3>8, <4>2
        <4> QED BY <4>1, <4>2
      <3> QED BY <2>1, <3>9
    <2> QED BY <1>15, <2>2, <2>3 DEF WorkerSend
  <1>16. ASSUME NEW e \in Epochs, WorkerStoreFailure(e) PROVE Flow'
    BY <1>16 DEF WorkerStoreFailure
  <1>17. ASSUME NEW e \in Epochs, WorkerPost(e) PROVE Flow'
    BY <1>17 DEF WorkerPost, Post
  <1>18. CASE AppendRecord BY <1>18 DEF AppendRecord
  <1>19. CASE UNCHANGED vars BY <1>19 DEF vars
  <1> QED
    BY <1>1, <1>2, <1>3, <1>4, <1>5, <1>6, <1>7, <1>8, <1>9, <1>10, <1>11, <1>12, <1>13,
    <1>14, <1>15, <1>16, <1>17, <1>18, <1>19 DEF Next, Create, Worker

\* Each buffer is the record behind the one before.
LEMMA ReturnedStep ==
  ASSUME S2SrcAssumption, IInv, [Next]_vars
  PROVE  Returned'
  <1> USE DEF IInv, Returned, DeliveredInOrder, FromSequence, stateVars, errorVars,
    createVars, lifeVars, workerVars
  <1>0. delivered \in Seq(SeqNums) /\ SeqNums \subseteq Nat BY Types, NoneIsNoSeqNum DEF IInv
  <1>1. CASE Start BY <1>1 DEF Start, Spawn, StreamLockFree
  <1>2. CASE Unlock BY <1>2 DEF Unlock
  <1>3. CASE UnlockStop BY <1>3 DEF UnlockStop, Spawn, StreamLockFree
  <1>4. CASE Stop BY <1>4 DEF Stop, StreamLockFree
  <1>5. CASE Joined BY <1>5 DEF Joined
  <1>6. CASE CreateBegin BY <1>6 DEF CreateBegin
  <1>7. CASE CreateWait BY <1>7 DEF CreateWait
  <1>8. CASE CreateRecheck BY <1>8 DEF CreateRecheck, Post, PutBack
  <1>9. CASE CreateCommit
    <2>1. CASE UNCHANGED <<last, delivered>> BY <1>9, <2>1 DEF CreateCommit
    <2>2. CASE ~GiveUp /\ last' = got /\ delivered' = Append(delivered, got)
      <3>1. Live /\ got # None BY <1>9, <2>2 DEF CreateCommit, GiveUp, Interrupted, Live, Turns
      <3>2. got \in SeqNums /\ IsDue(got) BY <3>1, Types DEF NextIsDue
      <3>3. /\ Len(delivered') = Len(delivered) + 1 /\ delivered' # <<>>
            /\ delivered'[Len(delivered) + 1] = got
            /\ \A k \in 1..Len(delivered) : delivered'[k] = delivered[k]
        BY <1>0, <2>2, <3>2, Grown
      <3>a. \A k \in 1..Len(delivered) : delivered[k] \in Nat BY <1>0, Numbers
      <3>4. FromSequence' = FromSequence BY <1>9 DEF CreateCommit, FromSequence
      <3>5. CASE delivered = <<>>
        <4>1. FromSequence => got = StartSeqNum BY <3>2, <3>5 DEF IsDue
        <4>2. Len(delivered') = 1 /\ delivered'[1] = got /\ got \in Nat BY <1>0, <3>2, <3>3, <3>5
        <4> QED BY <2>2, <3>3, <3>4, <4>1, <4>2
      <3>6. CASE delivered # <<>>
        <4>1. Len(delivered) \in Nat \ {0} BY <1>0, <3>6, EmptySeq
        <4>2. last = delivered[Len(delivered)] /\ last \in Nat /\ last # None
          BY <1>0, <3>a, <3>6, <4>1, NoneIsNoSeqNum
        <4>3. got = last + 1 BY <3>2, <4>2 DEF IsDue
        <4>4. delivered[1] \in Nat /\ last = delivered[1] + Len(delivered) - 1 BY <3>a, <4>1, <4>2
        <4>5. got = delivered[1] + (Len(delivered) + 1) - 1 BY <4>1, <4>2, <4>3, <4>4
        <4>6. delivered'[1] = delivered[1] BY <3>3, <4>1
        <4>7. \A k \in 1..Len(delivered') : k \in 1..Len(delivered) \/ k = Len(delivered) + 1
          BY <3>3, <4>1
        <4> QED BY <2>2, <3>3, <3>4, <3>6, <4>5, <4>6, <4>7
      <3> QED BY <3>5, <3>6
    <2> QED BY <1>9, <2>1, <2>2 DEF CreateCommit
  <1>10. ASSUME NEW e \in Epochs, WorkerCancelled(e) PROVE Returned'
    BY <1>10 DEF WorkerCancelled
  <1>11. ASSUME NEW e \in Epochs, WorkerBreaks(e) PROVE Returned'
    BY <1>11 DEF WorkerBreaks, Break
  <1>12. ASSUME NEW e \in Epochs, WorkerCheck(e) PROVE Returned'
    BY <1>12 DEF WorkerCheck
  <1>13. ASSUME NEW e \in Epochs, WorkerOpen(e) PROVE Returned'
    BY <1>13 DEF WorkerOpen
  <1>14. ASSUME NEW e \in Epochs, WorkerRead(e) PROVE Returned'
    BY <1>14 DEF WorkerRead
  <1>15. ASSUME NEW e \in Epochs, WorkerSend(e) PROVE Returned'
    BY <1>15 DEF WorkerSend
  <1>16. ASSUME NEW e \in Epochs, WorkerStoreFailure(e) PROVE Returned'
    BY <1>16 DEF WorkerStoreFailure
  <1>17. ASSUME NEW e \in Epochs, WorkerPost(e) PROVE Returned'
    BY <1>17 DEF WorkerPost, Post
  <1>18. CASE AppendRecord BY <1>18 DEF AppendRecord
  <1>19. CASE UNCHANGED vars BY <1>19 DEF vars
  <1> QED
    BY <1>1, <1>2, <1>3, <1>4, <1>5, <1>6, <1>7, <1>8, <1>9, <1>10, <1>11, <1>12, <1>13,
    <1>14, <1>15, <1>16, <1>17, <1>18, <1>19 DEF Next, Create, Worker

\* What comes next is due.
LEMMA NextIsDueStep ==
  ASSUME S2SrcAssumption, IInv, [Next]_vars
  PROVE  NextIsDue'
  <1> USE DEF IInv, NextIsDue, stateVars, errorVars, createVars, lifeVars, workerVars
  <1>1. CASE Start
    <2>1. got = None /\ UNCHANGED <<got, queue>> /\ epoch' = epoch + 1
      BY <1>1 DEF Start, Spawn, StreamLockFree, Turns
    <2>2. epoch < MaxEpochs /\ epoch \in Nat /\ MaxEpochs \in Nat BY <1>1, Types DEF Start, Spawn
    <2>3. epoch + 1 \in Epochs /\ epoch + 1 > epoch BY <2>2 DEF Epochs
    <2>4. queue[epoch + 1] = <<>> BY <2>3 DEF Turns, Flow
    <2>5. wpc'[epoch'] = "check" /\ from'[epoch'] = None /\ last' = None
      BY <1>1, <2>1, <2>3, Types DEF Start, Spawn
    <2>6. Resume' = None /\ ~Exhausted' BY <2>5, NoneIsNoSeqNum DEF Resume, Exhausted, None
    <2>7. ~Begun' BY <2>1, <2>4, <2>5 DEF Begun
    <2> QED BY <2>1, <2>5, <2>6, <2>7
  <1>2. CASE Unlock
    BY <1>2, DueFrame DEF Unlock, Live
  <1>3. CASE UnlockStop
    <2>1. got = None /\ UNCHANGED <<got, queue, last, started>>
      BY <1>3 DEF UnlockStop, StreamLockFree, Turns
    <2>2. CASE Exhausted
      <3>1. UNCHANGED <<epoch, cancelled>> /\ epoch \in cancelled
        BY <1>3, <2>2 DEF UnlockStop, Turns
      <3> QED BY <2>1, <3>1, DueIdle DEF Live
    <2>3. CASE ~Exhausted /\ Spawn(Resume)
      <3>1. epoch < MaxEpochs /\ epoch \in Nat /\ MaxEpochs \in Nat BY <2>3, Types DEF Spawn
      <3>2. epoch + 1 \in Epochs /\ epoch + 1 > epoch BY <3>1 DEF Epochs
      <3>3. queue[epoch + 1] = <<>> BY <3>2 DEF Turns, Flow
      <3>4. epoch' = epoch + 1 /\ wpc'[epoch'] = "check" /\ from'[epoch'] = Resume
        BY <2>3, <3>2, Types DEF Spawn
      <3>5. Resume' = Resume /\ ~Exhausted' BY <2>1, <2>3 DEF Resume, Exhausted
      <3>6. ~Begun' BY <2>1, <3>3, <3>4 DEF Begun
      <3> QED BY <2>1, <3>4, <3>5, <3>6
    <2> QED BY <1>3, <2>2, <2>3 DEF UnlockStop
  <1>4. CASE Stop
    BY <1>4, DueIdle DEF Stop, StreamLockFree, Turns, Live
  <1>5. CASE Joined
    <2>0. wpc \in [Epochs -> Awaiting \union {"none", "failed", "stored", "exited"}] BY Types
    <2>1. UNCHANGED <<epoch, got, last, from, setting, started, queue, pos, cancelled, cpc>>
      BY <1>5 DEF Joined
    <2>2. Live' => Live BY <2>1 DEF Live
    <2>3. epoch \in Epochs => wpc'[epoch] = wpc[epoch] \/ wpc'[epoch] = "exited"
      BY <1>5, <2>0 DEF Joined, Turns
    <2> QED BY <2>1, <2>2, <2>3, DueFrame
  <1>6. CASE CreateBegin
    <2>1. UNCHANGED <<epoch, got, last, from, setting, started, queue, pos, cancelled, wpc>>
      BY <1>6 DEF CreateBegin
    <2>2. Live' => Live BY <1>6, <2>1 DEF CreateBegin, Live
    <2> QED BY <2>1, <2>2, DueFrame
  <1>7. CASE CreateWait
    <2>1. /\ UNCHANGED <<epoch, last, from, setting, started, pos, cancelled, wpc>>
          /\ chan = epoch /\ epoch \in Epochs /\ got = None
      BY <1>7 DEF CreateWait, Turns
    <2>2. Live' => Live BY <1>7, <2>1 DEF CreateWait, Live
    <2>3. CASE UNCHANGED <<got, queue>> BY <2>1, <2>2, <2>3, DueFrame
    <2>4. CASE /\ queue[chan] # <<>> /\ got' = Head(queue[chan])
               /\ queue' = [queue EXCEPT ![chan] = Tail(@)]
      <3> DEFINE q == queue[epoch]
      <3>1. q \in Seq(SeqNums) /\ q # <<>> /\ got' = Head(q) /\ queue'[epoch] = Tail(q)
            /\ pos[epoch] \in Nat
        BY <2>1, <2>4, Types
      <3>2. \A k \in 1..Len(q) : q[k] + Len(q) + 1 = pos[epoch] + k BY <2>1 DEF Flow
      <3>3. wpc[epoch] \notin {"none", "check", "open"} BY <2>1, <3>1 DEF Flow
      <3>4. Begun /\ Front = Head(q) BY <3>1 DEF Begun, Front
      <3>5. Live => IsDue(Head(q)) BY <2>1, <3>4
      <3> HIDE DEF q
      <3>6. got' # None BY <3>1, HeadAndTail, NoneIsNoSeqNum
      <3>7. Front' = got' + 1
        <4>1. /\ Len(q) \in Nat \ {0} /\ Head(q) = q[1] /\ Len(Tail(q)) = Len(q) - 1
              /\ Tail(q) \in Seq(SeqNums) /\ (Tail(q) = <<>> <=> Len(q) = 1)
              /\ \A k \in 1..Len(Tail(q)) : Tail(q)[k] = q[k + 1]
          BY <3>1, HeadAndTail
        <4>2. q[1] \in Nat /\ q[1] + Len(q) + 1 = pos[epoch] + 1 BY <3>1, <3>2, <4>1, Numbers
        <4>3. CASE Len(q) = 1
          <5>1. Front' = pos[epoch] BY <2>1, <3>1, <4>1, <4>3 DEF Front
          <5>2. pos[epoch] = q[1] + 1 BY <3>1, <4>2, <4>3
          <5> QED BY <3>1, <4>1, <5>1, <5>2
        <4>4. CASE Len(q) # 1
          <5>1. Tail(q) # <<>> /\ Front' = Head(Tail(q)) BY <2>1, <3>1, <4>1, <4>4 DEF Front
          <5>2. 1 \in 1..Len(Tail(q)) /\ 2 \in 1..Len(q) BY <4>1, <4>4
          <5>3. Head(Tail(q)) = q[2] BY <4>1, <5>1, <5>2, HeadAndTail
          <5>4. q[2] \in Nat /\ q[2] + Len(q) + 1 = pos[epoch] + 2 BY <3>1, <3>2, <5>2, Numbers
          <5>5. q[2] = q[1] + 1 BY <3>1, <4>1, <4>2, <5>4
          <5> QED BY <3>1, <4>1, <5>1, <5>3, <5>5
        <4> QED BY <4>3, <4>4
      <3>8. Live' => IsDue(got)' BY <2>1, <2>2, <3>1, <3>5 DEF IsDue, FromSequence
      <3> QED BY <2>1, <3>3, <3>6, <3>7, <3>8
    <2> QED BY <1>7, <2>3, <2>4 DEF CreateWait
  <1>8. CASE CreateRecheck
    <2>1. UNCHANGED <<epoch, last, from, setting, started, pos, queue, cancelled, wpc>>
      BY <1>8 DEF CreateRecheck
    <2>2. CASE cpc' = "ended" /\ got' = None BY <2>2, DueIdle DEF Live
    <2>3. CASE cpc' = "commit" /\ UNCHANGED got
      <3>1. Live' => Live BY <1>8, <2>1 DEF CreateRecheck, Live
      <3> QED BY <2>1, <2>3, <3>1, DueFrame
    <2> QED BY <1>8, <2>2, <2>3 DEF CreateRecheck
  <1>9. CASE CreateCommit
    <2>1. UNCHANGED <<epoch, from, setting, started, pos, queue, cancelled, wpc>> /\ got' = None
      BY <1>9 DEF CreateCommit
    <2>2. CASE cpc' = "ended" BY <2>1, <2>2, DueIdle DEF Live
    <2>3. CASE ~GiveUp /\ last' = got
      <3>1. Live /\ got # None BY <1>9, <2>3 DEF CreateCommit, GiveUp, Interrupted, Live, Turns
      <3>2. wpc[epoch] \notin {"none", "check", "open"} /\ (Begun => Front = got + 1) BY <3>1
      <3>3. Begun' = Begun /\ Front' = Front BY <2>1 DEF Begun, Front
      <3>4. Begun' => IsDue(Front)' BY <2>3, <3>1, <3>2, <3>3 DEF IsDue
      <3> QED BY <2>1, <3>2, <3>4
    <2> QED BY <1>9, <2>2, <2>3 DEF CreateCommit
  <1>10. ASSUME NEW e \in Epochs, WorkerCancelled(e) PROVE NextIsDue'
    <2>0. wpc \in [Epochs -> Awaiting \union {"none", "failed", "stored", "exited"}] BY Types
    <2>1. UNCHANGED <<epoch, got, last, from, setting, started, queue, pos, cancelled, cpc>>
      BY <1>10 DEF WorkerCancelled
    <2>2. Live' => Live BY <2>1 DEF Live
    <2>3. epoch \in Epochs =>
            \A places \in {{"check", "open"}, {"none", "check", "open"}, {"read", "send"}} :
              wpc'[epoch] \in places => wpc[epoch] \in places
      BY <1>10, <2>0 DEF WorkerCancelled
    <2> QED BY <2>1, <2>2, <2>3, DueFrame
  <1>11. ASSUME NEW e \in Epochs, WorkerBreaks(e) PROVE NextIsDue'
    <2>0. wpc \in [Epochs -> Awaiting \union {"none", "failed", "stored", "exited"}] BY Types
    <2>1. UNCHANGED <<epoch, got, last, from, setting, started, queue, pos, cancelled, cpc>>
      BY <1>11 DEF WorkerBreaks, Break
    <2>2. Live' => Live BY <2>1 DEF Live
    <2>3. epoch \in Epochs =>
            \A places \in {{"check", "open"}, {"none", "check", "open"}, {"read", "send"}} :
              wpc'[epoch] \in places => wpc[epoch] \in places
      BY <1>11, <2>0 DEF WorkerBreaks, Break
    <2> QED BY <2>1, <2>2, <2>3, DueFrame
  <1>12. ASSUME NEW e \in Epochs, WorkerCheck(e) PROVE NextIsDue'
    <2>0. wpc \in [Epochs -> Awaiting \union {"none", "failed", "stored", "exited"}] BY Types
    <2>1. UNCHANGED <<epoch, got, last, from, setting, started, queue, pos, cancelled, cpc>>
      BY <1>12 DEF WorkerCheck
    <2>2. Live' => Live BY <2>1 DEF Live
    <2>3. epoch \in Epochs =>
            \A places \in {{"check", "open"}, {"none", "check", "open"}, {"read", "send"}} :
              wpc'[epoch] \in places => wpc[epoch] \in places
      BY <1>12, <2>0 DEF WorkerCheck
    <2> QED BY <2>1, <2>2, <2>3, DueFrame
  <1>13. ASSUME NEW e \in Epochs, WorkerOpen(e) PROVE NextIsDue'
    <2>1. /\ UNCHANGED <<epoch, got, last, from, setting, started, queue, cancelled, cpc>>
          /\ wpc[e] = "open" /\ wpc' = [wpc EXCEPT ![e] = "read"]
          /\ \A d \in Epochs \ {e} : pos'[d] = pos[d] /\ wpc'[d] = wpc[d]
      BY <1>13, Types DEF WorkerOpen
    <2>2. Live' => Live BY <2>1 DEF Live
    <2>3. CASE e # epoch
      <3>1. epoch \in Epochs => pos'[epoch] = pos[epoch] /\ wpc'[epoch] = wpc[epoch] BY <2>1, <2>3
      <3>2. CASE epoch \in Epochs BY <2>1, <2>2, <3>1, <3>2, DueFrame
      <3>3. CASE epoch \notin Epochs BY <2>1, <3>3, DueIdle DEF Live, Turns
      <3> QED BY <3>2, <3>3
    <2>4. CASE e = epoch
      <3>1. got = None /\ queue[epoch] = <<>> BY <2>1, <2>4 DEF Flow
      <3>2. wpc'[epoch] = "read" /\ Front' = pos'[epoch] BY <2>1, <2>4, <3>1, Types DEF Front
      <3>3. ASSUME Live PROVE IsDue(pos[epoch])'
        <4>1. from[epoch] = Resume /\ last # MaxSeq BY <2>1, <2>4, <3>3 DEF Exhausted
        <4>2. pos'[epoch] = IF Clamps(e) /\ StartOf(e) > written THEN written ELSE StartOf(e)
          BY <1>13, <2>4, Types DEF WorkerOpen
        <4>3. CASE last = None
          <5>1. from[epoch] = None BY <4>1, <4>3 DEF Resume
          <5>2. FromSequence => ~Clamps(e) /\ StartOf(e) = StartSeqNum
            BY <2>4, <5>1 DEF FromSequence, Clamps, StartOf
          <5>3. FromSequence => pos'[epoch] = StartSeqNum BY <4>2, <5>2
          <5> QED BY <2>1, <4>3, <5>3 DEF IsDue, FromSequence
        <4>4. CASE last # None
          <5>1. last \in Nat /\ last <= MaxSeq /\ MaxSeq \in Nat
            BY <4>4, Types, NoneIsNoSeqNum DEF SeqNums
          <5>2. from[epoch] = last + 1 /\ from[epoch] # None BY <4>1, <4>4, <5>1 DEF Resume, None
          <5>3. pos'[epoch] = last + 1 BY <2>4, <4>2, <5>2 DEF Clamps, StartOf
          <5> QED BY <2>1, <4>4, <5>3 DEF IsDue
        <4> QED BY <4>3, <4>4
      <3> QED BY <2>1, <2>2, <3>1, <3>2, <3>3 DEF IsDue
    <2> QED BY <2>3, <2>4
  <1>14. ASSUME NEW e \in Epochs, WorkerRead(e) PROVE NextIsDue'
    <2>0. wpc \in [Epochs -> Awaiting \union {"none", "failed", "stored", "exited"}] BY Types
    <2>1. UNCHANGED <<epoch, got, last, from, setting, started, queue, pos, cancelled, cpc>>
      BY <1>14 DEF WorkerRead
    <2>2. Live' => Live BY <2>1 DEF Live
    <2>3. epoch \in Epochs =>
            \A places \in {{"check", "open"}, {"none", "check", "open"}, {"read", "send"}} :
              wpc'[epoch] \in places => wpc[epoch] \in places
      BY <1>14, <2>0 DEF WorkerRead
    <2> QED BY <2>1, <2>2, <2>3, DueFrame
  <1>15. ASSUME NEW e \in Epochs, WorkerSend(e) PROVE NextIsDue'
    <2>1. /\ UNCHANGED <<epoch, got, last, from, setting, started, cancelled, cpc>> /\ wpc[e] = "send"
          /\ \A d \in Epochs \ {e} : pos'[d] = pos[d] /\ wpc'[d] = wpc[d] /\ queue'[d] = queue[d]
      BY <1>15, Types DEF WorkerSend
    <2>2. Live' => Live BY <2>1 DEF Live
    <2>3. CASE e # epoch
      <3>1. CASE epoch \in Epochs BY <2>1, <2>2, <2>3, <3>1, DueFrame
      <3>2. CASE epoch \notin Epochs /\ got = None BY <2>1, <3>2, DueIdle DEF Live, Turns
      <3>3. epoch \notin Epochs => got = None
        <4>1. cpc \in {"idle", "wait", "recheck", "commit", "ended"} BY DEF Typed, TypedFlags
        <4> QED BY <4>1 DEF Turns
      <3> QED BY <3>1, <3>2, <3>3
    <2>4. CASE e = epoch /\ UNCHANGED <<queue, pos>> /\ wpc' = [wpc EXCEPT ![e] = "exited"]
      <3>1. wpc'[epoch] = "exited" BY <2>4, Types
      <3> QED BY <2>1, <2>2, <2>4, <3>1, DueFrame
    <2>5. CASE /\ e = epoch
               /\ queue' = [queue EXCEPT ![e] = Append(@, pos[e])]
               /\ pos' = [pos EXCEPT ![e] = @ + 1]
               /\ wpc' = [wpc EXCEPT ![e] = IF pos[e] + 1 = upto[e] THEN "read" ELSE "send"]
      <3>1. pos[e] \in SeqNums /\ queue[e] \in Seq(SeqNums)
        <4>1. pos[e] < upto[e] /\ upto[e] <= written BY <2>1 DEF Flow
        <4>2. pos[e] \in Nat /\ upto[e] \in Nat /\ written \in Nat /\ MaxSeq \in Nat
          BY Types, NoneIsNoSeqNum
        <4>3. written <= MaxSeq + 1 BY <4>2 DEF Typed, TypedWorkers
        <4> QED BY <4>1, <4>2, <4>3, Types DEF SeqNums
      <3>2. queue'[epoch] = Append(queue[epoch], pos[epoch]) /\ wpc'[epoch] \in {"read", "send"}
        BY <2>5, Types
      <3>3. Append(queue[epoch], pos[epoch]) # <<>>
            /\ Head(Append(queue[epoch], pos[epoch])) =
                 IF queue[epoch] = <<>> THEN pos[epoch] ELSE Head(queue[epoch])
        BY <2>5, <3>1, Grown
      <3>4. Begun /\ Front' = Front BY <2>1, <2>5, <3>2, <3>3 DEF Begun, Front
      <3>5. wpc'[epoch] \notin {"none", "check", "open"} BY <3>2
      <3>6. \A n : IsDue(n) => IsDue(n)' BY <2>1 DEF IsDue, FromSequence
      <3>7. Live /\ got = None => IsDue(Front) BY <3>4
      <3>8. Live /\ got # None => IsDue(got) /\ Front = got + 1 BY <3>4
      <3>9. (Live' /\ got = None => IsDue(Front)') /\ (Live' /\ got # None => IsDue(got)')
        BY <2>1, <2>2, <3>4, <3>6, <3>7, <3>8 DEF IsDue, FromSequence
      <3> QED BY <2>1, <2>2, <3>4, <3>5, <3>8, <3>9
    <2> QED BY <1>15, <2>3, <2>4, <2>5 DEF WorkerSend
  <1>16. ASSUME NEW e \in Epochs, WorkerStoreFailure(e) PROVE NextIsDue'
    <2>0. wpc \in [Epochs -> Awaiting \union {"none", "failed", "stored", "exited"}] BY Types
    <2>1. UNCHANGED <<epoch, got, last, from, setting, started, queue, pos, cancelled, cpc>>
      BY <1>16 DEF WorkerStoreFailure
    <2>2. Live' => Live BY <2>1 DEF Live
    <2>3. epoch \in Epochs =>
            \A places \in {{"check", "open"}, {"none", "check", "open"}, {"read", "send"}} :
              wpc'[epoch] \in places => wpc[epoch] \in places
      BY <1>16, <2>0 DEF WorkerStoreFailure
    <2> QED BY <2>1, <2>2, <2>3, DueFrame
  <1>17. ASSUME NEW e \in Epochs, WorkerPost(e) PROVE NextIsDue'
    <2>0. wpc \in [Epochs -> Awaiting \union {"none", "failed", "stored", "exited"}] BY Types
    <2>1. UNCHANGED <<epoch, got, last, from, setting, started, queue, pos, cancelled, cpc>>
      BY <1>17 DEF WorkerPost, Post
    <2>2. Live' => Live BY <2>1 DEF Live
    <2>3. epoch \in Epochs =>
            \A places \in {{"check", "open"}, {"none", "check", "open"}, {"read", "send"}} :
              wpc'[epoch] \in places => wpc[epoch] \in places
      BY <1>17, <2>0 DEF WorkerPost, Post
    <2> QED BY <2>1, <2>2, <2>3, DueFrame
  <1>18. CASE AppendRecord
    BY <1>18, DueFrame DEF AppendRecord, Live
  <1>19. CASE UNCHANGED vars BY <1>19, DueFrame DEF vars, Live
  <1> QED
    BY <1>1, <1>2, <1>3, <1>4, <1>5, <1>6, <1>7, <1>8, <1>9, <1>10, <1>11, <1>12, <1>13,
    <1>14, <1>15, <1>16, <1>17, <1>18, <1>19 DEF Next, Create, Worker

\* The invariant holds in every step.
LEMMA NextIInv ==
  ASSUME S2SrcAssumption, IInv, [Next]_vars
  PROVE  IInv'
  <1>1. Typed'
    BY TypedFlagsStep, TypedEpochsStep, TypedErrorsStep, TypedCursorsStep, TypedWorkersStep,
       TypedChannelsStep DEF Typed
  <1> QED BY <1>1, ReceiverHomeStep, TurnsStep, FatesStep, FlowStep, ReturnedStep, NextIsDueStep
          DEF IInv

\* And with it what a reader of the code wants to know.
LEMMA IInvConsistent ==
  ASSUME S2SrcAssumption, IInv
  PROVE  Consistent /\ DeliveredInOrder
  <1>1. TypeOK BY TypedIsTypeOK DEF IInv
  <1>2. ReportedFailuresAreReal BY DEF IInv, Fates, ReportedFailuresAreReal
  <1> QED BY <1>1, <1>2 DEF IInv, Returned, Consistent

\* Every reachable state satisfies the invariant.
LEMMA Invariant ==
  ASSUME S2SrcAssumption
  PROVE  Spec => []IInv
  <1>1. Init => IInv BY InitIInv
  <1>2. IInv /\ [Next]_vars => IInv' BY NextIInv
  <1> QED BY <1>1, <1>2, PTL DEF Spec

\* From start() on the buffers returned are consecutive records, none lost and none
\* twice, over any number of flushes, failed reads and replaced workers.
THEOREM SourceResumes ==
  ASSUME S2SrcAssumption
  PROVE  Spec => []DeliveredInOrder
  <1>1. IInv => DeliveredInOrder BY IInvConsistent
  <1> QED BY <1>1, Invariant, PTL

\* A channel stays within its bound, create() finds the receiver of the worker it
\* watches, and each failure is told once, of a worker that did fail.
THEOREM SourceIsConsistent ==
  ASSUME S2SrcAssumption
  PROVE  Spec => []Consistent
  <1>1. IInv => Consistent BY IInvConsistent
  <1> QED BY <1>1, Invariant, PTL
=============================================================================
