------------------------------ MODULE NatsSrc ------------------------------
(***************************************************************************)
(* natssrc (net/nats/src/natssrc/imp.rs) through one run: create() takes   *)
(* the subscriber out of the state, waits for a message, a flush, or a     *)
(* rejection by the server, and puts the subscriber back.  The Core NATS   *)
(* client fills the subscription's buffer and drops what does not fit.     *)
(*                                                                         *)
(* GStreamer ends the streaming task before it calls stop(); create() is   *)
(* written for a stop() that overtakes it, and the model has that too.     *)
(***************************************************************************)
EXTENDS Naturals, Sequences, FiniteSets, SequencesExt

CONSTANTS
  Capacity,      \* subscription-capacity
  ServerDenies,  \* may the server deny the subscription?
  AttachFails,   \* may attaching the metadata fail?
  MaxMessages,   \* bound: messages sent to the subject
  MaxFlushes     \* bound: unlock() calls

NatsSrcAssumption ==
  /\ Capacity \in Nat \ {0} /\ MaxMessages \in Nat /\ MaxFlushes \in Nat
  /\ {ServerDenies, AttachFails} \subseteq BOOLEAN

VARIABLES
  started, token, cancelled, rejected, \* State::Started; tokens are numbered, the current one is token
  holder,                \* where the subscriber is: "state", "create" or "released"
  pc, mine, got,         \* create(): where it is, its token, what it waited for
  buffer, closed,        \* the subscription: messages waiting; no more will come
  sent, overflowed,      \* messages sent to the subject; those the client dropped
  cbpc,                  \* the event callback: "idle" or "report"
  delivered, discarded,  \* history: messages returned; taken and given up
  readErrors, formatErrors, permissionErrors  \* history: messages on the bus

stateVars  == <<started, token, cancelled, rejected>>
createVars == <<pc, mine, got>>
clientVars == <<buffer, closed, sent, overflowed, cbpc>>
fateVars   == <<delivered, discarded, readErrors, formatErrors>>
vars == <<stateVars, holder, createVars, clientVars, fateVars, permissionErrors>>

Messages == 1..MaxMessages
Nothing == 0                          \* the wait was cancelled
End == MaxMessages + 1                \* the subscription yielded None
-----------------------------------------------------------------------------
Init ==
  /\ started = TRUE /\ token = 0 /\ cancelled = {} /\ rejected = FALSE
  /\ holder = "state"
  /\ pc = "idle" /\ mine = 0 /\ got = Nothing
  /\ buffer = <<>> /\ closed = FALSE /\ sent = 0 /\ overflowed = {} /\ cbpc = "idle"
  /\ delivered = <<>> /\ discarded = {} /\ readErrors = 0 /\ formatErrors = 0
  /\ permissionErrors = 0

\* create(): an error or FLUSHING returned pauses the streaming task ("ended").
CreateBegin ==
  /\ pc = "idle"
  /\ IF started /\ holder = "state"
     THEN pc' = "wait" /\ holder' = "create" /\ mine' = token
     ELSE pc' = "ended" /\ UNCHANGED <<holder, mine>>
  /\ UNCHANGED <<stateVars, got, clientVars, fateVars, permissionErrors>>

\* run_until_cancelled and wait_or_cancel: a flush wins over a message.
CreateWaitUnflushed ==                                    \* mutant: flush not watched
  /\ pc = "wait"
  /\ \/ rejected /\ got' = Nothing /\ UNCHANGED buffer
     \/ buffer # <<>> /\ got' = Head(buffer) /\ buffer' = Tail(buffer)
     \/ buffer = <<>> /\ closed /\ got' = End /\ UNCHANGED buffer
  /\ pc' = "put_back"
  /\ UNCHANGED <<stateVars, holder, mine, closed, sent, overflowed, cbpc, fateVars, permissionErrors>>
CreateWait ==
  /\ pc = "wait"
  /\ \/ (rejected \/ mine \in cancelled) /\ got' = Nothing /\ UNCHANGED buffer
     \/ mine \notin cancelled /\ buffer # <<>> /\ got' = Head(buffer) /\ buffer' = Tail(buffer)
     \/ mine \notin cancelled /\ buffer = <<>> /\ closed /\ got' = End /\ UNCHANGED buffer
  /\ pc' = "put_back"
  /\ UNCHANGED <<stateVars, holder, mine, closed, sent, overflowed, cbpc, fateVars, permissionErrors>>

GivenUp(m) == IF m \in Messages THEN discarded \union {m} ELSE discarded

\* Back into the state, or, when stop() came first, unsubscribed here.
CreateDrops ==                                            \* mutant: late stop overlooked
  /\ pc = "put_back"
  /\ IF started THEN holder' = "state" /\ pc' = "check" /\ UNCHANGED <<got, discarded>>
     ELSE pc' = "ended" /\ got' = Nothing /\ discarded' = GivenUp(got) /\ UNCHANGED holder
  /\ UNCHANGED <<stateVars, mine, clientVars, delivered, readErrors, formatErrors, permissionErrors>>
CreatePutBack ==
  /\ pc = "put_back"
  /\ IF started THEN holder' = "state" /\ pc' = "check" /\ UNCHANGED <<got, discarded>>
     ELSE holder' = "released" /\ pc' = "ended" /\ got' = Nothing /\ discarded' = GivenUp(got)
  /\ UNCHANGED <<stateVars, mine, clientVars, delivered, readErrors, formatErrors, permissionErrors>>

\* Rejected, flushed, nothing, the end of the subscription, or a message.
Interrupted == rejected \/ mine \in cancelled \/ got = Nothing
CreateCheck ==
  /\ pc = "check" /\ got' = Nothing
  /\ \/ /\ Interrupted
        /\ pc' = "ended" /\ discarded' = GivenUp(got)
        /\ UNCHANGED <<delivered, readErrors, formatErrors>>
     \/ /\ ~Interrupted /\ got = End
        /\ pc' = "ended" /\ readErrors' = readErrors + 1
        /\ UNCHANGED <<delivered, discarded, formatErrors>>
     \/ /\ ~Interrupted /\ got # End
        /\ pc' = "idle" /\ delivered' = Append(delivered, got)
        /\ UNCHANGED <<discarded, readErrors, formatErrors>>
     \/ /\ ~Interrupted /\ got # End /\ AttachFails
        /\ pc' = "ended" /\ discarded' = GivenUp(got) /\ formatErrors' = formatErrors + 1
        /\ UNCHANGED <<delivered, readErrors>>
  /\ UNCHANGED <<stateVars, holder, mine, clientVars, permissionErrors>>
-----------------------------------------------------------------------------
Unlock ==
  /\ started /\ token \notin cancelled /\ token < MaxFlushes
  /\ cancelled' = cancelled \union {token}
  /\ UNCHANGED <<started, token, rejected, holder, createVars, clientVars, fateVars, permissionErrors>>

\* A new token; GStreamer starts the streaming task again when the flush is over.
NextToken == token + 1
UnlockStop ==
  /\ started /\ pc \in {"idle", "ended"} /\ token \in cancelled
  /\ token' = NextToken /\ pc' = "idle"
  /\ UNCHANGED <<started, cancelled, rejected, holder, mine, got, clientVars, fateVars, permissionErrors>>

\* stop(): whatever the state holds is unsubscribed, within connection-timeout.
Stop ==
  /\ started
  /\ started' = FALSE /\ cancelled' = cancelled \union {token}
  /\ holder' = IF holder = "state" THEN "released" ELSE holder
  /\ UNCHANGED <<token, rejected, createVars, clientVars, fateVars, permissionErrors>>

\* The client: a message that finds the buffer full is dropped.
Room == Len(buffer) < Capacity
Receive ==
  /\ sent < MaxMessages /\ ~closed /\ holder # "released" /\ sent' = sent + 1
  /\ IF Room
     THEN buffer' = Append(buffer, sent + 1) /\ UNCHANGED overflowed
     ELSE overflowed' = overflowed \union {sent + 1} /\ UNCHANGED buffer
  /\ UNCHANGED <<stateVars, holder, createVars, closed, cbpc, fateVars, permissionErrors>>

Close ==
  /\ ~closed /\ closed' = TRUE
  /\ UNCHANGED <<stateVars, holder, createVars, buffer, sent, overflowed, cbpc, fateVars, permissionErrors>>

\* observe_events: the first denied permission rejects the run and is reported.
CallbackReject ==
  /\ ServerDenies /\ started /\ cbpc = "idle" /\ ~rejected
  /\ rejected' = TRUE /\ cbpc' = "report"
  /\ UNCHANGED <<started, token, cancelled, holder, createVars, buffer, closed, sent, overflowed,
                 fateVars, permissionErrors>>

CallbackReport ==
  /\ cbpc = "report" /\ cbpc' = "idle" /\ permissionErrors' = permissionErrors + 1
  /\ UNCHANGED <<stateVars, holder, createVars, buffer, closed, sent, overflowed, fateVars>>

Create == CreateBegin \/ CreateWait \/ CreatePutBack \/ CreateCheck
Client == Receive \/ Close
Next == Create \/ Unlock \/ UnlockStop \/ Stop \/ Client \/ CallbackReject \/ CallbackReport

Spec == Init /\ [][Next]_vars

-----------------------------------------------------------------------------
\* Every variable holds a value of its type; the subscription's buffer is bounded.
TypeOK ==
  /\ {started, rejected, closed} \subseteq BOOLEAN
  /\ token \in 0..MaxFlushes /\ mine \in 0..MaxFlushes /\ cancelled \subseteq 0..MaxFlushes
  /\ holder \in {"state", "create", "released"}
  /\ pc \in {"idle", "wait", "put_back", "check", "ended"} /\ got \in 0..(MaxMessages + 1)
  /\ buffer \in Seq(Messages) /\ Len(buffer) <= Capacity
  /\ sent \in 0..MaxMessages /\ overflowed \subseteq Messages /\ discarded \subseteq Messages
  /\ cbpc \in {"idle", "report"} /\ delivered \in Seq(Messages)
  /\ {readErrors, formatErrors, permissionErrors} \subseteq Nat

\* The subscriber is in create()'s hands only while it waits; otherwise it is in
\* the state, and after stop() it is unsubscribed, by whichever of the two had it.
SubscriberNotLeaked ==
  pc \in {"idle", "check", "ended"} => holder = IF started THEN "state" ELSE "released"

\* Well typed, and the subscriber in the right hands.
Consistent == TypeOK /\ SubscriberNotLeaked

\* Buffers come in the order of the messages, and every message received is
\* delivered, waiting, in create()'s hands, or lost for a reason: the buffer was
\* full, or one flush, rejection, stop or failed attachment took one message.
LossesExplained ==
  LET hands == {got} \intersect Messages
      parts == <<ToSet(delivered), ToSet(buffer), hands, overflowed, discarded>>
  IN /\ \A k \in 2..Len(delivered) : delivered[k - 1] < delivered[k]
     /\ UNION ToSet(parts) = 1..sent
     /\ \A j, k \in 1..5 : j # k => parts[j] \intersect parts[k] = {}
     /\ Cardinality(discarded) <= Cardinality(cancelled) + formatErrors + (IF rejected THEN 1 ELSE 0)

=============================================================================
