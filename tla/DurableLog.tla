----------------------------- MODULE DurableLog -----------------------------
(***************************************************************************)
(* What s2sink promises the pipeline, without its queue, worker or locks:  *)
(* records are accepted one after another, become durable in exactly the   *)
(* order of acceptance, and a barrier (the drain of EOS, or of stop()) is  *)
(* confirmed only at a moment when everything accepted is durable.         *)
(***************************************************************************)
EXTENDS Naturals, Sequences

CONSTANTS Records, Barriers

VARIABLES accepted,   \* the records render() admitted, in order
          log,        \* the records the service acknowledged, in order
          confirmed   \* per barrier: the accepted records it vouches for

logVars == <<accepted, log, confirmed>>

Init ==
  /\ accepted = <<>> /\ log = <<>>
  /\ confirmed = [b \in Barriers |-> 0]

Accept(r) ==
  /\ accepted' = Append(accepted, r)
  /\ UNCHANGED <<log, confirmed>>

Persist ==
  /\ Len(log) < Len(accepted)
  /\ log' = Append(log, accepted[Len(log) + 1])
  /\ UNCHANGED <<accepted, confirmed>>

Request(b) ==
  /\ confirmed' = [confirmed EXCEPT ![b] = 0]
  /\ UNCHANGED <<accepted, log>>

Confirm(b) ==
  /\ Len(log) = Len(accepted)
  /\ confirmed' = [confirmed EXCEPT ![b] = Len(log)]
  /\ UNCHANGED <<accepted, log>>

Next ==
  \/ \E r \in Records : Accept(r)
  \/ Persist
  \/ \E b \in Barriers : Request(b) \/ Confirm(b)

Spec == Init /\ [][Next]_logVars
=============================================================================
