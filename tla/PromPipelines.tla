---------------------------- MODULE PromPipelines ----------------------------
(***************************************************************************)
(* The state gauges of one pipeline (utils/prometheus/src/metrics.rs): the *)
(* state-change hook sets them one after another, a scrape first refreshes *)
(* them the same way and then writes them out one after another.  The      *)
(* registry lock keeps scrapes apart, nothing keeps a hook out of them,    *)
(* and a state a change ends in asynchronously has no hook.                *)
(***************************************************************************)
EXTENDS Naturals, FiniteSets, FiniteSetsExt

CONSTANTS MaxMoves  \* bound: state changes

MovesAssumption == MaxMoves \in Nat

VARIABLES
  live,      \* does the pipeline exist?
  state,     \* its current state: 0..3 for NULL, READY, PAUSED, PLAYING
  tracked,   \* has the map its PipelineEntry?
  observed,  \* observed_transition
  gauge,     \* the four gauges, those of an entry that is gone included
  hook, hookState,      \* the hook: the next gauge it sets, the state it saw
  scrape, scrapeState,  \* the scrape: where it is, the state it saw
  next,      \* the next gauge the scrape sets or writes
  output,    \* what the scrape wrote: per state a value, or Missing
  disturbed, \* history: a change or a hook overlapped this scrape
  moves

pipelineVars == <<live, state, tracked, observed, gauge, hook, hookState, scrape, scrapeState,
                  next, output, disturbed, moves>>

States == 0..3
Idle == 4              \* a hook that has set its four gauges is over
Missing == 2           \* no gauge written for that state
OneHot(s) == [i \in States |-> IF i = s THEN 1 ELSE 0]
-----------------------------------------------------------------------------
Init ==
  /\ live = TRUE /\ state = 0 /\ tracked = FALSE /\ observed = FALSE
  /\ gauge = [i \in States |-> 0]
  /\ hook = Idle /\ hookState = 0
  /\ scrape = "idle" /\ scrapeState = 0 /\ next = 0
  /\ output = [i \in States |-> Missing]
  /\ disturbed = FALSE /\ moves = 0

\* track_pipeline, from element-new or bin-add: the entry, its gauges at zero.
TrackPipeline ==
  /\ live /\ ~tracked /\ hook = Idle
  /\ tracked' = TRUE /\ gauge' = [i \in States |-> 0]
  /\ disturbed' = TRUE
  /\ UNCHANGED <<live, state, observed, hook, hookState, scrape, scrapeState, next, output, moves>>

\* The current state changes without a hook: an asynchronous change ends.
Commit(s) ==
  /\ live /\ s # state /\ moves < MaxMoves
  /\ state' = s /\ moves' = moves + 1 /\ disturbed' = TRUE
  /\ UNCHANGED <<live, tracked, observed, gauge, hook, hookState, scrape, scrapeState, next, output>>

\* element-change-state-post after a change to s that took effect: set_pipeline_state.
StateHook(s) ==
  /\ live /\ hook = Idle /\ moves < MaxMoves
  /\ state' = s /\ moves' = moves + 1 /\ disturbed' = TRUE
  /\ gauge' = IF tracked THEN gauge ELSE [i \in States |-> 0]
  /\ tracked' = TRUE /\ observed' = TRUE
  /\ hook' = 0 /\ hookState' = s
  /\ UNCHANGED <<live, scrape, scrapeState, next, output>>

\* set_pipeline_entry_state, called by the hook, one gauge.
HookSets ==
  /\ hook # Idle
  /\ gauge' = [gauge EXCEPT ![hook] = IF hook = hookState THEN 1 ELSE 0]
  /\ hook' = hook + 1 /\ disturbed' = TRUE
  /\ UNCHANGED <<live, state, tracked, observed, hookState, scrape, scrapeState, next, output, moves>>

\* object-destroyed: remove_pipeline_key.
Destroy ==
  /\ live /\ hook = Idle
  /\ live' = FALSE /\ tracked' = FALSE /\ observed' = FALSE
  /\ disturbed' = TRUE
  /\ UNCHANGED <<state, gauge, hook, hookState, scrape, scrapeState, next, output, moves>>
-----------------------------------------------------------------------------
Refreshes == tracked /\ observed /\ live

\* encode() under the registry lock: refresh_pipeline_states reads the state.
ScrapeBegin ==
  /\ scrape = "idle"
  /\ disturbed' = (hook # Idle)
  /\ scrapeState' = state /\ next' = 0
  /\ scrape' = IF Refreshes THEN "refresh" ELSE "write"
  /\ output' = [i \in States |-> Missing]
  /\ UNCHANGED <<live, state, tracked, observed, gauge, hook, hookState, moves>>

\* set_pipeline_entry_state, called by the refresh, one gauge of an entry still there.
ScrapeSets ==
  /\ scrape = "refresh"
  /\ gauge' = IF tracked THEN [gauge EXCEPT ![next] = IF next = scrapeState THEN 1 ELSE 0]
              ELSE gauge
  /\ next' = (next + 1) % 4
  /\ scrape' = IF next = 3 THEN "write" ELSE "refresh"
  /\ UNCHANGED <<live, state, tracked, observed, hook, hookState, scrapeState, output, disturbed, moves>>

\* encode writes one gauge of a label set that the family still has.
ScrapeWrites ==
  /\ scrape = "write"
  /\ output' = IF tracked THEN [output EXCEPT ![next] = gauge[next]] ELSE output
  /\ next' = (next + 1) % 4
  /\ scrape' = IF next = 3 THEN "done" ELSE "write"
  /\ UNCHANGED <<live, state, tracked, observed, gauge, hook, hookState, scrapeState, disturbed, moves>>

ScrapeEnd ==
  /\ scrape = "done"
  /\ scrape' = "idle"
  /\ UNCHANGED <<live, state, tracked, observed, gauge, hook, hookState, scrapeState, next, output,
                 disturbed, moves>>

Next ==
  \/ TrackPipeline \/ HookSets \/ Destroy \/ ScrapeBegin \/ ScrapeSets \/ ScrapeWrites \/ ScrapeEnd
  \/ \E s \in States : Commit(s) \/ StateHook(s)

Spec == Init /\ [][Next]_pipelineVars
-----------------------------------------------------------------------------
TypeOK ==
  /\ live \in BOOLEAN /\ state \in States /\ tracked \in BOOLEAN /\ observed \in BOOLEAN
  /\ gauge \in [States -> 0..1] /\ hook \in 0..Idle /\ hookState \in States
  /\ scrape \in {"idle", "refresh", "write", "done"} /\ scrapeState \in States /\ next \in States
  /\ output \in [States -> {Missing, 0, 1}] /\ disturbed \in BOOLEAN /\ moves \in 0..MaxMoves

\* A scrape that no hook and no change overlapped shows the pipeline's state as
\* one hot gauge, whatever torn or stale values hooks and scrapes left before it;
\* a pipeline without a transition shows none, and one that is gone nothing.
ScrapeIsRight ==
  scrape = "done" /\ ~disturbed =>
    output = IF ~tracked THEN [i \in States |-> Missing]
             ELSE IF observed THEN OneHot(state) ELSE [i \in States |-> 0]

PipelinesConsistent == TypeOK /\ ScrapeIsRight
=============================================================================
