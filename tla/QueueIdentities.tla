--------------------------- MODULE QueueIdentities ---------------------------
(***************************************************************************)
(* The cache of queue identities of the tracers (QueueCache, here of       *)
(* utils/prometheus/src/metrics.rs; the statsd tracer has the same): a     *)
(* queue's label is its path, a scrape reuses the labels of the last       *)
(* rebuild, and one dirty flag, set by bin hooks and by name watches on    *)
(* the queues and their ancestors, asks for the next rebuild.              *)
(*                                                                         *)
(* The graph changes while a scrape runs: a rename takes effect before its *)
(* notification, a bin addition before its hook, a removal between its     *)
(* two hooks, and parenting outside the bin API has no hook at all.        *)
(***************************************************************************)
EXTENDS Naturals, Sequences, FiniteSets, Functions

CONSTANTS
  Queues, Bins,  \* elements; the bins include the pipelines
  Root,          \* the pipeline, which stays where it is
  MaxEdits,      \* bound: renames, additions and removals
  MaxDirect,     \* bound: changes of a parent outside the bin API
  MaxGraphChanges \* bound: both together

GraphAssumption ==
  /\ Queues # {} /\ Queues \intersect Bins = {} /\ Root \in Bins
  /\ {"nothing", "unwatched"} \intersect (Queues \union Bins) = {}
  /\ MaxEdits \in Nat /\ MaxDirect \in Nat /\ MaxGraphChanges \in Nat

VARIABLES
  parent, name,   \* the graph
  notifying,      \* objects renamed whose notification is still to come
  hooking,        \* additions and removals whose next hook is still to come
  queues,        \* the queues map
  forgotten,      \* history: queues a removal that failed has dropped from the map
  dirty,          \* queue_identities_dirty
  due,            \* have thirty seconds passed since checked_at?
  unhooked,       \* history: parenting outside the bin API since the last check
  moved,          \* history: the objects of which it fell into the last rebuild
  torn,           \* history: has one of these been moved so again?
  watches,        \* per object: the parent its NameWatch recorded, or Unwatched
  cached,         \* per queue: its cached label, or NoLabel
  labels,         \* the label sets of the gauge families
  sampler, todo, queue, walk, seen, prefixes, sampled, \* the scrape: where it is, and its locals
  calm,           \* history: nothing changed since this scrape began
  edits, directs

graphVars == <<parent, name, notifying, hooking, forgotten, unhooked, moved, torn, edits, directs>>
localVars == <<sampler, todo, queue, walk, seen, prefixes, sampled>>
queueVars == <<graphVars, queues, dirty, due, watches, cached, labels, localVars, calm>>

Objects   == Queues \union Bins
Nothing   == "nothing"
Unwatched == "unwatched"
NoLabel   == <<>>
Names     == {"kept", "excluded"}
AnyQueue  == CHOOSE q \in Queues : TRUE

\* path_string: the names from the top down to the object.
Path(o) ==
  LET path[x \in Objects] ==
        IF parent[x] = Nothing THEN <<name[x]>> ELSE Append(path[parent[x]], name[x])
  IN path[o]
Included(path) == "excluded" \notin Range(path)

\* What the scrape should show of a queue, and what its cache has.
Truth(q) == IF q \in queues /\ Included(Path(q)) THEN Path(q) ELSE NoLabel
Rebuilding == sampler \in {"snapshot", "rebuild", "watch"}
Pending == notifying # {} \/ hooking # {}
-----------------------------------------------------------------------------
Init ==
  /\ parent = [o \in Objects |-> Nothing] /\ name = [o \in Objects |-> "kept"]
  /\ notifying = {} /\ hooking = {} /\ queues = {} /\ forgotten = {}
  /\ dirty = FALSE /\ due = TRUE /\ unhooked = FALSE /\ moved = {} /\ torn = FALSE
  /\ watches = [o \in Objects |-> Unwatched] /\ cached = [q \in Queues |-> NoLabel]
  /\ labels = {}
  /\ sampler = "idle" /\ todo = {} /\ queue = AnyQueue /\ walk = Nothing /\ seen = {}
  /\ prefixes = [b \in Bins |-> NoLabel] /\ sampled = {}
  /\ calm = FALSE /\ edits = 0 /\ directs = 0

\* An edit of the graph and what the tracer hears of it.
MayChange == edits + directs < MaxGraphChanges
Edit == edits < MaxEdits /\ MayChange /\ edits' = edits + 1 /\ calm' = FALSE
Heard == UNCHANGED <<edits, directs, name>> /\ calm' = FALSE
OutsideScrape == UNCHANGED <<due, watches, labels, localVars>>
Hooked == UNCHANGED <<unhooked, moved, torn>> /\ OutsideScrape

Rename(o, n) ==
  /\ Edit /\ name[o] # n
  /\ name' = [name EXCEPT ![o] = n] /\ notifying' = notifying \union {o}
  /\ UNCHANGED <<parent, hooking, forgotten, directs, queues, dirty, cached>>
  /\ Hooked

\* NameWatch: the notification reaches the watch that is there when it is sent.
Notify(o) ==
  /\ o \in notifying
  /\ notifying' = notifying \ {o}
  /\ dirty' = (dirty \/ watches[o] # Unwatched)
  /\ Heard /\ UNCHANGED <<parent, hooking, forgotten, queues, cached>>
  /\ Hooked

\* A bin is added to the root, a queue to any bin.
MayHold(o, b) == o # Root /\ o # b /\ (o \in Queues \/ b = Root)

Add(o, b) ==
  /\ Edit /\ MayHold(o, b) /\ parent[o] = Nothing /\ \A h \in hooking : h[2] # o
  /\ parent' = [parent EXCEPT ![o] = b] /\ hooking' = hooking \union {<<"added", o>>}
  /\ UNCHANGED <<name, notifying, forgotten, directs, queues, dirty, cached>>
  /\ Hooked

\* bin-add-post: track_queue, invalidate_queue_identities.
BinAddPost(o) ==
  /\ <<"added", o>> \in hooking
  /\ hooking' = hooking \ {<<"added", o>>}
  /\ queues' = queues \union ({o} \intersect Queues)
  /\ forgotten' = forgotten \ {o}
  /\ dirty' = TRUE
  /\ Heard /\ UNCHANGED <<parent, notifying, cached>>
  /\ Hooked

\* bin-remove-pre: remove_object_key; a cached label of the queue loses its entry.
BinRemovePre(o) ==
  /\ Edit /\ parent[o] # Nothing /\ \A h \in hooking : h[2] # o
  /\ hooking' = hooking \union {<<"removing", o>>}
  /\ queues' = queues \ {o} /\ dirty' = TRUE
  /\ cached' = IF o \in Queues THEN [cached EXCEPT ![o] = NoLabel] ELSE cached
  /\ UNCHANGED <<parent, name, notifying, forgotten, directs>>
  /\ Hooked

Unparent(o) ==
  /\ <<"removing", o>> \in hooking
  /\ hooking' = (hooking \ {<<"removing", o>>}) \union {<<"removed", o>>}
  /\ parent' = [parent EXCEPT ![o] = Nothing] /\ forgotten' = forgotten \ {o}
  /\ Heard /\ UNCHANGED <<notifying, queues, dirty, cached>>
  /\ Hooked

\* bin-remove-post after a removal that failed: nothing, the queue stays forgotten.
RemoveFails(o) ==
  /\ <<"removing", o>> \in hooking
  /\ hooking' = hooking \ {<<"removing", o>>}
  /\ forgotten' = forgotten \union ({o} \intersect Queues)
  /\ Heard /\ UNCHANGED <<parent, notifying, queues, dirty, cached>>
  /\ Hooked

\* bin-remove-post after the removal: invalidate_queue_identities once more.
AgainDirty == UNCHANGED dirty                             \* mutant: pre-hook only
NowDirty == dirty' = TRUE

BinRemovePost(o) ==
  /\ <<"removed", o>> \in hooking
  /\ hooking' = hooking \ {<<"removed", o>>}
  /\ NowDirty
  /\ Heard /\ UNCHANGED <<parent, notifying, forgotten, queues, cached>>
  /\ Hooked

\* gst_object_set_parent and unparent, outside the bin API: nobody is told.
DirectParent(o, b) ==
  /\ directs < MaxDirect /\ MayChange /\ directs' = directs + 1 /\ calm' = FALSE
  /\ parent[o] # b /\ (b # Nothing => MayHold(o, b)) /\ o # Root /\ \A h \in hooking : h[2] # o
  /\ parent' = [parent EXCEPT ![o] = b] /\ unhooked' = TRUE
  /\ moved' = (IF Rebuilding THEN moved \union {o} ELSE moved) /\ torn' = (torn \/ o \in moved)
  /\ UNCHANGED <<name, notifying, hooking, forgotten, edits, queues, dirty, cached>>
  /\ OutsideScrape

ThirtySecondsPass ==
  /\ ~due /\ due' = TRUE
  /\ UNCHANGED <<graphVars, queues, dirty, watches, cached, labels, localVars, calm>>
-----------------------------------------------------------------------------
\* refresh_queue_cache takes the flag before anything else, and decides whether
\* the labels of the last rebuild still do.
NamesOnly == TRUE                                         \* mutant: parents not compared
ParentsMatch == \A o \in Objects : watches[o] \in {Unwatched, parent[o]}

ScrapeBegin ==
  /\ sampler = "idle"
  /\ dirty' = FALSE
  /\ due' = FALSE
  /\ unhooked' = (unhooked /\ ~dirty /\ ~due)
  /\ sampler' = IF dirty \/ (due /\ ~ParentsMatch) THEN "snapshot" ELSE "sample"
  /\ todo' = IF sampler' = "sample" THEN {q \in Queues : cached[q] # NoLabel} ELSE {}
  /\ moved' = (IF sampler' = "snapshot" THEN {} ELSE moved) /\ torn' = (torn /\ sampler' = "sample")
  /\ calm' = (~Pending /\ ~unhooked' /\ ~torn') /\ sampled' = {}
  /\ UNCHANGED <<parent, name, notifying, hooking, forgotten, edits, directs, queues, watches,
                 cached, labels, queue, walk, seen, prefixes>>

Snapshot ==
  /\ sampler = "snapshot"
  /\ sampler' = "rebuild" /\ todo' = queues
  /\ cached' = [q \in Queues |-> NoLabel]
  /\ seen' = {} /\ prefixes' = [b \in Bins |-> NoLabel]
  /\ UNCHANGED <<graphVars, queues, dirty, due, watches, labels, queue, walk, sampled, calm>>

RebuildQueue(q) ==
  /\ sampler = "rebuild" /\ q \in todo
  /\ sampler' = "watch" /\ queue' = q /\ walk' = q /\ todo' = todo \ {q}
  /\ UNCHANGED <<graphVars, queues, dirty, due, watches, cached, labels, seen, prefixes, sampled, calm>>

\* watch_ancestors: one object of the chain, unless it was seen already.
WatchAncestor ==
  /\ sampler = "watch" /\ walk \notin seen \union {Nothing}
  /\ seen' = seen \union {walk}
  /\ watches' = [watches EXCEPT ![walk] = parent[walk]]
  /\ walk' = parent[walk]
  /\ UNCHANGED <<graphVars, queues, dirty, due, cached, labels, sampler, todo, queue, prefixes,
                 sampled, calm>>

\* The identity: the parent's path, computed once per rebuild, and the own name.
ReadIdentity ==
  /\ sampler = "watch" /\ walk \in seen \union {Nothing}
  /\ LET b == parent[queue]
         prefix == IF b = Nothing THEN <<>>
                   ELSE IF prefixes[b] # NoLabel THEN prefixes[b] ELSE Path(b)
         label == Append(prefix, name[queue])
     IN /\ prefixes' = IF b = Nothing THEN prefixes ELSE [prefixes EXCEPT ![b] = prefix]
        /\ cached' = [cached EXCEPT ![queue] =
                        IF Included(label) /\ queue \in queues THEN label ELSE NoLabel]
  /\ sampler' = "rebuild" /\ walk' = Nothing
  /\ UNCHANGED <<graphVars, queues, dirty, due, watches, labels, todo, queue, seen, sampled, calm>>

\* Watches of objects that are no queue's ancestor any more go.
RetainWatches ==
  /\ sampler = "rebuild" /\ todo = {}
  /\ watches' = [o \in Objects |-> IF o \in seen THEN watches[o] ELSE Unwatched]
  /\ sampler' = "sample" /\ todo' = {q \in Queues : cached[q] # NoLabel}
  /\ UNCHANGED <<graphVars, queues, dirty, due, cached, labels, queue, walk, seen, prefixes,
                 sampled, calm>>

\* refresh_queues: the gauges of a cached queue whose entry is still there.
SampleQueue(q) ==
  /\ sampler = "sample" /\ q \in todo
  /\ todo' = todo \ {q}
  /\ sampled' = IF cached[q] # NoLabel THEN sampled \union {cached[q]} ELSE sampled
  /\ UNCHANGED <<graphVars, queues, dirty, due, watches, cached, labels, sampler, queue, walk, seen,
                 prefixes, calm>>

CurrentLabels == sampled

\* Label sets of the previous scrape that were not sampled now leave the families.
ScrapeEnd ==
  /\ sampler = "sample" /\ todo = {}
  /\ labels' = CurrentLabels
  /\ sampler' = "idle"
  /\ UNCHANGED <<graphVars, queues, dirty, due, watches, cached, todo, queue, walk, seen, prefixes,
                 sampled, calm>>
-----------------------------------------------------------------------------
Scrape ==
  \/ ScrapeBegin \/ Snapshot \/ WatchAncestor \/ ReadIdentity \/ RetainWatches \/ ScrapeEnd
  \/ \E q \in Queues : RebuildQueue(q) \/ SampleQueue(q)
HookRuns ==
  \E o \in Objects : Notify(o) \/ BinAddPost(o) \/ Unparent(o) \/ RemoveFails(o) \/ BinRemovePost(o)

Next ==
  \/ Scrape \/ HookRuns \/ ThirtySecondsPass
  \/ \E o \in Objects :
       \/ BinRemovePre(o)
       \/ \E n \in Names : Rename(o, n)
       \/ \E b \in Bins : Add(o, b)
       \/ \E b \in Bins \union {Nothing} : DirectParent(o, b)

Spec == Init /\ [][Next]_queueVars

\* Somebody scrapes again and again, a hook that began ends, and time passes.
QueueFairness ==
  WF_queueVars(Scrape) /\ WF_queueVars(HookRuns) /\ WF_queueVars(ThirtySecondsPass)
FairSpec == Spec /\ QueueFairness
-----------------------------------------------------------------------------
TypeOK ==
  /\ parent \in [Objects -> Bins \union {Nothing}] /\ name \in [Objects -> Names]
  /\ notifying \subseteq Objects /\ hooking \subseteq {"added", "removing", "removed"} \X Objects
  /\ queues \subseteq Queues /\ forgotten \subseteq Queues
  /\ dirty \in BOOLEAN /\ due \in BOOLEAN /\ unhooked \in BOOLEAN /\ calm \in BOOLEAN
  /\ moved \subseteq Objects /\ torn \in BOOLEAN
  /\ watches \in [Objects -> Bins \union {Nothing, Unwatched}]
  /\ cached \in [Queues -> Seq(Names)] /\ labels \subseteq Seq(Names)
  /\ sampler \in {"idle", "snapshot", "rebuild", "watch", "sample"}
  /\ todo \subseteq Queues /\ queue \in Queues /\ walk \in Objects \union {Nothing}
  /\ seen \subseteq Objects /\ prefixes \in [Bins -> Seq(Names)] /\ sampled \subseteq Seq(Names)
  /\ edits \in 0..MaxEdits /\ directs \in 0..MaxDirect

\* A cached label that is wrong, or missing, is marked: the dirty flag is set, a
\* notification or a hook that will set it is under way, or the graph changed
\* outside the bin API since the last check ("notifications during the rebuild
\* remain pending").
StaleIsMarked ==
  sampler = "idle" =>
    dirty \/ Pending \/ unhooked \/ torn \/ \A q \in Queues : cached[q] = Truth(q)

\* A scrape that nothing overlapped shows exactly the included queues, by the paths they have.
CalmScrapeIsRight ==
  sampler = "idle" /\ calm => labels = {Truth(q) : q \in Queues} \ {NoLabel}

\* A queue that went into a bin is in the map, except one that a removal which
\* failed has dropped from it.
ParentedAreTracked ==
  directs = 0 /\ hooking = {} => {q \in Queues : parent[q] # Nothing} = queues \union forgotten

QueuesConsistent == TypeOK /\ StaleIsMarked /\ CalmScrapeIsRight /\ ParentedAreTracked

\* Once the graph stays as it is, the scrapes come to show it for good.
LabelsConverge == <>[](torn \/ \A q \in Queues : cached[q] = Truth(q) \/ sampler # "idle")
=============================================================================
