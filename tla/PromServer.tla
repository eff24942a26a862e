----------------------------- MODULE PromServer -----------------------------
(***************************************************************************)
(* The life of the prometheus tracer's HTTP endpoint: constructed() and    *)
(* dispose() of the tracer (utils/prometheus/src/prometheus/imp.rs), and   *)
(* the server thread with its connections (utils/prometheus/src/server.rs).*)
(*                                                                         *)
(* The thread runs one current-thread runtime, so its tasks never overlap; *)
(* the thread that starts and stops it does.  What a task waits for is     *)
(* polled in two steps, as select_shutdown does: first the shutdown flag,  *)
(* then the future, and the flag may change in between.                    *)
(***************************************************************************)
EXTENDS Naturals, FiniteSets

CONSTANTS
  Clients,        \* HTTP clients, one connection each
  ThreadMayDie,   \* may the server thread panic?
  MaxWrites       \* bound: property writes

ServerAssumption ==
  /\ IsFiniteSet(Clients) /\ {"nobody", "listener"} \intersect Clients = {}
  /\ ThreadMayDie \in BOOLEAN /\ MaxWrites \in Nat

VARIABLES
  phase,      \* the tracer: "new", "starting", "failed", "serving", "stopping", "inert", "disposed"
  config,     \* the settings: can the endpoint be built from them?
  inForce,    \* history: the settings it was built from
  writes,
  thread,     \* the server thread
  ready,      \* the handshake channel
  shutdown, running, \* the watch channel's value, the running flag
  stopped,    \* what ServerHandle::stop returned
  polled,     \* who found the shutdown flag unset and now polls its future
  client,     \* per client: "away", "connecting", "open", "closed"
  request,    \* per client: what it sends
  answer,     \* per client: the response it got
  active,     \* active_connections
  tasks,      \* the JoinSet: clients whose task is not reaped
  failures    \* scrape_encoding_failures

tracerVars == <<phase, config, inForce, writes, stopped>>
flagVars   == <<ready, shutdown, running>>
connVars   == <<client, request, answer, active, tasks, failures>>
serverVars == <<tracerVars, thread, flagVars, polled, connVars>>

Configs  == {"valid", "bad address", "bad filter"}
Requests == {"get", "post", "other path", "unfinished"}
Nobody   == "nobody"
Listener == "listener"

Open == {c \in Clients : client[c] = "open"}
-----------------------------------------------------------------------------
Init ==
  /\ phase = "new" /\ config = "valid" /\ inForce = "none" /\ writes = 0 /\ stopped = "none"
  /\ thread = "none" /\ ready = "empty" /\ shutdown = FALSE /\ running = FALSE
  /\ polled = Nobody
  /\ client = [c \in Clients |-> "away"] /\ request = [c \in Clients |-> "get"]
  /\ answer = [c \in Clients |-> "none"]
  /\ active = 0 /\ tasks = {} /\ failures = 0

\* set_property: ignored once the settings are frozen.
Accepts(v) == config' = IF phase = "new" THEN v ELSE config

SetProperty(v) ==
  /\ writes < MaxWrites /\ phase \in {"new", "serving", "inert"}
  /\ writes' = writes + 1
  /\ Accepts(v)
  /\ UNCHANGED <<phase, inForce, stopped, thread, flagVars, polled, connVars>>

\* constructed(), up to the handshake: the address and the filters are checked,
\* the listener is bound and the thread spawned, or the tracer stays inert.
Construct ==
  /\ phase = "new"
  /\ \/ /\ config = "valid"
        /\ phase' = "starting" /\ thread' = "build" /\ inForce' = config
     \/ /\ phase' = "inert"                   \* also: address in use, no thread
        /\ UNCHANGED <<thread, inForce>>
  /\ UNCHANGED <<config, writes, stopped, flagVars, polled, connVars>>

\* start(): the thread is ready, and the tracer keeps the handle.
Started ==
  /\ phase = "starting" /\ ready = "ok"
  /\ phase' = "serving"
  /\ UNCHANGED <<config, inForce, writes, stopped, thread, flagVars, polled, connVars>>

AsksNobody == UNCHANGED shutdown                          \* mutant: join without asking
AsksToStop == shutdown' = TRUE

\* start(): the thread reported an error, is gone, or was silent for two seconds.
StartFails ==
  /\ phase = "starting" /\ ready # "ok"
  /\ phase' = "failed" /\ AsksToStop
  /\ UNCHANGED <<config, inForce, writes, stopped, thread, ready, running, polled, connVars>>

Joinable == thread \in {"none", "exited", "died"}

\* start() has joined the thread, and constructed() gives up.
StartJoined ==
  /\ phase = "failed" /\ Joinable
  /\ phase' = "inert"
  /\ UNCHANGED <<config, inForce, writes, stopped, thread, flagVars, polled, connVars>>

\* dispose() takes the handle and stops the server.
Dispose ==
  /\ phase \in {"serving", "inert"}
  /\ IF phase = "serving" THEN phase' = "stopping" /\ AsksToStop
     ELSE phase' = "disposed" /\ UNCHANGED shutdown
  /\ UNCHANGED <<config, inForce, writes, stopped, thread, ready, running, polled, connVars>>

\* ServerHandle::stop: the thread is joined; a panic or a connection left is an error.
StopJoined ==
  /\ phase = "stopping" /\ Joinable
  /\ phase' = "disposed" /\ running' = FALSE
  /\ stopped' = CASE thread = "died" -> "thread" [] active # 0 -> "connections" [] OTHER -> "ok"
  /\ UNCHANGED <<config, inForce, writes, thread, ready, shutdown, polled, connVars>>
-----------------------------------------------------------------------------
\* run(): the runtime and the listener are there, or the error is reported.
ThreadBuilds ==
  /\ thread = "build"
  /\ \/ thread' = "announce" /\ running' = TRUE /\ UNCHANGED ready
     \/ thread' = "exited" /\ ready' = "error" /\ UNCHANGED running
  /\ UNCHANGED <<tracerVars, shutdown, polled, connVars>>

\* The receiver outlives the join in start(), so that this send never fails.
ThreadAnnounces ==
  /\ thread = "announce"
  /\ thread' = "serve" /\ ready' = "ok"
  /\ UNCHANGED <<tracerVars, shutdown, running, polled, connVars>>

\* select_shutdown, first half: the flag is unset, and the future is ready.  A
\* future that is pending changes nothing: it is polled again.
Polls(x) ==
  /\ polled = Nobody /\ ~shutdown
  /\ \/ x = Listener /\ thread = "serve"
     \/ x \in Open /\ thread \in {"serve", "drain"}
  /\ polled' = x
  /\ UNCHANGED <<tracerVars, thread, flagVars, connVars>>

\* select_shutdown found the flag set: the accept loop ends.
ListenerStops ==
  /\ thread = "serve" /\ polled = Nobody /\ shutdown
  /\ thread' = "drain"
  /\ UNCHANGED <<tracerVars, flagVars, polled, connVars>>

\* accept failed: the endpoint is given up, although nobody asked it to stop.
AcceptFails ==
  /\ polled = Listener
  /\ thread' = "drain" /\ polled' = Nobody
  /\ UNCHANGED <<tracerVars, flagVars, connVars>>

\* spawn_connection counts the connection; then finished tasks are reaped.
Accept(c) ==
  /\ polled = Listener /\ client[c] = "connecting"
  /\ client' = [client EXCEPT ![c] = "open"]
  /\ active' = active + 1
  /\ tasks' = (tasks \intersect Open) \union {c}
  /\ polled' = Nobody
  /\ UNCHANGED <<tracerVars, thread, flagVars, request, answer, failures>>

\* The guard of a task is dropped with the task.
CloseUncounted(c) == client' = [client EXCEPT ![c] = "closed"] /\ UNCHANGED active \* mutant
Close(c) == client' = [client EXCEPT ![c] = "closed"] /\ active' = active - 1

\* respond() and metrics.encode(): the status of the answer to a whole request.
Response(r, encoded) ==
  CASE r = "other path" -> "not found"
    [] r = "get" /\ encoded -> "ok"
    [] r = "get" /\ ~encoded -> "failed"
    [] r = "post" -> "not allowed"

Respond(c) ==
  /\ polled = c /\ request[c] # "unfinished"
  /\ \E encoded \in BOOLEAN :
       /\ answer' = [answer EXCEPT ![c] = Response(request[c], encoded)]
       /\ failures' = IF answer'[c] = "failed" THEN failures + 1 ELSE failures
  /\ Close(c) /\ polled' = Nobody
  /\ UNCHANGED <<tracerVars, thread, flagVars, request, tasks>>

\* The client is gone, broke the protocol, or used up the connection's lifetime.
GiveUp(c) ==
  /\ polled = c
  /\ Close(c) /\ polled' = Nobody
  /\ UNCHANGED <<tracerVars, thread, flagVars, request, answer, tasks, failures>>

\* select_shutdown in a connection's task found the flag set.
TaskStops(c) ==
  /\ polled = Nobody /\ shutdown /\ c \in Open /\ thread \in {"serve", "drain"}
  /\ Close(c)
  /\ UNCHANGED <<tracerVars, thread, flagVars, polled, request, answer, tasks, failures>>

\* drain_connections: a finished task is reaped, ...
DrainJoins(c) ==
  /\ thread = "drain" /\ polled = Nobody /\ c \in tasks \ Open
  /\ tasks' = tasks \ {c}
  /\ UNCHANGED <<tracerVars, thread, flagVars, polled, client, request, answer, active, failures>>

\* ... none is left, or none finished for a second and the rest is aborted.

DrainEnds ==
  /\ thread = "drain" /\ polled = Nobody /\ tasks \subseteq Open
  /\ thread' = "drained"
  /\ UNCHANGED <<tracerVars, flagVars, polled, connVars>>

ThreadClears ==
  /\ thread = "drained"
  /\ thread' = "dropping" /\ running' = FALSE
  /\ UNCHANGED <<tracerVars, ready, shutdown, polled, connVars>>

\* The runtime is dropped, with every task it still holds.
DropTasks ==
  /\ client' = [c \in Clients |-> IF c \in Open THEN "closed" ELSE client[c]]
  /\ active' = active - Cardinality(Open)
  /\ tasks' = {}

ThreadExits ==
  /\ thread = "dropping"
  /\ thread' = "exited" /\ DropTasks
  /\ UNCHANGED <<tracerVars, flagVars, polled, request, answer, failures>>

\* A panic unwinds through run() without clearing the running flag.
ThreadDies ==
  /\ ThreadMayDie /\ thread \in {"build", "announce", "serve", "drain"}
  /\ thread' = "died" /\ polled' = Nobody /\ DropTasks
  /\ UNCHANGED <<tracerVars, flagVars, request, answer, failures>>

\* A client connects while the socket listens.
Connect(c, r) ==
  /\ client[c] = "away" /\ phase # "new" /\ thread \in {"build", "announce", "serve"}
  /\ client' = [client EXCEPT ![c] = "connecting"]
  /\ request' = [request EXCEPT ![c] = r]
  /\ UNCHANGED <<tracerVars, thread, flagVars, polled, answer, active, tasks, failures>>
-----------------------------------------------------------------------------
\* Without a client that connects, only a failing accept is ready: no fairness there.
Runtime ==
  \/ ThreadBuilds \/ ThreadAnnounces \/ ListenerStops \/ DrainEnds \/ ThreadClears \/ ThreadExits
  \/ AcceptFails
  \/ \E x \in Clients \union {Listener} :
       Polls(x) /\ (x = Listener => \E c \in Clients : client[c] = "connecting")
  \/ \E c \in Clients : Accept(c) \/ Respond(c) \/ GiveUp(c) \/ TaskStops(c) \/ DrainJoins(c)

Tracer == Started \/ StartFails \/ StartJoined \/ StopJoined

Next ==
  \/ Runtime \/ Tracer \/ Construct \/ Dispose \/ ThreadDies
  \/ Polls(Listener)
  \/ \E v \in Configs : SetProperty(v)
  \/ \E c \in Clients, r \in Requests : Connect(c, r)

Spec == Init /\ [][Next]_serverVars

\* The server thread and the thread inside constructed() or dispose() run, and
\* timers expire; nothing makes a client connect or the application dispose.
ServerFairness == WF_serverVars(Runtime) /\ WF_serverVars(Tracer)
FairSpec == Spec /\ ServerFairness
-----------------------------------------------------------------------------
TypeOK ==
  /\ phase \in {"new", "starting", "failed", "serving", "stopping", "inert", "disposed"}
  /\ config \in Configs /\ inForce \in Configs \union {"none"} /\ writes \in 0..MaxWrites
  /\ thread \in {"none", "build", "announce", "serve", "drain", "drained", "dropping",
                 "exited", "died"}
  /\ ready \in {"empty", "ok", "error"} /\ shutdown \in BOOLEAN /\ running \in BOOLEAN
  /\ stopped \in {"none", "ok", "thread", "connections"}
  /\ polled \in Clients \union {Nobody, Listener}
  /\ client \in [Clients -> {"away", "connecting", "open", "closed"}]
  /\ request \in [Clients -> Requests]
  /\ answer \in [Clients -> {"none", "ok", "failed", "not found", "not allowed"}]
  /\ active \in Nat /\ tasks \subseteq Clients /\ failures \in Nat

\* The connection count is exact, whoever ends a task: the client, the deadline,
\* the drain, or the runtime's end.
ActiveIsExact == active = Cardinality(Open) /\ Open \subseteq tasks

\* Once dispose() or a failed start is over, nothing of the server is left, and
\* stop() complains only of a thread that panicked.
NothingLeft ==
  phase \in {"inert", "disposed"} =>
    /\ Joinable /\ Open = {}
    /\ stopped # "connections" /\ (stopped = "thread" => thread = "died")

\* "server-running" is true only of a thread that serves, drains or panicked, and
\* the settings read back are those in force ("later writes are ignored").
StatusIsTrue ==
  /\ phase = "serving" /\ running => thread \in {"serve", "drain", "drained", "died"}
  /\ phase \in {"serving", "stopping"} => config = inForce

\* Each failed encoding is counted once, and answered with an error.
FailuresCounted == failures = Cardinality({c \in Clients : answer[c] = "failed"})

ServerConsistent == TypeOK /\ ActiveIsExact /\ NothingLeft /\ StatusIsTrue /\ FailuresCounted

\* constructed() and dispose() return, although a client never finishes its
\* request, and no connection outlives its lifetime.
ServerProgress ==
  /\ phase = "starting" ~> phase \in {"serving", "inert"}
  /\ phase = "stopping" ~> phase = "disposed"
  /\ \A c \in Clients : client[c] = "open" ~> client[c] = "closed"
=============================================================================
