----------------------------- MODULE Listeners -----------------------------
(***************************************************************************)
(* The listeners of the proxy's runtimes (orion-lib/src/listeners).        *)
(*                                                                         *)
(* Every runtime has one ListenersManager.  The xDS handler sends it       *)
(* listener changes and TLS secret changes over one mpsc channel, route    *)
(* changes over another; the admin endpoint sends GetConfiguration over    *)
(* the first.  The manager spawns a task per listener and forwards secrets *)
(* and routes to all tasks over two broadcast channels of BroadcastCap     *)
(* entries; a task that falls further behind gets Lagged and ends.  Tasks  *)
(* accept connections, which run in tasks of their own and outlive the     *)
(* listener that accepted them.  A route update is two stores (filters,    *)
(* then router) that requests read in the opposite order, from other       *)
(* threads.                                                                *)
(*                                                                         *)
(* One route configuration and one secret are modelled: the tasks ignore   *)
(* every id but their own.  Listener configurations, routes and secrets    *)
(* are numbered by the change that sent them; 0 is "none".                 *)
(***************************************************************************)
EXTENDS Integers, Sequences, SequencesExt

CONSTANTS Names,         \* listener names
          Internal,      \* the names of listeners with an internal address
          BroadcastCap,  \* capacity of the broadcast channels (16 in the code)
          Bounds         \* sizes of the proxy and of what happens to it

\* How many runtimes there are; how many changes the xDS handler sends (fewer
\* than the mpsc channels hold), how often the admin endpoint is asked for a
\* configuration dump, and how many connections each runtime accepts.
ASSUME ListenersAssumption ==
  /\ Internal \subseteq Names
  /\ BroadcastCap \in Nat \ {0}
  /\ Bounds # {} /\ IsFiniteSet(Bounds)
  /\ Bounds \subseteq [runtimes : Nat \ {0}, changes : Nat, dumps : Nat, conns : Nat]

Runtimes == 1 .. Max({b.runtimes : b \in Bounds})
MaxChanges == Max({b.changes : b \in Bounds})
MaxDumps == Max({b.dumps : b \in Bounds})

VARIABLES
  bound,       \* the member of Bounds this behaviour keeps to (never changes)
  changes,     \* number of changes sent so far
  wanted,      \* wanted[n]: the configuration the handler last sent for n
  secret,      \* the secret held by the SecretManager
  foreignTls,  \* some cluster has a TLS context with another secret (never changes)
  listenerCh,  \* listenerCh[r]: listener_configuration_channel
  routeCh,     \* routeCh[r]: route_configuration_channel
  manager,     \* manager[r]: "running" or "stopped", as a runtime that is not there
  handles,     \* handles[r][n]: listener_handles, the task of listener n
  tasks,       \* tasks[r]: every listener task spawned, in order
  secretLog,   \* secretLog[r]: everything sent on tx_secret_updates
  routeLog,    \* routeLog[r]: everything sent on tx_route_updates
  conns,       \* conns[r]: every connection accepted, in order
  dump,        \* number of the latest configuration dump
  dumping,     \* the dump's receiver is alive
  replies      \* replies waiting in it

handlerVars == <<changes, wanted, secret, foreignTls, bound>>
dumpVars == <<dump, dumping, replies>>
vars == <<handlerVars, listenerCh, routeCh, manager, handles, tasks,
          secretLog, routeLog, conns, dumpVars>>

Versions == 0..MaxChanges

Changes == [kind : {"added"}, name : Names, conf : Versions, tls : Versions]
             \cup [kind : {"removed"}, name : Names]
             \cup [kind : {"tls"}, tls : Versions]
             \cup [kind : {"dump"}, dump : 1..MaxDumps]

Tasks == [name : Names, conf : Versions,
          status : {"starting", "running", "unbound", "lagged", "aborted"},
          subscribed : Nat, routeAt : Nat, secretAt : Nat,
          router : Versions, filters : Versions, storing : Versions,
          tls : Versions]

Conns == [task : Nat, phase : {"idle", "routed", "served", "closed"},
          route : Versions, filters : Versions]

(* The state has its type: channels hold changes, handles name tasks.      *)
TypeOK ==
  /\ bound \in Bounds
  /\ changes \in Versions /\ secret \in Versions /\ foreignTls \in BOOLEAN
  /\ wanted \in [Names -> Versions]
  /\ dump \in 0..MaxDumps /\ dumping \in BOOLEAN /\ replies \in Nat
  /\ \A r \in Runtimes :
       /\ manager[r] \in {"running", "stopped"}
       /\ Range(listenerCh[r]) \subseteq Changes
       /\ Range(routeCh[r]) \cup Range(routeLog[r]) \cup Range(secretLog[r]) \subseteq Versions
       /\ Range(tasks[r]) \subseteq Tasks
       /\ Range(conns[r]) \subseteq Conns
       /\ handles[r] \in [Names -> 0..Len(tasks[r])]

Init ==
  /\ bound \in Bounds
  /\ changes = 0 /\ secret = 0 /\ foreignTls \in BOOLEAN /\ wanted = [n \in Names |-> 0]
  /\ listenerCh = [r \in Runtimes |-> <<>>]
  /\ routeCh = [r \in Runtimes |-> <<>>]
  /\ manager = [r \in Runtimes |-> IF r <= bound.runtimes THEN "running" ELSE "stopped"]
  /\ handles = [r \in Runtimes |-> [n \in Names |-> 0]]
  /\ tasks = [r \in Runtimes |-> <<>>]
  /\ secretLog = [r \in Runtimes |-> <<>>]
  /\ routeLog = [r \in Runtimes |-> <<>>]
  /\ conns = [r \in Runtimes |-> <<>>]
  /\ dump = 0 /\ dumping = FALSE /\ replies = 0

-----------------------------------------------------------------------------
(* The xDS handler.  A change goes to every runtime; the channel of a      *)
(* stopped one is closed.                                                  *)

SendToRuntimes(channels, m) ==
  [r \in Runtimes |-> IF manager[r] = "running" THEN Append(channels[r], m)
                                                 ELSE channels[r]]

NewChange == changes < bound.changes /\ changes' = changes + 1

ManagerVars == <<manager, handles, tasks, secretLog, routeLog, conns>>

\* The factory is built with the secrets of this moment.
ListenerAdded(n) ==
  /\ NewChange
  /\ wanted' = [wanted EXCEPT ![n] = changes']
  /\ listenerCh' = SendToRuntimes(listenerCh,
                     [kind |-> "added", name |-> n, conf |-> changes', tls |-> secret])
  /\ UNCHANGED <<secret, foreignTls, bound, routeCh, ManagerVars, dumpVars>>

ListenerRemoved(n) ==
  /\ NewChange
  /\ wanted' = [wanted EXCEPT ![n] = 0]
  /\ listenerCh' = SendToRuntimes(listenerCh, [kind |-> "removed", name |-> n])
  /\ UNCHANGED <<secret, foreignTls, bound, routeCh, ManagerVars, dumpVars>>

\* The new secret is stored first.  update_tls_context offers it to every
\* cluster, and one with a TLS context that uses another secret refuses it:
\* the handler returns before it tells the listeners.
SecretUpdated ==
  /\ NewChange
  /\ secret' = changes'
  /\ listenerCh' = IF foreignTls THEN listenerCh
                   ELSE SendToRuntimes(listenerCh, [kind |-> "tls", tls |-> changes'])
  /\ UNCHANGED <<wanted, foreignTls, bound, routeCh, ManagerVars, dumpVars>>

\* A new route configuration, or its removal.
RouteUpdated ==
  /\ NewChange
  /\ \E route \in {0, changes'} : routeCh' = SendToRuntimes(routeCh, route)
  /\ UNCHANGED <<wanted, secret, foreignTls, bound, listenerCh, ManagerVars, dumpVars>>

-----------------------------------------------------------------------------
(* The admin endpoint's configuration dump.                                *)

\* GetConfiguration goes to every runtime with one reply channel.
AskDump ==
  /\ dump < bound.dumps /\ ~dumping
  /\ dump' = dump + 1 /\ dumping' = TRUE /\ replies' = 0
  /\ listenerCh' = SendToRuntimes(listenerCh, [kind |-> "dump", dump |-> dump'])
  /\ UNCHANGED <<handlerVars, routeCh, ManagerVars>>

\* The handler reads one reply, answers the request and drops the receiver.
AnswerDump ==
  /\ dumping /\ replies > 0
  /\ dumping' = FALSE /\ replies' = 0
  /\ UNCHANGED <<handlerVars, listenerCh, routeCh, ManagerVars, dump>>

\* The client of the admin endpoint goes away, and the handler with it.
AbandonDump ==
  /\ dumping
  /\ dumping' = FALSE /\ replies' = 0
  /\ UNCHANGED <<handlerVars, listenerCh, routeCh, ManagerVars, dump>>

-----------------------------------------------------------------------------
(* The listeners manager.                                                  *)

Live(task) == task.status \in {"starting", "running"}

\* abort() ends a task at its next await, a task that has ended stays so.
Abort(task) == IF Live(task) THEN [task EXCEPT !.status = "aborted"] ELSE task

\* make_listener subscribes to both broadcasts, before the task is spawned.
NewTask(r, m) ==
  [name |-> m.name, conf |-> m.conf, status |-> "starting",
   subscribed |-> Len(routeLog[r]), routeAt |-> Len(routeLog[r]),
   secretAt |-> Len(secretLog[r]),
   router |-> 0, filters |-> 0, storing |-> 0, tls |-> m.tls]

\* The bug of forgetting the old task, which runs on.
WithoutAbort(r, n) == tasks[r]

\* The tasks of r without the one that listener_handles holds for n.
WithoutOld(r, n) ==
  [t \in DOMAIN tasks[r] |-> IF t = handles[r][n] THEN Abort(tasks[r][t]) ELSE tasks[r][t]]

\* The bug of keeping the task of a name that is already there.
StartUnlessRunning(r, m) ==
  /\ IF handles[r][m.name] # 0 THEN UNCHANGED <<tasks, handles>>
     ELSE /\ tasks' = [tasks EXCEPT ![r] = Append(@, NewTask(r, m))]
          /\ handles' = [handles EXCEPT ![r][m.name] = Len(tasks[r]) + 1]
  /\ UNCHANGED <<manager, secretLog, conns, replies>>

\* The bug of a handle that is not the new task's.
StartWithWrongHandle(r, m) ==
  /\ tasks' = [tasks EXCEPT ![r] = Append(WithoutOld(r, m.name), NewTask(r, m))]
  /\ handles' = [handles EXCEPT ![r][m.name] = Len(tasks[r]) + 2]
  /\ UNCHANGED <<manager, secretLog, conns, replies>>

StartListener(r, m) ==
  /\ tasks' = [tasks EXCEPT ![r] = Append(WithoutOld(r, m.name), NewTask(r, m))]
  /\ handles' = [handles EXCEPT ![r][m.name] = Len(tasks[r]) + 1]
  /\ UNCHANGED <<manager, secretLog, conns, replies>>

StopListener(r, n) ==
  /\ tasks' = [tasks EXCEPT ![r] = WithoutOld(r, n)]
  /\ handles' = [handles EXCEPT ![r][n] = 0]
  /\ UNCHANGED <<manager, secretLog, conns, replies>>

BroadcastSecret(r, v) ==
  /\ secretLog' = [secretLog EXCEPT ![r] = Append(@, v)]
  /\ UNCHANGED <<manager, handles, tasks, conns, replies>>

\* start returns, its block_on ends the runtime and everything it runs.
RuntimeEnds(r) ==
  /\ manager' = [manager EXCEPT ![r] = "stopped"]
  /\ handles' = [handles EXCEPT ![r] = [n \in Names |-> 0]]
  /\ tasks' = [tasks EXCEPT ![r] = [t \in DOMAIN @ |-> [Abort(@[t]) EXCEPT !.storing = 0]]]
  /\ conns' = [conns EXCEPT ![r] = [c \in DOMAIN @ |-> [@[c] EXCEPT !.phase = "closed"]]]
  /\ UNCHANGED <<secretLog, replies>>

\* The bug of answering only with something to tell.
ReplyUnlessEmpty(r, d) ==
  /\ replies' = IF \A n \in Names : handles[r][n] = 0 THEN replies ELSE replies + 1
  /\ UNCHANGED <<manager, handles, tasks, secretLog, conns>>

\* A reply that finds its receiver gone is an error, which start returns.
ReplyDump(r, d) ==
  IF dumping /\ dump = d
  THEN replies' = replies + 1 /\ UNCHANGED <<manager, handles, tasks, secretLog, conns>>
  ELSE RuntimeEnds(r)

ListenerChange(r) ==
  /\ manager[r] = "running" /\ listenerCh[r] # <<>>
  /\ listenerCh' = [listenerCh EXCEPT ![r] = Tail(@)]
  /\ LET m == Head(listenerCh[r]) IN
       \/ m.kind = "added" /\ StartListener(r, m)
       \/ m.kind = "removed" /\ StopListener(r, m.name)
       \/ m.kind = "tls" /\ BroadcastSecret(r, m.tls)
       \/ m.kind = "dump" /\ ReplyDump(r, m.dump)
  /\ UNCHANGED <<handlerVars, routeCh, routeLog, dump, dumping>>

RouteChange(r) ==
  /\ manager[r] = "running" /\ routeCh[r] # <<>>
  /\ routeCh' = [routeCh EXCEPT ![r] = Tail(@)]
  /\ routeLog' = [routeLog EXCEPT ![r] = Append(@, Head(routeCh[r]))]
  /\ UNCHANGED <<handlerVars, listenerCh, manager, handles, tasks, secretLog, conns, dumpVars>>

-----------------------------------------------------------------------------
(* The listener tasks.                                                     *)

UpdateTask(r, t, new) ==
  /\ tasks' = [tasks EXCEPT ![r][t] = new]
  /\ UNCHANGED <<handlerVars, listenerCh, routeCh, manager, handles, secretLog, routeLog,
                 conns, dumpVars>>

\* The bug of subscribing to the secrets only once the socket is bound.
StartThenSubscribe(r, t) ==
  LET task == tasks[r][t] IN
  /\ task.status = "starting"
  /\ UpdateTask(r, t, [task EXCEPT !.status = "running", !.secretAt = Len(secretLog[r])])

\* Binding the socket may fail; the manager is not told.
Start(r, t) ==
  LET task == tasks[r][t] IN
  /\ task.status = "starting"
  /\ \E status \in IF task.name \in Internal THEN {"running"} ELSE {"running", "unbound"} :
       UpdateTask(r, t, [task EXCEPT !.status = status])

AtSelect(task) == task.status = "running" /\ task.storing = 0

\* recv of a broadcast receiver that has read the first `at' messages.
Lagged(log, at) == Len(log) - at > BroadcastCap

\* The bug of publishing the router before the filters.
RouterFirst == <<"router", "filters">>

\* update_route: the two stores, in order.
UpdateOrder == <<"filters", "router">>

\* process_route_update, up to the first store of update_route.
ApplyRoute(task, route) ==
  IF route = 0 THEN [task EXCEPT !.router = 0]
               ELSE [task EXCEPT ![UpdateOrder[1]] = route, !.storing = route]

\* The second store of update_route.
StoreSecond(task) == [task EXCEPT ![UpdateOrder[2]] = task.storing, !.storing = 0]

\* The bug of skipping to the newest message after Lagged.
ReceiveRouteSkipping(r, t) ==
  LET task == tasks[r][t] IN
  /\ AtSelect(task) /\ task.routeAt < Len(routeLog[r])
  /\ UpdateTask(r, t,
       IF Lagged(routeLog[r], task.routeAt) THEN [task EXCEPT !.routeAt = Len(routeLog[r])]
       ELSE [ApplyRoute(task, routeLog[r][task.routeAt + 1]) EXCEPT !.routeAt = @ + 1])

ReceiveRoute(r, t) ==
  LET task == tasks[r][t] IN
  /\ AtSelect(task) /\ task.routeAt < Len(routeLog[r])
  /\ UpdateTask(r, t,
       IF Lagged(routeLog[r], task.routeAt) THEN [task EXCEPT !.status = "lagged"]
       ELSE [ApplyRoute(task, routeLog[r][task.routeAt + 1]) EXCEPT !.routeAt = @ + 1])

\* An aborted task still finishes the update it is in.
FinishRoute(r, t) ==
  LET task == tasks[r][t] IN
  /\ task.storing # 0
  /\ UpdateTask(r, t, StoreSecond(task))

\* process_secret_update.  An internal listener drops the updated chains.
ReceiveSecret(r, t) ==
  LET task == tasks[r][t] IN
  /\ AtSelect(task) /\ task.secretAt < Len(secretLog[r])
  /\ UpdateTask(r, t,
       IF Lagged(secretLog[r], task.secretAt) THEN [task EXCEPT !.status = "lagged"]
       ELSE [task EXCEPT !.secretAt = @ + 1,
                         !.tls = IF task.name \in Internal THEN @
                                 ELSE secretLog[r][task.secretAt + 1]])

Accept(r, t) ==
  /\ AtSelect(tasks[r][t]) /\ tasks[r][t].name \notin Internal
  /\ Len(conns[r]) < bound.conns
  /\ conns' = [conns EXCEPT ![r] =
                 Append(@, [task |-> t, phase |-> "idle", route |-> 0, filters |-> 0])]
  /\ UNCHANGED <<handlerVars, listenerCh, routeCh, manager, handles, tasks, secretLog,
                 routeLog, dumpVars>>

-----------------------------------------------------------------------------
(* Requests on the connections, which share the task's HTTP manager.       *)

UpdateConn(r, c, new) ==
  /\ conns' = [conns EXCEPT ![r][c] = new]
  /\ UNCHANGED <<handlerVars, listenerCh, routeCh, manager, handles, tasks, secretLog,
                 routeLog, dumpVars>>

\* call reads the router at once; without a route the answer is an error.
Request(r, c) ==
  LET conn == conns[r][c]  route == tasks[r][conn.task].router IN
  /\ conn.phase \in {"idle", "served"}
  /\ UpdateConn(r, c, [conn EXCEPT !.route = route, !.filters = 0,
                                   !.phase = IF route = 0 THEN "idle" ELSE "routed"])

\* to_response reads the filters later, from the future call returned.
ApplyFilters(r, c) ==
  LET conn == conns[r][c] IN
  /\ conn.phase = "routed"
  /\ UpdateConn(r, c, [conn EXCEPT !.filters = tasks[r][conn.task].filters, !.phase = "served"])

Close(r, c) ==
  /\ conns[r][c].phase \in {"idle", "served"}
  /\ UpdateConn(r, c, [conns[r][c] EXCEPT !.phase = "closed"])

-----------------------------------------------------------------------------
TaskStep(r, t) ==
  \/ Start(r, t) \/ ReceiveRoute(r, t) \/ FinishRoute(r, t) \/ ReceiveSecret(r, t)

Next ==
  \/ \E n \in Names : ListenerAdded(n) \/ ListenerRemoved(n)
  \/ SecretUpdated \/ RouteUpdated
  \/ AskDump \/ AnswerDump \/ AbandonDump
  \/ \E r \in Runtimes :
       \/ ListenerChange(r) \/ RouteChange(r)
       \/ \E t \in DOMAIN tasks[r] : TaskStep(r, t) \/ Accept(r, t)
       \/ \E c \in DOMAIN conns[r] : Request(r, c) \/ ApplyFilters(r, c) \/ Close(r, c)

\* Tasks are scheduled as long as they are ready, and select! looks at its
\* branches in random order, so every ready branch is taken in the end.
Fairness ==
  /\ WF_vars(AnswerDump)
  /\ \A r \in Runtimes :
       /\ WF_vars(ListenerChange(r)) /\ WF_vars(RouteChange(r))
       /\ \A t \in 1..MaxChanges :
            /\ WF_vars(t \in DOMAIN tasks[r] /\ Start(r, t))
            /\ WF_vars(t \in DOMAIN tasks[r] /\ ReceiveRoute(r, t))
            /\ WF_vars(t \in DOMAIN tasks[r] /\ FinishRoute(r, t))
            /\ WF_vars(t \in DOMAIN tasks[r] /\ ReceiveSecret(r, t))

Spec == Init /\ [][Next]_vars /\ Fairness

-----------------------------------------------------------------------------
(* A task that is neither aborted nor ended is the one listener_handles    *)
(* holds under its name: start_listener and stop_listener leave no second  *)
(* listener behind, however replacements and removals follow each other.   *)
OnlyTheNewestRuns ==
  \A r \in Runtimes : \A t \in DOMAIN tasks[r] :
    Live(tasks[r][t]) => handles[r][tasks[r][t].name] = t

\* The listener on a socket has the stored secret, or it is on its way to it.
HoldsSecret(r, task) ==
  \/ task.tls = secret
  \/ task.secretAt < Len(secretLog[r])
  \/ \E i \in DOMAIN listenerCh[r] : listenerCh[r][i].kind = "tls"

(* A rotated secret reaches every listener on a socket, wherever in its    *)
(* life the rotation meets it: in the channel, starting or running.  What  *)
(* the secret rotation example expects of the proxy.                       *)
RotatedSecretArrives ==
  \A r \in Runtimes : \A t \in DOMAIN tasks[r] :
    Live(tasks[r][t]) /\ tasks[r][t].name \notin Internal => HoldsSecret(r, tasks[r][t])

(* The same when no cluster has a TLS context with another secret, which   *)
(* makes update_tls_context fail: Added and TlsContextChanged share a      *)
(* channel, and the subscription is made before the listener starts.       *)
SecretArrives == ~foreignTls => RotatedSecretArrives

(* A request never combines a route with the filters of an older route:    *)
(* update_route stores filters then router, requests read them in the      *)
(* opposite order (http_connection_manager.rs).                            *)
FiltersNotOlder ==
  \A r \in Runtimes : \A c \in DOMAIN conns[r] :
    conns[r][c].phase = "served" => conns[r][c].filters >= conns[r][c].route

\* Every listener that was subscribed when the newest route was broadcast serves it.
RoutesServed ==
  \A r \in Runtimes : \A t \in DOMAIN tasks[r] :
    LET task == tasks[r][t] IN
    Live(task) /\ task.subscribed < Len(routeLog[r]) => task.router = Last(routeLog[r])

(* Once the changes stop, the listeners that did not fall behind the       *)
(* broadcast serve the newest route they were subscribed for.              *)
RoutesSettle == <>[]RoutesServed

(* Once the changes stop, every runtime still up has, for every name, a    *)
(* task that runs the configuration sent last, or none if it was removed:  *)
(* replacements and removals take effect in the order they were sent.  The *)
(* manager restarts nothing, so a listener whose socket could not be bound *)
(* and one that fell behind a broadcast are excepted.                      *)
ListenersSettle ==
  <>[](\A r \in Runtimes : manager[r] = "running" =>
         \A n \in Names :
           IF wanted[n] = 0 THEN handles[r][n] = 0
           ELSE /\ handles[r][n] # 0
                /\ LET task == tasks[r][handles[r][n]] IN
                   task.conf = wanted[n] /\ task.status \in {"running", "unbound", "lagged"})

(* A configuration dump ends unless every runtime has ended.  The handler  *)
(* takes the first reply, so one runtime left is enough, whatever earlier  *)
(* dumps have cost: a reply that comes too late ends its runtime.          *)
DumpEnds == dumping ~> (~dumping \/ \A r \in Runtimes : manager[r] = "stopped")
=============================================================================
