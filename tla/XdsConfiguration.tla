-------------------------- MODULE XdsConfiguration --------------------------
(***************************************************************************)
(* Dynamic configuration end to end: the delta xDS worker, the             *)
(* XdsConfigurationHandler that applies each batch                         *)
(* (orion-proxy/src/xds_configurator.rs) on top of the clusters manager    *)
(* (orion-lib/src/clusters/clusters_manager.rs), and a control plane,      *)
(* modelled from what the client sends and expects.                        *)
(*                                                                         *)
(* applied[t][i] is the version in effect in the proxy.  Clusters are EDS  *)
(* clusters.  For listeners and routes it is the last change sent to the   *)
(* runtimes.  A listener names the route configuration of its own id.      *)
(***************************************************************************)
EXTENDS DeltaXdsClient

CONSTANT Invalid      \* versions that decode and that the proxy refuses

ASSUME InvalidAssumption == Invalid \subseteq Version \ {0}

VARIABLES
    batch,     \* what process_updates has left to do
    handling,  \* is the handler inside a batch
    refused,   \* has an update of the batch been rejected
    applied,   \* version in effect of every resource
    config,    \* the control plane's resources
    changes,   \* number of changes, and so the newest version
    watched,   \* per type: has the initial request come, and which names
    sent       \* per type, id: version the control plane thinks the client has

handlerVars == <<batch, handling, refused, applied>>
serverVars  == <<config, changes, watched, sent>>

vars == <<worker, backoff, tracked, subscriptions, pending, ack, events, updates,
          up, requests, responses, breaks, timeouts, handlerVars, serverVars>>

(* The worker, the channels, the handler and the control plane have their  *)
(* types, and no channel holds more than its capacity.                     *)
TypeOK ==
    /\ ClientTypeOK
    /\ batch \in Seq(Update)
    /\ handling \in BOOLEAN /\ refused \in BOOLEAN
    /\ applied \in [Types -> [Ids -> Version]]
    /\ config \in [Types -> [Ids -> Version]]
    /\ changes \in 0 .. MaxChanges
    /\ watched \in [Types -> [started : BOOLEAN, names : SUBSET Ids]]
    /\ sent \in [Types -> [Ids -> Version]]

Init ==
    /\ ClientInit
    /\ batch = <<>> /\ handling = FALSE /\ refused = FALSE
    /\ applied = [t \in Types |-> NoVersions]
    /\ config = [t \in Types |-> NoVersions]
    /\ changes = 0
    /\ watched = [t \in Types |-> [started |-> FALSE, names |-> {}]]
    /\ sent = [t \in Types |-> NoVersions]

-----------------------------------------------------------------------------
(* The configuration handler.                                              *)

\* The type whose resource of the same id an update subscribes to.
Dependent == [Cluster |-> "ClusterLoadAssignment", Listener |-> "RouteConfiguration"]

SubscribeEvent(u) ==
    [kind |-> "subscribe", type |-> Dependent[u.type], id |-> u.id]

\* An update of a valid cluster or listener subscribes to what it depends on.
\* The removal of a cluster subscribes too.
Subscribes(u) ==
    \/ u.kind = "update" /\ u.type \in {"Cluster", "Listener"} /\ u.version \notin Invalid
    \/ u.kind = "remove" /\ u.type = "Cluster"

\* Is there the cluster a load assignment is for?
HasCluster(i) == applied["Cluster"][i] # 0

\* The error returns of process_update_event and process_remove_event.
Rejects(u) ==
    \/ u.kind = "update" /\ u.version \in Invalid
    \/ u.type = "ClusterLoadAssignment" /\ ~HasCluster(u.id)
    \/ u.kind = "remove" /\ u.type = "Cluster" /\ ~HasCluster(u.id)
    \/ u.kind = "remove" /\ u.type = "Secret"

\* add_cluster replaces the cluster by a new one that has no load assignment,
\* and remove_cluster drops it with the one it had.
Apply(u) ==
    [t \in Types |-> [i \in Ids |->
        CASE i # u.id -> applied[t][i]
          [] t = u.type -> IF u.kind = "update" THEN u.version ELSE 0
          [] u.type = "Cluster" /\ t = "ClusterLoadAssignment" -> 0
          [] OTHER -> applied[t][i]]]

\* run_loop receives a batch.
ReceiveBatch ==
    /\ ~handling /\ updates # <<>>
    /\ handling' = TRUE
    /\ batch' = Head(updates)
    /\ updates' = Tail(updates)
    /\ refused' = FALSE
    /\ UNCHANGED <<clientVars, ack, events, streamVars, boundVars, applied, serverVars>>

\* Mutation: a subscription is dropped when the channel is full.
ProcessUpdateTrySend ==
    /\ handling /\ batch # <<>>
    /\ LET u == Head(batch) IN
         /\ events' = IF Subscribes(u) /\ Len(events) < SubscriptionsCap
                        THEN Append(events, SubscribeEvent(u)) ELSE events
         /\ applied' = IF Rejects(u) THEN applied ELSE Apply(u)
         /\ refused' = (refused \/ Rejects(u))
    /\ batch' = Tail(batch)
    /\ UNCHANGED <<clientVars, ack, updates, streamVars, boundVars, handling, serverVars>>

\* Mutation: the subscription channel has no limit.
ProcessUpdateUnbounded ==
    /\ handling /\ batch # <<>>
    /\ LET u == Head(batch) IN
         /\ events' = IF Subscribes(u) THEN Append(events, SubscribeEvent(u)) ELSE events
         /\ applied' = IF Rejects(u) THEN applied ELSE Apply(u)
         /\ refused' = (refused \/ Rejects(u))
    /\ batch' = Tail(batch)
    /\ UNCHANGED <<clientVars, ack, updates, streamVars, boundVars, handling, serverVars>>

\* One round of process_updates.  The subscription, if there is one, waits for
\* room in the channel before anything is applied.
ProcessUpdate ==
    /\ handling /\ batch # <<>>
    /\ LET u == Head(batch) IN
         /\ events' = IF Subscribes(u) THEN Append(events, SubscribeEvent(u)) ELSE events
         /\ Len(events') <= SubscriptionsCap
         /\ applied' = IF Rejects(u) THEN applied ELSE Apply(u)
         /\ refused' = (refused \/ Rejects(u))
    /\ batch' = Tail(batch)
    /\ UNCHANGED <<clientVars, ack, updates, streamVars, boundVars, handling, serverVars>>

\* ack_channel.send: the worker only listens for the newest batch, the one
\* that has no successor in the channel.
SendAck ==
    /\ handling /\ batch = <<>>
    /\ handling' = FALSE
    /\ ack' = IF worker = "awaiting" /\ updates = <<>>
                THEN IF refused THEN "rejected" ELSE "accepted" ELSE ack
    /\ refused' = FALSE
    /\ UNCHANGED <<clientVars, events, updates, streamVars, boundVars, batch, applied, serverVars>>

Handler == ReceiveBatch \/ ProcessUpdate \/ SendAck

-----------------------------------------------------------------------------
(* The control plane.                                                      *)

WildcardTypes == {"Cluster", "Listener", "Secret"}

Watches(t, i) == watched[t].started /\ (t \in WildcardTypes \/ i \in watched[t].names)

\* A resource is created, changed or removed.
ServerChange ==
    /\ changes < MaxChanges
    /\ changes' = changes + 1
    /\ \E t \in Types, i \in Ids :
         \/ config' = [config EXCEPT ![t][i] = changes']
         \/ config[t][i] # 0 /\ config' = [config EXCEPT ![t][i] = 0]
    /\ UNCHANGED <<clientVars, ack, events, updates, streamVars, boundVars, handlerVars,
                   watched, sent>>

\* A request arrives.  An initial request states what the client has; a name
\* newly subscribed to is sent whatever was sent before.  The handler never
\* asks for an unsubscription; an acknowledgement changes nothing here.
ServerReceive ==
    /\ up /\ requests # <<>>
    /\ LET q == Head(requests) IN
         CASE q.kind = "initial" ->
                /\ watched' = [watched EXCEPT ![q.type] = [started |-> TRUE, names |-> q.names]]
                /\ sent' = [sent EXCEPT ![q.type] = q.versions]
           [] q.kind = "subscribe" ->
                /\ watched' = [watched EXCEPT ![q.type].names = @ \cup {q.id}]
                /\ sent' = [sent EXCEPT ![q.type][q.id] = 0]
           [] OTHER -> UNCHANGED <<watched, sent>>
    /\ requests' = Tail(requests)
    /\ UNCHANGED <<clientVars, ack, events, updates, up, responses, boundVars, handlerVars,
                   config, changes>>

Outdated(t) == {i \in Ids : Watches(t, i) /\ config[t][i] # sent[t][i]}

\* Everything of one type that the client does not have goes into one response.
ServerPush ==
    /\ up
    /\ \E t \in Types :
         /\ Outdated(t) # {}
         /\ responses' = Append(responses,
              [type |-> t,
               versions |-> [i \in Ids |-> IF i \in Outdated(t) THEN config[t][i] ELSE 0],
               removed |-> {i \in Outdated(t) : config[t][i] = 0}])
         /\ sent' = [sent EXCEPT ![t] = [i \in Ids |-> IF i \in Outdated(t) THEN config[t][i] ELSE @[i]]]
    /\ UNCHANGED <<clientVars, ack, events, updates, up, requests, boundVars, handlerVars,
                   config, changes, watched>>

\* The state a control plane keeps of a stream ends with the stream.
Forget ==
    /\ watched' = [t \in Types |-> [started |-> FALSE, names |-> {}]]
    /\ sent' = [t \in Types |-> NoVersions]
    /\ UNCHANGED <<config, changes>>

Server == ServerReceive \/ ServerPush

-----------------------------------------------------------------------------
Next ==
    \/ Worker /\ UNCHANGED <<handlerVars, serverVars>>
    \/ AckTimeout /\ UNCHANGED <<handlerVars, serverVars>>
    \/ ConnectFails /\ UNCHANGED <<handlerVars, serverVars>>
    \/ StreamBreaks /\ Forget /\ UNCHANGED handlerVars
    \/ Handler
    \/ Server
    \/ ServerChange

\* The worker and the handler are tokio tasks, which run while they are ready;
\* select! takes each of two branches that stay ready, since it polls them in
\* random order; the timer of ACK_TIMEOUT goes off.
Fairness ==
    /\ WF_vars(Worker /\ UNCHANGED <<handlerVars, serverVars>>)
    /\ SF_vars(ProcessSubscriptionEvent /\ UNCHANGED <<handlerVars, serverVars>>)
    /\ SF_vars(ReceiveResponse /\ UNCHANGED <<handlerVars, serverVars>>)
    /\ WF_vars(AckTimeout /\ UNCHANGED <<handlerVars, serverVars>>)
    /\ WF_vars(Handler)
    /\ WF_vars(Server)

Spec == Init /\ [][Next]_vars /\ Fairness

-----------------------------------------------------------------------------
(* What the client claims to have, it has.  tracked becomes                *)
(* initial_resource_versions at the next connect, so a version there that  *)
(* is ahead of the proxy would never be sent again.  Versions grow with    *)
(* time, and a batch that timed out is applied without being tracked: the  *)
(* proxy may be ahead of tracked, never behind it.  Load assignments are   *)
(* left to EndpointsConverge.                                              *)
TrackedIsApplied ==
    \A t \in Types \ {"ClusterLoadAssignment"}, i \in Ids : tracked[t][i] <= applied[t][i]

(* No cluster or listener is in place without the subscription to what it  *)
(* depends on being recorded by the worker or on its way there, whatever   *)
(* the stream does meanwhile.                                              *)
DependentsSubscribed ==
    \A t \in Types \cap DOMAIN Dependent, i \in Ids :
        applied[t][i] # 0 =>
            \/ i \in subscriptions[Dependent[t]]
            \/ \E n \in DOMAIN events :
                  events[n] = [kind |-> "subscribe", type |-> Dependent[t], id |-> i]

(* The sleep between two connects never exceeds MAX_BACKOFF, although the   *)
(* arm of the errors that are no gRPC status adds BACKOFF_INTERVAL on top  *)
(* of the capped value: such an error needs a stream, and the stream reset *)
(* the backoff.                                                            *)
BackoffBounded == backoff <= MAX_BACKOFF

(* The proxy converges: when the control plane has stopped changing and    *)
(* the stream has stopped breaking, what the wildcard types configure is   *)
(* what the control plane holds, for good.  The exception is a batch that  *)
(* timed out before a stream broke: it is in effect but not tracked, so a  *)
(* control plane that removed the resource meanwhile is not asked to say   *)
(* so again.                                                               *)
Converges ==
    <>[](\/ timeouts > 0 /\ breaks > 0
         \/ \A t \in Types \cap WildcardTypes, i \in Ids : applied[t][i] = config[t][i])

(* Every subscription the worker has recorded becomes known to the control *)
(* plane, also when the request that carried it was lost with a stream.    *)
SubscriptionsReachServer ==
    <>[](\A t \in Types : watched[t].started /\ watched[t].names = subscriptions[t])

(* The handler never stays blocked on the subscription channel: while the  *)
(* worker waits for the handler's acknowledgement it does not read that    *)
(* channel, and only ACK_TIMEOUT ends this mutual wait.                    *)
HandlerNotStuck == handling ~> ~handling

(* Endpoints converge: when the control plane and the stream have settled, *)
(* a cluster that is in place has the load assignment the control plane    *)
(* holds for it.                                                           *)
EndpointsConverge ==
    <>[](\A i \in Ids : HasCluster(i) =>
            applied["ClusterLoadAssignment"][i] = config["ClusterLoadAssignment"][i])
=============================================================================
