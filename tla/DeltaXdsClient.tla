--------------------------- MODULE DeltaXdsClient ---------------------------
(***************************************************************************)
(* The background worker of the delta xDS client                           *)
(* (orion-xds/src/xds/client.rs): the reconnect loop, the stream loop that *)
(* selects between subscription events and discovery responses, and the    *)
(* hand-over of a decoded batch to the configuration handler, whose        *)
(* internal acknowledgement decides between ACK, NACK and a timeout.       *)
(*                                                                         *)
(* A resource is a type and an id.  Its content is abstracted to its       *)
(* version, 0 standing for "absent".  The four queues are the tokio        *)
(* channels and the two directions of the gRPC stream.                     *)
(***************************************************************************)
EXTENDS Naturals, Sequences, FiniteSets, SequencesExt

CONSTANTS
    Types,            \* the TypeUrls the control plane serves
    Ids,              \* resource names
    MaxChanges,       \* bound: changes of the control plane's configuration
    MaxBreaks,        \* bound: failed connects and broken streams
    MaxTimeouts,      \* bound: ACK_TIMEOUTs
    Undecodable,      \* versions whose payload does not decode
    SubscriptionsCap, \* capacity of the subscription channel
    ResourcesCap,     \* capacity of the resource update channel
    INITIAL_BACKOFF, MAX_BACKOFF, BACKOFF_INTERVAL

Version == 0 .. MaxChanges

ASSUME XdsAssumption ==
    /\ Types \subseteq {"Secret", "Cluster", "ClusterLoadAssignment", "Listener", "RouteConfiguration"}
    /\ MaxChanges \in Nat /\ MaxBreaks \in Nat /\ MaxTimeouts \in Nat
    /\ Undecodable \subseteq Version \ {0}
    /\ SubscriptionsCap \in Nat \ {0} /\ ResourcesCap \in Nat \ {0}
    /\ INITIAL_BACKOFF \in Nat \ {0} /\ MAX_BACKOFF \in Nat /\ BACKOFF_INTERVAL \in Nat
    /\ 2 * INITIAL_BACKOFF + BACKOFF_INTERVAL <= MAX_BACKOFF

VARIABLES
    worker,        \* "connecting", "streaming", "sending", "awaiting"
    backoff,       \* DiscoveryClientState.backoff
    tracked,       \* DiscoveryClientState.tracked
    subscriptions, \* DiscoveryClientState.subscriptions
    pending,       \* the response being processed
    ack,           \* the internal oneshot: "none" until the handler answers
    events,        \* channel of SubscriptionEvents, handler to worker
    updates,       \* channel of XdsUpdateEvents, worker to handler
    up,            \* is the gRPC stream alive
    requests,      \* requests on the stream
    responses,     \* responses on the stream
    breaks,        \* counts failed connects and broken streams
    timeouts       \* counts ACK_TIMEOUTs

clientVars == <<worker, backoff, tracked, subscriptions, pending>>
streamVars == <<up, requests, responses>>
boundVars  == <<breaks, timeouts>>

NoVersions == [i \in Ids |-> 0]

\* A response carries the new versions of some ids and the ids removed.
Response == [type : Types, versions : [Ids -> Version], removed : SUBSET Ids]

NoResponse == [type |-> "none"]

\* The kinds of DeltaDiscoveryRequest the client builds.
Request ==
    [kind : {"initial"}, type : Types, names : SUBSET Ids, versions : [Ids -> Version]]
      \cup [kind : {"subscribe", "unsubscribe"}, type : Types, id : Ids]
      \cup [kind : {"ack", "nack"}, type : Types]

SubscriptionEvent == [kind : {"subscribe", "unsubscribe"}, type : Types, id : Ids]

Update == [kind : {"update"}, type : Types, id : Ids, version : Version \ {0}]
            \cup [kind : {"remove"}, type : Types, id : Ids]

ClientTypeOK ==
    /\ worker \in {"connecting", "streaming", "sending", "awaiting"}
    /\ backoff \in Nat
    /\ tracked \in [Types -> [Ids -> Version]]
    /\ subscriptions \in [Types -> SUBSET Ids]
    /\ pending \in Response \cup {NoResponse}
    /\ ack \in {"none", "accepted", "rejected"}
    /\ events \in Seq(SubscriptionEvent) /\ Len(events) <= SubscriptionsCap
    /\ updates \in Seq(Seq(Update)) /\ Len(updates) <= ResourcesCap
    /\ up \in BOOLEAN
    /\ requests \in Seq(Request)
    /\ responses \in Seq(Response)
    /\ breaks \in 0 .. MaxBreaks
    /\ timeouts \in 0 .. MaxTimeouts

ClientInit ==
    /\ worker = "connecting"
    /\ backoff = INITIAL_BACKOFF
    /\ tracked = [t \in Types |-> NoVersions]
    /\ subscriptions = [t \in Types |-> {}]
    /\ pending = NoResponse
    /\ ack = "none"
    /\ events = <<>> /\ updates = <<>>
    /\ up = FALSE /\ requests = <<>> /\ responses = <<>>
    /\ breaks = 0 /\ timeouts = 0

Lesser(a, b) == IF a < b THEN a ELSE b

Doubled == Lesser(MAX_BACKOFF, 2 * backoff)

\* A request sent on a dead stream goes nowhere.
SendRequests(reqs) == requests' = IF up THEN requests \o reqs ELSE requests

-----------------------------------------------------------------------------
(* Connecting.                                                             *)

BuildInitialDiscoveryRequests ==
    SetToSeq({[kind |-> "initial", type |-> t, names |-> subscriptions[t],
               versions |-> tracked[t]] : t \in Types})

\* Mutation: the backoff survives a successful connect.
ConnectKeepingBackoff ==
    /\ worker = "connecting"
    /\ worker' = "streaming"
    /\ up' = TRUE
    /\ requests' = BuildInitialDiscoveryRequests
    /\ responses' = <<>>
    /\ UNCHANGED <<backoff, tracked, subscriptions, pending, ack, events, updates, boundVars>>

\* delta_request succeeds: the backoff is reset and the initial requests are
\* the first ones on the stream.
Connect ==
    /\ worker = "connecting"
    /\ worker' = "streaming"
    /\ up' = TRUE
    /\ requests' = BuildInitialDiscoveryRequests
    /\ responses' = <<>>
    /\ backoff' = INITIAL_BACKOFF
    /\ UNCHANGED <<tracked, subscriptions, pending, ack, events, updates, boundVars>>

\* delta_request fails with a gRPC status.
ConnectFails ==
    /\ worker = "connecting"
    /\ breaks < MaxBreaks
    /\ breaks' = breaks + 1
    /\ backoff' = Doubled
    /\ UNCHANGED <<worker, tracked, subscriptions, pending, ack, events, updates,
                   streamVars, timeouts>>

\* The stream breaks under the worker, whatever it is doing.  Requests on
\* their way are lost, and so are the responses behind some point.
StreamBreaks ==
    /\ up
    /\ breaks < MaxBreaks
    /\ breaks' = breaks + 1
    /\ up' = FALSE
    /\ requests' = <<>>
    /\ \E n \in 0 .. Len(responses) : responses' = SubSeq(responses, 1, n)
    /\ UNCHANGED <<clientVars, ack, events, updates, timeouts>>

\* response_stream.message() returns the error of a broken stream.
SeeStreamError ==
    /\ worker = "streaming" /\ ~up /\ responses = <<>>
    /\ worker' = "connecting"
    /\ backoff' = Doubled
    /\ UNCHANGED <<tracked, subscriptions, pending, ack, events, updates, streamVars, boundVars>>

\* response_stream.message() returns None: an UnknownResourceType error, which
\* takes the slower arm of persistently_connect.
SeeStreamEnd ==
    /\ worker = "streaming" /\ ~up /\ responses = <<>>
    /\ worker' = "connecting"
    /\ backoff' = Doubled + BACKOFF_INTERVAL
    /\ UNCHANGED <<tracked, subscriptions, pending, ack, events, updates, streamVars, boundVars>>

-----------------------------------------------------------------------------
(* Subscription events.                                                    *)

\* Mutation: the subscription is sent but not recorded.
ProcessSubscriptionUnrecorded ==
    /\ worker = "streaming" /\ events # <<>>
    /\ LET e == Head(events) IN
         SendRequests(IF e.id \notin subscriptions[e.type] THEN <<e>> ELSE <<>>)
    /\ events' = Tail(events)
    /\ UNCHANGED <<clientVars, ack, updates, up, responses, boundVars>>

\* Both arms record the change and tell the server only when it is one.
ProcessSubscriptionEvent ==
    /\ worker = "streaming" /\ events # <<>>
    /\ LET e   == Head(events)
           old == subscriptions[e.type]
           new == IF e.kind = "subscribe" THEN old \cup {e.id} ELSE old \ {e.id}
       IN /\ subscriptions' = [subscriptions EXCEPT ![e.type] = new]
          /\ SendRequests(IF new # old THEN <<e>> ELSE <<>>)
    /\ events' = Tail(events)
    /\ UNCHANGED <<worker, backoff, tracked, pending, ack, updates, up, responses, boundVars>>

-----------------------------------------------------------------------------
(* Discovery responses.                                                    *)

Updated(r) == {i \in Ids : r.versions[i] # 0}

Decodes(r) == \A i \in Updated(r) : r.versions[i] \notin Undecodable

\* tracked without the removed resources, as it is before anything is decoded.
ProcessResourceIdsForRemoval(r) ==
    [tracked EXCEPT ![r.type] = [i \in Ids |-> IF i \in r.removed THEN 0 ELSE @[i]]]

\* tracked with the versions of the batch, once it is accepted.
TrackUpdates(r) ==
    [tracked EXCEPT ![r.type] = [i \in Ids |-> IF i \in Updated(r) THEN r.versions[i] ELSE @[i]]]

\* Mutation: the removals are not passed on to the handler.
BatchWithoutRemovals(r) ==
    SetToSeq({[kind |-> "update", type |-> r.type, id |-> i, version |-> r.versions[i]]
                : i \in Updated(r)})

\* The batch the handler receives: the updates, then the removals.
BatchOf(r) ==
    SetToSeq({[kind |-> "update", type |-> r.type, id |-> i, version |-> r.versions[i]]
                : i \in Updated(r)})
      \o SetToSeq({[kind |-> "remove", type |-> r.type, id |-> i] : i \in r.removed})

ReceiveResponse ==
    /\ worker = "streaming" /\ responses # <<>>
    /\ LET r == Head(responses) IN
         /\ tracked' = ProcessResourceIdsForRemoval(r)
         /\ \/ /\ Decodes(r)
               /\ worker' = "sending"
               /\ pending' = r
               /\ UNCHANGED requests
            \/ /\ ~Decodes(r)
               /\ SendRequests(<<[kind |-> "nack", type |-> r.type]>>)
               /\ UNCHANGED <<worker, pending>>
    /\ responses' = Tail(responses)
    /\ UNCHANGED <<backoff, subscriptions, ack, events, updates, up, boundVars>>

\* resources_tx.send waits for room in the channel; the oneshot is new.
DeliverBatch ==
    /\ worker = "sending"
    /\ Len(updates) < ResourcesCap
    /\ updates' = Append(updates, BatchOf(pending))
    /\ worker' = "awaiting"
    /\ ack' = "none"
    /\ UNCHANGED <<backoff, tracked, subscriptions, pending, events, streamVars, boundVars>>

Answer(kind) ==
    /\ worker' = "streaming"
    /\ pending' = NoResponse
    /\ SendRequests(<<[kind |-> kind, type |-> pending.type]>>)

\* Mutation: the versions are tracked whatever the handler says.
ReadAckTrackingAlways ==
    /\ worker = "awaiting" /\ ack # "none"
    /\ tracked' = TrackUpdates(pending)
    /\ Answer(IF ack = "accepted" THEN "ack" ELSE "nack")
    /\ ack' = "none"
    /\ UNCHANGED <<backoff, subscriptions, events, updates, up, responses, boundVars>>

ReadAck ==
    /\ worker = "awaiting" /\ ack # "none"
    /\ tracked' = IF ack = "accepted" THEN TrackUpdates(pending) ELSE tracked
    /\ Answer(IF ack = "accepted" THEN "ack" ELSE "nack")
    /\ ack' = "none"
    /\ UNCHANGED <<backoff, subscriptions, events, updates, up, responses, boundVars>>

\* Mutation: the worker waits for the handler without a limit.
AckTimeoutNever ==
    /\ FALSE
    /\ UNCHANGED <<clientVars, ack, events, updates, streamVars, boundVars>>

\* ACK_TIMEOUT elapses first.  The oneshot's receiver is dropped, but the batch
\* stays with the handler, which applies it later.
AckTimeout ==
    /\ worker = "awaiting" /\ timeouts < MaxTimeouts
    /\ timeouts' = timeouts + 1
    /\ Answer("nack")
    /\ ack' = "none"
    /\ UNCHANGED <<backoff, tracked, subscriptions, events, updates, up, responses, breaks>>

Worker ==
    \/ Connect
    \/ SeeStreamError
    \/ SeeStreamEnd
    \/ ProcessSubscriptionEvent
    \/ ReceiveResponse
    \/ DeliverBatch
    \/ ReadAck
=============================================================================
