--------------------------- MODULE HealthChecking --------------------------
(***************************************************************************)
(* Active health checking of one cluster: a checker task per endpoint      *)
(* (health/checkers/checker.rs), the HealthCheckManager that starts and    *)
(* stops them (health/manager.rs), the bounded channel their results go    *)
(* through, and the configuration loop that is both the only reader of     *)
(* that channel and the one who waits for tasks to stop                    *)
(* (orion-proxy/src/xds_configurator.rs).                                  *)
(*                                                                         *)
(* A stop is tokio's Notify::notify_waiters: it wakes the futures that are *)
(* registered at that moment and leaves nothing behind for later ones.     *)
(***************************************************************************)
EXTENDS HealthCounter, Sequences, SequencesExt, FiniteSets

CONSTANTS Endpoints,           \* endpoints of the cluster
          HealthyThreshold, UnhealthyThreshold,
          Protocols,           \* of "http", "tcp" and "grpc"
          ExpectedStatuses, RetriableStatuses,  \* of an HTTP check
          Capacities,          \* of the health channel (1000 in the code)
          MaxChanges           \* bound on configuration changes of the cluster

ASSUME HealthCheckingAssumption ==
    /\ IsFiniteSet(Endpoints)
    /\ HealthyThreshold \in Nat /\ UnhealthyThreshold \in Nat
    /\ Protocols \subseteq {"http", "tcp", "grpc"}
    /\ Capacities \subseteq Nat \ {0}
    /\ MaxChanges \in Nat

VARIABLES
    setup,    \* the cluster's protocol, whether initial_jitter is set, the channel's capacity
    pc,       \* where each checker task is in HealthCheckerLoop::run
    woken,    \* has the Notified future the task waits on been notified?
    counter,  \* the task's HealthStatusCounter
    channel,  \* health_updates: <<endpoint, status>>
    health,   \* status of the endpoint in the cluster, "Gone" without load assignment
    hpc,      \* where run_loop is
    toStop,   \* checkers that stop_cluster has still to stop, in order
    signalled,\* has the first of them been notified?
    respawn,  \* is the stop part of restart_cluster?
    changes   \* configuration changes so far

vars == <<setup, pc, woken, counter, channel, health, hpc, toStop, signalled, respawn, changes>>
handlerVars == <<setup, hpc, toStop, signalled, respawn, changes>>

NewTask == NewCounter(HealthyThreshold, UnhealthyThreshold)

(* The endpoints restart_cluster may spawn a checker for.  None without a  *)
(* health check in the cluster, or if its connections are not to be had.   *)
(* HTTP and gRPC checkers may fail to start one by one, TCP ones do not.   *)
Spawnable ==
    IF setup.protocol = "tcp" THEN {{}, Endpoints} ELSE SUBSET Endpoints

SpawnedOnly(S) == [e \in Endpoints |-> IF e \in S THEN "spawned" ELSE "none"]

(* The loop starts the checkers of the bootstrap clusters, then looks for  *)
(* an xDS server; it reads the health channel only after it found one.     *)
Init ==
    /\ setup \in [protocol : Protocols, jitter : BOOLEAN, capacity : Capacities]
    /\ pc \in {SpawnedOnly(S) : S \in Spawnable}
    /\ woken = [e \in Endpoints |-> FALSE]
    /\ counter = [e \in Endpoints |-> NewTask]
    /\ channel = <<>>
    /\ health = [e \in Endpoints |-> "Healthy"]
    /\ hpc = "connecting"
    /\ toStop = <<>>
    /\ signalled = FALSE
    /\ respawn = FALSE
    /\ changes = 0

----------------------------------------------------------------------------
(* The checker task.                                                       *)

(* wait_was_cancelled(): fast_timeout(interval, notified()).is_err(), that *)
(* is, whether the interval ran out before the task was woken.             *)
WaitWasCancelled(wokenInTime) == ~wokenInTime

GoTo(e, place) ==
    /\ pc' = [pc EXCEPT ![e] = place]
    /\ woken' = [woken EXCEPT ![e] = FALSE]

Start(e) ==
    /\ pc[e] = "spawned"
    /\ GoTo(e, IF setup.jitter THEN "jitter" ELSE "checking")
    /\ UNCHANGED <<counter, channel, health, handlerVars>>

(* The two waits of run(), for the initial jitter and for the interval.    *)
(* A wake-up wins over a timer that expired in the meantime.               *)
WaitOnlyForStop(e) ==
    /\ pc[e] \in {"jitter", "waiting"}
    /\ woken[e]
    /\ GoTo(e, IF WaitWasCancelled(woken[e]) THEN "done" ELSE "checking")
    /\ UNCHANGED <<counter, channel, health, handlerVars>>

Wait(e) ==
    /\ pc[e] \in {"jitter", "waiting"}
    /\ GoTo(e, IF WaitWasCancelled(woken[e]) THEN "done" ELSE "checking")
    /\ UNCHANGED <<counter, channel, health, handlerVars>>

(* What a check can come back with: no answer, an error, or a response     *)
(* that each ProtocolChecker judges in its own way.                        *)
Replies ==
    {"timeout", "error"} \cup
    (CASE setup.protocol = "http" -> {"200", "503", "500"}
       [] setup.protocol = "tcp" -> {"matched"}
       [] setup.protocol = "grpc" -> {"Serving", "NotServing"})

ProcessHttpResponse(status) ==
    IF (ExpectedStatuses = {} /\ status = "200") \/ status \in ExpectedStatuses
    THEN "success"
    ELSE IF status \in RetriableStatuses THEN "failure" ELSE "immediate"

ProcessGrpcResponse(status) == IF status = "Serving" THEN "success" ELSE "failure"

ResultOf(reply) ==
    CASE reply \in {"timeout", "error"} -> "failure"
      [] setup.protocol = "http" -> ProcessHttpResponse(reply)
      [] setup.protocol = "grpc" -> ProcessGrpcResponse(reply)
      [] OTHER -> "success"

(* The check completes or times out; if the task was woken as well,        *)
(* select! may take either branch.                                         *)
CheckDoneNotCounted(e, reply) ==
    /\ pc[e] = "checking"
    /\ GoTo(e, "sending")
    /\ UNCHANGED <<counter, channel, health, handlerVars>>

CheckDone(e, reply) ==
    /\ pc[e] = "checking"
    /\ counter' = [counter EXCEPT ![e] = ProcessResult(@, ResultOf(reply)).counter]
    /\ GoTo(e, "sending")
    /\ UNCHANGED <<channel, health, handlerVars>>

CheckCancelled(e) ==
    /\ pc[e] = "checking"
    /\ woken[e]
    /\ GoTo(e, "done")
    /\ UNCHANGED <<counter, channel, health, handlerVars>>

SendUpdateInFront(e) ==
    /\ pc[e] = "sending"
    /\ Len(channel) < setup.capacity
    /\ channel' = <<<<e, counter[e].status>>>> \o channel
    /\ GoTo(e, "waiting")
    /\ UNCHANGED <<counter, health, handlerVars>>

SendUpdate(e) ==
    /\ pc[e] = "sending"
    /\ Len(channel) < setup.capacity
    /\ channel' = Append(channel, <<e, counter[e].status>>)
    /\ GoTo(e, "waiting")
    /\ UNCHANGED <<counter, health, handlerVars>>

Checker(e) ==
    \/ Start(e) \/ Wait(e) \/ CheckCancelled(e) \/ SendUpdate(e)
    \/ \E reply \in Replies : CheckDone(e, reply)

----------------------------------------------------------------------------
(* The configuration loop.                                                 *)

(* resolve_endpoints succeeds for one of the xDS clusters, which the loop  *)
(* tries in turn.  There is at least one, or the loop is not started.      *)
ConnectXds ==
    /\ hpc = "connecting"
    /\ hpc' = "select"
    /\ UNCHANGED <<setup, pc, woken, counter, channel, health, toStop, signalled, respawn, changes>>

(* process_health_event(): update_endpoint_health in the clusters map, a   *)
(* no-op for endpoints the cluster no longer has.                          *)
ApplyHealth ==
    /\ hpc = "select"
    /\ channel # <<>>
    /\ LET u == Head(channel)
       IN  health' = [health EXCEPT ![u[1]] = IF @ = "Gone" THEN @ ELSE u[2]]
    /\ channel' = Tail(channel)
    /\ UNCHANGED <<pc, woken, counter, handlerVars>>

(* A load assignment arrives: the cluster gets new endpoint objects with   *)
(* the status of the configuration, then restart_cluster() begins by       *)
(* taking the old checkers out of the map to stop them one after another.  *)
StopOrder == SetToSeq({e \in Endpoints : pc[e] # "none"})

ChangeLoadAssignment ==
    /\ hpc = "select"
    /\ changes < MaxChanges
    /\ changes' = changes + 1
    /\ health' = [e \in Endpoints |-> "Healthy"]
    /\ hpc' = "stopping"
    /\ toStop' = StopOrder
    /\ respawn' = TRUE
    /\ UNCHANGED <<setup, pc, woken, counter, channel, signalled>>

(* A load assignment, or the whole cluster, is removed.                    *)
RemoveLoadAssignment ==
    /\ hpc = "select"
    /\ changes < MaxChanges
    /\ changes' = changes + 1
    /\ health' = [e \in Endpoints |-> "Gone"]
    /\ hpc' = "stopping"
    /\ toStop' = StopOrder
    /\ respawn' = FALSE
    /\ UNCHANGED <<setup, pc, woken, counter, channel, signalled>>

(* EndpointHealthChecker::stop(): notify_waiters(), then join the task.    *)
NotifyChecker ==
    /\ hpc = "stopping"
    /\ toStop # <<>>
    /\ ~signalled
    /\ signalled' = TRUE
    /\ woken' = [woken EXCEPT ![Head(toStop)] =
                    pc[Head(toStop)] \in {"jitter", "checking", "waiting"}]
    /\ UNCHANGED <<setup, pc, counter, channel, health, hpc, toStop, respawn, changes>>

JoinCheckerWithoutWaiting ==
    /\ hpc = "stopping"
    /\ signalled
    /\ toStop' = Tail(toStop)
    /\ signalled' = FALSE
    /\ UNCHANGED <<setup, pc, woken, counter, channel, health, hpc, respawn, changes>>

JoinChecker ==
    /\ hpc = "stopping"
    /\ signalled
    /\ pc[Head(toStop)] = "done"
    /\ pc' = [pc EXCEPT ![Head(toStop)] = "none"]
    /\ toStop' = Tail(toStop)
    /\ signalled' = FALSE
    /\ UNCHANGED <<setup, woken, counter, channel, health, hpc, respawn, changes>>

(* All stopped; restart_cluster() then spawns the new tasks.               *)
FinishChange ==
    /\ hpc = "stopping"
    /\ toStop = <<>>
    /\ hpc' = "select"
    /\ IF respawn
       THEN /\ pc' \in {SpawnedOnly(S) : S \in Spawnable}
            /\ counter' = [e \in Endpoints |-> NewTask]
       ELSE UNCHANGED <<pc, counter>>
    /\ UNCHANGED <<setup, woken, channel, health, toStop, signalled, respawn, changes>>

Stop == NotifyChecker \/ JoinChecker \/ FinishChange

Next ==
    \/ \E e \in Endpoints : Checker(e)
    \/ ConnectXds \/ ApplyHealth \/ ChangeLoadAssignment \/ RemoveLoadAssignment
    \/ Stop

Spec == Init /\ [][Next]_vars

(* Tasks are polled, checks end (every check has a timeout), timers        *)
(* expire, and the loop serves a non-empty health channel.  An xDS server  *)
(* need never be found, nor a change of the configuration come.            *)
Fairness ==
    /\ \A e \in Endpoints : WF_vars(Checker(e))
    /\ WF_vars(ApplyHealth) /\ WF_vars(Stop)

FairSpec == Spec /\ Fairness

----------------------------------------------------------------------------
(* Tasks, channel and loop have their types, and the channel never holds   *)
(* more than its capacity.                                                 *)
TypeOK ==
    /\ pc \in [Endpoints -> {"none", "spawned", "jitter", "checking", "sending",
                             "waiting", "done"}]
    /\ woken \in [Endpoints -> BOOLEAN]
    /\ \A e \in Endpoints : counter[e].status \in Status
    /\ channel \in Seq(Endpoints \X {"Healthy", "Unhealthy"}) /\ Len(channel) <= setup.capacity
    /\ health \in [Endpoints -> {"Healthy", "Unhealthy", "Gone"}]
    /\ hpc \in {"connecting", "select", "stopping"}
    /\ toStop \in Seq(Endpoints)
    /\ signalled \in BOOLEAN /\ respawn \in BOOLEAN
    /\ changes \in 0..MaxChanges

(* After a cluster's endpoints were removed and stop_cluster() returned,   *)
(* no checker task of theirs is left running.                              *)
RemovedIsQuiet ==
    (hpc = "select" /\ \A e \in Endpoints : health[e] = "Gone")
        => \A e \in Endpoints : pc[e] = "none"

(* stop() comes back although the notification may reach the task when it  *)
(* is not listening.  The only thing that can hold it up for good is a     *)
(* full channel: the loop that waits for the task is the one that would    *)
(* have emptied it.                                                        *)
OnlyFullChannelBlocks ==
    hpc = "stopping" ~> (hpc = "select" \/ Len(channel) = setup.capacity)

(* Updates of an older generation of checkers that are still queued when   *)
(* the endpoints are replaced may be applied to the new endpoints, but the *)
(* newest generation's result prevails once it has one, unless the loop is *)
(* held up or has not found an xDS server.                                 *)
NewestResultPrevails ==
    \A e \in Endpoints :
        <>[](hpc # "select" \/ counter[e] = NewTask \/ health[e] \in {"Gone", counter[e].status})

(* "Returns `true` if it was cancelled during the wait": a checker leaves  *)
(* its loop after a wait only when it was told to stop.                    *)
ExitsOnlyWhenCancelled ==
    [][\A e \in Endpoints :
         (pc[e] \in {"jitter", "waiting"} /\ pc'[e] = "done") => woken[e]]_vars
=============================================================================
