--------------------------- MODULE HttpTransaction ---------------------------
(***************************************************************************)
(* HTTP transactions, from the listener's request handler to the upstream  *)
(* channels and back (orion-lib/src/listeners/http_connection_manager.rs,  *)
(* its route.rs, transport/http_channel.rs, body/body_with_metrics.rs and  *)
(* access_log.rs).                                                         *)
(*                                                                         *)
(* A transaction reserves a slot of its access logger's channel first.     *)
(* Its request body and its response body each carry a closure that runs   *)
(* once, when the body ends, fails or is dropped, and the second of the    *)
(* two emits the access log.  A request goes upstream in one of three      *)
(* ways: streamed once ("plain"), or collected and replayed, under a retry *)
(* policy ("retry") or to a list of channels ("failover").  Every replay   *)
(* is a clone that shares the body's closure, and the HTTP client may hold *)
(* a clone longer than the attempt it was made for.                        *)
(*                                                                         *)
(* Heads, statuses and data are left out: a body is a number of frames,    *)
(* what the peers do is chosen freely, and whether a response comes from   *)
(* an upstream or is made by the proxy is not told apart.                  *)
(***************************************************************************)
EXTENDS Integers, Sequences, FiniteSets

CONSTANTS Requests,    \* the transactions
          Buffer,      \* capacity of the access logger's channel
          NumRetries,  \* num_retries of the retry policy
          Channels,    \* channels tried by a failover
          Frames       \* bound: frames of a body

ASSUME HttpAssumption ==
  /\ IsFiniteSet(Requests)
  /\ Buffer \in Nat \ {0} /\ Channels \in Nat \ {0}
  /\ NumRetries \in Nat /\ Frames \in Nat

VARIABLES tx,        \* tx[q]: the state of transaction q
          configure  \* a Configure message of the xDS handler to the logger

vars == <<tx, configure>>

Kinds == {"request", "response"}

(***************************************************************************)
(* pc        where the service's future is; "failed": it returned an error *)
(*           or was dropped, "ended": the response body is done            *)
(* open      the closure of that body has not run                          *)
(* bytes     MetricsState::bytes_counter of that body                      *)
(* phase     TransactionPhases::phase                                      *)
(* ctx       AccessLoggersContext::bytes                                   *)
(* permit    the reserved slot: held, filled with a message ("sent"), none *)
(* items     what the back-off iterator yields: the attempts of the loop   *)
(* clones    clones of the request body that are still alive               *)
(* read      frames of the request body that the client has sent           *)
(***************************************************************************)
Transactions ==
  [pc : {"reserve", "dispatch", "collect", "try", "await", "responding", "ended", "failed"},
   mode : {"none", "plain", "retry", "failover"},
   items : Nat, attempts : Nat, clones : Nat, read : Nat,
   open : [Kinds -> BOOLEAN], bytes : [Kinds -> Nat],
   phase : 0..2, ctx : Nat, permit : {"none", "held", "sent"},
   log : Seq([received : Nat, sent : Nat])]

\* The slots of the channel that are reserved or filled.
Taken == Cardinality({q \in Requests : tx[q].permit # "none"})
           + IF configure = "queued" THEN 1 ELSE 0

(* Transactions have their types, and no more slots are taken than the     *)
(* channel has.                                                            *)
TypeOK ==
  /\ tx \in [Requests -> Transactions]
  /\ configure \in {"waiting", "queued", "done"}
  /\ Taken <= Buffer

Init ==
  /\ configure = "waiting"
  /\ tx = [q \in Requests |->
            [pc |-> "reserve", mode |-> "none",
             items |-> 0, attempts |-> 0, clones |-> 0, read |-> 0,
             open |-> [k \in Kinds |-> FALSE], bytes |-> [k \in Kinds |-> 0],
             phase |-> 0, ctx |-> 0, permit |-> "none", log |-> <<>>]]

-----------------------------------------------------------------------------
(* Completion of a body.                                                   *)

\* The bug of not counting messages: every completion emits a log.
AlwaysComplete(t) == TRUE

\* TransactionPhases::message_complete
MessageComplete(t) == t.phase > 0

\* The bug of the response's arguments in the request's closure.
EntrySwapped(t, kind) == [received |-> t.ctx, sent |-> t.bytes[kind]]

\* What the closure of either body passes to eval_http_finish_context.
Entry(t, kind) ==
  IF kind = "request" THEN [received |-> t.bytes[kind], sent |-> t.ctx]
                      ELSE [received |-> t.ctx, sent |-> t.bytes[kind]]

\* trigger_on_complete: the closure is taken, so it runs at most once.  The
\* second one fills the slot; the first leaves its bytes in the context.
Complete(t, kind) ==
  IF ~t.open[kind] THEN t
  ELSE LET closed == [t EXCEPT !.open[kind] = FALSE, !.phase = @ + 1] IN
       IF MessageComplete(t)
       THEN [closed EXCEPT !.log = Append(@, Entry(t, kind)),
                           !.permit = IF @ = "held" THEN "sent" ELSE @]
       ELSE [closed EXCEPT !.ctx = t.bytes[kind]]

\* The slot is given back when nothing is left that could fill it.
Released(t) ==
  IF t.pc = "failed" /\ ~t.open["request"] /\ t.permit = "held"
  THEN [t EXCEPT !.permit = "none"] ELSE t

\* handle_transaction wraps the response body.
Respond(t) == [t EXCEPT !.pc = "responding", !.open["response"] = TRUE]

\* The request body is dropped; a streamed one is with the HTTP client.
DropRequest(t) == IF t.mode = "plain" THEN t ELSE Complete(t, "request")

Set(q, t) == tx' = [tx EXCEPT ![q] = t] /\ UNCHANGED configure

-----------------------------------------------------------------------------
(* The request handler.                                                    *)

\* The bug of not waiting for a free slot.
ReserveAtOnce(q) ==
  /\ tx[q].pc = "reserve"
  /\ Set(q, [tx[q] EXCEPT !.pc = "dispatch", !.permit = "held", !.open["request"] = TRUE])

\* call, up to the wrapped request body.
Reserve(q) ==
  /\ tx[q].pc = "reserve" /\ Taken < Buffer
  /\ Set(q, [tx[q] EXCEPT !.pc = "dispatch", !.permit = "held", !.open["request"] = TRUE])

\* No route, a filter's direct response, a redirect or direct response, no
\* connection to the cluster, a refused upgrade: answered by the proxy.
Answer(q) ==
  /\ tx[q].pc = "dispatch"
  /\ Set(q, Respond(DropRequest(tx[q])))

\* The bug of an error path that keeps the slot.
FailKeepingPermit(q) ==
  /\ tx[q].pc = "dispatch"
  /\ Set(q, [DropRequest(tx[q]) EXCEPT !.pc = "failed"])

\* Cluster not resolved, no routing context, invalid rewrite: to_response
\* returns the error, there is no response to wrap.
Fail(q) ==
  /\ tx[q].pc = "dispatch"
  /\ Set(q, Released([DropRequest(tx[q]) EXCEPT !.pc = "failed"]))

\* What Backoff::new(num_retries, ..) yields, the loop's attempts.  Whether the
\* first try counts as a retry is up to the library: both are allowed.
BackoffItems == {NumRetries, NumRetries + 1}

\* send_request without a retry policy, send_with_retry, or the failover of
\* HttpChannels.
Forward(q) ==
  LET t == tx[q] IN
  /\ t.pc = "dispatch"
  /\ \/ Set(q, [t EXCEPT !.mode = "plain", !.items = 1, !.attempts = 1, !.pc = "await"])
     \/ \E n \in BackoffItems :
          Set(q, [t EXCEPT !.mode = "retry", !.items = n, !.pc = "collect"])
     \/ Set(q, [t EXCEPT !.mode = "failover", !.items = Channels, !.pc = "collect"])

\* The loop gives up with an error, which the proxy answers.  send_request then
\* takes 1 from the number of requests sent, for a metric: if that is 0, a build
\* with overflow checks panics, which drops the future.
GivesUp(t) ==
  {Respond(DropRequest(t))}
    \cup IF t.mode = "retry" /\ t.attempts = 0
          THEN {Released([DropRequest(t) EXCEPT !.pc = "failed"])} ELSE {}

\* inner.collect() bypasses the counter.
Collect(q) ==
  /\ tx[q].pc = "collect"
  /\ \E n \in 0..Frames :
       LET t == [tx[q] EXCEPT !.read = n] IN
       \/ Set(q, [t EXCEPT !.pc = "try"])
       \/ \E u \in GivesUp(t) : Set(q, u)

Try(q) ==
  /\ tx[q].pc = "try" /\ tx[q].attempts < tx[q].items
  /\ Set(q, [tx[q] EXCEPT !.attempts = @ + 1, !.clones = @ + 1, !.pc = "await"])

\* The loop is over.  A failover answers with the last response it got, or
\* an error; the retry loop has dropped the response and makes an error of
\* its own.
Exhausted(q) ==
  /\ tx[q].pc = "try" /\ tx[q].attempts >= tx[q].items
  /\ \E u \in GivesUp(tx[q]) : Set(q, u)

\* A channel of a failover gave a response: unless it is the last channel
\* the next one is tried all the same.
FailoverGot(t) == IF t.attempts = t.items THEN Respond(DropRequest(t)) ELSE [t EXCEPT !.pc = "try"]

\* The attempt ends with a response.  A retry loop ends with it unless it
\* meets a retry condition; a failover goes on to the next channel.
AttemptAnswered(q) ==
  LET t == tx[q] IN
  /\ t.pc = "await"
  /\ \/ t.mode # "failover" /\ Set(q, Respond(DropRequest(t)))
     \/ t.mode = "retry" /\ Set(q, [t EXCEPT !.pc = "try"])
     \/ t.mode = "failover" /\ Set(q, FailoverGot(t))

\* The attempt ends with an error or, in the retry loop, with its timeout.
\* handle_response makes a response of the errors it knows; of the others
\* the route makes one, and a failover goes on without.
AttemptFailed(q) ==
  LET t == tx[q] IN
  /\ t.pc = "await"
  /\ \/ t.mode # "failover" /\ Set(q, Respond(DropRequest(t)))
     \/ t.mode = "failover" /\ Set(q, FailoverGot(t))
     \/ t.mode # "plain" /\ Set(q, [t EXCEPT !.pc = "try"])

\* The route timeout drops the future of send_request, which a failover has
\* for every channel; handle_response answers it.
RouteTimeout(q) ==
  LET t == tx[q] IN
  \/ /\ t.mode = "failover" /\ t.pc = "await"
     /\ Set(q, FailoverGot(t))
  \/ /\ \/ t.mode = "plain" /\ t.pc = "await"
        \/ t.mode = "retry" /\ t.pc \in {"collect", "try", "await"}
     /\ Set(q, Respond(DropRequest(t)))

-----------------------------------------------------------------------------
(* The bodies, polled or dropped by the HTTP client and server.            *)

\* A frame goes upstream and is counted: the next one of the client's, or one of
\* a clone, also when another clone's end has run the closure already.
RequestFrame(q) ==
  LET t == tx[q] IN
  \/ /\ t.mode = "plain" /\ t.open["request"] /\ t.read < Frames
     /\ Set(q, [t EXCEPT !.read = @ + 1, !.bytes["request"] = @ + 1])
  \/ /\ t.clones > 0 /\ t.bytes["request"] < t.read * t.attempts
     /\ Set(q, [t EXCEPT !.bytes["request"] = @ + 1])

\* The streamed body, or a clone, ends, fails or is dropped.
RequestDone(q) ==
  LET t == tx[q] IN
  /\ \/ t.mode = "plain" /\ t.open["request"]
        /\ Set(q, Released(Complete(t, "request")))
     \/ t.clones > 0
        /\ Set(q, Released(Complete([t EXCEPT !.clones = @ - 1], "request")))

ResponseFrame(q) ==
  LET t == tx[q] IN
  /\ t.pc = "responding" /\ t.bytes["response"] < Frames
  /\ Set(q, [t EXCEPT !.bytes["response"] = @ + 1])

\* The response body ends, fails, or is dropped with the connection.
ResponseDone(q) ==
  /\ tx[q].pc = "responding"
  /\ Set(q, [Complete(tx[q], "response") EXCEPT !.pc = "ended"])

\* The client goes away before there is a response: the future is dropped.
Disconnect(q) ==
  /\ tx[q].pc \in {"reserve", "dispatch", "collect", "try", "await"}
  /\ Set(q, Released([DropRequest(tx[q]) EXCEPT !.pc = "failed"]))

\* The access logger takes the message out of the channel.
WriteLog(q) ==
  /\ tx[q].permit = "sent"
  /\ Set(q, [tx[q] EXCEPT !.permit = "none"])

\* update_configuration, in the xDS handler: it waits for a slot, too.
SendConfigure ==
  /\ configure = "waiting" /\ Taken < Buffer
  /\ configure' = "queued" /\ UNCHANGED tx

ReadConfigure ==
  /\ configure = "queued"
  /\ configure' = "done" /\ UNCHANGED tx

-----------------------------------------------------------------------------
Handle(q) ==
  \/ Reserve(q) \/ Answer(q) \/ Fail(q) \/ Forward(q)
  \/ Collect(q) \/ Try(q) \/ Exhausted(q)
  \/ AttemptAnswered(q) \/ AttemptFailed(q) \/ RouteTimeout(q)
  \/ RequestDone(q) \/ ResponseDone(q)

Next ==
  \/ \E q \in Requests :
       Handle(q) \/ RequestFrame(q) \/ ResponseFrame(q) \/ Disconnect(q) \/ WriteLog(q)
  \/ SendConfigure \/ ReadConfigure

\* The handler's tasks and the logger run; peers answer, fail or time out in
\* the end (the route timeout, per-try timeouts and the transport see to it).
Spec ==
  /\ Init /\ [][Next]_vars
  /\ \A q \in Requests : WF_vars(Handle(q)) /\ WF_vars(WriteLog(q))
  /\ WF_vars(SendConfigure) /\ WF_vars(ReadConfigure)

-----------------------------------------------------------------------------
(* A transaction with a response is logged exactly once, after both its    *)
(* bodies are done, in whatever order and on whatever threads they end and *)
(* however often the request was cloned; one without is never logged.      *)
LoggedOnce ==
  \A q \in Requests :
    LET t == tx[q] IN
    Len(t.log) = IF t.pc = "ended" /\ ~t.open["request"] THEN 1 ELSE 0

(* The log has the request's frames as bytes received and the response's   *)
(* as bytes sent, whichever body ended first: the first closure parks its  *)
(* number in a field both closures use (AccessLoggersContext::bytes).  Of  *)
(* a streamed request, and of one the proxy answered unread, the number is *)
(* what the client sent.  Of a replayed one it is what all clones had sent *)
(* when the first of them ended or was dropped, so it may be less than the *)
(* body, or more, but never more than the body once per attempt.           *)
BytesAttributed ==
  \A q \in Requests : \A i \in DOMAIN tx[q].log :
    LET t == tx[q]  entry == t.log[i] IN
    /\ entry.sent = t.bytes["response"]
    /\ IF t.mode \in {"none", "plain"} THEN entry.received = t.read
       ELSE entry.received <= t.attempts * t.read

(* Every transaction ends and gives its slot of the logger's channel back, *)
(* so that no error path starves the requests, or the xDS handler, that    *)
(* wait for one (log_access_reserve_balanced, update_configuration).       *)
SlotsReturned ==
  /\ \A q \in Requests : <>[](tx[q].pc \in {"ended", "failed"} /\ tx[q].permit = "none")
  /\ <>(configure = "done")
=============================================================================
