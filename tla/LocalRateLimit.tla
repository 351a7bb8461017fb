--------------------------- MODULE LocalRateLimit ---------------------------
(***************************************************************************)
(* The local rate limit filter of a route, as the HTTP connection manager  *)
(* runs it (orion-lib/src/listeners/http_connection_manager.rs): every     *)
(* request clones the route's filter and applies the clone.  The clone of  *)
(* a TokenBucket has an atomic of its own, so consume moves the clone's    *)
(* instant, and the clone ends with the request.                           *)
(*                                                                         *)
(* time is the bucket of the route's filter, granted counts the requests   *)
(* that passed since mark.                                                 *)
(***************************************************************************)
EXTENDS TokenBucket

\* LocalRateLimit::run on a clone made now asks for one token.
CloneCall == [pc |-> "decide", now |-> clock, req |-> time_per_token, tokens |-> 1, old |-> time]

\* The request goes on to the next filter.
Continue ==
    /\ NewTime(CloneCall) <= clock
    /\ granted' = granted + 1
    /\ UNCHANGED <<clock, time, call, mark>>

\* The request is answered with the configured status.
DirectResponse ==
    /\ NewTime(CloneCall) > clock
    /\ UNCHANGED vars

RouteNext == Tick \/ Continue \/ DirectResponse

RouteSpec == Init /\ [][RouteNext]_vars

(* The route lets through at most a bucket full of requests and what was   *)
(* filled in since: what max_tokens and fill_interval promise.             *)
RouteRateLimited == RateLimited
=============================================================================
