# TLA+ specification of the orion proxy

Orion is an Envoy-compatible L4/L7 proxy in Rust. A control plane configures it
over delta xDS; worker runtimes accept connections, match routes, balance over
the endpoints of clusters and forward. This directory specifies the parts of it
where order, interleaving, failure or arithmetic decide correctness, checks
them with TLC on small instances, and proves some of the results with TLAPS for
all instances. Paths below are relative to the repository.

## The system and its parts

| Part | Source | Module |
| --- | --- | --- |
| Delta xDS client: reconnect, subscriptions, ACK/NACK | `orion-xds/src/xds/client.rs` | `DeltaXdsClient` |
| xDS configuration handler, with the clusters map | `orion-proxy/src/xds_configurator.rs`, `orion-lib/src/clusters/clusters_manager.rs` | `XdsConfiguration` |
| Clusters map as the data plane sees it | `orion-lib/src/clusters/cached_watch.rs` | `AtomicWatch`, `CachedWatch` |
| Health status counter | `orion-lib/src/clusters/health/counter.rs` | `HealthCounter`, `HealthStatusCounter` |
| Health checkers and their manager | `orion-lib/src/clusters/health/` | `HealthChecking` |
| Load balancing | `orion-lib/src/clusters/balancers/{wrr,priority,healthy,default_balancer}.rs` | `SmoothWrr`, `DefaultBalancer` |
| Listeners manager, listener tasks, configuration dump | `orion-lib/src/listeners/{listeners_manager,listener}.rs`, `orion-proxy/src/admin/config_dump.rs` | `Listeners` |
| Local rate limit | `orion-lib/src/listeners/rate_limiter/` | `TokenBucket`, `LocalRateLimit` |
| HTTP transactions, retries, access log channel | `orion-lib/src/listeners/http_connection_manager.rs`, `orion-lib/src/transport/http_channel.rs`, `orion-lib/src/body/body_with_metrics.rs`, `orion-lib/src/access_log.rs` | `HttpTransaction` |

How they interact: the client hands every decoded batch to the handler and
waits for its verdict. The handler changes the clusters map, restarts health
checkers, and sends listener, route and secret changes to every runtime. It is
also the only reader of the health channel. Readers of the clusters map are the
runtimes' threads. The complete list of parts, with those that are not modelled
and why, is `components` in `PROJECT.json`; what can go wrong in them that tests
hardly reach is `hazards`.

## The modules

**CachedWatch.** `value` and `version` are the two halves of the watch,
`writer`/`readers` the lock, `local`/`wversion` each thread's cached copy.
`update` takes the lock, applies the closure, bumps the version and unlocks; a
thread loads the version, tries the read lock and copies: each is an action. A
relaxed load may return any version that is not older than what the thread has
`seen`. `AtomicWatch` is the abstract specification: publish and
refresh are single steps. `ImplementsAtomicWatch` is the refinement.

**HealthCounter, HealthStatusCounter.** The counter's operations as operators,
and a state machine that feeds them results while `run` counts the streak
independently of the code.

**HealthChecking.** One task per endpoint (`pc`, `counter`), the bounded
`channel`, and the configuration loop (`hpc`), which while stopping checkers
does not read the channel. `notify_waiters` wakes only tasks that are listening
(`woken`). HTTP, TCP and gRPC probes differ in which replies count as what.
`restart_cluster` may start a checker for some of the endpoints only: HTTP and
gRPC checkers fail one by one, and a cluster without a health check or without
connections has none (`Spawnable`). The loop's exit when no xDS cluster is
configured is left out: `proxy.rs:355` does not start the loop then.

**DeltaXdsClient, XdsConfiguration.** The first has the worker's state
(`tracked`, `subscriptions`, `backoff`, `worker`) and the queues; the second
extends it with the handler and with a control plane, which is external code
and is modelled from what the client sends it and expects of it. A resource's
content is its version. Undecodable and refused versions are constants.
`applied` is what is in effect in the proxy.

**TokenBucket, LocalRateLimit.** The bucket is one atomic instant `time`. A
call is `Consume`, `Load`, then `Refuse`, `Grant` or `Retry`, each of which
interleaves with other threads'; `mark` and `granted` are history variables
that start a window at an arbitrary moment. `LocalRateLimit` runs the filter as
the connection manager does, on a clone per request.

**SmoothWrr, DefaultBalancer.** The round robin with its saturating arithmetic
as operators, and the two-level balancer built from them.

**Listeners.** Per runtime: two mpsc channels, the manager's `handles`, every
task ever spawned, two broadcasts as logs with a cursor per task, and
connections. `update_route`'s two stores are separate steps, and so are the two
loads of a request. A task that cannot bind ends `unbound`, one that falls behind
a broadcast ends `lagged`; nothing restarts either. `bound`, chosen in `Init` from
`Bounds`, is the size of the instance, so that one run covers several; `MCListeners`
has the values. The cancellation of the manager is left out, with shutdown.

**HttpTransaction.** Per transaction: where its future is (`pc`), how the
request goes upstream (`mode`), and for both bodies the byte counter and whether
the completion closure has run. `permit` is the slot of the access logger's
channel, which `Configure` messages of the xDS handler compete for.
Decisions that depend on message contents (which route matches, what a filter
says, whether a response is retriable) are free choices. `read` is how much of
the request body there is: a streamed body is counted as it is read, a collected
one is counted again by every clone that is polled. How many attempts a retry
loop has is up to the external back-off iterator (`BackoffItems`). A loop that
gives up before its first attempt subtracts 1 from 0 for a metric, which is an
error response or, in a build with overflow checks, a panic (`GivesUp`).

Operators whose comment calls them a mutation or a bug are not part of a
specification. They are variants of the definition that follows them and show
that a property can fail.

## Runs

`tlc -config <cfg> <module>`; each finishes within two and a half minutes on two workers.

| Run | Shows |
| --- | --- |
| `cached_watch` | no torn, mislabelled or older map; threads catch up; refinement of `AtomicWatch` |
| `health_checking` | no checker survives a removal; stopping ends unless the channel is full; stale queued results do not prevail |
| `xds_convergence` | the proxy converges to the control plane; subscriptions survive lost streams; worker and handler do not wait for each other for ever |
| `xds_safety` | five resource types: versions claimed at reconnect are never ahead of the proxy; dependents are subscribed |
| `token_bucket` | the limit holds in every window; the bucket never goes back; refusals are justified |
| `default_balancer` | counts are exact; an endpoint is found while a per cent of some priority is healthy; a priority has a share exactly when the better ones are below 72 % together; shares never a pick off |
| `listeners` | one live task per name, which runs the newest configuration unless it could not bind or lagged; secrets and routes arrive; a request never sees filters older than its route; a dump ends while a runtime is left |
| `http_transaction` | one log per answered transaction, with the response's bytes, and the request's where it was streamed; every slot comes back |
| `health_wait_inverted`, `xds_endpoints_lost`, `route_rate_limit`, `secret_rotation` | disagreements with the documentation, below |

### Bounds

- `CachedWatch`: three updates by two updaters let a reader's relaxed load be two
  versions old while a third is being published.
- `HealthChecking`: capacities 1 and 6 are a channel that fills and one that does
  not; one change of the load assignment meets two generations of checkers.
- xDS: two clusters, or all five types with one id each. Two breaks are needed
  for a subscription to be lost and re-sent on a stream that is lost again. The
  last of the six timeouts is never what a blocked handler waits for, or
  `HandlerNotStuck` would fail.
- `TokenBucket`: a bucket of two tokens and a clock of three half intervals, so that
  a burst, a refill and a refusal fall into one window; an amount of 3 can never
  be served.
- `DefaultBalancer`: nine picks are a full cycle of the choice by endpoint weights
  (they sum to nine at most), but for the priority of 25 endpoints and the one
  whose weights saturate. They are not one of the choice by priority, whose loads
  sum to 100. There `NeverAPickOff` is checked for the beginning of a cycle. Up to four endpoints of a priority change (`Reported`); in a priority of 25
  they take the healthy ones from 60 to 76 %, across the 72 % where 1.4 makes
  them enough, and in one of 101 from none to four, across the first per cent.
  Widths are scaled to 1000 and 2000 so that saturation happens.
- `Listeners`: one runtime with a connection, where three changes are enough to
  add, replace and remove, or to overrun a broadcast of one entry; and two
  runtimes with two dumps, where the slower reply to the first one ends its runtime
  and the second dump is left with one. `BroadcastCap` is 16 in the code.
- `HttpTransaction`: two attempts leave a clone of an abandoned attempt alive
  beside the next; one slot makes every other transaction and the `Configure`
  message wait. A body has one frame or none: two attempts that replay it
  already log less or more than the body has.

### Fairness

Weak fairness of a task's steps stands for tokio's scheduler: a ready task is
polled. `select!` polls its branches in random order, so a branch that is ready
again and again is taken: strong fairness of the two branches of the xDS worker,
and weak fairness of each branch of a listener, whose branches stay ready.
Timers expire: `AckTimeout`, the checkers' waits. That an xDS server is ever found
is not assumed; until then the health channel is not read, and
`NewestResultPrevails` excepts it. The control plane answers what
it received. In `HttpTransaction` bodies end and peers answer or fail; the timeouts
see to it where they are configured, and elsewhere it is an assumption. What
nobody owes is not fair: configuration changes, broken streams, client requests,
disconnects.

`CHECK_DEADLOCK FALSE` is used where a bounded number of changes or requests
comes to an end, and in `HealthChecking`, where the code can block for good.

## Proofs

Checked by `tlapm <module>`:

- `CachedWatchProofs`: `TypeCorrect`, `LocalCopyIsPublished`, `NeverRollsBack` and
  `Refinement`, for any number of threads and updates. The inductive invariant
  adds to `LocalMatchesVersion` that the lock excludes writers from readers
  (`LockInv`), that value and history agree except between apply and bump
  (`ValueInv`), and that labels and relaxed loads never run ahead of the counter
  (`SeenInv`). A copy is labelled right only because all three hold when it is
  made. Assumes only `WatchAssumption`.
- `HealthStatusCounterProofs`: `ThresholdNeverMissed`, `NoFlipBeforeThreshold` and
  `ChangeReported`, for all thresholds and all sequences of results. The counter has
  no run of its own; `health_checking` exercises its operators. The
  invariant says what `checks` is: the streak, cut off at its threshold.
- `TokenBucketProofs`: for any number of threads and any bucket. The invariant
  relates the granted tokens to how far the bucket has moved since the mark
  (`PaidInv`): every token was paid for with time, and the bucket never passes
  the clock. Assumes `BucketAssumption`.
- `DefaultBalancerProofs`: the incremental counts of healthy endpoints are exact
  for any configuration and any health to start with. Assumes that
  configurations are sequences of priorities with endpoints of positive weight,
  each healthy or not (`ConfigurationsAssumption`).

Only model-checked: all liveness properties, which need fairness and ENABLED and
are outside the prover; what the recursive sums in the balancer compute, which
needs induction over data; and, so far, the invariants of the xDS, listener,
health checking and HTTP modules.

## Disagreements found

- `health_wait_inverted`: `wait_was_cancelled` returns true when the interval ran out,
  the opposite of its comment, so a checker ends after one check. It also hides
  the lost wake-up of `notify_waiters`: with the documented sense, a stop that
  comes between select and wait would be lost and `stop()` would wait for ever.
- `xds_endpoints_lost`: an update of an EDS cluster replaces it by one without
  endpoints, and nothing asks the control plane to send them again.
- `route_rate_limit`: a route's limiter is cloned per request with its bucket.
- `secret_rotation`: a rotated secret reaches no listener when some cluster's TLS
  context uses another secret.

Met while modelling, and not given a run: a removed cluster stays subscribed
(`xds_configurator.rs:195` subscribes again); one healthy endpoint of more than a
hundred rounds to no load at all; a configuration dump ends the runtimes whose
reply comes after the first; a retried request's logged size is what its clones
had counted together when the first of them was dropped, so anything from 0 to
the body times the attempts; a retry loop that gives up replaces the upstream's last
response by an error; a failover goes on after a success; filters of routes with
equal matches in different virtual hosts are merged into one list. Each is at
its line in `hazards`. Metrics are not modelled, but three of their updates are
worth a look: `total_request - 1` on an empty retry (`http_channel.rs:644`),
`DOWNSTREAM_RQ_ACTIVE` decremented before the request has run
(`http_connection_manager.rs:977`), and the gauge of active TLS connections
incremented when one ends (`listener.rs:525`).

## Plan

Done: the modules above, in this order: clusters map, health, xDS, rate limit,
balancers, listeners, HTTP transactions. Next, most important first:

1. `ExtProc`: the external processing worker with its timeouts, failure modes and
   the channel body, and an abstract filter it implements.
2. `ClustersManager`: cluster types, load assignments and localities, TLS
   rebuilds, original-destination cache with its limit.
3. Pure algorithms against reference definitions in one run: filter chain
   selection, virtual host and route matching, per-route filters, `should_retry`,
   the TCP payload matcher, request id policy.
4. Ring hash and Maglev tables, least request.
5. Sharded metrics, connection life cycle with gauges, shutdown.
6. Composition of `Listeners` with `XdsConfiguration`, through the two channels.
7. Proofs: `OnlyTheNewestRuns` and `FiltersNotOlder` of `Listeners`; `LoggedOnce`
   and `BytesAttributed` of `HttpTransaction`; `TrackedIsApplied`
   of the xDS modules.

Runs are kept few; a new question joins the run of the module it extends.

## Not modelled

Bytes: HTTP/1 and HTTP/2 framing, TLS, PROXY protocol and TLS record parsing, log
formatting. Sockets, DNS and files. The generated Envoy API and the conversions
from it, which are stateless. The vendored `hyper-util-fork`. Metrics and tracing,
for now. Time in `HttpTransaction` and `Listeners`: a timeout may go off at any
moment, which includes the right one.
