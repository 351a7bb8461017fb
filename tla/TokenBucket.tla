---------------------------- MODULE TokenBucket ----------------------------
(***************************************************************************)
(* The lock-free token bucket of the local rate limiter                    *)
(* (orion-lib/src/listeners/rate_limiter/token_bucket.rs).  The bucket is  *)
(* one atomic instant: the tokens are the time between it and now, and     *)
(* consuming moves it forward with a compare-exchange loop.  Threads read  *)
(* the clock once, at the start of a call, so they compete with instants   *)
(* of different ages.                                                      *)
(***************************************************************************)
EXTENDS Integers

CONSTANTS
    Threads,          \* threads that call consume
    Amounts,          \* numbers of tokens asked for
    max_tokens, tokens_per_fill, fill_interval,
    Start,            \* the instant the bucket is made
    MaxClock          \* bound: the instant at which the clock stops

\* Duration / u32 truncates to the clock's resolution.
time_per_token  == fill_interval \div tokens_per_fill
time_per_bucket == (max_tokens * fill_interval) \div tokens_per_fill

\* Instants start early enough for the two checked_sub to succeed.
ASSUME BucketAssumption ==
    /\ Amounts \subseteq Nat \ {0}
    /\ max_tokens \in Nat /\ tokens_per_fill \in Nat \ {0} /\ fill_interval \in Nat
    /\ time_per_token \in Nat \ {0} /\ time_per_bucket \in Nat
    /\ MaxClock \in Nat
    /\ Start \in Nat /\ Start >= 2 * time_per_bucket

VARIABLES
    clock,    \* the monotonic clock
    time,     \* TokenBucket.time
    call,     \* what each thread is doing: its now, request and old_time
    mark,     \* some moment, chosen anywhere in a behaviour
    granted   \* tokens granted to calls that began at mark or later

vars == <<clock, time, call, mark, granted>>

Idle == [pc |-> "idle", now |-> 0, req |-> 0, tokens |-> 0, old |-> 0]

Calls == [pc : {"idle", "load", "decide"}, now : Nat, req : Nat, tokens : Nat, old : Nat]

(* Instants, calls and the history have their types.                       *)
TypeOK ==
    /\ clock \in Nat /\ time \in Nat /\ mark \in Nat /\ granted \in Nat
    /\ call \in [Threads -> Calls]

\* Mutation: the bucket is made older than the clock.
InitTooEarly ==
    /\ clock = Start
    /\ time = Start - 3 * time_per_bucket
    /\ call = [t \in Threads |-> Idle]
    /\ mark = Start
    /\ granted = 0

Init ==
    /\ clock = Start
    /\ time = Start - 2 * time_per_bucket
    /\ call = [t \in Threads |-> Idle]
    /\ mark = Start
    /\ granted = 0

Tick ==
    /\ clock < MaxClock
    /\ clock' = clock + 1
    /\ UNCHANGED <<time, call, mark, granted>>

\* The observation starts anew: any instant can be the start of a window.
Mark ==
    /\ mark' = clock
    /\ granted' = 0
    /\ UNCHANGED <<clock, time, call>>

\* consume: the request's price and the one reading of the clock.
Consume(t) ==
    /\ call[t].pc = "idle"
    /\ \E n \in Amounts :
         call' = [call EXCEPT ![t] = [pc |-> "load", now |-> clock, req |-> time_per_token * n,
                                      tokens |-> n, old |-> 0]]
    /\ UNCHANGED <<clock, time, mark, granted>>

Load(t) ==
    /\ call[t].pc = "load"
    /\ call' = [call EXCEPT ![t].pc = "decide", ![t].old = time]
    /\ UNCHANGED <<clock, time, mark, granted>>

\* Mutation: the bucket holds nothing that was filled before the call.
MinTimeNow(c) == c.now

\* now.checked_sub(time_per_bucket).unwrap_or(now)
MinTime(c) == IF c.now >= time_per_bucket THEN c.now - time_per_bucket ELSE c.now

\* Mutation: unused time is kept without a limit.
NewTimeUnclamped(c) == c.old + c.req

NewTime(c) == (IF MinTime(c) > c.old THEN MinTime(c) ELSE c.old) + c.req

Refuse(t) ==
    /\ call[t].pc = "decide"
    /\ NewTime(call[t]) > call[t].now
    /\ call' = [call EXCEPT ![t] = Idle]
    /\ UNCHANGED <<clock, time, mark, granted>>

\* Mutation: a plain store in place of the compare-exchange.
GrantBlindly(t) ==
    /\ call[t].pc = "decide"
    /\ NewTime(call[t]) <= call[t].now
    /\ time' = NewTime(call[t])
    /\ granted' = IF call[t].now >= mark THEN granted + call[t].tokens ELSE granted
    /\ call' = [call EXCEPT ![t] = Idle]
    /\ UNCHANGED <<clock, mark>>

\* compare_exchange_weak succeeds.
Grant(t) ==
    /\ call[t].pc = "decide"
    /\ NewTime(call[t]) <= call[t].now
    /\ time = call[t].old
    /\ time' = NewTime(call[t])
    /\ granted' = IF call[t].now >= mark THEN granted + call[t].tokens ELSE granted
    /\ call' = [call EXCEPT ![t] = Idle]
    /\ UNCHANGED <<clock, mark>>

\* compare_exchange_weak fails, perhaps spuriously, and returns the value.
Retry(t) ==
    /\ call[t].pc = "decide"
    /\ NewTime(call[t]) <= call[t].now
    /\ call' = [call EXCEPT ![t].old = time]
    /\ UNCHANGED <<clock, time, mark, granted>>

Next ==
    \/ Tick
    \/ Mark
    \/ \E t \in Threads : Consume(t) \/ Load(t) \/ Refuse(t) \/ Grant(t) \/ Retry(t)

Spec == Init /\ [][Next]_vars

-----------------------------------------------------------------------------
(* The rate limit: from any moment on, the calls that began since then got *)
(* at most a bucket full of tokens and what was filled in meanwhile,       *)
(* however the threads interleave and however old their clock readings.    *)
RateLimited == granted * time_per_token <= time_per_bucket + (clock - mark)

(* consume never moves the bucket back, which would give tokens away twice.*)
TimeNeverGoesBack == [][time' >= time]_time

(* A refusal is justified: at the instant the call read, the bucket as it  *)
(* is now did not hold the tokens asked for, or no bucket can.  The call   *)
(* may have decided on an old value of the bucket, never on a wrong one.   *)
RefusalJustified ==
    [][\A t \in Threads : Refuse(t) =>
          \/ call[t].now - time < call[t].req
          \/ call[t].req > time_per_bucket]_vars
=============================================================================
