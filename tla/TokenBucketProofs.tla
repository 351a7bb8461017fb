------------------------- MODULE TokenBucketProofs -------------------------
(***************************************************************************)
(* Proofs about TokenBucket, for any number of threads, any bucket size,   *)
(* fill rate and clock.  The two durations are used only through           *)
(* BucketAssumption.                                                       *)
(***************************************************************************)
EXTENDS TokenBucket, TLAPS

\* Calls in progress hold a clock reading of the past and the price of what
\* they ask for, and once they have loaded the bucket, an old value of it.
CallInv ==
    \A t \in Threads : call[t].pc # "idle" =>
        /\ Start <= call[t].now /\ call[t].now <= clock
        /\ call[t].req = time_per_token * call[t].tokens
        /\ call[t].pc = "decide" => call[t].old <= time

ClockInv == mark <= clock /\ time <= clock /\ Start <= clock

\* The bucket stands at least as far as the tokens granted since mark cost,
\* counted from a full bucket at mark.
PaidInv == granted # 0 => time >= (mark - time_per_bucket) + granted * time_per_token

IInv == TypeOK /\ CallInv /\ ClockInv /\ PaidInv

\* The price of two grants together.
LEMMA PriceAdds ==
  ASSUME NEW a \in Nat, NEW b \in Nat, NEW c \in Nat
  PROVE  (a + b) * c = a * c + c * b
  OBVIOUS

\* A call pays its price on top of a bucket that is not older than a full
\* one, nor than what the call has seen.
LEMMA NewTimeBounds ==
  ASSUME NEW c \in Calls, c.now >= Start
  PROVE  /\ NewTime(c) \in Nat
         /\ NewTime(c) >= c.old + c.req
         /\ NewTime(c) >= (c.now - time_per_bucket) + c.req
         /\ NewTime(c) = c.old + c.req \/ NewTime(c) = (c.now - time_per_bucket) + c.req
  <1>1. c.now \in Nat /\ c.old \in Nat /\ c.req \in Nat
    BY DEF Calls
  <1>2. time_per_bucket \in Nat /\ c.now >= time_per_bucket
    BY <1>1, BucketAssumption
  <1>3. MinTime(c) = c.now - time_per_bucket
    BY <1>2 DEF MinTime
  <1> QED
    BY <1>1, <1>2, <1>3 DEF NewTime

LEMMA InitInv == Init => IInv
  <1> SUFFICES ASSUME Init PROVE IInv
    OBVIOUS
  <1>1. time \in Nat /\ time <= clock /\ clock \in Nat
    BY BucketAssumption DEF Init
  <1>2. \A t \in Threads : call[t] = Idle
    BY DEF Init
  <1>3. TypeOK
    BY <1>1, BucketAssumption DEF Init, TypeOK, Idle, Calls
  <1>4. CallInv
    BY <1>2 DEF CallInv, Idle
  <1> QED
    BY <1>1, <1>3, <1>4, BucketAssumption DEF IInv, ClockInv, PaidInv, Init

LEMMA StepInv == IInv /\ [Next]_vars => IInv'
  <1> SUFFICES ASSUME IInv, [Next]_vars PROVE IInv'
    OBVIOUS
  <1> USE DEF IInv
  <1>1. CASE Tick
    <2>1. TypeOK'
      BY <1>1 DEF Tick, TypeOK
    <2>2. CallInv'
      BY <1>1 DEF Tick, TypeOK, CallInv, Calls
    <2>3. ClockInv' /\ PaidInv'
      BY <1>1, BucketAssumption DEF Tick, TypeOK, ClockInv, PaidInv
    <2> QED
      BY <2>1, <2>2, <2>3
  <1>2. CASE Mark
    <2>1. TypeOK'
      BY <1>2 DEF Mark, TypeOK
    <2>2. CallInv'
      BY <1>2 DEF Mark, CallInv
    <2>3. ClockInv' /\ PaidInv'
      BY <1>2 DEF Mark, TypeOK, ClockInv, PaidInv
    <2> QED
      BY <2>1, <2>2, <2>3
  <1>3. ASSUME NEW t \in Threads, Consume(t) PROVE IInv'
    <2>1. PICK n \in Amounts :
            call' = [call EXCEPT ![t] = [pc |-> "load", now |-> clock, req |-> time_per_token * n,
                                         tokens |-> n, old |-> 0]]
      BY <1>3 DEF Consume
    <2>2. n \in Nat /\ time_per_token * n \in Nat
      BY BucketAssumption
    <2>3. UNCHANGED <<clock, time, mark, granted>>
      BY <1>3 DEF Consume
    <2>4. TypeOK'
      BY <2>1, <2>2, <2>3 DEF TypeOK, Calls
    <2>5. CallInv'
      BY <2>1, <2>2, <2>3, <2>4 DEF TypeOK, CallInv, ClockInv, Calls
    <2> QED
      BY <2>3, <2>4, <2>5 DEF ClockInv, PaidInv
  <1>4. ASSUME NEW t \in Threads, Load(t) PROVE IInv'
    <2>1. TypeOK'
      BY <1>4 DEF Load, TypeOK, Calls
    <2>2. CallInv'
      BY <1>4 DEF Load, TypeOK, CallInv, Calls
    <2> QED
      BY <1>4, <2>1, <2>2 DEF Load, ClockInv, PaidInv
  <1>5. ASSUME NEW t \in Threads, Refuse(t) PROVE IInv'
    <2>1. TypeOK'
      BY <1>5 DEF Refuse, TypeOK, Calls, Idle
    <2>2. CallInv'
      BY <1>5 DEF Refuse, TypeOK, CallInv, Calls, Idle
    <2> QED
      BY <1>5, <2>1, <2>2 DEF Refuse, ClockInv, PaidInv
  <1>6. ASSUME NEW t \in Threads, Grant(t) PROVE IInv'
    <2> DEFINE c == call[t]
    <2>1. c \in Calls /\ c.pc = "decide" /\ c.now \in Nat /\ c.tokens \in Nat /\ c.req \in Nat
      BY <1>6 DEF Grant, TypeOK, Calls
    <2>2. Start <= c.now /\ c.now <= clock /\ c.req = time_per_token * c.tokens
      BY <2>1 DEF CallInv
    <2>3. /\ NewTime(c) \in Nat
          /\ NewTime(c) >= c.old + c.req
          /\ NewTime(c) >= (c.now - time_per_bucket) + c.req
      BY <2>1, <2>2, NewTimeBounds
    <2>4. time = c.old /\ time' = NewTime(c) /\ NewTime(c) <= c.now
      BY <1>6 DEF Grant
    <2>5. /\ clock' = clock /\ mark' = mark
          /\ call' = [call EXCEPT ![t] = Idle]
          /\ granted' = IF c.now >= mark THEN granted + c.tokens ELSE granted
      BY <1>6 DEF Grant
    <2>6. time' >= time /\ time' <= clock
      BY <2>1, <2>2, <2>3, <2>4 DEF TypeOK
    <2>7. TypeOK'
      BY <2>1, <2>3, <2>4, <2>5 DEF TypeOK, Calls, Idle
    <2>8. CallInv'
      BY <2>4, <2>5, <2>6, <2>7 DEF TypeOK, CallInv, Calls, Idle
    <2>9. PaidInv'
      <3>1. CASE c.now < mark
        BY <2>1, <2>4, <2>5, <2>6, <2>7, <3>1, BucketAssumption DEF PaidInv, TypeOK
      <3>2. CASE c.now >= mark
        <4>1. granted' = granted + c.tokens
          BY <2>5, <3>2
        <4>2. granted' * time_per_token = granted * time_per_token + c.req
          BY <2>1, <2>2, <4>1, PriceAdds, BucketAssumption DEF TypeOK
        <4>3. CASE granted = 0
          <5>1. granted' * time_per_token = c.req
            BY <4>2, <4>3, <2>1, BucketAssumption
          <5> QED
            BY <5>1, <2>1, <2>3, <2>4, <2>5, <3>2, BucketAssumption DEF PaidInv, TypeOK
        <4>4. CASE granted # 0
          <5>1. time >= (mark - time_per_bucket) + granted * time_per_token
            BY <4>4 DEF PaidInv
          <5>2. granted * time_per_token \in Nat
            BY BucketAssumption DEF TypeOK
          <5> QED
            BY <5>1, <5>2, <4>2, <2>1, <2>3, <2>4, <2>5, BucketAssumption DEF PaidInv, TypeOK
        <4> QED
          BY <4>3, <4>4
      <3> QED
        BY <3>1, <3>2, <2>1 DEF TypeOK
    <2> QED
      BY <2>5, <2>6, <2>7, <2>8, <2>9 DEF ClockInv
  <1>7. ASSUME NEW t \in Threads, Retry(t) PROVE IInv'
    <2>1. TypeOK'
      BY <1>7 DEF Retry, TypeOK, Calls
    <2>2. CallInv'
      BY <1>7 DEF Retry, TypeOK, CallInv, Calls
    <2> QED
      BY <1>7, <2>1, <2>2 DEF Retry, ClockInv, PaidInv
  <1>8. CASE UNCHANGED vars
    BY <1>8 DEF vars, TypeOK, CallInv, ClockInv, PaidInv
  <1> QED
    BY <1>1, <1>2, <1>3, <1>4, <1>5, <1>6, <1>7, <1>8 DEF Next

LEMMA Invariance == Spec => []IInv
  BY InitInv, StepInv, PTL DEF Spec

\* Every variable of the bucket keeps its type: no instant becomes negative.
THEOREM TypeCorrect == Spec => []TypeOK
  BY Invariance, PTL DEF IInv

\* consume keeps the rate limit for any number of threads: the calls begun
\* since any moment got at most one full bucket and what was filled since.
THEOREM RateIsLimited == Spec => []RateLimited
  <1>1. IInv => RateLimited
    <2> SUFFICES ASSUME IInv PROVE RateLimited
      OBVIOUS
    <2>1. granted * time_per_token \in Nat /\ time_per_bucket \in Nat
      BY BucketAssumption DEF IInv, TypeOK
    <2>2. CASE granted = 0
      <3>1. granted * time_per_token = 0
        BY <2>2, BucketAssumption
      <3> QED
        BY <3>1, <2>1 DEF IInv, TypeOK, ClockInv, RateLimited
    <2>3. CASE granted # 0
      BY <2>1, <2>3 DEF IInv, TypeOK, ClockInv, PaidInv, RateLimited
    <2> QED
      BY <2>2, <2>3
  <1> QED
    BY <1>1, Invariance, PTL

\* The compare-exchange loop only moves the bucket forward.
THEOREM BucketOnlyAdvances == Spec => TimeNeverGoesBack
  <1>1. IInv /\ [Next]_vars => [time' >= time]_time
    <2> SUFFICES ASSUME IInv, [Next]_vars, time' # time PROVE time' >= time
      OBVIOUS
    <2>1. PICK t \in Threads : Grant(t)
      BY DEF Next, vars, Tick, Mark, Consume, Load, Refuse, Retry
    <2>2. call[t] \in Calls /\ call[t].now >= Start /\ call[t].req \in Nat /\ call[t].old \in Nat
      BY <2>1 DEF IInv, TypeOK, CallInv, Grant, Calls
    <2>3. NewTime(call[t]) >= call[t].old + call[t].req
      BY <2>2, NewTimeBounds
    <2> QED
      BY <2>1, <2>2, <2>3, NewTimeBounds DEF Grant
  <1> QED
    BY <1>1, Invariance, PTL DEF Spec, TimeNeverGoesBack

\* No call is refused tokens that the bucket held at the instant the call read.
THEOREM RefusalsAreJustified == Spec => RefusalJustified
  <1> DEFINE A == \A t \in Threads : Refuse(t) =>
                     \/ call[t].now - time < call[t].req
                     \/ call[t].req > time_per_bucket
  <1>1. IInv => A
    <2> SUFFICES ASSUME IInv, NEW t \in Threads, Refuse(t)
                 PROVE  \/ call[t].now - time < call[t].req
                        \/ call[t].req > time_per_bucket
      OBVIOUS
    <2>1. /\ call[t] \in Calls /\ call[t].now >= Start /\ call[t].old <= time
          /\ call[t].req \in Nat /\ call[t].old \in Nat /\ call[t].now \in Nat
      BY DEF IInv, TypeOK, CallInv, Refuse, Calls
    <2>2. \/ NewTime(call[t]) = call[t].old + call[t].req
          \/ NewTime(call[t]) = (call[t].now - time_per_bucket) + call[t].req
      BY <2>1, NewTimeBounds
    <2>3. NewTime(call[t]) > call[t].now
      BY DEF Refuse
    <2> QED
      BY <2>1, <2>2, <2>3, BucketAssumption DEF IInv, TypeOK
  <1> QED
    BY <1>1, Invariance, PTL DEF Spec, RefusalJustified
=============================================================================
