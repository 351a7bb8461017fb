--------------------- MODULE HealthStatusCounterProofs ---------------------
(***************************************************************************)
(* Proofs about HealthStatusCounter for every pair of thresholds and every *)
(* sequence of results.  The invariant that carries them says what checks  *)
(* is: the current streak, cut off at the threshold it counts towards.     *)
(***************************************************************************)
EXTENDS HealthStatusCounter, TLAPS

Fields == [status : Status, checks : Int, healthy_threshold : Nat, unhealthy_threshold : Int]

(* checks is the streak, saturated at either threshold.                    *)
ChecksTrackRun ==
    /\ counter.unhealthy_threshold <= 0
    /\ run >= 0 => counter.checks = IF run < Healthy THEN run ELSE Healthy
    /\ run <= 0 => counter.checks = IF run > -Unhealthy THEN run ELSE -Unhealthy
    /\ run = 0 <=> counter.status = "None"

IInv == TypeOK /\ ChecksTrackRun /\ ThresholdReached

----------------------------------------------------------------------------
(* What one successful check does to each field.                           *)
LEMMA SuccessStep ==
    ASSUME counter \in Fields, Check("success")
    PROVE  /\ counter' \in Fields
           /\ counter'.checks = CountUp(counter.checks, counter.healthy_threshold)
           /\ counter'.healthy_threshold = counter.healthy_threshold
           /\ counter'.unhealthy_threshold = counter.unhealthy_threshold
           /\ IF \/ counter.status = "None"
                 \/ counter.status = "Unhealthy" /\ counter'.checks >= counter.healthy_threshold
              THEN counter'.status = "Healthy" /\ change' = "Healthy"
              ELSE counter'.status = counter.status /\ change' = "None"
<1> DEFINE d == [counter EXCEPT !.checks = CountUp(counter.checks, counter.healthy_threshold)]
<1>1. CountUp(counter.checks, counter.healthy_threshold) \in Int
    BY DEF CountUp, Fields
<1>2. d \in Fields /\ d.checks = CountUp(counter.checks, counter.healthy_threshold)
      /\ d.status = counter.status
      /\ d.healthy_threshold = counter.healthy_threshold
      /\ d.unhealthy_threshold = counter.unhealthy_threshold
    BY <1>1 DEF Fields
<1>3. /\ counter' = AddSuccess(counter).counter
      /\ change' = AddSuccess(counter).change
    BY DEF Check, ProcessResult
<1> DEFINE flip == \/ counter.status = "None"
                   \/ counter.status = "Unhealthy" /\ d.checks >= counter.healthy_threshold
<1>4. CASE flip
  <2>1. counter' = [d EXCEPT !.status = "Healthy"] /\ change' = "Healthy"
    BY <1>3, <1>4 DEF AddSuccess, UpdateStatus
  <2>2. QED BY <1>2, <1>4, <2>1 DEF Fields, Status
<1>5. CASE ~flip
  <2>1. counter' = d /\ change' = "None"
    BY <1>3, <1>5 DEF AddSuccess, KeepStatus
  <2>2. QED BY <1>2, <1>5, <2>1
<1>6. QED BY <1>4, <1>5

(* What one failed check does to each field.                               *)
LEMMA FailureStep ==
    ASSUME counter \in Fields, NEW r \in {"failure", "immediate"}, Check(r)
    PROVE  /\ counter' \in Fields
           /\ counter'.checks = CountDown(counter.checks, counter.unhealthy_threshold)
           /\ counter'.healthy_threshold = counter.healthy_threshold
           /\ counter'.unhealthy_threshold = counter.unhealthy_threshold
           /\ IF \/ counter.status = "None"
                 \/ counter.status = "Healthy"
                    /\ (r = "immediate" \/ counter'.checks <= counter.unhealthy_threshold)
              THEN counter'.status = "Unhealthy" /\ change' = "Unhealthy"
              ELSE counter'.status = counter.status /\ change' = "None"
<1> DEFINE d == [counter EXCEPT !.checks = CountDown(counter.checks, counter.unhealthy_threshold)]
<1>1. CountDown(counter.checks, counter.unhealthy_threshold) \in Int
    BY DEF CountDown, Fields
<1>2. d \in Fields /\ d.checks = CountDown(counter.checks, counter.unhealthy_threshold)
      /\ d.status = counter.status
      /\ d.healthy_threshold = counter.healthy_threshold
      /\ d.unhealthy_threshold = counter.unhealthy_threshold
    BY <1>1 DEF Fields
<1>3. /\ counter' = AddFailure(counter, r = "immediate").counter
      /\ change' = AddFailure(counter, r = "immediate").change
    BY DEF Check, ProcessResult
<1> DEFINE flip == \/ counter.status = "None"
                   \/ counter.status = "Healthy"
                      /\ (r = "immediate" \/ d.checks <= counter.unhealthy_threshold)
<1>4. CASE flip
  <2>1. counter' = [d EXCEPT !.status = "Unhealthy"] /\ change' = "Unhealthy"
    BY <1>3, <1>4 DEF AddFailure, UpdateStatus
  <2>2. QED BY <1>2, <1>4, <2>1 DEF Fields, Status
<1>5. CASE ~flip
  <2>1. counter' = d /\ change' = "None"
    BY <1>3, <1>5 DEF AddFailure, KeepStatus
  <2>2. QED BY <1>2, <1>5, <2>1
<1>6. QED BY <1>4, <1>5

----------------------------------------------------------------------------
LEMMA InitIInv == Init => IInv
<1> SUFFICES ASSUME Init PROVE IInv
    OBVIOUS
<1>1. PICK h \in Thresholds, u \in Thresholds : counter = NewCounter(h, u)
    BY DEF Init
<1>2. h \in Nat /\ u \in Nat
    BY DEF Thresholds
<1>3. /\ counter \in Fields
      /\ counter.status = "None" /\ counter.checks = 0
      /\ counter.healthy_threshold = h /\ counter.unhealthy_threshold = -u
    BY <1>1, <1>2 DEF NewCounter, Fields, Status
<1>4. run = 0 /\ change = "None" /\ result = "none"
    BY DEF Init
<1> USE DEF Healthy, Unhealthy
<1>5. TypeOK
    BY <1>2, <1>3, <1>4 DEF TypeOK, Fields, Status
<1>6. ChecksTrackRun
    BY <1>2, <1>3, <1>4 DEF ChecksTrackRun
<1>7. ThresholdReached
    BY <1>2, <1>3, <1>4 DEF ThresholdReached
<1>8. QED BY <1>5, <1>6, <1>7 DEF IInv

LEMMA NextIInv == IInv /\ [Next]_vars => IInv'
<1> SUFFICES ASSUME IInv, [Next]_vars PROVE IInv'
    OBVIOUS
<1>0. counter \in Fields /\ run \in Int
    BY DEF IInv, TypeOK, Fields
<1> USE DEF Healthy, Unhealthy
<1>1. CASE Succeed
  <2>1. Check("success") /\ run' = IF run > 0 THEN run + 1 ELSE 1
    BY <1>1 DEF Succeed
  <2>2. counter' \in Fields
    BY <1>0, <2>1, SuccessStep
  <2>3. result' = "success" /\ change' \in Status
    BY <1>0, <2>1, SuccessStep DEF Check, Status
  <2>4. TypeOK'
    BY <1>0, <2>1, <2>2, <2>3, SuccessStep
       DEF IInv, TypeOK, ChecksTrackRun, Fields, CountUp, Results
  <2>5. ChecksTrackRun'
    BY <1>0, <2>1, <2>2, SuccessStep DEF IInv, ChecksTrackRun, Fields, Status, CountUp
  <2>6. ThresholdReached'
    BY <1>0, <2>1, <2>2, <2>5, SuccessStep DEF IInv, ChecksTrackRun, ThresholdReached, Fields, Status
  <2>7. QED BY <2>4, <2>5, <2>6 DEF IInv
<1>2. ASSUME NEW r \in {"failure", "immediate"}, Fail(r) PROVE IInv'
  <2>1. Check(r) /\ run' = IF run < 0 THEN run - 1 ELSE -1
    BY <1>2 DEF Fail
  <2>2. counter' \in Fields
    BY <1>0, <2>1, FailureStep
  <2>3. result' = r /\ change' \in Status
    BY <1>0, <2>1, FailureStep DEF Check, Status
  <2>4. TypeOK'
    BY <1>0, <2>1, <2>2, <2>3, FailureStep
       DEF IInv, TypeOK, ChecksTrackRun, Fields, CountDown, Results
  <2>5. ChecksTrackRun'
    BY <1>0, <2>1, <2>2, FailureStep DEF IInv, ChecksTrackRun, Fields, Status, CountDown
  <2>6. ThresholdReached'
    BY <1>0, <2>1, <2>2, <2>5, FailureStep DEF IInv, ChecksTrackRun, ThresholdReached, Fields, Status
  <2>7. QED BY <2>4, <2>5, <2>6 DEF IInv
<1>3. CASE UNCHANGED vars
    BY <1>3 DEF vars, IInv, TypeOK, ChecksTrackRun, ThresholdReached
<1>4. QED BY <1>1, <1>2, <1>3 DEF Next

LEMMA Invariance == Spec => []IInv
BY InitIInv, NextIInv, PTL DEF Spec

----------------------------------------------------------------------------
(* The counter keeps its types and stays between its thresholds.           *)
THEOREM TypeCorrect == Spec => []TypeOK
BY Invariance, PTL DEF IInv

(* No streak as long as its threshold leaves the endpoint in the other     *)
(* status.                                                                 *)
THEOREM ThresholdNeverMissed == Spec => []ThresholdReached
BY Invariance, PTL DEF IInv

(* No status flips before its streak is complete, but for failures that    *)
(* ignore the threshold.                                                   *)
THEOREM NoFlipBeforeThreshold == Spec => NoEarlyFlip
<1> DEFINE A == /\ (counter.status = "Healthy" /\ counter'.status = "Unhealthy")
                     => (result' = "immediate" \/ run' <= -Unhealthy)
                /\ (counter.status = "Unhealthy" /\ counter'.status = "Healthy")
                     => run' >= Healthy
<1>1. ASSUME IInv, IInv', Succeed PROVE A
  <2>1. counter \in Fields /\ Check("success") /\ run' \in Int /\ run' >= 1
    BY <1>1 DEF IInv, TypeOK, Fields, Succeed
  <2>2. counter'.checks <= run'
    BY <1>1, <2>1 DEF IInv, TypeOK, ChecksTrackRun, Healthy
  <2>3. QED BY <1>1, <2>1, <2>2, SuccessStep DEF Healthy, Fields
<1>2. ASSUME IInv, IInv', NEW r \in {"failure", "immediate"}, Fail(r) PROVE A
  <2>1. counter \in Fields /\ Check(r) /\ run' \in Int /\ run' <= -1
    BY <1>2 DEF IInv, TypeOK, Fields, Fail
  <2>2. counter'.checks >= run'
    BY <1>2, <2>1 DEF IInv, TypeOK, ChecksTrackRun, Unhealthy
  <2>3. result' = r
    BY <2>1 DEF Check
  <2>4. QED BY <1>2, <2>1, <2>2, <2>3, FailureStep DEF Unhealthy, Fields
<1>3. IInv /\ IInv' /\ [Next]_vars => [A]_vars
    BY <1>1, <1>2 DEF Next
<1>4. QED BY <1>3, Invariance, PTL DEF Spec, NoEarlyFlip

(* A status is returned exactly when it changed.                           *)
THEOREM ChangeReported == Spec => ChangeIsEdge
<1> DEFINE A == IF counter'.status = counter.status
                THEN change' = "None"
                ELSE change' = counter'.status
<1>1. ASSUME IInv, Succeed PROVE A
    BY <1>1, SuccessStep DEF IInv, TypeOK, Fields, Succeed
<1>2. ASSUME IInv, NEW r \in {"failure", "immediate"}, Fail(r) PROVE A
    BY <1>2, FailureStep DEF IInv, TypeOK, Fields, Fail
<1>3. IInv /\ [Next]_vars => [A]_vars
    BY <1>1, <1>2 DEF Next
<1>4. QED BY <1>3, Invariance, PTL DEF Spec, ChangeIsEdge
=============================================================================
