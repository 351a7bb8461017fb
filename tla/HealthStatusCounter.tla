------------------------ MODULE HealthStatusCounter ------------------------
(***************************************************************************)
(* One endpoint's HealthStatusCounter driven by an arbitrary sequence of   *)
(* check results.  run counts the current streak independently of the      *)
(* code: n > 0 after n successes in a row, n < 0 after -n failures.        *)
(***************************************************************************)
EXTENDS HealthCounter

VARIABLES counter,  \* the HealthStatusCounter
          change,   \* what the last call returned
          result,   \* the result that call was given, "none" before the first
          run       \* history: the current streak

vars == <<counter, change, result, run>>

(* The thresholds are u16.                                                 *)
Thresholds == {n \in Nat : n <= 65535}

Init ==
    /\ \E h, u \in Thresholds : counter = NewCounter(h, u)
    /\ change = "None"
    /\ result = "none"
    /\ run = 0

Check(r) ==
    LET after == ProcessResult(counter, r)
    IN  /\ counter' = after.counter
        /\ change' = after.change
        /\ result' = r

Succeed ==
    /\ Check("success")
    /\ run' = IF run > 0 THEN run + 1 ELSE 1

Fail(r) ==
    /\ Check(r)
    /\ run' = IF run < 0 THEN run - 1 ELSE -1

Next == Succeed \/ \E r \in {"failure", "immediate"} : Fail(r)

Spec == Init /\ [][Next]_vars

----------------------------------------------------------------------------
(* The thresholds as the configuration states them.                        *)
Healthy == counter.healthy_threshold
Unhealthy == -counter.unhealthy_threshold

(* The counter keeps its types and checks stays between the thresholds.    *)
TypeOK ==
    /\ counter \in [status : Status, checks : Int,
                    healthy_threshold : Nat, unhealthy_threshold : Int]
    /\ -Unhealthy <= counter.checks /\ counter.checks <= Healthy
    /\ change \in Status
    /\ result \in Results \cup {"none"}
    /\ run \in Int

(* add_success and add_failure never miss a threshold: after a streak of   *)
(* that length, whatever came before it, the status is the streak's.       *)
ThresholdReached ==
    /\ run >= 1 /\ run >= Healthy => counter.status = "Healthy"
    /\ run <= -1 /\ run <= -Unhealthy => counter.status = "Unhealthy"

(* A known status flips only on a full streak, except that a response      *)
(* handled by add_failure_ignore_threshold flips it at once: a single      *)
(* stray result, or one interrupted streak, never does.                    *)
NoEarlyFlip ==
    [][/\ (counter.status = "Healthy" /\ counter'.status = "Unhealthy")
            => (result' = "immediate" \/ run' <= -Unhealthy)
       /\ (counter.status = "Unhealthy" /\ counter'.status = "Healthy")
            => run' >= Healthy]_vars

(* The returned Option is Some exactly when the status changes, and is     *)
(* then the new status: EndpointHealthUpdate.changed relies on it.         *)
ChangeIsEdge ==
    [][IF counter'.status = counter.status
       THEN change' = "None"
       ELSE change' = counter'.status]_vars
=============================================================================
