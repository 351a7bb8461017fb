--------------------------- MODULE HealthCounter ---------------------------
(***************************************************************************)
(* The operations of HealthStatusCounter, the struct that turns the        *)
(* results of active health checks into a status                           *)
(* (orion-lib/src/clusters/health/counter.rs).  Each operation yields the  *)
(* new counter and the status it returns to its caller, "None" when the    *)
(* status did not change.  As in the code the unhealthy threshold is kept  *)
(* negated, and checks counts up for successes and down for failures.      *)
(***************************************************************************)
EXTENDS Integers

Status == {"None", "Healthy", "Unhealthy"}

(* What one check can tell the counter: the protocol checkers map an       *)
(* expected response to "success", a retriable one, an error or a timeout  *)
(* to "failure", and any other HTTP status to "immediate".                 *)
Results == {"success", "failure", "immediate"}

NewCounter(healthy, unhealthy) ==
    [status |-> "None", checks |-> 0,
     healthy_threshold |-> healthy, unhealthy_threshold |-> -unhealthy]

UpdateStatus(c, new) == [counter |-> [c EXCEPT !.status = new], change |-> new]
KeepStatus(c) == [counter |-> c, change |-> "None"]

(* Successes and failures cancel each other, and counting stops at the     *)
(* threshold.                                                              *)
CountUp(checks, threshold) ==
    LET n == IF checks < 0 THEN 0 ELSE checks
    IN  IF n < threshold THEN n + 1 ELSE n

CountDown(checks, threshold) ==
    LET n == IF checks > 0 THEN 0 ELSE checks
    IN  IF n > threshold THEN n - 1 ELSE n

AddSuccess(c) ==
    LET d == [c EXCEPT !.checks = CountUp(c.checks, c.healthy_threshold)]
    IN  IF \/ c.status = "None"
           \/ c.status = "Unhealthy" /\ d.checks >= c.healthy_threshold
        THEN UpdateStatus(d, "Healthy")
        ELSE KeepStatus(d)

AddFailure(c, ignoreThreshold) ==
    LET d == [c EXCEPT !.checks = CountDown(c.checks, c.unhealthy_threshold)]
    IN  IF \/ c.status = "None"
           \/ c.status = "Healthy"
              /\ (ignoreThreshold \/ d.checks <= c.unhealthy_threshold)
        THEN UpdateStatus(d, "Unhealthy")
        ELSE KeepStatus(d)

ProcessResult(c, result) ==
    IF result = "success" THEN AddSuccess(c) ELSE AddFailure(c, result = "immediate")
=============================================================================
