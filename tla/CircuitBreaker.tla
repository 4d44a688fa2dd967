--------------------------- MODULE CircuitBreaker ---------------------------
(***************************************************************************)
(* One worker's breaker shared by concurrent requests and by the           *)
(* orchestrator's health checks.  A request is admitted by Allow(), then   *)
(* records at most one failure and at most one success, in that order, and *)
(* ends.  It may also end without recording anything: an InvalidArgument   *)
(* answer, a cache hit or a shared singleflight result leaves the breaker  *)
(* as Allow() left it.  A request that Allow() refuses changes nothing.    *)
(*                                                                         *)
(* This is what the breaker's clients may do to it; AIService refines it.  *)
(***************************************************************************)
EXTENDS BreakerRules

CONSTANT Requests

VARIABLES cb,     \* the breaker
          phase   \* where each request stands towards the breaker

vars == <<cb, phase>>

TypeOK == /\ cb \in CircuitBreaker
          /\ phase \in [Requests -> {"idle", "admitted", "blamed"}]

Init == /\ cb = NewCircuitBreaker
        /\ phase = [r \in Requests |-> "idle"]

-----------------------------------------------------------------------------
Admit(r) == /\ phase[r] = "idle"
            /\ Allows(cb)
            /\ cb' = Allow(cb)
            /\ phase' = [phase EXCEPT ![r] = "admitted"]

(* RecordWorkerFailure: once per request (workerFailureRecorded).  The      *)
(* request returns the error, or lives on to retry or to hand it over.     *)
Fail(r) == /\ phase[r] = "admitted"
           /\ cb' = RecordFailure(cb)
           /\ \E next \in {"idle", "blamed"} : phase' = [phase EXCEPT ![r] = next]

(* RecordWorkerSuccess, possibly after a failed first attempt. *)
Succeed(r) == /\ phase[r] # "idle"
              /\ cb' = RecordSuccess(cb)
              /\ phase' = [phase EXCEPT ![r] = "idle"]

(* The request returns without a further record. *)
Finish(r) == /\ phase[r] # "idle"
             /\ phase' = [phase EXCEPT ![r] = "idle"]
             /\ UNCHANGED cb

HealthCheck(status) == /\ cb' = UpdateCircuitBreaker(cb, status)
                       /\ UNCHANGED phase

TimerExpires == /\ ~cb.elapsed
                /\ cb' = ResetElapses(cb)
                /\ UNCHANGED phase

Next == \/ \E r \in Requests : Admit(r) \/ Fail(r) \/ Succeed(r) \/ Finish(r)
        \/ \E status \in WorkerStatus : HealthCheck(status)
        \/ TimerExpires

Spec == Init /\ [][Next]_vars

-----------------------------------------------------------------------------
(***************************************************************************)
(* Fairness: the clock advances; clients keep sending requests (the k6     *)
(* load is constant during a run); every admitted request returns, since   *)
(* its worker call carries a deadline (inheritDeadline).                   *)
(***************************************************************************)
Fairness == /\ WF_vars(TimerExpires)
            /\ WF_vars(\E r \in Requests : Admit(r))
            /\ \A r \in Requests : WF_vars(Succeed(r) \/ Finish(r))

FairSpec == Spec /\ Fairness

(* Liveness: an OPEN breaker gives way, however often health checks and    *)
(* late requests report failures to it meanwhile (circuit_breaker.go,      *)
(* RecordFailure's first guard).                                           *)
OpenGivesWay == cb.state = "OPEN" ~> cb.state # "OPEN"

(* A failure reported to an OPEN breaker never restarts its timer, nor     *)
(* does anything else but the breaker's leaving OPEN.                      *)
TimerNotRestarted ==
  [][cb.state = "OPEN" /\ cb'.state = "OPEN" /\ cb.elapsed => cb'.elapsed]_vars
=============================================================================
