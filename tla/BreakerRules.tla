---------------------------- MODULE BreakerRules ----------------------------
(***************************************************************************)
(* The circuit breaker of backend/services/circuit_breaker.go as a value   *)
(* and the operations on it.  Every operation of the code runs under       *)
(* cb.mu, so each is one function from breaker values to breaker values.   *)
(*                                                                         *)
(* Time is abstracted to the one test the code makes: elapsed stands for   *)
(*   time.Since(cb.lastFailure) > cb.config.ResetTimeout                   *)
(* It becomes FALSE where the code assigns lastFailure and TRUE when the   *)
(* clock has run for ResetTimeout (ResetElapses).  lastFailure starts as   *)
(* the zero time, hence elapsed starts TRUE.                               *)
(***************************************************************************)
EXTENDS Naturals

CONSTANTS MaxFailures,  \* config.MaxFailures
          MaxTrials     \* config.MaxTrials

\* NewOrchestratorService replaces a threshold <= 0 by its default (5 and 3).
ASSUME BreakerConfigAssumption == MaxFailures \in Nat \ {0} /\ MaxTrials \in Nat \ {0}

CBState == {"CLOSED", "OPEN", "HALF_OPEN"}

WorkerStatus == {"HEALTHY", "DEGRADED", "UNHEALTHY"}

CircuitBreaker == [state : CBState, failures : Nat, trials : Nat, elapsed : BOOLEAN]

NewCircuitBreaker == [state |-> "CLOSED", failures |-> 0, trials |-> 0, elapsed |-> TRUE]

-----------------------------------------------------------------------------
(* What Allow() answers, and the breaker it leaves when it answers true.   *)
(* When it answers false it changes nothing.                               *)

Allows(b) == \/ b.state = "CLOSED"
             \/ b.state = "OPEN" /\ b.elapsed
             \/ b.state = "HALF_OPEN" /\ b.trials < MaxTrials

(* Mutation: a HALF_OPEN breaker does not count its trials.                *)
AllowUncounted(b) == CASE b.state = "OPEN" -> [b EXCEPT !.state = "HALF_OPEN", !.trials = 0]
                       [] OTHER            -> b

Allow(b) == CASE b.state = "CLOSED"    -> b
              [] b.state = "OPEN"      -> [b EXCEPT !.state = "HALF_OPEN", !.trials = 0]
              [] b.state = "HALF_OPEN" -> [b EXCEPT !.trials = @ + 1]

RecordSuccess(b) == [b EXCEPT !.state = "CLOSED", !.failures = 0, !.trials = 0]

(* Mutations: `>` for `>=` at the threshold; the timer of the last opening *)
(* goes on when a trial fails; a failure restarts the timer of an OPEN     *)
(* breaker.                                                                *)
FailureTripsLate(b) ==
  CASE b.state = "OPEN"      -> b
    [] b.state = "HALF_OPEN" -> [b EXCEPT !.state = "OPEN", !.trials = 0, !.elapsed = FALSE]
    [] b.state = "CLOSED"    -> [b EXCEPT !.failures = @ + 1,
                                          !.elapsed = FALSE,
                                          !.state = IF b.failures + 1 > MaxFailures
                                                      THEN "OPEN" ELSE "CLOSED"]

ReopenKeepsTimer(b) ==
  CASE b.state = "OPEN"      -> b
    [] b.state = "HALF_OPEN" -> [b EXCEPT !.state = "OPEN", !.trials = 0]
    [] b.state = "CLOSED"    -> [b EXCEPT !.failures = @ + 1,
                                          !.elapsed = FALSE,
                                          !.state = IF b.failures + 1 >= MaxFailures
                                                      THEN "OPEN" ELSE "CLOSED"]

FailureRestartsTimer(b) ==
  CASE b.state = "OPEN"      -> [b EXCEPT !.elapsed = FALSE]
    [] b.state = "HALF_OPEN" -> [b EXCEPT !.state = "OPEN", !.trials = 0, !.elapsed = FALSE]
    [] b.state = "CLOSED"    -> [b EXCEPT !.failures = @ + 1,
                                          !.elapsed = FALSE,
                                          !.state = IF b.failures + 1 >= MaxFailures
                                                      THEN "OPEN" ELSE "CLOSED"]

RecordFailure(b) ==
  CASE b.state = "OPEN"      -> b
    [] b.state = "HALF_OPEN" -> [b EXCEPT !.state = "OPEN", !.trials = 0, !.elapsed = FALSE]
    [] b.state = "CLOSED"    -> [b EXCEPT !.failures = @ + 1,
                                          !.elapsed = FALSE,
                                          !.state = IF b.failures + 1 >= MaxFailures
                                                      THEN "OPEN" ELSE "CLOSED"]

(* ResetTimeout has passed since lastFailure. *)
ResetElapses(b) == [b EXCEPT !.elapsed = TRUE]

(* Mutation: a good health check closes the breaker.                       *)
HealthCloses(b, status) == CASE status = "UNHEALTHY" -> RecordFailure(b)
                             [] status = "HEALTHY"   -> RecordSuccess(b)
                             [] OTHER                -> b

(* A health check result reaches the breaker: only UNHEALTHY is recorded. *)
UpdateCircuitBreaker(b, status) == IF status = "UNHEALTHY" THEN RecordFailure(b) ELSE b
=============================================================================
