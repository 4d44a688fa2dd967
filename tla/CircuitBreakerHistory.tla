----------------------- MODULE CircuitBreakerHistory -----------------------
(***************************************************************************)
(* CircuitBreaker with history variables: they watch the steps and never   *)
(* constrain them, and let the promises of ADR-003 be stated over more     *)
(* than the breaker's own fields.                                          *)
(***************************************************************************)
EXTENDS CircuitBreaker

VARIABLES streak,   \* failures recorded since the last recorded success,
                    \* saturating at MaxFailures
          granted,  \* requests admitted since the breaker last opened or closed,
                    \* counted while it is not CLOSED
          cooled    \* ResetTimeout has passed since the breaker last opened

history == <<streak, granted, cooled>>
hvars == <<cb, phase, streak, granted, cooled>>

HTypeOK == /\ TypeOK
           /\ streak \in 0..MaxFailures
           /\ granted \in Nat
           /\ cooled \in BOOLEAN

HInit == /\ Init
         /\ streak = 0
         /\ granted = 0
         /\ cooled = TRUE

-----------------------------------------------------------------------------
(* What the history records when a failure is reported. *)
WatchFailure ==
  /\ streak' = IF streak < MaxFailures THEN streak + 1 ELSE streak
  /\ IF cb.state # "OPEN" /\ cb'.state = "OPEN"
       THEN granted' = 0 /\ cooled' = FALSE
       ELSE UNCHANGED <<granted, cooled>>

HAdmit(r) == /\ Admit(r)
             /\ granted' = IF cb.state = "CLOSED" THEN 0 ELSE granted + 1
             /\ UNCHANGED <<streak, cooled>>

HFail(r) == Fail(r) /\ WatchFailure

HSucceed(r) == /\ Succeed(r)
               /\ streak' = 0
               /\ granted' = 0
               /\ UNCHANGED cooled

HFinish(r) == Finish(r) /\ UNCHANGED history

HHealthCheck(status) ==
  /\ HealthCheck(status)
  /\ IF status = "UNHEALTHY" THEN WatchFailure ELSE UNCHANGED history

HTimerExpires == /\ TimerExpires
                 /\ cooled' = TRUE
                 /\ UNCHANGED <<streak, granted>>

HNext == \/ \E r \in Requests : HAdmit(r) \/ HFail(r) \/ HSucceed(r) \/ HFinish(r)
         \/ \E status \in WorkerStatus : HHealthCheck(status)
         \/ HTimerExpires

HSpec == HInit /\ [][HNext]_hvars

HFairSpec == HSpec /\ Fairness

-----------------------------------------------------------------------------
(* A breaker that is not CLOSED lets at most MaxTrials + 1 requests through *)
(* before it opens again or closes: the one that moves it to HALF_OPEN and *)
(* MaxTrials trials.  While OPEN it has let none through.                  *)
ProbeBudget == /\ cb.state = "HALF_OPEN" => granted <= MaxTrials + 1
               /\ cb.state = "OPEN" => granted = 0

(* The breaker is CLOSED only below the failure threshold, counted over    *)
(* requests and health checks together since the last success: a success   *)
(* that was interleaved forgives all failures before it.                   *)
ClosedBelowThreshold == cb.state = "CLOSED" => streak < MaxFailures

(* The breaker leaves CLOSED only for OPEN, and exactly with the           *)
(* MaxFailures-th failure in a row: no step before it and none after it,   *)
(* whoever reports the failure and whatever late reports came in between.  *)
TripsAtThreshold ==
  [][cb.state = "CLOSED" =>
       /\ cb'.state # "HALF_OPEN"
       /\ cb'.state = "OPEN" <=> streak = MaxFailures - 1 /\ streak' = MaxFailures]_hvars

(* Once the breaker has opened, from CLOSED or back from HALF_OPEN, no      *)
(* request is admitted before a whole ResetTimeout has passed or some      *)
(* request admitted earlier has succeeded.                                 *)
QuarantineHolds ==
  [][\A r \in Requests :
       phase[r] = "idle" /\ phase'[r] = "admitted" => cb.state = "CLOSED" \/ cooled]_hvars

(* Only a request that was admitted and succeeded closes the breaker: no   *)
(* health check, timer or returning request does (ADR-003).                *)
OnlyTrafficCloses ==
  [][cb.state # "CLOSED" /\ cb'.state = "CLOSED"
       => /\ streak' = 0
          /\ \E r \in Requests : phase[r] # "idle" /\ phase'[r] = "idle"]_hvars

-----------------------------------------------------------------------------
(* The inductive invariant: the history agrees with the breaker's fields.  *)
HistoryInv ==
  /\ HTypeOK
  /\ cb.trials <= MaxTrials
  /\ cb.state = "CLOSED" => /\ cb.trials = 0
                            /\ cb.failures = streak
                            /\ streak < MaxFailures
                            /\ granted = 0
  /\ cb.state = "OPEN" => /\ cb.trials = 0
                          /\ granted = 0
                          /\ (cb.elapsed <=> cooled)
  /\ cb.state = "HALF_OPEN" => /\ granted = cb.trials + 1
                               /\ cb.elapsed /\ cooled

(* Recovery goes OPEN -> HALF_OPEN -> CLOSED (orchestrator.go,             *)
(* updateCircuitBreaker): the breaker never closes straight from OPEN.     *)
RecoveryThroughHalfOpen == [][cb.state = "OPEN" => cb'.state # "CLOSED"]_hvars
=============================================================================
