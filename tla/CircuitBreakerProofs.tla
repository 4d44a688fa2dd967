------------------------ MODULE CircuitBreakerProofs ------------------------
(***************************************************************************)
(* Proofs, for every number of requests and every threshold, of what the   *)
(* breaker_safety run checks on one instance.  The invariant of            *)
(* CircuitBreakerHistory, HistoryInv, is inductive: it relates each field  *)
(* the code keeps to the history variable that says what the field is for. *)
(***************************************************************************)
EXTENDS CircuitBreakerHistory, TLAPS

-----------------------------------------------------------------------------
(* The operations map breakers to breakers: whatever sequence of calls a   *)
(* client makes, the fields keep their types.                              *)
LEMMA OperationsTyped ==
  ASSUME NEW b \in CircuitBreaker
  PROVE  /\ NewCircuitBreaker \in CircuitBreaker
         /\ Allow(b) \in CircuitBreaker
         /\ RecordSuccess(b) \in CircuitBreaker
         /\ RecordFailure(b) \in CircuitBreaker
         /\ ResetElapses(b) \in CircuitBreaker
         /\ \A status \in WorkerStatus : UpdateCircuitBreaker(b, status) \in CircuitBreaker
<1>1. RecordFailure(b) \in CircuitBreaker
  <2>1. CASE b.state = "OPEN"
    BY <2>1 DEF RecordFailure, CircuitBreaker, CBState
  <2>2. CASE b.state = "HALF_OPEN"
    BY <2>2 DEF RecordFailure, CircuitBreaker, CBState
  <2>3. CASE b.state = "CLOSED"
    <3> DEFINE s == IF b.failures + 1 >= MaxFailures THEN "OPEN" ELSE "CLOSED"
    <3>1. s \in CBState
      BY DEF CBState
    <3>2. RecordFailure(b) = [b EXCEPT !.failures = b.failures + 1, !.elapsed = FALSE, !.state = s]
      BY <2>3 DEF RecordFailure
    <3>3. b.failures + 1 \in Nat
      BY DEF CircuitBreaker
    <3> HIDE DEF s
    <3> QED BY <3>1, <3>2, <3>3 DEF CircuitBreaker
  <2> QED BY <2>1, <2>2, <2>3 DEF CircuitBreaker, CBState
<1>2. Allow(b) \in CircuitBreaker
  <2>1. CASE b.state = "CLOSED" BY <2>1 DEF Allow
  <2>2. CASE b.state = "OPEN" BY <2>2 DEF Allow, CircuitBreaker, CBState
  <2>3. CASE b.state = "HALF_OPEN" BY <2>3 DEF Allow, CircuitBreaker, CBState
  <2> QED BY <2>1, <2>2, <2>3 DEF CircuitBreaker, CBState
<1>3. /\ NewCircuitBreaker \in CircuitBreaker
      /\ RecordSuccess(b) \in CircuitBreaker
      /\ ResetElapses(b) \in CircuitBreaker
  BY DEF NewCircuitBreaker, RecordSuccess, ResetElapses, CircuitBreaker, CBState
<1>4. \A status \in WorkerStatus : UpdateCircuitBreaker(b, status) \in CircuitBreaker
  BY <1>1 DEF UpdateCircuitBreaker
<1> QED BY <1>1, <1>2, <1>3, <1>4

(* Type correctness of the breaker and its clients, without the history.   *)
THEOREM TypeCorrect == Spec => []TypeOK
<1>1. Init => TypeOK
  BY DEF Init, TypeOK, NewCircuitBreaker, CircuitBreaker, CBState
<1>2. TypeOK /\ [Next]_vars => TypeOK'
  <2> SUFFICES ASSUME TypeOK, [Next]_vars PROVE TypeOK'
    OBVIOUS
  <2>0. cb \in CircuitBreaker
    BY DEF TypeOK
  <2>1. ASSUME NEW r \in Requests, Admit(r) PROVE TypeOK'
    BY <2>0, <2>1, OperationsTyped DEF Admit, TypeOK
  <2>2. ASSUME NEW r \in Requests, Fail(r) PROVE TypeOK'
    BY <2>0, <2>2, OperationsTyped DEF Fail, TypeOK
  <2>3. ASSUME NEW r \in Requests, Succeed(r) PROVE TypeOK'
    BY <2>0, <2>3, OperationsTyped DEF Succeed, TypeOK
  <2>4. ASSUME NEW r \in Requests, Finish(r) PROVE TypeOK'
    BY <2>0, <2>4 DEF Finish, TypeOK
  <2>5. ASSUME NEW status \in WorkerStatus, HealthCheck(status) PROVE TypeOK'
    BY <2>0, <2>5, OperationsTyped DEF HealthCheck, TypeOK
  <2>6. CASE TimerExpires
    BY <2>0, <2>6, OperationsTyped DEF TimerExpires, TypeOK
  <2>7. CASE UNCHANGED vars
    BY <2>7 DEF TypeOK, vars
  <2> QED BY <2>1, <2>2, <2>3, <2>4, <2>5, <2>6, <2>7 DEF Next
<1> QED BY <1>1, <1>2, PTL DEF Spec

-----------------------------------------------------------------------------
(* A reported failure, whoever reports it, keeps the invariant.            *)
LEMMA FailureKeepsHistory ==
  ASSUME HistoryInv, cb' = RecordFailure(cb), WatchFailure,
         phase' \in [Requests -> {"idle", "admitted", "blamed"}]
  PROVE  HistoryInv'
<1>0. /\ cb \in CircuitBreaker /\ streak \in 0..MaxFailures
      /\ MaxFailures \in Nat \ {0} /\ MaxTrials \in Nat \ {0}
  BY BreakerConfigAssumption DEF HistoryInv, HTypeOK, TypeOK
<1>1. CASE cb.state = "OPEN"
  <2>1. cb' = cb /\ UNCHANGED <<granted, cooled>>
    BY <1>1 DEF RecordFailure, WatchFailure
  <2> QED
    BY <1>0, <1>1, <2>1 DEF WatchFailure, HistoryInv, HTypeOK, TypeOK
<1>2. CASE cb.state = "HALF_OPEN"
  <2>1. cb' = [cb EXCEPT !.state = "OPEN", !.trials = 0, !.elapsed = FALSE]
    BY <1>2 DEF RecordFailure
  <2>2. /\ cb'.state = "OPEN" /\ cb'.trials = 0 /\ ~cb'.elapsed
        /\ cb' \in CircuitBreaker
    <3>1. cb' \in CircuitBreaker
      BY <1>0, OperationsTyped
    <3> QED BY <1>0, <2>1, <3>1 DEF CircuitBreaker
  <2>3. granted' = 0 /\ ~cooled' /\ cooled' \in BOOLEAN
    BY <1>2, <2>2 DEF WatchFailure
  <2> QED
    BY <1>0, <2>2, <2>3 DEF WatchFailure, HistoryInv, HTypeOK, TypeOK
<1>3. CASE cb.state = "CLOSED"
  <2>1. /\ cb' = [cb EXCEPT !.failures = cb.failures + 1, !.elapsed = FALSE,
                            !.state = IF cb.failures + 1 >= MaxFailures
                                        THEN "OPEN" ELSE "CLOSED"]
        /\ cb.trials = 0 /\ granted = 0 /\ cb.failures = streak /\ streak < MaxFailures
    BY <1>3 DEF RecordFailure, HistoryInv
  <2>2. /\ cb'.trials = 0 /\ ~cb'.elapsed /\ cb'.failures = streak + 1
        /\ cb'.state = IF streak + 1 >= MaxFailures THEN "OPEN" ELSE "CLOSED"
        /\ cb' \in CircuitBreaker
    <3>1. cb' \in CircuitBreaker
      BY <1>0, OperationsTyped
    <3> QED BY <1>0, <2>1, <3>1 DEF CircuitBreaker
  <2>3. streak' = streak + 1
    BY <2>1 DEF WatchFailure
  <2>4. CASE streak + 1 >= MaxFailures
    <3>1. granted' = 0 /\ ~cooled' /\ cooled' \in BOOLEAN
      BY <1>3, <2>2, <2>4 DEF WatchFailure
    <3>2. cb'.state = "OPEN" /\ streak' \in 0..MaxFailures
      BY <1>0, <2>1, <2>2, <2>3, <2>4
    <3> QED
      BY <1>0, <2>2, <3>1, <3>2 DEF HistoryInv, HTypeOK, TypeOK
  <2>5. CASE ~(streak + 1 >= MaxFailures)
    <3>1. granted' = granted /\ cooled' = cooled
      BY <1>3, <2>2, <2>5 DEF WatchFailure
    <3> QED
      BY <1>0, <2>1, <2>2, <2>3, <2>5, <3>1 DEF HistoryInv, HTypeOK, TypeOK
  <2> QED BY <2>4, <2>5
<1> QED BY <1>0, <1>1, <1>2, <1>3 DEF CircuitBreaker, CBState

LEMMA HistoryInvInit == HInit => HistoryInv
BY BreakerConfigAssumption
   DEF HInit, Init, HistoryInv, HTypeOK, TypeOK, NewCircuitBreaker, CircuitBreaker, CBState

LEMMA HistoryInvStep == HistoryInv /\ [HNext]_hvars => HistoryInv'
<1> SUFFICES ASSUME HistoryInv, [HNext]_hvars PROVE HistoryInv'
  OBVIOUS
<1>0. /\ cb \in CircuitBreaker /\ streak \in 0..MaxFailures /\ granted \in Nat
      /\ phase \in [Requests -> {"idle", "admitted", "blamed"}]
      /\ MaxFailures \in Nat \ {0} /\ MaxTrials \in Nat \ {0}
  BY BreakerConfigAssumption DEF HistoryInv, HTypeOK, TypeOK
<1>1. ASSUME NEW r \in Requests, HAdmit(r) PROVE HistoryInv'
  <2>0. phase' \in [Requests -> {"idle", "admitted", "blamed"}] /\ UNCHANGED <<streak, cooled>>
    BY <1>0, <1>1 DEF HAdmit, Admit
  <2>1. CASE cb.state = "CLOSED"
    <3>1. cb' = cb /\ granted' = 0
      BY <1>1, <2>1 DEF HAdmit, Admit, Allow
    <3> QED BY <1>0, <2>0, <2>1, <3>1 DEF HistoryInv, HTypeOK, TypeOK
  <2>2. CASE cb.state = "OPEN"
    <3>1. /\ cb' = [cb EXCEPT !.state = "HALF_OPEN", !.trials = 0]
          /\ granted' = granted + 1 /\ cb.elapsed
      BY <1>1, <2>2 DEF HAdmit, Admit, Allow, Allows
    <3>2. /\ cb'.state = "HALF_OPEN" /\ cb'.trials = 0 /\ (cb'.elapsed <=> cb.elapsed)
          /\ cb' \in CircuitBreaker
      BY <1>0, <3>1 DEF CircuitBreaker, CBState
    <3> QED BY <1>0, <2>0, <2>2, <3>1, <3>2 DEF HistoryInv, HTypeOK, TypeOK
  <2>3. CASE cb.state = "HALF_OPEN"
    <3>1. /\ cb' = [cb EXCEPT !.trials = cb.trials + 1]
          /\ granted' = granted + 1 /\ cb.trials < MaxTrials
      BY <1>1, <2>3 DEF HAdmit, Admit, Allow, Allows
    <3>2. /\ cb'.state = "HALF_OPEN" /\ cb'.trials = cb.trials + 1
          /\ (cb'.elapsed <=> cb.elapsed) /\ cb' \in CircuitBreaker
      BY <1>0, <2>3, <3>1 DEF CircuitBreaker, CBState
    <3>3. cb.trials \in Nat
      BY <1>0 DEF CircuitBreaker
    <3> QED BY <1>0, <2>0, <2>3, <3>1, <3>2, <3>3 DEF HistoryInv, HTypeOK, TypeOK
  <2> QED BY <1>0, <2>1, <2>2, <2>3 DEF CircuitBreaker, CBState
<1>2. ASSUME NEW r \in Requests, HFail(r) PROVE HistoryInv'
  BY <1>0, <1>2, FailureKeepsHistory DEF HFail, Fail
<1>3. ASSUME NEW r \in Requests, HSucceed(r) PROVE HistoryInv'
  <2>1. /\ cb' = [cb EXCEPT !.state = "CLOSED", !.failures = 0, !.trials = 0]
        /\ phase' \in [Requests -> {"idle", "admitted", "blamed"}]
        /\ streak' = 0 /\ granted' = 0 /\ cooled' = cooled
    BY <1>0, <1>3 DEF HSucceed, Succeed, RecordSuccess
  <2>2. /\ cb'.state = "CLOSED" /\ cb'.failures = 0 /\ cb'.trials = 0
        /\ cb' \in CircuitBreaker
    BY <1>0, <2>1 DEF CircuitBreaker, CBState
  <2> QED BY <1>0, <2>1, <2>2 DEF HistoryInv, HTypeOK, TypeOK
<1>4. ASSUME NEW r \in Requests, HFinish(r) PROVE HistoryInv'
  BY <1>0, <1>4 DEF HFinish, Finish, history, HistoryInv, HTypeOK, TypeOK
<1>5. ASSUME NEW status \in WorkerStatus, HHealthCheck(status) PROVE HistoryInv'
  <2>1. CASE status = "UNHEALTHY"
    BY <1>0, <1>5, <2>1, FailureKeepsHistory
       DEF HHealthCheck, HealthCheck, UpdateCircuitBreaker
  <2>2. CASE status # "UNHEALTHY"
    <3>1. UNCHANGED hvars
      BY <1>5, <2>2 DEF HHealthCheck, HealthCheck, UpdateCircuitBreaker, history, hvars
    <3> QED BY <3>1 DEF hvars, HistoryInv, HTypeOK, TypeOK
  <2> QED BY <2>1, <2>2
<1>6. CASE HTimerExpires
  <2>1. /\ cb' = [cb EXCEPT !.elapsed = TRUE] /\ cooled' = TRUE
        /\ UNCHANGED <<phase, streak, granted>>
    BY <1>6 DEF HTimerExpires, TimerExpires, ResetElapses
  <2>2. /\ cb'.state = cb.state /\ cb'.failures = cb.failures /\ cb'.trials = cb.trials
        /\ cb'.elapsed = TRUE /\ cb' \in CircuitBreaker
    BY <1>0, <2>1 DEF CircuitBreaker
  <2> QED BY <1>0, <2>1, <2>2 DEF HistoryInv, HTypeOK, TypeOK
<1>7. CASE UNCHANGED hvars
  BY <1>7 DEF hvars, HistoryInv, HTypeOK, TypeOK
<1> QED BY <1>1, <1>2, <1>3, <1>4, <1>5, <1>6, <1>7 DEF HNext

(* The invariant that carries the other proofs.                            *)
THEOREM HistoryInvariant == HSpec => []HistoryInv
BY HistoryInvInit, HistoryInvStep, PTL DEF HSpec

-----------------------------------------------------------------------------
(* At most MaxTrials + 1 requests reach the worker before a breaker that   *)
(* left CLOSED opens again or closes.                                      *)
THEOREM ProbesBounded == HSpec => []ProbeBudget
<1>1. HistoryInv => ProbeBudget
  BY BreakerConfigAssumption
     DEF HistoryInv, HTypeOK, TypeOK, CircuitBreaker, ProbeBudget
<1> QED BY <1>1, HistoryInvariant, PTL

(* A CLOSED breaker has seen fewer than MaxFailures failures since the     *)
(* last success.                                                           *)
THEOREM ClosedMeansBelowThreshold == HSpec => []ClosedBelowThreshold
<1>1. HistoryInv => ClosedBelowThreshold
  BY DEF HistoryInv, ClosedBelowThreshold
<1> QED BY <1>1, HistoryInvariant, PTL

(* No request is admitted within ResetTimeout of the opening, unless a     *)
(* success has closed the breaker meanwhile.                               *)
THEOREM QuarantineIsKept == HSpec => QuarantineHolds
<1>1. HistoryInv /\ [HNext]_hvars
        => [\A r \in Requests : phase[r] = "idle" /\ phase'[r] = "admitted"
              => cb.state = "CLOSED" \/ cooled]_hvars
  <2> SUFFICES ASSUME HistoryInv, HNext, NEW r \in Requests,
                      phase[r] = "idle", phase'[r] = "admitted"
               PROVE  cb.state = "CLOSED" \/ cooled
    BY DEF hvars
  <2>0. phase \in [Requests -> {"idle", "admitted", "blamed"}]
        /\ cb.state \in CBState
    BY DEF HistoryInv, HTypeOK, TypeOK, CircuitBreaker
  <2>1. PICK q \in Requests : HAdmit(q)
    <3>1. ASSUME NEW q \in Requests, HFail(q) \/ HSucceed(q) \/ HFinish(q) PROVE FALSE
      BY <2>0, <3>1 DEF HFail, Fail, HSucceed, Succeed, HFinish, Finish
    <3>2. ASSUME NEW status \in WorkerStatus, HHealthCheck(status) PROVE FALSE
      BY <3>2 DEF HHealthCheck, HealthCheck
    <3>3. ~HTimerExpires
      BY DEF HTimerExpires, TimerExpires
    <3> QED BY <3>1, <3>2, <3>3 DEF HNext
  <2>2. Allows(cb)
    BY <2>1 DEF HAdmit, Admit
  <2> QED BY <2>0, <2>2 DEF Allows, HistoryInv, CBState
<1> QED BY <1>1, HistoryInvariant, PTL DEF HSpec, QuarantineHolds

(* Only an admitted request that succeeds closes the breaker.              *)
THEOREM ClosedByTrafficOnly == HSpec => OnlyTrafficCloses
<1>1. HistoryInv /\ [HNext]_hvars
        => [cb.state # "CLOSED" /\ cb'.state = "CLOSED"
              => /\ streak' = 0
                 /\ \E r \in Requests : phase[r] # "idle" /\ phase'[r] = "idle"]_hvars
  <2> SUFFICES ASSUME HistoryInv, HNext, cb.state # "CLOSED", cb'.state = "CLOSED"
               PROVE  /\ streak' = 0
                      /\ \E r \in Requests : phase[r] # "idle" /\ phase'[r] = "idle"
    BY DEF hvars
  <2>0. cb \in CircuitBreaker /\ phase \in [Requests -> {"idle", "admitted", "blamed"}]
    BY DEF HistoryInv, HTypeOK, TypeOK
  <2>a. cb.state \in {"OPEN", "HALF_OPEN"}
    BY <2>0 DEF CircuitBreaker, CBState
  <2>b. RecordFailure(cb).state # "CLOSED"
    <3>1. CASE cb.state = "OPEN" BY <3>1 DEF RecordFailure
    <3>2. CASE cb.state = "HALF_OPEN" BY <2>0, <3>2 DEF RecordFailure, CircuitBreaker
    <3> QED BY <2>a, <3>1, <3>2
  <2>1. ASSUME NEW r \in Requests, HAdmit(r) PROVE FALSE
    <3>1. CASE cb.state = "OPEN" BY <2>0, <2>1, <3>1 DEF HAdmit, Admit, Allow, CircuitBreaker
    <3>2. CASE cb.state = "HALF_OPEN" BY <2>0, <2>1, <3>2 DEF HAdmit, Admit, Allow, CircuitBreaker
    <3> QED BY <2>a, <3>1, <3>2
  <2>2. ASSUME NEW r \in Requests, HFail(r) \/ HFinish(r) PROVE FALSE
    BY <2>2, <2>a, <2>b DEF HFail, Fail, HFinish, Finish
  <2>3. ASSUME NEW status \in WorkerStatus, HHealthCheck(status) PROVE FALSE
    BY <2>3, <2>a, <2>b DEF HHealthCheck, HealthCheck, UpdateCircuitBreaker
  <2>4. ~HTimerExpires
    BY <2>0, <2>a DEF HTimerExpires, TimerExpires, ResetElapses, CircuitBreaker
  <2>5. PICK r \in Requests : HSucceed(r)
    BY <2>1, <2>2, <2>3, <2>4 DEF HNext
  <2> QED BY <2>0, <2>5 DEF HSucceed, Succeed
<1> QED BY <1>1, HistoryInvariant, PTL DEF HSpec, OnlyTrafficCloses

(* A failure report on a CLOSED breaker opens it exactly when it is the    *)
(* MaxFailures-th in a row, since failures counts what streak counts.      *)
LEMMA FailureWhileClosed ==
  ASSUME HistoryInv, cb.state = "CLOSED", cb' = RecordFailure(cb), WatchFailure
  PROVE  /\ cb'.state # "HALF_OPEN"
         /\ cb'.state = "OPEN" <=> streak = MaxFailures - 1 /\ streak' = MaxFailures
<1>0. /\ cb \in CircuitBreaker
      /\ cb.failures = streak /\ streak \in Nat /\ streak < MaxFailures
  BY BreakerConfigAssumption DEF HistoryInv, HTypeOK, TypeOK
<1>1. cb' = [cb EXCEPT !.failures = @ + 1, !.elapsed = FALSE,
                       !.state = IF cb.failures + 1 >= MaxFailures THEN "OPEN" ELSE "CLOSED"]
  BY DEF RecordFailure
<1>2. cb'.state = IF streak + 1 >= MaxFailures THEN "OPEN" ELSE "CLOSED"
  BY <1>0, <1>1 DEF CircuitBreaker
<1>3. streak' = streak + 1
  BY <1>0 DEF WatchFailure
<1> QED BY <1>0, <1>2, <1>3, BreakerConfigAssumption

(* The breaker opens from CLOSED with its MaxFailures-th failure in a row, *)
(* neither earlier nor later.                                              *)
THEOREM TripsExactly == HSpec => TripsAtThreshold
<1>1. HistoryInv /\ [HNext]_hvars
        => [cb.state = "CLOSED" =>
              /\ cb'.state # "HALF_OPEN"
              /\ cb'.state = "OPEN" <=> streak = MaxFailures - 1 /\ streak' = MaxFailures]_hvars
  <2> SUFFICES ASSUME HistoryInv, HNext, cb.state = "CLOSED"
               PROVE  /\ cb'.state # "HALF_OPEN"
                      /\ cb'.state = "OPEN" <=> streak = MaxFailures - 1 /\ streak' = MaxFailures
    BY DEF hvars
  <2>0. cb \in CircuitBreaker /\ streak \in Nat /\ streak < MaxFailures /\ MaxFailures \in Nat \ {0}
    BY BreakerConfigAssumption DEF HistoryInv, HTypeOK, TypeOK
  <2>1. ASSUME cb'.state = "CLOSED", streak' = streak \/ streak' = 0
        PROVE  ~(streak = MaxFailures - 1 /\ streak' = MaxFailures)
    BY <2>0, <2>1
  <2>2. CASE \E r \in Requests : HFail(r)
    BY <2>2, FailureWhileClosed DEF HFail, Fail
  <2>3. CASE \E r \in Requests : HAdmit(r) \/ HSucceed(r) \/ HFinish(r)
    <3>1. cb'.state = "CLOSED" /\ (streak' = streak \/ streak' = 0)
      BY <2>0, <2>3 DEF HAdmit, Admit, Allow, HSucceed, Succeed, RecordSuccess, HFinish, Finish,
                        history, CircuitBreaker
    <3> QED BY <2>1, <3>1
  <2>4. CASE \E status \in WorkerStatus : HHealthCheck(status)
    <3>1. PICK status \in WorkerStatus : HHealthCheck(status)
      BY <2>4
    <3>2. CASE status = "UNHEALTHY"
      BY <3>1, <3>2, FailureWhileClosed DEF HHealthCheck, HealthCheck, UpdateCircuitBreaker
    <3>3. CASE status # "UNHEALTHY"
      <4>1. cb' = cb /\ streak' = streak
        BY <3>1, <3>3 DEF HHealthCheck, HealthCheck, UpdateCircuitBreaker, history
      <4> QED BY <2>1, <4>1
    <3> QED BY <3>2, <3>3
  <2>5. CASE HTimerExpires
    <3>1. cb'.state = "CLOSED" /\ streak' = streak
      BY <2>0, <2>5 DEF HTimerExpires, TimerExpires, ResetElapses, CircuitBreaker
    <3> QED BY <2>1, <3>1
  <2> QED BY <2>2, <2>3, <2>4, <2>5 DEF HNext
<1> QED BY <1>1, HistoryInvariant, PTL DEF HSpec, TripsAtThreshold

(* Nothing restarts the timer of a breaker that stays OPEN, so the failing *)
(* health checks of a dead worker do not keep its breaker OPEN for ever.   *)
THEOREM TimerIsNotRestarted == Spec => TimerNotRestarted
<1>1. TypeOK /\ [Next]_vars
        => [cb.state = "OPEN" /\ cb'.state = "OPEN" /\ cb.elapsed => cb'.elapsed]_vars
  <2> SUFFICES ASSUME TypeOK, Next, cb.state = "OPEN", cb'.state = "OPEN", cb.elapsed
               PROVE  cb'.elapsed
    BY DEF vars
  <2>0. cb \in CircuitBreaker
    BY DEF TypeOK
  <2>1. RecordFailure(cb) = cb
    BY DEF RecordFailure
  <2>2. ASSUME NEW r \in Requests, Admit(r) \/ Succeed(r) PROVE FALSE
    <3>1. Allow(cb) = [cb EXCEPT !.state = "HALF_OPEN", !.trials = 0]
      BY DEF Allow
    <3>2. Allow(cb).state = "HALF_OPEN" /\ RecordSuccess(cb).state = "CLOSED"
      BY <2>0, <3>1 DEF RecordSuccess, CircuitBreaker
    <3> QED BY <2>2, <3>2 DEF Admit, Succeed
  <2>3. ASSUME NEW r \in Requests, Fail(r) \/ Finish(r) PROVE cb' = cb
    BY <2>1, <2>3 DEF Fail, Finish
  <2>4. ASSUME NEW status \in WorkerStatus, HealthCheck(status) PROVE cb' = cb
    BY <2>1, <2>4 DEF HealthCheck, UpdateCircuitBreaker
  <2>5. ~TimerExpires
    BY DEF TimerExpires
  <2> QED BY <2>2, <2>3, <2>4, <2>5 DEF Next
<1> QED BY <1>1, TypeCorrect, PTL DEF Spec, TimerNotRestarted

-----------------------------------------------------------------------------
(* The history variables only watch: every behaviour they are added to is  *)
(* one of the breaker and its clients, so nothing above is bought by       *)
(* leaving out a step that a client may take.                              *)
THEOREM HistoryOnlyWatches == HSpec => Spec
<1>1. HInit => Init
  BY DEF HInit
<1>2. [HNext]_hvars => [Next]_vars
  <2> SUFFICES ASSUME [HNext]_hvars PROVE [Next]_vars
    OBVIOUS
  <2>1. CASE \E r \in Requests : HAdmit(r) \/ HFail(r) \/ HSucceed(r) \/ HFinish(r)
    BY <2>1 DEF HAdmit, HFail, HSucceed, HFinish, Next
  <2>2. CASE \E status \in WorkerStatus : HHealthCheck(status)
    BY <2>2 DEF HHealthCheck, Next
  <2>3. CASE HTimerExpires
    BY <2>3 DEF HTimerExpires, Next
  <2>4. CASE UNCHANGED hvars
    BY <2>4 DEF hvars, vars
  <2> QED BY <2>1, <2>2, <2>3, <2>4 DEF HNext
<1> QED BY <1>1, <1>2, PTL DEF HSpec, Spec
=============================================================================
