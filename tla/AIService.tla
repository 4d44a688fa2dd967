------------------------------ MODULE AIService ------------------------------
(***************************************************************************)
(* The request path of backend/services/ai_service.go.  DetectObjects,     *)
(* ExtractText and TranscribeAudio have the same control and differ in the *)
(* worker they call, so one request is a job (worker, content) going       *)
(* through                                                                 *)
(*     breaker gate -> cache -> singleflight -> worker call                *)
(* when the AI cache is enabled, and                                       *)
(*     breaker gate -> worker call, with retries                           *)
(* when it is not.  Requests run concurrently; a step is one access to     *)
(* state they share.  Request slots are reused, so behaviours are endless. *)
(*                                                                         *)
(* The worker, the cache service and golang.org/x/sync/singleflight are    *)
(* external: any answer in conf.codes, at any time; an entry may expire or *)
(* a write be lost at any time; one leader per key.                        *)
(***************************************************************************)
EXTENDS BreakerRules

CONSTANTS Requests,          \* request slots
          Workers,           \* the workers with a breaker: vision, ocr, speech
          Contents,          \* hashes of uploaded files (cache keys)
          RetryMaxAttempts,  \* STATIC_RETRY_MAX_ATTEMPTS
          Configurations,    \* the processes and environments considered
          NoRequest

AllCodes == {"OK", "DeadlineExceeded", "InvalidArgument", "Unauthenticated",
             "PermissionDenied", "ResourceExhausted", "Internal", "Unavailable"}

(* cache: ENABLE_AI_CACHE_EXPERIMENT; retry: ENABLE_RETRY &&               *)
(* ENABLE_STATIC_RESILIENCE; breaker: ENABLE_CIRCUIT_BREAKER; codes: what  *)
(* the workers answer; checks: what health checks find.                    *)
Configuration == [cache : BOOLEAN, retry : BOOLEAN, breaker : BOOLEAN,
                  codes : SUBSET AllCodes, checks : SUBSET WorkerStatus]

ASSUME AIServiceAssumption ==
  /\ Configurations \subseteq Configuration
  /\ RetryMaxAttempts \in Nat \ {0}   \* a value <= 0 is replaced by 1
  /\ NoRequest \notin Requests

(* The workers have names. *)
ASSUME NamesAssumption == "" \notin Workers

Jobs == [worker : Workers, content : Contents]
NoJob == [worker |-> "", content |-> ""]

(* One request: the attempt it is at (workerFailureRecorded is blamed) and *)
(* whether the deadline of its context has passed.                         *)
RequestState ==
  [pc : {"idle", "lookup", "keyed", "waiting", "calling", "backoff", "landing", "served"},
   job : Jobs \cup {NoJob}, attempt : 0..RetryMaxAttempts,
   blamed : BOOLEAN, expired : BOOLEAN]

VARIABLES conf,    \* the configuration of this process, which never changes
          cbs,     \* one breaker per worker
          req,     \* the state of each request slot
          flight,  \* singleflight group: the leader of each job, if any
          cache,   \* jobs whose response is cached
          writes   \* cache writes handed to SetAsync and not yet done

vars == <<conf, cbs, req, flight, cache, writes>>

Idle == [pc |-> "idle", job |-> NoJob, attempt |-> 0, blamed |-> FALSE, expired |-> FALSE]

TypeOK ==
  /\ conf \in Configurations
  /\ cbs \in [Workers -> CircuitBreaker]
  /\ req \in [Requests -> RequestState]
  /\ flight \in [Jobs -> Requests \cup {NoRequest}]
  /\ cache \subseteq Jobs
  /\ writes \subseteq Jobs

Init == /\ conf \in Configurations
        /\ cbs = [w \in Workers |-> NewCircuitBreaker]
        /\ req = [r \in Requests |-> Idle]
        /\ flight = [j \in Jobs |-> NoRequest]
        /\ cache = {}
        /\ writes = {}

-----------------------------------------------------------------------------
(* Mutation: bad input is taken for a failure of the worker.               *)
HandleErrorBlames(code) ==
  CASE code = "DeadlineExceeded" -> "DeadlineExceeded"
    [] code \in {"Unauthenticated", "PermissionDenied", "ResourceExhausted"} -> "ErrAIPermanent"
    [] OTHER -> "ErrAIWorker"

(* What a gRPC error becomes. *)
HandleError(code) ==
  CASE code = "DeadlineExceeded" -> "DeadlineExceeded"
    [] code = "InvalidArgument"  -> "ErrAIInvalidArgument"
    [] code \in {"Unauthenticated", "PermissionDenied", "ResourceExhausted"} -> "ErrAIPermanent"
    [] OTHER -> "ErrAIWorker"

(* Mutation: one retry too many.                                           *)
RetryOnceMore(attempt, err) == /\ conf.retry
                               /\ attempt <= RetryMaxAttempts
                               /\ err \notin {"ErrAIInvalidArgument", "ErrAIPermanent"}

ShouldRetry(attempt, err) == /\ conf.retry
                             /\ attempt < RetryMaxAttempts
                             /\ err \notin {"ErrAIInvalidArgument", "ErrAIPermanent"}

IsWorkerAvailable(w) == conf.breaker => Allows(cbs[w])

Worker(r) == req[r].job.worker
Goto(r, pc) == req' = [req EXCEPT ![r].pc = pc]

-----------------------------------------------------------------------------
Arrived(r, job) ==
  /\ req' = [req EXCEPT ![r] = [Idle EXCEPT !.job = job,
                                            !.pc = IF conf.cache THEN "lookup" ELSE "calling"]]
  /\ UNCHANGED <<conf, flight, cache, writes>>

(* Mutation: Allow is called whatever IsWorkerAvailable says.              *)
SubmitUnasked(r, job) == /\ req[r].pc = "idle"
                         /\ cbs' = [cbs EXCEPT ![job.worker] = Allow(@)]
                         /\ Arrived(r, job)

(* A request arrives and passes the breaker. *)
Submit(r, job) ==
  /\ req[r].pc = "idle"
  /\ IsWorkerAvailable(job.worker)
  /\ cbs' = IF conf.breaker THEN [cbs EXCEPT ![job.worker] = Allow(@)] ELSE cbs
  /\ Arrived(r, job)

(* The breaker refuses: ErrAIService, and nothing changes. *)
Refuse(r, job) == /\ req[r].pc = "idle"
                  /\ ~IsWorkerAvailable(job.worker)
                  /\ UNCHANGED vars

(* A cache hit returns at once: the admission is used up, nothing recorded. *)
Lookup(r) ==
  /\ req[r].pc = "lookup"
  /\ req' = [req EXCEPT ![r] = IF req[r].job \in cache THEN Idle ELSE [@ EXCEPT !.pc = "keyed"]]
  /\ UNCHANGED <<conf, cbs, flight, cache, writes>>

(* Mutation: every request calls the worker itself.                        *)
JoinNobody(r) ==
  /\ req[r].pc = "keyed"
  /\ Goto(r, "calling")
  /\ flight' = [flight EXCEPT ![req[r].job] = r]
  /\ UNCHANGED <<conf, cbs, cache, writes>>

(* requestGroup.Do: the first request for a job calls, the others wait. *)
JoinFlight(r) ==
  /\ req[r].pc = "keyed"
  /\ IF flight[req[r].job] = NoRequest
       THEN Goto(r, "calling") /\ flight' = [flight EXCEPT ![req[r].job] = r]
       ELSE Goto(r, "waiting") /\ UNCHANGED flight
  /\ UNCHANGED <<conf, cbs, cache, writes>>

(* The context's deadline, inherited from the route, passes. *)
DeadlinePasses(r) == /\ req[r].pc \in {"calling", "backoff"}
                     /\ ~req[r].expired
                     /\ req' = [req EXCEPT ![r].expired = TRUE]
                     /\ UNCHANGED <<conf, cbs, flight, cache, writes>>

(* The worker call returns a response. *)
WorkerSucceeds(r) ==
  /\ req[r].pc = "calling"
  /\ "OK" \in conf.codes
  /\ cbs' = [cbs EXCEPT ![Worker(r)] = RecordSuccess(@)]
  /\ IF conf.cache
       THEN /\ req' = [req EXCEPT ![r] = [@ EXCEPT !.pc = "landing", !.blamed = FALSE]]
            /\ writes' = writes \cup {req[r].job}
       ELSE req' = [req EXCEPT ![r] = Idle] /\ UNCHANGED writes
  /\ UNCHANGED <<conf, flight, cache>>

(* Which errors are charged to the breaker, and the mutations: every       *)
(* attempt is charged; an overloaded worker is not.                        *)
ChargeEveryAttempt(r, err) == err # "ErrAIInvalidArgument"

ChargeNoOverload(r, err) == err \notin {"ErrAIInvalidArgument", "ErrAIPermanent"} /\ ~req[r].blamed

Charged(r, err) == err # "ErrAIInvalidArgument" /\ ~req[r].blamed

(* The worker call returns an error.  InvalidArgument is the client's      *)
(* fault; any other error is charged to the breaker once per request.      *)
WorkerFails(r, code) ==
  LET err == HandleError(code)
      failed == [req[r] EXCEPT !.blamed = @ \/ Charged(r, err)]
  IN /\ req[r].pc = "calling"
     /\ code \in conf.codes \ {"OK"}
     /\ cbs' = IF Charged(r, err) THEN [cbs EXCEPT ![Worker(r)] = RecordFailure(@)] ELSE cbs
     /\ req' = [req EXCEPT ![r] =
          IF conf.cache THEN [failed EXCEPT !.pc = "landing"]
          ELSE IF ShouldRetry(req[r].attempt, err) /\ ~req[r].expired
            THEN [failed EXCEPT !.pc = "backoff"]
          ELSE Idle]
     /\ UNCHANGED <<conf, flight, cache, writes>>

(* waitBeforeRetry: the backoff ends, or the deadline cuts it short. *)
Retry(r) == /\ req[r].pc = "backoff"
            /\ req' = [req EXCEPT ![r] = [@ EXCEPT !.pc = "calling", !.attempt = req[r].attempt + 1]]
            /\ UNCHANGED <<conf, cbs, flight, cache, writes>>

AbandonRetry(r) == /\ req[r].pc = "backoff"
                   /\ req[r].expired
                   /\ req' = [req EXCEPT ![r] = Idle]
                   /\ UNCHANGED <<conf, cbs, flight, cache, writes>>

(* Mutation: the waiters are not woken.                                    *)
LandAlone(r) ==
  /\ req[r].pc = "landing"
  /\ flight' = [flight EXCEPT ![req[r].job] = NoRequest]
  /\ req' = [req EXCEPT ![r] = Idle]
  /\ UNCHANGED <<conf, cbs, cache, writes>>

(* The leader's call leaves the singleflight group and wakes the waiters,  *)
(* which return its result or its error.                                   *)
Land(r) ==
  /\ req[r].pc = "landing"
  /\ flight' = [flight EXCEPT ![req[r].job] = NoRequest]
  /\ req' = [q \in Requests |->
       IF q = r THEN Idle
       ELSE IF req[q].pc = "waiting" /\ req[q].job = req[r].job
         THEN [req[q] EXCEPT !.pc = "served"]
       ELSE req[q]]
  /\ UNCHANGED <<conf, cbs, cache, writes>>

Collect(r) == /\ req[r].pc = "served"
              /\ req' = [req EXCEPT ![r] = Idle]
              /\ UNCHANGED <<conf, cbs, flight, cache, writes>>

-----------------------------------------------------------------------------
(* SetAsync stores the response, or loses it: its context is cancelled as  *)
(* soon as the request that started the write returns.                     *)
CacheWrite(job) == /\ job \in writes
                   /\ writes' = writes \ {job}
                   /\ cache' \in {cache, cache \cup {job}}
                   /\ UNCHANGED <<conf, cbs, req, flight>>

CacheExpires(job) == /\ job \in cache
                     /\ cache' = cache \ {job}
                     /\ UNCHANGED <<conf, cbs, req, flight, writes>>

(* The orchestrator's health check and the clock act on the breakers. *)
HealthCheck(w, status) == /\ cbs' = [cbs EXCEPT ![w] = UpdateCircuitBreaker(@, status)]
                          /\ UNCHANGED <<conf, req, flight, cache, writes>>

TimerExpires(w) == /\ ~cbs[w].elapsed
                   /\ cbs' = [cbs EXCEPT ![w] = ResetElapses(@)]
                   /\ UNCHANGED <<conf, req, flight, cache, writes>>

(* The steps of a request that is being served. *)
Progress(r) == \/ Lookup(r) \/ JoinFlight(r) \/ Land(r) \/ Collect(r)
               \/ WorkerSucceeds(r) \/ (\E code \in conf.codes : WorkerFails(r, code))
               \/ Retry(r) \/ AbandonRetry(r)

RequestNext == \E r \in Requests : \/ \E job \in Jobs : Submit(r, job) \/ Refuse(r, job)
                                   \/ Progress(r)
                                   \/ DeadlinePasses(r)
Environment == \/ \E job \in Jobs : CacheWrite(job) \/ CacheExpires(job)
               \/ \E w \in Workers : TimerExpires(w)

Next == \/ RequestNext
        \/ Environment
        \/ \E w \in Workers, status \in conf.checks : HealthCheck(w, status)

Spec == Init /\ [][Next]_vars

(***************************************************************************)
(* Fairness: a request being served moves on, because its goroutine is     *)
(* scheduled, its call has a deadline and the backoff a timer; the clock   *)
(* advances.  Nothing is assumed of clients, of the cache, of health       *)
(* checks, or of what the worker answers.                                  *)
(***************************************************************************)
Fairness == /\ \A r \in Requests : WF_vars(Progress(r))
            /\ \A w \in Workers : WF_vars(TimerExpires(w))

FairSpec == Spec /\ Fairness

(* The same with clients that never cease to send every job, as the        *)
(* constant load of an experiment run does.                                *)
BusySpec == /\ FairSpec
            /\ \A job \in Jobs : SF_vars(\E r \in Requests : Submit(r, job))

-----------------------------------------------------------------------------
(* What the path promises to the breakers, to waiters and to clients.      *)

(* Where each request stands towards the breaker of w.  A call that has    *)
(* returned without charging the breaker is done with it, even while its   *)
(* result is still to be handed to the waiters.                            *)
Phase(q, w) == IF q.job.worker # w \/ (q.pc = "landing" /\ ~q.blamed) THEN "idle"
               ELSE IF q.blamed THEN "blamed" ELSE "admitted"

PhaseOf(w) == [r \in Requests |-> Phase(req[r], w)]

Breaker(w) == INSTANCE CircuitBreaker WITH cb <- cbs[w], phase <- PhaseOf(w)

(* The request path is a lawful client of every breaker (CircuitBreaker),  *)
(* unless the breakers are switched off and requests skip the admission:   *)
(* a request is admitted first, is charged at most once however often it   *)
(* retries, and after a success records nothing more.                      *)
BreakerDiscipline ==
  /\ \A w \in Workers : Breaker(w)!Init
  /\ [][conf.breaker => \A w \in Workers : [Breaker(w)!Next]_(Breaker(w)!vars)]_vars

(* The singleflight group mirrors the calls.  With the cache on a job is   *)
(* being computed by at most one request, the one registered for it, and a *)
(* request waits only on a call that is still to land: no waiter is left   *)
(* behind by a leader that failed.                                         *)
FlightSound ==
  conf.cache =>
    /\ \A r \in Requests : req[r].pc \in {"calling", "landing"} <=>
         \E j \in Jobs : flight[j] = r
    /\ \A j \in Jobs : flight[j] # NoRequest => req[flight[j]].job = j
    /\ \A r \in Requests : req[r].pc = "waiting" => flight[req[r].job] # NoRequest

(* A retried request has been charged to the breaker, and retries at most  *)
(* RetryMaxAttempts times; nothing is retried while the cache is on.       *)
RetriesAreCharged ==
  \A r \in Requests : req[r].attempt > 0 =>
    req[r].blamed /\ conf.retry /\ ~conf.cache /\ req[r].attempt <= RetryMaxAttempts

(* Liveness: every request returns, whatever the worker answers, the cache *)
(* loses and the breaker does.                                             *)
EveryRequestReturns == \A r \in Requests : req[r].pc # "idle" ~> req[r].pc = "idle"

(* Bad input alone never opens a breaker: while health checks find the     *)
(* workers up, which answer OK or InvalidArgument, nothing is charged.     *)
BadInputIsHarmless ==
  conf.codes \subseteq {"OK", "InvalidArgument"} /\ "UNHEALTHY" \notin conf.checks =>
    \A w \in Workers : cbs[w].state = "CLOSED" /\ cbs[w].failures = 0

(* Liveness: under constant load a HALF_OPEN breaker closes or opens again *)
(* (orchestrator.go, updateCircuitBreaker; ADR-003).                       *)
HalfOpenDecides ==
  \A w \in Workers : cbs[w].state = "HALF_OPEN" ~> cbs[w].state # "HALF_OPEN"

(* Liveness: it does where every probe calls the worker and is recorded,   *)
(* that is without the cache and without bad input; an overloaded worker's *)
(* answers are recorded, and retries are no probes of their own.           *)
RecordedProbesDecide ==
  \A w \in Workers :
    /\ ~conf.cache /\ "InvalidArgument" \notin conf.codes
    /\ cbs[w].state = "HALF_OPEN"
    ~> cbs[w].state # "HALF_OPEN"
=============================================================================
