--------------------------- MODULE AIServiceProofs ---------------------------
(***************************************************************************)
(* The request path, for any requests, workers, contents and accepted      *)
(* configurations: retries are charged, the singleflight group mirrors the *)
(* calls, bad input opens no breaker, and towards every breaker the path   *)
(* is a lawful client.  Then the breakers themselves, whether or not the   *)
(* process asks them, what a wedged one is, and why a request that is      *)
(* served runs out of steps.                                               *)
(***************************************************************************)
EXTENDS AIService, Integers, TLAPS

(* What a request may look like under configuration k. *)
Lawful(q, k) ==
  /\ q.job \in Jobs <=> q.pc # "idle"
  /\ q.pc \in {"lookup", "keyed", "waiting", "landing", "served"} => k.cache
  /\ q.attempt > 0 => q.blamed /\ k.retry /\ ~k.cache
  /\ q.pc = "backoff" => q.blamed /\ k.retry /\ ~k.cache /\ q.attempt < RetryMaxAttempts

RequestsTyped == req \in [Requests -> RequestState]
RequestInv == RequestsTyped /\ \A r \in Requests : Lawful(req[r], conf)

-----------------------------------------------------------------------------
LEMMA RequestFields ==
  ASSUME NEW q \in RequestState
  PROVE  /\ q.pc \in {"idle", "lookup", "keyed", "waiting", "calling", "backoff", "landing", "served"}
         /\ q.job \in Jobs \cup {NoJob} /\ q.attempt \in 0..RetryMaxAttempts
         /\ q.blamed \in BOOLEAN /\ q.expired \in BOOLEAN
BY DEF RequestState

LEMMA ReqUpdated ==
  ASSUME RequestsTyped, NEW r \in Requests, NEW x \in RequestState, req' = [req EXCEPT ![r] = x]
  PROVE  /\ RequestsTyped'
         /\ req'[r] = x /\ \A q \in Requests \ {r} : req'[q] = req[q]
BY DEF RequestsTyped

LEMMA RequestStep ==
  ASSUME RequestInv, NEW r \in Requests, conf' = conf,
         NEW x \in RequestState, req' = [req EXCEPT ![r] = x], Lawful(x, conf)
  PROVE  RequestInv'
<1>1. /\ RequestsTyped'
      /\ req'[r] = x /\ \A q \in Requests \ {r} : req'[q] = req[q]
  BY ReqUpdated DEF RequestInv
<1> QED BY <1>1 DEF RequestInv

LEMMA IdleLawful == Idle \in RequestState /\ \A k : Lawful(Idle, k)
<1>1. 0 \in 0..RetryMaxAttempts
  BY AIServiceAssumption
<1>2. NoJob \notin Jobs
  BY NamesAssumption DEF NoJob, Jobs
<1>3. Idle \in RequestState
  BY <1>1 DEF Idle, RequestState
<1>4. Idle.pc = "idle" /\ Idle.job = NoJob /\ Idle.attempt = 0
  BY DEF Idle
<1> QED BY <1>2, <1>3, <1>4 DEF Lawful

(* A step of a request gives it a typed and lawful state. *)
StepsTo(r, x) == /\ x \in RequestState /\ Lawful(x, conf)
                 /\ req' = [req EXCEPT ![r] = x]

LEMMA MoveForm ==
  ASSUME RequestInv, NEW r \in Requests,
         NEW pc \in {"keyed", "waiting", "calling", "served"},
         pc \in {"keyed", "waiting"} => conf.cache,
         req[r].pc \in {"lookup", "keyed", "waiting"},
         req' = [req EXCEPT ![r].pc = pc]
  PROVE  \E x : StepsTo(r, x) /\ x.pc = pc /\ x.job = req[r].job /\ x.blamed = req[r].blamed
<1> DEFINE x == [req[r] EXCEPT !.pc = pc]
<1>1. req[r] \in RequestState /\ Lawful(req[r], conf)
  BY DEF RequestInv, RequestsTyped
<1>2. x \in RequestState
  BY <1>1 DEF RequestState
<1>3. /\ x.pc = pc /\ x.job = req[r].job /\ x.attempt = req[r].attempt
      /\ x.blamed = req[r].blamed
  BY <1>1 DEF RequestState
<1>4. req' = [req EXCEPT ![r] = x]
  BY DEF RequestInv, RequestsTyped
<1> HIDE DEF x
<1>5. Lawful(x, conf)
  BY <1>1, <1>3 DEF Lawful
<1> QED BY <1>2, <1>3, <1>4, <1>5 DEF StepsTo

LEMMA SubmitForm ==
  ASSUME NEW r \in Requests, NEW job \in Jobs, Submit(r, job)
  PROVE  \E x : /\ StepsTo(r, x) /\ x.job = job /\ ~x.blamed
                /\ x.pc = IF conf.cache THEN "lookup" ELSE "calling"
<1> DEFINE p == IF conf.cache THEN "lookup" ELSE "calling"
           x == [Idle EXCEPT !.job = job, !.pc = p]
<1>1. req' = [req EXCEPT ![r] = x]
  BY DEF Submit, Arrived
<1>2. p \in {"lookup", "calling"} /\ (p = "lookup" <=> conf.cache)
  OBVIOUS
<1>3. Idle \in RequestState /\ Idle.attempt = 0 /\ ~Idle.blamed
  BY IdleLawful DEF Idle
<1> HIDE DEF p
<1>4. x \in RequestState
  BY <1>2, <1>3 DEF RequestState
<1>5. x.pc = p /\ x.job = job /\ x.attempt = 0 /\ ~x.blamed
  BY <1>3 DEF RequestState
<1> HIDE DEF x
<1>6. Lawful(x, conf)
  BY <1>2, <1>5 DEF Lawful
<1> QED BY <1>1, <1>4, <1>5, <1>6 DEF StepsTo, p

(* The worker's answers. *)
LEMMA SucceedForm ==
  ASSUME RequestInv, NEW r \in Requests, WorkerSucceeds(r)
  PROVE  \E x : /\ StepsTo(r, x)
                /\ IF conf.cache THEN x.pc = "landing" /\ x.job = req[r].job /\ ~x.blamed ELSE x = Idle
<1>1. req[r] \in RequestState /\ Lawful(req[r], conf) /\ req[r].pc = "calling"
  BY DEF RequestInv, RequestsTyped, WorkerSucceeds
<1>2. CASE conf.cache
  <2> DEFINE x == [req[r] EXCEPT !.pc = "landing", !.blamed = FALSE]
  <2>1. req' = [req EXCEPT ![r] = x]
    BY <1>2 DEF WorkerSucceeds
  <2>2. x \in RequestState
    BY <1>1 DEF RequestState
  <2>3. x.pc = "landing" /\ x.job = req[r].job /\ x.attempt = req[r].attempt /\ ~x.blamed
    BY <1>1 DEF RequestState
  <2> HIDE DEF x
  <2>4. Lawful(x, conf)
    BY <1>1, <1>2, <2>3 DEF Lawful
  <2> QED BY <1>2, <2>1, <2>2, <2>3, <2>4 DEF StepsTo
<1>3. CASE ~conf.cache
  BY <1>3, IdleLawful DEF WorkerSucceeds, StepsTo
<1> QED BY <1>2, <1>3

LEMMA FailForm ==
  ASSUME RequestInv, NEW r \in Requests, NEW code, WorkerFails(r, code)
  PROVE  \E x : /\ StepsTo(r, x)
                /\ conf.cache => x.pc = "landing" /\ x.job = req[r].job
                /\ \/ x = Idle
                   \/ /\ x.job = req[r].job
                      /\ x.blamed = (req[r].blamed \/ Charged(r, HandleError(code)))
                      /\ x.pc = "landing" \/ (x.pc = "backoff" /\ x.blamed)
<1> DEFINE err == HandleError(code)
           blamed == req[r].blamed \/ Charged(r, err)
           failed == [req[r] EXCEPT !.blamed = blamed]
           retries == ShouldRetry(req[r].attempt, err) /\ ~req[r].expired
<1>1. req[r] \in RequestState /\ Lawful(req[r], conf) /\ req[r].pc = "calling"
  BY DEF RequestInv, RequestsTyped, WorkerFails
<1>2. req' = [req EXCEPT ![r] = IF conf.cache THEN [failed EXCEPT !.pc = "landing"]
                                ELSE IF retries THEN [failed EXCEPT !.pc = "backoff"]
                                ELSE Idle]
  BY DEF WorkerFails
<1>3. blamed \in BOOLEAN
  BY <1>1 DEF RequestState, Charged
<1>4. retries => blamed /\ conf.retry /\ req[r].attempt < RetryMaxAttempts
  BY DEF ShouldRetry, Charged
<1>5. req[r].blamed => blamed
  OBVIOUS
<1>6. ASSUME NEW pc \in {"landing", "backoff"}
      PROVE  LET x == [failed EXCEPT !.pc = pc]
             IN /\ x \in RequestState /\ x.pc = pc /\ x.job = req[r].job
                /\ x.attempt = req[r].attempt /\ x.blamed = blamed
  <2> HIDE DEF blamed
  <2> QED BY <1>1, <1>3 DEF RequestState
<1> HIDE DEF failed, retries
<1>7. CASE conf.cache
  <2> DEFINE x == [failed EXCEPT !.pc = "landing"]
  <2>1. Lawful(x, conf)
    BY <1>1, <1>5, <1>6, <1>7 DEF Lawful
  <2> QED BY <1>2, <1>6, <1>7, <2>1 DEF StepsTo
<1>8. CASE ~conf.cache /\ retries
  <2> DEFINE x == [failed EXCEPT !.pc = "backoff"]
  <2>1. Lawful(x, conf)
    BY <1>1, <1>4, <1>5, <1>6, <1>8 DEF Lawful
  <2>2. /\ StepsTo(r, x) /\ x.pc = "backoff" /\ x.job = req[r].job
        /\ x.blamed = blamed
    BY <1>2, <1>6, <1>8, <2>1 DEF StepsTo
  <2>3. x.blamed
    BY <1>4, <1>8, <2>2
  <2> HIDE DEF x
  <2> QED BY <1>8, <2>2, <2>3
<1>9. CASE ~conf.cache /\ ~retries
  BY <1>2, <1>9, IdleLawful DEF StepsTo
<1> QED BY <1>7, <1>8, <1>9

-----------------------------------------------------------------------------
(* A request that holds a place in the singleflight group. *)
Busy(q) == q.pc \in {"calling", "landing"}

FlightInv == RequestInv /\ flight \in [Jobs -> Requests \cup {NoRequest}] /\ FlightSound

(* A step that neither joins nor leaves a flight. *)
LEMMA FlightKept ==
  ASSUME FlightInv, NEW r \in Requests, NEW x, StepsTo(r, x), UNCHANGED <<conf, flight>>,
         conf.cache => /\ Busy(x) <=> Busy(req[r])
                       /\ Busy(x) => x.job = req[r].job
                       /\ x.pc # "waiting"
  PROVE  FlightInv'
<1>1. /\ RequestInv' /\ req'[r] = x
      /\ \A q \in Requests \ {r} : req'[q] = req[q]
  BY RequestStep, ReqUpdated DEF FlightInv, StepsTo, RequestInv
<1>2. NoRequest \notin Requests
  BY AIServiceAssumption
<1>3. ASSUME conf.cache PROVE FlightSound'
  <2>1. \A q \in Requests : Busy(req'[q]) <=> Busy(req[q])
    BY <1>1, <1>3
  <2>2. \A q \in Requests : Busy(req[q]) => req'[q].job = req[q].job
    BY <1>1, <1>3
  <2>3. \A q \in Requests : req'[q].pc = "waiting" => req'[q] = req[q]
    BY <1>1, <1>3
  <2>4. \A j \in Jobs : flight[j] # NoRequest => flight[j] \in Requests /\ Busy(req[flight[j]])
    BY <1>3 DEF FlightInv, FlightSound, Busy
  <2> QED BY <1>3, <2>1, <2>2, <2>3, <2>4 DEF FlightInv, FlightSound, Busy
<1>4. ~conf.cache => FlightSound'
  BY DEF FlightSound
<1> QED BY <1>1, <1>3, <1>4 DEF FlightInv

LEMMA FlightJoined ==
  ASSUME FlightInv, NEW r \in Requests, JoinFlight(r)
  PROVE  FlightInv'
<1> DEFINE job == req[r].job
<1>1. /\ req[r] \in RequestState /\ req[r].pc = "keyed" /\ conf.cache /\ job \in Jobs
      /\ NoRequest \notin Requests /\ conf' = conf /\ flight \in [Jobs -> Requests \cup {NoRequest}]
  BY AIServiceAssumption DEF FlightInv, RequestInv, RequestsTyped, Lawful, JoinFlight
<1>2. PICK pc \in {"waiting", "calling"} :
        /\ req' = [req EXCEPT ![r].pc = pc]
        /\ IF pc = "calling" THEN flight[job] = NoRequest /\ flight' = [flight EXCEPT ![job] = r]
                             ELSE flight[job] # NoRequest /\ flight' = flight
  BY DEF JoinFlight, Goto
<1>3. PICK x : StepsTo(r, x) /\ x.pc = pc /\ x.job = job
  <2>1. RequestInv /\ pc \in {"keyed", "waiting", "calling", "served"}
    BY DEF FlightInv
  <2>2. conf.cache /\ req[r].pc \in {"lookup", "keyed", "waiting"}
    BY <1>1
  <2>3. req' = [req EXCEPT ![r].pc = pc]
    BY <1>2
  <2> QED BY <2>1, <2>2, <2>3, MoveForm
<1>4. /\ RequestInv' /\ req'[r] = x
      /\ \A q \in Requests \ {r} : req'[q] = req[q]
  <2>1. RequestInv /\ RequestsTyped /\ conf' = conf
    BY <1>1 DEF FlightInv, RequestInv
  <2>2. x \in RequestState /\ Lawful(x, conf) /\ req' = [req EXCEPT ![r] = x]
    BY <1>3 DEF StepsTo
  <2>3. RequestInv'
    BY <2>1, <2>2, RequestStep
  <2> QED BY <2>1, <2>2, <2>3, ReqUpdated
<1>5. \A j \in Jobs : flight[j] # r
  BY <1>1 DEF FlightInv, FlightSound
<1>6. CASE pc = "waiting"
  BY <1>1, <1>2, <1>3, <1>4, <1>5, <1>6 DEF FlightInv, FlightSound
<1>7. CASE pc = "calling"
  <2>1. /\ flight' \in [Jobs -> Requests \cup {NoRequest}]
        /\ flight'[job] = r /\ \A j \in Jobs \ {job} : flight'[j] = flight[j]
    BY <1>1, <1>2, <1>7
  <2>2. flight[job] = NoRequest /\ x.pc = "calling" /\ x.job = job
    BY <1>2, <1>3, <1>7
  <2> HIDE DEF job
  <2>3. \A q \in Requests : (\E j \in Jobs : flight'[j] = q) <=> q = r \/ \E j \in Jobs : flight[j] = q
    BY <1>1, <2>1, <2>2
  <2>4. \A q \in Requests : req'[q].pc \in {"calling", "landing"} <=>
                             q = r \/ req[q].pc \in {"calling", "landing"}
    BY <1>4, <2>2
  <2>5. \A j \in Jobs : flight'[j] # NoRequest => req'[flight'[j]].job = j
    BY <1>1, <1>4, <1>5, <2>1, <2>2 DEF FlightInv, FlightSound
  <2>6. \A q \in Requests : req'[q].pc = "waiting" => q # r /\ req'[q] = req[q]
    BY <1>4, <2>2
  <2>7. \A q \in Requests : req'[q].pc = "waiting" => flight'[req'[q].job] # NoRequest
    <3>1. \A q \in Requests : req[q].pc = "waiting" => req[q].job \in Jobs
      BY DEF FlightInv, RequestInv, Lawful
    <3> QED BY <1>1, <2>1, <2>6, <3>1 DEF FlightInv, FlightSound
  <2>8. FlightSound'
    BY <1>1, <2>3, <2>4, <2>5, <2>7 DEF FlightInv, FlightSound
  <2> QED BY <1>4, <2>1, <2>8 DEF FlightInv
<1> QED BY <1>6, <1>7

LEMMA FlightLanded ==
  ASSUME FlightInv, NEW r \in Requests, Land(r)
  PROVE  FlightInv'
<1> DEFINE job == req[r].job
           served(q) == [req[q] EXCEPT !.pc = "served"]
<1>1. /\ req[r].pc = "landing" /\ conf.cache /\ job \in Jobs /\ conf' = conf
      /\ NoRequest \notin Requests /\ flight \in [Jobs -> Requests \cup {NoRequest}]
  BY AIServiceAssumption DEF FlightInv, RequestInv, RequestsTyped, Lawful, Land
<1>2. flight[job] = r /\ \A j \in Jobs : flight[j] = r => j = job
  BY <1>1 DEF FlightInv, FlightSound
<1>3. ASSUME NEW q \in Requests, req[q].pc = "waiting"
      PROVE  served(q) \in RequestState /\ Lawful(served(q), conf) /\ served(q).pc = "served"
  <2>1. req[q] \in RequestState /\ Lawful(req[q], conf)
    BY DEF FlightInv, RequestInv, RequestsTyped
  <2> DEFINE x == served(q)
  <2>2. /\ x \in RequestState /\ x.pc = "served" /\ x.job = req[q].job
        /\ x.attempt = req[q].attempt /\ x.blamed = req[q].blamed
    BY <2>1 DEF RequestState
  <2> HIDE DEF x
  <2>3. Lawful(x, conf)
    BY <1>1, <1>3, <2>1, <2>2 DEF Lawful
  <2> QED BY <2>2, <2>3 DEF x
<1>4. /\ req' = [q \in Requests |-> IF q = r THEN Idle
                   ELSE IF req[q].pc = "waiting" /\ req[q].job = job THEN served(q) ELSE req[q]]
      /\ flight' = [flight EXCEPT ![job] = NoRequest]
  BY DEF Land
<1> HIDE DEF served
<1>5. ASSUME NEW q \in Requests
      PROVE  \/ q = r /\ req'[q] = Idle
             \/ q # r /\ req[q].pc = "waiting" /\ req[q].job = job /\ req'[q] = served(q)
             \/ q # r /\ ~(req[q].pc = "waiting" /\ req[q].job = job) /\ req'[q] = req[q]
  BY <1>4
<1>6. RequestInv'
  <2>1. \A q \in Requests : req'[q] \in RequestState /\ Lawful(req'[q], conf)
    BY <1>3, <1>5, IdleLawful DEF FlightInv, RequestInv, RequestsTyped
  <2>2. req' \in [Requests -> RequestState]
    BY <1>4, <2>1
  <2> QED BY <1>1, <2>1, <2>2 DEF RequestInv, RequestsTyped
<1>7. /\ flight' \in [Jobs -> Requests \cup {NoRequest}]
      /\ flight'[job] = NoRequest /\ \A j \in Jobs \ {job} : flight'[j] = flight[j]
  BY <1>1, <1>4
<1>8. FlightSound'
  <2>1. \A q \in Requests : req'[q].pc \in {"calling", "landing"} <=>
                             q # r /\ req[q].pc \in {"calling", "landing"}
    <3> SUFFICES ASSUME NEW q \in Requests
                 PROVE  req'[q].pc \in {"calling", "landing"} <=>
                          q # r /\ req[q].pc \in {"calling", "landing"}
      OBVIOUS
    <3>1. Idle.pc = "idle"
      BY DEF Idle
    <3>2. CASE q = r
      BY <1>5, <3>1, <3>2
    <3>3. CASE q # r /\ req[q].pc = "waiting" /\ req[q].job = job
      BY <1>3, <1>5, <3>3
    <3>4. CASE q # r /\ ~(req[q].pc = "waiting" /\ req[q].job = job)
      BY <1>5, <3>4
    <3> QED BY <3>2, <3>3, <3>4
  <2>2. \A q \in Requests : (\E j \in Jobs : flight'[j] = q) <=> q # r /\ \E j \in Jobs : flight[j] = q
    BY <1>1, <1>2, <1>7
  <2>3. \A j \in Jobs : flight'[j] # NoRequest => req'[flight'[j]].job = j
    <3> SUFFICES ASSUME NEW j \in Jobs, flight'[j] # NoRequest PROVE req'[flight'[j]].job = j
      OBVIOUS
    <3>1. j # job /\ flight'[j] = flight[j] /\ flight[j] \in Requests /\ flight[j] # r
      BY <1>1, <1>2, <1>7
    <3>2. req[flight[j]].job = j
      BY <1>1, <3>1 DEF FlightInv, FlightSound
    <3> QED BY <1>5, <3>1, <3>2
  <2>4. \A q \in Requests : req'[q].pc = "waiting" =>
           req'[q] = req[q] /\ req[q].pc = "waiting" /\ req[q].job # job /\ req[q].job \in Jobs
    BY <1>3, <1>5 DEF Idle, FlightInv, RequestInv, Lawful
  <2>5. \A q \in Requests : req'[q].pc = "waiting" => flight'[req'[q].job] # NoRequest
    BY <1>1, <1>7, <2>4 DEF FlightInv, FlightSound
  <2> QED BY <1>1, <2>1, <2>2, <2>3, <2>5 DEF FlightInv, FlightSound
<1> QED BY <1>6, <1>7, <1>8 DEF FlightInv

(* Steps that touch neither requests nor flights. *)
LEMMA FlightElsewhere ==
  ASSUME FlightInv, UNCHANGED <<conf, req, flight>>
  PROVE  FlightInv'
<1>1. RequestInv'
  BY DEF FlightInv, RequestInv, RequestsTyped
<1>2. FlightSound'
  BY DEF FlightInv, FlightSound
<1> QED BY <1>1, <1>2 DEF FlightInv

LEMMA FlightStep == FlightInv /\ [Next]_vars => FlightInv'
<1> SUFFICES ASSUME FlightInv, [Next]_vars PROVE FlightInv'
  OBVIOUS
<1>1. ASSUME NEW r \in Requests, NEW job \in Jobs, Submit(r, job)
      PROVE  FlightInv'
  <2>1. PICK x : StepsTo(r, x) /\ x.pc = IF conf.cache THEN "lookup" ELSE "calling"
    BY <1>1, SubmitForm
  <2>2. UNCHANGED <<conf, flight>> /\ req[r].pc = "idle"
    BY <1>1 DEF Submit, Arrived
  <2>3. conf.cache => ~Busy(x) /\ ~Busy(req[r]) /\ x.pc # "waiting"
    BY <2>1, <2>2 DEF Busy
  <2> QED BY <2>1, <2>2, <2>3, FlightKept
<1>2. ASSUME NEW r \in Requests, Lookup(r)
      PROVE  FlightInv'
  <2>1. /\ UNCHANGED <<conf, flight>> /\ req[r].pc = "lookup"
        /\ \/ req' = [req EXCEPT ![r] = Idle]
           \/ req' = [req EXCEPT ![r].pc = "keyed"]
    BY <1>2 DEF Lookup
  <2>2. RequestInv /\ conf.cache
    BY <2>1 DEF FlightInv, RequestInv, Lawful
  <2>3. CASE req' = [req EXCEPT ![r] = Idle]
    <3>1. StepsTo(r, Idle)
      BY <2>3, IdleLawful DEF StepsTo
    <3> QED BY <2>1, <3>1, FlightKept DEF Busy, Idle
  <2>4. CASE req' = [req EXCEPT ![r].pc = "keyed"]
    <3>1. PICK x : StepsTo(r, x) /\ x.pc = "keyed"
      BY <2>1, <2>2, <2>4, MoveForm
    <3> QED BY <2>1, <3>1, FlightKept DEF Busy
  <2> QED BY <2>1, <2>3, <2>4
<1>3. ASSUME NEW r \in Requests, WorkerSucceeds(r)
      PROVE  FlightInv'
  <2>1. PICK x : /\ StepsTo(r, x)
                 /\ IF conf.cache THEN x.pc = "landing" /\ x.job = req[r].job ELSE x = Idle
    BY <1>3, SucceedForm DEF FlightInv
  <2>2. UNCHANGED <<conf, flight>> /\ req[r].pc = "calling"
    BY <1>3 DEF WorkerSucceeds
  <2> QED BY <2>1, <2>2, FlightKept DEF Busy
<1>4. ASSUME NEW r \in Requests, NEW code, WorkerFails(r, code)
      PROVE  FlightInv'
  <2>1. PICK x : StepsTo(r, x) /\ (conf.cache => x.pc = "landing" /\ x.job = req[r].job)
    BY <1>4, FailForm DEF FlightInv
  <2>2. UNCHANGED <<conf, flight>> /\ req[r].pc = "calling"
    BY <1>4 DEF WorkerFails
  <2> QED BY <2>1, <2>2, FlightKept DEF Busy
<1>5. ASSUME NEW r \in Requests, DeadlinePasses(r) \/ Retry(r)
      PROVE  FlightInv'
  <2>1. req[r] \in RequestState /\ Lawful(req[r], conf) /\ UNCHANGED <<conf, flight>>
    BY <1>5 DEF FlightInv, RequestInv, RequestsTyped, DeadlinePasses, Retry
  <2>2. CASE DeadlinePasses(r)
    <3> DEFINE x == [req[r] EXCEPT !.expired = TRUE]
    <3>1. x \in RequestState /\ req' = [req EXCEPT ![r] = x]
      BY <2>1, <2>2 DEF RequestState, DeadlinePasses
    <3>2. /\ x.pc = req[r].pc /\ x.job = req[r].job /\ x.attempt = req[r].attempt
          /\ x.blamed = req[r].blamed /\ req[r].pc \in {"calling", "backoff"}
      BY <2>1, <2>2 DEF RequestState, DeadlinePasses
    <3> HIDE DEF x
    <3>3. StepsTo(r, x)
      BY <2>1, <3>1, <3>2 DEF StepsTo, Lawful
    <3> QED BY <2>1, <3>2, <3>3, FlightKept DEF Busy
  <2>3. CASE Retry(r)
    <3> DEFINE x == [req[r] EXCEPT !.pc = "calling", !.attempt = req[r].attempt + 1]
    <3>1. req' = [req EXCEPT ![r] = x] /\ req[r].pc = "backoff"
      BY <2>3 DEF Retry
    <3>2. req[r].attempt + 1 \in 0..RetryMaxAttempts /\ ~conf.cache /\ conf.retry /\ req[r].blamed
      BY <2>1, <3>1, AIServiceAssumption DEF RequestState, Lawful
    <3>3. /\ x \in RequestState /\ x.pc = "calling" /\ x.job = req[r].job
          /\ x.blamed = req[r].blamed
      BY <2>1, <3>2 DEF RequestState
    <3> HIDE DEF x
    <3>4. StepsTo(r, x)
      BY <2>1, <3>1, <3>2, <3>3 DEF StepsTo, Lawful
    <3> QED BY <2>1, <3>2, <3>4, FlightKept
  <2> QED BY <1>5, <2>2, <2>3
<1>6. ASSUME NEW r \in Requests, AbandonRetry(r) \/ Collect(r)
      PROVE  FlightInv'
  <2>1. StepsTo(r, Idle) /\ UNCHANGED <<conf, flight>> /\ req[r].pc \in {"backoff", "served"}
    BY <1>6, IdleLawful DEF StepsTo, AbandonRetry, Collect
  <2> QED BY <2>1, FlightKept DEF Busy, Idle
<1>7. CASE UNCHANGED <<conf, req, flight>>
  BY <1>7, FlightElsewhere
<1>8. \/ UNCHANGED <<conf, req, flight>>
      \/ \E r \in Requests, job \in Jobs : Submit(r, job)
      \/ \E r \in Requests : Progress(r) \/ DeadlinePasses(r)
  BY DEF Next, RequestNext, Environment, Refuse, CacheWrite, CacheExpires, TimerExpires, HealthCheck, vars
<1>9. CASE \E r \in Requests : Progress(r) \/ DeadlinePasses(r)
  BY <1>2, <1>3, <1>4, <1>5, <1>6, <1>9, FlightJoined, FlightLanded DEF Progress
<1> QED BY <1>1, <1>7, <1>8, <1>9

LEMMA FlightInit == Init => FlightInv
<1> SUFFICES ASSUME Init PROVE FlightInv
  OBVIOUS
<1>1. RequestInv
  BY IdleLawful DEF Init, RequestInv, RequestsTyped
<1>2. NoRequest \notin Requests
  BY AIServiceAssumption
<1> QED BY <1>1, <1>2 DEF Init, FlightInv, FlightSound, Idle

-----------------------------------------------------------------------------
(* The singleflight group never loses a waiter and never lets two requests *)
(* compute the same job.                                                   *)
THEOREM FlightsAreSound == Spec => []FlightSound
<1>1. FlightInv => FlightSound
  BY DEF FlightInv
<1> QED BY <1>1, FlightInit, FlightStep, PTL DEF Spec

(* Whatever the worker answers and the deadlines do, a request that calls  *)
(* again has been charged to the breaker, and stops in time.               *)
THEOREM RetriesAreAccounted == Spec => []RetriesAreCharged
<1>1. FlightInv => RetriesAreCharged
  <2> SUFFICES ASSUME FlightInv, NEW r \in Requests, req[r].attempt > 0
               PROVE  req[r].blamed /\ conf.retry /\ ~conf.cache /\ req[r].attempt <= RetryMaxAttempts
    BY DEF RetriesAreCharged
  <2>1. req[r] \in RequestState /\ Lawful(req[r], conf)
    BY DEF FlightInv, RequestInv, RequestsTyped
  <2>2. req[r].attempt \in 0..RetryMaxAttempts
    BY <2>1 DEF RequestState
  <2> QED BY <2>1, <2>2, AIServiceAssumption DEF Lawful
<1> QED BY <1>1, FlightInit, FlightStep, PTL DEF Spec

-----------------------------------------------------------------------------
(* A breaker that nothing was charged to. *)
Unharmed == [state : {"CLOSED"}, failures : {0}, trials : {0}, elapsed : BOOLEAN]

OnlyBadInput == conf.codes \subseteq {"OK", "InvalidArgument"} /\ "UNHEALTHY" \notin conf.checks

HarmlessInv == FlightInv /\ (OnlyBadInput => cbs \in [Workers -> Unharmed])

LEMMA UnharmedStays ==
  ASSUME NEW b \in Unharmed
  PROVE  /\ Allow(b) \in Unharmed /\ RecordSuccess(b) \in Unharmed /\ ResetElapses(b) \in Unharmed
         /\ \A s : s # "UNHEALTHY" => UpdateCircuitBreaker(b, s) \in Unharmed
BY DEF Unharmed, Allow, RecordSuccess, ResetElapses, UpdateCircuitBreaker

LEMMA HarmlessStep == HarmlessInv /\ [Next]_vars => HarmlessInv'
<1> SUFFICES ASSUME HarmlessInv, [Next]_vars PROVE HarmlessInv'
  OBVIOUS
<1>1. FlightInv /\ FlightInv' /\ conf' = conf
  <2>1. conf' = conf
    BY DEF Next, RequestNext, Environment, Progress, Submit, Arrived, Refuse, Lookup, JoinFlight, Land, Collect,
           WorkerSucceeds, WorkerFails, Retry, AbandonRetry, DeadlinePasses, CacheWrite, CacheExpires,
           TimerExpires, HealthCheck, vars
  <2> QED BY <2>1, FlightStep DEF HarmlessInv
<1>2. SUFFICES ASSUME OnlyBadInput, cbs \in [Workers -> Unharmed]
               PROVE  cbs' \in [Workers -> Unharmed]
  BY <1>1 DEF HarmlessInv, OnlyBadInput
<1>3. ASSUME NEW r \in Requests, NEW code \in conf.codes, WorkerFails(r, code)
      PROVE  cbs' = cbs
  <2>1. code = "InvalidArgument"
    BY <1>2, <1>3 DEF OnlyBadInput, WorkerFails
  <2>2. HandleError(code) = "ErrAIInvalidArgument"
    BY <2>1 DEF HandleError
  <2>3. ~Charged(r, HandleError(code))
    BY <2>2 DEF Charged
  <2> QED BY <1>3, <2>3 DEF WorkerFails
<1>4. ASSUME NEW r \in Requests, WorkerSucceeds(r)
      PROVE  cbs' \in [Workers -> Unharmed]
  <2>1. cbs' = [cbs EXCEPT ![Worker(r)] = RecordSuccess(@)] /\ Worker(r) \in Workers
    BY <1>1, <1>4 DEF WorkerSucceeds, Worker, FlightInv, RequestInv, Lawful, Jobs
  <2> QED BY <1>2, <2>1, UnharmedStays
<1>5. ASSUME NEW r \in Requests, NEW job \in Jobs, Submit(r, job)
      PROVE  cbs' \in [Workers -> Unharmed]
  BY <1>2, <1>5, UnharmedStays DEF Submit, Jobs
<1>6. ASSUME NEW w \in Workers, NEW status \in conf.checks, HealthCheck(w, status)
      PROVE  cbs' \in [Workers -> Unharmed]
  BY <1>2, <1>6, UnharmedStays DEF HealthCheck, OnlyBadInput
<1>7. ASSUME NEW w \in Workers, TimerExpires(w)
      PROVE  cbs' \in [Workers -> Unharmed]
  BY <1>2, <1>7, UnharmedStays DEF TimerExpires
<1>8. \/ cbs' = cbs
      \/ \E r \in Requests, job \in Jobs : Submit(r, job)
      \/ \E r \in Requests : WorkerSucceeds(r) \/ \E code \in conf.codes : WorkerFails(r, code)
      \/ \E w \in Workers, status \in conf.checks : HealthCheck(w, status)
      \/ \E w \in Workers : TimerExpires(w)
  BY DEF Next, RequestNext, Environment, Progress, Refuse, Lookup, JoinFlight, Land, Collect,
         Retry, AbandonRetry, DeadlinePasses, CacheWrite, CacheExpires, Goto, vars
<1> QED BY <1>2, <1>3, <1>4, <1>5, <1>6, <1>7, <1>8

(* However many requests carry bad input, and however often they retry,    *)
(* no breaker counts a failure.                                            *)
THEOREM BadInputNeverHarms == Spec => []BadInputIsHarmless
<1>1. Init => HarmlessInv
  BY FlightInit DEF Init, HarmlessInv, Unharmed, NewCircuitBreaker
<1>2. HarmlessInv => BadInputIsHarmless
  BY DEF HarmlessInv, OnlyBadInput, Unharmed, BadInputIsHarmless
<1> QED BY <1>1, <1>2, HarmlessStep, PTL DEF Spec

-----------------------------------------------------------------------------
(* The request path implements CircuitBreaker for every breaker.           *)

BreakersThere == cbs = [w \in Workers |-> cbs[w]] /\ conf \in Configurations
PathInv == FlightInv /\ BreakersThere

BreakerStep(w) == [Breaker(w)!Next]_(Breaker(w)!vars)

(* What a step of request r from phase p to phase q may do to a breaker.   *)
MayAct(b, c, p, q) ==
  \/ c = b /\ q \in {p, "idle"}
  \/ p = "idle" /\ q = "admitted" /\ Allows(b) /\ c = Allow(b)
  \/ p = "admitted" /\ q \in {"idle", "blamed"} /\ c = RecordFailure(b)
  \/ p # "idle" /\ q = "idle" /\ c = RecordSuccess(b)

LEMMA RequestActs ==
  ASSUME NEW w \in Workers, NEW r \in Requests, NEW q,
         PhaseOf(w)' = [PhaseOf(w) EXCEPT ![r] = q],
         MayAct(cbs[w], cbs'[w], PhaseOf(w)[r], q)
  PROVE  BreakerStep(w)
<1> USE DEF BreakerStep, Breaker!Next, Breaker!vars
<1>1. CASE cbs'[w] = cbs[w] /\ q = PhaseOf(w)[r]
  <2>1. PhaseOf(w)' = PhaseOf(w)
    BY <1>1 DEF PhaseOf
  <2> QED BY <1>1, <2>1
<1>2. CASE cbs'[w] = cbs[w] /\ q = "idle" /\ PhaseOf(w)[r] # "idle"
  BY <1>2 DEF Breaker!Finish
<1>3. CASE /\ PhaseOf(w)[r] = "idle" /\ q = "admitted" /\ Allows(cbs[w])
           /\ cbs'[w] = Allow(cbs[w])
  BY <1>3 DEF Breaker!Admit, Breaker!Allows, Breaker!Allow, Allows, Allow
<1>4. CASE /\ PhaseOf(w)[r] = "admitted" /\ q \in {"idle", "blamed"}
           /\ cbs'[w] = RecordFailure(cbs[w])
  BY <1>4 DEF Breaker!Fail, Breaker!RecordFailure, RecordFailure
<1>5. CASE PhaseOf(w)[r] # "idle" /\ q = "idle" /\ cbs'[w] = RecordSuccess(cbs[w])
  BY <1>5 DEF Breaker!Succeed, Breaker!RecordSuccess, RecordSuccess
<1> QED BY <1>1, <1>2, <1>3, <1>4, <1>5 DEF MayAct

(* Nothing happens to the requests: a health check, the clock, or nothing. *)
LEMMA OthersAct ==
  ASSUME NEW w \in Workers, req' = req,
         \/ cbs'[w] = cbs[w]
         \/ \E status \in WorkerStatus : cbs'[w] = UpdateCircuitBreaker(cbs[w], status)
         \/ ~cbs[w].elapsed /\ cbs'[w] = ResetElapses(cbs[w])
  PROVE  BreakerStep(w)
<1> USE DEF BreakerStep, Breaker!Next, Breaker!vars
<1>1. PhaseOf(w)' = PhaseOf(w)
  BY DEF PhaseOf
<1>2. CASE cbs'[w] = cbs[w]
  BY <1>1, <1>2
<1>3. CASE \E status \in WorkerStatus : cbs'[w] = UpdateCircuitBreaker(cbs[w], status)
  BY <1>1, <1>3 DEF Breaker!HealthCheck, Breaker!UpdateCircuitBreaker, UpdateCircuitBreaker,
                    Breaker!RecordFailure, RecordFailure, Breaker!WorkerStatus, WorkerStatus
<1>4. CASE ~cbs[w].elapsed /\ cbs'[w] = ResetElapses(cbs[w])
  BY <1>1, <1>4 DEF Breaker!TimerExpires, Breaker!ResetElapses, ResetElapses
<1> QED BY <1>2, <1>3, <1>4

LEMMA PhaseStep ==
  ASSUME RequestInv, NEW r \in Requests, NEW x, StepsTo(r, x), NEW w \in Workers
  PROVE  /\ PhaseOf(w)[r] = Phase(req[r], w)
         /\ PhaseOf(w)' = [PhaseOf(w) EXCEPT ![r] = Phase(x, w)]
<1>1. req'[r] = x /\ \A q \in Requests \ {r} : req'[q] = req[q]
  BY ReqUpdated DEF RequestInv, StepsTo
<1>2. PhaseOf(w)' = [q \in Requests |-> Phase(req'[q], w)]
  BY DEF PhaseOf, Phase
<1>3. \A q \in Requests : Phase(req'[q], w) = IF q = r THEN Phase(x, w) ELSE Phase(req[q], w)
  BY <1>1
<1>4. [PhaseOf(w) EXCEPT ![r] = Phase(x, w)]
        = [q \in Requests |-> IF q = r THEN Phase(x, w) ELSE Phase(req[q], w)]
  BY DEF PhaseOf
<1> QED BY <1>2, <1>3, <1>4 DEF PhaseOf

LEMMA IdlePhase ==
  ASSUME NEW q \in RequestState, q.job \in Jobs <=> q.pc # "idle", q.pc = "idle", NEW w \in Workers
  PROVE  Phase(q, w) = "idle"
<1>1. q.job = NoJob
  BY DEF RequestState
<1>2. NoJob.worker # w
  BY NamesAssumption DEF NoJob
<1> QED BY <1>1, <1>2 DEF Phase

LEMMA IdleIsIdle == \A w \in Workers : Phase(Idle, w) = "idle"
BY IdleLawful, IdlePhase DEF Lawful, Idle

(* Each kind of step of a request, towards every breaker. *)
LEMMA ActsOnBreakers ==
  ASSUME PathInv, NEW r \in Requests, NEW x, StepsTo(r, x), NEW w \in Workers,
         \/ /\ cbs' = cbs
            /\ \/ x.job = req[r].job /\ x.blamed = req[r].blamed /\ req[r].pc # "landing"
               \/ x = Idle
         \/ /\ req[r].pc = "idle" /\ x.pc # "landing" /\ ~x.blamed /\ Allows(cbs[x.job.worker])
            /\ cbs' = [cbs EXCEPT ![x.job.worker] = Allow(@)]
         \/ /\ req[r].pc = "calling" /\ ~req[r].blamed
            /\ x = Idle \/ (x.job = req[r].job /\ x.blamed)
            /\ cbs' = [cbs EXCEPT ![Worker(r)] = RecordFailure(@)]
         \/ /\ req[r].pc = "calling"
            /\ x = Idle \/ (x.job = req[r].job /\ x.pc = "landing" /\ ~x.blamed)
            /\ cbs' = [cbs EXCEPT ![Worker(r)] = RecordSuccess(@)]
  PROVE  BreakerStep(w)
<1> DEFINE p == Phase(req[r], w)
           q == Phase(x, w)
<1>1. /\ RequestInv /\ req[r] \in RequestState /\ (req[r].job \in Jobs <=> req[r].pc # "idle")
      /\ DOMAIN cbs = Workers
  BY DEF PathInv, FlightInv, RequestInv, RequestsTyped, Lawful, BreakersThere
<1>2. q = "idle" \/ x # Idle
  BY IdleIsIdle
<1>3. req[r].pc = "idle" => p = "idle"
  BY <1>1, IdlePhase
<1>4. MayAct(cbs[w], cbs'[w], p, q)
  <2>1. CASE /\ cbs' = cbs
             /\ \/ x.job = req[r].job /\ x.blamed = req[r].blamed /\ req[r].pc # "landing"
                \/ x = Idle
    <3>1. x.job = req[r].job /\ x.blamed = req[r].blamed /\ req[r].pc # "landing" => q \in {p, "idle"}
      BY DEF Phase
    <3> QED BY <1>2, <2>1, <3>1 DEF MayAct
  <2>2. CASE /\ req[r].pc = "idle" /\ x.pc # "landing" /\ ~x.blamed /\ Allows(cbs[x.job.worker])
             /\ cbs' = [cbs EXCEPT ![x.job.worker] = Allow(@)]
    <3>1. CASE x.job.worker = w
      <4>1. q = "admitted" /\ cbs'[w] = Allow(cbs[w]) /\ Allows(cbs[w])
        BY <1>1, <2>2, <3>1 DEF Phase
      <4> QED BY <1>3, <2>2, <4>1 DEF MayAct
    <3>2. CASE x.job.worker # w
      <4>1. q = "idle" /\ cbs'[w] = cbs[w]
        BY <1>1, <2>2, <3>2 DEF Phase
      <4> QED BY <4>1 DEF MayAct
    <3> QED BY <3>1, <3>2
  <2>3. CASE /\ req[r].pc = "calling" /\ ~req[r].blamed
             /\ x = Idle \/ (x.job = req[r].job /\ x.blamed)
             /\ cbs' = [cbs EXCEPT ![Worker(r)] = RecordFailure(@)]
    <3>1. CASE Worker(r) = w
      <4>1. p = "admitted" /\ cbs'[w] = RecordFailure(cbs[w])
        BY <1>1, <2>3, <3>1 DEF Phase, Worker
      <4>2. x.job = req[r].job /\ x.blamed => q = "blamed"
        BY <3>1 DEF Phase, Worker
      <4>3. q \in {"idle", "blamed"}
        BY <1>2, <2>3, <4>2
      <4> HIDE DEF p, q
      <4> QED BY <4>1, <4>3 DEF MayAct
    <3>2. CASE Worker(r) # w
      <4>1. cbs'[w] = cbs[w]
        BY <1>1, <2>3, <3>2
      <4>2. x.job = req[r].job => q = "idle"
        BY <3>2 DEF Phase, Worker
      <4> QED BY <1>2, <2>3, <4>1, <4>2 DEF MayAct
    <3> QED BY <3>1, <3>2
  <2>4. CASE /\ req[r].pc = "calling"
             /\ x = Idle \/ (x.job = req[r].job /\ x.pc = "landing" /\ ~x.blamed)
             /\ cbs' = [cbs EXCEPT ![Worker(r)] = RecordSuccess(@)]
    <3>1. q = "idle"
      BY <1>2, <2>4 DEF Phase
    <3>2. CASE Worker(r) = w
      <4>1. p # "idle" /\ cbs'[w] = RecordSuccess(cbs[w])
        BY <1>1, <2>4, <3>2 DEF Phase, Worker
      <4> QED BY <3>1, <4>1 DEF MayAct
    <3>3. CASE Worker(r) # w
      <4>1. cbs'[w] = cbs[w]
        BY <1>1, <2>4, <3>3
      <4> QED BY <3>1, <4>1 DEF MayAct
    <3> QED BY <3>2, <3>3
  <2> QED BY <2>1, <2>2, <2>3, <2>4
<1> QED BY <1>1, <1>4, PhaseStep, RequestActs

LEMMA DisciplineStep ==
  ASSUME PathInv, [Next]_vars, conf.breaker, NEW w \in Workers
  PROVE  BreakerStep(w)
<1>1. RequestInv /\ DOMAIN cbs = Workers /\ conf \in Configuration
  BY AIServiceAssumption DEF PathInv, FlightInv, BreakersThere
<1>2. ASSUME NEW r \in Requests, NEW job \in Jobs, Submit(r, job)
      PROVE  BreakerStep(w)
  <2>1. PICK x : /\ StepsTo(r, x) /\ x.job = job /\ ~x.blamed
                 /\ x.pc = IF conf.cache THEN "lookup" ELSE "calling"
    BY <1>2, SubmitForm
  <2>2. /\ req[r].pc = "idle" /\ Allows(cbs[job.worker])
        /\ cbs' = [cbs EXCEPT ![job.worker] = Allow(@)]
    BY <1>2 DEF Submit, IsWorkerAvailable
  <2>3. x.pc # "landing"
    BY <2>1
  <2> QED BY <2>1, <2>2, <2>3, ActsOnBreakers
<1>3. ASSUME NEW r \in Requests, Lookup(r) \/ JoinFlight(r)
      PROVE  BreakerStep(w)
  <2>1. cbs' = cbs /\ req[r].pc \in {"lookup", "keyed"}
    BY <1>3 DEF Lookup, JoinFlight
  <2>2. conf.cache
    BY <1>1, <2>1 DEF RequestInv, Lawful
  <2>3. \/ req' = [req EXCEPT ![r] = Idle]
        \/ \E pc \in {"keyed", "waiting", "calling"} : req' = [req EXCEPT ![r].pc = pc]
    BY <1>3 DEF Lookup, JoinFlight, Goto
  <2>4. CASE req' = [req EXCEPT ![r] = Idle]
    <3>1. StepsTo(r, Idle)
      BY <2>4, IdleLawful DEF StepsTo
    <3> QED BY <2>1, <3>1, ActsOnBreakers
  <2>5. ASSUME NEW pc \in {"keyed", "waiting", "calling"}, req' = [req EXCEPT ![r].pc = pc]
        PROVE  BreakerStep(w)
    <3>1. PICK x : StepsTo(r, x) /\ x.job = req[r].job /\ x.blamed = req[r].blamed
      BY <1>1, <2>1, <2>2, <2>5, MoveForm
    <3> QED BY <2>1, <3>1, ActsOnBreakers
  <2> QED BY <2>3, <2>4, <2>5
<1>4. ASSUME NEW r \in Requests, WorkerSucceeds(r)
      PROVE  BreakerStep(w)
  <2>1. PICK x : /\ StepsTo(r, x)
                 /\ x = Idle \/ (x.pc = "landing" /\ x.job = req[r].job /\ ~x.blamed)
    BY <1>1, <1>4, SucceedForm
  <2>2. req[r].pc = "calling" /\ cbs' = [cbs EXCEPT ![Worker(r)] = RecordSuccess(@)]
    BY <1>4 DEF WorkerSucceeds
  <2> QED BY <2>1, <2>2, ActsOnBreakers
<1>5. ASSUME NEW r \in Requests, NEW code, WorkerFails(r, code)
      PROVE  BreakerStep(w)
  <2> DEFINE charged == Charged(r, HandleError(code))
  <2>1. PICK x : /\ StepsTo(r, x)
                 /\ \/ x = Idle
                    \/ x.job = req[r].job /\ x.blamed = (req[r].blamed \/ charged)
    BY <1>1, <1>5, FailForm
  <2>2. /\ req[r].pc = "calling" /\ (charged => ~req[r].blamed)
        /\ IF charged THEN cbs' = [cbs EXCEPT ![Worker(r)] = RecordFailure(@)] ELSE cbs' = cbs
    BY <1>5 DEF WorkerFails, Charged
  <2>3. req[r].blamed \in BOOLEAN
    BY <1>1 DEF RequestInv, RequestsTyped, RequestState
  <2> HIDE DEF charged
  <2>4. CASE charged
    BY <2>1, <2>2, <2>4, ActsOnBreakers
  <2>5. CASE ~charged
    <3>1. x = Idle \/ (x.job = req[r].job /\ x.blamed = req[r].blamed)
      BY <2>1, <2>3, <2>5
    <3> QED BY <2>1, <2>2, <2>5, <3>1, ActsOnBreakers
  <2> QED BY <2>4, <2>5
<1>6. ASSUME NEW r \in Requests, AbandonRetry(r) \/ Collect(r)
      PROVE  BreakerStep(w)
  <2>1. StepsTo(r, Idle) /\ cbs' = cbs
    BY <1>6, IdleLawful DEF StepsTo, AbandonRetry, Collect
  <2> QED BY <2>1, ActsOnBreakers
<1>7. ASSUME NEW r \in Requests, Land(r)
      PROVE  BreakerStep(w)
  <2>1. ASSUME NEW q \in Requests \ {r}
        PROVE  Phase(req'[q], w) = Phase(req[q], w)
    <3>1. req'[q] = req[q] \/ (req[q].pc = "waiting" /\ req'[q] = [req[q] EXCEPT !.pc = "served"])
      BY <1>7 DEF Land
    <3>2. CASE req[q].pc = "waiting" /\ req'[q] = [req[q] EXCEPT !.pc = "served"]
      <4>1. req[q] \in RequestState
        BY <1>1 DEF RequestInv, RequestsTyped
      <4>2. /\ req'[q].pc = "served" /\ req'[q].job = req[q].job /\ req'[q].blamed = req[q].blamed
        BY <3>2, <4>1 DEF RequestState
      <4> QED BY <3>2, <4>2 DEF Phase
    <3> QED BY <3>1, <3>2
  <2>2. req'[r] = Idle /\ cbs' = cbs
    BY <1>7 DEF Land
  <2>3. PhaseOf(w)' = [q \in Requests |-> Phase(req'[q], w)]
    BY DEF PhaseOf, Phase
  <2>4. PhaseOf(w)' = [PhaseOf(w) EXCEPT ![r] = "idle"]
    BY <2>1, <2>2, <2>3, IdleIsIdle DEF PhaseOf
  <2>5. MayAct(cbs[w], cbs'[w], PhaseOf(w)[r], "idle")
    BY <2>2 DEF MayAct
  <2> QED BY <2>4, <2>5, RequestActs
<1>8. ASSUME NEW r \in Requests, DeadlinePasses(r) \/ Retry(r)
      PROVE  BreakerStep(w)
  <2>1. PICK x \in RequestState : /\ req' = [req EXCEPT ![r] = x]
                                  /\ x.job = req[r].job /\ x.blamed = req[r].blamed
                                  /\ x.pc \in {"calling", "backoff"}
    <3>1. req[r] \in RequestState /\ Lawful(req[r], conf)
      BY <1>1 DEF RequestInv, RequestsTyped
    <3>2. CASE DeadlinePasses(r)
      <4> DEFINE x == [req[r] EXCEPT !.expired = TRUE]
      <4>1. x \in RequestState /\ x.job = req[r].job /\ x.blamed = req[r].blamed /\ x.pc = req[r].pc
        BY <3>1 DEF RequestState
      <4>2. req' = [req EXCEPT ![r] = x] /\ req[r].pc \in {"calling", "backoff"}
        BY <3>2 DEF DeadlinePasses
      <4> HIDE DEF x
      <4> QED BY <4>1, <4>2
    <3>3. CASE Retry(r)
      <4> DEFINE x == [req[r] EXCEPT !.pc = "calling", !.attempt = req[r].attempt + 1]
      <4>1. req' = [req EXCEPT ![r] = x] /\ req[r].pc = "backoff"
        BY <3>3 DEF Retry
      <4>2. req[r].attempt + 1 \in 0..RetryMaxAttempts
        BY <3>1, <4>1, AIServiceAssumption DEF RequestState, Lawful
      <4>3. x \in RequestState /\ x.job = req[r].job /\ x.blamed = req[r].blamed /\ x.pc = "calling"
        BY <3>1, <4>2 DEF RequestState
      <4> HIDE DEF x
      <4> QED BY <4>1, <4>3
    <3> QED BY <1>8, <3>2, <3>3
  <2>2. cbs' = cbs /\ req[r].pc \in {"calling", "backoff"}
    BY <1>8 DEF DeadlinePasses, Retry
  <2>3. \A q \in Requests : req'[q] = IF q = r THEN x ELSE req[q]
    BY <1>1, <2>1 DEF RequestInv, RequestsTyped
  <2>4. \A q \in Requests : Phase(req'[q], w) = Phase(req[q], w)
    BY <2>1, <2>2, <2>3 DEF Phase
  <2>5. PhaseOf(w)' = [q \in Requests |-> Phase(req'[q], w)]
    BY DEF PhaseOf, Phase
  <2>6. PhaseOf(w)' = PhaseOf(w)
    BY <2>4, <2>5 DEF PhaseOf
  <2> QED BY <2>2, <2>6 DEF BreakerStep, Breaker!vars
<1>9. CASE req' = req /\ cbs' = cbs
  BY <1>9, OthersAct
<1>10. ASSUME NEW v \in Workers, NEW status \in conf.checks, HealthCheck(v, status)
       PROVE  BreakerStep(w)
  <2>1. status \in WorkerStatus
    BY <1>1 DEF Configuration
  <2>2. cbs'[w] = cbs[w] \/ cbs'[w] = UpdateCircuitBreaker(cbs[w], status)
    BY <1>1, <1>10 DEF HealthCheck
  <2> QED BY <1>10, <2>1, <2>2, OthersAct DEF HealthCheck
<1>11. ASSUME NEW v \in Workers, TimerExpires(v)
       PROVE  BreakerStep(w)
  <2>1. cbs'[w] = cbs[w] \/ (~cbs[w].elapsed /\ cbs'[w] = ResetElapses(cbs[w]))
    BY <1>1, <1>11 DEF TimerExpires
  <2> QED BY <1>11, <2>1, OthersAct DEF TimerExpires
<1>12. \/ req' = req /\ cbs' = cbs
       \/ \E r \in Requests, job \in Jobs : Submit(r, job)
       \/ \E r \in Requests : Progress(r) \/ DeadlinePasses(r)
       \/ \E v \in Workers, status \in conf.checks : HealthCheck(v, status)
       \/ \E v \in Workers : TimerExpires(v)
  BY DEF Next, RequestNext, Environment, Refuse, CacheWrite, CacheExpires, vars
<1>13. CASE \E r \in Requests : Progress(r) \/ DeadlinePasses(r)
  BY <1>3, <1>4, <1>5, <1>6, <1>7, <1>8, <1>13 DEF Progress
<1> QED BY <1>2, <1>9, <1>10, <1>11, <1>12, <1>13

LEMMA PathStep == PathInv /\ [Next]_vars => PathInv'
<1> SUFFICES ASSUME PathInv, [Next]_vars PROVE BreakersThere'
  BY FlightStep DEF PathInv
<1>1. conf' = conf
  BY DEF Next, RequestNext, Environment, Progress, Submit, Arrived, Refuse, Lookup, JoinFlight, Land, Collect,
         WorkerSucceeds, WorkerFails, Retry, AbandonRetry, DeadlinePasses, CacheWrite, CacheExpires,
         TimerExpires, HealthCheck, vars
<1>2. cbs' = cbs \/ \E w \in Workers : \E b : cbs' = [cbs EXCEPT ![w] = b]
  <2>1. \A r \in Requests : req[r].pc = "calling" => Worker(r) \in Workers
    BY DEF PathInv, FlightInv, RequestInv, Lawful, Jobs, Worker
  <2>2. \A job \in Jobs : job.worker \in Workers
    BY DEF Jobs
  <2> QED
    BY <2>1, <2>2
    DEF Next, RequestNext, Environment, Progress, Submit, Refuse, Lookup, JoinFlight, Land, Collect,
        WorkerSucceeds, WorkerFails, Retry, AbandonRetry, DeadlinePasses, CacheWrite, CacheExpires,
        TimerExpires, HealthCheck, vars
<1> QED BY <1>1, <1>2 DEF PathInv, BreakersThere

(* The request path implements CircuitBreaker: whatever the interleaving   *)
(* of requests, retries, shared calls, health checks and deadlines, every  *)
(* breaker sees only admissions, at most one failure per admission and     *)
(* records of admitted requests, so what is proved of CircuitBreaker's     *)
(* clients holds of it.                                                    *)
THEOREM RequestPathIsDisciplined == Spec => BreakerDiscipline
<1>1. Init => PathInv /\ \A w \in Workers : Breaker(w)!Init
  <2> SUFFICES ASSUME Init PROVE BreakersThere /\ \A w \in Workers : Breaker(w)!Init
    BY FlightInit DEF PathInv
  <2>1. \A w \in Workers : PhaseOf(w) = [r \in Requests |-> "idle"]
    BY IdleIsIdle DEF Init, PhaseOf
  <2> QED BY <2>1 DEF Init, BreakersThere, Breaker!Init, Breaker!NewCircuitBreaker, NewCircuitBreaker
<1>2. PathInv /\ [Next]_vars => (conf.breaker => \A w \in Workers : [Breaker(w)!Next]_(Breaker(w)!vars))
  BY DisciplineStep DEF BreakerStep
<1> QED BY <1>1, <1>2, PathStep, PTL DEF Spec, BreakerDiscipline

-----------------------------------------------------------------------------
(* The breakers themselves, under every interleaving of the requests.      *)

Sound(b) == /\ b \in CircuitBreaker
            /\ b.trials <= MaxTrials
            /\ b.state = "CLOSED" => b.trials = 0 /\ b.failures < MaxFailures
            /\ b.state = "OPEN" => b.trials = 0
            /\ b.state = "HALF_OPEN" => b.elapsed

BreakersSound == cbs \in [Workers -> CircuitBreaker] /\ \A w \in Workers : Sound(cbs[w])

LEMMA OperationsSound ==
  ASSUME NEW b, Sound(b)
  PROVE  /\ Allows(b) => Sound(Allow(b))
         /\ Sound(RecordSuccess(b)) /\ Sound(RecordFailure(b)) /\ Sound(ResetElapses(b))
         /\ \A status : Sound(UpdateCircuitBreaker(b, status))
<1>0. /\ b \in CircuitBreaker /\ b.state \in CBState /\ MaxFailures \in Nat \ {0} /\ MaxTrials \in Nat \ {0}
      /\ b.failures \in Nat /\ b.trials \in Nat
  BY BreakerConfigAssumption DEF Sound, CircuitBreaker
<1>5. ASSUME NEW c, c \in CircuitBreaker, c.trials <= MaxTrials,
             c.state = "CLOSED" => c.trials = 0 /\ c.failures < MaxFailures,
             c.state = "OPEN" => c.trials = 0, c.state = "HALF_OPEN" => c.elapsed
      PROVE  Sound(c)
  BY <1>5 DEF Sound
<1>1. Sound(RecordFailure(b))
  <2> DEFINE c == RecordFailure(b)
  <2>1. CASE b.state = "OPEN"
    BY <2>1 DEF RecordFailure
  <2>2. CASE b.state = "HALF_OPEN"
    <3>1. c = [b EXCEPT !.state = "OPEN", !.trials = 0, !.elapsed = FALSE]
      BY <2>2 DEF RecordFailure
    <3> HIDE DEF c
    <3>2. c \in CircuitBreaker /\ c.state = "OPEN" /\ c.trials = 0
      BY <1>0, <3>1 DEF CircuitBreaker, CBState
    <3>3. Sound(c)
      BY <1>0, <1>5, <3>2
    <3> QED BY <3>3 DEF c
  <2>3. CASE b.state = "CLOSED"
    <3> DEFINE s == IF b.failures + 1 >= MaxFailures THEN "OPEN" ELSE "CLOSED"
    <3>1. c = [b EXCEPT !.failures = b.failures + 1, !.elapsed = FALSE, !.state = s]
      BY <2>3 DEF RecordFailure
    <3>2. s \in CBState /\ (s = "CLOSED" => b.failures + 1 < MaxFailures) /\ s # "HALF_OPEN"
      BY <1>0 DEF CBState
    <3>3. b.trials = 0 /\ b.failures + 1 \in Nat
      BY <1>0, <2>3 DEF Sound
    <3> HIDE DEF s, c
    <3>4. c \in CircuitBreaker /\ c.state = s /\ c.trials = 0 /\ c.failures = b.failures + 1
      BY <1>0, <3>1, <3>2, <3>3 DEF CircuitBreaker
    <3> QED BY <1>0, <1>5, <3>2, <3>4 DEF c
  <2> QED BY <1>0, <2>1, <2>2, <2>3 DEF CBState
<1>2. Sound(RecordSuccess(b)) /\ Sound(ResetElapses(b))
  <2> DEFINE c == RecordSuccess(b)
             d == ResetElapses(b)
  <2>1. c \in CircuitBreaker /\ c.state = "CLOSED" /\ c.trials = 0 /\ c.failures = 0
    BY <1>0 DEF RecordSuccess, CircuitBreaker, CBState
  <2>2. /\ d \in CircuitBreaker /\ d.state = b.state /\ d.trials = b.trials /\ d.failures = b.failures
        /\ d.elapsed
    BY <1>0 DEF ResetElapses, CircuitBreaker
  <2> HIDE DEF c, d
  <2>3. Sound(c)
    BY <1>0, <1>5, <2>1
  <2>4. Sound(d)
    BY <1>0, <2>2 DEF Sound
  <2> QED BY <2>3, <2>4 DEF c, d
<1>3. ASSUME Allows(b) PROVE Sound(Allow(b))
  <2> DEFINE c == Allow(b)
  <2>1. CASE b.state = "CLOSED"
    BY <2>1 DEF Allow
  <2>2. CASE b.state = "OPEN"
    <3>1. c = [b EXCEPT !.state = "HALF_OPEN", !.trials = 0] /\ b.elapsed
      BY <1>3, <2>2 DEF Allow, Allows
    <3> HIDE DEF c
    <3>2. c \in CircuitBreaker /\ c.state = "HALF_OPEN" /\ c.trials = 0 /\ c.elapsed
      BY <1>0, <3>1 DEF CircuitBreaker, CBState
    <3>3. Sound(c)
      BY <1>0, <1>5, <3>2
    <3> QED BY <3>3 DEF c
  <2>3. CASE b.state = "HALF_OPEN"
    <3>1. c = [b EXCEPT !.trials = b.trials + 1] /\ b.trials < MaxTrials /\ b.elapsed
      BY <1>3, <2>3 DEF Allow, Allows, Sound
    <3> HIDE DEF c
    <3>2. c \in CircuitBreaker /\ c.state = "HALF_OPEN" /\ c.trials = b.trials + 1 /\ c.elapsed
      BY <1>0, <2>3, <3>1 DEF CircuitBreaker, CBState
    <3>3. b.trials + 1 <= MaxTrials
      BY <1>0, <3>1
    <3>4. Sound(c)
      BY <1>5, <3>2, <3>3
    <3> QED BY <3>4 DEF c
  <2> QED BY <1>0, <2>1, <2>2, <2>3 DEF CBState
<1> QED BY <1>1, <1>2, <1>3 DEF UpdateCircuitBreaker

(* What a step can do to a breaker, in whatever condition the process runs. *)
Moves(b, c) == \/ c = b
               \/ Allows(b) /\ c = Allow(b)
               \/ c = RecordSuccess(b)
               \/ c = RecordFailure(b)
               \/ c = ResetElapses(b)

LEMMA BreakerMoves ==
  ASSUME PathInv, cbs \in [Workers -> CircuitBreaker], [Next]_vars
  PROVE  /\ DOMAIN cbs' = Workers
         /\ \A w \in Workers : Moves(cbs[w], cbs'[w])
<1> DEFINE Goal == DOMAIN cbs' = Workers /\ \A w \in Workers : Moves(cbs[w], cbs'[w])
<1>1. ASSUME NEW w \in Workers, NEW b, Moves(cbs[w], b), cbs' = [cbs EXCEPT ![w] = b]
      PROVE  Goal
  <2>1. \A v \in Workers : cbs'[v] = IF v = w THEN b ELSE cbs[v]
    BY <1>1
  <2>2. DOMAIN cbs' = Workers
    BY <1>1
  <2> QED BY <1>1, <2>1, <2>2 DEF Moves
<1>2. ASSUME cbs' = cbs PROVE Goal
  BY <1>2 DEF Moves
<1>3. ASSUME NEW r \in Requests, NEW job \in Jobs, Submit(r, job) PROVE Goal
  <2>1. CASE conf.breaker
    <3>1. job.worker \in Workers
      BY DEF Jobs
    <3>2. cbs' = [cbs EXCEPT ![job.worker] = Allow(cbs[job.worker])] /\ Allows(cbs[job.worker])
      BY <1>3, <2>1 DEF Submit, IsWorkerAvailable
    <3>3. Moves(cbs[job.worker], Allow(cbs[job.worker]))
      BY <3>2 DEF Moves
    <3> QED BY <1>1, <3>1, <3>2, <3>3
  <2>2. CASE ~conf.breaker
    BY <1>2, <1>3, <2>2 DEF Submit
  <2> QED BY <2>1, <2>2
<1>4. ASSUME NEW r \in Requests, NEW code, WorkerSucceeds(r) \/ WorkerFails(r, code) PROVE Goal
  <2>1. Worker(r) \in Workers
    BY <1>4 DEF WorkerSucceeds, WorkerFails, PathInv, FlightInv, RequestInv, Lawful, Jobs, Worker
  <2>2. \/ cbs' = cbs
        \/ cbs' = [cbs EXCEPT ![Worker(r)] = RecordSuccess(cbs[Worker(r)])]
        \/ cbs' = [cbs EXCEPT ![Worker(r)] = RecordFailure(cbs[Worker(r)])]
    BY <1>4 DEF WorkerSucceeds, WorkerFails
  <2>3. \A b \in {RecordSuccess(cbs[Worker(r)]), RecordFailure(cbs[Worker(r)])} : Moves(cbs[Worker(r)], b)
    BY DEF Moves
  <2> QED BY <1>1, <1>2, <2>1, <2>2, <2>3
<1>5. ASSUME NEW w \in Workers, NEW status, HealthCheck(w, status) \/ TimerExpires(w) PROVE Goal
  <2>1. \/ cbs' = [cbs EXCEPT ![w] = UpdateCircuitBreaker(cbs[w], status)]
        \/ cbs' = [cbs EXCEPT ![w] = ResetElapses(cbs[w])]
    BY <1>5 DEF HealthCheck, TimerExpires
  <2>2. \A b \in {UpdateCircuitBreaker(cbs[w], status), ResetElapses(cbs[w])} : Moves(cbs[w], b)
    BY DEF Moves, UpdateCircuitBreaker
  <2> QED BY <1>1, <2>1, <2>2
<1>6. \/ cbs' = cbs
      \/ \E r \in Requests, job \in Jobs : Submit(r, job)
      \/ \E r \in Requests : WorkerSucceeds(r) \/ \E code \in conf.codes : WorkerFails(r, code)
      \/ \E w \in Workers : TimerExpires(w) \/ \E status \in conf.checks : HealthCheck(w, status)
  BY DEF Next, RequestNext, Environment, Progress, Refuse, Lookup, JoinFlight, Land, Collect,
         Retry, AbandonRetry, DeadlinePasses, CacheWrite, CacheExpires, vars
<1> HIDE DEF Goal
<1>7. Goal
  BY <1>2, <1>3, <1>4, <1>5, <1>6
<1> QED BY <1>7 DEF Goal

LEMMA BreakersStep == PathInv /\ BreakersSound /\ [Next]_vars => BreakersSound'
<1> SUFFICES ASSUME PathInv, BreakersSound, [Next]_vars PROVE BreakersSound'
  OBVIOUS
<1>1. DOMAIN cbs' = Workers /\ \A w \in Workers : Moves(cbs[w], cbs'[w])
  BY BreakerMoves DEF BreakersSound
<1>2. \A w \in Workers : Sound(cbs'[w])
  BY <1>1, OperationsSound DEF BreakersSound, Moves
<1>3. \E f : cbs' = f /\ f \in [Workers -> CircuitBreaker]
  <2>1. cbs' = [w \in Workers |-> cbs'[w]]
    BY <1>1, PathStep DEF PathInv, BreakersThere
  <2> QED BY <1>2, <2>1 DEF Sound
<1> QED BY <1>2, <1>3 DEF BreakersSound

(* Whatever requests and health checks do at once, in every condition of   *)
(* the experiment: a breaker never counts more than MaxTrials trials, is   *)
(* not CLOSED with MaxFailures failures, and is HALF_OPEN only once its    *)
(* timeout has passed.                                                     *)
THEOREM BreakersAreSound == Spec => []BreakersSound
<1>1. Init => PathInv /\ BreakersSound
  <2>1. ASSUME Init PROVE BreakersSound
    <3>1. Sound(NewCircuitBreaker) /\ NewCircuitBreaker \in CircuitBreaker
      BY BreakerConfigAssumption DEF Sound, NewCircuitBreaker, CircuitBreaker, CBState
    <3> QED BY <2>1, <3>1 DEF Init, BreakersSound
  <2> QED BY <2>1, FlightInit DEF Init, PathInv, BreakersThere
<1> QED BY <1>1, PathStep, BreakersStep, PTL DEF Spec

(* An OPEN breaker turns HALF_OPEN only once its timeout has passed, and   *)
(* neither a late report nor a failing health check restarts the timer, in *)
(* a baseline process too, where the refinement does not apply.            *)
THEOREM OpenBreakersCool ==
  Spec => [][\A w \in Workers : cbs[w].state = "OPEN" =>
               /\ cbs'[w].state = "HALF_OPEN" => cbs[w].elapsed
               /\ cbs'[w].state = "OPEN" /\ cbs[w].elapsed => cbs'[w].elapsed]_vars
<1>1. PathInv /\ BreakersSound /\ [Next]_vars =>
        [\A w \in Workers : cbs[w].state = "OPEN" =>
           /\ cbs'[w].state = "HALF_OPEN" => cbs[w].elapsed
           /\ cbs'[w].state = "OPEN" /\ cbs[w].elapsed => cbs'[w].elapsed]_vars
  <2> SUFFICES ASSUME PathInv, BreakersSound, [Next]_vars, NEW w \in Workers, cbs[w].state = "OPEN"
               PROVE  /\ cbs'[w].state = "HALF_OPEN" => cbs[w].elapsed
                      /\ cbs'[w].state = "OPEN" /\ cbs[w].elapsed => cbs'[w].elapsed
    OBVIOUS
  <2>1. Moves(cbs[w], cbs'[w]) /\ cbs[w] \in CircuitBreaker
    BY BreakerMoves DEF BreakersSound
  <2>2. RecordFailure(cbs[w]) = cbs[w]
    BY DEF RecordFailure
  <2>3. Allows(cbs[w]) => cbs[w].elapsed /\ Allow(cbs[w]).state = "HALF_OPEN"
    BY <2>1 DEF Allows, Allow, CircuitBreaker
  <2>4. RecordSuccess(cbs[w]).state = "CLOSED"
    BY <2>1 DEF RecordSuccess, CircuitBreaker
  <2>5. ResetElapses(cbs[w]).state = "OPEN" /\ ResetElapses(cbs[w]).elapsed
    BY <2>1 DEF ResetElapses, CircuitBreaker
  <2> QED BY <2>1, <2>2, <2>3, <2>4, <2>5 DEF Moves
<1>2. Init => PathInv
  BY FlightInit DEF Init, PathInv, BreakersThere
<1>3. Spec => []PathInv
  BY <1>2, PathStep, PTL DEF Spec
<1> QED BY <1>1, <1>3, BreakersAreSound, PTL DEF Spec

(* A wedged breaker: its trials are used up and none of the requests that  *)
(* used them has anything left to record (they ended in a cache hit, in    *)
(* somebody else's call, or in bad input).                                 *)
Wedged(w) == /\ conf.breaker
             /\ cbs[w].state = "HALF_OPEN" /\ cbs[w].trials = MaxTrials
             /\ \A r \in Requests : PhaseOf(w)[r] = "idle"

LEMMA CallerIsThere ==
  ASSUME RequestInv, NEW w \in Workers, NEW r \in Requests, req[r].pc = "calling", PhaseOf(w)[r] = "idle"
  PROVE  Worker(r) # w
BY DEF PhaseOf, Phase, Worker

LEMMA WedgeStays ==
  ASSUME PathInv, BreakersSound, [Next]_vars, NEW w \in Workers, Wedged(w), "UNHEALTHY" \notin conf.checks
  PROVE  Wedged(w)'
<1>1. /\ RequestInv /\ cbs[w] \in CircuitBreaker /\ ~Allows(cbs[w]) /\ cbs[w].elapsed /\ DOMAIN cbs = Workers
  <2>1. ~Allows(cbs[w])
    BY BreakerConfigAssumption DEF Wedged, Allows
  <2> QED BY <2>1 DEF PathInv, FlightInv, BreakersSound, Sound, Wedged
<1>2. conf' = conf
  BY DEF Next, RequestNext, Environment, Progress, Submit, Arrived, Refuse, Lookup, JoinFlight, Land,
                  Collect, WorkerSucceeds, WorkerFails, Retry, AbandonRetry, DeadlinePasses, CacheWrite,
                  CacheExpires, TimerExpires, HealthCheck, vars
<1>3. cbs'[w] = cbs[w]
  <2>1. ASSUME NEW r \in Requests, NEW job \in Jobs, Submit(r, job) PROVE cbs'[w] = cbs[w]
    <3>1. Allows(cbs[job.worker]) /\ cbs' = [cbs EXCEPT ![job.worker] = Allow(@)]
      BY <2>1 DEF Submit, IsWorkerAvailable, Wedged
    <3> QED BY <1>1, <3>1
  <2>2. ASSUME NEW r \in Requests, NEW code, WorkerSucceeds(r) \/ WorkerFails(r, code)
        PROVE  cbs'[w] = cbs[w]
    <3>1. Worker(r) # w
      BY <1>1, <2>2, CallerIsThere DEF WorkerSucceeds, WorkerFails, Wedged
    <3>2. cbs' = cbs \/ \E b : cbs' = [cbs EXCEPT ![Worker(r)] = b]
      BY <2>2 DEF WorkerSucceeds, WorkerFails
    <3> QED BY <1>1, <3>1, <3>2
  <2>3. ASSUME NEW v \in Workers, NEW status \in conf.checks, HealthCheck(v, status)
        PROVE  cbs'[w] = cbs[w]
    <3>1. UpdateCircuitBreaker(cbs[w], status) = cbs[w]
      BY DEF UpdateCircuitBreaker
    <3> QED BY <1>1, <2>3, <3>1 DEF HealthCheck
  <2>4. ASSUME NEW v \in Workers, TimerExpires(v) PROVE cbs'[w] = cbs[w]
    BY <1>1, <2>4 DEF TimerExpires
  <2>5. \/ cbs' = cbs
        \/ \E r \in Requests, job \in Jobs : Submit(r, job)
        \/ \E r \in Requests : WorkerSucceeds(r) \/ \E code \in conf.codes : WorkerFails(r, code)
        \/ \E v \in Workers : TimerExpires(v) \/ \E status \in conf.checks : HealthCheck(v, status)
    BY DEF Next, RequestNext, Environment, Progress, Refuse, Lookup, JoinFlight, Land, Collect,
           Retry, AbandonRetry, DeadlinePasses, CacheWrite, CacheExpires, vars
  <2> QED BY <2>1, <2>2, <2>3, <2>4, <2>5
<1>4. \A r \in Requests : PhaseOf(w)'[r] = "idle"
  <2>1. BreakerStep(w)
    BY DisciplineStep DEF Wedged
  <2>2. \A r \in Requests : PhaseOf(w)[r] = "idle"
    BY DEF Wedged
  <2>3. \A r \in Requests : ~Breaker(w)!Admit(r) /\ ~Breaker(w)!Fail(r) /\ ~Breaker(w)!Succeed(r)
                            /\ ~Breaker(w)!Finish(r)
    BY <1>1, <2>2 DEF Breaker!Admit, Breaker!Fail, Breaker!Succeed, Breaker!Finish, Breaker!Allows, Allows
  <2>4. PhaseOf(w)' = PhaseOf(w)
    BY <2>1, <2>3 DEF BreakerStep, Breaker!Next, Breaker!vars, Breaker!HealthCheck, Breaker!TimerExpires
  <2> QED BY <2>2, <2>4
<1> QED BY <1>2, <1>3, <1>4 DEF Wedged

(* Why HalfOpenDecides fails: a wedged breaker admits nobody, and while no *)
(* health check fails it stays wedged for ever.  No client, answer, cache  *)
(* or clock gets it out.                                                   *)
THEOREM WedgeIsForever ==
  ASSUME NEW w \in Workers
  PROVE  Spec => [](Wedged(w) /\ "UNHEALTHY" \notin conf.checks => []Wedged(w))
<1> DEFINE W == Wedged(w) /\ "UNHEALTHY" \notin conf.checks
<1>1. Init => PathInv
  BY FlightInit DEF Init, PathInv, BreakersThere
<1>2. PathInv /\ BreakersSound /\ W /\ [Next]_vars => W'
  <2> SUFFICES ASSUME PathInv, BreakersSound, W, [Next]_vars PROVE W'
    OBVIOUS
  <2>1. Wedged(w)'
    BY WedgeStays
  <2>2. conf' = conf
    BY DEF Next, RequestNext, Environment, Progress, Submit, Arrived, Refuse, Lookup, JoinFlight, Land,
           Collect, WorkerSucceeds, WorkerFails, Retry, AbandonRetry, DeadlinePasses, CacheWrite,
           CacheExpires, TimerExpires, HealthCheck, vars
  <2> QED BY <2>1, <2>2
<1>3. W => Wedged(w)
  OBVIOUS
<1> QED BY <1>1, <1>2, <1>3, PathStep, BreakersAreSound, PTL DEF Spec

-----------------------------------------------------------------------------
(* How many steps of its own a request has before it at most.  Each retry  *)
(* is two, the passing of its deadline is one.                             *)
Remaining(q) ==
  LET retries == 2 * (RetryMaxAttempts - q.attempt) + (IF q.expired THEN 0 ELSE 1)
  IN CASE q.pc = "idle" -> 0
       [] q.pc \in {"served", "landing"} -> 1
       [] q.pc = "waiting" -> 2
       [] q.pc = "backoff" -> retries + 2
       [] q.pc = "calling" -> retries + 3
       [] q.pc = "keyed" -> 2 * RetryMaxAttempts + 5
       [] q.pc = "lookup" -> 2 * RetryMaxAttempts + 6

LEMMA RemainingIs ==
  ASSUME NEW q \in RequestState
  PROVE  /\ Remaining(q) \in 0..2 * RetryMaxAttempts + 6
         /\ q.pc = "idle" => Remaining(q) = 0
         /\ q.pc # "idle" => Remaining(q) >= 1
         /\ q.pc \in {"served", "landing"} => Remaining(q) = 1
         /\ q.pc = "waiting" => Remaining(q) = 2
         /\ q.pc = "keyed" => Remaining(q) = 2 * RetryMaxAttempts + 5
         /\ q.pc = "lookup" => Remaining(q) = 2 * RetryMaxAttempts + 6
         /\ q.pc = "backoff" => Remaining(q) = 2 * (RetryMaxAttempts - q.attempt) + (IF q.expired THEN 0 ELSE 1) + 2
         /\ q.pc = "calling" => Remaining(q) = 2 * (RetryMaxAttempts - q.attempt) + (IF q.expired THEN 0 ELSE 1) + 3
<1>1. /\ q.pc \in {"idle", "lookup", "keyed", "waiting", "calling", "backoff", "landing", "served"}
      /\ q.attempt \in 0..RetryMaxAttempts /\ q.expired \in BOOLEAN
  BY RequestFields
<1>2. RetryMaxAttempts \in Nat \ {0}
  BY AIServiceAssumption
<1> DEFINE x == IF q.expired THEN 0 ELSE 1
<1>3. x \in {0, 1}
  OBVIOUS
<1> HIDE DEF x
<1>4. /\ q.pc = "idle" => Remaining(q) = 0
      /\ q.pc \in {"served", "landing"} => Remaining(q) = 1
      /\ q.pc = "waiting" => Remaining(q) = 2
      /\ q.pc = "keyed" => Remaining(q) = 2 * RetryMaxAttempts + 5
      /\ q.pc = "lookup" => Remaining(q) = 2 * RetryMaxAttempts + 6
      /\ q.pc = "backoff" => Remaining(q) = 2 * (RetryMaxAttempts - q.attempt) + x + 2
      /\ q.pc = "calling" => Remaining(q) = 2 * (RetryMaxAttempts - q.attempt) + x + 3
  BY DEF Remaining, x
<1>5. Remaining(q) \in 0..2 * RetryMaxAttempts + 6 /\ (q.pc # "idle" => Remaining(q) >= 1)
  BY <1>1, <1>2, <1>3, <1>4
<1> QED BY <1>4, <1>5 DEF x

RunsDown(r) == req'[r] = req[r] \/ Remaining(req'[r]) < Remaining(req[r])

LEMMA RunsDownTo ==
  ASSUME RequestInv, NEW r \in Requests, req[r].pc # "idle", NEW x \in RequestState,
         req' = [req EXCEPT ![r] = x], Remaining(x) < Remaining(req[r])
  PROVE  \A q \in Requests : RunsDown(q)
BY ReqUpdated DEF RequestInv, RunsDown

LEMMA RunsDownStep ==
  ASSUME FlightInv, [Next]_vars
  PROVE  \A q \in Requests : req[q].pc # "idle" => RunsDown(q)
<1>0. /\ RequestInv /\ RetryMaxAttempts \in Nat
      /\ \A r \in Requests : req[r] \in RequestState /\ Lawful(req[r], conf)
                            /\ req[r].attempt \in 0..RetryMaxAttempts /\ req[r].expired \in BOOLEAN
  BY AIServiceAssumption, RequestFields DEF FlightInv, RequestInv, RequestsTyped
<1>1. ASSUME NEW r \in Requests, req[r].pc # "idle", req' = [req EXCEPT ![r] = Idle]
      PROVE  \A q \in Requests : RunsDown(q)
  <2>1. Idle \in RequestState /\ Remaining(Idle) = 0
    BY IdleLawful, RemainingIs DEF Idle
  <2>2. Remaining(req[r]) >= 1 /\ Remaining(req[r]) \in Int
    BY <1>0, <1>1, RemainingIs
  <2>3. Remaining(Idle) < Remaining(req[r])
    BY <2>1, <2>2
  <2> QED BY <1>0, <1>1, <2>1, <2>3, RunsDownTo
<1>2. ASSUME NEW r \in Requests, Lookup(r) \/ JoinFlight(r) PROVE \A q \in Requests : RunsDown(q)
  <2>1. CASE req' = [req EXCEPT ![r] = Idle]
    BY <1>1, <1>2, <2>1 DEF Lookup, JoinFlight
  <2>2. CASE req' = [req EXCEPT ![r].pc = "keyed"] /\ req[r].pc = "lookup"
    <3> DEFINE x == [req[r] EXCEPT !.pc = "keyed"]
    <3>1. x \in RequestState /\ x.pc = "keyed"
      BY <1>0 DEF RequestState
    <3>2. req' = [req EXCEPT ![r] = x]
      BY <1>0, <2>2 DEF RequestInv, RequestsTyped
    <3> HIDE DEF x
    <3>3. Remaining(x) < Remaining(req[r])
      BY <1>0, <2>2, <3>1, RemainingIs
    <3> QED BY <1>0, <2>2, <3>1, <3>2, <3>3, RunsDownTo
  <2>3. ASSUME NEW pc \in {"calling", "waiting"}, req' = [req EXCEPT ![r].pc = pc], req[r].pc = "keyed"
        PROVE  \A q \in Requests : RunsDown(q)
    <3> DEFINE x == [req[r] EXCEPT !.pc = pc]
    <3>1. x \in RequestState /\ x.pc = pc /\ x.attempt = req[r].attempt /\ x.expired = req[r].expired
      BY <1>0 DEF RequestState
    <3>2. req' = [req EXCEPT ![r] = x]
      BY <1>0, <2>3 DEF RequestInv, RequestsTyped
    <3> HIDE DEF x
    <3>3. Remaining(req[r]) = 2 * RetryMaxAttempts + 5
      BY <1>0, <2>3, RemainingIs
    <3>4. pc = "waiting" => Remaining(x) = 2
      BY <3>1, RemainingIs
    <3>5. pc = "calling" => Remaining(x) <= 2 * RetryMaxAttempts + 4
      BY <1>0, <3>1, RemainingIs
    <3>6. Remaining(x) < Remaining(req[r])
      BY <1>0, <3>3, <3>4, <3>5, <3>1, RemainingIs
    <3> QED BY <1>0, <2>3, <3>1, <3>2, <3>6, RunsDownTo
  <2>4. \/ req' = [req EXCEPT ![r] = Idle]
        \/ req' = [req EXCEPT ![r].pc = "keyed"] /\ req[r].pc = "lookup"
        \/ \E pc \in {"calling", "waiting"} : req' = [req EXCEPT ![r].pc = pc] /\ req[r].pc = "keyed"
    <3>1. CASE Lookup(r)
      BY <1>0, <3>1 DEF Lookup
    <3>2. CASE JoinFlight(r)
      BY <3>2 DEF JoinFlight, Goto
    <3> QED BY <1>2, <3>1, <3>2
  <2> QED BY <2>1, <2>2, <2>3, <2>4
<1>3. ASSUME NEW r \in Requests, WorkerSucceeds(r) PROVE \A q \in Requests : RunsDown(q)
  <2>1. PICK x : StepsTo(r, x) /\ (x = Idle \/ x.pc = "landing")
    BY <1>0, <1>3, SucceedForm
  <2>2. req[r].pc = "calling"
    BY <1>3 DEF WorkerSucceeds
  <2>3. x \in RequestState /\ Remaining(x) <= 1
    BY <2>1, RemainingIs DEF StepsTo, Idle
  <2>4. Remaining(req[r]) >= 3 /\ Remaining(x) \in Int /\ Remaining(req[r]) \in Int
    BY <1>0, <2>2, <2>3, RemainingIs
  <2>5. Remaining(x) < Remaining(req[r])
    BY <2>3, <2>4
  <2> QED BY <1>0, <2>1, <2>2, <2>3, <2>5, RunsDownTo DEF StepsTo
<1>4. ASSUME NEW r \in Requests, NEW code, WorkerFails(r, code) PROVE \A q \in Requests : RunsDown(q)
  <2> DEFINE y == [req[r] EXCEPT !.blamed = @ \/ Charged(r, HandleError(code))]
  <2>0. req[r].pc = "calling"
    BY <1>4 DEF WorkerFails
  <2>1. CASE req' = [req EXCEPT ![r] = Idle]
    BY <1>1, <2>0, <2>1
  <2>2. ASSUME NEW pc \in {"landing", "backoff"}, req' = [req EXCEPT ![r] = [y EXCEPT !.pc = pc]]
        PROVE  \A q \in Requests : RunsDown(q)
    <3> DEFINE x == [y EXCEPT !.pc = pc]
    <3>0. (req[r].blamed \/ Charged(r, HandleError(code))) \in BOOLEAN
      OBVIOUS
    <3>1. x \in RequestState /\ x.pc = pc /\ x.attempt = req[r].attempt /\ x.expired = req[r].expired
      BY <1>0, <3>0 DEF RequestState
    <3> HIDE DEF x, y
    <3>2. req' = [req EXCEPT ![r] = x]
      BY <2>2 DEF x
    <3>3. Remaining(req[r]) = 2 * (RetryMaxAttempts - req[r].attempt) + (IF req[r].expired THEN 0 ELSE 1) + 3
      BY <1>0, <2>0, RemainingIs
    <3>4. pc = "landing" => Remaining(x) = 1
      BY <3>1, RemainingIs
    <3>5. pc = "backoff" => Remaining(x) = 2 * (RetryMaxAttempts - req[r].attempt) + (IF req[r].expired THEN 0 ELSE 1) + 2
      BY <3>1, RemainingIs
    <3>6. Remaining(x) < Remaining(req[r])
      BY <1>0, <3>3, <3>4, <3>5
    <3> QED BY <1>0, <2>0, <3>1, <3>2, <3>6, RunsDownTo
  <2>3. \/ req' = [req EXCEPT ![r] = Idle]
        \/ \E pc \in {"landing", "backoff"} : req' = [req EXCEPT ![r] = [y EXCEPT !.pc = pc]]
    BY <1>4 DEF WorkerFails
  <2> HIDE DEF y
  <2> QED BY <2>1, <2>2, <2>3
<1>5. ASSUME NEW r \in Requests, AbandonRetry(r) \/ Collect(r) PROVE \A q \in Requests : RunsDown(q)
  BY <1>1, <1>5 DEF AbandonRetry, Collect
<1>6. ASSUME NEW r \in Requests, Land(r) PROVE \A q \in Requests : RunsDown(q)
  <2> SUFFICES ASSUME NEW q \in Requests PROVE RunsDown(q)
    OBVIOUS
  <2>1. CASE q = r
    <3>1. req'[q] = Idle /\ req[q].pc = "landing"
      BY <1>6, <2>1 DEF Land
    <3>2. Remaining(Idle) = 0 /\ Remaining(req[q]) = 1
      BY <1>0, <3>1, IdleLawful, RemainingIs DEF Idle
    <3> QED BY <3>1, <3>2 DEF RunsDown
  <2>2. CASE q # r /\ req[q].pc = "waiting" /\ req'[q] = [req[q] EXCEPT !.pc = "served"]
    <3>1. req'[q] \in RequestState /\ req'[q].pc = "served"
      BY <1>0, <2>2 DEF RequestState
    <3>2. Remaining(req'[q]) = 1 /\ Remaining(req[q]) = 2
      BY <1>0, <2>2, <3>1, RemainingIs
    <3> QED BY <3>2 DEF RunsDown
  <2>3. CASE req'[q] = req[q]
    BY <2>3 DEF RunsDown
  <2> QED BY <1>6, <2>1, <2>2, <2>3 DEF Land
<1>7. ASSUME NEW r \in Requests, DeadlinePasses(r) \/ Retry(r) PROVE \A q \in Requests : RunsDown(q)
  <2>1. CASE DeadlinePasses(r)
    <3> DEFINE x == [req[r] EXCEPT !.expired = TRUE]
    <3>1. req' = [req EXCEPT ![r] = x] /\ req[r].pc \in {"calling", "backoff"} /\ ~req[r].expired
      BY <2>1 DEF DeadlinePasses
    <3>2. x \in RequestState /\ x.pc = req[r].pc /\ x.attempt = req[r].attempt /\ x.expired
      BY <1>0 DEF RequestState
    <3> HIDE DEF x
    <3>3. Remaining(x) < Remaining(req[r])
      <4>1. CASE req[r].pc = "calling"
        <5>1. /\ Remaining(x) = 2 * (RetryMaxAttempts - req[r].attempt) + 3
              /\ Remaining(req[r]) = 2 * (RetryMaxAttempts - req[r].attempt) + 1 + 3
          BY <1>0, <3>1, <3>2, <4>1, RemainingIs
        <5> QED BY <1>0, <5>1
      <4>2. CASE req[r].pc = "backoff"
        <5>1. /\ Remaining(x) = 2 * (RetryMaxAttempts - req[r].attempt) + 2
              /\ Remaining(req[r]) = 2 * (RetryMaxAttempts - req[r].attempt) + 1 + 2
          BY <1>0, <3>1, <3>2, <4>2, RemainingIs
        <5> QED BY <1>0, <5>1
      <4> QED BY <3>1, <4>1, <4>2
    <3> QED BY <1>0, <3>1, <3>2, <3>3, RunsDownTo
  <2>2. CASE Retry(r)
    <3> DEFINE x == [req[r] EXCEPT !.pc = "calling", !.attempt = req[r].attempt + 1]
    <3>1. req' = [req EXCEPT ![r] = x] /\ req[r].pc = "backoff"
      BY <2>2 DEF Retry
    <3>2. req[r].attempt + 1 \in 0..RetryMaxAttempts
      BY <1>0, <3>1 DEF Lawful
    <3>3. x \in RequestState /\ x.pc = "calling" /\ x.attempt = req[r].attempt + 1 /\ x.expired = req[r].expired
      BY <1>0, <3>2 DEF RequestState
    <3> HIDE DEF x
    <3>4. /\ Remaining(x) = 2 * (RetryMaxAttempts - (req[r].attempt + 1)) + (IF req[r].expired THEN 0 ELSE 1) + 3
          /\ Remaining(req[r]) = 2 * (RetryMaxAttempts - req[r].attempt) + (IF req[r].expired THEN 0 ELSE 1) + 2
      BY <1>0, <3>1, <3>3, RemainingIs
    <3>5. Remaining(x) < Remaining(req[r])
      BY <1>0, <3>4
    <3> QED BY <1>0, <3>1, <3>3, <3>5, RunsDownTo
  <2> QED BY <1>7, <2>1, <2>2
<1>8. ASSUME NEW r \in Requests, NEW job \in Jobs, Submit(r, job)
      PROVE  \A q \in Requests : req[q].pc # "idle" => RunsDown(q)
  <2>1. \A q \in Requests \ {r} : req'[q] = req[q]
    BY <1>0, <1>8 DEF Submit, Arrived, RequestInv, RequestsTyped
  <2> QED BY <1>8, <2>1 DEF Submit, RunsDown
<1>9. CASE req' = req
  BY <1>9 DEF RunsDown
<1>10. \/ req' = req
       \/ \E r \in Requests, job \in Jobs : Submit(r, job)
       \/ \E r \in Requests : Progress(r) \/ DeadlinePasses(r)
  BY DEF Next, RequestNext, Environment, Refuse, CacheWrite, CacheExpires, HealthCheck, TimerExpires, vars
<1>11. CASE \E r \in Requests : Progress(r) \/ DeadlinePasses(r)
  BY <1>2, <1>3, <1>4, <1>5, <1>6, <1>7, <1>11 DEF Progress
<1> QED BY <1>8, <1>9, <1>10, <1>11

(* The safety half of EveryRequestReturns.  A request being served is      *)
(* brought nearer to its end by each of its steps and set back by nobody's *)
(* (2 * RetryMaxAttempts + 6 steps are the most it takes), and one that    *)
(* waits for a shared call waits for a request that is itself on its way.  *)
THEOREM RequestsRunDown ==
  /\ Spec => [][\A r \in Requests : req[r].pc # "idle" =>
                  req'[r] = req[r] \/ Remaining(req'[r]) < Remaining(req[r])]_vars
  /\ Spec => [](\A r \in Requests :
                  /\ Remaining(req[r]) \in 0..2 * RetryMaxAttempts + 6
                  /\ Remaining(req[r]) = 0 <=> req[r].pc = "idle"
                  /\ req[r].pc = "waiting" => \E q \in Requests : /\ req[q].pc \in {"calling", "landing"}
                                                                  /\ req[q].job = req[r].job)
<1>1. FlightInv /\ [Next]_vars =>
        [\A r \in Requests : req[r].pc # "idle" =>
           req'[r] = req[r] \/ Remaining(req'[r]) < Remaining(req[r])]_vars
  BY RunsDownStep DEF RunsDown
<1>2. FlightInv => \A r \in Requests :
                     /\ Remaining(req[r]) \in 0..2 * RetryMaxAttempts + 6
                     /\ Remaining(req[r]) = 0 <=> req[r].pc = "idle"
                     /\ req[r].pc = "waiting" => \E q \in Requests : /\ req[q].pc \in {"calling", "landing"}
                                                                     /\ req[q].job = req[r].job
  <2> SUFFICES ASSUME FlightInv, NEW r \in Requests
               PROVE  /\ Remaining(req[r]) \in 0..2 * RetryMaxAttempts + 6
                      /\ Remaining(req[r]) = 0 <=> req[r].pc = "idle"
                      /\ req[r].pc = "waiting" => \E q \in Requests : /\ req[q].pc \in {"calling", "landing"}
                                                                      /\ req[q].job = req[r].job
    OBVIOUS
  <2>1. req[r] \in RequestState /\ Lawful(req[r], conf)
    BY DEF FlightInv, RequestInv, RequestsTyped
  <2>2. ASSUME req[r].pc = "waiting"
        PROVE  \E q \in Requests : req[q].pc \in {"calling", "landing"} /\ req[q].job = req[r].job
    <3> DEFINE j == req[r].job
    <3>1. conf.cache /\ j \in Jobs /\ flight[j] # NoRequest /\ flight[j] \in Requests
      BY <2>1, <2>2 DEF Lawful, FlightInv, FlightSound
    <3> QED BY <3>1 DEF FlightInv, FlightSound
  <2> QED BY <2>1, <2>2, RemainingIs
<1>3. Spec => []FlightInv
  BY FlightInit, FlightStep, PTL DEF Spec
<1> QED BY <1>1, <1>2, <1>3, PTL DEF Spec
=============================================================================
