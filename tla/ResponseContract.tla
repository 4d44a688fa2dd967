-------------------------- MODULE ResponseContract --------------------------
(***************************************************************************)
(* The response contract of ADR-004: how fallbackEngine.Build and          *)
(* responseClassifier.Classify turn the results of the requested workers   *)
(* into full, partial or failure.  A backend process validates its         *)
(* configuration at startup and then answers requests; what a request asks *)
(* for and what its workers returned are inputs.                           *)
(*                                                                         *)
(* A list of degraded services is the set of its members, and a reason     *)
(* names the first of them, which is all the code reads of its order.      *)
(***************************************************************************)
EXTENDS ExperimentMode, Sequences, FiniteSets

CONSTANTS Services,      \* what clients may name, known to the engine or not
          MaxRequested   \* bound: services named in one request

KnownServices == {"vision", "ocr", "asr"}

(* A worker's (result, error) pair: a result; an error; neither. *)
Results == {"result", "error", "nil"}

Requested == UNION {[1..n -> Services] : n \in 0..MaxRequested}

Request == [services : Requested, results : [KnownServices -> Results],
            condition : Modes]

-----------------------------------------------------------------------------
(* responseClassifier.Classify; ok is the set of services whose            *)
(* WorkerResult is success.                                                *)
SuccessCount(services, ok) == Cardinality({i \in 1..Len(services) : services[i] \in ok})

(* Mutation: only the first failure is listed.                             *)
DegradedFirst(services, ok) ==
  LET failed == {i \in 1..Len(services) : services[i] \notin ok}
  IN {services[i] : i \in {i \in failed : \A k \in failed : i <= k}}

Degraded(services, ok) == {services[i] : i \in 1..Len(services)} \ ok

Classify(services, ok, fallbackActive, fallbackEnabled, condition) ==
  LET count == SuccessCount(services, ok)
      category ==
        IF Len(services) = 0 THEN "failure"
        ELSE IF count = Len(services) THEN "full"
        ELSE IF count > 0 /\ fallbackActive /\ fallbackEnabled THEN "partial"
        ELSE "failure"
      forbidden == category = "partial" /\ condition \in {"static_resilience", "baseline"}
  IN [category |-> IF forbidden THEN "failure" ELSE category,
      degraded |-> Degraded(services, ok),
      invalid  |-> forbidden]   \* INVALID_STATIC_BASELINE_PARTIAL

(* Mutation: only an error makes a worker unavailable.                     *)
AvailableUnlessError(results) == {s \in KnownServices : results[s] # "error"}

(* build*Output: a worker is unavailable iff it has an error or no result. *)
Available(results) == {s \in KnownServices : results[s] = "result"}

(* fallbackEngine.Build.  A service the switch does not know gets no       *)
(* output and no WorkerResult, and is not in the engine's own degraded     *)
(* list, although the classifier counts it as degraded.                    *)
Build(request, fallbackEnabled) ==
  LET known == {i \in 1..Len(request.services) : request.services[i] \in KnownServices}
      ok == Available(request.results) \cap {request.services[i] : i \in known}
      failed == {i \in known : request.services[i] \notin ok}
      fallbackActive == failed # {} /\ fallbackEnabled
      reason == IF failed = {} THEN "none"
                ELSE IF Cardinality(failed) = Len(request.services) THEN "all_workers_unavailable"
                ELSE request.services[CHOOSE i \in failed : \A k \in failed : i <= k]
      class == Classify(request.services, ok, fallbackActive, fallbackEnabled, request.condition)
  IN [category       |-> class.category,
      degraded       |-> class.degraded,
      invalid        |-> class.invalid,
      fallbackActive |-> fallbackActive,
      reason         |-> reason,
      payload        |-> [s \in {request.services[i] : i \in known} |->
                            IF s \in ok THEN "success" ELSE "unavailable"]]

-----------------------------------------------------------------------------
VARIABLES settings,  \* the switches of the running process
          request,   \* the request last answered, if any
          response   \* the answer to it

vars == <<settings, request, response>>

Nothing == [category |-> "none"]

Init == /\ settings \in {Settings(c) : c \in {c \in Config : ValidateExperimentMode(c)}}
        /\ request = Nothing
        /\ response = Nothing

Answer == /\ response = Nothing
          /\ request' \in Request
          /\ response' = Build(request', settings.fallbackEnabled)
          /\ UNCHANGED settings

(* The response has been sent; the engine keeps nothing of it. *)
Sent == /\ response # Nothing
        /\ request' = Nothing
        /\ response' = Nothing
        /\ UNCHANGED settings

Next == Answer \/ Sent

Spec == Init /\ [][Next]_vars

Answered == response # Nothing

-----------------------------------------------------------------------------
(* The promises of ADR-004, for every configuration the backend accepts.   *)

Asked == {request.services[i] : i \in 1..Len(request.services)}
Succeeded == {s \in Asked \cap KnownServices : request.results[s] = "result"}

(* The table of ADR-004, for requests over the three services: full when   *)
(* all succeed, partial when some do and the process is a treatment, and   *)
(* failure otherwise.  The request's own condition label must not matter   *)
(* unless it contradicts the process.                                      *)
ContractTable ==
  Answered /\ Asked \subseteq KnownServices /\ settings.mode # "baseline"
           /\ request.condition = settings.mode =>
    response.category =
      IF Asked # {} /\ Succeeded = Asked THEN "full"
      ELSE IF Succeeded # {} /\ settings.mode = "treatment" THEN "partial"
      ELSE "failure"

(* A request is never flagged INVALID_STATIC_BASELINE_PARTIAL, and its run *)
(* with it, unless its label contradicts the process that answered it or   *)
(* the process runs the unvalidated baseline mode.                         *)
FlagMeansMislabelled ==
  Answered /\ response.invalid =>
    settings.mode = "baseline" \/ request.condition # settings.mode

(* The client sees one story: the category, the payload, the degraded list *)
(* and the fallback flag agree, and only successes carry data.             *)
ResponseCoherent ==
  Answered =>
    /\ DOMAIN response.payload = Asked \cap KnownServices
    /\ {s \in DOMAIN response.payload : response.payload[s] = "success"} = Asked \ response.degraded
    /\ response.category = "full" => response.degraded = {} /\ ~response.fallbackActive
    /\ response.category = "partial" =>
         /\ response.fallbackActive
         /\ response.degraded # {} /\ Asked \ response.degraded # {}
=============================================================================
