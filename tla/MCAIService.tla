---------------------------- MODULE MCAIService ----------------------------
(* AIService for TLC: the configurations of the runs. *)
EXTENDS AIService, ExperimentMode

(* The cache is on.  The static retry is switched on with it, which the    *)
(* code only warns of.                                                     *)
Cached == {[cache |-> TRUE, retry |-> TRUE, breaker |-> TRUE,
            codes |-> {"OK", "InvalidArgument", "Internal"}, checks |-> WorkerStatus]}

StaticResilience == [cache |-> FALSE, retry |-> TRUE, breaker |-> TRUE,
                     codes |-> {"OK", "InvalidArgument", "Internal"}, checks |-> WorkerStatus]

Overloaded == [StaticResilience EXCEPT !.codes = {"OK", "ResourceExhausted", "Unavailable"}]
Treatment == [Overloaded EXCEPT !.retry = FALSE]
Baseline == [Treatment EXCEPT !.breaker = FALSE]

(* Good workers, clients that send rubbish. *)
BadInput == [StaticResilience EXCEPT !.codes = {"OK", "InvalidArgument"},
                                     !.checks = {"HEALTHY", "DEGRADED"}]

(* The experiment's conditions, all with the cache off. *)
Uncached == {StaticResilience, Overloaded, Treatment, Baseline, BadInput}

AllConditions == Cached \cup Uncached

(* Bad input as well as failures, and good health checks. *)
MixedInput == {[Treatment EXCEPT !.codes = {"OK", "InvalidArgument", "Internal"},
                                 !.checks = {"HEALTHY"}]}

(* Every configuration considered is one the backend agrees to start with. *)
ASSUME ConfigurationsAreAccepted ==
  \A k \in Configurations : \E c \in Config :
    /\ ValidateExperimentMode(c)
    /\ k.cache = Settings(c).cacheEnabled
    /\ k.retry = Settings(c).retryEnabled
    /\ k.breaker = Settings(c).cbEnabled
=============================================================================
