--------------------------- MODULE ExperimentMode ---------------------------
(***************************************************************************)
(* The experiment switches of backend/config/config.go: which combinations *)
(* the backend agrees to start with (validateExperimentMode), and what the *)
(* services make of the switches it started with.                          *)
(***************************************************************************)
EXTENDS Naturals

Modes == {"static_resilience", "treatment", "baseline"}

(* ENABLE_* switches; mode is EXPERIMENT_MODE, any string.                 *)
Config == [mode : Modes \cup {"other"},
           static : BOOLEAN, rama : BOOLEAN,
           timeout : BOOLEAN, retry : BOOLEAN, breaker : BOOLEAN,
           fallback : BOOLEAN, profile : BOOLEAN, coordination : BOOLEAN, partial : BOOLEAN,
           cache : BOOLEAN]

(* Mutation: static_resilience may keep the fallback switched on.          *)
ValidateWithFallback(c) ==
  CASE c.mode = "static_resilience" -> /\ c.static /\ c.timeout /\ c.retry /\ c.breaker
                                       /\ ~c.rama /\ ~c.profile /\ ~c.coordination /\ ~c.partial
    [] c.mode = "treatment" ->
         c.rama /\ c.fallback /\ c.profile /\ c.coordination /\ c.partial /\ c.breaker
    [] c.mode = "baseline" -> TRUE
    [] OTHER -> FALSE

(* What each mode demands; baseline is only warned about. *)
ValidateExperimentMode(c) ==
  CASE c.mode = "static_resilience" ->
         /\ c.static /\ c.timeout /\ c.retry /\ c.breaker
         /\ ~c.rama /\ ~c.fallback /\ ~c.profile /\ ~c.coordination /\ ~c.partial
    [] c.mode = "treatment" ->
         /\ c.rama /\ c.fallback /\ c.profile /\ c.coordination /\ c.partial /\ c.breaker
    [] c.mode = "baseline" -> TRUE
    [] OTHER -> FALSE

(* External: the handler that calls the fallback engine with each request  *)
(* is not in the repository.  FallbackInput calls its FallbackEnabled      *)
(* "true = treatment": the switch ENABLE_CONTEXT_AWARE_FALLBACK.           *)
FallbackEnabled(c) == c.fallback

CbEnabled(c) == c.breaker       \* the orchestrator's

(* The switches the services read: the orchestrator's cbEnabled, the AI    *)
(* service's retry and cache, and what the fallback engine is called with. *)
Settings(c) == [mode            |-> c.mode,
                cbEnabled       |-> CbEnabled(c),
                fallbackEnabled |-> FallbackEnabled(c),
                cacheEnabled    |-> c.cache,
                retryEnabled    |-> c.retry /\ c.static]
=============================================================================
