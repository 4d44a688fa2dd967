----------------------------- MODULE RunValidity -----------------------------
(***************************************************************************)
(* When a run counts: the rules of invalidator.py, which flags everything  *)
(* it objects to, of validator.py, which stops at the first objection, and *)
(* the pairing of the two conditions (automation/experimentctl/).          *)
(*                                                                         *)
(* A sign is something a run's files show.  The validator's rules on       *)
(* partial_count, request_timeout_seconds, k6_max_vu and                   *)
(* load_generator_location are about columns that final_summary.csv does   *)
(* not have, so they object to nothing and are left out.                   *)
(***************************************************************************)
EXTENDS Naturals, Sequences, FiniteSets

(* SS; A1, A2, A3; B1, B2, B3; C1, C2. *)
Kinds == {"steady", "fault", "recovery", "cascade"}

(* The events that the rules look for; fault_stage_started stands for any  *)
(* event with "stage" in its type.                                         *)
EventTypes == {"fault_injected", "recovery_started", "recovered", "fault_stage_started"}

(* Signs in the files that the run leaves behind, and in the rows exported *)
(* from the database, with the code the invalidator flags them with.       *)
FileCode == [on_vps        |-> "INVALID_K6_LOCATION",
             no_summary    |-> "INVALID_K6_FAILED",
             few_requests  |-> "INVALID_LOW_REQUEST_COUNT",
             speech_oom    |-> "INVALID_OOM",
             other_oom     |-> "INVALID_OOM",
             kernel_oom    |-> "INVALID_OOM",
             db_oom        |-> "INVALID_DB_OOM",
             db_restart    |-> "INVALID_DB_RESTART",
             db_memory     |-> "INVALID_DB_MEMORY_PRESSURE",
             db_leak       |-> "INVALID_DB_CONNECTION_LEAK",
             packet_loss   |-> "INVALID_NETWORK_UNSTABLE",
             cache_hit     |-> "INVALID_CACHE_CONTAMINATED",
             no_prometheus |-> "INVALID_PROMETHEUS_MISSING"]

RowCode == [rate_limited   |-> "INVALID_RATE_LIMITED",
            auth_error     |-> "INVALID_AUTH_ERROR",
            no_latency     |-> "INVALID_EMPTY_LATENCY",
            other_scenario |-> "INVALID_SCENARIO_MISMATCH"]

Signs == DOMAIN FileCode \cup DOMAIN RowCode \cup {"wrong_vu"}

(* What the fault events of a run must tell, by the kind of its scenario.  *)
EventCodes(kind, events) ==
  {code \in {"INVALID_MISSING_FAULT_EVENT", "INVALID_MISSING_RECOVERY_EVENT", "INVALID_RECOVERY_FAILED"} :
     \/ /\ code = "INVALID_MISSING_FAULT_EVENT" /\ kind # "steady"
        /\ \/ "fault_injected" \notin events
           \/ kind = "cascade" /\ "fault_stage_started" \notin events
     \/ /\ code = "INVALID_MISSING_RECOVERY_EVENT" /\ kind \in {"recovery", "cascade"}
        /\ "recovery_started" \notin events
     \/ /\ code = "INVALID_RECOVERY_FAILED" /\ kind \in {"recovery", "cascade"}
        /\ "recovered" \notin events}

(* invalidator._validate_run *)
InvalidCodes(kind, signs, events) ==
  {FileCode[s] : s \in signs \cap DOMAIN FileCode} \cup {RowCode[s] : s \in signs \cap DOMAIN RowCode}
    \cup EventCodes(kind, events)

(* Mutation: the cascade rule is forgotten.                                *)
EventsMissingUnstaged(kind, events) ==
  \/ kind # "steady" /\ "fault_injected" \notin events
  \/ kind \in {"recovery", "cascade"} /\ ~{"recovery_started", "recovered"} \subseteq events

(* Mutation: recovery is enough of a sign that there was a fault.          *)
EventsMissingFault(kind, events) ==
  \/ kind \in {"recovery", "cascade"} /\ ~{"recovery_started", "recovered"} \subseteq events
  \/ kind = "cascade" /\ "fault_stage_started" \notin events

EventsMissing(kind, events) ==
  \/ kind # "steady" /\ "fault_injected" \notin events
  \/ kind \in {"recovery", "cascade"} /\ ~{"recovery_started", "recovered"} \subseteq events
  \/ kind = "cascade" /\ "fault_stage_started" \notin events

(* validator._validate_run: the status of a run, given whether it has a    *)
(* row in final_summary.csv and that row a p95.                            *)
Status(kind, hasRow, hasP95, signs, events) ==
  IF ~hasRow THEN "MISSING"
  ELSE IF ~hasP95 \/ signs \cap {"on_vps", "wrong_vu", "speech_oom"} # {} \/ EventsMissing(kind, events)
       THEN "INVALID"
       ELSE "VALID"

(* check_pairing, when both conditions are evaluated. *)
PairStatus(sr, tr) == IF sr = "VALID" /\ tr = "VALID" THEN "paired"
                      ELSE IF sr = "VALID" \/ tr = "VALID" THEN "unpaired"
                      ELSE "both_invalid"
=============================================================================
