---------------------------- MODULE DataPipeline ----------------------------
(***************************************************************************)
(* From the database and the run directories to final_summary.csv, and to  *)
(* the verdict on each run: experiments/postprocess/build_summary.py with  *)
(* the scripts it starts, and the two validators that read what it leaves. *)
(*                                                                         *)
(* A run may be attempted again; the database keeps the rows and events of *)
(* every attempt under the same scenario, condition and number, and the    *)
(* run directory the files of the last.  What a CSV file says of a run is  *)
(* abstracted to the attempts it was computed from: a number of attempts   *)
(* exported, 0 for no row.  The steps of a build may fail or be killed;    *)
(* experiments may go on meanwhile.                                        *)
(***************************************************************************)
EXTENDS RunValidity

CONSTANTS Runs, Pairs,     \* the runs, and the <<static, treatment>> pairs of them
          Kind,            \* of each run's scenario
          Outcomes,        \* what each attempt of a run can leave behind
          MaxBuilds        \* bound

ASSUME DataPipelineAssumption ==
  /\ Pairs \subseteq Runs \X Runs /\ Kind \in [Runs -> Kinds]
  /\ \A r \in Runs : \A i \in DOMAIN Outcomes[r] :
       Outcomes[r][i] \subseteq [signs : SUBSET Signs, events : SUBSET EventTypes]
  /\ MaxBuilds \in Nat

VARIABLES db,        \* the attempts of each run that the database knows
          raw,       \* run directories: the attempt whose files they hold,
                     \* and how many attempts their exported rows cover
          requests, faults,   \* all_request_logs.csv and all_fault_events.csv
          table,     \* the summaries of the steps
          dated,     \* the runs with a start time, in the TFS and TTR summaries
          final,     \* final_summary.csv
          step, selected, builds,   \* of the build in progress
          fresh      \* whether the last build saw all there is (history)

inputs == <<db, raw>>
exports == <<requests, faults>>
summaries == <<table, dated>>
vars == <<inputs, exports, summaries, final, step, selected, builds, fresh>>

Tables == {"latency", "category", "pa", "tfs", "ttr", "throughput", "slo"}

(* The order of the steps in main(). *)
NextStep == [requests |-> "faults", faults |-> "latency", latency |-> "category", category |-> "pa",
             pa |-> "tfs", tfs |-> "ttr", ttr |-> "throughput", throughput |-> "slo",
             slo |-> "merge", merge |-> "idle"]

NoFiles == [attempt |-> 0, rows |-> 0]
NoRow == [t \in Tables |-> {}]

Init == /\ db = [r \in Runs |-> <<>>]
        /\ raw = [r \in Runs |-> NoFiles]
        /\ requests = [r \in Runs |-> 0] /\ faults = [r \in Runs |-> 0]
        /\ table = [t \in Tables |-> [r \in Runs |-> {}]]
        /\ dated = [m \in {"tfs", "ttr"} |-> {}]
        /\ final = [r \in Runs |-> NoRow]
        /\ step = "idle" /\ selected = {} /\ builds = 0 /\ fresh = FALSE

(* The events and the signs of a run over its first n attempts. *)
Events(r, n) == UNION {db[r][i].events : i \in 1..n}
RowSigns(r, n) ==
  {s \in DOMAIN RowCode \ {"no_latency"} : \E i \in 1..n : s \in db[r][i].signs}
    \cup {s \in {"no_latency"} : n > 0 /\ \A i \in 1..n : s \in db[r][i].signs}

-----------------------------------------------------------------------------
(* The runner and the backend.  When the export into the run directory     *)
(* fails, the rows of an earlier attempt stay there.  An attempt that ends *)
(* during a step that reads neither db nor raw might as well end before    *)
(* the next step that does.                                                *)
Attempt(r) ==
  /\ step \in {"idle", "requests", "faults", "throughput"}
  /\ Len(db[r]) + 1 \in DOMAIN Outcomes[r]
  /\ \E o \in Outcomes[r][Len(db[r]) + 1] : db' = [db EXCEPT ![r] = Append(@, o)]
  /\ \E n \in {raw[r].rows, Len(db'[r])} :
       raw' = [raw EXCEPT ![r] = [attempt |-> Len(db'[r]), rows |-> n]]
  /\ fresh' = FALSE
  /\ UNCHANGED <<exports, summaries, final, step, selected, builds>>

(* raw/ is deleted after post-processing, by hand. *)
DeleteRaw == /\ step = "idle"
             /\ raw' = [r \in Runs |-> NoFiles]
             /\ UNCHANGED <<db, exports, summaries, final, step, selected, builds, fresh>>

(* main(): without a filter, or with SCENARIO, CONDITION and RUN set. *)
StartBuild == /\ step = "idle" /\ builds < MaxBuilds
              /\ \E S \in {Runs} \cup {{r} : r \in Runs} : selected' = S
              /\ step' = "requests" /\ builds' = builds + 1 /\ fresh' = (selected' = Runs)
              /\ UNCHANGED <<inputs, exports, summaries, final>>

Exported == [r \in Runs |-> IF r \in selected THEN Len(db[r]) ELSE 0]

Advance == step' = NextStep[step] /\ UNCHANGED <<inputs, selected, builds>>

ExportRequests == /\ step = "requests"
                  /\ requests' = Exported
                  /\ Advance
                  /\ UNCHANGED <<faults, summaries, final, fresh>>

ExportFaultEvents == /\ step = "faults"
                     /\ faults' = Exported
                     /\ Advance
                     /\ UNCHANGED <<requests, summaries, final, fresh>>

(* write_empty_fault_events leaves a file that is there as it is. *)
KeepFaultEvents == /\ step = "faults"
                   /\ fresh' = FALSE
                   /\ Advance
                   /\ UNCHANGED <<exports, summaries, final>>

(* What each script writes of a run: the exports of the requests that its  *)
(* row is computed from.                                                   *)
RequestsOf(r) == IF requests[r] = 0 THEN {} ELSE {requests[r]}

(* Rows whose latency is no number are passed over, and a run without any  *)
(* latency has no row.                                                     *)
LatencyRow(r) == IF "no_latency" \in RowSigns(r, requests[r]) THEN {} ELSE RequestsOf(r)

(* Every request counts, if only as "other". *)
CategoryRow(r) == RequestsOf(r)

PaRow(r) == table["category"][r]

(* The runs that TFS and TTR are computed for: those with an event to      *)
(* start from.                                                             *)
WithEvent(type) == {r \in Runs : type \in Events(r, faults[r])}
Dated == [tfs |-> WithEvent("fault_injected"), ttr |-> WithEvent("recovery_started")]

(* fill_na_rows gives the other runs that have requests a row without a    *)
(* time; a run with an event but no request has a row that counts none.    *)
TimedRow(r) == RequestsOf(r)

(* scan_raw_dir looks at every run directory, whatever the filter.         *)
ThroughputRow(r) == IF raw[r].attempt = 0 THEN {} ELSE {raw[r].attempt}

(* A run in any of the three summaries; what one of them lacks counts as   *)
(* no violation.                                                           *)
SloRow(r) == UNION {table[t][r] : t \in {"latency", "category", "pa"}}

Computed(t, r) == CASE t = "latency" -> LatencyRow(r)
                    [] t = "category" -> CategoryRow(r)
                    [] t = "pa" -> PaRow(r)
                    [] t \in {"tfs", "ttr"} -> TimedRow(r)
                    [] t = "throughput" -> ThroughputRow(r)
                    [] t = "slo" -> SloRow(r)

Compute ==
  /\ step \in Tables
  /\ table' = [table EXCEPT ![step] = [r \in Runs |-> Computed(step, r)]]
  /\ dated' = [m \in DOMAIN dated |-> IF m = step THEN Dated[m] ELSE dated[m]]
  /\ Advance
  /\ UNCHANGED <<exports, final, fresh>>

(* merge_final: the rows are those of the PA summary, and without any the  *)
(* old file stays.                                                         *)
Merged == [r \in Runs |-> IF table["pa"][r] = {} THEN NoRow ELSE [t \in Tables |-> table[t][r]]]

MergeFinal ==
  /\ step = "merge"
  /\ final' = IF \A r \in Runs : table["pa"][r] = {} THEN final ELSE Merged
  /\ Advance
  /\ UNCHANGED <<exports, summaries, fresh>>

(* Mutation: the exit code of compute_latency is not looked at.            *)
LatencyUnchecked == /\ step = "latency"
                    /\ fresh' = FALSE
                    /\ Advance
                    /\ UNCHANGED <<exports, summaries, final>>

(* A step fails, which run_step turns into the end of the build, or the    *)
(* build is killed.  A file that was being written may be cut off; it      *)
(* matters for the two that are read before they are written again.        *)
StopBuild ==
  /\ step # "idle" /\ step' = "idle" /\ fresh' = FALSE
  /\ \/ UNCHANGED <<faults, final>>
     \/ \E S \in SUBSET Runs :
          \/ /\ step = "faults" /\ UNCHANGED final
             /\ faults' = [r \in Runs |-> IF r \in S THEN Exported[r] ELSE 0]
          \/ /\ step = "merge" /\ UNCHANGED faults
             /\ final' = [r \in Runs |-> IF r \in S THEN Merged[r] ELSE NoRow]
  /\ UNCHANGED <<inputs, requests, summaries, selected, builds>>

Next == \/ \E r \in Runs : Attempt(r)
        \/ DeleteRaw \/ StartBuild
        \/ ExportRequests \/ ExportFaultEvents \/ KeepFaultEvents
        \/ Compute \/ MergeFinal \/ StopBuild

Spec == Init /\ [][Next]_vars

-----------------------------------------------------------------------------
(* What the validators read.  Fault events come from the run directory, or *)
(* else from all_fault_events.csv.                                         *)

(* Mutation: without a run directory there are no events.                  *)
EventsOfDirectory(r) == Events(r, raw[r].rows)

FaultEvents(r) == IF raw[r].rows > 0 THEN Events(r, raw[r].rows) ELSE Events(r, faults[r])

SignsOf(r) ==
  RowSigns(r, raw[r].rows) \cup
    (IF raw[r].attempt = 0 THEN {}
     ELSE db[r][raw[r].attempt].signs \cap (DOMAIN FileCode \cup {"wrong_vu"}))

StatusOf(r) == Status(Kind[r], final[r]["pa"] # {}, final[r]["latency"] # {}, SignsOf(r), FaultEvents(r))

CodesOf(r) == InvalidCodes(Kind[r], SignsOf(r), FaultEvents(r))

-----------------------------------------------------------------------------
(* All that a row of final_summary.csv says of the requests of its run     *)
(* comes from one export: builds that fail half way, are killed or         *)
(* filtered, and runs repeated meanwhile, never mix the numbers of         *)
(* different attempts in a row.                                            *)
OneGeneration ==
  \A r \in Runs : Cardinality(UNION {final[r][t] : t \in Tables \ {"throughput"}}) <= 1

(* A build that has seen all there is. *)
Settled == step = "idle" /\ fresh

(* A pair reported as paired enters the comparison with a p95 and with     *)
(* known times of fault and recovery on both sides: nothing of it was lost *)
(* on the way from the database.                                           *)
PairedIsMeasured ==
  Settled => \A p \in Pairs :
    PairStatus(StatusOf(p[1]), StatusOf(p[2])) = "paired" =>
      \A r \in {p[1], p[2]} :
        /\ final[r]["latency"] = {Len(db[r])}
        /\ Kind[r] # "steady" => r \in dated["tfs"]
        /\ Kind[r] \in {"recovery", "cascade"} => r \in dated["ttr"]

SharedCodes == {"INVALID_K6_LOCATION", "INVALID_MISSING_FAULT_EVENT",
                "INVALID_MISSING_RECOVERY_EVENT", "INVALID_RECOVERY_FAILED"}

(* The two validators are two copies of the rules they share: what the     *)
(* validator lets pass, the invalidator does not flag for its fault events *)
(* or for the place of its load generator.                                 *)
ValidatorsAgree == \A r \in Runs : StatusOf(r) = "VALID" => CodesOf(r) \cap SharedCodes = {}

(* Deleting raw/ after a complete build takes evidence away, but never     *)
(* turns a valid run into an invalid one.                                  *)
DeletionNeverCondemns ==
  [][Settled /\ DeleteRaw => \A r \in Runs : StatusOf(r) = "VALID" => StatusOf(r)' = "VALID"]_vars
=============================================================================
