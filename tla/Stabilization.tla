--------------------------- MODULE Stabilization ---------------------------
(***************************************************************************)
(* Time-to-fallback-stabilization and time-to-recovery of one run, as      *)
(* compute_tfs.py and compute_ttr.py take them from the run's request log  *)
(* and its fault events (experiments/postprocess/).                        *)
(*                                                                         *)
(* find_stabilization_point is a loop over the rows in the order of their  *)
(* time; an action here is one turn of it, for both metrics.  They share   *)
(* no variable, so that the two scripts run one after the other makes no   *)
(* difference.  Times are positive; None stands for no time at all.        *)
(***************************************************************************)
EXTENDS Naturals, Sequences, FiniteSets

CONSTANTS Window,   \* STABILITY_WINDOW
          MaxGap,   \* STABILITY_MAX_GAP_SECONDS
          MaxTime,  \* bound: times considered
          MaxRows   \* bound: length of the log

ASSUME StabilizationAssumption ==
  Window \in Nat \ {0} /\ MaxGap \in Nat /\ MaxTime \in Nat /\ MaxRows \in Nat

None == 0
Time == 1..MaxTime
Metrics == {"tfs", "ttr"}

(* A row of the log.  A full response has no fallback, a partial one has   *)
(* (ResponseCoherent of ResponseContract).                                 *)
Row == {r \in [ts : Time, category : {"full", "partial", "failure"}, fallback_active : BOOLEAN] :
          /\ r.category = "full" => ~r.fallback_active
          /\ r.category = "partial" => r.fallback_active}

VARIABLES start,   \* where each metric begins: the fault, the recovery
          log,     \* the rows read so far
          streak, last_success_ts, found   \* the loop's locals, and what it returns

vars == <<start, log, streak, last_success_ts, found>>

-----------------------------------------------------------------------------
IsEarliest(t, times) == IF times = {} THEN t = None ELSE t \in times /\ \A u \in times : t <= u

(* compute_ttr: recovery_started events of target "all", or of any target  *)
(* when there is none; an event is a <<time, target>> pair.                *)
RecoveryTimes(events) ==
  LET all == {e \in events : e[2] = "all"}
  IN {e[1] : e \in IF all # {} THEN all ELSE events}

(* Each metric begins with the first of its events: a repeated run leaves  *)
(* several under one key.                                                  *)
Init == /\ start \in [Metrics -> {None} \cup Time]
        /\ \E faults \in SUBSET Time : Cardinality(faults) <= 2 /\ IsEarliest(start["tfs"], faults)
        /\ \E events \in SUBSET (Time \X {"all", "worker"}) :
             Cardinality(events) <= 2 /\ IsEarliest(start["ttr"], RecoveryTimes(events))
        /\ log = <<>>
        /\ streak = [m \in Metrics |-> 0]
        /\ last_success_ts = [m \in Metrics |-> None]
        /\ found = [m \in Metrics |-> None]

(* Mutation: a stabilized run answers with the fallback only.              *)
SucceedsByFallback(m, r) == IF m = "tfs" THEN r.category = "partial"
                                         ELSE r.category = "full" /\ ~r.fallback_active

(* success_fn of the two scripts. *)
Succeeds(m, r) == IF m = "tfs" THEN r.category \in {"full", "partial"}
                               ELSE r.category = "full" /\ ~r.fallback_active

(* The rows of `after`; a metric without its event reads none. *)
Counts(m, r) == start[m] # None /\ r.ts >= start[m]

(* Mutation: a gap resets the streak and the row that ends it.             *)
StreakLosingRow(m, r) ==
  IF last_success_ts[m] # None /\ r.ts - last_success_ts[m] > MaxGap THEN 0 ELSE streak[m] + 1

StreakWith(m, r) ==
  IF last_success_ts[m] # None /\ r.ts - last_success_ts[m] > MaxGap THEN 1 ELSE streak[m] + 1

(* Whether the loop still runs when it comes to this row, and takes it. *)
Takes(m, r) == found[m] = None /\ Counts(m, r)

Read(r) ==
  /\ Len(log) < MaxRows
  /\ log # <<>> => r.ts >= log[Len(log)].ts
  /\ log' = Append(log, r)
  /\ streak' = [m \in Metrics |->
        IF ~Takes(m, r) THEN streak[m] ELSE IF Succeeds(m, r) THEN StreakWith(m, r) ELSE 0]
  /\ last_success_ts' = [m \in Metrics |->
        IF ~Takes(m, r) THEN last_success_ts[m] ELSE IF Succeeds(m, r) THEN r.ts ELSE None]
  /\ found' = [m \in Metrics |->
        IF Takes(m, r) /\ Succeeds(m, r) /\ StreakWith(m, r) >= Window THEN r.ts ELSE found[m]]
  /\ UNCHANGED start

Next == \E r \in Row : Read(r)

Spec == Init /\ [][Next]_vars

-----------------------------------------------------------------------------
(* The definition the docstrings give: row i ends a window of successful   *)
(* rows, each at most MaxGap after the one before.                         *)
StableAt(m, i) ==
  /\ i >= Window
  /\ \A k \in (i - Window) + 1 .. i : Counts(m, log[k]) /\ Succeeds(m, log[k])
  /\ \A k \in (i - Window) + 2 .. i : log[k].ts - log[k - 1].ts <= MaxGap

(* The loop's counters find exactly the first stable row: none is missed   *)
(* because of a reset too many, none reported because of one too few.      *)
FindsFirstWindow ==
  \A m \in Metrics :
    LET stable == {i \in 1..Len(log) : StableAt(m, i)}
    IN found[m] = IF stable = {} THEN None
                  ELSE log[CHOOSE i \in stable : \A j \in stable : i <= j].ts

(* TTR asks more of a response than TFS and begins later, so a run that    *)
(* has recovered has also stabilized, no later: the two columns of         *)
(* final_summary.csv never contradict each other.                          *)
RecoveredMeansStabilized ==
  found["ttr"] # None /\ start["tfs"] # None /\ start["tfs"] <= start["ttr"] =>
    found["tfs"] # None /\ found["tfs"] <= found["ttr"]
=============================================================================
