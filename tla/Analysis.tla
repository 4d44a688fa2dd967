------------------------------ MODULE Analysis ------------------------------
(***************************************************************************)
(* analyze of automation/experimentctl/statistical_analyzer.py: what is    *)
(* tested for each scenario and metric of final_summary.csv, and what the  *)
(* correction for testing many times concludes.                            *)
(*                                                                         *)
(* A cell of final_summary.csv holds a number or none; the cells of a      *)
(* metric are inputs, and so are the p-values that SciPy gives.  They are  *)
(* rounded to six digits before they are corrected: One units are 1, and   *)
(* rounding a corrected one, a multiple of it, only takes away the noise   *)
(* of floating point.                                                      *)
(***************************************************************************)
EXTENDS Integers, Sequences, FiniteSets

CONSTANTS Numbers,      \* run numbers
          NScenarios, NMetrics,
          MinPairs,     \* the least number of pairs for the Wilcoxon test
          Scores,       \* bound: the numbers in the cells
          PValues, One, Alpha

ASSUME AnalysisAssumption ==
  /\ Numbers \in SUBSET Nat /\ MinPairs \in Nat \ {0}
  /\ Scores \in SUBSET Nat
  /\ NScenarios \in Nat /\ NMetrics \in Nat \ {0}
  /\ One \in Nat /\ PValues \in SUBSET (1..One) /\ Alpha \in 1..One - 1

Empty == -1                       \* "N/A", or no such p-value
Conditions == {"static_resilience", "treatment"}
Cell == Scores \cup {Empty}

VARIABLES stage,                  \* what analyze does next
          scenario, metric,       \* where its two loops are
          rows,                   \* the runs of each condition that have a row
          column,                 \* the metric's cell of each of them
          todo,                   \* the common runs not yet paired
          sr_paired, tr_paired,   \* the runs whose number each list holds
          test_records, rejected, \* a p-value each, and what is concluded
          paired                  \* a row of paired_summary.csv

loops == <<scenario, metric>>
lists == <<rows, column, todo, sr_paired, tr_paired>>
results == <<test_records, rejected>>
analysis_vars == <<stage, loops, lists, results, paired>>

NoRows == [c \in Conditions |-> {}]
NoColumn == [c \in Conditions |-> [n \in {} |-> Empty]]

AnalysisInit ==
  /\ stage = "scenario" /\ scenario = 1 /\ metric = 1
  /\ rows = NoRows /\ column = NoColumn
  /\ todo = {} /\ sr_paired = <<>> /\ tr_paired = <<>>
  /\ test_records = <<>> /\ rejected = <<>> /\ paired = <<>>

-----------------------------------------------------------------------------
(* sr_by_run and tr_by_run, without the excluded runs; a scenario without  *)
(* any row is passed over.                                                 *)
ReadScenario ==
  /\ stage = "scenario" /\ scenario <= NScenarios
  /\ \E r \in [Conditions -> SUBSET Numbers] :
       IF \A c \in Conditions : r[c] = {}
       THEN scenario' = scenario + 1 /\ UNCHANGED <<stage, metric, lists>>
       ELSE /\ stage' = "metric" /\ metric' = 1 /\ rows' = r
            /\ UNCHANGED <<scenario, column, todo, sr_paired, tr_paired>>
  /\ UNCHANGED <<results, paired>>

ReadMetric ==
  /\ stage = "metric"
  /\ \E sr \in [rows["static_resilience"] -> Cell], tr \in [rows["treatment"] -> Cell] :
       column' = [c \in Conditions |-> IF c = "treatment" THEN tr ELSE sr]
  /\ todo' = rows["static_resilience"] \cap rows["treatment"]
  /\ stage' = "pair"
  /\ UNCHANGED <<loops, rows, sr_paired, tr_paired, results, paired>>

Sr(n) == column["static_resilience"][n]
Tr(n) == column["treatment"][n]

(* Mutation: each list skips its own gaps.                                 *)
AppendApart(n) ==
  /\ sr_paired' = IF Sr(n) = Empty THEN sr_paired ELSE Append(sr_paired, n)
  /\ tr_paired' = IF Tr(n) = Empty THEN tr_paired ELSE Append(tr_paired, n)

(* The try block: float() of the first cell may raise, and of the second   *)
(* after the first number is on its list.                                  *)
AppendPair(n) ==
  /\ sr_paired' = IF Sr(n) = Empty THEN sr_paired ELSE Append(sr_paired, n)
  /\ tr_paired' = IF Sr(n) = Empty \/ Tr(n) = Empty THEN tr_paired ELSE Append(tr_paired, n)

PairRun ==
  /\ stage = "pair"
  /\ \E n \in todo : /\ \A k \in todo : n <= k
                     /\ AppendPair(n)
                     /\ todo' = todo \ {n}
  /\ UNCHANGED <<stage, loops, rows, column, results, paired>>

(* _wilcoxon_test gives no p-value for too few pairs, lists of different   *)
(* lengths or fewer than two differences.                                  *)
WilcoxonRuns ==
  /\ Len(sr_paired) >= MinPairs /\ Len(sr_paired) = Len(tr_paired)
  /\ Cardinality({i \in 1..Len(sr_paired) : Sr(sr_paired[i]) # Tr(tr_paired[i])}) >= 2

(* _mann_whitney_test takes all the numbers of the metric, paired or not.  *)
MannWhitneyRuns ==
  \A c \in Conditions : Cardinality({n \in rows[c] : column[c][n] # Empty}) >= 2

(* A test that cannot run, or that SciPy refuses, leaves no p-value. *)
TestMetric ==
  LET fewPairs == Len(sr_paired) < MinPairs
      runs == IF fewPairs THEN MannWhitneyRuns ELSE WilcoxonRuns
  IN /\ stage = "pair" /\ todo = {}
     /\ \E p \in (IF runs THEN PValues ELSE {}) \cup {Empty} :
          test_records' = Append(test_records,
            [method |-> IF fewPairs THEN "mann_whitney" ELSE "wilcoxon", p |-> p])
     /\ stage' = "tested"
     /\ UNCHANGED <<loops, lists, rejected, paired>>

NextMetric ==
  /\ stage = "tested"
  /\ IF metric < NMetrics
     THEN metric' = metric + 1 /\ stage' = "metric" /\ UNCHANGED scenario
     ELSE scenario' = scenario + 1 /\ stage' = "scenario" /\ UNCHANGED metric
  /\ rows' = IF metric < NMetrics THEN rows ELSE NoRows
  /\ column' = NoColumn /\ sr_paired' = <<>> /\ tr_paired' = <<>>   \* not read again
  /\ UNCHANGED <<todo, results, paired>>

-----------------------------------------------------------------------------
(* _holm_bonferroni over the p-values of all tests: the ones that exist    *)
(* are ranked, ties in the order of the list; m counts the others too.     *)
Valid(p) == {i \in DOMAIN p : p[i] # Empty}

Rank(p, i) == Cardinality({j \in Valid(p) : p[j] < p[i] \/ (p[j] = p[i] /\ j < i)})

Larger(a, b) == IF a < b THEN b ELSE a
Smaller(a, b) == IF a < b THEN a ELSE b

(* Mutation: an adjusted value may be below that of a smaller p-value.     *)
AdjustedAlone(p) ==
  [k \in 0..Cardinality(Valid(p)) - 1 |->
     LET i == CHOOSE i \in Valid(p) : Rank(p, i) = k IN Smaller(One, (Len(p) - k) * p[i])]

(* The loop over the ranks, with prev_adj. *)
Adjusted(p) ==
  LET adj[k \in 0..Cardinality(Valid(p)) - 1] ==
        LET i == CHOOSE i \in Valid(p) : Rank(p, i) = k
            a == Smaller(One, (Len(p) - k) * p[i])
        IN IF k = 0 THEN a ELSE Larger(a, adj[k - 1])
  IN adj

CorrectTests ==
  LET p == [i \in 1..Len(test_records) |-> test_records[i].p]
      adjusted == Adjusted(p)
  IN /\ stage = "scenario" /\ scenario > NScenarios
     /\ rejected' = [i \in DOMAIN p |-> i \in Valid(p) /\ adjusted[Rank(p, i)] <= Alpha]
     /\ stage' = "paired"
     /\ UNCHANGED <<loops, lists, test_records, paired>>

(* _write_paired_summary, for one of its rows: the score of a run under    *)
(* either condition.  A row that is missing is {}, whose cell is none, and *)
(* slo_violations, the second choice, is no column of final_summary.csv.   *)
FirstScore(cell) == IF cell \in {Empty, 0} THEN Empty ELSE cell

WritePair ==
  /\ stage = "paired"
  /\ \E cell \in [Conditions -> Cell] :
       LET sr == FirstScore(cell["static_resilience"])
           tr == FirstScore(cell["treatment"])
       IN paired' = <<[summary |-> cell, static_slo_score |-> sr, treatment_slo_score |-> tr,
                       has_delta |-> sr # Empty /\ tr # Empty]>>
  /\ stage' = "done"
  /\ UNCHANGED <<loops, lists, results>>

AnalysisNext == \/ ReadScenario \/ ReadMetric \/ PairRun \/ TestMetric \/ NextMetric
                \/ CorrectTests \/ WritePair

AnalysisSpec == AnalysisInit /\ [][AnalysisNext]_analysis_vars

-----------------------------------------------------------------------------
(* A Wilcoxon p-value comes from the runs that have both numbers, all of   *)
(* them, each number beside the other of its run: a number that is missing *)
(* in the middle of the loop never shifts one list against the other.      *)
PairsMatched ==
  stage = "tested" /\ test_records[Len(test_records)].method = "wilcoxon"
                   /\ test_records[Len(test_records)].p # Empty =>
    /\ sr_paired = tr_paired
    /\ {sr_paired[i] : i \in 1..Len(sr_paired)}
         = {n \in rows["static_resilience"] \cap rows["treatment"] : Sr(n) # Empty /\ Tr(n) # Empty}

(* What is called significant is what Holm's step-down procedure rejects,  *)
(* over as many hypotheses as there are tests: a p-value, and every        *)
(* smaller one, is small enough for the number of tests not below it.  One *)
(* that just meets the level is rejected, as `adjusted[i] <= alpha` has it.*)
HolmIsStepDown ==
  stage = "paired" =>
    LET p == [i \in 1..Len(test_records) |-> test_records[i].p]
        m == Len(p)
        Below(j) == Cardinality({l \in Valid(p) : p[l] < p[j]})
    IN \A i \in 1..m :
         rejected[i] <=>
           /\ i \in Valid(p)
           /\ \A j \in Valid(p) : p[j] <= p[i] => (m - Below(j)) * p[j] <= Alpha

(* data_dictionary.md: static_slo_score is the score of the static         *)
(* condition, treatment_slo_score that of the treatment.                   *)
ScoresCarriedOver ==
  stage = "done" => /\ paired[1].static_slo_score = paired[1].summary["static_resilience"]
                    /\ paired[1].treatment_slo_score = paired[1].summary["treatment"]
=============================================================================
