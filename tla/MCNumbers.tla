----------------------------- MODULE MCNumbers -----------------------------
(***************************************************************************)
(* For TLC: the three parts of the path from a request to a conclusion     *)
(* that compute and keep nothing between them.  ResponseContract gives a   *)
(* response its category, Stabilization reads the categories of a run's    *)
(* log, Analysis compares the metrics of many runs.  Each takes every      *)
(* input within its bounds, so none has to be fed by the one before, and a *)
(* behaviour is that of one part while the others stay as they are.        *)
(***************************************************************************)
EXTENDS Stabilization, Analysis

CONSTANTS Services, MaxRequested

VARIABLES part, settings, request, response

Response == INSTANCE ResponseContract

response_vars == <<settings, request, response>>

ResponseIdle == /\ settings = Response!Nothing
                /\ request = Response!Nothing
                /\ response = Response!Nothing

StabilizationIdle == /\ start = [m \in Metrics |-> None]
                     /\ log = <<>>
                     /\ streak = [m \in Metrics |-> 0]
                     /\ last_success_ts = [m \in Metrics |-> None]
                     /\ found = [m \in Metrics |-> None]

NumbersInit ==
  \/ part = "response" /\ Response!Init /\ StabilizationIdle /\ AnalysisInit
  \/ part = "stabilization" /\ ResponseIdle /\ Init /\ AnalysisInit
  \/ part = "analysis" /\ ResponseIdle /\ StabilizationIdle /\ AnalysisInit

NumbersNext ==
  \/ part = "response" /\ Response!Next /\ UNCHANGED <<part, vars, analysis_vars>>
  \/ part = "stabilization" /\ Next /\ UNCHANGED <<part, response_vars, analysis_vars>>
  \/ part = "analysis" /\ AnalysisNext /\ UNCHANGED <<part, response_vars, vars>>

NumbersSpec ==
  NumbersInit /\ [][NumbersNext]_<<part, response_vars, vars, analysis_vars>>

(* The properties of ResponseContract: the table of ADR-004, ...           *)
ContractTable == Response!ContractTable

(* ... that a request is flagged only when its label contradicts the       *)
(* process that answers it, ...                                            *)
FlagMeansMislabelled == Response!FlagMeansMislabelled

(* ... and that the parts of a response agree.                             *)
ResponseCoherent == Response!ResponseCoherent
=============================================================================
