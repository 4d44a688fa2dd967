------------------------- MODULE DataPipelineProofs -------------------------
(***************************************************************************)
(* That a row of final_summary.csv never mixes exports, and what the       *)
(* verdicts of the validators are worth, for any runs, outcomes and number *)
(* of builds.                                                              *)
(*                                                                         *)
(* The first invariant, PipelineInv: the steps of the current build that   *)
(* are over have all worked on the export this build began with, which     *)
(* nothing replaces before the build has ended.  The second, BuildInv:     *)
(* while nothing has happened since a full build began, its exports are    *)
(* all the database knows, and what is computed from them is too.          *)
(***************************************************************************)
EXTENDS DataPipeline, FiniteSetTheorems, TLAPS

FromRequests == Tables \ {"throughput"}

(* The tables of the requests that are up to date when step s is next. *)
Done(s) ==
  {t \in FromRequests :
     \/ t = "latency" /\ s \in {"category", "pa", "tfs", "ttr", "throughput", "slo", "merge"}
     \/ t = "category" /\ s \in {"pa", "tfs", "ttr", "throughput", "slo", "merge"}
     \/ t = "pa" /\ s \in {"tfs", "ttr", "throughput", "slo", "merge"}
     \/ t = "tfs" /\ s \in {"ttr", "throughput", "slo", "merge"}
     \/ t = "ttr" /\ s \in {"throughput", "slo", "merge"}
     \/ t = "slo" /\ s = "merge"}

StepTyped == step \in DOMAIN NextStep \cup {"idle"}
TablesTyped == DOMAIN table = Tables /\ \A t \in Tables : DOMAIN table[t] = Runs
FinalTyped == DOMAIN final = Runs

UpToDate == \A t \in Done(step), r \in Runs : table[t][r] \subseteq {requests[r]}

RowsWhole == \A r \in Runs : \E g : \A t \in FromRequests : final[r][t] \subseteq {g}

PipelineInv == StepTyped /\ TablesTyped /\ FinalTyped /\ UpToDate /\ RowsWhole

-----------------------------------------------------------------------------
LEMMA InitPipeline == Init => PipelineInv
<1> SUFFICES ASSUME Init PROVE PipelineInv
  OBVIOUS
<1>1. StepTyped /\ TablesTyped /\ FinalTyped
  BY DEF Init, StepTyped, TablesTyped, FinalTyped
<1>2. UpToDate
  BY DEF Init, UpToDate, Done
<1>3. RowsWhole
  BY DEF Init, RowsWhole, NoRow, FromRequests
<1> QED BY <1>1, <1>2, <1>3 DEF PipelineInv

(* The row that merge_final writes, from up-to-date tables. *)
LEMMA MergedWhole ==
  ASSUME PipelineInv, step = "merge"
  PROVE  \A r \in Runs : \E g : \A t \in FromRequests : Merged[r][t] \subseteq {g}
<1> SUFFICES ASSUME NEW r \in Runs
             PROVE  \A t \in FromRequests : Merged[r][t] \subseteq {requests[r]}
  OBVIOUS
<1>1. \A t \in FromRequests : t \in Done("merge")
  BY DEF FromRequests, Tables, Done
<1>2. \A t \in FromRequests : table[t][r] \subseteq {requests[r]}
  BY <1>1 DEF PipelineInv, UpToDate
<1> QED BY <1>2 DEF Merged, NoRow, FromRequests

(* One of the scripts.                                                     *)
LEMMA ComputeUpToDate ==
  ASSUME PipelineInv, Compute
  PROVE  UpToDate'
<1>1. /\ step \in Tables /\ step' = NextStep[step] /\ requests' = requests
      /\ table' = [table EXCEPT ![step] = [r \in Runs |-> Computed(step, r)]]
      /\ DOMAIN table = Tables
  BY DEF Compute, Advance, exports, PipelineInv, TablesTyped
<1>2. Done(step') \subseteq Done(step) \cup {step}
  BY <1>1 DEF NextStep, Tables, Done
<1>3. ASSUME NEW r \in Runs, step \in FromRequests
      PROVE  Computed(step, r) \subseteq {requests[r]}
  <2>1. CASE step = "latency"
    BY <2>1 DEF Computed, LatencyRow, RequestsOf
  <2>2. CASE step \in {"category", "tfs", "ttr"}
    BY <2>2 DEF Computed, CategoryRow, TimedRow, RequestsOf
  <2>3. CASE step = "pa"
    <3>1. table["category"][r] \subseteq {requests[r]}
      BY <2>3 DEF PipelineInv, UpToDate, Done, FromRequests, Tables
    <3> QED BY <2>3, <3>1 DEF Computed, PaRow
  <2>4. CASE step = "slo"
    <3>1. \A t \in {"latency", "category", "pa"} : table[t][r] \subseteq {requests[r]}
      BY <2>4 DEF PipelineInv, UpToDate, Done, FromRequests, Tables
    <3> QED BY <2>4, <3>1 DEF Computed, SloRow
  <2> QED BY <1>3, <2>1, <2>2, <2>3, <2>4 DEF FromRequests, Tables
<1>4. ASSUME NEW t \in Done(step'), NEW r \in Runs
      PROVE  table'[t][r] \subseteq {requests[r]}
  <2>1. t \in FromRequests /\ t \in Tables
    BY <1>4 DEF Done, FromRequests
  <2>2. CASE t = step
    BY <1>1, <1>3, <2>1, <2>2
  <2>3. CASE t # step
    <3>1. table'[t] = table[t] /\ t \in Done(step)
      BY <1>1, <1>2, <2>1, <2>3
    <3> QED BY <3>1 DEF PipelineInv, UpToDate
  <2> QED BY <2>2, <2>3
<1> QED BY <1>1, <1>4 DEF UpToDate

LEMMA StepPipeline == PipelineInv /\ [Next]_vars => PipelineInv'
<1> SUFFICES ASSUME PipelineInv, [Next]_vars PROVE PipelineInv'
  OBVIOUS
<1> USE DEF PipelineInv
<1>1. CASE UNCHANGED vars
  BY <1>1 DEF vars, inputs, exports, summaries, StepTyped, TablesTyped, FinalTyped, UpToDate, RowsWhole
<1>2. CASE \E r \in Runs : Attempt(r)
  BY <1>2 DEF Attempt, exports, summaries, StepTyped, TablesTyped, FinalTyped, UpToDate, RowsWhole
<1>3. CASE DeleteRaw
  BY <1>3 DEF DeleteRaw, exports, summaries, StepTyped, TablesTyped, FinalTyped, UpToDate, RowsWhole
<1>4. CASE StartBuild
  <2>1. step' = "requests" /\ UNCHANGED <<requests, table, final>>
    BY <1>4 DEF StartBuild, exports, summaries
  <2>2. UpToDate'
    BY <2>1 DEF UpToDate, Done
  <2> QED BY <2>1, <2>2 DEF StepTyped, TablesTyped, FinalTyped, RowsWhole, NextStep
<1>5. CASE ExportRequests \/ ExportFaultEvents \/ KeepFaultEvents
  <2>1. step' \in {"faults", "latency"} /\ UNCHANGED <<table, final>>
    BY <1>5 DEF ExportRequests, ExportFaultEvents, KeepFaultEvents, Advance, NextStep, summaries
  <2>2. UpToDate'
    BY <2>1 DEF UpToDate, Done
  <2> QED BY <2>1, <2>2 DEF StepTyped, TablesTyped, FinalTyped, RowsWhole, NextStep
<1>6. CASE Compute
  <2>1. StepTyped'
    BY <1>6 DEF Compute, Advance, Tables, NextStep, StepTyped
  <2>2. TablesTyped'
    BY <1>6 DEF Compute, TablesTyped
  <2>3. final' = final
    BY <1>6 DEF Compute
  <2> QED BY <1>6, <2>1, <2>2, <2>3, ComputeUpToDate DEF FinalTyped, RowsWhole
<1>7. CASE MergeFinal
  <2>1. /\ step = "merge" /\ step' = "idle" /\ UNCHANGED table
        /\ final' = final \/ final' = Merged
    BY <1>7 DEF MergeFinal, Advance, NextStep, summaries
  <2>2. UpToDate'
    BY <2>1 DEF UpToDate, Done
  <2>3. RowsWhole'
    BY <2>1, MergedWhole DEF RowsWhole
  <2> QED BY <2>1, <2>2, <2>3 DEF StepTyped, TablesTyped, FinalTyped, Merged
<1>8. CASE StopBuild
  <2>1. step' = "idle" /\ UNCHANGED table
    BY <1>8 DEF StopBuild, summaries
  <2>2. UpToDate'
    BY <2>1 DEF UpToDate, Done
  <2>3. \/ final' = final
        \/ step = "merge" /\ \E S \in SUBSET Runs : final' = [r \in Runs |-> IF r \in S THEN Merged[r] ELSE NoRow]
    BY <1>8 DEF StopBuild
  <2>4. RowsWhole' /\ FinalTyped'
    <3>1. CASE final' = final
      BY <3>1 DEF RowsWhole, FinalTyped
    <3>2. CASE step = "merge" /\ \E S \in SUBSET Runs : final' = [r \in Runs |-> IF r \in S THEN Merged[r] ELSE NoRow]
      <4>1. \A r \in Runs : final'[r] = Merged[r] \/ final'[r] = NoRow
        BY <3>2
      <4>2. \A t \in FromRequests : NoRow[t] = {}
        BY DEF NoRow, FromRequests
      <4> QED BY <3>2, <4>1, <4>2, MergedWhole DEF RowsWhole, FinalTyped
    <3> QED BY <2>3, <3>1, <3>2
  <2> QED BY <2>1, <2>2, <2>4 DEF StepTyped, TablesTyped
<1> QED BY <1>1, <1>2, <1>3, <1>4, <1>5, <1>6, <1>7, <1>8 DEF Next

(* A row of final_summary.csv speaks of one export of the requests.        *)
THEOREM RowsAreOfOneGeneration == Spec => []OneGeneration
<1>1. PipelineInv => OneGeneration
  <2> SUFFICES ASSUME PipelineInv, NEW r \in Runs
               PROVE  Cardinality(UNION {final[r][t] : t \in FromRequests}) <= 1
    BY DEF OneGeneration, FromRequests
  <2>1. PICK g : \A t \in FromRequests : final[r][t] \subseteq {g}
    BY DEF PipelineInv, RowsWhole
  <2>2. UNION {final[r][t] : t \in FromRequests} \subseteq {g}
    BY <2>1
  <2>3. IsFiniteSet({g}) /\ Cardinality({g}) = 1
    BY FS_Singleton
  <2>4. Cardinality(UNION {final[r][t] : t \in FromRequests}) <= Cardinality({g})
    BY <2>2, <2>3, FS_Subset
  <2> QED BY <2>3, <2>4
<1> QED BY <1>1, InitPipeline, StepPipeline, PTL DEF Spec

-----------------------------------------------------------------------------
(* What the validator lets pass, the invalidator does not flag for its     *)
(* fault events or the place of its load generator, whatever a run leaves. *)
THEOREM ValidatorsNeverDisagree == Spec => []ValidatorsAgree
<1>1. ValidatorsAgree
  <2> SUFFICES ASSUME NEW r \in Runs, StatusOf(r) = "VALID" PROVE CodesOf(r) \cap SharedCodes = {}
    BY DEF ValidatorsAgree
  <2> DEFINE k == Kind[r]
             signs == SignsOf(r)
             events == FaultEvents(r)
  <2>1. "on_vps" \notin signs /\ ~EventsMissing(k, events)
    BY DEF StatusOf, Status
  <2>2. EventCodes(k, events) = {}
    BY <2>1 DEF EventCodes, EventsMissing
  <2>3. \A s \in signs \cap DOMAIN FileCode : FileCode[s] \notin SharedCodes
    BY <2>1 DEF FileCode, SharedCodes
  <2>4. \A s \in signs \cap DOMAIN RowCode : RowCode[s] \notin SharedCodes
    BY DEF RowCode, SharedCodes
  <2> QED BY <2>2, <2>3, <2>4 DEF CodesOf, InvalidCodes
<1> QED BY <1>1, PTL

-----------------------------------------------------------------------------
Outcome == [signs : SUBSET Signs, events : SUBSET EventTypes]

DbTyped == db \in [Runs -> Seq(Outcome)]

(* The directories and exports hold attempts that the database has.        *)
FilesWithin == /\ raw \in [Runs -> [attempt : Nat, rows : Nat]]
               /\ requests \in [Runs -> Nat] /\ faults \in [Runs -> Nat]
               /\ \A r \in Runs : raw[r].rows <= Len(db[r]) /\ requests[r] <= Len(db[r])

AfterPa == {"tfs", "ttr", "throughput", "slo", "merge"}
AfterTfs == {"ttr", "throughput", "slo", "merge", "idle"}
AfterTtr == {"throughput", "slo", "merge", "idle"}

(* A run with requests is never left out of the summary of its build.      *)
NobodyLost == \A r \in Runs : /\ step \in AfterPa \cup {"pa"} => table["category"][r] = RequestsOf(r)
                              /\ step \in AfterPa => table["pa"][r] = RequestsOf(r)

(* Only runs that were made have a row. *)
RowsOfRuns == \A r \in Runs : final[r]["pa"] # {} => Len(db[r]) > 0

Complete == fresh =>
  /\ selected = Runs
  /\ step # "requests" => \A r \in Runs : requests[r] = Len(db[r])
  /\ step \notin {"requests", "faults"} => \A r \in Runs : faults[r] = Len(db[r])
  /\ step \in AfterTfs => dated["tfs"] = WithEvent("fault_injected")
  /\ step \in AfterTtr => dated["ttr"] = WithEvent("recovery_started")
  /\ step = "idle" => \A r \in Runs : final[r]["pa"] # {} => final[r]["latency"] \subseteq {Len(db[r])}

BuildInv == /\ PipelineInv
            /\ DbTyped /\ FilesWithin /\ DOMAIN dated = {"tfs", "ttr"}
            /\ NobodyLost /\ RowsOfRuns /\ Complete

LEMMA InitBuild == Init => BuildInv
<1> SUFFICES ASSUME Init PROVE BuildInv
  OBVIOUS
<1>1. DbTyped
  BY DEF Init, DbTyped
<1>2. FilesWithin
  BY DEF Init, FilesWithin, NoFiles
<1>3. NobodyLost /\ RowsOfRuns /\ Complete /\ DOMAIN dated = {"tfs", "ttr"}
  BY DEF Init, NobodyLost, RowsOfRuns, Complete, NoRow, AfterPa, Tables
<1> QED BY <1>1, <1>2, <1>3, InitPipeline DEF BuildInv

(* A step that leaves alone what the database knows. *)
LEMMA SameEvents ==
  ASSUME UNCHANGED <<db, faults>>
  PROVE  \A type : WithEvent(type)' = WithEvent(type)
BY DEF WithEvent, Events

LEMMA AttemptBuild ==
  ASSUME BuildInv, NEW q \in Runs, Attempt(q)
  PROVE  DbTyped' /\ FilesWithin' /\ NobodyLost' /\ RowsOfRuns' /\ Complete'
<1>1. PICK o \in Outcomes[q][Len(db[q]) + 1] : db' = [db EXCEPT ![q] = Append(@, o)]
  BY DEF Attempt
<1>2. o \in Outcome
  BY DataPipelineAssumption DEF Attempt, Outcome
<1>3. DbTyped' /\ \A r \in Runs : /\ Len(db[r]) \in Nat /\ Len(db'[r]) \in Nat
                                  /\ Len(db[r]) <= Len(db'[r])
  BY <1>1, <1>2 DEF BuildInv, DbTyped
<1>4. FilesWithin'
  <2>1. PICK n \in {raw[q].rows, Len(db'[q])} : raw' = [raw EXCEPT ![q] = [attempt |-> Len(db'[q]), rows |-> n]]
    BY DEF Attempt
  <2>2. n \in Nat /\ n <= Len(db'[q])
    <3>1. raw[q].rows \in Nat /\ raw[q].rows <= Len(db[q])
      BY DEF BuildInv, FilesWithin
    <3> QED BY <3>1, <1>3, <2>1
  <2> QED BY <1>3, <2>1, <2>2 DEF BuildInv, FilesWithin, Attempt, exports
<1>5. UNCHANGED <<requests, table, final, step>> /\ ~fresh'
  BY DEF Attempt, exports, summaries
<1>6. NobodyLost'
  BY <1>5 DEF BuildInv, NobodyLost, RequestsOf
<1>7. RowsOfRuns'
  BY <1>3, <1>5 DEF BuildInv, RowsOfRuns
<1>8. Complete'
  BY <1>5 DEF Complete
<1> QED BY <1>3, <1>4, <1>6, <1>7, <1>8

(* The steps that export, and what begins a build. *)
LEMMA ExportBuild ==
  ASSUME BuildInv, StartBuild \/ ExportRequests \/ ExportFaultEvents \/ KeepFaultEvents
  PROVE  DbTyped' /\ FilesWithin' /\ NobodyLost' /\ RowsOfRuns' /\ Complete'
<1>1. UNCHANGED <<db, raw, table, dated, final>>
  BY DEF StartBuild, ExportRequests, ExportFaultEvents, KeepFaultEvents, Advance, inputs, summaries
<1>2. step' \in {"requests", "faults", "latency"}
  BY DEF StartBuild, ExportRequests, ExportFaultEvents, KeepFaultEvents, Advance, NextStep
<1>3. \A r \in Runs : Len(db[r]) \in Nat
  BY DEF BuildInv, DbTyped
<1>4. FilesWithin'
  BY <1>1, <1>3 DEF BuildInv, FilesWithin, StartBuild, ExportRequests, ExportFaultEvents, KeepFaultEvents,
                    Exported, exports
<1>5. NobodyLost' /\ RowsOfRuns'
  BY <1>1, <1>2 DEF BuildInv, NobodyLost, RowsOfRuns, AfterPa
<1>6. Complete'
  <2>1. CASE StartBuild
    BY <2>1, <1>2 DEF StartBuild, Complete, AfterTfs, AfterTtr
  <2>2. CASE ExportRequests
    BY <2>2, <1>1, <1>3 DEF BuildInv, ExportRequests, Advance, NextStep, Exported, Complete, AfterTfs, AfterTtr
  <2>3. CASE ExportFaultEvents
    BY <2>3, <1>1, <1>3 DEF BuildInv, ExportFaultEvents, Advance, NextStep, Exported, Complete, AfterTfs, AfterTtr
  <2>4. CASE KeepFaultEvents
    BY <2>4 DEF KeepFaultEvents, Complete
  <2> QED BY <2>1, <2>2, <2>3, <2>4
<1> QED BY <1>1, <1>4, <1>5, <1>6 DEF BuildInv, DbTyped

LEMMA ComputeBuild ==
  ASSUME BuildInv, Compute
  PROVE  DbTyped' /\ FilesWithin' /\ DOMAIN dated' = {"tfs", "ttr"} /\ NobodyLost' /\ RowsOfRuns' /\ Complete'
<1>1. UNCHANGED <<db, raw, requests, faults, final, selected, fresh>>
  BY DEF Compute, Advance, inputs, exports
<1>2. /\ step \in Tables /\ step' = NextStep[step]
      /\ table' = [table EXCEPT ![step] = [r \in Runs |-> Computed(step, r)]]
      /\ dated' = [m \in DOMAIN dated |-> IF m = step THEN Dated[m] ELSE dated[m]]
      /\ DOMAIN table = Tables /\ DOMAIN dated = {"tfs", "ttr"}
  BY DEF Compute, Advance, BuildInv, PipelineInv, TablesTyped
<1>3. DbTyped' /\ FilesWithin' /\ RowsOfRuns' /\ DOMAIN dated' = {"tfs", "ttr"}
  BY <1>1, <1>2 DEF BuildInv, DbTyped, FilesWithin, RowsOfRuns
<1>4. NobodyLost'
  <2> SUFFICES ASSUME NEW r \in Runs
               PROVE  /\ step' \in AfterPa \cup {"pa"} => table'["category"][r] = RequestsOf(r)
                      /\ step' \in AfterPa => table'["pa"][r] = RequestsOf(r)
    BY <1>1 DEF NobodyLost, RequestsOf
  <2>1. CASE step = "latency"
    BY <2>1, <1>2 DEF NextStep, AfterPa
  <2>2. CASE step = "category"
    <3>1. step' = "pa" /\ table'["category"][r] = RequestsOf(r)
      BY <2>2, <1>2 DEF NextStep, Computed, CategoryRow, Tables
    <3> QED BY <3>1 DEF AfterPa
  <2>3. CASE step = "pa"
    <3>1. step \in AfterPa \cup {"pa"} /\ table["category"][r] = RequestsOf(r)
      BY <2>3 DEF BuildInv, NobodyLost
    <3>2. table'["pa"][r] = table["category"][r] /\ table'["category"] = table["category"]
      BY <2>3, <1>2 DEF Computed, PaRow, Tables
    <3> QED BY <3>1, <3>2
  <2>4. CASE step \in Tables \ {"latency", "category", "pa"}
    <3>1. step \in AfterPa /\ table["category"][r] = RequestsOf(r) /\ table["pa"][r] = RequestsOf(r)
      BY <2>4 DEF BuildInv, NobodyLost, AfterPa, Tables
    <3>2. table'["pa"] = table["pa"] /\ table'["category"] = table["category"]
      BY <2>4, <1>2 DEF Tables
    <3> QED BY <3>1, <3>2
  <2> QED BY <1>2, <2>1, <2>2, <2>3, <2>4 DEF Tables
<1>5. Complete'
  <2> SUFFICES ASSUME fresh PROVE Complete'
    BY <1>1 DEF Complete
  <2>1. step \notin {"requests", "faults", "idle"} /\ step' \notin {"requests", "faults", "idle"}
    BY <1>2 DEF Tables, NextStep
  <2>2. /\ selected' = Runs
        /\ \A r \in Runs : requests'[r] = Len(db'[r]) /\ faults'[r] = Len(db'[r])
    BY <1>1, <2>1 DEF BuildInv, Complete
  <2>3. \A type : WithEvent(type)' = WithEvent(type)
    BY <1>1, SameEvents
  <2>4. step' \in AfterTfs => dated'["tfs"] = WithEvent("fault_injected")
    <3>1. CASE step = "tfs"
      BY <3>1, <1>2 DEF Dated
    <3>2. CASE step # "tfs"
      <4>1. step' \in AfterTfs => step \in AfterTfs
        BY <3>2, <1>2 DEF Tables, NextStep, AfterTfs
      <4> QED BY <4>1, <3>2, <1>2 DEF BuildInv, Complete
    <3> QED BY <3>1, <3>2
  <2>5. step' \in AfterTtr => dated'["ttr"] = WithEvent("recovery_started")
    <3>1. CASE step = "ttr"
      BY <3>1, <1>2 DEF Dated
    <3>2. CASE step # "ttr"
      <4>1. step' \in AfterTtr => step \in AfterTtr
        BY <3>2, <1>2 DEF Tables, NextStep, AfterTtr
      <4> QED BY <4>1, <3>2, <1>2 DEF BuildInv, Complete
    <3> QED BY <3>1, <3>2
  <2> QED BY <2>1, <2>2, <2>3, <2>4, <2>5 DEF Complete
<1> QED BY <1>3, <1>4, <1>5

(* What merge_final writes, and what a killed one leaves. *)
LEMMA MergeBuild ==
  ASSUME BuildInv, MergeFinal \/ StopBuild
  PROVE  DbTyped' /\ FilesWithin' /\ DOMAIN dated' = {"tfs", "ttr"} /\ NobodyLost' /\ RowsOfRuns' /\ Complete'
<1>1. UNCHANGED <<db, raw, requests, table, dated, selected>> /\ step' = "idle"
  BY DEF MergeFinal, StopBuild, Advance, NextStep, inputs, exports, summaries
<1>2. DbTyped' /\ DOMAIN dated' = {"tfs", "ttr"}
  BY <1>1 DEF BuildInv, DbTyped
<1>3. \A r \in Runs : Len(db[r]) \in Nat /\ requests[r] \in Nat /\ requests[r] <= Len(db[r])
  BY DEF BuildInv, DbTyped, FilesWithin
<1>4. FilesWithin'
  <2>1. faults' \in [Runs -> Nat]
    <3>1. faults' = faults \/ \E S \in SUBSET Runs : faults' = [r \in Runs |-> IF r \in S THEN Exported[r] ELSE 0]
      BY DEF MergeFinal, StopBuild, exports
    <3>2. \A r \in Runs : Exported[r] \in Nat
      BY <1>3 DEF Exported
    <3>3. CASE faults' = faults
      BY <3>3 DEF BuildInv, FilesWithin
    <3>4. CASE \E S \in SUBSET Runs : faults' = [r \in Runs |-> IF r \in S THEN Exported[r] ELSE 0]
      <4>1. PICK S \in SUBSET Runs : faults' = [r \in Runs |-> IF r \in S THEN Exported[r] ELSE 0]
        BY <3>4
      <4>2. \A r \in Runs : (IF r \in S THEN Exported[r] ELSE 0) \in Nat
        BY <3>2
      <4> QED BY <4>1, <4>2
    <3> QED BY <3>1, <3>3, <3>4
  <2> QED BY <1>1, <2>1 DEF BuildInv, FilesWithin
<1>5. NobodyLost'
  BY <1>1 DEF NobodyLost, AfterPa
<1>6. step = "merge" => \A r \in Runs : table["pa"][r] = RequestsOf(r)
  BY DEF BuildInv, NobodyLost, AfterPa
<1>7. RowsOfRuns'
  <2> SUFFICES ASSUME NEW r \in Runs, final'[r]["pa"] # {} PROVE Len(db[r]) > 0
    BY <1>1 DEF RowsOfRuns
  <2>1. \/ final' = final
        \/ step = "merge" /\ final' = Merged
        \/ step = "merge" /\ \E S \in SUBSET Runs : final' = [q \in Runs |-> IF q \in S THEN Merged[q] ELSE NoRow]
    BY DEF MergeFinal, StopBuild
  <2>2. CASE final' = final
    BY <2>2 DEF BuildInv, RowsOfRuns
  <2>3. CASE step = "merge" /\ (final'[r] = Merged[r] \/ final'[r] = NoRow)
    <3>1. NoRow["pa"] = {}
      BY DEF NoRow, Tables
    <3>2. final'[r] = Merged[r] /\ table["pa"][r] # {}
      BY <2>3, <3>1 DEF Merged
    <3>3. requests[r] # 0
      BY <2>3, <3>2, <1>6 DEF RequestsOf
    <3> QED BY <1>3, <3>3
  <2> QED BY <2>1, <2>2, <2>3
<1>8. Complete'
  <2> SUFFICES ASSUME MergeFinal, fresh PROVE Complete'
    BY DEF MergeFinal, StopBuild, Complete
  <2>1. step = "merge" /\ UNCHANGED <<faults, fresh>>
    BY DEF MergeFinal, exports
  <2>2. /\ selected' = Runs
        /\ \A r \in Runs : requests'[r] = Len(db'[r]) /\ faults'[r] = Len(db'[r])
    BY <1>1, <2>1 DEF BuildInv, Complete
  <2>3. dated'["tfs"] = WithEvent("fault_injected")' /\ dated'["ttr"] = WithEvent("recovery_started")'
    <3>1. \A type : WithEvent(type)' = WithEvent(type)
      BY <1>1, <2>1, SameEvents
    <3> QED BY <3>1, <1>1, <2>1 DEF BuildInv, Complete, AfterTfs, AfterTtr
  <2>4. \A r \in Runs : final'[r]["pa"] # {} => final'[r]["latency"] \subseteq {Len(db[r])}
    <3>1. CASE \A r \in Runs : table["pa"][r] = {}
      <4>1. \A r \in Runs : requests[r] = 0
        BY <3>1, <1>6, <2>1 DEF RequestsOf
      <4>2. \A r \in Runs : Len(db[r]) = 0 /\ final'[r] = final[r]
        BY <4>1, <3>1, <1>1, <2>2 DEF MergeFinal
      <4> QED BY <4>2 DEF BuildInv, RowsOfRuns
    <3>2. CASE ~\A r \in Runs : table["pa"][r] = {}
      <4>1. \A r \in Runs : final'[r] = Merged[r]
        BY <3>2 DEF MergeFinal
      <4>2. \A r \in Runs : table["latency"][r] \subseteq {requests[r]}
        BY <2>1 DEF BuildInv, PipelineInv, UpToDate, Done, FromRequests, Tables
      <4>3. \A r \in Runs : requests[r] = Len(db[r])
        BY <1>1, <2>2
      <4>4. \A r \in Runs : Merged[r]["pa"] # {} => Merged[r]["latency"] = table["latency"][r]
        BY DEF Merged, NoRow, Tables
      <4> QED BY <4>1, <4>2, <4>3, <4>4
    <3> QED BY <3>1, <3>2
  <2> QED BY <1>1, <2>1, <2>2, <2>3, <2>4 DEF Complete
<1> QED BY <1>2, <1>4, <1>5, <1>7, <1>8

LEMMA StepBuild == BuildInv /\ [Next]_vars => BuildInv'
<1> SUFFICES ASSUME BuildInv, [Next]_vars
             PROVE  /\ DbTyped' /\ FilesWithin' /\ DOMAIN dated' = {"tfs", "ttr"}
                    /\ NobodyLost' /\ RowsOfRuns' /\ Complete'
  BY StepPipeline DEF BuildInv
<1>1. CASE UNCHANGED vars
  BY <1>1, SameEvents DEF vars, inputs, exports, summaries, BuildInv, DbTyped, FilesWithin, NobodyLost, RequestsOf,
     RowsOfRuns, Complete
<1>2. CASE \E r \in Runs : Attempt(r)
  BY <1>2, AttemptBuild DEF Attempt, summaries, BuildInv
<1>3. CASE DeleteRaw
  <2>1. UNCHANGED <<db, requests, faults, table, dated, final, step, selected, fresh>>
        /\ raw' = [r \in Runs |-> NoFiles]
    BY <1>3 DEF DeleteRaw, exports, summaries
  <2>2. FilesWithin'
    <3>1. \A r \in Runs : Len(db[r]) \in Nat
      BY DEF BuildInv, DbTyped
    <3> QED BY <2>1, <3>1 DEF BuildInv, FilesWithin, NoFiles
  <2> QED BY <2>1, <2>2, SameEvents DEF BuildInv, DbTyped, NobodyLost, RequestsOf, RowsOfRuns, Complete
<1>4. CASE StartBuild \/ ExportRequests \/ ExportFaultEvents \/ KeepFaultEvents
  BY <1>4, ExportBuild DEF StartBuild, ExportRequests, ExportFaultEvents, KeepFaultEvents, summaries, BuildInv
<1>5. CASE Compute
  BY <1>5, ComputeBuild
<1>6. CASE MergeFinal \/ StopBuild
  BY <1>6, MergeBuild
<1> QED BY <1>1, <1>2, <1>3, <1>4, <1>5, <1>6 DEF Next

(* What is known when a build that saw everything is over. *)
LEMMA SettledFacts ==
  ASSUME BuildInv, Settled, NEW r \in Runs
  PROVE  /\ faults[r] = Len(db[r])
         /\ dated["tfs"] = WithEvent("fault_injected") /\ dated["ttr"] = WithEvent("recovery_started")
         /\ final[r]["pa"] # {} => final[r]["latency"] \subseteq {Len(db[r])}
         /\ FaultEvents(r) \subseteq Events(r, faults[r])
<1>1. /\ faults[r] = Len(db[r])
      /\ dated["tfs"] = WithEvent("fault_injected") /\ dated["ttr"] = WithEvent("recovery_started")
      /\ final[r]["pa"] # {} => final[r]["latency"] \subseteq {Len(db[r])}
  BY DEF BuildInv, Complete, Settled, AfterTfs, AfterTtr
<1>2. raw[r].rows \in Nat /\ Len(db[r]) \in Nat /\ raw[r].rows <= Len(db[r])
  BY DEF BuildInv, FilesWithin, DbTyped
<1>3. 1..raw[r].rows \subseteq 1..Len(db[r])
  BY <1>2
<1>4. Events(r, raw[r].rows) \subseteq Events(r, faults[r])
  BY <1>1, <1>3 DEF Events
<1> QED BY <1>1, <1>4 DEF FaultEvents

(* A pair reported as paired has a p95 and its times on both sides. *)
THEOREM PairedRunsAreMeasured == Spec => []PairedIsMeasured
<1>1. BuildInv => PairedIsMeasured
  <2> SUFFICES ASSUME BuildInv, Settled, NEW r \in Runs, StatusOf(r) = "VALID"
               PROVE  /\ final[r]["latency"] = {Len(db[r])}
                      /\ Kind[r] # "steady" => r \in dated["tfs"]
                      /\ Kind[r] \in {"recovery", "cascade"} => r \in dated["ttr"]
    <3>1. \A p \in Pairs : p[1] \in Runs /\ p[2] \in Runs
      BY DataPipelineAssumption
    <3> QED BY <3>1 DEF PairedIsMeasured, PairStatus
  <2>1. /\ final[r]["pa"] # {} /\ final[r]["latency"] # {}
        /\ ~EventsMissing(Kind[r], FaultEvents(r))
    BY DEF StatusOf, Status
  <2>2. final[r]["latency"] = {Len(db[r])}
    BY <2>1, SettledFacts
  <2>3. Kind[r] # "steady" => "fault_injected" \in Events(r, faults[r])
    BY <2>1, SettledFacts DEF EventsMissing
  <2>4. Kind[r] \in {"recovery", "cascade"} => "recovery_started" \in Events(r, faults[r])
    BY <2>1, SettledFacts DEF EventsMissing
  <2> QED BY <2>2, <2>3, <2>4, SettledFacts DEF WithEvent
<1> QED BY <1>1, InitBuild, StepBuild, PTL DEF Spec

(* Deleting raw/ after a complete build never condemns a valid run. *)
THEOREM DeletionIsHarmless == Spec => DeletionNeverCondemns
<1>1. BuildInv => (Settled /\ DeleteRaw => \A r \in Runs : StatusOf(r) = "VALID" => StatusOf(r)' = "VALID")
  <2> SUFFICES ASSUME BuildInv, Settled, DeleteRaw, NEW r \in Runs, StatusOf(r) = "VALID"
               PROVE  StatusOf(r)' = "VALID"
    OBVIOUS
  <2>1. UNCHANGED <<db, faults, final>> /\ raw'[r] = NoFiles
    BY DEF DeleteRaw, exports
  <2>2. SignsOf(r)' = {}
    <3>1. raw'[r].attempt = 0 /\ raw'[r].rows = 0
      BY <2>1 DEF NoFiles
    <3>2. RowSigns(r, 0)' = {}
      BY DEF RowSigns
    <3> QED BY <3>1, <3>2 DEF SignsOf
  <2>3. FaultEvents(r)' = Events(r, faults[r])
    BY <2>1 DEF FaultEvents, NoFiles, Events
  <2>4. /\ final[r]["pa"] # {} /\ final[r]["latency"] # {}
        /\ ~EventsMissing(Kind[r], FaultEvents(r))
    BY DEF StatusOf, Status
  <2>5. ~EventsMissing(Kind[r], Events(r, faults[r]))
    BY <2>4, SettledFacts DEF EventsMissing
  <2> QED BY <2>1, <2>2, <2>3, <2>4, <2>5 DEF StatusOf, Status
<1> QED BY <1>1, InitBuild, StepBuild, PTL DEF Spec, DeletionNeverCondemns
=============================================================================
