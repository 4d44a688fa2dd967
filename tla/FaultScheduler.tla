--------------------------- MODULE FaultScheduler ---------------------------
(***************************************************************************)
(* run_fault (automation/experimentctl/fault_scheduler.py): one injection  *)
(* of a scenario's fault while k6 loads the system, and the fault events   *)
(* that tell the analysis what happened.  The calls run one after another  *)
(* in the runner's process; k6 and the backend that stores events act on   *)
(* their own.                                                              *)
(*                                                                         *)
(* The fault types fall into three kinds: "commands" (cpu_pressure,        *)
(* memory_pressure, stop_container) and "stages" (gradual_memory_pressure, *)
(* cascade_failure) run commands in order, "parallel" (combined_pressure)  *)
(* runs them all.  For a type that run_fault does not know ("unknown", a   *)
(* slip in the manifest) it does nothing and returns True.  A command      *)
(* succeeds, fails, or raises (an SSH error); an operator's                *)
(* KeyboardInterrupt is not an Exception and passes `except`.              *)
(*                                                                         *)
(* External: ctx.access_token(), whose code is not in the repository, is   *)
(* taken to answer, if with no token; then nothing is stored.              *)
(***************************************************************************)
EXTENDS Naturals, Sequences, SequencesExt

CONSTANTS NCommands   \* commands, parallel commands, stages or steps of the fault

ASSUME FaultSchedulerAssumption == NCommands \in Nat \ {0}

Kinds == {"commands", "parallel", "stages", "unknown"}
Steps == 1..NCommands

VARIABLES kind,       \* of the scenario's fault
          pc,
          step,       \* command, stage or step being run
          load,       \* whether the k6 process is running
          ran,        \* the commands that were run, and whether each was ok
          asked,      \* events handed to _record_event, in order
          delivered,  \* events the backend has stored
          fault_event_recorded, failure_event_recorded, success,
          outcome     \* what run_fault returns or raises

flags == <<fault_event_recorded, failure_event_recorded, success>>
vars == <<kind, pc, step, load, ran, asked, delivered,
          fault_event_recorded, failure_event_recorded, success, outcome>>

EventTypes == {"fault_injected", "fault_stage_started", "fault_stage_failed",
               "fault_stage_finished", "fault_failed", "fault_finished"}
Event == [type : EventTypes, step : 0..NCommands]
RunEvent(type) == [type |-> type, step |-> 0]       \* about the whole fault
StageEvent(type) == [type |-> type, step |-> step]  \* about the current stage

TypeOK ==
  /\ kind \in Kinds
  /\ pc \in {"preflight", "steady", "inject", "stage", "command", "stage_end", "report",
             "finally", "observe", "done"}
  /\ step \in 1..NCommands + 1
  /\ load \in BOOLEAN
  /\ \A i \in DOMAIN ran : ran[i] \in [step : Steps, ok : BOOLEAN]
  /\ \A i \in DOMAIN asked : asked[i] \in Event
  /\ delivered \subseteq Event
  /\ fault_event_recorded \in BOOLEAN /\ failure_event_recorded \in BOOLEAN /\ success \in BOOLEAN
  /\ outcome \in {"none", "true", "false", "raised", "interrupted"}

Init == /\ kind \in Kinds
        /\ pc = "preflight" /\ step = 1 /\ load = TRUE
        /\ ran = <<>> /\ asked = <<>> /\ delivered = {}
        /\ fault_event_recorded = FALSE /\ failure_event_recorded = FALSE /\ success = TRUE
        /\ outcome = "none"

-----------------------------------------------------------------------------
(* _record_event posts an event up to three times; each request and each   *)
(* reply may be lost, so an event may be stored although the call failed.  *)
RecordEvents(events) ==
  /\ asked' = asked \o events
  /\ \E stored \in SUBSET ToSet(events) : delivered' = delivered \cup stored

Quiet == UNCHANGED <<asked, delivered>>

Finish(o) == pc' = "done" /\ outcome' = o

-----------------------------------------------------------------------------
(* Preflight looks at the containers before the load is waited for. *)
Preflight ==
  /\ pc = "preflight"
  /\ \/ pc' = "steady" /\ UNCHANGED outcome
     \/ kind # "unknown" /\ \E o \in {"false", "raised"} : Finish(o)
  /\ Quiet /\ UNCHANGED <<kind, step, load, ran, flags>>

(* After the wait for steady load k6 must still be running. *)
Steady ==
  /\ pc = "steady"
  /\ IF load THEN pc' = "inject" /\ UNCHANGED outcome ELSE Finish("false")
  /\ Quiet /\ UNCHANGED <<kind, step, load, ran, flags>>

K6Ends == /\ load
          /\ load' = FALSE
          /\ Quiet /\ UNCHANGED <<kind, pc, step, ran, flags, outcome>>

(* Mutation: the parallel branch forgets its event.                        *)
InjectSilently ==
  /\ pc = "inject" /\ kind # "unknown"
  /\ RecordEvents(IF kind = "parallel" THEN <<>> ELSE <<RunEvent("fault_injected")>>)
  /\ fault_event_recorded' \in {FALSE, RunEvent("fault_injected") \in delivered'}
  /\ pc' = IF kind = "stages" THEN "stage" ELSE "command"
  /\ UNCHANGED <<kind, step, load, ran, failure_event_recorded, success, outcome>>

(* fault_injected: the fault is executed even when this is not recorded. *)
Inject ==
  /\ pc = "inject" /\ kind # "unknown"
  /\ RecordEvents(<<RunEvent("fault_injected")>>)
  /\ fault_event_recorded' \in {FALSE, RunEvent("fault_injected") \in delivered'}
  /\ pc' = IF kind = "stages" THEN "stage" ELSE "command"
  /\ UNCHANGED <<kind, step, load, ran, failure_event_recorded, success, outcome>>

(* No branch of the try is for this type: no command and no event. *)
NoBranch == /\ pc = "inject" /\ kind = "unknown"
            /\ pc' = "finally"
            /\ Quiet /\ UNCHANGED <<kind, step, load, ran, flags, outcome>>

StageStarts ==
  /\ pc = "stage"
  /\ RecordEvents(<<StageEvent("fault_stage_started")>>)
  /\ pc' = "command"
  /\ UNCHANGED <<kind, step, load, ran, flags, outcome>>

(* Mutation: a failed stage is left open.                                  *)
FailureLeavesOpen == IF kind = "stages" THEN <<StageEvent("fault_stage_failed")>>
                     ELSE <<RunEvent("fault_failed")>>

(* What is recorded of a failing command, before the loop is left. *)
FailureEvents == IF kind = "stages"
                   THEN <<StageEvent("fault_stage_failed"), StageEvent("fault_stage_finished")>>
                   ELSE <<RunEvent("fault_failed")>>

(* Mutation: failure_event_recorded is not set.                            *)
ReportUnnoted ==
  /\ pc = "report"
  /\ RecordEvents(FailureEvents)
  /\ pc' = "finally"
  /\ UNCHANGED <<kind, step, load, ran, flags, outcome>>

ReportFailure ==
  /\ pc = "report"
  /\ RecordEvents(FailureEvents)
  /\ failure_event_recorded' = TRUE
  /\ pc' = "finally"
  /\ UNCHANGED <<kind, step, load, ran, fault_event_recorded, success, outcome>>

GiveUp == success' = FALSE /\ pc' = "report" /\ UNCHANGED step

NextStep == /\ step' = step + 1
            /\ pc' = IF step = NCommands THEN "finally"
                     ELSE IF kind = "stages" THEN "stage" ELSE "command"

RunCommand(ok) ==
  /\ pc = "command"
  /\ kind # "parallel"
  /\ ran' = Append(ran, [step |-> step, ok |-> ok])
  /\ IF ~ok THEN GiveUp
     ELSE /\ UNCHANGED success
          /\ IF kind = "stages" THEN pc' = "stage_end" /\ UNCHANGED step ELSE NextStep
  /\ Quiet /\ UNCHANGED <<kind, load, fault_event_recorded, failure_event_recorded, outcome>>

(* All parallel commands are run, whatever becomes of the others. *)
RunParallel(oks) ==
  /\ pc = "command"
  /\ kind = "parallel"
  /\ ran' = [i \in Steps |-> [step |-> i, ok |-> oks[i]]]
  /\ IF \E i \in Steps : ~oks[i] THEN GiveUp
     ELSE pc' = "finally" /\ UNCHANGED <<step, success>>
  /\ Quiet /\ UNCHANGED <<kind, load, fault_event_recorded, failure_event_recorded, outcome>>

StageFinishes ==
  /\ pc = "stage_end"
  /\ RecordEvents(<<StageEvent("fault_stage_finished")>>)
  /\ NextStep
  /\ UNCHANGED <<kind, load, ran, flags, outcome>>

(* Mutation: the error goes on without success being cleared.              *)
RaisesUnnoted ==
  /\ pc = "command"
  /\ ran' = Append(ran, [step |-> step, ok |-> FALSE])
  /\ pc' = "finally" /\ outcome' = "raised"
  /\ Quiet /\ UNCHANGED <<kind, step, load, flags>>

(* A command raises: `except` clears success, and the error goes on. *)
CommandRaises ==
  /\ pc = "command"
  /\ ran' = Append(ran, [step |-> step, ok |-> FALSE])
  /\ success' = FALSE
  /\ pc' = "finally" /\ outcome' = "raised"
  /\ Quiet /\ UNCHANGED <<kind, step, load, fault_event_recorded, failure_event_recorded>>

(* The finally block: the verdict on an injection that was recorded. *)
Verdict == CASE ~fault_event_recorded -> <<>>
             [] fault_event_recorded /\ success -> <<RunEvent("fault_finished")>>
             [] fault_event_recorded /\ ~success /\ failure_event_recorded -> <<>>
             [] OTHER -> <<RunEvent("fault_failed")>>

(* The operator interrupts, perhaps in the middle of recording.  Inside    *)
(* the try only the finally block still runs.                              *)
Pending == CASE pc = "inject" /\ kind # "unknown" -> <<RunEvent("fault_injected")>>
             [] pc = "stage"     -> <<StageEvent("fault_stage_started")>>
             [] pc = "stage_end" -> <<StageEvent("fault_stage_finished")>>
             [] pc = "report"    -> FailureEvents
             [] pc = "finally"   -> Verdict
             [] OTHER            -> <<>>

Interrupt ==
  /\ pc # "done"
  /\ \E n \in 0..Len(Pending) : RecordEvents(SubSeq(Pending, 1, n))
  /\ outcome' = "interrupted"
  /\ pc' = IF pc \in {"inject", "stage", "command", "stage_end", "report"} THEN "finally" ELSE "done"
  /\ UNCHANGED <<kind, step, load, ran, flags>>

Finally ==
  /\ pc = "finally"
  /\ RecordEvents(Verdict)
  /\ CASE outcome # "none" -> pc' = "done" /\ UNCHANGED outcome
       [] outcome = "none" /\ ~success -> Finish("false")
       [] OTHER -> pc' = "observe" /\ UNCHANGED outcome
  /\ UNCHANGED <<kind, step, load, ran, flags>>

Observe == /\ pc = "observe"
           /\ Finish("true")
           /\ Quiet /\ UNCHANGED <<kind, step, load, ran, flags>>

Next == \/ Preflight \/ Steady \/ Inject \/ NoBranch \/ StageStarts \/ StageFinishes \/ ReportFailure
        \/ \E ok \in BOOLEAN : RunCommand(ok)
        \/ \E oks \in [Steps -> BOOLEAN] : RunParallel(oks)
        \/ CommandRaises \/ Interrupt \/ Finally \/ Observe \/ K6Ends

Spec == Init /\ [][Next]_vars

-----------------------------------------------------------------------------
(* invalidator.py, _validate_run: the fault rules of a valid run.          *)
EventTypesOf(events) == {e.type : e \in events}

MissingFaultEvent(events, cascade) ==
  \/ "fault_injected" \notin EventTypesOf(events)
  \/ cascade /\ EventTypesOf(events) \cap
       {"fault_stage_started", "fault_stage_failed", "fault_stage_finished"} = {}

-----------------------------------------------------------------------------
AllDone == Len(ran) = NCommands /\ \A i \in DOMAIN ran : ran[i].ok

Times(type) == Cardinality({i \in DOMAIN asked : asked[i].type = type})

(* Unless the operator interrupts it, every injection that was recorded    *)
(* gets exactly one verdict, and none gets two: the analysis reads a fault *)
(* as finished or as failed, never as both or as neither.                  *)
OneVerdict ==
  LET verdicts == Times("fault_finished") + Times("fault_failed") + Times("fault_stage_failed")
  IN outcome # "interrupted" =>
       /\ verdicts <= 1
       /\ pc \in {"observe", "done"} /\ fault_event_recorded => verdicts = 1

(* The verdict is true.  fault_finished and a return value True mean that  *)
(* every command ran and was ok (unless the operator interrupted: then     *)
(* fault_finished is recorded all the same; and a fault of an unknown type *)
(* returns True, having run nothing, but is never recorded as finished);   *)
(* a failure verdict means that a command failed or raised.                *)
VerdictIsTrue ==
  /\ Times("fault_finished") > 0 /\ outcome # "interrupted" => AllDone
  /\ outcome = "true" => Times("fault_failed") = 0 /\ (kind # "unknown" => AllDone)
  /\ Times("fault_failed") + Times("fault_stage_failed") > 0 =>
       \E i \in DOMAIN ran : ~ran[i].ok

(* Where a stage event belongs among the stage events of an injection, and  *)
(* where in asked they are.                                                *)
Place(e) == IF e.type = "fault_stage_started" THEN 2 * e.step - 1 ELSE 2 * e.step
Marks == {i \in DOMAIN asked : asked[i].type \in {"fault_stage_started", "fault_stage_finished"}}

(* Stage events bracket the stages: they alternate, each start is followed *)
(* by its own finish, and only a raised or interrupted call leaves one open. *)
StagesBracketed ==
  /\ \A i, j \in Marks : i < j => Place(asked[i]) < Place(asked[j])
  /\ \A i \in Marks : /\ Place(asked[i]) >= 1
                      /\ \A k \in 1..Place(asked[i]) - 1 : \E j \in Marks : Place(asked[j]) = k
  /\ outcome \in {"true", "false"} =>
       \A i \in Marks : asked[i].type = "fault_stage_started" =>
         \E j \in Marks : Place(asked[j]) = Place(asked[i]) + 1

(* A fault that was carried through and whose events all reached the       *)
(* backend is never thrown out by the invalidator's fault rules; a call    *)
(* that returned True for a fault it never ran always is.                  *)
CarriedThroughIsAccepted ==
  outcome = "true" /\ ToSet(asked) \subseteq delivered =>
    (MissingFaultEvent(delivered, kind = "stages") <=> kind = "unknown")
=============================================================================
