-------------------------- MODULE ExperimentRunner --------------------------
(***************************************************************************)
(* The campaign of automation/experimentctl/runner.py: run_full walks the  *)
(* planned runs, run_one takes each through its phases next to a k6        *)
(* process (k6_runner.py), and the state file lets a later launch resume.  *)
(*                                                                         *)
(* Runs stands for the scenario x condition x repetition triples in the    *)
(* order of run_full's loops.  Probes, snapshots and evidence collection   *)
(* swallow every failure and touch no state kept here.  deploy, wait_ready,*)
(* run_fault, run_recovery, export_run and the validation answer as they   *)
(* may; the backend may not hear a request or its reply may be lost.       *)
(*                                                                         *)
(* There is one state file for all experiments (the `name` of a manifest): *)
(* a launch takes it up only if it is its own experiment's, and its saves  *)
(* replace whatever it holds.  Every experiment plans the same Runs here.  *)
(***************************************************************************)
EXTENDS Naturals

CONSTANTS Experiments,  \* m.experiment.name of the manifests
          NoExperiment, \* while there is no state file
          NRuns,        \* number of planned runs
          FaultyRuns,   \* those whose scenario has a fault
          Resume,       \* whether the operator launches with --resume
          MaxLaunches,  \* bound: launches of the program
          Deaths        \* how a launch may end early: "interrupt", "kill"

Runs == 1..NRuns

ASSUME RunnerAssumption == /\ NoExperiment \notin Experiments
                           /\ NRuns \in Nat \ {0} /\ MaxLaunches \in Nat
                           /\ FaultyRuns \subseteq Runs
                           /\ Resume \in BOOLEAN
                           /\ Deaths \subseteq {"interrupt", "kill"}

RunStatus == {"PENDING", "RUNNING", "SUCCESS", "FAILED_PRECHECK", "FAILED_K6", "FAILED_FAULT",
              "FAILED_RECOVERY", "INVALID_DATA"}

VARIABLES pc,          \* of the runner process, "off" when there is none
          cur,         \* the planned run at hand
          status,      \* record.status
          k6,          \* the k6 process of the run at hand
          orphan,      \* a k6 process whose runner is gone still runs
          registered,  \* the backend's record of this run: "none", "open" while
                       \* the runner knows its id, "lost" when nobody will end it
          experiment,  \* that the launch at hand is for
          state,       \* in memory: whose runs these are, and how often each
                       \* was appended to completed and to failed
          file,        \* the same on disk
          launches,
          did,         \* history: what this attempt has been through
          earned       \* history: which experiment has completed which run

vars == <<pc, cur, status, k6, orphan, registered, experiment, state, file, launches, did, earned>>

NoProgress(e) == [experiment |-> e, completed |-> [r \in Runs |-> 0], failed |-> [r \in Runs |-> 0]]

Progress == [experiment : Experiments \cup {NoExperiment},
             completed : [Runs -> Nat], failed : [Runs -> Nat]]

Phases == {"deploy", "ready", "register", "start_k6", "fault", "recover", "wait_k6", "export",
           "validate"}

TypeOK ==
  /\ pc \in {"off", "select", "record", "save", "closing"} \cup Phases
  /\ cur \in 1..NRuns + 1
  /\ status \in RunStatus
  /\ k6 \in {"none", "running", "ok", "bad", "terminated", "stuck"}
  /\ orphan \in BOOLEAN
  /\ registered \in {"none", "open", "lost"}
  /\ experiment \in Experiments \cup {NoExperiment}
  /\ state \in Progress /\ file \in Progress
  /\ launches \in 0..MaxLaunches
  /\ did \subseteq {"fault", "recovery", "k6", "export", "invalid"}
  /\ earned \subseteq Experiments \X Runs

Init == /\ pc = "off" /\ cur = 1 /\ status = "PENDING"
        /\ k6 = "none" /\ orphan = FALSE /\ registered = "none"
        /\ experiment = NoExperiment
        /\ state = NoProgress(NoExperiment) /\ file = NoProgress(NoExperiment)
        /\ launches = 0 /\ did = {} /\ earned = {}

-----------------------------------------------------------------------------
campaign == <<cur, experiment, state, file, launches, earned>>

(* Mutations: a launch starts from nothing, although the file is its own   *)
(* experiment's; a launch takes up the file of whatever experiment.        *)
LaunchForgets(e) ==
  /\ pc = "off"
  /\ launches < MaxLaunches
  /\ launches' = launches + 1
  /\ experiment' = e
  /\ state' = NoProgress(e)
  /\ cur' = 1 /\ pc' = "select"
  /\ status' = "PENDING" /\ k6' = "none" /\ registered' = "none" /\ did' = {}
  /\ UNCHANGED <<orphan, file, earned>>

LaunchTakesAny(e) ==
  /\ pc = "off"
  /\ launches < MaxLaunches
  /\ launches' = launches + 1
  /\ experiment' = e
  /\ state' = IF file.experiment # NoExperiment THEN file ELSE NoProgress(e)
  /\ cur' = 1 /\ pc' = "select"
  /\ status' = "PENDING" /\ k6' = "none" /\ registered' = "none" /\ did' = {}
  /\ UNCHANGED <<orphan, file, earned>>

(* run_full begins: _load_state.  The file of another experiment is left   *)
(* alone until the first save.                                             *)
Launch(e) ==
  /\ pc = "off"
  /\ launches < MaxLaunches
  /\ launches' = launches + 1
  /\ experiment' = e
  /\ state' = IF file.experiment = e THEN file ELSE NoProgress(e)
  /\ cur' = 1 /\ pc' = "select"
  /\ status' = "PENDING" /\ k6' = "none" /\ registered' = "none" /\ did' = {}
  /\ UNCHANGED <<orphan, file, earned>>

Skips(r) == Resume /\ state.completed[r] > 0      \* _is_completed

Select == /\ pc = "select"
          /\ cur \in Runs
          /\ IF Skips(cur) THEN cur' = cur + 1 /\ UNCHANGED pc
                           ELSE pc' = "deploy" /\ UNCHANGED cur
          /\ status' = "PENDING" /\ k6' = "none" /\ registered' = "none" /\ did' = {}
          /\ UNCHANGED <<orphan, experiment, state, file, launches, earned>>

-----------------------------------------------------------------------------
(* run_one.  Return leaves it with a status. *)
Return(s) == status' = s /\ pc' = "record"
Continue(next) == pc' = next /\ UNCHANGED status

(* _api_run_end: one request, whose loss nobody notices. *)
EndRun == IF registered = "open" THEN registered' \in {"none", "lost"} ELSE UNCHANGED registered

(* K6Process.terminate: SIGTERM, then SIGKILL; a process in D state stays. *)
Terminate == IF k6 = "running" THEN k6' \in {"terminated", "stuck"} ELSE UNCHANGED k6

(* Mutation: a run that cannot be deployed is passed over.                 *)
DeployPassesOver == /\ pc = "deploy"
                    /\ \/ Continue("ready") /\ UNCHANGED cur
                       \/ pc' = "select" /\ cur' = cur + 1 /\ UNCHANGED status
                    /\ UNCHANGED <<experiment, state, file, launches, earned, k6, orphan, registered,
                                   did>>

Deploy == /\ pc = "deploy"
          /\ Continue("ready") \/ Return("FAILED_PRECHECK")
          /\ UNCHANGED <<campaign, k6, orphan, registered, did>>

WaitReady == /\ pc = "ready"
             /\ Continue("register") \/ Return("FAILED_PRECHECK")
             /\ UNCHANGED <<campaign, k6, orphan, registered, did>>

(* _api_run_start.  A lost reply leaves a run the runner has no id of. *)
Register == /\ pc = "register"
            /\ \/ /\ registered' = "open"
                  /\ status' = "RUNNING" /\ pc' = "start_k6"
               \/ registered' \in {"none", "lost"} /\ Return("FAILED_PRECHECK")
            /\ UNCHANGED <<campaign, k6, orphan, did>>

StartK6 ==
  /\ pc = "start_k6"
  /\ \/ /\ k6' = "running"
        /\ Continue(IF cur \in FaultyRuns THEN "fault" ELSE "wait_k6")
        /\ UNCHANGED registered
     \/ /\ EndRun
        /\ Return("FAILED_K6")
        /\ UNCHANGED k6
  /\ UNCHANGED <<campaign, orphan, did>>

(* Mutation: a failed injection leaves k6 to itself.                       *)
FaultLeavesK6 ==
  /\ pc = "fault"
  /\ \/ did' = did \cup {"fault"} /\ Continue("recover") /\ UNCHANGED registered
     \/ EndRun /\ Return("FAILED_FAULT") /\ UNCHANGED did
  /\ UNCHANGED <<campaign, k6, orphan>>

(* run_fault; an exception in it counts as a failure. *)
Fault ==
  /\ pc = "fault"
  /\ \/ /\ did' = did \cup {"fault"}
        /\ Continue("recover")
        /\ UNCHANGED <<k6, registered>>
     \/ /\ Terminate
        /\ EndRun
        /\ Return("FAILED_FAULT")
        /\ UNCHANGED did
  /\ UNCHANGED <<campaign, orphan>>

(* Mutation: a failed recovery is not noted.                               *)
RecoverUnnoted ==
  /\ pc = "recover"
  /\ pc' = "wait_k6"
  /\ did' \in {did, did \cup {"recovery"}}
  /\ UNCHANGED <<campaign, status, k6, orphan, registered>>

(* A failed recovery is noted and the run goes on. *)
Recover ==
  /\ pc = "recover"
  /\ pc' = "wait_k6"
  /\ \/ did' = did \cup {"recovery"} /\ UNCHANGED status
     \/ status' = "FAILED_RECOVERY" /\ UNCHANGED did
  /\ UNCHANGED <<campaign, k6, orphan, registered>>

(* k6 ends by itself: exit codes 0 and 99 are ok. *)
K6Exits == /\ k6 = "running"
           /\ pc # "off"
           /\ k6' \in {"ok", "bad"}
           /\ UNCHANGED <<pc, campaign, status, orphan, registered, did>>

OrphanExits == /\ orphan
               /\ orphan' = FALSE
               /\ UNCHANGED <<pc, campaign, status, k6, registered, did>>

(* Mutation: the wait for k6 has no timeout.                               *)
WaitK6Forever ==
  /\ pc = "wait_k6"
  /\ k6 # "running"
  /\ EndRun
  /\ IF k6 = "ok"
       THEN did' = did \cup {"k6"} /\ Continue("export")
       ELSE /\ Return(IF status = "RUNNING" THEN "FAILED_K6" ELSE status)
            /\ UNCHANGED did
  /\ UNCHANGED <<campaign, k6, orphan>>

(* k6_handle.wait: k6 has exited, or 1800 seconds are over. *)
WaitK6 ==
  /\ pc = "wait_k6"
  /\ Terminate
  /\ EndRun
  /\ IF k6 = "ok"
       THEN did' = did \cup {"k6"} /\ Continue("export")
       ELSE /\ Return(IF status = "RUNNING" THEN "FAILED_K6" ELSE status)
            /\ UNCHANGED did
  /\ UNCHANGED <<campaign, orphan>>

(* export_run, then the cooldown. *)
Export == /\ pc = "export"
          /\ did' \in {did, did \cup {"export"}}
          /\ Continue("validate")
          /\ UNCHANGED <<campaign, k6, orphan, registered>>

(* The inline validation of an exported run: valid, invalid or an error,   *)
(* which is only logged.  An invalid run loses an earlier FAILED_RECOVERY. *)
Validate ==
  /\ pc = "validate"
  /\ \/ /\ "export" \in did
        /\ did' = did \cup {"invalid"}
        /\ Return("INVALID_DATA")
     \/ /\ Return(IF status = "RUNNING" THEN "SUCCESS" ELSE status)
        /\ UNCHANGED did
  /\ UNCHANGED <<campaign, k6, orphan, registered>>

-----------------------------------------------------------------------------
(* Back in run_full: the result is appended and the state saved. *)
Record == /\ pc = "record"
          /\ state' = IF status = "SUCCESS" THEN [state EXCEPT !.completed[cur] = @ + 1]
                                            ELSE [state EXCEPT !.failed[cur] = @ + 1]
          /\ earned' = IF status = "SUCCESS" THEN earned \cup {<<experiment, cur>>} ELSE earned
          /\ pc' = "save"
          /\ UNCHANGED <<cur, status, k6, orphan, registered, experiment, file, launches, did>>

(* _save_state replaces the file as a whole, or fails and is forgotten. *)
SaveState == file' \in {file, state}

Save == /\ pc = "save"
        /\ SaveState
        /\ cur' = cur + 1 /\ pc' = "select"
        /\ UNCHANGED <<status, k6, orphan, registered, experiment, state, launches, did, earned>>

FinalSave == /\ pc = "select"
             /\ cur \notin Runs
             /\ pc' = "closing"
             /\ SaveState
             /\ UNCHANGED <<cur, status, k6, orphan, registered, experiment, state, launches, did,
                            earned>>

(* run_full returns. *)
Exit == /\ pc = "closing"
        /\ pc' = "off"
        /\ UNCHANGED <<campaign, status, k6, orphan, registered, did>>

-----------------------------------------------------------------------------
(* The launch ends early.  Only run_one's wait for k6 handles an           *)
(* interrupt; elsewhere it goes through run_one and run_full as it is.     *)
Dies == /\ pc' = "off"
        /\ UNCHANGED <<campaign, status, did>>

(* What a launch leaves behind when it dies here. *)
Abandon == /\ orphan' = (orphan \/ k6 = "running")
           /\ k6' = "none"
           /\ registered' = IF registered = "open" THEN "lost" ELSE registered

Interrupt == /\ "interrupt" \in Deaths
             /\ pc # "off"
             /\ Dies
             /\ IF pc = "wait_k6" THEN Terminate /\ EndRun /\ UNCHANGED orphan ELSE Abandon

Kill == /\ "kill" \in Deaths
        /\ pc # "off"
        /\ Dies
        /\ Abandon

Attempt == \/ Deploy \/ WaitReady \/ Register \/ StartK6 \/ Fault \/ Recover \/ WaitK6
           \/ Export \/ Validate

Work == Select \/ Attempt \/ Record \/ Save \/ FinalSave \/ Exit

Next == (\E e \in Experiments : Launch(e)) \/ Work \/ K6Exits \/ OrphanExits \/ Interrupt \/ Kill

Spec == Init /\ [][Next]_vars

(***************************************************************************)
(* Fairness: the runner's process is scheduled; every call it makes has a  *)
(* timeout, the wait for k6 too.  Nothing is assumed of k6, of the backend *)
(* or of the operator.                                                     *)
(***************************************************************************)
FairSpec == Spec /\ WF_vars(Work)

-----------------------------------------------------------------------------
(* However a run ends, run_one returns with its k6 stopped (or beyond      *)
(* killing) and has asked the backend to end every run it registered.      *)
ReturnsClean == pc \in {"record", "save", "select"} => k6 # "running" /\ registered # "open"

(* A run is counted as completed only if its load ran to the end, its      *)
(* fault was injected and recovered from, as far as run_fault and          *)
(* run_recovery can tell, and no validation refused it.                    *)
SuccessIsEarned ==
  pc = "record" /\ status = "SUCCESS" =>
    /\ "k6" \in did /\ "invalid" \notin did
    /\ cur \in FaultyRuns => {"fault", "recovery"} \subseteq did

(* Resuming is sound.  With --resume a run is under way only if the file   *)
(* does not list it as completed by this experiment; and a run is listed,  *)
(* in memory where a launch passes it over or in the file, only if that    *)
(* very experiment has completed it, in this launch or an earlier one,     *)
(* whatever died, failed to save or ran for other experiments in between.  *)
(* A completion that never reached the file, or was overwritten there, is  *)
(* run again.                                                              *)
ResumeIsSound ==
  /\ Resume /\ pc \in Phases => file.experiment # experiment \/ file.completed[cur] = 0
  /\ \A r \in Runs :
       /\ pc # "off" /\ state.completed[r] > 0 => <<experiment, r>> \in earned
       /\ file.completed[r] > 0 => <<file.experiment, r>> \in earned

(* When run_full returns every planned run is accounted for, as completed  *)
(* or as failed, and none was left out.                                    *)
AllAccounted ==
  pc = "closing" => \A r \in Runs : state.completed[r] + state.failed[r] > 0

(* What the file has recorded of an experiment, a launch that dies, a      *)
(* failed save or a resume only ever adds to.  It is lost only in a save   *)
(* by a launch of another experiment, which takes the one file over.       *)
FileOnlyGrows ==
  [][/\ file'.experiment \in {file.experiment, experiment}
     /\ file'.experiment = file.experiment =>
          \A r \in Runs : /\ file'.completed[r] >= file.completed[r]
                          /\ file'.failed[r] >= file.failed[r]]_vars

(* Liveness: a launch ends, although k6 may hang and the backend be gone.  *)
CampaignEnds == pc # "off" ~> pc = "off"

(* runner.py, before the wait for k6: k6 is always stopped, whatever       *)
(* happens, so that it does not become an orphan.                          *)
NoOrphanK6 == ~orphan
=============================================================================
