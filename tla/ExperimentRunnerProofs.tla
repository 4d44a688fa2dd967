----------------------- MODULE ExperimentRunnerProofs -----------------------
(***************************************************************************)
(* The promises of the campaign, for any number of planned runs, of        *)
(* launches and of ways to die, and whether or not it is resumed.          *)
(*                                                                         *)
(* None of the invariants is inductive.  Each needs to know what holds in  *)
(* the middle of a run: what is running at which phase, what a status that *)
(* is still RUNNING has been through, whose runs the memory holds and how  *)
(* it relates to the file, and that a run under way is not listed there.   *)
(***************************************************************************)
EXTENDS ExperimentRunner, TLAPS

(* k6 runs and the backend's record is open in some of the phases only. *)
NothingLeft ==
  /\ k6 = "running" => pc \in {"fault", "recover", "wait_k6", "off"}
  /\ registered = "open" => pc \in {"start_k6", "fault", "recover", "wait_k6", "off"}

(* What a run has been through when it gets here with this status. *)
Earned ==
  /\ pc \in Phases => status # "SUCCESS"
  /\ pc \in Phases => "invalid" \notin did
  /\ pc = "recover" => "fault" \in did
  /\ pc \in {"wait_k6", "export", "validate"} /\ status = "RUNNING" /\ cur \in FaultyRuns =>
       {"fault", "recovery"} \subseteq did
  /\ pc \in {"export", "validate"} => "k6" \in did
  /\ SuccessIsEarned

(* The memory of a launch is that of its experiment, and ahead of the file *)
(* if that is its experiment's too.                                        *)
Owned == pc # "off" => experiment \in Experiments /\ state.experiment = experiment

Ahead ==
  pc # "off" /\ file.experiment = experiment =>
    \A r \in Runs : /\ file.completed[r] <= state.completed[r]
                    /\ file.failed[r] <= state.failed[r]

(* Where the run at hand is, and what has been recorded of it. *)
AtHand == /\ pc \in Phases \cup {"record", "save"} => cur \in Runs
          /\ pc = "closing" => cur \notin Runs

(* With --resume a run under way has not been completed before, ...        *)
Fresh == Resume /\ pc \in Phases => state.completed[cur] = 0

(* ... and what is listed as completed has been.                           *)
Credited ==
  \A r \in Runs :
    /\ pc # "off" /\ state.completed[r] > 0 => <<experiment, r>> \in earned
    /\ file.completed[r] > 0 => <<file.experiment, r>> \in earned

Accounted(r) == state.completed[r] + state.failed[r] > 0

Behind == pc # "off" => \A r \in Runs : r < cur \/ (pc = "save" /\ r = cur) => Accounted(r)

RunnerInv == /\ TypeOK /\ NothingLeft /\ Earned /\ Owned /\ Ahead /\ AtHand /\ Fresh /\ Credited
             /\ Behind

-----------------------------------------------------------------------------
LEMMA InitRunner == Init => RunnerInv
<1> SUFFICES ASSUME Init PROVE RunnerInv
  OBVIOUS
<1>1. TypeOK
  <2>1. NoProgress(NoExperiment) \in Progress
    BY DEF NoProgress, Progress
  <2>2. 1 \in 1..NRuns + 1 /\ 0 \in 0..MaxLaunches
    BY RunnerAssumption
  <2> QED BY <2>1, <2>2 DEF Init, TypeOK, RunStatus
<1>2. NothingLeft /\ Earned /\ Owned /\ Ahead /\ AtHand /\ Fresh /\ Behind
  BY DEF Init, NothingLeft, Earned, SuccessIsEarned, Owned, Ahead, AtHand, Fresh, Behind, Phases
<1>3. Credited
  BY DEF Init, Credited, NoProgress
<1> QED BY <1>1, <1>2, <1>3 DEF RunnerInv

(* What a launch starts from: what the file has of its experiment.         *)
LEMMA LaunchState ==
  ASSUME TypeOK, NEW e \in Experiments, Launch(e)
  PROVE  /\ state' \in Progress /\ state'.experiment = e
         /\ file.experiment = e => state' = file
         /\ file.experiment # e => \A r \in Runs : state'.completed[r] = 0
<1>1. NoProgress(e) \in Progress /\ NoProgress(e).experiment = e
  BY DEF NoProgress, Progress
<1>2. \A r \in Runs : NoProgress(e).completed[r] = 0
  BY DEF NoProgress
<1> QED BY <1>1, <1>2 DEF Launch, TypeOK

LEMMA StepType == TypeOK /\ Owned /\ AtHand /\ [Next]_vars => TypeOK'
<1> SUFFICES ASSUME TypeOK, Owned, AtHand, [Next]_vars PROVE TypeOK'
  OBVIOUS
<1> USE RunnerAssumption DEF TypeOK, AtHand, campaign, Runs
<1>1. CASE UNCHANGED vars
  BY <1>1 DEF vars
<1>2. CASE \E e \in Experiments : Launch(e)
  <2>1. PICK e \in Experiments : Launch(e)
    BY <1>2
  <2>2. state' \in Progress
    BY <2>1, LaunchState
  <2> QED BY <2>1, <2>2 DEF Launch, RunStatus
<1>3. CASE Select \/ Save \/ FinalSave \/ Exit
  <2>1. cur \in Runs => cur + 1 \in 1..NRuns + 1
    OBVIOUS
  <2>2. CASE Select
    BY <2>1, <2>2 DEF Select, RunStatus, Phases
  <2>3. CASE Save
    <3>1. file' \in Progress
      BY <2>3 DEF Save, SaveState
    <3> QED BY <2>1, <2>3, <3>1 DEF Save
  <2>4. CASE FinalSave \/ Exit
    BY <2>4 DEF FinalSave, Exit, SaveState
  <2> QED BY <1>3, <2>2, <2>3, <2>4
<1>4. CASE Attempt
  BY <1>4 DEF Attempt, Deploy, WaitReady, Register, StartK6, Fault, Recover, WaitK6, Export, Validate,
              Return, Continue, EndRun, Terminate, RunStatus, Phases
<1>5. CASE Record
  <2>1. cur \in Runs
    BY <1>5 DEF Record
  <2>2. /\ state.completed \in [Runs -> Nat] /\ state.failed \in [Runs -> Nat]
        /\ state.experiment \in Experiments \cup {NoExperiment}
        /\ state = [experiment |-> state.experiment, completed |-> state.completed,
                    failed |-> state.failed]
    BY DEF Progress
  <2>3. state' \in Progress
    <3>1. CASE status = "SUCCESS"
      <4> DEFINE completed == [state.completed EXCEPT ![cur] = @ + 1]
      <4>1. completed \in [Runs -> Nat]
        BY <2>1, <2>2
      <4>2. state' = [state EXCEPT !.completed = completed]
        BY <1>5, <3>1 DEF Record
      <4> HIDE DEF completed
      <4> QED BY <2>2, <4>1, <4>2 DEF Progress
    <3>2. CASE status # "SUCCESS"
      <4> DEFINE failed == [state.failed EXCEPT ![cur] = @ + 1]
      <4>1. failed \in [Runs -> Nat]
        BY <2>1, <2>2
      <4>2. state' = [state EXCEPT !.failed = failed]
        BY <1>5, <3>2 DEF Record
      <4> HIDE DEF failed
      <4> QED BY <2>2, <4>1, <4>2 DEF Progress
    <3> QED BY <3>1, <3>2
  <2>4. earned' \subseteq Experiments \X Runs
    <3>1. experiment \in Experiments /\ (earned' = earned \/ earned' = earned \cup {<<experiment, cur>>})
      BY <1>5 DEF Record, Owned
    <3>2. <<experiment, cur>> \in Experiments \X Runs
      BY <2>1, <3>1
    <3>3. earned \subseteq Experiments \X Runs
      OBVIOUS
    <3> HIDE DEF Runs
    <3> QED BY <3>1, <3>2, <3>3
  <2> QED BY <1>5, <2>3, <2>4 DEF Record
<1>6. CASE K6Exits \/ OrphanExits
  BY <1>6 DEF K6Exits, OrphanExits
<1>7. CASE Interrupt \/ Kill
  BY <1>7 DEF Interrupt, Kill, Dies, Abandon, Terminate, EndRun
<1> QED BY <1>1, <1>2, <1>3, <1>4, <1>5, <1>6, <1>7 DEF Next, Work

(* A save, successful or not, keeps what relates the file to the rest.     *)
LEMMA SaveKeeps ==
  ASSUME TypeOK, Owned, Ahead, Credited, pc # "off", pc' # "off", file' \in {file, state},
         UNCHANGED <<experiment, state, earned>>
  PROVE  Ahead' /\ Credited'
<1>1. \A r \in Runs : state.completed[r] \in Nat /\ state.failed[r] \in Nat
  BY DEF TypeOK, Progress
<1>2. CASE file' = file
  BY <1>2 DEF Ahead, Credited
<1>3. CASE file' = state
  <2>1. Ahead'
    BY <1>1, <1>3 DEF Ahead
  <2>2. state.experiment = experiment
    BY DEF Owned
  <2>3. \A r \in Runs : state.completed[r] > 0 => <<experiment, r>> \in earned
    BY DEF Credited
  <2> QED BY <1>3, <2>1, <2>2, <2>3 DEF Credited
<1> QED BY <1>2, <1>3

LEMMA StepRunner == RunnerInv /\ [Next]_vars => RunnerInv'
<1> SUFFICES ASSUME RunnerInv, [Next]_vars PROVE RunnerInv'
  OBVIOUS
<1>t. TypeOK'
  BY StepType DEF RunnerInv
<1> USE RunnerAssumption DEF campaign, Runs
<1>1. CASE UNCHANGED vars
  BY <1>1 DEF RunnerInv, TypeOK, NothingLeft, Earned, SuccessIsEarned, Owned, Ahead, AtHand, Fresh, Credited,
              Behind, Accounted, vars
<1>2. CASE \E e \in Experiments : Launch(e)
  <2>1. PICK e \in Experiments : Launch(e)
    BY <1>2
  <2>2. /\ state'.experiment = e
        /\ file.experiment = e => state' = file
        /\ file.experiment # e => \A r \in Runs : state'.completed[r] = 0
    BY <2>1, LaunchState DEF RunnerInv
  <2>3. pc' = "select" /\ cur' = 1 /\ experiment' = e /\ k6' = "none" /\ registered' = "none"
        /\ UNCHANGED <<file, earned>>
    BY <2>1 DEF Launch
  <2>4. NothingLeft' /\ Earned' /\ Owned' /\ AtHand' /\ Fresh' /\ Behind'
    BY <2>2, <2>3 DEF NothingLeft, Earned, SuccessIsEarned, Owned, AtHand, Fresh, Behind, Phases
  <2>5. Ahead'
    BY <2>2, <2>3 DEF RunnerInv, TypeOK, Progress, Ahead
  <2>6. Credited'
    <3> SUFFICES ASSUME NEW r \in Runs
                 PROVE  /\ state'.completed[r] > 0 => <<e, r>> \in earned
                        /\ file.completed[r] > 0 => <<file.experiment, r>> \in earned
      BY <2>3 DEF Credited
    <3>1. file.completed[r] > 0 => <<file.experiment, r>> \in earned
      BY DEF RunnerInv, Credited
    <3>2. CASE file.experiment = e
      BY <2>2, <3>1, <3>2
    <3>3. CASE file.experiment # e
      <4>1. state'.completed[r] = 0
        BY <2>2, <3>3
      <4> QED BY <3>1, <4>1
    <3> QED BY <3>2, <3>3
  <2> QED BY <1>t, <2>4, <2>5, <2>6 DEF RunnerInv
<1>3. CASE Select
  <2>1. NothingLeft' /\ Earned' /\ Owned' /\ Ahead' /\ AtHand' /\ Credited'
    BY <1>3 DEF Select, Skips, RunnerInv, TypeOK, NothingLeft, Earned, SuccessIsEarned, Owned, Ahead, AtHand,
                Credited, Phases
  <2>2. Fresh'
    BY <1>3 DEF Select, Skips, RunnerInv, TypeOK, Fresh, Phases, Progress
  <2>3. Behind'
    <3>1. CASE Skips(cur) /\ cur' = cur + 1
      <4>1. Accounted(cur)
        BY <1>3, <3>1 DEF Select, Skips, RunnerInv, TypeOK, Progress, Accounted
      <4>2. \A r \in Runs : r < cur + 1 => r < cur \/ r = cur
        BY DEF RunnerInv, TypeOK
      <4> QED BY <1>3, <3>1, <4>1, <4>2 DEF Select, RunnerInv, Behind, Accounted
    <3>2. CASE cur' = cur
      BY <1>3, <3>2 DEF Select, RunnerInv, Behind, Accounted
    <3> QED BY <1>3, <3>1, <3>2 DEF Select
  <2> QED BY <1>t, <2>1, <2>2, <2>3 DEF RunnerInv
<1>4. CASE Attempt
  <2>1. /\ pc \in Phases /\ pc' \in Phases \cup {"record"}
        /\ UNCHANGED <<cur, experiment, state, file, earned>>
    BY <1>4 DEF Attempt, Deploy, WaitReady, Register, StartK6, Fault, Recover, WaitK6, Export, Validate,
                Return, Continue, Phases
  <2>2. NothingLeft'
    BY <1>4 DEF Attempt, Deploy, WaitReady, Register, StartK6, Fault, Recover, WaitK6, Export, Validate,
                Return, Continue, EndRun, Terminate, RunnerInv, TypeOK, NothingLeft
  <2>3. Earned'
    BY <1>4 DEF Attempt, Deploy, WaitReady, Register, StartK6, Fault, Recover, WaitK6, Export, Validate,
                Return, Continue, RunnerInv, TypeOK, Earned, SuccessIsEarned, Phases
  <2>4. Owned' /\ Ahead' /\ AtHand' /\ Fresh' /\ Credited' /\ Behind'
    BY <2>1 DEF RunnerInv, Owned, Ahead, AtHand, Fresh, Credited, Behind, Accounted, Phases
  <2> QED BY <1>t, <2>2, <2>3, <2>4 DEF RunnerInv
<1>5. CASE Record
  <2>1. /\ pc = "record" /\ pc' = "save" /\ cur \in Runs
        /\ UNCHANGED <<cur, status, k6, registered, experiment, file, did>>
        /\ \/ /\ status = "SUCCESS" /\ state' = [state EXCEPT !.completed[cur] = @ + 1]
              /\ earned' = earned \cup {<<experiment, cur>>}
           \/ /\ status # "SUCCESS" /\ state' = [state EXCEPT !.failed[cur] = @ + 1]
              /\ earned' = earned
    BY <1>5 DEF Record, RunnerInv, AtHand
  <2>2. /\ state'.experiment = state.experiment
        /\ \A r \in Runs : /\ state'.completed[r] \in Nat /\ state'.failed[r] \in Nat
                           /\ state'.completed[r] >= state.completed[r]
                           /\ state'.failed[r] >= state.failed[r]
                           /\ r # cur => state'.completed[r] = state.completed[r]
                           /\ r = cur => Accounted(r)'
                           /\ status # "SUCCESS" => state'.completed[r] = state.completed[r]
    <3>1. /\ state.completed \in [Runs -> Nat] /\ state.failed \in [Runs -> Nat]
          /\ DOMAIN state = {"experiment", "completed", "failed"}
      BY DEF RunnerInv, TypeOK, Progress
    <3>2. CASE status = "SUCCESS" /\ state' = [state EXCEPT !.completed[cur] = @ + 1]
      <4>1. /\ state'.completed = [state.completed EXCEPT ![cur] = @ + 1]
            /\ state'.failed = state.failed /\ state'.experiment = state.experiment
        BY <3>1, <3>2
      <4> QED BY <2>1, <3>1, <3>2, <4>1 DEF Accounted
    <3>3. CASE state' = [state EXCEPT !.failed[cur] = @ + 1]
      <4>1. /\ state'.failed = [state.failed EXCEPT ![cur] = @ + 1]
            /\ state'.completed = state.completed /\ state'.experiment = state.experiment
        BY <3>1, <3>3
      <4> QED BY <2>1, <3>1, <4>1 DEF Accounted
    <3> QED BY <2>1, <3>2, <3>3
  <2>3. NothingLeft' /\ Earned' /\ AtHand' /\ Fresh'
    BY <2>1 DEF RunnerInv, NothingLeft, Earned, SuccessIsEarned, AtHand, Fresh, Phases
  <2>4. Owned' /\ Ahead'
    BY <2>1, <2>2 DEF RunnerInv, TypeOK, Progress, Owned, Ahead
  <2>5. Credited'
    <3> SUFFICES ASSUME NEW r \in Runs
                 PROVE  /\ state'.completed[r] > 0 => <<experiment, r>> \in earned'
                        /\ file.completed[r] > 0 => <<file.experiment, r>> \in earned'
      BY <2>1 DEF Credited
    <3>1. \A x \in earned : x \in earned'
      BY <2>1
    <3>2. /\ state.completed[r] > 0 => <<experiment, r>> \in earned
          /\ file.completed[r] > 0 => <<file.experiment, r>> \in earned
      BY <2>1 DEF RunnerInv, Credited
    <3>3. CASE status = "SUCCESS" /\ r = cur
      <4>1. <<experiment, r>> \in earned'
        BY <2>1, <3>3
      <4> QED BY <3>1, <3>2, <4>1
    <3>4. CASE ~(status = "SUCCESS" /\ r = cur)
      <4>1. state'.completed[r] = state.completed[r]
        BY <2>2, <3>4
      <4> QED BY <3>1, <3>2, <4>1
    <3> QED BY <3>3, <3>4
  <2>6. Behind'
    BY <2>1, <2>2 DEF RunnerInv, TypeOK, Progress, Behind, Accounted
  <2> QED BY <1>t, <2>3, <2>4, <2>5, <2>6 DEF RunnerInv
<1>6. CASE Save
  <2>1. /\ pc = "save" /\ pc' = "select" /\ cur' = cur + 1 /\ cur \in Runs
        /\ file' \in {file, state}
        /\ UNCHANGED <<status, k6, registered, experiment, state, did, earned>>
    BY <1>6 DEF Save, SaveState, RunnerInv, AtHand
  <2>2. NothingLeft' /\ Earned' /\ Owned' /\ AtHand' /\ Fresh'
    BY <2>1 DEF RunnerInv, NothingLeft, Earned, SuccessIsEarned, Owned, AtHand, Fresh, Phases
  <2>3. Ahead' /\ Credited'
    BY <2>1, SaveKeeps DEF RunnerInv
  <2>4. Behind'
    <3>1. \A r \in Runs : r < cur + 1 => r < cur \/ r = cur
      BY DEF RunnerInv, TypeOK
    <3> QED BY <2>1, <3>1 DEF RunnerInv, Behind, Accounted
  <2> QED BY <1>t, <2>2, <2>3, <2>4 DEF RunnerInv
<1>7. CASE FinalSave
  <2>1. /\ pc = "select" /\ pc' = "closing" /\ cur \notin Runs
        /\ file' \in {file, state}
        /\ UNCHANGED <<cur, status, k6, registered, experiment, state, did, earned>>
    BY <1>7 DEF FinalSave, SaveState
  <2>2. NothingLeft' /\ Earned' /\ Owned' /\ AtHand' /\ Fresh'
    BY <2>1 DEF RunnerInv, NothingLeft, Earned, SuccessIsEarned, Owned, AtHand, Fresh, Phases
  <2>3. Ahead' /\ Credited'
    BY <2>1, SaveKeeps DEF RunnerInv
  <2>4. Behind'
    BY <2>1 DEF RunnerInv, Behind, Accounted
  <2> QED BY <1>t, <2>2, <2>3, <2>4 DEF RunnerInv
<1>8. CASE K6Exits \/ OrphanExits
  BY <1>t, <1>8 DEF K6Exits, OrphanExits, RunnerInv, NothingLeft, Earned, SuccessIsEarned, Owned, Ahead,
              AtHand, Fresh, Credited, Behind, Accounted
<1>9. CASE Exit \/ Interrupt \/ Kill
  <2>1. pc' = "off" /\ UNCHANGED <<cur, experiment, state, file, status, did, earned>>
    BY <1>9 DEF Exit, Interrupt, Kill, Dies
  <2>2. NothingLeft' /\ Earned' /\ Owned' /\ AtHand' /\ Fresh' /\ Ahead' /\ Behind'
    BY <2>1 DEF NothingLeft, Earned, SuccessIsEarned, Owned, AtHand, Fresh, Ahead, Behind, Phases
  <2>3. Credited'
    BY <2>1 DEF RunnerInv, Credited
  <2> QED BY <1>t, <2>2, <2>3 DEF RunnerInv
<1> QED BY <1>1, <1>2, <1>3, <1>4, <1>5, <1>6, <1>7, <1>8, <1>9 DEF Next, Work

-----------------------------------------------------------------------------
THEOREM RunnerInvariant == Spec => []RunnerInv
BY InitRunner, StepRunner, PTL DEF Spec

(* run_one returns with nothing running and no record left open.           *)
THEOREM RunsReturnClean == Spec => []ReturnsClean
<1>1. RunnerInv => ReturnsClean
  BY DEF RunnerInv, NothingLeft, ReturnsClean
<1> QED BY <1>1, RunnerInvariant, PTL

(* No path through run_one ends in SUCCESS unearned.                       *)
THEOREM SuccessesAreEarned == Spec => []SuccessIsEarned
<1>1. RunnerInv => SuccessIsEarned
  BY DEF RunnerInv, Earned
<1> QED BY <1>1, RunnerInvariant, PTL

(* --resume never repeats what the file has of its experiment, and never   *)
(* passes over what that experiment has not completed.                     *)
THEOREM ResumesAreSound == Spec => []ResumeIsSound
<1>1. RunnerInv => ResumeIsSound
  <2> SUFFICES ASSUME RunnerInv PROVE ResumeIsSound
    OBVIOUS
  <2>1. Resume /\ pc \in Phases => file.experiment # experiment \/ file.completed[cur] = 0
    <3> SUFFICES ASSUME Resume, pc \in Phases, file.experiment = experiment
                 PROVE  file.completed[cur] = 0
      OBVIOUS
    <3>1. cur \in Runs /\ state.completed[cur] = 0 /\ pc # "off"
      BY DEF RunnerInv, AtHand, Fresh, Phases
    <3>2. file.completed[cur] <= state.completed[cur] /\ file.completed[cur] \in Nat
      BY <3>1 DEF RunnerInv, Ahead, TypeOK, Progress
    <3> QED BY <3>1, <3>2
  <2> QED BY <2>1 DEF RunnerInv, Credited, ResumeIsSound
<1> QED BY <1>1, RunnerInvariant, PTL

(* run_full returns with every planned run accounted for.                  *)
THEOREM RunsAreAccounted == Spec => []AllAccounted
<1>1. RunnerInv => AllAccounted
  BY RunnerAssumption DEF RunnerInv, TypeOK, AtHand, Behind, Accounted, AllAccounted, Runs
<1> QED BY <1>1, RunnerInvariant, PTL

(* The state file loses what it has recorded of an experiment only to a    *)
(* save by another one's launch.                                           *)
THEOREM FileNeverShrinks == Spec => FileOnlyGrows
<1>1. RunnerInv /\ [Next]_vars =>
        [/\ file'.experiment \in {file.experiment, experiment}
         /\ file'.experiment = file.experiment =>
              \A r \in Runs : /\ file'.completed[r] >= file.completed[r]
                              /\ file'.failed[r] >= file.failed[r]]_vars
  <2> SUFFICES ASSUME RunnerInv, [Next]_vars
               PROVE  /\ file'.experiment \in {file.experiment, experiment}
                      /\ file'.experiment = file.experiment =>
                           \A r \in Runs : /\ file'.completed[r] >= file.completed[r]
                                           /\ file'.failed[r] >= file.failed[r]
    OBVIOUS
  <2>1. file' = file \/ (pc # "off" /\ file' = state)
    BY DEF Next, vars, campaign, Launch, Work, Select, Attempt, Deploy, WaitReady, Register, StartK6,
           Fault, Recover, WaitK6, Export, Validate, Record, Save, FinalSave, SaveState, Exit, K6Exits,
           OrphanExits, Interrupt, Kill, Dies
  <2> QED BY <2>1 DEF RunnerInv, TypeOK, Progress, Owned, Ahead
<1> QED BY <1>1, RunnerInvariant, PTL DEF Spec, FileOnlyGrows

-----------------------------------------------------------------------------
(* Phases a run at hand has yet to go through, itself included. *)
PhasesLeft ==
  CASE pc = "select"  -> 12 [] pc = "deploy"   -> 11 [] pc = "ready"    -> 10
    [] pc = "register" -> 9 [] pc = "start_k6" -> 8  [] pc = "fault"    -> 7
    [] pc = "recover"  -> 6 [] pc = "wait_k6"  -> 5  [] pc = "export"   -> 4
    [] pc = "validate" -> 3 [] pc = "record"   -> 2  [] pc = "save"     -> 1

(* What a launch has before it, were every run to go through every phase. *)
StepsLeft == CASE pc = "off" -> 0
               [] pc = "closing" -> 1
               [] OTHER -> 12 * (NRuns + 1 - cur) + PhasesLeft + 1

LEMMA StepsLeftIs ==
  ASSUME TypeOK
  PROVE  /\ pc \notin {"off", "closing"} =>
              /\ StepsLeft = 12 * (NRuns + 1 - cur) + PhasesLeft + 1
              /\ PhasesLeft \in 1..12
         /\ pc = "off" => StepsLeft = 0
         /\ pc = "closing" => StepsLeft = 1
         /\ NRuns \in Nat /\ cur \in 1..NRuns + 1
<1>1. pc \notin {"off", "closing"} => PhasesLeft \in 1..12
  BY DEF PhasesLeft, TypeOK, Phases
<1>2. NRuns \in Nat /\ cur \in 1..NRuns + 1
  BY RunnerAssumption DEF TypeOK
<1> QED BY <1>1, <1>2 DEF StepsLeft

LEMMA WorkCountsDown ==
  ASSUME RunnerInv, TypeOK', Work
  PROVE  StepsLeft' < StepsLeft
<1> USE RunnerAssumption DEF Runs
<1>0. TypeOK /\ AtHand
  BY DEF RunnerInv
<1>n. NRuns \in Nat /\ cur \in 1..NRuns + 1
  BY <1>0, StepsLeftIs
<1>1. CASE Select
  <2>1. pc = "select" /\ ((pc' = "deploy" /\ cur' = cur) \/ (pc' = "select" /\ cur' = cur + 1))
    BY <1>1 DEF Select
  <2>2. PhasesLeft = 12 /\ (pc' = "deploy" => PhasesLeft' = 11) /\ (pc' = "select" => PhasesLeft' = 12)
    BY <2>1 DEF PhasesLeft
  <2> QED BY <1>n, <2>1, <2>2 DEF StepsLeft
<1>2. CASE Attempt
  <2>1. /\ cur' = cur
        /\ \/ pc = "deploy" /\ pc' \in {"ready", "record"}
           \/ pc = "ready" /\ pc' \in {"register", "record"}
           \/ pc = "register" /\ pc' \in {"start_k6", "record"}
           \/ pc = "start_k6" /\ pc' \in {"fault", "wait_k6", "record"}
           \/ pc = "fault" /\ pc' \in {"recover", "record"}
           \/ pc = "recover" /\ pc' = "wait_k6"
           \/ pc = "wait_k6" /\ pc' \in {"export", "record"}
           \/ pc = "export" /\ pc' = "validate"
           \/ pc = "validate" /\ pc' = "record"
    BY <1>2 DEF Attempt, Deploy, WaitReady, Register, StartK6, Fault, Recover, WaitK6, Export, Validate,
                Return, Continue, campaign
  <2>2. PhasesLeft \in 1..12 /\ PhasesLeft' \in 1..12 /\ PhasesLeft' < PhasesLeft
    BY <2>1 DEF PhasesLeft
  <2>3. pc \notin {"off", "closing"} /\ pc' \notin {"off", "closing"}
    BY <2>1
  <2> QED BY <1>n, <2>1, <2>2, <2>3 DEF StepsLeft
<1>3. CASE Record
  <2>1. pc = "record" /\ pc' = "save" /\ cur' = cur
    BY <1>3 DEF Record
  <2>2. PhasesLeft = 2 /\ PhasesLeft' = 1
    BY <2>1 DEF PhasesLeft
  <2> QED BY <1>n, <2>1, <2>2 DEF StepsLeft
<1>4. CASE Save
  <2>1. pc = "save" /\ pc' = "select" /\ cur' = cur + 1
    BY <1>4 DEF Save
  <2>2. PhasesLeft = 1 /\ PhasesLeft' = 12
    BY <2>1 DEF PhasesLeft
  <2> QED BY <1>n, <2>1, <2>2 DEF StepsLeft
<1>5. CASE FinalSave
  <2>1. pc = "select" /\ pc' = "closing"
    BY <1>5 DEF FinalSave
  <2>2. PhasesLeft = 12 /\ StepsLeft' = 1
    BY <2>1 DEF PhasesLeft, StepsLeft
  <2> QED BY <1>n, <2>1, <2>2 DEF StepsLeft
<1>6. CASE Exit
  BY <1>6 DEF Exit, StepsLeft
<1> QED BY <1>1, <1>2, <1>3, <1>4, <1>5, <1>6 DEF Work

(* The safety half of CampaignEnds.  Every step of a launch brings it      *)
(* nearer to its end; k6, an orphan and a death never set it back; and 12  *)
(* steps for each planned run and 13 more are the most it takes.           *)
THEOREM LaunchesRunDown ==
  /\ Spec => [][pc # "off" => \/ StepsLeft' < StepsLeft
                              \/ StepsLeft' = StepsLeft /\ (K6Exits \/ OrphanExits)]_vars
  /\ Spec => [](StepsLeft \in 0..12 * NRuns + 13 /\ (StepsLeft = 0 <=> pc = "off"))
<1>1. RunnerInv /\ RunnerInv' /\ [Next]_vars =>
        [pc # "off" => \/ StepsLeft' < StepsLeft
                       \/ StepsLeft' = StepsLeft /\ (K6Exits \/ OrphanExits)]_vars
  <2> SUFFICES ASSUME RunnerInv, RunnerInv', Next, pc # "off"
               PROVE  \/ StepsLeft' < StepsLeft
                      \/ StepsLeft' = StepsLeft /\ (K6Exits \/ OrphanExits)
    OBVIOUS
  <2>1. TypeOK /\ TypeOK'
    BY DEF RunnerInv
  <2>2. CASE Work
    BY <2>1, <2>2, WorkCountsDown
  <2>3. CASE K6Exits \/ OrphanExits
    BY <2>3 DEF K6Exits, OrphanExits, campaign, StepsLeft, PhasesLeft
  <2>4. CASE Interrupt \/ Kill
    <3>1. StepsLeft' = 0
      BY <2>4 DEF Interrupt, Kill, Dies, StepsLeft
    <3>2. StepsLeft >= 1
      BY <2>1, StepsLeftIs
    <3>3. StepsLeft \in Nat
      BY <2>1, StepsLeftIs
    <3> QED BY <3>1, <3>2, <3>3
  <2>5. \A e \in Experiments : ~Launch(e)
    BY DEF Launch
  <2> QED BY <2>2, <2>3, <2>4, <2>5 DEF Next
<1>2. RunnerInv => StepsLeft \in 0..12 * NRuns + 13 /\ (StepsLeft = 0 <=> pc = "off")
  BY StepsLeftIs DEF RunnerInv
<1> QED BY <1>1, <1>2, RunnerInvariant, PTL DEF Spec
=============================================================================
