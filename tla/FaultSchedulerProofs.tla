------------------------ MODULE FaultSchedulerProofs ------------------------
(***************************************************************************)
(* That an injection gets one verdict and a true one, and that the events  *)
(* of a fault which was carried through satisfy the invalidator, for any   *)
(* number of commands or stages; and that stages follow one another, each  *)
(* closed before the next begins.                                          *)
(*                                                                         *)
(* The invariant says what has been recorded, run and flagged by the time  *)
(* run_fault gets to each of its places; it counts events only while the   *)
(* operator has not interrupted the call.                                  *)
(***************************************************************************)
EXTENDS FaultScheduler, FiniteSetTheorems, SequenceTheorems, TLAPS

Command == [step : Steps, ok : BOOLEAN]

Typed == /\ kind \in Kinds /\ step \in Nat
         /\ ran \in Seq(Command) /\ asked \in Seq(Event)
         /\ fault_event_recorded \in BOOLEAN /\ failure_event_recorded \in BOOLEAN /\ success \in BOOLEAN

Before == {"preflight", "steady", "inject"}
Within == {"stage", "command", "stage_end"}

SomeFailed == \E i \in DOMAIN ran : ~ran[i].ok
NoneFailed == \A i \in DOMAIN ran : ran[i].ok
Asked(type) == \E i \in DOMAIN asked : asked[i].type = type

(* What the flags and the outcome are worth at each place. *)
Flagged ==
  /\ pc \in Before \cup Within \cup {"report", "finally", "observe", "done"}
  /\ pc \in Before \cup Within \cup {"report", "observe"} => outcome = "none"
  /\ pc = "finally" => outcome \in {"none", "raised", "interrupted"}
  /\ pc = "done" => outcome \in {"true", "false", "raised", "interrupted"}
  /\ pc \in Before => ~fault_event_recorded
  /\ pc \in Before \cup Within => success /\ ~failure_event_recorded
  /\ pc = "report" => ~success /\ ~failure_event_recorded
  /\ pc = "finally" /\ outcome = "raised" => ~success
  /\ pc = "observe" => success
  /\ failure_event_recorded => ~success
  /\ ~success => SomeFailed
  /\ fault_event_recorded => kind # "unknown"

(* How far the commands have been run. *)
Progressed ==
  /\ pc \in Before => ran = <<>> /\ step = 1
  /\ pc \in Within \cup {"report"} => step \in Steps /\ kind # "unknown"
  /\ pc \in Within => NoneFailed
  /\ pc \in {"stage", "command"} => Len(ran) = step - 1
  /\ pc = "command" /\ kind = "parallel" => step = 1
  /\ pc \in {"stage", "stage_end"} => kind = "stages"
  /\ pc = "stage_end" => Len(ran) = step
  /\ pc \in {"finally", "observe"} /\ outcome = "none" /\ success /\ kind # "unknown" => AllDone

(* A failure is recorded of nothing but a failure. *)
FailuresTrue == Asked("fault_failed") \/ Asked("fault_stage_failed") => SomeFailed

(* The events that the invalidator looks for. *)
Announced ==
  kind # "unknown" /\ (\/ pc \in Within \cup {"report", "observe"}
                       \/ pc = "finally" /\ outcome = "none"
                       \/ outcome = "true") =>
    /\ Asked("fault_injected")
    /\ kind = "stages" /\ pc # "stage" => Asked("fault_stage_started")

Verdicts == Times("fault_finished") + Times("fault_failed") + Times("fault_stage_failed")

(* How many verdicts have been recorded. *)
Counted ==
  outcome # "interrupted" =>
    /\ pc \in Before \cup Within \cup {"report"} => Verdicts = 0
    /\ pc = "finally" => /\ Times("fault_finished") = 0
                         /\ Verdicts = IF failure_event_recorded THEN 1 ELSE 0
    /\ pc \in {"observe", "done"} => Verdicts <= 1 /\ (fault_event_recorded => Verdicts = 1)
    /\ pc = "observe" \/ outcome = "true" =>
         Times("fault_failed") = 0 /\ (kind # "unknown" => AllDone)
    /\ Times("fault_finished") > 0 => AllDone

FaultInv == Typed /\ Flagged /\ Progressed /\ FailuresTrue /\ Announced /\ Counted

-----------------------------------------------------------------------------
(* Sequences of events.                                                    *)

Count(s, type) == Cardinality({i \in DOMAIN s : s[i].type = type})

LEMMA CountOfNone == \A type : Count(<<>>, type) = 0
<1> SUFFICES ASSUME NEW type PROVE Count(<<>>, type) = 0
  OBVIOUS
<1>1. {i \in DOMAIN <<>> : <<>>[i].type = type} = {}
  OBVIOUS
<1> QED BY <1>1, FS_EmptySet DEF Count

LEMMA CountIsNat ==
  ASSUME NEW s \in Seq(Event), NEW type
  PROVE  Count(s, type) \in Nat /\ IsFiniteSet({i \in DOMAIN s : s[i].type = type})
<1>1. IsFiniteSet(1..Len(s))
  BY FS_Interval
<1>2. {i \in DOMAIN s : s[i].type = type} \subseteq 1..Len(s)
  OBVIOUS
<1> QED BY <1>1, <1>2, FS_Subset, FS_CardinalityType DEF Count

LEMMA CountOfOneMore ==
  ASSUME NEW s \in Seq(Event), NEW e \in Event, NEW type
  PROVE  /\ s \o <<e>> \in Seq(Event)
         /\ Count(s \o <<e>>, type) = Count(s, type) + (IF e.type = type THEN 1 ELSE 0)
<1> DEFINE t == s \o <<e>>
           Old == {i \in DOMAIN s : s[i].type = type}
           New == {i \in DOMAIN t : t[i].type = type}
<1>1. /\ t \in Seq(Event) /\ DOMAIN s = 1..Len(s) /\ DOMAIN t = 1..Len(s) + 1 /\ Len(s) \in Nat
      /\ \A i \in 1..Len(s) : t[i] = s[i]
      /\ t[Len(s) + 1] = e
  OBVIOUS
<1>2. IsFiniteSet(Old) /\ Cardinality(Old) \in Nat
  BY CountIsNat DEF Count
<1>0. Count(s, type) = Cardinality(Old) /\ Count(t, type) = Cardinality(New)
  BY DEF Count
<1>3. CASE e.type = type
  <2>1. New = Old \cup {Len(s) + 1} /\ Len(s) + 1 \notin Old
    BY <1>1, <1>3
  <2>2. Cardinality(New) = Cardinality(Old) + 1
    BY <1>2, <2>1, FS_AddElement
  <2> QED BY <1>0, <1>1, <1>3, <2>2
<1>4. CASE e.type # type
  <2>1. New = Old
    BY <1>1, <1>4
  <2>2. Count(t, type) = Count(s, type) /\ Count(s, type) \in Nat
    BY <1>0, <1>2, <2>1
  <2> QED BY <1>1, <1>4, <2>2
<1> QED BY <1>3, <1>4

(* What was recorded stays, and nothing comes to it but the new events. *)
LEMMA Recorded ==
  ASSUME asked \in Seq(Event), NEW events \in Seq(Event), RecordEvents(events)
  PROVE  /\ asked' \in Seq(Event)
         /\ \A type : Asked(type)' <=> Asked(type) \/ \E j \in DOMAIN events : events[j].type = type
<1>1. /\ asked' \in Seq(Event) /\ Len(asked') = Len(asked) + Len(events)
      /\ \A i \in 1..Len(asked) + Len(events) :
           asked'[i] = IF i <= Len(asked) THEN asked[i] ELSE events[i - Len(asked)]
  BY ConcatProperties DEF RecordEvents
<1>2. Len(asked) \in Nat /\ Len(events) \in Nat
  OBVIOUS
<1>3. \A j \in 1..Len(events) : asked'[Len(asked) + j] = events[j]
  BY <1>1, <1>2
<1>4. DOMAIN asked = 1..Len(asked) /\ DOMAIN events = 1..Len(events) /\ DOMAIN asked' = 1..Len(asked')
  BY <1>1
<1> SUFFICES ASSUME NEW type
             PROVE  Asked(type)' <=> Asked(type) \/ \E j \in DOMAIN events : events[j].type = type
  BY <1>1
<1>5. ASSUME Asked(type) PROVE Asked(type)'
  BY <1>1, <1>2, <1>4, <1>5 DEF Asked
<1>6. ASSUME NEW j \in DOMAIN events, events[j].type = type PROVE Asked(type)'
  <2>1. Len(asked) + j \in DOMAIN asked'
    BY <1>1, <1>2, <1>4
  <2> QED BY <1>3, <1>4, <1>6, <2>1 DEF Asked
<1>7. ASSUME Asked(type)' PROVE Asked(type) \/ \E j \in DOMAIN events : events[j].type = type
  <2>1. PICK i \in 1..Len(asked) + Len(events) : asked'[i].type = type
    BY <1>1, <1>4, <1>7 DEF Asked
  <2>2. CASE i <= Len(asked)
    BY <1>1, <1>2, <1>4, <2>1, <2>2 DEF Asked
  <2>3. CASE i > Len(asked)
    <3>1. i - Len(asked) \in DOMAIN events /\ events[i - Len(asked)].type = type
      BY <1>1, <1>2, <1>4, <2>1, <2>3
    <3> QED BY <3>1
  <2> QED BY <1>2, <2>2, <2>3
<1> QED BY <1>5, <1>6, <1>7

(* The same for the counts, by how many events are recorded at once. *)
LEMMA NoneRecorded ==
  ASSUME asked \in Seq(Event), asked' = asked \/ RecordEvents(<<>>)
  PROVE  asked' = asked /\ \A type : Times(type)' = Times(type) /\ Times(type) \in Nat
<1>1. asked' = asked
  BY ConcatEmptySeq DEF RecordEvents
<1>2. \A type : Times(type) \in Nat
  BY CountIsNat DEF Count, Times
<1> QED BY <1>1, <1>2 DEF Times

LEMMA OneRecorded ==
  ASSUME asked \in Seq(Event), NEW e \in Event, RecordEvents(<<e>>)
  PROVE  \A type : /\ Times(type) \in Nat
                   /\ Times(type)' = Times(type) + (IF e.type = type THEN 1 ELSE 0)
<1> SUFFICES ASSUME NEW type
             PROVE  /\ Count(asked, type) \in Nat
                    /\ Count(asked', type) = Count(asked, type) + (IF e.type = type THEN 1 ELSE 0)
  BY DEF Times, Count
<1>1. asked' = asked \o <<e>>
  BY DEF RecordEvents
<1> QED BY <1>1, CountIsNat, CountOfOneMore

LEMMA TwoRecorded ==
  ASSUME asked \in Seq(Event), NEW d \in Event, NEW e \in Event, RecordEvents(<<d, e>>)
  PROVE  \A type : /\ Times(type) \in Nat
                   /\ Times(type)' = Times(type) + (IF d.type = type THEN 1 ELSE 0)
                                                 + (IF e.type = type THEN 1 ELSE 0)
<1> SUFFICES ASSUME NEW type
             PROVE  /\ Count(asked, type) \in Nat
                    /\ Count(asked', type) = Count(asked, type) + (IF d.type = type THEN 1 ELSE 0)
                                                               + (IF e.type = type THEN 1 ELSE 0)
  BY DEF Times, Count
<1>1. asked' = (asked \o <<d>>) \o <<e>>
  <2>1. <<d>> \in Seq(Event) /\ <<e>> \in Seq(Event)
    OBVIOUS
  <2>2. <<d, e>> = Append(<<d>>, e)
    OBVIOUS
  <2>3. <<d, e>> = <<d>> \o <<e>>
    BY <2>1, <2>2, AppendIsConcat
  <2> QED BY <2>1, <2>3, ConcatAssociative DEF RecordEvents
<1>2. Count(asked, type) \in Nat
  BY CountIsNat
<1>3. asked \o <<d>> \in Seq(Event) /\ Count(asked \o <<d>>, type) = Count(asked, type) + (IF d.type = type THEN 1 ELSE 0)
  BY CountOfOneMore
<1>4. Count(asked', type) = Count(asked \o <<d>>, type) + (IF e.type = type THEN 1 ELSE 0)
  BY <1>1, <1>3, CountOfOneMore
<1> QED BY <1>2, <1>3, <1>4

-----------------------------------------------------------------------------
LEMMA InitFault == Init => FaultInv
<1> SUFFICES ASSUME Init PROVE FaultInv
  OBVIOUS
<1>1. Typed
  <2>1. kind \in Kinds /\ step \in Nat /\ ran \in Seq(Command) /\ asked \in Seq(Event)
    BY DEF Init
  <2>2. fault_event_recorded \in BOOLEAN /\ failure_event_recorded \in BOOLEAN /\ success \in BOOLEAN
    BY DEF Init
  <2> QED BY <2>1, <2>2 DEF Typed
<1>4. Flagged
  BY DEF Init, Flagged, Before, Within
<1>5. Progressed
  BY DEF Init, Progressed, Before, Within
<1>2. FailuresTrue /\ Announced
  BY DEF Init, FailuresTrue, Announced, Asked, Within
<1>3. Counted
  <2>1. Times("fault_finished") = 0 /\ Times("fault_failed") = 0 /\ Times("fault_stage_failed") = 0
    BY CountOfNone DEF Init, Times, Count
  <2> QED BY <2>1 DEF Init, Counted, Verdicts, Before, Within
<1> QED BY <1>1, <1>2, <1>3, <1>4, <1>5 DEF FaultInv

(* The events that the program hands over are events. *)
LEMMA EventsTyped ==
  ASSUME Typed
  PROVE  /\ \A type \in EventTypes : RunEvent(type) \in Event
         /\ step \in Steps => \A type \in EventTypes : StageEvent(type) \in Event
BY FaultSchedulerAssumption DEF Typed, RunEvent, StageEvent, Event, Steps, EventTypes

(* Preflight, the wait for steady load, and the load itself. *)
LEMMA QuietSteps ==
  ASSUME FaultInv, Preflight \/ Steady \/ NoBranch \/ K6Ends \/ Observe \/ UNCHANGED vars
  PROVE  FaultInv'
<1>1. UNCHANGED <<kind, step, ran, asked, fault_event_recorded, failure_event_recorded, success>>
  BY DEF Preflight, Steady, NoBranch, K6Ends, Observe, Quiet, flags, vars
<1>2. \/ pc' = pc /\ outcome' = outcome
      \/ pc \in {"preflight", "steady"} /\ pc' \in {"steady", "inject"} /\ outcome' = outcome
      \/ pc \in {"preflight", "steady"} /\ pc' = "done" /\ outcome' \in {"false", "raised"}
      \/ pc = "inject" /\ kind = "unknown" /\ pc' = "finally" /\ outcome' = outcome
      \/ pc = "observe" /\ pc' = "done" /\ outcome' = "true"
  BY DEF Preflight, Steady, NoBranch, K6Ends, Observe, Finish, vars
<1>3. Typed'
  BY <1>1 DEF FaultInv, Typed
<1>4. Flagged'
  BY <1>1, <1>2 DEF FaultInv, Flagged, Before, Within, SomeFailed
<1>5. Progressed'
  BY <1>1, <1>2 DEF FaultInv, Progressed, Before, Within, NoneFailed, AllDone
<1>6. FailuresTrue' /\ Announced'
  BY <1>1, <1>2 DEF FaultInv, FailuresTrue, Announced, Asked, SomeFailed, Within, Flagged, Before
<1>7. Counted'
  <2>1. \A type : Times(type)' = Times(type)
    BY <1>1 DEF Times
  <2>2. Verdicts' = Verdicts /\ AllDone' = AllDone
    BY <1>1, <2>1 DEF Verdicts, AllDone
  <2>3. pc = "observe" /\ kind # "unknown" => AllDone
    BY DEF FaultInv, Flagged, Progressed
  <2>4. CASE pc = "inject" /\ pc' = "finally"
    <3>1. outcome' # "interrupted" => Verdicts = 0 /\ ~failure_event_recorded
      BY <1>2, <2>4 DEF FaultInv, Counted, Flagged, Before
    <3>2. Times("fault_finished") \in Nat /\ Times("fault_failed") \in Nat /\ Times("fault_stage_failed") \in Nat
      BY CountIsNat DEF FaultInv, Typed, Times, Count
    <3>3. Verdicts = 0 => Times("fault_finished") = 0
      BY <3>2 DEF Verdicts
    <3>4. outcome' # "true"
      BY <1>2, <2>4 DEF FaultInv, Flagged, Before
    <3> QED BY <1>1, <2>1, <2>2, <2>4, <3>1, <3>3, <3>4 DEF Counted, Before, Within
  <2>5. CASE ~(pc = "inject" /\ pc' = "finally")
    BY <1>1, <1>2, <2>1, <2>2, <2>3, <2>5 DEF FaultInv, Counted, Flagged, Before, Within
  <2> QED BY <2>4, <2>5
<1> QED BY <1>3, <1>4, <1>5, <1>6, <1>7 DEF FaultInv

(* Events that are no verdict. *)
LEMMA NoVerdict ==
  ASSUME asked \in Seq(Event), NEW e \in Event, RecordEvents(<<e>>),
         e.type \in {"fault_injected", "fault_stage_started", "fault_stage_finished"}
  PROVE  /\ asked' \in Seq(Event)
         /\ Verdicts' = Verdicts /\ \A type \in {"fault_finished", "fault_failed", "fault_stage_failed"} :
              Times(type)' = Times(type) /\ (Asked(type)' <=> Asked(type))
         /\ Asked(e.type)' /\ \A type : Asked(type) => Asked(type)'
<1>1. <<e>> \in Seq(Event) /\ DOMAIN <<e>> = {1} /\ <<e>>[1] = e
  OBVIOUS
<1>2. asked' \in Seq(Event) /\ \A type : Asked(type)' <=> Asked(type) \/ e.type = type
  <2>1. /\ asked' \in Seq(Event)
        /\ \A type : Asked(type)' <=> Asked(type) \/ \E j \in DOMAIN <<e>> : <<e>>[j].type = type
    BY <1>1, Recorded
  <2>2. \A type : (\E j \in DOMAIN <<e>> : <<e>>[j].type = type) <=> e.type = type
    BY <1>1
  <2> QED BY <2>1, <2>2
<1>3. \A type : Times(type) \in Nat /\ Times(type)' = Times(type) + (IF e.type = type THEN 1 ELSE 0)
  BY OneRecorded
<1>4. \A type \in {"fault_finished", "fault_failed", "fault_stage_failed"} : Times(type)' = Times(type)
  BY <1>3
<1> QED BY <1>2, <1>4 DEF Verdicts

(* The counts are numbers. *)
LEMMA TimesTyped ==
  ASSUME asked \in Seq(Event)
  PROVE  \A type : Times(type) \in Nat
BY CountIsNat DEF Times, Count

LEMMA InjectStep == FaultInv /\ Inject => FaultInv'
<1> SUFFICES ASSUME FaultInv, Inject PROVE FaultInv'
  OBVIOUS
<1> DEFINE e == RunEvent("fault_injected")
<1>1. e \in Event /\ e.type = "fault_injected" /\ asked \in Seq(Event)
  BY EventsTyped DEF FaultInv, Typed, RunEvent, EventTypes
<1>2. /\ pc = "inject" /\ kind # "unknown" /\ pc' = (IF kind = "stages" THEN "stage" ELSE "command")
      /\ RecordEvents(<<e>>) /\ fault_event_recorded' \in BOOLEAN
      /\ UNCHANGED <<kind, step, ran, failure_event_recorded, success, outcome>>
  <2>1. fault_event_recorded' \in BOOLEAN
    <3>1. fault_event_recorded' = FALSE \/ fault_event_recorded' = (e \in delivered')
      BY DEF Inject
    <3>2. (e \in delivered') \in BOOLEAN
      OBVIOUS
    <3> QED BY <3>1, <3>2, Zenon
  <2> QED BY <2>1 DEF Inject
<1> HIDE DEF e
<1>3. /\ asked' \in Seq(Event) /\ Verdicts' = Verdicts
      /\ \A type \in {"fault_finished", "fault_failed", "fault_stage_failed"} :
           Times(type)' = Times(type) /\ (Asked(type)' <=> Asked(type))
      /\ Asked("fault_injected")'
  BY <1>1, <1>2, NoVerdict
<1>4. Typed'
  BY <1>2, <1>3 DEF FaultInv, Typed
<1>5. Flagged'
  BY <1>2 DEF FaultInv, Flagged, Before, Within, SomeFailed
<1>6. Progressed'
  <2>1. step = 1 /\ ran = <<>> /\ 1 \in Steps
    BY <1>2, FaultSchedulerAssumption DEF FaultInv, Progressed, Before, Steps
  <2> QED BY <2>1, <1>2 DEF Progressed, Before, Within, NoneFailed
<1>7. FailuresTrue' /\ Announced'
  <2>1. outcome' = "none"
    BY <1>2 DEF FaultInv, Flagged, Before
  <2>2. SomeFailed' <=> SomeFailed
    BY <1>2 DEF SomeFailed
  <2> QED BY <1>2, <1>3, <2>1, <2>2 DEF FaultInv, FailuresTrue, Announced, Within
<1>8. Counted'
  <2>1. Verdicts = 0 /\ outcome' = "none"
    BY <1>2 DEF FaultInv, Counted, Flagged, Before
  <2>2. Times("fault_finished") = 0
    BY <1>1, <2>1, TimesTyped DEF Verdicts
  <2> QED BY <1>2, <1>3, <2>1, <2>2 DEF Counted, Within
<1> QED BY <1>4, <1>5, <1>6, <1>7, <1>8 DEF FaultInv

LEMMA StageStartsStep == FaultInv /\ StageStarts => FaultInv'
<1> SUFFICES ASSUME FaultInv, StageStarts PROVE FaultInv'
  OBVIOUS
<1> DEFINE e == StageEvent("fault_stage_started")
<1>1. e \in Event /\ e.type = "fault_stage_started" /\ asked \in Seq(Event)
  BY EventsTyped DEF FaultInv, Typed, StageEvent, EventTypes, Progressed, Within, StageStarts
<1>2. /\ pc = "stage" /\ pc' = "command" /\ kind = "stages"
      /\ RecordEvents(<<e>>)
      /\ UNCHANGED <<kind, step, ran, fault_event_recorded, failure_event_recorded, success, outcome>>
  BY DEF StageStarts, flags, FaultInv, Progressed
<1> HIDE DEF e
<1>3. /\ asked' \in Seq(Event) /\ Verdicts' = Verdicts
      /\ \A type \in {"fault_finished", "fault_failed", "fault_stage_failed"} :
           Times(type)' = Times(type) /\ (Asked(type)' <=> Asked(type))
      /\ Asked("fault_stage_started")' /\ (Asked("fault_injected") => Asked("fault_injected")')
  BY <1>1, <1>2, NoVerdict
<1>4. Typed'
  BY <1>2, <1>3 DEF FaultInv, Typed
<1>5. Flagged'
  BY <1>2 DEF FaultInv, Flagged, Before, Within, SomeFailed
<1>6. Progressed'
  BY <1>2 DEF FaultInv, Progressed, Before, Within, NoneFailed
<1>7. FailuresTrue' /\ Announced'
  <2>1. SomeFailed' <=> SomeFailed
    BY <1>2 DEF SomeFailed
  <2> QED BY <1>2, <1>3, <2>1 DEF FaultInv, FailuresTrue, Announced, Within
<1>8. Counted'
  <2>1. Verdicts = 0 /\ outcome' = "none"
    BY <1>2 DEF FaultInv, Counted, Flagged, Within
  <2>2. Times("fault_finished") = 0
    BY <1>1, <2>1, TimesTyped DEF Verdicts
  <2> QED BY <1>2, <1>3, <2>1, <2>2 DEF Counted, Within
<1> QED BY <1>4, <1>5, <1>6, <1>7, <1>8 DEF FaultInv

LEMMA StageFinishesStep == FaultInv /\ StageFinishes => FaultInv'
<1> SUFFICES ASSUME FaultInv, StageFinishes PROVE FaultInv'
  OBVIOUS
<1> DEFINE e == StageEvent("fault_stage_finished")
<1>1. e \in Event /\ e.type = "fault_stage_finished" /\ asked \in Seq(Event)
  BY EventsTyped DEF FaultInv, Typed, StageEvent, EventTypes, Progressed, Within, StageFinishes
<1>2. /\ pc = "stage_end" /\ kind = "stages" /\ step \in Steps /\ Len(ran) = step /\ NoneFailed
      /\ step' = step + 1 /\ pc' = (IF step = NCommands THEN "finally" ELSE "stage")
      /\ RecordEvents(<<e>>)
      /\ UNCHANGED <<kind, ran, fault_event_recorded, failure_event_recorded, success, outcome>>
  BY DEF StageFinishes, NextStep, flags, FaultInv, Progressed, Within
<1> HIDE DEF e
<1>3. /\ asked' \in Seq(Event) /\ Verdicts' = Verdicts
      /\ \A type \in {"fault_finished", "fault_failed", "fault_stage_failed"} :
           Times(type)' = Times(type) /\ (Asked(type)' <=> Asked(type))
      /\ \A type : Asked(type) => Asked(type)'
  BY <1>1, <1>2, NoVerdict
<1>4. Typed'
  BY <1>2, <1>3 DEF FaultInv, Typed
<1>5. Flagged'
  BY <1>2 DEF FaultInv, Flagged, Before, Within, SomeFailed
<1>6. Progressed'
  <2>1. CASE step = NCommands
    <3>1. AllDone
      BY <1>2, <2>1 DEF AllDone, NoneFailed
    <3> QED BY <1>2, <2>1, <3>1 DEF Progressed, Before, Within, AllDone
  <2>2. CASE step # NCommands
    <3>1. step + 1 \in Steps /\ (step + 1) - 1 = step
      BY <1>2, <2>2, FaultSchedulerAssumption DEF Steps
    <3> QED BY <1>2, <2>2, <3>1 DEF Progressed, Before, Within, NoneFailed
  <2> QED BY <2>1, <2>2
<1>7. FailuresTrue' /\ Announced'
  <2>1. SomeFailed' <=> SomeFailed
    BY <1>2 DEF SomeFailed
  <2> QED BY <1>2, <1>3, <2>1 DEF FaultInv, FailuresTrue, Announced, Within
<1>8. Counted'
  <2>1. Verdicts = 0 /\ outcome' = "none" /\ ~failure_event_recorded
    BY <1>2 DEF FaultInv, Counted, Flagged, Within
  <2>2. Times("fault_finished") = 0
    BY <1>1, <2>1, TimesTyped DEF Verdicts
  <2> QED BY <1>2, <1>3, <2>1, <2>2 DEF Counted, Within
<1> QED BY <1>4, <1>5, <1>6, <1>7, <1>8 DEF FaultInv

(* What a step leaves as it is when no event is recorded. *)
LEMMA NothingRecorded ==
  ASSUME FaultInv, Quiet
  PROVE  /\ asked' = asked /\ asked \in Seq(Event)
         /\ Verdicts' = Verdicts /\ \A type : Times(type)' = Times(type) /\ (Asked(type)' <=> Asked(type))
<1>1. asked' = asked /\ asked \in Seq(Event)
  BY DEF Quiet, FaultInv, Typed
<1>2. \A type : Times(type)' = Times(type) /\ (Asked(type)' <=> Asked(type))
  BY <1>1 DEF Times, Asked
<1> QED BY <1>1, <1>2 DEF Verdicts

(* A place in front of a command. *)
LEMMA AtCommand ==
  ASSUME FaultInv, pc = "command"
  PROVE  /\ step \in Steps /\ Len(ran) = step - 1 /\ NoneFailed /\ success /\ ~failure_event_recorded
         /\ outcome = "none" /\ Verdicts = 0 /\ Times("fault_finished") = 0
         /\ Asked("fault_injected") /\ (kind = "stages" => Asked("fault_stage_started"))
         /\ ~Asked("fault_failed") /\ ~Asked("fault_stage_failed")
         /\ kind = "parallel" => step = 1
         /\ kind # "unknown"
<1>1. /\ step \in Steps /\ Len(ran) = step - 1 /\ NoneFailed /\ success /\ ~failure_event_recorded
      /\ outcome = "none" /\ Verdicts = 0 /\ (kind = "parallel" => step = 1) /\ kind # "unknown"
  BY DEF FaultInv, Flagged, Progressed, Counted, Within
<1>2. Times("fault_finished") = 0
  BY <1>1, TimesTyped DEF FaultInv, Typed, Verdicts
<1>3. Asked("fault_injected") /\ (kind = "stages" => Asked("fault_stage_started"))
  BY <1>1 DEF FaultInv, Announced, Within
<1>4. ~Asked("fault_failed") /\ ~Asked("fault_stage_failed")
  BY <1>1 DEF FaultInv, FailuresTrue, SomeFailed, NoneFailed
<1> QED BY <1>1, <1>2, <1>3, <1>4

(* One more command. *)
LEMMA RanOneMore ==
  ASSUME Typed, step \in Steps, NoneFailed, NEW ok \in BOOLEAN, ran' = Append(ran, [step |-> step, ok |-> ok])
  PROVE  /\ ran' \in Seq(Command) /\ Len(ran') = Len(ran) + 1
         /\ ok => NoneFailed'
         /\ ~ok => SomeFailed'
<1> DEFINE c == [step |-> step, ok |-> ok]
<1>1. c \in Command /\ c.ok = ok /\ ran \in Seq(Command)
  BY DEF Command, Typed
<1> HIDE DEF c
<1>2. /\ ran' \in Seq(Command) /\ Len(ran') = Len(ran) + 1 /\ DOMAIN ran' = 1..Len(ran) + 1 /\ DOMAIN ran = 1..Len(ran)
      /\ \A i \in 1..Len(ran) : ran'[i] = ran[i]
      /\ ran'[Len(ran) + 1] = c
  <2>1. ran' = Append(ran, c)
    BY DEF c
  <2> QED BY <1>1, <2>1
<1>3. Len(ran) \in Nat /\ Len(ran) + 1 \in DOMAIN ran'
  BY <1>1, <1>2
<1>4. \A i \in DOMAIN ran' : i \in DOMAIN ran \/ i = Len(ran) + 1
  BY <1>2, <1>3
<1> QED BY <1>1, <1>2, <1>3, <1>4 DEF NoneFailed, SomeFailed

LEMMA RunCommandStep ==
  ASSUME FaultInv, NEW ok \in BOOLEAN, RunCommand(ok)
  PROVE  FaultInv'
<1>1. /\ pc = "command" /\ kind \in Kinds \ {"parallel", "unknown"}
      /\ ran' = Append(ran, [step |-> step, ok |-> ok]) /\ Quiet
      /\ UNCHANGED <<kind, fault_event_recorded, failure_event_recorded, outcome>>
  BY AtCommand DEF RunCommand, FaultInv, Typed
<1>2. \/ ~ok /\ ~success' /\ success' \in BOOLEAN /\ pc' = "report" /\ step' = step
      \/ ok /\ success' = success /\ kind = "stages" /\ pc' = "stage_end" /\ step' = step
      \/ /\ ok /\ success' = success /\ kind = "commands" /\ step' = step + 1
         /\ pc' = IF step = NCommands THEN "finally" ELSE "command"
  BY <1>1 DEF RunCommand, GiveUp, NextStep, Kinds
<1>3. /\ ran' \in Seq(Command) /\ Len(ran') = step
      /\ ok => NoneFailed'
      /\ ~ok => SomeFailed'
  BY <1>1, AtCommand, RanOneMore DEF FaultInv, Typed, Steps
<1>4. Typed'
  <2>1. step' \in Nat /\ kind' \in Kinds /\ asked' \in Seq(Event)
    BY <1>1, <1>2, NothingRecorded DEF FaultInv, Typed
  <2>2. success' \in BOOLEAN
    BY <1>2 DEF FaultInv, Typed
  <2> QED BY <1>1, <1>3, <2>1, <2>2 DEF FaultInv, Typed
<1>5. Flagged'
  <2>1. outcome' = "none" /\ ~failure_event_recorded' /\ success /\ kind' # "unknown"
    BY <1>1, AtCommand
  <2> QED BY <1>2, <1>3, <2>1 DEF Flagged, Before, Within
<1>6. Progressed'
  <2>1. step \in Steps /\ kind' # "unknown"
    BY <1>1, AtCommand
  <2>2. CASE ~ok
    BY <1>2, <2>1, <2>2 DEF Progressed, Before, Within
  <2>3. CASE ok /\ pc' = "stage_end"
    BY <1>1, <1>2, <1>3, <2>1, <2>3 DEF Progressed, Before, Within
  <2>4. CASE ok /\ pc' = "finally"
    <3>1. step = NCommands
      BY <1>2, <2>4
    <3>2. AllDone'
      BY <1>3, <2>4, <3>1 DEF AllDone, NoneFailed
    <3> QED BY <2>4, <3>2 DEF Progressed, Before, Within
  <2>5. CASE ok /\ pc' = "command"
    <3>1. step # NCommands /\ step' = step + 1 /\ kind' = "commands"
      BY <1>1, <1>2, <2>5
    <3>2. step + 1 \in Steps /\ (step + 1) - 1 = step
      BY <2>1, <3>1, FaultSchedulerAssumption DEF Steps
    <3> QED BY <1>3, <2>5, <3>1, <3>2 DEF Progressed, Before, Within
  <2> QED BY <1>2, <2>2, <2>3, <2>4, <2>5
<1>7. FailuresTrue' /\ Announced'
  BY <1>1, AtCommand, NothingRecorded DEF FailuresTrue, Announced
<1>8. Counted'
  <2>1. pc' \in Within \cup {"report", "finally"}
    BY <1>2 DEF Within
  <2> QED BY <1>1, <2>1, AtCommand, NothingRecorded DEF Counted, Within
<1> QED BY <1>4, <1>5, <1>6, <1>7, <1>8 DEF FaultInv

LEMMA RunParallelStep ==
  ASSUME FaultInv, NEW oks \in [Steps -> BOOLEAN], RunParallel(oks)
  PROVE  FaultInv'
<1>1. /\ pc = "command" /\ kind = "parallel" /\ Quiet
      /\ ran' = [i \in Steps |-> [step |-> i, ok |-> oks[i]]]
      /\ UNCHANGED <<kind, step, fault_event_recorded, failure_event_recorded, outcome>>
  BY DEF RunParallel, GiveUp
<1>2. \/ (\E i \in Steps : ~oks[i]) /\ ~success' /\ success' \in BOOLEAN /\ pc' = "report"
      \/ (\A i \in Steps : oks[i]) /\ success' = success /\ pc' = "finally"
  BY DEF RunParallel, GiveUp
<1>3. ran' \in Seq(Command) /\ Len(ran') = NCommands /\ DOMAIN ran' = Steps /\ \A i \in Steps : ran'[i].ok = oks[i]
  <2>1. \A i \in Steps : [step |-> i, ok |-> oks[i]] \in Command
    BY DEF Command
  <2> QED BY <1>1, <2>1, FaultSchedulerAssumption DEF Steps
<1>4. Typed'
  <2>1. step' \in Nat /\ kind' \in Kinds /\ asked' \in Seq(Event)
    BY <1>1, NothingRecorded DEF FaultInv, Typed
  <2>2. success' \in BOOLEAN
    BY <1>2 DEF FaultInv, Typed
  <2> QED BY <1>1, <1>3, <2>1, <2>2 DEF FaultInv, Typed
<1>5. Flagged'
  <2>1. outcome' = "none" /\ ~failure_event_recorded' /\ success /\ kind' # "unknown"
    BY <1>1, AtCommand
  <2> QED BY <1>2, <1>3, <2>1 DEF Flagged, Before, Within, SomeFailed
<1>6. Progressed'
  <2>1. success' => AllDone'
    <3> SUFFICES ASSUME success' PROVE AllDone'
      OBVIOUS
    <3>1. \A i \in Steps : oks[i]
      BY <1>2
    <3> QED BY <1>3, <3>1 DEF AllDone
  <2>2. step' \in Steps /\ kind' # "unknown"
    BY <1>1, AtCommand
  <2> QED BY <1>2, <2>1, <2>2 DEF Progressed, Before, Within
<1>7. FailuresTrue' /\ Announced'
  BY <1>1, AtCommand, NothingRecorded DEF FailuresTrue, Announced
<1>8. Counted'
  <2>1. pc' \in {"report", "finally"}
    BY <1>2
  <2> QED BY <1>1, <2>1, AtCommand, NothingRecorded DEF Counted
<1> QED BY <1>4, <1>5, <1>6, <1>7, <1>8 DEF FaultInv

LEMMA CommandRaisesStep == FaultInv /\ CommandRaises => FaultInv'
<1> SUFFICES ASSUME FaultInv, CommandRaises PROVE FaultInv'
  OBVIOUS
<1>1. /\ pc = "command" /\ ran' = Append(ran, [step |-> step, ok |-> FALSE]) /\ Quiet
      /\ ~success' /\ success' \in BOOLEAN /\ pc' = "finally" /\ outcome' = "raised"
      /\ UNCHANGED <<kind, step, fault_event_recorded, failure_event_recorded>>
  BY DEF CommandRaises
<1>2. ran' \in Seq(Command) /\ SomeFailed'
  BY <1>1, AtCommand, RanOneMore DEF FaultInv
<1>3. Typed'
  BY <1>1, <1>2, NothingRecorded DEF FaultInv, Typed
<1>4. Flagged' /\ Progressed'
  BY <1>1, <1>2, AtCommand DEF Flagged, Progressed, Before, Within
<1>5. FailuresTrue' /\ Announced'
  BY <1>1, <1>2 DEF FailuresTrue, Announced, Within
<1>6. Counted'
  BY <1>1, AtCommand, NothingRecorded DEF Counted, Within, Before
<1> QED BY <1>3, <1>4, <1>5, <1>6 DEF FaultInv

-----------------------------------------------------------------------------
(* What there is to record when a command has failed, and what of it is    *)
(* recorded when the operator interrupts.                                  *)
LEMMA PendingEvents ==
  ASSUME FaultInv
  PROVE  /\ Pending \in Seq(Event)
         /\ \A j \in DOMAIN Pending : Pending[j].type \in {"fault_failed", "fault_stage_failed"} => SomeFailed
<1>1. ASSUME NEW e \in Event PROVE <<e>> \in Seq(Event) /\ DOMAIN <<e>> = {1} /\ <<e>>[1] = e
  OBVIOUS
<1>2. ASSUME NEW d \in Event, NEW e \in Event PROVE <<d, e>> \in Seq(Event)
  OBVIOUS
<1>3. /\ \A type \in EventTypes : RunEvent(type) \in Event /\ RunEvent(type).type = type
      /\ step \in Steps => \A type \in EventTypes : StageEvent(type) \in Event /\ StageEvent(type).type = type
  BY EventsTyped DEF FaultInv, RunEvent, StageEvent
<1>4. CASE pc = "inject" /\ kind # "unknown"
  <2>1. Pending = <<RunEvent("fault_injected")>>
    BY <1>4 DEF Pending
  <2> QED BY <1>1, <1>3, <2>1 DEF EventTypes
<1>5. CASE pc \in {"stage", "stage_end"}
  <2>1. step \in Steps
    BY <1>5 DEF FaultInv, Progressed, Within
  <2>2. PICK type \in {"fault_stage_started", "fault_stage_finished"} : Pending = <<StageEvent(type)>>
    BY <1>5 DEF Pending
  <2>3. StageEvent(type) \in Event /\ StageEvent(type).type = type
    BY <1>3, <2>1, <2>2 DEF EventTypes
  <2> QED BY <1>1, <2>2, <2>3
<1>6. CASE pc = "report"
  <2>1. step \in Steps /\ SomeFailed
    BY <1>6 DEF FaultInv, Progressed, Flagged
  <2>2. \/ Pending = <<StageEvent("fault_stage_failed"), StageEvent("fault_stage_finished")>>
        \/ Pending = <<RunEvent("fault_failed")>>
    BY <1>6 DEF Pending, FailureEvents
  <2> QED BY <1>1, <1>2, <1>3, <2>1, <2>2 DEF EventTypes
<1>7. CASE pc = "finally"
  <2>1. \/ Pending = <<>>
        \/ Pending = <<RunEvent("fault_finished")>>
        \/ Pending = <<RunEvent("fault_failed")>> /\ ~success
    BY <1>7 DEF Pending, Verdict
  <2>2. ~success => SomeFailed
    BY DEF FaultInv, Flagged
  <2>3. \A type \in {"fault_finished", "fault_failed"} : RunEvent(type) \in Event /\ RunEvent(type).type = type
    BY <1>3 DEF EventTypes
  <2>4. CASE Pending = <<>>
    BY <2>4
  <2>5. CASE Pending = <<RunEvent("fault_finished")>>
    BY <1>1, <2>3, <2>5
  <2>6. CASE Pending = <<RunEvent("fault_failed")>> /\ ~success
    BY <1>1, <2>2, <2>3, <2>6
  <2> QED BY <2>1, <2>4, <2>5, <2>6
<1>8. CASE \/ pc \notin {"inject", "stage", "stage_end", "report", "finally"}
           \/ pc = "inject" /\ kind = "unknown"
  <2>1. Pending = <<>>
    BY <1>8 DEF Pending
  <2> QED BY <2>1
<1> QED BY <1>4, <1>5, <1>6, <1>7, <1>8

LEMMA InterruptStep == FaultInv /\ Interrupt => FaultInv'
<1> SUFFICES ASSUME FaultInv, Interrupt PROVE FaultInv'
  OBVIOUS
<1>1. /\ pc' \in {"finally", "done"} /\ outcome' = "interrupted"
      /\ UNCHANGED <<kind, step, ran, fault_event_recorded, failure_event_recorded, success>>
  BY DEF Interrupt, flags
<1>2. PICK n \in 0..Len(Pending) : RecordEvents(SubSeq(Pending, 1, n))
  BY DEF Interrupt
<1> DEFINE events == SubSeq(Pending, 1, n)
<1>3. n \in Int /\ 1 \in Int /\ n <= Len(Pending) /\ \A i \in 1..n : i \in DOMAIN Pending /\ Pending[i] \in Event
  BY PendingEvents
<1>4. events \in Seq(Event) /\ \A i \in 1..n : events[i] = Pending[i]
  BY <1>3, SubSeqProperties
<1>5. Len(events) <= n
  BY <1>2, <1>3, SubSeqProperties
<1>6. \A i \in DOMAIN events : events[i].type \in {"fault_failed", "fault_stage_failed"} => SomeFailed
  <2>1. \A i \in DOMAIN events : i \in 1..n
    BY <1>3, <1>4, <1>5
  <2> QED BY <1>3, <1>4, <2>1, PendingEvents
<1> HIDE DEF events
<1>7. /\ asked' \in Seq(Event)
      /\ \A type : Asked(type)' <=> Asked(type) \/ \E j \in DOMAIN events : events[j].type = type
  <2>1. asked \in Seq(Event) /\ RecordEvents(events)
    BY <1>2 DEF events, FaultInv, Typed
  <2> QED BY <1>4, <2>1, Recorded
<1>8. Typed'
  BY <1>1, <1>7 DEF FaultInv, Typed
<1>9. Flagged' /\ Progressed'
  BY <1>1 DEF FaultInv, Flagged, Progressed, Before, Within, SomeFailed
<1>10. FailuresTrue'
  <2>1. SomeFailed' <=> SomeFailed
    BY <1>1 DEF SomeFailed
  <2> QED BY <1>6, <1>7, <2>1 DEF FaultInv, FailuresTrue
<1>11. Announced' /\ Counted'
  BY <1>1 DEF Announced, Counted, Within
<1> QED BY <1>8, <1>9, <1>10, <1>11 DEF FaultInv

LEMMA ReportStep == FaultInv /\ ReportFailure => FaultInv'
<1> SUFFICES ASSUME FaultInv, ReportFailure PROVE FaultInv'
  OBVIOUS
<1>1. /\ pc = "report" /\ pc' = "finally" /\ failure_event_recorded' = TRUE /\ RecordEvents(FailureEvents)
      /\ UNCHANGED <<kind, step, ran, fault_event_recorded, success, outcome>>
  BY DEF ReportFailure
<1>2. /\ ~success /\ outcome = "none" /\ Verdicts = 0 /\ SomeFailed /\ step \in Steps
      /\ kind # "unknown" /\ Asked("fault_injected") /\ (kind = "stages" => Asked("fault_stage_started"))
  BY <1>1 DEF FaultInv, Flagged, Counted, Progressed, Announced
<1>3. asked \in Seq(Event) /\ FailureEvents \in Seq(Event)
  <2>1. Pending = FailureEvents
    BY <1>1 DEF Pending
  <2> QED BY <2>1, PendingEvents DEF FaultInv, Typed
<1>4. asked' \in Seq(Event) /\ \A type : Asked(type) => Asked(type)'
  BY <1>1, <1>3, Recorded
<1>5. /\ Times("fault_finished") = 0 /\ Times("fault_failed") = 0 /\ Times("fault_stage_failed") = 0
  BY <1>2, <1>3, TimesTyped DEF Verdicts
<1>6. Times("fault_finished")' = 0 /\ Verdicts' = 1
  <2>1. CASE kind = "stages"
    <3> DEFINE d == StageEvent("fault_stage_failed")
               e == StageEvent("fault_stage_finished")
    <3>1. d \in Event /\ e \in Event /\ d.type = "fault_stage_failed" /\ e.type = "fault_stage_finished"
      BY <1>2, EventsTyped DEF FaultInv, StageEvent, EventTypes
    <3>2. RecordEvents(<<d, e>>)
      BY <1>1, <2>1 DEF FailureEvents
    <3> HIDE DEF d, e
    <3>3. \A type : /\ Times(type)' = Times(type) + (IF d.type = type THEN 1 ELSE 0)
                                                 + (IF e.type = type THEN 1 ELSE 0)
      BY <1>3, <3>1, <3>2, TwoRecorded
    <3> QED BY <1>5, <3>1, <3>3 DEF Verdicts
  <2>2. CASE kind # "stages"
    <3> DEFINE e == RunEvent("fault_failed")
    <3>1. e \in Event /\ e.type = "fault_failed"
      BY EventsTyped DEF FaultInv, RunEvent, EventTypes
    <3>2. RecordEvents(<<e>>)
      BY <1>1, <2>2 DEF FailureEvents
    <3> HIDE DEF e
    <3>3. \A type : Times(type)' = Times(type) + (IF e.type = type THEN 1 ELSE 0)
      BY <1>3, <3>1, <3>2, OneRecorded
    <3> QED BY <1>5, <3>1, <3>3 DEF Verdicts
  <2> QED BY <2>1, <2>2
<1>7. Typed'
  <2>1. failure_event_recorded' \in BOOLEAN
    BY <1>1
  <2> QED BY <1>1, <1>4, <2>1 DEF FaultInv, Typed
<1>8. SomeFailed' /\ ~success'
  BY <1>1, <1>2 DEF SomeFailed
<1>9. Flagged' /\ Progressed'
  BY <1>1, <1>2, <1>8 DEF Flagged, Progressed, Before, Within
<1>10. FailuresTrue' /\ Announced'
  BY <1>1, <1>2, <1>4, <1>8 DEF FailuresTrue, Announced
<1>11. Counted'
  BY <1>1, <1>2, <1>6 DEF Counted, Before, Within
<1> QED BY <1>7, <1>9, <1>10, <1>11 DEF FaultInv

(* The verdict is recorded, or there is none to record. *)
LEMMA VerdictRecorded ==
  ASSUME FaultInv, Finally
  PROVE  \/ /\ ~fault_event_recorded \/ failure_event_recorded
            /\ asked' = asked
         \/ \E e \in Event : /\ fault_event_recorded /\ ~failure_event_recorded
                             /\ e.type = (IF success THEN "fault_finished" ELSE "fault_failed")
                             /\ RecordEvents(<<e>>)
<1>1. pc = "finally" /\ RecordEvents(Verdict) /\ asked \in Seq(Event)
  BY DEF Finally, FaultInv, Typed
<1>2. failure_event_recorded => ~success
  BY DEF FaultInv, Flagged
<1>3. CASE ~fault_event_recorded \/ failure_event_recorded
  <2>1. Verdict = <<>>
    BY <1>2, <1>3 DEF Verdict
  <2> QED BY <1>1, <1>3, <2>1, NoneRecorded
<1>4. CASE fault_event_recorded /\ ~failure_event_recorded
  <2>1. Verdict = <<RunEvent(IF success THEN "fault_finished" ELSE "fault_failed")>>
    BY <1>4 DEF Verdict
  <2>2. \A type \in {"fault_finished", "fault_failed"} : RunEvent(type) \in Event /\ RunEvent(type).type = type
    BY EventsTyped DEF FaultInv, RunEvent, EventTypes
  <2> QED BY <1>1, <1>4, <2>1, <2>2
<1> QED BY <1>3, <1>4

LEMMA FinallyStep == FaultInv /\ Finally => FaultInv'
<1> SUFFICES ASSUME FaultInv, Finally PROVE FaultInv'
  OBVIOUS
<1>1. /\ pc = "finally" /\ outcome \in {"none", "raised", "interrupted"} /\ asked \in Seq(Event)
      /\ UNCHANGED <<kind, step, ran, fault_event_recorded, failure_event_recorded, success>>
      /\ \/ outcome # "none" /\ pc' = "done" /\ outcome' = outcome
         \/ outcome = "none" /\ ~success /\ pc' = "done" /\ outcome' = "false"
         \/ outcome = "none" /\ success /\ pc' = "observe" /\ outcome' = "none"
  BY DEF Finally, Finish, flags, FaultInv, Typed, Flagged
<1>2. /\ SomeFailed' <=> SomeFailed
      /\ AllDone' <=> AllDone
  BY <1>1 DEF SomeFailed, AllDone
<1>3. /\ asked' \in Seq(Event)
      /\ \A type : Asked(type) => Asked(type)'
      /\ ~success => SomeFailed
      /\ \A type \in {"fault_failed", "fault_stage_failed"} : Asked(type)' => Asked(type) \/ ~success
  <2>1. ~success => SomeFailed
    BY DEF FaultInv, Flagged
  <2>2. CASE asked' = asked
    BY <1>1, <2>1, <2>2 DEF Asked
  <2>3. CASE \E e \in Event : /\ e.type = (IF success THEN "fault_finished" ELSE "fault_failed")
                             /\ RecordEvents(<<e>>)
    <3>1. PICK e \in Event : /\ e.type = (IF success THEN "fault_finished" ELSE "fault_failed")
                            /\ RecordEvents(<<e>>)
      BY <2>3
    <3>2. <<e>> \in Seq(Event) /\ DOMAIN <<e>> = {1} /\ <<e>>[1] = e
      OBVIOUS
    <3>3. /\ asked' \in Seq(Event)
          /\ \A type : Asked(type)' <=> Asked(type) \/ \E j \in DOMAIN <<e>> : <<e>>[j].type = type
      BY <1>1, <3>1, <3>2, Recorded
    <3>4. \A type : Asked(type)' <=> Asked(type) \/ e.type = type
      BY <3>2, <3>3
    <3> QED BY <2>1, <3>1, <3>3, <3>4
  <2> QED BY <2>2, <2>3, VerdictRecorded
<1>4. Typed'
  BY <1>1, <1>3 DEF FaultInv, Typed
<1>5. Flagged'
  BY <1>1, <1>2 DEF FaultInv, Flagged, Before, Within
<1>6. Progressed'
  BY <1>1, <1>2 DEF FaultInv, Progressed, Before, Within
<1>7. FailuresTrue' /\ Announced'
  BY <1>1, <1>2, <1>3 DEF FaultInv, FailuresTrue, Announced, Within
<1>8. Counted'
  <2> SUFFICES ASSUME outcome # "interrupted"
               PROVE  /\ Verdicts' <= 1 /\ (fault_event_recorded => Verdicts' = 1)
                      /\ pc' = "observe" =>
                           Times("fault_failed")' = 0 /\ (kind # "unknown" => AllDone)
                      /\ Times("fault_finished")' > 0 => AllDone
    BY <1>1, <1>2 DEF Counted, Before, Within
  <2>1. /\ Times("fault_finished") = 0 /\ Verdicts = (IF failure_event_recorded THEN 1 ELSE 0)
        /\ failure_event_recorded => ~success
        /\ success => outcome = "none" /\ (kind # "unknown" => AllDone)
        /\ fault_event_recorded => kind # "unknown"
    BY <1>1 DEF FaultInv, Counted, Flagged, Progressed
  <2>2. \A type : Times(type) \in Nat
    BY <1>1, TimesTyped
  <2>3. ~failure_event_recorded => Times("fault_failed") = 0 /\ Times("fault_stage_failed") = 0
    BY <2>1, <2>2 DEF Verdicts
  <2>4. CASE (~fault_event_recorded \/ failure_event_recorded) /\ asked' = asked
    <3>1. \A type : Times(type)' = Times(type)
      BY <2>4 DEF Times
    <3>2. Verdicts' = Verdicts
      BY <3>1 DEF Verdicts
    <3> QED BY <1>1, <2>1, <2>3, <2>4, <3>1, <3>2
  <2>5. CASE \E e \in Event : /\ fault_event_recorded /\ ~failure_event_recorded
                             /\ e.type = (IF success THEN "fault_finished" ELSE "fault_failed")
                             /\ RecordEvents(<<e>>)
    <3>1. PICK e \in Event : /\ fault_event_recorded /\ ~failure_event_recorded
                            /\ e.type = (IF success THEN "fault_finished" ELSE "fault_failed")
                            /\ RecordEvents(<<e>>)
      BY <2>5
    <3>2. \A type : Times(type)' = Times(type) + (IF e.type = type THEN 1 ELSE 0)
      BY <1>1, <3>1, OneRecorded
    <3>3. CASE success
      <4>1. Times("fault_finished")' = 1 /\ Times("fault_failed")' = 0 /\ Times("fault_stage_failed")' = 0
        BY <2>1, <2>3, <3>1, <3>2, <3>3
      <4>2. Verdicts' = 1
        BY <4>1 DEF Verdicts
      <4>3. AllDone
        BY <2>1, <3>1, <3>3
      <4> QED BY <4>1, <4>2, <4>3
    <3>4. CASE ~success
      <4>1. Times("fault_finished")' = 0 /\ Times("fault_failed")' = 1 /\ Times("fault_stage_failed")' = 0
        BY <2>1, <2>3, <3>1, <3>2, <3>4
      <4> QED BY <1>1, <3>4, <4>1 DEF Verdicts
    <3> QED BY <3>3, <3>4
  <2> QED BY <2>4, <2>5, VerdictRecorded
<1> QED BY <1>4, <1>5, <1>6, <1>7, <1>8 DEF FaultInv

-----------------------------------------------------------------------------
(* What is recorded, run and flagged at each place of run_fault. *)
THEOREM FaultInvariant == Spec => []FaultInv
<1>1. FaultInv /\ [Next]_vars => FaultInv'
  BY QuietSteps, InjectStep, StageStartsStep, StageFinishesStep, ReportStep, RunCommandStep, RunParallelStep,
     CommandRaisesStep, InterruptStep, FinallyStep DEF Next
<1> QED BY <1>1, InitFault, PTL DEF Spec

(* An event that is counted was asked for. *)
LEMMA CountedIsAsked ==
  ASSUME NEW type, ~Asked(type)
  PROVE  Times(type) = 0
<1>1. {i \in DOMAIN asked : asked[i].type = type} = {}
  BY DEF Asked
<1> QED BY <1>1, FS_EmptySet DEF Times

(* A recorded injection that nobody interrupts gets one verdict. *)
THEOREM OneVerdictOnly == Spec => []OneVerdict
<1>1. FaultInv => OneVerdict
  <2> SUFFICES ASSUME FaultInv, outcome # "interrupted"
               PROVE  Verdicts <= 1 /\ (pc \in {"observe", "done"} /\ fault_event_recorded => Verdicts = 1)
    BY DEF OneVerdict, Verdicts
  <2>1. CASE pc \in Before \cup Within \cup {"report"}
    BY <2>1 DEF FaultInv, Counted, Before, Within
  <2>2. CASE pc = "finally"
    BY <2>2 DEF FaultInv, Counted
  <2>3. CASE pc \in {"observe", "done"}
    BY <2>3 DEF FaultInv, Counted
  <2> QED BY <2>1, <2>2, <2>3 DEF FaultInv, Flagged
<1> QED BY <1>1, FaultInvariant, PTL

(* The verdict says what happened. *)
THEOREM VerdictsAreTrue == Spec => []VerdictIsTrue
<1>1. FaultInv => VerdictIsTrue
  <2> SUFFICES ASSUME FaultInv PROVE VerdictIsTrue
    OBVIOUS
  <2>1. Times("fault_finished") > 0 /\ outcome # "interrupted" => AllDone
    BY DEF FaultInv, Counted
  <2>2. outcome = "true" => Times("fault_failed") = 0 /\ (kind # "unknown" => AllDone)
    BY DEF FaultInv, Counted
  <2>3. Times("fault_failed") + Times("fault_stage_failed") > 0 => SomeFailed
    <3>1. CASE Asked("fault_failed") \/ Asked("fault_stage_failed")
      BY <3>1 DEF FaultInv, FailuresTrue
    <3>2. CASE ~Asked("fault_failed") /\ ~Asked("fault_stage_failed")
      BY <3>2, CountedIsAsked
    <3> QED BY <3>1, <3>2
  <2> QED BY <2>1, <2>2, <2>3 DEF VerdictIsTrue, SomeFailed
<1> QED BY <1>1, FaultInvariant, PTL

(* Of a fault whose type run_fault does not know the backend never hears. *)
Unheard == kind = "unknown" =>
             /\ pc \in Before \cup {"finally", "observe", "done"}
             /\ fault_event_recorded = FALSE /\ asked = <<>> /\ delivered = {}

LEMMA UnheardInvariant == Spec => []Unheard
<1>1. Init => Unheard
  BY DEF Init, Unheard, Before
<1>2. Unheard /\ [Next]_vars => Unheard'
  <2> SUFFICES ASSUME Unheard, [Next]_vars, kind' = "unknown" PROVE Unheard'
    BY DEF Unheard
  <2>1. /\ kind = "unknown" /\ pc \in Before \cup {"finally", "observe", "done"}
        /\ fault_event_recorded = FALSE /\ asked = <<>> /\ delivered = {}
    <3>1. kind' = kind
      BY DEF Next, Preflight, Steady, Inject, NoBranch, StageStarts, StageFinishes, ReportFailure, RunCommand,
             RunParallel, CommandRaises, Interrupt, Finally, Observe, K6Ends, vars
    <3> QED BY <3>1 DEF Unheard
  <2>2. RecordEvents(<<>>) => asked' = <<>> /\ delivered' = {}
    BY <2>1 DEF RecordEvents, ToSet
  <2>3. CASE Preflight \/ Steady \/ NoBranch \/ Observe \/ K6Ends \/ UNCHANGED vars
    BY <2>1, <2>3 DEF Unheard, Before, Preflight, Steady, NoBranch, Observe, K6Ends, Quiet, Finish, flags, vars
  <2>4. CASE Finally
    <3>1. RecordEvents(<<>>)
      BY <2>1, <2>4 DEF Finally, Verdict
    <3>2. pc' \in {"done", "observe"} /\ fault_event_recorded' = FALSE
      BY <2>1, <2>4 DEF Finally, Finish, flags
    <3> QED BY <2>2, <3>1, <3>2 DEF Unheard
  <2>5. CASE Interrupt
    <3>1. Pending = <<>>
      BY <2>1 DEF Pending, Verdict, Before
    <3>2. RecordEvents(<<>>)
      <4>1. PICK n \in 0..Len(Pending) : RecordEvents(SubSeq(Pending, 1, n))
        BY <2>5 DEF Interrupt
      <4>2. n = 0
        BY <3>1, <4>1
      <4>3. SubSeq(<<>>, 1, 0) = <<>>
        OBVIOUS
      <4> QED BY <3>1, <4>1, <4>2, <4>3
    <3>3. pc' \in {"done", "finally"} /\ fault_event_recorded' = FALSE
      BY <2>1, <2>5 DEF Interrupt, flags
    <3> QED BY <2>2, <3>2, <3>3 DEF Unheard
  <2>6. ~Inject /\ ~StageStarts /\ ~StageFinishes /\ ~ReportFailure /\ ~CommandRaises
        /\ (\A ok \in BOOLEAN : ~RunCommand(ok)) /\ (\A oks \in [Steps -> BOOLEAN] : ~RunParallel(oks))
    BY <2>1 DEF Inject, StageStarts, StageFinishes, ReportFailure, CommandRaises, RunCommand, RunParallel, Before
  <2> QED BY <2>3, <2>4, <2>5, <2>6 DEF Next
<1> QED BY <1>1, <1>2, PTL DEF Spec

(* A fault that was carried through satisfies the invalidator, and one     *)
(* that was never run does not.                                            *)
THEOREM CarriedThroughAccepted == Spec => []CarriedThroughIsAccepted
<1>1. FaultInv /\ Unheard => CarriedThroughIsAccepted
  <2> SUFFICES ASSUME FaultInv, Unheard, outcome = "true", ToSet(asked) \subseteq delivered
               PROVE  MissingFaultEvent(delivered, kind = "stages") <=> kind = "unknown"
    BY DEF CarriedThroughIsAccepted
  <2>1. \A type : Asked(type) => type \in EventTypesOf(delivered)
    BY DEF Asked, EventTypesOf, ToSet
  <2>2. kind # "unknown" => Asked("fault_injected") /\ (kind = "stages" => Asked("fault_stage_started"))
    BY DEF FaultInv, Announced, Flagged, Within
  <2>3. kind = "unknown" => EventTypesOf(delivered) = {}
    BY DEF Unheard, EventTypesOf
  <2> QED BY <2>1, <2>2, <2>3 DEF MissingFaultEvent
<1> QED BY <1>1, FaultInvariant, UnheardInvariant, PTL

-----------------------------------------------------------------------------
(* Stage events.  The places of the marks in s are 1..n, each after the    *)
(* ones before it.                                                         *)
IsMark(e) == e.type \in {"fault_stage_started", "fault_stage_finished"}
MarksOf(s) == {i \in DOMAIN s : IsMark(s[i])}
Ordered(s) == \A i, j \in MarksOf(s) : i < j => Place(s[i]) < Place(s[j])
UpTo(s, n) == /\ \A i \in MarksOf(s) : Place(s[i]) \in 1..n
              /\ \A k \in 1..n : \E i \in MarksOf(s) : Place(s[i]) = k

(* How many marks there are at each place of run_fault: an even number     *)
(* where no stage is open.                                                 *)
Bracketed ==
  /\ Ordered(asked)
  /\ \E n \in Nat : UpTo(asked, n)
  /\ kind # "stages" \/ pc \in Before => UpTo(asked, 0)
  /\ kind = "stages" /\ pc = "stage" => UpTo(asked, 2 * (step - 1))
  /\ kind = "stages" /\ pc \in {"command", "stage_end", "report"} => UpTo(asked, 2 * step - 1)
  /\ (pc = "finally" /\ outcome = "none") \/ pc = "observe" \/ outcome \in {"true", "false"} =>
       \E n \in Nat : UpTo(asked, 2 * n)

(* A mark recorded at the next place, and an event that is no mark. *)
LEMMA NextMark ==
  ASSUME NEW s \in Seq(Event), NEW e \in Event, NEW n \in Nat, IsMark(e), Place(e) = n + 1,
         Ordered(s), UpTo(s, n)
  PROVE  s \o <<e>> \in Seq(Event) /\ Ordered(s \o <<e>>) /\ UpTo(s \o <<e>>, n + 1)
<1> DEFINE t == s \o <<e>>
<1>1. /\ t \in Seq(Event) /\ DOMAIN s = 1..Len(s) /\ DOMAIN t = 1..Len(s) + 1 /\ Len(s) \in Nat
      /\ \A i \in 1..Len(s) : t[i] = s[i]
      /\ t[Len(s) + 1] = e
  OBVIOUS
<1> HIDE DEF t
<1>2. MarksOf(t) = MarksOf(s) \cup {Len(s) + 1}
  BY <1>1 DEF MarksOf
<1>3. \A i \in MarksOf(s) : i \in 1..Len(s) /\ t[i] = s[i] /\ Place(s[i]) \in 1..n
  BY <1>1 DEF MarksOf, UpTo
<1>4. Ordered(t)
  <2> SUFFICES ASSUME NEW i \in MarksOf(t), NEW j \in MarksOf(t), i < j
               PROVE  Place(t[i]) < Place(t[j])
    BY DEF Ordered
  <2>1. i \in MarksOf(s)
    BY <1>1, <1>2, <1>3
  <2>2. CASE j \in MarksOf(s)
    BY <1>3, <2>1, <2>2 DEF Ordered
  <2>3. CASE j = Len(s) + 1
    BY <1>1, <1>3, <2>1, <2>3
  <2> QED BY <1>2, <2>2, <2>3
<1>5. UpTo(t, n + 1)
  <2>1. \A i \in MarksOf(t) : Place(t[i]) \in 1..n + 1
    BY <1>1, <1>2, <1>3
  <2>2. ASSUME NEW k \in 1..n + 1 PROVE \E i \in MarksOf(t) : Place(t[i]) = k
    <3>1. CASE k = n + 1
      BY <1>1, <1>2, <3>1
    <3>2. CASE k \in 1..n
      <4>1. PICK i \in MarksOf(s) : Place(s[i]) = k
        BY <3>2 DEF UpTo
      <4> QED BY <1>2, <1>3, <4>1
    <3> QED BY <3>1, <3>2
  <2> QED BY <2>1, <2>2 DEF UpTo
<1> QED BY <1>1, <1>4, <1>5 DEF t

LEMMA NoMark ==
  ASSUME NEW s \in Seq(Event), NEW e \in Event, ~IsMark(e), Ordered(s)
  PROVE  s \o <<e>> \in Seq(Event) /\ Ordered(s \o <<e>>) /\ \A n : UpTo(s, n) => UpTo(s \o <<e>>, n)
<1> DEFINE t == s \o <<e>>
<1>1. /\ t \in Seq(Event) /\ DOMAIN s = 1..Len(s) /\ DOMAIN t = 1..Len(s) + 1 /\ Len(s) \in Nat
      /\ \A i \in 1..Len(s) : t[i] = s[i]
      /\ t[Len(s) + 1] = e
  OBVIOUS
<1> HIDE DEF t
<1>2. MarksOf(t) = MarksOf(s) /\ \A i \in MarksOf(s) : t[i] = s[i]
  BY <1>1 DEF MarksOf
<1>3. Ordered(t)
  BY <1>2 DEF Ordered
<1>4. \A n : UpTo(s, n) => UpTo(t, n)
  BY <1>2 DEF UpTo
<1> QED BY <1>1, <1>3, <1>4 DEF t

(* A failing stage records two events. *)
LEMMA OneAfterTheOther ==
  ASSUME NEW s \in Seq(Event), NEW d \in Event, NEW e \in Event
  PROVE  s \o <<d, e>> = (s \o <<d>>) \o <<e>>
<1>1. <<d>> \in Seq(Event) /\ <<e>> \in Seq(Event)
  OBVIOUS
<1>2. <<d, e>> = Append(<<d>>, e)
  OBVIOUS
<1>3. <<d, e>> = <<d>> \o <<e>>
  BY <1>1, <1>2, AppendIsConcat
<1> QED BY <1>1, <1>3, ConcatAssociative

(* Where the events of a stage belong. *)
LEMMA StageMarks ==
  ASSUME Typed, step \in Steps
  PROVE  /\ StageEvent("fault_stage_started") \in Event /\ IsMark(StageEvent("fault_stage_started"))
         /\ Place(StageEvent("fault_stage_started")) = 2 * (step - 1) + 1
         /\ StageEvent("fault_stage_failed") \in Event /\ ~IsMark(StageEvent("fault_stage_failed"))
         /\ StageEvent("fault_stage_finished") \in Event /\ IsMark(StageEvent("fault_stage_finished"))
         /\ Place(StageEvent("fault_stage_finished")) = (2 * step - 1) + 1
         /\ 2 * (step - 1) \in Nat /\ 2 * step - 1 \in Nat /\ step - 1 \in Nat /\ step \in Nat
<1>1. step \in Nat /\ step >= 1
  BY FaultSchedulerAssumption DEF Steps
<1>2. /\ StageEvent("fault_stage_started") \in Event
      /\ StageEvent("fault_stage_failed") \in Event
      /\ StageEvent("fault_stage_finished") \in Event
  BY EventsTyped DEF EventTypes
<1>3. /\ IsMark(StageEvent("fault_stage_started")) /\ IsMark(StageEvent("fault_stage_finished"))
      /\ ~IsMark(StageEvent("fault_stage_failed"))
  BY DEF IsMark, StageEvent
<1>4. /\ Place(StageEvent("fault_stage_started")) = 2 * step - 1
      /\ Place(StageEvent("fault_stage_finished")) = 2 * step
  BY DEF Place, StageEvent
<1> QED BY <1>1, <1>2, <1>3, <1>4

LEMMA RunMarks ==
  ASSUME Typed, NEW type \in {"fault_injected", "fault_failed", "fault_finished"}
  PROVE  RunEvent(type) \in Event /\ ~IsMark(RunEvent(type))
<1>1. RunEvent(type) \in Event
  BY EventsTyped DEF EventTypes
<1> QED BY <1>1 DEF IsMark, RunEvent

-----------------------------------------------------------------------------
LEMMA InitBracketed == Init => Bracketed
<1> SUFFICES ASSUME Init PROVE Bracketed
  OBVIOUS
<1>1. asked = <<>> /\ pc = "preflight" /\ outcome = "none"
  BY DEF Init
<1>2. MarksOf(<<>>) = {}
  BY DEF MarksOf
<1>3. Ordered(<<>>) /\ UpTo(<<>>, 0)
  BY <1>2 DEF Ordered, UpTo
<1> QED BY <1>1, <1>3 DEF Bracketed, Before

(* Steps that record nothing. *)
LEMMA QuietBracketed ==
  ASSUME FaultInv, Bracketed, NEW ok \in BOOLEAN, NEW oks \in [Steps -> BOOLEAN],
         \/ Preflight \/ Steady \/ NoBranch \/ K6Ends \/ Observe \/ UNCHANGED vars
         \/ RunCommand(ok) \/ RunParallel(oks) \/ CommandRaises
  PROVE  Bracketed'
<1>1. asked' = asked /\ kind' = kind
  BY DEF Preflight, Steady, NoBranch, K6Ends, Observe, RunCommand, RunParallel, CommandRaises, Quiet, vars
<1>2. outcome = "none" \/ pc \in {"finally", "done"}
  BY DEF FaultInv, Flagged
<1>3. \/ pc' = pc /\ outcome' = outcome /\ step' = step
      \/ pc \in Before /\ pc' \in Before /\ outcome' = "none"
      \/ pc \in Before /\ pc' = "done"
      \/ pc = "observe" /\ pc' = "done"
      \/ kind = "stages" /\ pc = "command" /\ pc' \in {"stage_end", "report"} /\ step' = step /\ outcome' = outcome
      \/ kind # "stages" /\ pc \in {"command", "inject"}
      \/ pc = "command" /\ pc' = "finally" /\ outcome' = "raised"
  <2>1. CASE Preflight \/ Steady
    BY <1>2, <2>1 DEF Preflight, Steady, Finish, Before
  <2>2. CASE NoBranch \/ K6Ends \/ Observe \/ UNCHANGED vars
    BY <2>2 DEF NoBranch, K6Ends, Observe, Finish, vars
  <2>3. CASE RunCommand(ok) \/ RunParallel(oks) \/ CommandRaises
    BY <2>3 DEF RunCommand, RunParallel, CommandRaises, GiveUp, NextStep
  <2> QED BY <2>1, <2>2, <2>3
<1>4. kind # "stages" \/ pc \in Before => UpTo(asked, 2 * 0)
  BY DEF Bracketed
<1>5. kind # "stages" \/ pc \in Before => \E n \in Nat : UpTo(asked, 2 * n)
  BY <1>4
<1> QED BY <1>1, <1>2, <1>3, <1>5 DEF Bracketed, Before

LEMMA InjectBracketed == FaultInv /\ Bracketed /\ Inject => Bracketed'
<1> SUFFICES ASSUME FaultInv, Bracketed, Inject PROVE Bracketed'
  OBVIOUS
<1> DEFINE e == RunEvent("fault_injected")
<1>1. /\ asked \in Seq(Event) /\ e \in Event /\ ~IsMark(e)
  BY RunMarks DEF FaultInv, Typed
<1>2. /\ asked' = asked \o <<e>> /\ kind' = kind /\ step' = step /\ step = 1 /\ outcome' = "none"
      /\ pc = "inject" /\ pc' = IF kind = "stages" THEN "stage" ELSE "command"
  BY DEF Inject, RecordEvents, FaultInv, Flagged, Progressed, Before
<1> HIDE DEF e
<1>3. Ordered(asked') /\ UpTo(asked', 0)
  BY <1>1, <1>2, NoMark DEF Bracketed, Before
<1>4. 2 * (step - 1) = 0
  BY <1>2
<1> QED BY <1>2, <1>3, <1>4 DEF Bracketed, Before

LEMMA StageStartsBracketed == FaultInv /\ Bracketed /\ StageStarts => Bracketed'
<1> SUFFICES ASSUME FaultInv, Bracketed, StageStarts PROVE Bracketed'
  OBVIOUS
<1> DEFINE e == StageEvent("fault_stage_started")
<1>1. /\ pc = "stage" /\ kind = "stages" /\ step \in Steps /\ Typed /\ outcome' = "none"
      /\ asked \in Seq(Event) /\ asked' = asked \o <<e>>
      /\ pc' = "command" /\ kind' = kind /\ step' = step
  BY DEF StageStarts, RecordEvents, FaultInv, Typed, Flagged, Progressed, Within
<1>2. /\ e \in Event /\ IsMark(e) /\ Place(e) = 2 * (step - 1) + 1
      /\ 2 * (step - 1) \in Nat /\ 2 * step - 1 \in Nat
  BY <1>1, StageMarks
<1> HIDE DEF e
<1>3. Ordered(asked') /\ UpTo(asked', 2 * (step - 1) + 1)
  BY <1>1, <1>2, NextMark DEF Bracketed
<1>4. 2 * (step - 1) + 1 = 2 * step - 1
  BY <1>1, <1>2 DEF Typed
<1> QED BY <1>1, <1>2, <1>3, <1>4 DEF Bracketed, Before

LEMMA StageFinishesBracketed == FaultInv /\ Bracketed /\ StageFinishes => Bracketed'
<1> SUFFICES ASSUME FaultInv, Bracketed, StageFinishes PROVE Bracketed'
  OBVIOUS
<1> DEFINE e == StageEvent("fault_stage_finished")
<1>1. /\ pc = "stage_end" /\ kind = "stages" /\ step \in Steps /\ Typed /\ outcome' = "none"
      /\ asked \in Seq(Event) /\ asked' = asked \o <<e>>
      /\ pc' \in {"stage", "finally"} /\ kind' = kind /\ step' = step + 1
  BY DEF StageFinishes, NextStep, RecordEvents, FaultInv, Typed, Flagged, Progressed, Within
<1>2. /\ e \in Event /\ IsMark(e) /\ Place(e) = (2 * step - 1) + 1
      /\ 2 * step - 1 \in Nat /\ step \in Nat
  BY <1>1, StageMarks
<1> HIDE DEF e
<1>3. Ordered(asked') /\ UpTo(asked', (2 * step - 1) + 1)
  BY <1>1, <1>2, NextMark DEF Bracketed
<1>4. (2 * step - 1) + 1 = 2 * step /\ 2 * (step' - 1) = 2 * step /\ 2 * step \in Nat
  BY <1>1, <1>2
<1> QED BY <1>1, <1>2, <1>3, <1>4 DEF Bracketed, Before

(* A failing stage is closed, after its failure has been recorded. *)
LEMMA FailureMarks ==
  ASSUME FaultInv, Bracketed, pc = "report", NEW d, NEW e,
         FailureEvents = <<d, e>> 
  PROVE  /\ kind = "stages" /\ step \in Nat
         /\ Ordered(asked \o <<d>>) /\ UpTo(asked \o <<d>>, 2 * step - 1) /\ 2 * step - 1 \in Nat
         /\ Ordered(asked \o <<d, e>>) /\ UpTo(asked \o <<d, e>>, 2 * step)
<1>1. kind = "stages" /\ d = StageEvent("fault_stage_failed") /\ e = StageEvent("fault_stage_finished")
  <2>1. kind = "stages"
    <3> SUFFICES ASSUME kind # "stages" PROVE FALSE
      OBVIOUS
    <3>1. <<d, e>> = <<RunEvent("fault_failed")>>
      BY DEF FailureEvents
    <3>2. Len(<<d, e>>) = 2 /\ Len(<<RunEvent("fault_failed")>>) = 1
      OBVIOUS
    <3> QED BY <3>1, <3>2
  <2>2. <<d, e>> = <<StageEvent("fault_stage_failed"), StageEvent("fault_stage_finished")>>
    BY <2>1 DEF FailureEvents
  <2> QED BY <2>1, <2>2
<1>2. asked \in Seq(Event) /\ Typed /\ step \in Steps
  BY DEF FaultInv, Typed, Progressed
<1>3. /\ d \in Event /\ ~IsMark(d) /\ e \in Event /\ IsMark(e) /\ Place(e) = (2 * step - 1) + 1
      /\ 2 * step - 1 \in Nat /\ step \in Nat
  BY <1>1, <1>2, StageMarks
<1>4. Ordered(asked) /\ UpTo(asked, 2 * step - 1)
  BY <1>1 DEF Bracketed
<1>5. asked \o <<d>> \in Seq(Event) /\ Ordered(asked \o <<d>>) /\ UpTo(asked \o <<d>>, 2 * step - 1)
  BY <1>2, <1>3, <1>4, NoMark
<1>6. Ordered((asked \o <<d>>) \o <<e>>) /\ UpTo((asked \o <<d>>) \o <<e>>, (2 * step - 1) + 1)
  BY <1>3, <1>5, NextMark
<1>7. (2 * step - 1) + 1 = 2 * step
  BY <1>3
<1> QED BY <1>1, <1>2, <1>3, <1>5, <1>6, <1>7, OneAfterTheOther

LEMMA ReportBracketed == FaultInv /\ Bracketed /\ ReportFailure => Bracketed'
<1> SUFFICES ASSUME FaultInv, Bracketed, ReportFailure PROVE Bracketed'
  OBVIOUS
<1>1. /\ pc = "report" /\ Typed /\ outcome' = "none" /\ asked \in Seq(Event)
      /\ asked' = asked \o FailureEvents /\ pc' = "finally" /\ kind' = kind
  BY DEF ReportFailure, RecordEvents, FaultInv, Typed, Flagged
<1>2. CASE kind = "stages"
  <2> DEFINE d == StageEvent("fault_stage_failed")
             e == StageEvent("fault_stage_finished")
  <2>1. FailureEvents = <<d, e>>
    BY <1>2 DEF FailureEvents
  <2> HIDE DEF d, e
  <2>2. step \in Nat /\ Ordered(asked') /\ UpTo(asked', 2 * step)
    BY <1>1, <2>1, FailureMarks
  <2>3. 2 * step \in Nat
    BY <2>2
  <2> QED BY <1>1, <1>2, <2>2, <2>3 DEF Bracketed, Before
<1>3. CASE kind # "stages"
  <2> DEFINE e == RunEvent("fault_failed")
  <2>1. e \in Event /\ ~IsMark(e) /\ asked' = asked \o <<e>>
    BY <1>1, <1>3, RunMarks DEF FailureEvents
  <2> HIDE DEF e
  <2>2. Ordered(asked') /\ UpTo(asked', 0)
    BY <1>1, <1>3, <2>1, NoMark DEF Bracketed
  <2>3. UpTo(asked', 2 * 0)
    BY <2>2
  <2> QED BY <1>1, <1>3, <2>2, <2>3 DEF Bracketed, Before
<1> QED BY <1>2, <1>3

LEMMA FinallyBracketed == FaultInv /\ Bracketed /\ Finally => Bracketed'
<1> SUFFICES ASSUME FaultInv, Bracketed, Finally PROVE Bracketed'
  OBVIOUS
<1>1. /\ pc = "finally" /\ Typed /\ asked \in Seq(Event) /\ kind' = kind
      /\ asked' = asked \o Verdict /\ pc' \in {"observe", "done"}
      /\ outcome \in {"none", "raised", "interrupted"}
      /\ outcome # "none" => pc' = "done" /\ outcome' = outcome
  BY DEF Finally, Finish, RecordEvents, FaultInv, Typed, Flagged
<1>2. Ordered(asked') /\ \A n : UpTo(asked, n) => UpTo(asked', n)
  <2>1. CASE Verdict = <<>>
    <3>1. asked' = asked
      BY <1>1, <2>1, ConcatEmptySeq
    <3> QED BY <3>1 DEF Bracketed
  <2>2. CASE \E e : e \in Event /\ ~IsMark(e) /\ Verdict = <<e>>
    BY <1>1, <2>2, NoMark DEF Bracketed
  <2>3. Verdict = <<RunEvent("fault_finished")>> \/ Verdict = <<RunEvent("fault_failed")>> \/ Verdict = <<>>
    BY DEF Verdict
  <2> QED BY <1>1, <2>1, <2>2, <2>3, RunMarks
<1> QED BY <1>1, <1>2 DEF Bracketed, Before

(* How much of one or two events an interrupted call has recorded. *)
LEMMA RecordedSoFar ==
  ASSUME NEW d, NEW e
  PROVE  /\ \A n \in 0..Len(<<>>) : SubSeq(<<>>, 1, n) = <<>>
         /\ \A n \in 0..Len(<<d>>) : SubSeq(<<d>>, 1, n) \in {<<>>, <<d>>}
         /\ \A n \in 0..Len(<<d, e>>) : SubSeq(<<d, e>>, 1, n) \in {<<>>, <<d>>, <<d, e>>}
<1>1. Len(<<>>) = 0 /\ Len(<<d>>) = 1 /\ Len(<<d, e>>) = 2
  OBVIOUS
<1>2. SubSeq(<<>>, 1, 0) = <<>> /\ SubSeq(<<d>>, 1, 0) = <<>> /\ SubSeq(<<d, e>>, 1, 0) = <<>>
  BY SubSeqEmpty
<1>3. SubSeq(<<d>>, 1, 1) = <<d>> /\ SubSeq(<<d, e>>, 1, 1) = <<d>>
  <2> DEFINE a == SubSeq(<<d>>, 1, 1)
             b == SubSeq(<<d, e>>, 1, 1)
  <2>1. a \in Seq({d, e}) /\ Len(a) = 1 /\ a[1] = d
    BY SubSeqProperties
  <2>2. b \in Seq({d, e}) /\ Len(b) = 1 /\ b[1] = d
    BY SubSeqProperties
  <2> HIDE DEF a, b
  <2>3. a = <<d>> /\ b = <<d>>
    BY <2>1, <2>2
  <2> QED BY <2>3 DEF a, b
<1>4. SubSeq(<<d, e>>, 1, 2) = <<d, e>>
  <2>1. <<d, e>> \in Seq({d, e})
    OBVIOUS
  <2> QED BY <1>1, <2>1, SubSeqFull
<1>5. \A n \in 0..Len(<<>>) : SubSeq(<<>>, 1, n) = <<>>
  BY <1>2
<1>6. \A n \in 0..Len(<<d>>) : SubSeq(<<d>>, 1, n) \in {<<>>, <<d>>}
  <2> SUFFICES ASSUME NEW n \in 0..1 PROVE SubSeq(<<d>>, 1, n) \in {<<>>, <<d>>}
    BY <1>1
  <2>1. n = 0 \/ n = 1
    OBVIOUS
  <2> QED BY <1>2, <1>3, <2>1
<1>7. \A n \in 0..Len(<<d, e>>) : SubSeq(<<d, e>>, 1, n) \in {<<>>, <<d>>, <<d, e>>}
  <2> SUFFICES ASSUME NEW n \in 0..2 PROVE SubSeq(<<d, e>>, 1, n) \in {<<>>, <<d>>, <<d, e>>}
    BY <1>1
  <2>1. n = 0 \/ n = 1 \/ n = 2
    OBVIOUS
  <2> QED BY <1>2, <1>3, <1>4, <2>1
<1> QED BY <1>5, <1>6, <1>7

LEMMA InterruptBracketed == FaultInv /\ Bracketed /\ Interrupt => Bracketed'
<1> SUFFICES ASSUME FaultInv, Bracketed, Interrupt PROVE Bracketed'
  OBVIOUS
<1>1. /\ pc' \in {"finally", "done"} /\ outcome' = "interrupted" /\ kind' = kind
      /\ Typed /\ asked \in Seq(Event)
  BY DEF Interrupt, FaultInv, Typed
<1>2. PICK n \in 0..Len(Pending) : asked' = asked \o SubSeq(Pending, 1, n)
  BY DEF Interrupt, RecordEvents
<1> SUFFICES /\ Ordered(asked') /\ \E m \in Nat : UpTo(asked', m)
             /\ kind # "stages" => UpTo(asked', 0)
  BY <1>1 DEF Bracketed, Before
<1>3. asked' = asked \/ (\E e \in Event : ~IsMark(e) /\ asked' = asked \o <<e>>) =>
        /\ Ordered(asked') /\ \E m \in Nat : UpTo(asked', m)
        /\ kind # "stages" => UpTo(asked', 0)
  BY <1>1, NoMark DEF Bracketed
<1>4. CASE Pending = <<>>
  BY <1>1, <1>2, <1>3, <1>4, RecordedSoFar, ConcatEmptySeq
<1>5. CASE \E e \in Event : ~IsMark(e) /\ Pending = <<e>>
  <2>1. PICK e \in Event : ~IsMark(e) /\ Pending = <<e>>
    BY <1>5
  <2>2. SubSeq(Pending, 1, n) \in {<<>>, <<e>>}
    BY <1>2, <2>1, RecordedSoFar
  <2> QED BY <1>1, <1>2, <1>3, <2>1, <2>2, ConcatEmptySeq
<1>6. CASE pc \in {"stage", "stage_end"}
  <2> DEFINE e == IF pc = "stage" THEN StageEvent("fault_stage_started") ELSE StageEvent("fault_stage_finished")
             m == IF pc = "stage" THEN 2 * (step - 1) ELSE 2 * step - 1
  <2>1. Pending = <<e>> /\ kind = "stages" /\ step \in Steps
    BY <1>6 DEF Pending, FaultInv, Progressed, Within
  <2>2. e \in Event /\ IsMark(e) /\ Place(e) = m + 1 /\ m \in Nat /\ m + 1 \in Nat
    BY <1>1, <2>1, StageMarks
  <2>3. UpTo(asked, m) /\ Ordered(asked)
    BY <1>6, <2>1 DEF Bracketed
  <2> HIDE DEF e, m
  <2>4. SubSeq(Pending, 1, n) \in {<<>>, <<e>>}
    BY <1>2, <2>1, RecordedSoFar
  <2>5. CASE asked' = asked \o <<>>
    BY <1>1, <1>3, <2>5, ConcatEmptySeq
  <2>6. CASE asked' = asked \o <<e>>
    <3>1. Ordered(asked') /\ UpTo(asked', m + 1)
      BY <1>1, <2>2, <2>3, <2>6, NextMark
    <3> QED BY <2>1, <2>2, <3>1
  <2> QED BY <1>2, <2>4, <2>5, <2>6
<1>7. CASE pc = "report" /\ kind = "stages"
  <2> DEFINE d == StageEvent("fault_stage_failed")
             e == StageEvent("fault_stage_finished")
  <2>1. Pending = <<d, e>> /\ FailureEvents = <<d, e>>
    BY <1>7 DEF Pending, FailureEvents
  <2> HIDE DEF d, e
  <2>2. /\ kind = "stages" /\ 2 * step - 1 \in Nat /\ 2 * step \in Nat
        /\ Ordered(asked \o <<d>>) /\ UpTo(asked \o <<d>>, 2 * step - 1)
        /\ Ordered(asked \o <<d, e>>) /\ UpTo(asked \o <<d, e>>, 2 * step)
    BY <1>7, <2>1, FailureMarks
  <2>3. SubSeq(Pending, 1, n) \in {<<>>, <<d>>, <<d, e>>}
    BY <1>2, <2>1, RecordedSoFar
  <2>4. CASE asked' = asked \o <<>>
    BY <1>1, <1>3, <2>4, ConcatEmptySeq
  <2> QED BY <1>2, <2>2, <2>3, <2>4
<1>8. \/ Pending = <<>>
      \/ \E type \in {"fault_injected", "fault_failed", "fault_finished"} : Pending = <<RunEvent(type)>>
      \/ pc \in {"stage", "stage_end"}
      \/ pc = "report" /\ kind = "stages"
  <2>1. CASE pc = "report" /\ kind # "stages"
    BY <2>1 DEF Pending, FailureEvents
  <2>2. CASE pc = "finally"
    BY <2>2 DEF Pending, Verdict
  <2>3. CASE pc \notin {"report", "finally", "stage", "stage_end"}
    BY <2>3 DEF Pending
  <2> QED BY <2>1, <2>2, <2>3
<1> QED BY <1>1, <1>4, <1>5, <1>6, <1>7, <1>8, RunMarks

LEMMA BracketedInvariant == Spec => []Bracketed
<1>1. FaultInv /\ Bracketed /\ [Next]_vars => Bracketed'
  <2> SUFFICES ASSUME FaultInv, Bracketed, [Next]_vars PROVE Bracketed'
    OBVIOUS
  <2>1. TRUE \in BOOLEAN /\ [i \in Steps |-> TRUE] \in [Steps -> BOOLEAN]
    OBVIOUS
  <2>2. CASE Preflight \/ Steady \/ NoBranch \/ K6Ends \/ Observe \/ CommandRaises \/ UNCHANGED vars
    BY <2>1, <2>2, QuietBracketed
  <2>3. CASE \E ok \in BOOLEAN : RunCommand(ok)
    BY <2>1, <2>3, QuietBracketed
  <2>4. CASE \E oks \in [Steps -> BOOLEAN] : RunParallel(oks)
    BY <2>1, <2>4, QuietBracketed
  <2> QED BY <2>2, <2>3, <2>4, InjectBracketed, StageStartsBracketed, StageFinishesBracketed,
             ReportBracketed, InterruptBracketed, FinallyBracketed DEF Next
<1> QED BY <1>1, InitBracketed, FaultInvariant, PTL DEF Spec

(* Stage events alternate in the order of the stages, and a call that      *)
(* returns leaves no stage open.                                           *)
THEOREM StagesAreBracketed == Spec => []StagesBracketed
<1>1. FaultInv /\ Bracketed => StagesBracketed
  <2> SUFFICES ASSUME FaultInv, Bracketed PROVE StagesBracketed
    OBVIOUS
  <2>1. asked \in Seq(Event) /\ \A i \in DOMAIN asked : asked[i] \in Event
    BY DEF FaultInv, Typed
  <2>2. MarksOf(asked) = Marks
    BY DEF MarksOf, Marks, IsMark
  <2>3. \A i, j \in Marks : i < j => Place(asked[i]) < Place(asked[j])
    BY <2>2 DEF Bracketed, Ordered
  <2>4. \A i \in Marks : /\ Place(asked[i]) >= 1
                         /\ \A k \in 1..Place(asked[i]) - 1 : \E j \in Marks : Place(asked[j]) = k
    <3>1. PICK n \in Nat : UpTo(asked, n)
      BY DEF Bracketed
    <3>2. \A i \in Marks : Place(asked[i]) \in 1..n
      BY <2>2, <3>1 DEF UpTo
    <3>3. \A k \in 1..n : \E j \in Marks : Place(asked[j]) = k
      BY <2>2, <3>1 DEF UpTo
    <3> QED BY <3>2, <3>3
  <2>5. ASSUME outcome \in {"true", "false"}, NEW i \in Marks, asked[i].type = "fault_stage_started"
        PROVE  \E j \in Marks : Place(asked[j]) = Place(asked[i]) + 1
    <3>1. PICK n \in Nat : UpTo(asked, 2 * n)
      BY <2>5 DEF Bracketed
    <3>2. Place(asked[i]) \in 1..2 * n
      BY <2>2, <3>1 DEF UpTo
    <3>3. asked[i].step \in Nat /\ Place(asked[i]) = 2 * asked[i].step - 1
      <4>1. asked[i] \in Event
        BY <2>1 DEF Marks
      <4> QED BY <2>5, <4>1, FaultSchedulerAssumption DEF Place, Event
    <3>4. Place(asked[i]) + 1 \in 1..2 * n
      BY <3>2, <3>3
    <3> QED BY <2>2, <3>1, <3>4 DEF UpTo
  <2> QED BY <2>3, <2>4, <2>5 DEF StagesBracketed
<1> QED BY <1>1, FaultInvariant, BracketedInvariant, PTL
=============================================================================
