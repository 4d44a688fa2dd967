------------------------ MODULE InferenceWorkerProofs ------------------------
(***************************************************************************)
(* That the semaphore is conserved and /ready honest, and that waiting     *)
(* calls move up in a pool that hung inferences cannot fill, for every     *)
(* number of calls, threads and permits.                                   *)
(*                                                                         *)
(* Conservation needs to know that a call is in the queue once only and is *)
(* not inferring there: the thread that takes it changes its state.        *)
(* Honesty needs to know that a subprocess drains only when its main       *)
(* process stops, since the model may be announced while it drains.        *)
(***************************************************************************)
EXTENDS InferenceWorker, FiniteSetTheorems, TLAPS

QueuedOnce == \A i, j \in 1..Len(queue) : queue[i] = queue[j] => i = j

(* Only a main process that is stopping has its subprocess drain, so that  *)
(* a late announcement never makes one that is up say it is ready.         *)
DrainsToStop == proc = "draining" => main # "up"

WorkerInv == TypeOK /\ QueuedOnce /\ PermitsConserved /\ ReadyMeansServing /\ DrainsToStop

-----------------------------------------------------------------------------
LEMMA InferringFinite == IsFiniteSet(Inferring) /\ Cardinality(Inferring) \in Nat
<1>1. Inferring \subseteq Calls
  BY DEF Inferring
<1>2. IsFiniteSet(Inferring)
  BY <1>1, WorkerAssumption, FS_Subset
<1> QED BY <1>2, FS_CardinalityType

(* A step that gives one call a new value. *)
LEMMA CallUpdated ==
  ASSUME TypeOK, NEW c \in Calls, NEW x \in Call, call' = [call EXCEPT ![c] = x]
  PROVE  /\ call' \in [Calls -> Call]
         /\ call'[c] = x /\ \A d \in Calls \ {c} : call'[d] = call[d]
         /\ (x.pc = "inferring" <=> call[c].pc = "inferring") => Inferring' = Inferring
<1>1. /\ call' \in [Calls -> Call]
      /\ call'[c] = x /\ \A d \in Calls \ {c} : call'[d] = call[d]
  BY DEF TypeOK
<1> QED BY <1>1 DEF Inferring

(* The new values that the steps give. *)
LEMMA CallValues ==
  ASSUME TypeOK, NEW c \in Calls
  PROVE  /\ \A p \in {"health", "waiting", "inferring", "inferred"} :
              /\ [call[c] EXCEPT !.pc = p] \in Call /\ [call[c] EXCEPT !.pc = p].pc = p
              /\ [call EXCEPT ![c].pc = p] = [call EXCEPT ![c] = [call[c] EXCEPT !.pc = p]]
         /\ [call[c] EXCEPT !.late = TRUE] \in Call /\ [call[c] EXCEPT !.late = TRUE].pc = call[c].pc
         /\ [call EXCEPT ![c].late = TRUE] = [call EXCEPT ![c] = [call[c] EXCEPT !.late = TRUE]]
         /\ \A a \in Answers \cup {"healthy"} :
              [NoCall EXCEPT !.answer = a] \in Call /\ [NoCall EXCEPT !.answer = a].pc = "none"
         /\ \A k \in {"infer", "health"} : /\ [NoCall EXCEPT !.pc = "queued", !.kind = k] \in Call
                                         /\ [NoCall EXCEPT !.pc = "queued", !.kind = k].pc = "queued"
<1>1. call[c] \in Call
  BY DEF TypeOK
<1>2. \A p \in {"health", "waiting", "inferring", "inferred"} :
        /\ [call[c] EXCEPT !.pc = p] \in Call /\ [call[c] EXCEPT !.pc = p].pc = p
        /\ [call EXCEPT ![c].pc = p] = [call EXCEPT ![c] = [call[c] EXCEPT !.pc = p]]
  BY <1>1 DEF Call
<1>3. /\ [call[c] EXCEPT !.late = TRUE] \in Call /\ [call[c] EXCEPT !.late = TRUE].pc = call[c].pc
      /\ [call EXCEPT ![c].late = TRUE] = [call EXCEPT ![c] = [call[c] EXCEPT !.late = TRUE]]
  BY <1>1 DEF Call
<1>4. \A a \in Answers \cup {"healthy"} :
        [NoCall EXCEPT !.answer = a] \in Call /\ [NoCall EXCEPT !.answer = a].pc = "none"
  BY DEF NoCall, Call, Answers
<1>5. \A k \in {"infer", "health"} : /\ [NoCall EXCEPT !.pc = "queued", !.kind = k] \in Call
                                  /\ [NoCall EXCEPT !.pc = "queued", !.kind = k].pc = "queued"
  BY DEF NoCall, Call, Answers
<1> QED BY <1>2, <1>3, <1>4, <1>5

(* The steps of one call other than its arrival and its start. *)
CallMoves(c, x) == /\ call' = [call EXCEPT ![c] = x]
                   /\ call[c].pc = "queued" => x.pc = "queued"
                   /\ UNCHANGED <<main, proc, ready, queue>>

LEMMA CallStepForm ==
  ASSUME TypeOK, NEW c \in Calls, \/ DeadlinePasses(c) \/ CallStep(c) \/ InferenceEnds(c)
  PROVE  \E x \in Call :
           /\ CallMoves(c, x)
           /\ \/ Acquire(c) \/ InferenceEnds(c)
              \/ permits' = permits /\ (x.pc = "inferring" <=> call[c].pc = "inferring")
<1>1. CASE DeadlinePasses(c)
  <2> DEFINE x == [call[c] EXCEPT !.late = TRUE]
  <2>1. CallMoves(c, x) /\ permits' = permits
    BY <1>1, CallValues DEF DeadlinePasses, CallMoves, process
  <2>2. x \in Call /\ x.pc = call[c].pc
    BY CallValues
  <2> HIDE DEF x
  <2> QED BY <2>1, <2>2
<1>2. CASE Acquire(c)
  <2>1. CallMoves(c, [call[c] EXCEPT !.pc = "inferring"])
    BY <1>2, CallValues DEF Acquire, CallMoves, process
  <2> QED BY <1>2, <2>1, CallValues
<1>3. CASE InferenceEnds(c)
  <2>1. CallMoves(c, [call[c] EXCEPT !.pc = "inferred"])
    BY <1>3, CallValues DEF InferenceEnds, CallMoves, process
  <2> QED BY <1>3, <2>1, CallValues
<1>4. CASE HealthCheck(c) \/ AcquireTimesOut(c) \/ AnswerCall(c)
  <2>1. /\ \E a \in Answers \cup {"healthy"} : Return(c, a)
        /\ call[c].pc \notin {"queued", "inferring"} /\ permits' = permits
        /\ UNCHANGED <<main, proc, ready, queue>>
    BY <1>4 DEF HealthCheck, AcquireTimesOut, AnswerCall, Answers, process
  <2>2. PICK a \in Answers \cup {"healthy"} : Return(c, a)
    BY <2>1
  <2>3. CallMoves(c, [NoCall EXCEPT !.answer = a])
    BY <2>1, <2>2 DEF CallMoves, Return
  <2> QED BY <2>1, <2>3, CallValues
<1> QED BY <1>1, <1>2, <1>3, <1>4 DEF CallStep

LEMMA StartCallForm ==
  ASSUME TypeOK, StartCall
  PROVE  /\ queue # <<>> /\ Head(queue) \in Calls /\ call[Head(queue)].pc = "queued"
         /\ queue' = Tail(queue) /\ UNCHANGED <<main, proc, ready, permits>>
         /\ \E x \in Call : call' = [call EXCEPT ![Head(queue)] = x] /\ x.pc # "inferring"
<1>1. /\ queue # <<>> /\ queue' = Tail(queue) /\ UNCHANGED <<main, proc, ready, permits>>
  BY DEF StartCall, process
<1>2. Head(queue) \in Calls /\ call[Head(queue)].pc = "queued"
  BY <1>1 DEF TypeOK
<1>3. PICK c \in Calls : c = Head(queue)
  BY <1>2
<1>4. \/ \E p \in {"health", "waiting"} : call' = [call EXCEPT ![c].pc = p]
      \/ \E a \in Answers : Return(c, a)
  BY <1>3 DEF StartCall, Answers
<1>5. \E x \in Call : call' = [call EXCEPT ![c] = x] /\ x.pc # "inferring"
  <2>1. CASE \E p \in {"health", "waiting"} : call' = [call EXCEPT ![c].pc = p]
    <3>1. PICK p \in {"health", "waiting"} : call' = [call EXCEPT ![c].pc = p]
      BY <2>1
    <3> DEFINE x == [call[c] EXCEPT !.pc = p]
    <3>2. x \in Call /\ x.pc = p /\ call' = [call EXCEPT ![c] = x]
      BY <3>1, CallValues
    <3> HIDE DEF x
    <3> QED BY <3>2
  <2>2. CASE \E a \in Answers : Return(c, a)
    <3>1. PICK a \in Answers : Return(c, a)
      BY <2>2
    <3> DEFINE x == [NoCall EXCEPT !.answer = a]
    <3>2. x \in Call /\ x.pc = "none" /\ call' = [call EXCEPT ![c] = x]
      BY <3>1, CallValues DEF Return
    <3> HIDE DEF x
    <3> QED BY <3>2
  <2> QED BY <1>4, <2>1, <2>2
<1> QED BY <1>1, <1>2, <1>3, <1>5

LEMMA InitWorker == Init => WorkerInv
<1> SUFFICES ASSUME Init PROVE WorkerInv
  OBVIOUS
<1> USE WorkerAssumption
<1>1. TypeOK /\ QueuedOnce /\ ReadyMeansServing /\ DrainsToStop
  <2>1. NoCall \in Call
    BY DEF NoCall, Call, Answers
  <2>2. queue = <<>> /\ queue \in Seq(Calls)
    BY DEF Init
  <2>3. call \in [Calls -> Call] /\ Permits \in 0..Permits
    BY <2>1 DEF Init
  <2>4. 1..Len(queue) = {}
    BY <2>2
  <2>5. permits \in 0..Permits /\ main = "up" /\ proc = "loading" /\ ready = FALSE
    BY <2>3 DEF Init
  <2>6. TypeOK
    BY <2>2, <2>3, <2>4, <2>5 DEF TypeOK
  <2>7. QueuedOnce /\ ReadyMeansServing /\ DrainsToStop
    BY <2>4, <2>5 DEF QueuedOnce, ReadyMeansServing, DrainsToStop
  <2> QED BY <2>6, <2>7
<1>2. PermitsConserved
  <2>1. Inferring = {}
    BY DEF Init, Inferring, NoCall
  <2>2. Cardinality(Inferring) = 0
    BY <2>1, FS_EmptySet
  <2> QED BY <2>2 DEF Init, PermitsConserved
<1> QED BY <1>1, <1>2 DEF WorkerInv

(* What the steps do to the calls that are inferring. *)
LEMMA StepPermits ==
  ASSUME WorkerInv, [Next]_vars
  PROVE  PermitsConserved' /\ permits' \in 0..Permits
<1> USE WorkerAssumption DEF WorkerInv
<1>0. /\ permits \in 0..Permits /\ permits + Cardinality(Inferring) = Permits
      /\ IsFiniteSet(Inferring) /\ Cardinality(Inferring) \in Nat
  BY InferringFinite DEF TypeOK, PermitsConserved
<1>f. /\ IsFiniteSet(Inferring') /\ Cardinality(Inferring') \in Nat
  <2>1. Inferring' \subseteq Calls
    BY DEF Inferring
  <2>2. IsFiniteSet(Inferring')
    BY <2>1, FS_Subset
  <2> QED BY <2>2, FS_CardinalityType
<1>1. ASSUME NEW c \in Calls, Acquire(c)
      PROVE  PermitsConserved' /\ permits' \in 0..Permits
  <2>1. Inferring' = Inferring \cup {c} /\ c \notin Inferring
    <3> DEFINE x == [call[c] EXCEPT !.pc = "inferring"]
    <3>1. x \in Call /\ x.pc = "inferring" /\ call' = [call EXCEPT ![c] = x]
      BY <1>1, CallValues DEF Acquire
    <3> HIDE DEF x
    <3>2. call'[c].pc = "inferring" /\ \A d \in Calls \ {c} : call'[d] = call[d]
      BY <3>1, CallUpdated
    <3> QED BY <1>1, <3>2 DEF Acquire, Inferring
  <2>2. Cardinality(Inferring') = Cardinality(Inferring) + 1
    BY <1>0, <2>1, FS_AddElement
  <2>3. permits > 0 /\ permits' = permits - 1
    BY <1>1 DEF Acquire
  <2> QED BY <1>0, <2>2, <2>3 DEF PermitsConserved
<1>2. ASSUME NEW c \in Calls, InferenceEnds(c)
      PROVE  PermitsConserved' /\ permits' \in 0..Permits
  <2>1. Inferring = Inferring' \cup {c} /\ c \notin Inferring'
    <3> DEFINE x == [call[c] EXCEPT !.pc = "inferred"]
    <3>1. x \in Call /\ x.pc = "inferred" /\ call' = [call EXCEPT ![c] = x]
      BY <1>2, CallValues DEF InferenceEnds
    <3> HIDE DEF x
    <3>2. call'[c].pc = "inferred" /\ \A d \in Calls \ {c} : call'[d] = call[d]
      BY <3>1, CallUpdated
    <3> QED BY <1>2, <3>2 DEF InferenceEnds, Inferring
  <2>2. Cardinality(Inferring) = Cardinality(Inferring') + 1
    BY <1>f, <2>1, FS_AddElement
  <2>3. permits' = permits + 1
    BY <1>2 DEF InferenceEnds
  <2> QED BY <1>0, <1>f, <2>2, <2>3 DEF PermitsConserved
<1>3. ASSUME LoseCalls PROVE PermitsConserved' /\ permits' \in 0..Permits
  <2>1. Inferring' = {}
    BY <1>3 DEF LoseCalls, Inferring, NoCall
  <2>2. Cardinality(Inferring') = 0
    BY <2>1, FS_EmptySet
  <2> QED BY <1>3, <2>2 DEF LoseCalls, PermitsConserved
<1>4. ASSUME Inferring' = Inferring, permits' = permits
      PROVE  PermitsConserved' /\ permits' \in 0..Permits
  BY <1>0, <1>4 DEF PermitsConserved
<1>5. ASSUME NEW c \in Calls, \/ DeadlinePasses(c) \/ CallStep(c) \/ InferenceEnds(c),
             ~Acquire(c), ~InferenceEnds(c)
      PROVE  Inferring' = Inferring /\ permits' = permits
  BY <1>5, CallStepForm, CallUpdated DEF CallMoves
<1>a. ASSUME NEW c \in Calls, NEW kind \in {"infer", "health"}, Arrive(c, kind)
      PROVE  Inferring' = Inferring /\ permits' = permits
  BY <1>a, CallValues, CallUpdated DEF Arrive
<1>6. ASSUME StartCall PROVE Inferring' = Inferring /\ permits' = permits
  BY <1>6, StartCallForm, CallUpdated
<1>7. ASSUME \/ LoadModel \/ AnnounceReady \/ MonitorExits \/ ShutdownEnds \/ Shutdown
             \/ ContainerStarts \/ UNCHANGED vars
      PROVE  Inferring' = Inferring /\ permits' = permits
  BY <1>7 DEF LoadModel, AnnounceReady, MonitorExits, ShutdownEnds, Shutdown, ContainerStarts, vars, Inferring
<1>8. Crash \/ DrainEnds => LoseCalls
  BY DEF Crash, DrainEnds
<1> QED BY <1>1, <1>2, <1>3, <1>4, <1>5, <1>a, <1>6, <1>7, <1>8 DEF Next, Lifecycle

(* The queue, its calls, and the rest of the types. *)
LEMMA StepType ==
  ASSUME WorkerInv, [Next]_vars
  PROVE  TypeOK' /\ QueuedOnce'
<1> USE WorkerAssumption DEF WorkerInv
<1>p. permits' \in 0..Permits
  BY StepPermits
<1>1. ASSUME NEW c \in Calls, NEW kind \in {"infer", "health"}, Arrive(c, kind)
      PROVE  TypeOK' /\ QueuedOnce'
  <2>1. /\ call' = [call EXCEPT ![c] = [NoCall EXCEPT !.pc = "queued", !.kind = kind]]
        /\ queue' = Append(queue, c) /\ call[c].pc = "none"
    BY <1>1 DEF Arrive
  <2>2. \A i \in 1..Len(queue) : queue[i] # c
    BY <2>1 DEF TypeOK
  <2>3. /\ queue' \in Seq(Calls) /\ Len(queue') = Len(queue) + 1
        /\ \A i \in 1..Len(queue) : queue'[i] = queue[i] /\ queue[i] \in Calls
        /\ queue'[Len(queue) + 1] = c /\ Len(queue) \in Nat
    BY <2>1 DEF TypeOK
  <2>4. QueuedOnce'
    BY <2>2, <2>3 DEF QueuedOnce
  <2>5. \A i \in 1..Len(queue') : call'[queue'[i]].pc = "queued"
    <3>1. \A i \in 1..Len(queue) : call'[queue[i]] = call[queue[i]] /\ call[queue[i]].pc = "queued"
      BY <2>1, <2>2, <2>3, CallValues, CallUpdated DEF TypeOK
    <3>2. call'[c].pc = "queued"
      BY <2>1, CallValues, CallUpdated
    <3> QED BY <2>3, <3>1, <3>2
  <2>6. main' = main /\ proc' = proc /\ ready' = ready
    BY <1>1 DEF Arrive, process
  <2>7. call' \in [Calls -> Call]
    BY <2>1, CallValues, CallUpdated
  <2> QED BY <1>p, <2>3, <2>4, <2>5, <2>6, <2>7 DEF TypeOK
<1>2. ASSUME NEW c \in Calls, \/ DeadlinePasses(c) \/ CallStep(c) \/ InferenceEnds(c)
      PROVE  TypeOK' /\ QueuedOnce'
  <2>1. PICK x \in Call : CallMoves(c, x)
    BY <1>2, CallStepForm
  <2>2. call' \in [Calls -> Call] /\ call'[c] = x /\ \A d \in Calls \ {c} : call'[d] = call[d]
    BY <2>1, CallUpdated DEF CallMoves
  <2>3. \A i \in 1..Len(queue) : call'[queue[i]].pc = "queued"
    <3> SUFFICES ASSUME NEW i \in 1..Len(queue) PROVE call'[queue[i]].pc = "queued"
      OBVIOUS
    <3>1. queue[i] \in Calls /\ call[queue[i]].pc = "queued"
      BY DEF TypeOK
    <3> QED BY <2>1, <2>2, <3>1 DEF CallMoves
  <2> QED BY <1>p, <2>1, <2>2, <2>3 DEF TypeOK, QueuedOnce, CallMoves
<1>3. CASE StartCall
  <2>1. queue # <<>> /\ queue' = Tail(queue) /\ UNCHANGED <<main, proc, ready>>
    BY <1>3, StartCallForm
  <2>2. PICK c \in Calls : c = Head(queue)
    BY <1>3, StartCallForm
  <2>3. call' \in [Calls -> Call] /\ \A d \in Calls \ {c} : call'[d] = call[d]
    BY <1>3, <2>2, StartCallForm, CallUpdated
  <2>4. /\ queue' \in Seq(Calls) /\ Len(queue) \in Nat \ {0} /\ Len(queue') = Len(queue) - 1
        /\ \A i \in 1..Len(queue') : queue'[i] = queue[i + 1]
        /\ c = queue[1]
    BY <2>1, <2>2 DEF TypeOK
  <2>5. \A i \in 1..Len(queue') : queue'[i] # c /\ call[queue'[i]].pc = "queued" /\ queue'[i] \in Calls
    <3> SUFFICES ASSUME NEW i \in 1..Len(queue')
                 PROVE  queue'[i] # c /\ call[queue'[i]].pc = "queued" /\ queue'[i] \in Calls
      OBVIOUS
    <3>1. i + 1 \in 1..Len(queue) /\ 1 \in 1..Len(queue) /\ i + 1 # 1
      BY <2>4
    <3> QED BY <2>4, <3>1 DEF TypeOK, QueuedOnce
  <2>6. QueuedOnce'
    <3> SUFFICES ASSUME NEW i \in 1..Len(queue'), NEW j \in 1..Len(queue'), queue'[i] = queue'[j]
                 PROVE  i = j
      BY DEF QueuedOnce
    <3>1. i + 1 \in 1..Len(queue) /\ j + 1 \in 1..Len(queue)
      BY <2>4
    <3>2. i + 1 = j + 1
      BY <2>4, <3>1 DEF QueuedOnce
    <3> QED BY <2>4, <3>2
  <2>7. \A i \in 1..Len(queue') : call'[queue'[i]].pc = "queued"
    BY <2>3, <2>5
  <2> QED BY <1>p, <2>1, <2>3, <2>4, <2>6, <2>7 DEF TypeOK
<1>4. CASE Crash \/ DrainEnds
  <2>1. LoseCalls /\ proc' = "dead" /\ UNCHANGED <<main, ready>>
    BY <1>4 DEF Crash, DrainEnds
  <2>2. \A c \in Calls : call[c] \in Call /\ [NoCall EXCEPT !.answer = "Unavailable"] \in Call
    BY DEF TypeOK, NoCall, Call, Answers
  <2>3. call' \in [Calls -> Call]
    BY <2>1, <2>2 DEF LoseCalls
  <2>4. queue' = <<>> /\ queue' \in Seq(Calls)
    BY <2>1 DEF LoseCalls
  <2> QED BY <1>p, <2>1, <2>3, <2>4 DEF TypeOK, QueuedOnce
<1>5. CASE \/ LoadModel \/ AnnounceReady \/ MonitorExits \/ ShutdownEnds \/ Shutdown
           \/ ContainerStarts \/ UNCHANGED vars
  <2>1. UNCHANGED <<call, queue>> /\ main' \in {"up", "stopping", "down"} /\ ready' \in BOOLEAN
        /\ proc' \in {"loading", "serving", "draining", "dead"}
    BY <1>5 DEF LoadModel, AnnounceReady, MonitorExits, ShutdownEnds, Shutdown, ContainerStarts, vars, TypeOK
  <2> QED BY <1>p, <2>1 DEF TypeOK, QueuedOnce
<1> QED BY <1>1, <1>2, <1>3, <1>4, <1>5 DEF Next, Lifecycle

LEMMA StepReady ==
  ASSUME WorkerInv, [Next]_vars
  PROVE  ReadyMeansServing' /\ DrainsToStop'
BY DEF WorkerInv, TypeOK, ReadyMeansServing, DrainsToStop, Next, vars, process, Arrive, DeadlinePasses,
       CallStep, InferenceEnds, HealthCheck, Acquire, AcquireTimesOut, AnswerCall, StartCall, Lifecycle, LoadModel,
       AnnounceReady, MonitorExits, DrainEnds, ShutdownEnds, Crash, Shutdown, ContainerStarts

-----------------------------------------------------------------------------
THEOREM WorkerInvariant == Spec => []WorkerInv
<1>1. WorkerInv /\ [Next]_vars => WorkerInv'
  BY StepPermits, StepType, StepReady DEF WorkerInv
<1> QED BY <1>1, InitWorker, PTL DEF Spec

(* No path leaks or over-releases a permit of the semaphore.               *)
THEOREM PermitsAreConserved == Spec => []PermitsConserved
<1>1. WorkerInv => PermitsConserved
  BY DEF WorkerInv
<1> QED BY <1>1, WorkerInvariant, PTL

(* /ready never announces a subprocess that does not serve.                *)
THEOREM ReadyIsHonest == Spec => []ReadyMeansServing
<1>1. WorkerInv => ReadyMeansServing
  BY DEF WorkerInv
<1> QED BY <1>1, WorkerInvariant, PTL

-----------------------------------------------------------------------------
(* Every call that waits for a thread has a place in the queue.            *)
AllQueued == \A c \in Calls : call[c].pc = "queued" => \E i \in 1..Len(queue) : queue[i] = c

(* The call at place i is served or lost, or keeps its place or moves up.  *)
MovesUp(i) ==
  \/ call'[queue[i]].pc # "queued"
  \/ \E j \in {i - 1, i} : j \in 1..Len(queue') /\ queue'[j] = queue[i]

(* The FIFO argument, for each step of the worker. *)
LEMMA StepQueue ==
  ASSUME WorkerInv, AllQueued, [Next]_vars
  PROVE  AllQueued' /\ \A i \in 1..Len(queue) : MovesUp(i)
<1> USE WorkerAssumption DEF WorkerInv
<1>0. /\ call \in [Calls -> Call] /\ queue \in Seq(Calls) /\ Len(queue) \in Nat
      /\ \A i \in 1..Len(queue) : queue[i] \in Calls /\ call[queue[i]].pc = "queued"
  BY DEF TypeOK
<1>1. ASSUME NEW c \in Calls, NEW kind \in {"infer", "health"}, Arrive(c, kind)
      PROVE  AllQueued' /\ \A i \in 1..Len(queue) : MovesUp(i)
  <2>1. /\ Len(queue') = Len(queue) + 1 /\ queue'[Len(queue) + 1] = c
        /\ \A i \in 1..Len(queue) : queue'[i] = queue[i] /\ i \in 1..Len(queue')
    BY <1>0, <1>1 DEF Arrive
  <2>2. \A d \in Calls \ {c} : call'[d] = call[d]
    BY <1>1, CallValues, CallUpdated DEF Arrive
  <2>3. AllQueued'
    <3> SUFFICES ASSUME NEW d \in Calls, call'[d].pc = "queued"
                 PROVE  \E i \in 1..Len(queue') : queue'[i] = d
      BY DEF AllQueued
    <3>1. CASE d = c
      BY <1>0, <2>1, <3>1
    <3>2. CASE d # c
      BY <2>1, <2>2, <3>2 DEF AllQueued
    <3> QED BY <3>1, <3>2
  <2> QED BY <2>1, <2>3 DEF MovesUp
<1>2. ASSUME NEW c \in Calls, \/ DeadlinePasses(c) \/ CallStep(c) \/ InferenceEnds(c)
      PROVE  AllQueued' /\ \A i \in 1..Len(queue) : MovesUp(i)
  <2>1. PICK x \in Call : CallMoves(c, x)
    BY <1>2, CallStepForm
  <2>2. call'[c] = x /\ \A d \in Calls \ {c} : call'[d] = call[d]
    BY <2>1, CallUpdated DEF CallMoves
  <2>3. x.pc = "queued" => call[c].pc = "queued"
    <3>1. CASE DeadlinePasses(c)
      <4>1. call'[c] = [call[c] EXCEPT !.late = TRUE]
        BY <1>0, <3>1 DEF DeadlinePasses
      <4> QED BY <2>2, <4>1, CallValues
    <3>2. CASE CallStep(c) \/ InferenceEnds(c)
      <4>1. \/ \E p \in {"inferring", "inferred"} : call' = [call EXCEPT ![c].pc = p]
            \/ \E a \in Answers \cup {"healthy"} : Return(c, a)
        BY <3>2 DEF CallStep, HealthCheck, Acquire, AcquireTimesOut, AnswerCall, InferenceEnds, Answers
      <4>2. ASSUME NEW p \in {"inferring", "inferred"}, call' = [call EXCEPT ![c].pc = p]
            PROVE  x.pc # "queued"
        <5>1. call'[c] = [call[c] EXCEPT !.pc = p]
          BY <1>0, <4>2
        <5> QED BY <2>2, <5>1, CallValues
      <4>3. ASSUME NEW a \in Answers \cup {"healthy"}, Return(c, a)
            PROVE  x.pc # "queued"
        <5>1. call'[c] = [NoCall EXCEPT !.answer = a]
          BY <1>0, <4>3 DEF Return
        <5> QED BY <2>2, <5>1, CallValues
      <4> QED BY <4>1, <4>2, <4>3
    <3> QED BY <1>2, <3>1, <3>2
  <2>4. queue' = queue
    BY <2>1 DEF CallMoves
  <2> QED BY <1>0, <2>2, <2>3, <2>4 DEF AllQueued, MovesUp
<1>3. CASE StartCall
  <2>1. PICK c \in Calls, x \in Call :
          /\ c = Head(queue) /\ queue # <<>> /\ queue' = Tail(queue)
          /\ call' = [call EXCEPT ![c] = x]
    BY <1>3, StartCallForm
  <2>2. \A d \in Calls \ {c} : call'[d] = call[d]
    BY <2>1, CallUpdated
  <2>3. call'[c].pc # "queued"
    <3>1. \/ \E p \in {"health", "waiting"} : call' = [call EXCEPT ![c].pc = p]
          \/ \E a \in Answers : Return(c, a)
      BY <1>3, <2>1 DEF StartCall, Answers
    <3>2. ASSUME NEW p \in {"health", "waiting"}, call' = [call EXCEPT ![c].pc = p]
          PROVE  call'[c].pc # "queued"
      <4>1. call'[c] = [call[c] EXCEPT !.pc = p]
        BY <1>0, <3>2
      <4> QED BY <4>1, CallValues
    <3>3. ASSUME NEW a \in Answers, Return(c, a)
          PROVE  call'[c].pc # "queued"
      <4>1. call'[c] = [NoCall EXCEPT !.answer = a]
        BY <1>0, <3>3 DEF Return
      <4> QED BY <4>1, CallValues
    <3> QED BY <3>1, <3>2, <3>3
  <2>4. /\ Len(queue) \in Nat \ {0} /\ Len(queue') = Len(queue) - 1 /\ queue[1] = c
        /\ \A i \in 1..Len(queue') : queue'[i] = queue[i + 1]
    BY <1>0, <2>1
  <2>5. \A i \in 1..Len(queue) : i = 1 \/ (i - 1 \in 1..Len(queue') /\ queue'[i - 1] = queue[i])
    <3> SUFFICES ASSUME NEW i \in 1..Len(queue), i # 1
                 PROVE  i - 1 \in 1..Len(queue') /\ queue'[i - 1] = queue[i]
      OBVIOUS
    <3>1. i - 1 \in 1..Len(queue') /\ (i - 1) + 1 = i
      BY <2>4
    <3> QED BY <2>4, <3>1
  <2>6. AllQueued'
    <3> SUFFICES ASSUME NEW d \in Calls, call'[d].pc = "queued"
                 PROVE  \E i \in 1..Len(queue') : queue'[i] = d
      BY DEF AllQueued
    <3>1. d # c /\ call[d].pc = "queued"
      BY <2>2, <2>3
    <3>2. PICK i \in 1..Len(queue) : queue[i] = d
      BY <3>1 DEF AllQueued
    <3> QED BY <2>4, <2>5, <3>1, <3>2
  <2> QED BY <2>3, <2>4, <2>5, <2>6 DEF MovesUp
<1>4. CASE Crash \/ DrainEnds
  <2>1. LoseCalls
    BY <1>4 DEF Crash, DrainEnds
  <2>2. \A c \in Calls : call'[c].pc # "queued"
    BY <2>1 DEF LoseCalls, NoCall
  <2> QED BY <1>0, <2>2 DEF AllQueued, MovesUp
<1>5. CASE \/ LoadModel \/ AnnounceReady \/ MonitorExits \/ ShutdownEnds \/ Shutdown
           \/ ContainerStarts \/ UNCHANGED vars
  <2>1. UNCHANGED <<call, queue>>
    BY <1>5 DEF LoadModel, AnnounceReady, MonitorExits, ShutdownEnds, Shutdown, ContainerStarts, vars
  <2> QED BY <1>0, <2>1 DEF AllQueued, MovesUp
<1> QED BY <1>1, <1>2, <1>3, <1>4, <1>5 DEF Next, Lifecycle

(* The safety half of HealthOutlivesHang, first part: a call that waits    *)
(* for a thread has a place in the queue and is never overtaken there, by  *)
(* inferences or health checks, late ones included.                        *)
THEOREM CallsMoveUp ==
  /\ Spec => []AllQueued
  /\ Spec => [][\A i \in 1..Len(queue) :
                  \/ call'[queue[i]].pc # "queued"
                  \/ \E j \in {i - 1, i} : j \in 1..Len(queue') /\ queue'[j] = queue[i]]_vars
<1>1. Init => AllQueued
  BY DEF Init, AllQueued, NoCall
<1>2. WorkerInv /\ AllQueued /\ [Next]_vars => AllQueued'
  BY StepQueue
<1>3. WorkerInv /\ AllQueued /\ [Next]_vars =>
        [\A i \in 1..Len(queue) :
           \/ call'[queue[i]].pc # "queued"
           \/ \E j \in {i - 1, i} : j \in 1..Len(queue') /\ queue'[j] = queue[i]]_vars
  BY StepQueue DEF MovesUp
<1> QED BY <1>1, <1>2, <1>3, WorkerInvariant, PTL DEF Spec

-----------------------------------------------------------------------------
(* The pool: no more threads are busy than there are. *)
PoolKept == Cardinality(Busy) <= PoolSize

LEMMA BusyFinite == IsFiniteSet(Busy) /\ Cardinality(Busy) \in Nat
<1>1. Busy \subseteq Calls
  BY DEF Busy
<1>2. IsFiniteSet(Busy)
  BY <1>1, WorkerAssumption, FS_Subset
<1> QED BY <1>2, FS_CardinalityType

(* Only the start of a call makes a thread busy, and it needs a free one.  *)
LEMMA StepPool ==
  ASSUME WorkerInv, PoolKept, [Next]_vars
  PROVE  PoolKept'
<1> USE WorkerAssumption DEF WorkerInv
<1>0. IsFiniteSet(Busy) /\ Cardinality(Busy) \in Nat
  BY BusyFinite
<1>1. ASSUME Busy' \subseteq Busy PROVE PoolKept'
  <2>1. Cardinality(Busy') <= Cardinality(Busy) /\ IsFiniteSet(Busy')
    BY <1>0, <1>1, FS_Subset
  <2>2. Cardinality(Busy') \in Nat
    BY <2>1, FS_CardinalityType
  <2> QED BY <1>0, <2>1, <2>2 DEF PoolKept
<1>2. ASSUME NEW c \in Calls, NEW kind \in {"infer", "health"}, Arrive(c, kind)
      PROVE  Busy' \subseteq Busy
  <2> DEFINE x == [NoCall EXCEPT !.pc = "queued", !.kind = kind]
  <2>1. x \in Call /\ x.pc = "queued" /\ call' = [call EXCEPT ![c] = x]
    BY <1>2, CallValues DEF Arrive
  <2> HIDE DEF x
  <2>2. call'[c] = x /\ \A d \in Calls \ {c} : call'[d] = call[d]
    BY <2>1, CallUpdated
  <2> QED BY <2>1, <2>2 DEF Busy
<1>3. ASSUME NEW c \in Calls, \/ DeadlinePasses(c) \/ CallStep(c) \/ InferenceEnds(c)
      PROVE  Busy' \subseteq Busy
  <2>1. PICK x \in Call : CallMoves(c, x)
    BY <1>3, CallStepForm
  <2>2. call'[c] = x /\ \A d \in Calls \ {c} : call'[d] = call[d]
    BY <2>1, CallUpdated DEF CallMoves
  <2>3. call[c].pc # "none"
    BY <1>3 DEF DeadlinePasses, CallStep, HealthCheck, Acquire, AcquireTimesOut, AnswerCall, InferenceEnds
  <2>4. c \notin Busy => x.pc = "queued"
    BY <2>1, <2>3 DEF Busy, CallMoves
  <2> QED BY <2>2, <2>4 DEF Busy
<1>4. CASE StartCall
  <2>1. Cardinality(Busy) < PoolSize
    BY <1>4 DEF StartCall
  <2>2. PICK c \in Calls, x \in Call : call' = [call EXCEPT ![c] = x]
    BY <1>4, StartCallForm
  <2>3. \A d \in Calls \ {c} : call'[d] = call[d]
    BY <2>2, CallUpdated
  <2>4. Busy' \subseteq Busy \cup {c}
    BY <2>3 DEF Busy
  <2>5. /\ IsFiniteSet(Busy \cup {c})
        /\ Cardinality(Busy \cup {c}) = (IF c \in Busy THEN Cardinality(Busy) ELSE Cardinality(Busy) + 1)
    BY <1>0, FS_AddElement
  <2>6. IsFiniteSet(Busy') /\ Cardinality(Busy') <= Cardinality(Busy \cup {c})
    BY <2>4, <2>5, FS_Subset
  <2>7. Cardinality(Busy') \in Nat
    BY <2>6, FS_CardinalityType
  <2> QED BY <1>0, <2>1, <2>5, <2>6, <2>7 DEF PoolKept
<1>5. CASE Crash \/ DrainEnds
  <2>1. \A c \in Calls : call'[c].pc = "none"
    BY <1>5 DEF Crash, DrainEnds, LoseCalls, NoCall
  <2>2. Busy' \subseteq Busy
    BY <2>1 DEF Busy
  <2> QED BY <1>1, <2>2
<1>6. CASE \/ LoadModel \/ AnnounceReady \/ MonitorExits \/ ShutdownEnds \/ Shutdown
           \/ ContainerStarts \/ UNCHANGED vars
  <2>1. Busy' \subseteq Busy
    BY <1>6 DEF LoadModel, AnnounceReady, MonitorExits, ShutdownEnds, Shutdown, ContainerStarts, vars, Busy
  <2> QED BY <1>1, <2>1
<1> QED BY <1>1, <1>2, <1>3, <1>4, <1>5, <1>6 DEF Next, Lifecycle

(* ... second part: the pool is never overdrawn, and when there are fewer  *)
(* permits than threads a pool that is full has a thread which no hung     *)
(* inference holds: it serves a health check, answers, or waits for the    *)
(* semaphore, which times out.                                             *)
THEOREM PoolIsNotExhausted ==
  /\ Spec => [](Cardinality(Busy) <= PoolSize)
  /\ Permits < PoolSize =>
       (Spec => [](Cardinality(Busy) = PoolSize => \E c \in Busy : call[c].pc # "inferring"))
<1>1. Init => PoolKept
  <2> SUFFICES ASSUME Init PROVE PoolKept
    OBVIOUS
  <2>1. Busy = {}
    BY DEF Init, Busy, NoCall
  <2> QED BY <2>1, FS_EmptySet, WorkerAssumption DEF PoolKept
<1>2. WorkerInv /\ PoolKept /\ [Next]_vars => PoolKept'
  BY StepPool
<1>3. PoolKept => Cardinality(Busy) <= PoolSize
  BY DEF PoolKept
<1>4. Spec => [](Cardinality(Busy) <= PoolSize)
  BY <1>1, <1>2, <1>3, WorkerInvariant, PTL DEF Spec
<1>5. ASSUME Permits < PoolSize
      PROVE  Spec => [](Cardinality(Busy) = PoolSize => \E c \in Busy : call[c].pc # "inferring")
  <2>1. WorkerInv => (Cardinality(Busy) = PoolSize => \E c \in Busy : call[c].pc # "inferring")
    <3> SUFFICES ASSUME WorkerInv, Cardinality(Busy) = PoolSize, \A c \in Busy : call[c].pc = "inferring"
                 PROVE  FALSE
      OBVIOUS
    <3>1. Busy = Inferring
      BY DEF Busy, Inferring
    <3>2. permits \in Nat /\ permits + Cardinality(Inferring) = Permits /\ Cardinality(Inferring) \in Nat
      BY InferringFinite, WorkerAssumption DEF WorkerInv, TypeOK, PermitsConserved
    <3> QED BY <1>5, <3>1, <3>2, WorkerAssumption
  <2> QED BY <2>1, WorkerInvariant, PTL
<1> QED BY <1>4, <1>5
=============================================================================
