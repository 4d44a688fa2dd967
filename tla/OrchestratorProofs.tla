------------------------- MODULE OrchestratorProofs -------------------------
(***************************************************************************)
(* The life of the health-check cycles, for any workers, cycles and        *)
(* callers: no cycle is leaked and what is published is whole; and, for a  *)
(* single caller whose Stop does not time out, every cycle closes its own  *)
(* channel and is silent once Stop has returned, and no Stop waits for a   *)
(* channel that nobody will close.                                         *)
(***************************************************************************)
EXTENDS Orchestrator, FiniteSetTheorems, TLAPS

CyclesTyped == cycle \in [Cycles -> CycleState] /\ cancel \in Cycles \cup {None}

(* The workers whose check has come back, or has been applied. *)
Seen(x) == {x.results[i].worker : i \in 1..Len(x.results)}
Applied(x) == {w \in Workers : x.state[w] # ""}

(* While checks come back none is counted twice; when the first is applied *)
(* none is missing.                                                        *)
Covered(x) ==
  /\ x.pc = "checking" => Cardinality(Seen(x)) = Len(x.results)
  /\ x.pc = "applying" => x.results # <<>> /\ Seen(x) \cup Applied(x) = Workers
  /\ x.pc = "saving" => Applied(x) = Workers

WholeInv == CyclesTyped /\ StatesWhole /\ \A g \in Cycles : Covered(cycle[g])

(* What a step of cycle g gives it.                                        *)
Gives(g, x) == /\ cycle' = [cycle EXCEPT ![g] = x]
               /\ cycle[g].pc \notin {"unborn", "gone"} /\ x.pc # "unborn"
               /\ x.pc = "gone" => Leave(g)
               /\ Covered(cycle[g]) => Covered(x)

-----------------------------------------------------------------------------
LEMMA UnbornTyped ==
  /\ Unborn \in CycleState
  /\ \A p \in {"select", "checking"} :
       /\ [Unborn EXCEPT !.pc = p] \in CycleState /\ [Unborn EXCEPT !.pc = p].pc = p
       /\ [Unborn EXCEPT !.pc = p].results = <<>>
<1>1. <<>> \in Seq(Results)
  OBVIOUS
<1>2. Blank \in [Workers -> WorkerStatus \cup {""}]
  BY DEF Blank
<1>3. \A p \in {"unborn", "select", "checking"} :
        [pc |-> p, results |-> <<>>, state |-> Blank] \in CycleState
  BY <1>1, <1>2 DEF CycleState
<1>4. Unborn \in CycleState
  BY <1>3 DEF Unborn
<1>5. ASSUME NEW p \in {"select", "checking"}
      PROVE  [Unborn EXCEPT !.pc = p] = [pc |-> p, results |-> <<>>, state |-> Blank]
  BY DEF Unborn
<1> QED BY <1>3, <1>4, <1>5

LEMMA CycleUpdated ==
  ASSUME CyclesTyped, NEW g \in Cycles, NEW x \in CycleState, cycle' = [cycle EXCEPT ![g] = x]
  PROVE  /\ cycle' \in [Cycles -> CycleState]
         /\ cycle'[g] = x /\ \A h \in Cycles \ {g} : cycle'[h] = cycle[h]
BY DEF CyclesTyped

(* A check comes back. *)
LEMMA CheckForm ==
  ASSUME CyclesTyped, NEW g \in Cycles, NEW w \in Workers, NEW status \in WorkerStatus,
         CheckWorker(g, w, status)
  PROVE  \E x \in CycleState : Gives(g, x) /\ x.pc # "gone"
<1> DEFINE r == [worker |-> w, status |-> status]
           old == cycle[g].results
           results == Append(old, r)
           p == IF Len(results) = Cardinality(Workers) THEN "applying" ELSE "checking"
           x == [cycle[g] EXCEPT !.results = results, !.pc = p]
<1>1. /\ cycle[g] \in CycleState /\ cycle[g].pc = "checking"
      /\ \A i \in 1..Len(old) : old[i].worker # w
      /\ cycle' = [cycle EXCEPT ![g] = x]
  BY DEF CheckWorker, CyclesTyped
<1>2. old \in Seq(Results) /\ r \in Results
  BY <1>1 DEF CycleState, Results
<1>3. /\ results \in Seq(Results) /\ Len(results) = Len(old) + 1 /\ Len(old) \in Nat
      /\ \A i \in 1..Len(old) : results[i] = old[i]
      /\ results[Len(old) + 1] = r
  BY <1>2
<1>4. p \in {"applying", "checking"}
  OBVIOUS
<1>5. x \in CycleState /\ x.pc = p /\ x.results = results /\ cycle' = [cycle EXCEPT ![g] = x]
  <2> HIDE DEF results, p
  <2> QED BY <1>1, <1>3, <1>4 DEF CycleState, CyclesTyped
<1>6. Covered(cycle[g]) => Covered(x)
  <2> SUFFICES ASSUME Covered(cycle[g]) PROVE Covered(x)
    OBVIOUS
  <2>1. Cardinality(Seen(cycle[g])) = Len(old)
    BY <1>1 DEF Covered
  <2>2. Seen(x) = Seen(cycle[g]) \cup {w} /\ w \notin Seen(cycle[g])
    <3>1. w \notin Seen(cycle[g])
      BY <1>1 DEF Seen
    <3>2. Seen(x) = {results[i].worker : i \in 1..Len(old) + 1}
      BY <1>3, <1>5 DEF Seen
    <3>3. \A i \in 1..Len(old) + 1 : i \in 1..Len(old) \/ i = Len(old) + 1
      BY <1>3
    <3>4. Len(old) + 1 \in 1..Len(old) + 1 /\ 1..Len(old) \subseteq 1..Len(old) + 1
      BY <1>3
    <3>5. results[Len(old) + 1].worker = w
      BY <1>3
    <3> QED BY <1>3, <3>1, <3>2, <3>3, <3>4, <3>5 DEF Seen
  <2>3. Seen(cycle[g]) \subseteq Workers
    <3>1. \A i \in 1..Len(old) : old[i] \in Results
      BY <1>2
    <3> QED BY <3>1 DEF Seen, Results
  <2>4. IsFiniteSet(Seen(cycle[g])) /\ IsFiniteSet(Workers)
    BY <2>3, FS_Subset, OrchestratorAssumption
  <2>5. Cardinality(Seen(x)) = Len(results)
    BY <1>3, <2>1, <2>2, <2>4, FS_AddElement
  <2>6. Len(results) = Cardinality(Workers) => Seen(x) = Workers
    <3>1. Seen(x) \subseteq Workers
      BY <2>2, <2>3
    <3> QED BY <2>4, <2>5, <3>1, FS_Subset
  <2>7. results # <<>>
    BY <1>3
  <2>8. p = "applying" => Len(results) = Cardinality(Workers)
    OBVIOUS
  <2>9. Applied(x) \subseteq Workers
    BY DEF Applied
  <2> HIDE DEF results, p, x
  <2> QED BY <1>4, <1>5, <2>5, <2>6, <2>7, <2>8, <2>9 DEF Covered
<1> HIDE DEF x
<1> QED BY <1>1, <1>4, <1>5, <1>6 DEF Gives

LEMMA HeadAndTail ==
  ASSUME NEW S, NEW s \in Seq(S), s # <<>>
  PROVE  /\ Head(s) \in S /\ Tail(s) \in Seq(S) /\ Len(s) \in Nat \ {0} /\ Len(Tail(s)) = Len(s) - 1
         /\ Head(s) = s[1] /\ \A i \in 1..Len(s) - 1 : Tail(s)[i] = s[i + 1]
<1>1. /\ Len(s) \in Nat \ {0} /\ s \in [1..Len(s) -> S] /\ Head(s) = s[1]
      /\ Tail(s) \in Seq(S) /\ Len(Tail(s)) = Len(s) - 1
  OBVIOUS
<1>2. 1 \in 1..Len(s)
  BY <1>1
<1>3. \A i \in 1..Len(s) - 1 : Tail(s)[i] = s[i + 1]
  OBVIOUS
<1> QED BY <1>1, <1>2, <1>3

(* A result is applied. *)
LEMMA ApplyForm ==
  ASSUME CyclesTyped, NEW g \in Cycles, ApplyResult(g), Covered(cycle[g])
  PROVE  \E x \in CycleState : Gives(g, x) /\ x.pc # "gone"
<1> DEFINE old == cycle[g].results
           r == Head(old)
           rest == Tail(old)
           state == [cycle[g].state EXCEPT ![r.worker] = r.status]
           p == IF rest = <<>> THEN "saving" ELSE "applying"
           x == [cycle[g] EXCEPT !.results = rest, !.state = state, !.pc = p]
<1>1. /\ cycle[g] \in CycleState /\ cycle[g].pc = "applying"
      /\ cycle' = [cycle EXCEPT ![g] = x]
  BY DEF ApplyResult, CyclesTyped
<1>2. /\ old \in Seq(Results) /\ old # <<>>
      /\ cycle[g].state \in [Workers -> WorkerStatus \cup {""}]
      /\ Seen(cycle[g]) \cup Applied(cycle[g]) = Workers
  BY <1>1 DEF CycleState, Covered
<1>3. /\ r \in Results /\ rest \in Seq(Results) /\ Len(old) \in Nat \ {0} /\ Len(rest) = Len(old) - 1
      /\ r = old[1] /\ \A i \in 1..Len(rest) : rest[i] = old[i + 1]
  <2> HIDE DEF old
  <2> QED BY <1>2, HeadAndTail
<1>4. r.worker \in Workers /\ r.status \in WorkerStatus /\ r.status # ""
  BY <1>3 DEF Results, WorkerStatus
<1>5. state \in [Workers -> WorkerStatus \cup {""}]
  BY <1>2, <1>4
<1>6. p \in {"saving", "applying"}
  OBVIOUS
<1>7. /\ x \in CycleState /\ x.pc = p /\ x.results = rest /\ x.state = state
      /\ cycle' = [cycle EXCEPT ![g] = x]
  <2> HIDE DEF rest, state, p
  <2> QED BY <1>1, <1>3, <1>5, <1>6 DEF CycleState
<1>8. Covered(x)
  <2>1. Applied(x) = Applied(cycle[g]) \cup {r.worker}
    BY <1>2, <1>4, <1>7 DEF Applied
  <2>2. Seen(cycle[g]) \subseteq Seen(x) \cup {r.worker}
    <3> SUFFICES ASSUME NEW i \in 1..Len(old) PROVE old[i].worker \in Seen(x) \cup {r.worker}
      BY DEF Seen
    <3>1. CASE i = 1
      BY <1>3, <3>1
    <3>2. CASE i # 1
      <4>1. i - 1 \in 1..Len(rest) /\ rest[i - 1] = old[i]
        BY <1>3, <3>2
      <4> QED BY <1>7, <4>1 DEF Seen
    <3> QED BY <3>1, <3>2
  <2>3. Seen(x) \subseteq Workers /\ Applied(x) \subseteq Workers
    <3>1. \A i \in 1..Len(rest) : rest[i] \in Results
      <4> HIDE DEF rest
      <4> QED BY <1>3
    <3> HIDE DEF rest, x
    <3> QED BY <1>7, <3>1 DEF Seen, Results, Applied
  <2>4. Seen(x) \cup Applied(x) = Workers
    BY <1>2, <2>1, <2>2, <2>3
  <2>5. rest = <<>> => Seen(x) = {}
    BY <1>7 DEF Seen
  <2>6. (p = "saving" => rest = <<>>) /\ (p = "applying" => rest # <<>>)
    OBVIOUS
  <2> HIDE DEF rest, p, x
  <2> QED BY <1>6, <1>7, <2>4, <2>5, <2>6 DEF Covered
<1> HIDE DEF x
<1> QED BY <1>1, <1>6, <1>7, <1>8 DEF Gives

(* Every step of a cycle gives it a state that is typed and covered. *)
LEMMA CycleStepForm ==
  ASSUME CyclesTyped, NEW g \in Cycles, Covered(cycle[g]), CycleStep(g)
  PROVE  \E x \in CycleState : Gives(g, x)
<1>1. cycle[g] \in CycleState
  BY DEF CyclesTyped
<1>2. CASE Tick(g)
  <2> DEFINE x == [Unborn EXCEPT !.pc = "checking"]
  <2>1. x \in CycleState /\ x.pc = "checking" /\ x.results = <<>>
    BY UnbornTyped
  <2>2. cycle' = [cycle EXCEPT ![g] = x] /\ cycle[g].pc = "select"
    BY <1>2 DEF Tick
  <2> HIDE DEF x
  <2>3. Seen(x) = {} /\ Len(x.results) = 0
    BY <2>1 DEF Seen
  <2>4. Covered(x)
    BY <2>1, <2>3, FS_EmptySet DEF Covered
  <2> QED BY <2>1, <2>2, <2>4 DEF Gives
<1>3. CASE SeeCancel(g)
  <2> DEFINE x == [cycle[g] EXCEPT !.pc = "leaving"]
  <2>1. x \in CycleState /\ x.pc = "leaving"
    BY <1>1 DEF CycleState
  <2>2. cycle' = [cycle EXCEPT ![g] = x] /\ cycle[g].pc = "select"
    BY <1>3 DEF SeeCancel
  <2> HIDE DEF x
  <2> QED BY <2>1, <2>2 DEF Gives, Covered
<1>4. CASE ApplyResult(g)
  BY <1>4, ApplyForm
<1>5. CASE SaveState(g)
  <2> DEFINE x == [Unborn EXCEPT !.pc = "select"]
  <2>1. x \in CycleState /\ x.pc = "select"
    BY UnbornTyped
  <2>2. cycle' = [cycle EXCEPT ![g] = x] /\ cycle[g].pc = "saving"
    BY <1>5 DEF SaveState
  <2> HIDE DEF x
  <2> QED BY <2>1, <2>2 DEF Gives, Covered
<1>6. CASE Leave(g)
  <2> DEFINE x == [cycle[g] EXCEPT !.pc = "gone"]
  <2>1. x \in CycleState /\ x.pc = "gone"
    BY <1>1 DEF CycleState
  <2>2. cycle' = [cycle EXCEPT ![g] = x] /\ cycle[g].pc = "leaving"
    BY <1>6 DEF Leave
  <2> HIDE DEF x
  <2> QED BY <1>6, <2>1, <2>2 DEF Gives, Covered
<1>7. CASE \E w \in Workers, status \in WorkerStatus : CheckWorker(g, w, status)
  BY <1>7, CheckForm
<1> QED BY <1>2, <1>3, <1>4, <1>5, <1>6, <1>7 DEF CycleStep

(* What a step of cycle g leaves alone. *)
LEMMA CycleStepFrame ==
  ASSUME NEW g \in Cycles, CycleStep(g)
  PROVE  /\ UNCHANGED <<started, cancel, done, cancelled, caller>>
         /\ UNCHANGED <<closed, panicked>> \/ Leave(g)
         /\ redis' = redis \/ (cycle[g].pc = "saving" /\ redis' = cycle[g].state)
BY DEF CycleStep, Tick, SeeCancel, CheckWorker, ApplyResult, SaveState, Leave, lifecycle

(* Start wakes a cycle that was never used. *)
LEMMA StartForm ==
  ASSUME CyclesTyped, NEW c \in Callers, Start(c)
  PROVE  \E g \in Cycles, x \in CycleState :
           /\ cycle' = [cycle EXCEPT ![g] = x] /\ cycle[g].pc = "unborn" /\ x.pc = "select"
           /\ cancel' = g /\ done' = g
<1>1. PICK g \in Cycles : Fresh(g) /\ cancel' = g /\ done' = g
                         /\ cycle' = [cycle EXCEPT ![g].pc = "select"]
  BY DEF Start
<1> DEFINE x == [cycle[g] EXCEPT !.pc = "select"]
<1>2. cycle[g] \in CycleState
  BY DEF CyclesTyped
<1>3. x \in CycleState /\ x.pc = "select"
  BY <1>2 DEF CycleState
<1>4. cycle' = [cycle EXCEPT ![g] = x] /\ cycle[g].pc = "unborn"
  BY <1>1 DEF Fresh
<1> HIDE DEF x
<1> QED BY <1>1, <1>3, <1>4

(* Stop, traffic and the key's expiry touch no cycle. *)
LEMMA OthersFrame ==
  ASSUME \/ \E c \in Callers : Stop(c) \/ StopReturns(c)
         \/ \E w \in Workers : Traffic(w)
         \/ RedisExpires
         \/ UNCHANGED vars
  PROVE  /\ UNCHANGED <<cycle, closed, panicked, done>>
         /\ redis' = redis \/ redis' = NoState
BY DEF Stop, StopReturns, Traffic, RedisExpires, vars, lifecycle

-----------------------------------------------------------------------------
LEMMA WholeStep ==
  ASSUME WholeInv, [Next]_vars
  PROVE  WholeInv'
<1> USE DEF WholeInv
<1>1. CASE \E c \in Callers : Start(c)
  <2>1. PICK c \in Callers : Start(c)
    BY <1>1
  <2>2. PICK g \in Cycles, x \in CycleState :
          /\ cycle' = [cycle EXCEPT ![g] = x] /\ x.pc = "select" /\ cancel' = g
    BY <2>1, StartForm
  <2>3. redis' = redis
    BY <2>1 DEF Start
  <2>4. /\ cycle' \in [Cycles -> CycleState]
        /\ cycle'[g] = x /\ \A h \in Cycles \ {g} : cycle'[h] = cycle[h]
    BY <2>2, CycleUpdated
  <2>5. \A h \in Cycles : Covered(cycle'[h])
    BY <2>2, <2>4 DEF Covered
  <2> QED BY <2>2, <2>3, <2>4, <2>5 DEF CyclesTyped, StatesWhole
<1>2. CASE \E g \in Cycles : CycleStep(g)
  <2>1. PICK g \in Cycles : CycleStep(g)
    BY <1>2
  <2>2. PICK x \in CycleState : Gives(g, x)
    BY <2>1, CycleStepForm
  <2>3. /\ cycle' \in [Cycles -> CycleState]
        /\ cycle'[g] = x /\ \A h \in Cycles \ {g} : cycle'[h] = cycle[h]
    BY <2>2, CycleUpdated DEF Gives
  <2>4. \A h \in Cycles : Covered(cycle'[h])
    BY <2>2, <2>3 DEF Gives
  <2>5. cancel' = cancel /\ (redis' = redis \/ (cycle[g].pc = "saving" /\ redis' = cycle[g].state))
    BY <2>1, CycleStepFrame
  <2>6. cycle[g].pc = "saving" => cycle[g].state \in [Workers -> WorkerStatus]
    <3>1. cycle[g].state \in [Workers -> WorkerStatus \cup {""}]
      BY DEF CyclesTyped, CycleState
    <3>2. cycle[g].pc = "saving" => \A w \in Workers : cycle[g].state[w] # ""
      BY DEF Covered, Applied
    <3> QED BY <3>1, <3>2
  <2> QED BY <2>3, <2>4, <2>5, <2>6 DEF CyclesTyped, StatesWhole
<1>3. CASE \/ \E c \in Callers : Stop(c) \/ StopReturns(c)
           \/ \E w \in Workers : Traffic(w)
           \/ RedisExpires
           \/ UNCHANGED vars
  <2>1. cycle' = cycle /\ (redis' = redis \/ redis' = NoState)
    BY <1>3, OthersFrame
  <2>2. cancel' \in Cycles \cup {None}
    BY <1>3 DEF Stop, StopReturns, Traffic, RedisExpires, vars, lifecycle, CyclesTyped
  <2> QED BY <2>1, <2>2 DEF CyclesTyped, StatesWhole
<1> QED BY <1>1, <1>2, <1>3 DEF Next

LEMMA InitWhole == Init => WholeInv
<1> SUFFICES ASSUME Init PROVE WholeInv
  OBVIOUS
<1>1. CyclesTyped
  BY UnbornTyped DEF Init, CyclesTyped
<1>2. \A g \in Cycles : Covered(cycle[g])
  BY DEF Init, Covered, Unborn
<1> QED BY <1>1, <1>2 DEF Init, WholeInv, StatesWhole

(* A state reaches Redis only whole, however checks, stops and restarts    *)
(* interleave: every worker's status in it comes from the same evaluation. *)
THEOREM StatesArePublishedWhole == Spec => []StatesWhole
<1>1. Spec => []WholeInv
  BY InitWhole, WholeStep, PTL DEF Spec
<1>2. WholeInv => StatesWhole
  BY DEF WholeInv
<1> QED BY <1>1, <1>2, PTL

-----------------------------------------------------------------------------
LeakInv == WholeInv /\ NoLeakedCycle

LEMMA LeakStep ==
  ASSUME LeakInv, [Next]_vars
  PROVE  LeakInv'
<1> USE DEF LeakInv
<1>1. WholeInv' /\ CyclesTyped
  BY WholeStep DEF WholeInv
<1>2. CASE \E c \in Callers : Start(c)
  <2>1. PICK c \in Callers : Start(c)
    BY <1>2
  <2>2. PICK g \in Cycles, x \in CycleState :
          /\ cycle' = [cycle EXCEPT ![g] = x] /\ cancel' = g
    BY <1>1, <2>1, StartForm
  <2>3. cycle'[g] = x /\ \A h \in Cycles \ {g} : cycle'[h] = cycle[h]
    BY <1>1, <2>2, CycleUpdated
  <2>4. cancel = None /\ started' /\ cancelled' = cancelled
    BY <2>1 DEF Start, NoLeakedCycle
  <2>5. None \notin Cycles
    BY DEF None, Cycles
  <2>6. ASSUME NEW h \in Cycles, Alive(h)', h \notin cancelled'
        PROVE  h = cancel'
    BY <2>2, <2>3, <2>4, <2>5, <2>6 DEF NoLeakedCycle, Alive
  <2> QED BY <1>1, <2>2, <2>4, <2>5, <2>6 DEF NoLeakedCycle
<1>3. CASE \E g \in Cycles : CycleStep(g)
  <2>1. PICK g \in Cycles : CycleStep(g)
    BY <1>3
  <2>2. PICK x \in CycleState : Gives(g, x)
    BY <2>1, CycleStepForm DEF WholeInv
  <2>3. \A h \in Cycles \ {g} : cycle'[h] = cycle[h]
    BY <1>1, <2>2, CycleUpdated DEF Gives
  <2>4. UNCHANGED <<started, cancel, cancelled>>
    BY <2>1, CycleStepFrame
  <2>5. \A h \in Cycles : Alive(h)' => Alive(h)
    BY <2>2, <2>3 DEF Alive, Gives
  <2> QED BY <1>1, <2>4, <2>5 DEF NoLeakedCycle
<1>4. CASE \/ \E c \in Callers : Stop(c) \/ StopReturns(c)
           \/ \E w \in Workers : Traffic(w)
           \/ RedisExpires
           \/ UNCHANGED vars
  <2>1. cycle' = cycle
    BY <1>4, OthersFrame
  <2>2. \/ UNCHANGED <<started, cancel, cancelled>>
        \/ /\ cancelled' = cancelled \cup {cancel} /\ cancel' = None /\ started' = FALSE
    BY <1>4 DEF Stop, StopReturns, Traffic, RedisExpires, vars, lifecycle
  <2>3. \A h \in Cycles : Alive(h)' <=> Alive(h)
    BY <2>1 DEF Alive
  <2> QED BY <1>1, <2>2, <2>3 DEF NoLeakedCycle
<1> QED BY <1>2, <1>3, <1>4 DEF Next

LEMMA InitLeak == Init => LeakInv
<1> SUFFICES ASSUME Init PROVE NoLeakedCycle
  BY InitWhole DEF LeakInv
<1> QED BY DEF Init, NoLeakedCycle, Alive, Unborn, None

(* For any number of callers, and also when Stop's wait times out: the     *)
(* only cycle that may run without having been told to stop is the one the *)
(* service's cancel would stop.                                            *)
THEOREM NoCycleLeaks == Spec => []NoLeakedCycle
<1>1. Spec => []LeakInv
  BY InitLeak, LeakStep, PTL DEF Spec
<1>2. LeakInv => NoLeakedCycle
  BY DEF LeakInv
<1> QED BY <1>1, <1>2, PTL

-----------------------------------------------------------------------------
(* One caller whose Stop waits until the cycle has gone: what makes the    *)
(* channels of the cycles their own.                                       *)
OneCaller(c) == Callers = {c} /\ ~StopTimesOut

OnlyLatest(c) ==
  /\ caller = [d \in Callers |-> caller[c]] /\ caller[c] \in {None, done}
  /\ done \in Cycles \cup {None}
  /\ \A g \in Cycles : Alive(g) => g = done
  /\ caller[c] # None => cancel = None
  /\ cancel # None => cancel = done /\ cycle[cancel].pc # "unborn"
  /\ \A g \in cancelled : g \in Cycles /\ cycle[g].pc # "unborn"
  /\ \A g \in closed : g \in Cycles /\ cycle[g].pc = "gone"
  /\ ~panicked
  /\ \A g \in cancelled : Alive(g) => caller[c] = g

LatestInv(c) == LeakInv /\ OnlyLatest(c)

LEMMA LatestStep ==
  ASSUME NEW c \in Callers, OneCaller(c), LatestInv(c), [Next]_vars
  PROVE  LatestInv(c)'
<1> USE DEF LatestInv
<1>1. LeakInv' /\ WholeInv /\ CyclesTyped /\ None \notin Cycles
  BY LeakStep DEF LeakInv, WholeInv, None, Cycles
<1>2. CASE Start(c)
  <2>1. PICK g \in Cycles, x \in CycleState :
          /\ cycle' = [cycle EXCEPT ![g] = x] /\ cycle[g].pc = "unborn" /\ x.pc = "select"
          /\ cancel' = g /\ done' = g
    BY <1>1, <1>2, StartForm
  <2>2. cycle'[g] = x /\ \A h \in Cycles \ {g} : cycle'[h] = cycle[h]
    BY <1>1, <2>1, CycleUpdated
  <2>3. UNCHANGED <<cancelled, closed, panicked, caller>> /\ caller[c] = None /\ cancel = None
    BY <1>2 DEF Start, LeakInv, NoLeakedCycle
  <2>4. \A h \in Cycles : ~Alive(h)
    BY <1>1, <2>3 DEF LeakInv, NoLeakedCycle, OnlyLatest
  <2>5. g \notin cancelled /\ g \notin closed
    BY <2>1 DEF OnlyLatest
  <2>6. \A h \in Cycles : Alive(h)' => h = g
    BY <2>2, <2>4 DEF Alive
  <2> QED BY <1>1, <2>1, <2>2, <2>3, <2>5, <2>6 DEF OnlyLatest
<1>3. CASE \E g \in Cycles : CycleStep(g)
  <2>1. PICK g \in Cycles : CycleStep(g)
    BY <1>3
  <2>2. PICK x \in CycleState : Gives(g, x)
    BY <1>1, <2>1, CycleStepForm DEF WholeInv
  <2>3. cycle'[g] = x /\ \A h \in Cycles \ {g} : cycle'[h] = cycle[h]
    BY <1>1, <2>2, CycleUpdated DEF Gives
  <2>4. UNCHANGED <<started, cancel, done, cancelled, caller>>
    BY <2>1, CycleStepFrame
  <2>5. \A h \in Cycles : Alive(h)' => Alive(h)
    BY <2>2, <2>3 DEF Alive, Gives
  <2>6. \A h \in Cycles : cycle[h].pc # "unborn" => cycle'[h].pc # "unborn"
    BY <2>2, <2>3 DEF Gives
  <2>7. g \notin closed /\ g = done
    BY <2>2 DEF Gives, OnlyLatest, Alive
  <2>8. \A h \in closed : cycle'[h].pc = "gone"
    BY <2>3, <2>7 DEF OnlyLatest
  <2>9. /\ ~panicked' /\ \A h \in closed' : h \in Cycles /\ cycle'[h].pc = "gone"
    <3>1. CASE UNCHANGED <<closed, panicked>>
      BY <2>8, <3>1 DEF OnlyLatest
    <3>2. CASE Leave(g)
      <4>1. cycle'[g].pc = "gone"
        BY <1>1, <3>2 DEF Leave, CyclesTyped, CycleState
      <4>2. closed' = closed \cup {g} /\ panicked' = (panicked \/ g \in closed)
        BY <1>1, <2>7, <3>2 DEF Leave
      <4> QED BY <2>7, <2>8, <4>1, <4>2 DEF OnlyLatest
    <3> QED BY <2>1, <3>1, <3>2, CycleStepFrame
  <2> QED BY <1>1, <2>4, <2>5, <2>6, <2>9 DEF OnlyLatest
<1>4. CASE Stop(c)
  <2>1. UNCHANGED <<cycle, closed, panicked, done>>
    BY <1>4 DEF Stop
  <2>2. /\ cancel = done /\ cancel \in Cycles /\ cancel' = None /\ caller[c] = None
        /\ cancelled' = cancelled \cup {cancel} /\ caller' = [caller EXCEPT ![c] = done]
    BY <1>1, <1>4 DEF Stop, OnlyLatest, CyclesTyped
  <2>3. caller' = [d \in Callers |-> done]
    BY <2>2 DEF OnlyLatest, OneCaller
  <2>4. \A h \in Cycles : Alive(h)' <=> Alive(h)
    BY <2>1 DEF Alive
  <2> QED BY <1>1, <2>1, <2>2, <2>3, <2>4 DEF OnlyLatest
<1>5. CASE StopReturns(c)
  <2>1. UNCHANGED <<cycle, closed, panicked, done, cancel, cancelled>>
    BY <1>5 DEF StopReturns
  <2>2. caller[c] \in closed /\ caller' = [caller EXCEPT ![c] = None]
    BY <1>5 DEF StopReturns, OneCaller
  <2>3. caller' = [d \in Callers |-> None]
    BY <2>2 DEF OnlyLatest, OneCaller
  <2>4. \A h \in Cycles : Alive(h)' <=> Alive(h)
    BY <2>1 DEF Alive
  <2> QED BY <1>1, <2>1, <2>2, <2>3, <2>4 DEF OnlyLatest, Alive
<1>6. CASE (\E w \in Workers : Traffic(w)) \/ RedisExpires \/ UNCHANGED vars
  <2>1. UNCHANGED <<started, cancel, done, cancelled, closed, panicked, caller, cycle>>
    BY <1>6 DEF Traffic, RedisExpires, vars, lifecycle
  <2> QED BY <1>1, <2>1 DEF OnlyLatest, Alive
<1>7. Callers = {c}
  BY DEF OneCaller
<1> QED BY <1>2, <1>3, <1>4, <1>5, <1>6, <1>7 DEF Next

LEMMA LatestAlways ==
  ASSUME NEW c \in Callers, OneCaller(c)
  PROVE  Spec => []LatestInv(c)
<1>1. Init => LatestInv(c)
  <2> SUFFICES ASSUME Init PROVE OnlyLatest(c)
    BY InitLeak DEF LatestInv
  <2> QED BY DEF Init, OnlyLatest, Alive, Unborn, None
<1>2. LatestInv(c) /\ [Next]_vars => LatestInv(c)'
  BY LatestStep
<1> QED BY <1>1, <1>2, PTL DEF Spec

(* With one caller that waits, the deferred close of a cycle finds its own *)
(* channel in the service, and closes it once.                             *)
THEOREM ChannelsAreTheirOwn ==
  ASSUME NEW c \in Callers, OneCaller(c)
  PROVE  Spec => []ClosesOwnChannel
<1>1. LatestInv(c) => ClosesOwnChannel
  BY DEF LatestInv, OnlyLatest, ClosesOwnChannel
<1> QED BY <1>1, LatestAlways, PTL

(* ... and after Stop has returned the stopped cycle is gone: it charges   *)
(* no breaker and publishes nothing more.                                  *)
THEOREM StoppedIsSilent ==
  ASSUME NEW c \in Callers, OneCaller(c)
  PROVE  Spec => []QuietAfterStop
<1>1. LatestInv(c) => QuietAfterStop
  BY DEF LatestInv, OnlyLatest, QuietAfterStop
<1> QED BY <1>1, LatestAlways, PTL

-----------------------------------------------------------------------------
(* A cycle is gone only with its channel closed, and the one Stop waits    *)
(* for has been told to leave.                                             *)
Answering(c) == /\ caller[c] # None => caller[c] \in cancelled
                /\ \A g \in Cycles : cycle[g].pc = "gone" => g \in closed

LEMMA AnsweringStep ==
  ASSUME NEW c \in Callers, OneCaller(c), LatestInv(c), Answering(c), [Next]_vars
  PROVE  Answering(c)'
<1>0. CyclesTyped /\ WholeInv /\ OnlyLatest(c) /\ None \notin Cycles
  BY DEF LatestInv, LeakInv, WholeInv, None, Cycles
<1>1. CASE Start(c)
  <2>1. PICK g \in Cycles, x \in CycleState : cycle' = [cycle EXCEPT ![g] = x] /\ x.pc = "select"
    BY <1>0, <1>1, StartForm
  <2>2. cycle'[g] = x /\ \A h \in Cycles \ {g} : cycle'[h] = cycle[h]
    BY <1>0, <2>1, CycleUpdated
  <2>3. UNCHANGED <<cancelled, closed, caller>>
    BY <1>1 DEF Start
  <2> QED BY <2>1, <2>2, <2>3 DEF Answering
<1>2. CASE \E g \in Cycles : CycleStep(g)
  <2>1. PICK g \in Cycles : CycleStep(g)
    BY <1>2
  <2>2. PICK x \in CycleState : Gives(g, x)
    BY <1>0, <2>1, CycleStepForm DEF WholeInv
  <2>3. cycle'[g] = x /\ \A h \in Cycles \ {g} : cycle'[h] = cycle[h]
    BY <1>0, <2>2, CycleUpdated DEF Gives
  <2>4. UNCHANGED <<cancelled, caller>>
    BY <2>1, CycleStepFrame
  <2>5. g = done
    BY <1>0, <2>2 DEF Gives, OnlyLatest, Alive
  <2>6. closed \subseteq closed'
    BY <2>1, CycleStepFrame DEF Leave
  <2>7. x.pc = "gone" => g \in closed'
    BY <1>0, <2>2, <2>5 DEF Gives, Leave
  <2> QED BY <2>3, <2>4, <2>6, <2>7 DEF Answering
<1>3. CASE Stop(c)
  <2>1. /\ cancel = done /\ cancelled' = cancelled \cup {cancel}
        /\ caller' = [caller EXCEPT ![c] = done] /\ UNCHANGED <<closed, cycle>>
    BY <1>0, <1>3 DEF Stop, OnlyLatest
  <2>2. caller'[c] = done
    BY <1>0, <2>1 DEF OnlyLatest
  <2> QED BY <2>1, <2>2 DEF Answering
<1>4. CASE StopReturns(c)
  <2>1. caller' = [caller EXCEPT ![c] = None] /\ UNCHANGED <<closed, cycle, cancelled>>
    BY <1>4 DEF StopReturns
  <2>2. caller'[c] = None
    BY <1>0, <2>1 DEF OnlyLatest
  <2> QED BY <2>1, <2>2 DEF Answering
<1>5. CASE (\E w \in Workers : Traffic(w)) \/ RedisExpires \/ UNCHANGED vars
  <2>1. UNCHANGED <<cancelled, closed, caller, cycle>>
    BY <1>5 DEF Traffic, RedisExpires, vars, lifecycle
  <2> QED BY <2>1 DEF Answering
<1>6. Callers = {c}
  BY DEF OneCaller
<1> QED BY <1>1, <1>2, <1>3, <1>4, <1>5, <1>6 DEF Next

(* The safety half of StopTerminates: the channel Stop waits for is closed *)
(* already, or its cycle is alive, knows that it is to leave and is the    *)
(* one whose deferred close will close this channel.  No Stop waits for a  *)
(* channel that nobody will close.                                         *)
THEOREM StopsAreAnswered ==
  ASSUME NEW c \in Callers, OneCaller(c)
  PROVE  Spec => [](caller[c] # None => /\ caller[c] \in cancelled /\ caller[c] = done
                                        /\ caller[c] \in closed \/ Alive(caller[c]))
<1>1. Init => Answering(c)
  <2> SUFFICES ASSUME Init PROVE Answering(c)
    OBVIOUS
  <2> QED BY DEF Init, Answering, Unborn
<1>2. LatestInv(c) /\ Answering(c) /\ [Next]_vars => Answering(c)'
  BY AnsweringStep
<1>3. LatestInv(c) /\ Answering(c) =>
        (caller[c] # None => /\ caller[c] \in cancelled /\ caller[c] = done
                             /\ caller[c] \in closed \/ Alive(caller[c]))
  BY DEF LatestInv, OnlyLatest, Answering, Alive
<1> QED BY <1>1, <1>2, <1>3, LatestAlways, PTL DEF Spec
=============================================================================
