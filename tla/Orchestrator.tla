---------------------------- MODULE Orchestrator ----------------------------
(***************************************************************************)
(* OrchestratorService (backend/services/orchestrator.go): the background  *)
(* health-check cycle, its start and stop, the breakers it charges and the *)
(* system state it publishes in Redis.                                     *)
(*                                                                         *)
(* Each Start makes one cycle goroutine with its own context and one done  *)
(* channel; the service keeps only the latest of both.  A cycle and the    *)
(* channel made for it have the same name.  Redis is external: a Set may   *)
(* fail, and the key expires 5 minutes after the last Set.                 *)
(***************************************************************************)
EXTENDS BreakerRules, Sequences, FiniteSets

CONSTANTS Workers,
          MaxCycles,      \* bound: how often Start creates a cycle
          Callers,        \* goroutines that call Start and Stop
          StopTimesOut    \* whether Stop's 10 second wait may run out

Cycles == 1..MaxCycles
None == 0

ASSUME OrchestratorAssumption ==
  MaxCycles \in Nat /\ StopTimesOut \in BOOLEAN /\ IsFiniteSet(Workers)

VARIABLES started, cancel, done,  \* fields of the service, guarded by startMu
          cancelled,   \* cycles whose context has been cancelled
          closed,      \* done channels that have been closed
          panicked,    \* a closed channel has been closed again
          cycle,       \* the goroutine of each cycle
          caller,      \* the channel each caller of Stop waits for, or None
          cbs,         \* one breaker per worker
          redis        \* the published system state, or NoState

lifecycle == <<started, cancel, done, cancelled, closed, panicked, caller>>
vars == <<started, cancel, done, cancelled, closed, panicked, cycle, caller, cbs, redis>>

Results == [worker : Workers, status : WorkerStatus]
Blank == [w \in Workers |-> ""]       \* SystemState{}: statuses not set
NoState == Blank

(* results: checks that have come back, in order of arrival; state: the    *)
(* statuses applied so far.                                                *)
CycleState == [pc : {"unborn", "select", "checking", "applying", "saving", "leaving", "gone"},
               results : Seq(Results), state : [Workers -> WorkerStatus \cup {""}]]
Unborn == [pc |-> "unborn", results |-> <<>>, state |-> Blank]

TypeOK ==
  /\ started \in BOOLEAN /\ panicked \in BOOLEAN
  /\ cancel \in Cycles \cup {None} /\ done \in Cycles \cup {None}
  /\ cancelled \subseteq Cycles /\ closed \subseteq Cycles
  /\ cycle \in [Cycles -> CycleState]
  /\ caller \in [Callers -> Cycles \cup {None}]
  /\ cbs \in [Workers -> CircuitBreaker]
  /\ redis \in [Workers -> WorkerStatus \cup {""}]

Init == /\ started = FALSE /\ cancel = None /\ done = None
        /\ cancelled = {} /\ closed = {} /\ panicked = FALSE
        /\ cycle = [g \in Cycles |-> Unborn]
        /\ caller = [c \in Callers |-> None]
        /\ cbs = [w \in Workers |-> NewCircuitBreaker]
        /\ redis = NoState

-----------------------------------------------------------------------------
Fresh(g) == cycle[g].pc = "unborn" /\ \A h \in Cycles : h < g => cycle[h].pc # "unborn"

(* Mutation: Start does not look whether it has been called.               *)
StartAgain(c) == /\ caller[c] = None
                 /\ \E g \in Cycles :
                      /\ Fresh(g)
                      /\ cancel' = g /\ done' = g
                      /\ cycle' = [cycle EXCEPT ![g].pc = "select"]
                 /\ started' = TRUE
                 /\ UNCHANGED <<cancelled, closed, panicked, caller, cbs, redis>>

(* A second Start does nothing. *)
Start(c) == /\ caller[c] = None
            /\ ~started
            /\ \E g \in Cycles :
                 /\ Fresh(g)
                 /\ cancel' = g /\ done' = g
                 /\ cycle' = [cycle EXCEPT ![g].pc = "select"]
            /\ started' = TRUE
            /\ UNCHANGED <<cancelled, closed, panicked, caller, cbs, redis>>

(* Mutation: Stop cancels and does not wait.                               *)
StopUnwaited(c) == /\ caller[c] = None
                   /\ cancel # None
                   /\ cancelled' = cancelled \cup {cancel}
                   /\ cancel' = None
                   /\ started' = FALSE
                   /\ UNCHANGED <<done, closed, panicked, caller, cycle, cbs, redis>>

(* Stop cancels the cycle, releases startMu and waits for done. *)
Stop(c) == /\ caller[c] = None
           /\ cancel # None
           /\ cancelled' = cancelled \cup {cancel}
           /\ cancel' = None
           /\ started' = FALSE
           /\ caller' = [caller EXCEPT ![c] = done]
           /\ UNCHANGED <<done, closed, panicked, cycle, cbs, redis>>

StopReturns(c) == /\ caller[c] # None
                  /\ StopTimesOut \/ caller[c] \in closed
                  /\ caller' = [caller EXCEPT ![c] = None]
                  /\ UNCHANGED <<started, cancel, done, cancelled, closed, panicked, cycle, cbs, redis>>

-----------------------------------------------------------------------------
(* The select of HealthCheckCycle.  When both the ticker and the context   *)
(* are ready Go picks either, so a cancelled cycle may run once more.      *)
Tick(g) == /\ cycle[g].pc = "select"
           /\ cycle' = [cycle EXCEPT ![g] = [Unborn EXCEPT !.pc = "checking"]]
           /\ UNCHANGED <<lifecycle, cbs, redis>>

SeeCancel(g) == /\ cycle[g].pc = "select"
                /\ g \in cancelled
                /\ cycle' = [cycle EXCEPT ![g].pc = "leaving"]
                /\ UNCHANGED <<lifecycle, cbs, redis>>

(* One of the concurrent checks comes back; an error, a timeout of 5       *)
(* seconds, a cancelled context and an unknown status all read UNHEALTHY.  *)
(* The last one to come back ends wg.Wait.                                 *)
CheckWorker(g, w, status) ==
  /\ cycle[g].pc = "checking"
  /\ \A i \in 1..Len(cycle[g].results) : cycle[g].results[i].worker # w
  /\ LET results == Append(cycle[g].results, [worker |-> w, status |-> status])
     IN cycle' = [cycle EXCEPT ![g] =
                    [@ EXCEPT !.results = results,
                              !.pc = IF Len(results) = Cardinality(Workers)
                                       THEN "applying" ELSE "checking"]]
  /\ UNCHANGED <<lifecycle, cbs, redis>>

(* One result, in order of arrival, reaches the state and the breaker. *)
ApplyResult(g) ==
  /\ cycle[g].pc = "applying"
  /\ LET r == Head(cycle[g].results)
         rest == Tail(cycle[g].results)
     IN /\ cycle' = [cycle EXCEPT ![g] =
                       [@ EXCEPT !.results = rest, !.state[r.worker] = r.status,
                                 !.pc = IF rest = <<>> THEN "saving" ELSE "applying"]]
        /\ cbs' = [cbs EXCEPT ![r.worker] = UpdateCircuitBreaker(@, r.status)]
  /\ UNCHANGED <<lifecycle, redis>>

(* A failed save is logged and forgotten; with a cancelled context it fails. *)
SaveState(g) ==
  /\ cycle[g].pc = "saving"
  /\ redis' \in IF g \in cancelled THEN {redis} ELSE {redis, cycle[g].state}
  /\ cycle' = [cycle EXCEPT ![g] = [Unborn EXCEPT !.pc = "select"]]
  /\ UNCHANGED <<lifecycle, cbs>>

(* Mutation: the channel is not closed.                                    *)
LeaveOpen(g) == /\ cycle[g].pc = "leaving"
                /\ cycle' = [cycle EXCEPT ![g].pc = "gone"]
                /\ UNCHANGED <<lifecycle, cbs, redis>>

(* The deferred close: it closes whatever channel the service holds now. *)
Leave(g) ==
  /\ cycle[g].pc = "leaving"
  /\ cycle' = [cycle EXCEPT ![g].pc = "gone"]
  /\ closed' = closed \cup ({done} \ {None})
  /\ panicked' = (panicked \/ done \in closed)
  /\ UNCHANGED <<started, cancel, done, cancelled, caller, cbs, redis>>

-----------------------------------------------------------------------------
(* Requests use the breakers meanwhile, and the clock runs. *)
Traffic(w) == /\ \/ Allows(cbs[w]) /\ cbs' = [cbs EXCEPT ![w] = Allow(@)]
                 \/ cbs' = [cbs EXCEPT ![w] = RecordSuccess(@)]
                 \/ cbs' = [cbs EXCEPT ![w] = RecordFailure(@)]
                 \/ cbs' = [cbs EXCEPT ![w] = ResetElapses(@)]
              /\ UNCHANGED <<lifecycle, cycle, redis>>

RedisExpires == /\ redis # NoState
                /\ redis' = NoState
                /\ UNCHANGED <<lifecycle, cycle, cbs>>

CycleStep(g) == \/ Tick(g) \/ SeeCancel(g) \/ ApplyResult(g) \/ SaveState(g) \/ Leave(g)
                \/ \E w \in Workers, status \in WorkerStatus : CheckWorker(g, w, status)

Next == \/ \E c \in Callers : Start(c) \/ Stop(c) \/ StopReturns(c)
        \/ \E g \in Cycles : CycleStep(g)
        \/ \E w \in Workers : Traffic(w)
        \/ RedisExpires

Spec == Init /\ [][Next]_vars

(***************************************************************************)
(* Fairness: a cycle goroutine is scheduled, and every check ends within   *)
(* its timeout; a select whose context stays cancelled does not take the   *)
(* ticker for ever; a caller whose channel is closed returns.              *)
(***************************************************************************)
Fairness == /\ \A g \in Cycles : WF_vars(CycleStep(g)) /\ SF_vars(SeeCancel(g))
            /\ \A c \in Callers : WF_vars(StopReturns(c))

FairSpec == Spec /\ Fairness

-----------------------------------------------------------------------------
Alive(g) == cycle[g].pc \notin {"unborn", "gone"}

(* Start and Stop leak no cycle: one that has not been told to stop is the *)
(* one the service would cancel, so at most one publishes states.          *)
NoLeakedCycle ==
  /\ started <=> cancel # None
  /\ \A g \in Cycles : Alive(g) /\ g \notin cancelled => g = cancel

(* A published state is the outcome of a whole evaluation: no worker's     *)
(* check is missing from it.                                               *)
StatesWhole == redis = NoState \/ redis \in [Workers -> WorkerStatus]

(* A cycle that leaves closes its own channel, once: the channel of a      *)
(* running cycle is open and no channel is closed twice.                   *)
ClosesOwnChannel ==
  /\ ~panicked
  /\ \A g \in Cycles : g \in closed => cycle[g].pc = "gone"

(* Once Stop has returned the stopped cycle neither charges a breaker nor  *)
(* publishes a state.                                                      *)
QuietAfterStop ==
  \A g \in cancelled : Alive(g) => \E c \in Callers : caller[c] = g

(* Liveness: Stop's wait ends because the cycle leaves, not because its 10  *)
(* seconds run out.                                                        *)
StopTerminates == \A c \in Callers : caller[c] # None ~> caller[c] = None
=============================================================================
