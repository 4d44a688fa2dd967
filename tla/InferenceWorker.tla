-------------------------- MODULE InferenceWorker --------------------------
(***************************************************************************)
(* One AI worker container (workers/vision, workers/ocr, workers/speech):  *)
(* the main process with its HTTP probes (main.py), the subprocess that    *)
(* loads the model and serves gRPC from a thread pool (grpc_server.py),    *)
(* and the semaphore around the model (models/*.py).  The three workers    *)
(* differ in the model and in the number of permits.                       *)
(*                                                                         *)
(* Health checks are gRPC calls and use the same thread pool.  Docker,     *)
(* which restarts a container that exits, and the grpc library, whose pool *)
(* takes calls in order of arrival, are external.                          *)
(***************************************************************************)
EXTENDS Naturals, Sequences, FiniteSets

CONSTANTS Calls,     \* slots for calls in progress
          PoolSize,  \* GRPC_MAX_WORKERS
          Permits    \* of the semaphore: 1 for OCR, MAX_CONCURRENT_INFERENCES otherwise

ASSUME WorkerAssumption ==
  PoolSize \in Nat \ {0} /\ Permits \in Nat \ {0} /\ IsFiniteSet(Calls)

VARIABLES main,     \* the main process: "up", "stopping", "down"
          proc,     \* its subprocess: "loading", "serving", "draining", "dead"
          ready,    \* _model_ready
          call,     \* the state of each call
          queue,    \* calls waiting for a thread, in order of arrival
          permits   \* permits left

process == <<main, proc, ready>>
vars == <<main, proc, ready, call, queue, permits>>

Answers == {"OK", "DeadlineExceeded", "InvalidArgument", "ResourceExhausted", "Internal",
            "Unavailable"}

Call == [pc : {"none", "queued", "health", "waiting", "inferring", "inferred"},
         kind : {"infer", "health"}, late : BOOLEAN, answer : Answers \cup {"none", "healthy"}]
NoCall == [pc |-> "none", kind |-> "infer", late |-> FALSE, answer |-> "none"]

TypeOK ==
  /\ main \in {"up", "stopping", "down"}
  /\ proc \in {"loading", "serving", "draining", "dead"}
  /\ ready \in BOOLEAN
  /\ call \in [Calls -> Call]
  /\ queue \in Seq(Calls) /\ \A i \in 1..Len(queue) : call[queue[i]].pc = "queued"
  /\ permits \in 0..Permits

Init == /\ main = "up" /\ proc = "loading" /\ ready = FALSE
        /\ call = [c \in Calls |-> NoCall]
        /\ queue = <<>>
        /\ permits = Permits

-----------------------------------------------------------------------------
(* Mutation: the event is set before the load, which may still fail.       *)
AnnounceThenLoad == /\ proc = "loading"
                    /\ \/ ~ready /\ ready' = TRUE /\ UNCHANGED proc
                       \/ ready /\ proc' \in {"serving", "dead"} /\ UNCHANGED ready
                    /\ UNCHANGED <<main, call, queue, permits>>

(* start_grpc_server: a model that is loaded is served, ...                *)
LoadModel == /\ proc = "loading"
             /\ proc' \in {"serving", "dead"}
             /\ UNCHANGED <<main, ready, call, queue, permits>>

(* ... and announced after that (model_ready_event.set); a SIGTERM may     *)
(* come between the two, and the event is set while the server drains.     *)
AnnounceReady == /\ proc \in {"serving", "draining"}
                 /\ ~ready
                 /\ ready' = TRUE
                 /\ UNCHANGED <<main, proc, call, queue, permits>>

Arrive(c, kind) == /\ proc = "serving"
                   /\ call[c].pc = "none"
                   /\ call' = [call EXCEPT ![c] = [NoCall EXCEPT !.pc = "queued", !.kind = kind]]
                   /\ queue' = Append(queue, c)
                   /\ UNCHANGED <<process, permits>>

(* The caller's deadline passes; a thread that serves the call goes on.    *)
DeadlinePasses(c) == /\ call[c].pc # "none"
                     /\ ~call[c].late
                     /\ call' = [call EXCEPT ![c].late = TRUE]
                     /\ UNCHANGED <<process, queue, permits>>

Alive == proc \in {"serving", "draining"}
Busy == {c \in Calls : call[c].pc \notin {"none", "queued"}}
Inferring == {c \in Calls : call[c].pc = "inferring"}

Return(c, answer) == call' = [call EXCEPT ![c] = [NoCall EXCEPT !.answer = answer]]

(* A free thread takes the oldest call.  A late call is answered at once,  *)
(* so is one whose input is refused before the semaphore.                  *)
StartCall ==
  /\ Alive
  /\ queue # <<>>
  /\ Cardinality(Busy) < PoolSize
  /\ LET c == Head(queue)
     IN CASE call[c].kind = "health" -> call' = [call EXCEPT ![c].pc = "health"]
          [] call[c].kind = "infer" /\ call[c].late -> Return(c, "DeadlineExceeded")
          [] OTHER -> \/ call' = [call EXCEPT ![c].pc = "waiting"]
                      \/ Return(c, "InvalidArgument")
  /\ queue' = Tail(queue)
  /\ UNCHANGED <<process, permits>>

HealthCheck(c) == /\ call[c].pc = "health"
                  /\ Return(c, "healthy")
                  /\ UNCHANGED <<process, queue, permits>>

(* Mutations: the wait has no timeout; the permit is given back only when  *)
(* the inference succeeds.                                                 *)
NeverTimesOut(c) == FALSE /\ UNCHANGED vars

ReleaseOnSuccess(c) == /\ call[c].pc = "inferring"
                       /\ permits' \in {permits, permits + 1}
                       /\ call' = [call EXCEPT ![c].pc = "inferred"]
                       /\ UNCHANGED <<process, queue>>

(* The deadline is not looked at again when the semaphore is acquired.     *)
Acquire(c) == /\ call[c].pc = "waiting"
              /\ permits > 0
              /\ permits' = permits - 1
              /\ call' = [call EXCEPT ![c].pc = "inferring"]
              /\ UNCHANGED <<process, queue>>

AcquireTimesOut(c) == /\ call[c].pc = "waiting"
                      /\ Return(c, "ResourceExhausted")
                      /\ UNCHANGED <<process, queue, permits>>

(* The finally block: however the inference ends the permit is given back. *)
InferenceEnds(c) == /\ call[c].pc = "inferring"
                    /\ permits' = permits + 1
                    /\ call' = [call EXCEPT ![c].pc = "inferred"]
                    /\ UNCHANGED <<process, queue>>

(* The servicer answers: a result that came too late is thrown away, and   *)
(* an exception becomes a status code by its class.                        *)
AnswerCall(c) ==
  /\ call[c].pc = "inferred"
  /\ \/ Return(c, IF call[c].late THEN "DeadlineExceeded" ELSE "OK")
     \/ \E code \in {"InvalidArgument", "ResourceExhausted", "Internal"} : Return(c, code)
  /\ UNCHANGED <<process, queue, permits>>

-----------------------------------------------------------------------------
(* The subprocess is gone, and with it its calls and its semaphore.        *)
LoseCalls == /\ call' = [c \in Calls |-> IF call[c].pc = "none" THEN call[c]
                                         ELSE [NoCall EXCEPT !.answer = "Unavailable"]]
             /\ queue' = <<>>
             /\ permits' = Permits

(* The subprocess is killed for its memory, or crashes. *)
Crash == /\ proc # "dead"
         /\ proc' = "dead"
         /\ LoseCalls
         /\ UNCHANGED <<main, ready>>

(* Mutation: the monitor exits only when the model had been ready.         *)
MonitorOnlyReady == /\ main = "up"
                    /\ proc = "dead" /\ ready
                    /\ main' = "down"
                    /\ UNCHANGED <<proc, ready, call, queue, permits>>

(* _monitor_grpc_process: the container exits with its subprocess. *)
MonitorExits == /\ main = "up"
                /\ proc = "dead"
                /\ main' = "down"
                /\ UNCHANGED <<proc, ready, call, queue, permits>>

(* docker stop: lifespan ends and passes SIGTERM on.  The handler, which   *)
(* drains, is installed only once the model is loaded.                     *)
Shutdown == /\ main = "up"
            /\ main' = "stopping"
            /\ proc' = CASE proc = "serving" -> "draining"
                         [] proc = "loading" -> "dead"
                         [] OTHER -> proc
            /\ UNCHANGED <<ready, call, queue, permits>>

(* The grace period of 30 seconds ends, or join gives up after 35 seconds  *)
(* and kills: calls that are still running are lost.                       *)
DrainEnds == /\ proc = "draining"
             /\ proc' = "dead"
             /\ LoseCalls
             /\ UNCHANGED <<main, ready>>

ShutdownEnds == /\ main = "stopping"
                /\ proc = "dead"
                /\ main' = "down"
                /\ UNCHANGED <<proc, ready, call, queue, permits>>

(* Docker starts the container again. *)
ContainerStarts == /\ main = "down"
                   /\ main' = "up" /\ proc' = "loading" /\ ready' = FALSE
                   /\ UNCHANGED <<call, queue, permits>>

CallStep(c) == \/ HealthCheck(c) \/ Acquire(c) \/ AcquireTimesOut(c) \/ AnswerCall(c)

Lifecycle == \/ LoadModel \/ AnnounceReady \/ MonitorExits \/ DrainEnds \/ ShutdownEnds

Next == \/ \E c \in Calls : \/ \E kind \in {"infer", "health"} : Arrive(c, kind)
                            \/ DeadlinePasses(c) \/ CallStep(c) \/ InferenceEnds(c)
        \/ StartCall \/ Lifecycle \/ Crash \/ Shutdown \/ ContainerStarts

Spec == Init /\ [][Next]_vars

(***************************************************************************)
(* Fairness: threads are scheduled, waiting for the semaphore times out,   *)
(* the main process's monitor and timers run.  No inference need ever end: *)
(* the engine may hang ("kemungkinan ada proses yang macet").              *)
(***************************************************************************)
FairSpec == /\ Spec
            /\ WF_vars(StartCall)
            /\ \A c \in Calls : WF_vars(CallStep(c))
            /\ WF_vars(Lifecycle)

-----------------------------------------------------------------------------
(* The semaphore is never leaked and never over-released, on any path an   *)
(* inference takes, late calls and crashes included; so at most Permits    *)
(* decoded inputs are in memory at a time (ocr_model.py:94-97).            *)
PermitsConserved == permits + Cardinality(Inferring) = Permits

(* /ready is honest: while the main process is up and its subprocess       *)
(* alive, _model_ready means that calls are being served: not before the   *)
(* model is loaded, and not for a new subprocess because of an old one.    *)
ReadyMeansServing == main = "up" /\ ready /\ proc # "dead" => proc = "serving"

(* Liveness: while fewer inferences can hang than the pool has threads,    *)
(* every health check is answered or lost with its process, whatever hangs *)
(* and however many calls queue up for the semaphore.                      *)
HealthOutlivesHang ==
  \A c \in Calls : call[c].pc # "none" /\ call[c].kind = "health" ~> call[c].pc = "none"

(* Liveness: the container never lives on without its subprocess.          *)
DeadIsNoticed == main # "down" /\ proc = "dead" ~> main = "down"
=============================================================================
