---------------------------- MODULE WorkerClient ----------------------------
(***************************************************************************)
(* InferenceWorkerClient: the kiosk's side of the two pipes to the worker.  *)
(* It starts the process, waits for its ready event, correlates requests    *)
(* with events, and ends the process.  A continuation that runs as soon as  *)
(* its future completes is part of the action that completes the future;    *)
(* one that waits for the process, a timer or a line is an action.          *)
(***************************************************************************)
EXTENDS CameraWorker, FiniteSets

\* a client without a cause is not one that found fault with a line
ASSUME NothingIsNoCause == Nothing # "protocol"

VARIABLES cl,        \* the client's fields and its suspended functions
          outcome,   \* what the caller of each analyze was told
          progress   \* _progress: the last phase of each pending request

clientVars == <<cl, outcome, progress>>
vars == <<workerVars, clientVars>>

Statuses == {"notStarted", "starting", "loading", "warming", "ready",
             "stopped", "fatal"}

\* start: the future of start().  owner: _startOwnershipCompleter.
\* cancel: _terminateCancelledStart.  sd: where _performShutdown stands.
\* ready: the startup metrics of the ready event.  cause: of the fatal event.
NewClient ==
  [status |-> "notStarted", shutting |-> FALSE, start |-> "none",
   owner |-> "none", owned |-> FALSE, listening |-> FALSE, cancel |-> "no",
   sd |-> "idle", seq |-> 0, stopId |-> Nothing, exitSeen |-> FALSE,
   ready |-> Nothing, cause |-> Nothing]

Init ==
  /\ WorkerInit /\ cl = NewClient
  /\ outcome = [i \in Ids |-> "unused"]
  /\ progress = [i \in Ids |-> Nothing]

Up == kiosk = "up"
Pending == {i \in Ids : outcome[i] = "pending"}

\* _completePending with an error
FailPending ==
  /\ outcome' = [i \in Ids |-> IF outcome[i] = "pending" THEN "failed"
                                                        ELSE outcome[i]]
  /\ progress' = [i \in Ids |-> Nothing]

\* _markFatal of a client that is neither fatal nor stopped
Fatally(c, cause) ==
  [c EXCEPT !.status = "fatal", !.cause = cause,
            !.start = IF @ = "pending" THEN "failed" ELSE @]

\* mutation: the requests that are waiting are forgotten
FatalForgetsPending(c, cause) ==
  cl' = Fatally(c, cause) /\ UNCHANGED <<outcome, progress>>

MarkFatal(c, cause) == cl' = Fatally(c, cause) /\ FailPending

\* with transitionFromStopped
FatalEvenIfStopped(c, cause) ==
  IF c.status = "fatal" THEN c ELSE Fatally(c, cause)

Write(type, id) == toWorker' = Append(toWorker, [type |-> type, id |-> id])

-----------------------------------------------------------------------------
(* Calls of the kiosk.                                                     *)

Start ==
  /\ Up /\ cl.status = "notStarted"
  /\ LET c == [cl EXCEPT !.status = "starting", !.start = "pending"]
     IN  \/ /\ cl' = [c EXCEPT !.owner = "pending"]
            /\ wk' = [wk EXCEPT !.pc = "spawning"]
            /\ UNCHANGED <<outcome, progress>>
         \/ MarkFatal(c, "start") /\ UNCHANGED wk
  /\ UNCHANGED <<toWorker, toClient, served, missing, kiosk, faults>>

Analyze ==
  /\ Up /\ cl.status = "ready" /\ ~cl.shutting /\ cl.seq < MaxRequests
  /\ LET id == cl.seq + 1
     IN  /\ cl' = [cl EXCEPT !.seq = id] /\ Write("analyze", id)
         /\ outcome' = [outcome EXCEPT ![id] = "pending"]
         /\ progress' = [progress EXCEPT ![id] = Nothing]
  /\ UNCHANGED <<wk, toClient, served, missing, kiosk, faults>>

\* mutation: a shutdown leaves the requests that are waiting
ReturnForgetsPending(c) ==
  /\ cl' = [c EXCEPT !.sd = "returned", !.status = "stopped"]
  /\ UNCHANGED <<outcome, progress>>

\* the last lines of _performShutdown and its finally block
Return(c) == cl' = [c EXCEPT !.sd = "returned", !.status = "stopped"] /\ FailPending
Throw(c) == cl' = [FatalEvenIfStopped(c, "kill") EXCEPT !.sd = "thrown"] /\ FailPending

BeginShutdown ==
  [cl EXCEPT !.shutting = TRUE, !.start = IF @ = "pending" THEN "failed" ELSE @]

Shutdown ==
  /\ Up /\ ~cl.shutting
  /\ \/ /\ ~cl.owned /\ cl.owner = "pending"
        /\ cl' = [BeginShutdown EXCEPT !.sd = "owner"]
        /\ UNCHANGED <<outcome, progress, toWorker>>
     \/ /\ ~cl.owned /\ cl.owner # "pending"
        /\ Return(BeginShutdown) /\ UNCHANGED toWorker
     \/ /\ cl.owned
        /\ LET id == cl.seq + 1
               c == [BeginShutdown EXCEPT !.seq = id, !.stopId = id]
           IN  /\ IF cl.status # "fatal" THEN Write("shutdown", id)
                                         ELSE UNCHANGED toWorker
               /\ IF cl.exitSeen
                    THEN Return(c)
                    ELSE /\ cl' = [c EXCEPT !.sd = "stop"]
                         /\ UNCHANGED <<outcome, progress>>
  /\ UNCHANGED <<wk, toClient, served, missing, kiosk, faults>>

-----------------------------------------------------------------------------
(* The process is started.                                                 *)

\* the system has a process, before the kiosk is told
ProcessBegins ==
  /\ wk.pc = "spawning" /\ Becomes("started")
  /\ UNCHANGED <<toWorker, toClient, served, missing, kiosk, faults, clientVars>>

\* process.kill(): false when it cannot be, or when the process has ended
Kill ==
  /\ wk.pc \in Running /\ Becomes("killed") /\ UNCHANGED faults
KillRefused ==
  /\ \/ wk.pc = "gone" /\ UNCHANGED faults
     \/ Fault
  /\ UNCHANGED wk

\* the ownership completer completes: a shutdown that waits for it goes on
Settle(c) ==
  LET settled == [c EXCEPT !.owner = "settled"]
  IN  IF c.sd = "owner"
        THEN IF c.cancel = "failed" THEN Throw(settled) ELSE Return(settled)
        ELSE cl' = settled /\ UNCHANGED <<outcome, progress>>

SpawnFails ==
  /\ Up /\ Fault /\ wk.pc = "spawning" /\ Becomes("absent")
  /\ IF cl.shutting
       THEN Settle(cl)
       ELSE MarkFatal([cl EXCEPT !.owner = "settled"], "start")
  /\ UNCHANGED <<toWorker, toClient, served, missing, kiosk>>

\* mutation: a process that arrives after the shutdown is kept
OwnKeeps ==
  /\ Up /\ cl.owner = "pending" /\ ~cl.owned
  /\ wk.pc \notin {"absent", "spawning"}
  /\ Settle([cl EXCEPT !.owned = TRUE, !.listening = TRUE])
  /\ UNCHANGED workerVars

\* _finishStartingProcess, resumed with the process
Own ==
  /\ Up /\ cl.owner = "pending" /\ ~cl.owned
  /\ wk.pc \notin {"absent", "spawning"}
  /\ LET c == [cl EXCEPT !.owned = TRUE]
     IN  IF cl.shutting \/ cl.status \in {"stopped", "fatal"}
           THEN \/ /\ Kill /\ cl' = [c EXCEPT !.cancel = "killed"]
                   /\ UNCHANGED <<outcome, progress>>
                \/ /\ KillRefused
                   /\ Settle([FatalEvenIfStopped(c, "kill")
                                EXCEPT !.cancel = "failed"])
           ELSE /\ Settle([c EXCEPT !.listening = TRUE])
                /\ UNCHANGED <<wk, faults>>
  /\ UNCHANGED <<toWorker, toClient, served, missing, kiosk>>

\* _awaitExitAfterKill gives up waiting
CancelTimeout ==
  /\ Up /\ cl.cancel = "killed" /\ cl.owner = "pending" /\ Settle(cl)
  /\ UNCHANGED workerVars

\* shutdown gives up waiting for the process to be started
OwnerTimeout ==
  /\ Up /\ cl.sd = "owner" /\ Return(cl)
  /\ UNCHANGED workerVars

-----------------------------------------------------------------------------
(* A line of the worker.                                                   *)

ProtocolError == MarkFatal(cl, "protocol")

HandleStartup(e) ==
  IF cl.status = (IF e.type = "loading" THEN "starting" ELSE "loading")
    THEN cl' = [cl EXCEPT !.status = e.type] /\ UNCHANGED <<outcome, progress>>
    ELSE ProtocolError

\* the worker's metrics are kept before the start is looked at
WithMetrics(e) ==
  [cl EXCEPT !.status = "ready", !.ready = [device |-> e.device, mode |-> e.mode]]

\* a start that was given up makes a ready event an error
HandleReady(e) ==
  \/ /\ cl.status = "warming" /\ cl.start = "pending"
     /\ cl' = [WithMetrics(e) EXCEPT !.start = "ready"] /\ UNCHANGED <<outcome, progress>>
  \/ /\ cl.status = "warming" /\ cl.start # "pending"
     /\ MarkFatal(WithMetrics(e), "protocol")
  \/ cl.status # "warming" /\ ProtocolError

HandleProgress(e) ==
  IF /\ cl.status = "ready" /\ outcome[e.id] = "pending"
     /\ <<progress[e.id], e.phase>> \in LEGAL_NEXT_PHASES
    THEN progress' = [progress EXCEPT ![e.id] = e.phase] /\ UNCHANGED <<cl, outcome>>
    ELSE ProtocolError

\* mutation: the phase of an answered request is kept
CompleteKeepsPhase(id, answer) ==
  /\ outcome' = [outcome EXCEPT ![id] = answer]
  /\ UNCHANGED <<cl, progress>>

Complete(id, answer) ==
  /\ outcome' = [outcome EXCEPT ![id] = answer]
  /\ progress' = [progress EXCEPT ![id] = Nothing]
  /\ UNCHANGED cl

HandleResult(e) ==
  IF outcome[e.id] = "pending" /\ progress[e.id] = "aggregating"
    THEN Complete(e.id, "result")
    ELSE ProtocolError

HandleWorkerError(e) ==
  IF e.type # "invalid_request" /\ outcome[e.id] = "pending"
    THEN Complete(e.id, "analysis_failed")
    ELSE ProtocolError

\* the shutdown goes on to wait for the exit of the process
HandleStopped(e) ==
  IF cl.shutting /\ e.id = cl.stopId
    THEN /\ cl' = [cl EXCEPT !.status = "stopped",
                             !.sd = IF @ = "stop" THEN "exit" ELSE @]
         /\ UNCHANGED <<outcome, progress>>
    ELSE ProtocolError

Handle(e) ==
  \/ e.type \in {"loading", "warming"} /\ HandleStartup(e)
  \/ e.type = "ready" /\ HandleReady(e)
  \/ e.type = "progress" /\ HandleProgress(e)
  \/ e.type = "result" /\ HandleResult(e)
  \/ e.type \in {"analysis_failed", "invalid_request"} /\ HandleWorkerError(e)
  \/ e.type \in {"admission_failed", "initialization_failed"}
       /\ MarkFatal(cl, e.type)
  \/ e.type = "stopped" /\ HandleStopped(e)

OnStdoutLine ==
  /\ Up /\ cl.listening /\ toClient # <<>> /\ toClient' = Tail(toClient)
  /\ IF cl.status \in {"fatal", "stopped"}
       THEN UNCHANGED clientVars
       ELSE Handle(Head(toClient))
  /\ UNCHANGED <<wk, toWorker, served, missing, kiosk, faults>>

-----------------------------------------------------------------------------
(* The process ends.                                                       *)

\* mutation: an exit the client did not ask for goes unnoticed
ExitUnnoticed ==
  /\ Up /\ cl.owned /\ ~cl.exitSeen /\ wk.pc = "gone"
  /\ LET c == [cl EXCEPT !.exitSeen = TRUE]
     IN  IF c.sd \in {"stop", "exit", "killed"}
           THEN Return(c)
           ELSE cl' = c /\ UNCHANGED <<outcome, progress>>
  /\ UNCHANGED workerVars

\* every future that waits for the exit code goes on, after _onProcessExit,
\* which only a process that is listened to reports to
OnProcessExit ==
  /\ Up /\ cl.owned /\ ~cl.exitSeen /\ wk.pc = "gone"
  /\ LET c == [cl EXCEPT !.exitSeen = TRUE]
     IN  CASE c.sd \in {"stop", "exit", "killed"} -> Return(c)
           [] c.cancel = "killed" /\ c.owner = "pending" -> Settle(c)
           [] c.listening /\ ~c.shutting /\ c.status \notin {"stopped", "fatal"}
                -> MarkFatal(c, "exit")
           [] OTHER -> cl' = c /\ UNCHANGED <<outcome, progress>>
  /\ UNCHANGED workerVars

\* no stopped event, or no exit after it, in time
ShutdownTimeout ==
  /\ Up /\ cl.sd \in {"stop", "exit"}
  /\ \/ Kill /\ cl' = [cl EXCEPT !.sd = "killed"] /\ UNCHANGED <<outcome, progress>>
     \/ KillRefused /\ Throw(cl)
  /\ UNCHANGED <<toWorker, toClient, served, missing, kiosk>>

\* _awaitExitAfterKill gives up waiting
KillTimeout ==
  /\ Up /\ cl.sd = "killed" /\ Return(cl)
  /\ UNCHANGED workerVars

KioskDies ==
  /\ Up /\ Fault /\ kiosk' = "down"
  /\ UNCHANGED <<wk, toWorker, toClient, served, missing, clientVars>>

-----------------------------------------------------------------------------
Commands == Start \/ Analyze \/ Shutdown
Continuations ==
  Own \/ CancelTimeout \/ OwnerTimeout \/ OnStdoutLine \/ OnProcessExit
    \/ ShutdownTimeout \/ KillTimeout
Environment == ProcessBegins \/ SpawnFails \/ KioskDies

Next ==
  \/ Commands \/ Continuations \/ Environment
  \/ (WorkerStep \/ Die \/ WorkerFault) /\ UNCHANGED clientVars

\* the process and the event loop of the kiosk go on; nobody must call
Fairness ==
  /\ WF_vars(WorkerStep /\ UNCHANGED clientVars)
  /\ WF_vars(Die /\ UNCHANGED clientVars)
  /\ WF_vars(ProcessBegins)
  /\ WF_vars(Own) /\ WF_vars(OnStdoutLine) /\ WF_vars(OnProcessExit)
  /\ WF_vars(CancelTimeout) /\ WF_vars(OwnerTimeout)
  /\ WF_vars(ShutdownTimeout) /\ WF_vars(KillTimeout)

SafeSpec == Init /\ [][Next]_vars
Spec == SafeSpec /\ Fairness

-----------------------------------------------------------------------------
(* Properties.                                                             *)

Causes == {Nothing, "start", "kill", "exit", "protocol", "admission_failed",
           "initialization_failed"}

ClientType ==
  [status : Statuses, shutting : BOOLEAN,
   start : {"none", "pending", "ready", "failed"},
   owner : {"none", "pending", "settled"}, owned : BOOLEAN, listening : BOOLEAN,
   cancel : {"no", "killed", "failed"},
   sd : {"idle", "owner", "stop", "exit", "killed", "returned", "thrown"},
   seq : 0..MaxRequests + 1, stopId : Ids \cup {Nothing}, exitSeen : BOOLEAN,
   ready : {Nothing} \cup [device : Devices, mode : Modes], cause : Causes]

\* the state of the worker, of the pipes and of the client has its type, and
\* only a request that waits for its answer has a phase
WorkerClientTypeOK ==
  /\ WorkerTypeOK
  /\ cl \in ClientType
  /\ outcome \in [Ids -> {"unused", "pending", "result", "analysis_failed", "failed"}]
  /\ progress \in [Ids -> Phases \cup {Nothing}]
  /\ \A i \in Ids : progress[i] # Nothing => outcome[i] = "pending"

\* the client finds fault with the worker's lines only for an image that has
\* gone, which the worker reports without naming the request, or for a ready
\* event that comes after start() was given up: whatever is in the pipe, the
\* two tables of phases, the correlation of requests and the startup order of
\* serve and of _handleEvent agree
ProtocolAgreed ==
  cl.cause = "protocol" =>
    missing # {} \/ (cl.shutting /\ cl.start = "failed")

\* nobody waits for an answer of a client that is fatal or whose shutdown is
\* over, however the worker ended and whatever it had written
EndedMeansAnswered ==
  cl.status = "fatal" \/ cl.sd \in {"returned", "thrown"} => Pending = {}

\* the ready event names the admission of the device the runtime was loaded on,
\* also after it fell back from CUDA; a candidate never becomes another runtime
ReadyIsTrue ==
  cl.ready # Nothing =>
    /\ cl.ready.mode = "cpu_reference" <=> cl.ready.device = "cpu"
    /\ cl.ready.mode = "candidate" <=> wk.profile = "candidate"

\* a call of start, analyze or shutdown ends, unless a native call of the worker
\* does not return, against which neither start nor analyze has a timeout, or
\* the kiosk itself ends
CallsEnd ==
  /\ cl.sd \in {"owner", "stop", "exit", "killed"}
       ~> cl.sd \in {"returned", "thrown"} \/ ~Up
  /\ cl.start = "pending" ~> cl.start # "pending" \/ wk.hung \/ ~Up
  /\ \A i \in Ids :
       outcome[i] = "pending" ~> outcome[i] # "pending" \/ wk.hung \/ ~Up

\* no worker outlives the client that was shut down, even when the shutdown came
\* before the process; and none outlives the kiosk unless it hangs
NoWorkerLeft ==
  /\ (cl.shutting /\ Up)
       ~> wk.pc \in {"absent", "gone"} \/ cl.cause = "kill" \/ ~Up
  /\ ~Up ~> wk.pc \in {"absent", "gone"} \/ wk.hung

Requested ==
  INSTANCE WorkerRequests
    WITH work <- served,
         closed <- cl.status = "fatal" \/ cl.sd \in {"returned", "thrown"}

\* the client and the worker together keep the promise of WorkerRequests
ImplementsRequests == Requested!Spec
=============================================================================
