---------------------------- MODULE CpuBenchmark ----------------------------
(***************************************************************************)
(* The CPU benchmark: a coordinator process that compares two               *)
(* configurations, each held by a worker process of its own and reached     *)
(* over a duplex pipe (cpu_benchmark_coordinator, _worker, _protocol).      *)
(*                                                                         *)
(* The coordinator is one thread that waits at one place at a time; co.pc    *)
(* names the place.  What it does between two waits is one action.          *)
(***************************************************************************)
EXTENDS Naturals, Sequences, FiniteSets

CONSTANTS Passes, FirstOrder, MaxFaults, Nothing


VARIABLES co,       \* the coordinator
          wk,       \* the worker of each role
          commands, \* what each worker has not received yet
          replies,  \* what the coordinator has not received yet
          coordinated,  \* the results that were accepted, in their order
          faults

vars == <<co, wk, commands, replies, coordinated, faults>>

PassIndices == 0..(Passes - 1)

Roles == {"reference", "candidate"}
Other(r) == IF r = "reference" THEN "candidate" ELSE "reference"

\* what a READY message says of a worker: its runtime, artifacts, detector and
\* warm-up differ from the specification ("wrong"), or agree with it and leave
\* one of two values of what the specification does not fix
Metadata == {"one", "two", "wrong"}

\* why a run fails: what could not be done, or the reply that came instead
FailureKinds == {"spawn", "pipe", "invalid", "exit", "timeout", "interrupt", "stop",
                 "ready", "result", "stopped", "error"}

ASSUME BenchmarkConstants ==
  /\ Passes \in Nat /\ Passes >= 3 /\ FirstOrder \in {"AB", "BA"} /\ MaxFaults \in Nat
  /\ Nothing \notin Nat /\ Nothing \notin Metadata \cup FailureKinds

Commands == [type : {"prepare", "shutdown"}] \cup [type : {"run"}, pass : PassIndices]
Replies == [type : {"ready"}, metadata : Metadata]
             \cup [type : {"result"}, pass : PassIndices]
             \cup [type : {"stopped", "error"}]

\* the states of worker_process_main
WorkerStates == {"created", "preparing", "ready", "running", "leaving"}

Init ==
  /\ co = [pc |-> "spawn", role |-> "reference", pass |-> 0, half |-> 1,
           failure |-> Nothing, errors |-> FALSE]
  /\ wk = [r \in Roles |-> [pc |-> "absent", pass |-> Nothing, exit |-> Nothing,
                            metadata |-> Nothing, hung |-> FALSE, signal |-> "none",
                            finalized |-> FALSE]]
  /\ commands = [r \in Roles |-> <<>>] /\ replies = [r \in Roles |-> <<>>]
  /\ coordinated = <<>> /\ faults = 0

Fault == faults < MaxFaults /\ faults' = faults + 1

Alive(r) == wk[r].pc \in WorkerStates
Spawned(r) == wk[r].pc # "absent"
ExitedBadly(r) == wk[r].pc = "gone" /\ wk[r].exit # 0

\* mutation: the order does not alternate
SameStarter(pass) == IF FirstOrder = "AB" THEN "reference" ELSE "candidate"

\* _pass_order: who measures first in this pass, and who now
Starter(pass) == IF (FirstOrder = "AB") <=> (pass % 2 = 0) THEN "reference" ELSE "candidate"
Turn(pass, half) == IF half = 1 THEN Starter(pass) ELSE Other(Starter(pass))

-----------------------------------------------------------------------------
(* The coordinator goes on to another place.                               *)

At(pc) == co.pc = pc
Goto(pc, r) == co' = [co EXCEPT !.pc = pc, !.role = r]

\* the stop begins: with the endpoints that there are, in their order
Stop(c) ==
  co' = [c EXCEPT !.role = "reference",
                  !.pc = IF Spawned("reference") THEN "shutdown" ELSE "ended"]

\* mutation: a failed measurement is left and the next one is asked for
SkipsFailure(kind) ==
  IF co.pc = "await_result" /\ co.half = 1
    THEN co' = [co EXCEPT !.pc = "run", !.half = 2]
    ELSE Stop([co EXCEPT !.failure = kind])

\* the except clause of run: the first failure is the one that is raised
Abort(kind) == Stop([co EXCEPT !.failure = kind])

\* a shutdown of one endpoint is over, well or not: the next one, or the survivors
Shut(failed) ==
  LET c == [co EXCEPT !.errors = @ \/ failed]
  IN  co' = IF co.role = "reference" /\ Spawned("candidate")
              THEN [c EXCEPT !.pc = "shutdown", !.role = "candidate"]
              ELSE [c EXCEPT !.pc = "survivors", !.role = "reference"]

-----------------------------------------------------------------------------
(* Start: run, up to the first pass.                                       *)

\* _SpawnWorkerEndpoint.__init__
Spawn ==
  /\ At("spawn")
  /\ \/ /\ wk' = [wk EXCEPT ![co.role].pc = "created"]
        /\ IF co.role = "reference" THEN Goto("spawn", "candidate")
                                    ELSE Goto("prepare", "reference")
     \/ Abort("spawn") /\ UNCHANGED wk
  /\ UNCHANGED <<commands, replies, coordinated, faults>>

\* _send: a worker that has ended has closed the pipe
Send(r, command, next) ==
  /\ IF wk[r].pc = "gone"
       THEN Abort("pipe") /\ UNCHANGED commands
       ELSE /\ commands' = [commands EXCEPT ![r] = Append(@, command)]
            /\ Goto(next, r)
  /\ UNCHANGED <<wk, replies, coordinated, faults>>

Prepare == At("prepare") /\ Send(co.role, [type |-> "prepare"], "await_ready")

\* _receive of the reply at the head of the pipe
TheReply == Head(replies[co.role])
Receive(pc) ==
  /\ At(pc) /\ replies[co.role] # <<>>
  /\ replies' = [replies EXCEPT ![co.role] = Tail(@)]
  /\ UNCHANGED <<wk, commands, faults>>

\* it is not of the type that is waited for, or the worker ended badly after it
Unfit(type) == TheReply.type # type \/ ExitedBadly(co.role)

\* mutation: the two workers need not agree
AnyPairIsReady(reply) ==
  /\ UNCHANGED coordinated
  /\ IF reply.metadata = "wrong"
       THEN Abort("invalid")
       ELSE IF co.role = "reference"
         THEN Goto("prepare", "candidate")
         ELSE Goto("run", "reference")

\* _validate_ready, _validate_ready_pair and _require_endpoint_alive
IsReady(reply) ==
  /\ UNCHANGED coordinated
  /\ IF reply.metadata = "wrong"
       THEN Abort("invalid")
       ELSE IF co.role = "reference"
         THEN Goto("prepare", "candidate")
         ELSE IF /\ wk["reference"].metadata = reply.metadata
                 /\ Alive("reference") /\ Alive("candidate")
           THEN Goto("run", "reference")
           ELSE Abort("invalid")

ReceiveReady ==
  /\ Receive("await_ready")
  /\ IF Unfit("ready") THEN Abort(TheReply.type) /\ UNCHANGED coordinated
                      ELSE IsReady(TheReply)

\* what run_pass asks of the worker whose turn it is
RunPass ==
  /\ At("run")
  /\ Send(Turn(co.pass, co.half), [type |-> "run", pass |-> co.pass], "await_result")

\* mutation: one pass too many
OnePassMore(reply) ==
  IF reply.pass # co.pass
    THEN Abort("invalid") /\ UNCHANGED coordinated
    ELSE /\ coordinated' = Append(coordinated, <<co.role, reply.pass>>)
         /\ IF co.half = 1
              THEN co' = [co EXCEPT !.pc = "run", !.half = 2]
              ELSE IF co.pass < Passes
                THEN co' = [co EXCEPT !.pc = "run", !.half = 1, !.pass = @ + 1]
                ELSE Stop(co)

\* _validate_pass_result, and the next measurement of the loop
IsResult(reply) ==
  IF reply.pass # co.pass
    THEN Abort("invalid") /\ UNCHANGED coordinated
    ELSE /\ coordinated' = Append(coordinated, <<co.role, reply.pass>>)
         /\ IF co.half = 1
              THEN co' = [co EXCEPT !.pc = "run", !.half = 2]
              ELSE IF co.pass + 1 < Passes
                THEN co' = [co EXCEPT !.pc = "run", !.half = 1, !.pass = @ + 1]
                ELSE Stop(co)

ReceiveResult ==
  /\ Receive("await_result")
  /\ IF Unfit("result") THEN Abort(TheReply.type) /\ UNCHANGED coordinated
                       ELSE IsResult(TheReply)

\* mutation: there is no deadline
WaitsForEver ==
  /\ co.pc \in {"await_ready", "await_result"} /\ replies[co.role] = <<>>
  /\ wk[co.role].pc = "gone" /\ Abort("exit")
  /\ UNCHANGED <<wk, commands, replies, coordinated, faults>>

\* nothing has come in time, or nothing can come
ReceiveNothing ==
  /\ co.pc \in {"await_ready", "await_result"} /\ replies[co.role] = <<>>
  /\ Abort(IF wk[co.role].pc = "gone" THEN "exit" ELSE "timeout")
  /\ UNCHANGED <<wk, commands, replies, coordinated, faults>>

-----------------------------------------------------------------------------
(* Stop: _graceful_stop, or _stop_after_failure.                           *)

\* the first half of endpoint.shutdown; a worker that is leaving may have closed
\* the pipe
Shutdown ==
  /\ At("shutdown")
  /\ \/ wk[co.role].pc \in {"gone", "leaving"} /\ Shut(TRUE) /\ UNCHANGED commands
     \/ /\ Alive(co.role) /\ Goto("await_stopped", co.role)
        /\ commands' = [commands EXCEPT ![co.role] = Append(@, [type |-> "shutdown"])]
  /\ UNCHANGED <<wk, replies, coordinated, faults>>

ReceiveStopped ==
  /\ At("await_stopped")
  /\ IF replies[co.role] = <<>>
       THEN Shut(TRUE) /\ UNCHANGED replies
       ELSE /\ replies' = [replies EXCEPT ![co.role] = Tail(@)]
            /\ IF Head(replies[co.role]).type = "stopped" /\ ~ExitedBadly(co.role)
                 THEN Goto("join", co.role)
                 ELSE Shut(TRUE)
  /\ UNCHANGED <<wk, commands, coordinated, faults>>

\* the process has ended, or did not in time
Join == 
  /\ At("join") /\ Shut(Alive(co.role) \/ ExitedBadly(co.role))
  /\ UNCHANGED <<wk, commands, replies, coordinated, faults>>

\* the next endpoint of _terminate_survivors, or the end of its loop
NextSurvivor(c) ==
  co' = IF co.role = "reference" /\ Spawned("candidate")
          THEN [c EXCEPT !.pc = "survivors", !.role = "candidate"]
          ELSE [c EXCEPT !.pc = "finalize"]

\* mutation: the loop ends with the first worker that is alive
TerminatesOne ==
  /\ At("survivors")
  /\ IF Alive(co.role) /\ (co.failure # Nothing \/ co.errors)
       THEN /\ wk' = [wk EXCEPT ![co.role].signal = "term"]
            /\ co' = [co EXCEPT !.pc = "finalize"]
       ELSE NextSurvivor(co) /\ UNCHANGED wk
  /\ UNCHANGED <<commands, replies, coordinated, faults>>

\* terminate() of the next worker that is alive, if there was an error
Terminate ==
  /\ At("survivors")
  /\ IF Alive(co.role) /\ (co.failure # Nothing \/ co.errors)
       THEN /\ wk' = [wk EXCEPT ![co.role].signal = "term"]
            /\ Goto("join_terminate", co.role)
       ELSE NextSurvivor(co) /\ UNCHANGED wk
  /\ UNCHANGED <<commands, replies, coordinated, faults>>

JoinTerminated ==
  /\ At("join_terminate")
  /\ IF Alive(co.role)
       THEN /\ wk' = [wk EXCEPT ![co.role].signal = "kill"]
            /\ Goto("join_kill", co.role)
       ELSE NextSurvivor(co) /\ UNCHANGED wk
  /\ UNCHANGED <<commands, replies, coordinated, faults>>

JoinKilled ==
  /\ At("join_kill") /\ NextSurvivor(co)
  /\ UNCHANGED <<wk, commands, replies, coordinated, faults>>

\* _finalize_all, and the end of run: a worker that still lives is an error
Finalize ==
  /\ At("finalize")
  /\ wk' = [r \in Roles |-> [wk[r] EXCEPT !.finalized = Spawned(r) /\ ~Alive(r)]]
  /\ LET errors == co.errors \/ \E r \in Roles : Alive(r)
     IN  co' = [co EXCEPT !.pc = "ended", !.errors = errors,
                          !.failure = IF @ = Nothing /\ errors THEN "stop" ELSE @]
  /\ UNCHANGED <<commands, replies, coordinated, faults>>

\* Ctrl-C during a wait: one that cuts terminate() short is swallowed there
Interrupt ==
  /\ Fault
  /\ \/ co.pc \in {"await_ready", "await_result"} /\ Abort("interrupt")
     \/ co.pc \in {"await_stopped", "join"} /\ Shut(TRUE)
     \/ co.pc \in {"join_terminate", "join_kill"}
          /\ NextSurvivor(co)
  /\ UNCHANGED <<wk, commands, replies, coordinated>>

CoordinatorDies ==
  /\ Fault /\ co.pc \notin {"ended", "dead"} /\ co' = [co EXCEPT !.pc = "dead"]
  /\ UNCHANGED <<wk, commands, replies, coordinated>>

-----------------------------------------------------------------------------
(* A worker: worker_process_main.                                          *)

Able(r, pc) == wk[r].pc = pc /\ ~wk[r].hung
Orphaned == co.pc = "dead"

\* the worker sends its last words, if somebody listens, and leaves
Leave(r, reply, exit) ==
  /\ wk' = [wk EXCEPT ![r].pc = "leaving", ![r].exit = exit]
  /\ replies' = IF Orphaned THEN replies ELSE [replies EXCEPT ![r] = Append(@, [type |-> reply])]

\* the worker sends a reply and goes on; the exception of a broken pipe ends it
Reply(r, reply, w) ==
  IF Orphaned
    THEN Leave(r, "error", 1)
    ELSE wk' = [wk EXCEPT ![r] = w] /\ replies' = [replies EXCEPT ![r] = Append(@, reply)]

Received(r, type) == commands[r] # <<>> /\ Head(commands[r]).type = type
Take(r) == commands' = [commands EXCEPT ![r] = Tail(@)]

ReceivePrepare(r) ==
  /\ Able(r, "created") /\ Received(r, "prepare") /\ Take(r)
  /\ wk' = [wk EXCEPT ![r].pc = "preparing"] /\ UNCHANGED replies

\* any other command is refused
RefuseCommand(r) ==
  /\ Able(r, "created") /\ Received(r, "shutdown") /\ Take(r) /\ Leave(r, "error", 1)

\* BenchmarkWorker.prepare, whose warm-up is part of what READY says
Prepared(r) ==
  /\ Able(r, "preparing")
  /\ \E metadata \in Metadata :
       Reply(r, [type |-> "ready", metadata |-> metadata],
             [wk[r] EXCEPT !.pc = "ready", !.metadata = metadata])
  /\ UNCHANGED commands

ReceiveRun(r) ==
  /\ Able(r, "ready") /\ Received(r, "run") /\ Take(r)
  /\ wk' = [wk EXCEPT ![r].pc = "running", ![r].pass = Head(commands[r]).pass]
  /\ UNCHANGED replies

\* BenchmarkWorker.run_pass
Measured(r) ==
  /\ Able(r, "running")
  /\ Reply(r, [type |-> "result", pass |-> wk[r].pass],
           [wk[r] EXCEPT !.pc = "ready", !.pass = Nothing])
  /\ UNCHANGED commands

\* an exception of prepare or of run_pass
WorkFails(r) ==
  /\ wk[r].pc \in {"preparing", "running"} /\ ~wk[r].hung
  /\ Leave(r, "error", 1) /\ UNCHANGED commands

ReceiveShutdown(r) ==
  /\ Able(r, "ready") /\ Received(r, "shutdown") /\ Take(r)
  /\ Leave(r, "stopped", IF Orphaned THEN 1 ELSE 0)

\* recv of a pipe whose other end is closed
ReceiveEnd(r) ==
  /\ wk[r].pc \in {"created", "ready"} /\ ~wk[r].hung /\ commands[r] = <<>>
  /\ Orphaned /\ Leave(r, "error", 1) /\ UNCHANGED commands

Exit(r) ==
  /\ Able(r, "leaving") /\ wk' = [wk EXCEPT ![r].pc = "gone"]
  /\ UNCHANGED <<commands, replies>>

Obey(r) ==
  /\ Alive(r) /\ wk[r].signal # "none"
  /\ wk' = [wk EXCEPT ![r].pc = "gone", ![r].exit = 1]
  /\ UNCHANGED <<co, commands, replies, coordinated, faults>>

Crash(r) ==
  /\ Fault /\ Alive(r) /\ wk' = [wk EXCEPT ![r].pc = "gone", ![r].exit = 1]
  /\ UNCHANGED <<co, commands, replies, coordinated>>

Hang(r) ==
  /\ Fault /\ Alive(r) /\ ~wk[r].hung /\ wk' = [wk EXCEPT ![r].hung = TRUE]
  /\ UNCHANGED <<co, commands, replies, coordinated>>

WorkerStep(r) ==
  /\ \/ ReceivePrepare(r) \/ RefuseCommand(r) \/ Prepared(r) \/ ReceiveRun(r)
     \/ Measured(r) \/ WorkFails(r) \/ ReceiveShutdown(r) \/ ReceiveEnd(r) \/ Exit(r)
  /\ UNCHANGED <<co, coordinated, faults>>

-----------------------------------------------------------------------------
Coordinate ==
  \/ Spawn \/ Prepare \/ ReceiveReady \/ RunPass \/ ReceiveResult \/ ReceiveNothing
  \/ Shutdown \/ ReceiveStopped \/ Join \/ Terminate \/ JoinTerminated \/ JoinKilled
  \/ Finalize

Next ==
  \/ Coordinate \/ Interrupt \/ CoordinatorDies
  \/ \E r \in Roles : WorkerStep(r) \/ Obey(r) \/ Crash(r) \/ Hang(r)

\* every wait of the coordinator has a timeout; a worker goes on unless it hangs,
\* and a signal reaches it even then
Fairness ==
  /\ WF_vars(Coordinate)
  /\ \A r \in Roles : WF_vars(WorkerStep(r)) /\ WF_vars(Obey(r))

SafeSpec == Init /\ [][Next]_vars
Spec == SafeSpec /\ Fairness

-----------------------------------------------------------------------------
(* Properties.                                                             *)

Places == {"spawn", "prepare", "await_ready", "run", "await_result", "shutdown",
           "await_stopped", "join", "survivors", "join_terminate", "join_kill",
           "finalize", "ended", "dead"}

\* coordinator, workers, pipes and results have their types; a worker that
\* measures has been asked to, and one that has ended has an exit code
BenchmarkTypeOK ==
  /\ co \in [pc : Places, role : Roles, pass : PassIndices, half : 1..2,
             failure : FailureKinds \cup {Nothing}, errors : BOOLEAN]
  /\ wk \in [Roles -> [pc : WorkerStates \cup {"absent", "gone"},
                       pass : PassIndices \cup {Nothing}, exit : {0, 1, Nothing},
                       metadata : Metadata \cup {Nothing}, hung : BOOLEAN,
                       signal : {"none", "term", "kill"}, finalized : BOOLEAN]]
  /\ commands \in [Roles -> Seq(Commands)] /\ replies \in [Roles -> Seq(Replies)]
  /\ coordinated \in Seq(Roles \X PassIndices)
  /\ faults \in 0..MaxFaults
  /\ \A r \in Roles : /\ wk[r].pc = "running" => wk[r].pass # Nothing
                      /\ wk[r].pc \in {"leaving", "gone"} => wk[r].exit # Nothing

Completed == co.pc = "ended" /\ co.failure = Nothing

\* a comparison that is returned was made between two workers of equal runtime,
\* artifacts and warm-up that answered every command, and that ended by themselves
\* with exit code 0: one that crashed after its last result spoils it
CompletedIsClean ==
  Completed =>
    /\ wk["reference"].metadata = wk["candidate"].metadata
    /\ \A r \in Roles : /\ wk[r].metadata # "wrong" /\ wk[r].finalized
                        /\ wk[r].pc = "gone" /\ wk[r].exit = 0
                        /\ replies[r] = <<>> /\ commands[r] = <<>>

Busy(r) == wk[r].pc \in {"preparing", "running"}

\* the two workers never load models or measure at the same time, also when one
\* of them misses its deadline and goes on: a measurement is of a quiet machine
OneWorkerBusy == ~(Busy("reference") /\ Busy("candidate"))

\* run returns or raises, whatever the workers do
RunEnds == <>(co.pc \in {"ended", "dead"})

\* no worker is left behind by a run that ended, not even one that hangs or one
\* whose termination an interrupt cut short; a coordinator that dies leaves at
\* most workers that hang
WorkersEnd ==
  /\ co.pc = "ended" ~> \A r \in Roles : ~Alive(r)
  /\ co.pc = "dead" ~> \A r \in Roles : ~Alive(r) \/ wk[r].hung

Compared ==
  INSTANCE PairedPasses
    WITH FirstRole <- Starter(0), SecondRole <- Other(Starter(0)),
         measured <- coordinated,
         verdict <- IF co.pc # "ended" THEN "open"
                    ELSE IF co.failure = Nothing THEN "completed" ELSE "failed"

\* the accepted results are those of a comparison in alternating order, complete
\* whenever run returns one
ImplementsPairedPasses == Compared!Spec
=============================================================================
