------------------------- MODULE CpuBenchmarkProofs -------------------------
(***************************************************************************)
(* What a returned comparison is worth, for every number of passes, either  *)
(* order and any number of faults.                                         *)
(***************************************************************************)
EXTENDS CpuBenchmark, SequenceTheorems, TLAPS

CoType == [pc : Places, role : Roles, pass : PassIndices, half : 1..2,
           failure : FailureKinds \cup {Nothing}, errors : BOOLEAN]

WkType == [pc : WorkerStates \cup {"absent", "gone"},
           pass : PassIndices \cup {Nothing}, exit : {0, 1, Nothing},
           metadata : Metadata \cup {Nothing}, hung : BOOLEAN,
           signal : {"none", "term", "kill"}, finalized : BOOLEAN]

\* the parts of the type invariant
WorkersTyped ==
  /\ wk \in [Roles -> WkType]
  /\ \A r \in Roles : /\ wk[r].pc = "running" => wk[r].pass # Nothing
                      /\ wk[r].pc \in {"leaving", "gone"} => wk[r].exit # Nothing
PipesTyped == commands \in [Roles -> Seq(Commands)] /\ replies \in [Roles -> Seq(Replies)]

LEMMA TypeParts ==
  BenchmarkTypeOK <=> /\ co \in CoType /\ WorkersTyped /\ PipesTyped
                      /\ coordinated \in Seq(Roles \X PassIndices) /\ faults \in 0..MaxFaults
BY DEF BenchmarkTypeOK, CoType, WkType, WorkersTyped, PipesTyped

LEMMA TypePartsNext ==
  (/\ co \in CoType /\ WorkersTyped /\ PipesTyped
   /\ coordinated \in Seq(Roles \X PassIndices) /\ faults \in 0..MaxFaults)'
  => BenchmarkTypeOK'
BY DEF BenchmarkTypeOK, CoType, WkType, WorkersTyped, PipesTyped

\* The coordinator's places.
LEMMA StopTyped == ASSUME NEW c \in CoType, Stop(c) PROVE co' \in CoType
BY DEF Stop, CoType, Places, Roles

LEMMA AbortTyped ==
  ASSUME co \in CoType, NEW kind \in FailureKinds, Abort(kind)
  PROVE  co' \in CoType /\ co'.failure = kind /\ co'.pc \in {"shutdown", "ended"}
<1>1. [co EXCEPT !.failure = kind] \in CoType
  BY DEF CoType
<1>2. co' \in CoType
  BY <1>1, StopTyped DEF Abort
<1> QED
  BY <1>1, <1>2 DEF Abort, Stop, CoType

LEMMA GotoTyped ==
  ASSUME co \in CoType, NEW pc \in Places, NEW r \in Roles, Goto(pc, r)
  PROVE  /\ co' \in CoType /\ co'.pc = pc /\ co'.role = r /\ co'.pass = co.pass
         /\ co'.half = co.half /\ co'.failure = co.failure /\ co'.errors = co.errors
BY DEF Goto, CoType

LEMMA MeasureTyped ==
  ASSUME co \in CoType
  PROVE  /\ [co EXCEPT !.pc = "run", !.half = 2] \in CoType
         /\ \A pass \in PassIndices :
              [co EXCEPT !.pc = "run", !.half = 1, !.pass = pass] \in CoType
<1>1. 1 \in 1..2 /\ 2 \in 1..2 /\ "run" \in Places
  BY DEF Places
<1> QED
  BY <1>1 DEF CoType

LEMMA ShutTyped ==
  ASSUME co \in CoType, NEW failed \in BOOLEAN, Shut(failed)
  PROVE  /\ co' \in CoType /\ co'.failure = co.failure
         /\ co'.errors = (co.errors \/ failed)
         /\ co'.pc \in {"shutdown", "survivors"}
         /\ co'.pc = "shutdown" => co.role = "reference" /\ co'.role = "candidate"
         /\ co'.pc = "survivors" => co.role = "candidate" \/ ~Spawned("candidate")
<1> DEFINE c == [co EXCEPT !.errors = @ \/ failed]
<1>1. c \in CoType /\ c.failure = co.failure /\ c.errors = (co.errors \/ failed)
  BY DEF CoType
<1>2. co' = IF co.role = "reference" /\ Spawned("candidate")
              THEN [c EXCEPT !.pc = "shutdown", !.role = "candidate"]
              ELSE [c EXCEPT !.pc = "survivors", !.role = "reference"]
  BY DEF Shut
<1>3. co.role \in Roles
  BY DEF CoType
<1> HIDE DEF c
<1>4. CASE co.role = "reference" /\ Spawned("candidate")
  BY <1>1, <1>2, <1>4 DEF CoType, Places, Roles
<1>5. CASE ~(co.role = "reference" /\ Spawned("candidate"))
  BY <1>1, <1>2, <1>3, <1>5 DEF CoType, Places, Roles
<1> QED
  BY <1>4, <1>5

LEMMA SurvivorTyped ==
  ASSUME co \in CoType, NextSurvivor(co)
  PROVE  /\ co' \in CoType /\ co'.failure = co.failure /\ co'.errors = co.errors
         /\ co'.pc \in {"survivors", "finalize"}
BY DEF NextSurvivor, CoType, Places, Roles

LEMMA QueueTyped ==
  ASSUME NEW S, NEW q \in [Roles -> Seq(S)], NEW r \in Roles
  PROVE  /\ \A e \in S : [q EXCEPT ![r] = Append(@, e)] \in [Roles -> Seq(S)]
         /\ q[r] # <<>> => /\ [q EXCEPT ![r] = Tail(@)] \in [Roles -> Seq(S)]
                           /\ Head(q[r]) \in S
<1>1. \A e \in S : Append(q[r], e) \in Seq(S)
  OBVIOUS
<1>2. q[r] # <<>> => Tail(q[r]) \in Seq(S) /\ Head(q[r]) \in S
  OBVIOUS
<1> QED
  BY <1>1, <1>2

LEMMA Messages ==
  /\ [type |-> "prepare"] \in Commands /\ [type |-> "shutdown"] \in Commands
  /\ \A pass \in PassIndices : [type |-> "run", pass |-> pass] \in Commands
                               /\ [type |-> "result", pass |-> pass] \in Replies
  /\ \A m \in Metadata : [type |-> "ready", metadata |-> m] \in Replies
  /\ \A type \in {"stopped", "error"} : [type |-> type] \in Replies
BY DEF Commands, Replies

LEMMA MessageFields ==
  /\ \A c \in Commands : c.type = "run" => c.pass \in PassIndices
  /\ \A m \in Replies : /\ m.type \in {"ready", "result", "stopped", "error"}
                        /\ m.type = "ready" => m.metadata \in Metadata
                        /\ m.type = "result" => m.pass \in PassIndices
BY DEF Commands, Replies

\* A worker that changes stays one.
LEMMA WkTyped ==
  ASSUME WorkersTyped, NEW r \in Roles, NEW w \in WkType, wk' = [wk EXCEPT ![r] = w],
         w.pc = "running" => w.pass # Nothing,
         w.pc \in {"leaving", "gone"} => w.exit # Nothing
  PROVE  WorkersTyped'
<1>1. wk' \in [Roles -> WkType]
  BY DEF WorkersTyped
<1>2. \A q \in Roles : wk'[q] = IF q = r THEN w ELSE wk[q]
  BY DEF WorkersTyped
<1> QED
  BY <1>1, <1>2 DEF WorkersTyped

\* A worker's own steps.
LEMMA LeaveTyped ==
  ASSUME WorkersTyped, PipesTyped, NEW r \in Roles, NEW kind \in {"stopped", "error"},
         NEW exit \in {0, 1}, Leave(r, kind, exit)
  PROVE  WorkersTyped' /\ replies' \in [Roles -> Seq(Replies)]
<1> DEFINE w == [wk[r] EXCEPT !.pc = "leaving", !.exit = exit]
<1>1. wk[r] \in WkType
  BY DEF WorkersTyped
<1>2. w \in WkType /\ w.pc = "leaving" /\ w.exit = exit
  BY <1>1 DEF WkType, WorkerStates
<1>3. wk' = [wk EXCEPT ![r] = w]
  BY DEF Leave, WorkersTyped
<1> HIDE DEF w
<1>4. WorkersTyped'
  <2>1. w.exit # Nothing
    BY <1>2, BenchmarkConstants
  <2> QED
    BY <1>2, <1>3, <2>1, WkTyped
<1>5. replies' \in [Roles -> Seq(Replies)]
  BY Messages DEF Leave, PipesTyped
<1> QED
  BY <1>4, <1>5

LEMMA ReplyTyped ==
  ASSUME WorkersTyped, PipesTyped, NEW r \in Roles, NEW m \in Replies,
         NEW w \in WkType, w.pc = "ready", Reply(r, m, w)
  PROVE  WorkersTyped' /\ replies' \in [Roles -> Seq(Replies)]
<1>1. CASE Orphaned
  BY <1>1, LeaveTyped DEF Reply
<1>2. CASE ~Orphaned
  <2>1. wk' = [wk EXCEPT ![r] = w]
    BY <1>2 DEF Reply
  <2>2. WorkersTyped'
    BY <2>1, WkTyped
  <2>3. replies' \in [Roles -> Seq(Replies)]
    <3>1. replies' = [replies EXCEPT ![r] = Append(@, m)]
      BY <1>2 DEF Reply
    <3> QED
      BY <3>1, QueueTyped DEF PipesTyped
  <2> QED
    BY <2>2, <2>3
<1> QED
  BY <1>1, <1>2

LEMMA TakeTyped ==
  ASSUME PipesTyped, NEW r \in Roles, commands[r] # <<>>, Take(r)
  PROVE  commands' \in [Roles -> Seq(Commands)] /\ Head(commands[r]) \in Commands
BY DEF Take, PipesTyped

LEMMA WorkerTyped ==
  ASSUME BenchmarkTypeOK, NEW r \in Roles, WorkerStep(r)
  PROVE  BenchmarkTypeOK'
<1>0. /\ co \in CoType /\ WorkersTyped /\ PipesTyped
      /\ coordinated \in Seq(Roles \X PassIndices) /\ faults \in 0..MaxFaults
  BY TypeParts
<1>1. UNCHANGED <<co, coordinated, faults>>
  BY DEF WorkerStep
<1>2. wk[r] \in WkType
  BY <1>0 DEF WorkersTyped
<1>3. SUFFICES WorkersTyped' /\ PipesTyped'
  BY <1>0, <1>1, TypePartsNext
<1>4. CASE ReceivePrepare(r)
  <2> DEFINE w == [wk[r] EXCEPT !.pc = "preparing"]
  <2>1. w \in WkType /\ w.pc = "preparing"
    BY <1>2 DEF WkType, WorkerStates
  <2>2. wk' = [wk EXCEPT ![r] = w]
    BY <1>0, <1>4 DEF ReceivePrepare, WorkersTyped
  <2>3. WorkersTyped'
    BY <1>0, <2>1, <2>2, WkTyped
  <2> QED
    BY <1>0, <1>4, <2>3, TakeTyped DEF ReceivePrepare, Received, PipesTyped
<1>5. CASE RefuseCommand(r) \/ ReceiveShutdown(r)
  <2>1. \E kind \in {"stopped", "error"}, exit \in {0, 1} : Leave(r, kind, exit)
    BY <1>5 DEF RefuseCommand, ReceiveShutdown
  <2>2. commands' \in [Roles -> Seq(Commands)]
    BY <1>0, <1>5, TakeTyped DEF RefuseCommand, ReceiveShutdown, Received
  <2> QED
    BY <1>0, <2>1, <2>2, LeaveTyped DEF PipesTyped
<1>6. CASE WorkFails(r) \/ ReceiveEnd(r)
  <2>1. Leave(r, "error", 1) /\ UNCHANGED commands
    BY <1>6 DEF WorkFails, ReceiveEnd
  <2> QED
    BY <1>0, <2>1, LeaveTyped DEF PipesTyped
<1>7. CASE Exit(r)
  <2> DEFINE w == [wk[r] EXCEPT !.pc = "gone"]
  <2>1. w \in WkType /\ w.pc = "gone" /\ w.exit = wk[r].exit
    BY <1>2 DEF WkType, WorkerStates
  <2>2. wk' = [wk EXCEPT ![r] = w] /\ wk[r].exit # Nothing
    BY <1>0, <1>7 DEF Exit, Able, WorkersTyped
  <2>3. WorkersTyped'
    BY <1>0, <2>1, <2>2, WkTyped
  <2> QED
    BY <1>0, <1>7, <2>3 DEF Exit, PipesTyped
<1>8. CASE ReceiveRun(r)
  <2>1. Head(commands[r]).pass \in PassIndices /\ commands' \in [Roles -> Seq(Commands)]
    BY <1>0, <1>8, TakeTyped, MessageFields DEF ReceiveRun, Received
  <2> DEFINE w == [wk[r] EXCEPT !.pc = "running", !.pass = Head(commands[r]).pass]
  <2>2. w \in WkType /\ w.pc = "running" /\ w.pass \in PassIndices
    BY <1>2, <2>1 DEF WkType, WorkerStates
  <2>3. wk' = [wk EXCEPT ![r] = w]
    BY <1>0, <1>8 DEF ReceiveRun, WorkersTyped
  <2>4. w.pass # Nothing
    BY <2>2, BenchmarkConstants DEF PassIndices
  <2>5. WorkersTyped'
    BY <1>0, <2>2, <2>3, <2>4, WkTyped
  <2> QED
    BY <1>0, <1>8, <2>1, <2>5 DEF ReceiveRun, PipesTyped
<1>9. CASE Prepared(r)
  <2>1. PICK m \in Metadata : Reply(r, [type |-> "ready", metadata |-> m],
                                    [wk[r] EXCEPT !.pc = "ready", !.metadata = m])
    BY <1>9 DEF Prepared
  <2> DEFINE w == [wk[r] EXCEPT !.pc = "ready", !.metadata = m]
  <2>2. w \in WkType /\ w.pc = "ready"
    BY <1>2 DEF WkType, WorkerStates
  <2>3. WorkersTyped' /\ replies' \in [Roles -> Seq(Replies)]
    BY <1>0, <2>1, <2>2, ReplyTyped, Messages
  <2> QED
    BY <1>0, <1>9, <2>3 DEF Prepared, PipesTyped
<1>10. CASE Measured(r)
  <2> DEFINE w == [wk[r] EXCEPT !.pc = "ready", !.pass = Nothing]
  <2>1. w \in WkType /\ w.pc = "ready"
    BY <1>2 DEF WkType, WorkerStates
  <2>2. wk[r].pass \in PassIndices
    <3>1. wk[r].pass # Nothing
      BY <1>0, <1>10 DEF Measured, Able, WorkersTyped
    <3> QED
      BY <1>2, <3>1 DEF WkType
  <2>3. WorkersTyped' /\ replies' \in [Roles -> Seq(Replies)]
    BY <1>0, <1>10, <2>1, <2>2, ReplyTyped, Messages DEF Measured
  <2> QED
    BY <1>0, <1>10, <2>3 DEF Measured, PipesTyped
<1> QED
  BY <1>4, <1>5, <1>6, <1>7, <1>8, <1>9, <1>10 DEF WorkerStep

\* What may happen to a worker.
LEMMA FaultTyped ==
  ASSUME BenchmarkTypeOK, NEW r \in Roles, Obey(r) \/ Crash(r) \/ Hang(r)
  PROVE  BenchmarkTypeOK'
<1>0. /\ co \in CoType /\ WorkersTyped /\ PipesTyped
      /\ coordinated \in Seq(Roles \X PassIndices) /\ faults \in 0..MaxFaults
  BY TypeParts
<1>1. UNCHANGED <<co, commands, replies, coordinated>>
  BY DEF Obey, Crash, Hang
<1>2. faults' \in 0..MaxFaults
  BY <1>0, BenchmarkConstants DEF Obey, Crash, Hang, Fault
<1>3. \E w \in WkType : /\ wk' = [wk EXCEPT ![r] = w]
                        /\ w.pc = "running" => w.pass # Nothing
                        /\ w.pc \in {"leaving", "gone"} => w.exit # Nothing
  <2>1. wk[r] \in WkType /\ wk[r].pc = "running" => wk[r].pass # Nothing
    BY <1>0 DEF WorkersTyped
  <2>2. CASE Obey(r) \/ Crash(r)
    <3> DEFINE w == [wk[r] EXCEPT !.pc = "gone", !.exit = 1]
    <3>1. wk' = [wk EXCEPT ![r] = w]
      BY <1>0, <2>2 DEF Obey, Crash, WorkersTyped
    <3>2. w \in WkType /\ w.pc = "gone" /\ w.exit = 1
      BY <1>0 DEF WorkersTyped, WkType
    <3>3. w.exit # Nothing
      BY <3>2, BenchmarkConstants
    <3> HIDE DEF w
    <3> QED
      BY <3>1, <3>2, <3>3
  <2>3. CASE Hang(r)
    <3> DEFINE w == [wk[r] EXCEPT !.hung = TRUE]
    <3>1. wk' = [wk EXCEPT ![r] = w]
      BY <1>0, <2>3 DEF Hang, WorkersTyped
    <3>2. w \in WkType /\ w.pc = wk[r].pc /\ w.pass = wk[r].pass /\ w.exit = wk[r].exit
      BY <1>0 DEF WorkersTyped, WkType
    <3> QED
      BY <1>0, <3>1, <3>2 DEF WorkersTyped
  <2> QED
    BY <2>2, <2>3
<1>4. WorkersTyped'
  BY <1>0, <1>3, WkTyped
<1> QED
  BY <1>0, <1>1, <1>2, <1>4, TypePartsNext DEF PipesTyped

LEMMA ShutsTyped ==
  ASSUME co \in CoType, NEW failed, failed \in BOOLEAN, Shut(failed)
  PROVE  co' \in CoType
BY ShutTyped

\* The coordinator's steps.
LEMMA StartTyped ==
  ASSUME BenchmarkTypeOK,
         Spawn \/ Prepare \/ ReceiveReady \/ RunPass \/ ReceiveResult \/ ReceiveNothing
  PROVE  BenchmarkTypeOK'
<1>0. /\ co \in CoType /\ WorkersTyped /\ PipesTyped
      /\ coordinated \in Seq(Roles \X PassIndices) /\ faults \in 0..MaxFaults
  BY TypeParts
<1>1. faults' = faults
  BY DEF Spawn, Prepare, ReceiveReady, RunPass, ReceiveResult, ReceiveNothing, Send, Receive
<1>2. SUFFICES /\ co' \in CoType /\ WorkersTyped' /\ PipesTyped'
               /\ coordinated' \in Seq(Roles \X PassIndices)
  BY <1>0, <1>1, TypePartsNext
<1>3. co.role \in Roles /\ co.pass \in PassIndices /\ co.half \in 1..2
  BY <1>0 DEF CoType
<1>4. \A kind \in FailureKinds : Abort(kind) => co' \in CoType
  BY <1>0, AbortTyped
<1>5. \A pc \in Places, r \in Roles : Goto(pc, r) => co' \in CoType
  BY <1>0, GotoTyped
<1>6. ASSUME NEW r \in Roles, NEW command \in Commands, NEW next \in Places,
             Send(r, command, next)
      PROVE  /\ co' \in CoType /\ WorkersTyped' /\ PipesTyped'
             /\ coordinated' \in Seq(Roles \X PassIndices)
  <2>1. UNCHANGED <<wk, replies, coordinated>>
    BY <1>6 DEF Send
  <2>2. co' \in CoType
    BY <1>4, <1>5, <1>6 DEF Send, FailureKinds
  <2>3. commands' \in [Roles -> Seq(Commands)]
    <3>1. commands' = commands \/ commands' = [commands EXCEPT ![r] = Append(@, command)]
      BY <1>6 DEF Send
    <3>2. [commands EXCEPT ![r] = Append(@, command)] \in [Roles -> Seq(Commands)]
      BY <1>0, QueueTyped DEF PipesTyped
    <3> QED
      BY <1>0, <3>1, <3>2 DEF PipesTyped
  <2> QED
    BY <1>0, <2>1, <2>2, <2>3 DEF PipesTyped, WorkersTyped
<1>7. CASE Spawn
  <2>1. WorkersTyped'
    <3>1. CASE wk' = wk
      BY <1>0, <3>1 DEF WorkersTyped
    <3>2. CASE wk' = [wk EXCEPT ![co.role].pc = "created"]
      <4> DEFINE w == [wk[co.role] EXCEPT !.pc = "created"]
      <4>0. wk[co.role] \in WkType
        BY <1>0, <1>3 DEF WorkersTyped
      <4>1. w \in WkType /\ w.pc = "created"
        BY <4>0 DEF WkType, WorkerStates
      <4>2. wk' = [wk EXCEPT ![co.role] = w]
        BY <3>2
      <4> HIDE DEF w
      <4> QED
        BY <1>0, <1>3, <4>1, <4>2, WkTyped
    <3> QED
      BY <1>7, <3>1, <3>2 DEF Spawn
  <2>2. co' \in CoType
    BY <1>4, <1>5, <1>7 DEF Spawn, FailureKinds, Places, Roles
  <2> QED
    BY <1>0, <1>7, <2>1, <2>2 DEF Spawn, PipesTyped
<1>8. CASE Prepare
  BY <1>3, <1>6, <1>8, Messages DEF Prepare, Places
<1>9. CASE RunPass
  <2>1. Turn(co.pass, co.half) \in Roles
    BY DEF Turn, Starter, Other, Roles
  <2> QED
    BY <1>3, <1>6, <1>9, <2>1, Messages DEF RunPass, Places
<1>10. CASE ReceiveNothing
  <2>1. co' \in CoType
    BY <1>4, <1>10 DEF ReceiveNothing, FailureKinds
  <2> QED
    BY <1>0, <1>10, <2>1 DEF ReceiveNothing, PipesTyped, WorkersTyped
<1>11. ASSUME NEW pc, Receive(pc)
       PROVE  TheReply \in Replies /\ WorkersTyped' /\ PipesTyped'
  <2>1. replies[co.role] # <<>> /\ replies' = [replies EXCEPT ![co.role] = Tail(@)]
    BY <1>11 DEF Receive
  <2>2. TheReply \in Replies /\ replies' \in [Roles -> Seq(Replies)]
    BY <1>0, <1>3, <2>1, QueueTyped DEF PipesTyped, TheReply
  <2> QED
    BY <1>0, <1>11, <2>2 DEF Receive, PipesTyped, WorkersTyped
<1>12. CASE ReceiveReady
  <2>1. TheReply \in Replies /\ WorkersTyped' /\ PipesTyped'
    BY <1>11, <1>12 DEF ReceiveReady
  <2>2. coordinated' = coordinated
    BY <1>12 DEF ReceiveReady, IsReady
  <2>3. TheReply.type \in FailureKinds
    BY <2>1, MessageFields DEF FailureKinds
  <2>4. co' \in CoType
    BY <1>4, <1>5, <1>12, <2>3 DEF ReceiveReady, IsReady, FailureKinds, Places, Roles
  <2> QED
    BY <1>0, <2>1, <2>2, <2>4
<1>13. CASE ReceiveResult
  <2>1. TheReply \in Replies /\ WorkersTyped' /\ PipesTyped'
    BY <1>11, <1>13 DEF ReceiveResult
  <2>2. TheReply.type \in FailureKinds
    BY <2>1, MessageFields DEF FailureKinds
  <2>3. CASE Unfit("result") \/ TheReply.pass # co.pass
    <3>1. \E kind \in FailureKinds : Abort(kind)
      BY <1>13, <2>2, <2>3 DEF ReceiveResult, IsResult, FailureKinds
    <3>2. coordinated' = coordinated
      BY <1>13, <2>3 DEF ReceiveResult, IsResult
    <3> QED
      BY <1>0, <1>4, <2>1, <3>1, <3>2
  <2>4. CASE ~Unfit("result") /\ TheReply.pass = co.pass
    <3>1. coordinated' = Append(coordinated, <<co.role, co.pass>>)
      BY <1>13, <2>4 DEF ReceiveResult, IsResult
    <3>2. coordinated' \in Seq(Roles \X PassIndices)
      BY <1>0, <1>3, <3>1
    <3>3. co' \in CoType
      <4>1. CASE co.half = 1
        <5>1. co' = [co EXCEPT !.pc = "run", !.half = 2]
          BY <1>13, <2>4, <4>1 DEF ReceiveResult, IsResult
        <5> QED
          BY <1>0, <5>1, MeasureTyped
      <4>2. CASE co.half # 1 /\ co.pass + 1 < Passes
        <5>1. co.pass + 1 \in PassIndices
          BY <1>3, <4>2, BenchmarkConstants DEF PassIndices
        <5>2. co' = [co EXCEPT !.pc = "run", !.half = 1, !.pass = co.pass + 1]
          BY <1>13, <2>4, <4>2 DEF ReceiveResult, IsResult
        <5> QED
          BY <1>0, <5>1, <5>2, MeasureTyped
      <4>3. CASE co.half # 1 /\ ~(co.pass + 1 < Passes)
        BY <1>0, <1>13, <2>4, <4>3, StopTyped DEF ReceiveResult, IsResult
      <4> QED
        BY <4>1, <4>2, <4>3
    <3> QED
      BY <2>1, <3>2, <3>3
  <2> QED
    BY <2>3, <2>4
<1> QED
  BY <1>7, <1>8, <1>9, <1>10, <1>12, <1>13

LEMMA StopsTyped ==
  ASSUME BenchmarkTypeOK,
         \/ Shutdown \/ ReceiveStopped \/ Join \/ Terminate \/ JoinTerminated \/ JoinKilled
         \/ Finalize \/ Interrupt \/ CoordinatorDies
  PROVE  BenchmarkTypeOK'
<1>0. /\ co \in CoType /\ WorkersTyped /\ PipesTyped
      /\ coordinated \in Seq(Roles \X PassIndices) /\ faults \in 0..MaxFaults
  BY TypeParts
<1>1. faults' \in 0..MaxFaults /\ coordinated' = coordinated
  <2>1. coordinated' = coordinated /\ (faults' = faults \/ Fault)
    BY DEF Shutdown, ReceiveStopped, Join, Terminate, JoinTerminated, JoinKilled, Finalize,
       Interrupt, CoordinatorDies
  <2> QED
    BY <1>0, <2>1, BenchmarkConstants DEF Fault
<1>2. SUFFICES co' \in CoType /\ WorkersTyped' /\ PipesTyped'
  BY <1>0, <1>1, TypePartsNext
<1>3. co.role \in Roles
  BY <1>0 DEF CoType
<1>4. \A b \in BOOLEAN : Shut(b) => co' \in CoType
  BY <1>0, ShutsTyped
<1>5. \A pc \in Places : Goto(pc, co.role) => co' \in CoType
  BY <1>0, <1>3, GotoTyped
<1>6. NextSurvivor(co) => co' \in CoType
  BY <1>0, SurvivorTyped
<1>7. ASSUME NEW signal \in {"term", "kill"}, wk' = [wk EXCEPT ![co.role].signal = signal]
      PROVE  WorkersTyped'
  <2> DEFINE w == [wk[co.role] EXCEPT !.signal = signal]
  <2>0. wk[co.role] \in WkType
    BY <1>0, <1>3 DEF WorkersTyped
  <2>1. /\ w \in WkType /\ w.pc = wk[co.role].pc /\ w.pass = wk[co.role].pass
        /\ w.exit = wk[co.role].exit
    BY <2>0, <1>7 DEF WkType
  <2>2. wk' = [wk EXCEPT ![co.role] = w]
    BY <1>7
  <2> HIDE DEF w
  <2>3. /\ w.pc = "running" => w.pass # Nothing
        /\ w.pc \in {"leaving", "gone"} => w.exit # Nothing
    BY <1>0, <1>3, <2>1 DEF WorkersTyped
  <2> QED
    BY <1>0, <1>3, <2>1, <2>2, <2>3, WkTyped
<1>8. UNCHANGED wk => WorkersTyped'
  BY <1>0 DEF WorkersTyped
<1>9. CASE Shutdown
  <2>1. co' \in CoType
    BY <1>4, <1>5, <1>9 DEF Shutdown, Places
  <2>2. commands' \in [Roles -> Seq(Commands)]
    <3>1. \/ commands' = commands
          \/ commands' = [commands EXCEPT ![co.role] = Append(@, [type |-> "shutdown"])]
      BY <1>9 DEF Shutdown
    <3>2. [commands EXCEPT ![co.role] = Append(@, [type |-> "shutdown"])]
            \in [Roles -> Seq(Commands)]
      BY <1>0, <1>3, QueueTyped, Messages DEF PipesTyped
    <3> QED
      BY <1>0, <3>1, <3>2 DEF PipesTyped
  <2> QED
    BY <1>0, <1>8, <1>9, <2>1, <2>2 DEF Shutdown, PipesTyped
<1>10. CASE ReceiveStopped
  <2>1. co' \in CoType
    BY <1>4, <1>5, <1>10 DEF ReceiveStopped, Places
  <2>2. replies' \in [Roles -> Seq(Replies)]
    <3>1. \/ replies' = replies
          \/ replies[co.role] # <<>> /\ replies' = [replies EXCEPT ![co.role] = Tail(@)]
      BY <1>10 DEF ReceiveStopped
    <3>2. replies[co.role] # <<>>
            => [replies EXCEPT ![co.role] = Tail(@)] \in [Roles -> Seq(Replies)]
      BY <1>0, <1>3, QueueTyped DEF PipesTyped
    <3> QED
      BY <1>0, <3>1, <3>2 DEF PipesTyped
  <2> QED
    BY <1>0, <1>8, <1>10, <2>1, <2>2 DEF ReceiveStopped, PipesTyped
<1>11. CASE Join
  <2>1. (Alive(co.role) \/ ExitedBadly(co.role)) \in BOOLEAN
    BY DEF Alive, ExitedBadly
  <2> QED
    BY <1>0, <1>4, <1>8, <1>11, <2>1 DEF Join, PipesTyped
<1>12. CASE Terminate
  <2>1. co' \in CoType
    BY <1>5, <1>6, <1>12 DEF Terminate, Places
  <2> QED
    BY <1>0, <1>7, <1>8, <1>12, <2>1 DEF Terminate, PipesTyped
<1>13. CASE JoinTerminated
  <2>1. co' \in CoType
    BY <1>5, <1>6, <1>13 DEF JoinTerminated, Places
  <2> QED
    BY <1>0, <1>7, <1>8, <1>13, <2>1 DEF JoinTerminated, PipesTyped
<1>14. CASE JoinKilled
  BY <1>0, <1>6, <1>8, <1>14 DEF JoinKilled, PipesTyped
<1>15. CASE Finalize
  <2>1. co' \in CoType
    <3> DEFINE e == co.errors \/ \E r \in Roles : Alive(r)
               f == IF co.failure = Nothing /\ e THEN "stop" ELSE co.failure
    <3>1. co' = [co EXCEPT !.pc = "ended", !.errors = e, !.failure = f]
      BY <1>15 DEF Finalize
    <3>2. e \in BOOLEAN /\ f \in FailureKinds \cup {Nothing}
      BY <1>0 DEF CoType, FailureKinds
    <3> HIDE DEF e, f
    <3> QED
      BY <1>0, <3>1, <3>2 DEF CoType, Places
  <2>2. ASSUME NEW r \in Roles
        PROVE  /\ wk'[r] \in WkType /\ wk'[r].pc = wk[r].pc /\ wk'[r].pass = wk[r].pass
               /\ wk'[r].exit = wk[r].exit
    <3> DEFINE f == Spawned(r) /\ ~Alive(r)
    <3>1. f \in BOOLEAN /\ wk'[r] = [wk[r] EXCEPT !.finalized = f]
      BY <1>15 DEF Finalize, Spawned
    <3>2. wk[r] \in WkType
      BY <1>0 DEF WorkersTyped
    <3> HIDE DEF f
    <3> QED
      BY <3>1, <3>2 DEF WkType
  <2>3. wk' = [r \in Roles |-> wk'[r]]
    BY <1>15 DEF Finalize
  <2>4. WorkersTyped'
    <3>1. wk' \in [Roles -> WkType]
      BY <2>2, <2>3
    <3> QED
      BY <1>0, <2>2, <3>1 DEF WorkersTyped
  <2> QED
    BY <1>0, <1>15, <2>1, <2>4 DEF Finalize, PipesTyped
<1>16. CASE Interrupt
  <2>1. co' \in CoType
    BY <1>0, <1>4, <1>6, <1>16, AbortTyped DEF Interrupt, FailureKinds
  <2> QED
    BY <1>0, <1>8, <1>16, <2>1 DEF Interrupt, PipesTyped
<1>17. CASE CoordinatorDies
  BY <1>0, <1>8, <1>17 DEF CoordinatorDies, CoType, Places, PipesTyped
<1> QED
  BY <1>9, <1>10, <1>11, <1>12, <1>13, <1>14, <1>15, <1>16, <1>17

LEMMA BenchmarkTypesInit == Init => BenchmarkTypeOK
<1> SUFFICES ASSUME Init PROVE BenchmarkTypeOK
  OBVIOUS
<1>1. co \in CoType
  BY BenchmarkConstants DEF Init, CoType, Places, Roles, PassIndices
<1>2. WorkersTyped
  BY DEF Init, WorkersTyped, WkType
<1>3. PipesTyped /\ coordinated \in Seq(Roles \X PassIndices) /\ faults \in 0..MaxFaults
  BY BenchmarkConstants DEF Init, PipesTyped
<1> QED
  BY <1>1, <1>2, <1>3, TypeParts

LEMMA BenchmarkTypesNext == BenchmarkTypeOK /\ [Next]_vars => BenchmarkTypeOK'
<1> SUFFICES ASSUME BenchmarkTypeOK, [Next]_vars PROVE BenchmarkTypeOK'
  OBVIOUS
<1>1. CASE UNCHANGED vars
  BY <1>1 DEF vars, BenchmarkTypeOK
<1>2. CASE Next
  BY <1>2, StartTyped, StopsTyped, WorkerTyped, FaultTyped DEF Next, Coordinate
<1> QED
  BY <1>1, <1>2

\* The state of coordinator, workers and pipes is always of its types.
THEOREM BenchmarkTypes == Spec => []BenchmarkTypeOK
BY BenchmarkTypesInit, BenchmarkTypesNext, PTL DEF Spec, SafeSpec

-----------------------------------------------------------------------------
\* a worker that works, or will: work was asked of it
Asked(r) == Busy(r) \/ \E i \in 1..Len(commands[r]) : commands[r][i].type # "shutdown"

\* what the workers do, whatever the coordinator has come to
Talk ==
  /\ ~(Asked("reference") /\ Asked("candidate"))
  /\ \A r \in Roles :
       /\ wk[r].pc \in {"absent", "created", "preparing"}
            => replies[r] = <<>> /\ wk[r].metadata = Nothing
       /\ \A i \in 1..Len(replies[r]) :
            replies[r][i].type = "ready" => replies[r][i].metadata = wk[r].metadata

\* nothing is under way between the coordinator and a worker, or one thing at most
Quiet(r) == commands[r] = <<>> /\ replies[r] = <<>> /\ ~Busy(r)
AtMostOne(r) ==
  \/ Quiet(r)
  \/ Len(commands[r]) = 1 /\ replies[r] = <<>> /\ ~Busy(r)
  \/ commands[r] = <<>> /\ replies[r] = <<>> /\ Busy(r)
  \/ commands[r] = <<>> /\ Len(replies[r]) = 1 /\ ~Busy(r)

Early == {"spawn", "prepare", "await_ready", "run", "await_result"}
Waits == {"await_ready", "await_result", "await_stopped"}

\* the run may still return a comparison
Unspoiled == co.failure = Nothing /\ co.errors = FALSE /\ co.pc # "dead"

Begun ==
  /\ co.pc \in Early => co.failure = Nothing /\ co.errors = FALSE
  /\ co.pc = "ended" /\ co.failure = Nothing => co.errors = FALSE
  /\ co.pc = "spawn" => ~Spawned("candidate") /\ (Spawned("reference") <=> co.role = "candidate")
  /\ co.pc # "spawn" /\ Unspoiled => \A r \in Roles : Spawned(r)

Flows ==
  Unspoiled => IF co.pc \in Waits THEN AtMostOne(co.role) /\ Quiet(Other(co.role))
                                  ELSE \A r \in Roles : Quiet(r)

Agreed ==
  Unspoiled =>
    /\ co.pc \in {"prepare", "await_ready"} /\ co.role = "candidate"
         => wk["reference"].metadata \in {"one", "two"}
    /\ co.pc \notin {"spawn", "prepare", "await_ready"}
         => /\ wk["reference"].metadata \in {"one", "two"}
            /\ wk["candidate"].metadata = wk["reference"].metadata

Stopped(r) == wk[r].pc = "gone" /\ wk[r].exit = 0

Left ==
  /\ Unspoiled =>
       /\ co.pc \in {"shutdown", "await_stopped", "join"} /\ co.role = "candidate"
            => Stopped("reference")
       /\ co.pc \in {"survivors", "join_terminate", "join_kill", "finalize", "ended"}
            => \A r \in Roles : Stopped(r)
  /\ co.pc = "ended" /\ co.failure = Nothing => \A r \in Roles : wk[r].finalized

Counted ==
  /\ co.pc \in {"spawn", "prepare", "await_ready"}
       => coordinated = <<>> /\ co.pass = 0 /\ co.half = 1
  /\ co.pc \in {"run", "await_result"} => Len(coordinated) = 2 * co.pass + co.half - 1
  /\ co.pc = "await_result" => co.role = Turn(co.pass, co.half)
  /\ co.pc \notin Early /\ Unspoiled => Len(coordinated) = 2 * Passes

Progress == Begun /\ Flows /\ Agreed /\ Left /\ Counted

BenchmarkInv == BenchmarkTypeOK /\ Talk /\ Progress

-----------------------------------------------------------------------------
LEMMA Typed ==
  ASSUME BenchmarkTypeOK
  PROVE  /\ co \in CoType /\ WorkersTyped /\ PipesTyped
         /\ coordinated \in Seq(Roles \X PassIndices)
         /\ co.role \in Roles /\ co.pass \in PassIndices /\ co.half \in 1..2
         /\ co.failure \in FailureKinds \cup {Nothing} /\ co.errors \in BOOLEAN
         /\ \A r \in Roles : wk[r] \in WkType
BY TypeParts DEF CoType, WorkersTyped

\* A run that is spoiled owes nothing.
LEMMA SpoiledProgress ==
  ASSUME co'.pc \notin Early,
         co'.failure # Nothing \/ (co'.errors # FALSE /\ co'.pc # "ended") \/ co'.pc = "dead"
  PROVE  Progress'
BY DEF Progress, Begun, Flows, Agreed, Left, Counted, Unspoiled, Early

LEMMA AbortProgress ==
  ASSUME BenchmarkTypeOK, NEW kind \in FailureKinds, Abort(kind)
  PROVE  Progress'
BY Typed, AbortTyped, SpoiledProgress, BenchmarkConstants DEF Early

LEMMA OneSequence ==
  ASSUME NEW S, NEW q \in Seq(S), q # <<>>
  PROVE  /\ Tail(q) \in Seq(S) /\ Len(Tail(q)) = Len(q) - 1
         /\ \A i \in 1..Len(Tail(q)) : Tail(q)[i] = q[i + 1] /\ i + 1 \in 1..Len(q)
         /\ Len(q) = 1 => Tail(q) = <<>>
<1>1. /\ Tail(q) \in Seq(S) /\ Len(Tail(q)) = Len(q) - 1
      /\ \A i \in 1..Len(Tail(q)) : Tail(q)[i] = q[i + 1]
  BY HeadTailProperties
<1>2. Len(q) \in Nat /\ Len(Tail(q)) \in Nat
  BY <1>1, LenProperties
<1>3. \A i \in 1..Len(Tail(q)) : i + 1 \in 1..Len(q)
  BY <1>1, <1>2
<1>4. Len(Tail(q)) = 0 => Tail(q) = <<>>
  BY <1>1, EmptySeq
<1> QED
  BY <1>1, <1>2, <1>3, <1>4

LEMMA LongerSequence ==
  ASSUME NEW S, NEW q \in Seq(S), NEW e \in S
  PROVE  /\ Append(q, e) \in Seq(S) /\ Len(Append(q, e)) = Len(q) + 1
         /\ \A i \in 1..Len(Append(q, e)) :
              Append(q, e)[i] = IF i = Len(q) + 1 THEN e ELSE q[i]
OBVIOUS

\* What a worker does concerns nobody but itself, and answers what it was asked.
Alone(r) ==
  /\ \A q \in Roles : q # r => /\ wk'[q] = wk[q] /\ commands'[q] = commands[q]
                               /\ replies'[q] = replies[q]
  /\ Spawned(r)' = Spawned(r)
  /\ wk[r].pc # "gone"
  /\ wk[r].metadata # Nothing => wk'[r].metadata = wk[r].metadata
  /\ wk'[r].finalized = wk[r].finalized

Answers(r) ==
  /\ Asked(r)' => Asked(r)
  /\ wk'[r].pc \in {"absent", "created", "preparing"}
       => replies'[r] = <<>> /\ wk'[r].metadata = Nothing
  /\ \A i \in 1..Len(replies'[r]) :
       replies'[r][i].type = "ready" => replies'[r][i].metadata = wk'[r].metadata
  /\ ~Orphaned /\ Quiet(r) => Quiet(r)'
  /\ ~Orphaned /\ AtMostOne(r) => AtMostOne(r)'

\* before and after, as the queues and the place of the worker
LEMMA SameTalks ==
  ASSUME BenchmarkTypeOK, Talk, NEW r \in Roles, UNCHANGED <<commands, replies>>,
         wk'[r].metadata = wk[r].metadata,
         wk[r].pc # "absent",
         wk'[r].pc \notin {"absent", "created", "preparing", "running"}
           \/ wk'[r].pc = wk[r].pc
  PROVE  Answers(r)
<1>0. wk'[r].pc \in {"absent", "created", "preparing"}
        => replies'[r] = <<>> /\ wk'[r].metadata = Nothing
  BY DEF Talk
<1>1. \A i \in 1..Len(replies'[r]) :
        replies'[r][i].type = "ready" => replies'[r][i].metadata = wk'[r].metadata
  BY DEF Talk
<1>2. Busy(r)' => Busy(r)
  BY DEF Busy
<1>3. Asked(r)' => Asked(r)
  BY <1>2 DEF Asked
<1>4. (Quiet(r) => Quiet(r)') /\ (AtMostOne(r) => AtMostOne(r)')
  BY <1>2 DEF Quiet, AtMostOne
<1> QED
  BY <1>0, <1>1, <1>3, <1>4 DEF Answers

\* a command is taken up
LEMMA TakeTalks ==
  ASSUME BenchmarkTypeOK, Talk, NEW r \in Roles, commands[r] # <<>>, Take(r),
         replies' = replies, wk'[r].metadata = wk[r].metadata,
         \/ wk[r].pc = "created" /\ wk'[r].pc = "preparing"
         \/ wk[r].pc = "ready" /\ wk'[r].pc = "running",
         Head(commands[r]).type # "shutdown"
  PROVE  Answers(r)
<1>0. commands[r] \in Seq(Commands) /\ commands'[r] = Tail(commands[r])
  BY Typed DEF PipesTyped, Take
<1>1. /\ wk'[r].pc \in {"absent", "created", "preparing"}
           => replies'[r] = <<>> /\ wk'[r].metadata = Nothing
      /\ \A i \in 1..Len(replies'[r]) :
           replies'[r][i].type = "ready" => replies'[r][i].metadata = wk'[r].metadata
  BY DEF Talk
<1>2. ~Busy(r) /\ Busy(r)'
  BY DEF Busy
<1>3. Asked(r)
  BY <1>0 DEF Asked
<1>4. ~Quiet(r)
  BY DEF Quiet
<1>5. AtMostOne(r) => AtMostOne(r)'
  <2> SUFFICES ASSUME AtMostOne(r) PROVE AtMostOne(r)'
    OBVIOUS
  <2>1. Len(commands[r]) = 1 /\ replies[r] = <<>>
    BY <1>2 DEF AtMostOne, Quiet
  <2>2. commands'[r] = <<>> /\ replies'[r] = <<>>
    BY <1>0, <2>1, OneSequence
  <2> QED
    BY <1>2, <2>2 DEF AtMostOne
<1> QED
  BY <1>1, <1>3, <1>4, <1>5 DEF Answers

\* something is sent: the work, or the command, is done with
LEMMA SendTalks ==
  ASSUME BenchmarkTypeOK, Talk, NEW r \in Roles, NEW m \in Replies,
         \/ replies' = [replies EXCEPT ![r] = Append(@, m)]
         \/ Orphaned /\ replies' = replies,
         \/ commands' = commands /\ (Busy(r) \/ Orphaned)
         \/ commands[r] # <<>> /\ Take(r),
         wk'[r].pc \in {"ready", "leaving"},
         m.type = "ready" => m.metadata = wk'[r].metadata,
         \/ wk'[r].metadata = wk[r].metadata
         \/ wk[r].pc = "preparing"
  PROVE  Answers(r)
<1>0. /\ commands[r] \in Seq(Commands) /\ replies[r] \in Seq(Replies)
      /\ commands'[r] \in {commands[r], Tail(commands[r])}
      /\ replies'[r] \in {replies[r], Append(replies[r], m)}
      /\ ~Orphaned => replies'[r] = Append(replies[r], m)
      /\ commands[r] = <<>> => commands'[r] = <<>>
  BY Typed DEF PipesTyped, Take
<1>1. ~Busy(r)' /\ wk'[r].pc \notin {"absent", "created", "preparing"}
  BY DEF Busy
<1>2. \A i \in 1..Len(replies[r]) :
        replies[r][i].type = "ready" => replies[r][i].metadata = wk'[r].metadata
  <2>1. CASE wk'[r].metadata = wk[r].metadata
    BY <2>1 DEF Talk
  <2>2. CASE wk[r].pc = "preparing"
    <3>1. replies[r] = <<>>
      BY <2>2 DEF Talk
    <3> QED
      BY <3>1
  <2> QED
    BY <2>1, <2>2
<1>3. \A i \in 1..Len(replies'[r]) :
        replies'[r][i].type = "ready" => replies'[r][i].metadata = wk'[r].metadata
  <2>1. CASE replies'[r] = replies[r]
    BY <1>2, <2>1
  <2>2. CASE replies'[r] = Append(replies[r], m)
    BY <1>0, <1>2, <2>2, LongerSequence
  <2> QED
    BY <1>0, <2>1, <2>2
<1>4. Asked(r)' => Asked(r)
  <2> SUFFICES ASSUME Asked(r)' PROVE Asked(r)
    OBVIOUS
  <2>1. PICK i \in 1..Len(commands'[r]) : commands'[r][i].type # "shutdown"
    BY <1>1 DEF Asked
  <2>2. CASE commands'[r] = commands[r]
    BY <2>1, <2>2 DEF Asked
  <2>3. CASE commands'[r] = Tail(commands[r]) /\ commands[r] # <<>>
    <3>1. /\ commands'[r][i] = commands[r][i + 1]
          /\ i + 1 \in 1..Len(commands[r])
      BY <1>0, <2>1, <2>3, OneSequence
    <3> QED
      BY <2>1, <3>1 DEF Asked
  <2> QED
    BY <1>0, <2>2, <2>3
<1>5. ASSUME ~Orphaned PROVE ~Quiet(r) /\ (AtMostOne(r) => AtMostOne(r)')
  <2>1. ~Quiet(r)
    BY <1>5 DEF Quiet
  <2>2. ASSUME AtMostOne(r) PROVE AtMostOne(r)'
    <3>1. replies[r] = <<>>
      BY <1>0, <1>5, <2>1, <2>2 DEF AtMostOne, Quiet
    <3>2. commands'[r] = <<>>
      <4>1. CASE commands' = commands /\ Busy(r)
        BY <2>1, <2>2, <4>1, <1>0 DEF AtMostOne, Quiet
      <4>2. CASE commands[r] # <<>> /\ Take(r)
        <5>1. Len(commands[r]) = 1
          BY <1>0, <2>1, <2>2, <4>2 DEF AtMostOne, Quiet
        <5>2. commands'[r] = Tail(commands[r])
          BY <1>0, <4>2, Typed DEF Take, PipesTyped
        <5> QED
          BY <1>0, <4>2, <5>1, <5>2, OneSequence
      <4> QED
        BY <1>5, <4>1, <4>2
    <3>3. Len(replies'[r]) = 1
      <4>1. Len(Append(replies[r], m)) = Len(replies[r]) + 1
        BY <1>0, LongerSequence
      <4>2. Len(replies[r]) = 0
        BY <3>1, EmptySeq
      <4>3. replies'[r] = Append(replies[r], m)
        BY <1>0, <1>5
      <4> QED
        BY <4>1, <4>2, <4>3
    <3> QED
      BY <1>1, <3>2, <3>3 DEF AtMostOne
  <2> QED
    BY <2>1, <2>2
<1> QED
  BY <1>1, <1>3, <1>4, <1>5 DEF Answers

LEMMA WorkerTalks ==
  ASSUME BenchmarkTypeOK, Talk, NEW r \in Roles,
         WorkerStep(r) \/ Obey(r) \/ Crash(r) \/ Hang(r)
  PROVE  Alone(r) /\ Answers(r)
<1>0. /\ wk \in [Roles -> WkType] /\ wk[r] \in WkType
      /\ commands \in [Roles -> Seq(Commands)] /\ replies \in [Roles -> Seq(Replies)]
  BY Typed DEF WorkersTyped, PipesTyped
<1>1. ASSUME NEW kind \in {"stopped", "error"}, NEW exit \in {0, 1}, Leave(r, kind, exit)
      PROVE  /\ wk'[r].pc = "leaving" /\ wk'[r].metadata = wk[r].metadata
             /\ wk'[r].finalized = wk[r].finalized
             /\ \A q \in Roles : q # r => wk'[q] = wk[q] /\ replies'[q] = replies[q]
             /\ \/ replies' = [replies EXCEPT ![r] = Append(@, [type |-> kind])]
                \/ Orphaned /\ replies' = replies
             /\ [type |-> kind] \in Replies
  <2>1. wk'[r] = [wk[r] EXCEPT !.pc = "leaving", !.exit = exit]
    BY <1>0, <1>1 DEF Leave
  <2>2. /\ wk'[r].pc = "leaving" /\ wk'[r].metadata = wk[r].metadata
        /\ wk'[r].finalized = wk[r].finalized
    BY <1>0, <2>1 DEF WkType
  <2> QED
    BY <1>0, <1>1, <2>2, Messages DEF Leave
<1>2. CASE ReceivePrepare(r)
  <2>1. /\ wk'[r] = [wk[r] EXCEPT !.pc = "preparing"] /\ wk[r].pc = "created"
        /\ \A q \in Roles : q # r => wk'[q] = wk[q] /\ commands'[q] = commands[q]
        /\ replies' = replies
    BY <1>0, <1>2 DEF ReceivePrepare, Able, Take
  <2>2. /\ wk'[r].pc = "preparing" /\ wk'[r].metadata = wk[r].metadata
        /\ wk'[r].finalized = wk[r].finalized
    BY <1>0, <2>1 DEF WkType
  <2>3. Alone(r)
    BY <2>1, <2>2 DEF Alone, Spawned
  <2>4. Answers(r)
    BY <1>2, <2>1, <2>2, TakeTalks DEF ReceivePrepare, Received
  <2> QED
    BY <2>3, <2>4
<1>3. CASE ReceiveRun(r)
  <2>1. /\ wk'[r] = [wk[r] EXCEPT !.pc = "running", !.pass = Head(commands[r]).pass]
        /\ wk[r].pc = "ready"
        /\ \A q \in Roles : q # r => wk'[q] = wk[q] /\ commands'[q] = commands[q]
        /\ replies' = replies
    BY <1>0, <1>3 DEF ReceiveRun, Able, Take
  <2>2. /\ wk'[r].pc = "running" /\ wk'[r].metadata = wk[r].metadata
        /\ wk'[r].finalized = wk[r].finalized
    BY <1>0, <2>1 DEF WkType
  <2>3. Alone(r)
    BY <2>1, <2>2 DEF Alone, Spawned
  <2>4. Answers(r)
    BY <1>3, <2>1, <2>2, TakeTalks DEF ReceiveRun, Received
  <2> QED
    BY <2>3, <2>4
<1>4. CASE RefuseCommand(r) \/ ReceiveShutdown(r)
  <2>1. PICK kind \in {"stopped", "error"}, exit \in {0, 1} : Leave(r, kind, exit)
    BY <1>4 DEF RefuseCommand, ReceiveShutdown
  <2>2. commands[r] # <<>> /\ Take(r) /\ wk[r].pc \in {"created", "ready"}
    BY <1>4 DEF RefuseCommand, ReceiveShutdown, Received, Able
  <2>3. Alone(r)
    BY <1>0, <1>1, <2>1, <2>2 DEF Alone, Spawned, Take
  <2>4. Answers(r)
    BY <1>1, <2>1, <2>2, SendTalks
  <2> QED
    BY <2>3, <2>4
<1>5. CASE WorkFails(r) \/ ReceiveEnd(r)
  <2>1. Leave(r, "error", 1) /\ UNCHANGED commands /\ (Busy(r) \/ Orphaned)
    BY <1>5 DEF WorkFails, ReceiveEnd, Busy
  <2>2. wk[r].pc \in {"created", "ready", "preparing", "running"}
    BY <1>5 DEF WorkFails, ReceiveEnd
  <2>3. Alone(r)
    BY <1>0, <1>1, <2>1, <2>2 DEF Alone, Spawned
  <2>4. Answers(r)
    BY <1>1, <2>1, <2>2, SendTalks
  <2> QED
    BY <2>3, <2>4
<1>6. ASSUME NEW m \in Replies, NEW w \in WkType, Reply(r, m, w), UNCHANGED commands,
             Busy(r), w.pc = "ready", w.finalized = wk[r].finalized,
             m.type = "ready" => m.metadata = w.metadata,
             w.metadata = wk[r].metadata \/ wk[r].pc = "preparing"
      PROVE  Alone(r) /\ Answers(r)
  <2>1. wk[r].pc \in {"preparing", "running"}
    BY <1>6 DEF Busy
  <2>2. wk[r].pc = "preparing" => wk[r].metadata = Nothing
    BY DEF Talk
  <2>3. CASE Orphaned
    <3>1. Leave(r, "error", 1)
      BY <1>6, <2>3 DEF Reply
    <3>2. Alone(r)
      BY <1>0, <1>1, <1>6, <3>1, <2>1 DEF Alone, Spawned
    <3>3. Answers(r)
      BY <1>1, <1>6, <3>1, SendTalks
    <3> QED
      BY <3>2, <3>3
  <2>4. CASE ~Orphaned
    <3>1. /\ wk' = [wk EXCEPT ![r] = w]
          /\ replies' = [replies EXCEPT ![r] = Append(@, m)]
      BY <1>6, <2>4 DEF Reply
    <3>2. wk'[r] = w /\ \A q \in Roles : q # r => wk'[q] = wk[q] /\ replies'[q] = replies[q]
      BY <1>0, <3>1
    <3>3. Alone(r)
      BY <1>6, <2>1, <2>2, <3>2 DEF Alone, Spawned
    <3>4. Answers(r)
      BY <1>6, <3>1, <3>2, SendTalks
    <3> QED
      BY <3>3, <3>4
  <2> QED
    BY <2>3, <2>4
<1>7. CASE Prepared(r)
  <2>1. PICK k \in Metadata : Reply(r, [type |-> "ready", metadata |-> k],
                                    [wk[r] EXCEPT !.pc = "ready", !.metadata = k])
    BY <1>7 DEF Prepared
  <2> DEFINE w == [wk[r] EXCEPT !.pc = "ready", !.metadata = k]
             m == [type |-> "ready", metadata |-> k]
  <2>2. w \in WkType /\ w.pc = "ready" /\ w.metadata = k /\ w.finalized = wk[r].finalized
    BY <1>0 DEF WkType, WorkerStates
  <2>3. m \in Replies /\ m.metadata = k
    BY Messages
  <2>4. wk[r].pc = "preparing" /\ Busy(r) /\ UNCHANGED commands
    BY <1>7 DEF Prepared, Able, Busy
  <2>5. Reply(r, m, w)
    BY <2>1
  <2> HIDE DEF w, m
  <2> QED
    BY <1>6, <2>2, <2>3, <2>4, <2>5
<1>8. CASE Measured(r)
  <2> DEFINE w == [wk[r] EXCEPT !.pc = "ready", !.pass = Nothing]
             m == [type |-> "result", pass |-> wk[r].pass]
  <2>1. /\ w \in WkType /\ w.pc = "ready" /\ w.metadata = wk[r].metadata
        /\ w.finalized = wk[r].finalized
    BY <1>0 DEF WkType, WorkerStates
  <2>2. wk[r].pc = "running" /\ Busy(r) /\ UNCHANGED commands /\ Reply(r, m, w)
    BY <1>8 DEF Measured, Able, Busy
  <2>3. wk[r].pass \in PassIndices
    BY <1>0, <2>2, Typed DEF WorkersTyped, WkType
  <2>4. m \in Replies /\ m.type # "ready"
    BY <2>3, Messages
  <2> HIDE DEF w, m
  <2> QED
    BY <1>6, <2>1, <2>2, <2>4
<1>9. CASE Exit(r) \/ Obey(r) \/ Crash(r)
  <2>1. /\ wk'[r] = [wk[r] EXCEPT !.pc = "gone"] \/ wk'[r] = [wk[r] EXCEPT !.pc = "gone", !.exit = 1]
        /\ \A q \in Roles : q # r => wk'[q] = wk[q]
        /\ UNCHANGED <<commands, replies>> /\ wk[r].pc \in WorkerStates
    BY <1>0, <1>9 DEF Exit, Able, Obey, Crash, Alive, WorkerStates
  <2>2. /\ wk'[r].pc = "gone" /\ wk'[r].metadata = wk[r].metadata
        /\ wk'[r].finalized = wk[r].finalized
    BY <1>0, <2>1 DEF WkType
  <2>3. Alone(r)
    BY <2>1, <2>2 DEF Alone, Spawned, WorkerStates
  <2>4. Answers(r)
    BY <2>1, <2>2, SameTalks DEF WorkerStates
  <2> QED
    BY <2>3, <2>4
<1>10. CASE Hang(r)
  <2>1. /\ wk'[r] = [wk[r] EXCEPT !.hung = TRUE]
        /\ \A q \in Roles : q # r => wk'[q] = wk[q]
        /\ UNCHANGED <<commands, replies>> /\ wk[r].pc \in WorkerStates
    BY <1>0, <1>10 DEF Hang, Alive, WorkerStates
  <2>2. /\ wk'[r].pc = wk[r].pc /\ wk'[r].metadata = wk[r].metadata
        /\ wk'[r].finalized = wk[r].finalized
    BY <1>0, <2>1 DEF WkType
  <2>3. Alone(r)
    BY <2>1, <2>2 DEF Alone, Spawned, WorkerStates
  <2>4. Answers(r)
    BY <2>1, <2>2, SameTalks DEF WorkerStates
  <2> QED
    BY <2>3, <2>4
<1> QED
  BY <1>2, <1>3, <1>4, <1>5, <1>7, <1>8, <1>9, <1>10 DEF WorkerStep

LEMMA WorkerKeeps ==
  ASSUME BenchmarkInv, NEW r \in Roles,
         WorkerStep(r) \/ Obey(r) \/ Crash(r) \/ Hang(r)
  PROVE  Talk' /\ Progress'
<1>0. BenchmarkTypeOK /\ Talk /\ Begun /\ Flows /\ Agreed /\ Left /\ Counted
  BY DEF BenchmarkInv, Progress
<1>1. Alone(r) /\ Answers(r)
  BY <1>0, WorkerTalks
<1>2. UNCHANGED <<co, coordinated>>
  BY DEF WorkerStep, Obey, Crash, Hang
<1>3. \A q \in Roles : q # r => /\ wk'[q] = wk[q] /\ commands'[q] = commands[q]
                                /\ replies'[q] = replies[q]
  BY <1>1 DEF Alone
<1>4. \A q \in Roles : Asked(q)' => Asked(q)
  BY <1>1, <1>3 DEF Answers, Asked, Busy
<1>5. Talk'
  BY <1>0, <1>1, <1>3, <1>4 DEF Talk, Answers, Roles
<1>6. \A q \in Roles : Spawned(q)' <=> Spawned(q)
  BY <1>1, <1>3 DEF Alone, Spawned
<1>7. Unspoiled' <=> Unspoiled
  BY <1>2 DEF Unspoiled
<1>8. Begun'
  BY <1>0, <1>2, <1>6, <1>7 DEF Begun, Roles
<1>9. ASSUME Unspoiled
      PROVE  \A q \in Roles : (Quiet(q) => Quiet(q)') /\ (AtMostOne(q) => AtMostOne(q)')
  <2>1. ~Orphaned
    BY <1>9 DEF Orphaned, Unspoiled
  <2> QED
    BY <1>1, <1>3, <2>1 DEF Answers, Quiet, AtMostOne, Busy
<1>10. Flows'
  <2>1. co.role \in Roles /\ Other(co.role) \in Roles
    BY <1>0, Typed DEF Other, Roles
  <2> QED
    BY <1>0, <1>2, <1>7, <1>9, <2>1 DEF Flows
<1>11. \A q \in Roles : wk[q].metadata # Nothing => wk'[q].metadata = wk[q].metadata
  BY <1>1, <1>3 DEF Alone
<1>12. Agreed'
  <2>1. "one" # Nothing /\ "two" # Nothing
    BY BenchmarkConstants DEF Metadata
  <2> QED
    BY <1>0, <1>2, <1>7, <1>11, <2>1 DEF Agreed, Roles
<1>13. \A q \in Roles : (Stopped(q) => Stopped(q)') /\ wk'[q].finalized = wk[q].finalized
  BY <1>1, <1>3 DEF Alone, Stopped
<1>14. Left'
  BY <1>0, <1>2, <1>7, <1>13 DEF Left, Roles
<1>15. Counted'
  BY <1>0, <1>2, <1>7 DEF Counted, Turn
<1> QED
  BY <1>5, <1>8, <1>10, <1>12, <1>14, <1>15 DEF Progress

\* The coordinator takes replies, asks for the end and sends signals.
LEMMA TalkKept ==
  ASSUME BenchmarkTypeOK, Talk,
         \A r \in Roles :
           /\ wk'[r].pc = wk[r].pc /\ wk'[r].metadata = wk[r].metadata
           /\ \/ commands'[r] = commands[r]
              \/ commands'[r] = Append(commands[r], [type |-> "shutdown"])
           /\ \/ replies'[r] = replies[r]
              \/ replies[r] # <<>> /\ replies'[r] = Tail(replies[r])
  PROVE  Talk'
<1>1. ASSUME NEW r \in Roles, Asked(r)' PROVE Asked(r)
  <2>1. CASE Busy(r)'
    BY <2>1 DEF Asked, Busy
  <2>2. ASSUME NEW i \in 1..Len(commands'[r]), commands'[r][i].type # "shutdown"
        PROVE  Asked(r)
    <3>1. CASE commands'[r] = commands[r]
      BY <2>2, <3>1 DEF Asked
    <3>2. CASE commands'[r] = Append(commands[r], [type |-> "shutdown"])
      <4>1. commands[r] \in Seq(Commands) /\ [type |-> "shutdown"] \in Commands
        BY Typed, Messages DEF PipesTyped
      <4>2. /\ Len(commands'[r]) = Len(commands[r]) + 1 /\ Len(commands[r]) \in Nat
            /\ commands'[r][i] = IF i = Len(commands[r]) + 1 THEN [type |-> "shutdown"]
                                                            ELSE commands[r][i]
        BY <2>2, <3>2, <4>1, LongerSequence, LenProperties
      <4>3. i # Len(commands[r]) + 1
        BY <2>2, <4>2
      <4>4. i \in 1..Len(commands[r]) /\ commands[r][i].type # "shutdown"
        BY <2>2, <4>2, <4>3
      <4> QED
        BY <4>4 DEF Asked
    <3> QED
      BY <3>1, <3>2
  <2> QED
    BY <1>1, <2>1, <2>2 DEF Asked
<1>2. ASSUME NEW r \in Roles, wk'[r].pc \in {"absent", "created", "preparing"}
      PROVE  replies'[r] = <<>> /\ wk'[r].metadata = Nothing
  BY <1>2 DEF Talk
<1>3. ASSUME NEW r \in Roles, NEW i \in 1..Len(replies'[r]),
             replies'[r][i].type = "ready"
      PROVE  replies'[r][i].metadata = wk'[r].metadata
  <2>1. CASE replies'[r] = replies[r]
    BY <1>3, <2>1 DEF Talk
  <2>2. CASE replies[r] # <<>> /\ replies'[r] = Tail(replies[r])
    <3>1. replies[r] \in Seq(Replies)
      BY Typed DEF PipesTyped
    <3>2. replies'[r][i] = replies[r][i + 1] /\ i + 1 \in 1..Len(replies[r])
      BY <2>2, <3>1, OneSequence
    <3> QED
      BY <1>3, <3>2 DEF Talk
  <2> QED
    BY <2>1, <2>2
<1> QED
  BY <1>1, <1>2, <1>3 DEF Talk, Roles

LEMMA TalkSame ==
  ASSUME BenchmarkTypeOK, Talk, UNCHANGED <<wk, commands, replies>>
  PROVE  Talk'
BY TalkKept

LEMMA SpawnKeeps == ASSUME BenchmarkInv, Spawn PROVE Talk' /\ Progress'
<1>0. BenchmarkTypeOK /\ Talk /\ Begun /\ Flows /\ Agreed /\ Left /\ Counted
  BY DEF BenchmarkInv, Progress
<1>1. CASE Abort("spawn") /\ UNCHANGED wk
  BY <1>0, <1>1, AbortProgress, TalkSame DEF Spawn, FailureKinds
<1>2. CASE /\ wk' = [wk EXCEPT ![co.role].pc = "created"]
           /\ IF co.role = "reference" THEN Goto("spawn", "candidate")
                                       ELSE Goto("prepare", "reference")
  <2>1. /\ co.pc = "spawn" /\ Unspoiled /\ UNCHANGED <<commands, replies, coordinated>>
    BY <1>0 DEF Spawn, At, Begun, Early, Unspoiled
  <2>2. \A r \in Roles : Quiet(r)
    BY <1>0, <2>1 DEF Flows, Waits
  <2>3. co.role \in Roles /\ wk \in [Roles -> WkType] /\ co \in CoType
    BY <1>0, Typed DEF WorkersTyped
  <2>4. /\ \A r \in Roles : r # co.role => wk'[r] = wk[r]
        /\ wk'[co.role] = [wk[co.role] EXCEPT !.pc = "created"]
    BY <1>2, <2>3
  <2>5. wk'[co.role].pc = "created" /\ wk'[co.role].metadata = wk[co.role].metadata
    BY <2>3, <2>4 DEF WkType
  <2>6. wk[co.role].pc = "absent"
    BY <1>0, <2>1, <2>3 DEF Begun, Spawned, Roles
  <2>7. \A r \in Roles : Quiet(r)' /\ ~Asked(r)'
    <3>1. ASSUME NEW r \in Roles PROVE commands'[r] = <<>> /\ replies'[r] = <<>> /\ ~Busy(r)'
      BY <2>1, <2>2, <2>4, <2>5 DEF Quiet, Busy
    <3>2. ASSUME NEW r \in Roles PROVE 1..Len(commands'[r]) = {}
      BY <3>1, EmptySeq
    <3> QED
      BY <3>1, <3>2 DEF Quiet, Asked
  <2>8. Talk'
    <3>1. ASSUME NEW r \in Roles PROVE replies'[r] = <<>> /\ 1..Len(replies'[r]) = {}
      BY <2>7, EmptySeq DEF Quiet
    <3>2. \A r \in Roles : wk'[r].pc \in {"absent", "created", "preparing"}
                             => wk'[r].metadata = Nothing
      BY <1>0, <2>4, <2>5, <2>6 DEF Talk
    <3> QED
      BY <2>7, <3>1, <3>2 DEF Talk, Roles
  <2>9. CASE co.role = "reference"
    <3>1. /\ co'.pc = "spawn" /\ co'.role = "candidate" /\ co'.pass = co.pass
          /\ co'.half = co.half /\ co'.failure = co.failure /\ co'.errors = co.errors
      BY <1>2, <2>3, <2>9, GotoTyped DEF Places, Roles
    <3>2. Begun'
      BY <1>0, <2>1, <2>4, <2>5, <2>9, <3>1 DEF Begun, Spawned, Unspoiled, Early, Roles
    <3>3. Flows'
      BY <2>7, <3>1 DEF Flows, Waits
    <3>4. Agreed' /\ Left' /\ Counted'
      BY <1>0, <2>1, <3>1 DEF Agreed, Left, Counted, Early
    <3> QED
      BY <2>8, <3>2, <3>3, <3>4 DEF Progress
  <2>10. CASE co.role = "candidate"
    <3>1. /\ co'.pc = "prepare" /\ co'.role = "reference" /\ co'.pass = co.pass
          /\ co'.half = co.half /\ co'.failure = co.failure /\ co'.errors = co.errors
      BY <1>2, <2>3, <2>10, GotoTyped DEF Places, Roles
    <3>1a. Spawned("reference") /\ "reference" \in Roles
      BY <1>0, <2>1, <2>10 DEF Begun, Roles
    <3>1b. \A r \in Roles : Spawned(r)'
      BY <2>4, <2>5, <2>10, <3>1a DEF Spawned, Roles
    <3>2. Begun'
      BY <1>0, <2>1, <3>1, <3>1b DEF Begun, Unspoiled, Early
    <3>3. Flows'
      BY <2>7, <3>1 DEF Flows, Waits
    <3>4. Agreed' /\ Left' /\ Counted'
      BY <1>0, <2>1, <3>1 DEF Agreed, Left, Counted, Early
    <3> QED
      BY <2>8, <3>2, <3>3, <3>4 DEF Progress
  <2> QED
    BY <2>3, <2>9, <2>10 DEF Roles
<1> QED
  BY <1>1, <1>2 DEF Spawn

\* A command of work is sent when nothing else is under way.
LEMMA SendKeeps ==
  ASSUME BenchmarkInv, Prepare \/ RunPass
  PROVE  Talk' /\ Progress'
<1>0. BenchmarkTypeOK /\ Talk /\ Begun /\ Flows /\ Agreed /\ Left /\ Counted
  BY DEF BenchmarkInv, Progress
<1>1. PICK r \in Roles, command \in Commands, next \in {"await_ready", "await_result"} :
        /\ Send(r, command, next) /\ command.type # "shutdown"
        /\ \/ co.pc = "prepare" /\ r = co.role /\ next = "await_ready"
           \/ co.pc = "run" /\ r = Turn(co.pass, co.half) /\ next = "await_result"
  <2>1. Turn(co.pass, co.half) \in Roles
    BY DEF Turn, Starter, Other, Roles
  <2> QED
    BY <1>0, <2>1, Typed, Messages DEF Prepare, RunPass, At
<1>2. Unspoiled /\ \A q \in Roles : Quiet(q)
  BY <1>0, <1>1 DEF Begun, Early, Unspoiled, Flows, Waits
<1>3. UNCHANGED <<wk, replies, coordinated>>
  BY <1>1 DEF Send
<1>4. CASE Abort("pipe") /\ UNCHANGED commands
  BY <1>0, <1>3, <1>4, AbortProgress, TalkSame DEF FailureKinds
<1>5. CASE /\ commands' = [commands EXCEPT ![r] = Append(@, command)]
           /\ Goto(next, r)
  <2>1. /\ co'.pc = next /\ co'.role = r /\ co'.pass = co.pass
        /\ co'.half = co.half /\ co'.failure = co.failure /\ co'.errors = co.errors
    BY <1>0, <1>5, Typed, GotoTyped DEF Places
  <2>2. /\ \A q \in Roles : q # r => commands'[q] = <<>>
        /\ commands'[r] = Append(commands[r], command)
    BY <1>0, <1>2, <1>5, Typed DEF PipesTyped, Quiet
  <2>3. Len(commands'[r]) = 1
    <3>1. commands[r] \in Seq(Commands)
      BY <1>0, Typed DEF PipesTyped
    <3>2. Len(commands'[r]) = Len(commands[r]) + 1
      BY <2>2, <3>1, LongerSequence
    <3>3. Len(commands[r]) = 0
      BY <1>2, EmptySeq DEF Quiet
    <3> QED
      BY <3>2, <3>3
  <2>4. AtMostOne(r)' /\ \A q \in Roles : q # r => Quiet(q)'
    BY <1>2, <1>3, <2>2, <2>3 DEF AtMostOne, Quiet, Busy
  <2>5. \A q \in Roles : q # r => ~Asked(q)'
    <3>1. ASSUME NEW q \in Roles, q # r PROVE 1..Len(commands'[q]) = {} /\ ~Busy(q)'
      BY <2>4, <3>1, EmptySeq DEF Quiet
    <3> QED
      BY <3>1 DEF Asked
  <2>6. Talk'
    BY <1>0, <1>3, <2>5 DEF Talk, Roles
  <2>7. Flows'
    <3>1. Other(r) \in Roles /\ Other(r) # r
      BY DEF Other, Roles
    <3> QED
      BY <2>1, <2>4, <3>1 DEF Flows, Waits
  <2>8. Begun'
    BY <1>0, <1>1, <1>2, <1>3, <2>1 DEF Begun, Early, Unspoiled, Spawned
  <2>9. Agreed' /\ Left'
    BY <1>0, <1>1, <1>2, <1>3, <2>1 DEF Agreed, Left, Unspoiled
  <2>10. Counted'
    <3>1. Turn(co.pass, co.half)' = Turn(co.pass, co.half)
      BY <2>1 DEF Turn, Starter
    <3> QED
      BY <1>0, <1>1, <1>3, <2>1, <3>1 DEF Counted, Early
  <2> QED
    BY <2>6, <2>7, <2>8, <2>9, <2>10 DEF Progress
<1> QED
  BY <1>1, <1>4, <1>5 DEF Send

LEMMA ReplyTaken ==
  ASSUME BenchmarkTypeOK, Talk, replies[co.role] # <<>>,
         replies' = [replies EXCEPT ![co.role] = Tail(@)], UNCHANGED <<wk, commands>>
  PROVE  /\ Talk' /\ TheReply \in Replies
         /\ TheReply.type = "ready" => TheReply.metadata = wk[co.role].metadata
         /\ AtMostOne(co.role) /\ Quiet(Other(co.role)) => \A r \in Roles : Quiet(r)'
<1>0. replies \in [Roles -> Seq(Replies)] /\ co.role \in Roles
  BY Typed DEF PipesTyped
<1>1. /\ replies'[co.role] = Tail(replies[co.role])
      /\ \A r \in Roles : r # co.role => replies'[r] = replies[r]
  BY <1>0
<1>2. Talk'
  BY <1>1, TalkKept
<1>3. TheReply = replies[co.role][1] /\ 1 \in 1..Len(replies[co.role]) /\ TheReply \in Replies
  <2>1. Len(replies[co.role]) \in Nat \ {0}
    BY <1>0, EmptySeq
  <2> QED
    BY <1>0, <2>1, HeadTailProperties DEF TheReply
<1>4. ASSUME AtMostOne(co.role), Quiet(Other(co.role)) PROVE \A r \in Roles : Quiet(r)'
  <2>1. commands[co.role] = <<>> /\ Len(replies[co.role]) = 1 /\ ~Busy(co.role)
    BY <1>4 DEF AtMostOne, Quiet
  <2>2. replies'[co.role] = <<>>
    BY <1>0, <1>1, <2>1, OneSequence
  <2> QED
    BY <1>0, <1>1, <1>4, <2>1, <2>2 DEF Quiet, Busy, Other, Roles
<1> QED
  BY <1>0, <1>2, <1>3, <1>4 DEF Talk

LEMMA ReceiveReadyKeeps == ASSUME BenchmarkInv, ReceiveReady PROVE Talk' /\ Progress'
<1>0. BenchmarkTypeOK /\ Talk /\ Begun /\ Flows /\ Agreed /\ Left /\ Counted
  BY DEF BenchmarkInv, Progress
<1>1. /\ co.pc = "await_ready" /\ replies[co.role] # <<>>
      /\ replies' = [replies EXCEPT ![co.role] = Tail(@)]
      /\ UNCHANGED <<wk, commands, coordinated>>
  BY DEF ReceiveReady, Receive, At, IsReady
<1>2. Unspoiled /\ AtMostOne(co.role) /\ Quiet(Other(co.role))
  BY <1>0, <1>1 DEF Begun, Early, Unspoiled, Flows, Waits
<1>3. /\ Talk' /\ TheReply \in Replies /\ \A r \in Roles : Quiet(r)'
      /\ TheReply.type = "ready" => TheReply.metadata = wk[co.role].metadata
  BY <1>0, <1>1, <1>2, ReplyTaken
<1>4. ASSUME NEW kind \in FailureKinds, Abort(kind) PROVE Progress'
  BY <1>0, <1>4, AbortProgress
<1>5. CASE Unfit("ready")
  <2>1. TheReply.type \in FailureKinds /\ Abort(TheReply.type)
    BY <1>3, <1>5, MessageFields DEF ReceiveReady, FailureKinds
  <2> QED
    BY <1>3, <1>4, <2>1
<1>6. CASE ~Unfit("ready") /\ Abort("invalid")
  BY <1>3, <1>4, <1>6 DEF FailureKinds
<1>7. CASE ~Unfit("ready") /\ ~Abort("invalid")
  <2>1. TheReply.type = "ready" /\ IsReady(TheReply)
    BY <1>7 DEF ReceiveReady, Unfit
  <2>2. TheReply.metadata = wk[co.role].metadata /\ wk[co.role].metadata \in {"one", "two"}
    BY <1>3, <1>7, <2>1, MessageFields DEF IsReady, Metadata
  <2>3. co.role \in Roles /\ co \in CoType /\ \A r \in Roles : Spawned(r)
    BY <1>0, <1>1, <1>2, Typed DEF Begun
  <2>4. \A r \in Roles : Spawned(r)'
    BY <1>1, <2>3 DEF Spawned
  <2>5. CASE co.role = "reference"
    <3>1. /\ co'.pc = "prepare" /\ co'.role = "candidate" /\ co'.pass = co.pass
          /\ co'.half = co.half /\ co'.failure = co.failure /\ co'.errors = co.errors
      BY <1>7, <2>1, <2>3, <2>5, GotoTyped DEF IsReady, Places, Roles
    <3>2. Begun' /\ Flows'
      BY <1>2, <1>3, <2>4, <3>1 DEF Begun, Flows, Unspoiled, Early, Waits
    <3>3. Agreed' /\ Left' /\ Counted'
      BY <1>0, <1>1, <2>2, <2>5, <3>1 DEF Agreed, Left, Counted, Early
    <3> QED
      BY <1>3, <3>2, <3>3 DEF Progress
  <2>6. CASE co.role = "candidate"
    <3>1. /\ co'.pc = "run" /\ co'.role = "reference" /\ co'.pass = co.pass
          /\ co'.half = co.half /\ co'.failure = co.failure /\ co'.errors = co.errors
      BY <1>7, <2>1, <2>3, <2>6, GotoTyped DEF IsReady, Places, Roles
    <3>2. wk["reference"].metadata = wk["candidate"].metadata
      BY <1>7, <2>1, <2>2, <2>6 DEF IsReady
    <3>3. Begun' /\ Flows'
      BY <1>2, <1>3, <2>4, <3>1 DEF Begun, Flows, Unspoiled, Early, Waits
    <3>4. Agreed' /\ Left'
      BY <1>0, <1>1, <2>2, <2>6, <3>1, <3>2 DEF Agreed, Left
    <3>5. Counted'
      BY <1>0, <1>1, <3>1, EmptySeq DEF Counted, Early
    <3> QED
      BY <1>3, <3>3, <3>4, <3>5 DEF Progress
  <2> QED
    BY <2>3, <2>5, <2>6 DEF Roles
<1> QED
  BY <1>5, <1>6, <1>7

LEMMA ReceiveNothingKeeps == ASSUME BenchmarkInv, ReceiveNothing PROVE Talk' /\ Progress'
<1>1. BenchmarkTypeOK /\ Talk
  BY DEF BenchmarkInv
<1>2. PICK kind \in FailureKinds : Abort(kind)
  BY DEF ReceiveNothing, FailureKinds
<1>3. UNCHANGED <<wk, commands, replies>>
  BY DEF ReceiveNothing
<1> QED
  BY <1>1, <1>2, <1>3, AbortProgress, TalkSame

LEMMA ReceiveResultKeeps == ASSUME BenchmarkInv, ReceiveResult PROVE Talk' /\ Progress'
<1>0. BenchmarkTypeOK /\ Talk /\ Begun /\ Flows /\ Agreed /\ Left /\ Counted
  BY DEF BenchmarkInv, Progress
<1>1. /\ co.pc = "await_result" /\ replies[co.role] # <<>>
      /\ replies' = [replies EXCEPT ![co.role] = Tail(@)]
      /\ UNCHANGED <<wk, commands>>
  BY DEF ReceiveResult, Receive, At
<1>2. Unspoiled /\ AtMostOne(co.role) /\ Quiet(Other(co.role))
  BY <1>0, <1>1 DEF Begun, Early, Unspoiled, Flows, Waits
<1>3. Talk' /\ TheReply \in Replies /\ \A r \in Roles : Quiet(r)'
  BY <1>0, <1>1, <1>2, ReplyTaken
<1>4. ASSUME NEW kind \in FailureKinds, Abort(kind) PROVE Progress'
  BY <1>0, <1>4, AbortProgress
<1>5. CASE Unfit("result") \/ TheReply.pass # co.pass
  <2>1. \E kind \in FailureKinds : Abort(kind)
    BY <1>3, <1>5, MessageFields DEF ReceiveResult, IsResult, FailureKinds
  <2> QED
    BY <1>3, <1>4, <2>1
<1>6. CASE ~Unfit("result") /\ TheReply.pass = co.pass
  <2>1. /\ co \in CoType /\ co.role \in Roles /\ co.pass \in PassIndices /\ co.half \in 1..2
        /\ coordinated \in Seq(Roles \X PassIndices)
        /\ \A r \in Roles : Spawned(r)
    BY <1>0, <1>1, <1>2, Typed DEF Begun
  <2>2. coordinated' = Append(coordinated, <<co.role, co.pass>>)
    BY <1>6 DEF ReceiveResult, IsResult
  <2>3. Len(coordinated') = 2 * co.pass + co.half
    <3>1. <<co.role, co.pass>> \in Roles \X PassIndices
      BY <2>1
    <3>2. Len(coordinated') = Len(coordinated) + 1
      BY <2>1, <2>2, <3>1, LongerSequence
    <3>3. Len(coordinated) = 2 * co.pass + co.half - 1
      BY <1>0, <1>1 DEF Counted
    <3> QED
      BY <2>1, <3>2, <3>3 DEF PassIndices
  <2>4. \A r \in Roles : Spawned(r)'
    BY <1>1, <2>1 DEF Spawned
  <2>5. /\ wk["reference"].metadata \in {"one", "two"}
        /\ wk["candidate"].metadata = wk["reference"].metadata
    BY <1>0, <1>1, <1>2 DEF Agreed
  <2>6. ASSUME co'.pc = "run", co'.failure = co.failure, co'.errors = co.errors,
               Len(coordinated') = 2 * co'.pass + co'.half - 1
        PROVE  Progress'
    <3>1. Begun' /\ Flows'
      BY <1>2, <1>3, <2>4, <2>6 DEF Begun, Flows, Unspoiled, Early, Waits
    <3>2. Agreed' /\ Left' /\ Counted'
      BY <1>1, <2>5, <2>6 DEF Agreed, Left, Counted, Early
    <3> QED
      BY <3>1, <3>2 DEF Progress
  <2>7. CASE co.half = 1
    <3>1. co' = [co EXCEPT !.pc = "run", !.half = 2]
      BY <1>6, <2>7 DEF ReceiveResult, IsResult
    <3>2. /\ co'.pc = "run" /\ co'.half = 2 /\ co'.pass = co.pass
          /\ co'.failure = co.failure /\ co'.errors = co.errors
      BY <2>1, <3>1 DEF CoType
    <3>3. Len(coordinated') = 2 * co'.pass + co'.half - 1
      BY <2>1, <2>3, <2>7, <3>2 DEF PassIndices
    <3> QED
      BY <1>3, <2>6, <3>2, <3>3
  <2>8. CASE co.half # 1 /\ co.pass + 1 < Passes
    <3>1. co' = [co EXCEPT !.pc = "run", !.half = 1, !.pass = co.pass + 1]
      BY <1>6, <2>8 DEF ReceiveResult, IsResult
    <3>2. /\ co'.pc = "run" /\ co'.half = 1 /\ co'.pass = co.pass + 1
          /\ co'.failure = co.failure /\ co'.errors = co.errors
      BY <2>1, <3>1 DEF CoType
    <3>3. Len(coordinated') = 2 * co'.pass + co'.half - 1
      BY <2>1, <2>3, <2>8, <3>2 DEF PassIndices
    <3> QED
      BY <1>3, <2>6, <3>2, <3>3
  <2>9. CASE co.half # 1 /\ ~(co.pass + 1 < Passes)
    <3>1. co' = [co EXCEPT !.role = "reference", !.pc = "shutdown"]
      BY <1>6, <2>1, <2>9 DEF ReceiveResult, IsResult, Stop, Roles
    <3>2. /\ co'.pc = "shutdown" /\ co'.role = "reference"
          /\ co'.failure = co.failure /\ co'.errors = co.errors
      BY <2>1, <3>1 DEF CoType
    <3>3. Len(coordinated') = 2 * Passes
      <4>1. co.half = 2 /\ co.pass \in Nat /\ co.pass + 1 = Passes
        BY <2>1, <2>9, BenchmarkConstants DEF PassIndices
      <4> QED
        BY <2>3, <4>1, BenchmarkConstants
    <3>4. Begun' /\ Flows'
      BY <1>2, <1>3, <2>4, <3>2 DEF Begun, Flows, Unspoiled, Early, Waits
    <3>5. Agreed' /\ Left' /\ Counted'
      BY <1>1, <2>5, <3>2, <3>3 DEF Agreed, Left, Counted, Early
    <3> QED
      BY <1>3, <3>4, <3>5 DEF Progress
  <2> QED
    BY <2>7, <2>8, <2>9
<1> QED
  BY <1>5, <1>6

\* The end: a step that spoils the run, or one that leaves it as it is.
LEMMA StopKeeps ==
  ASSUME BenchmarkInv, co.pc \notin Early,
         co'.pc \notin Early, UNCHANGED <<wk, coordinated>>,
         co'.failure = co.failure, co.errors = TRUE => co'.errors = TRUE,
         co'.pc # "ended", co.pc # "ended",
         Unspoiled' => Unspoiled /\ Flows' /\ Left'
  PROVE  Progress'
<1>0. BenchmarkTypeOK /\ Begun /\ Flows /\ Agreed /\ Left /\ Counted
  BY DEF BenchmarkInv, Progress
<1>1. CASE ~Unspoiled'
  BY <1>1 DEF Progress, Begun, Flows, Agreed, Left, Counted, Unspoiled, Early
<1>2. CASE Unspoiled'
  <2>1. Unspoiled /\ Flows' /\ Left'
    BY <1>2
  <2>2. Begun'
    BY <1>0, <2>1 DEF Begun, Spawned, Early
  <2>3. Agreed' /\ Counted'
    BY <1>0, <2>1 DEF Agreed, Counted, Early
  <2> QED
    BY <2>1, <2>2, <2>3 DEF Progress
<1> QED
  BY <1>1, <1>2

LEMMA ShutSpoils ==
  ASSUME BenchmarkTypeOK, Shut(TRUE)
  PROVE  Progress'
<1>1. co'.errors = TRUE /\ co'.pc \in {"shutdown", "survivors"}
  BY Typed, ShutTyped
<1> QED
  BY <1>1, SpoiledProgress DEF Early

LEMMA ShutdownKeeps == ASSUME BenchmarkInv, Shutdown PROVE Talk' /\ Progress'
<1>0. BenchmarkTypeOK /\ Talk /\ Begun /\ Flows /\ Agreed /\ Left /\ Counted
  BY DEF BenchmarkInv, Progress
<1>1. co.pc = "shutdown" /\ UNCHANGED <<wk, replies, coordinated>>
  BY DEF Shutdown, At
<1>2. CASE Shut(TRUE) /\ UNCHANGED commands
  BY <1>0, <1>1, <1>2, ShutSpoils, TalkSame
<1>3. CASE /\ Goto("await_stopped", co.role)
           /\ commands' = [commands EXCEPT ![co.role] = Append(@, [type |-> "shutdown"])]
  <2>1. /\ co.role \in Roles /\ commands \in [Roles -> Seq(Commands)]
        /\ Other(co.role) \in Roles /\ Other(co.role) # co.role
    BY <1>0, Typed DEF PipesTyped, Other, Roles
  <2>2. /\ co'.pc = "await_stopped" /\ co'.role = co.role
        /\ co'.failure = co.failure /\ co'.errors = co.errors
    BY <1>0, <1>3, Typed, GotoTyped DEF Places
  <2>3. /\ commands'[co.role] = Append(commands[co.role], [type |-> "shutdown"])
        /\ \A r \in Roles : r # co.role => commands'[r] = commands[r]
    BY <1>3, <2>1
  <2>4. Talk'
    BY <1>0, <1>1, <2>3, TalkKept
  <2>5. Unspoiled' => Unspoiled
    BY <1>1, <2>2 DEF Unspoiled
  <2>6. ASSUME Unspoiled PROVE Flows'
    <3>1. \A r \in Roles : Quiet(r)
      BY <1>0, <1>1, <2>6 DEF Flows, Waits
    <3>2. Len(commands'[co.role]) = 1
      <4>1. Len(commands'[co.role]) = Len(commands[co.role]) + 1
        BY <2>1, <2>3, LongerSequence, Messages
      <4>2. Len(commands[co.role]) = 0
        BY <2>1, <3>1, EmptySeq DEF Quiet
      <4> QED
        BY <4>1, <4>2
    <3>3. AtMostOne(co.role)' /\ Quiet(Other(co.role))'
      BY <1>1, <2>1, <2>2, <2>3, <3>1, <3>2 DEF AtMostOne, Quiet, Busy
    <3> QED
      BY <2>2, <3>3 DEF Flows, Waits
  <2>7. ASSUME Unspoiled PROVE Left'
    BY <1>0, <1>1, <2>2, <2>7 DEF Left, Stopped
  <2>8. Progress'
    BY <1>1, <2>2, <2>5, <2>6, <2>7, StopKeeps DEF Early
  <2> QED
    BY <2>4, <2>8
<1> QED
  BY <1>2, <1>3 DEF Shutdown

LEMMA ReceiveStoppedKeeps == ASSUME BenchmarkInv, ReceiveStopped PROVE Talk' /\ Progress'
<1>0. BenchmarkTypeOK /\ Talk /\ Begun /\ Flows /\ Agreed /\ Left /\ Counted
  BY DEF BenchmarkInv, Progress
<1>1. co.pc = "await_stopped" /\ UNCHANGED <<wk, commands, coordinated>>
  BY DEF ReceiveStopped, At
<1>2. Talk'
  BY <1>0, <1>1, ReplyTaken, TalkSame DEF ReceiveStopped
<1>3. CASE Shut(TRUE)
  BY <1>0, <1>2, <1>3, ShutSpoils
<1>4. CASE /\ replies[co.role] # <<>> /\ Goto("join", co.role)
           /\ replies' = [replies EXCEPT ![co.role] = Tail(@)]
  <2>1. /\ co'.pc = "join" /\ co'.role = co.role
        /\ co'.failure = co.failure /\ co'.errors = co.errors
    BY <1>0, <1>4, Typed, GotoTyped DEF Places
  <2>2. Unspoiled' => Unspoiled
    BY <1>1, <2>1 DEF Unspoiled
  <2>3. ASSUME Unspoiled PROVE Flows' /\ Left'
    <3>1. AtMostOne(co.role) /\ Quiet(Other(co.role))
      BY <1>0, <1>1, <2>3 DEF Flows, Waits
    <3>2. \A r \in Roles : Quiet(r)'
      BY <1>0, <1>1, <1>4, <3>1, ReplyTaken
    <3> QED
      BY <1>0, <1>1, <2>1, <2>3, <3>2 DEF Flows, Waits, Left, Stopped
  <2>4. Progress'
    BY <1>1, <2>1, <2>2, <2>3, StopKeeps DEF Early
  <2> QED
    BY <1>2, <2>4
<1> QED
  BY <1>3, <1>4 DEF ReceiveStopped

LEMMA JoinKeeps == ASSUME BenchmarkInv, Join PROVE Talk' /\ Progress'
<1>0. BenchmarkTypeOK /\ Talk /\ Begun /\ Flows /\ Agreed /\ Left /\ Counted
  BY DEF BenchmarkInv, Progress
<1>1. co.pc = "join" /\ UNCHANGED <<wk, commands, replies, coordinated>>
  BY DEF Join, At
<1>2. Talk'
  BY <1>0, <1>1, TalkSame
<1> DEFINE failed == Alive(co.role) \/ ExitedBadly(co.role)
<1>3. failed \in BOOLEAN
  BY DEF Alive, ExitedBadly
<1>4. co.role \in Roles /\ wk[co.role] \in WkType /\ WorkersTyped /\ co.errors \in BOOLEAN
  BY <1>0, Typed
<1>5. /\ co'.failure = co.failure /\ co'.errors = (co.errors \/ failed)
      /\ co'.pc \in {"shutdown", "survivors"}
      /\ co'.pc = "shutdown" => co.role = "reference" /\ co'.role = "candidate"
      /\ co'.pc = "survivors" => co.role = "candidate" \/ ~Spawned("candidate")
  <2>1. Shut(failed)
    BY DEF Join
  <2> HIDE DEF failed
  <2> QED
    BY <1>0, <1>3, <2>1, Typed, ShutTyped
<1>6. (co.errors = TRUE => co'.errors = TRUE) /\ (Unspoiled' => Unspoiled /\ ~failed)
  <2> HIDE DEF failed
  <2> QED
    BY <1>1, <1>3, <1>4, <1>5 DEF Unspoiled
<1>7. ASSUME Unspoiled' PROVE Flows' /\ Left'
  <2>1. Unspoiled /\ ~failed
    BY <1>6, <1>7
  <2>2. \A r \in Roles : Spawned(r)
    BY <1>0, <1>1, <2>1 DEF Begun
  <2>3. Stopped(co.role)
    <3>1. wk[co.role].pc = "gone"
      BY <1>4, <2>1, <2>2 DEF Alive, Spawned, WkType
    <3>2. wk[co.role].exit = 0
      BY <2>1, <3>1 DEF ExitedBadly
    <3> QED
      BY <3>1, <3>2 DEF Stopped
  <2>4. Flows'
    BY <1>0, <1>1, <1>5, <2>1 DEF Flows, Waits, Quiet, Busy
  <2>5. Left'
    <3>1. \A r \in Roles : Stopped(r)' <=> Stopped(r)
      BY <1>1 DEF Stopped
    <3>2. CASE co'.pc = "shutdown"
      BY <1>5, <2>3, <3>1, <3>2 DEF Left, Roles
    <3>3. CASE co'.pc = "survivors"
      <4>1. co.role = "candidate"
        BY <1>5, <2>2, <3>3 DEF Roles
      <4>2. Stopped("reference")
        BY <1>0, <1>1, <2>1, <4>1 DEF Left
      <4> QED
        BY <2>3, <3>1, <3>3, <4>1, <4>2 DEF Left, Roles
    <3> QED
      BY <1>5, <3>2, <3>3
  <2> QED
    BY <2>4, <2>5
<1>8. Progress'
  BY <1>1, <1>5, <1>6, <1>7, StopKeeps DEF Early
<1> QED
  BY <1>2, <1>8

LEMMA NextSurvivorKeeps ==
  ASSUME BenchmarkInv, co.pc \in {"survivors", "join_terminate", "join_kill"},
         NextSurvivor(co), UNCHANGED <<wk, commands, replies, coordinated>>
  PROVE  Talk' /\ Progress'
<1>0. BenchmarkTypeOK /\ Talk /\ Begun /\ Flows /\ Agreed /\ Left /\ Counted
  BY DEF BenchmarkInv, Progress
<1>1. /\ co'.failure = co.failure /\ co'.errors = co.errors
      /\ co'.pc \in {"survivors", "finalize"}
  BY <1>0, Typed, SurvivorTyped
<1>2. Unspoiled' => Unspoiled
  BY <1>1 DEF Unspoiled
<1>3. ASSUME Unspoiled PROVE Flows' /\ Left'
  BY <1>0, <1>1, <1>3 DEF Flows, Left, Waits, Quiet, Busy, Stopped
<1>4. Progress'
  BY <1>1, <1>2, <1>3, StopKeeps DEF Early
<1> QED
  BY <1>0, <1>4, TalkSame

\* A signal is sent to a worker that lives, of a run that is spoiled.
LEMMA SignalKeeps ==
  ASSUME BenchmarkInv, NEW signal \in {"term", "kill"}, NEW pc \in Places \ Early,
         pc # "ended",
         wk' = [wk EXCEPT ![co.role].signal = signal], Goto(pc, co.role),
         UNCHANGED <<commands, replies, coordinated>>, ~Unspoiled, co.pc # "dead"
  PROVE  Talk' /\ Progress'
<1>0. BenchmarkTypeOK /\ Talk
  BY DEF BenchmarkInv
<1>1. /\ co.role \in Roles /\ co \in CoType /\ wk \in [Roles -> WkType]
      /\ co.errors \in BOOLEAN
  BY <1>0, Typed DEF WorkersTyped
<1>2. /\ wk'[co.role] = [wk[co.role] EXCEPT !.signal = signal]
      /\ \A r \in Roles : r # co.role => wk'[r] = wk[r]
  BY <1>1
<1>3. /\ wk'[co.role].pc = wk[co.role].pc
      /\ wk'[co.role].metadata = wk[co.role].metadata
  BY <1>1, <1>2 DEF WkType
<1>4. Talk'
  BY <1>0, <1>2, <1>3, TalkKept
<1>5. co'.failure = co.failure /\ co'.errors = co.errors /\ co'.pc = pc
  BY <1>1, GotoTyped
<1>6. Progress'
  BY <1>1, <1>5, SpoiledProgress DEF Unspoiled
<1> QED
  BY <1>4, <1>6

LEMMA SurvivorsKeep ==
  ASSUME BenchmarkInv, Terminate \/ JoinTerminated \/ JoinKilled
  PROVE  Talk' /\ Progress'
<1>0. BenchmarkTypeOK /\ Left
  BY DEF BenchmarkInv, Progress
<1>1. co.pc \in {"survivors", "join_terminate", "join_kill"}
  BY DEF Terminate, JoinTerminated, JoinKilled, At
<1>2. CASE NextSurvivor(co) /\ UNCHANGED wk
  BY <1>1, <1>2, NextSurvivorKeeps DEF Terminate, JoinTerminated, JoinKilled
<1>3. CASE /\ Alive(co.role)
           /\ \E signal \in {"term", "kill"}, pc \in {"join_terminate", "join_kill"} :
                wk' = [wk EXCEPT ![co.role].signal = signal] /\ Goto(pc, co.role)
  <2>1. ~Unspoiled
    BY <1>0, <1>1, <1>3, Typed DEF Left, Stopped, Alive, WorkerStates
  <2>2. UNCHANGED <<commands, replies, coordinated>>
    BY DEF Terminate, JoinTerminated, JoinKilled
  <2>3. \A pc \in {"join_terminate", "join_kill"} : pc \in Places \ Early
    BY DEF Places, Early
  <2> QED
    BY <1>1, <1>3, <2>1, <2>2, <2>3, SignalKeeps
<1> QED
  BY <1>2, <1>3 DEF Terminate, JoinTerminated, JoinKilled

LEMMA FinalizeKeeps == ASSUME BenchmarkInv, Finalize PROVE Talk' /\ Progress'
<1>0. BenchmarkTypeOK /\ Talk /\ Begun /\ Flows /\ Agreed /\ Left /\ Counted
  BY DEF BenchmarkInv, Progress
<1>1. co.pc = "finalize" /\ UNCHANGED <<commands, replies, coordinated>>
  BY DEF Finalize, At
<1> DEFINE e == co.errors \/ \E r \in Roles : Alive(r)
           f == IF co.failure = Nothing /\ e THEN "stop" ELSE co.failure
<1>2. co' = [co EXCEPT !.pc = "ended", !.errors = e, !.failure = f]
  BY DEF Finalize
<1>3. /\ e \in BOOLEAN /\ (e = FALSE => co.errors = FALSE)
      /\ (f = Nothing => e = FALSE /\ co.failure = Nothing)
  <2>1. "stop" # Nothing
    BY BenchmarkConstants DEF FailureKinds
  <2>2. co.errors \in BOOLEAN
    BY <1>0, Typed
  <2> QED
    BY <2>1, <2>2
<1>4. \A r \in Roles : /\ wk'[r].pc = wk[r].pc /\ wk'[r].metadata = wk[r].metadata
                       /\ wk'[r].exit = wk[r].exit
                       /\ Stopped(r) => wk'[r].finalized
  <2> SUFFICES ASSUME NEW r \in Roles
               PROVE  /\ wk'[r].pc = wk[r].pc /\ wk'[r].metadata = wk[r].metadata
                      /\ wk'[r].exit = wk[r].exit
                      /\ Stopped(r) => wk'[r].finalized
    OBVIOUS
  <2> DEFINE g == Spawned(r) /\ ~Alive(r)
  <2>1. wk'[r] = [wk[r] EXCEPT !.finalized = g] /\ g \in BOOLEAN
    BY DEF Finalize, Spawned
  <2>2. Stopped(r) => g = TRUE
    BY DEF Stopped, Spawned, Alive, WorkerStates
  <2>3. wk[r] \in WkType
    BY <1>0, Typed
  <2> HIDE DEF g
  <2> QED
    BY <2>1, <2>2, <2>3 DEF WkType
<1>5. Talk'
  BY <1>0, <1>1, <1>4, TalkKept
<1> HIDE DEF e, f
<1>6. co'.pc = "ended" /\ co'.errors = e /\ co'.failure = f
  BY <1>0, <1>2, Typed DEF CoType
<1>7. CASE f # Nothing
  BY <1>5, <1>6, <1>7, SpoiledProgress DEF Early
<1>8. CASE f = Nothing
  <2>1. Unspoiled /\ e = FALSE
    BY <1>1, <1>3, <1>8 DEF Unspoiled
  <2>2. \A r \in Roles : Stopped(r) /\ Stopped(r)' /\ wk'[r].finalized
    BY <1>0, <1>1, <1>4, <2>1 DEF Left, Stopped
  <2>3. Begun'
    BY <1>0, <1>1, <1>4, <1>6, <2>1 DEF Begun, Spawned, Early
  <2>4. Flows'
    BY <1>0, <1>1, <1>4, <1>6, <2>1 DEF Flows, Waits, Quiet, Busy
  <2>5. Agreed'
    BY <1>0, <1>1, <1>4, <1>6, <2>1 DEF Agreed, Roles
  <2>6. Left'
    BY <1>6, <2>2 DEF Left, Roles
  <2>7. Counted'
    BY <1>0, <1>1, <1>6, <2>1 DEF Counted, Early
  <2> QED
    BY <1>5, <2>3, <2>4, <2>5, <2>6, <2>7 DEF Progress
<1> QED
  BY <1>5, <1>7, <1>8

LEMMA InterruptKeeps ==
  ASSUME BenchmarkInv, Interrupt \/ CoordinatorDies
  PROVE  Talk' /\ Progress'
<1>0. BenchmarkTypeOK /\ Talk
  BY DEF BenchmarkInv
<1>1. UNCHANGED <<wk, commands, replies, coordinated>>
  BY DEF Interrupt, CoordinatorDies
<1>2. Talk'
  BY <1>0, <1>1, TalkSame
<1>3. CASE Abort("interrupt")
  BY <1>0, <1>2, <1>3, AbortProgress DEF FailureKinds
<1>4. CASE Shut(TRUE)
  BY <1>0, <1>2, <1>4, ShutSpoils
<1>5. CASE co.pc \in {"join_terminate", "join_kill"} /\ NextSurvivor(co)
  BY <1>1, <1>5, NextSurvivorKeeps
<1>6. CASE CoordinatorDies
  <2>1. co'.pc = "dead"
    BY <1>0, <1>6, Typed DEF CoordinatorDies, CoType
  <2> QED
    BY <1>2, <2>1, SpoiledProgress DEF Early
<1> QED
  BY <1>3, <1>4, <1>5, <1>6 DEF Interrupt

-----------------------------------------------------------------------------
LEMMA BenchmarkInvInit == Init => BenchmarkInv
<1> SUFFICES ASSUME Init PROVE BenchmarkInv
  OBVIOUS
<1>1. BenchmarkTypeOK
  BY BenchmarkTypesInit
<1>2. /\ \A r \in Roles : /\ wk[r].pc = "absent" /\ wk[r].metadata = Nothing
                          /\ commands[r] = <<>> /\ replies[r] = <<>>
      /\ co.pc = "spawn" /\ co.role = "reference" /\ co.pass = 0 /\ co.half = 1
      /\ co.failure = Nothing /\ co.errors = FALSE /\ coordinated = <<>>
  BY DEF Init
<1>3. \A r \in Roles : Quiet(r) /\ ~Asked(r) /\ ~Spawned(r) /\ 1..Len(replies[r]) = {}
  <2>1. \A r \in Roles : 1..Len(commands[r]) = {} /\ 1..Len(replies[r]) = {}
    BY <1>2, EmptySeq
  <2> QED
    BY <1>2, <2>1 DEF Quiet, Asked, Busy, Spawned
<1>4. Talk
  BY <1>2, <1>3 DEF Talk, Roles
<1>5. Progress
  BY <1>2, <1>3 DEF Progress, Begun, Flows, Agreed, Left, Counted, Unspoiled, Early, Waits, Roles
<1> QED
  BY <1>1, <1>4, <1>5 DEF BenchmarkInv

LEMMA BenchmarkInvNext == BenchmarkInv /\ [Next]_vars => BenchmarkInv'
<1> SUFFICES ASSUME BenchmarkInv, [Next]_vars PROVE BenchmarkInv'
  OBVIOUS
<1>1. BenchmarkTypeOK'
  BY BenchmarkTypesNext DEF BenchmarkInv
<1>2. Talk' /\ Progress'
  <2>1. CASE UNCHANGED vars
    BY <2>1 DEF vars, BenchmarkInv, Talk, Asked, Busy, Progress, Begun, Flows, Agreed, Left,
       Counted, Unspoiled, Quiet, AtMostOne, Stopped, Spawned, Turn, Starter
  <2>2. CASE Next
    BY <2>2, SpawnKeeps, SendKeeps, ReceiveReadyKeeps, ReceiveResultKeeps,
       ReceiveNothingKeeps, ShutdownKeeps, ReceiveStoppedKeeps, JoinKeeps, SurvivorsKeep,
       FinalizeKeeps, InterruptKeeps, WorkerKeeps DEF Next, Coordinate
  <2> QED
    BY <2>1, <2>2
<1> QED
  BY <1>1, <1>2 DEF BenchmarkInv

LEMMA BenchmarkInvHolds == Spec => []BenchmarkInv
BY BenchmarkInvInit, BenchmarkInvNext, PTL DEF Spec, SafeSpec

\* cpu_benchmark_coordinator.py: the two workers never load or measure at once, also when
\* one of them is past its deadline.
THEOREM OneBusy == Spec => []OneWorkerBusy
<1>1. BenchmarkInv => OneWorkerBusy
  BY DEF BenchmarkInv, Talk, Asked, OneWorkerBusy
<1> QED
  BY <1>1, BenchmarkInvHolds, PTL

\* cpu_benchmark_coordinator.py: a comparison that is returned comes from two agreeing
\* workers that answered everything and ended by themselves.
THEOREM CompletedClean == Spec => []CompletedIsClean
<1>1. BenchmarkInv => CompletedIsClean
  <2> SUFFICES ASSUME BenchmarkInv, Completed PROVE CompletedIsClean
    BY DEF CompletedIsClean
  <2>0. Begun /\ Flows /\ Agreed /\ Left
    BY DEF BenchmarkInv, Progress
  <2>1. co.pc = "ended" /\ co.failure = Nothing /\ Unspoiled
    BY <2>0 DEF Completed, Begun, Unspoiled
  <2>2. \A r \in Roles : Stopped(r) /\ wk[r].finalized /\ Quiet(r)
    BY <2>0, <2>1 DEF Left, Flows, Waits
  <2>3. /\ wk["reference"].metadata = wk["candidate"].metadata
        /\ \A r \in Roles : wk[r].metadata # "wrong"
    BY <2>0, <2>1 DEF Agreed, Roles
  <2> QED
    BY <2>2, <2>3 DEF CompletedIsClean, Stopped, Quiet
<1> QED
  BY <1>1, BenchmarkInvHolds, PTL

-----------------------------------------------------------------------------
\* The n-th measurement is the one whose turn it is.
LEMMA TurnsAlternate ==
  ASSUME NEW pass \in Nat, NEW half \in 1..2
  PROVE  /\ Compared!PassOf(2 * pass + half) = pass
         /\ Compared!RoleOf(2 * pass + half) = Turn(pass, half)
<1>1. Compared!PassOf(2 * pass + half) = pass
  BY DEF Compared!PassOf
<1>2. (2 * pass + half) % 2 = 1 <=> half = 1
  OBVIOUS
<1>3. Starter(0) = IF FirstOrder = "AB" THEN "reference" ELSE "candidate"
  BY DEF Starter
<1>4. Starter(pass) = IF pass % 2 = 0 THEN Starter(0) ELSE Other(Starter(0))
  BY <1>3 DEF Starter, Other
<1>5. Other(Other(Starter(0))) = Starter(0)
  BY <1>3 DEF Other
<1> QED
  BY <1>1, <1>2, <1>4, <1>5 DEF Compared!RoleOf, Turn

\* A run that has ended has ended.
LEMMA EndedStays == ASSUME Next, co.pc = "ended" PROVE UNCHANGED <<co, coordinated>>
<1>1. ~Coordinate /\ ~Interrupt /\ ~CoordinatorDies
  BY DEF Coordinate, Spawn, Prepare, ReceiveReady, RunPass, ReceiveResult, ReceiveNothing,
     Shutdown, ReceiveStopped, Join, Terminate, JoinTerminated, JoinKilled, Finalize, At,
     Receive, Interrupt, CoordinatorDies
<1> QED
  BY <1>1 DEF Next, WorkerStep, Obey, Crash, Hang

\* Only an accepted result adds to the measurements.
LEMMA OnlyResultsCount == ASSUME Next, ~ReceiveResult PROVE UNCHANGED coordinated
<1>1. CASE Coordinate
  BY <1>1 DEF Coordinate, Spawn, Prepare, Send, ReceiveReady, IsReady, RunPass,
     ReceiveNothing, Shutdown, ReceiveStopped, Join, Terminate, JoinTerminated, JoinKilled,
     Finalize
<1> QED
  BY <1>1 DEF Next, Interrupt, CoordinatorDies, WorkerStep, Obey, Crash, Hang

\* A verdict is reached on all measurements, or against them.
LEMMA VerdictImplements ==
  ASSUME BenchmarkInv', co.pc # "ended", UNCHANGED coordinated
  PROVE  [Compared!Next]_Compared!vars
<1>1. CASE co'.pc # "ended"
  BY <1>1 DEF Compared!vars
<1>2. CASE co'.pc = "ended" /\ co'.failure # Nothing
  BY <1>2 DEF Compared!Next, Compared!Fail
<1>3. CASE co'.pc = "ended" /\ co'.failure = Nothing
  <2>1. Len(coordinated') = 2 * Passes
    BY <1>3 DEF BenchmarkInv, Progress, Begun, Counted, Unspoiled, Early
  <2> QED
    BY <1>3, <2>1 DEF Compared!Next, Compared!Complete
<1> QED
  BY <1>1, <1>2, <1>3

LEMMA ResultImplements ==
  ASSUME BenchmarkInv, BenchmarkInv', ReceiveResult
  PROVE  [Compared!Next]_Compared!vars
<1>0. co.pc = "await_result" /\ BenchmarkTypeOK /\ Begun /\ Counted
  BY DEF ReceiveResult, Receive, At, BenchmarkInv, Progress
<1>1. CASE UNCHANGED coordinated
  BY <1>0, <1>1, VerdictImplements
<1>2. CASE ~UNCHANGED coordinated
  <2>1. /\ coordinated' = Append(coordinated, <<co.role, co.pass>>)
        /\ \/ co' = [co EXCEPT !.pc = "run", !.half = 2]
           \/ co' = [co EXCEPT !.pc = "run", !.half = 1, !.pass = @ + 1]
           \/ Stop(co)
    BY <1>2 DEF ReceiveResult, IsResult
  <2>2. co \in CoType /\ co.pass \in PassIndices /\ co.half \in 1..2
    BY <1>0, Typed DEF CoType
  <2>3. Spawned("reference")
    BY <1>0 DEF Begun, Unspoiled, Early, Roles
  <2>4. co'.pc # "ended"
    BY <2>1, <2>2, <2>3 DEF Stop, CoType
  <2>5. co.pass \in Nat /\ co.pass < Passes
    BY <2>2, BenchmarkConstants DEF PassIndices
  <2>6. /\ Len(coordinated) + 1 = 2 * co.pass + co.half
        /\ co.role = Turn(co.pass, co.half)
    BY <1>0, <2>2, <2>5 DEF Counted
  <2>7. /\ Compared!PassOf(Len(coordinated) + 1) = co.pass
        /\ Compared!RoleOf(Len(coordinated) + 1) = co.role
    BY <2>2, <2>5, <2>6, TurnsAlternate
  <2> QED
    BY <1>0, <2>1, <2>4, <2>5, <2>7 DEF Compared!Next, Compared!Measure
<1> QED
  BY <1>1, <1>2

\* cpu_benchmark_coordinator.py, run: the results that are accepted are those of a
\* comparison in alternating order, and one is returned only when it is complete.
THEOREM BenchmarkImplementsPairedPasses == Spec => ImplementsPairedPasses
<1>1. Init => Compared!Init
  BY DEF Init, Compared!Init
<1>2. BenchmarkInv /\ BenchmarkInv' /\ [Next]_vars => [Compared!Next]_Compared!vars
  <2> SUFFICES ASSUME BenchmarkInv, BenchmarkInv', [Next]_vars
               PROVE  [Compared!Next]_Compared!vars
    OBVIOUS
  <2>1. CASE UNCHANGED <<co, coordinated>>
    BY <2>1 DEF Compared!vars
  <2>2. CASE ReceiveResult
    BY <2>2, ResultImplements
  <2>3. CASE Next /\ ~ReceiveResult /\ co.pc # "ended"
    BY <2>3, OnlyResultsCount, VerdictImplements
  <2>4. CASE Next /\ co.pc = "ended"
    BY <2>1, <2>4, EndedStays
  <2> QED
    BY <2>1, <2>2, <2>3, <2>4 DEF vars
<1> QED
  BY <1>1, <1>2, BenchmarkInvHolds, PTL DEF Spec, SafeSpec, ImplementsPairedPasses, Compared!Spec
=============================================================================
