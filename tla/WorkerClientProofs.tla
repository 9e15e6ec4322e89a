------------------------- MODULE WorkerClientProofs -------------------------
(***************************************************************************)
(* What the kiosk may rely on of its inference worker, for every number of  *)
(* requests and of faults.                                                 *)
(***************************************************************************)
EXTENDS WorkerClient, SequenceTheorems, TLAPS

Answers == {"result", "analysis_failed"}
Live == cl.status \notin {"fatal", "stopped"}
Ended == cl.status = "fatal" \/ cl.sd \in {"returned", "thrown"}

Pcs == Running \cup {"absent", "spawning", "killed", "gone"}
Outcomes == {"unused", "pending", "result", "analysis_failed", "failed"}

\* Everything but the client's own record has its type.
WkTyped == wk \in WorkerType /\ (wk.pc = "analyze" => wk.id \in Ids)
PipesTyped == toWorker \in Seq(Requests) /\ toClient \in Seq(Events)
RestTyped ==
  /\ served \in [Ids -> {"nothing", "result", "analysis_failed"}]
  /\ missing \subseteq Ids /\ kiosk \in {"up", "down"} /\ faults \in 0..MaxFaults
AnswersTyped ==
  /\ outcome \in [Ids -> Outcomes] /\ progress \in [Ids -> Phases \cup {Nothing}]
  /\ \A i \in Ids : progress[i] # Nothing => outcome[i] = "pending"

LEMMA TypeParts ==
  WorkerClientTypeOK <=> WkTyped /\ PipesTyped /\ RestTyped /\ cl \in ClientType /\ AnswersTyped
BY DEF WorkerClientTypeOK, WorkerTypeOK, WkTyped, PipesTyped, RestTyped, AnswersTyped, Outcomes

LEMMA TypePartsNext ==
  (WkTyped /\ PipesTyped /\ RestTyped /\ cl \in ClientType /\ AnswersTyped)'
    => WorkerClientTypeOK'
BY DEF WorkerClientTypeOK, WorkerTypeOK, WkTyped, PipesTyped, RestTyped, AnswersTyped, Outcomes

LEMMA Constants ==
  /\ MaxRequests \in Nat \ {0} /\ MaxFaults \in Nat /\ Nothing \notin Ids
  /\ Nothing \notin Phases
BY WorkerBounds, NothingElse

-----------------------------------------------------------------------------
(* The worker's steps keep their types.                                    *)

LEMMA BecomesTyped ==
  ASSUME WkTyped, NEW pc \in Pcs \ {"analyze"}, Becomes(pc)
  PROVE  /\ WkTyped' /\ wk'.pc = pc /\ wk'.id = wk.id /\ wk'.profile = wk.profile
         /\ wk'.warmed = wk.warmed /\ wk'.mode = wk.mode /\ wk'.device = wk.device
         /\ wk'.stop = wk.stop /\ wk'.phase = wk.phase
BY DEF WkTyped, Becomes, WorkerType, Pcs

LEMMA EmitTyped ==
  ASSUME PipesTyped, NEW e \in Events, Emit(e), UNCHANGED toWorker
  PROVE  PipesTyped'
BY AppendProperties DEF PipesTyped, Emit

LEMMA EventsOf ==
  /\ \A type \in {"loading", "warming", "admission_failed", "initialization_failed",
                  "invalid_request"} : [type |-> type] \in Events
  /\ \A d \in Devices, m \in Modes : [type |-> "ready", device |-> d, mode |-> m] \in Events
  /\ \A i \in Ids, p \in Phases : [type |-> "progress", id |-> i, phase |-> p] \in Events
  /\ \A type \in {"result", "analysis_failed", "stopped"}, i \in Ids \cup {Nothing} :
       [type |-> type, id |-> i] \in Events
BY DEF Events

LEMMA EventFields ==
  ASSUME NEW e \in Events
  PROVE  /\ e.type \in {"loading", "warming", "admission_failed", "initialization_failed",
                        "invalid_request", "ready", "progress", "result",
                        "analysis_failed", "stopped"}
         /\ e.type = "ready" => e.device \in Devices /\ e.mode \in Modes
         /\ e.type = "progress" => e.id \in Ids /\ e.phase \in Phases
         /\ e.type \in {"result", "analysis_failed", "stopped"} => e.id \in Ids \cup {Nothing}
BY DEF Events

LEMMA FatalTyped ==
  ASSUME WkTyped, PipesTyped, NEW code \in {"admission_failed", "initialization_failed"},
         Fatal(code), UNCHANGED toWorker
  PROVE  WkTyped' /\ PipesTyped'
<1>1. "gone" \in Pcs \ {"analyze"} /\ Becomes("gone") /\ Emit([type |-> code])
  BY DEF Pcs, Fatal, Running, Starting, Serving
<1> QED
  BY <1>1, BecomesTyped, EmitTyped, EventsOf

LEMMA SelectTyped ==
  ASSUME WkTyped, PipesTyped, SelectCandidate \/ SelectLegacy
  PROVE  WkTyped' /\ PipesTyped'
<1>1. CASE Fatal("admission_failed") \/ Fatal("initialization_failed")
  <2>1. UNCHANGED toWorker
    BY DEF SelectCandidate, SelectLegacy
  <2> QED
    BY <1>1, <2>1, FatalTyped
<1>2. CASE ~(Fatal("admission_failed") \/ Fatal("initialization_failed"))
  <2>1. UNCHANGED <<toWorker, toClient>>
    BY <1>2 DEF SelectCandidate, SelectLegacy
  <2>2. PICK pc \in {"announce", "load"}, d \in Devices, m \in Modes :
          wk' = [wk EXCEPT !.pc = pc, !.device = d, !.mode = m]
    BY <1>2 DEF SelectCandidate, SelectLegacy, Devices, Modes
  <2>3. WkTyped'
    BY <2>2 DEF WkTyped, WorkerType, Running, Starting, Serving
  <2> QED
    BY <2>1, <2>3 DEF PipesTyped
<1> QED
  BY <1>1, <1>2

LEMMA FallBackTyped ==
  ASSUME WkTyped, PipesTyped, FallBack, UNCHANGED toWorker
  PROVE  WkTyped' /\ PipesTyped'
<1>1. CASE wk.device = "cuda:0"
  <2>1. /\ wk' = [wk EXCEPT !.pc = "load", !.device = "cpu", !.mode = "cpu_reference"]
        /\ UNCHANGED toClient
    BY <1>1 DEF FallBack
  <2>2. WkTyped'
    BY <2>1 DEF WkTyped, WorkerType, Running, Starting, Serving, Devices, Modes
  <2> QED
    BY <2>1, <2>2 DEF PipesTyped
<1>2. CASE wk.device # "cuda:0"
  BY <1>2, FatalTyped DEF FallBack
<1> QED
  BY <1>1, <1>2

LEMMA LoadTyped ==
  ASSUME WkTyped, PipesTyped, Load \/ Warm
  PROVE  WkTyped' /\ PipesTyped'
<1>1. UNCHANGED toWorker
  BY DEF Load, Warm
<1>2. CASE FallBack
  BY <1>1, <1>2, FallBackTyped
<1>3. CASE wk' = [wk EXCEPT !.pc = "warm", !.warmed = TRUE] /\ EmitWarming
  <2>1. WkTyped'
    BY <1>3 DEF WkTyped, WorkerType, Running, Starting, Serving
  <2>2. PipesTyped'
    BY <1>1, <1>3, EmitTyped, EventsOf DEF EmitWarming, PipesTyped
  <2> QED
    BY <2>1, <2>2
<1>4. CASE Becomes("announce") /\ UNCHANGED toClient
  <2>1. "announce" \in Pcs \ {"analyze"}
    BY DEF Pcs, Running, Starting, Serving
  <2> QED
    BY <1>1, <1>4, <2>1, BecomesTyped DEF PipesTyped
<1> QED
  BY <1>2, <1>3, <1>4 DEF Load, Warm

\* The lines Announce writes: at most one more than the last.
LEMMA Announced ==
  ASSUME PipesTyped, NEW e \in Events, NEW warmed \in BOOLEAN, 
         toClient' = toClient \o (IF warmed THEN <<>> ELSE <<[type |-> "warming"]>>) \o <<e>>
  PROVE  /\ toClient' \in Seq(Events)
         /\ toClient' = IF warmed THEN Append(toClient, e)
                                  ELSE Append(Append(toClient, [type |-> "warming"]), e)
<1>1. [type |-> "warming"] \in Events
  BY EventsOf
<1>2. toClient \in Seq(Events)
  BY DEF PipesTyped
<1>3. CASE warmed
  BY <1>2, <1>3, ConcatEmptySeq, AppendIsConcat, AppendProperties
<1>4. CASE ~warmed
  <2>1. Append(toClient, [type |-> "warming"]) = toClient \o <<[type |-> "warming"]>>
    BY <1>1, <1>2, AppendIsConcat
  <2>2. Append(toClient, [type |-> "warming"]) \in Seq(Events)
    BY <1>1, <1>2, AppendProperties
  <2>3. Append(Append(toClient, [type |-> "warming"]), e)
          = Append(toClient, [type |-> "warming"]) \o <<e>>
    BY <2>2, AppendIsConcat
  <2>4. toClient' = Append(Append(toClient, [type |-> "warming"]), e)
    BY <1>4, <2>1, <2>3
  <2> QED
    BY <1>4, <2>2, <2>4, AppendProperties
<1> QED
  BY <1>3, <1>4

LEMMA AnnounceTyped ==
  ASSUME WkTyped, PipesTyped, Announce
  PROVE  WkTyped' /\ PipesTyped'
<1>1. wk.device \in Devices /\ wk.mode \in Modes /\ wk.warmed \in BOOLEAN
  BY DEF WkTyped, WorkerType
<1>2. toClient' \in Seq(Events)
  BY <1>1, EventsOf, Announced DEF Announce
<1>3. WkTyped'
  BY DEF Announce, Becomes, WkTyped, WorkerType, Running, Starting, Serving
<1> QED
  BY <1>2, <1>3 DEF PipesTyped, Announce

LEMMA ReadTyped ==
  ASSUME WkTyped, PipesTyped, ReadAnalyze \/ ReadShutdown
  PROVE  WkTyped' /\ PipesTyped'
<1>1. toWorker # <<>> /\ toWorker' = Tail(toWorker)
  BY DEF ReadAnalyze, ReadShutdown
<1>2. Head(toWorker) \in Requests /\ toWorker' \in Seq(Requests)
  BY <1>1, HeadTailProperties DEF PipesTyped
<1>3. Head(toWorker).id \in Ids
  BY <1>2 DEF Requests
<1>4. WkTyped'
  <2>1. CASE ReadAnalyze
    <3>1. \/ UNCHANGED wk
          \/ wk' = [wk EXCEPT !.pc = "analyze", !.id = Head(toWorker).id, !.phase = Nothing]
      BY <2>1 DEF ReadAnalyze
    <3> QED
      BY <1>3, <3>1 DEF WkTyped, WorkerType, Running, Serving
  <2>2. CASE ReadShutdown
    <3>1. wk' = [wk EXCEPT !.pc = "close", !.stop = Head(toWorker).id]
      BY <2>2 DEF ReadShutdown
    <3> QED
      BY <1>3, <3>1 DEF WkTyped, WorkerType, Running, Serving
  <2> QED
    BY <2>1, <2>2
<1>5. toClient' \in Seq(Events)
  <2> DEFINE invalid == [type |-> "invalid_request"]
  <2>1. invalid \in Events
    BY EventsOf
  <2>2. toClient' = toClient \/ toClient' = Append(toClient, invalid)
    BY DEF ReadAnalyze, ReadShutdown, Emit
  <2> HIDE DEF invalid
  <2> QED
    BY <2>1, <2>2, AppendProperties DEF PipesTyped
<1> QED
  BY <1>2, <1>4, <1>5 DEF PipesTyped

LEMMA AnswerTyped ==
  ASSUME WkTyped, PipesTyped, RestTyped, NEW type \in Answers, wk.pc = "analyze", Answer(type)
  PROVE  WkTyped' /\ PipesTyped' /\ RestTyped'
<1>1. [type |-> type, id |-> wk.id] \in Events
  BY EventsOf DEF WkTyped, Answers
<1>2. PipesTyped'
  BY <1>1, EmitTyped DEF Answer
<1>3. WkTyped'
  BY DEF Answer, WkTyped, WorkerType, Running, Starting, Serving
<1> QED
  BY <1>2, <1>3 DEF Answer, RestTyped, Answers

LEMMA WorkerTyped ==
  ASSUME WkTyped, PipesTyped, RestTyped, WorkerStep
  PROVE  WkTyped' /\ PipesTyped' /\ RestTyped'
<1>1. Result \/ AnalysisFails \/ UNCHANGED <<served, missing, kiosk, faults>>
  BY DEF WorkerStep, RejectLaunch, BeginServe, SelectCandidate, SelectLegacy, Load, Warm,
         Announce, ReadAnalyze, ReadShutdown, ReadEnd, Progress, CloseRuntime, BrokenPipe
<1>2. CASE Result \/ AnalysisFails
  BY <1>2, AnswerTyped DEF Result, AnalysisFails, At, Answers
<1>3. CASE UNCHANGED <<served, missing, kiosk, faults>>
  <2>0. RestTyped'
    BY <1>3 DEF RestTyped
  <2>1. /\ "gone" \in Pcs \ {"analyze"} /\ "select" \in Pcs \ {"analyze"}
        /\ "close" \in Pcs \ {"analyze"}
    BY DEF Pcs, Running, Starting, Serving
  <2>2. CASE RejectLaunch \/ ReadEnd \/ BrokenPipe
    BY <2>0, <2>1, <2>2, BecomesTyped DEF RejectLaunch, ReadEnd, BrokenPipe, PipesTyped
  <2>3. CASE BeginServe
    BY <2>0, <2>1, <2>3, BecomesTyped, EmitTyped, EventsOf DEF BeginServe
  <2>4. CASE CloseRuntime
    <3>1. wk.stop \in Ids \cup {Nothing}
      BY DEF WkTyped, WorkerType
    <3> QED
      BY <2>0, <2>1, <2>4, <3>1, BecomesTyped, EmitTyped, EventsOf DEF CloseRuntime
  <2>5. CASE Progress
    <3>1. PICK phase \in Phases :
            /\ wk' = [wk EXCEPT !.phase = phase]
            /\ Emit([type |-> "progress", id |-> wk.id, phase |-> phase])
      BY <2>5 DEF Progress
    <3>2. wk.id \in Ids /\ UNCHANGED toWorker
      BY <2>5 DEF Progress, At, WkTyped
    <3>3. PipesTyped'
      BY <3>1, <3>2, EmitTyped, EventsOf
    <3>4. WkTyped'
      BY <3>1 DEF WkTyped, WorkerType
    <3> QED
      BY <2>0, <3>3, <3>4
  <2> QED
    BY <1>2, <2>0, <2>2, <2>3, <2>4, <2>5, SelectTyped, LoadTyped, AnnounceTyped, ReadTyped
       DEF WorkerStep
<1> QED
  BY <1>1, <1>2, <1>3

-----------------------------------------------------------------------------
(* The client's record, and who waits.                                     *)

\* What holds of the client's record, also between two of its assignments.
Sane(c) ==
  /\ c \in ClientType
  /\ ~c.shutting => c.seq <= MaxRequests
  /\ c.sd # "idle" => c.shutting
  /\ c.listening => c.owned
  /\ c.status \in {"loading", "warming", "ready"} => c.listening
  /\ c.sd \in {"returned", "thrown"} => c.status \in {"fatal", "stopped"}

Waits == Pending # {} => cl.listening /\ ~Ended

\* One field at a time.
LEMMA CancelTyped ==
  ASSUME NEW c \in ClientType, NEW cancel \in {"killed", "failed"}
  PROVE  [c EXCEPT !.cancel = cancel] \in ClientType
BY DEF ClientType

LEMMA ListeningTyped ==
  ASSUME NEW c \in ClientType
  PROVE  [c EXCEPT !.listening = TRUE] \in ClientType
BY DEF ClientType

LEMMA SdTyped ==
  ASSUME NEW c \in ClientType, NEW sd \in {"idle", "owner", "stop", "exit", "killed"}
  PROVE  [c EXCEPT !.sd = sd] \in ClientType
BY DEF ClientType

LEMMA FatallySane ==
  ASSUME NEW c, Sane(c), NEW cause \in Causes
  PROVE  /\ Sane(Fatally(c, cause)) /\ Fatally(c, cause).status = "fatal"
         /\ Fatally(c, cause).shutting = c.shutting
         /\ Fatally(c, cause).sd = c.sd
<1> DEFINE f == Fatally(c, cause)
<1>1. f = [c EXCEPT !.status = "fatal", !.cause = cause,
                    !.start = IF @ = "pending" THEN "failed" ELSE @]
  BY DEF Fatally
<1>2. f \in ClientType
  BY <1>1 DEF Sane, ClientType, Statuses
<1> QED
  BY <1>1, <1>2 DEF Sane, ClientType

LEMMA EvenIfStoppedSane ==
  ASSUME NEW c, Sane(c), NEW cause \in Causes
  PROVE  /\ Sane(FatalEvenIfStopped(c, cause)) 
         /\ FatalEvenIfStopped(c, cause).status = "fatal"
         /\ FatalEvenIfStopped(c, cause).shutting = c.shutting
         /\ FatalEvenIfStopped(c, cause).sd = c.sd
BY FatallySane DEF FatalEvenIfStopped

LEMMA FailPendingTyped ==
  ASSUME AnswersTyped, FailPending
  PROVE  AnswersTyped' /\ Pending' = {}
BY DEF AnswersTyped, FailPending, Pending, Outcomes

LEMMA MarkFatalSane ==
  ASSUME AnswersTyped, NEW c, Sane(c), NEW cause \in Causes, MarkFatal(c, cause)
  PROVE  Sane(cl') /\ AnswersTyped' /\ Pending' = {} /\ cl'.status = "fatal"
BY FatallySane, FailPendingTyped DEF MarkFatal

LEMMA ReturnSane ==
  ASSUME AnswersTyped, NEW c, Sane(c), c.shutting, Return(c)
  PROVE  Sane(cl') /\ AnswersTyped' /\ Pending' = {} /\ cl'.sd = "returned"
<1>1. cl' = [c EXCEPT !.sd = "returned", !.status = "stopped"] /\ FailPending
  BY DEF Return
<1>2. cl' \in ClientType
  BY <1>1 DEF Sane, ClientType, Statuses
<1> QED
  BY <1>1, <1>2, FailPendingTyped DEF Sane, ClientType

LEMMA ThrowSane ==
  ASSUME AnswersTyped, NEW c, Sane(c), c.shutting, Throw(c)
  PROVE  Sane(cl') /\ AnswersTyped' /\ Pending' = {} /\ cl'.sd = "thrown"
<1> DEFINE f == FatalEvenIfStopped(c, "kill")
<1>1. cl' = [f EXCEPT !.sd = "thrown"] /\ FailPending
  BY DEF Throw
<1>2. Sane(f) /\ f.status = "fatal" /\ f.shutting
  BY EvenIfStoppedSane DEF Causes
<1> HIDE DEF f
<1>3. cl' \in ClientType
  BY <1>1, <1>2 DEF Sane, ClientType
<1> QED
  BY <1>1, <1>2, <1>3, FailPendingTyped DEF Sane, ClientType

LEMMA SettleSane ==
  ASSUME AnswersTyped, NEW c, Sane(c), Settle(c)
  PROVE  /\ Sane(cl') /\ AnswersTyped'
         /\ \/ Pending' = {} /\ cl'.sd \in {"returned", "thrown"}
            \/ /\ cl' = [c EXCEPT !.owner = "settled"]
               /\ UNCHANGED <<outcome, progress>>
<1> DEFINE settled == [c EXCEPT !.owner = "settled"]
<1>1. settled \in ClientType
  BY DEF Sane, ClientType
<1>2. Sane(settled) /\ settled.shutting = c.shutting /\ settled.sd = c.sd
  BY <1>1 DEF Sane, ClientType
<1>3. \/ c.sd = "owner" /\ (Throw(settled) \/ Return(settled))
      \/ cl' = settled /\ UNCHANGED <<outcome, progress>>
  BY DEF Settle
<1> HIDE DEF settled
<1>4. CASE c.sd = "owner" /\ (Throw(settled) \/ Return(settled))
  BY <1>2, <1>4, ThrowSane, ReturnSane DEF Sane
<1>5. CASE cl' = settled /\ UNCHANGED <<outcome, progress>>
  BY <1>2, <1>5 DEF AnswersTyped, settled
<1> QED
  BY <1>3, <1>4, <1>5

LEMMA WaitsNobody ==
  Pending' = {} => Waits'
BY DEF Waits

LEMMA WaitsStill ==
  ASSUME Waits, UNCHANGED outcome, cl'.listening = cl.listening, cl'.status # "fatal",
         cl'.sd \notin {"returned", "thrown"}
  PROVE  Waits'
BY DEF Waits, Pending, Ended

-----------------------------------------------------------------------------
(* The client's steps keep its record sane, and leave nobody waiting for an *)
(* answer that cannot come.                                                *)

ClientOK == Sane(cl) /\ AnswersTyped /\ Waits

\* A step in which nothing is submitted and nothing is answered.
Gives ==
  /\ Ended => Ended'
  /\ Live' => Live
  /\ UNCHANGED outcome \/ (FailPending /\ Ended')

LEMMA MarkFatalGives ==
  ASSUME AnswersTyped, NEW c, Sane(c), NEW cause \in Causes, MarkFatal(c, cause)
  PROVE  ClientOK' /\ Gives
BY MarkFatalSane, WaitsNobody DEF ClientOK, Gives, Ended, Live, MarkFatal

LEMMA ReturnGives ==
  ASSUME AnswersTyped, NEW c, Sane(c), c.shutting, Return(c)
  PROVE  ClientOK' /\ Gives
BY ReturnSane, WaitsNobody DEF ClientOK, Gives, Ended, Live, Return, Sane

LEMMA ThrowGives ==
  ASSUME AnswersTyped, NEW c, Sane(c), c.shutting, Throw(c)
  PROVE  ClientOK' /\ Gives
BY ThrowSane, WaitsNobody DEF ClientOK, Gives, Ended, Live, Throw, Sane

LEMMA SettleGives ==
  ASSUME ClientOK, NEW c, Sane(c), c.listening = cl.listening \/ Pending = {}, c.sd = cl.sd,
         c.status = cl.status \/ (c.status = "fatal" /\ Pending = {}), Settle(c)
  PROVE  ClientOK' /\ Gives
<1>1. Sane(cl') /\ AnswersTyped'
  BY SettleSane DEF ClientOK
<1>2. CASE Pending' = {} /\ cl'.sd \in {"returned", "thrown"}
  <2>1. ~Live' /\ Ended'
    BY <1>1, <1>2 DEF Sane, Ended, Live
  <2>2. UNCHANGED outcome \/ FailPending
    BY DEF Settle, Throw, Return
  <2> QED
    BY <1>1, <1>2, <2>1, <2>2, WaitsNobody DEF ClientOK, Gives
<1>3. CASE cl' = [c EXCEPT !.owner = "settled"] /\ UNCHANGED <<outcome, progress>>
  <2>1. cl'.sd = c.sd /\ cl'.status = c.status /\ cl'.listening = c.listening
    BY <1>3 DEF Sane, ClientType
  <2>2. Waits'
    BY <1>3, <2>1 DEF ClientOK, Waits, Pending, Ended
  <2>3. Gives
    BY <1>3, <2>1 DEF Gives, Live, Ended
  <2> QED
    BY <1>1, <2>2, <2>3 DEF ClientOK
<1> QED
  BY <1>2, <1>3, SettleSane DEF ClientOK

LEMMA StartOK ==
  ASSUME ClientOK, Start
  PROVE  ClientOK' /\ Gives
<1> DEFINE c == [cl EXCEPT !.status = "starting", !.start = "pending"]
           d == [c EXCEPT !.owner = "pending"]
<1>1. cl.status = "notStarted" /\ cl \in ClientType
  BY DEF Start, ClientOK, Sane
<1>2. c \in ClientType /\ d \in ClientType
  BY <1>1 DEF ClientType, Statuses
<1>3. Sane(c) /\ Sane(d) /\ c.listening = cl.listening /\ d.listening = cl.listening
      /\ d.status = "starting" /\ d.sd = cl.sd /\ cl.sd \notin {"returned", "thrown"}
  BY <1>1, <1>2 DEF Sane, ClientType, ClientOK
<1>4. \/ cl' = d /\ UNCHANGED <<outcome, progress>>
      \/ MarkFatal(c, "start")
  BY DEF Start
<1> HIDE DEF c, d
<1>5. CASE cl' = d /\ UNCHANGED <<outcome, progress>>
  <2>1. d.sd \notin {"returned", "thrown"}
    BY <1>1, <1>3 DEF ClientOK, Sane
  <2>2. Gives
    BY <1>1, <1>3, <1>5, <2>1 DEF Gives, Live, Ended
  <2> QED
    BY <1>3, <1>5, <2>1, <2>2, WaitsStill DEF ClientOK, AnswersTyped
<1>6. CASE MarkFatal(c, "start")
  BY <1>3, <1>6, MarkFatalGives DEF ClientOK, Causes
<1> QED
  BY <1>4, <1>5, <1>6

LEMMA AnalyzeOK ==
  ASSUME ClientOK, Analyze
  PROVE  /\ ClientOK' /\ cl.seq + 1 \in Ids
         /\ cl' = [cl EXCEPT !.seq = cl.seq + 1]
         /\ outcome' = [outcome EXCEPT ![cl.seq + 1] = "pending"]
         /\ Write("analyze", cl.seq + 1)
<1>1. /\ cl' = [cl EXCEPT !.seq = cl.seq + 1] /\ Write("analyze", cl.seq + 1)
      /\ outcome' = [outcome EXCEPT ![cl.seq + 1] = "pending"]
      /\ progress' = [progress EXCEPT ![cl.seq + 1] = Nothing]
      /\ cl.status = "ready" /\ ~cl.shutting /\ cl.seq < MaxRequests
  BY DEF Analyze
<1>2. cl \in ClientType /\ cl.listening /\ cl.sd = "idle" /\ cl.seq \in Nat
  BY <1>1, Constants DEF ClientOK, Sane, ClientType
<1>3. cl.seq + 1 \in Ids
  BY <1>1, <1>2, Constants DEF Ids
<1>4. cl' \in ClientType
  BY <1>1, <1>2, Constants DEF ClientType
<1>5. Sane(cl')
  BY <1>1, <1>2, <1>4, Constants DEF Sane, ClientType, ClientOK
<1>6. AnswersTyped'
  BY <1>1, <1>3 DEF AnswersTyped, ClientOK, Outcomes
<1>7. Waits'
  BY <1>1, <1>2 DEF Waits, Ended, ClientType
<1> QED
  BY <1>1, <1>3, <1>5, <1>6, <1>7 DEF ClientOK

LEMMA BeginShutdownSane ==
  ASSUME Sane(cl), ~cl.shutting
  PROVE  /\ Sane(BeginShutdown) /\ BeginShutdown.shutting 
         /\ Sane([BeginShutdown EXCEPT !.sd = "owner"])
         /\ cl.seq + 1 \in Ids
         /\ Sane([BeginShutdown EXCEPT !.seq = cl.seq + 1, !.stopId = cl.seq + 1])
<1> DEFINE b == BeginShutdown
           owner == [b EXCEPT !.sd = "owner"]
           stop == [b EXCEPT !.seq = cl.seq + 1, !.stopId = cl.seq + 1]
<1>1. cl.seq \in Nat /\ cl.seq <= MaxRequests
  BY Constants DEF Sane, ClientType
<1>2. b \in ClientType /\ b.shutting /\ b.seq = cl.seq /\ b.sd = "idle" /\ b.status = cl.status
      /\ b.listening = cl.listening /\ b.owned = cl.owned
  BY DEF BeginShutdown, Sane, ClientType
<1> HIDE DEF b
<1>3. cl.seq + 1 \in Ids /\ cl.seq + 1 \in 0..MaxRequests + 1
  BY <1>1, Constants DEF Ids
<1>4. owner \in ClientType /\ stop \in ClientType
  BY <1>2, <1>3 DEF ClientType
<1>5. Sane(b) /\ Sane(owner) /\ Sane(stop)
  BY <1>2, <1>4 DEF Sane, ClientType
<1> QED
  BY <1>2, <1>3, <1>5 DEF b

LEMMA ShutdownOK ==
  ASSUME ClientOK, Shutdown
  PROVE  ClientOK' /\ Gives
<1> DEFINE b == BeginShutdown
           id == cl.seq + 1
           c == [b EXCEPT !.seq = id, !.stopId = id]
           o == [b EXCEPT !.sd = "owner"]
           w == [c EXCEPT !.sd = "stop"]
<1>1. Sane(cl) /\ AnswersTyped /\ Waits /\ ~cl.shutting
  BY DEF Shutdown, ClientOK
<1>2. Sane(b) /\ b.shutting /\ Sane(o) /\ Sane(c)
  BY <1>1, BeginShutdownSane
<1>3. /\ b.status = cl.status /\ b.listening = cl.listening /\ b.sd = "idle" /\ cl.sd = "idle"
      /\ b \in ClientType
  BY <1>1, <1>2 DEF BeginShutdown, Sane, ClientType
<1>4. \/ cl' = o /\ UNCHANGED <<outcome, progress>>
      \/ Return(b) \/ Return(c)
      \/ cl' = w /\ UNCHANGED <<outcome, progress>>
  BY DEF Shutdown
<1> HIDE DEF b, id
<1>5. /\ c.shutting /\ c.status = cl.status /\ c.listening = cl.listening
      /\ o.status = cl.status /\ o.listening = cl.listening /\ o.sd = "owner"
      /\ w.status = cl.status /\ w.listening = cl.listening /\ w.sd = "stop"
  BY <1>2, <1>3 DEF ClientType
<1> HIDE DEF c, o
<1>6. w \in ClientType
  BY <1>2, SdTyped DEF Sane
<1>7. Sane(w)
  <2>1. /\ w.shutting = c.shutting /\ w.seq = c.seq /\ w.listening = c.listening
        /\ w.owned = c.owned /\ w.status = c.status /\ w.sd = "stop"
    BY <1>2 DEF Sane, ClientType
  <2> QED
    BY <1>2, <1>5, <1>6, <2>1 DEF Sane
<1> HIDE DEF w
<1>8. CASE Return(b) \/ Return(c)
  BY <1>1, <1>2, <1>5, <1>8, ReturnGives
<1>9. ASSUME NEW d \in {o, w}, cl' = d, UNCHANGED <<outcome, progress>>
      PROVE  ClientOK' /\ Gives
  <2>1. Sane(d) /\ d.status = cl.status /\ d.listening = cl.listening /\ d.sd \in {"owner", "stop"}
    BY <1>2, <1>5, <1>7
  <2>2. Waits'
    BY <1>1, <1>9, <2>1 DEF Waits, Pending, Ended
  <2>3. Gives
    BY <1>3, <1>9, <2>1 DEF Gives, Live, Ended
  <2> QED
    BY <1>1, <1>9, <2>1, <2>2, <2>3 DEF ClientOK, AnswersTyped
<1> QED
  BY <1>4, <1>8, <1>9

LEMMA SpawnFailsOK ==
  ASSUME ClientOK, SpawnFails
  PROVE  ClientOK' /\ Gives
<1> DEFINE c == [cl EXCEPT !.owner = "settled"]
<1>1. Sane(cl) /\ AnswersTyped
  BY DEF ClientOK
<1>2. c \in ClientType
  BY <1>1 DEF Sane, ClientType
<1>3. Sane(c)
  BY <1>1, <1>2 DEF Sane, ClientType
<1> HIDE DEF c
<1>4. CASE Settle(cl)
  BY <1>1, <1>4, SettleGives
<1>5. CASE MarkFatal(c, "start")
  BY <1>1, <1>3, <1>5, MarkFatalGives DEF Causes
<1> QED
  BY <1>4, <1>5 DEF SpawnFails, c

LEMMA OwnOK ==
  ASSUME ClientOK, Own
  PROVE  ClientOK' /\ Gives
<1> DEFINE c == [cl EXCEPT !.owned = TRUE]
           k == [c EXCEPT !.cancel = "killed"]
           f == FatalEvenIfStopped(c, "kill")
           g == [f EXCEPT !.cancel = "failed"]
           l == [c EXCEPT !.listening = TRUE]
<1>1. Sane(cl) /\ AnswersTyped /\ Pending = {} /\ ~cl.listening
  BY DEF Own, ClientOK, Sane, Waits
<1>2. c \in ClientType /\ c.status = cl.status /\ c.sd = cl.sd /\ ~c.listening
  BY <1>1 DEF Sane, ClientType
<1>3. Sane(c)
  BY <1>1, <1>2 DEF Sane, ClientType
<1>4. \/ cl' = k /\ UNCHANGED <<outcome, progress>>
      \/ Settle(g) \/ Settle(l)
  BY DEF Own
<1> HIDE DEF c
<1>5. Sane(f) /\ f.status = "fatal" /\ f.sd = cl.sd
  BY <1>2, <1>3, EvenIfStoppedSane DEF Causes
<1> HIDE DEF f
<1>6. k \in ClientType /\ l \in ClientType /\ g \in ClientType
  <2>1. k \in ClientType /\ l \in ClientType
    BY <1>2, CancelTyped, ListeningTyped
  <2>2. g \in ClientType
    BY <1>5, CancelTyped DEF Sane
  <2> QED
    BY <2>1, <2>2
<1>7. Sane(k) /\ Sane(g) /\ g.status = "fatal" /\ g.sd = cl.sd /\ k.sd = cl.sd /\ k.status = cl.status
  <2>1. k.sd = cl.sd /\ k.status = cl.status /\ Sane(k)
    BY <1>2, <1>3, <1>6 DEF Sane, ClientType
  <2>2. g.status = "fatal" /\ g.sd = cl.sd /\ Sane(g)
    BY <1>5, <1>6 DEF Sane, ClientType
  <2> QED
    BY <2>1, <2>2
<1>8. Sane(l) /\ l.sd = cl.sd /\ l.status = cl.status
  BY <1>1, <1>2, <1>3, <1>6 DEF Sane, ClientType, Own, c
<1> HIDE DEF k, g, l
<1>9. CASE Settle(g) \/ Settle(l)
  BY <1>1, <1>7, <1>8, <1>9, SettleGives
<1>10. CASE cl' = k /\ UNCHANGED <<outcome, progress>>
  <2>1. Pending' = {}
    BY <1>1, <1>10 DEF Pending
  <2>2. Gives
    BY <1>7, <1>10 DEF Gives, Live, Ended
  <2> QED
    BY <1>1, <1>7, <1>10, <2>1, <2>2, WaitsNobody DEF ClientOK, AnswersTyped
<1> QED
  BY <1>4, <1>9, <1>10

LEMMA TimeoutsOK ==
  ASSUME ClientOK, CancelTimeout \/ OwnerTimeout \/ KillTimeout
  PROVE  ClientOK' /\ Gives
<1>1. CASE CancelTimeout
  BY <1>1, SettleGives DEF CancelTimeout, ClientOK
<1>2. CASE OwnerTimeout \/ KillTimeout
  BY <1>2, ReturnGives DEF OwnerTimeout, KillTimeout, ClientOK, Sane
<1> QED
  BY <1>1, <1>2

LEMMA ShutdownTimeoutOK ==
  ASSUME ClientOK, ShutdownTimeout
  PROVE  ClientOK' /\ Gives
<1> DEFINE k == [cl EXCEPT !.sd = "killed"]
<1>1. Sane(cl) /\ AnswersTyped /\ cl.shutting /\ cl.sd \notin {"returned", "thrown"}
  BY DEF ClientOK, Sane, ShutdownTimeout
<1>2. k \in ClientType
  BY <1>1 DEF Sane, ClientType
<1>3. Sane(k) /\ k.sd = "killed" /\ k.status = cl.status /\ k.listening = cl.listening
  BY <1>1, <1>2 DEF Sane, ClientType
<1> HIDE DEF k
<1>4. CASE Throw(cl)
  BY <1>1, <1>4, ThrowGives
<1>5. CASE cl' = k /\ UNCHANGED <<outcome, progress>>
  <2>1. Waits'
    BY <1>3, <1>5 DEF ClientOK, Waits, Pending, Ended
  <2>2. Gives
    BY <1>1, <1>3, <1>5 DEF Gives, Live, Ended
  <2> QED
    BY <1>1, <1>3, <1>5, <2>1, <2>2 DEF ClientOK, AnswersTyped
<1> QED
  BY <1>4, <1>5 DEF ShutdownTimeout, k

LEMMA OnProcessExitOK ==
  ASSUME ClientOK, OnProcessExit
  PROVE  ClientOK' /\ Gives
<1> DEFINE c == [cl EXCEPT !.exitSeen = TRUE]
<1>1. Sane(cl) /\ AnswersTyped
  BY DEF ClientOK
<1>2. c \in ClientType /\ c.sd = cl.sd /\ c.status = cl.status /\ c.listening = cl.listening
      /\ c.shutting = cl.shutting
  BY <1>1 DEF Sane, ClientType
<1>3. Sane(c)
  BY <1>1, <1>2 DEF Sane, ClientType
<1>4. \/ c.sd \in {"stop", "exit", "killed"} /\ Return(c)
      \/ Settle(c) \/ MarkFatal(c, "exit")
      \/ cl' = c /\ UNCHANGED <<outcome, progress>>
  BY DEF OnProcessExit
<1> HIDE DEF c
<1>5. CASE c.sd \in {"stop", "exit", "killed"} /\ Return(c)
  BY <1>1, <1>3, <1>5, ReturnGives DEF Sane
<1>6. CASE Settle(c)
  BY <1>2, <1>3, <1>6, SettleGives
<1>7. CASE MarkFatal(c, "exit")
  BY <1>1, <1>3, <1>7, MarkFatalGives DEF Causes
<1>8. CASE cl' = c /\ UNCHANGED <<outcome, progress>>
  <2>1. Waits'
    BY <1>2, <1>8 DEF ClientOK, Waits, Pending, Ended
  <2>2. Gives
    BY <1>2, <1>8 DEF Gives, Live, Ended
  <2> QED
    BY <1>1, <1>3, <1>8, <2>1, <2>2 DEF ClientOK, AnswersTyped
<1> QED
  BY <1>4, <1>5, <1>6, <1>7, <1>8

\* The answer of a request that waits for it is handed to its caller.
Answers1(e) ==
  /\ e.type \in Answers /\ outcome[e.id] = "pending"
  /\ outcome' = [outcome EXCEPT ![e.id] = e.type]
  /\ UNCHANGED cl

HandledOK(e) ==
  /\ ClientOK'
  /\ \/ Gives /\ (Live' => e.type \notin Answers \cup {"invalid_request"})
     \/ Answers1(e)

LEMMA ProtocolErrorOK ==
  ASSUME ClientOK, NEW e, ProtocolError
  PROVE  HandledOK(e)
<1>1. ClientOK' /\ Gives
  BY MarkFatalGives DEF ProtocolError, ClientOK, Causes
<1>2. ~Live'
  BY MarkFatalSane DEF ProtocolError, ClientOK, Causes, Live
<1> QED
  BY <1>1, <1>2 DEF HandledOK

LEMMA StatusOK ==
  ASSUME ClientOK, Live, cl.listening, NEW e, e.type \notin Answers \cup {"invalid_request"},
         Sane(cl'), cl'.listening = cl.listening, cl'.status # "fatal",
         cl'.sd \notin {"returned", "thrown"}, UNCHANGED <<outcome, progress>>
  PROVE  HandledOK(e)
<1>1. ~Ended
  BY DEF Ended, Live, ClientOK, Sane
<1>2. ClientOK'
  BY WaitsStill DEF ClientOK, AnswersTyped
<1> QED
  BY <1>1, <1>2 DEF HandledOK, Gives

LEMMA CompleteOK ==
  ASSUME ClientOK, NEW e \in Events, e.type \in Answers, outcome[e.id] = "pending",
         Complete(e.id, e.type)
  PROVE  HandledOK(e)
<1>1. /\ outcome' = [outcome EXCEPT ![e.id] = e.type]
      /\ progress' = [progress EXCEPT ![e.id] = Nothing] /\ UNCHANGED cl
  BY DEF Complete
<1>2. AnswersTyped'
  BY <1>1 DEF ClientOK, AnswersTyped, Outcomes, Answers
<1>3. Pending' \subseteq Pending
  BY <1>1 DEF Pending, ClientOK, AnswersTyped, Answers
<1>4. ClientOK'
  BY <1>1, <1>2, <1>3 DEF ClientOK, Waits, Ended
<1> QED
  BY <1>1, <1>4 DEF HandledOK, Answers1

\* A ready line completes the start, or is refused once its metrics are kept.
LEMMA ReadySteps ==
  ASSUME cl \in ClientType, NEW e \in Events, e.type = "ready", HandleReady(e)
  PROVE  /\ WithMetrics(e) \in ClientType
         /\ \/ /\ cl.status = "warming" /\ cl.start = "pending"
               /\ cl' = [cl EXCEPT !.status = "ready", !.start = "ready",
                                   !.ready = [device |-> e.device, mode |-> e.mode]]
               /\ UNCHANGED <<outcome, progress>>
            \/ /\ cl.status = "warming" /\ cl.start # "pending"
               /\ MarkFatal(WithMetrics(e), "protocol")
            \/ cl.status # "warming" /\ ProtocolError
<1> DEFINE ready == [device |-> e.device, mode |-> e.mode]
<1>1. ready \in [device : Devices, mode : Modes]
  BY EventFields
<1>2. WithMetrics(e) = [cl EXCEPT !.status = "ready", !.ready = ready]
  BY DEF WithMetrics
<1>3. [WithMetrics(e) EXCEPT !.start = "ready"]
        = [cl EXCEPT !.status = "ready", !.start = "ready", !.ready = ready]
  BY <1>2 DEF ClientType
<1> HIDE DEF ready
<1>4. WithMetrics(e) \in ClientType
  BY <1>1, <1>2 DEF ClientType, Statuses
<1> QED
  BY <1>3, <1>4 DEF HandleReady, ready

LEMMA HandleOK ==
  ASSUME ClientOK, Live, cl.listening, NEW e \in Events, Handle(e)
  PROVE  HandledOK(e)
<1>1. Sane(cl) /\ cl.sd \notin {"returned", "thrown"} /\ cl.status # "fatal"
  BY DEF ClientOK, Sane, Live
<1>2. CASE ProtocolError
  BY <1>2, ProtocolErrorOK
<1>3. CASE e.type \in {"loading", "warming"} /\ HandleStartup(e) /\ ~ProtocolError
  <2>1. cl' = [cl EXCEPT !.status = e.type] /\ UNCHANGED <<outcome, progress>>
    BY <1>3 DEF HandleStartup
  <2>2. cl' \in ClientType
    BY <1>1, <1>3, <2>1 DEF Sane, ClientType, Statuses
  <2>3. Sane(cl') /\ cl'.listening = cl.listening /\ cl'.status = e.type /\ cl'.sd = cl.sd
    BY <1>1, <1>3, <2>1, <2>2 DEF Sane, ClientType
  <2> QED
    BY <1>1, <1>3, <2>1, <2>3, StatusOK DEF Answers
<1>4. CASE e.type = "ready" /\ HandleReady(e) /\ ~ProtocolError
  <2>0. CASE cl.start # "pending"
    <3>1. /\ WithMetrics(e) \in ClientType /\ MarkFatal(WithMetrics(e), "protocol")
          /\ cl.status = "warming"
      BY <1>1, <1>4, <2>0, ReadySteps DEF Sane
    <3>2. Sane(WithMetrics(e))
      BY <1>1, <3>1 DEF Sane, WithMetrics, ClientType
    <3>3. ClientOK' /\ Gives /\ ~Live'
      BY <3>1, <3>2, MarkFatalGives, MarkFatalSane DEF ClientOK, Causes, Live
    <3> QED
      BY <3>3 DEF HandledOK
  <2> SUFFICES ASSUME cl.start = "pending" PROVE HandledOK(e)
    BY <2>0
  <2> DEFINE ready == [device |-> e.device, mode |-> e.mode]
  <2>1. /\ cl' = [cl EXCEPT !.status = "ready", !.start = "ready", !.ready = ready]
        /\ UNCHANGED <<outcome, progress>>
    BY <1>1, <1>4, ReadySteps DEF Sane
  <2>2. ready \in [device : Devices, mode : Modes]
    BY <1>4, EventFields
  <2> HIDE DEF ready
  <2>3. cl' \in ClientType
    BY <1>1, <2>1, <2>2 DEF Sane, ClientType, Statuses
  <2>4. /\ cl'.listening = cl.listening /\ cl'.status = "ready" /\ cl'.sd = cl.sd
        /\ cl'.shutting = cl.shutting /\ cl'.owned = cl.owned /\ cl'.seq = cl.seq
    BY <1>1, <2>1 DEF Sane, ClientType
  <2>5. Sane(cl')
    BY <1>1, <2>3, <2>4 DEF Sane
  <2> QED
    BY <1>1, <1>4, <2>1, <2>4, <2>5, StatusOK DEF Answers
<1>5. CASE e.type = "progress" /\ HandleProgress(e) /\ ~ProtocolError
  <2>1. /\ progress' = [progress EXCEPT ![e.id] = e.phase] /\ UNCHANGED <<cl, outcome>>
        /\ outcome[e.id] = "pending" /\ e.phase \in Phases
    BY <1>5, EventFields DEF HandleProgress
  <2>2. AnswersTyped'
    BY <2>1 DEF AnswersTyped, ClientOK
  <2>3. ClientOK'
    BY <2>1, <2>2 DEF ClientOK, Waits, Pending, Ended
  <2>4. Gives
    BY <2>1 DEF Gives, Ended, Live
  <2> QED
    BY <1>5, <2>3, <2>4 DEF HandledOK, Answers
<1>6. CASE e.type = "result" /\ HandleResult(e) /\ ~ProtocolError
  BY <1>6, CompleteOK DEF HandleResult, Answers
<1>7. CASE e.type \in {"analysis_failed", "invalid_request"} /\ HandleWorkerError(e)
           /\ ~ProtocolError
  <2>1. outcome[e.id] = "pending" /\ Complete(e.id, "analysis_failed") /\ e.type = "analysis_failed"
    BY <1>7 DEF HandleWorkerError
  <2> QED
    BY <2>1, CompleteOK DEF Answers
<1>8. CASE e.type \in {"admission_failed", "initialization_failed"} /\ MarkFatal(cl, e.type)
  <2>1. e.type \in Causes
    BY <1>8 DEF Causes
  <2>2. ClientOK' /\ Gives /\ ~Live'
    BY <1>1, <1>8, <2>1, MarkFatalGives, MarkFatalSane DEF ClientOK, Live
  <2> QED
    BY <2>2 DEF HandledOK
<1>9. CASE e.type = "stopped" /\ HandleStopped(e) /\ ~ProtocolError
  <2>1. /\ cl' = [cl EXCEPT !.status = "stopped", !.sd = IF @ = "stop" THEN "exit" ELSE @]
        /\ UNCHANGED <<outcome, progress>> /\ cl.shutting
    BY <1>9 DEF HandleStopped
  <2>2. PICK sd \in {"exit", cl.sd} : cl' = [cl EXCEPT !.status = "stopped", !.sd = sd]
    BY <2>1
  <2>3. cl' \in ClientType
    <3>1. cl \in ClientType
      BY <1>1 DEF Sane
    <3>2. cl' = [[cl EXCEPT !.status = "stopped"] EXCEPT !.sd = sd]
      BY <2>2
    <3>3. [cl EXCEPT !.status = "stopped"] \in ClientType
      BY <3>1 DEF ClientType, Statuses
    <3>4. sd \in {"idle", "owner", "stop", "exit", "killed"}
      BY <1>1, <3>1 DEF ClientType
    <3> QED
      BY <3>2, <3>3, <3>4, SdTyped
  <2>4. /\ cl'.listening = cl.listening /\ cl'.status = "stopped" /\ cl'.sd = sd
        /\ cl'.shutting = cl.shutting /\ cl'.owned = cl.owned /\ cl'.seq = cl.seq
    BY <1>1, <2>2 DEF Sane, ClientType
  <2>5. Sane(cl')
    BY <1>1, <2>1, <2>3, <2>4 DEF Sane
  <2>6. cl'.status # "fatal" /\ cl'.sd \notin {"returned", "thrown"}
    BY <1>1, <2>4
  <2>7. e.type \notin Answers \cup {"invalid_request"}
    BY <1>9 DEF Answers
  <2> QED
    BY <1>1, <2>1, <2>4, <2>5, <2>6, <2>7, StatusOK
<1> QED
  BY <1>2, <1>3, <1>4, <1>5, <1>6, <1>7, <1>8, <1>9 DEF Handle

LEMMA OnStdoutLineOK ==
  ASSUME ClientOK, PipesTyped, OnStdoutLine
  PROVE  /\ PipesTyped' /\ toClient # <<>> /\ toClient' = Tail(toClient)
         /\ Head(toClient) \in Events
         /\ HandledOK(Head(toClient)) \/ (~Live /\ UNCHANGED clientVars)
<1>1. /\ toClient # <<>> /\ toClient' = Tail(toClient) /\ UNCHANGED toWorker
      /\ cl.listening /\ (IF Live THEN Handle(Head(toClient)) ELSE UNCHANGED clientVars)
  BY DEF OnStdoutLine, Live
<1>2. Head(toClient) \in Events /\ Tail(toClient) \in Seq(Events)
  BY <1>1, HeadTailProperties DEF PipesTyped
<1> QED
  BY <1>1, <1>2, HandleOK DEF PipesTyped

LEMMA IdleOK ==
  ASSUME ClientOK, UNCHANGED clientVars
  PROVE  ClientOK' /\ Gives
BY DEF ClientOK, Gives, clientVars, AnswersTyped, Waits, Pending, Ended, Live

-----------------------------------------------------------------------------
(* Types, and nobody waits in vain.                                        *)

Typed == WkTyped /\ PipesTyped /\ RestTyped /\ ClientOK

LEMMA FaultTyped ==
  ASSUME RestTyped, Fault, UNCHANGED <<served, kiosk>>, missing' \subseteq Ids
  PROVE  RestTyped'
BY Constants DEF RestTyped, Fault

LEMMA WriteTyped ==
  ASSUME PipesTyped, NEW type \in {"analyze", "shutdown"}, NEW id \in Ids, Write(type, id),
         UNCHANGED toClient
  PROVE  PipesTyped' /\ [type |-> type, id |-> id] \in Requests
<1>1. [type |-> type, id |-> id] \in Requests
  BY DEF Requests
<1> QED
  BY <1>1, AppendProperties DEF PipesTyped, Write

LEMMA PcsOf ==
  /\ \A pc \in {"absent", "spawning", "started", "killed", "gone"} : pc \in Pcs \ {"analyze"}
BY DEF Pcs, Running, Starting

LEMMA CommandsTyped ==
  ASSUME Typed, Commands
  PROVE  Typed'
<1>1. UNCHANGED <<toClient, served, missing, kiosk, faults>>
  BY DEF Commands, Start, Analyze, Shutdown
<1>2. RestTyped'
  BY <1>1 DEF Typed, RestTyped
<1>3. CASE Start
  <2>1. Becomes("spawning") \/ UNCHANGED wk
    BY <1>3 DEF Start, Becomes
  <2>2. UNCHANGED toWorker
    BY <1>3 DEF Start
  <2>3. WkTyped'
    BY <2>1, PcsOf, BecomesTyped DEF Typed, WkTyped
  <2> QED
    BY <1>1, <1>2, <1>3, <2>2, <2>3, StartOK DEF Typed, PipesTyped
<1>4. CASE Analyze
  <2>1. UNCHANGED wk
    BY <1>4 DEF Analyze
  <2> QED
    BY <1>1, <1>2, <1>4, <2>1, AnalyzeOK, WriteTyped DEF Typed, WkTyped
<1>5. CASE Shutdown
  <2>1. UNCHANGED wk /\ (Write("shutdown", cl.seq + 1) \/ UNCHANGED toWorker)
    BY <1>5 DEF Shutdown
  <2>2. cl.seq + 1 \in Ids
    BY <1>5, BeginShutdownSane DEF Shutdown, Typed, ClientOK
  <2>3. PipesTyped'
    BY <1>1, <2>1, <2>2, WriteTyped DEF Typed, PipesTyped
  <2> QED
    BY <1>2, <1>5, <2>1, <2>3, ShutdownOK DEF Typed, WkTyped
<1> QED
  BY <1>3, <1>4, <1>5 DEF Commands

LEMMA KillTyped ==
  ASSUME WkTyped, RestTyped, UNCHANGED <<served, missing, kiosk>>, Kill \/ KillRefused
  PROVE  WkTyped' /\ RestTyped'
<1>1. CASE Kill
  BY <1>1, PcsOf, BecomesTyped DEF Kill, RestTyped
<1>2. CASE KillRefused
  BY <1>2, FaultTyped DEF KillRefused, WkTyped, RestTyped
<1> QED
  BY <1>1, <1>2

LEMMA ContinuationsTyped ==
  ASSUME Typed, Continuations
  PROVE  Typed'
<1>1. CASE OnStdoutLine
  <2>1. PipesTyped' /\ ClientOK'
    BY <1>1, OnStdoutLineOK, IdleOK DEF Typed, HandledOK
  <2>2. UNCHANGED <<wk, served, missing, kiosk, faults>>
    BY <1>1 DEF OnStdoutLine
  <2> QED
    BY <2>1, <2>2 DEF Typed, WkTyped, RestTyped
<1>2. CASE CancelTimeout \/ OwnerTimeout \/ KillTimeout \/ OnProcessExit
  <2>1. ClientOK'
    BY <1>2, TimeoutsOK, OnProcessExitOK DEF Typed
  <2>2. UNCHANGED workerVars
    BY <1>2 DEF CancelTimeout, OwnerTimeout, KillTimeout, OnProcessExit
  <2> QED
    BY <2>1, <2>2 DEF Typed, WkTyped, PipesTyped, RestTyped, workerVars
<1>3. CASE Own \/ ShutdownTimeout
  <2>1. ClientOK'
    BY <1>3, OwnOK, ShutdownTimeoutOK DEF Typed
  <2>2. UNCHANGED <<toWorker, toClient, served, missing, kiosk>>
    BY <1>3 DEF Own, ShutdownTimeout
  <2>3. Kill \/ KillRefused \/ UNCHANGED <<wk, faults>>
    BY <1>3 DEF Own, ShutdownTimeout
  <2>4. WkTyped' /\ RestTyped'
    BY <2>2, <2>3, KillTyped DEF Typed, WkTyped, RestTyped
  <2> QED
    BY <2>1, <2>2, <2>4 DEF Typed, PipesTyped
<1> QED
  BY <1>1, <1>2, <1>3 DEF Continuations

LEMMA EnvironmentTyped ==
  ASSUME Typed, Environment
  PROVE  Typed'
<1>1. CASE ProcessBegins
  <2>1. Becomes("started") /\ UNCHANGED <<toWorker, toClient, served, missing, kiosk, faults, clientVars>>
    BY <1>1 DEF ProcessBegins
  <2> QED
    BY <2>1, PcsOf, BecomesTyped, IdleOK DEF Typed, PipesTyped, RestTyped
<1>2. CASE SpawnFails
  <2>1. Becomes("absent") /\ Fault /\ UNCHANGED <<toWorker, toClient, served, missing, kiosk>>
    BY <1>2 DEF SpawnFails
  <2>2. RestTyped'
    BY <2>1, FaultTyped DEF Typed, RestTyped
  <2> QED
    BY <1>2, <2>1, <2>2, PcsOf, BecomesTyped, SpawnFailsOK DEF Typed, PipesTyped
<1>3. CASE KioskDies
  BY <1>3, IdleOK, Constants DEF KioskDies, Typed, WkTyped, PipesTyped, RestTyped, Fault
<1> QED
  BY <1>1, <1>2, <1>3 DEF Environment

LEMMA FaultsTyped ==
  ASSUME Typed, Die \/ WorkerFault, UNCHANGED clientVars
  PROVE  Typed'
<1>0. ClientOK' /\ UNCHANGED <<toWorker, toClient, served, kiosk>>
  BY IdleOK DEF Typed, Die, WorkerFault, Crash, Hang, LoseImage
<1>1. CASE Die
  BY <1>0, <1>1, PcsOf, BecomesTyped DEF Die, Typed, PipesTyped, RestTyped
<1>2. CASE WorkerFault
  <2>1. Fault /\ missing' \subseteq Ids
    BY <1>2, Constants DEF WorkerFault, Crash, Hang, LoseImage, Typed, RestTyped, Ids
  <2>2. RestTyped'
    BY <1>0, <2>1, FaultTyped DEF Typed
  <2>3. Becomes("gone") \/ UNCHANGED wk \/ wk' = [wk EXCEPT !.hung = TRUE]
    BY <1>2 DEF WorkerFault, Crash, Hang, LoseImage
  <2>4. wk' = [wk EXCEPT !.hung = TRUE] => WkTyped'
    BY DEF Typed, WkTyped, WorkerType
  <2>5. WkTyped'
    BY <2>3, <2>4, PcsOf, BecomesTyped DEF Typed, WkTyped
  <2> QED
    BY <1>0, <2>2, <2>5 DEF Typed, PipesTyped
<1> QED
  BY <1>1, <1>2

LEMMA NextTyped ==
  ASSUME Typed, [Next]_vars
  PROVE  Typed'
<1>1. CASE WorkerStep /\ UNCHANGED clientVars
  BY <1>1, WorkerTyped, IdleOK DEF Typed
<1>2. CASE UNCHANGED vars
  BY <1>2, IdleOK DEF vars, workerVars, Typed, WkTyped, PipesTyped, RestTyped
<1> QED
  BY <1>1, <1>2, CommandsTyped, ContinuationsTyped, EnvironmentTyped, FaultsTyped DEF Next

LEMMA InitTyped ==
  Init => Typed
<1> SUFFICES ASSUME Init PROVE Typed
  OBVIOUS
<1>1. wk \in WorkerType /\ wk.pc = "absent"
  <2>1. PICK p \in Profiles : wk = NoWorker(p)
    BY DEF Init, WorkerInit
  <2> QED
    BY <2>1 DEF NoWorker, WorkerType, Devices, Modes
<1>2. WkTyped /\ PipesTyped /\ RestTyped
  BY <1>1, Constants DEF Init, WorkerInit, WkTyped, PipesTyped, RestTyped
<1>3. cl \in ClientType
  <2>1. 0 \in 0..MaxRequests + 1
    BY Constants
  <2> QED
    BY <2>1 DEF Init, NewClient, ClientType, Statuses, Causes
<1>4. Sane(cl)
  BY <1>3, Constants DEF Init, NewClient, Sane
<1>5. AnswersTyped /\ Waits
  BY DEF Init, AnswersTyped, Outcomes, Waits, Pending
<1> QED
  BY <1>2, <1>4, <1>5 DEF Typed, ClientOK

LEMMA AlwaysTyped == SafeSpec => []Typed
<1>1. Init => Typed
  BY InitTyped
<1>2. Typed /\ [Next]_vars => Typed'
  BY NextTyped
<1> QED
  BY <1>1, <1>2, PTL DEF SafeSpec

\* The state of the worker, of the pipes and of the client keeps its type:
\* identifiers never run out, since one shutdown ends the requests.
THEOREM WorkerTypeCorrect == SafeSpec => []WorkerClientTypeOK
<1>1. Typed => WorkerClientTypeOK
  BY TypeParts DEF Typed, ClientOK, Sane
<1> QED
  BY <1>1, AlwaysTyped, PTL

\* However the worker ends, nobody waits for an answer of a client that is
\* fatal or whose shutdown is over.
THEOREM WorkerEndedMeansAnswered == SafeSpec => []EndedMeansAnswered
<1>1. Typed => EndedMeansAnswered
  BY DEF Typed, ClientOK, Waits, Ended, EndedMeansAnswered
<1> QED
  BY <1>1, AlwaysTyped, PTL

-----------------------------------------------------------------------------
(* What the client keeps of its record when no line is read and nothing is  *)
(* called.                                                                 *)

Kept(c, d) ==
  /\ d.ready = c.ready /\ d.shutting = c.shutting /\ d.stopId = c.stopId /\ d.seq = c.seq
  /\ d.cause \in {c.cause, "start", "kill", "exit"}
  /\ c.start = "failed" => d.start = "failed"
  /\ d.status \notin {"fatal", "stopped"} =>
       d.status = c.status /\ d.start = c.start /\ d.cause = c.cause

LEMMA FatallyKept ==
  ASSUME NEW c, Sane(c), NEW cause \in {"start", "kill", "exit"}
  PROVE  Kept(c, Fatally(c, cause)) /\ Kept(c, FatalEvenIfStopped(c, cause))
<1>1. Fatally(c, cause) = [c EXCEPT !.status = "fatal", !.cause = cause,
                             !.start = IF @ = "pending" THEN "failed" ELSE @]
  BY DEF Fatally
<1>2. Kept(c, Fatally(c, cause))
  BY <1>1 DEF Kept, Sane, ClientType
<1> QED
  BY <1>2 DEF FatalEvenIfStopped, Kept

LEMMA KeptOn ==
  ASSUME NEW b, NEW c, NEW d, Kept(b, c), Kept(c, d)
  PROVE  Kept(b, d)
BY DEF Kept

LEMMA EndKept ==
  ASSUME NEW c, Sane(c), Return(c) \/ Throw(c)
  PROVE  Kept(c, cl')
<1>1. CASE Return(c)
  BY <1>1 DEF Return, Kept, Sane, ClientType
<1>2. CASE Throw(c)
  <2> DEFINE f == FatalEvenIfStopped(c, "kill")
  <2>1. cl' = [f EXCEPT !.sd = "thrown"]
    BY <1>2 DEF Throw
  <2>2. Kept(c, f) /\ Sane(f)
    BY FatallyKept, EvenIfStoppedSane DEF Causes
  <2> HIDE DEF f
  <2>3. Kept(f, cl')
    BY <2>1, <2>2 DEF Kept, Sane, ClientType
  <2> QED
    BY <2>2, <2>3, KeptOn
<1> QED
  BY <1>1, <1>2

LEMMA SettleKept ==
  ASSUME NEW c, Sane(c), Settle(c)
  PROVE  Kept(c, cl')
<1> DEFINE settled == [c EXCEPT !.owner = "settled"]
<1>1. settled \in ClientType
  BY DEF Sane, ClientType
<1>2. Sane(settled) /\ Kept(c, settled)
  BY <1>1 DEF Sane, ClientType, Kept
<1>3. Throw(settled) \/ Return(settled) \/ cl' = settled
  BY DEF Settle
<1> HIDE DEF settled
<1>4. CASE Throw(settled) \/ Return(settled)
  BY <1>2, <1>4, EndKept, KeptOn
<1> QED
  BY <1>2, <1>3, <1>4

Waiting ==
  SpawnFails \/ Own \/ CancelTimeout \/ OwnerTimeout \/ OnProcessExit \/ ShutdownTimeout
    \/ KillTimeout

LEMMA WaitingKept ==
  ASSUME ClientOK, Waiting
  PROVE  Kept(cl, cl')
<1>0. Sane(cl) /\ cl \in ClientType
  BY DEF ClientOK, Sane
<1>1. CASE SpawnFails
  <2> DEFINE c == [cl EXCEPT !.owner = "settled"]
  <2>1. c \in ClientType
    BY <1>0 DEF ClientType
  <2>2. Sane(c) /\ Kept(cl, c)
    BY <1>0, <2>1 DEF Sane, ClientType, Kept
  <2>3. Settle(cl) \/ cl' = Fatally(c, "start")
    BY <1>1 DEF SpawnFails, MarkFatal
  <2> HIDE DEF c
  <2> QED
    BY <1>0, <2>2, <2>3, SettleKept, FatallyKept, KeptOn
<1>2. CASE Own
  <2> DEFINE c == [cl EXCEPT !.owned = TRUE]
             k == [c EXCEPT !.cancel = "killed"]
             f == FatalEvenIfStopped(c, "kill")
             g == [f EXCEPT !.cancel = "failed"]
             l == [c EXCEPT !.listening = TRUE]
  <2>1. c \in ClientType
    BY <1>0 DEF ClientType
  <2>2. Sane(c) /\ Kept(cl, c) /\ c.owned /\ c.status = cl.status
    BY <1>0, <2>1 DEF Sane, ClientType, Kept
  <2>3. cl' = k \/ Settle(g) \/ (Settle(l) /\ cl.status \notin {"fatal", "stopped"})
    BY <1>2 DEF Own
  <2> HIDE DEF c
  <2>4. Sane(f) /\ Kept(c, f)
    BY <2>2, FatallyKept, EvenIfStoppedSane DEF Causes
  <2> HIDE DEF f
  <2>5. k \in ClientType /\ g \in ClientType /\ l \in ClientType
    <3>1. f \in ClientType
      BY <2>4 DEF Sane
    <3>2. k \in ClientType /\ g \in ClientType
      BY <2>1, <3>1, CancelTyped
    <3> QED
      BY <2>1, <3>2, ListeningTyped
  <2>6. Kept(c, k) /\ Kept(f, g) /\ Kept(c, l)
    <3>1. Kept(c, k)
      BY <2>1 DEF ClientType, Kept
    <3>2. Kept(f, g)
      BY <2>4 DEF Sane, ClientType, Kept
    <3>3. Kept(c, l)
      BY <2>1 DEF ClientType, Kept
    <3> QED
      BY <3>1, <3>2, <3>3
  <2>7. Sane(g)
    BY <2>4, <2>5 DEF Sane, ClientType
  <2>8. Sane(l)
    BY <2>2, <2>5 DEF Sane, ClientType
  <2> HIDE DEF k, g, l
  <2>9. Kept(cl, k) /\ Kept(cl, g) /\ Kept(cl, l)
    BY <2>2, <2>4, <2>6, KeptOn
  <2> QED
    BY <2>3, <2>7, <2>8, <2>9, SettleKept, KeptOn
<1>3. CASE CancelTimeout \/ OwnerTimeout \/ KillTimeout
  BY <1>0, <1>3, SettleKept, EndKept DEF CancelTimeout, OwnerTimeout, KillTimeout
<1>4. CASE ShutdownTimeout
  BY <1>0, <1>4, EndKept DEF ShutdownTimeout, Kept, ClientType
<1>5. CASE OnProcessExit
  <2> DEFINE c == [cl EXCEPT !.exitSeen = TRUE]
  <2>1. c \in ClientType
    BY <1>0 DEF ClientType
  <2>2. Sane(c) /\ Kept(cl, c)
    BY <1>0, <2>1 DEF Sane, ClientType, Kept
  <2>3. Return(c) \/ Settle(c) \/ cl' = Fatally(c, "exit") \/ cl' = c
    BY <1>5 DEF OnProcessExit, MarkFatal
  <2> HIDE DEF c
  <2> QED
    BY <2>2, <2>3, SettleKept, EndKept, FatallyKept, KeptOn
<1> QED
  BY <1>1, <1>2, <1>3, <1>4, <1>5 DEF Waiting

LEMMA WaitingOK ==
  ASSUME ClientOK, Waiting
  PROVE  ClientOK' /\ Gives
BY SpawnFailsOK, OwnOK, TimeoutsOK, OnProcessExitOK, ShutdownTimeoutOK DEF Waiting

-----------------------------------------------------------------------------
(* The lines of a pipe.                                                    *)

LEMMA AppendLines ==
  ASSUME NEW S, NEW q \in Seq(S), NEW e \in S
  PROVE  /\ Append(q, e) \in Seq(S) /\ Len(Append(q, e)) = Len(q) + 1 /\ Len(q) \in Nat
         /\ \A k \in 1..Len(Append(q, e)) :
              Append(q, e)[k] = IF k = Len(q) + 1 THEN e ELSE q[k]
         /\ \A k \in 1..Len(q) : q[k] \in S /\ Append(q, e)[k] = q[k]
         /\ Append(q, e)[Len(q) + 1] = e
<1>1. Len(q) \in Nat /\ \A k \in 1..Len(q) : q[k] \in S
  BY LenProperties, ElementOfSeq
<1> QED
  BY <1>1, AppendProperties

LEMMA TailLines ==
  ASSUME NEW S, NEW q \in Seq(S), q # <<>>
  PROVE  /\ Tail(q) \in Seq(S) /\ Len(Tail(q)) = Len(q) - 1 /\ Len(q) \in Nat \ {0}
         /\ \A k \in 1..Len(Tail(q)) : k + 1 \in 1..Len(q) /\ Tail(q)[k] = q[k + 1]
         /\ 1 \in 1..Len(q) /\ q[1] = Head(q) /\ Head(q) \in S
         /\ \A k \in 1..Len(q) : q[k] \in S /\ (k # 1 => k - 1 \in 1..Len(Tail(q)))
<1>1. Len(q) \in Nat \ {0} /\ \A k \in 1..Len(q) : q[k] \in S
  BY EmptySeq, ElementOfSeq
<1>2. q[1] = Head(q)
  OBVIOUS
<1> QED
  BY <1>1, <1>2, HeadTailProperties

Lines == 1..Len(toClient)

LEMMA LinesTyped ==
  ASSUME PipesTyped
  PROVE  /\ \A k \in Lines : toClient[k] \in Events
         /\ Len(toClient) \in Nat /\ Len(toWorker) \in Nat
         /\ \A k \in 1..Len(toWorker) : toWorker[k] \in Requests
BY LenProperties, ElementOfSeq DEF PipesTyped, Lines

-----------------------------------------------------------------------------
(* The ready event names what was loaded.                                  *)

Named(device, mode) ==
  /\ mode = "cpu_reference" <=> device = "cpu"
  /\ mode = "candidate" <=> wk.profile = "candidate"

WkNamed ==
  /\ wk.pc \in {"load", "warm"} => wk.profile = "legacy"
  /\ wk.pc \in {"load", "warm", "announce"} => Named(wk.device, wk.mode)
LinesNamed ==
  \A k \in Lines : toClient[k].type = "ready" => Named(toClient[k].device, toClient[k].mode)

Mute(e) == e.type # "ready"

LEMMA WkNamedStays ==
  ASSUME WkNamed, wk'.profile = wk.profile,
         UNCHANGED wk \/ wk'.pc \notin {"load", "warm", "announce"}
  PROVE  WkNamed'
BY DEF WkNamed, Named

LEMMA LinesNamedStays ==
  ASSUME PipesTyped, LinesNamed, wk'.profile = wk.profile,
         UNCHANGED toClient \/ \E e \in Events : Emit(e) /\ Mute(e)
  PROVE  LinesNamed'
<1>1. CASE UNCHANGED toClient
  BY <1>1 DEF LinesNamed, Named, Lines
<1>2. ASSUME NEW e \in Events, Emit(e), Mute(e) PROVE LinesNamed'
  <2>1. toClient \in Seq(Events) /\ toClient' = Append(toClient, e)
    BY <1>2 DEF PipesTyped, Emit
  <2>2. ASSUME NEW k \in Lines', toClient'[k].type = "ready"
        PROVE  Named(toClient[k].device, toClient[k].mode)'
    <3>1. k \in Lines /\ toClient'[k] = toClient[k]
      BY <1>2, <2>1, <2>2, AppendLines DEF Lines, Mute
    <3> QED
      BY <2>2, <3>1 DEF LinesNamed, Named
  <2> QED
    BY <2>2 DEF LinesNamed
<1> QED
  BY <1>1, <1>2

LEMMA SelectNamed ==
  ASSUME Typed, WkNamed, LinesNamed, SelectCandidate \/ SelectLegacy
  PROVE  WkNamed' /\ LinesNamed' /\ wk'.profile = wk.profile
<1>1. CASE Fatal("admission_failed") \/ Fatal("initialization_failed")
  <2>1. PICK code \in {"admission_failed", "initialization_failed"} : Fatal(code)
    BY <1>1
  <2>2. wk'.pc = "gone" /\ wk'.profile = wk.profile
    BY <2>1, PcsOf, BecomesTyped DEF Fatal, Typed
  <2>3. [type |-> code] \in Events /\ Emit([type |-> code]) /\ Mute([type |-> code])
    BY <2>1, EventsOf DEF Fatal, Mute
  <2> QED
    BY <2>2, <2>3, WkNamedStays, LinesNamedStays DEF Typed
<1>2. CASE SelectCandidate /\ ~Fatal("admission_failed")
  <2>1. /\ wk' = [wk EXCEPT !.pc = "announce", !.device = "cuda:0", !.mode = "candidate"]
        /\ UNCHANGED toClient /\ wk.profile = "candidate"
    BY <1>2 DEF SelectCandidate
  <2>2. /\ wk'.pc = "announce" /\ wk'.device = "cuda:0" /\ wk'.mode = "candidate"
        /\ wk'.profile = "candidate"
    BY <2>1 DEF Typed, WkTyped, WorkerType
  <2> QED
    BY <2>1, <2>2, LinesNamedStays DEF WkNamed, Named, Typed
<1>3. CASE SelectLegacy /\ ~Fatal("initialization_failed")
  <2>1. /\ UNCHANGED toClient /\ wk.profile = "legacy"
        /\ \/ \E mode \in {"gpu_fast_verified", "gpu_reference"} :
                wk' = [wk EXCEPT !.pc = "load", !.device = "cuda:0", !.mode = mode]
           \/ wk' = [wk EXCEPT !.pc = "load", !.device = "cpu", !.mode = "cpu_reference"]
    BY <1>3 DEF SelectLegacy
  <2>2. /\ wk'.pc = "load" /\ wk'.profile = "legacy" /\ wk'.mode # "candidate"
        /\ wk'.mode = "cpu_reference" <=> wk'.device = "cpu"
    BY <2>1 DEF Typed, WkTyped, WorkerType
  <2> QED
    BY <2>1, <2>2, LinesNamedStays DEF WkNamed, Named, Typed
<1> QED
  BY <1>1, <1>2, <1>3

LEMMA FallBackNamed ==
  ASSUME Typed, WkNamed, LinesNamed, FallBack, wk.pc \in {"load", "warm"}
  PROVE  WkNamed' /\ LinesNamed' /\ wk'.profile = wk.profile
<1>1. CASE wk.device = "cuda:0"
  <2>1. /\ wk' = [wk EXCEPT !.pc = "load", !.device = "cpu", !.mode = "cpu_reference"]
        /\ UNCHANGED toClient /\ wk.profile = "legacy"
    BY <1>1 DEF FallBack, WkNamed
  <2>2. /\ wk'.pc = "load" /\ wk'.device = "cpu" /\ wk'.mode = "cpu_reference"
        /\ wk'.profile = "legacy"
    BY <2>1 DEF Typed, WkTyped, WorkerType
  <2> QED
    BY <2>1, <2>2, LinesNamedStays DEF WkNamed, Named, Typed
<1>2. CASE wk.device # "cuda:0"
  <2>1. Fatal("initialization_failed")
    BY <1>2 DEF FallBack
  <2>2. wk'.pc = "gone" /\ wk'.profile = wk.profile
    BY <2>1, PcsOf, BecomesTyped DEF Fatal, Typed
  <2>3. /\ [type |-> "initialization_failed"] \in Events
        /\ Emit([type |-> "initialization_failed"]) /\ Mute([type |-> "initialization_failed"])
    BY <2>1, EventsOf DEF Fatal, Mute
  <2> QED
    BY <2>2, <2>3, WkNamedStays, LinesNamedStays DEF Typed
<1> QED
  BY <1>1, <1>2

LEMMA LoadNamed ==
  ASSUME Typed, WkNamed, LinesNamed, Load \/ Warm
  PROVE  WkNamed' /\ LinesNamed' /\ wk'.profile = wk.profile
<1>0. wk.pc \in {"load", "warm"}
  BY DEF Load, Warm, At
<1>1. CASE FallBack
  BY <1>0, <1>1, FallBackNamed
<1>2. CASE ~FallBack
  <2>1. \E pc \in {"warm", "announce"}, warmed \in BOOLEAN :
          wk' = [wk EXCEPT !.pc = pc, !.warmed = warmed]
    <3>1. CASE Load
      BY <1>2, <3>1 DEF Load
    <3>2. CASE Warm
      <4>1. wk' = [wk EXCEPT !.pc = "announce", !.warmed = wk.warmed] /\ wk.warmed \in BOOLEAN
        BY <1>2, <3>2 DEF Warm, Becomes, Typed, WkTyped, WorkerType
      <4> QED
        BY <4>1
    <3> QED
      BY <3>1, <3>2
  <2>2. /\ wk'.pc \in {"warm", "announce"} /\ wk'.profile = wk.profile
        /\ wk'.device = wk.device /\ wk'.mode = wk.mode
    BY <2>1 DEF Typed, WkTyped, WorkerType
  <2>3. WkNamed'
    BY <1>0, <2>2 DEF WkNamed, Named
  <2>4. UNCHANGED toClient \/ Emit([type |-> "warming"])
    BY <1>2 DEF Load, Warm, EmitWarming
  <2>5. [type |-> "warming"] \in Events /\ Mute([type |-> "warming"])
    BY EventsOf DEF Mute
  <2> QED
    BY <2>2, <2>3, <2>4, <2>5, LinesNamedStays DEF Typed
<1> QED
  BY <1>1, <1>2

LEMMA AnnounceNamed ==
  ASSUME Typed, WkNamed, LinesNamed, Announce
  PROVE  WkNamed' /\ LinesNamed' /\ wk'.profile = wk.profile
<1> DEFINE warming == [type |-> "warming"]
           q == IF wk.warmed THEN toClient ELSE Append(toClient, warming)
<1>1. /\ wk.device \in Devices /\ wk.mode \in Modes /\ wk.warmed \in BOOLEAN
      /\ toClient \in Seq(Events) /\ warming \in Events /\ Named(wk.device, wk.mode)
  BY EventsOf DEF Typed, WkTyped, WorkerType, PipesTyped, Announce, At, WkNamed
<1>2. wk'.pc \in {"idle", "gone"} /\ wk'.profile = wk.profile
  BY DEF Announce, Becomes, Typed, WkTyped, WorkerType
<1>3. PICK e \in Events :
        /\ e.type = "ready" => e.device = wk.device /\ e.mode = wk.mode
        /\ toClient' = toClient \o (IF wk.warmed THEN <<>> ELSE <<warming>>) \o <<e>>
  BY <1>1, EventsOf DEF Announce
<1>4. toClient' = Append(q, e)
  BY <1>1, <1>3, Announced DEF Typed
<1>5. q \in Seq(Events) /\ \A k \in 1..Len(q) :
        q[k].type = "ready" => k \in Lines /\ q[k] = toClient[k]
  BY <1>1, AppendLines DEF Lines
<1> HIDE DEF q
<1>6. ASSUME NEW k \in Lines', toClient'[k].type = "ready"
      PROVE  Named(toClient[k].device, toClient[k].mode)'
  <2>1. CASE k = Len(q) + 1
    <3>1. toClient'[k] = e
      BY <1>4, <1>5, <2>1, AppendLines
    <3>2. toClient'[k].device = wk.device /\ toClient'[k].mode = wk.mode
      BY <1>3, <1>6, <3>1
    <3> QED
      BY <1>1, <1>2, <3>2 DEF Named
  <2>2. CASE k # Len(q) + 1
    <3>1. k \in 1..Len(q) /\ toClient'[k] = q[k]
      BY <1>4, <1>5, <2>2, AppendLines DEF Lines
    <3> QED
      BY <1>2, <1>5, <1>6, <3>1 DEF LinesNamed, Named
  <2> QED
    BY <2>1, <2>2
<1> QED
  BY <1>2, <1>6, WkNamedStays DEF LinesNamed

\* A step of the worker that says nothing of what was loaded.
LEMMA MuteStep ==
  ASSUME Typed, WkNamed, LinesNamed, wk'.profile = wk.profile,
         UNCHANGED wk \/ wk'.pc \notin {"load", "warm", "announce"},
         UNCHANGED toClient \/ \E e \in Events : Emit(e) /\ Mute(e)
  PROVE  WkNamed' /\ LinesNamed' /\ wk'.profile = wk.profile
BY WkNamedStays, LinesNamedStays DEF Typed

LEMMA ServingNamed ==
  ASSUME Typed, WkNamed, LinesNamed, ReadAnalyze \/ ReadShutdown \/ Progress \/ Result \/ AnalysisFails
  PROVE  WkNamed' /\ LinesNamed' /\ wk'.profile = wk.profile
<1>1. CASE ReadAnalyze \/ ReadShutdown
  <2>1. UNCHANGED wk \/ (wk'.pc \in {"analyze", "close"} /\ wk'.profile = wk.profile)
    BY <1>1 DEF ReadAnalyze, ReadShutdown, Typed, WkTyped, WorkerType
  <2>2. UNCHANGED toClient \/ Emit([type |-> "invalid_request"])
    BY <1>1 DEF ReadAnalyze, ReadShutdown
  <2>3. [type |-> "invalid_request"] \in Events /\ Mute([type |-> "invalid_request"])
    BY EventsOf DEF Mute
  <2> QED
    BY <2>1, <2>2, <2>3, MuteStep
<1>2. CASE Progress
  <2>1. PICK phase \in Phases :
          /\ wk' = [wk EXCEPT !.phase = phase]
          /\ Emit([type |-> "progress", id |-> wk.id, phase |-> phase])
    BY <1>2 DEF Progress
  <2>2. wk.pc = "analyze" /\ wk.id \in Ids
    BY <1>2 DEF Progress, At, Typed, WkTyped
  <2>3. wk'.pc = "analyze" /\ wk'.profile = wk.profile
    BY <2>1, <2>2 DEF Typed, WkTyped, WorkerType
  <2>4. /\ [type |-> "progress", id |-> wk.id, phase |-> phase] \in Events
        /\ Mute([type |-> "progress", id |-> wk.id, phase |-> phase])
    BY <2>2, EventsOf DEF Mute
  <2> QED
    BY <2>1, <2>3, <2>4, MuteStep
<1>3. CASE Result \/ AnalysisFails
  <2>1. PICK type \in Answers : Answer(type) /\ wk.pc = "analyze"
    BY <1>3 DEF Result, AnalysisFails, Answers, At
  <2>2. wk'.pc = "idle" /\ wk'.profile = wk.profile
    BY <2>1 DEF Answer, Typed, WkTyped, WorkerType
  <2>3. [type |-> type, id |-> wk.id] \in Events /\ Mute([type |-> type, id |-> wk.id])
    BY <2>1, EventsOf DEF Mute, Typed, WkTyped, Answers
  <2> QED
    BY <2>1, <2>2, <2>3, MuteStep DEF Answer
<1> QED
  BY <1>1, <1>2, <1>3

LEMMA OtherNamed ==
  ASSUME Typed, WkNamed, LinesNamed,
         RejectLaunch \/ BeginServe \/ ReadEnd \/ CloseRuntime \/ BrokenPipe \/ Die \/ WorkerFault
  PROVE  WkNamed' /\ LinesNamed' /\ wk'.profile = wk.profile
<1>1. PICK pc \in {"gone", "select", "close"} :
        Becomes(pc) \/ UNCHANGED wk \/ wk' = [wk EXCEPT !.hung = TRUE]
  BY DEF RejectLaunch, BeginServe, ReadEnd, CloseRuntime, BrokenPipe, Die, WorkerFault, Crash,
         Hang, LoseImage
<1>2. pc \in Pcs \ {"analyze"}
  BY DEF Pcs, Running, Starting, Serving
<1>3. \/ UNCHANGED toClient
      \/ Emit([type |-> "loading"]) \/ Emit([type |-> "stopped", id |-> wk.stop])
  BY DEF RejectLaunch, BeginServe, ReadEnd, CloseRuntime, BrokenPipe, Die, WorkerFault, Crash,
         Hang, LoseImage
<1>4. /\ [type |-> "loading"] \in Events /\ Mute([type |-> "loading"])
      /\ [type |-> "stopped", id |-> wk.stop] \in Events
      /\ Mute([type |-> "stopped", id |-> wk.stop])
  BY EventsOf DEF Mute, Typed, WkTyped, WorkerType
<1>5. UNCHANGED toClient \/ \E e \in Events : Emit(e) /\ Mute(e)
  BY <1>3, <1>4
<1>6. CASE wk' = [wk EXCEPT !.hung = TRUE]
  <2>1. /\ wk'.pc = wk.pc /\ wk'.profile = wk.profile /\ wk'.device = wk.device
        /\ wk'.mode = wk.mode
    BY <1>6 DEF Typed, WkTyped, WorkerType
  <2> QED
    BY <1>5, <2>1, LinesNamedStays DEF WkNamed, Named, Typed
<1>7. CASE Becomes(pc) \/ UNCHANGED wk
  <2>1. wk'.profile = wk.profile /\ (UNCHANGED wk \/ wk'.pc \notin {"load", "warm", "announce"})
    BY <1>2, <1>7, BecomesTyped DEF Typed
  <2> QED
    BY <1>5, <2>1, MuteStep
<1> QED
  BY <1>1, <1>6, <1>7

LEMMA ClientNamed ==
  ASSUME Typed, WkNamed, LinesNamed, Commands \/ Continuations \/ Environment
  PROVE  WkNamed' /\ LinesNamed' /\ wk'.profile = wk.profile
<1>1. UNCHANGED wk \/ \E pc \in {"spawning", "started", "killed", "absent"} : Becomes(pc)
  BY DEF Commands, Start, Analyze, Shutdown, Continuations, Own, CancelTimeout, OwnerTimeout,
         OnStdoutLine, OnProcessExit, ShutdownTimeout, KillTimeout, Environment, ProcessBegins,
         SpawnFails, KioskDies, Kill, KillRefused, Becomes, workerVars
<1>2. wk'.profile = wk.profile /\ (UNCHANGED wk \/ wk'.pc \notin {"load", "warm", "announce"})
  BY <1>1, PcsOf, BecomesTyped DEF Typed
<1>3. CASE UNCHANGED toClient
  BY <1>2, <1>3, MuteStep
<1>4. CASE OnStdoutLine
  <2>1. toClient # <<>> /\ toClient' = Tail(toClient) /\ toClient \in Seq(Events)
    BY <1>4 DEF OnStdoutLine, Typed, PipesTyped
  <2>2. ASSUME NEW k \in Lines', toClient'[k].type = "ready"
        PROVE  Named(toClient[k].device, toClient[k].mode)'
    <3>1. k + 1 \in Lines /\ toClient'[k] = toClient[k + 1]
      BY <2>1, TailLines DEF Lines
    <3> QED
      BY <1>2, <2>2, <3>1 DEF LinesNamed, Named
  <2> QED
    BY <1>2, <2>2, WkNamedStays DEF LinesNamed
<1> QED
  BY <1>3, <1>4 DEF Commands, Start, Analyze, Shutdown, Continuations, Own, CancelTimeout,
     OwnerTimeout, OnProcessExit, ShutdownTimeout, KillTimeout, Environment, ProcessBegins,
     SpawnFails, KioskDies, workerVars

LEMMA NextNamed ==
  ASSUME Typed, WkNamed, LinesNamed, [Next]_vars
  PROVE  WkNamed' /\ LinesNamed' /\ wk'.profile = wk.profile
<1>1. CASE UNCHANGED vars
  BY <1>1, MuteStep DEF vars, workerVars
<1> QED
  BY <1>1, SelectNamed, LoadNamed, AnnounceNamed, ServingNamed, OtherNamed, ClientNamed
     DEF Next, WorkerStep

\* The client's metrics change only with a ready event.
LEMMA CallsKeepReady ==
  ASSUME ClientOK, Commands
  PROVE  cl'.ready = cl.ready
<1>0. Sane(cl) /\ cl \in ClientType
  BY DEF ClientOK, Sane
<1>1. CASE Start
  <2> DEFINE c == [cl EXCEPT !.status = "starting", !.start = "pending"]
  <2>1. c \in ClientType
    BY <1>0 DEF ClientType, Statuses
  <2>2. Sane(c) /\ c.ready = cl.ready
    BY <1>0, <1>1, <2>1 DEF Sane, ClientType, Start
  <2>3. cl' = [c EXCEPT !.owner = "pending"] \/ cl' = Fatally(c, "start")
    BY <1>1 DEF Start, MarkFatal
  <2> HIDE DEF c
  <2> QED
    BY <2>1, <2>2, <2>3, FatallyKept DEF Kept, ClientType
<1>2. CASE Analyze
  BY <1>0, <1>2 DEF Analyze, ClientType
<1>3. CASE Shutdown
  <2> DEFINE b == BeginShutdown
             c == [b EXCEPT !.seq = cl.seq + 1, !.stopId = cl.seq + 1]
  <2>1. Sane(b) /\ Sane(c) /\ b.shutting
    BY <1>0, <1>3, BeginShutdownSane DEF Shutdown
  <2>2. b.ready = cl.ready /\ b \in ClientType
    BY <1>0, <2>1 DEF BeginShutdown, ClientType, Sane
  <2>3. \/ cl' = [b EXCEPT !.sd = "owner"] \/ Return(b) \/ Return(c)
        \/ cl' = [c EXCEPT !.sd = "stop"]
    BY <1>3 DEF Shutdown
  <2> HIDE DEF b
  <2>4. c.ready = cl.ready /\ c \in ClientType
    BY <2>1, <2>2 DEF Sane, ClientType
  <2> HIDE DEF c
  <2> QED
    BY <2>1, <2>2, <2>3, <2>4, EndKept DEF Kept, ClientType
<1> QED
  BY <1>1, <1>2, <1>3 DEF Commands

LEMMA ReadyTrue ==
  ASSUME Typed, WkNamed, LinesNamed, ReadyIsTrue, [Next]_vars
  PROVE  ReadyIsTrue'
<1>1. wk'.profile = wk.profile
  BY NextNamed
<1>2. CASE cl'.ready = cl.ready
  BY <1>1, <1>2 DEF ReadyIsTrue
<1>3. CASE OnStdoutLine /\ cl'.ready # cl.ready
  <2> DEFINE e == Head(toClient)
  <2>1. e \in Events /\ 1 \in Lines /\ toClient[1] = e
    BY <1>3, TailLines DEF OnStdoutLine, Typed, PipesTyped, Lines
  <2>2. cl \in ClientType
    BY DEF Typed, ClientOK, Sane
  <2>3. Live /\ Handle(e)
    BY <1>3 DEF OnStdoutLine, clientVars, Live
  <2>4. /\ \A cause : cl' = Fatally(cl, cause) => cl'.ready = cl.ready
        /\ \A t : cl' = [cl EXCEPT !.status = t] => cl'.ready = cl.ready
        /\ \A t, sd : cl' = [cl EXCEPT !.status = t, !.sd = sd] => cl'.ready = cl.ready
    BY <2>2 DEF Fatally, ClientType
  <2>5. \/ cl' = cl \/ \E cause : cl' = Fatally(cl, cause)
        \/ \E t : cl' = [cl EXCEPT !.status = t]
        \/ \E t, sd : cl' = [cl EXCEPT !.status = t, !.sd = sd]
        \/ e.type = "ready" /\ HandleReady(e) /\ ~ProtocolError
    BY <2>3 DEF Handle, HandleStartup, HandleProgress, HandleResult, HandleWorkerError,
       HandleStopped, Complete, ProtocolError, MarkFatal
  <2> HIDE DEF e
  <2>6. e.type = "ready" /\ HandleReady(e) /\ ~ProtocolError
    BY <1>3, <2>4, <2>5
  <2>7. cl'.ready = [device |-> e.device, mode |-> e.mode]
    <3> DEFINE ready == [device |-> e.device, mode |-> e.mode]
    <3>1. \/ cl' = [cl EXCEPT !.status = "ready", !.start = "ready", !.ready = ready]
          \/ cl' = Fatally(WithMetrics(e), "protocol")
      BY <2>1, <2>2, <2>6, ReadySteps DEF MarkFatal
    <3>2. WithMetrics(e).ready = ready /\ WithMetrics(e) \in ClientType
      BY <2>1, <2>2, <2>6, ReadySteps DEF WithMetrics, ClientType
    <3> HIDE DEF ready
    <3>3. Fatally(WithMetrics(e), "protocol").ready = ready
      BY <3>2 DEF Fatally, ClientType
    <3> QED
      BY <2>2, <3>1, <3>3 DEF ClientType, ready
  <2>8. Named(e.device, e.mode)
    BY <2>1, <2>6 DEF LinesNamed
  <2> QED
    BY <1>1, <2>7, <2>8 DEF ReadyIsTrue, Named
<1>4. CASE Waiting
  BY <1>2, <1>4, WaitingKept DEF Kept, Typed
<1>5. CASE Commands
  BY <1>2, <1>5, CallsKeepReady DEF Typed
<1>6. CASE UNCHANGED clientVars
  BY <1>2, <1>6 DEF clientVars
<1> QED
  BY <1>2, <1>3, <1>4, <1>5, <1>6 DEF Next, Continuations, Environment, Waiting, ProcessBegins,
     KioskDies, vars

\* The ready event the client accepted names the device the runtime was loaded
\* on, also after the fallback from CUDA, and a candidate stays one.
THEOREM WorkerReadyIsTrue == SafeSpec => []ReadyIsTrue
<1>1. Init => WkNamed /\ LinesNamed /\ ReadyIsTrue
  <2> SUFFICES ASSUME Init PROVE WkNamed /\ LinesNamed /\ ReadyIsTrue
    OBVIOUS
  <2>1. wk.pc = "absent" /\ toClient = <<>> /\ cl.ready = Nothing
    BY DEF Init, WorkerInit, NoWorker, NewClient
  <2> QED
    BY <2>1 DEF WkNamed, LinesNamed, Lines, ReadyIsTrue
<1>2. Typed /\ WkNamed /\ LinesNamed /\ ReadyIsTrue /\ [Next]_vars
        => (WkNamed /\ LinesNamed /\ ReadyIsTrue)'
  BY NextNamed, ReadyTrue
<1> QED
  BY <1>1, <1>2, AlwaysTyped, PTL DEF SafeSpec

-----------------------------------------------------------------------------
(* The order of requests and answers.  An identifier moves from the queue   *)
(* to the worker, from there into an answer, and from there to its caller;  *)
(* further on it is always smaller.  A request that waits is in one of the  *)
(* places, or the worker has complained of its image.                       *)

Queue == 1..Len(toWorker)
IsAnswer(k) == toClient[k].type \in Answers

Begun == cl.status = "notStarted" => wk.pc = "absent"

Issued == \A i \in Ids : i > cl.seq => outcome[i] = "unused" /\ served[i] = "nothing"

Queued ==
  \A k \in Queue :
    /\ toWorker[k].id <= cl.seq /\ served[toWorker[k].id] = "nothing"
    /\ toWorker[k].type = "analyze" <=> outcome[toWorker[k].id] # "unused"

QueueOrdered == \A k, l \in Queue : k < l => toWorker[k].id < toWorker[l].id

Worked ==
  wk.id # Nothing =>
    /\ wk.pc \in {"analyze", "killed", "gone"}
    /\ wk.id <= cl.seq /\ outcome[wk.id] # "unused" /\ served[wk.id] = "nothing"
    /\ \A k \in Queue : wk.id < toWorker[k].id

Answered ==
  \A k \in Lines : IsAnswer(k) =>
    /\ toClient[k].id \in Ids /\ toClient[k].id <= cl.seq
    /\ served[toClient[k].id] = toClient[k].type
    /\ wk.id # Nothing => toClient[k].id < wk.id
    /\ \A l \in Queue : toClient[k].id < toWorker[l].id

AnswersOrdered ==
  \A k, l \in Lines : k < l /\ IsAnswer(k) /\ IsAnswer(l) => toClient[k].id < toClient[l].id

\* the worker complained of the image of j, after all it answered before j
Refused(j) ==
  \E k \in Lines : /\ toClient[k].type = "invalid_request"
                  /\ \A l \in 1..k : IsAnswer(l) => toClient[l].id < j
Accounted(j) ==
  \/ wk.id = j
  \/ \E k \in Queue : toWorker[k].id = j
  \/ \E k \in Lines : IsAnswer(k) /\ toClient[k].id = j
  \/ Refused(j)

AllAccounted == Live => \A j \in Pending : Accounted(j)

Ordered ==
  /\ Begun /\ Issued /\ Queued /\ QueueOrdered /\ Worked /\ Answered /\ AnswersOrdered
  /\ AllAccounted

LEMMA IdsNat ==
  /\ \A i \in Ids : i \in Nat
  /\ cl \in ClientType => cl.seq \in Nat
  /\ \A r \in Requests : r.id \in Ids /\ r.type \in {"analyze", "shutdown"}
BY Constants DEF Ids, ClientType, Requests

\* What a step that gives no answer leaves of the outcomes.
LEMMA GivesLeaves ==
  ASSUME ClientOK, ClientOK', Gives
  PROVE  /\ \A i \in Ids : outcome'[i] = "unused" <=> outcome[i] = "unused"
         /\ Live' => Live /\ UNCHANGED outcome
<1>1. FailPending => \A i \in Ids : outcome'[i] = "unused" <=> outcome[i] = "unused"
  BY DEF FailPending
<1>2. Ended' => ~Live'
  BY DEF Ended, Live, ClientOK, Sane
<1> QED
  BY <1>1, <1>2 DEF Gives

\* The client's lines go on, and no answer is among the new ones.
Extends ==
  /\ Len(toClient') \in Nat /\ Len(toClient') >= Len(toClient)
  /\ \A k \in Lines : toClient'[k] = toClient[k]
  /\ \A k \in Lines' : k \notin Lines => toClient'[k].type \notin Answers

LEMMA ExtendsStill ==
  ASSUME PipesTyped, UNCHANGED toClient
  PROVE  Extends
BY LinesTyped DEF Extends, Lines

LEMMA ExtendsEmit ==
  ASSUME PipesTyped, NEW e \in Events, e.type \notin Answers, Emit(e)
  PROVE  Extends
<1>1. toClient \in Seq(Events) /\ toClient' = Append(toClient, e)
  BY DEF PipesTyped, Emit
<1>2. /\ Len(toClient) \in Nat /\ Len(toClient') = Len(toClient) + 1
      /\ \A k \in Lines : toClient'[k] = toClient[k]
      /\ toClient'[Len(toClient) + 1] = e
  BY <1>1, AppendLines DEF Lines
<1>3. ASSUME NEW k \in Lines', k \notin Lines PROVE k = Len(toClient) + 1
  BY <1>2, <1>3 DEF Lines
<1> QED
  BY <1>2, <1>3 DEF Extends

\* In the old lines an answer is what it was.
LEMMA ExtendsAnswers ==
  ASSUME PipesTyped, Extends
  PROVE  /\ Lines \subseteq Lines'
         /\ \A k \in Lines' : IsAnswer(k)' => k \in Lines /\ IsAnswer(k) /\ toClient'[k] = toClient[k]
         /\ \A k \in Lines : IsAnswer(k)' <=> IsAnswer(k)
<1>1. Len(toClient) \in Nat
  BY LinesTyped
<1> QED
  BY <1>1 DEF Extends, Lines, IsAnswer

LEMMA ExtendsRefused ==
  ASSUME PipesTyped, Extends, NEW j, Refused(j)
  PROVE  Refused(j)'
<1>1. PICK k \in Lines : /\ toClient[k].type = "invalid_request"
                        /\ \A l \in 1..k : IsAnswer(l) => toClient[l].id < j
  BY DEF Refused
<1>2. k \in Lines' /\ toClient'[k] = toClient[k]
  BY ExtendsAnswers DEF Extends
<1>3. 1..k \subseteq Lines
  BY LinesTyped DEF Lines
<1>4. \A l \in 1..k : IsAnswer(l)' => toClient'[l].id < j
  BY <1>1, <1>3, ExtendsAnswers DEF Extends
<1> QED
  BY <1>1, <1>2, <1>4 DEF Refused

\* Steps that move no identifier.
LEMMA OrderedStays ==
  ASSUME Typed, Typed', Ordered, Begun', Gives, Extends, UNCHANGED <<toWorker, served>>,
         wk'.id = wk.id, cl'.seq >= cl.seq,
         wk.id # Nothing /\ wk'.pc # wk.pc => wk'.pc \in {"killed", "gone"}
  PROVE  Ordered'
<1>0. PipesTyped /\ ClientOK /\ ClientOK'
  BY DEF Typed
<1>1. /\ \A i \in Ids : outcome'[i] = "unused" <=> outcome[i] = "unused"
      /\ Live' => Live /\ UNCHANGED outcome
  BY <1>0, GivesLeaves
<1>2. /\ \A k \in Queue : toWorker[k].id \in Ids
      /\ wk.id # Nothing => wk.id \in Ids
  BY <1>0, LinesTyped, IdsNat DEF Queue, Typed, WkTyped, WorkerType
<1>9. /\ cl.seq \in Nat /\ cl'.seq \in Nat /\ \A i \in Ids : i \in Nat
      /\ \A i \in Ids : i <= cl.seq => i <= cl'.seq
  BY <1>0, IdsNat DEF ClientOK, Sane, ClientType
<1>3. Issued'
  BY <1>1, <1>9 DEF Ordered, Issued
<1>4. Queued' /\ QueueOrdered'
  BY <1>1, <1>2, <1>9 DEF Ordered, Queued, QueueOrdered, Queue
<1>5. Worked'
  BY <1>1, <1>2, <1>9 DEF Ordered, Worked, Queue
<1>6. Answered'
  <2> SUFFICES ASSUME NEW k \in Lines', IsAnswer(k)'
               PROVE  /\ toClient'[k].id \in Ids /\ toClient'[k].id <= cl'.seq
                      /\ served'[toClient'[k].id] = toClient'[k].type
                      /\ wk'.id # Nothing => toClient'[k].id < wk'.id
                      /\ \A l \in Queue' : toClient'[k].id < toWorker'[l].id
    BY DEF Answered
  <2>1. k \in Lines /\ IsAnswer(k) /\ toClient'[k] = toClient[k]
    BY <1>0, ExtendsAnswers
  <2> QED
    BY <1>9, <2>1 DEF Ordered, Answered, Queue
<1>7. AnswersOrdered'
  <2> SUFFICES ASSUME NEW k \in Lines', NEW l \in Lines', k < l, IsAnswer(k)', IsAnswer(l)'
               PROVE  toClient'[k].id < toClient'[l].id
    BY DEF AnswersOrdered
  <2> QED
    BY <1>0, ExtendsAnswers DEF Ordered, AnswersOrdered
<1>8. AllAccounted'
  <2> SUFFICES ASSUME Live', NEW j \in Pending' PROVE Accounted(j)'
    BY DEF AllAccounted
  <2>1. j \in Pending /\ Accounted(j)
    BY <1>1 DEF Pending, Ordered, AllAccounted
  <2>2. CASE wk.id = j \/ \E k \in Queue : toWorker[k].id = j
    BY <2>2 DEF Accounted, Queue
  <2>3. CASE \E k \in Lines : IsAnswer(k) /\ toClient[k].id = j
    BY <1>0, <2>3, ExtendsAnswers DEF Accounted, Extends
  <2>4. CASE Refused(j)
    BY <1>0, <2>4, ExtendsRefused DEF Accounted
  <2> QED
    BY <2>1, <2>2, <2>3, <2>4 DEF Accounted
<1> QED
  BY <1>3, <1>4, <1>5, <1>6, <1>7, <1>8 DEF Ordered

\* The client writes a request with the next identifier.
LEMMA OrderedWrite ==
  ASSUME Typed, Typed', Ordered, Begun', NEW type \in {"analyze", "shutdown"},
         cl.seq + 1 \in Ids, cl'.seq = cl.seq + 1, Write(type, cl.seq + 1),
         UNCHANGED <<wk, toClient, served>>, Live' => Live,
         IF type = "shutdown" THEN Gives
           ELSE outcome' = [outcome EXCEPT ![cl.seq + 1] = "pending"]
  PROVE  Ordered'
<1> DEFINE id == cl.seq + 1
           r == [type |-> type, id |-> id]
<1>0. /\ PipesTyped /\ ClientOK /\ ClientOK' /\ outcome \in [Ids -> Outcomes]
      /\ cl.seq \in Nat /\ \A i \in Ids : i \in Nat
  BY IdsNat DEF Typed, ClientOK, AnswersTyped, Sane
<1>1. /\ \A i \in Ids \ {id} : outcome'[i] = "unused" <=> outcome[i] = "unused"
      /\ Live' => /\ Live
                  /\ \A i \in Ids \ {id} : outcome'[i] = outcome[i]
      /\ type = "analyze" <=> outcome'[id] # "unused"
  <2>1. id > cl.seq /\ outcome[id] = "unused"
    BY <1>0 DEF Ordered, Issued
  <2>2. CASE type = "shutdown"
    BY <1>0, <2>1, <2>2, GivesLeaves
  <2>3. CASE type = "analyze"
    BY <1>0, <2>3
  <2> QED
    BY <2>2, <2>3
<1>2. /\ r \in Requests /\ toWorker \in Seq(Requests) /\ toWorker' = Append(toWorker, r)
      /\ r.id = id /\ r.type = type
  BY <1>0 DEF Requests, Write, PipesTyped
<1> HIDE DEF r
<1>3. /\ Len(toWorker) \in Nat /\ Len(toWorker') = Len(toWorker) + 1
      /\ \A k \in Queue' : toWorker'[k] = IF k = Len(toWorker) + 1 THEN r ELSE toWorker[k]
      /\ \A k \in Queue : toWorker'[k] = toWorker[k] /\ toWorker[k].id \in Ids
      /\ toWorker'[Len(toWorker) + 1] = r
  <2>1. \A k \in Queue : toWorker[k] \in Requests
    BY <1>0, LinesTyped DEF Queue
  <2> QED
    BY <1>2, <2>1, AppendLines, IdsNat DEF Queue
<1>4. /\ \A k \in Queue' : k \in Queue \/ k = Len(toWorker) + 1
      /\ \A k \in Queue : k \in Queue' /\ k < Len(toWorker) + 1
      /\ Len(toWorker) + 1 \in Queue'
  BY <1>3 DEF Queue
<1>5. \A k \in Queue : toWorker[k].id < id /\ toWorker[k].id # id
  BY <1>0, <1>3 DEF Ordered, Queued
<1>6. Issued'
  BY <1>0, <1>1 DEF Ordered, Issued
<1>7. Queued'
  <2> SUFFICES ASSUME NEW k \in Queue'
               PROVE  /\ toWorker'[k].id <= cl'.seq /\ served'[toWorker'[k].id] = "nothing"
                      /\ toWorker'[k].type = "analyze" <=> outcome'[toWorker'[k].id] # "unused"
    BY DEF Queued
  <2>1. CASE k = Len(toWorker) + 1
    <3>1. served[id] = "nothing"
      BY <1>0 DEF Ordered, Issued
    <3> QED
      BY <1>0, <1>1, <1>2, <1>3, <2>1, <3>1
  <2>2. CASE k \in Queue
    BY <1>0, <1>1, <1>3, <1>5, <2>2 DEF Ordered, Queued
  <2> QED
    BY <1>4, <2>1, <2>2
<1>8. QueueOrdered'
  <2> SUFFICES ASSUME NEW k \in Queue', NEW l \in Queue', k < l
               PROVE  toWorker'[k].id < toWorker'[l].id
    BY DEF QueueOrdered
  <2>1. k \in Queue
    BY <1>3, <1>4 DEF Queue
  <2> QED
    BY <1>2, <1>3, <1>4, <1>5, <2>1 DEF Ordered, QueueOrdered
<1>9. Worked'
  <2> SUFFICES ASSUME wk.id # Nothing
               PROVE  /\ wk.pc \in {"analyze", "killed", "gone"}
                      /\ wk.id <= cl'.seq /\ outcome'[wk.id] # "unused" /\ served[wk.id] = "nothing"
                      /\ \A k \in Queue' : wk.id < toWorker'[k].id
    BY DEF Worked
  <2>1. wk.id \in Ids /\ wk.id < id
    BY <1>0 DEF Typed, WkTyped, WorkerType, Ordered, Worked
  <2>2. /\ wk.pc \in {"analyze", "killed", "gone"} /\ wk.id <= cl'.seq
        /\ outcome'[wk.id] # "unused" /\ served[wk.id] = "nothing"
    BY <1>0, <1>1, <2>1 DEF Ordered, Worked
  <2>3. \A k \in Queue : wk.id < toWorker[k].id
    BY DEF Ordered, Worked
  <2> QED
    BY <1>2, <1>3, <1>4, <2>1, <2>2, <2>3
<1>10. Answered'
  <2> SUFFICES ASSUME NEW k \in Lines, IsAnswer(k)
               PROVE  /\ toClient[k].id \in Ids /\ toClient[k].id <= cl'.seq
                      /\ served[toClient[k].id] = toClient[k].type
                      /\ wk.id # Nothing => toClient[k].id < wk.id
                      /\ \A l \in Queue' : toClient[k].id < toWorker'[l].id
    BY DEF Answered, Lines, IsAnswer
  <2>1. toClient[k].id \in Ids /\ toClient[k].id <= cl.seq
    BY DEF Ordered, Answered
  <2>2. /\ served[toClient[k].id] = toClient[k].type
        /\ wk.id # Nothing => toClient[k].id < wk.id
        /\ \A l \in Queue : toClient[k].id < toWorker[l].id
    BY DEF Ordered, Answered
  <2>3. toClient[k].id <= cl'.seq /\ toClient[k].id < id
    BY <1>0, <2>1
  <2> QED
    BY <1>2, <1>3, <1>4, <2>1, <2>2, <2>3
<1>11. AnswersOrdered'
  BY DEF Ordered, AnswersOrdered, Lines, IsAnswer
<1>12. AllAccounted'
  <2> SUFFICES ASSUME Live', NEW j \in Pending' PROVE Accounted(j)'
    BY DEF AllAccounted
  <2>1. CASE j = id
    BY <1>2, <1>3, <1>4, <2>1 DEF Accounted
  <2>2. CASE j # id
    <3>1. j \in Pending /\ Accounted(j)
      BY <1>1, <2>2 DEF Pending, Ordered, AllAccounted
    <3>2. Refused(j) => Refused(j)'
      BY DEF Refused, Lines, IsAnswer
    <3>3. (\E k \in Queue : toWorker[k].id = j) => \E k \in Queue' : toWorker'[k].id = j
      BY <1>3, <1>4
    <3> QED
      BY <3>1, <3>2, <3>3 DEF Accounted, Lines, IsAnswer
  <2> QED
    BY <2>1, <2>2
<1> QED
  BY <1>6, <1>7, <1>8, <1>9, <1>10, <1>11, <1>12 DEF Ordered

\* What no line changes of the client's record.
KeptFields(c, d, status) ==
  /\ d.seq = c.seq /\ d.stopId = c.stopId /\ d.shutting = c.shutting
  /\ d.status = status

LEMMA HandleKeeps ==
  ASSUME cl \in ClientType, NEW e \in Events, Handle(e)
  PROVE  /\ cl'.seq = cl.seq /\ cl'.stopId = cl.stopId /\ cl'.shutting = cl.shutting
         /\ cl'.status = "notStarted" => cl.status = "notStarted"
<1>1. /\ \A cause : cl' = Fatally(cl, cause) => KeptFields(cl, cl', "fatal")
      /\ \A t : cl' = [cl EXCEPT !.status = t] => KeptFields(cl, cl', t)
      /\ \A t, sd : cl' = [cl EXCEPT !.status = t, !.sd = sd] => KeptFields(cl, cl', t)
      /\ \A r : cl' = [cl EXCEPT !.status = "ready", !.start = "ready", !.ready = r]
                => KeptFields(cl, cl', "ready")
      /\ cl' = Fatally(WithMetrics(e), "protocol") => KeptFields(cl, cl', "fatal")
  <2>1. \A cause : cl' = Fatally(cl, cause) => KeptFields(cl, cl', "fatal")
    BY DEF Fatally, ClientType, KeptFields
  <2>2. \A t : cl' = [cl EXCEPT !.status = t] => KeptFields(cl, cl', t)
    BY DEF ClientType, KeptFields
  <2>3. \A t, sd : cl' = [cl EXCEPT !.status = t, !.sd = sd] => KeptFields(cl, cl', t)
    BY DEF ClientType, KeptFields
  <2>4. \A r : cl' = [cl EXCEPT !.status = "ready", !.start = "ready", !.ready = r]
              => KeptFields(cl, cl', "ready")
    BY DEF ClientType, KeptFields
  <2>5. cl' = Fatally(WithMetrics(e), "protocol") => KeptFields(cl, cl', "fatal")
    BY DEF Fatally, WithMetrics, ClientType, KeptFields
  <2> QED
    BY <2>1, <2>2, <2>3, <2>4, <2>5
<1>2. \/ cl' = cl \/ \E cause : cl' = Fatally(cl, cause)
      \/ \E t \in {"loading", "warming"} : cl' = [cl EXCEPT !.status = t]
      \/ \E sd : cl' = [cl EXCEPT !.status = "stopped", !.sd = sd]
      \/ \E r : cl' = [cl EXCEPT !.status = "ready", !.start = "ready", !.ready = r]
      \/ cl' = Fatally(WithMetrics(e), "protocol")
  <2>1. ASSUME NEW cause, MarkFatal(cl, cause) PROVE \E x : cl' = Fatally(cl, x)
    BY <2>1 DEF MarkFatal
  <2>2. ProtocolError => \E x : cl' = Fatally(cl, x)
    BY <2>1 DEF ProtocolError
  <2>3. e.type \in {"loading", "warming"} /\ HandleStartup(e) =>
          ProtocolError \/ \E t \in {"loading", "warming"} : cl' = [cl EXCEPT !.status = t]
    BY DEF HandleStartup
  <2>4. e.type = "ready" /\ HandleReady(e) =>
          ProtocolError \/ cl' = Fatally(WithMetrics(e), "protocol")
            \/ \E r : cl' = [cl EXCEPT !.status = "ready", !.start = "ready", !.ready = r]
    BY ReadySteps DEF MarkFatal
  <2>5. HandleProgress(e) \/ HandleResult(e) \/ HandleWorkerError(e)
          => ProtocolError \/ cl' = cl
    BY DEF HandleProgress, HandleResult, HandleWorkerError, Complete
  <2>6. HandleStopped(e) =>
          ProtocolError \/ \E sd : cl' = [cl EXCEPT !.status = "stopped", !.sd = sd]
    BY DEF HandleStopped
  <2> QED
    BY <2>1, <2>2, <2>3, <2>4, <2>5, <2>6 DEF Handle
<1>3. CASE cl' = cl
  BY <1>3
<1>4. CASE \E cause : cl' = Fatally(cl, cause)
  BY <1>1, <1>4 DEF KeptFields
<1>5. CASE \E t \in {"loading", "warming"} : cl' = [cl EXCEPT !.status = t]
  BY <1>1, <1>5 DEF KeptFields
<1>6. CASE \E sd : cl' = [cl EXCEPT !.status = "stopped", !.sd = sd]
  BY <1>1, <1>6 DEF KeptFields
<1>7. CASE \E r : cl' = [cl EXCEPT !.status = "ready", !.start = "ready", !.ready = r]
  BY <1>1, <1>7 DEF KeptFields
<1>8. CASE cl' = Fatally(WithMetrics(e), "protocol")
  BY <1>1, <1>8 DEF KeptFields
<1> QED
  BY <1>2, <1>3, <1>4, <1>5, <1>6, <1>7, <1>8

\* The client reads a line.
LEMMA OrderedLine ==
  ASSUME Typed, Typed', Ordered, OnStdoutLine
  PROVE  Ordered'
<1> DEFINE e == Head(toClient)
<1>0. /\ PipesTyped /\ ClientOK /\ ClientOK' /\ outcome \in [Ids -> Outcomes]
      /\ cl.seq \in Nat /\ \A i \in Ids : i \in Nat
  BY IdsNat DEF Typed, ClientOK, AnswersTyped, Sane
<1>1. /\ toClient # <<>> /\ toClient' = Tail(toClient) /\ e \in Events
      /\ HandledOK(e) \/ (~Live /\ UNCHANGED clientVars)
      /\ UNCHANGED <<wk, toWorker, served>>
  BY <1>0, OnStdoutLineOK DEF OnStdoutLine
<1>2. /\ Len(toClient) \in Nat \ {0} /\ Len(toClient') = Len(toClient) - 1
      /\ \A k \in Lines' : k + 1 \in Lines /\ toClient'[k] = toClient[k + 1]
      /\ \A k \in Lines : k # 1 => k - 1 \in Lines'
      /\ 1 \in Lines /\ toClient[1] = e
  BY <1>0, <1>1, TailLines DEF PipesTyped, Lines
<1> HIDE DEF e
<1>3. cl'.seq = cl.seq /\ (cl'.status = "notStarted" => cl.status = "notStarted")
  <2>1. cl \in ClientType /\ (Handle(e) \/ UNCHANGED clientVars)
    BY <1>0 DEF ClientOK, Sane, OnStdoutLine, e
  <2> QED
    BY <1>1, <2>1, HandleKeeps DEF clientVars
<1>4. /\ \A i \in Ids : outcome'[i] = "unused" <=> outcome[i] = "unused"
      /\ Live' => /\ Live /\ e.type # "invalid_request"
                  /\ \A j \in Pending' : j \in Pending /\ (e.type \in Answers => j # e.id)
  <2>1. CASE Answers1(e)
    BY <1>0, <2>1 DEF Answers1, Pending, Answers, Live
  <2>2. CASE Gives /\ (Live' => e.type \notin Answers \cup {"invalid_request"})
    BY <1>0, <2>2, GivesLeaves DEF Pending
  <2>3. CASE ~Live /\ UNCHANGED clientVars
    BY <2>3 DEF clientVars, Live
  <2> QED
    BY <1>1, <2>1, <2>2, <2>3 DEF HandledOK
<1>5. \A k \in Lines' : IsAnswer(k)' => IsAnswer(k + 1)
  BY <1>2 DEF IsAnswer
<1>6. Begun' /\ Issued'
  BY <1>1, <1>3, <1>4 DEF Ordered, Begun, Issued
<1>7. Queued' /\ QueueOrdered'
  <2>1. \A k \in Queue : toWorker[k].id \in Ids
    BY <1>0, LinesTyped, IdsNat DEF Queue
  <2> QED
    BY <1>1, <1>3, <1>4, <2>1 DEF Ordered, Queued, QueueOrdered, Queue
<1>8. Worked'
  <2>1. wk.id # Nothing => wk.id \in Ids
    BY DEF Typed, WkTyped, WorkerType
  <2> QED
    BY <1>1, <1>3, <1>4, <2>1 DEF Ordered, Worked, Queue
<1>9. Answered'
  <2> SUFFICES ASSUME NEW k \in Lines', IsAnswer(k)'
               PROVE  /\ toClient'[k].id \in Ids /\ toClient'[k].id <= cl'.seq
                      /\ served'[toClient'[k].id] = toClient'[k].type
                      /\ wk'.id # Nothing => toClient'[k].id < wk'.id
                      /\ \A l \in Queue' : toClient'[k].id < toWorker'[l].id
    BY DEF Answered
  <2>1. k + 1 \in Lines /\ IsAnswer(k + 1) /\ toClient'[k] = toClient[k + 1]
    BY <1>2, <1>5
  <2> QED
    BY <1>1, <1>3, <2>1 DEF Ordered, Answered, Queue
<1>10. AnswersOrdered'
  <2> SUFFICES ASSUME NEW k \in Lines', NEW l \in Lines', k < l, IsAnswer(k)', IsAnswer(l)'
               PROVE  toClient'[k].id < toClient'[l].id
    BY DEF AnswersOrdered
  <2>1. k + 1 < l + 1
    BY <1>2 DEF Lines
  <2> QED
    BY <1>2, <1>5, <2>1 DEF Ordered, AnswersOrdered
<1>11. AllAccounted'
  <2> SUFFICES ASSUME Live', NEW j \in Pending' PROVE Accounted(j)'
    BY DEF AllAccounted
  <2>1. Accounted(j) /\ e.type # "invalid_request" /\ (e.type \in Answers => j # e.id)
    BY <1>4 DEF Ordered, AllAccounted
  <2>2. CASE wk.id = j \/ \E k \in Queue : toWorker[k].id = j
    BY <1>1, <2>2 DEF Accounted, Queue
  <2>3. ASSUME NEW k \in Lines, IsAnswer(k), toClient[k].id = j PROVE Accounted(j)'
    <3>1. k # 1
      BY <1>2, <2>1, <2>3 DEF IsAnswer
    <3>2. k - 1 \in Lines' /\ toClient'[k - 1] = toClient[k]
      BY <1>2, <3>1 DEF Lines
    <3> QED
      BY <2>3, <3>2 DEF Accounted, IsAnswer
  <2>4. CASE Refused(j)
    <3>1. PICK k \in Lines : /\ toClient[k].type = "invalid_request"
                            /\ \A l \in 1..k : IsAnswer(l) => toClient[l].id < j
      BY <2>4 DEF Refused
    <3>2. k # 1
      BY <1>2, <2>1, <3>1
    <3>3. k - 1 \in Lines' /\ toClient'[k - 1] = toClient[k]
      BY <1>2, <3>2 DEF Lines
    <3>4. ASSUME NEW l \in 1..(k - 1), IsAnswer(l)' PROVE toClient'[l].id < j
      <4>1. l \in Lines' /\ l + 1 \in 1..k
        BY <1>2, <3>3 DEF Lines
      <4> QED
        BY <1>2, <1>5, <3>1, <3>4, <4>1
    <3> QED
      BY <3>1, <3>3, <3>4 DEF Accounted, Refused
  <2> QED
    BY <2>1, <2>2, <2>3, <2>4 DEF Accounted
<1> QED
  BY <1>6, <1>7, <1>8, <1>9, <1>10, <1>11 DEF Ordered

\* The worker reads a request.
LEMMA OrderedRead ==
  ASSUME Typed, Typed', Ordered, ReadAnalyze \/ ReadShutdown, UNCHANGED clientVars
  PROVE  Ordered'
<1> DEFINE h == Head(toWorker)
           invalid == [type |-> "invalid_request"]
<1>0. /\ PipesTyped /\ cl.seq \in Nat /\ \A i \in Ids : i \in Nat
      /\ UNCHANGED <<cl, outcome, progress, served>> /\ wk.pc = "idle" /\ wk.id = Nothing
  BY IdsNat DEF Typed, ClientOK, Sane, clientVars, ReadAnalyze, ReadShutdown, At, Ordered, Worked
<1>1. toWorker # <<>> /\ toWorker' = Tail(toWorker) /\ toWorker \in Seq(Requests)
  BY <1>0 DEF ReadAnalyze, ReadShutdown, PipesTyped
<1>2. /\ Len(toWorker) \in Nat \ {0} /\ Len(toWorker') = Len(toWorker) - 1
      /\ \A k \in Queue' : k + 1 \in Queue /\ toWorker'[k] = toWorker[k + 1]
      /\ \A k \in Queue : k # 1 => k - 1 \in Queue'
      /\ 1 \in Queue /\ toWorker[1] = h /\ h \in Requests
      /\ \A k \in Queue : toWorker[k] \in Requests
  BY <1>1, TailLines DEF Queue
<1>3. /\ h.id \in Ids /\ h.id <= cl.seq /\ served[h.id] = "nothing"
      /\ h.type = "analyze" <=> outcome[h.id] # "unused"
      /\ \A k \in Queue' : h.id < toWorker'[k].id
  <2>1. \A k \in Queue' : 1 < k + 1
    BY <1>2 DEF Queue
  <2>2. \A k \in Queue' : h.id < toWorker'[k].id
    BY <1>2, <2>1 DEF Ordered, QueueOrdered
  <2> QED
    BY <1>2, <2>2, IdsNat DEF Ordered, Queued
<1>4. /\ \/ h.type = "analyze" /\ wk'.id = h.id /\ wk'.pc = "analyze" /\ UNCHANGED toClient
         \/ h.type = "analyze" /\ UNCHANGED wk /\ Emit(invalid)
         \/ h.type = "shutdown" /\ wk'.id = Nothing /\ UNCHANGED toClient
  <2>1. CASE ReadAnalyze
    BY <2>1 DEF ReadAnalyze, Typed, WkTyped, WorkerType
  <2>2. CASE ReadShutdown
    BY <1>0, <2>2 DEF ReadShutdown, Typed, WkTyped, WorkerType
  <2> QED
    BY <2>1, <2>2
<1>5. invalid \in Events /\ invalid.type = "invalid_request" /\ invalid.type \notin Answers
  BY EventsOf DEF Answers
<1> HIDE DEF h, invalid
<1>6. Extends
  BY <1>0, <1>4, <1>5, ExtendsStill, ExtendsEmit
<1>7. Begun' /\ Issued'
  <2>1. cl.status # "notStarted"
    BY <1>0 DEF Ordered, Begun
  <2> QED
    BY <1>0, <2>1 DEF Ordered, Begun, Issued
<1>8. Queued' 
  BY <1>0, <1>2 DEF Ordered, Queued
<1>9. QueueOrdered'
  <2> SUFFICES ASSUME NEW k \in Queue', NEW l \in Queue', k < l
               PROVE  toWorker'[k].id < toWorker'[l].id
    BY DEF QueueOrdered
  <2>1. k + 1 < l + 1
    BY <1>2 DEF Queue
  <2> QED
    BY <1>2, <2>1 DEF Ordered, QueueOrdered
<1>10. Worked'
  BY <1>0, <1>3, <1>4 DEF Worked
<1>11. Answered'
  <2> SUFFICES ASSUME NEW k \in Lines', IsAnswer(k)'
               PROVE  /\ toClient'[k].id \in Ids /\ toClient'[k].id <= cl'.seq
                      /\ served'[toClient'[k].id] = toClient'[k].type
                      /\ wk'.id # Nothing => toClient'[k].id < wk'.id
                      /\ \A l \in Queue' : toClient'[k].id < toWorker'[l].id
    BY DEF Answered
  <2>1. k \in Lines /\ IsAnswer(k) /\ toClient'[k] = toClient[k]
    BY <1>0, <1>6, ExtendsAnswers
  <2>2. \A l \in Queue : toClient[k].id < toWorker[l].id
    BY <2>1 DEF Ordered, Answered
  <2>3. \A l \in Queue' : toClient[k].id < toWorker'[l].id
    BY <1>2, <2>2
  <2>4. wk'.id # Nothing => toClient[k].id < wk'.id
    BY <1>0, <1>2, <1>4, <2>2
  <2>5. toClient[k].id \in Ids /\ toClient[k].id <= cl.seq /\ served[toClient[k].id] = toClient[k].type
    BY <2>1 DEF Ordered, Answered
  <2> QED
    BY <1>0, <2>1, <2>3, <2>4, <2>5
<1>12. AnswersOrdered'
  <2> SUFFICES ASSUME NEW k \in Lines', NEW l \in Lines', k < l, IsAnswer(k)', IsAnswer(l)'
               PROVE  toClient'[k].id < toClient'[l].id
    BY DEF AnswersOrdered
  <2> QED
    BY <1>0, <1>6, ExtendsAnswers DEF Ordered, AnswersOrdered
<1>13. AllAccounted'
  <2> SUFFICES ASSUME Live', NEW j \in Pending' PROVE Accounted(j)'
    BY DEF AllAccounted
  <2>1. j \in Pending /\ Accounted(j) /\ j \in Ids /\ outcome[j] = "pending"
    BY <1>0 DEF Live, Pending, Ordered, AllAccounted
  <2>2. CASE wk.id = j
    BY <1>0, <2>1, <2>2, Constants
  <2>3. CASE \E k \in Lines : IsAnswer(k) /\ toClient[k].id = j
    BY <1>0, <1>6, <2>3, ExtendsAnswers DEF Accounted, Extends
  <2>4. CASE Refused(j)
    BY <1>0, <1>6, <2>4, ExtendsRefused DEF Accounted
  <2>5. ASSUME NEW k \in Queue, toWorker[k].id = j, k # 1 PROVE Accounted(j)'
    <3>1. k - 1 \in Queue' /\ toWorker'[k - 1] = toWorker[k]
      BY <1>2, <2>5 DEF Queue
    <3> QED
      BY <2>5, <3>1 DEF Accounted
  <2>6. CASE h.id = j
    <3>1. h.type = "analyze"
      BY <1>3, <2>1, <2>6
    <3>2. CASE wk'.id = h.id
      BY <2>6, <3>2 DEF Accounted
    <3>3. CASE Emit(invalid)
      <4> DEFINE n == Len(toClient) + 1
      <4>1. toClient \in Seq(Events) /\ toClient' = Append(toClient, invalid)
        BY <1>0, <3>3 DEF PipesTyped, Emit
      <4>2. n \in Lines' /\ toClient'[n] = invalid
        BY <1>5, <4>1, AppendLines DEF Lines
      <4>3. ASSUME NEW l \in 1..n, IsAnswer(l)' PROVE toClient'[l].id < j
        <5>1. l \in Lines'
          BY <1>5, <4>1, AppendLines DEF Lines
        <5>2. l \in Lines /\ IsAnswer(l) /\ toClient'[l] = toClient[l]
          BY <1>0, <1>6, <4>3, <5>1, ExtendsAnswers
        <5> QED
          BY <1>2, <2>6, <5>2 DEF Ordered, Answered
      <4> QED
        BY <1>5, <4>2, <4>3 DEF Accounted, Refused
    <3> QED
      BY <1>3, <1>4, <3>1, <3>2, <3>3
  <2> QED
    BY <1>2, <2>1, <2>2, <2>3, <2>4, <2>5, <2>6 DEF Accounted
<1> QED
  BY <1>7, <1>8, <1>9, <1>10, <1>11, <1>12, <1>13 DEF Ordered

\* The worker answers.
LEMMA OrderedAnswer ==
  ASSUME Typed, Typed', Ordered, NEW type \in Answers, wk.pc = "analyze", Answer(type),
         UNCHANGED clientVars
  PROVE  Ordered'
<1> DEFINE e == [type |-> type, id |-> wk.id]
           n == Len(toClient) + 1
<1>0. /\ PipesTyped /\ cl.seq \in Nat /\ \A i \in Ids : i \in Nat /\ i # Nothing
      /\ UNCHANGED <<cl, outcome, progress, toWorker>> /\ wk.id \in Ids
      /\ served \in [Ids -> {"nothing", "result", "analysis_failed"}]
      /\ served' = [served EXCEPT ![wk.id] = type] /\ wk'.pc = "idle" /\ wk'.id = Nothing
  BY IdsNat, Constants DEF Typed, ClientOK, Sane, clientVars, Answer, WkTyped, RestTyped, WorkerType
<1>1. e \in Events /\ e.type = type /\ e.id = wk.id /\ Emit(e)
  BY <1>0, EventsOf DEF Answers, Answer
<1> HIDE DEF e
<1>2. /\ Len(toClient) \in Nat /\ Len(toClient') = n /\ toClient'[n] = e
      /\ \A k \in Lines' : k \in Lines \/ k = n
      /\ \A k \in Lines : k \in Lines' /\ toClient'[k] = toClient[k] /\ k < n
      /\ n \in Lines'
  BY <1>0, <1>1, AppendLines DEF PipesTyped, Emit, Lines
<1>3. /\ wk.id <= cl.seq /\ outcome[wk.id] # "unused" /\ served[wk.id] = "nothing"
      /\ \A k \in Queue : wk.id < toWorker[k].id
  BY <1>0 DEF Ordered, Worked
<1>4. \A k \in Lines : IsAnswer(k) =>
        /\ toClient[k].id \in Ids /\ toClient[k].id <= cl.seq
        /\ served[toClient[k].id] = toClient[k].type /\ toClient[k].id < wk.id
        /\ \A l \in Queue : toClient[k].id < toWorker[l].id
  BY <1>0 DEF Ordered, Answered
<1>5. \A k \in Lines : IsAnswer(k)' <=> IsAnswer(k)
  BY <1>2 DEF IsAnswer
<1>6. Begun' /\ Issued'
  BY <1>0, <1>3 DEF Ordered, Begun, Issued
<1>7. \A k \in Queue : toWorker[k].id \in Ids
  BY <1>0, LinesTyped, IdsNat DEF Queue
<1>8. Queued' /\ QueueOrdered' /\ Worked'
  BY <1>0, <1>3, <1>7 DEF Ordered, Queued, QueueOrdered, Worked, Queue
<1>9. Answered'
  <2> SUFFICES ASSUME NEW k \in Lines', IsAnswer(k)'
               PROVE  /\ toClient'[k].id \in Ids /\ toClient'[k].id <= cl.seq
                      /\ served'[toClient'[k].id] = toClient'[k].type
                      /\ \A l \in Queue : toClient'[k].id < toWorker[l].id
    BY <1>0 DEF Answered, Queue
  <2>1. CASE k = n
    BY <1>0, <1>1, <1>2, <1>3, <2>1
  <2>2. CASE k \in Lines
    BY <1>0, <1>2, <1>4, <1>5, <2>2
  <2> QED
    BY <1>2, <2>1, <2>2
<1>10. AnswersOrdered'
  <2> SUFFICES ASSUME NEW k \in Lines', NEW l \in Lines', k < l, IsAnswer(k)', IsAnswer(l)'
               PROVE  toClient'[k].id < toClient'[l].id
    BY DEF AnswersOrdered
  <2>1. k \in Lines
    BY <1>2 DEF Lines
  <2> QED
    BY <1>1, <1>2, <1>4, <1>5, <2>1 DEF Ordered, AnswersOrdered
<1>11. AllAccounted'
  <2> SUFFICES ASSUME Live', NEW j \in Pending' PROVE Accounted(j)'
    BY DEF AllAccounted
  <2>1. j \in Pending /\ Accounted(j) /\ j \in Ids
    BY <1>0 DEF Live, Pending, Ordered, AllAccounted
  <2>2. CASE wk.id = j
    <3>1. \E k \in Lines' : toClient'[k].type \in Answers /\ toClient'[k].id = j
      BY <1>1, <1>2, <2>2
    <3> QED
      BY <3>1 DEF Accounted, IsAnswer
  <2>3. CASE \E k \in Lines : IsAnswer(k) /\ toClient[k].id = j
    BY <1>2, <1>5, <2>3 DEF Accounted
  <2>4. CASE Refused(j)
    <3>1. PICK k \in Lines : /\ toClient[k].type = "invalid_request"
                            /\ \A l \in 1..k : IsAnswer(l) => toClient[l].id < j
      BY <2>4 DEF Refused
    <3>2. 1..k \subseteq Lines
      BY <1>2 DEF Lines
    <3>3. \A l \in 1..k : IsAnswer(l)' => toClient'[l].id < j
      BY <1>2, <1>5, <3>1, <3>2
    <3> QED
      BY <1>2, <3>1, <3>3 DEF Accounted, Refused
  <2>5. CASE \E k \in Queue : toWorker[k].id = j
    BY <1>0, <2>5 DEF Accounted, Queue
  <2> QED
    BY <2>1, <2>2, <2>3, <2>4, <2>5 DEF Accounted
<1> QED
  BY <1>6, <1>8, <1>9, <1>10, <1>11 DEF Ordered

\* The steps of the worker that move no identifier.
Moves ==
  \/ RejectLaunch \/ BeginServe \/ SelectCandidate \/ SelectLegacy \/ Load \/ Warm \/ Announce
  \/ ReadEnd \/ Progress \/ CloseRuntime \/ BrokenPipe \/ Die \/ WorkerFault

LEMMA MovesExtend ==
  ASSUME Typed, Moves
  PROVE  Extends
<1>0. PipesTyped /\ wk \in WorkerType /\ wk.warmed \in BOOLEAN
  BY DEF Typed, WkTyped, WorkerType
<1>1. ASSUME NEW type \in {"loading", "warming", "admission_failed", "initialization_failed"},
             Emit([type |-> type])
      PROVE  Extends
  <2>1. [type |-> type] \in Events /\ [type |-> type].type \notin Answers
    BY EventsOf DEF Answers
  <2> QED
    BY <1>0, <1>1, <2>1, ExtendsEmit
<1>2. CASE CloseRuntime
  <2>1. /\ [type |-> "stopped", id |-> wk.stop] \in Events
        /\ [type |-> "stopped", id |-> wk.stop].type \notin Answers
    BY <1>0, EventsOf DEF Answers, WorkerType
  <2> QED
    BY <1>0, <1>2, <2>1, ExtendsEmit DEF CloseRuntime
<1>3. CASE Progress
  <2>1. PICK phase \in Phases : Emit([type |-> "progress", id |-> wk.id, phase |-> phase])
    BY <1>3 DEF Progress
  <2>2. wk.id \in Ids
    BY <1>3 DEF Progress, At, Typed, WkTyped
  <2>3. /\ [type |-> "progress", id |-> wk.id, phase |-> phase] \in Events
        /\ [type |-> "progress", id |-> wk.id, phase |-> phase].type \notin Answers
    BY <2>2, EventsOf DEF Answers
  <2> QED
    BY <1>0, <2>1, <2>3, ExtendsEmit
<1>4. CASE Announce
  <2> DEFINE ready == [type |-> "ready", device |-> wk.device, mode |-> wk.mode]
             failed == [type |-> "initialization_failed"]
             warming == [type |-> "warming"]
  <2>1. /\ ready \in Events /\ failed \in Events /\ warming \in Events
        /\ ready.type \notin Answers /\ failed.type \notin Answers /\ warming.type \notin Answers
    BY <1>0, EventsOf DEF Answers, WorkerType
  <2>2. PICK e \in {ready, failed} :
          toClient' = toClient \o (IF wk.warmed THEN <<>> ELSE <<warming>>) \o <<e>>
    BY <1>4 DEF Announce
  <2> HIDE DEF ready, failed
  <2>3. e \in Events /\ e.type \notin Answers
    BY <2>1
  <2>4. toClient' = IF wk.warmed THEN Append(toClient, e)
                                 ELSE Append(Append(toClient, warming), e)
    BY <1>0, <2>2, <2>3, Announced
  <2>5. CASE wk.warmed
    BY <1>0, <2>3, <2>4, <2>5, ExtendsEmit DEF Emit
  <2>6. CASE ~wk.warmed
    <3> DEFINE q == Append(toClient, warming)
    <3> HIDE DEF warming
    <3>1. toClient \in Seq(Events)
      BY <1>0 DEF PipesTyped
    <3>2. /\ q \in Seq(Events) /\ Len(q) = Len(toClient) + 1 /\ Len(toClient) \in Nat
          /\ \A k \in Lines : q[k] = toClient[k]
          /\ q[Len(toClient) + 1] = warming
      BY <2>1, <3>1, AppendLines DEF Lines
    <3> HIDE DEF q
    <3>3. toClient' = Append(q, e)
      BY <2>4, <2>6 DEF q
    <3>4. /\ Len(toClient') = Len(toClient) + 2
          /\ \A k \in 1..Len(q) : toClient'[k] = q[k]
          /\ toClient'[Len(q) + 1] = e
      BY <2>3, <3>2, <3>3, AppendLines
    <3>5. \A k \in Lines : k \in 1..Len(q)
      BY <3>2 DEF Lines
    <3>6. ASSUME NEW k \in Lines', k \notin Lines PROVE k = Len(toClient) + 1 \/ k = Len(q) + 1
      BY <3>2, <3>4, <3>6 DEF Lines
    <3>7. toClient'[Len(toClient) + 1] = warming
      BY <3>2, <3>4
    <3> QED
      BY <2>1, <2>3, <3>2, <3>4, <3>5, <3>6, <3>7 DEF Extends
  <2> QED
    BY <2>5, <2>6
<1>5. CASE SelectCandidate \/ SelectLegacy \/ Load \/ Warm
  <2>1. UNCHANGED toClient \/ \E type \in {"warming", "admission_failed", "initialization_failed"} :
                                Emit([type |-> type])
    BY <1>5 DEF SelectCandidate, SelectLegacy, Load, Warm, EmitWarming, FallBack, Fatal
  <2> QED
    BY <1>0, <1>1, <2>1, ExtendsStill
<1>6. CASE RejectLaunch \/ BeginServe \/ ReadEnd \/ BrokenPipe \/ Die \/ WorkerFault
  <2>1. UNCHANGED toClient \/ Emit([type |-> "loading"])
    BY <1>6 DEF RejectLaunch, BeginServe, ReadEnd, BrokenPipe, Die, WorkerFault, Crash, Hang, LoseImage
  <2> QED
    BY <1>0, <1>1, <2>1, ExtendsStill
<1> QED
  BY <1>2, <1>3, <1>4, <1>5, <1>6 DEF Moves

LEMMA MovesKeepId ==
  ASSUME Typed, Moves
  PROVE  /\ wk'.id = wk.id /\ UNCHANGED <<toWorker, served>>
         /\ wk.pc = "absent" => wk'.pc = "absent"
         /\ wk'.pc # wk.pc =>
              wk'.pc = "gone" \/ wk.pc \in {"started", "select", "load", "warm", "announce", "idle"}
<1>0. wk \in WorkerType
  BY DEF Typed, WkTyped
<1>1. CASE RejectLaunch \/ BeginServe \/ ReadEnd \/ CloseRuntime \/ BrokenPipe \/ Die
  BY <1>0, <1>1 DEF RejectLaunch, BeginServe, ReadEnd, CloseRuntime, BrokenPipe, Die, Becomes, At,
     WorkerType, Running, Starting, Serving
<1>2. CASE SelectCandidate
  BY <1>0, <1>2 DEF SelectCandidate, Becomes, Fatal, At, WorkerType
<1>3. CASE SelectLegacy
  <2>1. \/ Becomes("gone")
        \/ \E d, m : wk' = [wk EXCEPT !.pc = "load", !.device = d, !.mode = m]
    BY <1>3 DEF SelectLegacy, Fatal
  <2>2. \A d, m : wk' = [wk EXCEPT !.pc = "load", !.device = d, !.mode = m]
                    => wk'.id = wk.id /\ wk'.pc = "load"
    BY <1>0 DEF WorkerType
  <2>3. wk.pc = "select" /\ UNCHANGED <<toWorker, served>>
    BY <1>3 DEF SelectLegacy, At
  <2> QED
    BY <1>0, <2>1, <2>2, <2>3 DEF Becomes, WorkerType
<1>4. CASE Load \/ Warm
  BY <1>0, <1>4 DEF Load, Warm, FallBack, Becomes, Fatal, At, WorkerType
<1>5. CASE Announce
  BY <1>0, <1>5 DEF Announce, Becomes, At, WorkerType
<1>6. CASE Progress
  <2>1. PICK phase \in Phases : wk' = [wk EXCEPT !.phase = phase]
    BY <1>6 DEF Progress
  <2>2. wk'.id = wk.id /\ wk'.pc = wk.pc
    BY <1>0, <2>1 DEF WorkerType
  <2> QED
    BY <1>6, <2>2 DEF Progress
<1>7. CASE WorkerFault
  BY <1>0, <1>7 DEF WorkerFault, Crash, Hang, LoseImage, Becomes, WorkerType, Running, Starting, Serving
<1> QED
  BY <1>1, <1>2, <1>3, <1>4, <1>5, <1>6, <1>7 DEF Moves

LEMMA MovesOrdered ==
  ASSUME Typed, Typed', Ordered, Moves, UNCHANGED clientVars
  PROVE  Ordered'
<1>1. Gives
  BY IdleOK DEF Typed
<1>2. UNCHANGED cl /\ cl.seq \in Nat
  BY IdsNat DEF clientVars, Typed, ClientOK, Sane
<1>3. Begun'
  BY <1>2, MovesKeepId DEF Ordered, Begun
<1>4. wk.id # Nothing /\ wk'.pc # wk.pc => wk'.pc \in {"killed", "gone"}
  BY MovesKeepId DEF Ordered, Worked
<1> QED
  BY <1>1, <1>2, <1>3, <1>4, MovesKeepId, MovesExtend, OrderedStays

LEMMA StartOrdered ==
  ASSUME Typed, Typed', Ordered, Start
  PROVE  Ordered'
<1> DEFINE c == [cl EXCEPT !.status = "starting", !.start = "pending"]
<1>1. Gives /\ cl \in ClientType /\ cl.seq \in Nat /\ wk \in WorkerType /\ PipesTyped
  BY StartOK, IdsNat DEF Typed, ClientOK, Sane, WkTyped
<1>2. c \in ClientType /\ c.seq = cl.seq /\ c.status = "starting"
  BY <1>1 DEF ClientType, Statuses
<1>3. cl' = [c EXCEPT !.owner = "pending"] \/ cl' = Fatally(c, "start")
  BY DEF Start, MarkFatal
<1> HIDE DEF c
<1>4. cl'.seq = cl.seq /\ cl'.status # "notStarted"
  BY <1>2, <1>3 DEF ClientType, Fatally
<1>5. /\ wk'.id = wk.id /\ (wk.id # Nothing => wk'.pc = wk.pc)
      /\ UNCHANGED <<toWorker, served, toClient>>
  BY <1>1 DEF Start, WorkerType, Ordered, Begun, Worked
<1>6. Begun' /\ Extends
  BY <1>1, <1>4, <1>5, ExtendsStill DEF Begun
<1> QED
  BY <1>1, <1>4, <1>5, <1>6, OrderedStays

LEMMA AnalyzeOrdered ==
  ASSUME Typed, Typed', Ordered, Analyze
  PROVE  Ordered'
<1>1. /\ ClientOK /\ cl \in ClientType /\ cl.status = "ready"
      /\ UNCHANGED <<wk, toClient, served>>
  BY DEF Typed, ClientOK, Sane, Analyze
<1>2. /\ cl.seq + 1 \in Ids /\ Write("analyze", cl.seq + 1)
      /\ outcome' = [outcome EXCEPT ![cl.seq + 1] = "pending"]
      /\ cl' = [cl EXCEPT !.seq = cl.seq + 1]
  BY <1>1, AnalyzeOK
<1>3. cl'.seq = cl.seq + 1 /\ cl'.status = "ready"
  BY <1>1, <1>2 DEF ClientType
<1>4. Begun' /\ (Live' => Live)
  BY <1>1, <1>3 DEF Begun, Live
<1> QED
  BY <1>1, <1>2, <1>3, <1>4, OrderedWrite

LEMMA ShutdownOrdered ==
  ASSUME Typed, Typed', Ordered, Shutdown
  PROVE  Ordered'
<1> DEFINE b == BeginShutdown
           id == cl.seq + 1
           c == [b EXCEPT !.seq = id, !.stopId = id]
<1>1. /\ ClientOK /\ Sane(cl) /\ cl \in ClientType /\ PipesTyped /\ Gives
      /\ UNCHANGED <<wk, toClient, served>> /\ id \in Ids /\ cl.seq \in Nat
  BY BeginShutdownSane, ShutdownOK, IdsNat DEF Typed, ClientOK, Sane, Shutdown
<1>2. b \in ClientType /\ b.seq = cl.seq /\ b.status = cl.status
  BY <1>1 DEF BeginShutdown, ClientType
<1>3. \/ /\ cl' = [b EXCEPT !.sd = "owner"]
            \/ cl' = [b EXCEPT !.sd = "returned", !.status = "stopped"]
         /\ UNCHANGED toWorker
      \/ /\ cl' = [c EXCEPT !.sd = "stop"]
            \/ cl' = [c EXCEPT !.sd = "returned", !.status = "stopped"]
         /\ Write("shutdown", id) \/ UNCHANGED toWorker
  BY DEF Shutdown, Return
<1> HIDE DEF b, id
<1>4. c.seq = id /\ c.status = cl.status
  BY <1>2 DEF ClientType
<1>5. /\ cl'.status \in {cl.status, "stopped"}
      /\ cl'.seq \in {cl.seq, id}
      /\ Write("shutdown", id) /\ ~UNCHANGED toWorker => cl'.seq = id
      /\ Write("shutdown", id) \/ UNCHANGED toWorker
  <2>1. /\ [b EXCEPT !.sd = "owner"].seq = cl.seq
        /\ [b EXCEPT !.sd = "owner"].status = cl.status
        /\ [b EXCEPT !.sd = "returned", !.status = "stopped"].seq = cl.seq
        /\ [b EXCEPT !.sd = "returned", !.status = "stopped"].status = "stopped"
    BY <1>2 DEF ClientType
  <2>2. /\ [c EXCEPT !.sd = "stop"].seq = id
        /\ [c EXCEPT !.sd = "stop"].status = cl.status
        /\ [c EXCEPT !.sd = "returned", !.status = "stopped"].seq = id
        /\ [c EXCEPT !.sd = "returned", !.status = "stopped"].status = "stopped"
    BY <1>2, <1>4 DEF ClientType
  <2> QED
    BY <1>3, <2>1, <2>2
<1>6. Begun' 
  BY <1>1, <1>5 DEF Ordered, Begun
<1>7. CASE UNCHANGED toWorker
  <2>1. cl'.seq >= cl.seq
    BY <1>1, <1>5 DEF id
  <2> QED
    BY <1>1, <1>6, <1>7, <2>1, ExtendsStill, OrderedStays
<1>8. CASE Write("shutdown", id) /\ ~UNCHANGED toWorker
  <2>1. Live' => Live
    BY <1>1 DEF Gives
  <2> QED
    BY <1>1, <1>5, <1>6, <1>8, <2>1, OrderedWrite DEF id
<1> QED
  BY <1>5, <1>7, <1>8

LEMMA WaitingOrdered ==
  ASSUME Typed, Typed', Ordered, Waiting
  PROVE  Ordered'
<1>1. /\ PipesTyped /\ wk \in WorkerType /\ Gives /\ Kept(cl, cl') /\ cl.seq \in Nat
      /\ cl'.status = "notStarted" => cl.status = "notStarted"
  BY WaitingOK, WaitingKept, IdsNat DEF Typed, ClientOK, Sane, WkTyped, Kept
<1>2. UNCHANGED <<toWorker, toClient, served>>
  BY DEF Waiting, SpawnFails, Own, CancelTimeout, OwnerTimeout, OnProcessExit, ShutdownTimeout,
         KillTimeout, workerVars
<1>3. UNCHANGED wk \/ (Becomes("killed") /\ wk.pc \in Running)
        \/ (Becomes("absent") /\ wk.pc = "spawning")
  BY DEF Waiting, SpawnFails, Own, CancelTimeout, OwnerTimeout, OnProcessExit, ShutdownTimeout,
         KillTimeout, Kill, KillRefused, workerVars
<1>4. /\ wk'.id = wk.id /\ (wk.pc = "absent" => wk'.pc = "absent")
      /\ wk'.pc # wk.pc => wk'.pc = "killed" \/ wk.pc = "spawning"
  BY <1>1, <1>3 DEF Becomes, WorkerType, Running, Starting, Serving
<1>5. Begun' /\ Extends
  BY <1>1, <1>2, <1>4, ExtendsStill DEF Ordered, Begun
<1>6. cl'.seq >= cl.seq /\ (wk.id # Nothing /\ wk'.pc # wk.pc => wk'.pc \in {"killed", "gone"})
  BY <1>1, <1>4 DEF Kept, Ordered, Worked
<1> QED
  BY <1>1, <1>2, <1>4, <1>5, <1>6, OrderedStays

LEMMA RestOrdered ==
  ASSUME Typed, Typed', Ordered, ProcessBegins \/ KioskDies \/ UNCHANGED vars
  PROVE  Ordered'
<1>1. /\ PipesTyped /\ wk \in WorkerType /\ UNCHANGED clientVars /\ Gives /\ UNCHANGED cl
      /\ cl.seq \in Nat /\ UNCHANGED <<toWorker, toClient, served>>
      /\ UNCHANGED wk \/ (wk.pc = "spawning" /\ Becomes("started"))
  BY IdleOK, IdsNat DEF Typed, ClientOK, Sane, WkTyped, ProcessBegins, KioskDies, vars, workerVars,
     clientVars
<1>2. wk'.id = wk.id /\ (wk'.pc # wk.pc => wk.pc = "spawning")
  BY <1>1 DEF Becomes, WorkerType
<1>3. Begun' /\ Extends
  BY <1>1, <1>2, ExtendsStill DEF Ordered, Begun
<1>4. wk.id # Nothing /\ wk'.pc # wk.pc => wk'.pc \in {"killed", "gone"}
  BY <1>2 DEF Ordered, Worked
<1> QED
  BY <1>1, <1>2, <1>3, <1>4, OrderedStays

LEMMA NextOrdered ==
  ASSUME Typed, Typed', Ordered, [Next]_vars
  PROVE  Ordered'
<1>1. CASE ProcessBegins \/ KioskDies \/ UNCHANGED vars
  BY <1>1, RestOrdered
<1>2. CASE (Result \/ AnalysisFails) /\ UNCHANGED clientVars
  <2>1. PICK type \in Answers : Answer(type) /\ wk.pc = "analyze"
    BY <1>2 DEF Result, AnalysisFails, Answers, At
  <2> QED
    BY <1>2, <2>1, OrderedAnswer
<1>3. CASE (ReadAnalyze \/ ReadShutdown) /\ UNCHANGED clientVars
  BY <1>3, OrderedRead
<1>4. CASE Moves /\ UNCHANGED clientVars
  BY <1>4, MovesOrdered
<1>5. CASE Waiting
  BY <1>5, WaitingOrdered
<1> QED
  BY <1>1, <1>2, <1>3, <1>4, <1>5, StartOrdered, AnalyzeOrdered, ShutdownOrdered, OrderedLine
     DEF Next, Commands, Continuations, Environment, WorkerStep, Moves, Waiting

LEMMA InitOrdered ==
  Init => Ordered
<1> SUFFICES ASSUME Init PROVE Ordered
  OBVIOUS
<1>1. PICK p \in Profiles : wk = NoWorker(p)
  BY DEF Init, WorkerInit
<1>2. wk.pc = "absent" /\ wk.id = Nothing
  BY <1>1 DEF NoWorker
<1>3. /\ toWorker = <<>> /\ toClient = <<>> /\ served = [i \in Ids |-> "nothing"]
      /\ outcome = [i \in Ids |-> "unused"]
  BY DEF Init, WorkerInit
<1>4. Queue = {} /\ Lines = {} /\ Pending = {}
  BY <1>3 DEF Queue, Lines, Pending
<1> QED
  BY <1>2, <1>3, <1>4 DEF Ordered, Begun, Issued, Queued, QueueOrdered, Worked, Answered,
     AnswersOrdered, AllAccounted

LEMMA AlwaysOrdered == SafeSpec => [](Typed /\ Ordered)
<1>1. Init => Typed /\ Ordered
  BY InitTyped, InitOrdered
<1>2. Typed /\ Ordered /\ [Next]_vars => (Typed /\ Ordered)'
  BY NextTyped, NextOrdered
<1> QED
  BY <1>1, <1>2, PTL DEF SafeSpec

-----------------------------------------------------------------------------
(* The promise of WorkerRequests.                                          *)

Promised == [Requested!Next]_(Requested!vars)

\* A step that answers nothing is a stutter, or gives every request up.
LEMMA GivesPromised ==
  ASSUME ClientOK, ClientOK', Gives, UNCHANGED served
  PROVE  Promised
<1> DEFINE given == [i \in Ids |-> IF outcome[i] = "pending" THEN "failed" ELSE outcome[i]]
<1>1. outcome \in [Ids -> Outcomes] /\ outcome' \in [Ids -> Outcomes]
  BY DEF ClientOK, AnswersTyped
<1>2. CASE Ended' <=> Ended
  <2>1. Pending = {} => (FailPending => UNCHANGED outcome)
    BY <1>1 DEF FailPending, Pending
  <2>2. UNCHANGED outcome
    BY <1>2, <2>1 DEF Gives, ClientOK, Waits
  <2> QED
    BY <1>2, <2>2 DEF Promised, Requested!vars, Ended
<1>3. CASE Ended' /\ ~Ended
  <2>1. Pending' = {}
    BY <1>3 DEF ClientOK, Waits
  <2>2. UNCHANGED outcome => outcome' = given
    BY <1>1, <2>1 DEF Pending
  <2>3. outcome' = given
    BY <2>2 DEF Gives, FailPending
  <2>4. Requested!GiveUp
    BY <1>3, <2>3 DEF Requested!GiveUp, Ended
  <2> QED
    BY <2>4 DEF Promised, Requested!Next
<1> QED
  BY <1>2, <1>3 DEF Gives

LEMMA AnalyzePromised ==
  ASSUME Typed, Ordered, Analyze
  PROVE  Promised
<1> DEFINE id == cl.seq + 1
<1>1. /\ ClientOK /\ Sane(cl) /\ cl \in ClientType /\ cl.status = "ready" /\ ~cl.shutting
      /\ cl.seq \in Nat /\ UNCHANGED served
  BY IdsNat DEF Typed, ClientOK, Sane, Analyze
<1>2. /\ id \in Ids /\ cl' = [cl EXCEPT !.seq = id]
      /\ outcome' = [outcome EXCEPT ![id] = "pending"]
  BY <1>1, AnalyzeOK
<1>3. cl'.status = "ready" /\ cl'.sd = cl.sd /\ cl.sd = "idle"
  BY <1>1, <1>2 DEF ClientType, Sane
<1>4. outcome[id] = "unused"
  BY <1>1, <1>2 DEF Ordered, Issued
<1> HIDE DEF id
<1>5. Requested!Submit(id)
  BY <1>1, <1>2, <1>3, <1>4 DEF Requested!Submit
<1> QED
  BY <1>2, <1>5 DEF Promised, Requested!Next

\* The first answer in the pipe is for the oldest request that waits.
LEMMA FirstIsOldest ==
  ASSUME Typed, Ordered, Live, toClient # <<>>, Head(toClient).type \in Answers
  PROVE  /\ Head(toClient).id \in Ids /\ served[Head(toClient).id] = Head(toClient).type
         /\ \A j \in Pending : j >= Head(toClient).id
<1> DEFINE e == Head(toClient)
<1>1. 1 \in Lines /\ toClient[1] = e /\ \A k \in Lines : k # 1 => 1 < k
  BY TailLines DEF Lines, Typed, PipesTyped
<1> HIDE DEF e
<1>2. IsAnswer(1)
  BY <1>1 DEF IsAnswer, e
<1>3. /\ e.id \in Ids /\ served[e.id] = e.type /\ (wk.id # Nothing => e.id < wk.id)
      /\ \A l \in Queue : e.id < toWorker[l].id
  BY <1>1, <1>2 DEF Ordered, Answered
<1>4. \A i \in Ids : i \in Nat /\ i # Nothing
  BY IdsNat, Constants
<1>5. ASSUME NEW j \in Pending PROVE j >= e.id
  <2>1. Accounted(j) /\ j \in Ids
    BY DEF Ordered, AllAccounted, Pending
  <2>2. CASE wk.id = j \/ \E k \in Queue : toWorker[k].id = j
    BY <1>3, <1>4, <2>1, <2>2
  <2>3. CASE \E k \in Lines : IsAnswer(k) /\ toClient[k].id = j
    BY <1>1, <1>2, <1>3, <1>4, <2>1, <2>3 DEF Ordered, AnswersOrdered
  <2>4. CASE Refused(j)
    <3>1. PICK k \in Lines : \A l \in 1..k : IsAnswer(l) => toClient[l].id < j
      BY <2>4 DEF Refused
    <3>2. 1 \in 1..k
      BY DEF Lines
    <3> QED
      BY <1>1, <1>2, <1>3, <1>4, <2>1, <3>1, <3>2
  <2> QED
    BY <2>1, <2>2, <2>3, <2>4 DEF Accounted
<1> QED
  BY <1>3, <1>5 DEF e

LEMMA LinePromised ==
  ASSUME Typed, Typed', Ordered, OnStdoutLine
  PROVE  Promised
<1> DEFINE e == Head(toClient)
<1>1. /\ ClientOK /\ ClientOK' /\ UNCHANGED served /\ toClient # <<>>
      /\ HandledOK(e) \/ UNCHANGED clientVars
      /\ ~Live => UNCHANGED clientVars
  BY OnStdoutLineOK DEF Typed, OnStdoutLine, Live
<1>2. CASE UNCHANGED clientVars
  BY <1>1, <1>2, IdleOK, GivesPromised
<1>3. CASE Gives
  BY <1>1, <1>3, GivesPromised
<1>4. CASE Live /\ Answers1(e)
  <2>1. /\ e.type \in Answers /\ outcome[e.id] = "pending" /\ UNCHANGED cl
        /\ outcome' = [outcome EXCEPT ![e.id] = e.type]
    BY <1>4 DEF Answers1
  <2>2. /\ e.id \in Ids /\ served[e.id] = e.type /\ \A j \in Pending : j >= e.id
    BY <1>1, <1>4, <2>1, FirstIsOldest
  <2> HIDE DEF e
  <2>3. ~Ended
    BY <1>1, <2>1, <2>2 DEF ClientOK, Waits, Pending
  <2>4. \A j \in Ids : j < e.id => outcome[j] # "pending"
    BY <2>2, IdsNat DEF Pending
  <2>5. Requested!Answer(e.id)
    BY <1>1, <2>1, <2>2, <2>3, <2>4 DEF Requested!Answer, Requested!Answers, Answers, Ended
  <2> QED
    BY <2>2, <2>5 DEF Promised, Requested!Next
<1> QED
  BY <1>1, <1>2, <1>3, <1>4 DEF HandledOK

LEMMA WorkPromised ==
  ASSUME Typed, Ordered, Result \/ AnalysisFails, UNCHANGED clientVars
  PROVE  Promised
<1>1. PICK type \in Answers : Answer(type) /\ wk.pc = "analyze"
  BY DEF Result, AnalysisFails, Answers, At
<1>2. /\ wk.id \in Ids /\ outcome[wk.id] # "unused" /\ served[wk.id] = "nothing"
      /\ served' = [served EXCEPT ![wk.id] = type]
  BY <1>1, Constants DEF Typed, WkTyped, Ordered, Worked, Answer
<1>3. Requested!Work(wk.id)
  BY <1>2 DEF Requested!Work, Requested!Answers, Answers, clientVars
<1> QED
  BY <1>2, <1>3 DEF Promised, Requested!Next

LEMMA NextPromised ==
  ASSUME Typed, Typed', Ordered, [Next]_vars
  PROVE  Promised
<1>0. ClientOK /\ ClientOK'
  BY DEF Typed
<1>1. CASE UNCHANGED <<clientVars, served>>
  BY <1>0, <1>1, IdleOK, GivesPromised
<1>2. CASE Waiting
  <2>1. UNCHANGED served
    BY <1>2 DEF Waiting, SpawnFails, Own, CancelTimeout, OwnerTimeout, OnProcessExit,
       ShutdownTimeout, KillTimeout, workerVars
  <2> QED
    BY <1>0, <1>2, <2>1, WaitingOK, GivesPromised
<1>3. CASE Start \/ Shutdown
  <2>1. UNCHANGED served
    BY <1>3 DEF Start, Shutdown
  <2> QED
    BY <1>0, <1>3, <2>1, StartOK, ShutdownOK, GivesPromised
<1>4. CASE ProcessBegins \/ KioskDies \/ UNCHANGED vars
  BY <1>1, <1>4 DEF ProcessBegins, KioskDies, vars, workerVars
<1>5. CASE (Moves \/ ReadAnalyze \/ ReadShutdown) /\ UNCHANGED clientVars
  BY <1>1, <1>5, MovesKeepId DEF ReadAnalyze, ReadShutdown
<1>6. CASE (Result \/ AnalysisFails) /\ UNCHANGED clientVars
  BY <1>6, WorkPromised
<1> QED
  BY <1>2, <1>3, <1>4, <1>5, <1>6, AnalyzePromised, LinePromised
     DEF Next, Commands, Continuations, Environment, WorkerStep, Moves, Waiting

\* The client, the two pipes and the worker keep the promise of WorkerRequests:
\* a request is worked on once and answered once, in the order of submission and
\* with what the worker said of it, or is given up with all that are open;
\* whatever crashes, hangs, is killed or loses an image.
THEOREM WorkerImplementsRequests == SafeSpec => ImplementsRequests
<1>1. Init => Requested!Init
  BY DEF Init, WorkerInit, NewClient, Requested!Init
<1>2. Typed /\ Ordered /\ Typed' /\ [Next]_vars => [Requested!Next]_(Requested!vars)
  BY NextPromised DEF Promised
<1>3. SafeSpec => Requested!Init /\ [][Requested!Next]_(Requested!vars)
  BY <1>1, <1>2, AlwaysOrdered, PTL DEF SafeSpec
<1> QED
  BY <1>3 DEF ImplementsRequests, Requested!Spec
=============================================================================
