---------------------------- MODULE CameraWorker ----------------------------
(***************************************************************************)
(* The Python process that recognises bread: camera_worker.serve over the  *)
(* runtime of camera_runtime, started by run_camera_inference_worker.  It   *)
(* reads requests from its standard input and writes events to its          *)
(* standard output, one JSON object a line; toWorker and toClient are those *)
(* two pipes.                                                              *)
(*                                                                         *)
(* The profile is that of the command line: "candidate" is the RTX 5080     *)
(* pipeline, which must be admitted and has no fallback, "legacy" the       *)
(* detector and classifier that run on CUDA or else on the CPU.             *)
(***************************************************************************)
EXTENDS Naturals, Sequences

CONSTANTS MaxRequests, MaxFaults, Nothing

ASSUME WorkerBounds == /\ MaxRequests \in Nat \ {0} /\ MaxFaults \in Nat

VARIABLES wk,        \* the worker process
          toWorker,  \* request lines it has not read
          toClient,  \* event lines the client has not read
          served,    \* history: what the worker answered to each request
          missing,   \* requests whose image is no longer on disk
          kiosk,     \* whether the kiosk, which holds the pipes, still runs
          faults

workerVars == <<wk, toWorker, toClient, served, missing, kiosk, faults>>

\* identifiers are drawn from one sequence; the last is for a shutdown
Ids == 1..(MaxRequests + 1)

Phases == {"detecting", "classifying", "rechecking", "aggregating"}

ASSUME NothingElse == Nothing \notin Ids /\ Nothing \notin Phases

Modes == {"candidate", "gpu_fast_verified", "gpu_reference", "cpu_reference"}
Devices == {"cuda:0", "cpu"}

LEGAL_NEXT_PHASES ==
  {<<Nothing, "detecting">>, <<"detecting", "classifying">>,
   <<"classifying", "rechecking">>, <<"classifying", "aggregating">>,
   <<"rechecking", "aggregating">>}

Requests == [type : {"analyze", "shutdown"}, id : Ids]
Events ==
  [type : {"loading", "warming", "admission_failed", "initialization_failed",
           "invalid_request"}]
    \cup [type : {"ready"}, device : Devices, mode : Modes]
    \cup [type : {"progress"}, id : Ids, phase : Phases]
    \cup [type : {"result", "analysis_failed", "stopped"}, id : Ids \cup {Nothing}]

Starting == {"started", "select", "load", "warm", "announce"}
Serving == {"idle", "analyze", "close"}
Running == Starting \cup Serving

Profiles == {"candidate", "legacy"}

NoWorker(profile) ==
  [pc |-> "absent", profile |-> profile, device |-> "cpu", mode |-> "cpu_reference",
   warmed |-> FALSE, id |-> Nothing, phase |-> Nothing, stop |-> Nothing,
   hung |-> FALSE]

WorkerInit ==
  /\ wk \in {NoWorker(p) : p \in Profiles} /\ toWorker = <<>> /\ toClient = <<>>
  /\ served = [i \in Ids |-> "nothing"] /\ missing = {}
  /\ kiosk = "up" /\ faults = 0

Fault == faults < MaxFaults /\ faults' = faults + 1

At(pc) == wk.pc = pc /\ ~wk.hung
Emit(e) == toClient' = Append(toClient, e)
Becomes(pc) == wk' = [wk EXCEPT !.pc = pc]

-----------------------------------------------------------------------------
(* Start.                                                                  *)

\* main refuses its arguments, its checkout or its identity: no event is written
RejectLaunch ==
  /\ At("started") /\ Becomes("gone")
  /\ UNCHANGED <<toWorker, toClient, served, missing, kiosk, faults>>

BeginServe ==
  /\ At("started") /\ Becomes("select") /\ Emit([type |-> "loading"])
  /\ UNCHANGED <<toWorker, served, missing, kiosk, faults>>

\* the process reports why it cannot serve, and ends
Fatal(code) == Becomes("gone") /\ Emit([type |-> code])

\* select_candidate_runtime: whatever fails, no other runtime is tried
SelectCandidate ==
  /\ At("select") /\ wk.profile = "candidate"
  /\ \/ /\ wk' = [wk EXCEPT !.pc = "announce", !.device = "cuda:0",
                            !.mode = "candidate"]
        /\ UNCHANGED toClient
     \/ Fatal("admission_failed")
  /\ UNCHANGED <<toWorker, served, missing, kiosk, faults>>

\* CameraInferenceRuntime.initialize, up to its first attempt
SelectLegacy ==
  /\ At("select") /\ wk.profile = "legacy"
  /\ \/ /\ \E mode \in {"gpu_fast_verified", "gpu_reference"} :
             wk' = [wk EXCEPT !.pc = "load", !.device = "cuda:0", !.mode = mode]
        /\ UNCHANGED toClient
     \/ /\ wk' = [wk EXCEPT !.pc = "load", !.device = "cpu", !.mode = "cpu_reference"]
        /\ UNCHANGED toClient
     \/ Fatal("initialization_failed")
  /\ UNCHANGED <<toWorker, served, missing, kiosk, faults>>

\* mutation: the admission of the failed attempt is kept
KeepsAdmission ==
  IF wk.device = "cuda:0"
    THEN wk' = [wk EXCEPT !.pc = "load", !.device = "cpu"] /\ UNCHANGED toClient
    ELSE Fatal("initialization_failed")

\* a failed attempt is followed by one on the CPU, or is the last
FallBack ==
  IF wk.device = "cuda:0"
    THEN /\ wk' = [wk EXCEPT !.pc = "load", !.device = "cpu",
                             !.mode = "cpu_reference"]
         /\ UNCHANGED toClient
    ELSE Fatal("initialization_failed")

\* mutation: every attempt announces that it is warming up
WarmsAgain == Emit([type |-> "warming"])

\* emit_startup writes each startup event once
EmitWarming ==
  IF wk.warmed THEN UNCHANGED toClient ELSE Emit([type |-> "warming"])

Load ==
  /\ At("load")
  /\ \/ wk' = [wk EXCEPT !.pc = "warm", !.warmed = TRUE] /\ EmitWarming
     \/ FallBack
  /\ UNCHANGED <<toWorker, served, missing, kiosk, faults>>

Warm ==
  /\ At("warm")
  /\ \/ Becomes("announce") /\ UNCHANGED toClient
     \/ FallBack
  /\ UNCHANGED <<toWorker, served, missing, kiosk, faults>>

\* the startup events and the ready event; the warming of a candidate is announced here
Announce ==
  /\ At("announce")
  /\ LET ready == [type |-> "ready", device |-> wk.device, mode |-> wk.mode]
         warming == IF wk.warmed THEN <<>> ELSE <<[type |-> "warming"]>>
     IN  \/ /\ wk' = [wk EXCEPT !.pc = "idle", !.warmed = TRUE]
            /\ toClient' = toClient \o warming \o <<ready>>
         \/ /\ Becomes("gone")
            /\ toClient' = toClient \o warming
                             \o <<[type |-> "initialization_failed"]>>
  /\ UNCHANGED <<toWorker, served, missing, kiosk, faults>>

-----------------------------------------------------------------------------
(* The loop of serve.                                                      *)

\* an analysis, whose image parse_request looks for on disk
ReadAnalyze ==
  /\ At("idle") /\ toWorker # <<>> /\ Head(toWorker).type = "analyze"
  /\ toWorker' = Tail(toWorker)
  /\ IF Head(toWorker).id \in missing
       THEN Emit([type |-> "invalid_request"]) /\ UNCHANGED wk
       ELSE /\ wk' = [wk EXCEPT !.pc = "analyze", !.id = Head(toWorker).id,
                                !.phase = Nothing]
            /\ UNCHANGED toClient
  /\ UNCHANGED <<served, missing, kiosk, faults>>

ReadShutdown ==
  /\ At("idle") /\ toWorker # <<>> /\ Head(toWorker).type = "shutdown"
  /\ toWorker' = Tail(toWorker)
  /\ wk' = [wk EXCEPT !.pc = "close", !.stop = Head(toWorker).id]
  /\ UNCHANGED <<toClient, served, missing, kiosk, faults>>

\* nobody holds the other end of standard input any more
ReadEnd ==
  /\ At("idle") /\ toWorker = <<>> /\ kiosk = "down" /\ Becomes("close")
  /\ UNCHANGED <<toWorker, toClient, served, missing, kiosk, faults>>

\* on_progress of _serve_analysis, as the stages of analyze call it
Progress ==
  /\ At("analyze")
  /\ \E phase \in Phases :
       /\ <<wk.phase, phase>> \in LEGAL_NEXT_PHASES
       /\ wk' = [wk EXCEPT !.phase = phase]
       /\ Emit([type |-> "progress", id |-> wk.id, phase |-> phase])
  /\ UNCHANGED <<toWorker, served, missing, kiosk, faults>>

Answer(type) ==
  /\ wk' = [wk EXCEPT !.pc = "idle", !.id = Nothing]
  /\ Emit([type |-> type, id |-> wk.id])
  /\ served' = [served EXCEPT ![wk.id] = type]
  /\ UNCHANGED <<toWorker, missing, kiosk, faults>>

\* a result needs the terminal progress and must validate
Result == At("analyze") /\ wk.phase = "aggregating" /\ Answer("result")
AnalysisFails == At("analyze") /\ Answer("analysis_failed")

CloseRuntime ==
  /\ At("close") /\ Becomes("gone") /\ Emit([type |-> "stopped", id |-> wk.stop])
  /\ UNCHANGED <<toWorker, served, missing, kiosk, faults>>

\* writing to a pipe nobody reads ends the process, whatever it was doing
BrokenPipe ==
  /\ kiosk = "down" /\ wk.pc \in Running /\ ~wk.hung /\ Becomes("gone")
  /\ UNCHANGED <<toWorker, toClient, served, missing, kiosk, faults>>

-----------------------------------------------------------------------------
(* What may happen to it.                                                  *)

Crash ==
  /\ Fault /\ wk.pc \in Running /\ Becomes("gone")
  /\ UNCHANGED <<toWorker, toClient, served, missing, kiosk>>

\* a native call that does not return
Hang ==
  /\ Fault /\ wk.pc \in Running /\ ~wk.hung /\ wk' = [wk EXCEPT !.hung = TRUE]
  /\ UNCHANGED <<toWorker, toClient, served, missing, kiosk>>

\* a killed process ends, hung or not
Die ==
  /\ wk.pc = "killed" /\ Becomes("gone")
  /\ UNCHANGED <<toWorker, toClient, served, missing, kiosk, faults>>

LoseImage ==
  /\ Fault /\ \E i \in 1..MaxRequests \ missing : missing' = missing \cup {i}
  /\ UNCHANGED <<wk, toWorker, toClient, served, kiosk>>

WorkerStep ==
  \/ RejectLaunch \/ BeginServe \/ SelectCandidate \/ SelectLegacy
  \/ Load \/ Warm \/ Announce
  \/ ReadAnalyze \/ ReadShutdown \/ ReadEnd
  \/ Progress \/ Result \/ AnalysisFails \/ CloseRuntime \/ BrokenPipe

WorkerFault == Crash \/ Hang \/ LoseImage

-----------------------------------------------------------------------------
WorkerType ==
  [pc : Running \cup {"absent", "spawning", "killed", "gone"},
   profile : Profiles, device : Devices, mode : Modes, warmed : BOOLEAN, id : Ids \cup {Nothing},
   phase : Phases \cup {Nothing}, stop : Ids \cup {Nothing}, hung : BOOLEAN]

WorkerTypeOK ==
  /\ wk \in WorkerType
  /\ toWorker \in Seq(Requests) /\ toClient \in Seq(Events)
  /\ served \in [Ids -> {"nothing", "result", "analysis_failed"}]
  /\ missing \subseteq Ids
  /\ kiosk \in {"up", "down"} /\ faults \in 0..MaxFaults
  /\ wk.pc = "analyze" => wk.id \in Ids
=============================================================================
