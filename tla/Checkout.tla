------------------------------ MODULE Checkout ------------------------------
(***************************************************************************)
(* The customer checkout: CheckoutController, the scanner session it       *)
(* drives, and the audit store (AuditStore) it writes through.             *)
(*                                                                         *)
(* The controller is single-threaded Dart: a call runs to its first await, *)
(* and whatever else is pending may run before it resumes.  A slot of task *)
(* holds one asynchronous call that has not returned; pc names the await   *)
(* it is suspended at.  A command action (Scan, Pay, ...) is the           *)
(* synchronous prefix of a call; a step of a slot is what the awaited      *)
(* operation does, together with the code that runs when it returns.  Any  *)
(* pending slot may move next, and a command may arrive between any two    *)
(* steps.  An external operation may fail while the fault budget lasts.    *)
(***************************************************************************)
EXTENDS AuditStore

CONSTANTS
  Slots,      \* bound: asynchronous calls in flight at once
  MaxManual,  \* bound: units of one product added by hand
  MaxFaults,  \* bound: failed external operations, device losses, crashes
  Nothing     \* null

ASSUME CheckoutBounds ==
  /\ MaxManual \in Nat /\ MaxFaults \in Nat /\ IsFiniteSet(Objects)
  /\ MaxQuantity >= Cardinality(Objects) + MaxManual
  /\ Nothing \notin Sessions \cup Results

VARIABLES
  view,       \* CheckoutState: phase, failure code, drafts and lines
  ctl,        \* the private fields of the controller
  recs,       \* _ScanRecovery of each scan of this process
  sc,         \* ScannerState: camera, worker, current capture and result
  task,       \* pending asynchronous calls
  mode,       \* AppMode: the customer or the administrator surface
  faults,     \* failures so far
  confirmed   \* history: the orders the customer pressed pay on

checkoutVars == <<view, ctl, recs, sc, task, mode, faults, confirmed>>
vars == <<storeVars, checkoutVars>>

Phases == {"ready", "analyzing", "retakeRequired", "customerReview",
           "orderReview", "paying", "paymentComplete", "recoverableFailure",
           "terminalFailure"}

NoDrafts == [o \in Objects |-> Absent]
NoManual == [p \in Products |-> 0]

\* _emptyState and _failureState
Blank(phase, code) ==
  [phase |-> phase, code |-> code, scan |-> Nothing, drafts |-> NoDrafts,
   lines |-> NoLines]

FreshScanner ==
  [analyzing |-> FALSE, failed |-> FALSE, photo |-> FALSE, result |-> Nothing,
   worker |-> "off", camera |-> "off"]

FreshController ==
  [session |-> Nothing, active |-> FALSE, attempt |-> 0, failed |-> 0,
   manual |-> FALSE, explicit |-> {}, added |-> NoManual, frozen |-> Nothing,
   rec |-> Nothing, starting |-> FALSE, initialized |-> FALSE,
   recovered |-> FALSE, closed |-> FALSE]

FreshRecovery ==
  [staged |-> FALSE, result |-> Nothing, receipt |-> FALSE, completed |-> FALSE]

CheckoutInit ==
  /\ StoreInit
  /\ view = Blank("ready", "none")
  /\ ctl = FreshController
  /\ recs = [s \in Sessions |-> [n \in Attempts |-> FreshRecovery]]
  /\ sc = FreshScanner
  /\ task = [t \in Slots |-> Nothing]
  /\ mode = "customer"
  /\ faults = 0
  /\ confirmed = [s \in Sessions |-> {}]

-----------------------------------------------------------------------------
(* Helpers.                                                                *)

\* _replaceState: a closed controller publishes nothing
Show(v) == view' = IF ctl.closed THEN view ELSE v

Set(field, value) == ctl' = [ctl EXCEPT ![field] = value]
Call(op, pc) ==
  [op |-> op, pc |-> pc, s |-> ctl.session, n |-> 0, stale |-> FALSE,
   o |-> Nothing, p |-> Nothing, view |-> Blank("ready", "none")]
Spawn(t, call) == task[t] = Nothing /\ task' = [task EXCEPT ![t] = call]
Goto(t, pc) == task' = [task EXCEPT ![t].pc = pc]
Return(t) == task' = [task EXCEPT ![t] = Nothing]
At(t, pc) == task[t] # Nothing /\ task[t].pc = pc

\* ++_scanGeneration: the scans in flight no longer match it
Cancelled(tasks) ==
  [t \in Slots |->
     IF tasks[t] # Nothing /\ tasks[t].op = "scan"
       THEN [tasks[t] EXCEPT !.stale = TRUE] ELSE tasks[t]]

Fault == faults < MaxFaults /\ faults' = faults + 1

\* A transaction throws: its guard is false, or the database fails.
Throws(can) == UNCHANGED storeVars /\ IF can THEN Fault ELSE UNCHANGED faults

\* An awaited operation outside the database completes, or fails.
Works == UNCHANGED <<storeVars, faults>>
Breaks == UNCHANGED storeVars /\ Fault

Open == ctl.initialized /\ ~ctl.closed
Customer(phases) == Open /\ mode = "customer" /\ view.phase \in phases

Resolved(drafts) == \A o \in Objects : drafts[o] # Unknown
Units(drafts, p) == Cardinality({o \in Objects : drafts[o] = p})

\* _linesFor: resolved objects plus the units added by hand
LinesFor(drafts, added) ==
  [p \in Products |-> Units(drafts, p) + added[p]]

\* what the scan behind these drafts recognised object o as
Recognised(scan, o) == recs[scan[1]][scan[2]].result.object[o]

\* InferenceCheckoutMapper.map, published by _completeAndPresent
Mapped(scan, r) ==
  IF ~r.usable THEN Blank("retakeRequired", "needs_retake")
  ELSE [phase |-> IF Resolved(r.object) THEN "orderReview" ELSE "customerReview",
        code |-> "none", scan |-> scan, drafts |-> r.object,
        lines |-> LinesFor(r.object, NoManual)]

OneMoreFailure == IF ctl.failed > RetryLimit THEN ctl.failed ELSE ctl.failed + 1

ManualCartEligible ==
  view.phase = "retakeRequired" /\ ctl.failed > RetryLimit

-----------------------------------------------------------------------------
(* Session start: initialize, startNextCustomer, startFreshCustomerSession. *)

Initialize(t) ==
  /\ ~ctl.initialized /\ ~ctl.closed
  /\ ctl' = [ctl EXCEPT !.initialized = TRUE, !.starting = TRUE]
  /\ Spawn(t, Call("initialize", "recover"))
  /\ UNCHANGED <<storeVars, view, recs, sc, mode, faults, confirmed>>

StartSession(t, op) ==
  /\ Open /\ ~ctl.starting
  /\ IF op = "next"
       THEN Customer({"paymentComplete", "terminalFailure"})
       ELSE mode = "admin" /\ view.phase # "paying"
  /\ Set("starting", TRUE)
  /\ Spawn(t, Call(op, IF ctl.active THEN "abandonOld" ELSE "reset"))
  /\ UNCHANGED <<storeVars, view, recs, sc, mode, faults, confirmed>>

StartNextCustomer(t) == StartSession(t, "next")
StartFreshCustomerSession(t) == StartSession(t, "fresh")

RecoverAtStartup(t) ==
  /\ At(t, "recover")
  /\ \/ RecoverInterruptedCheckout /\ Set("recovered", TRUE)
        /\ Goto(t, "catalog") /\ UNCHANGED faults
     \/ Breaks /\ Goto(t, "terminalize") /\ UNCHANGED ctl
  /\ UNCHANGED <<view, recs, sc, mode, confirmed>>

AbandonOld(t) ==
  /\ At(t, "abandonOld")
  /\ \/ AbandonSession(ctl.session) /\ Set("active", FALSE)
        /\ Goto(t, "reset") /\ UNCHANGED faults
     \/ Throws(CanAbandonSession(ctl.session)) /\ Goto(t, "terminalize")
        /\ UNCHANGED ctl
  /\ UNCHANGED <<view, recs, sc, mode, confirmed>>

\* ScannerController.resetCapture, for a new session or a retake
ResetCapture(t) ==
  /\ At(t, "reset")
  /\ LET retake == task[t].op \in {"retake", "restart"} IN
     \/ /\ ~sc.analyzing /\ Works
        /\ sc' = [sc EXCEPT !.failed = FALSE, !.photo = FALSE, !.result = Nothing]
        /\ IF retake THEN Show(Blank("ready", "none")) /\ Return(t)
                     ELSE Goto(t, "catalog") /\ UNCHANGED view
     \/ /\ IF sc.analyzing THEN Works ELSE sc.photo /\ Breaks
        /\ IF retake THEN Return(t) ELSE Goto(t, "terminalize")
        /\ UNCHANGED <<view, sc>>
  /\ UNCHANGED <<ctl, recs, mode, confirmed>>

ReadCatalog(t) ==
  /\ At(t, "catalog")
  /\ \/ Works /\ Goto(t, IF ctl.closed \/ ctl.active THEN "terminalize" ELSE "begin")
     \/ Breaks /\ Goto(t, "terminalize")
  /\ UNCHANGED <<view, ctl, recs, sc, mode, confirmed>>

BeginCheckout(t) ==
  /\ At(t, "begin")
  /\ \/ \E s \in Sessions :
          /\ BeginSession(s) /\ UNCHANGED faults
          /\ ctl' = [ctl EXCEPT !.session = s, !.active = TRUE]
          /\ Goto(t, "settings")
     \/ /\ IF \E s \in Sessions : CanBeginSession(s) THEN Breaks
           ELSE Works  \* bound: without an unused id beginSession fails
        /\ Goto(t, "terminalize") /\ UNCHANGED ctl
  /\ UNCHANGED <<view, recs, sc, mode, confirmed>>

\* publish ready and release the start reservation
Opened(t) ==
  /\ Show(Blank("ready", "none"))
  /\ Return(t)
  /\ mode' = IF task[t].op = "fresh" THEN "customer" ELSE mode

\* mutation: the manual cart of the last session is not forgotten
KeepsManualCart(t) ==
  [FreshController EXCEPT !.session = ctl.session, !.active = ctl.active,
     !.initialized = TRUE, !.recovered = ctl.recovered, !.closed = ctl.closed,
     !.manual = ctl.manual, !.starting = (task[t].op = "initialize")]

\* the fields _beginSession resets for the new session
ForNewSession(t) ==
  [FreshController EXCEPT !.session = ctl.session, !.active = ctl.active,
     !.initialized = TRUE, !.recovered = ctl.recovered, !.closed = ctl.closed,
     !.starting = (task[t].op = "initialize")]

ReadSettings(t) ==
  /\ At(t, "settings")
  /\ \/ /\ Works /\ ctl' = ForNewSession(t)
        /\ IF task[t].op = "initialize"
             THEN Goto(t, "scanner") /\ UNCHANGED <<view, mode>>
             ELSE Opened(t)
     \/ Breaks /\ Goto(t, "terminalize") /\ UNCHANGED <<view, ctl, mode>>
  /\ UNCHANGED <<recs, sc, confirmed>>

StartScanner(t) ==
  /\ At(t, "scanner")
  /\ \/ /\ Works
        /\ sc' = [sc EXCEPT !.worker = "ready", !.camera = "ready"]
        /\ Opened(t) /\ Set("starting", FALSE)
     \/ /\ Breaks /\ Goto(t, "abandonStartup") /\ UNCHANGED <<view, ctl, mode>>
        /\ \/ sc' = [sc EXCEPT !.worker = "fatal", !.camera = "ready"]
           \/ sc' = [sc EXCEPT !.worker = "ready", !.camera = "lost"]
  /\ UNCHANGED <<recs, confirmed>>

AbandonStartup(t) ==
  /\ At(t, "abandonStartup")
  /\ \/ /\ AbandonSession(ctl.session) /\ UNCHANGED faults
        /\ ctl' = [ctl EXCEPT !.active = FALSE, !.starting = FALSE]
        /\ Show(Blank("terminalFailure", "scanner_startup")) /\ Return(t)
     \/ Throws(CanAbandonSession(ctl.session)) /\ Goto(t, "terminalize")
        /\ UNCHANGED <<view, ctl>>
  /\ UNCHANGED <<recs, sc, mode, confirmed>>

\* mutation: the reservation is not released when a start fails
KeepsReservation(t) ==
  /\ At(t, "terminalize")
  /\ \/ ~ctl.active /\ Works /\ UNCHANGED ctl
     \/ ctl.active /\ AbandonSession(ctl.session) /\ Set("active", FALSE)
        /\ UNCHANGED faults
  /\ Show(Blank("terminalFailure", "session_start")) /\ Return(t)
  /\ UNCHANGED <<recs, sc, mode, confirmed>>

\* _terminalizeSessionStartFailure: a failure to abandon is swallowed
TerminalizeStart(t) ==
  /\ At(t, "terminalize")
  /\ \/ ~ctl.active /\ Works /\ Set("starting", FALSE)
     \/ /\ ctl.active /\ AbandonSession(ctl.session) /\ UNCHANGED faults
        /\ ctl' = [ctl EXCEPT !.active = FALSE, !.starting = FALSE]
     \/ /\ ctl.active /\ Throws(CanAbandonSession(ctl.session))
        /\ Set("starting", FALSE)
  /\ Show(Blank("terminalFailure", "session_start")) /\ Return(t)
  /\ mode' = IF task[t].op = "fresh" THEN "customer" ELSE mode
  /\ UNCHANGED <<recs, sc, confirmed>>

SessionStartStep(t) ==
  \/ RecoverAtStartup(t) \/ AbandonOld(t) \/ ResetCapture(t) \/ ReadCatalog(t)
  \/ BeginCheckout(t) \/ ReadSettings(t) \/ StartScanner(t)
  \/ AbandonStartup(t) \/ TerminalizeStart(t)

-----------------------------------------------------------------------------
(* Scanning: scan, cancelScan, the scan branch of retryFailure, and the     *)
(* scanner's analyze and retryAnalysis that they await.                    *)

CanAnalyze ==
  sc.camera = "ready" /\ sc.worker = "ready" /\ ~sc.analyzing /\ ~sc.photo

Analyzing == [sc EXCEPT !.analyzing = TRUE, !.failed = FALSE, !.result = Nothing]

Scan(t) ==
  /\ Customer({"ready"}) /\ ctl.active
  /\ ctl.attempt < MaxAttempts  \* bound
  /\ LET n == ctl.attempt + 1
         call == [Call("scan", IF CanAnalyze THEN "capture" ELSE "catch")
                    EXCEPT !.n = n] IN
     /\ task[t] = Nothing
     /\ task' = [Cancelled(task) EXCEPT ![t] = call]
     /\ ctl' = [ctl EXCEPT !.attempt = n, !.rec = <<ctl.session, n>>]
  /\ Show(Blank("analyzing", "none"))
  /\ sc' = IF CanAnalyze THEN Analyzing ELSE sc
  /\ UNCHANGED <<storeVars, recs, mode, faults, confirmed>>

RetryScan(t) ==
  /\ Customer({"recoverableFailure"})
  /\ view.code = "audit_or_scan" /\ ctl.rec # Nothing
  /\ LET call(pc) ==
           [Call("retry", pc) EXCEPT !.s = ctl.rec[1], !.n = ctl.rec[2]] IN
     \/ /\ sc.result # Nothing
        /\ Show(Blank("analyzing", "none")) /\ Spawn(t, call("analyzed"))
        /\ UNCHANGED <<ctl, sc>>
     \/ /\ sc.result = Nothing /\ ~sc.photo /\ ~sc.analyzing
        /\ sc' = [sc EXCEPT !.failed = FALSE]
        /\ Set("rec", Nothing) /\ Show(Blank("ready", "none"))
        /\ UNCHANGED task
     \/ /\ sc.result = Nothing /\ ~sc.photo /\ sc.analyzing
        /\ Show(Blank("analyzing", "none")) /\ Spawn(t, call("catch"))
        /\ UNCHANGED <<ctl, sc>>
     \/ /\ sc.result = Nothing /\ sc.photo
        /\ Show(Blank("analyzing", "none")) /\ UNCHANGED ctl
        /\ IF sc.analyzing \/ ~sc.failed \/ sc.worker # "ready"
             THEN Spawn(t, call("catch")) /\ UNCHANGED sc
             ELSE /\ sc' = Analyzing
                  /\ Spawn(t, call(IF recs[ctl.rec[1]][ctl.rec[2]].staged
                                     THEN "infer" ELSE "retain"))
  /\ UNCHANGED <<storeVars, recs, mode, faults, confirmed>>

\* the catch of analyze and retryAnalysis: the failure is rethrown to the caller
ScannerFails(t) ==
  sc' = [sc EXCEPT !.analyzing = FALSE, !.failed = TRUE] /\ Goto(t, "catch")

\* captureStill and readImageSize; the photo may exist though its size is unread
Capture(t) ==
  /\ At(t, "capture")
  /\ \/ Works /\ sc' = [sc EXCEPT !.photo = TRUE] /\ Goto(t, "retain")
     \/ /\ Breaks /\ Goto(t, "catch")
        /\ \E taken \in BOOLEAN :
             sc' = [sc EXCEPT !.analyzing = FALSE, !.failed = TRUE, !.photo = taken]
  /\ UNCHANGED <<view, ctl, recs, mode, confirmed>>

RetainCapture(t) ==
  /\ At(t, "retain")
  /\ \/ Works /\ Goto(t, "stage") /\ UNCHANGED sc
     \/ Breaks /\ ScannerFails(t)
  /\ UNCHANGED <<view, ctl, recs, mode, confirmed>>

\* mutation: inference goes on although staging threw
StageUnawaited(t) ==
  /\ At(t, "stage") /\ Goto(t, "infer")
  /\ LET s == task[t].s  n == task[t].n IN
     \/ /\ StageAttempt(s, n) /\ UNCHANGED faults
        /\ recs' = [recs EXCEPT ![s][n].staged = TRUE]
     \/ Throws(CanStageAttempt(s, n)) /\ UNCHANGED recs
  /\ UNCHANGED <<view, ctl, sc, mode, confirmed>>

Stage(t) ==
  /\ At(t, "stage")
  /\ LET s == task[t].s  n == task[t].n IN
     \/ /\ StageAttempt(s, n) /\ UNCHANGED <<sc, faults>>
        /\ recs' = [recs EXCEPT ![s][n].staged = TRUE] /\ Goto(t, "infer")
     \/ Throws(CanStageAttempt(s, n)) /\ ScannerFails(t) /\ UNCHANGED recs
  /\ UNCHANGED <<view, ctl, mode, confirmed>>

Infer(t) ==
  /\ At(t, "infer")
  /\ \/ /\ sc.worker = "ready" /\ Works /\ Goto(t, "analyzed")
        /\ \E r \in Results :
             sc' = [sc EXCEPT !.analyzing = FALSE, !.failed = FALSE, !.result = r]
     \/ (IF sc.worker = "ready" THEN Breaks ELSE Works) /\ ScannerFails(t)
  /\ UNCHANGED <<view, ctl, recs, mode, confirmed>>

\* back in the controller: the generation is compared here and nowhere later
Analyzed(t) ==
  /\ At(t, "analyzed") /\ Works
  /\ LET s == task[t].s  n == task[t].n
         r == IF recs[s][n].result # Nothing THEN recs[s][n].result ELSE sc.result
     IN IF task[t].stale
          THEN Goto(t, "drop") /\ UNCHANGED recs
        ELSE IF r = Nothing \/ ~recs[s][n].staged
          THEN Goto(t, "catch") /\ UNCHANGED recs
        ELSE recs' = [recs EXCEPT ![s][n].result = r] /\ Goto(t, "receipt")
  /\ UNCHANGED <<view, ctl, sc, mode, confirmed>>

RetainReceipt(t) ==
  /\ At(t, "receipt")
  /\ LET s == task[t].s  n == task[t].n IN
     \/ /\ Works /\ Goto(t, "complete")
        /\ recs' = [recs EXCEPT ![s][n].receipt = TRUE]
     \/ ~recs[s][n].receipt /\ Breaks /\ Goto(t, "catch") /\ UNCHANGED recs
  /\ UNCHANGED <<view, ctl, sc, mode, confirmed>>

\* completeAttempt, unless an earlier try already did; then the mapping, which
\* discards earlier selections before the new draft is written
Complete(t) ==
  /\ At(t, "complete")
  /\ LET s == task[t].s  n == task[t].n  done == recs[s][n].completed IN
     \/ /\ IF done THEN UNCHANGED storeVars
                   ELSE CompleteAttempt(s, n, recs[s][n].result)
        /\ UNCHANGED faults
        /\ recs' = [recs EXCEPT ![s][n].completed = TRUE]
        /\ ctl' = [ctl EXCEPT !.explicit = {}, !.added = NoManual]
        /\ task' = [task EXCEPT ![t].pc = "present",
                                ![t].view = Mapped(<<s, n>>, recs[s][n].result)]
     \/ /\ ~done /\ Throws(CanCompleteAttempt(s, n)) /\ Goto(t, "catch")
        /\ UNCHANGED <<ctl, recs>>
  /\ UNCHANGED <<view, sc, mode, confirmed>>

PresentDraft(t) ==
  /\ At(t, "present")
  /\ \/ /\ ReplaceDraftOrder(task[t].s, task[t].view.lines) /\ UNCHANGED faults
        /\ Goto(t, "display")
     \/ Throws(CanReplaceDraft(task[t].s)) /\ Goto(t, "catch")
  /\ UNCHANGED <<view, ctl, recs, sc, mode, confirmed>>

\* resolveForDisplay, releaseCurrentCapture, and the publication of the result
PresentResult(t) ==
  /\ At(t, "display")
  /\ \/ /\ ~sc.analyzing /\ Works
        /\ sc' = [sc EXCEPT !.photo = FALSE]
        /\ ctl' = [ctl EXCEPT !.rec = Nothing,
                     !.failed = IF task[t].view.phase = "retakeRequired"
                                  THEN OneMoreFailure ELSE ctl.failed]
        /\ Show(task[t].view) /\ Return(t)
     \/ /\ IF sc.analyzing THEN Works ELSE Breaks
        /\ Goto(t, "catch") /\ UNCHANGED <<view, ctl, sc>>
  /\ UNCHANGED <<recs, mode, confirmed>>

\* mutation: an error that is not terminal is swallowed
SwallowsError(t) ==
  /\ At(t, "catch") /\ Works /\ Return(t)
  /\ UNCHANGED <<view, ctl, recs, sc, mode, confirmed>>

\* the catch of scan and of retryFailure
CatchScan(t) ==
  /\ At(t, "catch") /\ Works
  /\ LET scan == task[t].op = "scan"
         terminal == sc.worker = "fatal" \/ sc.camera = "lost" IN
     \/ scan /\ task[t].stale /\ Goto(t, "drop") /\ UNCHANGED view
     \/ /\ scan /\ ~task[t].stale /\ terminal
        /\ IF ctl.active
             THEN /\ task' = [task EXCEPT ![t].pc = "abandonTerminal", ![t].s = ctl.session]
                  /\ UNCHANGED view
             ELSE Show(Blank("terminalFailure", "scanner_terminal")) /\ Return(t)
     \/ /\ IF scan THEN ~task[t].stale /\ ~terminal ELSE TRUE
        /\ Show(Blank("recoverableFailure", "audit_or_scan")) /\ Return(t)
  /\ UNCHANGED <<ctl, recs, sc, mode, confirmed>>

\* inside the catch: if the abandonment throws, scan throws and publishes nothing
AbandonTerminal(t) ==
  /\ At(t, "abandonTerminal") /\ Return(t)
  /\ \/ /\ AbandonSession(task[t].s) /\ UNCHANGED faults
        /\ Set("active", FALSE) /\ Show(Blank("terminalFailure", "scanner_terminal"))
     \/ Throws(CanAbandonSession(task[t].s)) /\ UNCHANGED <<view, ctl>>
  /\ UNCHANGED <<recs, sc, mode, confirmed>>

\* _releaseCanceledCapture
DropCancelled(t) ==
  /\ At(t, "drop") /\ Return(t)
  /\ LET release == recs[task[t].s][task[t].n].staged /\ sc.photo IN
     \/ Works /\ sc' = [sc EXCEPT !.photo = @ /\ ~(release /\ ~sc.analyzing)]
     \/ release /\ ~sc.analyzing /\ Breaks /\ UNCHANGED sc
  /\ UNCHANGED <<view, ctl, recs, mode, confirmed>>

CancelScan(t) ==
  /\ Customer({"analyzing"}) /\ task[t] = Nothing
  /\ IF ctl.active
       THEN Spawn(t, Call("cancel", "cancel")) /\ UNCHANGED view
       ELSE /\ task' = Cancelled(task)
            /\ Show(Blank("terminalFailure", "analysis_cancelled"))
  /\ UNCHANGED <<storeVars, ctl, recs, sc, mode, faults, confirmed>>

AbandonCancelled(t) ==
  /\ At(t, "cancel")
  /\ \/ /\ AbandonSession(task[t].s) /\ Set("active", FALSE) /\ UNCHANGED faults
        /\ task' = [Cancelled(task) EXCEPT ![t] = Nothing]
        /\ Show(Blank("terminalFailure", "analysis_cancelled"))
     \/ /\ Throws(CanAbandonSession(task[t].s)) /\ Return(t)
        /\ Show(Blank("analyzing", "cancellation_persistence")) /\ UNCHANGED ctl
  /\ UNCHANGED <<recs, sc, mode, confirmed>>

ScanStep(t) ==
  \/ Capture(t) \/ RetainCapture(t) \/ Stage(t) \/ Infer(t) \/ Analyzed(t)
  \/ RetainReceipt(t) \/ Complete(t) \/ PresentDraft(t) \/ PresentResult(t)
  \/ CatchScan(t) \/ AbandonTerminal(t) \/ DropCancelled(t) \/ AbandonCancelled(t)

-----------------------------------------------------------------------------
(* Retake, count mismatch and the manual cart.                             *)

Retake(t) ==
  /\ Customer({"retakeRequired"})
  /\ Spawn(t, Call("retake", "reset"))
  /\ UNCHANGED <<storeVars, view, ctl, recs, sc, mode, faults, confirmed>>

\* reportCountMismatch, or restartCapture, which goes on with retake.  The
\* failure is counted before the empty draft is persisted.
ReportCountMismatch(t, op) ==
  /\ Customer({"customerReview", "orderReview"}) /\ ~ctl.manual
  /\ ctl' = [ctl EXCEPT !.failed = OneMoreFailure, !.added = NoManual]
  /\ IF ctl.active THEN Spawn(t, Call(op, "mismatch")) ELSE UNCHANGED task
  /\ UNCHANGED <<storeVars, view, recs, sc, mode, faults, confirmed>>

PublishMismatch(t) ==
  /\ At(t, "mismatch")
  /\ \/ /\ ReplaceDraftOrder(task[t].s, NoLines) /\ UNCHANGED faults
        /\ Show(Blank("retakeRequired", "count_mismatch"))
        /\ IF task[t].op = "restart" /\ ~ctl.closed THEN Goto(t, "reset")
                                                    ELSE Return(t)
     \/ Throws(CanReplaceDraft(task[t].s)) /\ Return(t) /\ UNCHANGED view
  /\ UNCHANGED <<ctl, recs, sc, mode, confirmed>>

ManualCartFailure == Blank("recoverableFailure", "manual_cart_entry")
Emptied == [ctl EXCEPT !.manual = TRUE, !.explicit = {}, !.added = NoManual]

\* _completeManualCartEntry, from enterManualCart or retryFailure
StartManualCart(t) ==
  IF ctl.active
    THEN /\ Spawn(t, Call("manual", IF ctl.manual THEN "emptyCart" ELSE "enterManual"))
         /\ ctl' = IF ctl.manual THEN Emptied ELSE ctl
    ELSE UNCHANGED <<task, ctl>>

EnterManualCart(t) ==
  /\ Customer({"retakeRequired"}) /\ ManualCartEligible
  /\ Show(ManualCartFailure) /\ StartManualCart(t)
  /\ UNCHANGED <<storeVars, recs, sc, mode, faults, confirmed>>

RetryManualCart(t) ==
  /\ Customer({"recoverableFailure"}) /\ view.code = "manual_cart_entry"
  /\ StartManualCart(t)
  /\ UNCHANGED <<storeVars, view, recs, sc, mode, faults, confirmed>>

EnterManualMode(t) ==
  /\ At(t, "enterManual")
  /\ \/ /\ EnterManualCartMode(task[t].s) /\ UNCHANGED <<view, faults>>
        /\ ctl' = Emptied /\ Goto(t, "emptyCart")
     \/ /\ Throws(CanEnterManualCart(task[t].s))
        /\ Show(ManualCartFailure) /\ Return(t) /\ UNCHANGED ctl
  /\ UNCHANGED <<recs, sc, mode, confirmed>>

EmptyCart(t) ==
  /\ At(t, "emptyCart") /\ Return(t)
  /\ \/ /\ ReplaceDraftOrder(task[t].s, NoLines) /\ UNCHANGED faults
        /\ Show(Blank("orderReview", "none"))
     \/ Throws(CanReplaceDraft(task[t].s)) /\ Show(ManualCartFailure)
  /\ UNCHANGED <<ctl, recs, sc, mode, confirmed>>

-----------------------------------------------------------------------------
(* Customer selections and quantities.                                     *)

\* chooseTop3 and chooseCatalog take any product for an unknown object;
\* acceptAiSelection takes the recognised one.  All three await _resolve.
Choose(t, o, p) ==
  /\ Customer({"customerReview"}) /\ ctl.active
  /\ view.drafts[o] # Absent
  /\ Recognised(view.scan, o) \in {Unknown, p}
  /\ Spawn(t, [Call("resolve", "record") EXCEPT !.o = o, !.p = p,
                                                !.view.scan = view.scan])
  /\ UNCHANGED <<storeVars, view, ctl, recs, sc, mode, faults, confirmed>>

OverrideResolvedProduct(t, o, p) ==
  /\ Customer({"orderReview"}) /\ ctl.active
  /\ view.drafts[o] \in Products /\ Recognised(view.scan, o) # Unknown
  /\ Spawn(t, [Call("resolve", "record") EXCEPT !.o = o, !.p = p,
                                                !.view.scan = view.scan])
  /\ UNCHANGED <<storeVars, view, ctl, recs, sc, mode, faults, confirmed>>

\* the object handed to the store is the one that scan recognised
CanRecord(s, scan, o, p) == scan[1] = s /\ CanRecordResolution(s, scan[2], o, p)

\* the new selection is laid over the drafts published by the time it is recorded
RecordChoice(t) ==
  /\ At(t, "record")
  /\ LET s == task[t].s  scan == task[t].view.scan
         o == task[t].o  p == task[t].p
         drafts == [view.drafts EXCEPT ![o] = IF @ = Absent THEN @ ELSE p] IN
     \/ /\ CanRecord(s, scan, o, p) /\ RecordResolution(s, scan[2], o, p)
        /\ UNCHANGED faults
        /\ Set("explicit", ctl.explicit \cup {o})
        /\ IF ctl.active
             THEN task' = [task EXCEPT ![t].pc = "redraw", ![t].s = ctl.session,
                             ![t].view = [view EXCEPT !.drafts = drafts,
                                            !.lines = LinesFor(drafts, ctl.added)]]
             ELSE Return(t)
     \/ Throws(CanRecord(s, scan, o, p)) /\ Return(t) /\ UNCHANGED ctl
  /\ UNCHANGED <<view, recs, sc, mode, confirmed>>

PublishChoice(t) ==
  /\ At(t, "redraw") /\ Return(t)
  /\ LET chosen == task[t].view IN
     \/ /\ ReplaceDraftOrder(task[t].s, chosen.lines) /\ UNCHANGED faults
        /\ Show([chosen EXCEPT !.code = "none",
                   !.phase = IF view.phase = "orderReview" \/ Resolved(chosen.drafts)
                               THEN "orderReview" ELSE "customerReview"])
     \/ Throws(CanReplaceDraft(task[t].s)) /\ UNCHANGED view
  /\ UNCHANGED <<ctl, recs, sc, mode, confirmed>>

\* mutation: the whole quantity is stored as units added by hand
StoresWholeQuantity(t, p, units) ==
  /\ Customer({"orderReview"})
  /\ ctl' = [ctl EXCEPT !.added[p] = Units(view.drafts, p) + units]
  /\ IF ctl.active
       THEN Spawn(t, [Call("edit", "persist") EXCEPT
                        !.view.lines = LinesFor(view.drafts, ctl'.added)])
       ELSE UNCHANGED task
  /\ UNCHANGED <<storeVars, view, recs, sc, mode, faults, confirmed>>

\* mutation: the lines are computed before the units are updated
ComputesLinesFirst(t, p, units) ==
  /\ Customer({"orderReview"})
  /\ ctl' = [ctl EXCEPT !.added[p] = units]
  /\ IF ctl.active
       THEN Spawn(t, [Call("edit", "persist") EXCEPT
                        !.view.lines = LinesFor(view.drafts, ctl.added)])
       ELSE UNCHANGED task
  /\ UNCHANGED <<storeVars, view, recs, sc, mode, faults, confirmed>>

\* addManualProduct, setQuantity and removeProduct: each sets how many units of
\* p are added by hand, and persists the lines that follow from it
EditQuantity(t, p, units) ==
  /\ Customer({"orderReview"})
  /\ ctl' = [ctl EXCEPT !.added[p] = units]
  /\ IF ctl.active
       THEN Spawn(t, [Call("edit", "persist") EXCEPT
                        !.view.lines = LinesFor(view.drafts, ctl'.added)])
       ELSE UNCHANGED task
  /\ UNCHANGED <<storeVars, view, recs, sc, mode, faults, confirmed>>

\* mutation: the lines are published although they were not persisted
PublishesUnpersisted(t) ==
  /\ At(t, "persist") /\ Return(t)
  /\ LET lines == task[t].view.lines IN
     /\ \/ ReplaceDraftOrder(task[t].s, lines) /\ UNCHANGED faults
        \/ Throws(CanReplaceDraft(task[t].s))
     /\ Show([view EXCEPT !.phase = "orderReview", !.lines = lines])
  /\ UNCHANGED <<ctl, recs, sc, mode, confirmed>>

\* what is published: the lines that were persisted, the drafts of that moment
PublishLines(t) ==
  /\ At(t, "persist") /\ Return(t)
  /\ LET lines == task[t].view.lines IN
     \/ /\ ReplaceDraftOrder(task[t].s, lines) /\ UNCHANGED faults
        /\ Show([view EXCEPT !.phase = "orderReview", !.code = "none",
                   !.lines = lines])
     \/ Throws(CanReplaceDraft(task[t].s)) /\ UNCHANGED view
  /\ UNCHANGED <<ctl, recs, sc, mode, confirmed>>

ReviewStep(t) ==
  \/ PublishMismatch(t) \/ EnterManualMode(t) \/ EmptyCart(t)
  \/ RecordChoice(t) \/ PublishChoice(t) \/ PublishLines(t)

-----------------------------------------------------------------------------
(* Payment.                                                                *)

\* recognised objects of the reviewed order whose product nobody chose
AutoAccepted(review, explicit) ==
  {o \in Objects : /\ review.drafts[o] # Absent
                   /\ Recognised(review.scan, o) \in Products
                   /\ o \notin explicit}

\* the selection a payment asks to be recorded next, before it awaits; the last
\* await is that of the draft
Upcoming(review, explicit) ==
  LET pending == AutoAccepted(review, explicit) IN
  IF pending = {} THEN {Nothing} ELSE pending

Preparing(s, review, o) ==
  [Call("pay", "prepare") EXCEPT !.s = s, !.view = review, !.o = o]

\* _prepareAndCommitFrozenPayment begins
Prepares(t, s, review) ==
  \E o \in IF ctl.manual THEN {Nothing} ELSE Upcoming(review, ctl.explicit) :
    Spawn(t, Preparing(s, review, o))

Pay(t) ==
  /\ Customer({"orderReview"}) /\ ctl.active
  /\ Resolved(view.drafts) /\ view.lines # NoLines
  /\ Set("frozen", [s |-> ctl.session, review |-> view])
  /\ Show([view EXCEPT !.phase = "paying", !.code = "none"])
  /\ Prepares(t, ctl.session, view)
  /\ confirmed' = [confirmed EXCEPT ![ctl.session] = @ \cup {view.lines}]
  /\ UNCHANGED <<storeVars, recs, sc, mode, faults>>

RetryPayment(t) ==
  /\ Customer({"recoverableFailure"}) /\ view.code = "payment_commit"
  /\ ctl.frozen # Nothing
  /\ Show([ctl.frozen.review EXCEPT !.phase = "paying", !.code = "none"])
  /\ Prepares(t, ctl.frozen.s, ctl.frozen.review)
  /\ UNCHANGED <<storeVars, ctl, recs, sc, mode, faults, confirmed>>

\* mutation: a failed payment is not reported
FailsSilently(t) == UNCHANGED view

PaymentFails(t) ==
  Show([task[t].view EXCEPT !.phase = "recoverableFailure",
                            !.code = "payment_commit"])

PaymentSucceeds(t) ==
  /\ Show([task[t].view EXCEPT !.phase = "paymentComplete"])
  /\ ctl' = [ctl EXCEPT !.active = FALSE, !.frozen = Nothing]

\* the source ai_auto_customer_accepted is refused for any other product
CanAccept(t, o) ==
  LET review == task[t].view IN
  /\ CanRecord(task[t].s, review.scan, o, review.drafts[o])
  /\ review.drafts[o] = Recognised(review.scan, o)

CommitInFlight == \E t \in Slots : At(t, "commit")

\* _prepareAndCommitFrozenPayment, up to its call of the payment service, which
\* gives a second caller the future of the commit in flight
PreparePayment(t) ==
  /\ At(t, "prepare")
  /\ LET s == task[t].s  review == task[t].view  o == task[t].o IN
     \/ /\ o # Nothing /\ CanAccept(t, o)
        /\ RecordResolution(s, review.scan[2], o, review.drafts[o])
        /\ Set("explicit", ctl.explicit \cup {o})
        /\ \E next \in Upcoming(review, ctl.explicit \cup {o}) :
             task' = [task EXCEPT ![t].o = next]
        /\ UNCHANGED <<view, faults>>
     \/ /\ o = Nothing /\ ReplaceDraftOrder(s, review.lines)
        /\ Goto(t, IF CommitInFlight THEN "join" ELSE "commit")
        /\ UNCHANGED <<view, ctl, faults>>
     \/ /\ IF o = Nothing THEN Throws(CanReplaceDraft(s)) ELSE Throws(CanAccept(t, o))
        /\ PaymentFails(t) /\ Return(t) /\ UNCHANGED ctl
  /\ UNCHANGED <<recs, sc, mode, confirmed>>

Joined == {u \in Slots : At(u, "join")}

\* the commit returns to its caller and to those that joined it: they share its
\* future, so all have resumed before anything else does.  The last to resume is
\* one that joined, if any did.
Settled(t) ==
  task' = [u \in Slots |-> IF u = t \/ u \in Joined THEN Nothing ELSE task[u]]
LastCallers(t) == IF Joined = {} THEN {t} ELSE Joined

\* mutation: the commit's error is taken for its receipt
CompletesRegardless(t) ==
  /\ At(t, "commit") /\ Settled(t)
  /\ LET s == task[t].s  lines == task[t].view.lines IN
     \/ CommitSimulatedPayment(s, lines) /\ UNCHANGED faults
     \/ Throws(CanCommitPayment(s, lines))
  /\ PaymentSucceeds(t)
  /\ UNCHANGED <<recs, sc, mode, confirmed>>

\* mutation: what is on screen is committed, not the frozen order
CommitsScreen(t) ==
  /\ At(t, "commit") /\ Settled(t)
  /\ \/ /\ CommitSimulatedPayment(task[t].s, view.lines) /\ UNCHANGED faults
        /\ PaymentSucceeds(t)
     \/ /\ Throws(CanCommitPayment(task[t].s, view.lines))
        /\ PaymentFails(t) /\ UNCHANGED ctl
  /\ UNCHANGED <<recs, sc, mode, confirmed>>

CommitPayment(t) ==
  /\ At(t, "commit") /\ Settled(t)
  /\ LET s == task[t].s  lines == task[t].view.lines IN
     \E last \in LastCallers(t) :
       \/ /\ CommitSimulatedPayment(s, lines) /\ UNCHANGED faults
          /\ PaymentSucceeds(last)
       \/ /\ Throws(CanCommitPayment(s, lines))
          /\ PaymentFails(last) /\ UNCHANGED ctl
  /\ UNCHANGED <<recs, sc, mode, confirmed>>

PaymentStep(t) == PreparePayment(t) \/ CommitPayment(t)

-----------------------------------------------------------------------------
(* Administrator entry, shutdown, lost devices and process death.          *)

\* AppModeController.enterAdmin, once abandonment was confirmed
EnterAdmin(t) ==
  /\ ctl.initialized /\ ~ctl.closed /\ mode = "customer"
  /\ IF ctl.active
       THEN /\ view.phase \notin {"paymentComplete", "paying"}
            /\ Spawn(t, Call("admin", "admin")) /\ UNCHANGED mode
       ELSE mode' = "admin" /\ UNCHANGED task
  /\ UNCHANGED <<storeVars, view, ctl, recs, sc, faults, confirmed>>

\* mutation: the session is given up before its abandonment is recorded
GivesUpFirst(t) ==
  /\ At(t, "admin") /\ Set("active", FALSE) /\ Return(t)
  /\ \/ AbandonSession(task[t].s) /\ mode' = "admin" /\ UNCHANGED faults
     \/ Throws(CanAbandonSession(task[t].s)) /\ UNCHANGED mode
  /\ UNCHANGED <<view, recs, sc, confirmed>>

AbandonForAdmin(t) ==
  /\ At(t, "admin")
  /\ \/ /\ AbandonSession(task[t].s) /\ UNCHANGED faults
        /\ Set("active", FALSE) /\ mode' = "admin"
        /\ task' = [Cancelled(task) EXCEPT ![t] = Nothing]
     \/ Throws(CanAbandonSession(task[t].s)) /\ Return(t) /\ UNCHANGED <<ctl, mode>>
  /\ UNCHANGED <<view, recs, sc, confirmed>>

Close(t) ==
  /\ ~ctl.closed /\ Set("closed", TRUE) /\ Spawn(t, Call("close", "close"))
  /\ UNCHANGED <<storeVars, view, recs, sc, mode, faults, confirmed>>

\* mutation: a session being started is not waited for
ClosesAtOnce(t) ==
  /\ At(t, "close") /\ Return(t)
  /\ \/ ~ctl.active /\ Works /\ UNCHANGED ctl
     \/ /\ ctl.active /\ AbandonSession(ctl.session)
        /\ Set("active", FALSE) /\ UNCHANGED faults
     \/ ctl.active /\ Throws(CanAbandonSession(ctl.session)) /\ UNCHANGED ctl
  /\ UNCHANGED <<view, recs, sc, mode, confirmed>>

\* _closeOnce: a session being started is waited for, and abandoned too
AbandonClosed(t) ==
  /\ At(t, "close") /\ ~ctl.starting /\ Return(t)
  /\ \/ ~ctl.active /\ Works /\ UNCHANGED ctl
     \/ /\ ctl.active /\ AbandonSession(ctl.session)
        /\ Set("active", FALSE) /\ UNCHANGED faults
     \/ ctl.active /\ Throws(CanAbandonSession(ctl.session)) /\ UNCHANGED ctl
  /\ UNCHANGED <<view, recs, sc, mode, confirmed>>

\* FatalWorkerEvent and the camera's error stream
LoseDevice ==
  /\ Breaks
  /\ \/ /\ sc.worker = "ready"
        /\ sc' = [sc EXCEPT !.worker = "fatal", !.analyzing = FALSE, !.failed = TRUE]
     \/ sc.camera = "ready" /\ sc' = [sc EXCEPT !.camera = "lost"]
  /\ UNCHANGED <<view, ctl, recs, task, mode, confirmed>>

\* The process dies and is started again: only the database remains.
Restart ==
  /\ ctl.initialized /\ Breaks
  /\ view' = Blank("ready", "none") /\ ctl' = FreshController
  /\ recs' = [s \in Sessions |-> [n \in Attempts |-> FreshRecovery]]
  /\ sc' = FreshScanner /\ task' = [t \in Slots |-> Nothing]
  /\ mode' = "customer" /\ UNCHANGED confirmed

-----------------------------------------------------------------------------

Command(t) ==
  \/ Initialize(t) \/ StartNextCustomer(t) \/ StartFreshCustomerSession(t)
  \/ Scan(t) \/ RetryScan(t) \/ CancelScan(t) \/ Retake(t)
  \/ \E op \in {"mismatch", "restart"} : ReportCountMismatch(t, op)
  \/ EnterManualCart(t) \/ RetryManualCart(t)
  \/ \E o \in Objects, p \in Products :
       Choose(t, o, p) \/ OverrideResolvedProduct(t, o, p)
  \/ \E p \in Products, units \in 0..MaxManual : EditQuantity(t, p, units)
  \/ Pay(t) \/ RetryPayment(t) \/ EnterAdmin(t) \/ Close(t)

Step(t) ==
  \/ SessionStartStep(t) \/ ScanStep(t) \/ ReviewStep(t) \/ PaymentStep(t)
  \/ AbandonForAdmin(t) \/ AbandonClosed(t)

Next ==
  \/ \E t \in Slots : Command(t) \/ Step(t)
  \/ LoseDevice
  \/ Restart

Spec == CheckoutInit /\ [][Next]_vars

\* The camera and the worker answer when they like: no request to either has a
\* timeout.  Everything else a call waits for is a file or a transaction, which
\* completes or fails.
AwaitsDevice(t) == At(t, "scanner") \/ At(t, "capture") \/ At(t, "infer")

LiveSpec == Spec /\ \A t \in Slots : WF_vars(~AwaitsDevice(t) /\ Step(t))

-----------------------------------------------------------------------------
(* Properties.                                                             *)

Calls == {"initialize", "next", "fresh", "scan", "retry", "cancel", "retake",
          "restart", "mismatch", "manual", "resolve", "edit", "pay", "admin",
          "close"}

\* where a scan, or a retry of one, may be suspended
ScanAwaits == {"capture", "retain", "stage", "infer", "analyzed", "receipt",
               "complete", "present", "display", "catch", "drop"}

Awaits == ScanAwaits \cup
  {"recover", "abandonOld", "reset", "catalog", "begin", "settings", "scanner",
   "abandonStartup", "terminalize", "abandonTerminal", "cancel", "mismatch",
   "enterManual", "emptyCart", "record", "redraw", "persist", "prepare",
   "commit", "join", "admin", "close"}

Codes == {"none", "scanner_startup", "session_start", "audit_or_scan",
          "scanner_terminal", "analysis_cancelled", "cancellation_persistence",
          "needs_retake", "count_mismatch", "manual_cart_entry",
          "payment_commit"}

Scans == Sessions \X Attempts

ViewType ==
  [phase: Phases, code: Codes, scan: Scans \cup {Nothing},
   drafts: [Objects -> Products \cup {Unknown, Absent}], lines: Lines]

ControllerType ==
  [session: Sessions \cup {Nothing}, active: BOOLEAN, attempt: 0..MaxAttempts,
   failed: 0..(RetryLimit + 1), manual: BOOLEAN, explicit: SUBSET Objects,
   added: [Products -> 0..MaxManual],
   frozen: [s: Sessions, review: ViewType] \cup {Nothing},
   rec: Scans \cup {Nothing}, starting: BOOLEAN, initialized: BOOLEAN,
   recovered: BOOLEAN, closed: BOOLEAN]

CallType ==
  [op: Calls, pc: Awaits, s: Sessions \cup {Nothing}, n: 0..MaxAttempts,
   stale: BOOLEAN, o: Objects \cup {Nothing}, p: Products \cup {Nothing},
   view: ViewType]

\* null is no pending call
ASSUME NothingIsNoCall == Nothing \notin CallType

RecoveryType ==
  [staged: BOOLEAN, result: Results \cup {Nothing}, receipt: BOOLEAN,
   completed: BOOLEAN]

ScannerType ==
  [analyzing: BOOLEAN, failed: BOOLEAN, photo: BOOLEAN,
   result: Results \cup {Nothing}, worker: {"off", "ready", "fatal"},
   camera: {"off", "ready", "lost"}]

CheckoutTypeOK ==
  /\ StoreTypeOK
  /\ view \in ViewType
  /\ ctl \in ControllerType
  /\ recs \in [Sessions -> [Attempts -> RecoveryType]]
  /\ sc \in ScannerType
  /\ task \in [Slots -> CallType \cup {Nothing}]
  /\ mode \in {"customer", "admin"} /\ faults \in 0..MaxFaults
  /\ confirmed \in [Sessions -> SUBSET Lines]

Idle == \A t \in Slots : task[t] = Nothing

\* The customer is charged only for an order pressed pay on, in that session:
\* not for a draft rewritten between the tap and the commit, not for another
\* payment's order (pay, retryFailure and SimulatedPaymentService.commit).
PaidOrderWasConfirmed ==
  \A s \in Sessions : AlreadyPaid(s) => payment[s] \in confirmed[s]

\* The completion screen tells the truth: until the next session is being
\* started, the session on screen is durably paid, and the order on screen is one
\* the customer pressed pay on.  With one call at a time it is the order charged.
\* (Calls that overlap can press pay on two orders, of which the second joins the
\* commit of the first and is the one shown.)
CompletionIsTrue ==
  view.phase = "paymentComplete" /\ ~ctl.starting /\ ~ctl.closed =>
    /\ AlreadyPaid(ctl.session)
    /\ view.lines \in confirmed[ctl.session]
    /\ (\A t, u \in Slots : t = u) => payment[ctl.session] = view.lines

\* The controller and the database agree on the open session.  What the
\* controller believes active is active in the database, and once start-up
\* recovery has run no other session is.
OneOpenSession ==
  /\ ctl.active => sessionState[ctl.session] = "active"
  /\ ctl.recovered =>
       \A s \in Sessions : sessionState[s] = "active" => ctl.active /\ s = ctl.session

\* Inference never runs on a capture the audit store does not know.
EvidenceBeforeInference ==
  \A t \in Slots : At(t, "infer") => attempt[task[t].s][task[t].n] # NoAttempt

\* What the audit rows say the customer chose is what the screen says: current
\* product, total and resolution history all agree.
AuditMatchesReview ==
  Idle /\ ctl.active /\ ~ctl.manual /\ view.scan # Nothing
      /\ view.phase \in {"customerReview", "orderReview"} =>
    \A o \in ctl.explicit :
      resolution[ctl.session][view.scan[2]][o] = view.drafts[o]

\* One failure never strands the customer on the analysing screen: scan's catch
\* answers it with a failure screen.  (The catch itself may fail once more: a
\* scanner lost for good and an abandonment that throws leave the phase as it is.
\* A cancellation that throws shows the analysing screen again with a code of its
\* own, and the administrator and a closed controller leave the screen alone.)
AnalyzingIsLive ==
  view.phase = "analyzing" /\ view.code = "none" /\ Idle
    /\ mode = "customer" /\ ~ctl.closed => faults > 1

\* Shutdown leaves no session open unless a write failed: whatever was in
\* flight when close was called, the session it began is abandoned or paid.
ClosedIsAbandoned ==
  ctl.closed /\ Idle /\ faults = 0 =>
    \A s \in Sessions : sessionState[s] # "active"

\* At start-up any nonterminal session of a previous process becomes
\* interrupted: beside the customer's session no other is open.
StaleSessionsClosed ==
  ctl.active => \A s \in Sessions \ {ctl.session} : sessionState[s] # "active"

\* Paying freezes the final order: while it is being committed the order is
\* never open for review again.
FrozenWhilePaying == [][view.phase = "paying" => view'.phase # "orderReview"]_vars

\* Session start always ends, whatever fails and whatever else is called, and
\* so does close, which waits for a start in flight before it abandons the
\* session; unless a camera or a worker that is still starting never answers.
Busy == ctl.starting \/ \E t \in Slots : At(t, "close")
StartAndCloseEnd == Busy ~> ~Busy \/ \E t \in Slots : At(t, "scanner")

\* A payment never hangs on screen: it is completed, reported as failed, or the
\* application is closed.
PaymentEnds == view.phase = "paying" ~> view.phase # "paying" \/ ctl.closed
=============================================================================
