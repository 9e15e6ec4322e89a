# Verification of the bakery self-checkout kiosk

TLA+ models of the kiosk in `apps/bakery_camera_flutter` (Flutter/Dart, SQLite through
drift), of the Python inference worker it drives and of the benchmark that compares two
configurations of that worker's pipeline; the TLC runs that check them and the TLAPS proofs
about them. Paths below are relative to the repository; `lib/` stands for
`apps/bakery_camera_flutter/lib/src/`, `py/` for `src/bakery_scanner/`.

## 1. The system

A customer puts bread on a tray, the kiosk photographs it, a worker process recognises the
pieces, the customer resolves what was not recognised, reviews the order and pays (a
simulated payment). Everything is recorded in an audit database and in evidence files. An
operator can leave the customer screen for an administrator console.

| Component | State | Operations | Talks to |
|---|---|---|---|
| Checkout controller `lib/checkout/checkout_controller.dart` | the screen (phase, drafts, lines, failure), the open session, attempt and failure counts, manual-cart mode, explicit selections, units added by hand, the frozen order, the recovery record of the current scan | session start, scan, cancel, retry, retake, count mismatch, manual cart, choose / accept / override, quantities, pay, administrator entry and exit, close | scanner, audit store, evidence store, payment service |
| Payment service `lib/checkout/simulated_payment_service.dart` | the commit in flight | commit | audit store |
| Audit store `lib/persistence/database_checkout_audit_store.dart` over `app_database.dart` | sessions, attempts, inference results, resolutions, draft, final order, payment, events | one SQLite transaction per operation | evidence files |
| Scanner controller `lib/scanner/scanner_controller.dart` | camera and worker readiness, the current capture and result | initialize, analyze, retry, reset, release, two event streams | camera, worker client |
| Worker client `lib/inference/inference_worker_client.dart` | process, handshake, pending requests | start, analyze, shutdown | worker process (JSON lines) |
| Camera service `lib/camera/camera_service.dart` | connection, single-flight capture | connect, capture, release, close | camera plugin |
| Audit file store `lib/audit/audit_file_store.dart` | evidence files, `.pending` files, recovery markers | retain, verify, find orphans | file system |
| Application mode `lib/app/app_mode_controller.dart` | customer or administrator surface | enter, exit | checkout controller |
| Administrator services `lib/admin/` | revisions of settings and products, annotations, retention | activate, annotate, prune | audit database, evidence files |
| Catalogue `lib/catalog/`, `database_catalog_repository.dart` | catalogue revisions, photos | read, seed, publish | database |
| Python worker `py/prototype/`, `scripts/run_camera_inference_worker.py` | model runtime and its admission, protocol state | select, load, warm, analyze, shutdown | kiosk (two pipes), pipelines |
| Pipelines and policies `py/{classification,detection,pipelines}/`, `py/prototype/presentation_policy.py` | none between requests | proposals and scores to decisions, decisions to an event | models |
| CPU benchmark `py/e2e/` | coordinator and two worker processes | prepare, run a pass, shut down | its own workers (duplex pipes) |

What is hard here:

- *Concurrency without threads.* Dart runs one call at a time, but a call suspended at an
  `await` lets any other run. The controller has some forty awaits and reads its own state
  after most of them. Nothing but the phase guards a command, and the phase changes at the
  end of a call, not at its beginning, except for scan and pay.
- *Two sources of truth.* The screen and the database are written one after the other;
  either write may fail while the other stands.
- *Crashes.* The process may die between any two transactions; the next process has only
  the database.
- *Devices that do not answer.* Neither a capture nor an inference request has a timeout.
- *Processes that end at any moment.* Both the kiosk's client and the benchmark's coordinator
  own processes that may crash, hang or answer late, over pipes that hold what was
  written before.
- *Files and rows.* Evidence is written before its row, removed in two phases around its row,
  and a crash may come between any two renames.
- *Batches.* The rejects of a tray go through DINO in chunks, by index; a chunk may fail.
- *Money and evidence.* A paid order must be what was confirmed, justified by what was
  recognised and selected, and nothing about it may change afterwards.

What makes each component correct:

- *Audit store*: a session is paid exactly when completed; a paid order is the draft, not
  empty and covered by resolutions, or a manual cart that was earned; terminal sessions
  are frozen; evidence is append-only.
- *Checkout*: the customer pays for an order they confirmed; completion is shown only for
  a durable payment; controller and database agree on the open session, on the manual cart
  and on the lines; no inference without staged evidence; starts, shutdown and payments end.
- *Worker and client*: they agree on the protocol, every request is answered once, with what
  the worker said and in order, or given up; a shutdown leaves no process behind; the ready
  event says what was really loaded.
- *Evidence files and retention*: an image that is recorded and not removed can be had; a
  removal is all or nothing; what is on disk without a row is reported.
- *Recognition*: each object is named from its own evidence, once and in reading order,
  whatever the batching; every result the runtime composes passes the worker's validator.
- *Benchmark*: a comparison is returned only when it is complete and clean, made in
  alternating order, one worker at a time; every run ends without a worker left behind.

## 2. Modules

| Module | What it is |
|---|---|
| `SessionLedger` | abstract: what the operator is owed about the life of a session |
| `AuditStore` | the audit database, one action per transaction; implements `SessionLedger` |
| `AuditStoreProofs` | theorems about `AuditStore` |
| `Checkout` | controller, payment service, the scanner it drives and the application mode, composed with `AuditStore` (EXTENDS: it takes the same actions) |
| `CheckoutHistory` | `Checkout` with two history variables and the properties that need them |
| `CheckoutProofs` | theorems about `Checkout` and `CheckoutHistory` |
| `CheckoutFifo` | `Checkout` with transactions served in the order requested |
| `WorkerRequests` | abstract: what is owed to whoever submits requests to the worker |
| `CameraWorker` | the Python worker process |
| `WorkerClient` | the kiosk's client, composed with `CameraWorker` (EXTENDS) over the two pipes; implements `WorkerRequests` |
| `WorkerClientProofs` | theorems about `WorkerClient` |
| `WorkerProtocolProofs` | why the client finds no fault with the lines of its worker |
| `EvidenceArchive` | abstract: what the audit promises about captured images |
| `EvidenceFiles` | image files, their rows, markers, recovery and retention; implements `EvidenceArchive` |
| `EvidenceProofs` | theorems about `EvidenceFiles` |
| `Classification` | operators: how one object is named from its evidence |
| `OneByOne` | abstract: what a scan promises, without batch, chunk or order of work |
| `Recognition` | a tray through one of four pipelines, up to the event that is sent; implements `OneByOne` |
| `RecognitionProofs` | theorems about `Classification` and `Recognition` |
| `PolicyAdmission` | which fusion policy gets through start-up, with its theorem |
| `PairedPasses` | abstract: a comparison of two configurations |
| `CpuBenchmark` | the benchmark's coordinator and its two workers; implements `PairedPasses` |
| `CpuBenchmarkProofs` | theorems about `CpuBenchmark` |
| `MCAuditStore`, `MCCheckout`, `MCCheckoutHistory`, `MCCheckoutFifo`, `MCEvidenceFiles`, `MCRecognition` | instances for TLC (`WorkerClient` and `CpuBenchmark` need none) |

How they fit: `Checkout` takes files, camera and worker as operations that succeed or fail, and
has the failures at every await; `WorkerClient`, `EvidenceFiles` and `Recognition` look inside
those operations, one at a time. A `Checkout` composed with all three would be out of TLC's reach.

### AuditStore

Each public operation of `DatabaseCheckoutAuditStore` is one transaction and therefore one
action. `CanX` is the condition under which it commits and `X` what it writes; a
transaction whose guard is false throws and changes nothing. `StoreNext` takes every
operation with all arguments, so what holds of `StoreSpec` holds whatever the controller does.

| Variable | Rows |
|---|---|
| `sessionState` | `checkout_sessions.state`, "none" before the row |
| `attempt` | `scan_attempts` with its status; the inference rows once completed |
| `resolution` | the row of `object_resolutions` with `is_current` |
| `draft` | `draft_order_lines` |
| `manualCart` | an `audit_events` row `manual_cart_entered` |
| `payment` | `final_orders`, `final_order_lines` and `simulated_payments`, written together |

Abstractions: a file reference and its hash are dropped (they belong to the audit file
store), and so are prices. A product registered with the worker but missing from the session's
catalogue is `Unknown`, as the controller treats it. The source of a resolution follows from the
object and the product. The comparison of an inference row with the object the
caller passes is equality of session and attempt. The triggers of the schema are not
guards of the model: `TerminalIsFrozen` shows that the operations never run into them.

### Checkout

`task[t]` is an asynchronous call that has not returned, `pc` the await it is suspended at.
A command (`Scan`, `Pay`, ...) is the code before the first await of a call. A step is what
the awaited operation does, with the code that runs when it returns: the arguments of
the operation were fixed when it was called, and the code after it touches memory
only, until the next await. Any pending call may move next and a command may come between any two
steps; this is more than drift allows, which serves transactions in the order requested
(`CheckoutFifo`), so what holds here holds there. External operations fail
nondeterministically, at most `MaxFaults` times; `LoseDevice` and `Restart` (process death)
count as faults. A transaction whose guard is false throws without counting.

| Variable | Code |
|---|---|
| `view` | `CheckoutState`; `scan` names the scan its drafts come from |
| `ctl` | the private fields of `CheckoutController` |
| `recs` | the `_ScanRecovery` of each scan |
| `sc` | the part of `ScannerState` that guards look at |
| `mode` | `AppModeController.mode` |
| `confirmed` | history: the lines that were on screen whenever pay was pressed |

Abstractions: `_scanGeneration` is a flag on the scans it has left behind. `failed` counts up to
one more than the retry limit, beyond which nothing depends on it. addManualProduct, setQuantity and
removeProduct are `EditQuantity`, which sets the units added by hand to any number. Reads
without effect that follow each other are one step. The size of the photograph is there when the
photograph is. `cancelScan` is a public operation of the controller that no
screen calls today. `continueToOrderReview` has no action: it asks
for the phase `customerReview` with every object resolved, and whoever publishes `customerReview`
(the mapper, `_resolve`) does so only for an order with an unresolved object, so the call always
throws (TLC never reached an action for it). When the ids in `Sessions` are used up, beginning a session fails.
A suspended payment names the selection it has asked to be recorded (`task[t].o`, picked before the await),
and a failed scan the session it abandons (`task[t].s`). The code goes through the objects of a payment in their order; the model takes
those still to be recorded in any order.

### CheckoutHistory

The controller does not keep calls apart: a button is answered while an earlier call still waits for the
database. Some of what relates screen, fields and database then ends (section 6). `overlapped` says whether it
has: it becomes true when a call is made while another has not returned, and false at a session start that
meets no other call. `unwritten` says that a changed order was refused by the database and nothing has been
shown since. The module adds no restriction: every step of `Checkout` is a step of it.

### CameraWorker and WorkerClient

`wk` is the process: `pc` where `serve` stands (`started`, `select`, `load`, `warm`, `announce`,
then `idle`, `analyze`, `close`, at last `gone`), the device and the admission it was loaded with,
the request it works on and the last phase reported. `toWorker` and `toClient` are the pipes, whose
contents outlive the process that wrote them. `cl` is `InferenceWorkerClient`: its `WorkerStatus`, the
future of `start()`, the ownership completer, where `_performShutdown` stands (`sd`), whether the exit
was seen. `outcome[i]` is what the caller of the i-th `analyze` was told, `progress` is `_progress`.
One identifier sequence serves requests and the shutdown.

A continuation that runs as soon as its future completes is part of the action that completes it;
what waits for the process, a timer or a line is an action. Timers may fire at any time.
`Own` is the moment `Process.start` returns to a client that may meanwhile have been shut down.
Faults: crash, a native call that hangs, an image deleted before the worker looks for it, a kill
that is refused, a spawn that fails, the death of the kiosk. A process that has ended refuses
`kill()` too, after which shutdown throws although no worker is left. `SelectCandidate` and `Load` may succeed: `serve`
is called with a provider. The provider the script passes for the candidate profile always
raises, and see `PolicyAdmission` for the legacy one with a policy.

### EvidenceFiles

The image of a scan is its name: `pending`, `final` and `quarantine[p]` are the images under the
`.pending` name, at the audited path and in the quarantine of a preview; `marked` those in
`recovery/markers.jsonl`. `rows`, `flagged`, `pruned`, `executed` and `recovered` are what the
database says. `capture[a]` is how far the scan's retention of its image has come, `call[c]` the
dialog's call of `RetentionService` and the await it stands at. `capturedAt ??=` fixes the name at the
first try; the store's own clock names the image again, which after midnight UTC refuses it (`late`).
A failed write leaves the `.pending` file, and every later try throws on it. Start-up recovery flags
images that are pending, orphaned or missing, without regard to `retention_events`.
Interrupted removals are undone at the next preview or execution only:
`recoverInterruptedRetention` has no caller. `isSafeToRun` is asked when a call begins and at no
later await.

Any number of dialogs may have a call under way (`Callers`): the dialog can be dismissed while its call runs
(`lib/ui/admin/settings_screen.dart:261`), and nothing in the service makes the next one's call wait. `overlapped`
is history: a removal has met another call. Recovery works through the list of quarantines it took at the
beginning, one image at a time, whatever other calls do meanwhile.

Abstractions: bytes and hashes are right wherever a file is whole (a file that is not what was
recorded makes its reader throw, which is a failed step); receipts are kept by the same
`_retain` and are left out; a cutoff is any set of scans. A dialog executes the preview it showed, so no two
calls execute the same one.

### Classification, Recognition and OneByOne

A configuration `cfg` picks the path (`serial`: `infer`, `batch` and `static`: `infer_many`,
`rtx5080`: `Rtx5080Pipeline.infer`), the fusion rule or none, the local prototype bank, the chunk
size of DINO, CUDA timing and the version of the presentation policy. A step is a call of a model
or the code between two of them, and any call may raise (`Fail`). `order` is `ordered_boxes`, `todo`
the part of `recheck_indexes` not yet given to DINO, `decisions` what the code keeps under that name.
`elapsed` and `charged` are the clock and the sum of stage timings, a tick a stage, because the
validator compares them.

Abstractions: a score is a natural number that stands for a calibrated log-probability, so that
fusing two score vectors is adding them; the fusion ranker is the sum of the three scores; the risk
calibrator is a Boolean of the object. Ties of floats and rounding of boxes are not modelled. The
gates of the RTX 5080 pipeline come from its caller: they may answer anything, and what its
checks refuse ends the scan. The Top-3 of an object that was named is left out. Of the validator, the checks of
each object's format and of each timing by itself (`py/prototype/camera_protocol.py:474`, `:538`) are left out, and the fusion margin it
reads is the one the policy computed. A policy of
schema 3 is refused by `infer` and `infer_many` and is all the static batch takes (`Served`).

### PolicyAdmission

The camera runtime admits one decision rule only, with the identity of padded crops
(`py/prototype/camera_runtime.py:853`). Only schema 3 may carry that rule
(`py/classification/fusion_policy.py:65`), `ClassifierPipeline.load` wants the static identity for it
(`py/classification/runtime.py:383`), and `infer` and `infer_many` refuse it (`:473`, `:654`). The theorem
`PolicyRefused` follows: with a policy artifact configured no request is ever answered, on CUDA or
the CPU. The module is small enough for a proof alone and has no run.

### CpuBenchmark

`co.pc` is the place the coordinator waits at; what it does between two waits is one action.
`wk[r]` is `worker_process_main` of a role; a pipe is a queue in each direction that is closed when
its process ends. A ready reply says whether the worker agrees with its specification and, if so, one of
two values of what the specification leaves open, so that two workers may each be right and still
differ. Every wait has a timeout, which may fire whenever nothing has come. Faults: a worker
crashes or hangs, Ctrl-C during any wait, the coordinator dies. What a pass measures is left out.

## 3. Runs

| Run | Bounds | Shows |
|---|---|---|
| `store` | 1 session, 2 attempts, 2 objects, 2 products, quantities to 2, retry limit 1 | type invariant, the promises of the store, the ledger |
| `checkout_sessions` | 2 sessions, 1 call at a time, 1 scan, 2 faults | after every outcome of every call: what is reviewed is persisted and is what the controller will persist next; one open session; truthful completion; the manual cart forgotten with its session |
| `checkout_races` | 2 calls at once, 1 session, 1 scan, 1 fault | only confirmed orders are paid; no inference without evidence; shutdown leaves no session open; one failure never strands the customer on the analysing screen |
| `checkout_live` | 2 calls at once, 1 session, 1 fault, fairness | start, close and payment end |
| `checkout_lost_choice` | 2 calls, 2 unknown objects | violation, see section 6 |
| `checkout_frozen` | 2 calls | violation, see section 6 |
| `checkout_stale_session` | 2 sessions, 2 faults | violation, see section 6 |
| `worker` | 2 requests and a shutdown, 1 fault, both profiles, fairness | client and worker agree on the protocol; requests are answered once; calls end; no process is left; `WorkerRequests` |
| `evidence` | 2 scans, 2 previews, 2 dialogs, 2 faults | no recorded image is lost or half removed until a removal meets another call; nothing on disk is silent; `EvidenceArchive` |
| `evidence_dialogs` | 2 scans, 2 previews, 2 dialogs, no fault | violation, see section 6 |
| `recognition` | 5 products, up to 3 objects, 9 trays, 6 kinds of evidence, chunks of 1 to 3, 52 configurations | `OneByOne`; every composed result validates |
| `benchmark` | 3 passes, 1 fault, fairness | returned comparisons are clean and complete; one worker at a time; runs end; `PairedPasses` |

Why the bounds are enough for what is asked. Two attempts are the least for which "latest"
and "completed" differ, and with a retry limit of 1 the most that are needed to earn the
manual cart. Two objects and two products are the least for which one resolution can cover
another or a product be billed too rarely. Two sessions are the least for which one can be
mistaken for another, and two slots for which a call can overlap another; three calls
overlapping are not checked. One fault puts a failure at every await; two are needed to fail a
call and what handles the failure: `checkout_sessions` has two, so that a session that could not be started
cannot be abandoned either, which is the case `ManualCartAgrees` excepts. `ReviewIsPersisted`, `MemoryIsShown` and
`ManualCartAgrees` end where calls overlap, and hold again from the next session start that meets no other call
(`~overlapped`). After an overlap, an edit delayed past a new
result may leave other lines in the database than on screen, and a start may forget a manual cart another
call has entered. `checkout_sessions` has one slot, in which nothing overlaps; the theorems of section 4 cover
any number, of `OneOpenSession` and `CompletionIsTrue` with calls that overlap. `CompletionIsTrue` has a part for one
call: with three that overlap, two payments for different orders may share one commit, and the second
order is shown though the first was charged. Quantities to 2 with `MaxManual` 1 keep `MaxQuantity >= Cardinality(Objects) +
MaxManual`, which `CheckoutBounds` asks for. Deadlock is not checked in the runs of
`Checkout`: a closed application, or one whose bounds are used up, stops.

Fairness (`LiveSpec`): each call makes progress at every await, except where it waits for the camera or
the worker (`AwaitsDevice`): a file operation and a SQLite transaction return or throw, and
the Dart event loop runs every completed future, but no request to a device has a timeout.
No fairness is assumed of commands, crashes or lost devices. Hence
`StartAndCloseEnd` promises an end unless a start waits for the devices.

`worker`: two requests are the least that can be pending together and be answered in the wrong
order; a shutdown draws a third identifier. One fault anywhere includes every crash between two
lines. `evidence`: two scans are the least for which a removal can be half done, two previews the
least for which one finds the quarantine of the other, two faults a failure and a failure
of its undoing. States in which a removal has met another call are left out (`MCBounds`: the properties say
nothing of them except `UnrecordedIsTraceable`, which is proved for them), and so are previews that overlap before the first fault or after
the last. `recognition`: the evidence separates every rule from every other (named by RepViT alone, too
far from the prototypes, models that disagree, that tie, local evidence that disagrees alone, DINO
unsure); the trays hold overlapping, cut-off, equal and unordered boxes; three objects with chunks of
two leave a last chunk that is not full. The code's 20 products add no rule. `benchmark`: three
passes are the least the protocol allows, and hold an alternation and its return. The proofs
of section 4 remove these bounds for what they cover.

Fairness of `worker`: the worker's own steps (not when it hangs), the process system, and each
continuation, timer and line of the client; nothing makes anyone call. `start` and `analyze` have no
timeout, so `CallsEnd` promises an end for them unless the worker hangs; shutdown ends in any case. A ready event
that comes after `start()` was given up makes the client fatal, and so does a missing image, which
the worker reports without naming its request: `ProtocolAgreed` says nothing else does.
Fairness of `benchmark`: the coordinator, whose waits all have a timeout; a worker that does not hang;
and a signal, which reaches one that does.

Symmetry is used in `checkout_sessions`, `checkout_races` and `evidence` (sessions, slots and scans are
interchangeable; no CHOOSE over them) and `evidence_dialogs`, not for liveness. Deadlock is not checked where a run of the
program ends: a client shut down, a tray answered, a comparison returned, previews used up.

Each property of a passing run is broken by a mutation kept beside the definition it changes
(marked as such; no specification uses it).

## 4. Proofs

`AuditStoreProofs`, for every value of the constants that satisfies `StoreBounds` and
`ResultShape`:

- `StoreTypeCorrect`: the type invariant, one step per transaction.
- `StoreTerminalIsFrozen`, `StoreEvidenceAppendOnly`: action properties, from the guards of
  the transactions and the type invariant.
- `StorePaidIffCompleted`, `StorePaidOrderJustified`, `StoreEvidenceSupported`: none is
  inductive alone. `StoreInv` joins them with the type invariant: that a paid
  session is completed keeps every later transaction away from it, which keeps its order
  justified; and a payment is justified when it is written because the commit tests it.
- `StoreImplementsLedger`: every transaction maps to a step of `SessionLedger` or a stutter.

`CheckoutProofs`, for every value of the constants that satisfies `CheckoutBounds` too (any number
of calls in flight, sessions, scans and faults):

- `CheckoutTypeCorrect`: the shape of the controller, the scanner and the pending calls. The
  induction needs more than types (`MemoryInv`): an active controller has a session; a
  suspended scan knows its session and attempt; one that awaits its receipt or its completion has
  a result; a payment under way, and the frozen order a retry would use, are for an order that was
  confirmed. One lemma per group of calls, one step per await; results and confirmations
  only grow (`Grows`), so the calls a step does not touch keep what they rely on.
- `CheckoutRefinesStore`: every step is a transaction of `AuditStore` with arguments in its domain,
  or leaves the database alone. Hence `CheckoutKeepsPromises` (the three invariants of the store)
  and `CheckoutImplementsLedger` hold of the running system through interleavings, failures
  and restarts.
- `CheckoutPaidOrderWasConfirmed`: the commit is the one step that writes a payment
  (`StoreSteps`: all others are quiet), and `MemoryInv` says what it commits was confirmed.

`EvidenceProofs`, for any number of scans, previews, dialogs and faults. `EvidenceTypeCorrect` and
`UnrecordedTraceable` hold however many calls of the service overlap. The other three hold until a removal meets another call, which is
all the service keeps to (section 6). What the induction needs besides types is in two parts. One holds of every
call beside any other (`CallShaped`, `Placed`, `OwnPreview`, `ExecutedOnce`): an image is at one place at most, no two calls
execute the same preview, and a preview is executed once. The other (`PreviewsOnly`, `CallKnows`) holds until a removal
meets another call: previews may run side by side, because recoveries that run beside each other all move the same images back;
what is still to be moved is where the call believes it is; and a preview being committed has all its images in
quarantine. Then `EvidenceIsKept`, `PreviewsRestore` (an action property, from what recovery has
done when a preview is shown), and `EvidenceImplementsArchive`: only `Commit` is a removal, and moves, undos and deletions are
stutters.

`CpuBenchmarkProofs`, for any number of passes, either order and any number of faults.
`BenchmarkInv` is types, `Talk` (a worker that is busy or has a command or a reply under way is the one
the coordinator waits for, or the run is spoiled and gives no more commands; a ready reply
tells what its worker recorded) and `Progress` (while the run is unspoiled: at most one message under
way, both workers agree once both are ready, and as many results are accepted as passes and halves
are over). `OneBusy` holds even past a missed deadline because any failure ends the
run; `CompletedClean` because an unspoiled run drains both pipes and sees both exits;
`BenchmarkImplementsPairedPasses` because the n-th result is that of the n-th turn.

`WorkerClientProofs`, for any number of requests and faults (`WorkerBounds`, and `NothingElse`: null
is no identifier and no phase). The client's record stays sane through every combination of a
shutdown, a start given up, a kill and an exit (`Sane`, `Waits`): hence `WorkerTypeCorrect` and
`WorkerEndedMeansAnswered`. `WorkerReadyIsTrue` follows what was loaded from the worker into each line of the pipe and
from there into the client's metrics (`WkNamed`, `LinesNamed`). For `WorkerImplementsRequests` an
identifier moves from the queue to the worker, from there into an answer and from there to its
caller, and is always smaller further on (`Ordered`); each request that waits is at one of these places, or the
worker complained of its image before (`AllAccounted`). So the first answer in the pipe is that of the oldest request that waits, and
whatever ends the client gives up all of them in one step.

`PolicyAdmission`: see section 2.

`WorkerProtocolProofs` proves `ProtocolAgreed` for any number of requests and faults. What the client has seen (its status and
`_progress`), the lines in the pipe and what the worker has told last are one course (`Agreed`):
`Follows` says which line may come after which, `ChainOf` that the pipe is such a sequence, and it ends where
the worker stands. A line is taken from one end of the course and written at the other, so each step
keeps it. Beside it (`Protocol`): a `stopped` line answers the shutdown the client asked for (`Stops`), a
progress line belongs to the request the worker has or is followed by its answer (`Owned`), and what has not
been answered waits (`Awaits`). A lost image and a start given up end the course, which are the two
cases the property excepts.

`RecognitionProofs`, for any number of products from three up, any set of trays, any evidence, thresholds and
chunk size (`PolicyBounds`, `ScenesAreProposals`, `SamplesAreEvidence`, `ConfigsAreKnown`). The best product of a
non-empty set exists and is unique, the three best are three, and the order of boxes is total. The
invariant `IInv` then says what a scan has after each stage: each decision is one that the object's own evidence
permits (`Settled`), the order lists each proposal once and is sorted (`Typed`), what waits for DINO is what was
rejected and not yet rechecked (`Staged`), the phases reported follow from the stage (`Phased`), no more time is charged
than has passed, save where fusion is counted twice (`Timed`), and the result is what the presentation policy makes of
all that (`Resulted`). Hence `TypeCorrect`, `ResultsPass` (`ResultValidates`, one lemma per kind of result) and `OneByOneImplemented`: only the last stage answers, with the one result `OneByOne` allows for
the tray, whatever the batches were.

Of the screen, the controller and the database together, `CheckoutProofs` proves for any number of calls
that overlap at any await:

- `CheckoutOneOpenSession`, `CheckoutClosedIsAbandoned` and `OneCommitAtATime` from `OpenInv`, which gives each
  call a *role* in opening, settling and closing a session. The reservation is set exactly while one
  call is starting a session (`Reserved`), which begins or recovers one only where none is in use (`Unoccupied`).
  The session in use is active in the database; no other is that the controller or a call still refers to
  (`Held`), and after recovery, or without a failure, no other at all (`Known`). One commit is at the database
  at a time, of a session not yet paid (`Committing`). Once closed, a session is left in use only while `close`
  still waits to abandon it (`Closing`).
- `CheckoutEvidenceBeforeInference` and `CheckoutAnalyzingIsLive` from `AptInv` and `Answered`: a suspended call
  finds the recovery record it relies on, a capture marked as staged has its row, a lost device was a
  fault, and a waiting customer always has a call that will publish (`Publishes`), unless there were two faults. A scan that is
  overtaken by a cancellation stops being such a call in the step that changes the screen.
- `CheckoutCompletionIsTrue` from `JoinInv`: a payment joins a commit only of its own session, or one that is
  bound to fail because its session is closed. So whoever shows the completion screen shows an order confirmed in
  the session paid, and nothing but a new start disturbs that screen (`Undisturbed`).
- `PayingServed` and `BusyServed`: behind a paying screen there is a call that pays and waits for no other, and
  while a start or a shutdown is under way a call that can go on. These are the invariants behind the liveness
  properties `PaymentEnds` and `StartAndCloseEnd`: nobody waits for nothing.

Of `CheckoutHistory`, for any number of calls, sessions, scans and faults: `CheckoutReviewIsPersisted` and
`CheckoutManualCartAgrees`. Until a call meets another there is one in flight (`LoneInvariant`), and the session start that ends an
overlap meets none (`UntilOverlap`), so that both invariants begin anew there. The first
follows from what the call at each await sees on screen (`CallSees`), the second from a new session starting
without a cart in the controller (`NewCart`) and in the database (`StoreUntouched`, of the store alone) and from what a stranded
start leaves (`Stranded`).

The hypotheses are the named assumptions on the constants: `StoreBounds`, `ResultShape`, `CheckoutBounds`,
`NothingIsNoCall`; `WorkerBounds`, `NothingElse`, `NothingIsNoCause`; `PolicyBounds`, `NothingIsNoProduct`,
`ScenesAreProposals`, `SamplesAreEvidence`, `ConfigsAreKnown`; `EvidenceConstants`; `BenchmarkConstants`. They say that sets are
finite where the program's are, that bounds are numbers, and that the value used for null is none of the others; TLC
evaluates each on a run.

Only model-checked: liveness under fairness (`StartAndCloseEnd`, `PaymentEnds`, `CallsEnd`, `NoWorkerLeft`,
`RunEnds`, `WorkersEnd`), for which the prover has no rule. So is `MemoryIsShown`: every other safety
property of a passing run is proved. Nothing in the modules with theorems is recursive.

## 5. Not modelled

- *Camera service, reconnection and the stand-alone scanner screen*: the plugin behind
  it is not in the repository; `Checkout` has every outcome of a capture.
- *Administrator services and catalogue*: single transactions with a revision check, called from one
  screen. A session pins its revisions when it begins, so to the checkout they are constants
  (`Products`, `RetryLimit`).
- *Receipts of inference and of orders* as files, and what is in the bytes of any file.
- *Models, tensors, detector heads, prototypes*: numbers without control. So are deadlines and CUDA
  streams of the RTX 5080 pipeline.
- *Screens*: layout. The calls they may make are the commands of `Checkout`.
- *Vendored `dino/`* (over a third of the Python lines) and *training, evaluation, experiment and
  data programs*; together three quarters of the Python lines. The latter are offline programs that read files, compute and write files, one step after the other, with no
  state that outlives a call and nothing concurrent. A model of them would restate them. For this
  reason, and because the kiosk's own logic is in Dart, the mapped lines are a small part of the Python lines
  (about one in twenty), and nearly all of those that coordinate anything.

## 6. Findings

- *A choice is lost* (`checkout_lost_choice`). `_resolve` reads the drafts after recording
  its resolution and publishes them after writing the draft; of two quick taps the second
  publication undoes the first on screen, not in the audit log. The customer has to choose again; in the
  order review (an override undone on screen, kept in the log) the frozen order no longer covers
  the resolutions and no retry of the payment can commit.
- *A frozen order is reopened* (`checkout_frozen`). An edit whose write is pending when pay is
  tapped publishes `orderReview` over `paying`. What is paid is still what was
  confirmed (`PaidOrderWasConfirmed` holds), but the screen offers an order for editing that is
  being committed, and the administrator may enter.
- *A stale session survives* (`checkout_stale_session`). When start-up recovery fails,
  nothing runs it again before the next customer's session begins.

- *Two retention dialogs* (`evidence_dialogs`). The dialog can be dismissed while its call goes on
  (`lib/ui/admin/settings_screen.dart:261`, `showDialog` without `barrierDismissible: false`), and the next one calls the
  service at once. Without any failure the recovery of a preview takes the quarantine of a running removal for the
  rest of an interrupted one: it moves back what it has listed and deletes the directory
  (`lib/admin/retention_service.dart:422`), with what the removal has moved in since. That image is gone before its
  removal is recorded, against the comment at `lib/admin/retention_service.dart:249`. Or the removal is recorded
  after its images were moved back, and they stay on disk though recorded as removed. Hence `~overlapped` in
  `EvidenceKept`, `PreviewRestores` and `ImplementsArchive`.

- *What is left for the next start-up* (an observation). A scan that fails at midnight, before its image is
  whole, or together with its marker, and is not tried again in its session, has an image on disk that nothing names until
  the kiosk starts again (`LeftForStartup`). `UnrecordedIsTraceable` says that there are no other such images.
- *No policy is ever served* (`PolicyRefused`). `docs/superpowers/plans/2026-07-29-flutter-windows-camera-prototype.md:16`
  asks for the policy on both devices; the tests of the refusals
  (`tests/classification/test_runtime.py:1114`, `:1446`) and of the start-up, which replace the loader, each pass.
- *Fusion time counted twice*: the batch path without CUDA events may charge more time to stages than has
  passed, and the worker then rejects its own result. `ResultValidates` exempts exactly that case;
  the configurations in the repository use CUDA events or the serial path.

Hazards no property covers are in `PROJECT.json` with a note.
