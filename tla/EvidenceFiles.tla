---------------------------- MODULE EvidenceFiles ----------------------------
(***************************************************************************)
(* The captured images on disk and what the database says of them: written  *)
(* and recorded by a scan (AuditFileStore, stageAttempt), looked over when  *)
(* the kiosk starts, and removed in two phases by RetentionService.  The    *)
(* name of an image is its scan; its bytes are right wherever it is whole. *)
(***************************************************************************)
EXTENDS Naturals, FiniteSets

CONSTANTS Attempts,   \* scans, each with the image path its number gives it
          Previews,   \* identifiers of retention previews, never given twice
          Callers,    \* open retention dialogs
          MaxFaults,  \* bound: failed writes, moves and commits, restarts
          Nothing

VARIABLES
  pending,     \* on disk: images still under their .pending name
  final,       \* on disk: images at their audited path
  quarantine,  \* on disk: images below retention-quarantine/<preview>
  marked,      \* on disk: images named in recovery/markers.jsonl
  rows,        \* scan_attempts
  flagged,     \* images a start-up recovery reported for review
  pruned,      \* retention_events
  executed,    \* previews with a retention_executed event
  recovered,   \* previews with a retention_recovered event
  capture,     \* per scan, how far its _ScanRecovery has come
  late,        \* scans of this process whose capture time is on an earlier UTC day
  active,      \* a customer's session is open
  ofSession,   \* the scans of that session
  started,     \* this process's start-up recovery has returned
  previews,    \* the service's previews, in memory; Spent once one is gone
  call,        \* per dialog, its call of the service
  faults,
  overlapped   \* history: a removal and another call have been under way at once

disk == <<pending, final, quarantine, marked>>
database == <<rows, flagged, pruned, executed, recovered>>
scans == <<capture, late, active, ofSession, started>>
retention == <<previews, call, overlapped>>
vars == <<disk, database, scans, retention, faults>>

Spent == [spent |-> TRUE]
Idle == [pc |-> "idle"]

\* unmarked: the transaction failed, and so did the marker that should say so
CaptureType ==
  {"none", "retaining", "writing", "staging", "staged", "failed", "unmarked", "lost"}
PreviewType == [cutoff : SUBSET Attempts, files : SUBSET Attempts]

\* id: the preview executed; cutoff: the scans older than the one asked for; left: the
\* quarantines listed and not yet dealt with; from and known: the one being restored and
\* the images it may hold; files: those to remove; todo: those left to move, either way
CallType ==
  [id : Previews \cup {Nothing}, cutoff : SUBSET Attempts,
   pc : {"list", "recover", "restore", "select", "move", "undo", "delete"},
   left : SUBSET Previews, from : Previews \cup {Nothing}, known : SUBSET Attempts,
   todo : SUBSET Attempts, files : SUBSET Attempts]

Init ==
  /\ pending = {} /\ final = {} /\ marked = {}
  /\ quarantine = [p \in Previews |-> {}]
  /\ rows = {} /\ flagged = {} /\ pruned = {} /\ executed = {} /\ recovered = {}
  /\ capture = [a \in Attempts |-> "none"] /\ late = {}
  /\ active = FALSE /\ ofSession = {} /\ started = FALSE
  /\ previews = [p \in Previews |-> Nothing]
  /\ call = [c \in Callers |-> Idle]
  /\ faults = 0 /\ overlapped = FALSE

\* Nothing is no value of the program
ASSUME EvidenceConstants ==
  /\ MaxFaults \in Nat
  /\ Nothing \notin PreviewType \cup {Spent} \cup Previews
  /\ \A images \in SUBSET Attempts : Nothing # images

\* a write, a move or a transaction that throws, or the end of the process
Fault == faults < MaxFaults /\ faults' = faults + 1

-----------------------------------------------------------------------------
(* A scan keeps its image and records it.                                   *)

OpenSession ==
  /\ ~active /\ active' = TRUE /\ ofSession' = {}
  /\ UNCHANGED <<disk, database, capture, late, started, retention, faults>>

\* completed, or given up while a scan is running
EndSession ==
  /\ active /\ active' = FALSE /\ ofSession' = {}
  /\ UNCHANGED <<disk, database, capture, late, started, retention, faults>>

Reach(a, stage) == capture' = [capture EXCEPT ![a] = stage]

Keeping(a) == capture[a] \in {"retaining", "writing", "staging"}
Scanning == \E a \in Attempts : Keeping(a)

\* the capture time is taken once, and with it the image's name
BeginCapture(a) ==
  /\ active /\ capture[a] = "none" /\ ~Scanning
  /\ Reach(a, "retaining") /\ ofSession' = ofSession \cup {a}
  /\ UNCHANGED <<disk, database, late, active, started, retention, faults>>

\* _retain: an image already in place is verified and returned; a .pending one is left
\* to a review, whoever wrote it
Retain(a) ==
  /\ capture[a] = "retaining"
  /\ IF a \in final THEN Reach(a, "staging") /\ UNCHANGED pending
     ELSE IF a \in pending THEN Reach(a, "failed") /\ UNCHANGED pending
     ELSE Reach(a, "writing") /\ pending' = pending \cup {a}
  /\ UNCHANGED <<final, quarantine, marked, database, late, active, ofSession, started,
                 retention, faults>>

Promote(a) ==
  /\ capture[a] = "writing"
  /\ Reach(a, "staging")
  /\ pending' = pending \ {a} /\ final' = final \cup {a}
  /\ UNCHANGED <<quarantine, marked, database, late, active, ofSession, started,
                 retention, faults>>

WriteFails(a) ==
  /\ capture[a] = "writing" /\ Fault
  /\ Reach(a, "failed")
  /\ UNCHANGED <<disk, database, late, active, ofSession, started, retention>>

\* the store's own clock names the image again, before anything is written
Misnamed(a) ==
  /\ capture[a] = "staging" /\ a \in late
  /\ Reach(a, "failed")
  /\ UNCHANGED <<disk, database, late, active, ofSession, started, retention, faults>>

StageAttempt(a) ==
  /\ capture[a] = "staging" /\ a \notin late /\ a \in ofSession
  /\ Reach(a, "staged") /\ rows' = rows \cup {a}
  /\ UNCHANGED <<disk, flagged, pruned, executed, recovered, late, active, ofSession,
                 started, retention, faults>>

MarkFailure(a) == Reach(a, "failed") /\ marked' = marked \cup {a}

\* Mutation: the transaction's failure is only thrown.
FailsUnmarked(a) ==
  /\ capture[a] = "staging" /\ a \notin late
  /\ (a \notin ofSession /\ UNCHANGED faults) \/ Fault
  /\ Reach(a, "failed")
  /\ UNCHANGED <<disk, database, late, active, ofSession, started, retention>>

\* the transaction throws, with the session ended or by a fault: a marker says so, unless
\* it cannot be written either
StageFails(a) ==
  /\ capture[a] = "staging" /\ a \notin late
  /\ \/ a \notin ofSession /\ MarkFailure(a) /\ UNCHANGED faults
     \/ Fault /\ MarkFailure(a)
     \/ Fault /\ Reach(a, "unmarked") /\ UNCHANGED marked
  /\ UNCHANGED <<pending, final, quarantine, database, late, active, ofSession, started,
                 retention>>

Failed(a) == capture[a] \in {"failed", "unmarked"}

\* retryFailure, with the capture time of the first try
RetryCapture(a) ==
  /\ Failed(a) /\ a \in ofSession /\ ~Scanning
  /\ Reach(a, "retaining")
  /\ UNCHANGED <<disk, database, late, active, ofSession, started, retention, faults>>

Midnight ==
  /\ late' = {a \in Attempts : Keeping(a) \/ Failed(a)}
  /\ late' # {}
  /\ UNCHANGED <<disk, database, capture, active, ofSession, started, retention, faults>>

\* findRecoveryCandidates and findInvalidRecoveryReferences, at start-up
Candidates == pending \cup ((final \ rows) \ marked)
Invalid == rows \ final

Recover ==
  /\ ~started /\ started' = TRUE
  /\ flagged' = flagged \cup Candidates \cup Invalid
  /\ UNCHANGED <<disk, rows, pruned, executed, recovered, capture, late, active, ofSession,
                 retention, faults>>

\* the process dies and is started again: its memory is gone
Restart ==
  /\ Fault
  /\ capture' = [a \in Attempts |-> IF capture[a] \in {"none", "staged"}
                                     THEN capture[a] ELSE "lost"]
  /\ active' = FALSE /\ ofSession' = {} /\ started' = FALSE
  /\ previews' = [p \in Previews |-> IF previews[p] = Nothing THEN Nothing ELSE Spent]
  /\ call' = [c \in Callers |-> Idle]
  /\ late' = {} /\ UNCHANGED <<disk, database, overlapped>>

-----------------------------------------------------------------------------
(* RetentionService.                                                        *)

InCall(c, pc) == call[c] # Idle /\ call[c].pc = pc
Becomes(c, value) == call' = [call EXCEPT ![c] = value]
Goes(c, pc) == Becomes(c, [call[c] EXCEPT !.pc = pc])
Ends(c) == Becomes(c, Idle)

Unpruned == rows \ pruned

\* The dialog can be dismissed while its call runs (settings_screen.dart:261), and nothing
\* in the service makes the call of the next one wait: a removal meets another call.
Meets(c, id) ==
  \E d \in Callers \ {c} : call[d] # Idle /\ (id # Nothing \/ call[d].id # Nothing)

\* _requireSafeBoundary is asked here, and not again
Begin(c, id, cutoff) ==
  /\ call[c] = Idle /\ ~active
  /\ Becomes(c, [id |-> id, cutoff |-> cutoff, pc |-> "list", left |-> {},
                 from |-> Nothing, known |-> {}, todo |-> {}, files |-> {}])
  /\ overlapped' = (overlapped \/ Meets(c, id))
  /\ UNCHANGED <<disk, database, scans, previews, faults>>

\* the scans older than the cutoff that is asked for, those removed by then left out
BeginPreview(c) == \E cutoff \in SUBSET Unpruned : Begin(c, Nothing, cutoff)

\* no two dialogs show the same preview
BeginExecute(c, p) ==
  /\ previews[p] \in PreviewType
  /\ \A d \in Callers : call[d] # Idle => call[d].id # p
  /\ Begin(c, p, previews[p].cutoff)

\* _recoverQuarantines asks once what is owed and which quarantines there are
ListQuarantines(c) ==
  /\ InCall(c, "list")
  /\ Becomes(c, [call[c] EXCEPT !.pc = "recover", !.known = Unpruned,
                                !.left = {q \in Previews : quarantine[q] # {}}])
  /\ UNCHANGED <<disk, database, scans, previews, overlapped, faults>>

Visits(c, q) == InCall(c, "recover") /\ q \in call[c].left
Passes(c, q) == Becomes(c, [call[c] EXCEPT !.pc = "recover", !.left = @ \ {q}])

\* Mutation: every quarantine is taken for the rest of a finished removal.
DeletesAny(c, q) ==
  /\ Visits(c, q)
  /\ quarantine' = [quarantine EXCEPT ![q] = {}]
  /\ Passes(c, q)
  /\ UNCHANGED <<pending, final, marked, database, scans, previews, overlapped, faults>>

\* one listed quarantine after the other: a recorded removal's is deleted
RecoverCommitted(c, q) ==
  /\ Visits(c, q) /\ quarantine[q] # {} /\ q \in executed
  /\ quarantine' = [quarantine EXCEPT ![q] = {}]
  /\ Passes(c, q)
  /\ UNCHANGED <<pending, final, marked, database, scans, previews, overlapped, faults>>

RecoverInterrupted(c, q) ==
  /\ Visits(c, q) /\ quarantine[q] # {} /\ q \notin executed
  /\ Becomes(c, [call[c] EXCEPT !.pc = "restore", !.from = q, !.todo = quarantine[q]])
  /\ UNCHANGED <<disk, database, scans, previews, overlapped, faults>>

\* another call has emptied it: it is passed over, or deleted twice, which throws
RecoverGone(c, q) ==
  /\ Visits(c, q) /\ quarantine[q] = {}
  /\ Passes(c, q) \/ Ends(c)
  /\ UNCHANGED <<disk, database, scans, previews, overlapped, faults>>

\* Mutation: an interrupted removal is left for later.
SkipsRecovery(c) ==
  /\ InCall(c, "recover")
  /\ Goes(c, "select")
  /\ UNCHANGED <<disk, database, scans, previews, overlapped, faults>>

RecoveredAll(c) ==
  /\ InCall(c, "recover") /\ call[c].left = {}
  /\ Becomes(c, [call[c] EXCEPT !.pc = "select", !.from = Nothing, !.known = {}])
  /\ UNCHANGED <<disk, database, scans, previews, overlapped, faults>>

Restoring(c) == InCall(c, "restore") \/ InCall(c, "undo")

\* _restoreQuarantine, one listed file: back to its place, unless it is there already
RestoreFile(c, a) ==
  LET q == call[c].from IN
  /\ Restoring(c) /\ a \in call[c].todo
  /\ IF a \in call[c].known /\ a \in quarantine[q]
     THEN /\ quarantine' = [quarantine EXCEPT ![q] = @ \ {a}]
          /\ final' = final \cup {a}
          /\ Becomes(c, [call[c] EXCEPT !.todo = @ \ {a}])
     ELSE Ends(c) /\ UNCHANGED <<quarantine, final>>
  /\ UNCHANGED <<pending, marked, database, scans, previews, overlapped, faults>>

\* the directory goes, with all it holds by now; a second retention_recovered event of
\* the same preview is refused by its key, and the call throws
Restored(c) ==
  LET q == call[c].from IN
  /\ Restoring(c) /\ call[c].todo = {}
  /\ quarantine' = [quarantine EXCEPT ![q] = {}]
  /\ recovered' = recovered \cup {q}
  /\ IF InCall(c, "undo") \/ q \in recovered THEN Ends(c) ELSE Passes(c, q)
  /\ UNCHANGED <<pending, final, marked, rows, flagged, pruned, executed, scans, previews,
                 overlapped, faults>>

\* Mutation: the images on disk are listed, not those the database has.
EligibleOnDisk(c) == final \ pruned

\* _eligibleFiles
Eligible(c) == Unpruned \cap call[c].cutoff

\* preview: each eligible image must be in its place
Show(c, p) ==
  /\ InCall(c, "select") /\ call[c].id = Nothing
  /\ Eligible(c) \subseteq final /\ previews[p] = Nothing
  /\ previews' = [previews EXCEPT ![p] = [cutoff |-> call[c].cutoff, files |-> Eligible(c)]]
  /\ Ends(c)
  /\ UNCHANGED <<disk, database, scans, overlapped, faults>>

\* execute: what the preview showed, and nothing else, is there to be removed
Revalidate(c) ==
  LET p == call[c].id IN
  /\ InCall(c, "select") /\ p # Nothing
  /\ Eligible(c) = previews[p].files /\ Eligible(c) \subseteq final
  /\ IF Eligible(c) = {}
     THEN Ends(c) /\ previews' = [previews EXCEPT ![p] = Spent]
     ELSE /\ Becomes(c, [call[c] EXCEPT !.pc = "move", !.files = Eligible(c),
                                        !.todo = Eligible(c)])
          /\ UNCHANGED previews
  /\ UNCHANGED <<disk, database, scans, overlapped, faults>>

Refuse(c) ==
  /\ InCall(c, "select")
  /\ \/ ~(Eligible(c) \subseteq final)
     \/ call[c].id # Nothing /\ Eligible(c) # previews[call[c].id].files
  /\ Ends(c)
  /\ UNCHANGED <<disk, database, scans, previews, overlapped, faults>>

Undo(c) ==
  LET p == call[c].id IN
  IF quarantine[p] = {} THEN Ends(c)
  ELSE Becomes(c, [call[c] EXCEPT !.pc = "undo", !.from = p, !.known = call[c].files,
                                  !.todo = quarantine[p]])

MoveFile(c, a) ==
  LET p == call[c].id IN
  /\ InCall(c, "move") /\ a \in call[c].todo
  /\ IF a \in final
     THEN /\ final' = final \ {a}
          /\ quarantine' = [quarantine EXCEPT ![p] = @ \cup {a}]
          /\ Becomes(c, [call[c] EXCEPT !.todo = @ \ {a}])
     ELSE Undo(c) /\ UNCHANGED <<final, quarantine>>
  /\ UNCHANGED <<pending, marked, database, scans, previews, overlapped, faults>>

\* Mutation: the removal is recorded before the last image was moved.
CommitsEarly(c) ==
  LET p == call[c].id IN
  /\ InCall(c, "move") /\ p \notin executed
  /\ pruned' = pruned \cup call[c].files /\ executed' = executed \cup {p}
  /\ Goes(c, "delete")
  /\ UNCHANGED <<disk, rows, flagged, recovered, scans, previews, overlapped, faults>>

\* one transaction: the retention events and the retention_executed event
Commit(c) ==
  LET p == call[c].id IN
  /\ InCall(c, "move") /\ call[c].todo = {} /\ p \notin executed
  /\ pruned' = pruned \cup call[c].files /\ executed' = executed \cup {p}
  /\ Goes(c, "delete")
  /\ UNCHANGED <<disk, rows, flagged, recovered, scans, previews, overlapped, faults>>

\* a move or the transaction throws
ExecuteFails(c) ==
  /\ InCall(c, "move") /\ Fault
  /\ Undo(c)
  /\ UNCHANGED <<disk, database, scans, previews, overlapped>>

\* any other step throws
CallFails(c) ==
  /\ call[c] # Idle /\ call[c].pc \in {"list", "recover", "restore", "select", "undo"} /\ Fault
  /\ Ends(c)
  /\ UNCHANGED <<disk, database, scans, previews, overlapped>>

\* the quarantine is deleted, or left for the next recovery
DeleteQuarantine(c) ==
  LET p == call[c].id IN
  /\ InCall(c, "delete")
  /\ \/ quarantine' = [quarantine EXCEPT ![p] = {}] /\ UNCHANGED faults
     \/ Fault /\ UNCHANGED quarantine
  /\ previews' = [previews EXCEPT ![p] = Spent] /\ Ends(c)
  /\ UNCHANGED <<pending, final, marked, database, scans, overlapped>>

-----------------------------------------------------------------------------
Scan(a) ==
  \/ BeginCapture(a) \/ Retain(a) \/ Promote(a) \/ WriteFails(a) \/ Misnamed(a)
  \/ StageAttempt(a) \/ StageFails(a) \/ RetryCapture(a)

Retention(c) ==
  \/ BeginPreview(c)
  \/ \E p \in Previews :
        \/ BeginExecute(c, p) \/ RecoverCommitted(c, p) \/ RecoverInterrupted(c, p)
        \/ RecoverGone(c, p) \/ Show(c, p)
  \/ \E a \in Attempts : RestoreFile(c, a) \/ MoveFile(c, a)
  \/ ListQuarantines(c) \/ RecoveredAll(c) \/ Restored(c) \/ Revalidate(c) \/ Refuse(c)
  \/ Commit(c) \/ ExecuteFails(c) \/ CallFails(c) \/ DeleteQuarantine(c)

Next ==
  \/ OpenSession \/ EndSession \/ Midnight \/ Recover \/ Restart
  \/ \E a \in Attempts : Scan(a)
  \/ \E c \in Callers : Retention(c)

Spec == Init /\ [][Next]_vars

-----------------------------------------------------------------------------
\* Types of the state: what is on disk, in the database and in memory.
EvidenceTypeOK ==
  /\ pending \subseteq Attempts /\ final \subseteq Attempts /\ marked \subseteq Attempts
  /\ quarantine \in [Previews -> SUBSET Attempts]
  /\ rows \subseteq Attempts /\ flagged \subseteq Attempts /\ pruned \subseteq rows
  /\ executed \subseteq Previews /\ recovered \subseteq Previews
  /\ capture \in [Attempts -> CaptureType] /\ late \subseteq Attempts
  /\ active \in BOOLEAN /\ ofSession \subseteq Attempts /\ started \in BOOLEAN
  /\ previews \in [Previews -> PreviewType \cup {Nothing, Spent}]
  /\ call \in [Callers -> CallType \cup {Idle}]
  /\ faults \in 0..MaxFaults /\ overlapped \in BOOLEAN

\* the images a recovery would find: in their place, or in a quarantine it restores
Restorable == UNION {quarantine[p] : p \in Previews \ executed}

\* Until a removal has met another call of the service: wherever a crash, a failed write
\* or a customer's return cuts a removal short, the image of a recorded scan is at its path
\* or where the next recovery restores it from, until the removal is recorded; a removed
\* image is not left at its path; and what a quarantine holds is what its recovery expects:
\* nothing removed in one that would be restored, nothing else in one that would be deleted.
EvidenceKept ==
  ~overlapped =>
    /\ Unpruned \subseteq final \cup Restorable
    /\ pruned \cap final = {}
    /\ \A p \in Previews : IF p \in executed THEN quarantine[p] \subseteq pruned
                                             ELSE quarantine[p] \cap pruned = {}

\* Whoever calls: an image that is recorded and not removed can be had. "Every other
\* quarantine is restored exactly to its audited source path before another preview or
\* execution may run" (retention_service.dart:249).
QuarantineRestored == Unpruned \subseteq final \cup Restorable

\* what is silent until the next start-up, unless a retry in the same session records it: a
\* failed scan whose image was not written whole, has the name of another day, or whose
\* marker failed too
LeftForStartup(a) == Failed(a) /\ (a \in pending \cup late \/ capture[a] = "unmarked")

\* Once start-up recovery has returned, an image on disk that no row names is named by a
\* marker or by that recovery, or is this process's own: being kept, or one of the three
\* kinds left for the next start-up. So nothing of an earlier process is silent, and a whole
\* image whose transaction failed is not either, whether its session is over or not.
UnrecordedIsTraceable ==
  started => \A a \in (pending \cup final) \ rows :
    a \in marked \cup flagged \/ Keeping(a) \/ LeftForStartup(a)

\* Until a removal has met another call: when a preview is shown, every image the audit
\* still owes is back in its place, those of interrupted removals included, whatever cutoff
\* was asked for.
PreviewRestores ==
  [][\A p \in Previews :
       ~overlapped' /\ previews[p] = Nothing /\ previews'[p] \in PreviewType
         => Unpruned \subseteq final]_vars

\* the images that can be had, and what each preview that can still be executed lists
Kept == rows \cap (final \cup Restorable)
Shown == [p \in Previews |-> IF previews[p] \in PreviewType /\ p \notin executed
                             THEN previews[p].files ELSE Nothing]

\* Moving, committing and deleting, with every way they are cut short, is one step that
\* gives up exactly the images one preview showed, until a removal has met another call.
Archive == INSTANCE EvidenceArchive WITH
  recorded <- rows, removed <- pruned, kept <- Kept, shown <- Shown
ImplementsArchive == Archive!Init /\ [][Archive!Next \/ overlapped']_(Archive!vars)
=============================================================================
