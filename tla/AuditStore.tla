----------------------------- MODULE AuditStore -----------------------------
(***************************************************************************)
(* The audit database of the kiosk (DatabaseCheckoutAuditStore over the    *)
(* drift schema of BakeryDatabase).  Every public operation is one SQLite  *)
(* transaction, so each is one action: a guard CanX, the conditions under  *)
(* which the transaction commits, and an effect X.  A transaction whose    *)
(* guard is false throws and leaves the database as it was.                *)
(*                                                                         *)
(* StoreNext lets any operation be called at any time with any arguments:  *)
(* what is checked and proved here is what the store promises whatever its *)
(* callers do.  Checkout.tla composes the same actions with the controller *)
(* that really calls them.                                                 *)
(***************************************************************************)
EXTENDS Naturals, FiniteSets

CONSTANTS
  Sessions,      \* checkout session ids the store may hand out
  Objects,       \* object ids an inference result may contain
  Products,      \* products of the session's catalogue revision
  MaxAttempts,   \* bound: scan attempts of one session
  MaxQuantity,   \* bound: quantity of one order line
  RetryLimit,    \* settings_revisions.retry_limit of the session's snapshot
  Results,       \* inference results the worker may return
  Unknown,       \* an object no catalogue product is accepted for
  Absent,        \* an object id that a result does not contain
  NoAttempt,     \* no scan_attempts row
  Staged,        \* a scan_attempts row whose status is 'staged'
  Unresolved,    \* no current object_resolutions row
  NoOrder        \* no final order and no payment

Attempts == 1..MaxAttempts
Lines == [Products -> 0..MaxQuantity]
NoLines == [p \in Products |-> 0]

ASSUME StoreBounds ==
  /\ MaxAttempts \in Nat \ {0} /\ MaxQuantity \in Nat \ {0}
  /\ RetryLimit \in Nat
  /\ NoAttempt \notin Results /\ Staged \notin Results /\ NoAttempt # Staged
  /\ Unresolved \notin Products /\ NoOrder \notin Lines

ASSUME ResultShape ==
  Results \subseteq
    [usable: BOOLEAN, object: [Objects -> Products \cup {Unknown, Absent}]]

VARIABLES
  sessionState,  \* checkout_sessions.state; "none" before the row exists
  attempt,       \* scan_attempts and, once completed, their inference rows
  resolution,    \* the current object_resolutions row of each object
  draft,         \* draft_order_lines
  manualCart,    \* a 'manual_cart_entered' audit event exists
  payment        \* final_orders with their lines and simulated payment

storeVars == <<sessionState, attempt, resolution, draft, manualCart, payment>>

TerminalStates == {"completed", "abandoned", "interrupted"}

StoreTypeOK ==
  /\ sessionState \in [Sessions -> {"none", "active"} \cup TerminalStates]
  /\ attempt \in [Sessions -> [Attempts -> {NoAttempt, Staged} \cup Results]]
  /\ resolution \in
       [Sessions -> [Attempts -> [Objects -> Products \cup {Unresolved}]]]
  /\ draft \in [Sessions -> Lines]
  /\ manualCart \in [Sessions -> BOOLEAN]
  /\ payment \in [Sessions -> Lines \cup {NoOrder}]

StoreInit ==
  /\ sessionState = [s \in Sessions |-> "none"]
  /\ attempt = [s \in Sessions |-> [n \in Attempts |-> NoAttempt]]
  /\ resolution =
       [s \in Sessions |-> [n \in Attempts |-> [o \in Objects |-> Unresolved]]]
  /\ draft = [s \in Sessions |-> NoLines]
  /\ manualCart = [s \in Sessions |-> FALSE]
  /\ payment = [s \in Sessions |-> NoOrder]

-----------------------------------------------------------------------------
(* What the transactions read.                                             *)

IsActive(s) == s \in Sessions /\ sessionState[s] = "active"

AlreadyPaid(s) == s \in Sessions /\ payment[s] # NoOrder

CompletedAttempts(s) == {n \in Attempts : attempt[s][n] \in Results}

\* ORDER BY attempt_number DESC LIMIT 1 over the completed attempts
IsLatest(s, n) ==
  n \in CompletedAttempts(s) /\ \A m \in CompletedAttempts(s) : m <= n

Contains(s, n, o) == attempt[s][n].object[o] # Absent

ResolvedCount(s, n, p) == Cardinality({o \in Objects : resolution[s][n][o] = p})

\* resolutions.length = objects.length, for the latest completed attempt
AllResolved(s) ==
  \A n \in Attempts : IsLatest(s, n) =>
    \A o \in Objects : Contains(s, n, o) => resolution[s][n][o] \in Products

\* every resolved product is in the draft, as often as it was resolved
QuantitiesCover(s, lines) ==
  \A n \in Attempts : IsLatest(s, n) =>
    \A p \in Products : ResolvedCount(s, n, p) <= lines[p]

Justified(s, lines) ==
  /\ lines # NoLines
  /\ manualCart[s] \/ (AllResolved(s) /\ QuantitiesCover(s, lines))

-----------------------------------------------------------------------------
(* Mutations: what a plausible mistake in a transaction would make of it.   *)
(* None of them is used by the specification; each breaks one property.    *)

\* the state of the session is not looked at
BeginsAgain(s) == s \in Sessions /\ sessionState[s] # "active"
StagesAtAnyTime(s, n) == attempt[s][n] = NoAttempt
AbandonsAnyStarted(s) == s \in Sessions /\ sessionState[s] # "none"

\* a resolution of an earlier scan is accepted
RecordsForAnyScan(s, n, o, p) ==
  IsActive(s) /\ n \in CompletedAttempts(s) /\ Contains(s, n, o) /\ p \in Products

\* the retry limit is off by one
EntersManualCartEarly(s) ==
  IsActive(s) /\ Cardinality(CompletedAttempts(s)) >= RetryLimit /\ ~manualCart[s]

\* the order is compared with the draft only
CommitsUnverified(s, lines) ==
  AlreadyPaid(s) \/ (IsActive(s) /\ draft[s] = lines /\ lines # NoLines)

\* a state the schema does not know
AbandonsAsCancelled(s) ==
  /\ IsActive(s)
  /\ sessionState' = [sessionState EXCEPT ![s] = "cancelled"]
  /\ UNCHANGED <<attempt, resolution, draft, manualCart, payment>>

-----------------------------------------------------------------------------
(* The transactions.                                                       *)

CanBeginSession(s) == s \in Sessions /\ sessionState[s] = "none"

BeginSession(s) ==
  /\ CanBeginSession(s)
  /\ sessionState' = [sessionState EXCEPT ![s] = "active"]
  /\ UNCHANGED <<attempt, resolution, draft, manualCart, payment>>

\* UNIQUE (session_id, attempt_number)
CanStageAttempt(s, n) == IsActive(s) /\ attempt[s][n] = NoAttempt

StageAttempt(s, n) ==
  /\ CanStageAttempt(s, n)
  /\ attempt' = [attempt EXCEPT ![s][n] = Staged]
  /\ UNCHANGED <<sessionState, resolution, draft, manualCart, payment>>

CanCompleteAttempt(s, n) == IsActive(s) /\ attempt[s][n] = Staged

CompleteAttempt(s, n, r) ==
  /\ CanCompleteAttempt(s, n)
  /\ attempt' = [attempt EXCEPT ![s][n] = r]
  /\ UNCHANGED <<sessionState, resolution, draft, manualCart, payment>>

\* The caller passes the object as attempt n recognised it; the store looks it
\* up in the latest completed attempt and compares the whole evidence row.
CanRecordResolution(s, n, o, p) ==
  IsActive(s) /\ IsLatest(s, n) /\ Contains(s, n, o) /\ p \in Products

RecordResolution(s, n, o, p) ==
  /\ CanRecordResolution(s, n, o, p)
  /\ resolution' = [resolution EXCEPT ![s][n][o] = p]
  /\ UNCHANGED <<sessionState, attempt, draft, manualCart, payment>>

CanReplaceDraft(s) == IsActive(s)

ReplaceDraftOrder(s, lines) ==
  /\ CanReplaceDraft(s)
  /\ draft' = [draft EXCEPT ![s] = lines]
  /\ UNCHANGED <<sessionState, attempt, resolution, manualCart, payment>>

CanEnterManualCart(s) ==
  /\ IsActive(s)
  /\ Cardinality(CompletedAttempts(s)) > RetryLimit
  /\ ~manualCart[s]

EnterManualCartMode(s) ==
  /\ CanEnterManualCart(s)
  /\ manualCart' = [manualCart EXCEPT ![s] = TRUE]
  /\ UNCHANGED <<sessionState, attempt, resolution, draft, payment>>

CanCommitPayment(s, lines) ==
  AlreadyPaid(s) \/ (IsActive(s) /\ draft[s] = lines /\ Justified(s, lines))

\* A second commit of a paid session returns the first payment's receipt.
CommitSimulatedPayment(s, lines) ==
  /\ CanCommitPayment(s, lines)
  /\ IF AlreadyPaid(s)
       THEN UNCHANGED <<sessionState, payment>>
       ELSE /\ sessionState' = [sessionState EXCEPT ![s] = "completed"]
            /\ payment' = [payment EXCEPT ![s] = lines]
  /\ UNCHANGED <<attempt, resolution, draft, manualCart>>

CanAbandonSession(s) == IsActive(s)

AbandonSession(s) ==
  /\ CanAbandonSession(s)
  /\ sessionState' = [sessionState EXCEPT ![s] = "abandoned"]
  /\ UNCHANGED <<attempt, resolution, draft, manualCart, payment>>

\* Start-up recovery: every session still active belongs to a dead process.
RecoverInterruptedCheckout ==
  /\ sessionState' =
       [s \in Sessions |->
          IF sessionState[s] # "active" THEN sessionState[s]
          ELSE IF payment[s] # NoOrder THEN "completed" ELSE "interrupted"]
  /\ UNCHANGED <<attempt, resolution, draft, manualCart, payment>>

StoreNext ==
  \/ RecoverInterruptedCheckout
  \/ \E s \in Sessions :
       \/ BeginSession(s)
       \/ AbandonSession(s)
       \/ EnterManualCartMode(s)
       \/ \E n \in Attempts :
            \/ StageAttempt(s, n)
            \/ \E r \in Results : CompleteAttempt(s, n, r)
            \/ \E o \in Objects, p \in Products : RecordResolution(s, n, o, p)
       \/ \E lines \in Lines :
            \/ ReplaceDraftOrder(s, lines)
            \/ CommitSimulatedPayment(s, lines)

StoreSpec == StoreInit /\ [][StoreNext]_storeVars

-----------------------------------------------------------------------------
(* What the store promises.                                                *)

\* A session is paid exactly when its state says so: the payment and the
\* terminal state are written by one transaction (commitSimulatedPayment), and
\* recovery never closes a paid session as interrupted.
PaidIffCompleted ==
  \A s \in Sessions : AlreadyPaid(s) <=> sessionState[s] = "completed"

\* The order of a paid session stays justified by the audit rows kept beside
\* it: it is the persisted draft, it is not empty, and unless the customer was
\* admitted to the manual cart every object of the latest completed scan is
\* resolved and billed at least as often as it was resolved.  No later scan,
\* resolution, draft or manual-cart entry may undermine it.
PaidOrderJustified ==
  \A s \in Sessions : AlreadyPaid(s) =>
    payment[s] = draft[s] /\ Justified(s, payment[s])

\* The manual cart is reached only after more completed scans than the retry
\* limit, and every resolution belongs to an object that a completed attempt of
\* the same session recognised.
EvidenceSupported ==
  \A s \in Sessions :
    /\ manualCart[s] => Cardinality(CompletedAttempts(s)) > RetryLimit
    /\ \A n \in Attempts, o \in Objects :
         resolution[s][n][o] # Unresolved =>
           n \in CompletedAttempts(s) /\ Contains(s, n, o)

RowUnchanged(s) ==
  /\ attempt'[s] = attempt[s] /\ resolution'[s] = resolution[s]
  /\ draft'[s] = draft[s] /\ manualCart'[s] = manualCart[s]
  /\ payment'[s] = payment[s]

KeepsTerminal ==
  \A s \in Sessions : sessionState[s] \in TerminalStates =>
    sessionState'[s] = sessionState[s] /\ RowUnchanged(s)

\* Nothing recorded about a terminal session ever changes again: the guards of
\* the operations achieve what the triggers of the schema enforce.
TerminalIsFrozen == [][KeepsTerminal]_storeVars

KeepsEvidence ==
  \A s \in Sessions, n \in Attempts :
    /\ attempt[s][n] # NoAttempt => attempt'[s][n] # NoAttempt
    /\ attempt[s][n] \in Results => attempt'[s][n] = attempt[s][n]
    /\ ~IsLatest(s, n) => resolution'[s][n] = resolution[s][n]

\* Evidence is append-only: a completed attempt keeps its result, a staged one
\* is never unstaged, and only objects of the latest completed scan are resolved.
EvidenceAppendOnly == [][KeepsEvidence]_storeVars

\* The life of a session as its operator sees it.
Life ==
  [s \in Sessions |->
     CASE sessionState[s] = "none" -> "unused"
       [] sessionState[s] = "active" -> "open"
       [] sessionState[s] = "completed" -> "settled"
       [] OTHER -> "discarded"]

Ledger == INSTANCE SessionLedger WITH
  Orders <- Lines, NoBill <- NoOrder, life <- Life, bill <- payment

\* The store implements the session ledger: every transaction opens a session,
\* settles one with an order or discards some, as the ledger allows, or leaves
\* life and bill of every session alone.
ImplementsLedger == Ledger!LedgerSpec
=============================================================================
