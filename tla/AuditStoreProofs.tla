-------------------------- MODULE AuditStoreProofs --------------------------
(***************************************************************************)
(* Theorems about AuditStore, for any sets of sessions, objects, products  *)
(* and results and any bounds.                                             *)
(***************************************************************************)
EXTENDS AuditStore, FiniteSetTheorems, TLAPS

-----------------------------------------------------------------------------
(* Type correctness.                                                       *)

\* The rows of an empty database are well typed.
LEMMA StoreTypeInit == StoreInit => StoreTypeOK
  BY StoreBounds DEF StoreInit, StoreTypeOK, NoLines, Lines, TerminalStates

\* Every transaction keeps the rows well typed.
LEMMA StoreTypeStep == StoreTypeOK /\ [StoreNext]_storeVars => StoreTypeOK'
<1> SUFFICES ASSUME StoreTypeOK, [StoreNext]_storeVars PROVE StoreTypeOK'
  OBVIOUS
<1> USE DEF StoreTypeOK
<1>1. CASE RecoverInterruptedCheckout
  BY <1>1 DEF RecoverInterruptedCheckout, TerminalStates
<1>2. ASSUME NEW s \in Sessions, BeginSession(s) PROVE StoreTypeOK'
  BY <1>2 DEF BeginSession, TerminalStates
<1>3. ASSUME NEW s \in Sessions, AbandonSession(s) PROVE StoreTypeOK'
  BY <1>3 DEF AbandonSession, TerminalStates
<1>4. ASSUME NEW s \in Sessions, EnterManualCartMode(s) PROVE StoreTypeOK'
  BY <1>4 DEF EnterManualCartMode
<1>5. ASSUME NEW s \in Sessions, NEW n \in Attempts, StageAttempt(s, n)
      PROVE StoreTypeOK'
  BY <1>5 DEF StageAttempt
<1>6. ASSUME NEW s \in Sessions, NEW n \in Attempts, NEW r \in Results,
             CompleteAttempt(s, n, r)
      PROVE StoreTypeOK'
  BY <1>6 DEF CompleteAttempt
<1>7. ASSUME NEW s \in Sessions, NEW n \in Attempts, NEW o \in Objects,
             NEW p \in Products, RecordResolution(s, n, o, p)
      PROVE StoreTypeOK'
  BY <1>7 DEF RecordResolution
<1>8. ASSUME NEW s \in Sessions, NEW lines \in Lines, ReplaceDraftOrder(s, lines)
      PROVE StoreTypeOK'
  BY <1>8 DEF ReplaceDraftOrder
<1>9. ASSUME NEW s \in Sessions, NEW lines \in Lines,
             CommitSimulatedPayment(s, lines)
      PROVE StoreTypeOK'
  BY <1>9 DEF CommitSimulatedPayment, TerminalStates
<1>10. CASE UNCHANGED storeVars
  BY <1>10 DEF storeVars
<1> QED
  BY <1>1, <1>2, <1>3, <1>4, <1>5, <1>6, <1>7, <1>8, <1>9, <1>10
     DEF StoreNext

\* The state of the database stays within its schema, whatever is called.
THEOREM StoreTypeCorrect == StoreSpec => []StoreTypeOK
  BY StoreTypeInit, StoreTypeStep, PTL DEF StoreSpec

-----------------------------------------------------------------------------
(* What one transaction may do to the rows of a session.                   *)

\* A transaction touches the rows of one session, and only while it is active;
\* recovery changes the state of active sessions only.
LEMMA KeepsTerminalStep ==
  StoreTypeOK /\ [StoreNext]_storeVars => KeepsTerminal
<1> SUFFICES ASSUME StoreTypeOK, [StoreNext]_storeVars,
                    NEW t \in Sessions, sessionState[t] \in TerminalStates
             PROVE  sessionState'[t] = sessionState[t] /\ RowUnchanged(t)
  BY DEF KeepsTerminal
<1> USE DEF StoreTypeOK, RowUnchanged, TerminalStates
<1>1. CASE RecoverInterruptedCheckout
  BY <1>1 DEF RecoverInterruptedCheckout
<1>2. ASSUME NEW s \in Sessions, BeginSession(s) \/ AbandonSession(s)
      PROVE sessionState'[t] = sessionState[t] /\ RowUnchanged(t)
  BY <1>2 DEF BeginSession, CanBeginSession, AbandonSession,
              CanAbandonSession, IsActive
<1>3. ASSUME NEW s \in Sessions, EnterManualCartMode(s)
      PROVE sessionState'[t] = sessionState[t] /\ RowUnchanged(t)
  BY <1>3 DEF EnterManualCartMode, CanEnterManualCart, IsActive
<1>4. ASSUME NEW s \in Sessions, NEW n \in Attempts, StageAttempt(s, n)
      PROVE sessionState'[t] = sessionState[t] /\ RowUnchanged(t)
  BY <1>4 DEF StageAttempt, CanStageAttempt, IsActive
<1>5. ASSUME NEW s \in Sessions, NEW n \in Attempts, NEW r \in Results,
             CompleteAttempt(s, n, r)
      PROVE sessionState'[t] = sessionState[t] /\ RowUnchanged(t)
  BY <1>5 DEF CompleteAttempt, CanCompleteAttempt, IsActive
<1>6. ASSUME NEW s \in Sessions, NEW n \in Attempts, NEW o \in Objects,
             NEW p \in Products, RecordResolution(s, n, o, p)
      PROVE sessionState'[t] = sessionState[t] /\ RowUnchanged(t)
  BY <1>6 DEF RecordResolution, CanRecordResolution, IsActive
<1>7. ASSUME NEW s \in Sessions, NEW lines \in Lines, ReplaceDraftOrder(s, lines)
      PROVE sessionState'[t] = sessionState[t] /\ RowUnchanged(t)
  BY <1>7 DEF ReplaceDraftOrder, CanReplaceDraft, IsActive
<1>8. ASSUME NEW s \in Sessions, NEW lines \in Lines,
             CommitSimulatedPayment(s, lines)
      PROVE sessionState'[t] = sessionState[t] /\ RowUnchanged(t)
  BY <1>8 DEF CommitSimulatedPayment, CanCommitPayment, AlreadyPaid, IsActive
<1>9. CASE UNCHANGED storeVars
  BY <1>9 DEF storeVars
<1> QED
  BY <1>1, <1>2, <1>3, <1>4, <1>5, <1>6, <1>7, <1>8, <1>9 DEF StoreNext

\* Terminal sessions are frozen, for any number of sessions and attempts.
THEOREM StoreTerminalIsFrozen == StoreSpec => TerminalIsFrozen
  BY StoreTypeInit, StoreTypeStep, KeepsTerminalStep, PTL
     DEF StoreSpec, TerminalIsFrozen

\* Only StageAttempt, CompleteAttempt and RecordResolution write evidence rows.
LEMMA KeepsEvidenceStep ==
  StoreTypeOK /\ [StoreNext]_storeVars => KeepsEvidence
<1> SUFFICES ASSUME StoreTypeOK, [StoreNext]_storeVars PROVE KeepsEvidence
  OBVIOUS
<1> USE DEF StoreTypeOK, KeepsEvidence
<1>1. CASE UNCHANGED <<attempt, resolution>>
  BY <1>1
<1>2. ASSUME NEW s \in Sessions, NEW n \in Attempts, StageAttempt(s, n)
      PROVE KeepsEvidence
  BY <1>2, StoreBounds DEF StageAttempt, CanStageAttempt
<1>3. ASSUME NEW s \in Sessions, NEW n \in Attempts, NEW r \in Results,
             CompleteAttempt(s, n, r)
      PROVE KeepsEvidence
  BY <1>3, StoreBounds DEF CompleteAttempt, CanCompleteAttempt
<1>4. ASSUME NEW s \in Sessions, NEW n \in Attempts, NEW o \in Objects,
             NEW p \in Products, RecordResolution(s, n, o, p)
      PROVE KeepsEvidence
  BY <1>4 DEF RecordResolution, CanRecordResolution
<1> QED
  BY <1>1, <1>2, <1>3, <1>4
     DEF StoreNext, storeVars, RecoverInterruptedCheckout, BeginSession,
         AbandonSession, EnterManualCartMode, ReplaceDraftOrder,
         CommitSimulatedPayment

\* Evidence is append-only, for any number of sessions, attempts and objects.
THEOREM StoreEvidenceAppendOnly == StoreSpec => EvidenceAppendOnly
  BY StoreTypeInit, StoreTypeStep, KeepsEvidenceStep, PTL
     DEF StoreSpec, EvidenceAppendOnly

-----------------------------------------------------------------------------
(* The state invariants.                                                   *)

\* Completed scans are never uncompleted, so their number never falls.
LEMMA CompletedGrow ==
  ASSUME StoreTypeOK, KeepsEvidence, NEW s \in Sessions
  PROVE  /\ CompletedAttempts(s) \subseteq CompletedAttempts(s)'
         /\ Cardinality(CompletedAttempts(s)) \in Nat
         /\ Cardinality(CompletedAttempts(s)') \in Nat
         /\ Cardinality(CompletedAttempts(s)) <= Cardinality(CompletedAttempts(s)')
<1>1. CompletedAttempts(s) \subseteq CompletedAttempts(s)'
  BY DEF KeepsEvidence, CompletedAttempts
<1>2. IsFiniteSet(Attempts)
  BY FS_Interval, StoreBounds DEF Attempts
<1>3. IsFiniteSet(CompletedAttempts(s)) /\ IsFiniteSet(CompletedAttempts(s)')
  BY <1>2, FS_Subset DEF CompletedAttempts
<1> QED
  BY <1>1, <1>3, FS_Subset, FS_CardinalityType

\* The strengthening that makes the three safety invariants inductive is their
\* conjunction with the type: a paid session is frozen because it is completed.
StoreInv == StoreTypeOK /\ PaidIffCompleted /\ PaidOrderJustified
            /\ EvidenceSupported

\* The inductive invariant holds of an empty database.
LEMMA StoreInvInit == StoreInit => StoreInv
<1> SUFFICES ASSUME StoreInit PROVE StoreInv
  OBVIOUS
<1>1. PaidIffCompleted /\ PaidOrderJustified
  BY DEF StoreInit, PaidIffCompleted, PaidOrderJustified, AlreadyPaid
<1>2. EvidenceSupported
  BY DEF StoreInit, EvidenceSupported
<1> QED
  BY <1>1, <1>2, StoreTypeInit DEF StoreInv

\* Payment and completion are written by one transaction, and by no other.
LEMMA PaidIffCompletedStep ==
  StoreInv /\ [StoreNext]_storeVars => PaidIffCompleted'
<1> SUFFICES ASSUME StoreInv, [StoreNext]_storeVars PROVE PaidIffCompleted'
  OBVIOUS
<1> USE DEF StoreInv, StoreTypeOK, PaidIffCompleted, AlreadyPaid
<1>1. CASE UNCHANGED <<sessionState, payment>>
  BY <1>1
<1>2. CASE RecoverInterruptedCheckout
  BY <1>2 DEF RecoverInterruptedCheckout
<1>3. ASSUME NEW s \in Sessions, BeginSession(s) PROVE PaidIffCompleted'
  BY <1>3 DEF BeginSession, CanBeginSession
<1>4. ASSUME NEW s \in Sessions, AbandonSession(s) PROVE PaidIffCompleted'
  BY <1>4 DEF AbandonSession, CanAbandonSession, IsActive
<1>5. ASSUME NEW s \in Sessions, NEW lines \in Lines,
             CommitSimulatedPayment(s, lines)
      PROVE PaidIffCompleted'
  BY <1>5, StoreBounds DEF CommitSimulatedPayment
<1> QED
  BY <1>1, <1>2, <1>3, <1>4, <1>5
     DEF StoreNext, storeVars, EnterManualCartMode, StageAttempt,
         CompleteAttempt, RecordResolution, ReplaceDraftOrder

\* Only the commit adds a payment, and it checks the order it pays for.
LEMMA PaidOrderJustifiedStep ==
  StoreInv /\ [StoreNext]_storeVars => PaidOrderJustified'
<1> SUFFICES ASSUME StoreInv, [StoreNext]_storeVars,
                    NEW t \in Sessions, AlreadyPaid(t)'
             PROVE  (payment[t] = draft[t] /\ Justified(t, payment[t]))'
  BY DEF PaidOrderJustified
<1> USE DEF AlreadyPaid
<1>1. CASE AlreadyPaid(t)
  <2>1. sessionState[t] \in TerminalStates
    BY <1>1 DEF StoreInv, PaidIffCompleted, TerminalStates
  <2>2. RowUnchanged(t)
    BY <2>1, KeepsTerminalStep DEF StoreInv, KeepsTerminal
  <2>3. payment[t] = draft[t] /\ Justified(t, payment[t])
    BY <1>1 DEF StoreInv, PaidOrderJustified
  <2> QED
    BY <2>2, <2>3 DEF RowUnchanged, Justified, AllResolved, QuantitiesCover,
       ResolvedCount, IsLatest, CompletedAttempts, Contains
<1>2. CASE ~AlreadyPaid(t)
  <2>1. payment'[t] # payment[t]
    BY <1>2
  <2>2. PICK lines \in Lines : CommitSimulatedPayment(t, lines)
    <3>1. PICK s \in Sessions, lines \in Lines : CommitSimulatedPayment(s, lines)
      BY <2>1 DEF StoreNext, storeVars, RecoverInterruptedCheckout, BeginSession,
         AbandonSession, EnterManualCartMode, StageAttempt, CompleteAttempt,
         RecordResolution, ReplaceDraftOrder
    <3>2. s = t
      BY <2>1, <3>1 DEF CommitSimulatedPayment, StoreInv, StoreTypeOK
    <3> QED
      BY <3>1, <3>2
  <2>3. draft[t] = lines /\ Justified(t, lines)
    BY <1>2, <2>2 DEF CommitSimulatedPayment, CanCommitPayment
  <2>4. payment'[t] = lines /\ UNCHANGED <<attempt, resolution, draft, manualCart>>
    BY <1>2, <2>2 DEF CommitSimulatedPayment, StoreInv, StoreTypeOK
  <2> QED
    BY <2>3, <2>4 DEF Justified, AllResolved, QuantitiesCover, ResolvedCount,
       IsLatest, CompletedAttempts, Contains
<1> QED
  BY <1>1, <1>2

\* Manual cart mode is entered only after enough completed attempts, which stay.
LEMMA ManualCartEarnedStep ==
  ASSUME StoreInv, [StoreNext]_storeVars, NEW t \in Sessions, manualCart'[t]
  PROVE  Cardinality(CompletedAttempts(t)') > RetryLimit
<1>1. Cardinality(CompletedAttempts(t)) > RetryLimit
  <2>1. CASE manualCart[t]
    BY <2>1 DEF StoreInv, EvidenceSupported
  <2>2. CASE ~manualCart[t]
    <3>1. EnterManualCartMode(t)
      BY <2>2 DEF StoreInv, StoreTypeOK, StoreNext, storeVars,
         RecoverInterruptedCheckout, BeginSession, AbandonSession,
         EnterManualCartMode, StageAttempt, CompleteAttempt, RecordResolution,
         ReplaceDraftOrder, CommitSimulatedPayment
    <3> QED
      BY <3>1 DEF EnterManualCartMode, CanEnterManualCart
  <2> QED
    BY <2>1, <2>2
<1>2. Cardinality(CompletedAttempts(t)) <= Cardinality(CompletedAttempts(t)')
      /\ Cardinality(CompletedAttempts(t)) \in Nat
      /\ Cardinality(CompletedAttempts(t)') \in Nat
  BY CompletedGrow, KeepsEvidenceStep DEF StoreInv
<1> QED
  BY <1>1, <1>2, StoreBounds

\* A resolution is recorded for an object its attempt found, and both stay.
LEMMA EvidenceSupportedStep ==
  StoreInv /\ [StoreNext]_storeVars => EvidenceSupported'
<1> SUFFICES ASSUME StoreInv, [StoreNext]_storeVars, NEW t \in Sessions,
                    NEW m \in Attempts, NEW q \in Objects,
                    resolution'[t][m][q] # Unresolved
             PROVE  (m \in CompletedAttempts(t) /\ Contains(t, m, q))'
  BY ManualCartEarnedStep DEF EvidenceSupported
<1>1. m \in CompletedAttempts(t) /\ Contains(t, m, q)
  <2>1. CASE resolution[t][m][q] # Unresolved
    BY <2>1 DEF StoreInv, EvidenceSupported
  <2>2. CASE resolution[t][m][q] = Unresolved
    <3>1. resolution'[t][m][q] # resolution[t][m][q]
      BY <2>2
    <3>2. PICK s \in Sessions, n \in Attempts, o \in Objects, p \in Products :
            RecordResolution(s, n, o, p)
      BY <3>1 DEF StoreNext, storeVars, RecoverInterruptedCheckout,
         BeginSession, AbandonSession, EnterManualCartMode, StageAttempt,
         CompleteAttempt, ReplaceDraftOrder, CommitSimulatedPayment
    <3>3. s = t /\ n = m /\ o = q
      BY <3>1, <3>2 DEF RecordResolution, StoreInv, StoreTypeOK
    <3> QED
      BY <3>2, <3>3 DEF RecordResolution, CanRecordResolution, IsLatest
  <2> QED
    BY <2>1, <2>2
<1>2. attempt'[t][m] = attempt[t][m]
  BY <1>1, KeepsEvidenceStep DEF StoreInv, KeepsEvidence, CompletedAttempts
<1> QED
  BY <1>1, <1>2 DEF CompletedAttempts, Contains

\* The strengthened invariant is preserved by every transaction.
THEOREM StoreInvariant == StoreSpec => []StoreInv
<1>1. StoreInv /\ [StoreNext]_storeVars => StoreInv'
  BY StoreTypeStep, PaidIffCompletedStep, PaidOrderJustifiedStep,
     EvidenceSupportedStep DEF StoreInv
<1> QED
  BY <1>1, StoreInvInit, PTL DEF StoreSpec

\* No transaction makes a manual cart of a session that has not begun.
Untouched ==
  \A s \in Sessions : sessionState[s] = "none" => ~manualCart[s]

\* A session that has not begun is in nobody's manual cart.
LEMMA UntouchedStep ==
  StoreTypeOK /\ Untouched /\ [StoreNext]_storeVars => Untouched'
<1> SUFFICES ASSUME StoreTypeOK, Untouched, [StoreNext]_storeVars,
                    NEW t \in Sessions, sessionState'[t] = "none"
             PROVE  ~manualCart'[t]
  BY DEF Untouched
<1> USE DEF StoreTypeOK, Untouched
<1>1. sessionState[t] = "none"
  <2>1. KeepsTerminal
    BY KeepsTerminalStep
  <2>2. CASE sessionState[t] = "active"
    BY <2>2 DEF StoreNext, storeVars, RecoverInterruptedCheckout, BeginSession,
       CanBeginSession, AbandonSession, EnterManualCartMode, StageAttempt,
       CompleteAttempt, RecordResolution, ReplaceDraftOrder, CommitSimulatedPayment
  <2> QED
    BY <2>1, <2>2 DEF KeepsTerminal, TerminalStates
<1>2. CASE UNCHANGED manualCart
  BY <1>1, <1>2
<1>3. ASSUME NEW s \in Sessions, EnterManualCartMode(s) PROVE ~manualCart'[t]
  BY <1>1, <1>3 DEF EnterManualCartMode, CanEnterManualCart, IsActive
<1> QED
  BY <1>2, <1>3 DEF StoreNext, storeVars, RecoverInterruptedCheckout, BeginSession,
     AbandonSession, StageAttempt, CompleteAttempt, RecordResolution, ReplaceDraftOrder,
     CommitSimulatedPayment

\* What a customer finds in a new session is not left over from another.
THEOREM StoreUntouched == StoreSpec => []Untouched
<1>1. StoreInit => Untouched
  BY DEF StoreInit, Untouched
<1> QED
  BY <1>1, UntouchedStep, StoreTypeCorrect, PTL DEF StoreSpec

\* A session is completed exactly when it has a payment, whatever is called.
THEOREM StorePaidIffCompleted == StoreSpec => []PaidIffCompleted
<1>1. StoreInv => PaidIffCompleted
  BY DEF StoreInv
<1> QED
  BY <1>1, StoreInvariant, PTL

\* No paid order is ever left without the evidence that justified it.
THEOREM StorePaidOrderJustified == StoreSpec => []PaidOrderJustified
<1>1. StoreInv => PaidOrderJustified
  BY DEF StoreInv
<1> QED
  BY <1>1, StoreInvariant, PTL

\* The manual cart is earned and every resolution rests on a completed scan.
THEOREM StoreEvidenceSupported == StoreSpec => []EvidenceSupported
<1>1. StoreInv => EvidenceSupported
  BY DEF StoreInv
<1> QED
  BY <1>1, StoreInvariant, PTL

-----------------------------------------------------------------------------
(* Refinement of the session ledger.                                       *)

\* An empty database is an empty ledger.
LEMMA LedgerInitially == StoreInit => Ledger!LedgerInit
  BY DEF StoreInit, Ledger!LedgerInit, Life

\* Recovery is the one transaction that concerns every session: it discards the
\* active ones together, none of which has a payment.
LEMMA RecoverDiscards ==
  ASSUME StoreInv, RecoverInterruptedCheckout
  PROVE  Ledger!Discard({s \in Sessions : sessionState[s] = "active"})
<1> DEFINE S == {s \in Sessions : sessionState[s] = "active"}
<1> USE DEF StoreInv, StoreTypeOK, TerminalStates
<1>1. \A s \in S : payment[s] = NoOrder
  BY DEF PaidIffCompleted, AlreadyPaid
<1>2. sessionState' = [s \in Sessions |-> IF s \in S THEN "interrupted"
                                          ELSE sessionState[s]]
  BY <1>1 DEF RecoverInterruptedCheckout
<1>3. \A s \in S : Life[s] = "open"
  BY DEF Life
<1>4. Life' = [s \in Sessions |-> IF s \in S THEN "discarded" ELSE Life[s]]
  BY <1>2 DEF Life
<1> QED
  BY <1>3, <1>4 DEF Ledger!Discard, RecoverInterruptedCheckout

\* Every transaction is a step of the ledger or changes nothing it shows.
LEMMA LedgerStep ==
  StoreInv /\ [StoreNext]_storeVars
    => [Ledger!LedgerNext]_(Ledger!ledgerVars)
<1> SUFFICES ASSUME StoreInv, [StoreNext]_storeVars
             PROVE  Ledger!LedgerNext \/ UNCHANGED <<Life, payment>>
  BY DEF Ledger!ledgerVars
<1> USE DEF StoreInv, StoreTypeOK, TerminalStates
<1>1. CASE UNCHANGED <<sessionState, payment>>
  BY <1>1 DEF Life
<1>2. CASE RecoverInterruptedCheckout
  BY <1>2, RecoverDiscards DEF Ledger!LedgerNext
<1>3. ASSUME NEW s \in Sessions, BeginSession(s) PROVE Ledger!LedgerNext
  <2>1. Life[s] = "unused" /\ Life' = [Life EXCEPT ![s] = "open"]
    BY <1>3 DEF BeginSession, CanBeginSession, Life
  <2>2. Ledger!Open(s)
    BY <1>3, <2>1 DEF Ledger!Open, BeginSession
  <2> QED
    BY <2>2 DEF Ledger!LedgerNext
<1>4. ASSUME NEW s \in Sessions, AbandonSession(s) PROVE Ledger!LedgerNext
  <2>1. /\ Life[s] = "open"
        /\ Life' = [x \in Sessions |-> IF x \in {s} THEN "discarded" ELSE Life[x]]
    BY <1>4 DEF AbandonSession, CanAbandonSession, IsActive, Life
  <2>2. Ledger!Discard({s})
    BY <1>4, <2>1 DEF Ledger!Discard, AbandonSession
  <2> QED
    BY <2>2 DEF Ledger!LedgerNext
<1>5. ASSUME NEW s \in Sessions, NEW lines \in Lines,
             CommitSimulatedPayment(s, lines), ~AlreadyPaid(s)
      PROVE  Ledger!LedgerNext
  <2>1. Life[s] = "open" /\ Life' = [Life EXCEPT ![s] = "settled"]
    BY <1>5 DEF CommitSimulatedPayment, CanCommitPayment, IsActive, Life
  <2>2. Ledger!Settle(s, lines)
    BY <1>5, <2>1 DEF Ledger!Settle, CommitSimulatedPayment
  <2> QED
    BY <2>2 DEF Ledger!LedgerNext
<1> QED
  BY <1>1, <1>2, <1>3, <1>4, <1>5
     DEF StoreNext, storeVars, EnterManualCartMode, StageAttempt,
         CompleteAttempt, RecordResolution, ReplaceDraftOrder,
         CommitSimulatedPayment

\* The audit store implements the session ledger: a session is settled at most
\* once, never after it was discarded, and its order is never revised.
THEOREM StoreImplementsLedger == StoreSpec => ImplementsLedger
  BY LedgerInitially, LedgerStep, StoreInvariant, PTL
     DEF StoreSpec, ImplementsLedger, Ledger!LedgerSpec
=============================================================================
