--------------------------- MODULE EvidenceProofs ---------------------------
(***************************************************************************)
(* No interleaving of scans, sessions, crashes, failures and retention      *)
(* calls loses evidence until a removal meets another call of the service,  *)
(* and none makes an unrecorded image silent, for any number of scans,      *)
(* dialogs, previews and faults.                                            *)
(***************************************************************************)
EXTENDS EvidenceFiles, TLAPS

\* a scan that is recorded is over, and one about to be recorded has its image; an image
\* is in one place
Placed ==
  /\ \A a \in rows : capture[a] = "staged"
  /\ \A a \in Attempts : capture[a] = "staging" => a \in final
  /\ \A a \in Attempts : capture[a] = "writing" => a \in pending
  /\ \A p \in Previews : quarantine[p] \subseteq rows /\ quarantine[p] \cap final = {}
  /\ \A p, q \in Previews : p # q => quarantine[p] \cap quarantine[q] = {}

\* a preview is executed once
ExecutedOnce ==
  \A p \in executed : \/ previews[p] = Spent
                      \/ \E c \in Callers : InCall(c, "delete") /\ call[c].id = p

\* no two calls execute one preview
OwnPreview ==
  \A c, d \in Callers :
    c # d /\ call[c] # Idle /\ call[d] # Idle /\ call[c].id = call[d].id
      => call[c].id = Nothing

\* what a call is sure of at each of its places, whatever other calls do
CallShaped(c) ==
  call[c] # Idle =>
    /\ call[c].id # Nothing
         => /\ previews[call[c].id] \in PreviewType
            /\ call[c].pc # "delete" => call[c].id \notin executed
    /\ call[c].pc = "delete" => call[c].id \in executed
    /\ call[c].pc \in {"move", "undo", "delete"} => call[c].id \in Previews
    /\ call[c].pc \in {"restore", "undo"} => call[c].from \in Previews
    /\ call[c].pc = "move" => call[c].files \subseteq rows /\ call[c].todo \subseteq call[c].files

\* no removal has met another call: two calls at once are of previews
PreviewsOnly ==
  \A c, d \in Callers : c # d /\ call[c] # Idle /\ call[d] # Idle => call[c].id = Nothing

\* what it knows besides as long as no removal has met another call
CallKnows(c) ==
  call[c] # Idle =>
    /\ call[c].pc \in {"recover", "restore"}
         => \A p \in Previews : quarantine[p] # {} => p \in call[c].left
    /\ call[c].pc \in {"restore", "undo"}
         => call[c].from \notin executed /\ quarantine[call[c].from] \subseteq call[c].todo
    /\ call[c].pc = "select" => \A p \in Previews : quarantine[p] = {}
    /\ call[c].pc = "move"
         => /\ call[c].files \subseteq Unpruned /\ call[c].files = previews[call[c].id].files
            /\ quarantine[call[c].id] \subseteq call[c].files
            /\ call[c].files \ call[c].todo \subseteq quarantine[call[c].id]
            /\ \A p \in Previews : p # call[c].id => quarantine[p] = {}

\* What the state says besides the types; most of the file shows that a step of each kind
\* keeps it.
EvidenceSafe ==
  /\ Placed /\ ExecutedOnce /\ OwnPreview /\ EvidenceKept
  /\ \A c \in Callers : CallShaped(c)
  /\ ~overlapped => PreviewsOnly /\ \A c \in Callers : CallKnows(c)

EvidenceInv == EvidenceTypeOK /\ EvidenceSafe

\* A call stays a call from one place to the next.
LEMMA CallMoves ==
  ASSUME NEW k \in CallType, NEW images \in SUBSET Attempts
  PROVE  [k EXCEPT !.pc = "move", !.files = images, !.todo = images] \in CallType
BY DEF CallType

LEMMA CallRestores ==
  ASSUME NEW k \in CallType, NEW q \in Previews, NEW images \in SUBSET Attempts
  PROVE  [k EXCEPT !.pc = "restore", !.from = q, !.todo = images] \in CallType
BY DEF CallType

LEMMA CallUndoes ==
  ASSUME EvidenceTypeOK, NEW c \in Callers, call[c] # Idle, call[c].id \in Previews, Undo(c)
  PROVE  call' \in [Callers -> CallType \cup {Idle}]
<1>1. call[c] \in CallType
  BY DEF EvidenceTypeOK
<1>2. CASE quarantine[call[c].id] = {}
  BY <1>2 DEF EvidenceTypeOK, Undo, Ends, Becomes
<1>3. CASE quarantine[call[c].id] # {}
  <2> DEFINE p == call[c].id
             k == [call[c] EXCEPT !.pc = "undo", !.from = p, !.known = call[c].files,
                                  !.todo = quarantine[p]]
  <2>1. call' = [call EXCEPT ![c] = k]
    BY <1>3 DEF Undo, Becomes
  <2>2. quarantine[p] \in SUBSET Attempts
    BY DEF EvidenceTypeOK
  <2>3. k \in CallType
    BY <1>1, <2>2 DEF CallType
  <2> QED
    BY <2>1, <2>3 DEF EvidenceTypeOK
<1> QED
  BY <1>2, <1>3

LEMMA PassTypes ==
  ASSUME EvidenceTypeOK, NEW c \in Callers, call[c] # Idle, NEW q \in Previews, Passes(c, q)
  PROVE  call' \in [Callers -> CallType \cup {Idle}]
<1> DEFINE k == [call[c] EXCEPT !.pc = "recover", !.left = @ \ {q}]
<1>1. call[c] \in CallType /\ call' = [call EXCEPT ![c] = k]
  BY DEF EvidenceTypeOK, Passes, Becomes
<1>2. k \in CallType
  BY <1>1 DEF CallType
<1> QED
  BY <1>1, <1>2 DEF EvidenceTypeOK

LEMMA BeginTypes ==
  ASSUME EvidenceTypeOK, NEW c \in Callers, NEW id \in Previews \cup {Nothing},
         NEW cutoff \in SUBSET Attempts, Begin(c, id, cutoff)
  PROVE  EvidenceTypeOK'
<1>1. call' \in [Callers -> CallType \cup {Idle}]
  BY DEF EvidenceTypeOK, Begin, Becomes, CallType
<1>2. overlapped' \in BOOLEAN
  BY DEF Begin
<1> QED
  BY <1>1, <1>2 DEF EvidenceTypeOK, Begin, disk, database, scans

\* The state keeps its types.
LEMMA EvidenceTypes == ASSUME EvidenceInv, [Next]_vars PROVE EvidenceTypeOK'
<1> USE DEF EvidenceTypeOK
<1>0. EvidenceTypeOK /\ \A c \in Callers : CallShaped(c)
  BY DEF EvidenceInv, EvidenceSafe
<1>1. CASE OpenSession
  BY <1>0, <1>1 DEF OpenSession, disk, database, scans, retention, CaptureType, CallType, PreviewType, Idle, Spent
<1>2. CASE EndSession
  BY <1>0, <1>2 DEF EndSession, disk, database, scans, retention, CaptureType, CallType, PreviewType, Idle, Spent
<1>3. CASE Midnight
  BY <1>0, <1>3 DEF Midnight, disk, database, scans, retention, CaptureType, CallType, PreviewType, Idle, Spent
<1>4. CASE Recover
  BY <1>0, <1>4 DEF Recover, Candidates, Invalid, disk, database, scans, retention, CaptureType, CallType, PreviewType, Idle, Spent
<1>5. CASE Restart
  <2>1. faults' \in 0..MaxFaults
    BY <1>0, <1>5, EvidenceConstants DEF Restart, Fault
  <2>2. previews' \in [Previews -> PreviewType \cup {Nothing, Spent}]
    BY <1>0, <1>5 DEF Restart
  <2> QED
    BY <1>0, <2>1, <2>2, <1>5 DEF Restart, disk, database, CaptureType
<1>6. ASSUME NEW a \in Attempts, BeginCapture(a) PROVE EvidenceTypeOK'
  BY <1>0, <1>6, EvidenceConstants DEF BeginCapture, Reach, disk, database, scans, retention, CaptureType, CallType, PreviewType, Idle, Spent
<1>7. ASSUME NEW a \in Attempts, Retain(a) PROVE EvidenceTypeOK'
  BY <1>0, <1>7, EvidenceConstants DEF Retain, Reach, disk, database, scans, retention, CaptureType, CallType, PreviewType, Idle, Spent
<1>8. ASSUME NEW a \in Attempts, Promote(a) PROVE EvidenceTypeOK'
  BY <1>0, <1>8, EvidenceConstants DEF Promote, Reach, disk, database, scans, retention, CaptureType, CallType, PreviewType, Idle, Spent
<1>9. ASSUME NEW a \in Attempts, WriteFails(a) PROVE EvidenceTypeOK'
  BY <1>0, <1>9, EvidenceConstants DEF WriteFails, Reach, Fault, disk, database, retention, CaptureType
<1>10. ASSUME NEW a \in Attempts, Misnamed(a) PROVE EvidenceTypeOK'
  BY <1>0, <1>10, EvidenceConstants DEF Misnamed, Reach, disk, database, scans, retention, CaptureType, CallType, PreviewType, Idle, Spent
<1>11. ASSUME NEW a \in Attempts, StageAttempt(a) PROVE EvidenceTypeOK'
  BY <1>0, <1>11, EvidenceConstants DEF StageAttempt, Reach, disk, database, scans, retention, CaptureType, CallType, PreviewType, Idle, Spent
<1>12. ASSUME NEW a \in Attempts, StageFails(a) PROVE EvidenceTypeOK'
  BY <1>0, <1>12, EvidenceConstants DEF StageFails, MarkFailure, Reach, Fault, disk, database, retention, CaptureType
<1>13. ASSUME NEW a \in Attempts, RetryCapture(a) PROVE EvidenceTypeOK'
  BY <1>0, <1>13, EvidenceConstants DEF RetryCapture, Reach, disk, database, scans, retention, CaptureType, CallType, PreviewType, Idle, Spent
<1>14. ASSUME NEW c \in Callers, BeginPreview(c) PROVE EvidenceTypeOK'
  BY <1>0, <1>14, BeginTypes DEF BeginPreview, Unpruned, disk, database, scans, retention, CaptureType, CallType, PreviewType, Idle, Spent
<1>15. ASSUME NEW c \in Callers, RecoveredAll(c) PROVE EvidenceTypeOK'
  <2> DEFINE k == [call[c] EXCEPT !.pc = "select", !.from = Nothing, !.known = {}]
  <2>1. call[c] \in CallType /\ call' = [call EXCEPT ![c] = k]
    BY <1>0, <1>15 DEF RecoveredAll, InCall, Becomes
  <2>2. k \in CallType
    BY <2>1 DEF CallType
  <2>3. call' \in [Callers -> CallType \cup {Idle}]
    BY <1>0, <2>1, <2>2
  <2> QED
    BY <1>0, <1>15, <2>3 DEF RecoveredAll, disk, database, scans, retention
<1>16. ASSUME NEW c \in Callers, Restored(c) PROVE EvidenceTypeOK'
  <2>1. call' \in [Callers -> CallType \cup {Idle}]
    BY <1>0, <1>16, PassTypes DEF Restored, Restoring, InCall, Ends, Becomes, CallShaped
  <2> QED
    BY <1>0, <1>16, <2>1, EvidenceConstants DEF Restored, disk, database, scans, retention, Restoring, InCall, CallShaped
<1>17. ASSUME NEW c \in Callers, Revalidate(c) PROVE EvidenceTypeOK'
  <2>1. call' \in [Callers -> CallType \cup {Idle}]
    <3>1. call[c] \in CallType /\ Eligible(c) \in SUBSET Attempts
      BY <1>0, <1>17 DEF Revalidate, InCall, Eligible, Unpruned
    <3>2. [call[c] EXCEPT !.pc = "move", !.files = Eligible(c), !.todo = Eligible(c)] \in CallType
      BY <3>1, CallMoves
    <3> QED
      BY <1>0, <1>17, <3>2 DEF Revalidate, Ends, Becomes
  <2> QED
    BY <1>0, <1>17, <2>1, EvidenceConstants DEF Revalidate, disk, database, scans, retention, Spent
<1>18. ASSUME NEW c \in Callers, Refuse(c) PROVE EvidenceTypeOK'
  BY <1>0, <1>18, EvidenceConstants DEF Refuse, InCall, Ends, Becomes, disk, database, scans, retention, CaptureType, CallType, PreviewType, Idle, Spent
<1>19. ASSUME NEW c \in Callers, Commit(c) PROVE EvidenceTypeOK'
  <2>1. call' \in [Callers -> CallType \cup {Idle}]
    BY <1>0, <1>19 DEF Commit, InCall, Goes, Becomes, CallType
  <2> QED
    BY <1>0, <1>19, <2>1, EvidenceConstants DEF Commit, disk, database, scans, retention, InCall, CallShaped, Unpruned
<1>20. ASSUME NEW c \in Callers, ExecuteFails(c) PROVE EvidenceTypeOK'
  <2>1. call' \in [Callers -> CallType \cup {Idle}]
    BY <1>0, <1>20, CallUndoes DEF ExecuteFails, InCall, CallShaped
  <2> QED
    BY <1>0, <1>20, <2>1, EvidenceConstants DEF ExecuteFails, disk, database, scans, retention, Fault
<1>21. ASSUME NEW c \in Callers, CallFails(c) PROVE EvidenceTypeOK'
  <2>1. call' \in [Callers -> CallType \cup {Idle}]
    BY <1>0, <1>21, EvidenceConstants DEF CallFails, Ends, Becomes, CallType
  <2> QED
    BY <1>0, <1>21, <2>1, EvidenceConstants DEF CallFails, disk, database, scans, retention, Fault
<1>22. ASSUME NEW c \in Callers, DeleteQuarantine(c) PROVE EvidenceTypeOK'
  <2>1. call' \in [Callers -> CallType \cup {Idle}]
    BY <1>0, <1>22 DEF DeleteQuarantine, Ends, Becomes
  <2> QED
    BY <1>0, <1>22, <2>1, EvidenceConstants DEF DeleteQuarantine, disk, database, scans, retention, Fault, InCall, CallShaped
<1>23. ASSUME NEW c \in Callers, NEW p \in Previews, BeginExecute(c, p) PROVE EvidenceTypeOK'
  BY <1>0, <1>23, BeginTypes DEF BeginExecute, disk, database, scans, retention, CaptureType, CallType, PreviewType, Idle, Spent
<1>24. ASSUME NEW c \in Callers, NEW p \in Previews, RecoverCommitted(c, p) PROVE EvidenceTypeOK'
  BY <1>0, <1>24, PassTypes DEF RecoverCommitted, Visits, InCall, disk, database, scans, retention
<1>25. ASSUME NEW c \in Callers, NEW p \in Previews, RecoverInterrupted(c, p) PROVE EvidenceTypeOK'
  <2>1. call' \in [Callers -> CallType \cup {Idle}]
    BY <1>0, <1>25, CallRestores DEF RecoverInterrupted, Visits, InCall, Becomes
  <2> QED
    BY <1>0, <1>25, <2>1, EvidenceConstants DEF RecoverInterrupted, disk, database, scans, retention
<1>26. ASSUME NEW c \in Callers, NEW p \in Previews, Show(c, p) PROVE EvidenceTypeOK'
  BY <1>0, <1>26, EvidenceConstants DEF Show, InCall, Ends, Becomes, Eligible, Unpruned, disk, database, scans, retention, CaptureType, CallType, PreviewType, Idle, Spent
<1>27. ASSUME NEW c \in Callers, NEW a \in Attempts, RestoreFile(c, a) PROVE EvidenceTypeOK'
  <2>1. call' \in [Callers -> CallType \cup {Idle}]
    BY <1>0, <1>27 DEF RestoreFile, Restoring, InCall, Ends, Becomes, CallType
  <2>2. call[c].from \in Previews
    BY <1>0, <1>27 DEF RestoreFile, Restoring, InCall, CallShaped
  <2> QED
    BY <1>0, <1>27, <2>1, <2>2 DEF RestoreFile, disk, database, scans, retention
<1>28. ASSUME NEW c \in Callers, NEW a \in Attempts, MoveFile(c, a) PROVE EvidenceTypeOK'
  <2>1. call' \in [Callers -> CallType \cup {Idle}]
    <3>1. CASE a \in final
      BY <1>0, <1>28, <3>1 DEF MoveFile, InCall, Becomes, CallType
    <3>2. CASE a \notin final
      BY <1>0, <1>28, <3>2, CallUndoes DEF MoveFile, InCall, CallShaped
    <3> QED
      BY <3>1, <3>2
  <2> QED
    BY <1>0, <1>28, <2>1, EvidenceConstants DEF MoveFile, disk, database, scans, retention, InCall, CallShaped
<1>30. ASSUME NEW c \in Callers, ListQuarantines(c) PROVE EvidenceTypeOK'
  <2>1. call' \in [Callers -> CallType \cup {Idle}]
    <3> DEFINE open == {q \in Previews : quarantine[q] # {}}
               k == [call[c] EXCEPT !.pc = "recover", !.known = Unpruned, !.left = open]
    <3>1. call[c] \in CallType /\ call' = [call EXCEPT ![c] = k]
      BY <1>0, <1>30 DEF ListQuarantines, InCall, Becomes
    <3>2. open \in SUBSET Previews /\ Unpruned \in SUBSET Attempts
      BY <1>0 DEF Unpruned
    <3>3. k \in CallType
      <4> HIDE DEF open
      <4> QED
        BY <3>1, <3>2 DEF CallType
    <3> QED
      BY <1>0, <3>1, <3>3
  <2> QED
    BY <1>0, <1>30, <2>1 DEF ListQuarantines, disk, database, scans, retention
<1>31. ASSUME NEW c \in Callers, NEW p \in Previews, RecoverGone(c, p) PROVE EvidenceTypeOK'
  <2>1. call' \in [Callers -> CallType \cup {Idle}]
    BY <1>0, <1>31, PassTypes DEF RecoverGone, Visits, InCall, Ends, Becomes
  <2> QED
    BY <1>0, <1>31, <2>1 DEF RecoverGone, disk, database, scans, retention
<1>29. CASE UNCHANGED vars
  BY <1>0, <1>29 DEF vars, disk, database, scans, retention
<1> QED
  BY <1>0, <1>1, <1>2, <1>3, <1>4, <1>5, <1>6, <1>7, <1>8, <1>9, <1>10, <1>11, <1>12, <1>13, <1>14, <1>15, <1>16, <1>17, <1>18, <1>19, <1>20, <1>21, <1>22, <1>23, <1>24, <1>25, <1>26, <1>27, <1>28, <1>29, <1>30, <1>31 DEF Next, Scan, Retention

-----------------------------------------------------------------------------
LEMMA SpentIsNoPreview == Spent \notin PreviewType
BY DEF Spent, PreviewType

\* A preview that was executed is known.
LEMMA ExecutedKnown ==
  ASSUME EvidenceInv, NEW p \in executed
  PROVE  previews[p] # Nothing
<1>0. EvidenceTypeOK /\ ExecutedOnce /\ \A c \in Callers : CallShaped(c)
  BY DEF EvidenceInv, EvidenceSafe
<1>1. p \in Previews /\ p # Nothing
  BY <1>0, EvidenceConstants DEF EvidenceTypeOK
<1>2. CASE previews[p] = Spent
  BY <1>2, EvidenceConstants
<1>3. ASSUME NEW c \in Callers, InCall(c, "delete"), call[c].id = p
      PROVE  previews[p] \in PreviewType
  BY <1>0, <1>1, <1>3 DEF CallShaped, InCall
<1> QED
  BY <1>0, <1>2, <1>3, EvidenceConstants DEF ExecutedOnce

\* What a step of one call does to the others' knowledge: nothing, as long as it leaves their
\* previews alone.
LEMMA OthersShaped ==
  ASSUME EvidenceInv, NEW c \in Callers, call'[c] = call[c], rows \subseteq rows',
         call[c] # Idle /\ call[c].id # Nothing
           => /\ previews'[call[c].id] = previews[call[c].id]
              /\ call[c].id \in executed' <=> call[c].id \in executed
  PROVE  CallShaped(c)'
<1>1. CallShaped(c) /\ Nothing \notin Previews
  BY EvidenceConstants DEF EvidenceInv, EvidenceSafe
<1> QED
  BY <1>1 DEF CallShaped

\* A call that meets no removal is of a preview, and only sees quarantines shrink.
LEMMA OthersKnow ==
  ASSUME EvidenceInv, ~overlapped, NEW c \in Callers, NEW d \in Callers, c # d,
         call'[c] = call[c], call[d] # Idle, executed' = executed,
         \A p \in Previews : quarantine'[p] \subseteq quarantine[p]
  PROVE  CallKnows(c)'
<1>1. CallShaped(c) /\ CallKnows(c) /\ Nothing \notin Previews /\ PreviewsOnly
  BY EvidenceConstants DEF EvidenceInv, EvidenceSafe
<1> SUFFICES ASSUME call[c] # Idle PROVE CallKnows(c)'
  BY DEF CallKnows
<1>2. call[c].id = Nothing
  BY <1>1 DEF PreviewsOnly
<1>3. call[c].pc \notin {"move", "undo", "delete"}
  BY <1>1, <1>2 DEF CallShaped
<1> QED
  BY <1>1, <1>3 DEF CallKnows, CallShaped

LEMMA OthersIdle ==
  ASSUME EvidenceInv, ~overlapped, NEW d \in Callers, call[d] # Idle, call[d].id # Nothing
  PROVE  \A c \in Callers : c # d => call[c] = Idle
BY DEF EvidenceInv, EvidenceSafe, PreviewsOnly

\* No two calls come to execute one preview, or a removal beside another call, while calls
\* only go on or end.
LEMMA IdentitiesKept ==
  ASSUME EvidenceInv, NEW d \in Callers, call[d] # Idle, overlapped' = overlapped,
         \A c \in Callers : c # d => call'[c] = call[c],
         call'[d] = Idle \/ call'[d].id = call[d].id
  PROVE  OwnPreview' /\ (~overlapped' => PreviewsOnly')
<1>1. OwnPreview /\ (~overlapped => PreviewsOnly)
  BY DEF EvidenceInv, EvidenceSafe
<1> QED
  BY <1>1 DEF OwnPreview, PreviewsOnly

\* Steps that leave every image and record where it is.
LEMMA CallStaysSafe ==
  ASSUME EvidenceInv, NEW d \in Callers, call[d] # Idle, ~InCall(d, "delete"),
         UNCHANGED <<disk, database, scans, previews, overlapped>>,
         \A c \in Callers : c # d => call'[c] = call[c],
         call'[d] = Idle \/ call'[d].id = call[d].id,
         CallShaped(d)', ~overlapped => CallKnows(d)'
  PROVE  EvidenceSafe'
<1>0. EvidenceTypeOK /\ Placed /\ EvidenceKept /\ ExecutedOnce
  BY DEF EvidenceInv, EvidenceSafe
<1>1. Placed' /\ EvidenceKept'
  BY <1>0 DEF Placed, EvidenceKept, Unpruned, Restorable, disk, database, scans
<1>2. ExecutedOnce'
  BY <1>0 DEF ExecutedOnce, database, InCall
<1>3. \A c \in Callers : CallShaped(c)'
  BY OthersShaped DEF database
<1>4. ASSUME ~overlapped', NEW c \in Callers PROVE CallKnows(c)'
  <2>1. CASE c = d
    BY <1>4, <2>1
  <2>2. CASE c # d
    BY <1>4, <2>2, OthersKnow DEF disk, database
  <2> QED
    BY <2>1, <2>2
<1> QED
  BY <1>1, <1>2, <1>3, <1>4, IdentitiesKept DEF EvidenceSafe

-----------------------------------------------------------------------------
\* Steps of a scan and of a session.
LEMMA ScansSafe ==
  ASSUME EvidenceInv,
         \/ OpenSession \/ EndSession \/ Midnight \/ Recover
         \/ \E a \in Attempts : Scan(a)
  PROVE  EvidenceSafe'
<1>0. /\ EvidenceTypeOK /\ Placed /\ EvidenceKept /\ ExecutedOnce /\ OwnPreview
      /\ \A c \in Callers : CallShaped(c)
      /\ ~overlapped => PreviewsOnly /\ \A c \in Callers : CallKnows(c)
  BY DEF EvidenceInv, EvidenceSafe
<1> USE DEF MarkFailure
<1>1. /\ UNCHANGED <<quarantine, pruned, executed, previews, call, overlapped>>
      /\ rows \subseteq rows' /\ final \subseteq final'
  BY DEF OpenSession, EndSession, Midnight, Recover, Scan, BeginCapture, Retain, Promote,
         WriteFails, Misnamed, StageAttempt, StageFails, RetryCapture, disk, database,
         scans, retention
<1>2. final' \cap rows \subseteq final /\ rows' \subseteq rows \cup final
  BY <1>0 DEF OpenSession, EndSession, Midnight, Recover, Scan, BeginCapture, Retain, Promote,
         WriteFails, Misnamed, StageAttempt, StageFails, RetryCapture, disk, database,
         scans, retention, Placed
<1>3. \A a \in rows' : capture'[a] = "staged"
  BY <1>0 DEF OpenSession, EndSession, Midnight, Recover, Scan, BeginCapture, Retain, Promote,
         WriteFails, Misnamed, StageAttempt, StageFails, RetryCapture, Reach, disk, database,
         scans, retention, Placed, EvidenceTypeOK, Failed
<1>4. \A a \in Attempts : /\ capture'[a] = "staging" => a \in final'
                          /\ capture'[a] = "writing" => a \in pending'
  BY <1>0 DEF OpenSession, EndSession, Midnight, Recover, Scan, BeginCapture, Retain, Promote,
         WriteFails, Misnamed, StageAttempt, StageFails, RetryCapture, Reach, disk, database,
         scans, retention, Placed, EvidenceTypeOK
<1>5. Placed'
  BY <1>0, <1>1, <1>2, <1>3, <1>4 DEF Placed
<1>6. Restorable' = Restorable
  BY <1>1 DEF Restorable
<1>7. pruned \subseteq rows
  BY <1>0 DEF EvidenceTypeOK
<1>8. EvidenceKept'
  BY <1>0, <1>1, <1>2, <1>6, <1>7 DEF EvidenceKept, Unpruned
<1>9. ExecutedOnce' /\ OwnPreview' /\ (~overlapped' => PreviewsOnly')
  BY <1>0, <1>1 DEF ExecutedOnce, OwnPreview, PreviewsOnly, InCall
<1>10. ASSUME NEW c \in Callers PROVE CallShaped(c)' /\ (~overlapped' => CallKnows(c)')
  BY <1>0, <1>1 DEF CallShaped, CallKnows, Unpruned
<1> QED
  BY <1>5, <1>8, <1>9, <1>10 DEF EvidenceSafe

LEMMA RestartSafe == ASSUME EvidenceInv, Restart PROVE EvidenceSafe'
<1>0. /\ EvidenceTypeOK /\ Placed /\ EvidenceKept /\ ExecutedOnce
      /\ \A c \in Callers : CallShaped(c)
  BY DEF EvidenceInv, EvidenceSafe
<1>1. UNCHANGED <<final, quarantine, rows, pruned, executed, overlapped>>
  BY DEF Restart, disk, database
<1>2. Placed'
  BY <1>0, <1>1 DEF Restart, Placed, EvidenceTypeOK
<1>3. EvidenceKept'
  BY <1>0, <1>1 DEF EvidenceKept, Unpruned, Restorable
<1>4. ASSUME NEW p \in executed' PROVE previews'[p] = Spent
  <2>1. p \in executed /\ p \in Previews
    BY <1>0, <1>1, <1>4 DEF EvidenceTypeOK
  <2>2. previews[p] # Nothing
    BY <1>0, <2>1, ExecutedKnown
  <2> QED
    BY <2>1, <2>2 DEF Restart
<1>5. ExecutedOnce'
  BY <1>4 DEF ExecutedOnce
<1>6. \A c \in Callers : call'[c] = Idle
  BY DEF Restart
<1> QED
  BY <1>2, <1>3, <1>5, <1>6 DEF EvidenceSafe, OwnPreview, PreviewsOnly, CallShaped, CallKnows

LEMMA BeginSafe ==
  ASSUME EvidenceInv, NEW d \in Callers,
         BeginPreview(d) \/ \E p \in Previews : BeginExecute(d, p)
  PROVE  EvidenceSafe'
<1>0. /\ EvidenceTypeOK /\ Placed /\ EvidenceKept /\ ExecutedOnce /\ OwnPreview
      /\ \A c \in Callers : CallShaped(c)
      /\ ~overlapped => PreviewsOnly /\ \A c \in Callers : CallKnows(c)
  BY DEF EvidenceInv, EvidenceSafe
<1>1. PICK id \in Previews \cup {Nothing}, cutoff \in SUBSET Attempts : Begin(d, id, cutoff)
  BY <1>0 DEF BeginPreview, BeginExecute, PreviewType, Unpruned, EvidenceTypeOK
<1>2. id # Nothing => /\ previews[id] \in PreviewType
                      /\ \A c \in Callers : call[c] # Idle => call[c].id # id
  <2>1. CASE BeginPreview(d)
    <3>1. PICK other \in SUBSET Unpruned : Begin(d, Nothing, other)
      BY <2>1 DEF BeginPreview
    <3>2. call'[d].id = Nothing /\ call'[d].id = id
      BY <1>0, <1>1, <3>1 DEF Begin, Becomes, EvidenceTypeOK
    <3> QED
      BY <3>2
  <2>2. ASSUME NEW p \in Previews, BeginExecute(d, p) PROVE id = p
    <3>1. call'[d].id = p /\ call'[d].id = id
      BY <1>0, <1>1, <2>2 DEF BeginExecute, Begin, Becomes, EvidenceTypeOK
    <3> QED
      BY <3>1
  <2> QED
    BY <2>1, <2>2 DEF BeginExecute
<1>3. /\ UNCHANGED <<disk, database, scans, previews>> /\ call[d] = Idle
      /\ overlapped' = (overlapped \/ Meets(d, id))
  BY <1>1 DEF Begin
<1>4. /\ call'[d].id = id /\ call'[d].pc = "list"
      /\ \A c \in Callers : c # d => call'[c] = call[c]
  BY <1>0, <1>1 DEF Begin, Becomes, EvidenceTypeOK
<1>5. id \notin executed
  <2> SUFFICES ASSUME id \in executed PROVE FALSE
    OBVIOUS
  <2>1. id # Nothing
    BY <1>0, EvidenceConstants DEF EvidenceTypeOK
  <2> QED
    BY <1>0, <1>2, <2>1, SpentIsNoPreview DEF ExecutedOnce, InCall
<1>6. Placed' /\ ExecutedOnce'
  BY <1>0, <1>3, <1>4 DEF Placed, ExecutedOnce, InCall, disk, database, scans
<1>7. EvidenceKept'
  BY <1>0, <1>3 DEF EvidenceKept, Unpruned, Restorable, disk, database
<1>8. OwnPreview'
  BY <1>0, <1>2, <1>4 DEF OwnPreview
<1>9. ASSUME NEW c \in Callers PROVE CallShaped(c)'
  <2>1. CASE c = d
    BY <1>2, <1>3, <1>4, <1>5, <2>1 DEF CallShaped, database
  <2>2. CASE c # d
    BY <1>3, <1>4, <2>2, OthersShaped DEF database
  <2> QED
    BY <2>1, <2>2
<1>10. ASSUME ~overlapped' PROVE PreviewsOnly' /\ \A c \in Callers : CallKnows(c)'
  <2>1. ~overlapped /\ ~Meets(d, id)
    BY <1>3, <1>10
  <2>2. \A c \in Callers : c # d /\ call[c] # Idle => call[c].id = Nothing /\ id = Nothing
    BY <2>1 DEF Meets
  <2>3. PreviewsOnly'
    BY <1>0, <1>4, <2>1, <2>2 DEF PreviewsOnly
  <2>4. ASSUME NEW c \in Callers PROVE CallKnows(c)'
    <3>1. CASE c = d
      BY <1>4, <3>1 DEF CallKnows
    <3>2. CASE c # d
      BY <1>0, <1>3, <1>4, <2>1, <3>2 DEF CallKnows, Unpruned, disk, database
    <3> QED
      BY <3>1, <3>2
  <2> QED
    BY <2>3, <2>4
<1> QED
  BY <1>6, <1>7, <1>8, <1>9, <1>10 DEF EvidenceSafe

-----------------------------------------------------------------------------
(* The recovery of interrupted removals.                                    *)

LEMMA ListSafe ==
  ASSUME EvidenceInv, NEW d \in Callers, ListQuarantines(d)
  PROVE  EvidenceSafe'
<1>0. EvidenceTypeOK /\ CallShaped(d)
  BY DEF EvidenceInv, EvidenceSafe
<1> DEFINE open == {q \in Previews : quarantine[q] # {}}
           k == [call[d] EXCEPT !.pc = "recover", !.known = Unpruned, !.left = open]
<1>1. call[d] # Idle /\ call[d].pc = "list" /\ call[d] \in CallType
  BY <1>0 DEF ListQuarantines, InCall, EvidenceTypeOK
<1>2. UNCHANGED <<disk, database, scans, previews, overlapped>>
  BY DEF ListQuarantines
<1>3. call'[d] = k /\ \A c \in Callers : c # d => call'[c] = call[c]
  BY <1>0 DEF ListQuarantines, Becomes, EvidenceTypeOK
<1>4. call'[d].id = call[d].id /\ call'[d].pc = "recover" /\ call'[d].left = open
  <2> HIDE DEF open
  <2> QED
    BY <1>1, <1>3 DEF CallType
<1>5. CallShaped(d)'
  BY <1>0, <1>1, <1>2, <1>4 DEF CallShaped, database
<1>6. CallKnows(d)'
  BY <1>2, <1>4 DEF CallKnows, disk
<1> QED
  BY <1>1, <1>2, <1>3, <1>4, <1>5, <1>6, CallStaysSafe DEF InCall

\* A quarantine is dealt with: it is empty afterwards, and was before unless its removal is
\* recorded.
LEMMA PassedSafe ==
  ASSUME EvidenceInv, NEW d \in Callers, NEW q \in Previews, call[d] # Idle,
         call[d] \in CallType, ~InCall(d, "delete"),
         UNCHANGED <<pending, final, rows, pruned, executed, capture, previews, overlapped>>,
         \A p \in Previews : quarantine'[p] = IF p = q THEN {} ELSE quarantine[p],
         ~overlapped => q \in executed \/ quarantine[q] = {},
         Ends(d) \/ (Passes(d, q) /\ call[d].pc \in {"recover", "restore"})
  PROVE  EvidenceSafe'
<1>0. /\ EvidenceTypeOK /\ Placed /\ EvidenceKept /\ ExecutedOnce /\ CallShaped(d)
      /\ ~overlapped => PreviewsOnly /\ CallKnows(d)
  BY DEF EvidenceInv, EvidenceSafe
<1>1. Placed'
  BY <1>0 DEF Placed
<1>2. \A c \in Callers : c # d => call'[c] = call[c]
  BY <1>0 DEF Ends, Passes, Becomes, EvidenceTypeOK
<1>3. \/ call'[d] = Idle
      \/ /\ call[d].pc \in {"recover", "restore"}
         /\ call'[d].id = call[d].id /\ call'[d].pc = "recover"
         /\ call'[d].left = call[d].left \ {q}
  <2>1. CASE Ends(d)
    BY <1>0, <2>1 DEF Ends, Becomes, EvidenceTypeOK
  <2>2. CASE Passes(d, q) /\ call[d].pc \in {"recover", "restore"}
    <3>1. call'[d] = [call[d] EXCEPT !.pc = "recover", !.left = @ \ {q}]
      BY <1>0, <2>2 DEF Passes, Becomes, EvidenceTypeOK
    <3> QED
      BY <2>2, <3>1 DEF CallType
  <2> QED
    BY <2>1, <2>2
<1>4. EvidenceKept'
  <2> SUFFICES ASSUME ~overlapped PROVE EvidenceKept'
    BY DEF EvidenceKept
  <2>1. Restorable' = Restorable
    BY DEF Restorable
  <2> QED
    BY <1>0, <2>1 DEF EvidenceKept, Unpruned
<1>5. ExecutedOnce'
  BY <1>0, <1>2 DEF ExecutedOnce, InCall
<1>6. \A c \in Callers : CallShaped(c)'
  <2>1. CallShaped(d)'
    BY <1>0, <1>3 DEF CallShaped
  <2> QED
    BY <1>2, <2>1, OthersShaped
<1>7. ASSUME ~overlapped', NEW c \in Callers PROVE CallKnows(c)'
  <2>1. CASE c = d
    BY <1>0, <1>3, <1>7, <2>1 DEF CallKnows
  <2>2. CASE c # d
    BY <1>2, <1>7, <2>2, OthersKnow
  <2> QED
    BY <2>1, <2>2
<1> QED
  BY <1>1, <1>2, <1>3, <1>4, <1>5, <1>6, <1>7, IdentitiesKept DEF EvidenceSafe

LEMMA RecoverySafe ==
  ASSUME EvidenceInv, NEW d \in Callers,
         \/ \E q \in Previews :
               RecoverCommitted(d, q) \/ RecoverInterrupted(d, q) \/ RecoverGone(d, q)
         \/ RecoveredAll(d)
  PROVE  EvidenceSafe'
<1>0. /\ EvidenceTypeOK /\ Placed /\ EvidenceKept /\ ExecutedOnce /\ CallShaped(d)
      /\ ~overlapped => CallKnows(d)
  BY DEF EvidenceInv, EvidenceSafe
<1>1. call[d] # Idle /\ call[d].pc = "recover" /\ call[d] \in CallType
  BY <1>0 DEF RecoverCommitted, RecoverInterrupted, RecoverGone, RecoveredAll, Visits, InCall,
     EvidenceTypeOK
<1>2. ASSUME NEW q \in Previews, RecoverCommitted(d, q) PROVE EvidenceSafe'
  <2>1. /\ UNCHANGED <<pending, final, rows, pruned, executed, capture, previews, overlapped>>
        /\ q \in executed /\ Passes(d, q)
        /\ \A p \in Previews : quarantine'[p] = IF p = q THEN {} ELSE quarantine[p]
    BY <1>0, <1>2 DEF RecoverCommitted, database, scans, EvidenceTypeOK
  <2> QED
    BY <1>1, <2>1, PassedSafe DEF InCall
<1>3. ASSUME NEW q \in Previews, RecoverGone(d, q) PROVE EvidenceSafe'
  <2>1. /\ UNCHANGED <<pending, final, rows, pruned, executed, capture, previews, overlapped>>
        /\ quarantine[q] = {} /\ (Ends(d) \/ Passes(d, q))
        /\ \A p \in Previews : quarantine'[p] = IF p = q THEN {} ELSE quarantine[p]
    BY <1>0, <1>3 DEF RecoverGone, disk, database, scans
  <2> QED
    BY <1>1, <2>1, PassedSafe DEF InCall
<1>4. ASSUME NEW q \in Previews, RecoverInterrupted(d, q) PROVE EvidenceSafe'
  <2>1. /\ call'[d] = [call[d] EXCEPT !.pc = "restore", !.from = q, !.todo = quarantine[q]]
        /\ \A c \in Callers : c # d => call'[c] = call[c]
    BY <1>0, <1>4 DEF RecoverInterrupted, Becomes, EvidenceTypeOK
  <2>2. UNCHANGED <<disk, database, scans, previews, overlapped>> /\ q \notin executed
    BY <1>4 DEF RecoverInterrupted
  <2>3. /\ call'[d].id = call[d].id /\ call'[d].pc = "restore" /\ call'[d].from = q
        /\ call'[d].todo = quarantine[q] /\ call'[d].left = call[d].left
    BY <1>1, <2>1 DEF CallType
  <2>4. CallShaped(d)'
    BY <1>0, <1>1, <2>2, <2>3 DEF CallShaped, database
  <2>5. ~overlapped => CallKnows(d)'
    BY <1>0, <1>1, <2>2, <2>3 DEF CallKnows, database, disk
  <2> QED
    BY <1>1, <2>1, <2>2, <2>3, <2>4, <2>5, CallStaysSafe DEF InCall
<1>5. CASE RecoveredAll(d)
  <2>1. /\ call'[d] = [call[d] EXCEPT !.pc = "select", !.from = Nothing, !.known = {}]
        /\ \A c \in Callers : c # d => call'[c] = call[c]
    BY <1>0, <1>5 DEF RecoveredAll, Becomes, EvidenceTypeOK
  <2>2. UNCHANGED <<disk, database, scans, previews, overlapped>> /\ call[d].left = {}
    BY <1>5 DEF RecoveredAll
  <2>3. call'[d].id = call[d].id /\ call'[d].pc = "select"
    BY <1>1, <2>1 DEF CallType
  <2>4. CallShaped(d)'
    BY <1>0, <1>1, <2>2, <2>3 DEF CallShaped, database
  <2>5. ~overlapped => CallKnows(d)'
    BY <1>0, <1>1, <2>2, <2>3 DEF CallKnows, disk
  <2> QED
    BY <1>1, <2>1, <2>2, <2>3, <2>4, <2>5, CallStaysSafe DEF InCall
<1> QED
  BY <1>2, <1>3, <1>4, <1>5

LEMMA RestoreFileSafe ==
  ASSUME EvidenceInv, NEW d \in Callers, NEW a \in Attempts, RestoreFile(d, a)
  PROVE  EvidenceSafe'
<1> DEFINE q == call[d].from
<1>0. /\ EvidenceTypeOK /\ Placed /\ EvidenceKept /\ ExecutedOnce /\ CallShaped(d)
      /\ ~overlapped => PreviewsOnly /\ CallKnows(d)
  BY DEF EvidenceInv, EvidenceSafe
<1>1. /\ call[d] # Idle /\ call[d].pc \in {"restore", "undo"} /\ call[d] \in CallType
      /\ a \in call[d].todo /\ overlapped' = overlapped
  BY <1>0 DEF RestoreFile, Restoring, InCall, EvidenceTypeOK
<1>2. /\ q \in Previews /\ (~overlapped => q \notin executed /\ quarantine[q] \subseteq call[d].todo)
      /\ call[d].pc = "undo" => call[d].id \in Previews
      /\ call[d].id # Nothing => previews[call[d].id] \in PreviewType /\ call[d].id \notin executed
  BY <1>0, <1>1 DEF CallShaped, CallKnows
<1>3. CASE a \in call[d].known /\ a \in quarantine[q]
  <2>1. /\ UNCHANGED <<pending, rows, pruned, executed, capture, previews>>
        /\ quarantine' = [quarantine EXCEPT ![q] = @ \ {a}]
        /\ final' = final \cup {a}
    BY <1>3 DEF RestoreFile, database, scans
  <2>2. /\ call'[d] = [call[d] EXCEPT !.todo = @ \ {a}]
        /\ \A c \in Callers : c # d => call'[c] = call[c]
    BY <1>0, <1>3 DEF RestoreFile, Becomes, EvidenceTypeOK
  <2>3. /\ call'[d].id = call[d].id /\ call'[d].pc = call[d].pc /\ call'[d].from = q
        /\ call'[d].todo = call[d].todo \ {a} /\ call'[d].left = call[d].left
    BY <1>1, <2>2 DEF CallType
  <2>4. a \in rows /\ \A p \in Previews : p # q => a \notin quarantine[p]
    BY <1>0, <1>2, <1>3 DEF Placed
  <2>5. \A p \in Previews : quarantine'[p] = IF p = q THEN quarantine[q] \ {a} ELSE quarantine[p]
    BY <1>0, <2>1 DEF EvidenceTypeOK
  <2>6. Placed'
    BY <1>0, <2>1, <2>4, <2>5 DEF Placed
  <2>7. EvidenceKept'
    <3> SUFFICES ASSUME ~overlapped PROVE EvidenceKept'
      BY <1>1 DEF EvidenceKept
    <3>1. Restorable \subseteq Restorable' \cup {a}
      BY <2>1, <2>5 DEF Restorable
    <3>2. a \notin pruned
      BY <1>0, <1>2, <1>3 DEF EvidenceKept
    <3> QED
      BY <1>0, <1>2, <2>1, <2>5, <3>1, <3>2 DEF EvidenceKept, Unpruned
  <2>8. ExecutedOnce'
    BY <1>0, <1>1, <2>1, <2>2 DEF ExecutedOnce, InCall
  <2>9. \A c \in Callers : CallShaped(c)'
    <3>1. CallShaped(d)'
      BY <1>0, <1>1, <1>2, <2>1, <2>3 DEF CallShaped
    <3> QED
      BY <2>1, <2>2, <3>1, OthersShaped
  <2>10. ASSUME ~overlapped', NEW c \in Callers PROVE CallKnows(c)'
    <3>1. CASE c = d
      BY <1>0, <1>1, <1>2, <2>1, <2>3, <2>5, <2>10, <3>1 DEF CallKnows
    <3>2. CASE c # d
      BY <1>1, <2>1, <2>2, <2>5, <2>10, <3>2, OthersKnow
    <3> QED
      BY <3>1, <3>2
  <2> QED
    BY <1>1, <2>2, <2>3, <2>6, <2>7, <2>8, <2>9, <2>10, IdentitiesKept DEF EvidenceSafe
<1>4. CASE ~(a \in call[d].known /\ a \in quarantine[q])
  <2>1. /\ UNCHANGED <<disk, database, scans, previews, overlapped>> /\ call'[d] = Idle
        /\ \A c \in Callers : c # d => call'[c] = call[c]
    BY <1>0, <1>4 DEF RestoreFile, Ends, Becomes, EvidenceTypeOK, disk
  <2> QED
    BY <1>1, <2>1, CallStaysSafe DEF CallShaped, CallKnows, InCall
<1> QED
  BY <1>3, <1>4

LEMMA RestoredSafe ==
  ASSUME EvidenceInv, NEW d \in Callers, Restored(d)
  PROVE  EvidenceSafe'
<1> DEFINE q == call[d].from
<1>0. /\ EvidenceTypeOK /\ CallShaped(d) /\ (~overlapped => CallKnows(d))
  BY DEF EvidenceInv, EvidenceSafe
<1>1. /\ call[d] # Idle /\ call[d].pc \in {"restore", "undo"} /\ call[d] \in CallType
      /\ call[d].todo = {} /\ (call[d].pc = "undo" => Ends(d)) /\ (Ends(d) \/ Passes(d, q))
  BY <1>0 DEF Restored, Restoring, InCall, EvidenceTypeOK
<1>2. q \in Previews /\ (~overlapped => quarantine[q] = {})
  BY <1>0, <1>1 DEF CallShaped, CallKnows
<1>3. /\ UNCHANGED <<pending, final, rows, pruned, executed, capture, previews, overlapped>>
      /\ \A p \in Previews : quarantine'[p] = IF p = q THEN {} ELSE quarantine[p]
  BY <1>0 DEF Restored, scans, EvidenceTypeOK
<1> QED
  BY <1>1, <1>2, <1>3, PassedSafe DEF InCall


-----------------------------------------------------------------------------
\* The selection of the images: a preview is shown, an execution begins or is refused.
LEMMA SelectSafe ==
  ASSUME EvidenceInv, NEW d \in Callers,
         (\E p \in Previews : Show(d, p)) \/ Revalidate(d) \/ Refuse(d)
  PROVE  EvidenceSafe'
<1>0. /\ EvidenceTypeOK /\ Placed /\ EvidenceKept /\ ExecutedOnce /\ OwnPreview
      /\ \A c \in Callers : CallShaped(c)
      /\ ~overlapped => PreviewsOnly /\ CallKnows(d)
  BY DEF EvidenceInv, EvidenceSafe
<1>1. call[d] # Idle /\ call[d].pc = "select" /\ call[d] \in CallType
  BY <1>0 DEF Show, Revalidate, Refuse, InCall, EvidenceTypeOK
<1>2. ~overlapped => \A p \in Previews : quarantine[p] = {}
  BY <1>0, <1>1 DEF CallKnows
<1>3. UNCHANGED <<disk, database, scans, overlapped>>
  BY DEF Show, Revalidate, Refuse
<1>4. \A c \in Callers : c # d => call'[c] = call[c]
  BY <1>0 DEF Show, Revalidate, Refuse, Ends, Becomes, EvidenceTypeOK
<1>5. Placed' /\ EvidenceKept'
  BY <1>0, <1>3 DEF Placed, EvidenceKept, Unpruned, Restorable, disk, database, scans
<1>6. ASSUME NEW c \in Callers, c # d, ~overlapped PROVE CallKnows(c)'
  BY <1>1, <1>3, <1>4, <1>6, OthersKnow DEF disk, database
<1>7. ASSUME NEW p \in Previews, Show(d, p) PROVE EvidenceSafe'
  <2>1. /\ previews[p] = Nothing /\ call'[d] = Idle
        /\ \A r \in Previews : r # p => previews'[r] = previews[r]
    BY <1>0, <1>7 DEF Show, Ends, Becomes, EvidenceTypeOK
  <2>2. p \notin executed
    BY <2>1, ExecutedKnown
  <2>3. ExecutedOnce'
    BY <1>0, <1>1, <1>3, <1>4, <2>1, <2>2 DEF ExecutedOnce, InCall, database, EvidenceTypeOK
  <2>4. \A c \in Callers : CallShaped(c)'
    <3>1. ASSUME NEW c \in Callers, c # d PROVE CallShaped(c)'
      <4>1. call[c] # Idle /\ call[c].id # Nothing
              => previews[call[c].id] \in PreviewType /\ call[c].id \in Previews
        BY <1>0 DEF CallShaped, EvidenceTypeOK, CallType
      <4>2. call[c] # Idle /\ call[c].id # Nothing => previews'[call[c].id] = previews[call[c].id]
        BY <2>1, <4>1, EvidenceConstants
      <4> QED
        BY <1>3, <1>4, <3>1, <4>2, OthersShaped DEF database
    <3> QED
      BY <2>1, <3>1 DEF CallShaped
  <2>5. ~overlapped' => \A c \in Callers : CallKnows(c)'
    BY <1>3, <1>6, <2>1 DEF CallKnows
  <2> QED
    BY <1>1, <1>3, <1>4, <1>5, <2>1, <2>3, <2>4, <2>5, IdentitiesKept DEF EvidenceSafe
<1>8. CASE Revalidate(d)
  <2> DEFINE p == call[d].id
  <2>1. /\ p \in Previews /\ p \notin executed /\ previews[p] \in PreviewType
        /\ Eligible(d) = previews[p].files
    BY <1>0, <1>1, <1>8 DEF Revalidate, CallShaped, CallType
  <2>2. CASE Eligible(d) = {}
    <3>1. call'[d] = Idle /\ previews' = [previews EXCEPT ![p] = Spent]
      BY <1>0, <1>8, <2>2 DEF Revalidate, Ends, Becomes, EvidenceTypeOK
    <3>2. ExecutedOnce'
      BY <1>0, <1>1, <1>3, <1>4, <3>1 DEF ExecutedOnce, InCall, database, EvidenceTypeOK
    <3>3. \A c \in Callers : CallShaped(c)'
      <4>1. ASSUME NEW c \in Callers, c # d PROVE CallShaped(c)'
        <5>1. call[c] # Idle /\ call[c].id # Nothing => call[c].id # p
          BY <1>0, <1>1, <4>1 DEF OwnPreview
        <5>2. call[c] # Idle /\ call[c].id # Nothing => previews'[call[c].id] = previews[call[c].id]
          BY <1>0, <3>1, <5>1 DEF EvidenceTypeOK, CallType
        <5> QED
          BY <1>3, <1>4, <4>1, <5>2, OthersShaped DEF database
      <4> QED
        BY <3>1, <4>1 DEF CallShaped
    <3>4. ~overlapped' => \A c \in Callers : CallKnows(c)'
      BY <1>3, <1>6, <3>1 DEF CallKnows
    <3> QED
      BY <1>1, <1>3, <1>4, <1>5, <3>1, <3>2, <3>3, <3>4, IdentitiesKept DEF EvidenceSafe
  <2>3. CASE Eligible(d) # {}
    <3>1. /\ call'[d] = [call[d] EXCEPT !.pc = "move", !.files = Eligible(d),
                                        !.todo = Eligible(d)]
          /\ previews' = previews
      BY <1>0, <1>8, <2>3 DEF Revalidate, Becomes, EvidenceTypeOK
    <3>2. /\ call'[d].id = p /\ call'[d].pc = "move" /\ call'[d].files = Eligible(d)
          /\ call'[d].todo = Eligible(d)
      BY <1>1, <3>1 DEF CallType
    <3>3. Eligible(d) \subseteq Unpruned' /\ Eligible(d) \subseteq rows'
      BY <1>3 DEF Eligible, Unpruned, database
    <3>4. CallShaped(d)'
      BY <1>3, <2>1, <3>1, <3>2, <3>3 DEF CallShaped, database
    <3>5. ~overlapped => CallKnows(d)'
      BY <1>2, <1>3, <2>1, <3>1, <3>2, <3>3 DEF CallKnows, disk
    <3>6. ExecutedOnce'
      BY <1>0, <1>1, <1>3, <1>4, <3>1 DEF ExecutedOnce, InCall, database
    <3>7. \A c \in Callers : CallShaped(c)'
      BY <1>3, <1>4, <3>1, <3>4, OthersShaped DEF database
    <3>8. ~overlapped' => \A c \in Callers : CallKnows(c)'
      BY <1>3, <1>6, <3>5
    <3> QED
      BY <1>1, <1>3, <1>4, <1>5, <3>2, <3>6, <3>7, <3>8, IdentitiesKept DEF EvidenceSafe
  <2> QED
    BY <2>2, <2>3
<1>9. CASE Refuse(d)
  <2>1. UNCHANGED previews /\ call'[d] = Idle
    BY <1>0, <1>9 DEF Refuse, Ends, Becomes, EvidenceTypeOK
  <2> QED
    BY <1>1, <1>3, <1>4, <2>1, CallStaysSafe DEF CallShaped, CallKnows, InCall
<1> QED
  BY <1>7, <1>8, <1>9

-----------------------------------------------------------------------------
(* A removal.                                                               *)

\* What every step of a removal starts from.
LEMMA MoveKnows ==
  ASSUME EvidenceInv, NEW d \in Callers, InCall(d, "move")
  PROVE  /\ call[d] \in CallType /\ call[d] # Idle /\ call[d].pc = "move"
         /\ call[d].id \in Previews \ executed
         /\ previews[call[d].id] \in PreviewType
         /\ call[d].files \subseteq rows /\ call[d].todo \subseteq call[d].files
         /\ ~overlapped =>
              /\ \A c \in Callers : c # d => call[c] = Idle
              /\ call[d].files \subseteq Unpruned
              /\ call[d].files = previews[call[d].id].files
              /\ quarantine[call[d].id] \subseteq call[d].files
              /\ call[d].files \ call[d].todo \subseteq quarantine[call[d].id]
              /\ \A p \in Previews : p # call[d].id => quarantine[p] = {}
<1>1. EvidenceTypeOK /\ CallShaped(d) /\ (~overlapped => CallKnows(d))
  BY DEF EvidenceInv, EvidenceSafe
<1>2. call[d] # Idle /\ call[d].pc = "move" /\ call[d] \in CallType
  BY <1>1 DEF InCall, EvidenceTypeOK
<1>3. call[d].id \in Previews
  BY <1>1, <1>2 DEF CallShaped
<1>4. call[d].id # Nothing
  BY <1>3, EvidenceConstants
<1>5. ~overlapped => \A c \in Callers : c # d => call[c] = Idle
  BY <1>2, <1>4, OthersIdle
<1> QED
  BY <1>1, <1>2, <1>3, <1>4, <1>5 DEF CallShaped, CallKnows

LEMMA UndoSafe ==
  ASSUME EvidenceInv, NEW d \in Callers, InCall(d, "move"), Undo(d),
         UNCHANGED <<disk, database, scans, previews, overlapped>>
  PROVE  EvidenceSafe'
<1> DEFINE p == call[d].id
<1>0. EvidenceTypeOK
  BY DEF EvidenceInv
<1>1. /\ call[d] \in CallType /\ call[d] # Idle /\ call[d].pc = "move"
      /\ p \in Previews \ executed /\ previews[p] \in PreviewType
  BY MoveKnows
<1>2. \A c \in Callers : c # d => call'[c] = call[c]
  BY <1>0 DEF Undo, Ends, Becomes, EvidenceTypeOK
<1>3. CASE quarantine[p] = {}
  <2>1. call'[d] = Idle
    BY <1>0, <1>3 DEF Undo, Ends, Becomes, EvidenceTypeOK
  <2> QED
    BY <1>1, <1>2, <2>1, CallStaysSafe DEF CallShaped, CallKnows, InCall
<1>4. CASE quarantine[p] # {}
  <2>1. call'[d] = [call[d] EXCEPT !.pc = "undo", !.from = p, !.known = call[d].files,
                                   !.todo = quarantine[p]]
    BY <1>0, <1>4 DEF Undo, Becomes, EvidenceTypeOK
  <2>2. /\ call'[d].id = p /\ call'[d].pc = "undo" /\ call'[d].from = p
        /\ call'[d].todo = quarantine[p]
    BY <1>1, <2>1 DEF CallType
  <2>3. CallShaped(d)'
    BY <1>1, <2>2 DEF CallShaped, database
  <2>4. CallKnows(d)'
    BY <1>1, <2>2 DEF CallKnows, disk, database
  <2> QED
    BY <1>1, <1>2, <2>2, <2>3, <2>4, CallStaysSafe DEF InCall
<1> QED
  BY <1>3, <1>4

LEMMA MoveFileSafe ==
  ASSUME EvidenceInv, NEW d \in Callers, NEW a \in Attempts, MoveFile(d, a)
  PROVE  EvidenceSafe'
<1> DEFINE p == call[d].id
<1>0. EvidenceTypeOK /\ Placed /\ EvidenceKept /\ ExecutedOnce
  BY DEF EvidenceInv, EvidenceSafe
<1>1. InCall(d, "move") /\ a \in call[d].todo /\ overlapped' = overlapped
  BY DEF MoveFile
<1>2. /\ call[d] \in CallType /\ call[d] # Idle /\ call[d].pc = "move"
      /\ p \in Previews \ executed /\ previews[p] \in PreviewType /\ a \in rows
      /\ call[d].files \subseteq rows /\ call[d].todo \subseteq call[d].files
  BY <1>1, MoveKnows
<1>3. ~overlapped =>
        /\ \A c \in Callers : c # d => call[c] = Idle
        /\ call[d].files = previews[p].files /\ call[d].files \subseteq Unpruned
        /\ quarantine[p] \subseteq call[d].files
        /\ call[d].files \ call[d].todo \subseteq quarantine[p]
        /\ \A r \in Previews : r # p => quarantine[r] = {}
  BY <1>1, MoveKnows
<1>4. CASE a \in final
  <2>1. /\ UNCHANGED <<pending, rows, pruned, executed, capture, previews>>
        /\ quarantine' = [quarantine EXCEPT ![p] = @ \cup {a}]
        /\ final' = final \ {a}
    BY <1>4 DEF MoveFile, database, scans
  <2>2. /\ call'[d] = [call[d] EXCEPT !.todo = @ \ {a}]
        /\ \A c \in Callers : c # d => call'[c] = call[c]
    BY <1>0, <1>4 DEF MoveFile, Becomes, EvidenceTypeOK
  <2>3. /\ call'[d].id = p /\ call'[d].pc = "move" /\ call'[d].files = call[d].files
        /\ call'[d].todo = call[d].todo \ {a}
    BY <1>2, <2>2 DEF CallType
  <2>4. \A r \in Previews : quarantine'[r] = IF r = p THEN quarantine[p] \cup {a}
                                                       ELSE quarantine[r]
    BY <1>0, <1>2, <2>1 DEF EvidenceTypeOK
  <2>5. Placed'
    <3>1. \A b \in Attempts : capture[b] = "staging" => b # a
      BY <1>0, <1>2 DEF Placed
    <3> QED
      BY <1>0, <1>2, <1>4, <2>1, <2>4, <3>1 DEF Placed
  <2>6. EvidenceKept'
    <3> SUFFICES ASSUME ~overlapped PROVE EvidenceKept'
      BY <1>1 DEF EvidenceKept
    <3>1. Restorable \cup {a} \subseteq Restorable'
      BY <1>2, <2>1, <2>4 DEF Restorable
    <3>2. a \notin pruned
      BY <1>1, <1>2, <1>3 DEF Unpruned
    <3> QED
      BY <1>0, <1>2, <2>1, <2>4, <3>1, <3>2 DEF EvidenceKept, Unpruned
  <2>7. ExecutedOnce'
    BY <1>0, <1>2, <2>1, <2>2 DEF ExecutedOnce, InCall
  <2>8. \A c \in Callers : CallShaped(c)'
    <3>1. CallShaped(d)'
      BY <1>2, <2>1, <2>3 DEF CallShaped
    <3> QED
      BY <2>1, <2>2, <3>1, OthersShaped
  <2>9. ASSUME ~overlapped', NEW c \in Callers PROVE CallKnows(c)'
    <3>1. CASE c = d
      <4>1. call'[d].files \ call'[d].todo \subseteq quarantine'[p]
        BY <1>1, <1>2, <1>3, <2>3, <2>4, <2>9
      <4>2. quarantine'[p] \subseteq call'[d].files
        BY <1>1, <1>2, <1>3, <2>3, <2>4, <2>9
      <4>3. call'[d].files \subseteq Unpruned'
        BY <1>1, <1>3, <2>1, <2>3, <2>9 DEF Unpruned
      <4> QED
        BY <1>1, <1>2, <1>3, <2>1, <2>3, <2>4, <2>9, <3>1, <4>1, <4>2, <4>3 DEF CallKnows
    <3>2. CASE c # d
      BY <1>1, <1>3, <2>2, <2>9, <3>2 DEF CallKnows
    <3> QED
      BY <3>1, <3>2
  <2> QED
    BY <1>1, <1>2, <2>2, <2>3, <2>5, <2>6, <2>7, <2>8, <2>9, IdentitiesKept DEF EvidenceSafe
<1>5. CASE a \notin final
  <2>1. UNCHANGED <<disk, database, scans, previews>> /\ Undo(d)
    BY <1>5 DEF MoveFile, disk
  <2> QED
    BY <1>1, <2>1, UndoSafe
<1> QED
  BY <1>4, <1>5

LEMMA CommitSafe ==
  ASSUME EvidenceInv, NEW d \in Callers, Commit(d)
  PROVE  /\ EvidenceSafe'
         /\ ~overlapped => /\ quarantine[call[d].id] = call[d].files
                           /\ final \cap call[d].files = {}
<1> DEFINE p == call[d].id
<1>0. /\ EvidenceTypeOK /\ Placed /\ EvidenceKept /\ ExecutedOnce /\ OwnPreview
      /\ \A c \in Callers : CallShaped(c)
  BY DEF EvidenceInv, EvidenceSafe
<1>1. InCall(d, "move") /\ call[d].todo = {} /\ overlapped' = overlapped
  BY DEF Commit
<1>2. /\ call[d] \in CallType /\ call[d] # Idle /\ call[d].pc = "move"
      /\ p \in Previews \ executed /\ previews[p] \in PreviewType
      /\ call[d].files \subseteq rows
  BY <1>1, MoveKnows
<1>3. ~overlapped =>
        /\ \A c \in Callers : c # d => call[c] = Idle
        /\ call[d].files \subseteq Unpruned
        /\ quarantine[p] \subseteq call[d].files
        /\ call[d].files \ call[d].todo \subseteq quarantine[p]
        /\ \A r \in Previews : r # p => quarantine[r] = {}
  BY <1>1, MoveKnows
<1>4. ~overlapped => quarantine[p] = call[d].files
  BY <1>1, <1>3
<1>5. ~overlapped => final \cap call[d].files = {}
  BY <1>0, <1>2, <1>4 DEF Placed
<1>6. /\ UNCHANGED <<disk, rows, scans, previews>>
      /\ pruned' = pruned \cup call[d].files /\ executed' = executed \cup {p}
  BY DEF Commit
<1>7. /\ call'[d] = [call[d] EXCEPT !.pc = "delete"]
      /\ \A c \in Callers : c # d => call'[c] = call[c]
  BY <1>0 DEF Commit, Goes, Becomes, EvidenceTypeOK
<1>8. call'[d].id = p /\ call'[d].pc = "delete" /\ call'[d] # Idle
  BY <1>2, <1>7 DEF CallType, Idle
<1>9. Placed'
  BY <1>0, <1>6 DEF Placed, disk, scans
<1>10. EvidenceKept'
  <2> SUFFICES ASSUME ~overlapped PROVE EvidenceKept'
    BY <1>1 DEF EvidenceKept
  <2>1. Restorable \subseteq call[d].files
    BY <1>2, <1>3, <1>4 DEF Restorable
  <2> QED
    BY <1>0, <1>2, <1>3, <1>4, <1>5, <1>6, <2>1 DEF EvidenceKept, Unpruned, disk
<1>11. ExecutedOnce'
  <2>1. \A c \in Callers : InCall(c, "delete") => InCall(c, "delete")' /\ call'[c].id = call[c].id
    BY <1>2, <1>7 DEF InCall
  <2>2. InCall(d, "delete")'
    BY <1>8 DEF InCall
  <2> QED
    BY <1>0, <1>6, <1>8, <2>1, <2>2 DEF ExecutedOnce
<1>12. \A c \in Callers : CallShaped(c)'
  <2>1. CallShaped(d)'
    BY <1>2, <1>6, <1>8 DEF CallShaped
  <2>2. ASSUME NEW c \in Callers, c # d PROVE CallShaped(c)'
    <3>1. call[c] # Idle /\ call[c].id # Nothing => call[c].id # p
      BY <1>0, <1>2, <2>2 DEF OwnPreview
    <3> QED
      BY <1>6, <1>7, <2>2, <3>1, OthersShaped
  <2> QED
    BY <2>1, <2>2
<1>13. ASSUME ~overlapped', NEW c \in Callers PROVE CallKnows(c)'
  BY <1>1, <1>3, <1>7, <1>8, <1>13 DEF CallKnows
<1> QED
  BY <1>1, <1>2, <1>4, <1>5, <1>7, <1>8, <1>9, <1>10, <1>11, <1>12, <1>13, IdentitiesKept
     DEF EvidenceSafe

LEMMA CallFailsSafe ==
  ASSUME EvidenceInv, NEW d \in Callers, ExecuteFails(d) \/ CallFails(d)
  PROVE  EvidenceSafe'
<1>0. EvidenceTypeOK
  BY DEF EvidenceInv
<1>1. UNCHANGED <<disk, database, scans, previews, overlapped>>
  BY DEF ExecuteFails, CallFails
<1>2. CASE ExecuteFails(d)
  BY <1>1, <1>2, UndoSafe DEF ExecuteFails
<1>3. CASE CallFails(d)
  <2>1. /\ call[d] # Idle /\ call'[d] = Idle /\ ~InCall(d, "delete")
        /\ \A c \in Callers : c # d => call'[c] = call[c]
    BY <1>0, <1>3 DEF CallFails, Ends, Becomes, InCall, EvidenceTypeOK
  <2> QED
    BY <1>1, <2>1, CallStaysSafe DEF CallShaped, CallKnows
<1> QED
  BY <1>2, <1>3

LEMMA DeleteSafe ==
  ASSUME EvidenceInv, NEW d \in Callers, DeleteQuarantine(d)
  PROVE  EvidenceSafe'
<1> DEFINE p == call[d].id
<1>0. /\ EvidenceTypeOK /\ Placed /\ EvidenceKept /\ ExecutedOnce /\ OwnPreview
      /\ \A c \in Callers : CallShaped(c)
      /\ ~overlapped => PreviewsOnly
  BY DEF EvidenceInv, EvidenceSafe
<1>1. /\ call[d] # Idle /\ call[d].pc = "delete" /\ p \in executed /\ p \in Previews
      /\ overlapped' = overlapped
  BY <1>0 DEF DeleteQuarantine, InCall, CallShaped
<1>2. /\ UNCHANGED <<pending, final, rows, pruned, executed, capture>> /\ call'[d] = Idle
      /\ previews' = [previews EXCEPT ![p] = Spent]
      /\ \A c \in Callers : c # d => call'[c] = call[c]
  BY <1>0 DEF DeleteQuarantine, Ends, Becomes, database, scans, EvidenceTypeOK
<1>3. \A r \in Previews : /\ quarantine'[r] \subseteq quarantine[r]
                          /\ r # p => quarantine'[r] = quarantine[r]
  BY <1>0 DEF DeleteQuarantine, EvidenceTypeOK
<1>4. Placed'
  BY <1>0, <1>2, <1>3 DEF Placed
<1>5. Restorable' = Restorable
  BY <1>1, <1>2, <1>3 DEF Restorable
<1>6. EvidenceKept'
  BY <1>0, <1>1, <1>2, <1>3, <1>5 DEF EvidenceKept, Unpruned
<1>7. ExecutedOnce'
  <2> SUFFICES ASSUME NEW r \in executed
               PROVE  \/ previews'[r] = Spent
                      \/ \E c \in Callers : InCall(c, "delete")' /\ call'[c].id = r
    BY <1>2 DEF ExecutedOnce
  <2>1. CASE r = p
    BY <1>0, <1>1, <1>2, <2>1 DEF EvidenceTypeOK
  <2>2. CASE r # p
    BY <1>0, <1>1, <1>2, <2>2 DEF ExecutedOnce, InCall, EvidenceTypeOK
  <2> QED
    BY <2>1, <2>2
<1>8. \A c \in Callers : CallShaped(c)'
  <2>1. ASSUME NEW c \in Callers, c # d PROVE CallShaped(c)'
    <3>1. call[c] # Idle /\ call[c].id # Nothing => call[c].id # p /\ call[c].id \in Previews
      BY <1>0, <1>1, <2>1 DEF OwnPreview, EvidenceTypeOK, CallType
    <3>2. call[c] # Idle /\ call[c].id # Nothing => previews'[call[c].id] = previews[call[c].id]
      BY <1>0, <1>2, <3>1 DEF EvidenceTypeOK
    <3> QED
      BY <1>2, <2>1, <3>2, OthersShaped
  <2> QED
    BY <1>2, <2>1 DEF CallShaped
<1>9. ASSUME ~overlapped', NEW c \in Callers PROVE CallKnows(c)'
  <2>1. call[d].id # Nothing
    BY <1>1, EvidenceConstants
  <2>2. c # d => call[c] = Idle
    BY <1>1, <1>9, <2>1, OthersIdle
  <2> QED
    BY <1>2, <2>2 DEF CallKnows
<1> QED
  BY <1>1, <1>2, <1>4, <1>6, <1>7, <1>8, <1>9, IdentitiesKept DEF EvidenceSafe

-----------------------------------------------------------------------------
LEMMA EvidenceInvInit == Init => EvidenceInv
<1> SUFFICES ASSUME Init PROVE EvidenceInv
  OBVIOUS
<1>1. EvidenceTypeOK
  <2>1. /\ quarantine \in [Previews -> SUBSET Attempts]
        /\ capture \in [Attempts -> CaptureType]
        /\ previews \in [Previews -> PreviewType \cup {Nothing, Spent}]
        /\ call \in [Callers -> CallType \cup {Idle}]
    BY DEF Init, CaptureType
  <2>2. faults \in 0..MaxFaults
    BY EvidenceConstants DEF Init
  <2>3. pruned \subseteq rows /\ active \in BOOLEAN /\ started \in BOOLEAN
        /\ overlapped \in BOOLEAN
    BY DEF Init
  <2> QED
    BY <2>1, <2>2, <2>3 DEF Init, EvidenceTypeOK
<1>2. EvidenceSafe
  BY DEF Init, EvidenceSafe, Placed, EvidenceKept, Unpruned, Restorable, ExecutedOnce,
     OwnPreview, PreviewsOnly, CallShaped, CallKnows
<1> QED
  BY <1>1, <1>2 DEF EvidenceInv

LEMMA EvidenceInvNext == ASSUME EvidenceInv, [Next]_vars PROVE EvidenceInv'
<1>1. EvidenceTypeOK'
  BY EvidenceTypes
<1>2. EvidenceSafe'
  <2>1. CASE OpenSession \/ EndSession \/ Midnight \/ Recover \/ \E a \in Attempts : Scan(a)
    BY <2>1, ScansSafe
  <2>2. CASE Restart
    BY <2>2, RestartSafe
  <2>3. ASSUME NEW d \in Callers, Retention(d) PROVE EvidenceSafe'
    <3>1. CASE BeginPreview(d) \/ \E p \in Previews : BeginExecute(d, p)
      BY <3>1, BeginSafe
    <3>2. CASE \/ \E q \in Previews : \/ RecoverCommitted(d, q) \/ RecoverInterrupted(d, q)
                                      \/ RecoverGone(d, q)
               \/ RecoveredAll(d)
      BY <3>2, RecoverySafe
    <3>3. CASE (\E p \in Previews : Show(d, p)) \/ Revalidate(d) \/ Refuse(d)
      BY <3>3, SelectSafe
    <3>4. CASE ListQuarantines(d)
      BY <3>4, ListSafe
    <3>5. ASSUME NEW a \in Attempts, RestoreFile(d, a) \/ MoveFile(d, a) PROVE EvidenceSafe'
      BY <3>5, RestoreFileSafe, MoveFileSafe
    <3>6. CASE Restored(d)
      BY <3>6, RestoredSafe
    <3>7. CASE Commit(d)
      BY <3>7, CommitSafe
    <3>8. CASE ExecuteFails(d) \/ CallFails(d)
      BY <3>8, CallFailsSafe
    <3>9. CASE DeleteQuarantine(d)
      BY <3>9, DeleteSafe
    <3> QED
      BY <2>3, <3>1, <3>2, <3>3, <3>4, <3>5, <3>6, <3>7, <3>8, <3>9 DEF Retention
  <2>4. CASE UNCHANGED vars
    BY <2>4 DEF vars, disk, database, scans, retention, EvidenceInv, EvidenceSafe, Placed,
       EvidenceKept, Unpruned, Restorable, ExecutedOnce, OwnPreview, PreviewsOnly, CallShaped,
       CallKnows, InCall
  <2> QED
    BY <2>1, <2>2, <2>3, <2>4 DEF Next
<1> QED
  BY <1>1, <1>2 DEF EvidenceInv

LEMMA EvidenceInvHolds == Spec => []EvidenceInv
<1>1. EvidenceInv /\ [Next]_vars => EvidenceInv'
  BY EvidenceInvNext
<1> QED
  BY EvidenceInvInit, <1>1, PTL DEF Spec

\* retention_service.dart, audit_file_store.dart: whatever scans, dialogs, restarts and
\* failures do, overlapping removals included, the state is of its types: a removal is only
\* recorded of recorded scans, and no call is left with an identifier that is not there.
THEOREM EvidenceTypeCorrect == Spec => []EvidenceTypeOK
<1>1. EvidenceInv => EvidenceTypeOK
  BY DEF EvidenceInv
<1> QED
  BY <1>1, EvidenceInvHolds, PTL

\* retention_service.dart, audit_file_store.dart: however many dialogs call the service, no
\* crash, failure or customer's return during a removal costs an image that the audit still
\* owes, until the first removal that runs beside another call.
THEOREM EvidenceIsKept == Spec => []EvidenceKept
<1>1. EvidenceInv => EvidenceKept
  BY DEF EvidenceInv, EvidenceSafe
<1> QED
  BY <1>1, EvidenceInvHolds, PTL

-----------------------------------------------------------------------------
\* A preview is only ever shown by Show, with every interrupted removal restored.
LEMMA ShownRestored ==
  ASSUME EvidenceInv, [Next]_vars, ~overlapped',
         NEW p \in Previews, previews[p] = Nothing, previews'[p] \in PreviewType
  PROVE  Unpruned \subseteq final
<1>0. /\ EvidenceTypeOK /\ EvidenceKept
      /\ ~overlapped => \A c \in Callers : CallKnows(c)
  BY DEF EvidenceInv, EvidenceSafe
<1>1. previews' # previews /\ previews'[p] # Spent
  BY EvidenceConstants, SpentIsNoPreview
<1>2. ~Restart
  BY <1>1, EvidenceConstants DEF Restart
<1>3. PICK d \in Callers : Retention(d)
  BY <1>1, <1>2 DEF Next, Scan, OpenSession, EndSession, Midnight, Recover,
     BeginCapture, Retain, Promote, WriteFails, Misnamed, StageAttempt, StageFails,
     RetryCapture, vars, retention
<1>4. \E q \in Previews : Show(d, q)
  <2>1. ~Revalidate(d) /\ ~DeleteQuarantine(d)
    BY <1>0, <1>1, EvidenceConstants DEF Revalidate, DeleteQuarantine, EvidenceTypeOK
  <2> QED
    BY <1>1, <1>3, <2>1 DEF Retention, BeginPreview, BeginExecute, Begin, ListQuarantines,
       RecoverCommitted, RecoverInterrupted, RecoverGone, RestoreFile, MoveFile, RecoveredAll,
       Restored, Refuse, Commit, ExecuteFails, CallFails
<1>5. ~overlapped
  BY <1>4 DEF Show
<1>6. \A q \in Previews : quarantine[q] = {}
  BY <1>0, <1>4, <1>5 DEF Show, InCall, CallKnows
<1> QED
  BY <1>0, <1>5, <1>6 DEF EvidenceKept, Restorable

\* retention_service.dart _recoverQuarantines: until a removal has met another call, a preview
\* is shown only when no image that the audit still owes is left in a quarantine.
THEOREM PreviewsRestore == Spec => PreviewRestores
<1>1. EvidenceInv /\ [Next]_vars
        => [\A p \in Previews :
              ~overlapped' /\ previews[p] = Nothing /\ previews'[p] \in PreviewType
                => Unpruned \subseteq final]_vars
  BY ShownRestored
<1> QED
  BY <1>1, EvidenceInvHolds, PTL DEF Spec, PreviewRestores

-----------------------------------------------------------------------------
LEMMA TraceableNext ==
  ASSUME EvidenceInv, UnrecordedIsTraceable, [Next]_vars
  PROVE  UnrecordedIsTraceable'
<1>0. EvidenceTypeOK /\ Placed /\ \A c \in Callers : CallShaped(c)
  BY DEF EvidenceInv, EvidenceSafe
<1>1. CASE Restart
  BY <1>1 DEF Restart, UnrecordedIsTraceable
<1>2. CASE Recover
  BY <1>2 DEF Recover, UnrecordedIsTraceable, Candidates, disk
<1>3. CASE OpenSession \/ EndSession
  BY <1>3 DEF OpenSession, EndSession, UnrecordedIsTraceable, disk, database, Keeping,
     LeftForStartup, Failed
<1>4. CASE Midnight
  <2>1. \A a \in Attempts : LeftForStartup(a) => LeftForStartup(a)'
    BY <1>4 DEF Midnight, LeftForStartup, Failed, disk
  <2> QED
    BY <1>0, <1>4, <2>1 DEF Midnight, UnrecordedIsTraceable, disk, database, Keeping,
       EvidenceTypeOK
<1>5. ASSUME NEW a \in Attempts, Scan(a) PROVE UnrecordedIsTraceable'
  <2>1. /\ rows \subseteq rows' /\ marked \subseteq marked' /\ flagged' = flagged
        /\ started' = started /\ late' = late
        /\ (pending' \cup final') \subseteq (pending \cup final \cup {a})
        /\ pending \ {a} \subseteq pending'
    BY <1>5 DEF Scan, BeginCapture, Retain, Promote, WriteFails, Misnamed, StageAttempt,
       StageFails, MarkFailure, RetryCapture, disk, database, scans
  <2>2. \A b \in Attempts : b # a => capture'[b] = capture[b]
    BY <1>0, <1>5 DEF Scan, BeginCapture, Retain, Promote, WriteFails, Misnamed, StageAttempt,
       StageFails, MarkFailure, RetryCapture, Reach, EvidenceTypeOK
  <2>3. a \in rows' \cup marked' \/ Keeping(a)' \/ LeftForStartup(a)'
    <3>1. CASE BeginCapture(a) \/ Retain(a) \/ Promote(a) \/ RetryCapture(a)
      BY <1>0, <3>1 DEF BeginCapture, Retain, Promote, RetryCapture, Reach, Keeping,
         LeftForStartup, Failed, EvidenceTypeOK
    <3>2. CASE WriteFails(a)
      BY <1>0, <3>2 DEF WriteFails, Reach, LeftForStartup, Failed, Placed, disk, EvidenceTypeOK
    <3>3. CASE Misnamed(a)
      BY <1>0, <3>3 DEF Misnamed, Reach, LeftForStartup, Failed, EvidenceTypeOK
    <3>4. CASE StageAttempt(a)
      BY <3>4 DEF StageAttempt
    <3>5. CASE StageFails(a)
      BY <1>0, <3>5 DEF StageFails, MarkFailure, Reach, LeftForStartup, Failed, EvidenceTypeOK
    <3> QED
      BY <1>5, <3>1, <3>2, <3>3, <3>4, <3>5 DEF Scan
  <2>4. \A b \in Attempts : b # a => /\ Keeping(b) => Keeping(b)'
                                     /\ LeftForStartup(b) => LeftForStartup(b)'
    BY <2>1, <2>2 DEF Keeping, LeftForStartup, Failed
  <2> QED
    BY <1>0, <2>1, <2>3, <2>4 DEF UnrecordedIsTraceable, EvidenceTypeOK
<1>6. ASSUME NEW c \in Callers, Retention(c) PROVE UnrecordedIsTraceable'
  <2>1. UNCHANGED <<pending, marked, rows, flagged, capture, late, started>>
    BY <1>6 DEF Retention, BeginPreview, BeginExecute, Begin, ListQuarantines, RecoverCommitted,
       Show, RecoverInterrupted, RecoverGone, RestoreFile, MoveFile, RecoveredAll, Restored,
       Revalidate, Refuse, Commit, ExecuteFails, CallFails, DeleteQuarantine, disk, database,
       scans
  <2>2. final' \subseteq final \cup rows
    <3>1. ASSUME NEW a \in Attempts, RestoreFile(c, a) PROVE final' \subseteq final \cup rows
      <4>1. (a \in quarantine[call[c].from] /\ call[c].from \in Previews) \/ final' = final
        BY <1>0, <3>1 DEF RestoreFile, Restoring, InCall, CallShaped
      <4> QED
        BY <1>0, <3>1, <4>1 DEF RestoreFile, Placed
    <3> QED
      BY <1>6, <3>1 DEF Retention, BeginPreview, BeginExecute, Begin, ListQuarantines,
         RecoverCommitted, Show, RecoverInterrupted, RecoverGone, MoveFile, RecoveredAll,
         Restored, Revalidate, Refuse, Commit, ExecuteFails, CallFails, DeleteQuarantine, disk
  <2>3. \A a : (Keeping(a)' <=> Keeping(a)) /\ (LeftForStartup(a)' <=> LeftForStartup(a))
    BY <2>1 DEF Keeping, LeftForStartup, Failed
  <2> QED
    BY <2>1, <2>2, <2>3 DEF UnrecordedIsTraceable
<1>7. CASE UNCHANGED vars
  BY <1>7 DEF vars, disk, database, scans, UnrecordedIsTraceable, Keeping, LeftForStartup,
     Failed
<1> QED
  BY <1>1, <1>2, <1>3, <1>4, <1>5, <1>6, <1>7 DEF Next

\* audit_file_store.dart findRecoveryCandidates and the markers of a failed transaction:
\* whoever calls the retention service, an image no row names is named by a marker or a
\* report, or is a scan's of this process, under way or of the three kinds only the next
\* start-up finds.
THEOREM UnrecordedTraceable == Spec => []UnrecordedIsTraceable
<1>1. Init => UnrecordedIsTraceable
  BY DEF Init, UnrecordedIsTraceable
<1>2. EvidenceInv /\ UnrecordedIsTraceable /\ [Next]_vars => UnrecordedIsTraceable'
  BY TraceableNext
<1> QED
  BY <1>1, <1>2, EvidenceInvHolds, PTL DEF Spec

-----------------------------------------------------------------------------
\* Steps of a scan and of a session: one of them records the scan, none touches another.
LEMMA ScansArchive ==
  ASSUME EvidenceInv,
         \/ OpenSession \/ EndSession \/ Midnight \/ Recover
         \/ \E a \in Attempts : Scan(a)
  PROVE  [Archive!Next]_(Archive!vars)
<1>0. EvidenceTypeOK /\ Placed
  BY DEF EvidenceInv, EvidenceSafe
<1>1. UNCHANGED <<quarantine, pruned, executed, previews>>
  BY DEF OpenSession, EndSession, Midnight, Recover, Scan, BeginCapture, Retain, Promote,
         WriteFails, Misnamed, StageAttempt, StageFails, MarkFailure, RetryCapture, disk,
         database, retention
<1>2. Shown' = Shown /\ Restorable' = Restorable
  BY <1>1 DEF Shown, Restorable
<1>3. ASSUME NEW a \in Attempts, StageAttempt(a) PROVE Archive!Record(a)
  <2>1. a \notin rows /\ a \in final /\ rows' = rows \cup {a} /\ final' = final
    BY <1>0, <1>3 DEF StageAttempt, Placed, disk
  <2>2. Kept' = Kept \cup {a}
    BY <1>2, <2>1 DEF Kept
  <2> QED
    BY <1>1, <1>2, <2>1, <2>2 DEF Archive!Record
<1>4. CASE ~\E a \in Attempts : StageAttempt(a)
  <2>1. rows' = rows /\ final' \cap rows = final \cap rows
    BY <1>0, <1>4 DEF OpenSession, EndSession, Midnight, Recover, Scan, BeginCapture, Retain,
       Promote, WriteFails, Misnamed, StageFails, MarkFailure, RetryCapture, disk, database,
       Placed
  <2>2. Kept' = Kept
    BY <1>2, <2>1 DEF Kept
  <2> QED
    BY <1>1, <1>2, <2>1, <2>2 DEF Archive!vars
<1> QED
  BY <1>3, <1>4 DEF Archive!Next

LEMMA RestartArchive ==
  ASSUME EvidenceInv, Restart
  PROVE  [Archive!Next]_(Archive!vars)
<1>1. UNCHANGED <<rows, pruned, Kept>>
  BY DEF Restart, disk, database, Kept, Restorable
<1>2. \A p \in Previews : Shown'[p] = Nothing
  BY EvidenceConstants, SpentIsNoPreview DEF Restart, Shown
<1>3. Shown' = [p \in Previews |-> IF p \in Previews THEN Nothing ELSE Shown[p]]
  BY <1>2 DEF Shown
<1>4. Archive!Forget(Previews)
  BY <1>1, <1>3 DEF Archive!Forget
<1> QED
  BY <1>4 DEF Archive!Next

\* A removal moves images between where they are kept; what it shows, commits and forgets.
LEMMA RetentionArchive ==
  ASSUME EvidenceInv, ~overlapped, NEW d \in Callers, Retention(d)
  PROVE  [Archive!Next]_(Archive!vars)
<1>0. /\ EvidenceTypeOK /\ Placed /\ EvidenceKept /\ ExecutedOnce
      /\ CallShaped(d) /\ CallKnows(d)
  BY DEF EvidenceInv, EvidenceSafe
<1>1. ASSUME UNCHANGED <<rows, pruned, executed, previews>>, Kept' = Kept
      PROVE  [Archive!Next]_(Archive!vars)
  BY <1>1 DEF Archive!vars, Shown
<1>2. ASSUME UNCHANGED <<disk, database, previews>> PROVE [Archive!Next]_(Archive!vars)
  BY <1>1, <1>2 DEF disk, database, Kept, Restorable
<1>3. CASE \/ BeginPreview(d) \/ ListQuarantines(d) \/ RecoveredAll(d) \/ Refuse(d)
           \/ ExecuteFails(d) \/ CallFails(d)
           \/ \E p \in Previews :
                 BeginExecute(d, p) \/ RecoverInterrupted(d, p) \/ RecoverGone(d, p)
  BY <1>2, <1>3 DEF BeginPreview, BeginExecute, Begin, ListQuarantines, RecoveredAll, Refuse,
     ExecuteFails, CallFails, RecoverInterrupted, RecoverGone
<1>4. ASSUME NEW q \in Previews, RecoverCommitted(d, q) PROVE Kept' = Kept
  <2>1. \A r \in Previews \ executed : quarantine'[r] = quarantine[r]
    BY <1>0, <1>4 DEF RecoverCommitted, EvidenceTypeOK
  <2> QED
    BY <1>4, <2>1 DEF RecoverCommitted, Kept, Restorable, database
<1>5. ASSUME NEW a \in Attempts, RestoreFile(d, a) PROVE Kept' = Kept
  <2> DEFINE q == call[d].from
  <2>1. q \in Previews \ executed
    BY <1>0, <1>5 DEF RestoreFile, Restoring, InCall, CallShaped, CallKnows
  <2>2. CASE a \in call[d].known /\ a \in quarantine[q]
    <3>1. /\ UNCHANGED <<rows, executed>> /\ final' = final \cup {a}
          /\ \A r \in Previews : quarantine'[r] = IF r = q THEN quarantine[q] \ {a}
                                                           ELSE quarantine[r]
      BY <1>0, <1>5, <2>2 DEF RestoreFile, database, EvidenceTypeOK
    <3>2. Restorable' \cup {a} = Restorable \cup {a} /\ a \in Restorable
      BY <2>1, <2>2, <3>1 DEF Restorable
    <3> QED
      BY <3>1, <3>2 DEF Kept
  <2>3. CASE ~(a \in call[d].known /\ a \in quarantine[q])
    BY <1>5, <2>3 DEF RestoreFile, database, Kept, Restorable
  <2> QED
    BY <2>2, <2>3
<1>6. ASSUME NEW a \in Attempts, MoveFile(d, a) PROVE Kept' = Kept
  <2> DEFINE p == call[d].id
  <2>1. p \in Previews \ executed
    BY <1>6, MoveKnows DEF MoveFile
  <2>2. CASE a \in final
    <3>1. /\ UNCHANGED <<rows, executed>> /\ final' = final \ {a}
          /\ \A r \in Previews : quarantine'[r] = IF r = p THEN quarantine[p] \cup {a}
                                                           ELSE quarantine[r]
      BY <1>0, <1>6, <2>2 DEF MoveFile, database, EvidenceTypeOK
    <3>2. Restorable' = Restorable \cup {a}
      BY <2>1, <3>1 DEF Restorable
    <3> QED
      BY <2>2, <3>1, <3>2 DEF Kept
  <2>3. CASE a \notin final
    BY <1>6, <2>3 DEF MoveFile, database, Kept, Restorable
  <2> QED
    BY <2>2, <2>3
<1>7. ASSUME Restored(d) PROVE Kept' = Kept
  <2>1. quarantine' = quarantine
    BY <1>0, <1>7 DEF Restored, Restoring, InCall, CallShaped, CallKnows, EvidenceTypeOK
  <2> QED
    BY <1>7, <2>1 DEF Restored, Kept, Restorable
<1>8. CASE \/ \E q \in Previews : RecoverCommitted(d, q)
           \/ \E a \in Attempts : RestoreFile(d, a) \/ MoveFile(d, a)
           \/ Restored(d)
  BY <1>1, <1>4, <1>5, <1>6, <1>7, <1>8 DEF RecoverCommitted, RestoreFile, MoveFile, Restored,
     database
<1>9. ASSUME NEW p \in Previews, Show(d, p) PROVE Archive!Show(p, Eligible(d))
  <2>1. /\ Eligible(d) \subseteq final \cap rows /\ previews[p] = Nothing
        /\ previews' = [previews EXCEPT ![p] = [cutoff |-> call[d].cutoff,
                                                files |-> Eligible(d)]]
        /\ UNCHANGED <<disk, database>>
    BY <1>9 DEF Show, Eligible, Unpruned
  <2>2. p \notin executed
    BY <2>1, ExecutedKnown
  <2>3. call[d].cutoff \in SUBSET Attempts /\ Eligible(d) \in SUBSET Attempts
    BY <1>0, <1>9, <2>1 DEF Show, InCall, EvidenceTypeOK, CallType
  <2>4. [cutoff |-> call[d].cutoff, files |-> Eligible(d)] \in PreviewType
    BY <2>3 DEF PreviewType
  <2>5. Shown[p] = Nothing
    BY <2>1, EvidenceConstants DEF Shown
  <2>6. Shown' = [Shown EXCEPT ![p] = Eligible(d)]
    BY <1>0, <2>1, <2>2, <2>4 DEF Shown, EvidenceTypeOK, database
  <2>7. Kept' = Kept /\ Eligible(d) \subseteq Kept
    BY <2>1 DEF Kept, Restorable, disk, database
  <2> QED
    BY <2>1, <2>5, <2>6, <2>7 DEF Archive!Show, database
<1>10. ASSUME NEW p \in Previews, previews' = [previews EXCEPT ![p] = Spent],
              UNCHANGED <<rows, pruned, executed>>, Kept' = Kept
       PROVE  Archive!Forget({p})
  <2>1. Shown' = [r \in Previews |-> IF r \in {p} THEN Nothing ELSE Shown[r]]
    BY <1>0, <1>10, SpentIsNoPreview DEF Shown, EvidenceTypeOK
  <2> QED
    BY <1>10, <2>1 DEF Archive!Forget
<1>11. CASE Revalidate(d)
  <2>1. UNCHANGED <<disk, database>> /\ call[d].id \in Previews
    BY <1>0, <1>11 DEF Revalidate, InCall, CallType, EvidenceTypeOK
  <2>2. Kept' = Kept
    BY <2>1 DEF Kept, Restorable, disk, database
  <2>3. CASE previews' = previews
    BY <1>2, <2>1, <2>3
  <2>4. CASE previews' = [previews EXCEPT ![call[d].id] = Spent]
    <3>1. Archive!Forget({call[d].id})
      BY <1>10, <2>1, <2>2, <2>4 DEF database
    <3> QED
      BY <2>1, <3>1 DEF Archive!Next
  <2> QED
    BY <1>11, <2>3, <2>4 DEF Revalidate
<1>12. CASE DeleteQuarantine(d)
  <2>1. call[d].id \in executed /\ call[d].id \in Previews
    BY <1>0, <1>12 DEF DeleteQuarantine, InCall, CallShaped
  <2>2. /\ UNCHANGED <<final, rows, pruned, executed>>
        /\ previews' = [previews EXCEPT ![call[d].id] = Spent]
    BY <1>12 DEF DeleteQuarantine, database
  <2>3. \A r \in Previews \ executed : quarantine'[r] = quarantine[r]
    BY <1>0, <1>12, <2>1 DEF DeleteQuarantine, EvidenceTypeOK
  <2>4. Kept' = Kept
    BY <2>2, <2>3 DEF Kept, Restorable
  <2>5. Archive!Forget({call[d].id})
    BY <1>10, <2>1, <2>2, <2>4
  <2> QED
    BY <2>1, <2>5 DEF Archive!Next
<1>13. CASE Commit(d)
  <2> DEFINE p == call[d].id
  <2>1. /\ p \in Previews \ executed /\ previews[p] \in PreviewType
        /\ call[d].files = previews[p].files /\ call[d].files \subseteq Unpruned
        /\ \A r \in Previews : r # p => quarantine[r] = {}
    BY <1>13, MoveKnows DEF Commit
  <2>2. quarantine[p] = call[d].files /\ final \cap call[d].files = {}
    BY <1>13, CommitSafe
  <2>3. /\ UNCHANGED <<final, quarantine, rows, previews>>
        /\ pruned' = pruned \cup call[d].files /\ executed' = executed \cup {p}
    BY <1>13 DEF Commit, disk
  <2>4. Shown[p] = call[d].files
    BY <2>1 DEF Shown
  <2>5. Shown[p] # Nothing
    BY <2>1, <2>4, EvidenceConstants DEF PreviewType
  <2>6. Shown' = [Shown EXCEPT ![p] = Nothing]
    BY <2>1, <2>3 DEF Shown
  <2>7. Restorable = call[d].files /\ Restorable' = {}
    BY <2>1, <2>2, <2>3 DEF Restorable
  <2>8. call[d].files \subseteq Kept /\ Kept' = Kept \ call[d].files
    BY <2>1, <2>2, <2>3, <2>7 DEF Kept, Unpruned
  <2>9. Archive!Remove(p)
    BY <2>3, <2>4, <2>5, <2>6, <2>8 DEF Archive!Remove
  <2> QED
    BY <2>1, <2>9 DEF Archive!Next
<1>14. ASSUME NEW p \in Previews, Show(d, p) PROVE [Archive!Next]_(Archive!vars)
  <2>1. Eligible(d) \in SUBSET Attempts
    BY <1>0 DEF Eligible, Unpruned, EvidenceTypeOK
  <2> QED
    BY <1>9, <1>14, <2>1 DEF Archive!Next
<1> QED
  BY <1>3, <1>8, <1>11, <1>12, <1>13, <1>14 DEF Retention

\* What the history variable says once is never taken back.
LEMMA OverlapStays == ASSUME [Next]_vars, overlapped PROVE overlapped'
<1>1. ASSUME NEW c \in Callers, NEW id, NEW cutoff, Begin(c, id, cutoff) PROVE overlapped'
  BY <1>1 DEF Begin
<1>2. CASE \E c \in Callers : BeginPreview(c) \/ \E p \in Previews : BeginExecute(c, p)
  BY <1>1, <1>2 DEF BeginPreview, BeginExecute
<1>3. CASE OpenSession \/ EndSession \/ Midnight \/ Recover \/ Restart
           \/ \E a \in Attempts : Scan(a)
  BY <1>3 DEF Scan, OpenSession, EndSession, Midnight, Recover, Restart, BeginCapture, Retain,
     Promote, WriteFails, Misnamed, StageAttempt, StageFails, RetryCapture, retention
<1>4. ASSUME NEW c \in Callers, Retention(c), ~BeginPreview(c),
             \A p \in Previews : ~BeginExecute(c, p)
      PROVE  overlapped' = overlapped
  BY <1>4 DEF Retention, ListQuarantines, RecoverCommitted, RecoverInterrupted, RecoverGone,
     RecoveredAll, RestoreFile, MoveFile, Restored, Show, Revalidate, Refuse, Commit,
     ExecuteFails, CallFails, DeleteQuarantine
<1> QED
  BY <1>2, <1>3, <1>4 DEF Next, vars, retention

\* The files and tables implement an archive that gives up exactly the images of one
\* preview, in one step, and only with the record of their removal, as long as no removal
\* has met another call.
THEOREM EvidenceImplementsArchive == Spec => ImplementsArchive
<1>1. Init => Archive!Init
  BY EvidenceConstants DEF Init, Archive!Init, Kept, Restorable, Shown
<1>2. EvidenceInv /\ [Next]_vars => [Archive!Next \/ overlapped']_(Archive!vars)
  <2> SUFFICES ASSUME EvidenceInv, [Next]_vars
               PROVE  [Archive!Next \/ overlapped']_(Archive!vars)
    OBVIOUS
  <2>1. CASE overlapped'
    BY <2>1
  <2>2. CASE ~overlapped'
    <3>1. ~overlapped
      BY <2>2, OverlapStays
    <3>2. CASE UNCHANGED vars
      BY <3>2 DEF vars, disk, database, retention, Archive!vars, Kept, Restorable, Shown
    <3> QED
      BY <3>1, <3>2, ScansArchive, RestartArchive, RetentionArchive DEF Next
  <2> QED
    BY <2>1, <2>2
<1> QED
  BY <1>1, <1>2, EvidenceInvHolds, PTL DEF Spec, ImplementsArchive
=============================================================================
