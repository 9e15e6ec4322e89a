-------------------------- MODULE CheckoutHistory --------------------------
(***************************************************************************)
(* Checkout with a record of what its calls went through.  The controller  *)
(* does not keep calls apart: a button is answered while an earlier call   *)
(* is still waiting for the database, and then nothing relates the screen, *)
(* the controller's fields and the database to each other any more.  What  *)
(* it promises of them it promises until that happens, and again from the  *)
(* next session start that nothing overtakes.  Every step of Checkout is a *)
(* step of this module and the other way round.                            *)
(***************************************************************************)
EXTENDS Checkout

VARIABLES
  overlapped,  \* history: a call was made while another had not returned
  unwritten    \* history: a changed order was not persisted, nor shown since

historyVars == <<vars, overlapped, unwritten>>

HistoryInit == CheckoutInit /\ overlapped = FALSE /\ unwritten = FALSE

\* a session start was reserved
Begins == ~ctl.starting /\ ctl'.starting

\* what is kept in memory first is refused by the database
WriteFails(t) == (At(t, "persist") \/ At(t, "mismatch")) /\ faults' # faults

HistoryNext ==
  \/ \E t \in Slots :
       \/ /\ Command(t)
          /\ overlapped' = (~Idle \/ (overlapped /\ ~Begins))
          /\ unwritten' = (unwritten /\ ~Begins)
       \/ /\ Step(t)
          /\ unwritten' = (WriteFails(t) \/ (unwritten /\ view' = view))
          /\ UNCHANGED overlapped
  \/ LoseDevice /\ UNCHANGED <<overlapped, unwritten>>
  \/ Restart /\ overlapped' = FALSE /\ unwritten' = FALSE

HistorySpec == HistoryInit /\ [][HistoryNext]_historyVars

-----------------------------------------------------------------------------
(* Properties.                                                             *)

\* What the customer reviews is what the database holds: whenever no call is
\* pending, the lines on screen are the persisted draft of the open session,
\* whatever failed.  (Unless calls overlapped: the write of an edit may be
\* overtaken by a new result.)
ReviewIsPersisted ==
  Idle /\ ~overlapped /\ Open /\ ctl.active
    /\ view.phase \in {"retakeRequired", "customerReview", "orderReview"}
    => draft[ctl.session] = view.lines

\* What the controller will persist next follows from what the customer sees:
\* the units it counts as added by hand and the drafts on screen make the lines
\* on screen.  After an edit whose write failed they differ, until something
\* else is shown.
MemoryIsShown ==
  Idle /\ ~overlapped /\ ~unwritten /\ Open /\ ctl.active
    /\ view.phase \in {"customerReview", "orderReview"}
    => view.lines = LinesFor(view.drafts, ctl.added)

\* On every screen of a running session the controller is in manual-cart mode
\* exactly when the audit log says the open session is, and forgets it with that
\* session. Where a start failed and could not be undone no session runs, and
\* where calls overlapped a start may forget what another call has entered.
ManualCartAgrees ==
  ~overlapped /\ ctl.active /\ ~ctl.starting /\ view.phase # "terminalFailure"
    => (ctl.manual <=> manualCart[ctl.session])
=============================================================================
