---------------------------- MODULE SessionLedger ---------------------------
(***************************************************************************)
(* What the kiosk owes its operator about the life of a checkout session,  *)
(* whatever happens on the way: a session is opened once, it is settled by *)
(* at most one order, an order is never settled for a session that was     *)
(* discarded, and neither outcome is ever revised.                         *)
(***************************************************************************)
CONSTANTS Sessions, Orders, NoBill

VARIABLES
  life,  \* "unused", "open", "settled" or "discarded", per session
  bill   \* the order a session was settled by

ledgerVars == <<life, bill>>

LedgerInit ==
  /\ life = [s \in Sessions |-> "unused"]
  /\ bill = [s \in Sessions |-> NoBill]

Open(s) ==
  /\ life[s] = "unused"
  /\ life' = [life EXCEPT ![s] = "open"]
  /\ UNCHANGED bill

Settle(s, order) ==
  /\ life[s] = "open"
  /\ life' = [life EXCEPT ![s] = "settled"]
  /\ bill' = [bill EXCEPT ![s] = order]

\* Start-up recovery discards every open session at once, hence a set.
Discard(S) ==
  /\ \A s \in S : life[s] = "open"
  /\ life' = [s \in Sessions |-> IF s \in S THEN "discarded" ELSE life[s]]
  /\ UNCHANGED bill

LedgerNext ==
  \/ \E s \in Sessions : Open(s) \/ \E order \in Orders : Settle(s, order)
  \/ \E S \in SUBSET Sessions : Discard(S)

LedgerSpec == LedgerInit /\ [][LedgerNext]_ledgerVars
=============================================================================
