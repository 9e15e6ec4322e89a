---------------------------- MODULE PairedPasses ----------------------------
(***************************************************************************)
(* What a comparison of two configurations must be: every pass is measured  *)
(* by both, one at a time, in the order that alternates from pass to pass,  *)
(* and there is a verdict only when all passes were, or none at all.        *)
(***************************************************************************)
EXTENDS Naturals, Sequences

CONSTANTS Passes, FirstRole, SecondRole

VARIABLES measured,  \* the measurements that count, <<role, pass>>, in their order
          verdict    \* "open", "completed" or "failed"

vars == <<measured, verdict>>

\* which role measures as the n-th of all, and for which pass
PassOf(n) == (n - 1) \div 2
RoleOf(n) ==
  IF (n % 2 = 1) <=> (PassOf(n) % 2 = 0) THEN FirstRole ELSE SecondRole

Init == measured = <<>> /\ verdict = "open"

Measure ==
  LET n == Len(measured) + 1
  IN  /\ verdict = "open" /\ PassOf(n) < Passes
      /\ measured' = Append(measured, <<RoleOf(n), PassOf(n)>>)
      /\ UNCHANGED verdict

Complete ==
  /\ verdict = "open" /\ Len(measured) = 2 * Passes
  /\ verdict' = "completed" /\ UNCHANGED measured

Fail == verdict = "open" /\ verdict' = "failed" /\ UNCHANGED measured

Next == Measure \/ Complete \/ Fail

Spec == Init /\ [][Next]_vars
=============================================================================
