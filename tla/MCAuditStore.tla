---------------------------- MODULE MCAuditStore ----------------------------
(* AuditStore on small instances.                                          *)
EXTENDS AuditStore, TLC

CONSTANTS s1, s2, o1, o2, p1, p2

\* A usable scan of two unknown objects, a usable scan of one recognised object
\* and one unknown object, and a scan the presentation policy refuses to count.
MCResults == {
  [usable |-> TRUE, object |-> (o1 :> Unknown @@ o2 :> Unknown)],
  [usable |-> TRUE, object |-> (o1 :> p1 @@ o2 :> Unknown)],
  [usable |-> FALSE, object |-> (o1 :> Unknown @@ o2 :> Absent)] }

\* Enough for two sessions side by side: one unknown object, or none.
MCSmallResults == {
  [usable |-> TRUE, object |-> (o1 :> Unknown)],
  [usable |-> FALSE, object |-> (o1 :> Absent)] }

MCSymmetry == Permutations(Sessions)
=============================================================================
