----------------------------- MODULE MCCheckout -----------------------------
(* Checkout on small instances.                                            *)
EXTENDS Checkout, TLC

CONSTANTS s1, s2, o1, o2, p1, p2, t1, t2

\* One unknown object, one recognised object, a scan that cannot be counted.
MCResults == {
  [usable |-> TRUE, object |-> (o1 :> Unknown)],
  [usable |-> TRUE, object |-> (o1 :> p1)],
  [usable |-> FALSE, object |-> (o1 :> Unknown)] }

\* One recognised object, or two unknown ones.
MCSureResults == { [usable |-> TRUE, object |-> (o1 :> p1)] }
MCUnknownPairResults == {
  [usable |-> TRUE, object |-> (o1 :> Unknown @@ o2 :> Unknown)] }

MCSymmetry == Permutations(Sessions) \cup Permutations(Slots)
=============================================================================
