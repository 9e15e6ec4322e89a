--------------------------- MODULE MCEvidenceFiles ---------------------------
(* EvidenceFiles on a small instance.                                      *)
EXTENDS EvidenceFiles, TLC

MCSymmetry ==
  {a @@ p @@ c : a \in Permutations(Attempts), p \in Permutations(Previews),
                 c \in Permutations(Callers)}

\* Once a removal has met another call nothing more is said of it; and previews overlap
\* while there can be something to recover and the bound on faults is not used up.
MCBounds ==
  /\ ~overlapped
  /\ faults \in {0, MaxFaults} => \A c, d \in Callers : c # d => Idle \in {call[c], call[d]}
=============================================================================
