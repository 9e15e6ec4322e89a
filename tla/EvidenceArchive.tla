--------------------------- MODULE EvidenceArchive ---------------------------
(***************************************************************************)
(* What the audit promises about captured images: an image is kept from    *)
(* the moment its scan is recorded, and is given up only by one step that   *)
(* also records it as removed, of exactly the images an administrator was   *)
(* shown in one preview.                                                    *)
(***************************************************************************)
CONSTANTS Attempts, Previews, Nothing

VARIABLES recorded,  \* the scans whose row is committed
          kept,      \* those whose image can be had
          removed,   \* those recorded as removed
          shown      \* per preview, the images it lists, or Nothing

vars == <<recorded, kept, removed, shown>>

Init ==
  /\ recorded = {} /\ kept = {} /\ removed = {}
  /\ shown = [p \in Previews |-> Nothing]

Record(a) ==
  /\ a \notin recorded
  /\ recorded' = recorded \cup {a} /\ kept' = kept \cup {a}
  /\ UNCHANGED <<removed, shown>>

Show(p, images) ==
  /\ shown[p] = Nothing /\ images \subseteq kept
  /\ shown' = [shown EXCEPT ![p] = images]
  /\ UNCHANGED <<recorded, kept, removed>>

\* all the images of the preview, or none of them, and once
Remove(p) ==
  /\ shown[p] # Nothing /\ shown[p] \subseteq kept
  /\ kept' = kept \ shown[p] /\ removed' = removed \cup shown[p]
  /\ shown' = [shown EXCEPT ![p] = Nothing]
  /\ UNCHANGED recorded

\* previews are kept in memory only
Forget(gone) ==
  /\ shown' = [p \in Previews |-> IF p \in gone THEN Nothing ELSE shown[p]]
  /\ UNCHANGED <<recorded, kept, removed>>

Next ==
  \/ \E a \in Attempts : Record(a)
  \/ \E p \in Previews : Remove(p) \/ \E images \in SUBSET Attempts : Show(p, images)
  \/ \E gone \in SUBSET Previews : Forget(gone)

Spec == Init /\ [][Next]_vars
=============================================================================
