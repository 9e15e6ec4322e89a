--------------------------- MODULE WorkerRequests ---------------------------
(***************************************************************************)
(* What the inference worker promises to whoever submits requests to it:    *)
(* each request is worked on at most once, is answered once, with what the  *)
(* worker said of it and in the order of submission, or is given up         *)
(* together with every other one that is open, and then for good.           *)
(***************************************************************************)
EXTENDS Naturals

CONSTANT Ids

VARIABLES outcome,  \* what the submitter of each request was told
          work,     \* what the worker said of each request
          closed    \* nothing is accepted or answered any more

vars == <<outcome, work, closed>>

Answers == {"result", "analysis_failed"}

Init ==
  /\ outcome = [i \in Ids |-> "unused"] /\ work = [i \in Ids |-> "nothing"]
  /\ closed = FALSE

Submit(i) ==
  /\ ~closed /\ outcome[i] = "unused"
  /\ outcome' = [outcome EXCEPT ![i] = "pending"]
  /\ UNCHANGED <<work, closed>>

Work(i) ==
  /\ outcome[i] # "unused" /\ work[i] = "nothing"
  /\ \E answer \in Answers : work' = [work EXCEPT ![i] = answer]
  /\ UNCHANGED <<outcome, closed>>

Answer(i) ==
  /\ ~closed /\ outcome[i] = "pending" /\ work[i] \in Answers
  /\ \A j \in Ids : j < i => outcome[j] # "pending"
  /\ outcome' = [outcome EXCEPT ![i] = work[i]]
  /\ UNCHANGED <<work, closed>>

GiveUp ==
  /\ ~closed /\ closed' = TRUE
  /\ outcome' = [i \in Ids |-> IF outcome[i] = "pending" THEN "failed"
                                                        ELSE outcome[i]]
  /\ UNCHANGED work

Next == GiveUp \/ \E i \in Ids : Submit(i) \/ Work(i) \/ Answer(i)

Spec == Init /\ [][Next]_vars
=============================================================================
