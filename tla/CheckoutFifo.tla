---------------------------- MODULE CheckoutFifo ----------------------------
(***************************************************************************)
(* Checkout with its transactions served in the order they were requested, *)
(* as the database connection of the application does.  Checkout itself    *)
(* lets pending calls move in any order, so what holds there holds here;   *)
(* this module is for the counterexamples, which must not rest on an order *)
(* that the database would never choose.                                   *)
(***************************************************************************)
EXTENDS Checkout, Sequences

VARIABLE queue  \* slots whose transaction was requested and has not run

AtDatabase(tasks, t) ==
  tasks[t] # Nothing /\
  tasks[t].pc \in {"stage", "complete", "present", "record", "redraw", "persist",
                   "mismatch", "enterManual", "emptyCart", "prepare", "commit",
                   "cancel", "admin"}

\* the call in slot t leaves the queue for what it did, and joins it again at
\* the end for what it now awaits
Requeued(rest, t) == IF AtDatabase(task', t) THEN Append(rest, t) ELSE rest

FifoNext ==
  \/ \E t \in Slots :
       \/ Command(t) /\ task'[t] # task[t] /\ queue' = Requeued(queue, t)
       \/ Command(t) /\ task'[t] = task[t] /\ UNCHANGED queue
       \/ /\ AtDatabase(task, t) /\ t = Head(queue)
          /\ Step(t) /\ queue' = Requeued(Tail(queue), t)
       \/ ~AtDatabase(task, t) /\ Step(t) /\ queue' = Requeued(queue, t)
  \/ LoseDevice /\ UNCHANGED queue
  \/ Restart /\ queue' = <<>>

FifoSpec == CheckoutInit /\ queue = <<>> /\ [][FifoNext]_<<vars, queue>>
=============================================================================
