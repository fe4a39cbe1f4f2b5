-------------------------- MODULE MessageDelivery --------------------------
(***************************************************************************)
(* What the outbox promises to whoever stores a message for a customer,    *)
(* without workers, batches, claims or time.  A queued message is handed   *)
(* to the customer at most MaxAttempts times and its fate is then final:   *)
(* "sent" means that the customer has it, "failed" that it was given up.   *)
(***************************************************************************)
EXTENDS Naturals

CONSTANTS Messages, MaxAttempts

VARIABLES
  fate,       \* what the dashboard shows of each message
  delivered   \* how often the customer received it

vars == <<fate, delivered>>

Fates == {"none", "queued", "sent", "failed", "deleted"}

Init ==
  /\ fate = [m \in Messages |-> "none"]
  /\ delivered = [m \in Messages |-> 0]

Become(m, f) == fate' = [fate EXCEPT ![m] = f]

Queue(m) ==
  /\ fate[m] = "none"
  /\ Become(m, "queued")
  /\ UNCHANGED delivered

\* A message deleted while it is on its way may still reach the customer.
Deliver(m) ==
  /\ fate[m] \in {"queued", "deleted"}
  /\ delivered[m] < MaxAttempts
  /\ delivered' = [delivered EXCEPT ![m] = @ + 1]
  /\ UNCHANGED fate

Succeed(m) ==
  /\ fate[m] = "queued"
  /\ delivered[m] > 0
  /\ Become(m, "sent")
  /\ UNCHANGED delivered

GiveUp(m) ==
  /\ fate[m] = "queued"
  /\ Become(m, "failed")
  /\ UNCHANGED delivered

Remove(m) ==
  /\ fate[m] \notin {"none", "deleted"}
  /\ Become(m, "deleted")
  /\ UNCHANGED delivered

Next ==
  \E m \in Messages :
    Queue(m) \/ Deliver(m) \/ Succeed(m) \/ GiveUp(m) \/ Remove(m)

Spec == Init /\ [][Next]_vars
=============================================================================
