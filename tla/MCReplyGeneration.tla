------------------------- MODULE MCReplyGeneration -------------------------
(* Instances of ReplyGeneration for TLC. *)
EXTENDS ReplyGeneration

CONSTANTS u1, u2, q1, q2, w1, w2

OneUpdate == {u1}
TwoUpdates == {u1, u2}
OneRequest == {q1}
TwoRequests == {q1, q2}
OneWorker == {w1}
TwoWorkers == {w1, w2}
NoEdits == [u \in Updates |-> u]
Edited == [u \in Updates |-> u1]
AllFaults == Faults
OnlyCrash == {"crash"}
=============================================================================
