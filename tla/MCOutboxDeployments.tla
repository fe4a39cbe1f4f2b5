------------------------- MODULE MCOutboxDeployments -------------------------
(* Two deployments of the outbox on two workers: polls that find one row at a time, and   *)
(* polls that find two.  They share no state, and a behaviour exercises one of them.       *)
EXTENDS TelegramOutbox

CONSTANTS w1, w2

TwoWorkers == {w1, w2}
FirstRow == {1}
AllOutcomes == SendOutcomes

VARIABLES deployment, rows, at, batches, caches, busyFor, sent, died, gone

batchVars == <<rows, at, batches, caches, busyFor, sent, died, gone>>

Batches == INSTANCE TelegramOutbox
  WITH NumMessages <- 2, Undeliverable <- {}, BatchLimit <- 2, SendTimeout <- 1,
       RetryBase <- 1, RetryMax <- 1, MaxSends <- 1,
       row <- rows, pc <- at, batch <- batches, cache <- caches, busy <- busyFor,
       sends <- sent, crashes <- died, deletes <- gone

DeploymentsInit ==
  /\ deployment \in {"one row", "batches"}
  /\ Init
  /\ Batches!Init

DeploymentsNext ==
  \/ deployment = "one row" /\ Next /\ UNCHANGED <<deployment, batchVars>>
  \/ deployment = "batches" /\ Batches!Next /\ UNCHANGED <<deployment, vars>>

DeploymentsSpec ==
  /\ DeploymentsInit
  /\ [][DeploymentsNext]_<<deployment, vars, batchVars>>
  /\ Fairness
  /\ Batches!Fairness

\* SentWasAccepted where two workers hold the same row in their batches and overwrite each
\* other's columns from old copies.
SentInBatches == Batches!SentWasAccepted

\* What overlapping batches may leave behind, without any crash: one worker counts the last
\* attempt, and the other writes "pending" over the row from a copy that is older.
Exhausted(m) ==
  /\ rows[m].status = "pending"
  /\ rows[m].attempts = MaxAttempts
  /\ \A w \in Workers : m \notin batches[w]

\* In batches, too, whenever a message waits there comes a time when every message is
\* settled, but for such rows: also one whose batch ended early, with its worker or with a
\* row that was deleted under it.
BatchesSettle ==
  (\E m \in 1..2 : rows[m].status = "pending") ~>
    \A m \in 1..2 : \/ rows[m].status = "none"
                    \/ Batches!Settled(m) \/ Batches!Stranded(m) \/ Exhausted(m)
=============================================================================
