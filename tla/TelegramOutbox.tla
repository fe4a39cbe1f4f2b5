--------------------------- MODULE TelegramOutbox ---------------------------
(***************************************************************************)
(* Delivery of bot and agent messages to Telegram: the Celery task         *)
(* backend/tasks/telegram_outbox.py that the beat schedule starts every    *)
(* few seconds, possibly on several worker processes at once.              *)
(*                                                                         *)
(* A worker selects a batch of rows FOR UPDATE SKIP LOCKED and then works  *)
(* on its own copies of them.  The first commit releases every row lock,   *)
(* so from the second message on the copies may be out of date; a commit   *)
(* writes only the columns whose value differs from the copy.              *)
(*                                                                         *)
(* There is no clock: a time stamp in a row is kept as an age or as the    *)
(* time left, which is all the WHERE clause compares.                      *)
(*                                                                         *)
(* A definition X_Y just before a definition X is a faulty X: a slip the   *)
(* properties are tested against.  Nothing uses it.                        *)
(***************************************************************************)
EXTENDS Integers, FiniteSets

CONSTANTS
  Workers,        \* worker processes that may run the task at the same time
  NumMessages,    \* rows of conversation_messages, numbered by created_at
  Undeliverable,  \* rows whose text, ids, customer or token the task refuses
  Outcomes,       \* how a send may end: a subset of SendOutcomes
  BatchLimit,     \* LIMIT of the SELECT (50 in the code)
  MaxAttempts,    \* telegram_outbox_max_delivery_attempts
  ClaimTimeout,   \* telegram_outbox_claim_timeout_seconds
  SendTimeout,    \* longest time from a claim to its result's commit
  RetryBase,      \* telegram_outbox_retry_base_seconds
  RetryMax,       \* telegram_outbox_retry_max_seconds
  MaxSends,       \* the count of accepted sends stops here (bound)
  MaxCrashes,     \* worker crashes in a behaviour (bound)
  MaxDeletes      \* deleted rows in a behaviour (bound)

Messages == 1..NumMessages

\* "lost": Telegram delivered the message and its answer did not come back
SendOutcomes == {"accepted", "refused", "lost"}

\* The settings are clamped at the start of the task (lines 35 to 40).
ASSUME OutboxConstants ==
  /\ Undeliverable \subseteq Messages
  /\ NumMessages \in Nat
  /\ Outcomes \subseteq SendOutcomes
  /\ {BatchLimit, MaxAttempts, ClaimTimeout, RetryBase} \subseteq Nat \ {0}
  /\ RetryMax \in Nat /\ RetryMax >= RetryBase
  /\ MaxSends \in Nat \ {0}
  /\ {SendTimeout, MaxCrashes, MaxDeletes} \subseteq Nat

VARIABLES
  row,      \* the table: status, attempts, age of the claim, time to wait
  pc,       \* where each worker is in the task
  batch,    \* the selected rows a worker has not finished
  cache,    \* the session's copies of the rows it selected
  busy,     \* time since a worker's current claim
  sends,    \* how often Telegram delivered each message to the customer
  crashes,
  deletes

vars == <<row, pc, batch, cache, busy, sends, crashes, deletes>>

-----------------------------------------------------------------------------
NoTime == -1     \* SQL NULL in a time stamp column

DeliveryStatus == {"none", "pending", "sending", "sent", "failed", "deleted"}

Row == [status   : DeliveryStatus,
        attempts : 0..MaxAttempts,
        claimed  : NoTime..(ClaimTimeout + 1),  \* age of delivery_claimed_at
        next     : NoTime..RetryMax]            \* time to delivery_next_attempt_at

NewRow == [status |-> "none", attempts |-> 0, claimed |-> NoTime, next |-> NoTime]

PC == {"idle", "locked", "open", "sending", "accepted", "errored"}

\* After the commit of the claim and before the commit of the result.
InFlight(w) == pc[w] \in {"sending", "accepted", "errored"}

\* The row the loop over the batch is at: the oldest one left.
Current(w, m) == m \in batch[w] /\ \A k \in batch[w] : m <= k

\* SELECT ... FOR UPDATE holds its row locks until the session's first commit.
Locked(w) == IF pc[w] = "locked" THEN batch[w] ELSE {}
Free(w, m) == \A v \in Workers \ {w} : m \notin Locked(v)

StaleClaim_NoLease(r) == TRUE
StaleClaim(r) == r.claimed = NoTime \/ r.claimed > ClaimTimeout
Due(r) == r.next = NoTime \/ r.next <= 0

Eligible_OneMore(r) ==
  /\ \/ r.status = "pending" /\ Due(r)
     \/ r.status = "sending" /\ StaleClaim(r)
  /\ r.attempts <= MaxAttempts
Eligible_PendingOnly(r) == r.status = "pending" /\ Due(r) /\ r.attempts < MaxAttempts
Eligible(r) ==
  /\ \/ r.status = "pending" /\ Due(r)
     \/ r.status = "sending" /\ StaleClaim(r)
  /\ r.attempts < MaxAttempts

\* retry_base * 2 ** max(0, attempts - 1), at most retry_max
RetryDelay(attempts) ==
  LET delay == RetryBase * 2 ^ (IF attempts > 0 THEN attempts - 1 ELSE 0)
  IN  IF delay \in 0..RetryMax THEN delay ELSE RetryMax

Oldest(S, n) == {m \in S : Cardinality({k \in S : k < m}) < n}

\* What a copy needs to remember of a time stamp is whether it is NULL: a new
\* time stamp always differs from an old one.
Copy(r) ==
  [status |-> r.status, attempts |-> r.attempts,
   claimed |-> IF r.claimed = NoTime THEN NoTime ELSE 0,
   next    |-> IF r.next = NoTime THEN NoTime ELSE 0]

\* UPDATE of the columns the session changed since it loaded them as `old`.
Written(db, old, new) ==
  [status   |-> IF new.status = old.status THEN db.status ELSE new.status,
   attempts |-> IF new.attempts = old.attempts THEN db.attempts ELSE new.attempts,
   claimed  |-> IF new.claimed = NoTime /\ old.claimed = NoTime THEN db.claimed ELSE new.claimed,
   next     |-> IF new.next = NoTime /\ old.next = NoTime THEN db.next ELSE new.next]

\* The commit of row m changed to `new`: the copy follows.
Save(w, m, new) ==
  /\ row' = [row EXCEPT ![m] = Written(@, cache[w][m], new)]
  /\ cache' = [cache EXCEPT ![w] = [@ EXCEPT ![m] = Copy(new)]]

\* The task ends, and its session with it.
EndTask(w) ==
  /\ pc' = [pc EXCEPT ![w] = "idle"]
  /\ batch' = [batch EXCEPT ![w] = {}]
  /\ cache' = [cache EXCEPT ![w] = [m \in Messages |-> NewRow]]
  /\ busy' = [busy EXCEPT ![w] = 0]

\* The commit of row m to `new` and the `continue` of the loop.
Finish(w, m, new) ==
  /\ row' = [row EXCEPT ![m] = Written(@, cache[w][m], new)]
  /\ batch' = [batch EXCEPT ![w] = @ \ {m}]
  /\ pc' = [pc EXCEPT ![w] = IF batch[w] = {m} THEN "idle" ELSE "open"]
  /\ cache' = [cache EXCEPT ![w] = [@ EXCEPT ![m] = NewRow]]
  /\ busy' = [busy EXCEPT ![w] = 0]

-----------------------------------------------------------------------------
Init ==
  /\ row = [m \in Messages |-> NewRow]
  /\ pc = [w \in Workers |-> "idle"]
  /\ batch = [w \in Workers |-> {}]
  /\ cache = [w \in Workers |-> [m \in Messages |-> NewRow]]
  /\ busy = [w \in Workers |-> 0]
  /\ sends = [m \in Messages |-> 0]
  /\ crashes = 0
  /\ deletes = 0

\* A bot reply or an agent's manual reply is stored for delivery.
Enqueue(m) ==
  /\ row[m].status = "none"
  /\ \A k \in Messages : k < m => row[k].status # "none"
  /\ row' = [row EXCEPT ![m].status = "pending"]
  /\ UNCHANGED <<pc, batch, cache, busy, sends, crashes, deletes>>

\* The customer, the bot or the conversation is deleted, and the row with it.
Delete(m) ==
  /\ row[m].status \notin {"none", "deleted"}
  /\ \A w \in Workers : m \notin Locked(w)
  /\ deletes < MaxDeletes
  /\ row' = [row EXCEPT ![m].status = "deleted"]
  /\ deletes' = deletes + 1
  /\ UNCHANGED <<pc, batch, cache, busy, sends, crashes>>

\* The SELECT of the task: the oldest eligible rows nobody has locked.
Poll(w) ==
  LET found == {m \in Messages : Eligible(row[m]) /\ Free(w, m)}
  IN  /\ pc[w] = "idle"
      /\ found # {}
      /\ batch' = [batch EXCEPT ![w] = Oldest(found, BatchLimit)]
      /\ cache' = [cache EXCEPT ![w] =
                     [m \in Messages |-> IF m \in batch'[w] THEN Copy(row[m]) ELSE NewRow]]
      /\ pc' = [pc EXCEPT ![w] = "locked"]
      /\ UNCHANGED <<row, busy, sends, crashes, deletes>>

Failed(r) ==
  [status |-> "failed", attempts |-> r.attempts, claimed |-> NoTime, next |-> NoTime]

Claimed_NotCounted(r) ==
  [status |-> "sending", attempts |-> r.attempts, claimed |-> 0, next |-> NoTime]
Claimed(r) ==
  [status |-> "sending", attempts |-> r.attempts + 1, claimed |-> 0, next |-> NoTime]

\* No text, no ids, no customer or no token: failed at once.
Reject(w, m) ==
  /\ pc[w] \in {"locked", "open"}
  /\ Current(w, m)
  /\ m \in Undeliverable
  /\ row[m].status # "deleted"
  /\ Free(w, m)
  /\ Finish(w, m, Failed(cache[w][m]))
  /\ UNCHANGED <<sends, crashes, deletes>>

\* The claim is committed before Telegram is called.
Claim(w, m) ==
  /\ pc[w] \in {"locked", "open"}
  /\ Current(w, m)
  /\ m \notin Undeliverable
  /\ row[m].status # "deleted"
  /\ Free(w, m)
  /\ Save(w, m, Claimed(cache[w][m]))
  /\ pc' = [pc EXCEPT ![w] = "sending"]
  /\ busy' = [busy EXCEPT ![w] = 0]
  /\ UNCHANGED <<batch, sends, crashes, deletes>>

\* Telegram's answer to sendMessage, or the error that stands for it.
Send_AnyAnswer(w, m) ==
  /\ pc[w] = "sending"
  /\ Current(w, m)
  /\ \E outcome \in Outcomes :
       /\ pc' = [pc EXCEPT ![w] = "accepted"]
       /\ sends' = [sends EXCEPT ![m] =
                      IF outcome # "refused" /\ @ < MaxSends THEN @ + 1 ELSE @]
  /\ UNCHANGED <<row, batch, cache, busy, crashes, deletes>>
Send(w, m) ==
  /\ pc[w] = "sending"
  /\ Current(w, m)
  /\ \E outcome \in Outcomes :
       /\ pc' = [pc EXCEPT ![w] = IF outcome = "accepted" THEN "accepted" ELSE "errored"]
       /\ sends' = [sends EXCEPT ![m] =
                      IF outcome # "refused" /\ @ < MaxSends THEN @ + 1 ELSE @]
  /\ UNCHANGED <<row, batch, cache, busy, crashes, deletes>>

Sent(r) ==
  [status |-> "sent", attempts |-> r.attempts, claimed |-> NoTime, next |-> NoTime]

RecordSent(w, m) ==
  /\ pc[w] = "accepted"
  /\ Current(w, m)
  /\ row[m].status # "deleted"
  /\ Free(w, m)
  /\ Finish(w, m, Sent(cache[w][m]))
  /\ UNCHANGED <<sends, crashes, deletes>>

\* The row after a failed send: given up, or due again after a delay.
AfterError_OneLess(r) ==
  IF r.attempts >= MaxAttempts - 1
  THEN Failed(r)
  ELSE [status |-> "pending", attempts |-> r.attempts, claimed |-> NoTime,
        next |-> RetryDelay(r.attempts)]
AfterError(r) ==
  IF r.attempts >= MaxAttempts
  THEN Failed(r)
  ELSE [status |-> "pending", attempts |-> r.attempts, claimed |-> NoTime,
        next |-> RetryDelay(r.attempts)]

RecordError(w, m) ==
  /\ pc[w] = "errored"
  /\ Current(w, m)
  /\ row[m].status # "deleted"
  /\ Free(w, m)
  /\ Finish(w, m, AfterError(cache[w][m]))
  /\ UNCHANGED <<sends, crashes, deletes>>

\* The UPDATE of a deleted row matches nothing: the session raises and the
\* task ends with the rest of its batch undone.
StaleData(w, m) ==
  /\ pc[w] \in {"locked", "open", "accepted", "errored"}
  /\ Current(w, m)
  /\ row[m].status = "deleted"
  /\ EndTask(w)
  /\ UNCHANGED <<row, sends, crashes, deletes>>

\* The worker process dies; PostgreSQL drops its locks.
Crash(w) ==
  /\ pc[w] # "idle"
  /\ crashes < MaxCrashes
  /\ crashes' = crashes + 1
  /\ EndTask(w)
  /\ UNCHANGED <<row, sends, deletes>>

Aged(r) ==
  [status |-> r.status, attempts |-> r.attempts,
   claimed |-> IF r.claimed = NoTime \/ r.claimed > ClaimTimeout
               THEN r.claimed ELSE r.claimed + 1,
   next    |-> IF r.next <= 0 THEN r.next ELSE r.next - 1]

\* Time passes, except that the HTTP client gives up after SendTimeout.
Tick ==
  /\ \A w \in Workers : InFlight(w) => busy[w] < SendTimeout
  /\ row' = [m \in Messages |-> Aged(row[m])]
  /\ busy' = [w \in Workers |-> IF InFlight(w) THEN busy[w] + 1 ELSE 0]
  /\ UNCHANGED <<pc, batch, cache, sends, crashes, deletes>>

Work(w) ==
  \/ Poll(w)
  \/ \E m \in Messages :
       \/ Reject(w, m)
       \/ Claim(w, m)
       \/ Send(w, m)
       \/ RecordSent(w, m)
       \/ RecordError(w, m)
       \/ StaleData(w, m)

Next ==
  \/ \E m \in Messages : Enqueue(m) \/ Delete(m)
  \/ \E w \in Workers : Work(w) \/ Crash(w)
  \/ Tick

Spec == Init /\ [][Next]_vars

\* Celery beat starts the task again and again, a started task goes on, the
\* HTTP client has a timeout, and time passes.
Fairness == WF_vars(Tick) /\ \A w \in Workers : WF_vars(Work(w))

FairSpec == Spec /\ Fairness

-----------------------------------------------------------------------------
\* Every variable has its type.  The range of `attempts` is a property of the
\* protocol: the attempt counter a claim writes comes from a copy that may be
\* old, and no interleaving takes it past the configured maximum.
TypeOK ==
  /\ row \in [Messages -> Row]
  /\ pc \in [Workers -> PC]
  /\ batch \in [Workers -> SUBSET Messages]
  /\ cache \in [Workers -> [Messages -> Row]]
  /\ busy \in [Workers -> 0..SendTimeout]
  /\ sends \in [Messages -> 0..MaxSends]
  /\ crashes \in 0..MaxCrashes
  /\ deletes \in 0..MaxDeletes

\* A row says "sent" only if Telegram did deliver the message, however many
\* workers overwrite each other's columns, crash or lose an answer.
SentWasAccepted == \A m \in Messages : row[m].status = "sent" => sends[m] >= 1

\* The two ways to deploy the task in which a worker's copies cannot become old:
\* one worker process, or polls that find one row at a time (BatchLimit = 1: every
\* behaviour in which no poll finds two rows due) and a send that ends within its
\* lease.  The properties marked (exclusive) need one of them.
Exclusive ==
  \/ \A v, w \in Workers : v = w
  \/ BatchLimit = 1 /\ SendTimeout <= ClaimTimeout

\* (exclusive) No two workers hold the same row in their batches, so no two of them send the
\* same message at the same time.
NoSharedRow == \A v, w \in Workers : batch[v] \cap batch[w] # {} => v = w

\* (exclusive) The customer never receives a message more often than delivery_attempts
\* counts, hence never more often than the configured maximum.
SendsWithinAttempts == \A m \in Messages : sends[m] <= row[m].attempts

\* (exclusive) A message reported as sent is never taken up again by a later poll or
\* overwritten by another worker's copy.  ImplementsDelivery, below, contains it.
SentIsFinal ==
  [][\A m \in Messages :
       row[m].status = "sent" => row'[m].status \in {"sent", "deleted"}]_vars

\* (exclusive) "failed" is reserved for what can never be delivered and for messages whose
\* attempts are used up.
FailedIsGivenUp ==
  \A m \in Messages :
    row[m].status = "failed" => m \in Undeliverable \/ row[m].attempts = MaxAttempts

Settled(m) == row[m].status \in {"sent", "failed", "deleted"}

\* The claim of the last attempt, past its lease and held by nobody: what a
\* crash during the last attempt leaves behind.
Stranded(m) ==
  /\ row[m].status = "sending"
  /\ StaleClaim(row[m])
  /\ row[m].attempts = MaxAttempts
  /\ \A w \in Workers : m \notin batch[w]

\* Every message queued for delivery is settled in the end, through refused sends,
\* lost answers and crashes; the one exception is a crash in the last attempt.
Settles ==
  \A m \in Messages : row[m].status = "pending" ~> Settled(m) \/ Stranded(m)

\* README.md:327: stale `sending` messages can be retried by later worker runs.
StaleClaimsRetried ==
  \A m \in Messages :
    (row[m].status = "sending" /\ StaleClaim(row[m]))
      ~> ~(row[m].status = "sending" /\ StaleClaim(row[m]))

\* specs/002-production-security-fixes/spec.md:118: the outbox queue avoids
\* duplicates.
NoDuplicateDelivery == \A m \in Messages : sends[m] <= 1

\* The outbox seen from outside: claims and retries are not visible.
Fate(r) == IF r.status \in {"pending", "sending"} THEN "queued" ELSE r.status

Delivery == INSTANCE MessageDelivery
  WITH fate <- [m \in Messages |-> Fate(row[m])], delivered <- sends

\* The outbox implements the abstract delivery service: a message's fate only moves
\* forward and the customer receives it at most MaxAttempts times.
ImplementsDelivery == Delivery!Spec
=============================================================================
