------------------------ MODULE TelegramOutboxProofs ------------------------
(* Proofs about TelegramOutbox, for every value of its constants. *)
EXTENDS TelegramOutbox, FiniteSetTheorems, TLAPS

\* The backoff never exceeds telegram_outbox_retry_max_seconds.
LEMMA RetryDelayType == \A a \in Int : RetryDelay(a) \in 0..RetryMax
  BY OutboxConstants DEF RetryDelay

LEMMA RowTypes ==
  ASSUME NEW r \in Row
  PROVE  /\ Copy(r) \in Row
         /\ Failed(r) \in Row
         /\ Sent(r) \in Row
         /\ AfterError(r) \in Row
         /\ Aged(r) \in Row
         /\ r.attempts < MaxAttempts => Claimed(r) \in Row
<1> USE OutboxConstants DEF Row, NoTime, DeliveryStatus
<1>1. /\ r.attempts \in 0..MaxAttempts /\ MaxAttempts \in Nat
      /\ ClaimTimeout \in Nat /\ RetryMax \in Nat
  OBVIOUS
<1>2. Copy(r) \in Row
  BY DEF Copy
<1>3. Failed(r) \in Row /\ Sent(r) \in Row
  BY DEF Failed, Sent
<1>4. AfterError(r) \in Row
  <2>1. RetryDelay(r.attempts) \in 0..RetryMax
    BY <1>1, RetryDelayType
  <2>2. QED
    BY <1>3, <2>1 DEF AfterError
<1>5. Aged(r) \in Row
  BY DEF Aged
<1>6. r.attempts < MaxAttempts => Claimed(r) \in Row
  BY <1>1 DEF Claimed
<1>7. QED
  BY <1>2, <1>3, <1>4, <1>5, <1>6

\* Writing the changed columns of a copy keeps the row well typed.
LEMMA WrittenType ==
  ASSUME NEW db \in Row, NEW old \in Row, NEW new \in Row
  PROVE  Written(db, old, new) \in Row
  BY DEF Written, Row

LEMMA NewRowType == NewRow \in Row
  BY OutboxConstants DEF NewRow, Row, DeliveryStatus, NoTime

-----------------------------------------------------------------------------
(* Type correctness.  The counter a claim writes is one more than the one in *)
(* the worker's copy, so the type of `attempts` rests on every copy a claim  *)
(* can still use being below the maximum: Claimable.                         *)

Claimable ==
  \A w \in Workers : \A m \in batch[w] :
    \/ InFlight(w) /\ Current(w, m)
    \/ cache[w][m].attempts < MaxAttempts

TypeInv == TypeOK /\ Claimable

\* The end of one message of the batch keeps the types.
LEMMA FinishType ==
  ASSUME TypeInv, NEW w \in Workers, NEW m \in Messages, NEW new \in Row,
         Current(w, m), Finish(w, m, new), UNCHANGED <<crashes, deletes>>,
         sends' \in [Messages -> 0..MaxSends]
  PROVE  TypeInv'
<1> USE DEF TypeInv
<1>1. Written(row[m], cache[w][m], new) \in Row
  BY WrittenType DEF TypeOK
<1>2. row' \in [Messages -> Row]
  BY <1>1 DEF Finish, TypeOK
<1>3. /\ pc' \in [Workers -> PC]
      /\ batch' \in [Workers -> SUBSET Messages]
      /\ busy' \in [Workers -> 0..SendTimeout]
  BY OutboxConstants DEF Finish, TypeOK, PC
<1>4. cache' \in [Workers -> [Messages -> Row]]
  BY NewRowType DEF Finish, TypeOK
<1>5. TypeOK'
  BY <1>2, <1>3, <1>4 DEF TypeOK
<1>6. Claimable'
  <2> SUFFICES ASSUME NEW v \in Workers, NEW k \in batch'[v]
               PROVE  \/ InFlight(v)' /\ Current(v, k)'
                      \/ cache'[v][k].attempts < MaxAttempts
    BY DEF Claimable
  <2>1. CASE v = w
    <3>1. k \in batch[w] /\ k # m /\ k \in Messages
      BY <2>1 DEF Finish, TypeOK
    <3>2. ~ Current(w, k)
      BY <3>1 DEF Current, Messages
    <3>3. cache'[w][k] = cache[w][k]
      BY <3>1 DEF Finish, TypeOK
    <3>4. QED
      BY <2>1, <3>1, <3>2, <3>3 DEF Claimable
  <2>2. CASE v # w
    <3>1. /\ batch'[v] = batch[v]
          /\ cache'[v] = cache[v]
          /\ pc'[v] = pc[v]
      BY <2>2 DEF Finish, TypeOK
    <3>2. QED
      BY <3>1 DEF Claimable, Current, InFlight
  <2>3. QED
    BY <2>1, <2>2
<1>7. QED
  BY <1>5, <1>6

\* The end of a task drops its session.
LEMMA EndTaskType ==
  ASSUME TypeInv, NEW w \in Workers, EndTask(w), UNCHANGED <<row, sends, deletes>>,
         crashes' \in 0..MaxCrashes
  PROVE  TypeInv'
<1> USE DEF TypeInv
<1>1. TypeOK'
  BY NewRowType, OutboxConstants DEF EndTask, TypeOK, PC
<1>2. Claimable'
  <2> SUFFICES ASSUME NEW v \in Workers, NEW k \in batch'[v]
               PROVE  \/ InFlight(v)' /\ Current(v, k)'
                      \/ cache'[v][k].attempts < MaxAttempts
    BY DEF Claimable
  <2>1. v # w
    BY DEF EndTask, TypeOK
  <2>2. /\ batch'[v] = batch[v]
        /\ cache'[v] = cache[v]
        /\ pc'[v] = pc[v]
    BY <2>1 DEF EndTask, TypeOK
  <2>3. QED
    BY <2>2 DEF Claimable, Current, InFlight
<1>3. QED
  BY <1>1, <1>2

LEMMA TypeInit == Init => TypeInv
  BY NewRowType, OutboxConstants DEF Init, TypeInv, TypeOK, Claimable, PC

LEMMA TypeStep == TypeInv /\ [Next]_vars => TypeInv'
<1> SUFFICES ASSUME TypeInv, [Next]_vars
             PROVE  TypeInv'
  OBVIOUS
<1> USE DEF TypeInv
<1>1. ASSUME NEW m \in Messages, Enqueue(m) \/ Delete(m)
      PROVE  TypeInv'
  <2>1. PICK s \in DeliveryStatus :
          /\ row' = [row EXCEPT ![m].status = s]
          /\ UNCHANGED <<pc, batch, cache, busy, sends, crashes>>
    BY <1>1 DEF Enqueue, Delete, DeliveryStatus
  <2>2. row' \in [Messages -> Row]
    BY <2>1 DEF TypeOK, Row
  <2>3. deletes' \in 0..MaxDeletes
    BY <1>1, OutboxConstants DEF Enqueue, Delete, TypeOK
  <2>4. QED
    BY <2>1, <2>2, <2>3 DEF TypeOK, Claimable, Current, InFlight
<1>2. ASSUME NEW w \in Workers, Poll(w)
      PROVE  TypeInv'
  <2>1. /\ batch'[w] \subseteq {m \in Messages : Eligible(row[m])}
        /\ batch' = [batch EXCEPT ![w] = batch'[w]]
    BY <1>2 DEF Poll, Oldest, TypeOK
  <2>2. [m \in Messages |-> IF m \in batch'[w] THEN Copy(row[m]) ELSE NewRow]
          \in [Messages -> Row]
    BY RowTypes, NewRowType DEF TypeOK
  <2>3. TypeOK'
    BY <1>2, <2>1, <2>2 DEF Poll, TypeOK, PC
  <2>4. ASSUME NEW m \in batch'[w]
        PROVE  cache'[w][m].attempts < MaxAttempts
    <3>1. m \in Messages /\ row[m].attempts < MaxAttempts
      BY <2>1 DEF Eligible
    <3>2. cache'[w][m] = Copy(row[m])
      BY <1>2, <3>1 DEF Poll, TypeOK
    <3>3. QED
      BY <3>1, <3>2 DEF Copy
  <2>5. ASSUME NEW v \in Workers \ {w}
        PROVE  batch'[v] = batch[v] /\ cache'[v] = cache[v] /\ pc'[v] = pc[v]
    BY <1>2 DEF Poll, TypeOK
  <2>6. Claimable'
    BY <2>4, <2>5 DEF Claimable, Current, InFlight
  <2>7. QED
    BY <2>3, <2>6
<1>3. ASSUME NEW w \in Workers, NEW m \in Messages, Reject(w, m)
      PROVE  TypeInv'
  <2>1. Failed(cache[w][m]) \in Row
    BY RowTypes DEF TypeOK
  <2>2. sends' \in [Messages -> 0..MaxSends]
    BY <1>3 DEF Reject, TypeOK
  <2>3. QED
    BY <1>3, <2>1, <2>2, FinishType DEF Reject
<1>4. ASSUME NEW w \in Workers, NEW m \in Messages, Claim(w, m)
      PROVE  TypeInv'
  <2>1. cache[w][m] \in Row /\ cache[w][m].attempts < MaxAttempts
    BY <1>4 DEF TypeOK, Claimable, Claim, InFlight, Current
  <2>2. Claimed(cache[w][m]) \in Row
    BY <2>1, RowTypes
  <2>3. /\ Written(row[m], cache[w][m], Claimed(cache[w][m])) \in Row
        /\ Copy(Claimed(cache[w][m])) \in Row
    BY <2>1, <2>2, WrittenType, RowTypes DEF TypeOK
  <2>4. row' \in [Messages -> Row] /\ cache' \in [Workers -> [Messages -> Row]]
    BY <1>4, <2>3 DEF Claim, Save, TypeOK
  <2>5. TypeOK'
    <3>1. pc' \in [Workers -> PC]
      BY <1>4 DEF Claim, TypeOK, PC
    <3>2. busy' \in [Workers -> 0..SendTimeout]
      BY <1>4, OutboxConstants DEF Claim, TypeOK
    <3>3. UNCHANGED <<batch, sends, crashes, deletes>>
      BY <1>4 DEF Claim
    <3>4. QED
      BY <2>4, <3>1, <3>2, <3>3 DEF TypeOK
  <2>6. Claimable'
    <3> SUFFICES ASSUME NEW v \in Workers, NEW k \in batch'[v]
                 PROVE  \/ InFlight(v)' /\ Current(v, k)'
                        \/ cache'[v][k].attempts < MaxAttempts
      BY DEF Claimable
    <3>1. batch' = batch
      BY <1>4 DEF Claim
    <3>2. CASE v = w /\ k = m
      BY <1>4, <3>1, <3>2 DEF Claim, InFlight, Current, TypeOK
    <3>3. CASE v = w /\ k # m
      <4>1. cache'[w][k] = cache[w][k] /\ pc[w] \in {"locked", "open"}
        BY <1>4, <3>1, <3>3 DEF Claim, Save, TypeOK
      <4>2. QED
        BY <3>1, <3>3, <4>1 DEF Claimable, InFlight
    <3>4. CASE v # w
      <4>1. cache'[v] = cache[v] /\ pc'[v] = pc[v]
        BY <1>4, <3>4 DEF Claim, Save, TypeOK
      <4>2. QED
        BY <3>1, <4>1 DEF Claimable, InFlight, Current
    <3>5. QED
      BY <3>2, <3>3, <3>4
  <2>7. QED
    BY <2>5, <2>6
<1>5. ASSUME NEW w \in Workers, NEW m \in Messages, Send(w, m)
      PROVE  TypeInv'
  <2>1. /\ pc' \in [Workers -> PC]
        /\ sends' \in [Messages -> 0..MaxSends]
        /\ \A v \in Workers : InFlight(v) => InFlight(v)'
    BY <1>5, OutboxConstants DEF Send, TypeOK, PC, InFlight
  <2>2. UNCHANGED <<row, batch, cache, busy, crashes, deletes>>
    BY <1>5 DEF Send
  <2>3. QED
    BY <2>1, <2>2 DEF TypeOK, Claimable, Current
<1>6. ASSUME NEW w \in Workers, NEW m \in Messages, RecordSent(w, m)
      PROVE  TypeInv'
  <2>1. Sent(cache[w][m]) \in Row
    BY RowTypes DEF TypeOK
  <2>2. sends' \in [Messages -> 0..MaxSends]
    BY <1>6 DEF RecordSent, TypeOK
  <2>3. QED
    BY <1>6, <2>1, <2>2, FinishType DEF RecordSent
<1>7. ASSUME NEW w \in Workers, NEW m \in Messages, RecordError(w, m)
      PROVE  TypeInv'
  <2>1. AfterError(cache[w][m]) \in Row
    BY RowTypes DEF TypeOK
  <2>2. sends' \in [Messages -> 0..MaxSends]
    BY <1>7 DEF RecordError, TypeOK
  <2>3. QED
    BY <1>7, <2>1, <2>2, FinishType DEF RecordError
<1>8. ASSUME NEW w \in Workers, NEW m \in Messages, StaleData(w, m)
      PROVE  TypeInv'
  <2>1. crashes' \in 0..MaxCrashes
    BY <1>8 DEF StaleData, TypeOK
  <2>2. QED
    BY <1>8, <2>1, EndTaskType DEF StaleData
<1>9. ASSUME NEW w \in Workers, Crash(w)
      PROVE  TypeInv'
  <2>1. crashes' \in 0..MaxCrashes
    BY <1>9, OutboxConstants DEF Crash, TypeOK
  <2>2. QED
    BY <1>9, <2>1, EndTaskType DEF Crash
<1>10. CASE Tick
  <2>1. row' \in [Messages -> Row]
    BY <1>10, RowTypes DEF Tick, TypeOK
  <2>2. busy' \in [Workers -> 0..SendTimeout]
    BY <1>10, OutboxConstants DEF Tick, TypeOK
  <2>3. UNCHANGED <<pc, batch, cache, sends, crashes, deletes>>
    BY <1>10 DEF Tick
  <2>4. QED
    BY <2>1, <2>2, <2>3 DEF TypeOK, Claimable, Current, InFlight
<1>11. CASE UNCHANGED vars
  BY <1>11 DEF vars, TypeOK, Claimable, Current, InFlight
<1>12. QED
  BY <1>1, <1>2, <1>3, <1>4, <1>5, <1>6, <1>7, <1>8, <1>9, <1>10, <1>11
     DEF Next, Work

\* The variables keep their types, and no row's attempt counter exceeds the
\* configured maximum, for any number of workers, batch size and timeouts.
THEOREM TypeCorrect == Spec => []TypeOK
<1>1. Spec => []TypeInv
  BY TypeInit, TypeStep, PTL DEF Spec
<1>2. TypeInv => TypeOK
  BY DEF TypeInv
<1>3. QED
  BY <1>1, <1>2, PTL

-----------------------------------------------------------------------------
(* "sent" is written only by a worker whose own send was accepted.  Written  *)
(* may keep the status the row has, so the invariant is about both.          *)

AcceptedInv ==
  /\ SentWasAccepted
  /\ \A w \in Workers : \A m \in Messages :
       pc[w] = "accepted" /\ Current(w, m) => sends[m] >= 1

\* Committing a status other than "sent" makes no row sent.
LEMMA FinishAccepted ==
  ASSUME TypeOK, AcceptedInv, NEW w \in Workers, NEW m \in Messages, NEW new \in Row,
         Finish(w, m, new), UNCHANGED sends,
         new.status = "sent" => sends[m] >= 1
  PROVE  AcceptedInv'
<1>1. \A k \in Messages : row'[k].status = "sent" =>
        \/ row[k].status = "sent"
        \/ k = m /\ new.status = "sent"
  BY DEF Finish, TypeOK, Written
<1>2. SentWasAccepted'
  BY <1>1 DEF AcceptedInv, SentWasAccepted
<1>3. \A v \in Workers : pc'[v] = "accepted" => batch'[v] = batch[v] /\ pc[v] = "accepted"
  BY DEF Finish, TypeOK
<1>4. QED
  BY <1>2, <1>3 DEF AcceptedInv, Current

LEMMA AcceptedStep == TypeInv /\ AcceptedInv /\ [Next]_vars => AcceptedInv'
<1> SUFFICES ASSUME TypeInv, AcceptedInv, [Next]_vars
             PROVE  AcceptedInv'
  OBVIOUS
<1> USE DEF TypeInv
<1>1. ASSUME NEW m \in Messages, Enqueue(m) \/ Delete(m)
      PROVE  AcceptedInv'
  <2>1. \A k \in Messages : row'[k].status = "sent" => row[k].status = "sent"
    BY <1>1 DEF Enqueue, Delete, TypeOK, Row
  <2>2. UNCHANGED <<pc, batch, sends>>
    BY <1>1 DEF Enqueue, Delete
  <2>3. QED
    BY <2>1, <2>2 DEF AcceptedInv, SentWasAccepted, Current
<1>2. ASSUME NEW w \in Workers, Poll(w)
      PROVE  AcceptedInv'
  <2>1. \A v \in Workers : pc'[v] = "accepted" => batch'[v] = batch[v] /\ pc[v] = "accepted"
    BY <1>2 DEF Poll, TypeOK
  <2>2. UNCHANGED <<row, sends>>
    BY <1>2 DEF Poll
  <2>3. QED
    BY <2>1, <2>2 DEF AcceptedInv, SentWasAccepted, Current
<1>3. ASSUME NEW w \in Workers, NEW m \in Messages,
             Reject(w, m) \/ RecordSent(w, m) \/ RecordError(w, m)
      PROVE  AcceptedInv'
  <2>1. cache[w][m] \in Row
    BY DEF TypeOK
  <2>2. CASE Reject(w, m)
    BY <2>1, <2>2, FinishAccepted, RowTypes DEF Reject, Failed
  <2>3. CASE RecordSent(w, m)
    <3>1. sends[m] >= 1
      BY <2>3 DEF RecordSent, AcceptedInv
    <3>2. QED
      BY <2>1, <2>3, <3>1, FinishAccepted, RowTypes DEF RecordSent
  <2>4. CASE RecordError(w, m)
    <3>1. AfterError(cache[w][m]).status # "sent"
      BY DEF AfterError, Failed
    <3>2. QED
      BY <2>1, <2>4, <3>1, FinishAccepted, RowTypes DEF RecordError
  <2>5. QED
    BY <1>3, <2>2, <2>3, <2>4
<1>4. ASSUME NEW w \in Workers, NEW m \in Messages, Claim(w, m)
      PROVE  AcceptedInv'
  <2>1. \A k \in Messages : row'[k].status = "sent" => row[k].status = "sent"
    BY <1>4 DEF Claim, Save, Claimed, Written, TypeOK
  <2>2. \A v \in Workers : pc'[v] = "accepted" => pc[v] = "accepted"
    BY <1>4 DEF Claim, TypeOK
  <2>3. UNCHANGED <<batch, sends>>
    BY <1>4 DEF Claim
  <2>4. QED
    BY <2>1, <2>2, <2>3 DEF AcceptedInv, SentWasAccepted, Current
<1>5. ASSUME NEW w \in Workers, NEW m \in Messages, Send(w, m)
      PROVE  AcceptedInv'
  <2>1. UNCHANGED <<row, batch>>
    BY <1>5 DEF Send
  <2>2. \A k \in Messages : sends'[k] >= sends[k]
    BY <1>5 DEF Send, TypeOK
  <2>3. ASSUME NEW v \in Workers, NEW k \in Messages, pc'[v] = "accepted", Current(v, k)
        PROVE  sends'[k] >= 1
    <3>1. CASE v = w
      <4>1. k = m
        BY <1>5, <2>3, <3>1 DEF Send, Current, Messages
      <4>2. PICK outcome \in Outcomes :
              /\ pc' = [pc EXCEPT ![w] = IF outcome = "accepted" THEN "accepted" ELSE "errored"]
              /\ sends' = [sends EXCEPT ![m] =
                             IF outcome # "refused" /\ @ < MaxSends THEN @ + 1 ELSE @]
        BY <1>5 DEF Send
      <4>3. outcome = "accepted"
        BY <2>3, <3>1, <4>2 DEF TypeOK
      <4>4. sends[m] \in 0..MaxSends /\ MaxSends \in Nat \ {0}
        BY OutboxConstants DEF TypeOK
      <4>5. sends'[m] = IF sends[m] < MaxSends THEN sends[m] + 1 ELSE sends[m]
        BY <4>2, <4>3 DEF TypeOK
      <4>6. QED
        BY <4>1, <4>4, <4>5
    <3>2. CASE v # w
      <4>1. pc[v] = "accepted"
        BY <1>5, <2>3, <3>2 DEF Send, TypeOK
      <4>2. sends[k] >= 1
        BY <2>3, <4>1 DEF AcceptedInv
      <4>3. sends[k] \in Int /\ sends'[k] \in Int /\ sends'[k] >= sends[k]
        BY <2>2, TypeStep, OutboxConstants DEF TypeOK
      <4>4. QED
        BY <4>2, <4>3
    <3>3. QED
      BY <3>1, <3>2
  <2>4. SentWasAccepted'
    <3>1. sends' \in [Messages -> Int]
      BY <1>5, OutboxConstants DEF Send, TypeOK
    <3>2. QED
      BY <2>1, <2>2, <3>1, OutboxConstants DEF AcceptedInv, SentWasAccepted, TypeOK
  <2>5. QED
    BY <2>1, <2>3, <2>4 DEF AcceptedInv, Current
<1>6. ASSUME NEW w \in Workers, EndTask(w), UNCHANGED <<row, sends>>
      PROVE  AcceptedInv'
  <2>1. \A v \in Workers : pc'[v] = "accepted" => batch'[v] = batch[v] /\ pc[v] = "accepted"
    BY <1>6 DEF EndTask, TypeOK
  <2>2. QED
    BY <1>6, <2>1 DEF AcceptedInv, SentWasAccepted, Current
<1>7. CASE Tick
  <2>1. \A k \in Messages : row'[k].status = row[k].status
    BY <1>7 DEF Tick, Aged
  <2>2. UNCHANGED <<pc, batch, sends>>
    BY <1>7 DEF Tick
  <2>3. QED
    BY <2>1, <2>2 DEF AcceptedInv, SentWasAccepted, Current
<1>8. CASE UNCHANGED vars
  BY <1>8 DEF vars, AcceptedInv, SentWasAccepted, Current
<1>9. QED
  BY <1>1, <1>2, <1>3, <1>4, <1>5, <1>6, <1>7, <1>8 DEF Next, Work, StaleData, Crash

\* A row marked "sent" was delivered by Telegram at least once, whatever the
\* number of workers, the batch size and the crashes.
THEOREM SentAccepted == Spec => []SentWasAccepted
<1>1. Init => AcceptedInv
  BY DEF Init, AcceptedInv, SentWasAccepted, NewRow
<1>2. Spec => []TypeInv
  BY TypeInit, TypeStep, PTL DEF Spec
<1>3. Spec => []AcceptedInv
  BY <1>1, <1>2, AcceptedStep, PTL DEF Spec
<1>4. AcceptedInv => SentWasAccepted
  BY DEF AcceptedInv
<1>5. QED
  BY <1>3, <1>4, PTL

-----------------------------------------------------------------------------
(* The exclusive deployments.  A worker's copies stay current because no     *)
(* other worker holds their rows: with one worker trivially, and with claims *)
(* committed one row at a time because a row in flight is "sending" with a   *)
(* claim as old as the send, which ends before the claim becomes stale.      *)

Leased == BatchLimit = 1 /\ SendTimeout <= ClaimTimeout

CopiesCurrent ==
  \A w \in Workers : \A m \in batch[w] :
    /\ cache[w][m].attempts = row[m].attempts
    /\ row[m].status # "deleted" => cache[w][m].status = row[m].status

BatchUnsettled ==
  \A w \in Workers : \A m \in batch[w] : row[m].status \in {"pending", "sending", "deleted"}

IdleEmpty == \A w \in Workers : pc[w] = "idle" => batch[w] = {}

OneAtATime ==
  Leased => \A w \in Workers : pc[w] # "open" /\ \A m, k \in batch[w] : m = k

ClaimAge ==
  Leased => \A w \in Workers : \A m \in batch[w] :
              InFlight(w) => /\ row[m].status \in {"sending", "deleted"}
                             /\ row[m].claimed = busy[w]

ExclusiveInv ==
  /\ NoSharedRow
  /\ CopiesCurrent
  /\ BatchUnsettled
  /\ IdleEmpty
  /\ OneAtATime
  /\ ClaimAge

\* ORDER BY created_at LIMIT 1 selects at most one row.
LEMMA OldestOne ==
  ASSUME NEW S \in SUBSET Messages, NEW a \in Oldest(S, 1), NEW b \in Oldest(S, 1)
  PROVE  a = b
<1>1. a \in S /\ b \in S /\ a \in Int /\ b \in Int
  BY OutboxConstants DEF Oldest, Messages
<1>2. IsFiniteSet(Messages)
  BY FS_Interval, OutboxConstants DEF Messages
<1>3. ASSUME NEW x \in S, NEW y \in Oldest(S, 1)
      PROVE  ~ x < y
  <2>1. IsFiniteSet({k \in S : k < y})
    BY <1>2, FS_Subset
  <2>2. Cardinality({k \in S : k < y}) = 0
    BY <2>1, FS_CardinalityType DEF Oldest
  <2>3. {k \in S : k < y} = {}
    BY <2>1, <2>2, FS_EmptySet
  <2>4. QED
    BY <2>3
<1>4. QED
  BY <1>1, <1>3

\* A commit from a current copy writes the status and the counter it intends.
LEMMA WrittenCurrent ==
  ASSUME CopiesCurrent, NEW w \in Workers, NEW m \in batch[w],
         row[m].status # "deleted", NEW new
  PROVE  /\ Written(row[m], cache[w][m], new).status = new.status
         /\ Written(row[m], cache[w][m], new).attempts = new.attempts
  BY DEF CopiesCurrent, Written

\* The end of one message leaves the other workers' rows alone.
LEMMA FinishExclusive ==
  ASSUME TypeOK, ExclusiveInv, NEW w \in Workers, NEW m \in Messages, NEW new \in Row,
         Current(w, m), row[m].status # "deleted", Finish(w, m, new)
  PROVE  ExclusiveInv'
<1>1. m \in batch[w]
  BY DEF Current
<1>2. \A k \in Messages \ {m} : row'[k] = row[k]
  BY DEF Finish, TypeOK
<1>3. \A v \in Workers \ {w} :
        /\ batch'[v] = batch[v] /\ cache'[v] = cache[v] /\ pc'[v] = pc[v]
        /\ busy'[v] = busy[v]
        /\ m \notin batch[v]
  <2>1. \A v \in Workers \ {w} : m \notin batch[v]
    BY <1>1 DEF ExclusiveInv, NoSharedRow
  <2>2. QED
    BY <2>1 DEF Finish, TypeOK
<1>4. /\ batch'[w] = batch[w] \ {m}
      /\ \A k \in Messages \ {m} : cache'[w][k] = cache[w][k]
      /\ pc'[w] = IF batch[w] = {m} THEN "idle" ELSE "open"
  BY DEF Finish, TypeOK
<1>5. \A v \in Workers : batch'[v] \subseteq batch[v] \ {m} /\ batch'[v] \subseteq Messages
  BY <1>3, <1>4 DEF TypeOK
<1>6. NoSharedRow'
  BY <1>5 DEF ExclusiveInv, NoSharedRow
<1>7. \A v \in Workers : \A k \in batch'[v] : cache'[v][k] = cache[v][k] /\ row'[k] = row[k]
  BY <1>2, <1>3, <1>4, <1>5
<1>8. CopiesCurrent' /\ BatchUnsettled'
  BY <1>5, <1>7 DEF ExclusiveInv, CopiesCurrent, BatchUnsettled
<1>9. IdleEmpty'
  BY <1>3, <1>4 DEF ExclusiveInv, IdleEmpty
<1>10. OneAtATime'
  BY <1>1, <1>3, <1>4, <1>5 DEF ExclusiveInv, OneAtATime, Leased
<1>11. ClaimAge'
  <2> SUFFICES ASSUME Leased, NEW v \in Workers, NEW k \in batch'[v], InFlight(v)'
               PROVE  row'[k].status \in {"sending", "deleted"} /\ row'[k].claimed = busy'[v]
    BY DEF ClaimAge, Leased
  <2>1. v # w
    BY <1>4 DEF InFlight
  <2>2. InFlight(v) /\ k \in batch[v] /\ row'[k] = row[k] /\ busy'[v] = busy[v]
    BY <1>3, <1>5, <1>7, <2>1 DEF InFlight
  <2>3. QED
    BY <2>2 DEF ExclusiveInv, ClaimAge
<1>12. QED
  BY <1>6, <1>8, <1>9, <1>10, <1>11 DEF ExclusiveInv

LEMMA EndTaskExclusive ==
  ASSUME TypeOK, ExclusiveInv, NEW w \in Workers, EndTask(w), UNCHANGED row
  PROVE  ExclusiveInv'
<1>1. \A v \in Workers \ {w} :
        /\ batch'[v] = batch[v] /\ cache'[v] = cache[v] /\ pc'[v] = pc[v]
        /\ busy'[v] = busy[v]
  BY DEF EndTask, TypeOK
<1>2. batch'[w] = {} /\ pc'[w] = "idle"
  BY DEF EndTask, TypeOK
<1>3. NoSharedRow' /\ IdleEmpty'
  BY <1>1, <1>2 DEF ExclusiveInv, NoSharedRow, IdleEmpty
<1>4. CopiesCurrent' /\ BatchUnsettled'
  BY <1>1, <1>2 DEF ExclusiveInv, CopiesCurrent, BatchUnsettled
<1>5. OneAtATime' /\ ClaimAge'
  BY <1>1, <1>2 DEF ExclusiveInv, OneAtATime, ClaimAge, Leased, InFlight
<1>6. QED
  BY <1>3, <1>4, <1>5 DEF ExclusiveInv

\* The SELECT finds no row that another worker holds.
LEMMA PollExclusive ==
  ASSUME Exclusive, TypeOK, ExclusiveInv, NEW w \in Workers, Poll(w)
  PROVE  ExclusiveInv'
<1>1. \A v \in Workers \ {w} :
        /\ batch'[v] = batch[v] /\ cache'[v] = cache[v] /\ pc'[v] = pc[v]
  BY DEF Poll, TypeOK
<1>2. batch'[w] = Oldest({m \in Messages : Eligible(row[m]) /\ Free(w, m)}, BatchLimit)
  BY DEF Poll, TypeOK
<1>3. batch'[w] \subseteq {m \in Messages : Eligible(row[m]) /\ Free(w, m)}
  BY <1>2 DEF Oldest
<1>4. pc'[w] = "locked" /\ UNCHANGED <<row, busy>>
  BY DEF Poll, TypeOK
<1>5. \A m \in batch'[w] : cache'[w][m] = Copy(row[m])
  BY <1>3 DEF Poll, TypeOK
<1>6. ASSUME NEW v \in Workers \ {w}, NEW m \in batch[v]
      PROVE  m \notin batch'[w]
  <2>1. Leased /\ m \in Messages
    BY DEF Exclusive, Leased, TypeOK
  <2>2. CASE pc[v] = "locked"
    BY <1>3, <2>2 DEF Free, Locked
  <2>3. CASE InFlight(v)
    <3>1. row[m].status \in {"sending", "deleted"} /\ row[m].claimed = busy[v]
      BY <2>1, <2>3 DEF ExclusiveInv, ClaimAge
    <3>2. busy[v] \in 0..SendTimeout /\ SendTimeout \in Nat /\ ClaimTimeout \in Nat
      BY OutboxConstants DEF TypeOK
    <3>3. ~ StaleClaim(row[m])
      BY <2>1, <3>1, <3>2 DEF StaleClaim, Leased, NoTime
    <3>4. ~ Eligible(row[m])
      BY <3>1, <3>3 DEF Eligible
    <3>5. QED
      BY <1>3, <3>4
  <2>4. pc[v] \notin {"idle", "open"}
    BY <2>1 DEF ExclusiveInv, IdleEmpty, OneAtATime
  <2>5. pc[v] \in {"idle", "locked", "open", "sending", "accepted", "errored"}
    BY DEF TypeOK, PC
  <2>6. QED
    BY <2>2, <2>3, <2>4, <2>5 DEF InFlight
<1>7. NoSharedRow'
  BY <1>1, <1>6 DEF ExclusiveInv, NoSharedRow
<1>8. CopiesCurrent'
  <2>1. \A m \in batch'[w] : /\ cache'[w][m].attempts = row[m].attempts
                             /\ cache'[w][m].status = row[m].status
    <3> TAKE m \in batch'[w]
    <3>1. cache'[w][m] = Copy(row[m])
      BY <1>5
    <3>2. Copy(row[m]).attempts = row[m].attempts /\ Copy(row[m]).status = row[m].status
      BY DEF Copy
    <3>3. QED
      BY <3>1, <3>2
  <2>2. QED
    BY <1>1, <1>4, <2>1 DEF ExclusiveInv, CopiesCurrent
<1>9. BatchUnsettled'
  BY <1>1, <1>3, <1>4 DEF ExclusiveInv, BatchUnsettled, Eligible
<1>10. IdleEmpty'
  BY <1>1, <1>4 DEF ExclusiveInv, IdleEmpty
<1>11. OneAtATime'
  <2> SUFFICES ASSUME Leased
               PROVE  \A v \in Workers : pc'[v] # "open" /\ \A m, k \in batch'[v] : m = k
    BY DEF OneAtATime, Leased
  <2>1. \A m, k \in batch'[w] : m = k
    BY <1>2, OldestOne DEF Leased
  <2>2. QED
    BY <1>1, <1>4, <2>1 DEF ExclusiveInv, OneAtATime
<1>12. ClaimAge'
  BY <1>1, <1>4 DEF ExclusiveInv, ClaimAge, Leased, InFlight
<1>13. QED
  BY <1>7, <1>8, <1>9, <1>10, <1>11, <1>12 DEF ExclusiveInv

\* A claim starts the lease the row then shows.
LEMMA ClaimExclusive ==
  ASSUME TypeOK, ExclusiveInv, NEW w \in Workers, NEW m \in Messages, Claim(w, m)
  PROVE  ExclusiveInv'
<1>1. m \in batch[w] /\ row[m].status # "deleted" /\ UNCHANGED batch
  BY DEF Claim, Current
<1>2. \A v \in Workers \ {w} :
        /\ cache'[v] = cache[v] /\ pc'[v] = pc[v] /\ busy'[v] = busy[v] /\ m \notin batch[v]
  <2>1. \A v \in Workers \ {w} : m \notin batch[v]
    BY <1>1 DEF ExclusiveInv, NoSharedRow
  <2>2. QED
    BY <2>1 DEF Claim, Save, TypeOK
<1>3. \A k \in Messages \ {m} : row'[k] = row[k] /\ cache'[w][k] = cache[w][k]
  BY DEF Claim, Save, TypeOK
<1>4. /\ row'[m] = Written(row[m], cache[w][m], Claimed(cache[w][m]))
      /\ cache'[w][m] = Copy(Claimed(cache[w][m]))
      /\ pc'[w] = "sending"
      /\ busy'[w] = 0
  BY DEF Claim, Save, TypeOK
<1>5. /\ row'[m].status = "sending"
      /\ row'[m].attempts = cache[w][m].attempts + 1
      /\ row'[m].claimed = 0
  <2>1. /\ row'[m].status = "sending"
        /\ row'[m].attempts = cache[w][m].attempts + 1
    BY <1>1, <1>4, WrittenCurrent DEF ExclusiveInv, Claimed
  <2>2. row'[m].claimed = 0
    BY <1>4 DEF Written, Claimed, NoTime
  <2>3. QED
    BY <2>1, <2>2
<1>6. cache'[w][m].status = "sending" /\ cache'[w][m].attempts = cache[w][m].attempts + 1
  BY <1>4 DEF Copy, Claimed
<1>7. \A v \in Workers : batch[v] \subseteq Messages
  BY DEF TypeOK
<1>8. NoSharedRow'
  BY <1>1 DEF ExclusiveInv, NoSharedRow
<1>9. CopiesCurrent'
  BY <1>1, <1>2, <1>3, <1>5, <1>6, <1>7 DEF ExclusiveInv, CopiesCurrent
<1>10. BatchUnsettled'
  BY <1>1, <1>2, <1>3, <1>5, <1>7 DEF ExclusiveInv, BatchUnsettled
<1>11. IdleEmpty'
  BY <1>1, <1>2, <1>4 DEF ExclusiveInv, IdleEmpty
<1>12. OneAtATime'
  BY <1>1, <1>2, <1>4 DEF ExclusiveInv, OneAtATime, Leased
<1>13. ClaimAge'
  <2> SUFFICES ASSUME Leased, NEW v \in Workers, NEW k \in batch[v], InFlight(v)'
               PROVE  row'[k].status \in {"sending", "deleted"} /\ row'[k].claimed = busy'[v]
    BY <1>1 DEF ClaimAge, Leased
  <2>1. CASE v = w
    <3>1. k = m
      BY <1>1, <2>1 DEF ExclusiveInv, OneAtATime
    <3>2. QED
      BY <1>4, <1>5, <2>1, <3>1
  <2>2. CASE v # w
    <3>1. k # m /\ k \in Messages /\ InFlight(v) /\ busy'[v] = busy[v]
      BY <1>2, <1>7, <2>2 DEF InFlight
    <3>2. QED
      BY <1>3, <3>1 DEF ExclusiveInv, ClaimAge
  <2>3. QED
    BY <2>1, <2>2
<1>14. QED
  BY <1>8, <1>9, <1>10, <1>11, <1>12, <1>13 DEF ExclusiveInv

LEMMA TickExclusive ==
  ASSUME TypeOK, ExclusiveInv, Tick
  PROVE  ExclusiveInv'
<1>1. \A m \in Messages : row'[m] = Aged(row[m])
  BY DEF Tick
<1>2. \A m \in Messages : row'[m].status = row[m].status /\ row'[m].attempts = row[m].attempts
  <2> TAKE m \in Messages
  <2>1. row'[m] = Aged(row[m])
    BY <1>1
  <2>2. Aged(row[m]).status = row[m].status /\ Aged(row[m]).attempts = row[m].attempts
    BY DEF Aged
  <2>3. QED
    BY <2>1, <2>2
<1>3. UNCHANGED <<pc, batch, cache>> /\ \A v \in Workers : batch[v] \subseteq Messages
  BY DEF Tick, TypeOK
<1>4. NoSharedRow' /\ IdleEmpty' /\ OneAtATime'
  BY <1>3 DEF ExclusiveInv, NoSharedRow, IdleEmpty, OneAtATime, Leased
<1>5. CopiesCurrent'
  BY <1>2, <1>3 DEF ExclusiveInv, CopiesCurrent
<1>6. BatchUnsettled'
  BY <1>2, <1>3 DEF ExclusiveInv, BatchUnsettled
<1>7. ClaimAge'
  <2> SUFFICES ASSUME Leased, NEW v \in Workers, NEW k \in batch[v], InFlight(v)
               PROVE  row'[k].status \in {"sending", "deleted"} /\ row'[k].claimed = busy'[v]
    BY <1>3 DEF ClaimAge, Leased, InFlight
  <2>1. row[k].status \in {"sending", "deleted"} /\ row[k].claimed = busy[v]
    BY DEF ExclusiveInv, ClaimAge
  <2>2. /\ busy[v] \in 0..SendTimeout /\ busy[v] < SendTimeout
        /\ SendTimeout \in Nat /\ ClaimTimeout \in Nat
    BY OutboxConstants DEF Tick, TypeOK
  <2>3. busy'[v] = busy[v] + 1
    BY DEF Tick
  <2>4. Aged(row[k]).claimed = busy[v] + 1
    BY <2>1, <2>2 DEF Aged, Leased, NoTime
  <2>5. QED
    BY <1>1, <1>2, <1>3, <2>1, <2>3, <2>4
<1>8. QED
  BY <1>4, <1>5, <1>6, <1>7 DEF ExclusiveInv

LEMMA ExclusiveStep ==
  ASSUME Exclusive, TypeInv, ExclusiveInv, [Next]_vars
  PROVE  ExclusiveInv'
<1>0. TypeOK
  BY DEF TypeInv
<1>1. ASSUME NEW m \in Messages, Enqueue(m) \/ Delete(m)
      PROVE  ExclusiveInv'
  <2>1. /\ \A k \in Messages \ {m} : row'[k] = row[k]
        /\ row'[m].attempts = row[m].attempts /\ row'[m].claimed = row[m].claimed
        /\ UNCHANGED <<pc, batch, cache, busy>>
    BY <1>0, <1>1 DEF Enqueue, Delete, TypeOK, Row
  <2>2. \A w \in Workers : m \in batch[w] => row'[m].status = "deleted"
    BY <1>0, <1>1 DEF Enqueue, Delete, TypeOK, Row, ExclusiveInv, BatchUnsettled
  <2>3. \A v \in Workers : batch[v] \subseteq Messages
    BY <1>0 DEF TypeOK
  <2>4. NoSharedRow' /\ IdleEmpty' /\ OneAtATime'
    BY <2>1 DEF ExclusiveInv, NoSharedRow, IdleEmpty, OneAtATime, Leased
  <2>5. CopiesCurrent' /\ BatchUnsettled'
    BY <2>1, <2>2, <2>3 DEF ExclusiveInv, CopiesCurrent, BatchUnsettled
  <2>6. ClaimAge'
    BY <2>1, <2>2, <2>3 DEF ExclusiveInv, ClaimAge, Leased, InFlight
  <2>7. QED
    BY <2>4, <2>5, <2>6 DEF ExclusiveInv
<1>2. ASSUME NEW w \in Workers, Poll(w)
      PROVE  ExclusiveInv'
  BY <1>0, <1>2, PollExclusive
<1>3. ASSUME NEW w \in Workers, NEW m \in Messages,
             Reject(w, m) \/ RecordSent(w, m) \/ RecordError(w, m)
      PROVE  ExclusiveInv'
  <2>1. /\ Failed(cache[w][m]) \in Row /\ Sent(cache[w][m]) \in Row
        /\ AfterError(cache[w][m]) \in Row
    BY <1>0, RowTypes DEF TypeOK
  <2>2. QED
    BY <1>0, <1>3, <2>1, FinishExclusive DEF Reject, RecordSent, RecordError
<1>4. ASSUME NEW w \in Workers, NEW m \in Messages, Claim(w, m)
      PROVE  ExclusiveInv'
  BY <1>0, <1>4, ClaimExclusive
<1>5. ASSUME NEW w \in Workers, NEW m \in Messages, Send(w, m)
      PROVE  ExclusiveInv'
  <2>1. UNCHANGED <<row, batch, cache, busy>>
    BY <1>5 DEF Send
  <2>2. \A v \in Workers : /\ InFlight(v)' => InFlight(v)
                           /\ pc'[v] \in {"idle", "open"} => pc'[v] = pc[v]
    BY <1>0, <1>5 DEF Send, TypeOK, InFlight
  <2>3. QED
    BY <2>1, <2>2 DEF ExclusiveInv, NoSharedRow, CopiesCurrent, BatchUnsettled, IdleEmpty,
                      OneAtATime, ClaimAge, Leased
<1>6. ASSUME NEW w \in Workers, EndTask(w), UNCHANGED row
      PROVE  ExclusiveInv'
  BY <1>0, <1>6, EndTaskExclusive
<1>7. CASE Tick
  BY <1>0, <1>7, TickExclusive
<1>8. CASE UNCHANGED vars
  BY <1>8 DEF vars, ExclusiveInv, NoSharedRow, CopiesCurrent, BatchUnsettled, IdleEmpty,
              OneAtATime, ClaimAge, Leased, InFlight
<1>9. QED
  BY <1>1, <1>2, <1>3, <1>4, <1>5, <1>6, <1>7, <1>8 DEF Next, Work, StaleData, Crash

LEMMA ExclusiveInit == Init => ExclusiveInv
  BY DEF Init, ExclusiveInv, NoSharedRow, CopiesCurrent, BatchUnsettled, IdleEmpty,
         OneAtATime, ClaimAge, InFlight

-----------------------------------------------------------------------------
(* The attempt counter covers the sends: a claim counts the send to come     *)
(* before Telegram is called, and nobody else writes the counter back.       *)

CountInv ==
  /\ SendsWithinAttempts
  /\ FailedIsGivenUp
  /\ \A w \in Workers : \A m \in Messages :
       pc[w] = "sending" /\ Current(w, m) => sends[m] < row[m].attempts

\* Recording a result keeps the counter.
LEMMA FinishCount ==
  ASSUME TypeOK, ExclusiveInv, CountInv,
         NEW w \in Workers, NEW m \in Messages, NEW new \in Row,
         Current(w, m), row[m].status # "deleted", Finish(w, m, new), UNCHANGED sends,
         new.attempts = cache[w][m].attempts,
         new.status = "failed" => m \in Undeliverable \/ new.attempts = MaxAttempts
  PROVE  CountInv'
<1>1. /\ row'[m].status = new.status
      /\ row'[m].attempts = new.attempts
  BY WrittenCurrent DEF Finish, TypeOK, ExclusiveInv, Current
<1>2. row'[m].attempts = row[m].attempts
  BY <1>1 DEF ExclusiveInv, CopiesCurrent, Current
<1>3. \A k \in Messages \ {m} : row'[k] = row[k]
  BY DEF Finish, TypeOK
<1>4. SendsWithinAttempts'
  BY <1>2, <1>3 DEF CountInv, SendsWithinAttempts
<1>5. FailedIsGivenUp'
  BY <1>1, <1>3 DEF CountInv, FailedIsGivenUp
<1>6. \A v \in Workers : pc'[v] = "sending" => pc[v] = "sending" /\ batch'[v] = batch[v]
  BY DEF Finish, TypeOK
<1>7. QED
  BY <1>2, <1>3, <1>4, <1>5, <1>6 DEF CountInv, Current

LEMMA CountStep ==
  ASSUME TypeInv, ExclusiveInv, CountInv, [Next]_vars
  PROVE  CountInv'
<1>0. TypeOK
  BY DEF TypeInv
<1>1. ASSUME NEW m \in Messages, Enqueue(m) \/ Delete(m)
      PROVE  CountInv'
  <2>1. PICK s \in {"pending", "deleted"} : row' = [row EXCEPT ![m].status = s]
    BY <1>1 DEF Enqueue, Delete
  <2>2. \A k \in Messages : row'[k].attempts = row[k].attempts
    BY <1>0, <2>1 DEF TypeOK, Row
  <2>3. \A k \in Messages : row'[k].status = "failed" => row[k].status = "failed"
    BY <1>0, <2>1 DEF TypeOK, Row
  <2>4. UNCHANGED <<pc, batch, sends>>
    BY <1>1 DEF Enqueue, Delete
  <2>5. QED
    BY <2>2, <2>3, <2>4 DEF CountInv, SendsWithinAttempts, FailedIsGivenUp, Current
<1>2. ASSUME NEW w \in Workers, Poll(w)
      PROVE  CountInv'
  <2>1. \A v \in Workers : pc'[v] = "sending" => pc[v] = "sending" /\ batch'[v] = batch[v]
    BY <1>0, <1>2 DEF Poll, TypeOK
  <2>2. UNCHANGED <<row, sends>>
    BY <1>2 DEF Poll
  <2>3. QED
    BY <2>1, <2>2 DEF CountInv, SendsWithinAttempts, FailedIsGivenUp, Current
<1>3. ASSUME NEW w \in Workers, NEW m \in Messages,
             Reject(w, m) \/ RecordSent(w, m) \/ RecordError(w, m)
      PROVE  CountInv'
  <2>1. cache[w][m] \in Row
    BY <1>0 DEF TypeOK
  <2>2. CASE Reject(w, m)
    <3>1. /\ Failed(cache[w][m]) \in Row
          /\ Failed(cache[w][m]).attempts = cache[w][m].attempts
      BY <2>1, RowTypes DEF Failed
    <3>2. QED
      BY <1>0, <2>2, <3>1, FinishCount DEF Reject
  <2>3. CASE RecordSent(w, m)
    <3>1. /\ Sent(cache[w][m]) \in Row
          /\ Sent(cache[w][m]).attempts = cache[w][m].attempts
          /\ Sent(cache[w][m]).status # "failed"
      BY <2>1, RowTypes DEF Sent
    <3>2. QED
      BY <1>0, <2>3, <3>1, FinishCount DEF RecordSent
  <2>4. CASE RecordError(w, m)
    <3>1. cache[w][m].attempts \in 0..MaxAttempts /\ MaxAttempts \in Nat
      BY <2>1, OutboxConstants DEF Row
    <3>2. /\ AfterError(cache[w][m]) \in Row
          /\ AfterError(cache[w][m]).attempts = cache[w][m].attempts
          /\ AfterError(cache[w][m]).status = "failed" => cache[w][m].attempts = MaxAttempts
      BY <2>1, <3>1, RowTypes DEF AfterError, Failed
    <3>3. QED
      BY <1>0, <2>4, <3>2, FinishCount DEF RecordError
  <2>5. QED
    BY <1>3, <2>2, <2>3, <2>4
<1>4. ASSUME NEW w \in Workers, NEW m \in Messages, Claim(w, m)
      PROVE  CountInv'
  <2>1. m \in batch[w] /\ row[m].status # "deleted"
    BY <1>4 DEF Claim, Current
  <2>2. /\ row'[m].status = "sending"
        /\ row'[m].attempts = row[m].attempts + 1
    BY <1>0, <1>4, <2>1, WrittenCurrent
       DEF Claim, Save, Claimed, TypeOK, ExclusiveInv, CopiesCurrent
  <2>3. \A k \in Messages \ {m} : row'[k] = row[k]
    BY <1>0, <1>4 DEF Claim, Save, TypeOK
  <2>4. UNCHANGED <<batch, sends>>
    BY <1>4 DEF Claim
  <2>5. row[m].attempts \in Int /\ sends[m] \in Int
    BY <1>0, OutboxConstants DEF TypeOK, Row
  <2>6. SendsWithinAttempts'
    BY <2>2, <2>3, <2>4, <2>5 DEF CountInv, SendsWithinAttempts
  <2>7. FailedIsGivenUp'
    BY <2>2, <2>3 DEF CountInv, FailedIsGivenUp
  <2>8. ASSUME NEW v \in Workers, NEW k \in Messages, pc'[v] = "sending", Current(v, k)
        PROVE  sends[k] < row'[k].attempts
    <3>1. CASE k = m
      BY <2>2, <2>5, <3>1 DEF CountInv, SendsWithinAttempts
    <3>2. CASE k # m
      <4>1. v # w
        BY <1>4, <2>8, <3>2 DEF Claim, Current, Messages
      <4>2. pc[v] = "sending"
        BY <1>0, <1>4, <2>8, <4>1 DEF Claim, TypeOK
      <4>3. QED
        BY <2>3, <2>8, <3>2, <4>2 DEF CountInv
    <3>3. QED
      BY <3>1, <3>2
  <2>9. QED
    BY <2>4, <2>6, <2>7, <2>8 DEF CountInv, Current
<1>5. ASSUME NEW w \in Workers, NEW m \in Messages, Send(w, m)
      PROVE  CountInv'
  <2>1. UNCHANGED <<row, batch>>
    BY <1>5 DEF Send
  <2>2. /\ \A k \in Messages \ {m} : sends'[k] = sends[k]
        /\ sends'[m] \in {sends[m], sends[m] + 1}
    BY <1>0, <1>5 DEF Send, TypeOK
  <2>3. sends[m] < row[m].attempts /\ row[m].attempts \in Int /\ sends[m] \in Int
    BY <1>0, <1>5, OutboxConstants DEF Send, CountInv, TypeOK, Row
  <2>4. SendsWithinAttempts'
    BY <2>1, <2>2, <2>3 DEF CountInv, SendsWithinAttempts
  <2>5. FailedIsGivenUp'
    BY <2>1 DEF CountInv, FailedIsGivenUp
  <2>6. ASSUME NEW v \in Workers, NEW k \in Messages, pc'[v] = "sending", Current(v, k)
        PROVE  sends'[k] < row[k].attempts
    <3>1. v # w /\ pc[v] = "sending"
      BY <1>0, <1>5, <2>6 DEF Send, TypeOK
    <3>2. k # m
      BY <1>5, <2>6, <3>1 DEF Send, Current, ExclusiveInv, NoSharedRow
    <3>3. QED
      BY <2>2, <2>6, <3>1, <3>2 DEF CountInv
  <2>7. QED
    BY <2>1, <2>4, <2>5, <2>6 DEF CountInv, Current
<1>6. ASSUME NEW w \in Workers, EndTask(w), UNCHANGED <<row, sends>>
      PROVE  CountInv'
  <2>1. \A v \in Workers : pc'[v] = "sending" => pc[v] = "sending" /\ batch'[v] = batch[v]
    BY <1>0, <1>6 DEF EndTask, TypeOK
  <2>2. QED
    BY <1>6, <2>1 DEF CountInv, SendsWithinAttempts, FailedIsGivenUp, Current
<1>7. CASE Tick
  <2>1. \A k \in Messages : row'[k] = Aged(row[k])
    BY <1>7 DEF Tick
  <2>2. \A k \in Messages : Aged(row[k]).attempts = row[k].attempts
                            /\ Aged(row[k]).status = row[k].status
    BY DEF Aged
  <2>3. UNCHANGED <<pc, batch, sends>>
    BY <1>7 DEF Tick
  <2>4. \A k \in Messages : row'[k].attempts = row[k].attempts
                            /\ row'[k].status = row[k].status
    BY <2>1, <2>2
  <2>5. QED
    BY <2>3, <2>4 DEF CountInv, SendsWithinAttempts, FailedIsGivenUp, Current
<1>8. CASE UNCHANGED vars
  BY <1>8 DEF vars, CountInv, SendsWithinAttempts, FailedIsGivenUp, Current
<1>9. QED
  BY <1>1, <1>2, <1>3, <1>4, <1>5, <1>6, <1>7, <1>8 DEF Next, Work, StaleData, Crash

LEMMA CountInit == Init => CountInv
  BY DEF Init, CountInv, SendsWithinAttempts, FailedIsGivenUp, NewRow

\* The inductive invariant of the exclusive deployments.
LEMMA ExclusiveInvariant ==
  ASSUME Exclusive
  PROVE  Spec => [](TypeInv /\ ExclusiveInv /\ CountInv)
<1>1. Init => TypeInv /\ ExclusiveInv /\ CountInv
  BY TypeInit, ExclusiveInit, CountInit
<1>2. TypeInv /\ ExclusiveInv /\ CountInv /\ [Next]_vars
        => (TypeInv /\ ExclusiveInv /\ CountInv)'
  BY TypeStep, ExclusiveStep, CountStep
<1>3. QED
  BY <1>1, <1>2, PTL DEF Spec

\* In an exclusive deployment no two workers hold the same row.
THEOREM RowsNotShared == ASSUME Exclusive PROVE Spec => []NoSharedRow
<1>1. ExclusiveInv => NoSharedRow
  BY DEF ExclusiveInv
<1>2. QED
  BY <1>1, ExclusiveInvariant, PTL

\* In an exclusive deployment a message reported as sent stays so.
THEOREM SentStays == ASSUME Exclusive PROVE Spec => SentIsFinal
<1>1. TypeInv /\ ExclusiveInv /\ [Next]_vars =>
        [\A m \in Messages :
           row[m].status = "sent" => row'[m].status \in {"sent", "deleted"}]_vars
  <2> SUFFICES ASSUME TypeInv, ExclusiveInv, Next,
                      NEW m \in Messages, row[m].status = "sent"
               PROVE  row'[m].status \in {"sent", "deleted"}
    OBVIOUS
  <2>1. TypeOK /\ \A w \in Workers : m \notin batch[w]
    BY DEF ExclusiveInv, BatchUnsettled, TypeInv
  <2>2. ASSUME NEW k \in Messages, Enqueue(k) \/ Delete(k)
        PROVE  row'[m].status \in {"sent", "deleted"}
    BY <2>1, <2>2 DEF Enqueue, Delete, TypeOK, Row
  <2>3. ASSUME NEW w \in Workers, NEW k \in Messages,
               \/ Reject(w, k) \/ Claim(w, k) \/ RecordSent(w, k) \/ RecordError(w, k)
        PROVE  row'[m] = row[m]
    <3>1. k # m
      BY <2>1, <2>3 DEF Reject, Claim, RecordSent, RecordError, Current
    <3>2. QED
      BY <2>1, <2>3, <3>1 DEF Reject, Claim, RecordSent, RecordError, Finish, Save, TypeOK
  <2>4. ASSUME NEW w \in Workers, NEW k \in Messages,
               Poll(w) \/ Send(w, k) \/ StaleData(w, k) \/ Crash(w)
        PROVE  row' = row
    BY <2>4 DEF Poll, Send, StaleData, Crash
  <2>5. CASE Tick
    BY <2>5 DEF Tick, Aged
  <2>6. QED
    BY <2>2, <2>3, <2>4, <2>5 DEF Next, Work
<1>2. QED
  BY <1>1, ExclusiveInvariant, PTL DEF Spec, SentIsFinal

\* In an exclusive deployment the customer receives a message at most as often as
\* delivery_attempts says.
THEOREM SendsCounted == ASSUME Exclusive PROVE Spec => []SendsWithinAttempts
<1>1. CountInv => SendsWithinAttempts
  BY DEF CountInv
<1>2. QED
  BY <1>1, ExclusiveInvariant, PTL

\* In an exclusive deployment a message fails only when it cannot be delivered or
\* its attempts are used up.
THEOREM FailedGivenUp == ASSUME Exclusive PROVE Spec => []FailedIsGivenUp
<1>1. CountInv => FailedIsGivenUp
  BY DEF CountInv
<1>2. QED
  BY <1>1, ExclusiveInvariant, PTL

-----------------------------------------------------------------------------
(* The outbox implements MessageDelivery: a worker's commit is one step of   *)
(* the message it is about, and claims, retries and crashes are stutters.    *)

\* The abstract state after row m got status s and every other row kept its own.
LEMMA FateStep ==
  ASSUME TypeOK, NEW m \in Messages, NEW f,
         Fate(row'[m]) = f,
         \A k \in Messages \ {m} : row'[k].status = row[k].status
  PROVE  [k \in Messages |-> Fate(row'[k])]
           = [[k \in Messages |-> Fate(row[k])] EXCEPT ![m] = f]
  BY DEF Fate

\* The end of a message in an exclusive deployment, seen from outside.
LEMMA FinishFate ==
  ASSUME TypeOK, ExclusiveInv, NEW w \in Workers, NEW m \in Messages, NEW new \in Row,
         Current(w, m), row[m].status # "deleted", Finish(w, m, new)
  PROVE  /\ Fate(row[m]) = "queued"
         /\ Fate(row'[m]) = Fate(new)
         /\ \A k \in Messages \ {m} : row'[k].status = row[k].status
<1>1. row[m].status \in {"pending", "sending"}
  BY DEF ExclusiveInv, BatchUnsettled, Current
<1>2. row'[m].status = new.status
  BY WrittenCurrent DEF Finish, TypeOK, ExclusiveInv, Current
<1>3. \A k \in Messages \ {m} : row'[k] = row[k]
  BY DEF Finish, TypeOK
<1>4. QED
  BY <1>1, <1>2, <1>3 DEF Fate

LEMMA DeliveryInit == Init => Delivery!Init
<1> SUFFICES ASSUME Init PROVE Delivery!Init
  OBVIOUS
<1>1. \A m \in Messages : Fate(row[m]) = "none"
  BY DEF Init, NewRow, Fate
<1>2. QED
  BY <1>1 DEF Init, Delivery!Init

LEMMA DeliveryStep ==
  ASSUME TypeInv, AcceptedInv, ExclusiveInv, CountInv, [Next]_vars
  PROVE  [Delivery!Next]_(Delivery!vars)
<1> DEFINE fate == [m \in Messages |-> Fate(row[m])]
<1>0. TypeOK
  BY DEF TypeInv
<1>1. ASSUME \A m \in Messages : row'[m].status = row[m].status, UNCHANGED sends
      PROVE  UNCHANGED Delivery!vars
  <2>1. \A m \in Messages : Fate(row'[m]) = Fate(row[m])
    BY <1>1 DEF Fate
  <2>2. QED
    BY <1>1, <2>1 DEF Delivery!vars
<1>2. ASSUME NEW m \in Messages, Enqueue(m)
      PROVE  Delivery!Queue(m)
  <2>1. /\ Fate(row[m]) = "none" /\ Fate(row'[m]) = "queued"
        /\ \A k \in Messages \ {m} : row'[k].status = row[k].status
    BY <1>0, <1>2 DEF Enqueue, TypeOK, Row, Fate
  <2>2. QED
    BY <1>0, <1>2, <2>1, FateStep DEF Enqueue, Delivery!Queue, Delivery!Become
<1>3. ASSUME NEW m \in Messages, Delete(m)
      PROVE  Delivery!Remove(m)
  <2>1. /\ Fate(row[m]) \notin {"none", "deleted"} /\ Fate(row'[m]) = "deleted"
        /\ \A k \in Messages \ {m} : row'[k].status = row[k].status
    BY <1>0, <1>3 DEF Delete, TypeOK, Row, Fate
  <2>2. QED
    BY <1>0, <1>3, <2>1, FateStep DEF Delete, Delivery!Remove, Delivery!Become
<1>4. ASSUME NEW w \in Workers, NEW m \in Messages, Reject(w, m)
      PROVE  Delivery!GiveUp(m)
  <2>1. Failed(cache[w][m]) \in Row /\ Fate(Failed(cache[w][m])) = "failed"
    BY <1>0, RowTypes DEF TypeOK, Failed, Fate
  <2>2. QED
    BY <1>0, <1>4, <2>1, FinishFate, FateStep DEF Reject, Delivery!GiveUp, Delivery!Become
<1>5. ASSUME NEW w \in Workers, NEW m \in Messages, Claim(w, m)
      PROVE  UNCHANGED Delivery!vars
  <2>1. m \in batch[w] /\ row[m].status \in {"pending", "sending"}
    BY <1>5 DEF Claim, Current, ExclusiveInv, BatchUnsettled
  <2>2. row'[m].status = "sending"
    BY <1>0, <1>5, <2>1, WrittenCurrent DEF Claim, Save, Claimed, TypeOK, ExclusiveInv
  <2>3. \A k \in Messages \ {m} : row'[k] = row[k]
    BY <1>0, <1>5 DEF Claim, Save, TypeOK
  <2>4. \A k \in Messages : Fate(row'[k]) = Fate(row[k])
    BY <2>1, <2>2, <2>3 DEF Fate
  <2>5. QED
    BY <1>5, <2>4 DEF Claim, Delivery!vars
<1>6. ASSUME NEW w \in Workers, NEW m \in Messages, Send(w, m)
      PROVE  Delivery!Deliver(m) \/ UNCHANGED Delivery!vars
  <2>1. /\ UNCHANGED row
        /\ \/ UNCHANGED sends
           \/ sends' = [sends EXCEPT ![m] = @ + 1]
    BY <1>0, <1>6 DEF Send, TypeOK
  <2>2. sends[m] < MaxAttempts
    BY <1>0, <1>6, OutboxConstants DEF Send, CountInv, TypeOK, Row
  <2>3. Fate(row[m]) \in {"queued", "deleted"}
    BY <1>6 DEF Send, Current, ExclusiveInv, BatchUnsettled, Fate
  <2>4. QED
    BY <2>1, <2>2, <2>3 DEF Delivery!Deliver, Delivery!vars
<1>7. ASSUME NEW w \in Workers, NEW m \in Messages, RecordSent(w, m)
      PROVE  Delivery!Succeed(m)
  <2>1. Sent(cache[w][m]) \in Row /\ Fate(Sent(cache[w][m])) = "sent"
    BY <1>0, RowTypes DEF TypeOK, Sent, Fate
  <2>2. sends[m] > 0
    BY <1>0, <1>7, OutboxConstants DEF RecordSent, AcceptedInv, TypeOK
  <2>3. QED
    BY <1>0, <1>7, <2>1, <2>2, FinishFate, FateStep
       DEF RecordSent, Delivery!Succeed, Delivery!Become
<1>8. ASSUME NEW w \in Workers, NEW m \in Messages, RecordError(w, m)
      PROVE  Delivery!GiveUp(m) \/ UNCHANGED Delivery!vars
  <2>1. AfterError(cache[w][m]) \in Row
    BY <1>0, RowTypes DEF TypeOK
  <2>2. Fate(AfterError(cache[w][m])) \in {"failed", "queued"}
    BY DEF AfterError, Failed, Fate
  <2>3. /\ Fate(row[m]) = "queued"
        /\ Fate(row'[m]) = Fate(AfterError(cache[w][m]))
        /\ \A k \in Messages \ {m} : row'[k].status = row[k].status
    BY <1>0, <1>8, <2>1, FinishFate DEF RecordError
  <2>4. CASE Fate(row'[m]) = "failed"
    BY <1>0, <1>8, <2>3, <2>4, FateStep DEF RecordError, Delivery!GiveUp, Delivery!Become
  <2>5. CASE Fate(row'[m]) = "queued"
    <3>1. \A k \in Messages : Fate(row'[k]) = Fate(row[k])
      BY <2>3, <2>5 DEF Fate
    <3>2. QED
      BY <1>8, <3>1 DEF RecordError, Delivery!vars
  <2>6. QED
    BY <2>2, <2>3, <2>4, <2>5
<1>9. ASSUME NEW w \in Workers, NEW m \in Messages, StaleData(w, m)
      PROVE  UNCHANGED Delivery!vars
  BY <1>1, <1>9 DEF StaleData
<1>10. CASE Tick
  <2>1. \A m \in Messages : row'[m] = Aged(row[m])
    BY <1>10 DEF Tick
  <2>2. \A m \in Messages : Aged(row[m]).status = row[m].status
    BY DEF Aged
  <2>3. \A m \in Messages : row'[m].status = row[m].status
    BY <2>1, <2>2
  <2>4. QED
    BY <1>1, <1>10, <2>3 DEF Tick
<1>11. CASE UNCHANGED vars
  BY <1>1, <1>11 DEF vars
<1>12. ASSUME NEW w \in Workers, Poll(w) \/ Crash(w)
       PROVE  UNCHANGED Delivery!vars
  BY <1>1, <1>12 DEF Poll, Crash
<1>13. CASE \E m \in Messages : Enqueue(m) \/ Delete(m)
  BY <1>2, <1>3, <1>13 DEF Delivery!Next
<1>14. CASE \E w \in Workers : Work(w) \/ Crash(w)
  BY <1>4, <1>5, <1>6, <1>7, <1>8, <1>9, <1>12, <1>14 DEF Work, Delivery!Next
<1>15. QED
  BY <1>10, <1>11, <1>13, <1>14 DEF Next

\* In an exclusive deployment the outbox implements the abstract delivery service.
THEOREM OutboxImplementsDelivery ==
  ASSUME Exclusive
  PROVE  Spec => ImplementsDelivery
<1>1. Init => AcceptedInv
  BY DEF Init, AcceptedInv, SentWasAccepted, NewRow
<1>2. Spec => []AcceptedInv
  BY <1>1, TypeInit, TypeStep, AcceptedStep, PTL DEF Spec
<1>3. TypeInv /\ AcceptedInv /\ ExclusiveInv /\ CountInv /\ [Next]_vars
        => [Delivery!Next]_(Delivery!vars)
  BY DeliveryStep
<1>4. QED
  BY <1>2, <1>3, DeliveryInit, ExclusiveInvariant, PTL
     DEF Spec, ImplementsDelivery, Delivery!Spec
=============================================================================
