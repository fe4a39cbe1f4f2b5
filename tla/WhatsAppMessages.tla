-------------------------- MODULE WhatsAppMessages --------------------------
(***************************************************************************)
(* The way of one WhatsApp message through the session of WhatsAppBridge   *)
(* and back: the bridge forwards it to the webhook                         *)
(* (services/whatsapp_webhook_service.py), a worker answers it             *)
(* (tasks/whatsapp_query.py), and the outbox task                          *)
(* (tasks/whatsapp_outbox.py) asks the bridge to send the reply, which may *)
(* have to start the session first.                                        *)
(*                                                                         *)
(* There is no clock: the claim of a dead worker counts as expired or not, *)
(* a claim whose holder is alive has not expired.  Unlike Telegram, the    *)
(* bridge hands a message over once and ignores the answer it gets.        *)
(***************************************************************************)
EXTENDS WhatsAppBridge

CONSTANTS
  Requests,     \* webhook requests at a time
  MaxAttempts   \* whatsapp_outbox_max_delivery_attempts

ASSUME MessageConstants == MaxAttempts \in Nat \ {0}

VARIABLES
  handed,     \* how often WhatsApp has handed the message to a socket
  hook,       \* the webhook requests, with the customer as they found it
  known,      \* whether the customer row exists
  message,    \* reply_generation_status of the message row
  job,        \* whether a generate_whatsapp_reply task is in the broker
  task,       \* the worker, with the row's status as it loaded it
  reply,      \* the row of the reply: delivery_status and delivery_attempts
  box,        \* the outbox task
  calls,      \* the send requests in the bridge, one to an attempt
  delivered,  \* how often the customer got the reply
  mishaps     \* what happened to the message: it may then stay unanswered

messageVars == <<handed, hook, known, message, job, task, reply, box, calls, delivered, mishaps>>
vars == <<sessionVars, messageVars>>

Attempts == 1..MaxAttempts

FreeRequest == [at |-> "free", known |-> FALSE]
IdleTask == [at |-> "idle", seen |-> "over"]
NoReply == [status |-> "none", attempts |-> 0]

Init ==
  /\ SessionInit
  /\ handed = 0
  /\ hook = [q \in Requests |-> FreeRequest]
  /\ known = FALSE
  /\ message = "none"
  /\ job = FALSE
  /\ task = IdleTask
  /\ reply = NoReply
  /\ box = "idle"
  /\ calls = [n \in Attempts |-> "none"]
  /\ delivered = 0
  /\ mishaps = {}

-----------------------------------------------------------------------------
(* The webhook. *)

\* A socket hands a message over; it is taken if the row accepts messages, ignored
\* (and lost) if not, and lost if the backend cannot be reached.
Forward(q) ==
  /\ \E s \in Socks : session[s].link = "open"
  /\ hook[q] = FreeRequest
  /\ handed < 2
  /\ handed' = handed + 1
  /\ Spend(IF handed = 0 THEN "write" ELSE "again")
  /\ hook' = [hook EXCEPT ![q] = IF row \in Accepting THEN [at |-> "read", known |-> known]
                                 ELSE FreeRequest]
  /\ UNCHANGED <<bridgeVars, rowVars, raced, lost, scenario, known, message, job, task,
                 reply, box, calls, delivered, mishaps>>

ForwardFails ==
  /\ \E s \in Socks : session[s].link = "open"
  /\ handed = 0
  /\ handed' = 1
  /\ Spend("forward")
  /\ UNCHANGED <<bridgeVars, rowVars, raced, lost, scenario, hook, known, message, job,
                 task, reply, box, calls, delivered, mishaps>>

\* The first contact of a customer inserts the customer row, which has a unique index:
\* of two requests that found none, one fails.
Conflict(q) == row = "deleted" \/ (known /\ ~hook[q].known)

Refuse(q) ==
  /\ hook[q].at = "read"
  /\ Conflict(q)
  /\ hook' = [hook EXCEPT ![q] = FreeRequest]
  /\ UNCHANGED <<sessionVars, handed, known, message, job, task, reply, box, calls,
                 delivered, mishaps>>

\* A message known already is acknowledged and no task is queued for it.
Store(q) ==
  /\ hook[q].at = "read"
  /\ ~Conflict(q)
  /\ known' = TRUE
  /\ IF message = "none"
     THEN /\ message' = "queued"
          /\ hook' = [hook EXCEPT ![q].at = "stored"]
     ELSE /\ hook' = [hook EXCEPT ![q] = FreeRequest]
          /\ UNCHANGED message
  /\ UNCHANGED <<sessionVars, handed, job, task, reply, box, calls, delivered, mishaps>>

Enqueue(q) ==
  /\ hook[q].at = "stored"
  /\ hook' = [hook EXCEPT ![q] = FreeRequest]
  /\ \/ job' = TRUE /\ UNCHANGED <<events, mishaps>>
     \/ Spend("broker") /\ mishaps' = mishaps \cup {"broker"} /\ UNCHANGED job
  /\ UNCHANGED <<bridgeVars, rowVars, raced, lost, scenario, handed, known, message, task,
                 reply, box, calls, delivered>>

-----------------------------------------------------------------------------
(* The worker. *)

\* A claim that is left over may have expired or not; the message goes with its row.
Claim ==
  /\ job /\ task.at = "idle"
  /\ row # "deleted"
  /\ message \in {"queued", "processing"}
  /\ job' = FALSE
  /\ message' = "processing"
  /\ task' = [at |-> "claimed", seen |-> "over"]
  /\ UNCHANGED <<sessionVars, handed, hook, known, reply, box, calls, delivered, mishaps>>

Skip ==
  /\ job /\ task.at = "idle"
  /\ row = "deleted" \/ message \in {"processing", "done"}
  /\ job' = FALSE
  /\ UNCHANGED <<sessionVars, handed, hook, known, message, task, reply, box, calls,
                 delivered, mishaps>>

Load ==
  /\ task.at = "claimed"
  /\ row # "deleted"
  /\ task' = [at |-> "answering", seen |-> row]
  /\ UNCHANGED <<sessionVars, handed, hook, known, message, job, reply, box, calls,
                 delivered, mishaps>>

\* One commit: reply, claim and, if it differs from the one loaded, the row's status.
Finish ==
  /\ task.at = "answering"
  /\ row # "deleted"
  /\ \E outcome \in {"active", "error"} :
       row' = IF outcome = task.seen THEN row ELSE outcome
  /\ message' = "done"
  /\ reply' = [status |-> "pending", attempts |-> 0]
  /\ task' = IdleTask
  /\ UNCHANGED <<bridgeVars, click, removal, poll, page, clicked, raced, lost, events, scenario,
                 handed, hook, known, job, box, calls, delivered, mishaps>>

\* The commit of a task whose rows were deleted raises.
Gone ==
  /\ task.at # "idle"
  /\ row = "deleted"
  /\ task' = IdleTask
  /\ UNCHANGED <<sessionVars, handed, hook, known, message, job, reply, box, calls,
                 delivered, mishaps>>

\* A dead worker's task is delivered again, a killed one is not.
WorkerDies ==
  /\ task.at # "idle"
  /\ task' = IdleTask
  /\ \/ Spend("crash") /\ job' = TRUE
     \/ Spend("abort") /\ UNCHANGED job
  /\ mishaps' = mishaps \cup {"killed"}
  /\ UNCHANGED <<bridgeVars, rowVars, raced, lost, scenario, handed, hook, known, message,
                 reply, box, calls, delivered>>

-----------------------------------------------------------------------------
(* The outbox.  Batches and workers that overlap are in TelegramOutbox. *)

Due_OneMore ==
  /\ reply.status \in {"pending", "sending"}
  /\ reply.attempts <= MaxAttempts
Due_PendingOnly ==
  /\ reply.status = "pending"
  /\ reply.attempts < MaxAttempts
Due ==
  /\ reply.status \in {"pending", "sending"}
  /\ reply.attempts < MaxAttempts

ClaimReply ==
  /\ box = "idle"
  /\ row # "deleted"
  /\ Due
  /\ reply' = [status |-> "sending", attempts |-> reply.attempts + 1]
  /\ box' = "posting"
  /\ UNCHANGED <<sessionVars, handed, hook, known, message, job, task, calls, delivered, mishaps>>

\* sendMessage: send at once, wait for the session, start it first, or refuse.
Post ==
  /\ box = "posting"
  /\ calls[reply.attempts] = "none"
  /\ LET Stage(c) == calls' = [calls EXCEPT ![reply.attempts] = c] /\ UNCHANGED box
     IN  \/ /\ Connected
            /\ Stage("sending")
            /\ UNCHANGED sessionVars
         \/ /\ current # NoSock /\ session[current].link = "opening" /\ ~QrReady(current)
            /\ Stage("waiting")
            /\ UNCHANGED sessionVars
         \/ /\ IF current = NoSock THEN files # "none" ELSE session[current].link = "closed"
            /\ Begin("send", 0)
            /\ raced' = (raced \/ SomeStart)
            /\ Stage("waiting")
            /\ UNCHANGED <<reports, rowVars, lost, events, scenario>>
         \/ /\ IF current = NoSock THEN files = "none"
               ELSE QrReady(current) \/ session[current].link = "paired"
            /\ box' = "refused"
            /\ UNCHANGED <<sessionVars, calls>>
  /\ UNCHANGED <<handed, hook, known, message, job, task, reply, delivered, mishaps>>

\* The bridge's answer reaches the outbox only if it still waits for this attempt.
Answer(n, result) ==
  /\ calls' = [calls EXCEPT ![n] = "none"]
  /\ box' = IF box = "posting" /\ reply.attempts = n THEN result ELSE box

Wait(n) ==
  /\ calls[n] = "waiting"
  /\ ~Starting("send")
  /\ IF Connected
     THEN calls' = [calls EXCEPT ![n] = "sending"] /\ UNCHANGED box
     ELSE Answer(n, "refused")
  /\ UNCHANGED <<sessionVars, handed, hook, known, message, job, task, reply, delivered, mishaps>>

\* The socket sends, or fails because it was closed.
Send(n) ==
  /\ calls[n] = "sending"
  /\ \/ delivered' = delivered + 1 /\ Answer(n, "sent")
     \/ ~Connected /\ UNCHANGED delivered /\ Answer(n, "refused")
  /\ UNCHANGED <<sessionVars, handed, hook, known, message, job, task, reply, mishaps>>

\* The outbox gives up after its 15 seconds, which are also those of the bridge's wait.
PostFails ==
  /\ box = "posting"
  /\ Spend("call")
  /\ box' = "refused"
  /\ UNCHANGED <<bridgeVars, rowVars, raced, lost, scenario, handed, hook, known, message,
                 job, task, reply, calls, delivered, mishaps>>

Record_AlwaysSent ==
  /\ box \in {"sent", "refused"}
  /\ box' = "idle"
  /\ reply' = IF row = "deleted" THEN reply ELSE [reply EXCEPT !.status = "sent"]
  /\ UNCHANGED <<sessionVars, handed, hook, known, message, job, task, calls, delivered, mishaps>>
Record ==
  /\ box \in {"sent", "refused"}
  /\ box' = "idle"
  /\ reply' = IF row = "deleted" THEN reply
              ELSE [reply EXCEPT !.status = IF box = "sent" THEN "sent"
                                            ELSE IF reply.attempts < MaxAttempts THEN "pending"
                                            ELSE "failed"]
  /\ UNCHANGED <<sessionVars, handed, hook, known, message, job, task, calls, delivered, mishaps>>

BoxDies ==
  /\ box # "idle"
  /\ Spend("crash")
  /\ box' = "idle"
  /\ UNCHANGED <<bridgeVars, rowVars, raced, lost, scenario, handed, hook, known, message,
                 job, task, reply, calls, delivered, mishaps>>

\* The bridge takes its calls with it.
RestartWithCalls ==
  /\ BridgeRestarts
  /\ calls' = [n \in Attempts |-> "none"]
  /\ box' = IF box = "posting" THEN "refused" ELSE box
  /\ UNCHANGED <<handed, hook, known, message, job, task, reply, delivered, mishaps>>

-----------------------------------------------------------------------------
Handle(q) == Refuse(q) \/ Store(q) \/ Enqueue(q)
Work == Claim \/ Skip \/ Load \/ Finish \/ Gone
Deliver == ClaimReply \/ Post \/ Record
Bridge(n) == Wait(n) \/ Send(n)

Next ==
  \/ SessionStep /\ UNCHANGED messageVars
  \/ RestartWithCalls
  \/ \E q \in Requests : Forward(q) \/ Handle(q)
  \/ ForwardFails
  \/ Work \/ WorkerDies
  \/ Deliver \/ PostFails \/ BoxDies
  \/ \E n \in Attempts : Bridge(n)

\* Celery beat starts the outbox again and again, a task that is queued is run, and a
\* request that was received goes on.
Fairness ==
  /\ SessionFairness
  /\ \A q \in Requests : WF_vars(Handle(q))
  /\ WF_vars(Work)
  /\ WF_vars(Deliver)
  /\ \A n \in Attempts : WF_vars(Bridge(n))

Spec == Init /\ [][Next]_vars
FairSpec == Spec /\ Fairness
PageSpec == FairSpec /\ PageFairness

-----------------------------------------------------------------------------
\* Every variable has its type; attempts and the bridge's calls stay within the maximum.
TypeOK ==
  /\ SessionTypeOK
  /\ handed \in 0..2
  /\ hook \in [Requests -> [at : {"free", "read", "stored"}, known : BOOLEAN]]
  /\ known \in BOOLEAN
  /\ message \in {"none", "queued", "processing", "done"}
  /\ job \in BOOLEAN
  /\ task \in [at : {"idle", "claimed", "answering"}, seen : RowStatus]
  /\ reply \in [status : {"none", "pending", "sending", "sent", "failed"},
                attempts : 0..MaxAttempts]
  /\ box \in {"idle", "posting", "sent", "refused"}
  /\ calls \in [Attempts -> {"none", "waiting", "sending"}]
  /\ delivered \in Nat
  /\ mishaps \subseteq {"broker", "killed"}

\* The customer gets the reply no more often than delivery_attempts counts, although a
\* call that the outbox gave up, or forgot in a crash, goes on in the bridge; and "sent"
\* means that the reply was delivered.
DeliveriesCounted ==
  /\ delivered <= reply.attempts
  /\ reply.status = "sent" => delivered > 0

\* What a crash in the last attempt leaves behind, as in TelegramOutbox.
Stranded == reply.status = "sending" /\ reply.attempts = MaxAttempts /\ box = "idle"

\* A stored message leads to a reply that is sent or given up, through sessions that must
\* be started first, refused sends and dead outbox runs.  A task that could not be queued
\* or that was killed is not made up for: no later delivery queues it again.
AnswerSettles ==
  message = "queued" ~>
    \/ reply.status \in {"sent", "failed"} \/ Stranded
    \/ mishaps # {}
    \/ row = "deleted"
=============================================================================
