--------------------------- MODULE ReplyGeneration ---------------------------
(***************************************************************************)
(* From a customer's Telegram message to the bot's answer: the webhook     *)
(* (backend/services/telegram_webhook_service.py) stores the message and   *)
(* queues a Celery task, a worker (backend/tasks/telegram_query.py) claims *)
(* the message, asks the model and stores the reply, and the company's     *)
(* dashboard changes the bot and the conversations meanwhile.              *)
(*                                                                         *)
(* One bot and one customer: rows of different customers share only the    *)
(* bot's status.  Telegram (sends an update until it is answered with 2xx) *)
(* and Celery (a task lost with its worker process is delivered again, one *)
(* that is killed or raises is not) are external.                          *)
(*                                                                         *)
(* A definition X_Y just before a definition X is a faulty X: a slip the   *)
(* properties are tested against.  Nothing uses it.                        *)
(***************************************************************************)
EXTENDS Integers, FiniteSets

CONSTANTS
  Updates,           \* Telegram updates, by update_id
  NoUpdate,          \* stands for the update of an idle process
  MessageOf,         \* the message of an update: an edit has that of another
  Requests,          \* webhook requests the web server serves at a time
  Workers,           \* Celery worker processes
  ClaimTimeout,      \* telegram_reply_generation_claim_timeout_seconds
  TaskTimeLimit,     \* celery_task_time_limit
  HumanHandoff,      \* human_handoff_enabled of the bot
  MaxConversations,  \* conversations the customer may have (bound)
  FaultKinds,        \* what may go wrong: a subset of Faults
  MaxFaults,         \* faults in a behaviour (bound)
  MaxEdits           \* dashboard operations in a behaviour (bound)

Faults == {"broker",   \* the task cannot be queued
           "answer",   \* the 2xx answer to Telegram is lost
           "request",  \* the web server dies in the middle of a request
           "resend",   \* Telegram sends an update again before it is answered
           "crash",    \* the worker dies: the broker delivers its task again
           "abort"}    \* the task is killed or raises: it is acknowledged

Conversations == 1..MaxConversations

ASSUME ReplyConstants ==
  /\ NoUpdate \notin Updates
  /\ MessageOf \in [Updates -> Updates]
  /\ {ClaimTimeout, TaskTimeLimit, MaxConversations} \subseteq Nat \ {0}
  /\ HumanHandoff \in BOOLEAN
  /\ FaultKinds \subseteq Faults
  /\ {MaxFaults, MaxEdits} \subseteq Nat

VARIABLES
  telegram,   \* what Telegram was told of each update
  customer,   \* the customer row: none, known or blocked
  bot,        \* status of the bot_integrations row
  conv,       \* the conversation rows
  msg,        \* the message rows: reply_generation_status and age of the claim
  home,       \* the conversation of each stored message
  jobs,       \* generate_bot_reply tasks in the broker, per message
  replies,    \* bot replies stored for each message
  hook,       \* the webhook requests, with the customer row as they read it
  work,       \* the workers, with the bot and the conversation as they loaded them
  hurt,       \* messages one of whose tasks crashed or was aborted
  faults,
  edits

vars == <<telegram, customer, bot, conv, msg, home, jobs, replies, hook, work,
          hurt, faults, edits>>

-----------------------------------------------------------------------------
Customer == {"none", "known", "blocked"}
BotStatus == {"active", "error", "disabled", "deleted"}

ConvStatus == {"none", "open", "escalated", "resolved", "blocked"}
Conversation == [status : ConvStatus, human : BOOLEAN]
NoConversation == [status |-> "none", human |-> FALSE]
NewConversation == [status |-> "open", human |-> FALSE]
HandedOver == [status |-> "escalated", human |-> TRUE]

Message == [status : {"none", "queued", "processing", "done"},
            age    : 0..ClaimTimeout]      \* of reply_generation_started_at
Unclaimed(s) == [status |-> s, age |-> 0]
AnsweredRow_OtherName == Unclaimed("completed")
AnsweredRow == Unclaimed("done")

Request == [at       : {"free", "read", "stored"},
            update   : Updates \cup {NoUpdate},
            customer : Customer]
Free == [at |-> "free", update |-> NoUpdate, customer |-> "none"]

Task == [at   : {"idle", "claimed", "answering"},
         msg  : Updates \cup {NoUpdate},
         ran  : 0..TaskTimeLimit,          \* time since the claim
         bot  : BotStatus,
         conv : Conversation]
Idle == [at |-> "idle", msg |-> NoUpdate, ran |-> 0, bot |-> "active",
         conv |-> NoConversation]

Stored(u) == msg[u].status # "none"
Busy(w) == work[w].at # "idle"

Spend(fault) ==
  /\ fault \in FaultKinds
  /\ faults < MaxFaults
  /\ faults' = faults + 1

Init ==
  /\ telegram = [u \in Updates |-> "waiting"]
  /\ customer = "none"
  /\ bot = "active"
  /\ conv = [c \in Conversations |-> NoConversation]
  /\ msg = [u \in Updates |-> Unclaimed("none")]
  /\ home = [u \in Updates |-> 1]
  /\ jobs = [u \in Updates |-> 0]
  /\ replies = [u \in Updates |-> 0]
  /\ hook = [q \in Requests |-> Free]
  /\ work = [w \in Workers |-> Idle]
  /\ hurt = {}
  /\ faults = 0
  /\ edits = 0

-----------------------------------------------------------------------------
(* The webhook. *)

\* Telegram learns that its update was handled, unless the answer is lost.
Answer(u, result) ==
  \/ /\ telegram' = [telegram EXCEPT ![u] = result]
     /\ UNCHANGED faults
  \/ /\ Spend("answer")
     /\ UNCHANGED telegram

\* A disabled bot accepts the update and does nothing.
Ignore(u) ==
  /\ telegram[u] = "waiting"
  /\ bot = "disabled"
  /\ Answer(u, "ignored")
  /\ UNCHANGED <<customer, bot, conv, msg, home, jobs, replies, hook, work, hurt, edits>>

\* The request reads the bot and the customer.
Receive(q, u) ==
  /\ hook[q] = Free
  /\ telegram[u] = "waiting"
  /\ bot \in {"active", "error"}
  /\ IF \E p \in Requests : hook[p].update = u THEN Spend("resend") ELSE UNCHANGED faults
  /\ hook' = [hook EXCEPT ![q] = [at |-> "read", update |-> u, customer |-> customer]]
  /\ UNCHANGED <<telegram, customer, bot, conv, msg, home, jobs, replies, work, hurt, edits>>

\* get_or_create_conversation: the latest active conversation (any active one
\* may be the latest) or a new one.
Active == {c \in Conversations : conv[c].status \in {"open", "escalated"}}
Latest(c) ==
  IF Active # {}
  THEN c \in Active
  ELSE /\ conv[c].status = "none"
       /\ \A d \in Conversations : d < c => conv[d].status # "none"
WithLatest(c) == IF Active # {} THEN conv ELSE [conv EXCEPT ![c] = NewConversation]

\* The unique indexes of customers and messages, and the bot's foreign key.
\* The search that follows an IntegrityError goes by update_id alone and does not
\* find the message that the edited one collides with.
Conflict_EveryUpdate(u, customerRead) ==
  \/ bot = "deleted"
  \/ customerRead = "none" /\ customer # "none"
  \/ \E v \in Updates : Stored(v) /\ MessageOf[v] = MessageOf[u]
Conflict(u, customerRead) ==
  \/ bot = "deleted"
  \/ customerRead = "none" /\ customer # "none"
  \/ /\ customerRead # "blocked"
     /\ ~Stored(u)
     /\ \E v \in Updates : Stored(v) /\ MessageOf[v] = MessageOf[u]

\* 500: the transaction is rolled back and Telegram will send the update again.
Refuse(q) ==
  /\ hook[q].at = "read"
  /\ Conflict(hook[q].update, hook[q].customer)
  /\ hook' = [hook EXCEPT ![q] = Free]
  /\ UNCHANGED <<telegram, customer, bot, conv, msg, home, jobs, replies, work,
                 hurt, faults, edits>>

\* A blocked customer: the conversation is committed and the message dropped.
IgnoreBlocked(q, c) ==
  /\ hook[q].at = "read"
  /\ hook[q].customer = "blocked"
  /\ ~Conflict(hook[q].update, "blocked")
  /\ Latest(c)
  /\ conv' = WithLatest(c)
  /\ Answer(hook[q].update, "ignored")
  /\ hook' = [hook EXCEPT ![q] = Free]
  /\ UNCHANGED <<customer, bot, msg, home, jobs, replies, work, hurt, edits>>

\* The transaction of an accepted update.  It holds the customer row's lock from
\* its first UPDATE on, so two of them do not overlap.
Store_Blocked(q, c) ==
  LET u == hook[q].update
  IN  /\ hook[q].at = "read"
      /\ ~Conflict(u, hook[q].customer)
      /\ Latest(c)
      /\ conv' = WithLatest(c)
      /\ customer' = IF customer = "none" THEN "known" ELSE customer
      /\ IF Stored(u)
         THEN UNCHANGED <<msg, home>>
         ELSE /\ msg' = [msg EXCEPT ![u] = Unclaimed("queued")]
              /\ home' = [home EXCEPT ![u] = c]
      /\ hook' = [hook EXCEPT ![q] = [at |-> "stored", update |-> u, customer |-> "none"]]
      /\ UNCHANGED <<telegram, bot, jobs, replies, work, hurt, faults, edits>>
Store_SkipDuplicate(q, c) ==
  LET u == hook[q].update
  IN  /\ hook[q].at = "read"
      /\ hook[q].customer # "blocked"
      /\ ~Conflict(u, hook[q].customer)
      /\ Latest(c)
      /\ conv' = WithLatest(c)
      /\ customer' = IF customer = "none" THEN "known" ELSE customer
      /\ IF Stored(u)
         THEN /\ telegram' = [telegram EXCEPT ![u] = "accepted"]
              /\ hook' = [hook EXCEPT ![q] = Free]
              /\ UNCHANGED <<msg, home>>
         ELSE /\ msg' = [msg EXCEPT ![u] = Unclaimed("queued")]
              /\ home' = [home EXCEPT ![u] = c]
              /\ hook' = [hook EXCEPT ![q] = [at |-> "stored", update |-> u, customer |-> "none"]]
              /\ UNCHANGED telegram
      /\ UNCHANGED <<bot, jobs, replies, work, hurt, faults, edits>>
Store(q, c) ==
  LET u == hook[q].update
  IN  /\ hook[q].at = "read"
      /\ hook[q].customer # "blocked"
      /\ ~Conflict(u, hook[q].customer)
      /\ Latest(c)
      /\ conv' = WithLatest(c)
      /\ customer' = IF customer = "none" THEN "known" ELSE customer
      /\ IF Stored(u)
         THEN UNCHANGED <<msg, home>>
         ELSE /\ msg' = [msg EXCEPT ![u] = Unclaimed("queued")]
              /\ home' = [home EXCEPT ![u] = c]
      /\ hook' = [hook EXCEPT ![q] = [at |-> "stored", update |-> u, customer |-> "none"]]
      /\ UNCHANGED <<telegram, bot, jobs, replies, work, hurt, faults, edits>>

\* The task is queued for a new message and for a known one alike.
Enqueue(q) ==
  LET u == hook[q].update
  IN  /\ hook[q].at = "stored"
      /\ jobs' = [jobs EXCEPT ![u] = @ + 1]
      /\ Answer(u, "accepted")
      /\ hook' = [hook EXCEPT ![q] = Free]
      /\ UNCHANGED <<customer, bot, conv, msg, home, replies, work, hurt, edits>>

EnqueueFails_Acknowledged(q) ==
  /\ hook[q].at = "stored"
  /\ Spend("broker")
  /\ telegram' = [telegram EXCEPT ![hook[q].update] = "accepted"]
  /\ hook' = [hook EXCEPT ![q] = Free]
  /\ UNCHANGED <<customer, bot, conv, msg, home, jobs, replies, work, hurt, edits>>
EnqueueFails(q) ==
  /\ hook[q].at = "stored"
  /\ Spend("broker")
  /\ hook' = [hook EXCEPT ![q] = Free]
  /\ UNCHANGED <<telegram, customer, bot, conv, msg, home, jobs, replies, work, hurt, edits>>

RequestDies(q) ==
  /\ hook[q] # Free
  /\ Spend("request")
  /\ hook' = [hook EXCEPT ![q] = Free]
  /\ UNCHANGED <<telegram, customer, bot, conv, msg, home, jobs, replies, work, hurt, edits>>

-----------------------------------------------------------------------------
(* The worker. *)

\* _claim_customer_message: new, or claimed too long ago.
Claimable_NoLease(u) ==
  /\ bot # "deleted"
  /\ msg[u].status \in {"queued", "processing"}
Claimable(u) ==
  /\ bot # "deleted"
  /\ \/ msg[u].status = "queued"
     \/ msg[u].status = "processing" /\ msg[u].age >= ClaimTimeout

Claim(w, u) ==
  /\ ~Busy(w)
  /\ jobs[u] > 0
  /\ Claimable(u)
  /\ jobs' = [jobs EXCEPT ![u] = @ - 1]
  /\ msg' = [msg EXCEPT ![u] = Unclaimed("processing")]
  /\ work' = [work EXCEPT ![w] = [at |-> "claimed", msg |-> u, ran |-> 0,
                                  bot |-> "active", conv |-> NoConversation]]
  /\ UNCHANGED <<telegram, customer, bot, conv, home, replies, hook, hurt, faults, edits>>

\* The task returns "skipped" and is acknowledged.
Skip(w, u) ==
  /\ ~Busy(w)
  /\ jobs[u] > 0
  /\ ~Claimable(u)
  /\ jobs' = [jobs EXCEPT ![u] = @ - 1]
  /\ UNCHANGED <<telegram, customer, bot, conv, msg, home, replies, hook, work,
                 hurt, faults, edits>>

\* The session loads the bot and the conversation, then the model is asked.
Load(w) ==
  LET u == work[w].msg
  IN  /\ work[w].at = "claimed"
      /\ bot # "deleted"
      /\ work' = [work EXCEPT ![w] = [at |-> "answering", msg |-> u, ran |-> work[w].ran,
                                      bot |-> bot, conv |-> conv[home[u]]]]
      /\ UNCHANGED <<telegram, customer, bot, conv, msg, home, jobs, replies, hook,
                     hurt, faults, edits>>

\* UPDATE writes a column only if the session changed it since it was loaded.
Column(now, loaded, new) == IF new = loaded THEN now ELSE new

\* One commit: the reply, the end of the claim, the bot's status and, if the model
\* failed or found no context, the hand-over of the conversation.
Finish(w) ==
  LET u == work[w].msg
      c == home[u]
      loaded == work[w].conv
  IN  /\ work[w].at = "answering"
      /\ bot # "deleted"
      /\ \E outcome \in {"answered", "no_context", "failed"} :
           LET handedOver == outcome # "answered" /\ HumanHandoff
               new == IF handedOver THEN HandedOver ELSE loaded
           IN  /\ bot' = Column(bot, work[w].bot,
                                IF outcome = "failed" THEN "error" ELSE "active")
               /\ conv' = [conv EXCEPT ![c] =
                             [status |-> Column(@.status, loaded.status, new.status),
                              human  |-> Column(@.human, loaded.human, new.human)]]
      /\ replies' = [replies EXCEPT ![u] = @ + 1]
      /\ msg' = [msg EXCEPT ![u] = AnsweredRow]
      /\ work' = [work EXCEPT ![w] = Idle]
      /\ UNCHANGED <<telegram, customer, home, jobs, hook, hurt, faults, edits>>

\* The message went with its bot: the commit raises.
Gone(w) ==
  /\ Busy(w)
  /\ bot = "deleted"
  /\ work' = [work EXCEPT ![w] = Idle]
  /\ UNCHANGED <<telegram, customer, bot, conv, msg, home, jobs, replies, hook,
                 hurt, faults, edits>>

Crash(w) ==
  LET u == work[w].msg
  IN  /\ Busy(w)
      /\ Spend("crash")
      /\ jobs' = [jobs EXCEPT ![u] = @ + 1]
      /\ work' = [work EXCEPT ![w] = Idle]
      /\ hurt' = hurt \cup {u}
      /\ UNCHANGED <<telegram, customer, bot, conv, msg, home, replies, hook, edits>>

\* The time limit, the kernel or an exception ends the task after its claim ...
Abort(w) ==
  /\ Busy(w)
  /\ Spend("abort")
  /\ work' = [work EXCEPT ![w] = Idle]
  /\ hurt' = hurt \cup {work[w].msg}
  /\ UNCHANGED <<telegram, customer, bot, conv, msg, home, jobs, replies, hook, edits>>

\* ... or before it.
Lose(u) ==
  /\ jobs[u] > 0
  /\ Spend("abort")
  /\ jobs' = [jobs EXCEPT ![u] = @ - 1]
  /\ hurt' = hurt \cup {u}
  /\ UNCHANGED <<telegram, customer, bot, conv, msg, home, replies, hook, work, edits>>

\* Time passes; no task outlives its time limit, which runs from before the claim.
Tick ==
  /\ \A w \in Workers : Busy(w) => work[w].ran + 1 < TaskTimeLimit
  /\ work' = [w \in Workers |->
                IF Busy(w)
                THEN [at |-> work[w].at, msg |-> work[w].msg, ran |-> work[w].ran + 1,
                      bot |-> work[w].bot, conv |-> work[w].conv]
                ELSE work[w]]
  /\ msg' = [u \in Updates |->
               IF msg[u].status = "processing" /\ msg[u].age < ClaimTimeout
               THEN [status |-> "processing", age |-> msg[u].age + 1]
               ELSE msg[u]]
  /\ UNCHANGED <<telegram, customer, bot, conv, home, jobs, replies, hook,
                 hurt, faults, edits>>

-----------------------------------------------------------------------------
(* The dashboard.  Each operation is one short transaction. *)

Edit ==
  /\ bot # "deleted"
  /\ edits < MaxEdits
  /\ edits' = edits + 1
  /\ UNCHANGED <<telegram, msg, home, jobs, replies, hook, work, hurt, faults>>

\* Enabling registers the webhook (as the rotation of the token does), which may fail.
SetBotStatus ==
  /\ Edit
  /\ bot' \in {"active", "error", "disabled"}
  /\ UNCHANGED <<customer, conv>>

DeleteIntegration ==
  /\ Edit
  /\ bot' = "deleted"
  /\ UNCHANGED <<customer, conv>>

\* Escalate, resolve.
SetStatus(c) ==
  /\ Edit
  /\ conv[c].status # "none"
  /\ \E new \in {HandedOver, [status |-> "resolved", human |-> FALSE]} :
       conv' = [conv EXCEPT ![c] = new]
  /\ UNCHANGED <<customer, bot>>

AssignToSelf(c) ==
  /\ Edit
  /\ conv[c].status # "none"
  /\ conv' = [conv EXCEPT ![c] = [status |-> @.status, human |-> TRUE]]
  /\ UNCHANGED <<customer, bot>>

BlockCustomer(c) ==
  /\ Edit
  /\ conv[c].status # "none"
  /\ customer' = "blocked"
  /\ conv' = [conv EXCEPT ![c] = [status |-> "blocked", human |-> FALSE]]
  /\ UNCHANGED bot

Dashboard ==
  \/ SetBotStatus
  \/ DeleteIntegration
  \/ \E c \in Conversations : SetStatus(c) \/ AssignToSelf(c) \/ BlockCustomer(c)

-----------------------------------------------------------------------------
Handle(q) ==
  \/ Refuse(q)
  \/ \E c \in Conversations : IgnoreBlocked(q, c) \/ Store(q, c)
  \/ Enqueue(q)
  \/ EnqueueFails(q)

Deliver(u) == Ignore(u) \/ \E q \in Requests : Receive(q, u)

Work(w) ==
  \/ \E u \in Updates : Claim(w, u) \/ Skip(w, u)
  \/ Load(w)
  \/ Finish(w)
  \/ Gone(w)

Next ==
  \/ \E u \in Updates : Deliver(u) \/ Lose(u)
  \/ \E q \in Requests : Handle(q) \/ RequestDies(q)
  \/ \E w \in Workers : Work(w) \/ Crash(w) \/ Abort(w)
  \/ Tick
  \/ Dashboard

Spec == Init /\ [][Next]_vars

\* Telegram keeps sending an update until it is answered, a request and a task that
\* started go on, and an idle worker takes the next task.
Fairness ==
  /\ \A u \in Updates : SF_vars(Deliver(u))
  /\ \A q \in Requests : WF_vars(Handle(q))
  /\ \A w \in Workers : WF_vars(Work(w))

FairSpec == Spec /\ Fairness

-----------------------------------------------------------------------------
\* Every variable has its type: in particular no handler leaves a request or a task in
\* a half-finished shape.
TypeOK ==
  /\ telegram \in [Updates -> {"waiting", "accepted", "ignored"}]
  /\ customer \in Customer
  /\ bot \in BotStatus
  /\ conv \in [Conversations -> Conversation]
  /\ msg \in [Updates -> Message]
  /\ home \in [Updates -> Conversations]
  /\ jobs \in [Updates -> Nat]
  /\ replies \in [Updates -> Nat]
  /\ hook \in [Requests -> Request]
  /\ work \in [Workers -> Task]
  /\ hurt \subseteq Updates
  /\ faults \in 0..MaxFaults
  /\ edits \in 0..MaxEdits

\* A customer's message gets at most one reply from the bot, however often Telegram
\* sends it, the broker delivers its task, workers die and claims expire: a claim does
\* not expire before the task that holds it is over (TaskTimeLimit <= ClaimTimeout).
OneReply == \A u \in Updates : replies[u] <= 1

\* No message is forgotten between the webhook's commit and the worker's claim: while
\* it is "queued" its task is in the broker, or Telegram will send the update again,
\* or its task was killed.  The bot's owner can still lose it: an update that comes
\* again to a disabled bot or from a customer blocked meanwhile is ignored although its
\* message is stored.
NothingForgotten ==
  \A u \in Updates :
    msg[u].status = "queued" =>
      \/ jobs[u] > 0
      \/ telegram[u] \in {"waiting", "ignored"}
      \/ u \in hurt
      \/ bot = "deleted"

\* Once a customer is blocked, and the requests that read the customer before are over,
\* no message of this customer enters the conversation.
BlockedStaysOut ==
  [][(customer = "blocked" /\ \A q \in Requests : hook[q].at = "read" => hook[q].customer = "blocked")
       => \A u \in Updates : Stored(u)' = Stored(u)]_vars

Replied(u) == replies[u] > 0

\* Every stored message is answered in the end, unless one of its tasks was killed, its
\* update was ignored or the bot is deleted: a failed enqueue, a lost answer, a request
\* that dies and a second delivery all lead to a new task.
EveryMessageAnswered ==
  \A u \in Updates :
    Stored(u) ~> (Replied(u) \/ u \in hurt \/ telegram[u] = "ignored" \/ bot = "deleted")

\* Telegram gets a 2xx answer to every update in the end, and stops sending it.  The
\* exception is the edit of a message that is stored already: the code refuses it with
\* 500 each time.
UpdatesAnswered ==
  \A u \in Updates :
    telegram[u] = "waiting" ~>
      \/ telegram[u] # "waiting"
      \/ \E v \in Updates \ {u} : Stored(v) /\ MessageOf[v] = MessageOf[u]
      \/ bot = "deleted"

\* backend/celery_app.py:103: late acknowledgment prevents task loss on worker crash.
NoTaskLostInCrash == \A u \in Updates : Stored(u) ~> (Replied(u) \/ bot = "deleted")

\* backend/ENDPOINTS.md:69: the disable operation disables the integration.  Only the
\* dashboard ends that.
DisabledStaysDisabled == [][bot = "disabled" /\ bot' # bot => Dashboard]_vars
=============================================================================
