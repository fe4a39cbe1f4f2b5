------------------------ MODULE ReplyGenerationProofs ------------------------
(* Proofs about ReplyGeneration, for every value of its constants. *)
EXTENDS ReplyGeneration, TLAPS

\* A request and a task that are under way are about an update, and a message with
\* a task under way is stored.
Underway ==
  /\ \A q \in Requests : hook[q].at # "free" => hook[q].update \in Updates
  /\ \A w \in Workers : Busy(w) => work[w].msg \in Updates /\ Stored(work[w].msg)

TypeInv == TypeOK /\ Underway

LEMMA RowTypes ==
  /\ Free \in Request
  /\ Idle \in Task
  /\ NoConversation \in Conversation
  /\ NewConversation \in Conversation
  /\ HandedOver \in Conversation
  /\ \A s \in {"none", "queued", "processing", "done"} : Unclaimed(s) \in Message
  BY ReplyConstants
     DEF Free, Request, Customer, Idle, Task, BotStatus, NoConversation, NewConversation,
         HandedOver, Conversation, ConvStatus, Unclaimed, Message

LEMMA SpendType ==
  ASSUME NEW fault, faults \in 0..MaxFaults, Spend(fault)
  PROVE  faults' \in 0..MaxFaults
  BY ReplyConstants DEF Spend

LEMMA AnswerType ==
  ASSUME TypeOK, NEW u, NEW result \in {"accepted", "ignored"}, Answer(u, result)
  PROVE  /\ telegram' \in [Updates -> {"waiting", "accepted", "ignored"}]
         /\ faults' \in 0..MaxFaults
  BY SpendType DEF Answer, TypeOK

LEMMA LatestType ==
  ASSUME TypeOK, NEW c \in Conversations
  PROVE  WithLatest(c) \in [Conversations -> Conversation]
  BY RowTypes DEF WithLatest, TypeOK

LEMMA ColumnType ==
  ASSUME NEW S, NEW now \in S, NEW loaded \in S, NEW new \in S
  PROVE  Column(now, loaded, new) \in S
  BY DEF Column

LEMMA TypeInit == Init => TypeInv
<1> SUFFICES ASSUME Init PROVE TypeInv
  OBVIOUS
<1>1. 1 \in Conversations
  BY ReplyConstants DEF Conversations
<1>2. TypeOK
  BY <1>1, RowTypes, ReplyConstants DEF Init, TypeOK, Customer, BotStatus
<1>3. Underway
  BY DEF Init, Underway, Free, Idle, Busy
<1>4. QED
  BY <1>2, <1>3 DEF TypeInv

\* The webhook keeps the types.
LEMMA HookTypeStep ==
  ASSUME TypeInv, NEW q \in Requests, Handle(q) \/ RequestDies(q)
  PROVE  TypeInv'
<1> USE DEF TypeInv
<1>1. /\ hook[q] \in Request
      /\ hook[q].update \in Updates \cup {NoUpdate}
  BY DEF TypeOK, Request
<1>2. [hook EXCEPT ![q] = Free] \in [Requests -> Request]
  BY RowTypes DEF TypeOK
<1>3. ASSUME hook' = [hook EXCEPT ![q] = Free], UNCHANGED <<msg, work>>
      PROVE  Underway'
  BY <1>3 DEF Underway, TypeOK, Free, Busy, Stored
<1>4. ASSUME Refuse(q) PROVE TypeInv'
  BY <1>2, <1>3, <1>4 DEF Refuse, TypeOK
<1>5. ASSUME NEW c \in Conversations, IgnoreBlocked(q, c) PROVE TypeInv'
  <2>1. conv' \in [Conversations -> Conversation]
    BY <1>5, LatestType DEF IgnoreBlocked
  <2>2. /\ telegram' \in [Updates -> {"waiting", "accepted", "ignored"}]
        /\ faults' \in 0..MaxFaults
    BY <1>5, AnswerType DEF IgnoreBlocked
  <2>3. QED
    BY <1>2, <1>3, <1>5, <2>1, <2>2 DEF IgnoreBlocked, TypeOK
<1>6. ASSUME NEW c \in Conversations, Store(q, c) PROVE TypeInv'
  <2> DEFINE u == hook[q].update
  <2>1. u \in Updates
    BY <1>6 DEF Store, Underway
  <2>2. conv' \in [Conversations -> Conversation]
    BY <1>6, LatestType DEF Store
  <2>3. msg' \in [Updates -> Message] /\ home' \in [Updates -> Conversations]
    BY <1>6, RowTypes DEF Store, TypeOK
  <2>4. hook' = [hook EXCEPT ![q] = [at |-> "stored", update |-> u, customer |-> "none"]]
    BY <1>6 DEF Store
  <2>5. hook' \in [Requests -> Request]
    BY <2>1, <2>4 DEF TypeOK, Request, Customer
  <2>6. customer' \in Customer
    BY <1>6 DEF Store, TypeOK, Customer
  <2>7. \A v \in Updates : Stored(v) => Stored(v)'
    BY <1>6 DEF Store, Stored, Unclaimed, TypeOK
  <2>8. Underway'
    BY <1>6, <2>1, <2>4, <2>7 DEF Underway, Store, TypeOK, Busy
  <2>9. QED
    BY <1>6, <2>2, <2>3, <2>5, <2>6, <2>8 DEF Store, TypeOK
<1>7. ASSUME Enqueue(q) PROVE TypeInv'
  <2>1. /\ telegram' \in [Updates -> {"waiting", "accepted", "ignored"}]
        /\ faults' \in 0..MaxFaults
    BY <1>7, AnswerType DEF Enqueue
  <2>2. jobs' \in [Updates -> Nat]
    <3>1. hook[q].update \in Updates
      BY <1>7 DEF Enqueue, Underway
    <3>2. jobs' = [jobs EXCEPT ![hook[q].update] = jobs[hook[q].update] + 1]
      BY <1>7 DEF Enqueue
    <3>3. QED
      BY <3>1, <3>2 DEF TypeOK
  <2>3. QED
    BY <1>2, <1>3, <1>7, <2>1, <2>2 DEF Enqueue, TypeOK
<1>8. ASSUME EnqueueFails(q) \/ RequestDies(q) PROVE TypeInv'
  <2>1. faults' \in 0..MaxFaults
    BY <1>8, SpendType DEF EnqueueFails, RequestDies, TypeOK
  <2>2. /\ hook' = [hook EXCEPT ![q] = Free]
        /\ UNCHANGED <<telegram, customer, bot, conv, msg, home, jobs, replies, work, hurt, edits>>
    BY <1>8 DEF EnqueueFails, RequestDies
  <2>3. QED
    BY <1>2, <1>3, <2>1, <2>2 DEF TypeOK
<1>9. QED
  BY <1>4, <1>5, <1>6, <1>7, <1>8 DEF Handle

\* So does the worker.
LEMMA WorkTypeStep ==
  ASSUME TypeInv, NEW w \in Workers, Work(w) \/ Crash(w) \/ Abort(w)
  PROVE  TypeInv'
<1> USE DEF TypeInv
<1>1. work[w] \in Task
  BY DEF TypeOK
<1>2. [work EXCEPT ![w] = Idle] \in [Workers -> Task]
  BY RowTypes DEF TypeOK
<1>3. ASSUME work' = [work EXCEPT ![w] = Idle], UNCHANGED <<msg, hook>>
      PROVE  Underway'
  BY <1>3 DEF Underway, TypeOK, Idle, Busy, Stored
<1>4. ASSUME NEW u \in Updates, Claim(w, u) PROVE TypeInv'
  <2>1. jobs' \in [Updates -> Nat]
    BY <1>4 DEF Claim, TypeOK
  <2>2. msg' \in [Updates -> Message]
    BY <1>4, RowTypes DEF Claim, TypeOK
  <2>3. work' \in [Workers -> Task]
    BY <1>4, RowTypes, ReplyConstants DEF Claim, TypeOK, Task, BotStatus
  <2>4. Underway'
    BY <1>4 DEF Claim, Underway, TypeOK, Busy, Stored, Unclaimed
  <2>5. QED
    BY <1>4, <2>1, <2>2, <2>3, <2>4 DEF Claim, TypeOK
<1>5. ASSUME NEW u \in Updates, Skip(w, u) PROVE TypeInv'
  BY <1>5 DEF Skip, TypeOK, Underway, Busy, Stored
<1>6. ASSUME Load(w) PROVE TypeInv'
  <2>1. /\ work[w].msg \in Updates
        /\ work[w].ran \in 0..TaskTimeLimit
        /\ Stored(work[w].msg)
    BY <1>1, <1>6 DEF Load, Underway, Busy, Task
  <2>2. conv[home[work[w].msg]] \in Conversation /\ bot \in BotStatus
    BY <2>1 DEF TypeOK
  <2>3. work' \in [Workers -> Task]
    BY <1>6, <2>1, <2>2 DEF Load, TypeOK, Task
  <2>4. Underway'
    BY <1>6, <2>1 DEF Load, Underway, TypeOK, Busy, Stored
  <2>5. QED
    BY <1>6, <2>3, <2>4 DEF Load, TypeOK
<1>7. ASSUME Finish(w) PROVE TypeInv'
  <2> DEFINE u == work[w].msg
  <2>1. u \in Updates
    BY <1>7 DEF Finish, Underway, Busy
  <2>2. /\ work[w].conv \in Conversation /\ work[w].bot \in BotStatus
        /\ conv[home[u]] \in Conversation /\ home[u] \in Conversations
    BY <1>1, <2>1 DEF Task, TypeOK
  <2>3. PICK outcome \in {"answered", "no_context", "failed"} :
          LET handedOver == outcome # "answered" /\ HumanHandoff
              new == IF handedOver THEN HandedOver ELSE work[w].conv
          IN  /\ bot' = Column(bot, work[w].bot,
                               IF outcome = "failed" THEN "error" ELSE "active")
              /\ conv' = [conv EXCEPT ![home[u]] =
                            [status |-> Column(@.status, work[w].conv.status, new.status),
                             human  |-> Column(@.human, work[w].conv.human, new.human)]]
    BY <1>7 DEF Finish
  <2>4. bot' \in BotStatus
    BY <2>3 DEF Column, BotStatus, TypeOK
  <2>5. conv' \in [Conversations -> Conversation]
    <3> DEFINE new == IF outcome # "answered" /\ HumanHandoff THEN HandedOver ELSE work[w].conv
               row == [status |-> Column(conv[home[u]].status, work[w].conv.status, new.status),
                       human  |-> Column(conv[home[u]].human, work[w].conv.human, new.human)]
    <3>1. new \in Conversation
      BY <2>2, RowTypes
    <3>2. row \in Conversation
      <4>1. /\ conv[home[u]].status \in ConvStatus /\ work[w].conv.status \in ConvStatus
            /\ new.status \in ConvStatus
            /\ conv[home[u]].human \in BOOLEAN /\ work[w].conv.human \in BOOLEAN
            /\ new.human \in BOOLEAN
        BY <2>2, <3>1 DEF Conversation
      <4> HIDE DEF new
      <4>2. /\ Column(conv[home[u]].status, work[w].conv.status, new.status) \in ConvStatus
            /\ Column(conv[home[u]].human, work[w].conv.human, new.human) \in BOOLEAN
        BY <4>1, ColumnType
      <4>3. QED
        BY <4>2 DEF Conversation
    <3>3. conv' = [conv EXCEPT ![home[u]] = row]
      BY <2>3
    <3> HIDE DEF row
    <3>4. QED
      BY <3>2, <3>3 DEF TypeOK
  <2>6. msg' \in [Updates -> Message] /\ replies' \in [Updates -> Nat]
    <3>1. /\ msg' = [msg EXCEPT ![u] = AnsweredRow]
          /\ replies' = [replies EXCEPT ![u] = replies[u] + 1]
      BY <1>7 DEF Finish
    <3>2. AnsweredRow \in Message
      BY RowTypes DEF AnsweredRow
    <3>3. QED
      BY <2>1, <3>1, <3>2 DEF TypeOK
  <2>7. Underway'
    BY <1>7 DEF Finish, Underway, TypeOK, Idle, Busy, Stored, AnsweredRow, Unclaimed
  <2>8. QED
    BY <1>2, <1>7, <2>4, <2>5, <2>6, <2>7 DEF Finish, TypeOK
<1>8. ASSUME Gone(w) PROVE TypeInv'
  BY <1>2, <1>3, <1>8 DEF Gone, TypeOK
<1>9. ASSUME Crash(w) PROVE TypeInv'
  <2>1. work[w].msg \in Updates
    BY <1>9 DEF Crash, Underway
  <2>2. jobs' \in [Updates -> Nat] /\ hurt' \subseteq Updates
    BY <1>9, <2>1 DEF Crash, TypeOK
  <2>3. faults' \in 0..MaxFaults
    BY <1>9, SpendType DEF Crash, TypeOK
  <2>4. QED
    BY <1>2, <1>3, <1>9, <2>2, <2>3 DEF Crash, TypeOK
<1>10. ASSUME Abort(w) PROVE TypeInv'
  <2>1. work[w].msg \in Updates
    BY <1>10 DEF Abort, Underway
  <2>2. faults' \in 0..MaxFaults
    BY <1>10, SpendType DEF Abort, TypeOK
  <2>3. QED
    BY <1>2, <1>3, <1>10, <2>1, <2>2 DEF Abort, TypeOK
<1>11. QED
  BY <1>4, <1>5, <1>6, <1>7, <1>8, <1>9, <1>10 DEF Work

LEMMA TypeStep == TypeInv /\ [Next]_vars => TypeInv'
<1> SUFFICES ASSUME TypeInv, [Next]_vars PROVE TypeInv'
  OBVIOUS
<1> USE DEF TypeInv
<1>1. ASSUME NEW u \in Updates, Ignore(u) PROVE TypeInv'
  <2>1. /\ telegram' \in [Updates -> {"waiting", "accepted", "ignored"}]
        /\ faults' \in 0..MaxFaults
    BY <1>1, AnswerType DEF Ignore
  <2>2. QED
    BY <1>1, <2>1 DEF Ignore, TypeOK, Underway, Busy, Stored
<1>2. ASSUME NEW u \in Updates, NEW q \in Requests, Receive(q, u) PROVE TypeInv'
  <2>1. hook' = [hook EXCEPT ![q] = [at |-> "read", update |-> u, customer |-> customer]]
    BY <1>2 DEF Receive
  <2>2. hook' \in [Requests -> Request]
    BY <2>1 DEF TypeOK, Request
  <2>3. faults' \in 0..MaxFaults
    BY <1>2, SpendType DEF Receive, TypeOK
  <2>4. Underway'
    BY <1>2, <2>1 DEF Receive, Underway, TypeOK, Busy, Stored
  <2>5. QED
    BY <1>2, <2>2, <2>3, <2>4 DEF Receive, TypeOK
<1>3. ASSUME NEW u \in Updates, Lose(u) PROVE TypeInv'
  <2>1. faults' \in 0..MaxFaults
    BY <1>3, SpendType DEF Lose, TypeOK
  <2>2. QED
    BY <1>3, <2>1 DEF Lose, TypeOK, Underway, Busy, Stored
<1>4. ASSUME Tick PROVE TypeInv'
  <2>1. work' \in [Workers -> Task]
    BY <1>4, ReplyConstants DEF Tick, TypeOK, Task
  <2>2. msg' \in [Updates -> Message]
    BY <1>4, ReplyConstants DEF Tick, TypeOK, Message
  <2>3. \A v \in Updates : Stored(v) => Stored(v)'
    BY <1>4 DEF Tick, Stored, TypeOK
  <2>4. \A w \in Workers : Busy(w)' => Busy(w) /\ work'[w].msg = work[w].msg
    BY <1>4 DEF Tick, Busy, TypeOK
  <2>5. Underway'
    BY <1>4, <2>3, <2>4 DEF Tick, Underway
  <2>6. QED
    BY <1>4, <2>1, <2>2, <2>5 DEF Tick, TypeOK
<1>5. ASSUME Dashboard PROVE TypeInv'
  <2>1. edits' \in 0..MaxEdits /\ UNCHANGED <<telegram, msg, home, jobs, replies, hook, work, hurt, faults>>
    BY <1>5, ReplyConstants
       DEF Dashboard, SetBotStatus, DeleteIntegration, SetStatus, AssignToSelf, BlockCustomer,
           Edit, TypeOK
  <2>2. bot' \in BotStatus /\ customer' \in Customer
    BY <1>5 DEF Dashboard, SetBotStatus, DeleteIntegration, SetStatus, AssignToSelf,
                BlockCustomer, TypeOK, BotStatus, Customer
  <2>3. conv' \in [Conversations -> Conversation]
    <3>1. CASE UNCHANGED conv
      BY <3>1 DEF TypeOK
    <3>2. ASSUME NEW c \in Conversations, NEW new \in Conversation,
                 conv' = [conv EXCEPT ![c] = new]
          PROVE  conv' \in [Conversations -> Conversation]
      BY <3>2 DEF TypeOK
    <3>3. /\ HandedOver \in Conversation
          /\ [status |-> "resolved", human |-> FALSE] \in Conversation
          /\ [status |-> "blocked", human |-> FALSE] \in Conversation
          /\ \A c \in Conversations : [status |-> conv[c].status, human |-> TRUE] \in Conversation
      BY RowTypes DEF TypeOK, Conversation, ConvStatus
    <3>4. \/ UNCHANGED conv
          \/ \E c \in Conversations : SetStatus(c) \/ AssignToSelf(c) \/ BlockCustomer(c)
      BY <1>5 DEF Dashboard, SetBotStatus, DeleteIntegration
    <3>5. ASSUME NEW c \in Conversations, SetStatus(c) \/ BlockCustomer(c)
          PROVE  conv' \in [Conversations -> Conversation]
      BY <3>2, <3>3, <3>5 DEF SetStatus, BlockCustomer
    <3>6. ASSUME NEW c \in Conversations, AssignToSelf(c)
          PROVE  conv' \in [Conversations -> Conversation]
      <4>1. conv' = [conv EXCEPT ![c] = [status |-> conv[c].status, human |-> TRUE]]
        BY <3>6 DEF AssignToSelf
      <4>2. QED
        BY <3>2, <3>3, <4>1
    <3>7. QED
      BY <3>1, <3>4, <3>5, <3>6
  <2>4. QED
    BY <2>1, <2>2, <2>3 DEF TypeOK, Underway, Busy, Stored
<1>6. CASE UNCHANGED vars
  BY <1>6 DEF vars, TypeOK, Underway, Busy, Stored
<1>7. QED
  BY <1>1, <1>2, <1>3, <1>4, <1>5, <1>6, HookTypeStep, WorkTypeStep DEF Next, Deliver

\* The variables keep their types, and what is under way is about a stored message.
THEOREM TypeCorrect == Spec => []TypeOK
<1>1. Spec => []TypeInv
  BY TypeInit, TypeStep, PTL DEF Spec
<1>2. TypeInv => TypeOK
  BY DEF TypeInv
<1>3. QED
  BY <1>1, <1>2, PTL

-----------------------------------------------------------------------------
(* One reply.  A task that is under way holds the claim of its message, and  *)
(* the claim is as old as the task has run since: it cannot have expired if  *)
(* the time limit is no longer than the claim's lease.                       *)

ClaimInv ==
  /\ \A w \in Workers :
       Busy(w) => /\ msg[work[w].msg].status = "processing"
                  /\ msg[work[w].msg].age = work[w].ran
                  /\ work[w].ran < TaskTimeLimit
  /\ \A v, w \in Workers : Busy(v) /\ Busy(w) /\ work[v].msg = work[w].msg => v = w
  /\ \A u \in Updates : replies[u] = IF msg[u].status = "done" THEN 1 ELSE 0

LEMMA ClaimInit == Init => ClaimInv
  BY DEF Init, ClaimInv, Busy, Idle, Unclaimed

\* A step that ends a task without a trace in the tables, or leaves all of it alone.
LEMMA ClaimKept ==
  ASSUME TypeInv, ClaimInv, UNCHANGED <<msg, replies>>,
         \/ UNCHANGED work
         \/ \E w \in Workers : work' = [work EXCEPT ![w] = Idle]
  PROVE  ClaimInv'
<1>1. \A v \in Workers : Busy(v)' => Busy(v) /\ work'[v] = work[v]
  BY DEF TypeInv, TypeOK, Busy, Idle
<1>2. QED
  BY <1>1 DEF ClaimInv

\* A step that changes only the row of a message nobody is answering.
LEMMA ClaimElsewhere ==
  ASSUME TypeInv, ClaimInv, UNCHANGED <<work, replies>>, NEW u \in Updates,
         \A w \in Workers : Busy(w) => work[w].msg # u,
         NEW r \in Message, r.status # "done", msg[u].status # "done",
         msg' = [msg EXCEPT ![u] = r]
  PROVE  ClaimInv'
<1>1. \A v \in Updates \ {u} : msg'[v] = msg[v]
  BY DEF TypeInv, TypeOK
<1>2. msg'[u] = r
  BY DEF TypeInv, TypeOK
<1>3. \A w \in Workers : Busy(w) => work[w].msg \in Updates
  BY DEF TypeInv, Underway
<1>4. QED
  BY <1>1, <1>2, <1>3 DEF ClaimInv, Busy

LEMMA ClaimStep ==
  ASSUME TaskTimeLimit <= ClaimTimeout, TypeInv, ClaimInv, [Next]_vars
  PROVE  ClaimInv'
<1> USE DEF TypeInv
<1>1. ASSUME NEW q \in Requests, NEW c \in Conversations, Store(q, c)
      PROVE  ClaimInv'
  <2> DEFINE u == hook[q].update
  <2>1. UNCHANGED <<work, replies>> /\ u \in Updates
    BY <1>1 DEF Store, Underway
  <2>2. CASE Stored(u)
    BY <1>1, <2>1, <2>2, ClaimKept DEF Store
  <2>3. CASE ~Stored(u)
    <3>1. msg' = [msg EXCEPT ![u] = Unclaimed("queued")]
      BY <1>1, <2>3 DEF Store
    <3>2. Unclaimed("queued") \in Message /\ Unclaimed("queued").status # "done"
      BY RowTypes DEF Unclaimed
    <3>3. msg[u].status = "none"
      BY <2>3 DEF Stored
    <3>4. \A w \in Workers : Busy(w) => work[w].msg # u
      BY <3>3 DEF ClaimInv
    <3>5. QED
      BY <2>1, <3>1, <3>2, <3>3, <3>4, ClaimElsewhere
  <2>4. QED
    BY <2>2, <2>3
<1>2. ASSUME NEW w \in Workers, NEW u \in Updates, Claim(w, u)
      PROVE  ClaimInv'
  <2>1. \A v \in Workers : Busy(v) => work[v].msg # u
    <3>1. ASSUME NEW v \in Workers, Busy(v), work[v].msg = u
          PROVE  FALSE
      <4>1. msg[u].status = "processing" /\ msg[u].age = work[v].ran /\ work[v].ran < TaskTimeLimit
        BY <3>1 DEF ClaimInv
      <4>2. msg[u].age >= ClaimTimeout
        BY <1>2, <4>1 DEF Claim, Claimable
      <4>3. msg[u].age \in Nat /\ ClaimTimeout \in Nat /\ TaskTimeLimit \in Nat
        BY ReplyConstants DEF TypeOK, Message
      <4>4. QED
        BY <4>1, <4>2, <4>3
    <3>2. QED
      BY <3>1
  <2>2. /\ msg' = [msg EXCEPT ![u] = Unclaimed("processing")]
        /\ work' = [work EXCEPT ![w] = [at |-> "claimed", msg |-> u, ran |-> 0,
                                        bot |-> "active", conv |-> NoConversation]]
        /\ UNCHANGED replies
        /\ msg[u].status # "done"
        /\ ~Busy(w)
    BY <1>2 DEF Claim, Claimable
  <2>3. msg'[u] = Unclaimed("processing") /\ \A v \in Updates \ {u} : msg'[v] = msg[v]
    BY <2>2 DEF TypeOK
  <2>4. work'[w].msg = u /\ work'[w].ran = 0 /\ \A v \in Workers \ {w} : work'[v] = work[v]
    BY <2>2 DEF TypeOK
  <2>5. \A v \in Workers : Busy(v) => work[v].msg \in Updates \ {u}
    BY <2>1 DEF Underway
  <2>6. ASSUME NEW v \in Workers, Busy(v)'
        PROVE  /\ msg'[work'[v].msg].status = "processing"
               /\ msg'[work'[v].msg].age = work'[v].ran
               /\ work'[v].ran < TaskTimeLimit
    <3>1. CASE v = w
      BY <2>3, <2>4, <3>1, ReplyConstants DEF Unclaimed
    <3>2. CASE v # w
      BY <2>3, <2>4, <2>5, <2>6, <3>2 DEF ClaimInv, Busy
    <3>3. QED
      BY <3>1, <3>2
  <2>7. ASSUME NEW v \in Workers, NEW x \in Workers, Busy(v)', Busy(x)', work'[v].msg = work'[x].msg
        PROVE  v = x
    BY <2>1, <2>4, <2>7 DEF ClaimInv, Busy
  <2>8. ASSUME NEW x \in Updates
        PROVE  replies'[x] = IF msg'[x].status = "done" THEN 1 ELSE 0
    BY <2>2, <2>3 DEF ClaimInv, Unclaimed
  <2>9. QED
    BY <2>6, <2>7, <2>8 DEF ClaimInv
<1>3. ASSUME NEW w \in Workers, Load(w)
      PROVE  ClaimInv'
  <2>1. /\ Busy(w) /\ work'[w].msg = work[w].msg /\ work'[w].ran = work[w].ran
        /\ \A v \in Workers \ {w} : work'[v] = work[v]
        /\ UNCHANGED <<msg, replies>>
    BY <1>3 DEF Load, TypeOK, Busy
  <2>2. \A v \in Workers : Busy(v)' => Busy(v) /\ work'[v].msg = work[v].msg /\ work'[v].ran = work[v].ran
    BY <2>1 DEF Busy
  <2>3. QED
    BY <2>1, <2>2 DEF ClaimInv
<1>4. ASSUME NEW w \in Workers, Finish(w)
      PROVE  ClaimInv'
  <2> DEFINE u == work[w].msg
  <2>1. /\ Busy(w) /\ u \in Updates
        /\ work' = [work EXCEPT ![w] = Idle]
        /\ msg' = [msg EXCEPT ![u] = AnsweredRow]
        /\ replies' = [replies EXCEPT ![u] = replies[u] + 1]
    BY <1>4 DEF Finish, Underway, Busy
  <2>2. \A v \in Workers : Busy(v)' => Busy(v) /\ v # w /\ work'[v] = work[v]
    BY <2>1 DEF TypeOK, Busy, Idle
  <2>3. \A v \in Workers : Busy(v)' => work[v].msg \in Updates \ {u}
    BY <2>1, <2>2 DEF ClaimInv, Underway
  <2>4. msg'[u].status = "done" /\ \A x \in Updates \ {u} : msg'[x] = msg[x]
    BY <2>1 DEF TypeOK, AnsweredRow, Unclaimed
  <2>5. replies'[u] = 1 /\ \A x \in Updates \ {u} : replies'[x] = replies[x]
    <3>1. replies[u] = 0
      BY <2>1 DEF ClaimInv
    <3>2. QED
      BY <2>1, <3>1 DEF TypeOK
  <2>6. QED
    BY <2>2, <2>3, <2>4, <2>5 DEF ClaimInv
<1>5. ASSUME Tick PROVE ClaimInv'
  <2>1. \A v \in Workers : Busy(v)' => Busy(v) /\ work'[v].msg = work[v].msg /\ work'[v].ran = work[v].ran + 1
    BY <1>5 DEF Tick, TypeOK, Busy
  <2>2. ASSUME NEW v \in Workers, Busy(v)
        PROVE  /\ msg'[work[v].msg].status = "processing"
               /\ msg'[work[v].msg].age = work[v].ran + 1
               /\ work[v].ran + 1 < TaskTimeLimit
    <3>1. work[v].msg \in Updates
      BY <2>2 DEF Underway
    <3>2. msg[work[v].msg].status = "processing" /\ msg[work[v].msg].age = work[v].ran
      BY <2>2 DEF ClaimInv
    <3>3. work[v].ran + 1 < TaskTimeLimit
      BY <1>5, <2>2 DEF Tick
    <3>4. work[v].ran \in Nat /\ TaskTimeLimit \in Nat /\ ClaimTimeout \in Nat
      BY ReplyConstants DEF TypeOK, Task
    <3>5. msg'[work[v].msg] = [status |-> "processing", age |-> msg[work[v].msg].age + 1]
      BY <1>5, <3>1, <3>2, <3>3, <3>4 DEF Tick
    <3>6. QED
      BY <3>2, <3>3, <3>5
  <2>3. \A u \in Updates : (msg'[u].status = "done") <=> (msg[u].status = "done")
    BY <1>5 DEF Tick, TypeOK
  <2>4. UNCHANGED replies
    BY <1>5 DEF Tick
  <2>5. QED
    BY <2>1, <2>2, <2>3, <2>4 DEF ClaimInv
<1>6. ASSUME NEW w \in Workers, Gone(w) \/ Crash(w) \/ Abort(w)
      PROVE  ClaimInv'
  BY <1>6, ClaimKept DEF Gone, Crash, Abort
<1>7. ASSUME NEW w \in Workers, NEW u \in Updates, Skip(w, u)
      PROVE  ClaimInv'
  BY <1>7, ClaimKept DEF Skip
<1>8. ASSUME NEW q \in Requests,
             \/ Refuse(q)
             \/ \E c \in Conversations : IgnoreBlocked(q, c)
             \/ Enqueue(q) \/ EnqueueFails(q) \/ RequestDies(q)
      PROVE  ClaimInv'
  BY <1>8, ClaimKept DEF Refuse, IgnoreBlocked, Enqueue, EnqueueFails, RequestDies
<1>9. ASSUME NEW u \in Updates, Deliver(u) \/ Lose(u)
      PROVE  ClaimInv'
  BY <1>9, ClaimKept DEF Deliver, Ignore, Receive, Lose
<1>10. CASE Dashboard
  BY <1>10, ClaimKept
     DEF Dashboard, SetBotStatus, DeleteIntegration, SetStatus, AssignToSelf, BlockCustomer, Edit
<1>11. CASE UNCHANGED vars
  BY <1>11, ClaimKept DEF vars
<1>12. QED
  BY <1>1, <1>2, <1>3, <1>4, <1>5, <1>6, <1>7, <1>8, <1>9, <1>10, <1>11 DEF Next, Handle, Work

\* However often Telegram and the broker deliver a message, it is answered at most once,
\* provided that a task is over before its claim expires.
THEOREM RepliedOnce == ASSUME TaskTimeLimit <= ClaimTimeout PROVE Spec => []OneReply
<1>1. TypeInv /\ ClaimInv /\ [Next]_vars => TypeInv' /\ ClaimInv'
  BY TypeStep, ClaimStep
<1>2. Spec => [](TypeInv /\ ClaimInv)
  BY <1>1, TypeInit, ClaimInit, PTL DEF Spec
<1>3. ClaimInv => OneReply
  BY DEF ClaimInv, OneReply
<1>4. QED
  BY <1>2, <1>3, PTL

-----------------------------------------------------------------------------
(* Nothing forgotten.  Telegram is told "accepted" only together with a task *)
(* for a message that is stored.                                             *)

QueueInv ==
  /\ NothingForgotten
  /\ \A u \in Updates : telegram[u] = "accepted" => Stored(u)
  /\ \A q \in Requests : hook[q].at = "stored" => Stored(hook[q].update)

LEMMA QueueInit == Init => QueueInv
  BY DEF Init, QueueInv, NothingForgotten, Stored, Unclaimed, Free

\* A step that leaves the queue alone or takes a request off the hook, and tells Telegram
\* nothing but "ignored".
LEMMA QueueKept ==
  ASSUME TypeInv, QueueInv, UNCHANGED msg,
         \A u \in Updates : telegram'[u] # telegram[u] => telegram'[u] = "ignored",
         \A u \in Updates : jobs[u] > 0 => jobs'[u] > 0 \/ u \in hurt' \/ bot = "deleted",
         hurt \subseteq hurt',
         bot = "deleted" => bot' = "deleted",
         \A q \in Requests : hook'[q].at = "stored" => hook'[q] = hook[q]
  PROVE  QueueInv'
<1>1. ASSUME NEW u \in Updates, (msg[u].status = "queued")'
      PROVE  (\/ jobs[u] > 0
              \/ telegram[u] \in {"waiting", "ignored"}
              \/ u \in hurt
              \/ bot = "deleted")'
  <2>1. \/ jobs[u] > 0
        \/ telegram[u] \in {"waiting", "ignored"}
        \/ u \in hurt
        \/ bot = "deleted"
    BY <1>1 DEF QueueInv, NothingForgotten
  <2>2. QED
    BY <2>1
<1>2. QED
  BY <1>1 DEF QueueInv, NothingForgotten, Stored

LEMMA QueueStep == TypeInv /\ QueueInv /\ [Next]_vars => QueueInv'
<1> SUFFICES ASSUME TypeInv, QueueInv, [Next]_vars PROVE QueueInv'
  OBVIOUS
<1> USE DEF TypeInv
<1>1. ASSUME NEW q \in Requests, NEW c \in Conversations, Store(q, c)
      PROVE  QueueInv'
  <2> DEFINE u == hook[q].update
  <2>1. /\ u \in Updates
        /\ hook' = [hook EXCEPT ![q] = [at |-> "stored", update |-> u, customer |-> "none"]]
        /\ UNCHANGED <<telegram, bot, jobs, hurt>>
    BY <1>1 DEF Store, Underway
  <2>2. \A v \in Updates : msg'[v] = msg[v] \/ (v = u /\ ~Stored(u) /\ msg'[v] = Unclaimed("queued"))
    <3>1. CASE Stored(u)
      BY <1>1, <3>1 DEF Store
    <3>2. CASE ~Stored(u)
      <4>1. msg' = [msg EXCEPT ![u] = Unclaimed("queued")]
        BY <1>1, <3>2 DEF Store
      <4>2. QED
        BY <3>2, <4>1 DEF TypeOK
    <3>3. QED
      BY <3>1, <3>2
  <2>3. Stored(u)'
    BY <1>1, <2>1 DEF Store, Stored, TypeOK, Unclaimed
  <2>4. \A v \in Updates : Stored(v) => Stored(v)'
    BY <2>2 DEF Stored, Unclaimed
  <2>5. NothingForgotten'
    <3>1. ~Stored(u) => telegram[u] \in {"waiting", "ignored"}
      BY <2>1 DEF QueueInv, TypeOK
    <3>2. QED
      BY <2>1, <2>2, <3>1 DEF QueueInv, NothingForgotten
  <2>6. \A p \in Requests : (hook[p].at = "stored" => Stored(hook[p].update))'
    <3>1. \A p \in Requests \ {q} : hook'[p] = hook[p]
      BY <2>1 DEF TypeOK
    <3>2. hook'[q].update = u
      BY <2>1 DEF TypeOK
    <3>3. \A p \in Requests \ {q} : hook[p].at = "stored" => hook[p].update \in Updates
      BY DEF Underway
    <3>4. \A p \in Requests \ {q} :
            hook[p].at = "stored" => msg'[hook[p].update].status # "none"
      BY <2>4, <3>3 DEF QueueInv, Stored
    <3>5. QED
      BY <2>3, <3>1, <3>2, <3>4 DEF Stored
  <2>7. QED
    BY <2>1, <2>4, <2>5, <2>6 DEF QueueInv
<1>2. ASSUME NEW q \in Requests, Enqueue(q)
      PROVE  QueueInv'
  <2> DEFINE u == hook[q].update
  <2>1. /\ u \in Updates /\ Stored(u)
        /\ jobs' = [jobs EXCEPT ![u] = jobs[u] + 1]
        /\ hook' = [hook EXCEPT ![q] = Free]
        /\ UNCHANGED <<msg, bot, hurt>>
    BY <1>2 DEF Enqueue, Underway, QueueInv
  <2>2. \A v \in Updates : v # u => telegram'[v] = telegram[v] /\ jobs'[v] = jobs[v]
    BY <1>2, <2>1 DEF Enqueue, Answer, TypeOK
  <2>3. jobs'[u] > 0
    BY <2>1 DEF TypeOK
  <2>4. NothingForgotten'
    BY <2>1, <2>2, <2>3 DEF QueueInv, NothingForgotten
  <2>5. \A v \in Updates : (telegram[v] = "accepted" => Stored(v))'
    BY <2>1, <2>2 DEF QueueInv, Stored
  <2>6. \A p \in Requests : hook'[p].at = "stored" => hook'[p] = hook[p]
    BY <2>1 DEF TypeOK, Free
  <2>7. QED
    BY <2>1, <2>4, <2>5, <2>6 DEF QueueInv, Stored
<1>3. ASSUME NEW w \in Workers, NEW u \in Updates, Claim(w, u)
      PROVE  QueueInv'
  <2>1. \A v \in Updates : \/ v = u /\ msg'[v] = Unclaimed("processing")
                           \/ msg'[v] = msg[v] /\ jobs'[v] = jobs[v]
    BY <1>3 DEF Claim, TypeOK
  <2>2. UNCHANGED <<telegram, bot, hook, hurt>>
    BY <1>3 DEF Claim
  <2>3. \A v \in Updates : Stored(v) => Stored(v)'
    BY <2>1 DEF Stored, Unclaimed
  <2>4. \A q \in Requests : hook[q].at = "stored" => hook[q].update \in Updates
    BY DEF Underway
  <2>5. QED
    BY <2>1, <2>2, <2>3, <2>4 DEF QueueInv, NothingForgotten, Unclaimed
<1>4. ASSUME NEW w \in Workers, Finish(w)
      PROVE  QueueInv'
  <2>1. \A v \in Updates : msg'[v] = msg[v] \/ msg'[v] = AnsweredRow
    BY <1>4 DEF Finish, TypeOK
  <2>2. UNCHANGED <<telegram, jobs, hook, hurt>> /\ bot # "deleted"
    BY <1>4 DEF Finish
  <2>3. \A v \in Updates : Stored(v) => Stored(v)'
    BY <2>1 DEF Stored, AnsweredRow, Unclaimed
  <2>4. \A q \in Requests : hook[q].at = "stored" => hook[q].update \in Updates
    BY DEF Underway
  <2>5. QED
    BY <2>1, <2>2, <2>3, <2>4 DEF QueueInv, NothingForgotten, AnsweredRow, Unclaimed
<1>5. ASSUME Tick PROVE QueueInv'
  <2>1. \A v \in Updates : msg'[v].status = msg[v].status
    BY <1>5 DEF Tick
  <2>2. UNCHANGED <<telegram, jobs, hook, hurt, bot>>
    BY <1>5 DEF Tick
  <2>3. \A q \in Requests : hook[q].at = "stored" => hook[q].update \in Updates
    BY DEF Underway
  <2>4. QED
    BY <2>1, <2>2, <2>3 DEF QueueInv, NothingForgotten, Stored
<1>6. ASSUME NEW w \in Workers, NEW u \in Updates, Skip(w, u)
      PROVE  QueueInv'
  <2>1. /\ UNCHANGED <<telegram, bot, msg, hook, hurt>>
        /\ \A v \in Updates : v # u => jobs'[v] = jobs[v]
        /\ msg[u].status = "queued" => bot = "deleted"
    BY <1>6 DEF Skip, Claimable, TypeOK
  <2>2. QED
    BY <2>1 DEF QueueInv, NothingForgotten, Stored
<1>7. ASSUME NEW u \in Updates, Lose(u)
      PROVE  QueueInv'
  <2>1. \A v \in Updates : jobs[v] > 0 => jobs'[v] > 0 \/ v \in hurt'
    BY <1>7 DEF Lose, TypeOK
  <2>2. UNCHANGED <<telegram, bot, msg, hook>> /\ hurt \subseteq hurt'
    BY <1>7 DEF Lose
  <2>3. QED
    BY <2>1, <2>2, QueueKept
<1>8. ASSUME NEW w \in Workers, Load(w) \/ Gone(w) \/ Crash(w) \/ Abort(w)
      PROVE  QueueInv'
  <2>1. UNCHANGED <<telegram, bot, msg, hook>> /\ hurt \subseteq hurt'
    BY <1>8 DEF Load, Gone, Crash, Abort
  <2>2. \A v \in Updates : jobs[v] > 0 => jobs'[v] > 0
    BY <1>8 DEF Load, Gone, Crash, Abort, TypeOK
  <2>3. QED
    BY <2>1, <2>2, QueueKept
<1>9. ASSUME NEW q \in Requests,
             \/ Refuse(q)
             \/ \E c \in Conversations : IgnoreBlocked(q, c)
             \/ EnqueueFails(q) \/ RequestDies(q)
      PROVE  QueueInv'
  <2>1. UNCHANGED <<msg, jobs, hurt, bot>> /\ hook' = [hook EXCEPT ![q] = Free]
    BY <1>9 DEF Refuse, IgnoreBlocked, EnqueueFails, RequestDies
  <2>2. \A u \in Updates : telegram'[u] # telegram[u] => telegram'[u] = "ignored"
    BY <1>9 DEF Refuse, IgnoreBlocked, EnqueueFails, RequestDies, Answer, TypeOK
  <2>3. \A p \in Requests : hook'[p].at = "stored" => hook'[p] = hook[p]
    BY <2>1 DEF TypeOK, Free
  <2>4. QED
    BY <2>1, <2>2, <2>3, QueueKept
<1>10. ASSUME NEW u \in Updates, Ignore(u)
      PROVE  QueueInv'
  <2>1. UNCHANGED <<msg, jobs, hurt, bot, hook>>
    BY <1>10 DEF Ignore
  <2>2. \A v \in Updates : telegram'[v] # telegram[v] => telegram'[v] = "ignored"
    BY <1>10 DEF Ignore, Answer, TypeOK
  <2>3. QED
    BY <2>1, <2>2, QueueKept
<1>11. ASSUME NEW u \in Updates, NEW q \in Requests, Receive(q, u)
      PROVE  QueueInv'
  <2>1. UNCHANGED <<telegram, msg, jobs, hurt, bot>>
    BY <1>11 DEF Receive
  <2>2. \A p \in Requests : hook'[p].at = "stored" => hook'[p] = hook[p]
    BY <1>11 DEF Receive, TypeOK
  <2>3. QED
    BY <2>1, <2>2, QueueKept
<1>12. CASE Dashboard
  <2>1. UNCHANGED <<telegram, msg, jobs, hurt, hook>> /\ bot # "deleted"
    BY <1>12 DEF Dashboard, SetBotStatus, DeleteIntegration, SetStatus, AssignToSelf,
                 BlockCustomer, Edit
  <2>2. QED
    BY <2>1, QueueKept
<1>13. CASE UNCHANGED vars
  BY <1>13, QueueKept DEF vars
<1>14. QED
  BY <1>1, <1>2, <1>3, <1>4, <1>5, <1>6, <1>7, <1>8, <1>9, <1>10, <1>11, <1>12, <1>13
     DEF Next, Handle, Work, Deliver

\* Whatever fails between the webhook's commit and the worker's claim, somebody still has
\* the message: the broker or Telegram.
THEOREM QueuedIsRemembered == Spec => []NothingForgotten
<1>1. Spec => [](TypeInv /\ QueueInv)
  BY TypeInit, TypeStep, QueueInit, QueueStep, PTL DEF Spec
<1>2. QueueInv => NothingForgotten
  BY DEF QueueInv
<1>3. QED
  BY <1>1, <1>2, PTL

-----------------------------------------------------------------------------
(* A blocked customer. *)

LEMMA BlockedStep ==
  ASSUME TypeInv, [Next]_vars, customer = "blocked",
         \A q \in Requests : hook[q].at = "read" => hook[q].customer = "blocked",
         NEW u \in Updates
  PROVE  Stored(u)' = Stored(u)
<1> USE DEF TypeInv
<1>1. CASE UNCHANGED msg
  BY <1>1 DEF Stored
<1>2. ASSUME NEW q \in Requests, NEW c \in Conversations, Store(q, c)
      PROVE  FALSE
  BY <1>2 DEF Store
<1>3. ASSUME NEW w \in Workers, NEW v \in Updates, Claim(w, v)
      PROVE  Stored(u)' = Stored(u)
  BY <1>3 DEF Claim, Claimable, Stored, TypeOK, Unclaimed
<1>4. ASSUME NEW w \in Workers, Finish(w)
      PROVE  Stored(u)' = Stored(u)
  <2>1. Stored(work[w].msg)
    BY <1>4 DEF Finish, Underway, Busy
  <2>2. msg' = [msg EXCEPT ![work[w].msg] = AnsweredRow]
    BY <1>4 DEF Finish
  <2>3. QED
    BY <2>1, <2>2 DEF Stored, TypeOK, AnsweredRow, Unclaimed
<1>5. CASE Tick
  BY <1>5 DEF Tick, Stored
<1>6. CASE Dashboard
  BY <1>1, <1>6 DEF Dashboard, SetBotStatus, DeleteIntegration, SetStatus, AssignToSelf,
                    BlockCustomer, Edit
<1>7. CASE UNCHANGED vars
  BY <1>1, <1>7 DEF vars
<1>8. ASSUME NEW w \in Workers,
             \/ \E v \in Updates : Skip(w, v)
             \/ Load(w) \/ Gone(w) \/ Crash(w) \/ Abort(w)
      PROVE  UNCHANGED msg
  BY <1>8 DEF Skip, Load, Gone, Crash, Abort
<1>9. ASSUME NEW q \in Requests,
             \/ Refuse(q) \/ Enqueue(q) \/ EnqueueFails(q) \/ RequestDies(q)
             \/ \E c \in Conversations : IgnoreBlocked(q, c)
      PROVE  UNCHANGED msg
  BY <1>9 DEF Refuse, Enqueue, EnqueueFails, RequestDies, IgnoreBlocked
<1>10. ASSUME NEW v \in Updates, Deliver(v) \/ Lose(v)
       PROVE  UNCHANGED msg
  BY <1>10 DEF Deliver, Ignore, Receive, Lose
<1>11. QED
  BY <1>1, <1>2, <1>3, <1>4, <1>5, <1>6, <1>7, <1>8, <1>9, <1>10 DEF Next, Handle, Work

\* Once the customer is blocked and the requests that started before are over, no
\* further message is stored.
THEOREM BlockedIsKeptOut == Spec => BlockedStaysOut
<1>1. TypeInv /\ [Next]_vars
        => [(customer = "blocked"
              /\ \A q \in Requests : hook[q].at = "read" => hook[q].customer = "blocked")
             => \A u \in Updates : Stored(u)' = Stored(u)]_vars
  BY BlockedStep
<1>2. Spec => []TypeInv
  BY TypeInit, TypeStep, PTL DEF Spec
<1>3. QED
  BY <1>1, <1>2, PTL DEF Spec, BlockedStaysOut
=============================================================================
