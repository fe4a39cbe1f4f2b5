------------------------------ MODULE PlatformProofs ----------------------------
(***************************************************************************)
(* The rest of the platform's administration: the bots of BotIntegrations, *)
(* the documents of DocumentLibrary, the limits of WebhookLimits and of    *)
(* ApiLimits, each for any number of requests at once; and MCPlatform,     *)
(* which implements the specification of each of its seven parts and so has*)
(* all of their properties.                                                *)
(***************************************************************************)
EXTENDS MCPlatform, AdministrationProofs

(***************************************************************************)
(* Bots: an integration that is shown as "active" is reached. The          *)
(* strengthening follows the requests: a row that a request is creating is *)
(* nobody else's, what a request is about to commit as "active" has its    *)
(* webhook, and an integration whose webhook was taken is disturbed or     *)
(* about to be removed.                                                    *)
(***************************************************************************)

\* A row that exists, and a request about one.
FullRow == [status : {"active", "disabled", "error"}, token : Token, hash : Token]

BotKinds == {"create", "rotate", "enable", "disable", "delete", "update", "sync"}

AdminRow ==
  [ kind : BotKinds, at : {"inserting", "registering", "committing", "unhooking", "removing"},
    id : Integrations, base : FullRow, mine : FullRow ]

\* What is always so of a request: which stages it has, and what its row may differ in.
Sound(c) ==
  /\ c.at = "inserting" => c.kind = "create"
  /\ c.at \in {"unhooking", "removing"} => c.kind = "delete"
  /\ c.at \in {"inserting", "registering"} => c.mine.status = "active" /\ c.kind # "update"
  /\ c.kind = "update" => c.mine = c.base
  /\ c.kind # "rotate" => c.mine.token = c.base.token /\ c.mine.hash = c.base.hash

BotShapes ==
  /\ bots \in [Integrations -> BotRow]
  /\ webhook \in [TelegramBots -> Integrations \cup {Nowhere}]
  /\ newest \in [TelegramBots -> 0..MaxRevocations]
  /\ admin \in [Admins -> AdminRow \cup {NoAdmin}]
  /\ disturbed \subseteq Integrations
  /\ \A a \in Admins : admin[a] # NoAdmin => Sound(admin[a])

\* An integration is being created by one request, which nobody else can know of.
Fresh ==
  \A a \in Admins : admin[a].at = "inserting" =>
    /\ bots[admin[a].id].status = "unused"
    /\ \A b \in Admins : b # a => admin[b].id # admin[a].id

\* Its webhook is gone or another's, or soon will be.
Lost(i) == i \in disturbed \/ \E a \in Admins : admin[a].id = i /\ admin[a].at = "removing"

\* Its row is there, and its webhook is still to be registered.
Pending(i) ==
  \E a \in Admins : admin[a].id = i /\ admin[a].kind = "create" /\ admin[a].at # "inserting"

Reached ==
  \A i \in Integrations :
    bots[i].status = "active" /\ ~Lost(i) /\ ~Pending(i) => webhook[bots[i].token.bot] = i

\* What a request is about to write as "active" has its webhook.
Registered ==
  \A a \in Admins :
    /\ admin[a].at = "committing" /\ admin[a].kind # "update"
    /\ admin[a].mine.status = "active"
    /\ ~Lost(admin[a].id)
    /\ Exists(bots[admin[a].id])
    => webhook[admin[a].mine.token.bot] = admin[a].id

BotInv == BotTypeOK /\ BotShapes /\ Fresh /\ Reached /\ Registered

(***************************************************************************)
(* Rows and requests.                                                       *)
(***************************************************************************)

LEMMA FullRows ==
  /\ \A row \in FullRow : row \in BotRow /\ Exists(row)
  /\ \A row \in BotRow : Exists(row) => row \in FullRow
BY DEF FullRow, BotRow, Exists

LEMMA RequestsDiffer == NoAdmin \notin AdminRow /\ \A i \in Integrations : NoAdmin.id # i
BY BotAssumption DEF AdminRow, NoAdmin

LEMMA NoAdminIs == NoAdmin.at = "idle" /\ NoAdmin.kind = "none" /\ NoAdmin.id = Nowhere
BY DEF NoAdmin

LEMMA BotShapesSuffice == BotShapes => BotTypeOK
<1> SUFFICES ASSUME BotShapes PROVE BotTypeOK
    OBVIOUS
<1>1. ASSUME NEW a \in Admins, admin[a] # NoAdmin
      PROVE  /\ admin[a].id \in Integrations
             /\ Exists(admin[a].base) /\ Exists(admin[a].mine)
  <2>1. admin[a] \in AdminRow
    BY <1>1 DEF BotShapes
  <2>2. admin[a].base \in FullRow /\ admin[a].mine \in FullRow /\ admin[a].id \in Integrations
    BY <2>1 DEF AdminRow
  <2> QED BY <2>2, FullRows
<1> QED BY <1>1 DEF BotShapes, BotTypeOK

\* A request at any of its stages.
LEMMA RequestTyped ==
  ASSUME BotShapes, NEW a \in Admins, admin[a].at # "idle" \/ admin[a] # NoAdmin
  PROVE  /\ admin[a] \in AdminRow /\ Sound(admin[a]) /\ admin[a] # NoAdmin
         /\ admin[a].kind \in BotKinds /\ admin[a].id \in Integrations
         /\ admin[a].base \in FullRow /\ admin[a].mine \in FullRow
         /\ admin[a].mine.token.bot \in TelegramBots
<1>1. admin[a] # NoAdmin
  BY NoAdminIs
<1>2. admin[a] \in AdminRow /\ Sound(admin[a])
  BY <1>1 DEF BotShapes
<1>3. /\ admin[a].kind \in BotKinds /\ admin[a].id \in Integrations
      /\ admin[a].base \in FullRow /\ admin[a].mine \in FullRow
  BY <1>2 DEF AdminRow
<1>4. admin[a].mine.token.bot \in TelegramBots
  BY <1>3 DEF FullRow, Token
<1> QED BY <1>1, <1>2, <1>3, <1>4

\* One request's record changes.
Put(a, d) == admin' = [admin EXCEPT ![a] = d]

LEMMA PutDoes ==
  ASSUME BotShapes, NEW a \in Admins, NEW d, Put(a, d)
  PROVE  admin'[a] = d /\ \A b \in Admins : b # a => admin'[b] = admin[b]
BY DEF BotShapes, Put

LEMMA ShapesPut ==
  ASSUME BotShapes, NEW a \in Admins, NEW d \in AdminRow \cup {NoAdmin}, Put(a, d),
         d # NoAdmin => Sound(d),
         bots' \in [Integrations -> BotRow],
         webhook' \in [TelegramBots -> Integrations \cup {Nowhere}],
         newest' = newest, disturbed' \subseteq Integrations
  PROVE  (BotTypeOK /\ BotShapes)'
<1>1. admin' \in [Admins -> AdminRow \cup {NoAdmin}]
  BY DEF BotShapes, Put
<1>2. \A b \in Admins : admin'[b] # NoAdmin => Sound(admin'[b])
  BY PutDoes DEF BotShapes
<1>3. newest' \in [TelegramBots -> 0..MaxRevocations]
  BY DEF BotShapes
<1>4. BotShapes'
  BY <1>1, <1>2, <1>3 DEF BotShapes
<1>5. BotTypeOK'
  BY <1>4, BotShapesSuffice, PTL
<1> QED BY <1>4, <1>5

LEMMA BotStart == InitBots => BotInv
<1> SUFFICES ASSUME InitBots PROVE BotInv
    OBVIOUS
<1>1. \A a \in Admins : admin[a] = NoAdmin
  BY DEF InitBots
<1>2. BotShapes
  <2>1. newest \in [TelegramBots -> 0..MaxRevocations]
    BY BotAssumption DEF InitBots
  <2>2. bots \in [Integrations -> BotRow]
    BY DEF InitBots
  <2>3. webhook \in [TelegramBots -> Integrations \cup {Nowhere}] /\ disturbed \subseteq Integrations
    BY DEF InitBots
  <2>4. admin \in [Admins -> AdminRow \cup {NoAdmin}]
    BY DEF InitBots
  <2> QED BY <1>1, <2>1, <2>2, <2>3, <2>4 DEF BotShapes
<1>3. Fresh
  BY <1>1, NoAdminIs DEF Fresh
<1>4. Reached
  BY DEF InitBots, Reached
<1>5. Registered
  BY <1>1, NoAdminIs DEF Registered
<1> QED BY <1>2, <1>3, <1>4, <1>5, BotShapesSuffice DEF BotInv

(***************************************************************************)
(* Requests are accepted.                                                   *)
(***************************************************************************)

LEMMA Opened ==
  ASSUME BotInv, NEW a \in Admins, NEW c \in AdminRow, Sound(c), admin[a] = NoAdmin, Put(a, c),
         UNCHANGED <<bots, webhook, newest, disturbed>>,
         c.at = "inserting" => /\ bots[c.id].status = "unused"
                               /\ \A b \in Admins : admin[b].id # c.id,
         c.at # "inserting" => Exists(bots[c.id]),
         c.at # "removing", c.kind = "create" => c.at = "inserting",
         c.at = "committing" => c.kind = "update" \/ c.mine.status # "active"
  PROVE  BotInv'
<1>0. BotShapes
  BY DEF BotInv
<1>1. admin'[a] = c /\ \A b \in Admins : b # a => admin'[b] = admin[b]
  BY <1>0, PutDoes
<1>2. (BotTypeOK /\ BotShapes)'
  BY <1>0, ShapesPut DEF BotShapes
<1>3. Fresh'
  <2> SUFFICES ASSUME NEW b \in Admins, admin'[b].at = "inserting"
               PROVE  /\ bots[admin'[b].id].status = "unused"
                      /\ \A e \in Admins : e # b => admin'[e].id # admin'[b].id
      BY DEF Fresh
  <2>1. CASE b = a
    BY <1>1, <2>1
  <2>2. CASE b # a
    <3>1. /\ bots[admin[b].id].status = "unused"
          /\ \A e \in Admins : e # b => admin[e].id # admin[b].id
      BY <1>1, <2>2 DEF BotInv, Fresh
    <3>2. c.id # admin[b].id
      <4>1. CASE c.at = "inserting"
        BY <4>1
      <4>2. CASE c.at # "inserting"
        BY <3>1, <4>2 DEF Exists
      <4> QED BY <4>1, <4>2
    <3> QED BY <1>1, <2>2, <3>1, <3>2
  <2> QED BY <2>1, <2>2
<1>4. \A i \in Integrations : Lost(i)' <=> Lost(i)
  BY <1>1, NoAdminIs DEF Lost
<1>5. \A i \in Integrations : Pending(i)' <=> Pending(i)
  BY <1>1, NoAdminIs DEF Pending
<1>6. Reached'
  BY <1>4, <1>5 DEF BotInv, Reached
<1>7. Registered'
  <2> SUFFICES ASSUME NEW b \in Admins,
                      (/\ admin[b].at = "committing" /\ admin[b].kind # "update"
                       /\ admin[b].mine.status = "active"
                       /\ ~Lost(admin[b].id)
                       /\ Exists(bots[admin[b].id]))'
               PROVE  (webhook[admin[b].mine.token.bot] = admin[b].id)'
      BY DEF Registered
  <2>1. b # a /\ admin'[b] = admin[b]
    BY <1>1
  <2>2. admin[b].id \in Integrations
    BY <1>0, <2>1, RequestTyped
  <2>3. ~Lost(admin[b].id)
    BY <1>1, <2>1, <2>2, NoAdminIs DEF Lost
  <2> QED BY <2>1, <2>3 DEF BotInv, Registered
<1> QED BY <1>2, <1>3, <1>6, <1>7 DEF BotInv

LEMMA RowRead ==
  ASSUME BotInv, NEW i \in Integrations, Exists(bots[i])
  PROVE  bots[i] \in FullRow
BY FullRows DEF BotInv, BotShapes

\* A row read with another status.
LEMMA WithStatus ==
  ASSUME NEW row \in FullRow, NEW st \in {"active", "disabled", "error"}
  PROVE  /\ [row EXCEPT !.status = st] \in FullRow
         /\ [row EXCEPT !.status = st].status = st
         /\ [row EXCEPT !.status = st].token = row.token
         /\ [row EXCEPT !.status = st].hash = row.hash
BY DEF FullRow

\* A request is accepted with the row it read; it is not the creation's, and removes nothing yet.
LEMMA AcceptedStep ==
  ASSUME BotInv, NEW a \in Admins, NEW i \in Integrations, NEW kind \in BotKinds \ {"create"},
         NEW stage \in {"registering", "committing", "unhooking"},
         Exists(bots[i]), NEW mine \in FullRow, Open(a, kind, stage, i, bots[i], mine),
         stage = "unhooking" => kind = "delete",
         stage = "registering" => mine.status = "active" /\ kind # "update",
         stage = "committing" => kind = "update" \/ mine.status # "active",
         kind = "update" => mine = bots[i],
         kind # "rotate" => mine.token = bots[i].token /\ mine.hash = bots[i].hash
  PROVE  BotInv'
<1> DEFINE c == [kind |-> kind, at |-> stage, id |-> i, base |-> bots[i], mine |-> mine]
<1>1. bots[i] \in FullRow
  BY RowRead
<1>2. c \in AdminRow
  BY <1>1 DEF AdminRow
<1>3. Sound(c)
  BY DEF Sound
<1>4. admin[a] = NoAdmin /\ Put(a, c) /\ UNCHANGED <<bots, webhook, newest, disturbed>>
  BY DEF Open, Put
<1>5. c.at = stage /\ c.id = i /\ c.kind = kind /\ c.mine = mine
  OBVIOUS
<1> HIDE DEF c
<1> QED BY <1>2, <1>3, <1>4, <1>5, Opened

LEMMA CreateBotStep ==
  ASSUME BotInv, NEW a \in Admins, NEW i \in Integrations, NEW t \in Token, CreateBot(a, i, t)
  PROVE  BotInv'
<1> DEFINE row == [status |-> "active", token |-> t, hash |-> t]
           c == [kind |-> "create", at |-> "inserting", id |-> i, base |-> row, mine |-> row]
<1>1. row \in FullRow
  BY DEF FullRow
<1>2. c \in AdminRow
  BY <1>1 DEF AdminRow, BotKinds
<1>3. Sound(c)
  BY DEF Sound
<1>4. admin[a] = NoAdmin /\ Put(a, c) /\ UNCHANGED <<bots, webhook, newest, disturbed>>
  BY DEF CreateBot, Open, Put
<1>5. bots[i].status = "unused" /\ \A b \in Admins : admin[b].id # i
  BY DEF CreateBot
<1>6. c.at = "inserting" /\ c.id = i
  OBVIOUS
<1> HIDE DEF c
<1> QED BY <1>2, <1>3, <1>4, <1>5, <1>6, Opened

LEMMA OpenedStep ==
  ASSUME BotInv, NEW a \in Admins, NEW i \in Integrations,
         \/ \E t \in Token : CreateBot(a, i, t) \/ RotateToken(a, i, t)
         \/ EnableBot(a, i) \/ DisableBot(a, i) \/ DeleteBot(a, i) \/ UpdateBot(a, i) \/ SyncBot(a, i)
  PROVE  BotInv'
<1> USE DEF BotKinds
<1>1. ASSUME NEW t \in Token, CreateBot(a, i, t) PROVE BotInv'
  BY <1>1, CreateBotStep
<1>2. ASSUME NEW t \in Token, RotateToken(a, i, t) PROVE BotInv'
  <2> DEFINE mine == [status |-> "active", token |-> t, hash |-> t]
  <2>1. mine \in FullRow /\ mine.status = "active"
    BY DEF FullRow
  <2>2. Exists(bots[i]) /\ Open(a, "rotate", "registering", i, bots[i], mine)
    BY <1>2 DEF RotateToken
  <2> HIDE DEF mine
  <2> QED BY <2>1, <2>2, AcceptedStep
<1>3. CASE EnableBot(a, i)
  <2> DEFINE mine == [bots[i] EXCEPT !.status = "active"]
  <2>1. Exists(bots[i]) /\ Open(a, "enable", "registering", i, bots[i], mine)
    BY <1>3 DEF EnableBot
  <2>2. mine \in FullRow /\ mine.status = "active" /\ mine.token = bots[i].token /\ mine.hash = bots[i].hash
    BY <2>1, RowRead, WithStatus
  <2> HIDE DEF mine
  <2> QED BY <2>1, <2>2, AcceptedStep
<1>4. CASE DisableBot(a, i)
  <2> DEFINE mine == [bots[i] EXCEPT !.status = "disabled"]
  <2>1. Exists(bots[i]) /\ Open(a, "disable", "committing", i, bots[i], mine)
    BY <1>4 DEF DisableBot
  <2>2. mine \in FullRow /\ mine.status = "disabled" /\ mine.token = bots[i].token /\ mine.hash = bots[i].hash
    BY <2>1, RowRead, WithStatus
  <2> HIDE DEF mine
  <2> QED BY <2>1, <2>2, AcceptedStep
<1>5. CASE DeleteBot(a, i)
  <2>1. Exists(bots[i]) /\ Open(a, "delete", "unhooking", i, bots[i], bots[i])
    BY <1>5 DEF DeleteBot
  <2> QED BY <2>1, RowRead, AcceptedStep
<1>6. CASE UpdateBot(a, i)
  <2>1. Exists(bots[i]) /\ Open(a, "update", "committing", i, bots[i], bots[i])
    BY <1>6 DEF UpdateBot
  <2> QED BY <2>1, RowRead, AcceptedStep
<1>7. CASE SyncBot(a, i)
  <2>1. Exists(bots[i])
    BY <1>7 DEF SyncBot, Exists
  <2>2. CASE Open(a, "sync", "registering", i, bots[i], [bots[i] EXCEPT !.status = "active"])
    <3> DEFINE mine == [bots[i] EXCEPT !.status = "active"]
    <3>1. mine \in FullRow /\ mine.status = "active" /\ mine.token = bots[i].token /\ mine.hash = bots[i].hash
      BY <2>1, RowRead, WithStatus
    <3>2. Open(a, "sync", "registering", i, bots[i], mine)
      BY <2>2
    <3> HIDE DEF mine
    <3> QED BY <2>1, <3>1, <3>2, AcceptedStep
  <2>3. CASE Open(a, "sync", "committing", i, bots[i], [bots[i] EXCEPT !.status = "error"])
    <3> DEFINE mine == [bots[i] EXCEPT !.status = "error"]
    <3>1. mine \in FullRow /\ mine.status = "error" /\ mine.token = bots[i].token /\ mine.hash = bots[i].hash
      BY <2>1, RowRead, WithStatus
    <3>2. Open(a, "sync", "committing", i, bots[i], mine)
      BY <2>3
    <3> HIDE DEF mine
    <3> QED BY <2>1, <3>1, <3>2, AcceptedStep
  <2> QED BY <1>7, <2>2, <2>3 DEF SyncBot
<1> QED BY <1>1, <1>2, <1>3, <1>4, <1>5, <1>6, <1>7

(***************************************************************************)
(* Requests go on.                                                          *)
(***************************************************************************)

\* A request that went on, or ended, has touched no integration that is being created.
LEMMA FreshStays ==
  ASSUME BotInv, NEW a \in Admins, admin[a] # NoAdmin, NEW d, Put(a, d),
         d.at # "inserting", d.id \in {admin[a].id, Nowhere},
         \A i \in Integrations : i # admin[a].id => bots'[i] = bots[i]
  PROVE  Fresh'
<1>0. BotShapes
  BY DEF BotInv
<1>1. admin'[a] = d /\ \A b \in Admins : b # a => admin'[b] = admin[b]
  BY <1>0, PutDoes
<1> SUFFICES ASSUME NEW b \in Admins, admin'[b].at = "inserting"
             PROVE  /\ bots'[admin'[b].id].status = "unused"
                    /\ \A e \in Admins : e # b => admin'[e].id # admin'[b].id
    BY DEF Fresh
<1>2. b # a /\ admin'[b] = admin[b]
  BY <1>1
<1>3. /\ bots[admin[b].id].status = "unused"
      /\ \A e \in Admins : e # b => admin[e].id # admin[b].id
  BY <1>2 DEF BotInv, Fresh
<1>4. admin[b].id \in Integrations /\ admin[b].id # Nowhere
  BY <1>0, <1>2, RequestTyped, BotAssumption
<1> QED BY <1>1, <1>2, <1>3, <1>4

LEMMA InsertStep ==
  ASSUME BotInv, NEW a \in Admins, InsertBot(a)
  PROVE  BotInv'
<1> DEFINE c == admin[a]
<1>0. BotShapes /\ c.at = "inserting" /\ UNCHANGED <<webhook, newest, disturbed>>
  BY DEF BotInv, InsertBot
<1>1. /\ c \in AdminRow /\ Sound(c) /\ c # NoAdmin /\ c.id \in Integrations
      /\ c.base \in FullRow /\ c.mine \in FullRow /\ c.kind \in BotKinds
  BY <1>0, RequestTyped
<1>2. /\ bots[c.id].status = "unused"
      /\ \A b \in Admins : b # a => admin[b].id # c.id
  BY <1>0 DEF BotInv, Fresh
<1>3. CASE Close(a) /\ UNCHANGED bots
  <2>1. Put(a, NoAdmin)
    BY <1>3 DEF Close, Put
  <2>2. admin'[a] = NoAdmin /\ \A b \in Admins : b # a => admin'[b] = admin[b]
    BY <1>0, <2>1, PutDoes
  <2>3. (BotTypeOK /\ BotShapes)'
    BY <1>0, <1>3, <2>1, ShapesPut DEF BotShapes
  <2>4. Fresh'
    BY <1>1, <1>3, <2>1, FreshStays, NoAdminIs
  <2>5. Reached'
    <3>1. \A i \in Integrations : (Lost(i)' <=> Lost(i)) /\ (Pending(i)' <=> Pending(i))
      BY <1>0, <2>2, NoAdminIs DEF Lost, Pending
    <3> QED BY <1>0, <1>3, <3>1 DEF BotInv, Reached
  <2>6. Registered'
    <3>1. \A b \in Admins : b # a => (Lost(admin[b].id)' <=> Lost(admin[b].id))
      BY <1>0, <2>2, NoAdminIs DEF Lost
    <3> QED BY <1>0, <1>3, <2>2, <3>1, NoAdminIs DEF BotInv, Registered
  <2> QED BY <2>3, <2>4, <2>5, <2>6 DEF BotInv
<1>4. CASE /\ bots' = [bots EXCEPT ![c.id] = c.mine]
           /\ admin' = [admin EXCEPT ![a].at = "registering"]
  <2> DEFINE d == [c EXCEPT !.at = "registering"]
  <2>1. d \in AdminRow /\ Sound(d) /\ d.at = "registering" /\ d.id = c.id /\ d.kind = "create"
    BY <1>0, <1>1 DEF AdminRow, Sound
  <2>2. Put(a, d)
    BY <1>0, <1>4 DEF Put, BotShapes
  <2> HIDE DEF d
  <2>3. admin'[a] = d /\ \A b \in Admins : b # a => admin'[b] = admin[b]
    BY <1>0, <2>2, PutDoes
  <2>4. bots' \in [Integrations -> BotRow] /\ bots'[c.id] = c.mine
        /\ \A i \in Integrations : i # c.id => bots'[i] = bots[i]
    BY <1>0, <1>1, <1>4, FullRows DEF BotShapes
  <2>5. (BotTypeOK /\ BotShapes)'
    BY <1>0, <2>1, <2>2, <2>4, ShapesPut DEF BotShapes
  <2>6. Fresh'
    BY <1>1, <2>1, <2>2, <2>4, FreshStays
  <2>7. \A i \in Integrations : Lost(i)' <=> Lost(i)
    BY <1>0, <2>1, <2>3 DEF Lost
  <2>8. Reached'
    <3> SUFFICES ASSUME NEW i \in Integrations,
                        (bots[i].status = "active" /\ ~Lost(i) /\ ~Pending(i))'
                 PROVE  (webhook[bots[i].token.bot] = i)'
        BY DEF Reached
    <3>1. i # c.id
      BY <2>1, <2>3 DEF Pending
    <3>2. ~Pending(i)
      BY <2>3, <3>1 DEF Pending
    <3> QED BY <1>0, <2>4, <2>7, <3>1, <3>2 DEF BotInv, Reached
  <2>9. Registered'
    <3> SUFFICES ASSUME NEW b \in Admins,
                        (/\ admin[b].at = "committing" /\ admin[b].kind # "update"
                         /\ admin[b].mine.status = "active"
                         /\ ~Lost(admin[b].id)
                         /\ Exists(bots[admin[b].id]))'
                 PROVE  (webhook[admin[b].mine.token.bot] = admin[b].id)'
        BY DEF Registered
    <3>1. b # a /\ admin'[b] = admin[b]
      BY <2>1, <2>3
    <3>2. admin[b].id \in Integrations /\ admin[b].id # c.id
      BY <1>0, <1>2, <3>1, RequestTyped
    <3>3. ~Lost(admin[b].id)
      BY <1>0, <2>1, <2>3, <3>1 DEF Lost
    <3>4. Exists(bots[admin[b].id])
      BY <2>4, <3>1, <3>2 DEF Exists
    <3> QED BY <1>0, <3>1, <3>3, <3>4 DEF BotInv, Registered
  <2> QED BY <2>5, <2>6, <2>8, <2>9 DEF BotInv
<1> QED BY <1>3, <1>4 DEF InsertBot

\* A call about bot b by request a leaves the other integrations with their webhooks, or counts
\* them as disturbed.
Called(a, b, d) ==
  /\ Put(a, d)
  /\ \A x \in TelegramBots : x # b => webhook'[x] = webhook[x]
  /\ disturbed \subseteq disturbed'
  /\ webhook'[b] # webhook[b] => Sharing(admin[a].id, b) \subseteq disturbed'

LEMMA OthersReached ==
  ASSUME BotInv, NEW a \in Admins, admin[a] # NoAdmin, NEW b \in TelegramBots, NEW d, Called(a, b, d),
         bots' = bots, d.id = admin[a].id, admin[a].at # "removing",
         NEW i \in Integrations, i # admin[a].id
  PROVE  /\ (bots[i].status = "active" /\ ~Lost(i) /\ ~Pending(i) => webhook[bots[i].token.bot] = i)'
         /\ \A e \in Admins :
              e # a /\ admin[e].id = i =>
                (/\ admin[e].at = "committing" /\ admin[e].kind # "update"
                 /\ admin[e].mine.status = "active"
                 /\ ~Lost(admin[e].id)
                 /\ Exists(bots[admin[e].id])
                 => webhook[admin[e].mine.token.bot] = admin[e].id)'
<1>0. BotShapes
  BY DEF BotInv
<1>1. admin'[a] = d /\ \A e \in Admins : e # a => admin'[e] = admin[e]
  BY <1>0, PutDoes DEF Called
<1>2. ~Lost(i)' => ~Lost(i) /\ i \notin disturbed'
  BY <1>1 DEF Lost, Called
<1>3. ~Pending(i)' => ~Pending(i)
  BY <1>1 DEF Pending
<1>4. ASSUME (bots[i].status = "active" /\ ~Lost(i) /\ ~Pending(i))'
      PROVE  (webhook[bots[i].token.bot] = i)'
  <2>1. webhook[bots[i].token.bot] = i
    BY <1>2, <1>3, <1>4 DEF BotInv, Reached
  <2>2. bots[i] \in FullRow /\ Exists(bots[i])
    BY <1>4, FullRows DEF BotInv, BotShapes, Exists
  <2>3. bots[i].token.bot \in TelegramBots
    BY <2>2 DEF FullRow, Token
  <2>4. CASE bots[i].token.bot = b
    <3>1. i \in Sharing(admin[a].id, b)
      BY <2>2, <2>4 DEF Sharing
    <3>2. webhook'[b] = webhook[b]
      BY <1>2, <1>4, <3>1 DEF Called
    <3> QED BY <2>1, <2>4, <3>2
  <2>5. CASE bots[i].token.bot # b
    BY <2>1, <2>3, <2>5 DEF Called
  <2> QED BY <2>4, <2>5
<1>5. ASSUME NEW e \in Admins, e # a, admin[e].id = i,
             (/\ admin[e].at = "committing" /\ admin[e].kind # "update"
              /\ admin[e].mine.status = "active"
              /\ ~Lost(admin[e].id)
              /\ Exists(bots[admin[e].id]))'
      PROVE  (webhook[admin[e].mine.token.bot] = admin[e].id)'
  <2>1. admin'[e] = admin[e] /\ admin[e].at = "committing" /\ admin[e].id = i
    BY <1>1, <1>5
  <2>2. i \notin disturbed' /\ ~Lost(i)
    BY <1>2, <1>5, <2>1 DEF Lost
  <2>3. webhook[admin[e].mine.token.bot] = i
    BY <1>5, <2>1, <2>2 DEF BotInv, Registered
  <2>4. admin[e].mine.token.bot \in TelegramBots
    BY <1>0, <2>1, RequestTyped
  <2>5. CASE admin[e].mine.token.bot = b
    <3>1. i \in Sharing(admin[a].id, b)
      BY <2>1, <2>5 DEF Sharing
    <3>2. webhook'[b] = webhook[b]
      BY <2>2, <3>1 DEF Called
    <3> QED BY <2>1, <2>3, <2>5, <3>2
  <2>6. CASE admin[e].mine.token.bot # b
    BY <2>1, <2>3, <2>4, <2>6 DEF Called
  <2> QED BY <2>5, <2>6
<1> QED BY <1>4, <1>5

\* What setWebhook may do.
LEMMA RegisterDoes ==
  ASSUME BotShapes, NEW a \in Admins, Register(a)
  PROVE  \E d \in AdminRow :
           LET c == admin[a]
               b == admin[a].mine.token.bot
           IN /\ c.at = "registering" /\ b \in TelegramBots
              /\ Sound(d) /\ d.at = "committing" /\ d.id = c.id /\ d.kind = c.kind
              /\ d.mine.token = c.mine.token /\ d.mine.hash = c.mine.hash
              /\ Called(a, b, d)
              /\ webhook'[b] \in {webhook[b], c.id}
              /\ d.mine.status = "active" => webhook'[b] = c.id
              /\ bots' = bots /\ newest' = newest
              /\ webhook' \in [TelegramBots -> Integrations \cup {Nowhere}]
              /\ disturbed' \subseteq Integrations
<1> DEFINE c == admin[a]
           b == admin[a].mine.token.bot
<1>0. admin \in [Admins -> AdminRow \cup {NoAdmin}]
  BY DEF BotShapes
<1>1. c.at = "registering" /\ bots' = bots /\ newest' = newest
  BY DEF Register
<1>2. /\ c \in AdminRow /\ Sound(c) /\ c.id \in Integrations /\ c.kind \in BotKinds
      /\ c.base \in FullRow /\ c.mine \in FullRow /\ b \in TelegramBots
  BY <1>1, RequestTyped
<1>3. PICK set \in BOOLEAN, answered \in BOOLEAN :
        /\ webhook' = IF set THEN [webhook EXCEPT ![b] = c.id] ELSE webhook
        /\ disturbed' = IF set THEN disturbed \cup Sharing(c.id, b) ELSE disturbed
        /\ admin' = [admin EXCEPT ![a].at = "committing",
                         ![a].mine.status = IF set /\ answered THEN @ ELSE "error"]
  BY DEF Register
<1> DEFINE st == IF set /\ answered THEN c.mine.status ELSE "error"
           mine == [c.mine EXCEPT !.status = st]
           d == [kind |-> c.kind, at |-> "committing", id |-> c.id, base |-> c.base, mine |-> mine]
<1>4. st \in {"active", "disabled", "error"}
  BY <1>2 DEF FullRow
<1>5. mine \in FullRow /\ mine.status = st /\ mine.token = c.mine.token /\ mine.hash = c.mine.hash
  <2> HIDE DEF st
  <2> QED BY <1>2, <1>4, WithStatus
<1>6. Put(a, d)
  <2> DEFINE y == [kind |-> c.kind, at |-> "committing", id |-> c.id, base |-> c.base, mine |-> c.mine]
  <2>1. [c EXCEPT !.at = "committing"] = y
    BY <1>2 DEF AdminRow
  <2>2. [y EXCEPT !.mine = mine] = d
    <3> HIDE DEF mine
    <3> QED OBVIOUS
  <2>3. ASSUME NEW f, NEW S, f \in [Admins -> S], NEW x
        PROVE  [f EXCEPT ![a].at = "committing", ![a].mine.status = x]
                 = [f EXCEPT ![a] = [[f[a] EXCEPT !.at = "committing"]
                                        EXCEPT !.mine = [f[a].mine EXCEPT !.status = x]]]
    OBVIOUS
  <2>4. admin' = [admin EXCEPT ![a].at = "committing", ![a].mine.status = st]
    BY <1>2, <1>3 DEF BotShapes
  <2>5. admin' = [admin EXCEPT ![a] = [[c EXCEPT !.at = "committing"] EXCEPT !.mine = mine]]
    <3> HIDE DEF st
    <3> QED BY <1>0, <2>3, <2>4
  <2> HIDE DEF y, d, mine
  <2> QED BY <2>1, <2>2, <2>5 DEF Put
<1>7. d \in AdminRow
  <2> HIDE DEF mine
  <2> QED BY <1>2, <1>5 DEF AdminRow
<1>8. Sound(d)
  <2> HIDE DEF mine
  <2> QED BY <1>1, <1>2, <1>5 DEF Sound
<1>9. /\ d.at = "committing" /\ d.id = c.id /\ d.kind = c.kind
      /\ d.mine.token = c.mine.token /\ d.mine.hash = c.mine.hash /\ d.mine.status = st
  BY <1>5
<1>10. webhook' \in [TelegramBots -> Integrations \cup {Nowhere}] /\ disturbed' \subseteq Integrations
  BY <1>2, <1>3 DEF BotShapes, Sharing
<1>11. /\ webhook'[b] \in {webhook[b], c.id}
       /\ \A x \in TelegramBots : x # b => webhook'[x] = webhook[x]
  BY <1>2, <1>3 DEF BotShapes
<1>12. st = "active" => webhook'[b] = c.id
  BY <1>2, <1>3 DEF BotShapes
<1>13. disturbed \subseteq disturbed' /\ (webhook'[b] # webhook[b] => Sharing(c.id, b) \subseteq disturbed')
  BY <1>3
<1> HIDE DEF d, st, mine
<1>14. Called(a, b, d)
  BY <1>6, <1>11, <1>13 DEF Called
<1> QED BY <1>1, <1>2, <1>7, <1>8, <1>9, <1>10, <1>11, <1>12, <1>14

LEMMA RegisterStep ==
  ASSUME BotInv, NEW a \in Admins, Register(a)
  PROVE  BotInv'
<1> DEFINE c == admin[a]
           b == admin[a].mine.token.bot
<1>0. BotShapes
  BY DEF BotInv
<1>1. PICK d \in AdminRow :
        /\ c.at = "registering" /\ b \in TelegramBots
        /\ Sound(d) /\ d.at = "committing" /\ d.id = c.id /\ d.kind = c.kind
        /\ d.mine.token = c.mine.token
        /\ Called(a, b, d)
        /\ webhook'[b] \in {webhook[b], c.id}
        /\ d.mine.status = "active" => webhook'[b] = c.id
        /\ bots' = bots /\ newest' = newest
        /\ webhook' \in [TelegramBots -> Integrations \cup {Nowhere}]
        /\ disturbed' \subseteq Integrations
  BY <1>0, RegisterDoes
<1>2. c # NoAdmin /\ c.id \in Integrations
  BY <1>0, <1>1, RequestTyped
<1>3. Put(a, d) /\ disturbed \subseteq disturbed'
      /\ \A x \in TelegramBots : x # b => webhook'[x] = webhook[x]
  BY <1>1 DEF Called
<1>4. admin'[a] = d /\ \A e \in Admins : e # a => admin'[e] = admin[e]
  BY <1>0, <1>3, PutDoes
<1>5. (BotTypeOK /\ BotShapes)'
  BY <1>0, <1>1, <1>3, ShapesPut DEF BotShapes
<1>6. Fresh'
  BY <1>1, <1>2, <1>3, FreshStays
<1>8. Reached'
  <2> SUFFICES ASSUME NEW i \in Integrations,
                      (bots[i].status = "active" /\ ~Lost(i) /\ ~Pending(i))'
               PROVE  (webhook[bots[i].token.bot] = i)'
      BY DEF Reached
  <2>1. CASE i # c.id
    BY <1>1, <1>2, <2>1, OthersReached
  <2>2. CASE i = c.id
    <3>1. ~Lost(i)
      BY <1>1, <1>3, <1>4 DEF Lost
    <3>2. ~Pending(i)
      BY <1>1, <1>4, <2>2 DEF Pending
    <3>3. webhook[bots[i].token.bot] = i
      BY <1>1, <3>1, <3>2 DEF BotInv, Reached
    <3>4. bots[i] \in FullRow
      BY <1>1, FullRows DEF BotInv, BotShapes, Exists
    <3>5. bots[i].token.bot \in TelegramBots
      BY <3>4 DEF FullRow, Token
    <3> QED BY <1>1, <1>3, <2>2, <3>3, <3>5
  <2> QED BY <2>1, <2>2
<1>9. Registered'
  <2> SUFFICES ASSUME NEW e \in Admins,
                      (/\ admin[e].at = "committing" /\ admin[e].kind # "update"
                       /\ admin[e].mine.status = "active"
                       /\ ~Lost(admin[e].id)
                       /\ Exists(bots[admin[e].id]))'
               PROVE  (webhook[admin[e].mine.token.bot] = admin[e].id)'
      BY DEF Registered
  <2>1. CASE e = a
    BY <1>1, <1>4, <2>1
  <2>2. CASE e # a
    <3>1. admin'[e] = admin[e] /\ admin[e].id \in Integrations /\ admin[e].mine.token.bot \in TelegramBots
      BY <1>0, <1>4, <2>2, RequestTyped
    <3>2. CASE admin[e].id # c.id
      BY <1>1, <1>2, <2>2, <3>1, <3>2, OthersReached
    <3>3. CASE admin[e].id = c.id
      <4>1. ~Lost(admin[e].id)
        BY <1>1, <1>3, <1>4, <3>1 DEF Lost
      <4>2. webhook[admin[e].mine.token.bot] = admin[e].id
        BY <1>1, <3>1, <4>1 DEF BotInv, Registered
      <4> QED BY <1>1, <1>3, <3>1, <3>3, <4>2
    <3> QED BY <3>2, <3>3
  <2> QED BY <2>1, <2>2
<1> QED BY <1>5, <1>6, <1>8, <1>9 DEF BotInv

\* deleteWebhook.
LEMMA UnhookStep ==
  ASSUME BotInv, NEW a \in Admins, Unhook(a)
  PROVE  BotInv'
<1> DEFINE c == admin[a]
           b == admin[a].mine.token.bot
           d == [c EXCEPT !.at = "removing"]
<1>0. BotShapes
  BY DEF BotInv
<1>1. c.at = "unhooking" /\ bots' = bots /\ newest' = newest
  BY DEF Unhook
<1>2. /\ c \in AdminRow /\ Sound(c) /\ c # NoAdmin /\ c.id \in Integrations /\ c.kind \in BotKinds
      /\ b \in TelegramBots
  BY <1>0, <1>1, RequestTyped
<1>3. PICK removed \in BOOLEAN :
        /\ webhook' = IF removed THEN [webhook EXCEPT ![b] = Nowhere] ELSE webhook
        /\ disturbed' = IF removed THEN disturbed \cup Sharing(c.id, b) ELSE disturbed
  BY DEF Unhook
<1>4. d \in AdminRow /\ Sound(d) /\ d.at = "removing" /\ d.id = c.id
  BY <1>1, <1>2 DEF AdminRow, Sound
<1>5. Put(a, d)
  BY <1>0 DEF Put, Unhook, BotShapes
<1> HIDE DEF d
<1>6. admin'[a] = d /\ \A e \in Admins : e # a => admin'[e] = admin[e]
  BY <1>0, <1>5, PutDoes
<1>7. webhook' \in [TelegramBots -> Integrations \cup {Nowhere}] /\ disturbed' \subseteq Integrations
  BY <1>0, <1>2, <1>3 DEF BotShapes, Sharing
<1>8. Called(a, b, d)
  BY <1>0, <1>2, <1>3, <1>5 DEF Called, BotShapes
<1>9. (BotTypeOK /\ BotShapes)'
  BY <1>0, <1>1, <1>4, <1>5, <1>7, ShapesPut DEF BotShapes
<1>10. Fresh'
  BY <1>1, <1>2, <1>4, <1>5, FreshStays
<1>11. \A i \in Integrations : i = c.id => Lost(i)'
  BY <1>4, <1>6 DEF Lost
<1>12. Reached'
  <2> SUFFICES ASSUME NEW i \in Integrations,
                      (bots[i].status = "active" /\ ~Lost(i) /\ ~Pending(i))'
               PROVE  (webhook[bots[i].token.bot] = i)'
      BY DEF Reached
  <2>1. i # c.id
    BY <1>11
  <2> QED BY <1>1, <1>2, <1>4, <1>8, <2>1, OthersReached
<1>13. Registered'
  <2> SUFFICES ASSUME NEW e \in Admins,
                      (/\ admin[e].at = "committing" /\ admin[e].kind # "update"
                       /\ admin[e].mine.status = "active"
                       /\ ~Lost(admin[e].id)
                       /\ Exists(bots[admin[e].id]))'
               PROVE  (webhook[admin[e].mine.token.bot] = admin[e].id)'
      BY DEF Registered
  <2>1. e # a /\ admin'[e] = admin[e]
    BY <1>4, <1>6
  <2>2. admin[e].id \in Integrations
    BY <1>0, <2>1, RequestTyped
  <2>3. admin[e].id # c.id
    BY <1>11, <2>1, <2>2
  <2> QED BY <1>1, <1>2, <1>4, <1>8, <2>1, <2>2, <2>3, OthersReached
<1> QED BY <1>9, <1>10, <1>12, <1>13 DEF BotInv

\* What the commit may do: fail, which only a rotation does while the row is there, or write the
\* columns the request has changed.
LEMMA CommitDoes ==
  ASSUME BotShapes, NEW a \in Admins, CommitBot(a)
  PROVE  LET c == admin[a]
         IN /\ c.at = "committing" /\ Put(a, NoAdmin) /\ UNCHANGED <<webhook, newest>>
            /\ disturbed \subseteq disturbed' /\ disturbed' \subseteq Integrations
            /\ bots' \in [Integrations -> BotRow]
            /\ \A i \in Integrations : i # c.id => bots'[i] = bots[i]
            /\ \/ bots' = bots /\ (Exists(bots[c.id]) => c.kind = "rotate")
               \/ /\ Exists(bots[c.id])
                  /\ bots'[c.id].status =
                       IF c.mine.status # c.base.status THEN c.mine.status ELSE bots[c.id].status
                  /\ bots'[c.id].token = IF c.kind = "rotate" THEN c.mine.token ELSE bots[c.id].token
                  /\ bots[c.id] # c.base /\ c.kind # "update" => c.id \in disturbed'
<1> DEFINE c == admin[a]
           row == bots[c.id]
<1>1. c.at = "committing" /\ UNCHANGED <<webhook, newest>>
  BY DEF CommitBot
<1>2. Put(a, NoAdmin)
  BY DEF CommitBot, Close, Put
<1>3. /\ c \in AdminRow /\ Sound(c) /\ c.id \in Integrations
      /\ c.base \in FullRow /\ c.mine \in FullRow
  BY <1>1, RequestTyped
<1>4. CASE ~Exists(row) \/ (c.mine.hash # c.base.hash /\ Connected(c.id, c.mine.hash))
  <2>1. UNCHANGED <<bots, disturbed>>
    BY <1>4 DEF CommitBot
  <2>2. Exists(row) => c.kind = "rotate"
    BY <1>3, <1>4 DEF Sound
  <2> QED BY <1>1, <1>2, <2>1, <2>2 DEF BotShapes
<1>5. CASE ~(~Exists(row) \/ (c.mine.hash # c.base.hash /\ Connected(c.id, c.mine.hash)))
  <2> DEFINE new == [ status |-> IF c.mine.status # c.base.status THEN c.mine.status ELSE row.status,
                      token  |-> IF c.kind = "rotate" THEN c.mine.token ELSE row.token,
                      hash   |-> IF c.mine.hash # c.base.hash THEN c.mine.hash ELSE row.hash ]
  <2>1. /\ bots' = [bots EXCEPT ![c.id] = new]
        /\ disturbed' = IF row # c.base /\ c.kind # "update" THEN disturbed \cup {c.id} ELSE disturbed
    BY <1>5 DEF CommitBot
  <2>2. Exists(row) /\ row \in FullRow
    BY <1>3, <1>5, FullRows DEF BotShapes
  <2>3. new \in FullRow
    BY <1>3, <2>2 DEF FullRow
  <2>4. new.status = (IF c.mine.status # c.base.status THEN c.mine.status ELSE row.status)
        /\ new.token = (IF c.kind = "rotate" THEN c.mine.token ELSE row.token)
    OBVIOUS
  <2> HIDE DEF new
  <2>5. /\ bots' \in [Integrations -> BotRow] /\ bots'[c.id] = new
        /\ \A i \in Integrations : i # c.id => bots'[i] = bots[i]
    BY <1>3, <2>1, <2>3, FullRows DEF BotShapes
  <2>6. /\ disturbed \subseteq disturbed' /\ disturbed' \subseteq Integrations
        /\ row # c.base /\ c.kind # "update" => c.id \in disturbed'
    BY <1>3, <2>1 DEF BotShapes
  <2> QED BY <1>1, <1>2, <2>2, <2>4, <2>5, <2>6
<1> QED BY <1>4, <1>5

LEMMA CommitBotStep ==
  ASSUME BotInv, NEW a \in Admins, CommitBot(a)
  PROVE  BotInv'
<1> DEFINE c == admin[a]
<1>0. BotShapes
  BY DEF BotInv
<1>1. /\ c.at = "committing" /\ Put(a, NoAdmin) /\ UNCHANGED <<webhook, newest>>
      /\ disturbed \subseteq disturbed' /\ disturbed' \subseteq Integrations
      /\ bots' \in [Integrations -> BotRow]
      /\ \A i \in Integrations : i # c.id => bots'[i] = bots[i]
      /\ \/ bots' = bots /\ (Exists(bots[c.id]) => c.kind = "rotate")
         \/ /\ Exists(bots[c.id])
            /\ bots'[c.id].status =
                 IF c.mine.status # c.base.status THEN c.mine.status ELSE bots[c.id].status
            /\ bots'[c.id].token = IF c.kind = "rotate" THEN c.mine.token ELSE bots[c.id].token
            /\ bots[c.id] # c.base /\ c.kind # "update" => c.id \in disturbed'
  BY <1>0, CommitDoes
<1>2. /\ c # NoAdmin /\ c.id \in Integrations /\ Sound(c)
      /\ c.base \in FullRow /\ c.mine \in FullRow
  BY <1>0, <1>1, RequestTyped
<1>3. admin'[a] = NoAdmin /\ \A e \in Admins : e # a => admin'[e] = admin[e]
  BY <1>0, <1>1, PutDoes
<1>4. (BotTypeOK /\ BotShapes)'
  BY <1>0, <1>1, ShapesPut DEF BotShapes
<1>5. Fresh'
  BY <1>1, <1>2, FreshStays, NoAdminIs
<1>6. \A i \in Integrations : ~Lost(i)' => ~Lost(i) /\ i \notin disturbed'
  BY <1>1, <1>3 DEF Lost
<1>7. \A i \in Integrations : ~Pending(i)' => ~Pending(i) \/ (i = c.id /\ c.kind = "create")
  BY <1>3 DEF Pending
<1>8. Reached'
  <2> SUFFICES ASSUME NEW i \in Integrations,
                      (bots[i].status = "active" /\ ~Lost(i) /\ ~Pending(i))'
               PROVE  (webhook[bots[i].token.bot] = i)'
      BY DEF Reached
  <2>1. ~Lost(i) /\ i \notin disturbed' /\ webhook' = webhook
    BY <1>1, <1>6
  <2>2. CASE i # c.id
    BY <1>1, <1>7, <2>1, <2>2 DEF BotInv, Reached
  <2>3. CASE i = c.id /\ bots' = bots /\ (Exists(bots[c.id]) => c.kind = "rotate")
    <3>1. c.kind = "rotate"
      BY <2>3 DEF Exists
    <3>2. ~Pending(i)
      BY <1>7, <3>1
    <3> QED BY <2>1, <2>3, <3>2 DEF BotInv, Reached
  <2>4. CASE /\ i = c.id /\ Exists(bots[c.id])
             /\ bots'[c.id].status =
                  IF c.mine.status # c.base.status THEN c.mine.status ELSE bots[c.id].status
             /\ bots'[c.id].token = IF c.kind = "rotate" THEN c.mine.token ELSE bots[c.id].token
             /\ bots[c.id] # c.base /\ c.kind # "update" => c.id \in disturbed'
    <3>1. CASE c.kind = "update"
      <4>1. c.mine = c.base
        BY <1>2, <3>1 DEF Sound
      <4>2. bots'[i].status = bots[i].status /\ bots'[i].token = bots[i].token
        BY <2>4, <3>1, <4>1
      <4>3. ~Pending(i)
        BY <1>7, <3>1
      <4> QED BY <2>1, <4>2, <4>3 DEF BotInv, Reached
    <3>2. CASE c.kind # "update"
      <4>1. bots[i] = c.base
        BY <2>1, <2>4, <3>2
      <4>2. c.mine.status = "active"
        BY <2>4, <4>1
      <4>3. bots'[i].token = c.mine.token
        BY <1>2, <2>4, <4>1 DEF Sound
      <4>4. webhook[c.mine.token.bot] = c.id
        BY <1>1, <2>1, <2>4, <3>2, <4>2 DEF BotInv, Registered
      <4> QED BY <2>1, <2>4, <4>3, <4>4
    <3> QED BY <3>1, <3>2
  <2> QED BY <1>1, <2>2, <2>3, <2>4
<1>9. Registered'
  <2> SUFFICES ASSUME NEW e \in Admins,
                      (/\ admin[e].at = "committing" /\ admin[e].kind # "update"
                       /\ admin[e].mine.status = "active"
                       /\ ~Lost(admin[e].id)
                       /\ Exists(bots[admin[e].id]))'
               PROVE  (webhook[admin[e].mine.token.bot] = admin[e].id)'
      BY DEF Registered
  <2>1. e # a /\ admin'[e] = admin[e]
    BY <1>3, NoAdminIs
  <2>2. admin[e].id \in Integrations
    BY <1>0, <2>1, RequestTyped
  <2>3. ~Lost(admin[e].id)
    BY <1>6, <2>1, <2>2
  <2>4. Exists(bots[admin[e].id])
    <3>1. CASE admin[e].id # c.id
      BY <1>1, <2>1, <2>2, <3>1 DEF Exists
    <3>2. CASE admin[e].id = c.id
      BY <1>1, <2>1, <3>2
    <3> QED BY <3>1, <3>2
  <2> QED BY <1>1, <2>1, <2>3, <2>4 DEF BotInv, Registered
<1> QED BY <1>4, <1>5, <1>8, <1>9 DEF BotInv

\* A row is gone, or its request ends, and no webhook changes.
LEMMA RemoveStep ==
  ASSUME BotInv, NEW a \in Admins, RemoveBot(a)
  PROVE  BotInv'
<1> DEFINE c == admin[a]
<1>0. BotShapes
  BY DEF BotInv
<1>1. /\ c.at = "removing" /\ Put(a, NoAdmin) /\ UNCHANGED <<webhook, newest, disturbed>>
      /\ bots' = [bots EXCEPT ![c.id] = [status |-> "deleted"]]
  BY DEF RemoveBot, Close, Put
<1>2. c # NoAdmin /\ c.id \in Integrations /\ c.kind = "delete"
  BY <1>0, <1>1, RequestTyped DEF Sound
<1>3. admin'[a] = NoAdmin /\ \A e \in Admins : e # a => admin'[e] = admin[e]
  BY <1>0, <1>1, PutDoes
<1>4. /\ bots' \in [Integrations -> BotRow] /\ bots'[c.id].status = "deleted"
      /\ \A i \in Integrations : i # c.id => bots'[i] = bots[i]
  BY <1>0, <1>1, <1>2 DEF BotShapes, BotRow
<1>5. (BotTypeOK /\ BotShapes)'
  BY <1>0, <1>1, <1>4, ShapesPut DEF BotShapes
<1>6. Fresh'
  BY <1>1, <1>2, <1>4, FreshStays, NoAdminIs
<1>7. \A i \in Integrations : i # c.id => (Lost(i)' <=> Lost(i)) /\ (Pending(i)' <=> Pending(i))
  BY <1>1, <1>2, <1>3, NoAdminIs, BotAssumption DEF Lost, Pending
<1>8. Reached'
  BY <1>1, <1>4, <1>7 DEF BotInv, Reached
<1>9. Registered'
  <2> SUFFICES ASSUME NEW e \in Admins,
                      (/\ admin[e].at = "committing" /\ admin[e].kind # "update"
                       /\ admin[e].mine.status = "active"
                       /\ ~Lost(admin[e].id)
                       /\ Exists(bots[admin[e].id]))'
               PROVE  (webhook[admin[e].mine.token.bot] = admin[e].id)'
      BY DEF Registered
  <2>1. e # a /\ admin'[e] = admin[e]
    BY <1>3, NoAdminIs
  <2>2. admin[e].id \in Integrations
    BY <1>0, <2>1, RequestTyped
  <2>3. admin[e].id # c.id
    BY <1>4, <2>1 DEF Exists
  <2>4. ~Lost(admin[e].id) /\ Exists(bots[admin[e].id])
    BY <1>4, <1>7, <2>1, <2>2, <2>3 DEF Exists
  <2> QED BY <1>1, <2>1, <2>4 DEF BotInv, Registered
<1> QED BY <1>5, <1>6, <1>8, <1>9 DEF BotInv

LEMMA DiesStep ==
  ASSUME BotInv, NEW a \in Admins, AdminDies(a)
  PROVE  BotInv'
<1> DEFINE c == admin[a]
<1>0. BotShapes
  BY DEF BotInv
<1>1. /\ c # NoAdmin /\ Put(a, NoAdmin) /\ UNCHANGED <<bots, webhook, newest>>
      /\ disturbed' = IF c.kind \in {"create", "delete"} THEN disturbed \cup {c.id} ELSE disturbed
  BY DEF AdminDies, Close, Put
<1>2. c.id \in Integrations /\ Sound(c)
  BY <1>0, <1>1, RequestTyped
<1>3. admin'[a] = NoAdmin /\ \A e \in Admins : e # a => admin'[e] = admin[e]
  BY <1>0, <1>1, PutDoes
<1>4. (BotTypeOK /\ BotShapes)'
  BY <1>0, <1>1, <1>2, ShapesPut DEF BotShapes
<1>5. Fresh'
  BY <1>1, FreshStays, NoAdminIs
<1>6. \A i \in Integrations : ~Lost(i)' => ~Lost(i) /\ i \notin disturbed'
  BY <1>1, <1>2, <1>3 DEF Lost, Sound
<1>7. \A i \in Integrations : ~Lost(i)' /\ ~Pending(i)' => ~Pending(i)
  BY <1>1, <1>3, <1>6 DEF Pending
<1>8. Reached'
  BY <1>1, <1>6, <1>7 DEF BotInv, Reached
<1>9. Registered'
  <2> SUFFICES ASSUME NEW e \in Admins,
                      (/\ admin[e].at = "committing" /\ admin[e].kind # "update"
                       /\ admin[e].mine.status = "active"
                       /\ ~Lost(admin[e].id)
                       /\ Exists(bots[admin[e].id]))'
               PROVE  (webhook[admin[e].mine.token.bot] = admin[e].id)'
      BY DEF Registered
  <2>1. e # a /\ admin'[e] = admin[e]
    BY <1>3, NoAdminIs
  <2>2. admin[e].id \in Integrations
    BY <1>0, <2>1, RequestTyped
  <2>3. ~Lost(admin[e].id)
    BY <1>6, <2>1, <2>2
  <2> QED BY <1>1, <2>1, <2>3 DEF BotInv, Registered
<1> QED BY <1>4, <1>5, <1>8, <1>9 DEF BotInv

(***************************************************************************)
(* The invariant, and what follows from it.                                 *)
(***************************************************************************)

LEMMA CascadeStep ==
  ASSUME BotInv, NEW i \in Integrations, CascadeDelete(i)
  PROVE  BotInv'
<1>1. /\ Exists(bots[i]) /\ bots' = [bots EXCEPT ![i] = [status |-> "deleted"]]
      /\ UNCHANGED <<webhook, newest, admin, disturbed>>
  BY DEF CascadeDelete
<1>2. /\ bots' \in [Integrations -> BotRow] /\ bots'[i].status = "deleted"
      /\ \A j \in Integrations : j # i => bots'[j] = bots[j]
  BY <1>1 DEF BotInv, BotShapes, BotRow
<1>3. BotShapes'
  BY <1>1, <1>2 DEF BotInv, BotShapes, Sound
<1>4. BotTypeOK'
  BY <1>3, BotShapesSuffice, PTL
<1>5. Fresh'
  <2>1. \A a \in Admins : admin[a].at = "inserting" => admin[a].id \in Integrations
    BY RequestTyped DEF BotInv
  <2> QED BY <1>1, <1>2, <2>1 DEF BotInv, Fresh, Exists
<1>6. \A j \in Integrations : (Lost(j)' <=> Lost(j)) /\ (Pending(j)' <=> Pending(j))
  BY <1>1 DEF Lost, Pending
<1>7. Reached'
  BY <1>1, <1>2, <1>6 DEF BotInv, Reached
<1>8. Registered'
  <2>1. \A a \in Admins : admin[a].at = "committing" => admin[a].id \in Integrations
    BY RequestTyped DEF BotInv
  <2> QED BY <1>1, <1>2, <1>6, <2>1 DEF BotInv, Registered, Exists
<1> QED BY <1>3, <1>4, <1>5, <1>7, <1>8 DEF BotInv

LEMMA RevokeStep ==
  ASSUME BotInv, NEW b \in TelegramBots, RevokeToken(b)
  PROVE  BotInv'
<1>1. /\ newest[b] < MaxRevocations /\ newest' = [newest EXCEPT ![b] = newest[b] + 1]
      /\ UNCHANGED <<bots, webhook, admin, disturbed>>
  BY DEF RevokeToken
<1>2. newest' \in [TelegramBots -> 0..MaxRevocations]
  BY <1>1, BotAssumption DEF BotInv, BotShapes
<1>3. BotShapes'
  BY <1>1, <1>2 DEF BotInv, BotShapes, Sound
<1>4. BotTypeOK'
  BY <1>3, BotShapesSuffice, PTL
<1>5. Fresh' /\ Reached' /\ Registered'
  BY <1>1 DEF BotInv, Fresh, Reached, Registered, Lost, Pending, Exists
<1> QED BY <1>3, <1>4, <1>5 DEF BotInv

LEMMA BotStep ==
  ASSUME BotInv, NextBot \/ UNCHANGED botVars
  PROVE  BotInv'
<1>1. ASSUME NEW a \in Admins, NEW i \in Integrations,
             \/ \E t \in Token : CreateBot(a, i, t) \/ RotateToken(a, i, t)
             \/ EnableBot(a, i) \/ DisableBot(a, i) \/ DeleteBot(a, i) \/ UpdateBot(a, i) \/ SyncBot(a, i)
      PROVE  BotInv'
  BY <1>1, OpenedStep
<1>2. ASSUME NEW a \in Admins,
             \/ InsertBot(a) \/ Register(a) \/ CommitBot(a)
             \/ Unhook(a) \/ RemoveBot(a) \/ AdminDies(a)
      PROVE  BotInv'
  BY <1>2, InsertStep, RegisterStep, CommitBotStep, UnhookStep, RemoveStep, DiesStep
<1>3. CASE UNCHANGED botVars
  BY <1>3 DEF BotInv, BotTypeOK, BotShapes, Fresh, Reached, Registered, Lost, Pending, Exists,
       Sound, botVars
<1> QED BY <1>1, <1>2, <1>3, CascadeStep, RevokeStep DEF NextBot

LEMMA BotsReached == BotInv => ActiveIsReached
<1> SUFFICES ASSUME BotInv, NEW i \in Integrations, bots[i].status = "active",
                    \A a \in Admins : admin[a].id # i, i \notin disturbed
             PROVE  webhook[bots[i].token.bot] = i
    BY DEF ActiveIsReached
<1>1. ~Lost(i) /\ ~Pending(i)
  BY DEF Lost, Pending
<1> QED BY <1>1 DEF BotInv, Reached

\* Rows, webhooks and requests keep their shape.  (services/bot_integration_service.py)
THEOREM BotTypesHold == BotSpec => []BotTypeOK
<1>1. BotInv => BotTypeOK
  BY DEF BotInv
<1> QED BY <1>1, BotStart, BotStep, PTL DEF BotSpec

\* An integration shown as "active" gets its bot's updates, unless something the code does not
\* handle happened to it.  (register_webhook and its callers)
THEOREM ActiveStays == BotSpec => []ActiveIsReached
BY BotStart, BotStep, BotsReached, PTL DEF BotSpec

(***************************************************************************)
(* Documents: rows and files agree. The strengthening follows one document *)
(* from its upload to its deletion: who may still write its file, who may  *)
(* still insert its row, and what the deletion of the project does to those*)
(* that are under way.                                                     *)
(***************************************************************************)

\* A request is about a document whose upload has begun, and uploads are about different ones.
KnownDocuments ==
  /\ \A s \in Slots : work[s].kind \in {"upload", "delete"} => work[s].doc \in uploaded
  /\ \A s \in Slots :
       work[s].kind = "upload"
       => work[s].at \in {"received", "checked", "opening", "saved", "inserted"}
  /\ \A s, t \in Slots :
       s # t /\ work[s].kind = "upload" /\ work[t].kind = "upload" => work[s].doc # work[t].doc

LibraryTypes == LibraryTypeOK /\ KnownDocuments

\* Until its row is inserted a document is in no list, and nobody deletes it.
NotYetListed ==
  \A s \in Slots :
    work[s].kind = "upload" /\ work[s].at \in {"received", "checked", "opening", "saved"}
    => /\ work[s].doc \notin assets
       /\ \A t \in Slots : work[t].kind = "delete" => work[t].doc # work[s].doc

\* A file is there from the moment it is saved to the moment it is deleted.
FilesInTime ==
  \A s \in Slots :
    /\ work[s].kind = "upload" /\ work[s].at \in {"received", "checked", "opening"}
       => work[s].doc \notin files
    /\ At(s, "delete", "emptied") => work[s].doc \notin files

\* The project is being emptied, in the form of a quantifier.
Emptying == \E s \in Slots : At(s, "delete_project", "emptied")

\* Once the project is being emptied every file is that of an upload that overlaps it.
Leaving ==
  Emptying \/ ~project
  => /\ \A s \in Slots : work[s].kind = "upload" => work[s].doc \in overlapped
     /\ files \subseteq overlapped

\* An upload about to insert its row has its file, unless a deletion of the project took it; one
\* that has inserted it is listed, unless a deletion took the row, and the file before it.
UploadsHold ==
  \A s \in Slots :
    /\ At(s, "upload", "saved")
       => work[s].doc \in files \/ work[s].doc \in botched \/ Emptying \/ ~project
    /\ At(s, "upload", "inserted")
       => work[s].doc \notin files \/ work[s].doc \in assets \/ work[s].doc \in overlapped

\* RowsAndFilesAgree, document by document.
Agreement ==
  /\ \A d \in assets :
       \/ d \in files \/ d \in botched \/ Emptying
       \/ \E s \in Slots : At(s, "delete", "emptied") /\ work[s].doc = d
  /\ \A d \in files :
       \/ d \in assets \/ d \in overlapped
       \/ \E s \in Slots : work[s].kind = "upload" /\ work[s].doc = d
  /\ ~project => assets = {}

LibraryInv ==
  /\ LibraryTypes
  /\ NotYetListed
  /\ FilesInTime
  /\ Leaving
  /\ UploadsHold
  /\ Agreement

(***************************************************************************)
(* What a step does to the requests.                                        *)
(***************************************************************************)

OtherSlots(s) == \A t \in Slots : t # s => work'[t] = work[t]

SlotMoved(s, stage) ==
  /\ OtherSlots(s)
  /\ work'[s].kind = work[s].kind /\ work'[s].doc = work[s].doc /\ work'[s].at = stage

SlotEnded(s) == OtherSlots(s) /\ work'[s].kind = "none" /\ work'[s].at = "idle"

SlotBegan(s, kind, d, stage) ==
  OtherSlots(s) /\ work'[s].kind = kind /\ work'[s].doc = d /\ work'[s].at = stage

LEMMA ReceiveUploadDoes ==
  ASSUME LibraryTypes, NEW s \in Slots, NEW d \in Documents, ReceiveUpload(s, d)
  PROVE  /\ work[s].kind = "none" /\ project /\ d \notin uploaded
         /\ SlotBegan(s, "upload", d, "received")
         /\ uploaded' = uploaded \cup {d}
         /\ overlapped' = IF Emptied THEN overlapped \cup {d} ELSE overlapped
         /\ UNCHANGED <<project, files, assets, botched>>
BY DEF ReceiveUpload, LibraryTypes, LibraryTypeOK, Work, NoWork, Proceed, Answer, At,
       SlotMoved, SlotEnded, SlotBegan, OtherSlots

LEMMA FindDocumentDoes ==
  ASSUME LibraryTypes, NEW s \in Slots, NEW d \in Documents, FindDocument(s, d)
  PROVE  /\ work[s].kind = "none" /\ d \in assets
         /\ SlotBegan(s, "delete", d, "found")
         /\ UNCHANGED <<project, files, assets, uploaded, botched, overlapped>>
BY DEF FindDocument, LibraryTypes, LibraryTypeOK, Work, NoWork, Proceed, Answer, At,
       SlotMoved, SlotEnded, SlotBegan, OtherSlots

LEMMA ValidateUploadDoes ==
  ASSUME LibraryTypes, NEW s \in Slots, ValidateUpload(s)
  PROVE  /\ At(s, "upload", "received")
         /\ SlotMoved(s, "checked") \/ SlotEnded(s)
         /\ UNCHANGED <<project, files, assets, uploaded, botched, overlapped>>
BY DEF ValidateUpload, LibraryTypes, LibraryTypeOK, Work, NoWork, Proceed, Answer, At,
       SlotMoved, SlotEnded, SlotBegan, OtherSlots

LEMMA MakeDirectoryDoes ==
  ASSUME LibraryTypes, NEW s \in Slots, MakeDirectory(s)
  PROVE  /\ At(s, "upload", "checked")
         /\ SlotMoved(s, "opening")
         /\ UNCHANGED <<project, files, assets, uploaded, botched, overlapped>>
BY DEF MakeDirectory, LibraryTypes, LibraryTypeOK, Work, NoWork, Proceed, Answer, At,
       SlotMoved, SlotEnded, SlotBegan, OtherSlots

LEMMA SaveFileDoes ==
  ASSUME LibraryTypes, NEW s \in Slots, SaveFile(s)
  PROVE  /\ At(s, "upload", "opening")
         /\ \/ SlotMoved(s, "saved") /\ files' = files \cup {work[s].doc}
            \/ SlotEnded(s) /\ files' = files
         /\ UNCHANGED <<project, assets, uploaded, botched, overlapped>>
BY DEF SaveFile, LibraryTypes, LibraryTypeOK, Work, NoWork, Proceed, Answer, At,
       SlotMoved, SlotEnded, SlotBegan, OtherSlots

LEMMA InsertAssetDoes ==
  ASSUME LibraryTypes, NEW s \in Slots, InsertAsset(s)
  PROVE  /\ At(s, "upload", "saved")
         /\ \/ project /\ SlotMoved(s, "inserted") /\ assets' = assets \cup {work[s].doc}
               /\ overlapped' = overlapped
            \/ ~project /\ SlotEnded(s) /\ assets' = assets
               /\ overlapped' = overlapped \cup {work[s].doc}
         /\ UNCHANGED <<project, files, uploaded, botched>>
BY DEF InsertAsset, LibraryTypes, LibraryTypeOK, Work, NoWork, Proceed, Answer, At,
       SlotMoved, SlotEnded, SlotBegan, OtherSlots

LEMMA DispatchProcessingDoes ==
  ASSUME LibraryTypes, NEW s \in Slots, DispatchProcessing(s)
  PROVE  /\ At(s, "upload", "inserted")
         /\ SlotEnded(s)
         /\ UNCHANGED <<project, files, assets, uploaded, botched, overlapped>>
BY DEF DispatchProcessing, LibraryTypes, LibraryTypeOK, Work, NoWork, Proceed, Answer, At,
       SlotMoved, SlotEnded, SlotBegan, OtherSlots

LEMMA DeleteFileDoes ==
  ASSUME LibraryTypes, NEW s \in Slots, DeleteFile(s)
  PROVE  /\ At(s, "delete", "found")
         /\ SlotMoved(s, "emptied")
         /\ files' = files \ {work[s].doc}
         /\ UNCHANGED <<project, assets, uploaded, botched, overlapped>>
BY DEF DeleteFile, LibraryTypes, LibraryTypeOK, Work, NoWork, Proceed, Answer, At,
       SlotMoved, SlotEnded, SlotBegan, OtherSlots

LEMMA DeleteAssetDoes ==
  ASSUME LibraryTypes, NEW s \in Slots, DeleteAsset(s)
  PROVE  /\ At(s, "delete", "emptied")
         /\ SlotEnded(s)
         /\ assets' = assets \ {work[s].doc}
         /\ UNCHANGED <<project, files, uploaded, botched, overlapped>>
BY DEF DeleteAsset, LibraryTypes, LibraryTypeOK, Work, NoWork, Proceed, Answer, At,
       SlotMoved, SlotEnded, SlotBegan, OtherSlots

LEMMA FindProjectDoes ==
  ASSUME LibraryTypes, NEW s \in Slots, FindProject(s)
  PROVE  /\ work[s].kind = "none"
         /\ SlotBegan(s, "delete_project", NoDocument, "found")
         /\ UNCHANGED <<project, files, assets, uploaded, botched, overlapped>>
BY DEF FindProject, LibraryTypes, LibraryTypeOK, Work, NoWork, Proceed, Answer, At,
       SlotMoved, SlotEnded, SlotBegan, OtherSlots

LEMMA DeleteProjectFilesDoes ==
  ASSUME LibraryTypes, NEW s \in Slots, DeleteProjectFiles(s)
  PROVE  /\ At(s, "delete_project", "found")
         /\ SlotMoved(s, "emptied")
         /\ files' = {} /\ overlapped \subseteq overlapped'
         /\ overlapped' \subseteq Documents
         /\ \A t \in Slots : work[t].kind = "upload" => work[t].doc \in overlapped'
         /\ UNCHANGED <<project, assets, uploaded, botched>>
BY DEF DeleteProjectFiles, LibraryTypes, LibraryTypeOK, Work, NoWork, Proceed, Answer, At,
       SlotMoved, SlotEnded, SlotBegan, OtherSlots, Uploading

LEMMA TreeRemainsDoes ==
  ASSUME LibraryTypes, NEW s \in Slots, TreeRemains(s)
  PROVE  /\ At(s, "delete_project", "found")
         /\ SlotEnded(s)
         /\ files' \subseteq files /\ botched' = botched \cup (Documents \ files')
         /\ UNCHANGED <<project, assets, uploaded, overlapped>>
BY DEF TreeRemains, LibraryTypes, LibraryTypeOK, Work, NoWork, Proceed, Answer, At,
       SlotMoved, SlotEnded, SlotBegan, OtherSlots

LEMMA DeleteProjectDoes ==
  ASSUME LibraryTypes, NEW s \in Slots, DeleteProject(s)
  PROVE  /\ At(s, "delete_project", "emptied")
         /\ SlotEnded(s)
         /\ ~project' /\ assets' = {}
         /\ UNCHANGED <<files, uploaded, botched, overlapped>>
BY DEF DeleteProject, LibraryTypes, LibraryTypeOK, Work, NoWork, Proceed, Answer, At,
       SlotMoved, SlotEnded, SlotBegan, OtherSlots

LEMMA RequestFailsDoes ==
  ASSUME LibraryTypes, NEW s \in Slots, RequestFails(s)
  PROVE  /\ SlotEnded(s)
         /\ botched \subseteq botched' /\ overlapped \subseteq overlapped'
         /\ At(s, "delete", "emptied") => work[s].doc \in botched'
         /\ At(s, "delete_project", "emptied") => Documents \ files \subseteq botched'
         /\ At(s, "upload", "saved") => work[s].doc \in overlapped'
         /\ UNCHANGED <<project, files, assets, uploaded>>
BY DEF RequestFails, LibraryTypes, LibraryTypeOK, Work, NoWork, Proceed, Answer, At,
       SlotMoved, SlotEnded, SlotBegan, OtherSlots

LEMMA EmptiedIs == (Emptied <=> Emptying) /\ (Emptied' <=> Emptying')
BY DEF Emptied, Emptying, Doing, At

LEMMA AgreementSuffices == Agreement => RowsAndFilesAgree
BY EmptiedIs DEF Agreement, RowsAndFilesAgree, Doing, At, Uploading

LEMMA LibraryStart == InitLibrary => LibraryInv
<1> SUFFICES ASSUME InitLibrary PROVE LibraryInv
    OBVIOUS
<1> USE LibraryAssumption DEF InitLibrary, NoWork
<1>1. LibraryTypes
  BY DEF LibraryTypes, LibraryTypeOK, KnownDocuments, Work
<1>2. NotYetListed /\ FilesInTime /\ Leaving /\ UploadsHold
  BY DEF NotYetListed, FilesInTime, Leaving, UploadsHold, At, Emptying
<1>3. Agreement
  BY DEF Agreement
<1> QED BY <1>1, <1>2, <1>3 DEF LibraryInv

\* The types.
LEMMA TypeStep == LibraryTypes /\ [NextLibrary]_libraryVars => LibraryTypeOK'
<1> SUFFICES ASSUME LibraryTypes, [NextLibrary]_libraryVars
             PROVE  LibraryTypeOK'
    OBVIOUS
<1> USE LibraryAssumption DEF LibraryTypes, LibraryTypeOK, KnownDocuments, Work, NoWork, At,
          Proceed, Answer
<1>1. CASE UNCHANGED libraryVars
  BY <1>1 DEF libraryVars
<1>2. ASSUME NEW s \in Slots, NEW d \in Documents, ReceiveUpload(s, d) PROVE LibraryTypeOK'
  BY <1>2 DEF ReceiveUpload
<1>3. ASSUME NEW s \in Slots, NEW d \in Documents, FindDocument(s, d) PROVE LibraryTypeOK'
  BY <1>3 DEF FindDocument
<1>4. ASSUME NEW s \in Slots, ValidateUpload(s) PROVE LibraryTypeOK'
  BY <1>4 DEF ValidateUpload
<1>5. ASSUME NEW s \in Slots, MakeDirectory(s) PROVE LibraryTypeOK'
  BY <1>5 DEF MakeDirectory
<1>6. ASSUME NEW s \in Slots, SaveFile(s) PROVE LibraryTypeOK'
  BY <1>6 DEF SaveFile
<1>7. ASSUME NEW s \in Slots, InsertAsset(s) PROVE LibraryTypeOK'
  BY <1>7 DEF InsertAsset
<1>8. ASSUME NEW s \in Slots, DispatchProcessing(s) PROVE LibraryTypeOK'
  BY <1>8 DEF DispatchProcessing
<1>9. ASSUME NEW s \in Slots, DeleteFile(s) PROVE LibraryTypeOK'
  BY <1>9 DEF DeleteFile
<1>10. ASSUME NEW s \in Slots, DeleteAsset(s) PROVE LibraryTypeOK'
  BY <1>10 DEF DeleteAsset
<1>11. ASSUME NEW s \in Slots, FindProject(s) PROVE LibraryTypeOK'
  BY <1>11 DEF FindProject
<1>12. ASSUME NEW s \in Slots, DeleteProjectFiles(s) PROVE LibraryTypeOK'
  <2>1. work' \in [Slots -> Work]
    BY <1>12 DEF DeleteProjectFiles
  <2>2. /\ overlapped' \subseteq Documents /\ files' = {}
        /\ UNCHANGED <<project, assets, uploaded, botched>>
    BY <1>12, DeleteProjectFilesDoes
  <2>3. directory' = FALSE /\ dispatched' = dispatched
    BY <1>12 DEF DeleteProjectFiles
  <2>4. \A t \in Slots : work'[t].kind = "upload" => work'[t].doc \in uploaded
    BY <1>12, DeleteProjectFilesDoes DEF SlotMoved, OtherSlots
  <2> QED BY <2>1, <2>2, <2>3, <2>4
<1>13. ASSUME NEW s \in Slots, TreeRemains(s) PROVE LibraryTypeOK'
  BY <1>13 DEF TreeRemains
<1>14. ASSUME NEW s \in Slots, DeleteProject(s) PROVE LibraryTypeOK'
  BY <1>14 DEF DeleteProject
<1>15. ASSUME NEW s \in Slots, RequestFails(s) PROVE LibraryTypeOK'
  BY <1>15 DEF RequestFails
<1>16. ASSUME NEW d \in Documents, ProcessAgain(d) PROVE LibraryTypeOK'
  BY <1>16 DEF ProcessAgain
<1> QED BY <1>1, <1>2, <1>3, <1>4, <1>5, <1>6, <1>7, <1>8, <1>9, <1>10, <1>11, <1>12, <1>13,
          <1>14, <1>15, <1>16 DEF NextLibrary

\* The documents of the requests.
LEMMA KnownStep == LibraryTypes /\ [NextLibrary]_libraryVars => KnownDocuments'
<1> SUFFICES ASSUME LibraryTypes, [NextLibrary]_libraryVars
             PROVE  KnownDocuments'
    OBVIOUS
<1> USE DEF LibraryTypes, KnownDocuments, At, OtherSlots, SlotMoved, SlotEnded, SlotBegan,
          LibraryTypeOK
<1>1. CASE UNCHANGED libraryVars
  BY <1>1 DEF libraryVars
<1>2. ASSUME NEW s \in Slots, NEW d \in Documents, ReceiveUpload(s, d) PROVE KnownDocuments'
  BY <1>2, ReceiveUploadDoes
<1>3. ASSUME NEW s \in Slots, NEW d \in Documents, FindDocument(s, d) PROVE KnownDocuments'
  BY <1>3, FindDocumentDoes
<1>4. ASSUME NEW s \in Slots, ValidateUpload(s) PROVE KnownDocuments'
  BY <1>4, ValidateUploadDoes
<1>5. ASSUME NEW s \in Slots, MakeDirectory(s) PROVE KnownDocuments'
  BY <1>5, MakeDirectoryDoes
<1>6. ASSUME NEW s \in Slots, SaveFile(s) PROVE KnownDocuments'
  BY <1>6, SaveFileDoes
<1>7. ASSUME NEW s \in Slots, InsertAsset(s) PROVE KnownDocuments'
  BY <1>7, InsertAssetDoes
<1>8. ASSUME NEW s \in Slots, DispatchProcessing(s) PROVE KnownDocuments'
  BY <1>8, DispatchProcessingDoes
<1>9. ASSUME NEW s \in Slots, DeleteFile(s) PROVE KnownDocuments'
  BY <1>9, DeleteFileDoes
<1>10. ASSUME NEW s \in Slots, DeleteAsset(s) PROVE KnownDocuments'
  BY <1>10, DeleteAssetDoes
<1>11. ASSUME NEW s \in Slots, FindProject(s) PROVE KnownDocuments'
  BY <1>11, FindProjectDoes
<1>12. ASSUME NEW s \in Slots, DeleteProjectFiles(s) PROVE KnownDocuments'
  BY <1>12, DeleteProjectFilesDoes
<1>13. ASSUME NEW s \in Slots, TreeRemains(s) PROVE KnownDocuments'
  BY <1>13, TreeRemainsDoes
<1>14. ASSUME NEW s \in Slots, DeleteProject(s) PROVE KnownDocuments'
  BY <1>14, DeleteProjectDoes
<1>15. ASSUME NEW s \in Slots, RequestFails(s) PROVE KnownDocuments'
  BY <1>15, RequestFailsDoes
<1>16. ASSUME NEW d \in Documents, ProcessAgain(d) PROVE KnownDocuments'
  BY <1>16 DEF ProcessAgain
<1> QED BY <1>1, <1>2, <1>3, <1>4, <1>5, <1>6, <1>7, <1>8, <1>9, <1>10, <1>11, <1>12, <1>13,
          <1>14, <1>15, <1>16 DEF NextLibrary

\* Only an insertion lists a document.
LEMMA ListedStep == LibraryTypes /\ NotYetListed /\ [NextLibrary]_libraryVars => NotYetListed'
<1> SUFFICES ASSUME LibraryTypes, NotYetListed, [NextLibrary]_libraryVars
             PROVE  NotYetListed'
    OBVIOUS
<1> USE DEF LibraryTypes, KnownDocuments, At, OtherSlots, SlotMoved, SlotEnded, SlotBegan,
          LibraryTypeOK, NotYetListed
<1>1. CASE UNCHANGED libraryVars
  BY <1>1 DEF libraryVars
<1>2. ASSUME NEW s \in Slots, NEW d \in Documents, ReceiveUpload(s, d) PROVE NotYetListed'
  BY <1>2, ReceiveUploadDoes
<1>3. ASSUME NEW s \in Slots, NEW d \in Documents, FindDocument(s, d) PROVE NotYetListed'
  BY <1>3, FindDocumentDoes
<1>4. ASSUME NEW s \in Slots, ValidateUpload(s) PROVE NotYetListed'
  BY <1>4, ValidateUploadDoes
<1>5. ASSUME NEW s \in Slots, MakeDirectory(s) PROVE NotYetListed'
  BY <1>5, MakeDirectoryDoes
<1>6. ASSUME NEW s \in Slots, SaveFile(s) PROVE NotYetListed'
  BY <1>6, SaveFileDoes
<1>7. ASSUME NEW s \in Slots, InsertAsset(s) PROVE NotYetListed'
  BY <1>7, InsertAssetDoes
<1>8. ASSUME NEW s \in Slots, DispatchProcessing(s) PROVE NotYetListed'
  BY <1>8, DispatchProcessingDoes
<1>9. ASSUME NEW s \in Slots, DeleteFile(s) PROVE NotYetListed'
  BY <1>9, DeleteFileDoes
<1>10. ASSUME NEW s \in Slots, DeleteAsset(s) PROVE NotYetListed'
  BY <1>10, DeleteAssetDoes
<1>11. ASSUME NEW s \in Slots, FindProject(s) PROVE NotYetListed'
  BY <1>11, FindProjectDoes
<1>12. ASSUME NEW s \in Slots, DeleteProjectFiles(s) PROVE NotYetListed'
  BY <1>12, DeleteProjectFilesDoes
<1>13. ASSUME NEW s \in Slots, TreeRemains(s) PROVE NotYetListed'
  BY <1>13, TreeRemainsDoes
<1>14. ASSUME NEW s \in Slots, DeleteProject(s) PROVE NotYetListed'
  BY <1>14, DeleteProjectDoes
<1>15. ASSUME NEW s \in Slots, RequestFails(s) PROVE NotYetListed'
  BY <1>15, RequestFailsDoes
<1>16. ASSUME NEW d \in Documents, ProcessAgain(d) PROVE NotYetListed'
  BY <1>16 DEF ProcessAgain
<1> QED BY <1>1, <1>2, <1>3, <1>4, <1>5, <1>6, <1>7, <1>8, <1>9, <1>10, <1>11, <1>12, <1>13,
          <1>14, <1>15, <1>16 DEF NextLibrary

\* Only an upload at its opening creates a file.
LEMMA FilesStep ==
  LibraryTypes /\ NotYetListed /\ FilesInTime /\ [NextLibrary]_libraryVars => FilesInTime'
<1> SUFFICES ASSUME LibraryTypes, NotYetListed, FilesInTime, [NextLibrary]_libraryVars
             PROVE  FilesInTime'
    OBVIOUS
<1> USE DEF LibraryTypes, KnownDocuments, At, OtherSlots, SlotMoved, SlotEnded, SlotBegan,
          LibraryTypeOK, NotYetListed, FilesInTime
<1>1. CASE UNCHANGED libraryVars
  BY <1>1 DEF libraryVars
<1>2. ASSUME NEW s \in Slots, NEW d \in Documents, ReceiveUpload(s, d) PROVE FilesInTime'
  BY <1>2, ReceiveUploadDoes
<1>3. ASSUME NEW s \in Slots, NEW d \in Documents, FindDocument(s, d) PROVE FilesInTime'
  BY <1>3, FindDocumentDoes
<1>4. ASSUME NEW s \in Slots, ValidateUpload(s) PROVE FilesInTime'
  BY <1>4, ValidateUploadDoes
<1>5. ASSUME NEW s \in Slots, MakeDirectory(s) PROVE FilesInTime'
  BY <1>5, MakeDirectoryDoes
<1>6. ASSUME NEW s \in Slots, SaveFile(s) PROVE FilesInTime'
  BY <1>6, SaveFileDoes
<1>7. ASSUME NEW s \in Slots, InsertAsset(s) PROVE FilesInTime'
  BY <1>7, InsertAssetDoes
<1>8. ASSUME NEW s \in Slots, DispatchProcessing(s) PROVE FilesInTime'
  BY <1>8, DispatchProcessingDoes
<1>9. ASSUME NEW s \in Slots, DeleteFile(s) PROVE FilesInTime'
  BY <1>9, DeleteFileDoes
<1>10. ASSUME NEW s \in Slots, DeleteAsset(s) PROVE FilesInTime'
  BY <1>10, DeleteAssetDoes
<1>11. ASSUME NEW s \in Slots, FindProject(s) PROVE FilesInTime'
  BY <1>11, FindProjectDoes
<1>12. ASSUME NEW s \in Slots, DeleteProjectFiles(s) PROVE FilesInTime'
  BY <1>12, DeleteProjectFilesDoes
<1>13. ASSUME NEW s \in Slots, TreeRemains(s) PROVE FilesInTime'
  BY <1>13, TreeRemainsDoes
<1>14. ASSUME NEW s \in Slots, DeleteProject(s) PROVE FilesInTime'
  BY <1>14, DeleteProjectDoes
<1>15. ASSUME NEW s \in Slots, RequestFails(s) PROVE FilesInTime'
  BY <1>15, RequestFailsDoes
<1>16. ASSUME NEW d \in Documents, ProcessAgain(d) PROVE FilesInTime'
  BY <1>16 DEF ProcessAgain
<1> QED BY <1>1, <1>2, <1>3, <1>4, <1>5, <1>6, <1>7, <1>8, <1>9, <1>10, <1>11, <1>12, <1>13,
          <1>14, <1>15, <1>16 DEF NextLibrary

\* An upload that starts while the project is being emptied overlaps it.
LEMMA LeavingStep == LibraryTypes /\ Leaving /\ [NextLibrary]_libraryVars => Leaving'
<1> SUFFICES ASSUME LibraryTypes, Leaving, [NextLibrary]_libraryVars
             PROVE  Leaving'
    OBVIOUS
<1> USE DEF LibraryTypes, KnownDocuments, At, OtherSlots, SlotMoved, SlotEnded, SlotBegan,
          Emptying, Leaving
<1>1. CASE UNCHANGED libraryVars
  BY <1>1 DEF libraryVars
<1>2. ASSUME NEW s \in Slots, NEW d \in Documents, ReceiveUpload(s, d) PROVE Leaving'
  BY <1>2, ReceiveUploadDoes, EmptiedIs
<1>3. ASSUME NEW s \in Slots, NEW d \in Documents, FindDocument(s, d) PROVE Leaving'
  BY <1>3, FindDocumentDoes
<1>4. ASSUME NEW s \in Slots, ValidateUpload(s) PROVE Leaving'
  BY <1>4, ValidateUploadDoes
<1>5. ASSUME NEW s \in Slots, MakeDirectory(s) PROVE Leaving'
  BY <1>5, MakeDirectoryDoes
<1>6. ASSUME NEW s \in Slots, SaveFile(s) PROVE Leaving'
  BY <1>6, SaveFileDoes
<1>7. ASSUME NEW s \in Slots, InsertAsset(s) PROVE Leaving'
  BY <1>7, InsertAssetDoes
<1>8. ASSUME NEW s \in Slots, DispatchProcessing(s) PROVE Leaving'
  BY <1>8, DispatchProcessingDoes
<1>9. ASSUME NEW s \in Slots, DeleteFile(s) PROVE Leaving'
  BY <1>9, DeleteFileDoes
<1>10. ASSUME NEW s \in Slots, DeleteAsset(s) PROVE Leaving'
  BY <1>10, DeleteAssetDoes
<1>11. ASSUME NEW s \in Slots, FindProject(s) PROVE Leaving'
  BY <1>11, FindProjectDoes
<1>12. ASSUME NEW s \in Slots, DeleteProjectFiles(s) PROVE Leaving'
  BY <1>12, DeleteProjectFilesDoes
<1>13. ASSUME NEW s \in Slots, TreeRemains(s) PROVE Leaving'
  BY <1>13, TreeRemainsDoes
<1>14. ASSUME NEW s \in Slots, DeleteProject(s) PROVE Leaving'
  BY <1>14, DeleteProjectDoes
<1>15. ASSUME NEW s \in Slots, RequestFails(s) PROVE Leaving'
  BY <1>15, RequestFailsDoes
<1>16. ASSUME NEW d \in Documents, ProcessAgain(d) PROVE Leaving'
  BY <1>16 DEF ProcessAgain
<1> QED BY <1>1, <1>2, <1>3, <1>4, <1>5, <1>6, <1>7, <1>8, <1>9, <1>10, <1>11, <1>12, <1>13,
          <1>14, <1>15, <1>16 DEF NextLibrary

\* What an upload has written is there, or a deletion answers for it.
LEMMA UploadsStep ==
  LibraryTypes /\ NotYetListed /\ FilesInTime /\ Leaving /\ UploadsHold /\ [NextLibrary]_libraryVars
  => UploadsHold'
<1> SUFFICES ASSUME LibraryTypes, NotYetListed, FilesInTime, Leaving, UploadsHold,
                    [NextLibrary]_libraryVars
             PROVE  UploadsHold'
    OBVIOUS
<1> USE DEF LibraryTypes, KnownDocuments, At, OtherSlots, SlotMoved, SlotEnded, SlotBegan,
          LibraryTypeOK, Emptying, NotYetListed, FilesInTime, Leaving, UploadsHold
<1>1. CASE UNCHANGED libraryVars
  BY <1>1 DEF libraryVars
<1>2. ASSUME NEW s \in Slots, NEW d \in Documents, ReceiveUpload(s, d) PROVE UploadsHold'
  BY <1>2, ReceiveUploadDoes, EmptiedIs
<1>3. ASSUME NEW s \in Slots, NEW d \in Documents, FindDocument(s, d) PROVE UploadsHold'
  BY <1>3, FindDocumentDoes
<1>4. ASSUME NEW s \in Slots, ValidateUpload(s) PROVE UploadsHold'
  BY <1>4, ValidateUploadDoes
<1>5. ASSUME NEW s \in Slots, MakeDirectory(s) PROVE UploadsHold'
  BY <1>5, MakeDirectoryDoes
<1>6. ASSUME NEW s \in Slots, SaveFile(s) PROVE UploadsHold'
  BY <1>6, SaveFileDoes
<1>7. ASSUME NEW s \in Slots, InsertAsset(s) PROVE UploadsHold'
  BY <1>7, InsertAssetDoes
<1>8. ASSUME NEW s \in Slots, DispatchProcessing(s) PROVE UploadsHold'
  BY <1>8, DispatchProcessingDoes
<1>9. ASSUME NEW s \in Slots, DeleteFile(s) PROVE UploadsHold'
  BY <1>9, DeleteFileDoes
<1>10. ASSUME NEW s \in Slots, DeleteAsset(s) PROVE UploadsHold'
  BY <1>10, DeleteAssetDoes
<1>11. ASSUME NEW s \in Slots, FindProject(s) PROVE UploadsHold'
  BY <1>11, FindProjectDoes
<1>12. ASSUME NEW s \in Slots, DeleteProjectFiles(s) PROVE UploadsHold'
  BY <1>12, DeleteProjectFilesDoes
<1>13. ASSUME NEW s \in Slots, TreeRemains(s) PROVE UploadsHold'
  BY <1>13, TreeRemainsDoes
<1>14. ASSUME NEW s \in Slots, DeleteProject(s) PROVE UploadsHold'
  BY <1>14, DeleteProjectDoes
<1>15. ASSUME NEW s \in Slots, RequestFails(s) PROVE UploadsHold'
  BY <1>15, RequestFailsDoes
<1>16. ASSUME NEW d \in Documents, ProcessAgain(d) PROVE UploadsHold'
  BY <1>16 DEF ProcessAgain
<1> QED BY <1>1, <1>2, <1>3, <1>4, <1>5, <1>6, <1>7, <1>8, <1>9, <1>10, <1>11, <1>12, <1>13,
          <1>14, <1>15, <1>16 DEF NextLibrary

\* Rows and files.
LEMMA AgreeStep == LibraryInv /\ [NextLibrary]_libraryVars => Agreement'
<1> SUFFICES ASSUME LibraryInv, [NextLibrary]_libraryVars
             PROVE  Agreement'
    OBVIOUS
<1> USE DEF LibraryTypes, KnownDocuments, At, OtherSlots, SlotMoved, SlotEnded, SlotBegan,
          LibraryTypeOK, Emptying, LibraryInv, NotYetListed, FilesInTime, Leaving, UploadsHold,
          Agreement
<1>1. CASE UNCHANGED libraryVars
  BY <1>1 DEF libraryVars
<1>2. ASSUME NEW s \in Slots, NEW d \in Documents, ReceiveUpload(s, d) PROVE Agreement'
  BY <1>2, ReceiveUploadDoes, EmptiedIs
<1>3. ASSUME NEW s \in Slots, NEW d \in Documents, FindDocument(s, d) PROVE Agreement'
  BY <1>3, FindDocumentDoes
<1>4. ASSUME NEW s \in Slots, ValidateUpload(s) PROVE Agreement'
  BY <1>4, ValidateUploadDoes
<1>5. ASSUME NEW s \in Slots, MakeDirectory(s) PROVE Agreement'
  BY <1>5, MakeDirectoryDoes
<1>6. ASSUME NEW s \in Slots, SaveFile(s) PROVE Agreement'
  BY <1>6, SaveFileDoes
<1>7. ASSUME NEW s \in Slots, InsertAsset(s) PROVE Agreement'
  BY <1>7, InsertAssetDoes
<1>8. ASSUME NEW s \in Slots, DispatchProcessing(s) PROVE Agreement'
  BY <1>8, DispatchProcessingDoes
<1>9. ASSUME NEW s \in Slots, DeleteFile(s) PROVE Agreement'
  BY <1>9, DeleteFileDoes
<1>10. ASSUME NEW s \in Slots, DeleteAsset(s) PROVE Agreement'
  BY <1>10, DeleteAssetDoes
<1>11. ASSUME NEW s \in Slots, FindProject(s) PROVE Agreement'
  BY <1>11, FindProjectDoes
<1>12. ASSUME NEW s \in Slots, DeleteProjectFiles(s) PROVE Agreement'
  BY <1>12, DeleteProjectFilesDoes
<1>13. ASSUME NEW s \in Slots, TreeRemains(s) PROVE Agreement'
  BY <1>13, TreeRemainsDoes
<1>14. ASSUME NEW s \in Slots, DeleteProject(s) PROVE Agreement'
  BY <1>14, DeleteProjectDoes
<1>15. ASSUME NEW s \in Slots, RequestFails(s) PROVE Agreement'
  <2>1. assets' = assets /\ files' = files /\ project' = project
    BY <1>15, RequestFailsDoes
  <2>2. ASSUME NEW d \in assets
        PROVE  \/ d \in files \/ d \in botched' \/ Emptying'
               \/ \E t \in Slots : At(t, "delete", "emptied")' /\ work'[t].doc = d
    <3>1. CASE Emptying
      BY <1>15, <3>1, RequestFailsDoes
    <3>2. CASE \E t \in Slots : At(t, "delete", "emptied") /\ work[t].doc = d
      BY <1>15, <3>2, RequestFailsDoes
    <3> QED BY <1>15, <3>1, <3>2, RequestFailsDoes
  <2>3. ASSUME NEW d \in files
        PROVE  \/ d \in assets \/ d \in overlapped'
               \/ \E t \in Slots : work'[t].kind = "upload" /\ work'[t].doc = d
    <3>1. CASE \E t \in Slots : work[t].kind = "upload" /\ work[t].doc = d
      <4>1. PICK t \in Slots : work[t].kind = "upload" /\ work[t].doc = d
        BY <3>1
      <4>2. CASE t = s
        BY <1>15, <4>1, <4>2, RequestFailsDoes
      <4>3. CASE t # s
        BY <1>15, <4>1, <4>3, RequestFailsDoes
      <4> QED BY <4>2, <4>3
    <3> QED BY <1>15, <3>1, RequestFailsDoes
  <2> QED BY <2>1, <2>2, <2>3
<1>16. ASSUME NEW d \in Documents, ProcessAgain(d) PROVE Agreement'
  BY <1>16 DEF ProcessAgain
<1> QED BY <1>1, <1>2, <1>3, <1>4, <1>5, <1>6, <1>7, <1>8, <1>9, <1>10, <1>11, <1>12, <1>13,
          <1>14, <1>15, <1>16 DEF NextLibrary

LEMMA LibraryStep == LibraryInv /\ [NextLibrary]_libraryVars => LibraryInv'
BY TypeStep, KnownStep, ListedStep, FilesStep, LeavingStep, UploadsStep, AgreeStep
DEF LibraryInv, LibraryTypes

\* Rows, files and the requests under way have their types in every reachable state
\* (controllers/document_controller.py).
THEOREM LibraryTypesHold == LibrarySpec => []LibraryTypeOK
<1>1. LibraryInv => LibraryTypeOK
  BY DEF LibraryInv, LibraryTypes
<1> QED BY <1>1, LibraryStart, LibraryStep, PTL DEF LibrarySpec

\* Rows and files agree whatever uploads and deletions overlap, fail or die half-way, but for the
\* documents of those that did (controllers/document_controller.py,
\* controllers/project_controller.py).
THEOREM LibraryAgrees == LibrarySpec => []RowsAndFilesAgree
<1>1. LibraryInv => RowsAndFilesAgree
  BY AgreementSuffices DEF LibraryInv
<1> QED BY <1>1, LibraryStart, LibraryStep, PTL DEF LibrarySpec

(***************************************************************************)
(* Updates: the in-flight limit of a bot. The argument compares the        *)
(* counters with what they count: the number in Redis is between the       *)
(* updates counted in it less those an expiry forgot, and those updates    *)
(* plus what faults left behind; the counter in memory may be behind by the*)
(* decrements that Redis should have had.                                  *)
(***************************************************************************)

CountedStages == {"within", "beyond", "refusing", "redis"}

\* The updates whose stage, in f, is one of T.
In(f, T) == {d \in Deliveries : f[d] \in T}

Count(T) == Cardinality(In(delivery, T))

CountersMatch ==
  /\ counter.n <= Count(CountedStages) + leaked
  /\ Count(CountedStages) <= counter.n + forgotten
  /\ Count({"within", "redis"}) <= Limit + forgotten
  /\ Count({"memory"}) <= local + misreleased

LimitInv == LimitsTypeOK /\ CountersMatch

(***************************************************************************)
(* Counting.                                                                *)
(***************************************************************************)

LEMMA InFinite ==
  ASSUME NEW f, NEW T
  PROVE  IsFiniteSet(In(f, T)) /\ Cardinality(In(f, T)) \in Nat
<1>1. In(f, T) \subseteq Deliveries
  BY DEF In
<1>2. IsFiniteSet(In(f, T))
  BY <1>1, LimitAssumption, FS_Subset
<1> QED BY <1>2, FS_CardinalityType

LEMMA InGrows ==
  ASSUME NEW f, NEW S, NEW T, S \subseteq T
  PROVE  Cardinality(In(f, S)) <= Cardinality(In(f, T))
<1>1. In(f, S) \subseteq In(f, T)
  BY DEF In
<1> QED BY <1>1, InFinite, FS_Subset

Changed(f, g, d, stage) == g[d] = stage /\ \A e \in Deliveries : e # d => g[e] = f[e]

\* One update changes its stage: the sets it leaves and enters lose and gain one.
LEMMA MoveCounts ==
  ASSUME NEW f, NEW g, NEW d \in Deliveries, NEW stage, NEW T, Changed(f, g, d, stage)
  PROVE  Cardinality(In(g, T))
           = Cardinality(In(f, T)) + (IF stage \in T THEN 1 ELSE 0) - (IF f[d] \in T THEN 1 ELSE 0)
<1> USE DEF Changed
<1>0. Cardinality(In(f, T)) \in Nat
  BY InFinite
<1>1. CASE f[d] \in T /\ stage \in T
  <2>1. In(g, T) = In(f, T)
    BY <1>1 DEF In
  <2> QED BY <1>0, <1>1, <2>1
<1>2. CASE f[d] \notin T /\ stage \notin T
  <2>1. In(g, T) = In(f, T)
    BY <1>2 DEF In
  <2> QED BY <1>0, <1>2, <2>1
<1>3. CASE f[d] \in T /\ stage \notin T
  <2>1. In(g, T) = In(f, T) \ {d} /\ d \in In(f, T)
    BY <1>3 DEF In
  <2>2. Cardinality(In(f, T) \ {d}) = Cardinality(In(f, T)) - 1
    BY <2>1, InFinite, FS_RemoveElement
  <2> QED BY <1>0, <1>3, <2>1, <2>2
<1>4. CASE f[d] \notin T /\ stage \in T
  <2>1. In(g, T) = In(f, T) \cup {d} /\ d \notin In(f, T)
    BY <1>4 DEF In
  <2>2. Cardinality(In(f, T) \cup {d}) = Cardinality(In(f, T)) + 1
    BY <2>1, InFinite, FS_AddElement
  <2> QED BY <1>0, <1>4, <2>1, <2>2
<1> QED BY <1>1, <1>2, <1>3, <1>4

LEMMA NothingCounted ==
  ASSUME NEW f, \A d \in Deliveries : f[d] = "idle", NEW T, "idle" \notin T
  PROVE  Cardinality(In(f, T)) = 0
<1>1. In(f, T) = {}
  BY DEF In
<1> QED BY <1>1, FS_EmptySet

LEMMA CountedIs == Cardinality(Counted) = Count(CountedStages)
<1>1. Counted = In(delivery, CountedStages)
  BY DEF Counted, Stage, In, CountedStages
<1> QED BY <1>1 DEF Count

LEMMA CountsAreNumbers ==
  /\ \A T : Count(T) \in Nat
  /\ \A T : Cardinality(In(delivery', T)) \in Nat
BY InFinite DEF Count

(***************************************************************************)
(* The invariant.                                                           *)
(***************************************************************************)

LEMMA LimitStart == InitLimits => LimitInv
<1> SUFFICES ASSUME InitLimits PROVE LimitInv
    OBVIOUS
<1>1. LimitsTypeOK
  BY LimitAssumption DEF InitLimits, LimitsTypeOK, Absent, DeliveryStages
<1>2. /\ Count(CountedStages) = 0
      /\ Count({"within", "redis"}) = 0
      /\ Count({"memory"}) = 0
  BY NothingCounted DEF InitLimits, Count, CountedStages
<1> QED BY <1>1, <1>2, LimitAssumption DEF LimitInv, CountersMatch, InitLimits, Absent

LEMMA LimitTypeStep == LimitsTypeOK /\ [NextLimit]_limitVars => LimitsTypeOK'
<1> SUFFICES ASSUME LimitsTypeOK, [NextLimit]_limitVars
             PROVE  LimitsTypeOK'
    OBVIOUS
<1> USE LimitAssumption DEF LimitsTypeOK, DeliveryStages, Move, Add, Perhaps, Fails, Absent
<1>1. CASE UNCHANGED limitVars
  BY <1>1 DEF limitVars
<1>2. ASSUME NEW d \in Deliveries, Ask(d) PROVE LimitsTypeOK'
  BY <1>2 DEF Ask, AcquireMemory
<1>3. ASSUME NEW d \in Deliveries, Increment(d) PROVE LimitsTypeOK'
  BY <1>3 DEF Increment, AcquireMemory
<1>4. ASSUME NEW d \in Deliveries, SetExpiry(d) PROVE LimitsTypeOK'
  BY <1>4 DEF SetExpiry, AcquireMemory
<1>5. ASSUME NEW d \in Deliveries, Undo(d) PROVE LimitsTypeOK'
  BY <1>5 DEF Undo, AcquireMemory
<1>6. ASSUME NEW d \in Deliveries, ReleaseRedis(d) PROVE LimitsTypeOK'
  BY <1>6 DEF ReleaseRedis, ReleaseMemory
<1>7. ASSUME NEW d \in Deliveries, Release(d) PROVE LimitsTypeOK'
  BY <1>7 DEF Release, ReleaseMemory
<1>8. CASE KeyExpires
  BY <1>8, CountedIs, CountsAreNumbers DEF KeyExpires
<1>9. CASE ProcessDies
  BY <1>9, CountedIs, CountsAreNumbers DEF ProcessDies
<1> QED BY <1>1, <1>2, <1>3, <1>4, <1>5, <1>6, <1>7, <1>8, <1>9 DEF NextLimit

\* The numbers after an update moved from stage a to stage b.
After(a, b, T) ==
  Count(T)' = Count(T) + (IF b \in T THEN 1 ELSE 0) - (IF a \in T THEN 1 ELSE 0)

LEMMA MoveDoes ==
  ASSUME LimitsTypeOK, NEW d \in Deliveries, NEW b, Move(d, b)
  PROVE  \A T : After(delivery[d], b, T)
<1> SUFFICES ASSUME NEW T PROVE After(delivery[d], b, T)
    OBVIOUS
<1>1. delivery \in [Deliveries -> DeliveryStages] /\ delivery' = [delivery EXCEPT ![d] = b]
  BY DEF LimitsTypeOK, Move
<1>2. Count(T) = Cardinality(In(delivery, T)) /\ Count(T)' = Cardinality(In(delivery', T))
  BY DEF Count, In
<1>3. Changed(delivery, delivery', d, b)
  BY <1>1 DEF Changed
<1>4. Cardinality(In(delivery', T))
        = Cardinality(In(delivery, T)) + (IF b \in T THEN 1 ELSE 0)
                                       - (IF delivery[d] \in T THEN 1 ELSE 0)
  BY <1>3, MoveCounts
<1> QED BY <1>2, <1>4 DEF After

\* What a move from a to b does to the three numbers.
LEMMA ThreeCounts ==
  ASSUME LimitsTypeOK, NEW d \in Deliveries, NEW b, Move(d, b)
  PROVE  /\ After(delivery[d], b, CountedStages)
         /\ After(delivery[d], b, {"within", "redis"})
         /\ After(delivery[d], b, {"memory"})
         /\ Count(CountedStages) \in Nat /\ Count({"within", "redis"}) \in Nat
         /\ Count({"memory"}) \in Nat
         /\ Count({"within", "redis"}) <= Count(CountedStages)
<1>1. Count({"within", "redis"}) <= Count(CountedStages)
  BY InGrows DEF Count, CountedStages
<1> QED BY <1>1, MoveDoes, CountsAreNumbers

LEMMA CountersStep == LimitInv /\ [NextLimit]_limitVars => CountersMatch'
<1> SUFFICES ASSUME LimitInv, [NextLimit]_limitVars
             PROVE  CountersMatch'
    OBVIOUS
<1> USE LimitAssumption DEF LimitInv, LimitsTypeOK, CountersMatch, CountedStages, After
<1>1. CASE UNCHANGED limitVars
  BY <1>1 DEF limitVars, Count, In
<1>2. ASSUME NEW d \in Deliveries, Ask(d) PROVE CountersMatch'
  <2>1. CASE Move(d, "asked") /\ UNCHANGED local
    BY <1>2, <2>1, ThreeCounts DEF Ask
  <2>2. CASE AcquireMemory(d)
    BY <1>2, <2>2, ThreeCounts DEF Ask, AcquireMemory
  <2> QED BY <1>2, <2>1, <2>2 DEF Ask
<1>3. ASSUME NEW d \in Deliveries, Increment(d) PROVE CountersMatch'
  BY <1>3, ThreeCounts DEF Increment, AcquireMemory, Add, Perhaps
<1>4. ASSUME NEW d \in Deliveries, SetExpiry(d) PROVE CountersMatch'
  BY <1>4, ThreeCounts DEF SetExpiry, AcquireMemory
<1>5. ASSUME NEW d \in Deliveries, Undo(d) PROVE CountersMatch'
  BY <1>5, ThreeCounts DEF Undo, AcquireMemory, Add, Perhaps
<1>6. ASSUME NEW d \in Deliveries, ReleaseRedis(d) PROVE CountersMatch'
  BY <1>6, ThreeCounts DEF ReleaseRedis, ReleaseMemory, Add, Perhaps
<1>7. ASSUME NEW d \in Deliveries, Release(d) PROVE CountersMatch'
  BY <1>7, ThreeCounts DEF Release, ReleaseMemory
<1>8. CASE KeyExpires
  <2>1. \A T : Count(T)' = Count(T)
    BY <1>8 DEF KeyExpires, Count, In
  <2>2. Count({"within", "redis"}) <= Count(CountedStages)
    BY InGrows DEF Count
  <2> QED BY <1>8, <2>1, <2>2, CountedIs, CountsAreNumbers DEF KeyExpires, Absent
<1>9. CASE ProcessDies
  <2>1. /\ Count(CountedStages)' = 0
        /\ Count({"within", "redis"})' = 0
        /\ Count({"memory"})' = 0
    BY <1>9, NothingCounted DEF ProcessDies, Count, In
  <2> QED BY <1>9, <2>1, CountedIs, CountsAreNumbers DEF ProcessDies
<1> QED BY <1>1, <1>2, <1>3, <1>4, <1>5, <1>6, <1>7, <1>8, <1>9 DEF NextLimit

LEMMA LimitStep == LimitInv /\ [NextLimit]_limitVars => LimitInv'
BY LimitTypeStep, CountersStep DEF LimitInv

\* The counters and the updates have their types in every reachable state (TelegramWebhookService).
THEOREM LimitTypesHold == LimitSpec => []LimitsTypeOK
<1>1. LimitInv => LimitsTypeOK
  BY DEF LimitInv
<1> QED BY <1>1, LimitStart, LimitStep, PTL DEF LimitSpec

\* The updates handled at a time are bounded, and the counter in Redis holds nothing but those
\* being handled and what faults left behind, for any limit and any number of updates and faults
\* (_acquire_limit, _release_limit).
THEOREM InFlightBounded == LimitSpec => []InFlightIsBounded
<1>1. LimitInv => InFlightIsBounded
  <2> SUFFICES ASSUME LimitInv PROVE InFlightIsBounded
      OBVIOUS
  <2>1. Cardinality(Stage({"redis"})) <= Count({"within", "redis"})
    <3>1. Stage({"redis"}) = In(delivery, {"redis"})
      BY DEF Stage, In
    <3> QED BY <3>1, InGrows DEF Count
  <2>2. Cardinality(Stage({"memory"})) = Count({"memory"})
    <3>1. Stage({"memory"}) = In(delivery, {"memory"})
      BY DEF Stage, In
    <3> QED BY <3>1 DEF Count
  <2>3. Cardinality(Stage({"redis"})) \in Nat /\ \A T : Count(T) \in Nat
    <3>1. Stage({"redis"}) = In(delivery, {"redis"})
      BY DEF Stage, In
    <3> QED BY <3>1, InFinite, CountsAreNumbers
  <2> QED BY <2>1, <2>2, <2>3, CountedIs, LimitAssumption
          DEF LimitInv, LimitsTypeOK, CountersMatch, InFlightIsBounded
<1> QED BY <1>1, LimitStart, LimitStep, PTL DEF LimitSpec

(***************************************************************************)
(* Requests: the sliding windows of the rate limits. The argument compares *)
(* a bucket, which has forgotten what is older than a window, with the     *)
(* history of the requests that were let through: as many of them as were  *)
(* since a moment of the last window are in the bucket.                    *)
(***************************************************************************)

\* The requests of these kinds let through, and the events in a bucket, since moment `from`.
Since(h, kinds, from) == {i \in 1..Len(h) : h[i].kind \in kinds /\ h[i].t >= from}

NotBefore(bucket, from) == {j \in 1..Len(bucket) : bucket[j] >= from}

\* What was let through in the last window is in the bucket.
Remembers(bucket, kinds) ==
  \A from \in Nat :
    from + WindowSeconds >= moment =>
      Cardinality(Since(history, kinds, from)) <= Cardinality(NotBefore(bucket, from))

EveryWindow(kinds, max) ==
  \A from \in Nat : Cardinality(Within(kinds, from)) <= max

Ruling == {c \in ApiCalls : served[c] = "rule"}

BucketsBounded == Len(allEvents) <= GlobalRequests /\ Len(ruleEvents) <= RuleRequests

BucketsRemember == Remembers(allEvents, {"rule", "other"}) /\ Remembers(ruleEvents, {"rule"})

WindowsHold == EveryWindow({"rule", "other"}, GlobalRequests) /\ EveryWindow({"rule"}, RuleRequests)

InFlightCounted ==
  MaxInFlight > 0 =>
    /\ IsFiniteSet(Ruling)
    /\ Cardinality(Ruling) = inFlight
    /\ inFlight <= MaxInFlight

ApiInv == ApiTypeOK /\ BucketsBounded /\ BucketsRemember /\ WindowsHold /\ InFlightCounted

(***************************************************************************)
(* The buckets.                                                            *)
(***************************************************************************)

\* Popping drops a prefix of expired events and nothing else.
LEMMA LiveIsSuffix ==
  ASSUME moment \in Nat, NEW bucket \in Seq(Nat)
  PROVE  \E n \in 0..Len(bucket) :
           /\ Live(bucket) = SubSeq(bucket, n + 1, Len(bucket))
           /\ \A i \in 1..n : OutOfWindow(bucket[i])
<1> DEFINE stops == {n \in 0..Len(bucket) : n = Len(bucket) \/ ~OutOfWindow(bucket[n + 1])}
           popped == CHOOSE n \in stops : \A m \in stops : n <= m
<1>1. stops \subseteq Nat /\ Len(bucket) \in stops
  BY DEF OutOfWindow
<1>2. \E n \in stops : \A m \in stops : n <= m
  <2> HIDE DEF stops
  <2> QED BY <1>1, Least
<1>3. popped \in stops /\ \A m \in stops : popped <= m
  <2> HIDE DEF stops
  <2> QED BY <1>2
<1>4. Live(bucket) = SubSeq(bucket, popped + 1, Len(bucket))
  BY DEF Live
<1> HIDE DEF popped
<1>5. ASSUME NEW i \in 1..popped PROVE OutOfWindow(bucket[i])
  <2>1. i - 1 \in 0..Len(bucket) /\ ~(popped <= i - 1) /\ i - 1 # Len(bucket)
    BY <1>3, <1>5
  <2>2. i - 1 \notin stops
    BY <1>3, <2>1
  <2>3. i = (i - 1) + 1
    OBVIOUS
  <2> QED BY <2>1, <2>2, <2>3
<1> QED BY <1>3, <1>4, <1>5

LEMMA RecentFinite ==
  ASSUME NEW bucket \in Seq(Nat), NEW from
  PROVE  /\ IsFiniteSet(NotBefore(bucket, from))
         /\ Cardinality(NotBefore(bucket, from)) \in Nat
         /\ Cardinality(NotBefore(bucket, from)) <= Len(bucket)
<1>1. NotBefore(bucket, from) \subseteq 1..Len(bucket)
  BY DEF NotBefore
<1>2. PICK n \in Nat : n = Len(bucket)
  OBVIOUS
<1>3. IsFiniteSet(1..n) /\ Cardinality(1..n) = n
  BY FS_Interval
<1> QED BY <1>1, <1>2, <1>3, FS_Subset, FS_CardinalityType

\* None of the events that count is popped.
LEMMA LiveKeepsRecent ==
  ASSUME moment \in Nat, NEW bucket \in Seq(Nat), NEW from \in Nat, from + WindowSeconds >= moment
  PROVE  /\ Live(bucket) \in Seq(Nat)
         /\ Len(Live(bucket)) <= Len(bucket)
         /\ Cardinality(NotBefore(bucket, from)) <= Cardinality(NotBefore(Live(bucket), from))
<1>1. PICK n \in 0..Len(bucket) :
        /\ Live(bucket) = SubSeq(bucket, n + 1, Len(bucket))
        /\ \A i \in 1..n : OutOfWindow(bucket[i])
  BY LiveIsSuffix
<1> DEFINE kept == Live(bucket)
<1>2. kept \in Seq(Nat) /\ Len(kept) = Len(bucket) - n
  BY <1>1
<1>3. \A j \in 1..Len(kept) : kept[j] = bucket[j + n]
  BY <1>1
<1> DEFINE f == [j \in NotBefore(bucket, from) |-> j - n]
<1> HIDE DEF kept
<1>4. ASSUME NEW j \in NotBefore(bucket, from) PROVE j - n \in NotBefore(kept, from)
  <2>1. j \in 1..Len(bucket) /\ bucket[j] >= from /\ bucket[j] \in Nat
    BY DEF NotBefore
  <2>2. ~OutOfWindow(bucket[j])
    BY <2>1, ApiAssumption DEF OutOfWindow
  <2>3. j \notin 1..n
    BY <2>2, <1>1
  <2>4. j - n \in 1..Len(kept) /\ (j - n) + n = j
    BY <2>1, <2>3, <1>2
  <2> QED BY <2>1, <2>4, <1>3 DEF NotBefore
<1>5. f \in [NotBefore(bucket, from) -> NotBefore(kept, from)]
  BY <1>4
<1>6. \A i, j \in NotBefore(bucket, from) : f[i] = f[j] => i = j
  BY DEF NotBefore
<1>7. f \in Injection(NotBefore(bucket, from), NotBefore(kept, from))
  BY <1>5, <1>6 DEF Injection, IsInjective
<1>8. IsFiniteSet(NotBefore(kept, from))
  BY <1>2, RecentFinite
<1>9. Cardinality(NotBefore(bucket, from)) <= Cardinality(NotBefore(kept, from))
  BY <1>7, <1>8, FS_Injection
<1> QED BY <1>2, <1>9 DEF kept

LEMMA RecentAppended ==
  ASSUME NEW bucket \in Seq(Nat), NEW t \in Nat, NEW from \in Nat, t >= from
  PROVE  Cardinality(NotBefore(Append(bucket, t), from)) = Cardinality(NotBefore(bucket, from)) + 1
<1> DEFINE n == Len(bucket) + 1
<1>1. NotBefore(Append(bucket, t), from) = NotBefore(bucket, from) \cup {n}
  BY DEF NotBefore
<1>2. n \notin NotBefore(bucket, from)
  BY DEF NotBefore
<1> HIDE DEF n
<1>3. IsFiniteSet(NotBefore(bucket, from))
  BY RecentFinite
<1> QED BY <1>1, <1>2, <1>3, FS_AddElement

\* Appending to a bucket loses no event.
LEMMA RecentGrows ==
  ASSUME NEW bucket \in Seq(Nat), NEW t \in Nat, NEW from \in Nat
  PROVE  Cardinality(NotBefore(bucket, from)) <= Cardinality(NotBefore(Append(bucket, t), from))
<1>1. NotBefore(bucket, from) \subseteq NotBefore(Append(bucket, t), from)
  BY DEF NotBefore
<1>2. Append(bucket, t) \in Seq(Nat)
  OBVIOUS
<1> QED BY <1>1, <1>2, RecentFinite, FS_Subset

\* What a check leaves in the bucket.
LEMMA CheckedDoes ==
  ASSUME moment \in Nat, NEW bucket \in Seq(Nat), NEW max \in Nat, Len(bucket) <= max
  PROVE  /\ Checked(bucket, max) \in Seq(Nat)
         /\ Len(Checked(bucket, max)) <= max
         /\ \A from \in Nat :
              from + WindowSeconds >= moment =>
                /\ Cardinality(NotBefore(bucket, from)) <= Cardinality(NotBefore(Checked(bucket, max), from))
                /\ (Allows(bucket, max) /\ moment >= from) =>
                     Cardinality(NotBefore(bucket, from)) + 1 <= Cardinality(NotBefore(Checked(bucket, max), from))
<1>0. moment + WindowSeconds >= moment
  BY ApiAssumption
<1>1. Live(bucket) \in Seq(Nat) /\ Len(Live(bucket)) <= Len(bucket)
  BY <1>0, LiveKeepsRecent
<1>2. Checked(bucket, max) = IF Allows(bucket, max) THEN Append(Live(bucket), moment) ELSE Live(bucket)
  BY DEF Checked
<1>3. Checked(bucket, max) \in Seq(Nat) /\ Len(Checked(bucket, max)) <= max
  BY <1>1, <1>2 DEF Allows
<1>4. ASSUME NEW from \in Nat, from + WindowSeconds >= moment
      PROVE  /\ Cardinality(NotBefore(bucket, from)) <= Cardinality(NotBefore(Checked(bucket, max), from))
             /\ (Allows(bucket, max) /\ moment >= from) =>
                  Cardinality(NotBefore(bucket, from)) + 1 <= Cardinality(NotBefore(Checked(bucket, max), from))
  <2>1. Cardinality(NotBefore(bucket, from)) <= Cardinality(NotBefore(Live(bucket), from))
    BY <1>4, LiveKeepsRecent
  <2>2. Cardinality(NotBefore(Live(bucket), from)) <= Cardinality(NotBefore(Append(Live(bucket), moment), from))
    BY <1>1, RecentGrows
  <2>3. moment >= from =>
          Cardinality(NotBefore(Append(Live(bucket), moment), from)) = Cardinality(NotBefore(Live(bucket), from)) + 1
    BY <1>1, RecentAppended
  <2>4. PICK a \in Nat : a = Cardinality(NotBefore(bucket, from))
    BY RecentFinite
  <2>5. PICK b \in Nat : b = Cardinality(NotBefore(Live(bucket), from))
    BY <1>1, RecentFinite
  <2>6. PICK c \in Nat : c = Cardinality(NotBefore(Append(Live(bucket), moment), from))
    <3>1. Append(Live(bucket), moment) \in Seq(Nat)
      BY <1>1
    <3> QED BY <3>1, RecentFinite
  <2>7. CASE Allows(bucket, max)
    <3>1. Checked(bucket, max) = Append(Live(bucket), moment)
      BY <2>7, <1>2
    <3> QED BY <3>1, <2>1, <2>2, <2>3, <2>4, <2>5, <2>6
  <2>8. CASE ~Allows(bucket, max)
    BY <2>8, <1>2, <2>1
  <2> QED BY <2>7, <2>8
<1> QED BY <1>3, <1>4

(***************************************************************************)
(* What was let through.                                                    *)
(***************************************************************************)

ApiRequest == [t : Nat, kind : {"rule", "other"}]

LEMMA SinceFinite ==
  ASSUME NEW h \in Seq(ApiRequest), NEW kinds, NEW from
  PROVE  /\ IsFiniteSet(Since(h, kinds, from))
         /\ Cardinality(Since(h, kinds, from)) \in Nat
<1>1. Since(h, kinds, from) \subseteq 1..Len(h)
  BY DEF Since
<1>2. PICK n \in Nat : n = Len(h)
  OBVIOUS
<1>3. IsFiniteSet(1..n)
  BY FS_Interval
<1> QED BY <1>1, <1>2, <1>3, FS_Subset, FS_CardinalityType

\* One more request is one more in the windows that are open and of its kind.
LEMMA SinceAppended ==
  ASSUME NEW h \in Seq(ApiRequest), NEW e \in ApiRequest, NEW kinds, NEW from
  PROVE  Cardinality(Since(Append(h, e), kinds, from))
           = Cardinality(Since(h, kinds, from)) + (IF e.kind \in kinds /\ e.t >= from THEN 1 ELSE 0)
<1> DEFINE n == Len(h) + 1
<1>1. Since(Append(h, e), kinds, from)
        = IF e.kind \in kinds /\ e.t >= from
          THEN Since(h, kinds, from) \cup {n} ELSE Since(h, kinds, from)
  <2>1. Len(Append(h, e)) = n /\ n \in Nat /\ n = Len(h) + 1
    OBVIOUS
  <2>2. Append(h, e)[n] = e /\ \A i \in 1..Len(h) : Append(h, e)[i] = h[i]
    OBVIOUS
  <2>3. 1..n = (1..Len(h)) \cup {n}
    BY <2>1
  <2> HIDE DEF n
  <2> QED BY <2>1, <2>2, <2>3 DEF Since
<1>2. n \notin Since(h, kinds, from)
  BY DEF Since
<1> HIDE DEF n
<1>3. IsFiniteSet(Since(h, kinds, from)) /\ Cardinality(Since(h, kinds, from)) \in Nat
  BY SinceFinite
<1>4. Cardinality(Since(h, kinds, from) \cup {n}) = Cardinality(Since(h, kinds, from)) + 1
  BY <1>2, <1>3, FS_AddElement
<1> QED BY <1>1, <1>3, <1>4

\* A bucket goes on remembering when what is let through is appended to it.
LEMMA StillRemembers ==
  ASSUME ApiTypeOK, NEW bucket \in Seq(Nat), NEW kept \in Seq(Nat), NEW kinds,
         Remembers(bucket, kinds), NEW h, NEW kind \in {"rule", "other"},
         h = history \/ h = Append(history, [t |-> moment, kind |-> kind]),
         \A from \in Nat :
           from + WindowSeconds >= moment =>
             /\ Cardinality(NotBefore(bucket, from)) <= Cardinality(NotBefore(kept, from))
             /\ (h # history /\ kind \in kinds /\ moment >= from) =>
                  Cardinality(NotBefore(bucket, from)) + 1 <= Cardinality(NotBefore(kept, from))
  PROVE  \A from \in Nat :
           from + WindowSeconds >= moment =>
             Cardinality(Since(h, kinds, from)) <= Cardinality(NotBefore(kept, from))
<1> SUFFICES ASSUME NEW from \in Nat, from + WindowSeconds >= moment
             PROVE  Cardinality(Since(h, kinds, from)) <= Cardinality(NotBefore(kept, from))
    OBVIOUS
<1> DEFINE e == [t |-> moment, kind |-> kind]
<1>0. history \in Seq(ApiRequest) /\ moment \in Nat /\ e \in ApiRequest /\ e.kind = kind /\ e.t = moment
  BY DEF ApiTypeOK, ApiRequest
<1>1. PICK a \in Nat : a = Cardinality(Since(history, kinds, from))
  BY <1>0, SinceFinite
<1>2. PICK b \in Nat : b = Cardinality(NotBefore(bucket, from))
  BY RecentFinite
<1>3. PICK c \in Nat : c = Cardinality(NotBefore(kept, from))
  BY RecentFinite
<1>4. a <= b
  BY <1>1, <1>2 DEF Remembers
<1>5. /\ b <= c
      /\ (h # history /\ kind \in kinds /\ moment >= from) => b + 1 <= c
  BY <1>2, <1>3
<1>6. CASE h = history
  BY <1>6, <1>1, <1>3, <1>4, <1>5
<1>7. CASE h # history
  <2>1. h = Append(history, e)
    BY <1>7
  <2> HIDE DEF e
  <2>2. Cardinality(Since(h, kinds, from))
          = a + (IF kind \in kinds /\ moment >= from THEN 1 ELSE 0)
    BY <2>1, <1>0, <1>1, SinceAppended
  <2> QED BY <2>2, <1>3, <1>4, <1>5, <1>7
<1> QED BY <1>6, <1>7

\* The buckets bound the windows that are still open.
LEMMA OpenWindows ==
  ApiTypeOK /\ BucketsBounded /\ BucketsRemember =>
    \A from \in Nat :
      from + WindowSeconds >= moment =>
        /\ Cardinality(Within({"rule", "other"}, from)) <= GlobalRequests
        /\ Cardinality(Within({"rule"}, from)) <= RuleRequests
<1>1. ASSUME ApiTypeOK, NEW bucket \in Seq(Nat), NEW kinds, NEW max \in Nat, Len(bucket) <= max,
             Remembers(bucket, kinds), NEW from \in Nat, from + WindowSeconds >= moment
      PROVE  Cardinality(Within(kinds, from)) <= max
  <2>0. history \in Seq(ApiRequest)
    BY <1>1 DEF ApiTypeOK, ApiRequest
  <2>1. Within(kinds, from) \subseteq Since(history, kinds, from)
    BY DEF Within, Since
  <2>2. PICK a \in Nat : a = Cardinality(Since(history, kinds, from))
    BY <2>0, SinceFinite
  <2>3. PICK b \in Nat : b = Cardinality(Within(kinds, from)) /\ b <= a
    BY <2>0, <2>1, <2>2, SinceFinite, FS_Subset, FS_CardinalityType
  <2>4. PICK c \in Nat : c = Cardinality(NotBefore(bucket, from)) /\ c <= Len(bucket)
    BY RecentFinite
  <2>5. a <= c
    BY <1>1, <2>2, <2>4 DEF Remembers
  <2>6. PICK n \in Nat : n = Len(bucket)
    OBVIOUS
  <2> QED BY <1>1, <2>3, <2>4, <2>5, <2>6
<1> QED BY <1>1, ApiAssumption DEF ApiTypeOK, BucketsBounded, BucketsRemember

(***************************************************************************)
(* The steps.                                                               *)
(***************************************************************************)

LEMMA ApiStart == InitApi => ApiInv
<1> SUFFICES ASSUME InitApi PROVE ApiInv
    OBVIOUS
<1> USE ApiAssumption DEF InitApi
<1>1. ApiTypeOK
  BY DEF ApiTypeOK
<1>2. BucketsBounded
  BY DEF BucketsBounded
<1>3. \A kinds, from : Since(history, kinds, from) = {} /\ Within(kinds, from) = {}
  BY DEF Since, Within
<1>4. \A from : NotBefore(<<>>, from) = {}
  BY DEF NotBefore
<1>0. Cardinality({}) = 0
  BY FS_EmptySet
<1>5. BucketsRemember
  <2>1. \A kinds, from : Cardinality(Since(history, kinds, from)) = 0
    BY <1>0, <1>3
  <2>2. \A from : Cardinality(NotBefore(allEvents, from)) = 0 /\ Cardinality(NotBefore(ruleEvents, from)) = 0
    BY <1>0, <1>4
  <2> QED BY <2>1, <2>2 DEF BucketsRemember, Remembers
<1>6. WindowsHold
  <2>1. \A kinds, from : Cardinality(Within(kinds, from)) = 0
    BY <1>0, <1>3
  <2> QED BY <2>1 DEF WindowsHold, EveryWindow
<1>7. InFlightCounted
  <2>1. Ruling = {}
    BY DEF Ruling
  <2> QED BY <2>1, FS_EmptySet DEF InFlightCounted
<1> QED BY <1>1, <1>2, <1>5, <1>6, <1>7 DEF ApiInv

\* The windows that have closed are as they were, or the process is another.
LEMMA ClosedWindows ==
  ASSUME ApiTypeOK, [NextApi]_apiVars, NEW kinds, NEW from \in Nat,
         ~(from + WindowSeconds >= moment')
  PROVE  Within(kinds, from)' = Within(kinds, from) \/ Within(kinds, from)' = {}
<1> USE ApiAssumption DEF ApiTypeOK
<1>1. CASE UNCHANGED apiVars
  BY <1>1 DEF apiVars, Within
<1>2. ASSUME NEW c \in ApiCalls, Respond(c)
      PROVE  Within(kinds, from)' = Within(kinds, from)
  BY <1>2 DEF Respond, Within
<1>3. ASSUME NEW c \in ApiCalls, NEW kind \in {"rule", "other"}, Dispatch(c, kind)
      PROVE  Within(kinds, from)' = Within(kinds, from)
  <2> DEFINE e == [t |-> moment, kind |-> kind]
             n == Len(history) + 1
  <2>1. CASE UNCHANGED history
    BY <2>1 DEF Within
  <2>2. CASE history' = Append(history, e)
    <3>1. Len(history') = n /\ n \in Nat /\ n = Len(history) + 1
      BY <2>2
    <3>2. history'[n].t = moment /\ \A i \in 1..Len(history) : history'[i] = history[i]
      BY <2>2
    <3>3. 1..n = (1..Len(history)) \cup {n}
      BY <3>1
    <3>4. ~(moment <= from + WindowSeconds)
      BY <1>3 DEF Dispatch
    <3> HIDE DEF n
    <3> QED BY <3>1, <3>2, <3>3, <3>4 DEF Within
  <2> QED BY <1>3, <2>1, <2>2 DEF Dispatch
<1>4. CASE Elapse
  BY <1>4 DEF Elapse, Within
<1>5. CASE Reboot
  BY <1>5 DEF Reboot, Within
<1> QED BY <1>1, <1>2, <1>3, <1>4, <1>5 DEF NextApi

LEMMA WindowsStep ==
  ApiTypeOK /\ WindowsHold /\ [NextApi]_apiVars /\ (ApiTypeOK /\ BucketsBounded /\ BucketsRemember)'
    => WindowsHold'
<1> SUFFICES ASSUME ApiTypeOK, WindowsHold, [NextApi]_apiVars,
                    (ApiTypeOK /\ BucketsBounded /\ BucketsRemember)'
             PROVE  WindowsHold'
    OBVIOUS
<1>0. Cardinality({}) = 0
  BY FS_EmptySet
<1>1. (\A from \in Nat :
         from + WindowSeconds >= moment =>
           /\ Cardinality(Within({"rule", "other"}, from)) <= GlobalRequests
           /\ Cardinality(Within({"rule"}, from)) <= RuleRequests)'
  BY OpenWindows, PTL
<1>2. ASSUME NEW from \in Nat, ~(from + WindowSeconds >= moment')
      PROVE  /\ Cardinality(Within({"rule", "other"}, from)') <= GlobalRequests
             /\ Cardinality(Within({"rule"}, from)') <= RuleRequests
  <2>1. /\ Within({"rule", "other"}, from)' = Within({"rule", "other"}, from)
             \/ Within({"rule", "other"}, from)' = {}
        /\ Within({"rule"}, from)' = Within({"rule"}, from) \/ Within({"rule"}, from)' = {}
    BY <1>2, ClosedWindows
  <2> QED BY <1>0, <2>1, ApiAssumption DEF WindowsHold, EveryWindow
<1> QED BY <1>1, <1>2 DEF WindowsHold, EveryWindow

LEMMA ApiTypeStep == ApiTypeOK /\ BucketsBounded /\ [NextApi]_apiVars => (ApiTypeOK /\ BucketsBounded)'
<1> SUFFICES ASSUME ApiTypeOK, BucketsBounded, [NextApi]_apiVars
             PROVE  (ApiTypeOK /\ BucketsBounded)'
    OBVIOUS
<1> USE ApiAssumption DEF ApiTypeOK, BucketsBounded
<1>1. CASE UNCHANGED apiVars
  BY <1>1 DEF apiVars
<1>2. ASSUME NEW c \in ApiCalls, Respond(c) PROVE (ApiTypeOK /\ BucketsBounded)'
  BY <1>2 DEF Respond
<1>3. ASSUME NEW c \in ApiCalls, NEW kind \in {"rule", "other"}, Dispatch(c, kind)
      PROVE  (ApiTypeOK /\ BucketsBounded)'
  <2>1. \A max \in Nat, bucket \in Seq(Nat) :
          Len(bucket) <= max => Checked(bucket, max) \in Seq(Nat) /\ Len(Checked(bucket, max)) <= max
    BY CheckedDoes
  <2>2. allEvents' \in Seq(Nat) /\ Len(allEvents') <= GlobalRequests
    BY <1>3, <2>1 DEF Dispatch
  <2>3. ruleEvents' \in Seq(Nat) /\ Len(ruleEvents') <= RuleRequests
    BY <1>3, <2>1 DEF Dispatch
  <2>4. /\ inFlight' \in Nat /\ moment' \in Nat
        /\ served' \in [ApiCalls -> {"idle", "rule", "other"}]
    BY <1>3 DEF Dispatch
  <2>5. history' \in Seq([t : Nat, kind : {"rule", "other"}])
    <3>1. [t |-> moment, kind |-> kind] \in [t : Nat, kind : {"rule", "other"}]
      OBVIOUS
    <3>2. history' = history \/ history' = Append(history, [t |-> moment, kind |-> kind])
      BY <1>3 DEF Dispatch
    <3>3. ASSUME NEW S, NEW e \in S, NEW h \in Seq(S) PROVE Append(h, e) \in Seq(S)
      OBVIOUS
    <3>4. history \in Seq([t : Nat, kind : {"rule", "other"}])
      OBVIOUS
    <3>5. Append(history, [t |-> moment, kind |-> kind]) \in Seq([t : Nat, kind : {"rule", "other"}])
      BY ONLY <3>1, <3>3, <3>4
    <3> QED BY ONLY <3>2, <3>4, <3>5
  <2> QED BY <2>2, <2>3, <2>4, <2>5
<1>4. CASE Elapse
  BY <1>4 DEF Elapse
<1>5. CASE Reboot
  BY <1>5 DEF Reboot
<1> QED BY <1>1, <1>2, <1>3, <1>4, <1>5 DEF NextApi

LEMMA BucketsStep ==
  ApiTypeOK /\ BucketsBounded /\ BucketsRemember /\ [NextApi]_apiVars => BucketsRemember'
<1> SUFFICES ASSUME ApiTypeOK, BucketsBounded, BucketsRemember, [NextApi]_apiVars
             PROVE  BucketsRemember'
    OBVIOUS
<1> USE ApiAssumption
<1>1. CASE UNCHANGED apiVars
  BY <1>1 DEF apiVars, BucketsRemember, Remembers
<1>2. ASSUME NEW c \in ApiCalls, Respond(c) PROVE BucketsRemember'
  BY <1>2 DEF Respond, BucketsRemember, Remembers
<1>3. ASSUME NEW c \in ApiCalls, NEW kind \in {"rule", "other"}, Dispatch(c, kind)
      PROVE  BucketsRemember'
  <2>0. /\ moment \in Nat /\ moment' = moment
        /\ allEvents \in Seq(Nat) /\ ruleEvents \in Seq(Nat)
        /\ Len(allEvents) <= GlobalRequests /\ Len(ruleEvents) <= RuleRequests
    BY <1>3 DEF Dispatch, ApiTypeOK, BucketsBounded
  <2>1. history' = history \/ history' = Append(history, [t |-> moment, kind |-> kind])
    BY <1>3 DEF Dispatch
  <2>2. history' # history =>
          /\ Allows(allEvents, GlobalRequests)
          /\ kind = "rule" => Allows(ruleEvents, RuleRequests)
    BY <1>3 DEF Dispatch
  <2>3. Remembers(allEvents, {"rule", "other"})'
    <3>1. allEvents' = Checked(allEvents, GlobalRequests)
      BY <1>3 DEF Dispatch
    <3>2. allEvents' \in Seq(Nat)
      BY <2>0, <3>1, CheckedDoes
    <3>3. \A from \in Nat :
           from + WindowSeconds >= moment =>
             /\ Cardinality(NotBefore(allEvents, from)) <= Cardinality(NotBefore(allEvents', from))
             /\ (history' # history /\ kind \in {"rule", "other"} /\ moment >= from) =>
                  Cardinality(NotBefore(allEvents, from)) + 1 <= Cardinality(NotBefore(allEvents', from))
      BY <2>0, <2>2, <3>1, CheckedDoes
    <3>4. \A from \in Nat :
           from + WindowSeconds >= moment =>
             Cardinality(Since(history', {"rule", "other"}, from)) <= Cardinality(NotBefore(allEvents', from))
      BY <2>0, <2>1, <3>2, <3>3, StillRemembers DEF BucketsRemember
    <3> QED BY <2>0, <3>4 DEF Remembers
  <2>4. Remembers(ruleEvents, {"rule"})'
    <3>1. CASE Allows(allEvents, GlobalRequests) /\ kind = "rule"
      <4>1. ruleEvents' = Checked(ruleEvents, RuleRequests)
        BY <1>3, <3>1 DEF Dispatch
      <4>2. ruleEvents' \in Seq(Nat)
        BY <2>0, <4>1, CheckedDoes
      <4>3. \A from \in Nat :
             from + WindowSeconds >= moment =>
               /\ Cardinality(NotBefore(ruleEvents, from)) <= Cardinality(NotBefore(ruleEvents', from))
               /\ (history' # history /\ kind \in {"rule"} /\ moment >= from) =>
                    Cardinality(NotBefore(ruleEvents, from)) + 1 <= Cardinality(NotBefore(ruleEvents', from))
        BY <2>0, <2>2, <4>1, CheckedDoes
      <4>4. \A from \in Nat :
             from + WindowSeconds >= moment =>
               Cardinality(Since(history', {"rule"}, from)) <= Cardinality(NotBefore(ruleEvents', from))
        BY <2>0, <2>1, <4>2, <4>3, StillRemembers DEF BucketsRemember
      <4> QED BY <2>0, <4>4 DEF Remembers
    <3>2. CASE ~(Allows(allEvents, GlobalRequests) /\ kind = "rule")
      <4>1. ruleEvents' = ruleEvents
        BY <1>3, <3>2 DEF Dispatch
      <4>2. \A from \in Nat : Cardinality(NotBefore(ruleEvents, from)) \in Nat
        BY <2>0, RecentFinite
      <4>3. \A from \in Nat :
             from + WindowSeconds >= moment =>
               /\ Cardinality(NotBefore(ruleEvents, from)) <= Cardinality(NotBefore(ruleEvents, from))
               /\ (history' # history /\ kind \in {"rule"} /\ moment >= from) =>
                    Cardinality(NotBefore(ruleEvents, from)) + 1 <= Cardinality(NotBefore(ruleEvents, from))
        BY <2>2, <3>2, <4>2
      <4>4. \A from \in Nat :
             from + WindowSeconds >= moment =>
               Cardinality(Since(history', {"rule"}, from)) <= Cardinality(NotBefore(ruleEvents, from))
        BY <2>0, <2>1, <4>3, StillRemembers DEF BucketsRemember
      <4> QED BY <2>0, <4>1, <4>4 DEF Remembers
    <3> QED BY <3>1, <3>2
  <2> QED BY <2>3, <2>4 DEF BucketsRemember
<1>4. CASE Elapse
  <2>1. moment' = moment + 1 /\ UNCHANGED <<allEvents, ruleEvents, history>>
    BY <1>4 DEF Elapse
  <2>2. \A from \in Nat : from + WindowSeconds >= moment' => from + WindowSeconds >= moment
    BY <2>1 DEF ApiTypeOK
  <2> QED BY <2>1, <2>2 DEF BucketsRemember, Remembers
<1>5. CASE Reboot
  <2>1. allEvents' = <<>> /\ ruleEvents' = <<>> /\ history' = <<>>
    BY <1>5 DEF Reboot
  <2>2. \A kinds, from : Since(<<>>, kinds, from) = {} /\ NotBefore(<<>>, from) = {}
    BY DEF Since, NotBefore
  <2>3. \A kinds, from :
          /\ Cardinality(Since(history', kinds, from)) = 0
          /\ Cardinality(NotBefore(allEvents', from)) = 0 /\ Cardinality(NotBefore(ruleEvents', from)) = 0
    BY <2>1, <2>2, FS_EmptySet
  <2> QED BY <2>3 DEF BucketsRemember, Remembers
<1> QED BY <1>1, <1>2, <1>3, <1>4, <1>5 DEF NextApi

\* The counter is the number of requests of the rule under way.
LEMMA InFlightStep == ApiTypeOK /\ InFlightCounted /\ [NextApi]_apiVars => InFlightCounted'
<1> SUFFICES ASSUME ApiTypeOK, InFlightCounted, [NextApi]_apiVars, MaxInFlight > 0
             PROVE  /\ IsFiniteSet(Ruling')
                    /\ Cardinality(Ruling') = inFlight'
                    /\ inFlight' <= MaxInFlight
    BY DEF InFlightCounted
<1>0. IsFiniteSet(Ruling) /\ Cardinality(Ruling) = inFlight /\ inFlight <= MaxInFlight
  BY DEF InFlightCounted
<1> USE ApiAssumption DEF ApiTypeOK
<1>1. CASE UNCHANGED <<served, inFlight>>
  <2>1. Ruling' = Ruling
    BY <1>1 DEF Ruling
  <2> QED BY <1>0, <1>1, <2>1
<1>2. ASSUME NEW c \in ApiCalls, Respond(c)
      PROVE  /\ IsFiniteSet(Ruling')
             /\ Cardinality(Ruling') = inFlight'
             /\ inFlight' <= MaxInFlight
  <2>1. Ruling' = Ruling \ {c}
    BY <1>2 DEF Respond, Ruling
  <2>2. c \in Ruling <=> served[c] = "rule"
    BY DEF Ruling
  <2>3. IsFiniteSet(Ruling') /\ Cardinality(Ruling') = IF c \in Ruling THEN inFlight - 1 ELSE inFlight
    BY <1>0, <2>1, FS_RemoveElement
  <2>4. c \in Ruling => inFlight > 0
    BY <1>0, FS_EmptySet
  <2> QED BY <1>0, <1>2, <2>2, <2>3, <2>4 DEF Respond
<1>3. ASSUME NEW c \in ApiCalls, NEW kind \in {"rule", "other"}, Dispatch(c, kind),
             ~UNCHANGED <<served, inFlight>>
      PROVE  /\ IsFiniteSet(Ruling')
             /\ Cardinality(Ruling') = inFlight'
             /\ inFlight' <= MaxInFlight
  <2>1. /\ served[c] = "idle" /\ served' = [served EXCEPT ![c] = kind]
        /\ kind = "rule" => Acquires
        /\ inFlight' = IF kind = "rule" /\ MaxInFlight > 0 THEN inFlight + 1 ELSE inFlight
    BY <1>3 DEF Dispatch
  <2>2. Ruling' = IF kind = "rule" THEN Ruling \cup {c} ELSE Ruling
    BY <2>1 DEF Ruling
  <2>3. c \notin Ruling
    BY <2>1 DEF Ruling
  <2>4. IsFiniteSet(Ruling \cup {c}) /\ Cardinality(Ruling \cup {c}) = inFlight + 1
    BY <1>0, <2>3, FS_AddElement
  <2> QED BY <1>0, <2>1, <2>2, <2>4 DEF Acquires
<1>4. CASE Elapse
  BY <1>1, <1>4 DEF Elapse
<1>5. CASE Reboot
  <2>1. Ruling' = {} /\ inFlight' = 0
    BY <1>5 DEF Reboot, Ruling
  <2> QED BY <2>1, FS_EmptySet
<1> QED BY <1>1, <1>2, <1>3, <1>4, <1>5 DEF NextApi, apiVars

LEMMA ApiStep == ApiInv /\ [NextApi]_apiVars => ApiInv'
<1> SUFFICES ASSUME ApiInv, [NextApi]_apiVars PROVE ApiInv'
    OBVIOUS
<1>1. (ApiTypeOK /\ BucketsBounded)'
  BY ApiTypeStep DEF ApiInv
<1>2. BucketsRemember'
  BY BucketsStep DEF ApiInv
<1>3. WindowsHold'
  BY <1>1, <1>2, WindowsStep DEF ApiInv
<1>4. InFlightCounted'
  BY InFlightStep DEF ApiInv
<1> QED BY <1>1, <1>2, <1>3, <1>4 DEF ApiInv

LEMMA WindowsKept == ApiInv => WindowIsKept
<1> SUFFICES ASSUME ApiInv PROVE WindowIsKept
    OBVIOUS
<1>1. \A from \in 0..moment : from \in Nat
  BY DEF ApiInv, ApiTypeOK
<1>2. MaxInFlight > 0 => Cardinality({c \in ApiCalls : served[c] = "rule"}) <= MaxInFlight
  BY DEF ApiInv, InFlightCounted, Ruling
<1> QED BY <1>1, <1>2 DEF ApiInv, WindowsHold, EveryWindow, WindowIsKept

\* The buckets and the requests have their types in every reachable state (InMemoryRateLimiter).
THEOREM ApiTypesHold == ApiSpec => []ApiTypeOK
<1>1. ApiInv => ApiTypeOK
  BY DEF ApiInv
<1> QED BY <1>1, ApiStart, ApiStep, PTL DEF ApiSpec

\* Wherever a window is laid over the requests that one process let through, it holds no more
\* than the limits, for any limits and windows and any number of requests at the same time
\* (InMemoryRateLimiter, SecurityRateLimitMiddleware.dispatch).
THEOREM LimitsAreKept == ApiSpec => []WindowIsKept
BY WindowsKept, ApiStart, ApiStep, PTL DEF ApiSpec

(***************************************************************************)
(* The platform.                                                           *)
(***************************************************************************)

LEMMA PartsStart ==
  Init => InitAccounts /\ InitRoles /\ InitIncidents /\ InitBots /\ InitLibrary /\ InitLimits /\ InitApi
BY DEF Init

\* A step of the platform is a step of one part, and the other parts stutter.
LEMMA PartsStep ==
  [Next]_vars =>
    /\ [NextAccount]_accountVars /\ [NextRole]_roleVars /\ [NextIncident]_incidentVars
    /\ [NextBot]_botVars /\ [NextLibrary]_libraryVars /\ [NextLimit]_limitVars /\ [NextApi]_apiVars
BY DEF Next, vars

\* The platform implements the specification of each of its parts, services and routes alike: they
\* share the process and no state.
THEOREM PlatformImplementsParts ==
  Spec => /\ AccountSpec /\ RoleSpec /\ IncidentSpec /\ BotSpec /\ LibrarySpec /\ LimitSpec /\ ApiSpec
BY PartsStart, PartsStep, PTL
DEF Spec, AccountSpec, RoleSpec, IncidentSpec, BotSpec, LibrarySpec, LimitSpec, ApiSpec

\* The tables, the counters and the requests under way have their types in every reachable state of
\* the platform.
THEOREM PlatformTypesHold == Spec => []TypeOK
BY PlatformImplementsParts, AccountTypesHold, RoleTypesHold, IncidentTypesHold, BotTypesHold,
   LibraryTypesHold, LimitTypesHold, ApiTypesHold, PTL
DEF TypeOK

\* Neither updates (_acquire_limit) nor requests (SecurityRateLimitMiddleware.dispatch) are let in
\* beyond their limits.
THEOREM LimitsHold == Spec => []AdmittedWithinLimits
BY PlatformImplementsParts, InFlightBounded, LimitsAreKept, PTL DEF AdmittedWithinLimits

================================================================================
