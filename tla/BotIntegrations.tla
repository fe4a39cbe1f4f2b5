---------------------------- MODULE BotIntegrations ----------------------------
(***************************************************************************)
(* The Telegram bots of the companies.  An integration is a row with the    *)
(* bot's token; Telegram has, for each bot, the webhook that was registered *)
(* last, which names an integration and its secret.  The dashboard connects *)
(* a bot, rotates its token, enables, disables and deletes it, and a script *)
(* registers all webhooks again.  Row and webhook are changed one after the *)
(* other, and a webhook belongs to the bot, not to the row.                 *)
(* The public base URL of the webhooks is configured.                       *)
(***************************************************************************)
EXTENDS Naturals

CONSTANTS
  Integrations,    \* ids of integrations
  TelegramBots,    \* bots at Telegram
  Admins,          \* requests, and runs of the script, under way at the same time
  Nowhere,         \* no integration
  MaxRevocations,  \* bound: tokens replaced at Telegram
  MaxOpened        \* bound: requests

ASSUME BotAssumption ==
  /\ Nowhere \notin Integrations
  /\ MaxRevocations \in Nat
  /\ MaxOpened \in Nat

VARIABLES
  bots,       \* the table bot_integrations
  webhook,    \* Telegram: the integration each bot's updates are sent to
  newest,     \* Telegram: the number of each bot's valid token
  admin,      \* the requests being served
  opened,     \* requests so far
  disturbed   \* history: integrations that something the code does not handle has happened to

botVars == <<bots, webhook, newest, admin, opened, disturbed>>

Token == [bot : TelegramBots, n : 0..MaxRevocations]

\* The columns status, token_encrypted and token_hash; the hash is unique.
BotRow ==
  [status : {"active", "disabled", "error"}, token : Token, hash : Token]
    \cup {[status |-> "unused"], [status |-> "deleted"]}

Exists(row) == row.status \in {"active", "disabled", "error"}

\* A request about one integration: the row as it was read, and as it is to be.
NoAdmin ==
  [kind |-> "none", at |-> "idle", id |-> Nowhere,
   base |-> [status |-> "unused"], mine |-> [status |-> "unused"]]

ValidToken(t) == t.n = newest[t.bot]

\* Another integration has the token.
Connected(i, t) == \E j \in Integrations \ {i} : Exists(bots[j]) /\ bots[j].hash = t

\* The other integrations whose bot is b, or is about to be.
Sharing(i, b) ==
  {j \in Integrations \ {i} :
     \/ Exists(bots[j]) /\ bots[j].token.bot = b
     \/ \E a \in Admins : admin[a].id = j /\ admin[a].mine.token.bot = b}

\* Some integrations exist, each with a bot of its own.  The webhook of one that is not active
\* may be missing.
InitBots ==
  /\ webhook \in [TelegramBots -> Integrations \cup {Nowhere}]
  /\ bots \in [Integrations -> {row \in BotRow : Exists(row) => row.token.n = 0 /\ row.hash = row.token}
                                  \ {[status |-> "deleted"]}]
  /\ \A i, j \in Integrations :
       i # j /\ Exists(bots[i]) /\ Exists(bots[j]) => bots[i].token # bots[j].token
  /\ \A b \in TelegramBots :
       webhook[b] # Nowhere => Exists(bots[webhook[b]]) /\ bots[webhook[b]].token.bot = b
  /\ \A i \in Integrations : bots[i].status = "active" => webhook[bots[i].token.bot] = i
  /\ newest = [b \in TelegramBots |-> 0]
  /\ admin = [a \in Admins |-> NoAdmin]
  /\ opened = 0
  /\ disturbed = {}

Open(a, kind, stage, i, base, mine) ==
  /\ admin[a] = NoAdmin
  /\ opened < MaxOpened
  /\ opened' = opened + 1
  /\ admin' = [admin EXCEPT ![a] =
       [kind |-> kind, at |-> stage, id |-> i, base |-> base, mine |-> mine]]
  /\ UNCHANGED <<bots, webhook, newest, disturbed>>

Close(a) == admin' = [admin EXCEPT ![a] = NoAdmin]

(***************************************************************************)
(* Requests are accepted; Telegram has confirmed a new token (getMe).       *)
(***************************************************************************)

CreateBot(a, i, t) ==
  LET row == [status |-> "active", token |-> t, hash |-> t]
  IN /\ bots[i].status = "unused"
     /\ \A b \in Admins : admin[b].id # i
     /\ ValidToken(t)
     /\ Open(a, "create", "inserting", i, row, row)

RotateToken(a, i, t) ==
  /\ Exists(bots[i])
  /\ ValidToken(t)
  /\ Open(a, "rotate", "registering", i, bots[i], [status |-> "active", token |-> t, hash |-> t])

EnableBot(a, i) ==
  /\ Exists(bots[i])
  /\ Open(a, "enable", "registering", i, bots[i], [bots[i] EXCEPT !.status = "active"])

DisableBot(a, i) ==
  /\ Exists(bots[i])
  /\ Open(a, "disable", "committing", i, bots[i], [bots[i] EXCEPT !.status = "disabled"])

DeleteBot(a, i) ==
  /\ Exists(bots[i])
  /\ Open(a, "delete", "unhooking", i, bots[i], bots[i])

\* Names, messages and the project change; the webhook's address is computed again.
UpdateBot(a, i) ==
  /\ Exists(bots[i])
  /\ Open(a, "update", "committing", i, bots[i], bots[i])

\* The script registers the webhook of an integration that was "active" or "error" when it
\* started, or finds that the public address does not lead to this backend.
SyncBot(a, i) ==
  /\ bots[i].status \in {"active", "error"}
  /\ \/ Open(a, "sync", "registering", i, bots[i], [bots[i] EXCEPT !.status = "active"])
     \/ Open(a, "sync", "committing", i, bots[i], [bots[i] EXCEPT !.status = "error"])

(***************************************************************************)
(* Requests go on.                                                          *)
(***************************************************************************)

\* The first commit of a creation.
InsertBot(a) ==
  LET c == admin[a]
  IN /\ c.at = "inserting"
     /\ IF Connected(c.id, c.mine.hash)
        THEN Close(a) /\ UNCHANGED bots
        ELSE /\ bots' = [bots EXCEPT ![c.id] = c.mine]
             /\ admin' = [admin EXCEPT ![a].at = "registering"]
     /\ UNCHANGED <<webhook, newest, opened, disturbed>>

\* setWebhook: Telegram refuses or cannot be reached, or sets the webhook and its answer arrives
\* or is lost.  An error becomes the status of the integration.
Register_KeepsStatus(a) ==
  LET c == admin[a]
      b == c.mine.token.bot
  IN /\ c.at = "registering"
     /\ \E set, answered \in BOOLEAN :
          /\ set => ValidToken(c.mine.token)
          /\ webhook' = IF set THEN [webhook EXCEPT ![b] = c.id] ELSE webhook
          /\ disturbed' = IF set THEN disturbed \cup Sharing(c.id, b) ELSE disturbed
          /\ admin' = [admin EXCEPT ![a].at = "committing"]
     /\ UNCHANGED <<bots, newest, opened>>

Register(a) ==
  LET c == admin[a]
      b == c.mine.token.bot
  IN /\ c.at = "registering"
     /\ \E set, answered \in BOOLEAN :
          /\ set => ValidToken(c.mine.token)
          /\ webhook' = IF set THEN [webhook EXCEPT ![b] = c.id] ELSE webhook
          /\ disturbed' = IF set THEN disturbed \cup Sharing(c.id, b) ELSE disturbed
          /\ admin' = [admin EXCEPT ![a].at = "committing",
                         ![a].mine.status = IF set /\ answered THEN @ ELSE "error"]
     /\ UNCHANGED <<bots, newest, opened>>

\* The UPDATE of the changed columns: a rotation encrypts its token anew and always writes it.
\* A row that is gone, or a token that another integration has, makes the commit raise.
CommitBot(a) ==
  LET c   == admin[a]
      row == bots[c.id]
  IN /\ c.at = "committing"
     /\ IF ~Exists(row) \/ (c.mine.hash # c.base.hash /\ Connected(c.id, c.mine.hash))
        THEN UNCHANGED <<bots, disturbed>>
        ELSE /\ bots' = [bots EXCEPT ![c.id] =
                  [ status |-> IF c.mine.status # c.base.status THEN c.mine.status ELSE row.status,
                    token  |-> IF c.kind = "rotate" THEN c.mine.token ELSE row.token,
                    hash   |-> IF c.mine.hash # c.base.hash THEN c.mine.hash ELSE row.hash ]]
             /\ disturbed' = IF row # c.base /\ c.kind # "update" THEN disturbed \cup {c.id} ELSE disturbed
     /\ Close(a)
     /\ UNCHANGED <<webhook, newest, opened>>

\* deleteWebhook; an error is ignored.
Unhook(a) ==
  LET c == admin[a]
      b == c.mine.token.bot
  IN /\ c.at = "unhooking"
     /\ \E removed \in BOOLEAN :
          /\ removed => ValidToken(c.mine.token)
          /\ webhook' = IF removed THEN [webhook EXCEPT ![b] = Nowhere] ELSE webhook
          /\ disturbed' = IF removed THEN disturbed \cup Sharing(c.id, b) ELSE disturbed
     /\ admin' = [admin EXCEPT ![a].at = "removing"]
     /\ UNCHANGED <<bots, newest, opened>>

RemoveBot(a) ==
  /\ admin[a].at = "removing"
  /\ bots' = [bots EXCEPT ![admin[a].id] = [status |-> "deleted"]]
  /\ Close(a)
  /\ UNCHANGED <<webhook, newest, opened, disturbed>>

\* The process dies, or its commit fails.  Nothing completes a creation or a deletion.
AdminDies(a) ==
  /\ admin[a] # NoAdmin
  /\ disturbed' = IF admin[a].kind \in {"create", "delete"}
                  THEN disturbed \cup {admin[a].id} ELSE disturbed
  /\ Close(a)
  /\ UNCHANGED <<bots, webhook, newest, opened>>

\* Deleting its project deletes the row, and Telegram is not told.
CascadeDelete(i) ==
  /\ Exists(bots[i])
  /\ bots' = [bots EXCEPT ![i] = [status |-> "deleted"]]
  /\ UNCHANGED <<webhook, newest, admin, opened, disturbed>>

\* The company has Telegram replace the token of its bot.
RevokeToken(b) ==
  /\ newest[b] < MaxRevocations
  /\ newest' = [newest EXCEPT ![b] = @ + 1]
  /\ UNCHANGED <<bots, webhook, admin, opened, disturbed>>

NextBot ==
  \/ \E a \in Admins, i \in Integrations :
       \/ \E t \in Token : CreateBot(a, i, t) \/ RotateToken(a, i, t)
       \/ EnableBot(a, i) \/ DisableBot(a, i) \/ DeleteBot(a, i) \/ UpdateBot(a, i) \/ SyncBot(a, i)
  \/ \E a \in Admins :
       \/ InsertBot(a) \/ Register(a) \/ CommitBot(a)
       \/ Unhook(a) \/ RemoveBot(a) \/ AdminDies(a)
  \/ \E i \in Integrations : CascadeDelete(i)
  \/ \E b \in TelegramBots : RevokeToken(b)

BotSpec == InitBots /\ [][NextBot]_botVars

BotTypeOK ==
  /\ bots \in [Integrations -> BotRow]
  /\ webhook \in [TelegramBots -> Integrations \cup {Nowhere}]
  /\ newest \in [TelegramBots -> 0..MaxRevocations]
  /\ \A a \in Admins : admin[a] # NoAdmin =>
       /\ admin[a].id \in Integrations
       /\ Exists(admin[a].base) /\ Exists(admin[a].mine)
  /\ disturbed \subseteq Integrations

\* An integration shown as "active" gets its bot's updates, whatever Telegram refuses, loses or
\* revokes (register_webhook and its callers).  Excluded is only what the code does not handle:
\* a creation or deletion cut short, a commit over a row that had changed since it was read, and
\* a call about the same bot by another integration.
ActiveIsReached ==
  \A i \in Integrations :
    /\ bots[i].status = "active"
    /\ \A a \in Admins : admin[a].id # i
    /\ i \notin disturbed
    => webhook[bots[i].token.bot] = i
================================================================================
