# Verification of Answerly

TLA+ models, TLC runs and TLAPS proofs for the Answerly backend: a multi-tenant service in which a
company uploads documents, connects a Telegram or WhatsApp bot to them, and lets the bot answer its
customers. Everything here is translated from the source; paths are relative to the repository root
(`src/` in `PROJECT.json`).

    tlc -config TelegramOutbox.cfg MCOutboxDeployments     # a run
    tlapm TelegramOutboxProofs.tla                            # the proofs of a module

## 1. The system

The backend is a FastAPI web server (one uvicorn process as deployed), Celery workers (prefork
processes, two by default) behind a RabbitMQ broker, a beat process that starts periodic tasks,
PostgreSQL, Redis (task results, counters of the webhook's throttle), and a Node process that holds the
WhatsApp sockets. They share nothing but the database, the broker, Redis and files, so what makes the system hard is not inside one process: it is what lies
between one commit and the next, and between two systems that are changed one after the other.

| Component | State it keeps | Operations | Interacts through | What is hard | What makes it correct |
|---|---|---|---|---|---|
| Telegram outbox `tasks/telegram_outbox.py` | delivery columns of `conversation_messages` | poll, claim, send, record, retry | rows, Telegram | batches that outlive their row locks, lost answers, crashes, old claims | "sent" is true and final, bounded deliveries, every message settled |
| Reply generation `tasks/telegram_query.py` | `reply_generation_status`, conversation, bot status | claim, load, answer, commit | rows, broker, LLM | second tasks, expired claims, minutes between load and commit | one reply, none lost |
| Telegram webhook `services/telegram_webhook_service.py` | customer, conversation, message rows; throttle counters in Redis and memory | throttle, receive, store, enqueue, answer | Telegram, broker, Redis | commit and enqueue are two steps, duplicates, counters changed by separate calls | every update answered, every stored message has a task, limits kept |
| Conversations `services/conversation_service.py` | conversation and customer status | escalate, resolve, assign, block, manual reply | rows, outbox | they race with the webhook and the reply tasks | a blocked customer stays out |
| Bot integrations `services/bot_integration_service.py`, `scripts/` | bot status, token, webhook secret | create, enable, disable, rotate, delete, register all | rows, Telegram | two systems to keep in step, a webhook belongs to a bot and not to a row | an active bot is reached |
| WhatsApp webhook, reply, outbox `whatsapp_webhook_service.py`, `whatsapp_query.py`, `whatsapp_outbox.py` | as for Telegram | as for Telegram | bridge, rows, broker | a message is handed over once; duplicates are acknowledged without a task; the outbox gives up calls that go on | deliveries counted, every stored message leads to a reply |
| WhatsApp bridge `whatsapp-bridge/src/whatsappClient.ts` | map of sessions, timers, credential files | start, QR, reconnect, expire, log out, delete, report | callbacks, HTTP | awaits between look-up and insertion, timers of dead sockets, lost and reordered reports | one socket to a session, credentials last, a deleted session is gone |
| Document processing `tasks/file_processing.py` | document status, chunks, vectors | check, load, chunk, index, replace, fail | rows, broker, embedding provider | three transactions in one task, redelivery, deletion | completed means searchable |
| Workflow and indexing `tasks/process_workflow.py`, `tasks/data_indexing.py` | parent and child execution rows | dispatch chain, reconcile, retry | broker, rows | rows written after dispatch, reconciliation from several readers | the parent's success is earned by its children |
| Indexing of a project's chunks `tasks/data_indexing.py`, `services/embedding_service.py`, `providers/llm/`, `providers/vectordb/` | the batches' calls, a semaphore, vectors | cut into batches, ask, retry, gather, pair, store | embedding provider, vector store | batches end in any order, answers without vectors, upserts done in part | every chunk has its own vector, success means all have |
| Task records `utils/idempotency_manager.py`, `utils/task_tracking.py` | `celery_task_executions` | check, upsert, status, reconcile, clean up | rows | check and insert are two steps; late writes by the web server | a success is true, no row blocks for ever |
| Document library `controllers/document_controller.py`, `project_controller.py` | rows and files of a project | upload, delete, delete the project | rows, file system | files and rows are changed one after the other | rows and files agree |
| Retrieval `services/query_service.py`, `answer_service.py` | none | search, read, rank, pack the prompt, answer | vector store, LLM | the table changes between search and read | an answer rests on its sources |
| Accounts `services/auth_service.py`, `routes/auth.py`, `security/` | account status, failures, locks, violations | sign in by token, password, Google, refresh; suspend, block, restore | rows, memory of the process | every request has its own copy of the row; automatic restore against an operator's change | who is barred stays out, sanctions stand |
| Roles `routes/admin_roles.py`, `security/` | the users' roles | assign, demote, promote the configured owner | rows | count and write are two steps | the platform keeps an owner |
| Incidents `services/incident_management_service.py` | incidents, their log, the audit log | create, assign, move on, annotate, act on an account | rows, background tasks | two engineers at once, creation that fails | the log tells the truth |
| API limits `security/rate_limit.py`, `middleware.py` | sliding windows, requests under way | check, acquire, release | memory of the process | boundaries of the windows, slots given back | no window holds more than its limit |
| Settings `runtime_config.py` | the settings file | lock, merge, replace | file system | a waiter that times out removes a lock that is held | an acknowledged update stays |
| Text providers, schema, monitoring, front end, legacy bot | none | one request each | I/O | nothing a model checker reaches | out of scope |

`PROJECT.json` lists every component with its status, and under "hazards" each place in the code where
an order of events nobody tests could go wrong, with the properties that watch it.

## 2. The modules

| Module | Models | Role |
|---|---|---|
| `MessageDelivery` | what the outbox promises | abstract specification |
| `TelegramOutbox` | `telegram_outbox.py` on several workers | implements `MessageDelivery` |
| `ReplyGeneration` | webhook, reply task, dashboard | composition of the three over shared rows |
| `WhatsAppBridge` | one session of the Node bridge, its row, dashboard routes and reports | component |
| `WhatsAppMessages` | webhook, reply task and outbox of WhatsApp | extends `WhatsAppBridge`: a message goes through the session |
| `DocumentProcessing` | `file_processing.py`, the execution rows, the routes that queue and poll | component |
| `ProcessAndIndex` | the workflow task, its chain, the children's and its own row | component; processing is one step |
| `VectorIndexing` | the calls that turn a project's chunks into vectors, and their way into either store | component |
| `DocumentLibrary` | rows and files of a project | component |
| `RuntimeConfig` | the settings file and its lock | component |
| `Retrieval` | a question, from search to sources | component |
| `AccountStatus` | account status, sign-in, policies, operators | component |
| `RoleAssignment` | platform owners | component |
| `IncidentResponse` | incidents and both logs | component |
| `BotIntegrations` | rows of the bots against Telegram's webhooks | component |
| `WebhookLimits` | the throttle in front of the Telegram webhook | component |
| `ApiLimits` | the limits in front of the routes | component |
| `TelegramOutboxProofs`, `ReplyGenerationProofs`, `DocumentProcessingProofs`, `VectorIndexingProofs` | | theorems about the module they are named after |
| `WhatsAppProofs` | | `WhatsAppBridge`, `WhatsAppMessages` |
| `AdministrationProofs` | | `AccountStatus`, `RoleAssignment`, `IncidentResponse` |
| `PlatformProofs` | | `BotIntegrations`, `DocumentLibrary`, `WebhookLimits`, `ApiLimits`, and `MCPlatform` that composes them with the three above |
| `KnowledgeBaseProofs` | | `RuntimeConfig`, `Retrieval`, `ProcessAndIndex`, and `MCKnowledgeBase` that composes them with `VectorIndexing` |
| `MC...` | instances for TLC | `MCKnowledgeBase` and `MCPlatform` hold components that share no state, `MCOutboxDeployments` two deployments of the outbox: a behaviour exercises one of them (`part`, `deployment`), so that their interleavings are not multiplied |

Conventions. One action is one database transaction or one external call; what a handler does between
two commits is one step, since nobody sees it. A definition `X_Y` placed just before `X` is a faulty
variant of `X`, a slip that a property must catch; nothing uses it. Bounds are constants named
`Max...`. The kinds of fault a behaviour may contain are a constant too. A history variable records
that something the code does not handle has happened (`overlapped`, `raced`, `skewed`, ...); the
properties name it as their exception, and section 3 says what it stands for.

### TelegramOutbox

`row` is the table, `cache` the session's copies of the rows, `pc`, `batch` and `busy` a worker's place in
the task. `Poll` is the `SELECT ... FOR UPDATE SKIP LOCKED` with its `ORDER BY` and `LIMIT`; `Claim`,
`Send`, `RecordSent`, `RecordError` and `Reject` are the body of the loop, each ending with the commit
the code does there. Two facts of the code carry the model: the first commit releases the locks of the
*whole* batch (`Locked` is empty from then on), and the session was made with
`expire_on_commit=False`, so a commit writes the columns whose value differs from a copy that may be
old (`Written`). A time stamp is kept as an age or as time left, because the WHERE clause compares
nothing else; `Tick` ages them. `StaleData` is the commit that matches no row because the message was
deleted, and `Crash` the death of a worker.

### ReplyGeneration

One bot, one customer, several updates of which one may be an edit of another (same `message_id`,
other `update_id`). A request goes `Receive` (bot status, duplicate check, customer's SELECT), `Store`
(commit of customer, conversation and message), `Enqueue` or `EnqueueFails` (503, so that Telegram sends
the update again). `Conflict` is the IntegrityError of the unique indexes. A worker goes `Claim` (conditional
on `reply_generation_status` and the age of the claim), `Load` (bot and conversation, kept in the
session), `Finish`, the one commit of reply, claim, bot status and conversation, in which a column is
written only if the task changed it (`Column`). Telegram resends an update until it is answered 2xx.
Celery acknowledges late: a task whose whole worker dies is delivered again (`Crash`), one that is killed
by the time limit or raises is acknowledged (`Abort`). `Dashboard` holds the operations of
`conversation_service.py` and `bot_integration_service.py`.

Simplifications: a dashboard operation is atomic (the call that registers the webhook with Telegram in
the middle of enabling a bot is left out); any active conversation may be "the latest one"; the text of an
answer is reduced to answered, handed over, failed; a message row vanishes only with its bot.

### DocumentProcessing

One document and the tasks queued for it. `Dispatch` queues a task, `RecordOwner` is the row the web
server writes *afterwards*, `Poll` the task status request that copies Celery's result into an open row.
The worker goes through `Check` (`should_execute_task`), `Record` (own row), `Load`, `Mark`, `Store`,
`Index`, `DropVectors`, `DropRows`, `Complete`, `Conclude`, each up to the next commit. `Fail` is the except
branch, `Vanish` a commit that finds the document deleted. The chunks of one run form a generation.

What the code does that is easy to miss, and the model keeps:

* `should_execute_task` does not take over an old execution: `datetime.utcnow()` minus a `timestamptz`
  raises TypeError, so an open row of another task ends the new task with FAILURE (`Verdict`).
* The vectors are uncommitted until the next commit of the task's session. With old chunks this is the
  commit in `_delete_chunk_ids`, without it is that of "completed".
* The vector store deletes old chunks in a session of its own, which waits for row locks. If `add_vectors`
  fails after some updates, the task waits for itself until the time limit (`Jam`).
* The branch for a document that was "completed" before (line 370) is never taken: such a document
  ends the task at line 203.
* The web server's `SELECT` and `UPDATE` in `record_task_owner` may straddle the worker's commit; the three
  outcomes are a nondeterministic choice in `RecordOwner`.

PENDING, STARTED and RETRY are one status, "open": the checks treat them alike. The pgvector store is
the one modelled here (the default); `VectorIndexing` has both. The file on disk is not modelled: every run may fail.

### ProcessAndIndex

The request to process and index a document. `Tasks` are the workflow tasks and the two children of
every chain they queue; each goes through the check of `idempotency_manager.py`, its own row and its
work. The workflow writes its children's rows *after* it has dispatched the chain, so a child's row may be
set back to PENDING when it has long ended; every child and every poll reconciles the workflow's row
(`reconcile_process_and_index_workflow`), in one step, its reads and its write together. A workflow that raises is retried. A refused child or workflow
stays "open", because `should_execute_task` raises before anything is recorded. What processing does
to chunks is one step here, that of `DocumentProcessing`.

### VectorIndexing

A text t is a number, which also stands for its vector. `Batches` cuts the texts; a batch's call
(`batch[b]`) is let in by the semaphore in the order of the batches (`Enter`) and is answered
(`CallAnswers`), fails and is retried or not (`CallFails`), and goes on after its pause (`Resume`). Gemini
is asked for a batch in one call, whose answer may hold no vectors (`response.embeddings or []`); Cohere in
shares that respect a budget of tokens (`Share`), one batch at a time. The first failure that is not retried
ends the task. `Gather` waits for all batches and puts the vectors together in the order of the batches.
`UpdateRows` is pgvector's one transaction, which compares the numbers of chunks and vectors first; `Upsert` one of Qdrant's
upserts, which may be done although it is reported as failed, is tried again, and pairs chunks and vectors by
`zip`. `Rerun` starts the task again over what the last run left.

### DocumentLibrary

An upload checks the project, saves the file and then inserts the row; a deletion removes the file and
then the row; the deletion of the project removes directory, rows and project. Requests fail and die
between the steps. File names are unique, so one project suffices.

### WhatsAppBridge and WhatsAppMessages

A session object lives as long as the map (`current`), a timer or an open socket refers to it;
`session` holds these objects, `starts` the calls of `startSession` between their awaits. The bridge is
one process, atomic between two awaits. `files` are the credentials, `row` the integration's row,
`reports` the status reports on their way: a set, in which equal ones merge, which come in any order
and may be lost. The backend's statuses are reduced to those that the webhook, the page and a reader of
the row tell apart: initializing and qr_ready are "starting", pending, disconnected and expired are "over".

`poll` is a session-status request: it loads the row (`PollRead`), asks the bridge (`PollAsk`, `PollFails`) and
writes what the bridge answered (`PollWrite`), each at its own time. `page` is the query of the dashboard's page, which asks
when it is opened or a connect request has succeeded, and again only after an answer that says "starting"
(`Show`, `page.tsx:40-44`).

`deleteSession` does not wait for `sock.logout()` and only logs its rejection (`Logout`). An accepted logout
leaves a socket that closes; a rejected one, of a paired device whose socket cannot send yet, leaves a socket
with its handlers that is in no map and may still open. The page's dialog says that deleting "logs out any active session"
(`whatsapp-bots/[botId]/page.tsx:205`); in that case it does not, and `OneSocket` and `DeletedGoesAway` say what is left.

An empty directory may remain after a deletion. One start per kind of caller runs at a time, and one status
request.

`WhatsAppMessages` takes one customer's message through that session: the bridge forwards it once and
ignores the answer, the webhook stores it and queues a task, the task writes a reply, and the outbox asks
the bridge to send it, which may have to start the session. There is no clock: a claim left by a dead
worker has expired or not. One outbox worker; the overlap of batches is that of `TelegramOutbox`, whose
structure is the same.

### Retrieval

`table` changes while a question goes from search to read to ranking: hits whose document is gone have
no text. `found` is the set of chunks found and later read, `hits` the ranked sequence, and `Context` the loop of
`_build_context` over it. Scores are not modelled, so every order of the hits is possible; texts have sizes, and are packed
into the prompt up to a budget, of which the first may exceed it and is cut.

### RuntimeConfig

An update creates the lock file, reads and merges the settings, writes a temporary file and renames it.
A waiter that times out, or a failing update, removes the lock in its `finally` clause, whoever made it.
An open handle keeps writing to the file it opened even when that was renamed (`target`).

### AccountStatus

A request's session holds one copy of the account's row (`base` as read, `mine` as changed): SQLAlchemy's
identity map with `expire_on_commit=False` reads it once, and a commit writes the columns that differ
(`Saved`). Kinds of request: password login, Google sign-in, a request with a token, an upload found
malicious, rate limit abuse, and an operator's suspend, block and restore; `failures`, `lockedUntil` and `violations` are kept in the memory of the
process and are gone after `Restart`. The clock is coarse. With the default settings (window 60 s, lock
300 s) failures beyond the lock's threshold come only from requests that overlap. Google sign-in refuses
an account whose suspension has expired; only a request with a token or a password login lifts it.

### RoleAssignment, IncidentResponse

`RoleAssignment`: authorisation, the read of the target, the count of the owners and the write are separate
steps of a `call`. `IncidentResponse`: an event starts a background task that chooses the engineer with
the fewest open incidents and creates the incident; an engineer's request (`tab`) reads the incident with its
log and commits one changed column with an entry in either log. The account of the incident's user is changed
only by the actions of incidents here: sign-ins, policies and operators are in `AccountStatus`, and
`TimelineIsTrue` speaks of the account only as far as incidents act on it.

### BotIntegrations

`bots` is the table, `webhook` what Telegram has registered for each bot, `admin` the requests under
way. `Register` is `setWebhook`: refused, unreachable, or done with its answer lost. The column-wise commit
is as above. A company may have Telegram replace a token (`RevokeToken`), which leaves the webhook. The
script that registers all webhooks is one request per integration, with the row read at its start. The
public base URL is assumed to be configured.

### WebhookLimits, ApiLimits

`WebhookLimits`: increment, time to live and decrement of the Redis counter are separate calls; one that
fails sends the update to the counter in memory, also when it was already counted in Redis. `KeyExpires`
needs that no update came for the time to live. A slot leaked by a process that died lasts as long as
updates keep arriving, since refused ones renew the time to live; `Limit` leaks refuse every update of a
busy bot. The request counts per minute are left out: a refusal changes nothing. `ApiLimits`: one caller and
one rule with a sliding window each and a limit on requests under way; callers and rules share nothing.

## 3. What is checked

| Run | Instance | Distinct states | What it shows |
|---|---|---|---|
| `outbox` | 2 workers, 1 crash, 1 deletion, 2 attempts: 3 messages of which one is undeliverable, in one-row polls; or 2 messages in batches of 2 | 160 thousand | one-row polls: exclusive claims, deliveries within attempts, "failed" and "sent" reliable, every message settles, refinement of `MessageDelivery` (with it, "sent" is final); overlapping batches: "sent" still means delivered, and messages settle up to a row of finding 2 |
| `outbox_duplicate` | 2 workers, batches of 2, no faults | violation | a message is sent twice |
| `outbox_stranded` | 1 worker, 1 crash | violation | a claim of the last attempt is never retried |
| `reply` | a message and its edit, 2 concurrent requests, 2 workers, 2 faults of any kind, 1 dashboard operation | 87 thousand | at most one reply, none forgotten, all answered unless a task was killed or the update ignored, blocked stays out, updates get answered |
| `reply_crash` | 1 message, 1 crash | violation | the redelivered task skips the message for good |
| `reply_disabled` | 1 message, 1 edit by the dashboard | violation | a late reply enables a disabled bot |
| `document_processing` | 2 tasks, 2 workers, 2 faults, deletion | 210 thousand | completed means indexed and stays so, success is true, the document settles, no row blocks for ever |
| `whatsapp` | one session, 3 session objects, 1 reconnect, 1 QR code, one message with 2 attempts, 3 events of five scenarios | 269 thousand | one socket, also after a rejected logout, credentials last, deletion goes through, deliveries counted, the message leads to a reply |
| `whatsapp_status` | the same without any fault, the page open | violation | an overtaken report leaves a connected session's row refusing messages |
| `knowledge` | 2 requests, 2 chains, 1 retry, 2 events; or 3 processes that update the settings; or 5 texts in 3 batches, 2 runs, either provider and store; or a question over 4 chunks of 2 documents | 337 thousand | a workflow's success is true, updates of the settings are kept, every chunk gets its own vector, answers are grounded |
| `knowledge_polling` | 1 request, 1 chain, 1 event | violation | children that end early leave the workflow's row open |
| `platform` | 2 overlapping requests on an account of 3 started, clock 0..2, 1 restart; 3 owners, 2 calls; 2 incidents, 2 engineers; 2 integrations, 2 bots, 2 requests; 2 documents, 2 requests; 3 updates with 2 faults; 2 calls, clock 0..4 | 1.3 million | who is barred stays out, sanctions stand, an owner remains, logs are true, active bots are reached, rows and files agree, limits hold |

The six violations are listed under "findings" with the sentence of the documentation they contradict:

1. README.md:327 promises a retry of stale `sending` messages; the claim has counted the attempt, so a
   crash in the last attempt leaves a row no WHERE clause matches.
2. spec.md:118 promises that the queue avoids duplicates; a batch's locks end with its first commit.
3. celery_app.py:103 promises no task loss on a crash; the redelivered task meets its own fresh claim.
4. ENDPOINTS.md:69 documents disabling; a reply task that loaded the bot before writes "active" over it.
5. specs/007-whatsapp-integration/spec.md:67 and report-findings/05 want the row to follow the session. The bridge sends
   its reports without waiting, so that of an earlier status may be written last; the webhook then refuses
   the connected session's messages, and the page has stopped asking. Even the fairness that
   the page asks as long as it wants to (`PageFairness`) does not help.
6. BIG_PROJECT_DOC.md:278 says that a workflow's row becomes final without polling. The row names the children
   only when the workflow task ends; children that have ended by then have reconciled nothing.
   `FinalWithoutPolling` is a statement about states: every task is over, the children's rows decide the
   workflow's, and it is open. That it becomes final in the end is checked nowhere, because nothing in the
   code would make it so: the dashboard asks once, right after the dispatch.

Two more disagreements were met that have no run of their own:

* specs/002-production-security-fixes/spec.md:80 says of the settings that "either file-level locks, atomic renames,
  or database storage ensures no writes are lost or corrupted" (FR-006 asks for thread safety). A
  waiter that times out removes the lock of a live process (`runtime_config.py:53`), and an update that was answered with success is then lost.
  `UpdatesAreKept` holds with the exception `forced`, and without it TLC refutes it at once.
* BIG_PROJECT_DOC.md:6766 says that the worker updates a message's status to sent or failed. Where batches overlap, one worker
  may count the last attempt of a row and the other, whose copy is older, write "pending" over it: the
  row is never selected again (`Exhausted`). It needs refused sends only, and is a further consequence of finding 2.

### Bounds, and why they are enough

* Two workers and two messages are what it takes for one worker's commit to release a row another
  still holds in its batch; a third repeats these. Two attempts have a first and a last one. With one-row polls
  the first of three messages is undeliverable: both workers pass it and meet at the others. The batches have shorter
  time limits, so that claims age, sends time out and retries fall due within few steps.
* `ClaimTimeout` 2 leaves a fresh, an ageing and a stale claim. `SendTimeout <= ClaimTimeout` is the code's
  relation (15 s HTTP timeout, 120 s lease); `TaskTimeLimit = ClaimTimeout` too (both 600 s).
* `MaxFaults` 2 in `reply` allows a failed enqueue and a crash, say, of the same message, and an operation of the dashboard between them.
  `MaxConversations >= MaxEdits + 1`, because each resolve lets one more conversation begin.
* Two tasks for a document: the check compares a task with *the newest* other row. A third task could hide
  an open row behind a newer FAILURE; two runs then overlap. The same overlap already arises with two
  tasks that are both checked before either has a row, and the properties are stated for behaviours
  without it (`overlapped`).
* The numbers of generations are reused once nobody refers to them, which keeps the graph finite
  without an additional bound. Two faults allow a crash of a redelivered task, or a jam after a crash.
* `whatsapp`: the events that may come together are the five `Scenarios`: the session's own mishaps, those of its
  page, those of the message, and a session that must be started or is deleted while a message is on its
  way. Three events allow, say, a lost report between two closes, or a deletion with a close and a restart. Three session objects are a
  live one, a closing one and one being built.
* `knowledge`: `MaxEvents` 2 is two overlapping requests, or one request with one fault, clean-up or
  deletion; three give more than ten million states. A retried workflow queues a second chain. Indexing: batches of 2, 2
  and 1 texts have a short last batch and one that must wait for the semaphore; with 3 tokens to a call Cohere takes the first
  batch in one share and the second in two. Two attempts have a retry and a last one; the second run meets
  what the first has stored.
* `platform`: two requests overlap; the third starts after one of them has written. Windows, locks and
  suspensions last one tick, so that each of them expires and renews within the clock. Three owners let two
  demote one another while a third is demoted. `Limit` 1 and three updates fill and exceed the throttle.

### Conditions in the properties

Where a property has an exception, the code has it too. `Exclusive`: batches larger than one row on
more than one worker overlap, and the outbox then promises only `SentWasAccepted` and
`BatchesSettle` (finding 2). `Stranded`: finding 1. `Exhausted`: a row written back to "pending" after its last attempt. `hurt`: a killed task is acknowledged and nothing retries it. `overlapped`: the
check and the insertion of an execution row are two steps. `Contended` in `DocumentSettles`: with two
tasks each may raise because of the other's row, even after one has died.

* `raced`: a call of `startSession` that overlapped another one, or a deletion; two sockets, or a session that
  is built again, are then possible. `lost`: what a deletion did not reach, the bridge (the call
  failed) or WhatsApp (the logout was rejected).
* `misaligned`, `NoAnswer`: a batch was answered without vectors, and the task went on to Qdrant, which does
  not compare the numbers.
* `forced`: the settings' lock was removed while its holder was alive.
* `skewed`: two demotions overlapped, and the owners had changed since the last one counted them.
* `botched`, `overlapped` (library): a deletion that ended half-way; an upload that failed after its
  file was saved, or that overlapped the deletion of the project.
* `disturbed`: a creation or deletion of a bot cut short, a commit over a row changed since it was read, and
  a call about the same bot by another integration. A rotation calls `setWebhook` before the unique index
  refuses its token; a project's deletion takes the rows without telling Telegram; a rotation to another bot
  leaves the old one's webhook.
* `leaked`, `forgotten`, `misreleased`: increments nothing will undo, updates the expired key no longer
  counts, and updates counted in Redis and taken from memory. The bound grows by as many.
* `SanctionStands` excludes a request that read the account before its present status was written: it
  may lift a block, and may leave SUSPENDED without an end.

### Fairness

Beat starts the outbox again and again and a started task proceeds: weak fairness of a worker's `Work`.
The HTTP client has a timeout and time passes: weak fairness of `Tick`. Telegram repeats an update
until it is answered, while requests come and go and may be refused: strong fairness of `Deliver`. An
accepted request proceeds: weak fairness of `Handle`, `RecordOwner`. The time limit ends a task that waits
for itself, and beat runs the clean-up daily: weak fairness of `Abort` there and of `Cleanup`. In the bridge,
awaits end and timers fire: weak fairness of each step of a start, of a socket that opens, asks for a code
or closes, of reports, and of the later steps of a status request; strong fairness of the expiry of a QR
code, whose timer every new code restarts. No run that passes assumes fairness of faults, owners, agents, pages or
polls. `whatsapp_status` assumes that an open page goes on asking while it shows a session that is starting,
which is what it does by itself (`PageFairness`), and is violated nevertheless. A worker that is
never scheduled, a broker that loses its queue and a beat that stops are excluded.

## 4. What is proved

Every safety invariant and every action property that a run checks is a theorem, and the refinement is.
Eight modules of proofs, for every value of the constants their assumptions admit. Each follows the same
scheme: an inductive invariant, a lemma for each of its parts that says how a step disturbs it, and the
theorems by temporal logic.

`TelegramOutboxProofs`, for any number of workers, messages, attempts, timeouts and faults:

* `TypeCorrect`: `[]TypeOK`, by `TypeInv`: besides the types, a worker that may still claim a row holds a
  copy with attempts left (`Claimable`). Without it the counter's upper bound is not inductive.
* `SentAccepted`: `[]SentWasAccepted`, by `AcceptedInv`: a worker about to record "sent" has had its
  message accepted. It needs no exclusiveness, and so covers the overlapping batches of `SentInBatches`.
* `RowsNotShared`, `SentStays`, `SendsCounted`, `FailedGivenUp`, `OutboxImplementsDelivery`: under the
  assumption `Exclusive` (one worker process, or one-row polls with a send that ends within its lease). The
  invariant `ExclusiveInv` says that batches are disjoint, copies equal their rows, selected rows are
  unsettled, and a claim in flight is exactly as old as its holder's call; the last part makes the stale
  claim condition imply that the holder is gone. `CountInv` adds that a worker that is sending has
  counted one more attempt than deliveries. The refinement maps claimed and pending rows to "queued".

`ReplyGenerationProofs`, for any sets of updates, requests, workers and any faults and edits:

* `TypeCorrect`, by `TypeInv` (a busy worker or a stored request refers to a stored message).
* `RepliedOnce`: `[]OneReply`, assuming `TaskTimeLimit <= ClaimTimeout`, by `ClaimInv`: the message of a
  busy worker is "processing", its claim as old as the task, no two workers share it, and there is a reply
  exactly for messages that are done.
* `QueuedIsRemembered`: `[]NothingForgotten`, by `QueueInv`.
* `BlockedIsKeptOut`: `BlockedStaysOut`, an action property.

`DocumentProcessingProofs`, for any finite sets of tasks and workers and any number of faults:

* `ProcessingTypesHold`: `[]TypeOK`. The invariant `Base` needs that the tables are finite, so that an
  unused generation exists (`NextIsFree`, by counting), that a worker's task is its own and has its row
  (`TasksHeld`: the clean-up waits for the task), and that chunks under lock are in the table (`ChunksHeld`).
* `CompletedHasVectors`, `SuccessHolds`, `CompletedStays`: `CompletedIsIndexed`, `SuccessIsTrue` and
  `CompletedIsFinal`. The invariant `Safe` says, as long as no two runs overlapped, that one worker at most is
  under way (`Solo`), what its stage implies for document and chunks (`Stages`: in "dropped" the table holds
  the new chunks and some of the old ones, say), and that a success that is reported or about to be
  belongs to a document that is completed or deleted (`Truth`). Without `Stages` the commit of "completed"
  could not be shown to leave exactly one generation.

`WhatsAppProofs`, for any numbers of session objects, requests, attempts and events:

* `TypesHold`: `[]TypeOK`, by what objects and calls of `startSession` may be (`Bookkeeping`).
* `SocketStaysOne`: `[]OneSocket`, by `Alone`. Not only live sockets count: a call of `startSession` between its awaits, a
  reconnect timer and a logout that may break can each become a socket of its own accord. Unless calls
  overlapped (`raced`), whatever may become one is the only one of its kind and finds the map's entry empty. A socket
  whose logout was rejected is not in the map; should it close, its timer puts a new session there when it is gone itself.
* `CredentialsStay`: `CredentialsKept`, because whoever opens a socket has read paired credentials
  (`CredentialsRead`), so that no code is shown for it, and none expires.
* `DeliveriesStay`: `[]DeliveriesCounted`, by `EachCounted`: deliveries, calls the bridge may still deliver, and an attempt
  the bridge has not heard of are together at most the attempts counted.

`VectorIndexingProofs`, for any number of texts, any batch size, budget of tokens, limit, attempts and runs:
`IndexStaysTrue`, `BoundStays` and the types. What a call knows while it is split and retried is `CallIs`: its
vectors are those of the first texts of its batch, all of them or none once it is done. The batches cover
the texts (`BatchesCover`), hence the vectors of answered batches are those of all texts and the n-th is
the vector of text n (`NoGaps`, by well-founded induction on finite sets). `StoringHasAll` and `StoredSoFar` carry that
through the upserts.

`AdministrationProofs`, for any sets of users, requests, incidents and engineers:

* `BarredKeptOut`, `SanctionHolds`: a request that has seen the account free is one for which the account was
  free since it arrived (`Witnessed`), and the row a request is about to write lifts no sanction that its
  copy carries (`Respectful`); only a commit writes accounts.
* `OwnerStays`: `[]OwnerRemains`. A demotion that passed the count saw two owners (`SawTwo`); if the owners have
  not changed since, one is left.
* `TimelineStays`: `[]TimelineIsTrue`. A column of which the log has no entry since a request read the incident is still as
  the request has read it (`TabsHaveRead`), so the entry it appends follows from the value in the row (`Timelines`); otherwise two
  requests overlapped on the column, which the property excepts.

`PlatformProofs`, for any bots, documents, requests, updates, limits and times:

* `ActiveStays`: `[]ActiveIsReached`. A row that a request is creating is nobody else's (`Fresh`), what a request is about to
  commit as "active" has its webhook (`Registered`), and an integration whose webhook was taken is disturbed or
  about to be removed (`Reached`).
* `LibraryAgrees`: `[]RowsAndFilesAgree`. It follows one document: one not yet listed has no row, a listed one has its
  file or a reason not to, and uploads hold documents of their own.
* `InFlightBounded`: the number in Redis lies between the updates it should count less the forgotten ones and those
  plus the leaked ones (`CountersMatch`).
* `LimitsAreKept`: in every window of the length of the limit, at whatever moment it begins, no more than the limit was
  admitted (`WindowsHold`). The deque forgets what it pops; `BucketsRemember` says that what it still holds decides every window that is not over.
* `PlatformImplementsParts`, `PlatformTypesHold`, `LimitsHold`: a step of the composition is a step of one part, so every
  behaviour of it is one of each of the seven parts, whose theorems then hold of it.

`KnowledgeBaseProofs`, for any processes, chunks, texts, budgets, requests, chains and retries:

* `UpdatesStay`: `[]UpdatesAreKept`. Unless a lock was forced, the holder of the lock is the only process between its merge and
  its replacement, and what it merged is the present file and its own update.
* `GroundedStays`: `[]AnswerIsGrounded`. The prompt is a recursive function over the hits. `Recursion` shows that such a function has
  the equation it is defined by, and `CountingUp` is induction up to a number, both from the fact that a set of numbers has a least one; the invariant of
  the loop is `Packed`.
* `SuccessIsTrue`: `[]WorkflowSuccessIsTrue`. Evidence of success is a row, a result in Celery or a task past its work that says the document was
  processed; there is evidence only of a processed document, and none while the one processing task under
  way may still take its work back (`Truth`). `InOrder` is needed for the reconciliation: a chain's second task
  ran only after the first succeeded.
* `KnowledgeBaseImplementsParts`, `KnowledgeBaseTypesHold`: as for the platform, of four parts.

Each module proves the type invariants of its components.

The assumptions on constants are the `ASSUME`s of the modules, which TLC evaluates in every run; they
hold for the values the code clamps its settings to.

Only model-checked: liveness (`Settles`, `EveryMessageAnswered`, `UpdatesAnswered`, `DocumentSettles`,
`BlockIsTemporary`, `DeletedGoesAway`, `AnswerSettles`, `BatchesSettle`), which the prover does not
support, and the six violations, which are behaviours of small instances.

## 5. Plan

Done: the two channels, from the webhook to the delivered answer; the way of a document from its upload
to the index; settings, accounts, roles, incidents, bots and limits; and proofs of every
safety invariant and action property that a run checks. What would come next, in this order:

1. A composition of `ReplyGeneration` and `TelegramOutbox`: a customer's message leads to a delivered answer,
   with an abstract specification of the conversation that it implements.
2. Abstract specifications of what a document's owner sees (queued, searchable, failed, gone), implemented by
   `DocumentProcessing` and `ProcessAndIndex`, with the refinements proved as that of the outbox is.
3. A rule for an escalation that meets "resolved" or "blocked" (`telegram_query.py:197`): the commit is in `ReplyGeneration`, but
   neither the code nor its documents say which of the two should win.
4. Runs for the two disagreements of section 3 that have none: the row that is pending with no attempts left, and the
   update of the settings lost behind a forced lock.
5. The reads and the write of a reconciliation as steps of their own, in `ProcessAndIndex`.
6. Three events in `knowledge`, if the state space can be cut by symmetry between the requests.
7. The life of a password: sign-up, reset codes, the service accounts' passwords that are set again at start.

## 6. What is not modelled

* The text providers, the search in Qdrant, text extraction and chunking: I/O, whose outcomes are kept. Of the
  embedding providers and of both stores what is modelled is the way of the vectors (`VectorIndexing`).
* Sign-up, passwords and reset codes, signatures and expiry of tokens, delays after failed logins, the
  persistence of security events, request screening: one request at a time, or content of data.
* The two-second cache of the settings and their validation; the deployment starts one web server process,
  and the lock file is modelled for several, as it is written.
* Project names, statistics, listings, the readiness report and the consoles: single queries.
* Migrations, metrics, the front end, the legacy single-tenant bot and the developer scripts, except the one
  that registers the webhooks. The Baileys library, WhatsApp's servers, Telegram, Celery's broker and Redis are
  external: they are modelled from how the code uses them.
