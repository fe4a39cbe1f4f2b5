---------------------------- MODULE ProcessAndIndex ----------------------------
(***************************************************************************)
(* POST /documents/{id}/process-and-index: a workflow task queues a chain  *)
(* of two tasks, one that processes the document and one that indexes its  *)
(* project (backend/tasks/process_workflow.py, data_indexing.py).  Every   *)
(* task has an execution row; the rows of the two children decide the      *)
(* status of the workflow's row (reconcile_process_and_index_workflow),    *)
(* which a client may ask for.  The workflow writes the children's rows    *)
(* after it has queued the chain, when they may long be running.           *)
(*                                                                         *)
(* What the processing task does to chunks and vectors is in               *)
(* DocumentProcessing; here it is one step that succeeds or fails.         *)
(*                                                                         *)
(* A definition X_Y just before a definition X is a faulty X: a slip the   *)
(* properties are tested against.  Nothing uses it.                        *)
(***************************************************************************)
EXTENDS Integers, Sequences, FiniteSetsExt

CONSTANTS
  MaxRequests, \* requests to process and index one document (bound)
  MaxChains,   \* chains that are queued in a behaviour (bound)
  MaxRetries,  \* retries of a workflow that raised; 3 in the code
  MaxEvents    \* requests, clean-ups and events in a behaviour (bound)

ASSUME WorkflowConstants ==
  /\ MaxRequests \in Nat
  /\ MaxChains \in Nat
  /\ MaxRetries \in Nat
  /\ MaxEvents \in Nat

Workflows == {"workflow"} \X (1..MaxRequests)   \* one workflow task for each request
NoWorkflow == <<"workflow", 0>>
Chains == 1..MaxChains
Process(c) == <<"process", c>>
Index(c) == <<"index", c>>
Children == {"process", "index"} \X Chains
Tasks == Workflows \cup Children

VARIABLES
  asset,       \* status of the document, "deleted" once its row is gone
  row,         \* status of each task's execution row; "open" is PENDING or STARTED
  created,     \* the tasks that have a row, the oldest row first
  linked,      \* the children whose row names their workflow
  named,       \* the chain that the result in a workflow's row names, 0 for none
  job,         \* each task in Celery
  at,          \* where each task is
  mine,        \* running tasks whose own row was there when they looked
  held,        \* running tasks whose copy of it names the workflow
  chainOf,     \* the workflow that queued each chain, if any
  tries,       \* retries of each workflow so far
  route,       \* the request behind each workflow
  overlapped,  \* a processing task passed its check while another was under way
  events

taskVars == <<asset, row, created, linked, named, job, at, mine, held, chainOf,
              tries, route, overlapped, events>>

AssetStatus == {"uploaded", "completed", "failed", "deleted"}
RowStatus == {"none", "open", "SUCCESS", "FAILURE"}
JobStatus == {"none", "queued", "running", "SUCCESS", "FAILURE"}
Stage == {"idle", "skip", "go", "recorded", "dispatched", "tracked", "loaded", "worked",
          "kept", "spoilt", "good", "bad", "over"}

Ended(t) == job[t] \in {"SUCCESS", "FAILURE"}

InitTasks ==
  /\ asset \in {"uploaded", "failed", "completed"}
  /\ row = [t \in Tasks |-> "none"]
  /\ created = <<>>
  /\ linked = {}
  /\ named = [w \in Workflows |-> 0]
  /\ job = [t \in Tasks |-> "none"]
  /\ at = [t \in Tasks |-> "idle"]
  /\ mine = {}
  /\ held = {}
  /\ chainOf = [c \in Chains |-> NoWorkflow]
  /\ tries = [w \in Workflows |-> 0]
  /\ route = [w \in Workflows |-> "unused"]
  /\ overlapped = FALSE
  /\ events = 0

\* What need not happen, or happens any number of times: a request of the owner, a fault, a
\* clean-up.
Spend == events < MaxEvents /\ events' = events + 1

-----------------------------------------------------------------------------
(* Rows. *)

Insert(t, s) ==
  /\ row' = [row EXCEPT ![t] = s]
  /\ created' = Append(created, t)

\* Two tasks with the same name and arguments: the workflows, the processing tasks of
\* the document, the index tasks of the project.
SameArgs(s, t) == s[1] = t[1]

\* get_existing_task: the status of the newest row of another task with the same arguments.
Existing(t) ==
  LET others == {i \in DOMAIN created : created[i] # t /\ SameArgs(created[i], t)}
  IN  IF others = {} THEN "none" ELSE row[created[Max(others)]]

\* should_execute_task.  An open row makes it raise: its started_at carries a time zone
\* and utcnow() does not.
Verdict(t) ==
  CASE Existing(t) = "SUCCESS" -> "skip"
    [] Existing(t) = "open" -> "raise"
    [] OTHER -> "go"

\* reconcile_process_and_index_workflow: the status of workflow w's row, given the rows r.
\* A child without a row counts as PENDING.
Reconciled(w, r) ==
  LET states == {r[Process(named[w])], r[Index(named[w])]}
  IN  IF named[w] = 0 \/ r[w] = "none"
      THEN r[w]
      ELSE CASE "FAILURE" \in states -> "FAILURE"
             [] states = {"SUCCESS"} -> "SUCCESS"
             [] OTHER -> "open"

-----------------------------------------------------------------------------
(* The web server. *)

\* POST /documents/{id}/process-and-index up to apply_async.  The owner's requests come one
\* after the other, by number.
Dispatch(w) ==
  /\ route[w] = "unused"
  /\ \A v \in Workflows : v[2] < w[2] => route[v] = "recorded"
  /\ asset # "deleted"
  /\ Spend
  /\ route' = [route EXCEPT ![w] = "queued"]
  /\ job' = [job EXCEPT ![w] = "queued"]
  /\ UNCHANGED <<asset, row, created, linked, named, at, mine, held, chainOf, tries,
                 overlapped>>

\* record_task_owner: the row becomes PENDING, whatever the worker wrote, unless the
\* worker inserts it first and the INSERT fails.
RecordOwner(w) ==
  /\ route[w] = "queued"
  /\ route' = [route EXCEPT ![w] = "recorded"]
  /\ IF row[w] = "none"
     THEN Insert(w, "open")
     ELSE row' \in {row, [row EXCEPT ![w] = "open"]} /\ UNCHANGED created
  /\ UNCHANGED <<asset, linked, named, job, at, mine, held, chainOf, tries, overlapped, events>>

RequestDies(w) ==
  /\ route[w] = "queued"
  /\ Spend
  /\ route' = [route EXCEPT ![w] = "recorded"]
  /\ UNCHANGED <<asset, row, created, linked, named, job, at, mine, held, chainOf, tries,
                 overlapped>>

\* GET /tasks/{id} for a workflow.  The dashboard asks once, after the request; nobody
\* need ask again.
Poll(w) ==
  /\ row[w] # "none"
  /\ row' = [row EXCEPT ![w] = Reconciled(w, row)]
  /\ UNCHANGED <<asset, created, linked, named, job, at, mine, held, chainOf, tries, route,
                 overlapped, events>>

\* GET /tasks/{id} for another task: an open row takes over Celery's result.
PollChild(t) ==
  /\ row[t] = "open"
  /\ Ended(t)
  /\ Spend
  /\ row' = [row EXCEPT ![t] = job[t]]
  /\ UNCHANGED <<asset, created, linked, named, job, at, mine, held, chainOf, tries, route,
                 overlapped>>

\* DELETE /documents/{id}.
Delete ==
  /\ asset # "deleted"
  /\ Spend
  /\ asset' = "deleted"
  /\ UNCHANGED <<row, created, linked, named, job, at, mine, held, chainOf, tries, route,
                 overlapped>>

-----------------------------------------------------------------------------
(* What all tasks do first. *)

End(t, result) ==
  /\ job' = [job EXCEPT ![t] = result]
  /\ at' = [at EXCEPT ![t] = "idle"]
  /\ mine' = mine \ {t}
  /\ held' = held \ {t}

\* An exception leaves the task: a workflow is queued again, up to MaxRetries times.
Raise(t) ==
  IF t \in Workflows /\ tries[t] < MaxRetries
  THEN End(t, "queued") /\ tries' = [tries EXCEPT ![t] = @ + 1]
  ELSE End(t, "FAILURE") /\ UNCHANGED tries

\* The task starts: should_execute_task, then the SELECT of its own row.
Check(t) ==
  /\ job[t] = "queued"
  /\ IF Verdict(t) = "raise"
     THEN Raise(t) /\ UNCHANGED overlapped
     ELSE /\ job' = [job EXCEPT ![t] = "running"]
          /\ at' = [at EXCEPT ![t] = Verdict(t)]
          /\ mine' = IF row[t] # "none" THEN mine \cup {t} ELSE mine
          /\ held' = held \cup ({t} \cap linked)
          /\ overlapped' = (overlapped \/ /\ t[1] = "process"
                                          /\ \E c \in Chains \ {t[2]} : at[Process(c)] # "idle")
          /\ UNCHANGED tries
  /\ UNCHANGED <<asset, row, created, linked, named, chainOf, route, events>>

\* The own row becomes STARTED, or SUCCESS for a task that is skipped.  If it was not
\* there it is looked for once more before it is inserted; an INSERT after somebody
\* else's raises.
Record_Twice(t) ==
  /\ at[t] \in {"skip", "go"}
  /\ Insert(t, "open")
  /\ at' = [at EXCEPT ![t] = IF at[t] = "go" THEN "recorded" ELSE "over"]
  /\ UNCHANGED <<asset, linked, named, job, mine, held, chainOf, tries, route, overlapped,
                 events>>
Record(t) ==
  LET s == IF at[t] = "skip" THEN "SUCCESS" ELSE "open"
      next == CASE at[t] = "go" -> "recorded"
                [] at[t] = "skip" /\ t \in Children -> "over"
                [] OTHER -> "idle"
  IN  /\ at[t] \in {"skip", "go"}
      /\ IF row[t] = "none" THEN Insert(t, s) ELSE row' = [row EXCEPT ![t] = s] /\ UNCHANGED created
      /\ IF next = "idle"
         THEN End(t, "SUCCESS")
         ELSE /\ at' = [at EXCEPT ![t] = next]
              /\ held' = IF t \in mine THEN held ELSE held \cup ({t} \cap linked)
              /\ UNCHANGED <<job, mine>>
      /\ UNCHANGED <<asset, linked, named, chainOf, tries, route, overlapped, events>>

InsertFails(t) ==
  /\ at[t] \in {"skip", "go"}
  /\ t \notin mine
  /\ row[t] # "none"
  /\ Raise(t)
  /\ UNCHANGED <<asset, row, created, linked, named, chainOf, route, overlapped, events>>

-----------------------------------------------------------------------------
(* The workflow task. *)

\* chain(...).apply_async(): the first task is queued and carries the second.
Chain(w) ==
  /\ at[w] = "recorded"
  /\ \E c \in Chains :
       /\ chainOf[c] = NoWorkflow
       /\ \A b \in 1..(c - 1) : chainOf[b] # NoWorkflow
       /\ chainOf' = [chainOf EXCEPT ![c] = w]
       /\ job' = [job EXCEPT ![Process(c)] = "queued"]
  /\ at' = [at EXCEPT ![w] = "dispatched"]
  /\ UNCHANGED <<asset, row, created, linked, named, mine, held, tries, route, overlapped,
                 events>>

\* The chain that the workflow queued last.
Latest(w) == CHOOSE c \in Chains : chainOf[c] = w /\ \A b \in (c + 1)..MaxChains : chainOf[b] # w

\* upsert_task_record for a child, as PENDING: the status is written if it differs from
\* the one that was read, which may be older than the row.
Track(w, t) ==
  /\ linked' = linked \cup {t}
  /\ IF row[t] = "none"
     THEN Insert(t, "open")
     ELSE row' \in {row, [row EXCEPT ![t] = "open"]} /\ UNCHANGED created

TrackProcess(w) ==
  /\ at[w] = "dispatched"
  /\ Track(w, Process(Latest(w)))
  /\ at' = [at EXCEPT ![w] = "tracked"]
  /\ UNCHANGED <<asset, named, job, mine, held, chainOf, tries, route, overlapped, events>>

\* The index child's row, and then the workflow's own: STARTED, with both ids.
TrackIndex(w) ==
  /\ at[w] = "tracked"
  /\ Index(Latest(w)) \notin linked
  /\ Track(w, Index(Latest(w)))
  /\ UNCHANGED <<asset, named, job, at, mine, held, chainOf, tries, route, overlapped, events>>

Announce_Finished(w) ==
  /\ at[w] = "tracked"
  /\ Index(Latest(w)) \in linked
  /\ row' = [row EXCEPT ![w] = "SUCCESS"]
  /\ named' = [named EXCEPT ![w] = Latest(w)]
  /\ End(w, "SUCCESS")
  /\ UNCHANGED <<asset, created, linked, chainOf, tries, route, overlapped, events>>
Announce(w) ==
  /\ at[w] = "tracked"
  /\ Index(Latest(w)) \in linked
  /\ row' = [row EXCEPT ![w] = "open"]
  /\ named' = [named EXCEPT ![w] = Latest(w)]
  /\ End(w, "SUCCESS")
  /\ UNCHANGED <<asset, created, linked, chainOf, tries, route, overlapped, events>>

\* The broker or the database raises, or a child inserted its row between the SELECT and
\* the INSERT of the upsert: FAILURE, an error as the result, and a retry.
WorkflowFails(w) ==
  /\ at[w] \in {"recorded", "dispatched", "tracked"}
  /\ Spend
  /\ row' = [row EXCEPT ![w] = "FAILURE"]
  /\ named' = [named EXCEPT ![w] = 0]
  /\ Raise(w)
  /\ UNCHANGED <<asset, created, linked, chainOf, route, overlapped>>

-----------------------------------------------------------------------------
(* The two child tasks. *)

\* The SELECT of the document or project, and the upsert of the owner: it writes the
\* arguments the task has read before, and reads the row again.
Load(t) ==
  /\ at[t] = "recorded"
  /\ t \in Children
  /\ t[1] = "process" => asset # "deleted"
  /\ linked' = IF t \in held THEN linked \cup {t} ELSE linked \ {t}
  /\ at' = [at EXCEPT ![t] = "loaded"]
  /\ UNCHANGED <<asset, row, created, named, job, mine, held, chainOf, tries, route,
                 overlapped, events>>

\* The document is gone, or there is nothing to index.
FindNothing(t) ==
  /\ at[t] = "recorded"
  /\ t \in Children
  /\ asset # "completed"
  /\ t[1] = "process" => asset = "deleted"
  /\ at' = [at EXCEPT ![t] = "spoilt"]
  /\ UNCHANGED <<asset, row, created, linked, named, job, mine, held, chainOf, tries, route,
                 overlapped, events>>

\* The document is processed, or was already; the project is indexed.
Finish(t) ==
  /\ at[t] = "loaded"
  /\ t[1] = "process" => asset # "deleted"
  /\ asset' = IF t[1] = "process" THEN "completed" ELSE asset
  /\ at' = [at EXCEPT ![t] = IF t[1] = "process" /\ asset = "completed" THEN "kept" ELSE "worked"]
  /\ UNCHANGED <<row, created, linked, named, job, mine, held, chainOf, tries, route,
                 overlapped, events>>

\* A provider, the parser or a vanished chunk raises; only a document that was not
\* completed before is worked on.
Spoil(t) ==
  /\ at[t] = "loaded"
  /\ t[1] = "process" => asset # "completed"
  /\ asset' = IF t[1] = "process" /\ asset # "deleted" THEN "failed" ELSE asset
  /\ at' = [at EXCEPT ![t] = "spoilt"]
  /\ UNCHANGED <<row, created, linked, named, job, mine, held, chainOf, tries, route,
                 overlapped, events>>

\* update_task_status with the outcome.
Conclude(t) ==
  /\ at[t] \in {"worked", "kept", "spoilt"}
  /\ row' = [row EXCEPT ![t] = IF at[t] = "spoilt" THEN "FAILURE" ELSE "SUCCESS"]
  /\ at' = [at EXCEPT ![t] = CASE @ = "worked" -> "good" [] @ = "kept" -> "over" [] OTHER -> "bad"]
  /\ UNCHANGED <<asset, created, linked, named, job, mine, held, chainOf, tries, route,
                 overlapped, events>>

\* The row of the workflow is reconciled, if the task's copy of its own row names it, and
\* the task ends.  A success queues the next task of the chain.
Finally(t) ==
  LET c == t[2]
      result == IF at[t] = "bad" THEN "FAILURE" ELSE "SUCCESS"
      w == chainOf[c]
  IN  /\ at[t] \in {"good", "bad", "over"}
      /\ row' = IF t \in held
                THEN [row EXCEPT ![w] = Reconciled(w, [row EXCEPT ![t] = result])]
                ELSE row
      /\ job' = [job EXCEPT ![t] = result,
                            ![Index(c)] = IF t[1] = "process" /\ result = "SUCCESS" THEN "queued"
                                          ELSE IF t[1] = "index" THEN result ELSE @]
      /\ at' = [at EXCEPT ![t] = "idle"]
      /\ mine' = mine \ {t}
      /\ held' = held \ {t}
      /\ UNCHANGED <<asset, created, linked, named, chainOf, tries, route, overlapped, events>>

\* The reconciliation raises after the work was done: the handler of the exception takes
\* the work back and writes FAILURE.
ReconcileFails(t) ==
  /\ at[t] = "good"
  /\ row[t] # "none"
  /\ t \in held
  /\ Spend
  /\ asset' = IF t[1] = "process" /\ asset # "deleted" THEN "failed" ELSE asset
  /\ row' = [row EXCEPT ![t] = "FAILURE"]
  /\ at' = [at EXCEPT ![t] = "bad"]
  /\ UNCHANGED <<created, linked, named, job, mine, held, chainOf, tries, route, overlapped>>

-----------------------------------------------------------------------------
(* The broker, the time limit and the beat schedule. *)

\* The worker process dies and the broker delivers its task again.
Crash(t) ==
  /\ at[t] # "idle"
  /\ Spend
  /\ End(t, "queued")
  /\ UNCHANGED <<asset, row, created, linked, named, chainOf, tries, route, overlapped>>

\* The time limit, or an error the task does not record, ends it where it is.
Abort(t) ==
  /\ at[t] # "idle"
  /\ Spend
  /\ End(t, "FAILURE")
  /\ UNCHANGED <<asset, row, created, linked, named, chainOf, tries, route, overlapped>>

\* The daily clean-up of rows a day old, the oldest n; no request or task lasts that long.
Quiet(t) ==
  /\ job[t] \notin {"queued", "running"}
  /\ IF t \in Workflows
     THEN route[t] = "recorded"
     ELSE /\ job[chainOf[t[2]]] \notin {"queued", "running"}
          /\ job[Process(t[2])] \notin {"queued", "running"}

Cleanup(n) ==
  LET old == {created[i] : i \in 1..n}
  IN  /\ n \in DOMAIN created
      /\ \A t \in old : Quiet(t)
      /\ Spend
      /\ row' = [t \in Tasks |-> IF t \in old THEN "none" ELSE row[t]]
      /\ created' = SubSeq(created, n + 1, Len(created))
      /\ linked' = linked \ old
      /\ named' = [w \in Workflows |-> IF w \in old THEN 0 ELSE named[w]]
      /\ UNCHANGED <<asset, job, at, mine, held, chainOf, tries, route, overlapped>>

WorkflowStep(w) ==
  \/ Check(w) \/ Record(w) \/ InsertFails(w)
  \/ Chain(w) \/ TrackProcess(w) \/ TrackIndex(w) \/ Announce(w)

ChildStep(t) ==
  \/ Check(t) \/ Record(t) \/ InsertFails(t)
  \/ Load(t) \/ FindNothing(t) \/ Finish(t) \/ Spoil(t) \/ Conclude(t) \/ Finally(t)

NextTasks ==
  \/ \E w \in Workflows : \/ Dispatch(w) \/ RecordOwner(w) \/ RequestDies(w) \/ Poll(w)
                           \/ WorkflowStep(w) \/ WorkflowFails(w)
  \/ \E t \in Children : PollChild(t) \/ ChildStep(t) \/ ReconcileFails(t)
  \/ \E t \in Tasks : Crash(t) \/ Abort(t)
  \/ \E n \in 1..Len(created) : Cleanup(n)
  \/ Delete

TasksSpec == InitTasks /\ [][NextTasks]_taskVars

-----------------------------------------------------------------------------
\* The types of the tasks' variables; `created` lists the tasks with a row once each.
TasksTypeOK ==
  /\ asset \in AssetStatus
  /\ row \in [Tasks -> RowStatus]
  /\ created \in Seq(Tasks)
  /\ \A t \in Tasks : row[t] = "none" <=> \A i \in DOMAIN created : created[i] # t
  /\ \A i, j \in DOMAIN created : created[i] = created[j] => i = j
  /\ linked \subseteq Children
  /\ named \in [Workflows -> Chains \cup {0}]
  /\ job \in [Tasks -> JobStatus]
  /\ at \in [Tasks -> Stage]
  /\ mine \subseteq Tasks
  /\ held \subseteq Children
  /\ chainOf \in [Chains -> Workflows \cup {NoWorkflow}]
  /\ tries \in [Workflows -> 0..MaxRetries]
  /\ route \in [Workflows -> {"unused", "queued", "recorded"}]
  /\ overlapped \in BOOLEAN
  /\ events \in 0..MaxEvents

\* A workflow reported as a success stands for a processed document, also if it or its
\* children were skipped, retried, delivered twice or reconciled out of order.
WorkflowSuccessIsTrue ==
  \A w \in Workflows :
    row[w] = "SUCCESS" /\ ~overlapped => asset \in {"completed", "deleted"}

\* docs/BIG_PROJECT_DOC.md:278: a workflow's row is final once its children's rows decide it,
\* and nobody has to poll for that.  The code does not keep this: the row names the children
\* only when the workflow task ends, and children that have ended by then have reconciled
\* nothing.
FinalWithoutPolling ==
  \A w \in Workflows :
    /\ route[w] = "recorded"
    /\ \A t \in Tasks : job[t] \notin {"queued", "running"}
    /\ Reconciled(w, row) # "open"
    => row[w] # "open"
=============================================================================
