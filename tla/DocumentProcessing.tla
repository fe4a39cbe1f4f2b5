-------------------------- MODULE DocumentProcessing --------------------------
(***************************************************************************)
(* One uploaded document and the Celery tasks that chunk and embed it      *)
(* (backend/tasks/file_processing.py).  A row of celery_task_executions    *)
(* per task (backend/utils/idempotency_manager.py) is to keep two tasks    *)
(* from processing the document at once; the web server writes the row     *)
(* after it has queued the task (backend/routes/documents.py), the worker  *)
(* if it comes first.                                                      *)
(*                                                                         *)
(* The chunks of one run are inserted and deleted together: a generation.  *)
(* The vectors are a column of the chunks (pgvector, the default store),   *)
(* written in the run's own transaction.                                   *)
(*                                                                         *)
(* A definition X_Y just before a definition X is a faulty X: a slip the   *)
(* properties are tested against.  Nothing uses it.                        *)
(***************************************************************************)
EXTENDS Integers, Sequences, FiniteSets

CONSTANTS
  Tasks,      \* process_document_task calls for the document, by task id
  NoTask,     \* stands for the task of an idle worker
  Workers,    \* worker processes of the file_processing queue
  MaxFaults,  \* crashes, aborts and web server failures in a behaviour (bound)
  Deletable   \* whether the owner may delete the document

Generations == Nat \ {0}

ASSUME ProcessingConstants ==
  /\ NoTask \notin Tasks
  /\ IsFiniteSet(Tasks)
  /\ IsFiniteSet(Workers)
  /\ MaxFaults \in Nat
  /\ Deletable \in BOOLEAN

VARIABLES
  asset,       \* status of the document, "deleted" once its row is gone
  chunks,      \* generations of chunks in the table
  embedded,    \* those of them whose vectors are committed
  row,         \* status of each task's execution row
  created,     \* the tasks that have a row, the oldest row first
  route,       \* the request that queued each task
  job,         \* each task in the broker, and its result
  run,         \* the workers
  overlapped,  \* two runs of the document were under way at once
  hurt,        \* a task was aborted
  faults

vars == <<asset, chunks, embedded, row, created, route, job, run,
          overlapped, hurt, faults>>

document == <<asset, chunks, embedded>>
records == <<row, created>>

-----------------------------------------------------------------------------
AssetStatus == {"uploaded", "processing", "completed", "failed", "deleted"}

\* "open" is PENDING, STARTED or RETRY: the code tells them apart only for display.
RowStatus == {"none", "open", "SUCCESS", "FAILURE"}

Stage == {"idle", "skip", "go", "recorded", "loaded", "processing", "stored",
          "indexed", "jammed", "dropped", "flushed", "completed", "failed"}

Run == [at     : Stage,
        task   : Tasks \cup {NoTask},
        seen   : BOOLEAN,               \* the task's own row was there
        marked : BOOLEAN,              \* the document was "processing" when loaded
        old    : SUBSET Generations,    \* chunks to replace
        new    : Nat]                   \* chunks this run stored, 0 for none

Idle == [at |-> "idle", task |-> NoTask, seen |-> FALSE, marked |-> FALSE,
         old |-> {}, new |-> 0]

Used == chunks \cup UNION {run[w].old \cup {run[w].new} : w \in Workers}

\* The number of a generation nobody refers to any more.
NextGeneration == CHOOSE g \in 1..(Cardinality(Used) + 1) : g \notin Used

Advance(w, stage) == run' = [run EXCEPT ![w].at = stage]

Ended(t) == job[t] \in {"SUCCESS", "FAILURE"}

Running(w) == run[w].at \in Stage \ {"idle", "skip"}

\* Uncommitted updates of chunks hold their row locks.
LockedChunks(w) ==
  IF run[w].at \in {"indexed", "jammed", "dropped"} THEN {run[w].new} ELSE {}

OldUnlocked(w) == \A v \in Workers \ {w} : LockedChunks(v) \cap run[w].old = {}

Init ==
  /\ asset = "uploaded"
  /\ chunks = {}
  /\ embedded = {}
  /\ row = [t \in Tasks |-> "none"]
  /\ created = <<>>
  /\ route = [t \in Tasks |-> "unused"]
  /\ job = [t \in Tasks |-> "none"]
  /\ run = [w \in Workers |-> Idle]
  /\ overlapped = FALSE
  /\ hurt = FALSE
  /\ faults = 0

Spend ==
  /\ faults < MaxFaults
  /\ faults' = faults + 1

-----------------------------------------------------------------------------
(* The web server. *)

\* The upload, or the owner's request to process the document (again).
Dispatch(t) ==
  /\ route[t] = "unused"
  /\ asset # "deleted"
  /\ route' = [route EXCEPT ![t] = "queued"]
  /\ job' = [job EXCEPT ![t] = "queued"]
  /\ UNCHANGED <<document, records, run, overlapped, hurt, faults>>

\* A row of task t in status s; the unique index keeps it the only one.
Insert(t, s) ==
  /\ row' = [row EXCEPT ![t] = s]
  /\ created' = Append(created, t)

\* record_task_owner: SELECT, then INSERT or UPDATE to PENDING.  An INSERT that comes
\* after the worker's, which the SELECT did not see, is logged and dropped.
RecordOwner(t) ==
  /\ route[t] = "queued"
  /\ IF row[t] = "none"
     THEN Insert(t, "open")
     ELSE /\ row' \in {row, [row EXCEPT ![t] = "open"]}
          /\ UNCHANGED created
  /\ route' = [route EXCEPT ![t] = "recorded"]
  /\ UNCHANGED <<document, job, run, overlapped, hurt, faults>>

RequestDies(t) ==
  /\ route[t] = "queued"
  /\ Spend
  /\ route' = [route EXCEPT ![t] = "recorded"]
  /\ UNCHANGED <<document, records, job, run, overlapped, hurt>>

\* GET /tasks/{id}: an open row takes over Celery's result.
Poll(t) ==
  /\ route[t] = "recorded"
  /\ row[t] = "open"
  /\ Ended(t)
  /\ row' = [row EXCEPT ![t] = job[t]]
  /\ UNCHANGED <<document, created, route, job, run, overlapped, hurt, faults>>

\* DELETE /documents/{id}; the chunks go with the document.
Delete ==
  /\ asset # "deleted"
  /\ Deletable
  /\ \A w \in Workers : LockedChunks(w) = {}
  /\ asset' = "deleted"
  /\ chunks' = {}
  /\ embedded' = {}
  /\ UNCHANGED <<records, route, job, run, overlapped, hurt, faults>>

-----------------------------------------------------------------------------
(* The task. *)

\* The tasks that have a row, without t, the oldest row first.
Others(t) ==
  LET mine == {k \in DOMAIN created : created[k] = t}
      k    == CHOOSE i \in mine : TRUE
  IN  IF mine = {} THEN created
      ELSE SubSeq(created, 1, k - 1) \o SubSeq(created, k + 1, Len(created))

\* get_existing_task: the status of the newest row of another task of the document.
Existing_OwnRow(t) ==
  IF created = <<>> THEN "none" ELSE row[created[Len(created)]]
Existing(t) ==
  IF Others(t) = <<>> THEN "none" ELSE row[Others(t)[Len(Others(t))]]

\* The task ends with Celery's result r.
EndJob(w, r) ==
  /\ job' = [job EXCEPT ![run[w].task] = r]
  /\ run' = [run EXCEPT ![w] = Idle]

\* should_execute_task, then the SELECT of the own row.  An open row of another task
\* makes it raise: its started_at carries a time zone and utcnow() does not.
Verdict_FailureDone(t) ==
  CASE Existing(t) \in {"SUCCESS", "FAILURE"} -> "skip"
    [] Existing(t) = "open" -> "raise"
    [] OTHER -> "go"
Verdict(t) ==
  CASE Existing(t) = "SUCCESS" -> "skip"
    [] Existing(t) = "open" -> "raise"
    [] OTHER -> "go"

Check(w, t) ==
  /\ run[w] = Idle
  /\ job[t] = "queued"
  /\ IF Verdict(t) = "raise"
     THEN /\ job' = [job EXCEPT ![t] = "FAILURE"]
          /\ UNCHANGED <<run, overlapped>>
     ELSE /\ job' = [job EXCEPT ![t] = "running"]
          /\ run' = [run EXCEPT ![w] = [Idle EXCEPT !.at = Verdict(t), !.task = t,
                                                    !.seen = row[t] # "none"]]
          /\ overlapped' = (overlapped \/ (Verdict(t) = "go" /\ \E v \in Workers : Running(v)))
  /\ UNCHANGED <<document, records, route, hurt, faults>>

\* The own row: looked for once more if it was not there, inserted or found, then
\* STARTED, or SUCCESS if the task is skipped.
Record_Twice(w) ==
  LET t == run[w].task
      s == IF run[w].at = "skip" THEN "SUCCESS" ELSE "open"
  IN  /\ run[w].at \in {"skip", "go"}
      /\ IF run[w].seen
         THEN row' = [row EXCEPT ![t] = s] /\ UNCHANGED created
         ELSE Insert(t, s)
      /\ IF run[w].at = "skip"
         THEN EndJob(w, "SUCCESS")
         ELSE Advance(w, "recorded") /\ UNCHANGED job
      /\ UNCHANGED <<document, route, overlapped, hurt, faults>>
Record(w) ==
  LET t == run[w].task
      s == IF run[w].at = "skip" THEN "SUCCESS" ELSE "open"
  IN  /\ run[w].at \in {"skip", "go"}
      /\ IF row[t] = "none"
         THEN Insert(t, s)
         ELSE row' = [row EXCEPT ![t] = s] /\ UNCHANGED created
      /\ IF run[w].at = "skip"
         THEN EndJob(w, "SUCCESS")
         ELSE Advance(w, "recorded") /\ UNCHANGED job
      /\ UNCHANGED <<document, route, overlapped, hurt, faults>>

\* The web server inserted the row between the SELECT and the INSERT: IntegrityError.
InsertFails(w) ==
  /\ run[w].at \in {"skip", "go"}
  /\ ~run[w].seen
  /\ row[run[w].task] # "none"
  /\ EndJob(w, "FAILURE")
  /\ UNCHANGED <<document, records, route, overlapped, hurt, faults>>

\* The SELECTs of the document and of its chunks, in one step: only a deletion or an
\* overlapping run could come in between.  The task ends here for a document that is
\* gone or already completed.
Load_Completed(w) ==
  LET t == run[w].task
  IN  /\ run[w].at = "recorded"
      /\ IF asset = "deleted"
         THEN row' = [row EXCEPT ![t] = "FAILURE"] /\ EndJob(w, "FAILURE")
         ELSE /\ run' = [run EXCEPT ![w] = [@ EXCEPT !.at = "loaded", !.old = chunks,
                                                     !.marked = asset = "processing"]]
              /\ UNCHANGED <<row, job>>
      /\ UNCHANGED <<document, created, route, overlapped, hurt, faults>>
Load(w) ==
  LET t == run[w].task
  IN  /\ run[w].at = "recorded"
      /\ IF asset \in {"deleted", "completed"}
         THEN LET r == IF asset = "deleted" THEN "FAILURE" ELSE "SUCCESS"
              IN  row' = [row EXCEPT ![t] = r] /\ EndJob(w, r)
         ELSE /\ run' = [run EXCEPT ![w] = [@ EXCEPT !.at = "loaded", !.old = chunks,
                                                     !.marked = asset = "processing"]]
              /\ UNCHANGED <<row, job>>
      /\ UNCHANGED <<document, created, route, overlapped, hurt, faults>>

\* The commit of "processing", which writes the status only if it differs.
Mark(w) ==
  /\ run[w].at = "loaded"
  /\ asset # "deleted"
  /\ asset' = IF run[w].marked THEN asset ELSE "processing"
  /\ run' = [run EXCEPT ![w] = [@ EXCEPT !.at = "processing", !.marked = FALSE]]
  /\ UNCHANGED <<chunks, embedded, records, route, job, overlapped, hurt, faults>>

\* The chunks are inserted, and committed by the progress update.
Store(w) ==
  /\ run[w].at = "processing"
  /\ asset # "deleted"
  /\ chunks' = chunks \cup {NextGeneration}
  /\ run' = [run EXCEPT ![w] = [@ EXCEPT !.at = "stored", !.new = NextGeneration]]
  /\ UNCHANGED <<asset, embedded, records, route, job, overlapped, hurt, faults>>

\* add_vectors in the session of the task, not committed; every chunk must be there.
Index(w) ==
  /\ run[w].at = "stored"
  /\ run[w].new \in chunks
  /\ Advance(w, "indexed")
  /\ UNCHANGED <<document, records, route, job, overlapped, hurt, faults>>

\* add_vectors fails with some of its updates done, and their locks kept: the session
\* that is to remove the new chunks waits for this one, which waits for it.
Jam(w) ==
  /\ run[w].at = "stored"
  /\ run[w].new \in chunks
  /\ Spend
  /\ Advance(w, "jammed")
  /\ UNCHANGED <<document, records, route, job, overlapped, hurt>>

\* delete_vector_ids deletes the old chunks in a session of its own, which waits for
\* their locks; an error is logged and ignored.
DropVectors(w) ==
  /\ run[w].at = "indexed"
  /\ run[w].old # {}
  /\ \/ /\ OldUnlocked(w)
        /\ chunks' = chunks \ run[w].old
        /\ embedded' = embedded \ run[w].old
     \/ UNCHANGED <<chunks, embedded>>
  /\ Advance(w, "dropped")
  /\ UNCHANGED <<asset, records, route, job, overlapped, hurt, faults>>

\* Then in the task's session, whose commit is also that of the vectors.
DropRows_VectorsOnly(w) ==
  /\ run[w].at = "dropped"
  /\ OldUnlocked(w)
  /\ embedded' = (embedded \ run[w].old) \cup {run[w].new}
  /\ run' = [run EXCEPT ![w] = [@ EXCEPT !.at = "flushed", !.old = {}]]
  /\ UNCHANGED <<asset, chunks, records, route, job, overlapped, hurt, faults>>
DropRows(w) ==
  /\ run[w].at = "dropped"
  /\ OldUnlocked(w)
  /\ chunks' = chunks \ run[w].old
  /\ embedded' = (embedded \ run[w].old) \cup {run[w].new}
  /\ run' = [run EXCEPT ![w] = [@ EXCEPT !.at = "flushed", !.old = {}]]
  /\ UNCHANGED <<asset, records, route, job, overlapped, hurt, faults>>

\* The commit of "completed", and of the vectors if there were no old chunks.
Complete(w) ==
  /\ run[w].at = "flushed" \/ (run[w].at = "indexed" /\ run[w].old = {})
  /\ asset # "deleted"
  /\ asset' = "completed"
  /\ embedded' = embedded \cup LockedChunks(w)
  /\ run' = [run EXCEPT ![w] = [@ EXCEPT !.at = "completed", !.new = 0]]
  /\ UNCHANGED <<chunks, records, route, job, overlapped, hurt, faults>>

\* A provider, the parser or add_vectors raises: the new chunks are removed.  The
\* branch for a document that was "completed" is never taken, see Load.
Fail(w) ==
  /\ run[w].at \in {"processing", "stored"}
  /\ asset # "deleted"
  /\ chunks' = chunks \ {run[w].new}
  /\ embedded' = embedded \ {run[w].new}
  /\ asset' = "failed"
  /\ run' = [run EXCEPT ![w] = [@ EXCEPT !.at = "failed", !.new = 0, !.old = {}]]
  /\ UNCHANGED <<records, route, job, overlapped, hurt, faults>>

\* The commit of the execution row's final status.
Conclude(w) ==
  LET r == IF run[w].at = "completed" THEN "SUCCESS" ELSE "FAILURE"
  IN  /\ run[w].at \in {"completed", "failed"}
      /\ row' = [row EXCEPT ![run[w].task] = r]
      /\ EndJob(w, r)
      /\ UNCHANGED <<document, created, route, overlapped, hurt, faults>>

\* The document was deleted: the next commit raises, and so does the one that was to
\* record the failure.
Vanish(w) ==
  /\ run[w].at \in {"loaded", "processing", "stored", "indexed", "flushed"}
  /\ asset = "deleted"
  /\ EndJob(w, "FAILURE")
  /\ UNCHANGED <<document, records, route, overlapped, hurt, faults>>

-----------------------------------------------------------------------------
(* The broker, the time limit and the beat schedule. *)

\* The worker process dies and the broker delivers its task again.
Crash(w) ==
  /\ run[w] # Idle
  /\ Spend
  /\ job' = [job EXCEPT ![run[w].task] = "queued"]
  /\ run' = [run EXCEPT ![w] = Idle]
  /\ UNCHANGED <<document, records, route, overlapped, hurt>>

\* The time limit or a database error ends the task where it is.
Abort(w) ==
  /\ run[w] # Idle
  /\ IF run[w].at = "jammed" THEN UNCHANGED faults ELSE Spend
  /\ EndJob(w, "FAILURE")
  /\ hurt' = TRUE
  /\ UNCHANGED <<document, records, route, overlapped>>

\* The daily clean-up of rows a day old; no request or task lasts that long.
Cleanup_Finished(t) ==
  /\ row[t] \in {"SUCCESS", "FAILURE"}
  /\ route[t] = "recorded"
  /\ Ended(t)
  /\ row' = [row EXCEPT ![t] = "none"]
  /\ created' = Others(t)
  /\ UNCHANGED <<document, route, job, run, overlapped, hurt, faults>>
Cleanup(t) ==
  /\ row[t] # "none"
  /\ route[t] = "recorded"
  /\ Ended(t)
  /\ row' = [row EXCEPT ![t] = "none"]
  /\ created' = Others(t)
  /\ UNCHANGED <<document, route, job, run, overlapped, hurt, faults>>

Work(w) ==
  \/ \E t \in Tasks : Check(w, t)
  \/ Record(w) \/ InsertFails(w) \/ Load(w) \/ Mark(w) \/ Store(w) \/ Index(w)
  \/ DropVectors(w) \/ DropRows(w) \/ Complete(w) \/ Fail(w) \/ Conclude(w) \/ Vanish(w)

Next ==
  \/ \E t \in Tasks : Dispatch(t) \/ RecordOwner(t) \/ RequestDies(t) \/ Poll(t) \/ Cleanup(t)
  \/ \E w \in Workers : Work(w) \/ Jam(w) \/ Crash(w) \/ Abort(w)
  \/ Delete

Spec == Init /\ [][Next]_vars

\* A request and a task that started go on, an idle worker takes the next task, the
\* time limit ends one that waits for itself, and beat runs the clean-up every day.
\* Nobody has to poll.
Fairness ==
  /\ \A t \in Tasks : WF_vars(RecordOwner(t)) /\ WF_vars(Cleanup(t))
  /\ \A w \in Workers : WF_vars(Work(w)) /\ WF_vars(run[w].at = "jammed" /\ Abort(w))

FairSpec == Spec /\ Fairness

-----------------------------------------------------------------------------
\* Every variable has its type, and `created` lists the tasks with a row once each.
TypeOK ==
  /\ asset \in AssetStatus
  /\ chunks \subseteq Generations
  /\ embedded \subseteq chunks
  /\ row \in [Tasks -> RowStatus]
  /\ created \in Seq(Tasks)
  /\ \A t \in Tasks : row[t] = "none" <=> \A i \in DOMAIN created : created[i] # t
  /\ \A i, j \in DOMAIN created : created[i] = created[j] => i = j
  /\ route \in [Tasks -> {"unused", "queued", "recorded"}]
  /\ job \in [Tasks -> {"none", "queued", "running", "SUCCESS", "FAILURE"}]
  /\ run \in [Workers -> Run]
  /\ overlapped \in BOOLEAN
  /\ hurt \in BOOLEAN
  /\ faults \in 0..MaxFaults

\* A document shown as completed can be searched: it has one generation of chunks, and
\* their vectors, whatever failed, crashed or was retried before.
CompletedIsIndexed ==
  asset = "completed" /\ ~overlapped => \E g \in chunks : chunks = {g} /\ embedded = {g}

\* Neither a later task for the document nor a late failure takes a completed document
\* back or touches its chunks.
CompletedIsFinal ==
  [][asset = "completed" /\ ~overlapped'
       => \/ asset' = "deleted"
          \/ asset' = "completed" /\ chunks' = chunks /\ embedded' = embedded]_vars

\* A task reported as a success stands for a completed document, also if it was skipped
\* because of another one, and whoever wrote the report: worker, web server or clean-up.
SuccessIsTrue ==
  \A t \in Tasks :
    row[t] = "SUCCESS" /\ ~overlapped => asset \in {"completed", "deleted"}

Contended == \E s, t \in Tasks : s # t /\ route[s] # "unused" /\ route[t] # "unused"

\* A document that one task processes does not stay in "processing": the task of a dead
\* worker does its work again, its own row does not stop it.  With a second task the code
\* gives no such promise: the row of either makes the other one raise.
DocumentSettles == asset = "processing" ~> asset # "processing" \/ hurt \/ Contended

\* A document is not blocked for ever by the row of a task that was aborted, refused or
\* recorded late.
BlockIsTemporary == \A t \in Tasks : row[t] = "open" ~> row[t] # "open"
=============================================================================
