----------------------- MODULE DocumentProcessingProofs -----------------------
(***************************************************************************)
(* DocumentProcessing for any number of tasks, workers and faults: its type *)
(* invariant, that a completed document is indexed and stays as it is, and  *)
(* that a reported success is true.  The argument follows the run of the    *)
(* document from stage to stage: as long as no two runs overlapped, the     *)
(* stage of the one that is under way says what the table of chunks holds.  *)
(***************************************************************************)
EXTENDS DocumentProcessing, FiniteSetTheorems, SequenceTheorems, TLAPS

JobStatus == {"none", "queued", "running", "SUCCESS", "FAILURE"}

Types ==
  /\ asset \in AssetStatus
  /\ chunks \subseteq Generations /\ IsFiniteSet(chunks)
  /\ embedded \subseteq chunks
  /\ row \in [Tasks -> RowStatus]
  /\ route \in [Tasks -> {"unused", "queued", "recorded"}]
  /\ job \in [Tasks -> JobStatus]
  /\ run \in [Workers -> Run]
  /\ \A w \in Workers : IsFiniteSet(run[w].old)
  /\ overlapped \in BOOLEAN
  /\ hurt \in BOOLEAN
  /\ faults \in 0..MaxFaults

\* A worker that is not idle has a task of its own, which runs; from "recorded" on the task has
\* its row, for the clean-up waits for the task to end.
TasksHeld ==
  /\ \A w \in Workers : run[w].at = "idle" => run[w] = Idle
  /\ \A w \in Workers : run[w].at # "idle" =>
       /\ run[w].task \in Tasks
       /\ job[run[w].task] = "running"
       /\ run[w].at \notin {"skip", "go"} => row[run[w].task] # "none"
  /\ \A v, w \in Workers :
       v # w /\ run[v].at # "idle" /\ run[w].at # "idle" => run[v].task # run[w].task
  /\ \A t \in Tasks : route[t] = "unused" => job[t] = "none"

\* Chunks that a run has stored are its own, and in the table while it holds their locks.
ChunksHeld ==
  /\ \A w \in Workers :
       /\ run[w].at \in {"stored", "jammed", "indexed", "dropped", "flushed"}
          => run[w].new # 0 /\ run[w].new \notin run[w].old
       /\ run[w].at \in {"jammed", "indexed", "dropped"} => run[w].new \in chunks
  /\ \A v, w \in Workers : v # w /\ run[v].new # 0 => run[v].new # run[w].new

\* `created` lists the tasks with a row, once each.
RowsListed ==
  /\ created \in Seq(Tasks)
  /\ \A t \in Tasks : row[t] = "none" <=> \A i \in DOMAIN created : created[i] # t
  /\ \A i, j \in DOMAIN created : created[i] = created[j] => i = j

Base == Types /\ TasksHeld /\ ChunksHeld /\ RowsListed

(***************************************************************************)
(* Free generations, and the list without a task.                           *)
(***************************************************************************)

LEMMA UsedFinite ==
  ASSUME Types
  PROVE  IsFiniteSet(Used) /\ Cardinality(Used) \in Nat
<1> DEFINE held(w) == run[w].old \cup {run[w].new}
           T == {held(w) : w \in Workers}
<1>1. IsFiniteSet(T)
  <2>1. [w \in Workers |-> held(w)] \in Surjection(Workers, T)
    BY DEF Surjection
  <2> QED BY <2>1, ProcessingConstants, FS_Surjection
<1>2. ASSUME NEW w \in Workers PROVE IsFiniteSet(held(w))
  <2>1. IsFiniteSet(run[w].old) /\ IsFiniteSet({run[w].new})
    BY FS_Singleton DEF Types
  <2> QED BY <2>1, FS_Union
<1>3. IsFiniteSet(UNION T)
  BY <1>1, <1>2, FS_UNION
<1>4. IsFiniteSet(Used)
  BY <1>3, FS_Union DEF Types, Used
<1> QED BY <1>4, FS_CardinalityType

\* There is a number that nobody refers to.
LEMMA NextIsFree ==
  ASSUME Types
  PROVE  /\ NextGeneration \in Generations
         /\ NextGeneration \notin chunks
         /\ \A w \in Workers : NextGeneration \notin run[w].old /\ NextGeneration # run[w].new
<1> DEFINE n == Cardinality(Used)
<1>1. \E g \in 1..(n + 1) : g \notin Used
  <2> SUFFICES ASSUME 1..(n + 1) \subseteq Used PROVE FALSE
      OBVIOUS
  <2>1. n \in Nat /\ IsFiniteSet(Used)
    BY UsedFinite
  <2>2. Cardinality(1..(n + 1)) <= n
    BY <2>1, FS_Subset
  <2>3. Cardinality(1..(n + 1)) = n + 1
    BY <2>1, FS_Interval
  <2> QED BY <2>1, <2>2, <2>3
<1>2. NextGeneration \in 1..(n + 1) /\ NextGeneration \notin Used
  BY <1>1 DEF NextGeneration
<1>3. n \in Nat
  BY UsedFinite
<1>4. NextGeneration \in Generations
  BY <1>2, <1>3 DEF Generations
<1> HIDE DEF n
<1>5. \A w \in Workers : run[w].old \cup {run[w].new} \subseteq Used
  BY DEF Used
<1> QED BY <1>2, <1>4, <1>5 DEF Used

LEMMA OthersListed ==
  ASSUME RowsListed, NEW t \in Tasks
  PROVE  /\ Others(t) \in Seq(Tasks)
         /\ \A s \in Tasks : (\E i \in DOMAIN Others(t) : Others(t)[i] = s)
                             <=> s # t /\ \E i \in DOMAIN created : created[i] = s
         /\ \A i, j \in DOMAIN Others(t) : Others(t)[i] = Others(t)[j] => i = j
<1> DEFINE mine == {k \in DOMAIN created : created[k] = t}
           k == CHOOSE i \in mine : TRUE
           n == Len(created)
           before == SubSeq(created, 1, k - 1)
           after == SubSeq(created, k + 1, n)
<1>1. created \in Seq(Tasks) /\ n \in Nat /\ DOMAIN created = 1..n
  BY DEF RowsListed
<1>2. CASE mine = {}
  <2>1. Others(t) = created
    BY <1>2 DEF Others
  <2>2. \A i \in DOMAIN created : created[i] # t
    BY <1>2
  <2> QED BY <2>1, <2>2 DEF RowsListed
<1>3. CASE mine # {}
  <2>1. k \in 1..n /\ created[k] = t
    BY <1>1, <1>3
  <2>2. Others(t) = before \o after
    BY <1>3 DEF Others
  <2> HIDE DEF k
  <2>3. /\ before \in Seq(Tasks) /\ Len(before) = k - 1
        /\ \A i \in 1..(k - 1) : before[i] = created[i]
    BY <1>1, <2>1, SubSeqProperties
  <2>4. /\ after \in Seq(Tasks) /\ Len(after) = n - k
        /\ \A i \in 1..(n - k) : after[i] = created[k + i]
    <3>1. k + 1 \in Int /\ n \in Int /\ \A i \in (k + 1)..n : created[i] \in Tasks
      BY <1>1, <2>1
    <3>2. /\ after \in Seq(Tasks)
          /\ Len(after) = IF k + 1 <= n THEN n - (k + 1) + 1 ELSE 0
          /\ \A i \in 1..(n - (k + 1) + 1) : after[i] = created[(k + 1) + i - 1]
      <4> HIDE DEF n
      <4> QED BY <3>1, SubSeqProperties
    <3> HIDE DEF after, n
    <3>3. Len(after) = n - k
      BY <1>1, <2>1, <3>2
    <3>4. ASSUME NEW i \in 1..(n - k) PROVE after[i] = created[k + i]
      <4>1. i \in 1..(n - (k + 1) + 1) /\ (k + 1) + i - 1 = k + i
        BY <1>1, <2>1
      <4> QED BY <3>2, <4>1
    <3> QED BY <3>2, <3>3, <3>4
  <2> HIDE DEF before, after
  <2>5. /\ Others(t) \in Seq(Tasks) /\ Len(Others(t)) = n - 1
        /\ \A i \in 1..(n - 1) : Others(t)[i] = IF i < k THEN created[i] ELSE created[i + 1]
    <3> HIDE DEF n
    <3>1. /\ before \o after \in Seq(Tasks)
          /\ Len(before \o after) = Len(before) + Len(after)
          /\ \A i \in 1..(Len(before) + Len(after)) : (before \o after)[i] =
               IF i <= Len(before) THEN before[i] ELSE after[i - Len(before)]
      BY <2>3, <2>4, ConcatProperties
    <3>2. Len(before) + Len(after) = n - 1
      BY <1>1, <2>1, <2>3, <2>4
    <3>3. ASSUME NEW i \in 1..(n - 1)
          PROVE  Others(t)[i] = IF i < k THEN created[i] ELSE created[i + 1]
      <4>1. Others(t)[i] = IF i <= k - 1 THEN before[i] ELSE after[i - (k - 1)]
        BY <2>2, <2>3, <3>1, <3>2
      <4>2. CASE i < k
        <5>1. i <= k - 1 /\ i \in 1..(k - 1)
          BY <1>1, <2>1, <4>2
        <5> QED BY <2>3, <4>1, <4>2, <5>1
      <4>3. CASE ~(i < k)
        <5>1. ~(i <= k - 1) /\ i - (k - 1) \in 1..(n - k) /\ k + (i - (k - 1)) = i + 1
          BY <1>1, <2>1, <4>3
        <5> QED BY <2>4, <4>1, <4>3, <5>1
      <4> QED BY <4>2, <4>3
    <3> QED BY <2>2, <3>1, <3>2, <3>3
  <2>6. \A i \in 1..n : i # k => created[i] # t
    BY <1>1, <2>1 DEF RowsListed
  <2>7. DOMAIN Others(t) = 1..(n - 1)
    BY <2>5
  <2>8. ASSUME NEW s \in Tasks, s # t, NEW i \in 1..n, created[i] = s
        PROVE  \E j \in 1..(n - 1) : Others(t)[j] = s
    <3>1. i # k
      BY <2>1, <2>8
    <3>2. CASE i < k
      BY <1>1, <2>1, <2>5, <2>8, <3>2
    <3>3. CASE i > k
      <4>1. i - 1 \in 1..(n - 1) /\ ~(i - 1 < k)
        BY <1>1, <2>1, <3>3
      <4> QED BY <1>1, <2>5, <2>8, <4>1
    <3> QED BY <1>1, <2>1, <3>1, <3>2, <3>3
  <2>9. ASSUME NEW j \in 1..(n - 1)
        PROVE  Others(t)[j] # t /\ \E i \in 1..n : created[i] = Others(t)[j]
    <3>1. CASE j < k
      BY <1>1, <2>1, <2>5, <2>6, <3>1
    <3>2. CASE ~(j < k)
      <4>1. j + 1 \in 1..n /\ j + 1 # k
        BY <1>1, <2>1, <3>2
      <4> QED BY <2>5, <2>6, <3>2, <4>1
    <3> QED BY <3>1, <3>2
  <2>10. ASSUME NEW i \in 1..(n - 1), NEW j \in 1..(n - 1), Others(t)[i] = Others(t)[j]
         PROVE  i = j
    <3> DEFINE at(x) == IF x < k THEN x ELSE x + 1
    <3>1. at(i) \in 1..n /\ at(j) \in 1..n
      BY <1>1, <2>1
    <3>2. created[at(i)] = created[at(j)]
      BY <2>5, <2>10
    <3>3. at(i) = at(j)
      BY <1>1, <3>1, <3>2 DEF RowsListed
    <3> QED BY <1>1, <2>1, <3>3
  <2> QED BY <1>1, <2>5, <2>7, <2>8, <2>9, <2>10
<1> QED BY <1>2, <1>3

\* The status that a task finds is that of a row of another one.
LEMMA ExistingIs ==
  ASSUME RowsListed, NEW t \in Tasks, Existing(t) # "none"
  PROVE  \E s \in Tasks : Existing(t) = row[s]
<1>1. Others(t) \in Seq(Tasks) /\ Others(t) # <<>>
  BY OthersListed DEF Existing
<1>2. Others(t)[Len(Others(t))] \in Tasks
  BY <1>1
<1> QED BY <1>1, <1>2 DEF Existing


(***************************************************************************)
(* What a step does to the workers: one of them moves on, starts or stops,  *)
(* the others keep their run.                                               *)
(***************************************************************************)

Rest(w) == \A v \in Workers \ {w} : run'[v] = run[v]

Moved(w, stage, marked, old, new) ==
  /\ run' \in [Workers -> Run]
  /\ Rest(w)
  /\ run'[w].at = stage
  /\ run'[w].task = run[w].task
  /\ run'[w].marked = marked
  /\ run'[w].old = old
  /\ run'[w].new = new

\* The worker moves on and keeps what it has.
Onward(w, stage) == Moved(w, stage, run[w].marked, run[w].old, run[w].new)

Stopped(w) ==
  /\ run' \in [Workers -> Run]
  /\ Rest(w)
  /\ run'[w] = Idle

LEMMA IdleIsRun == Idle \in Run
BY DEF Idle, Run, Stage

LEMMA Advancing ==
  ASSUME Types, NEW w \in Workers, NEW stage \in Stage, Advance(w, stage)
  PROVE  Onward(w, stage)
<1> DEFINE r == [run[w] EXCEPT !.at = stage]
<1>1. /\ r \in Run
      /\ r.at = stage /\ r.task = run[w].task /\ r.marked = run[w].marked
      /\ r.old = run[w].old /\ r.new = run[w].new
  BY DEF Types, Run
<1>2. run' = [run EXCEPT ![w] = r]
  BY DEF Advance, Types
<1> HIDE DEF r
<1>3. run' \in [Workers -> Run] /\ run'[w] = r /\ Rest(w)
  BY <1>1, <1>2 DEF Types, Rest
<1> QED BY <1>1, <1>3 DEF Moved, Onward

LEMMA Ending ==
  ASSUME Types, NEW w \in Workers, NEW r \in {"SUCCESS", "FAILURE"}, EndJob(w, r),
         run[w].task \in Tasks
  PROVE  /\ Stopped(w)
         /\ job' \in [Tasks -> JobStatus]
         /\ job'[run[w].task] = r
         /\ \A t \in Tasks \ {run[w].task} : job'[t] = job[t]
<1>1. Stopped(w)
  BY IdleIsRun DEF EndJob, Types, Stopped, Rest
<1> QED BY <1>1 DEF EndJob, Types, JobStatus

LEMMA Loading ==
  ASSUME Types, NEW w \in Workers, Load(w), asset \notin {"deleted", "completed"}
  PROVE  Moved(w, "loaded", asset = "processing", chunks, run[w].new)
<1> DEFINE r == [run[w] EXCEPT !.at = "loaded", !.old = chunks, !.marked = asset = "processing"]
<1>1. /\ r \in Run
      /\ r.at = "loaded" /\ r.task = run[w].task /\ r.marked = (asset = "processing")
      /\ r.old = chunks /\ r.new = run[w].new
  BY DEF Types, Run, Stage
<1>2. run' = [run EXCEPT ![w] = r]
  BY DEF Load, Types
<1> HIDE DEF r
<1>3. run' \in [Workers -> Run] /\ run'[w] = r /\ Rest(w)
  BY <1>1, <1>2 DEF Types, Rest
<1> QED BY <1>1, <1>3 DEF Moved

LEMMA Marking ==
  ASSUME Types, NEW w \in Workers, Mark(w)
  PROVE  Moved(w, "processing", FALSE, run[w].old, run[w].new)
<1> DEFINE r == [run[w] EXCEPT !.at = "processing", !.marked = FALSE]
<1>1. /\ r \in Run
      /\ r.at = "processing" /\ r.task = run[w].task /\ r.marked = FALSE
      /\ r.old = run[w].old /\ r.new = run[w].new
  BY DEF Types, Run, Stage
<1>2. run' = [run EXCEPT ![w] = r]
  BY DEF Mark, Types
<1> HIDE DEF r
<1>3. run' \in [Workers -> Run] /\ run'[w] = r /\ Rest(w)
  BY <1>1, <1>2 DEF Types, Rest
<1> QED BY <1>1, <1>3 DEF Moved

LEMMA Storing ==
  ASSUME Types, NEW w \in Workers, Store(w)
  PROVE  Moved(w, "stored", run[w].marked, run[w].old, NextGeneration)
<1> DEFINE g == NextGeneration
           r == [run[w] EXCEPT !.at = "stored", !.new = g]
<1>1. g \in Nat
  BY NextIsFree DEF Generations
<1>2. run' = [run EXCEPT ![w] = r]
  BY DEF Store, Types
<1> HIDE DEF g
<1>3. /\ r \in Run
      /\ r.at = "stored" /\ r.task = run[w].task /\ r.marked = run[w].marked
      /\ r.old = run[w].old /\ r.new = g
  BY <1>1 DEF Types, Run, Stage
<1> HIDE DEF r
<1>4. run' \in [Workers -> Run] /\ run'[w] = r /\ Rest(w)
  BY <1>2, <1>3 DEF Types, Rest
<1> QED BY <1>3, <1>4 DEF Moved, g

LEMMA Flushing ==
  ASSUME Types, NEW w \in Workers, DropRows(w)
  PROVE  Moved(w, "flushed", run[w].marked, {}, run[w].new)
<1> DEFINE r == [run[w] EXCEPT !.at = "flushed", !.old = {}]
<1>1. /\ r \in Run
      /\ r.at = "flushed" /\ r.task = run[w].task /\ r.marked = run[w].marked
      /\ r.old = {} /\ r.new = run[w].new
  BY DEF Types, Run, Stage
<1>2. run' = [run EXCEPT ![w] = r]
  BY DEF DropRows, Types
<1> HIDE DEF r
<1>3. run' \in [Workers -> Run] /\ run'[w] = r /\ Rest(w)
  BY <1>1, <1>2 DEF Types, Rest
<1> QED BY <1>1, <1>3 DEF Moved

LEMMA Completing ==
  ASSUME Types, NEW w \in Workers, Complete(w)
  PROVE  Moved(w, "completed", run[w].marked, run[w].old, 0)
<1> DEFINE r == [run[w] EXCEPT !.at = "completed", !.new = 0]
<1>1. /\ r \in Run
      /\ r.at = "completed" /\ r.task = run[w].task /\ r.marked = run[w].marked
      /\ r.old = run[w].old /\ r.new = 0
  BY DEF Types, Run, Stage
<1>2. run' = [run EXCEPT ![w] = r]
  BY DEF Complete, Types
<1> HIDE DEF r
<1>3. run' \in [Workers -> Run] /\ run'[w] = r /\ Rest(w)
  BY <1>1, <1>2 DEF Types, Rest
<1> QED BY <1>1, <1>3 DEF Moved

LEMMA Failing ==
  ASSUME Types, NEW w \in Workers, Fail(w)
  PROVE  Moved(w, "failed", run[w].marked, {}, 0)
<1> DEFINE r == [run[w] EXCEPT !.at = "failed", !.new = 0, !.old = {}]
<1>1. /\ r \in Run
      /\ r.at = "failed" /\ r.task = run[w].task /\ r.marked = run[w].marked
      /\ r.old = {} /\ r.new = 0
  BY DEF Types, Run, Stage
<1>2. run' = [run EXCEPT ![w] = r]
  BY DEF Fail, Types
<1> HIDE DEF r
<1>3. run' \in [Workers -> Run] /\ run'[w] = r /\ Rest(w)
  BY <1>1, <1>2 DEF Types, Rest
<1> QED BY <1>1, <1>3 DEF Moved

Started(w, t, stage) ==
  /\ run' \in [Workers -> Run]
  /\ Rest(w)
  /\ run'[w].at = stage
  /\ run'[w].task = t
  /\ run'[w].old = {}
  /\ run'[w].new = 0

LEMMA VerdictIs ==
  ASSUME NEW t \in Tasks
  PROVE  Verdict(t) \in {"skip", "raise", "go"} /\ (Verdict(t) = "skip" <=> Existing(t) = "SUCCESS")
BY DEF Verdict

LEMMA Starting ==
  ASSUME Types, NEW w \in Workers, NEW t \in Tasks, Check(w, t), Verdict(t) # "raise"
  PROVE  Started(w, t, Verdict(t))
<1> DEFINE s == Verdict(t)
           b == row[t] # "none"
           r == [Idle EXCEPT !.at = s, !.task = t, !.seen = b]
<1>1. s \in {"skip", "go"} /\ b \in BOOLEAN
  BY VerdictIs
<1>2. run' = [run EXCEPT ![w] = r]
  BY DEF Check
<1> HIDE DEF s, b
<1>3. r \in Run /\ r.at = s /\ r.task = t /\ r.old = {} /\ r.new = 0
  BY <1>1 DEF Run, Stage, Idle
<1> HIDE DEF r
<1>4. run' \in [Workers -> Run] /\ run'[w] = r /\ Rest(w)
  BY <1>2, <1>3 DEF Types, Rest
<1> QED BY <1>3, <1>4 DEF Started, s


(***************************************************************************)
(* What each step of a worker does, in terms of the forms above.            *)
(***************************************************************************)

Kept == row' = row /\ created' = created

\* The task of w has a row in status s, and no other row changed.
Written(w, s) ==
  /\ row' \in [Tasks -> RowStatus]
  /\ row'[run[w].task] = s
  /\ \A t \in Tasks \ {run[w].task} : row'[t] = row[t]

Finished(w, r) ==
  /\ Stopped(w)
  /\ job' \in [Tasks -> JobStatus]
  /\ job'[run[w].task] = r
  /\ \A t \in Tasks \ {run[w].task} : job'[t] = job[t]

LEMMA Working ==
  ASSUME TasksHeld, NEW w \in Workers, run[w].at # "idle"
  PROVE  run[w].task \in Tasks
BY DEF TasksHeld

LEMMA RecordDoes ==
  ASSUME Types, TasksHeld, NEW w \in Workers, Record(w)
  PROVE  /\ UNCHANGED <<asset, chunks, embedded, route, overlapped, hurt, faults>>
         /\ \/ /\ run[w].at = "skip" /\ Written(w, "SUCCESS") /\ Finished(w, "SUCCESS")
            \/ /\ run[w].at = "go" /\ Written(w, "open") /\ Onward(w, "recorded")
               /\ UNCHANGED job
<1>1. run[w].at \in {"skip", "go"} /\ run[w].task \in Tasks
  BY Working DEF Record
<1>2. UNCHANGED <<asset, chunks, embedded, route, overlapped, hurt, faults>>
  BY DEF Record, document
<1>3. Written(w, IF run[w].at = "skip" THEN "SUCCESS" ELSE "open")
  BY <1>1 DEF Record, Insert, Written, Types, RowStatus
<1>4. CASE run[w].at = "skip"
  <2>1. EndJob(w, "SUCCESS")
    BY <1>4 DEF Record
  <2> QED BY <1>1, <1>2, <1>3, <1>4, <2>1, Ending DEF Finished
<1>5. CASE run[w].at = "go"
  <2>1. Advance(w, "recorded") /\ UNCHANGED job
    BY <1>5 DEF Record
  <2> QED BY <1>1, <1>2, <1>3, <1>5, <2>1, Advancing DEF Stage
<1> QED BY <1>1, <1>4, <1>5

LEMMA InsertFailsDoes ==
  ASSUME Types, TasksHeld, NEW w \in Workers, InsertFails(w)
  PROVE  /\ UNCHANGED <<asset, chunks, embedded, row, created, route, overlapped, hurt, faults>>
         /\ run[w].at \in {"skip", "go"}
         /\ Finished(w, "FAILURE")
<1>1. run[w].at \in {"skip", "go"} /\ run[w].task \in Tasks
  BY Working DEF InsertFails
<1> QED BY <1>1, Ending DEF InsertFails, document, records, Finished

LEMMA LoadDoes ==
  ASSUME Types, TasksHeld, NEW w \in Workers, Load(w)
  PROVE  /\ UNCHANGED <<asset, chunks, embedded, created, route, overlapped, hurt, faults>>
         /\ run[w].at = "recorded"
         /\ \/ /\ asset = "deleted" /\ Written(w, "FAILURE") /\ Finished(w, "FAILURE")
            \/ /\ asset = "completed" /\ Written(w, "SUCCESS") /\ Finished(w, "SUCCESS")
            \/ /\ asset \notin {"deleted", "completed"}
               /\ Moved(w, "loaded", asset = "processing", chunks, run[w].new)
               /\ UNCHANGED <<row, job>>
<1>1. run[w].at = "recorded" /\ run[w].task \in Tasks
  BY Working DEF Load
<1>2. UNCHANGED <<asset, chunks, embedded, created, route, overlapped, hurt, faults>>
  BY DEF Load, document
<1>3. CASE asset \in {"deleted", "completed"}
  <2> DEFINE r == IF asset = "deleted" THEN "FAILURE" ELSE "SUCCESS"
  <2>1. row' = [row EXCEPT ![run[w].task] = r] /\ EndJob(w, r)
    BY <1>3 DEF Load
  <2>2. r \in {"SUCCESS", "FAILURE"}
    OBVIOUS
  <2>3. Written(w, r) /\ Finished(w, r)
    <3> HIDE DEF r
    <3>1. Written(w, r)
      BY <1>1, <2>1, <2>2 DEF Written, Types, RowStatus
    <3> QED BY <1>1, <2>1, <2>2, <3>1, Ending DEF Finished
  <2> QED BY <1>1, <1>2, <1>3, <2>3
<1>4. CASE asset \notin {"deleted", "completed"}
  <2>1. UNCHANGED <<row, job>>
    BY <1>4 DEF Load
  <2> QED BY <1>1, <1>2, <1>4, <2>1, Loading
<1> QED BY <1>3, <1>4

LEMMA ConcludeDoes ==
  ASSUME Types, TasksHeld, NEW w \in Workers, Conclude(w)
  PROVE  /\ UNCHANGED <<asset, chunks, embedded, created, route, overlapped, hurt, faults>>
         /\ \/ run[w].at = "completed" /\ Written(w, "SUCCESS") /\ Finished(w, "SUCCESS")
            \/ run[w].at = "failed" /\ Written(w, "FAILURE") /\ Finished(w, "FAILURE")
<1>1. run[w].at \in {"completed", "failed"} /\ run[w].task \in Tasks
  BY Working DEF Conclude
<1>2. UNCHANGED <<asset, chunks, embedded, created, route, overlapped, hurt, faults>>
  BY DEF Conclude, document
<1> DEFINE r == IF run[w].at = "completed" THEN "SUCCESS" ELSE "FAILURE"
<1>3. row' = [row EXCEPT ![run[w].task] = r] /\ EndJob(w, r)
  BY DEF Conclude
<1>4. r \in {"SUCCESS", "FAILURE"}
  OBVIOUS
<1>5. Written(w, r) /\ Finished(w, r)
  <2> HIDE DEF r
  <2>1. Written(w, r)
    BY <1>1, <1>3, <1>4 DEF Written, Types, RowStatus
  <2> QED BY <1>1, <1>3, <1>4, <2>1, Ending DEF Finished
<1> QED BY <1>1, <1>2, <1>5

LEMMA VanishDoes ==
  ASSUME Types, TasksHeld, NEW w \in Workers, Vanish(w)
  PROVE  /\ UNCHANGED <<asset, chunks, embedded, row, created, route, overlapped, hurt, faults>>
         /\ run[w].at # "idle"
         /\ Finished(w, "FAILURE")
<1>1. run[w].at # "idle" /\ run[w].task \in Tasks
  BY Working DEF Vanish
<1> QED BY <1>1, Ending DEF Vanish, document, records, Finished

LEMMA CrashDoes ==
  ASSUME Types, TasksHeld, NEW w \in Workers, Crash(w)
  PROVE  /\ UNCHANGED <<asset, chunks, embedded, row, created, route, overlapped, hurt>>
         /\ run[w].at # "idle"
         /\ Finished(w, "queued")
         /\ faults' \in 0..MaxFaults
<1>1. run[w].at # "idle" /\ run[w].task \in Tasks
  BY Working DEF Crash, TasksHeld
<1>2. Stopped(w)
  BY IdleIsRun DEF Crash, Types, Stopped, Rest
<1>3. faults' \in 0..MaxFaults
  BY ProcessingConstants DEF Crash, Spend, Types
<1>4. /\ job' \in [Tasks -> JobStatus]
      /\ job'[run[w].task] = "queued"
      /\ \A t \in Tasks \ {run[w].task} : job'[t] = job[t]
  BY <1>1 DEF Crash, Types, JobStatus
<1>5. UNCHANGED <<asset, chunks, embedded, row, created, route, overlapped, hurt>>
  BY DEF Crash, document, records
<1> QED BY <1>1, <1>2, <1>3, <1>4, <1>5 DEF Finished

LEMMA AbortDoes ==
  ASSUME Types, TasksHeld, NEW w \in Workers, Abort(w)
  PROVE  /\ UNCHANGED <<asset, chunks, embedded, row, created, route, overlapped>>
         /\ run[w].at # "idle"
         /\ Finished(w, "FAILURE")
         /\ hurt' = TRUE
         /\ faults' \in 0..MaxFaults
<1>1. run[w].at # "idle" /\ run[w].task \in Tasks
  BY Working DEF Abort, TasksHeld
<1>2. faults' \in 0..MaxFaults
  BY ProcessingConstants DEF Abort, Spend, Types
<1>3. EndJob(w, "FAILURE") /\ hurt' = TRUE
  BY DEF Abort
<1>4. UNCHANGED <<asset, chunks, embedded, row, created, route, overlapped>>
  BY DEF Abort, document, records
<1> QED BY <1>1, <1>2, <1>3, <1>4, Ending DEF Finished

LEMMA CheckDoes ==
  ASSUME Types, NEW w \in Workers, NEW t \in Tasks, Check(w, t)
  PROVE  /\ UNCHANGED <<asset, chunks, embedded, row, created, route, hurt, faults>>
         /\ run[w] = Idle
         /\ job[t] = "queued"
         /\ job' \in [Tasks -> JobStatus]
         /\ \A s \in Tasks \ {t} : job'[s] = job[s]
         /\ \/ job'[t] = "FAILURE" /\ run' = run /\ overlapped' = overlapped
            \/ /\ job'[t] = "running"
               /\ \/ Started(w, t, "skip") /\ Existing(t) = "SUCCESS" /\ overlapped' = overlapped
                  \/ /\ Started(w, t, "go")
                     /\ overlapped' = (overlapped \/ \E v \in Workers : Running(v))
<1>1. UNCHANGED <<asset, chunks, embedded, row, created, route, hurt, faults>>
  BY DEF Check, document, records
<1>2. run[w] = Idle /\ job[t] = "queued"
  BY DEF Check
<1>3. CASE Verdict(t) = "raise"
  <2>1. job' = [job EXCEPT ![t] = "FAILURE"] /\ run' = run /\ overlapped' = overlapped
    BY <1>3 DEF Check
  <2> QED BY <1>1, <1>2, <2>1 DEF Types, JobStatus
<1>4. CASE Verdict(t) # "raise"
  <2>1. job' = [job EXCEPT ![t] = "running"]
    BY <1>4 DEF Check
  <2>2. /\ job' \in [Tasks -> JobStatus] /\ job'[t] = "running"
        /\ \A s \in Tasks \ {t} : job'[s] = job[s]
    BY <2>1 DEF Types, JobStatus
  <2>3. Started(w, t, Verdict(t))
    BY <1>4, Starting
  <2>4. overlapped' = (overlapped \/ (Verdict(t) = "go" /\ \E v \in Workers : Running(v)))
    BY <1>4 DEF Check
  <2>5. CASE Verdict(t) = "skip"
    <3>1. overlapped' = overlapped
      BY <2>4, <2>5 DEF Types
    <3> QED BY <1>1, <1>2, <2>2, <2>3, <2>5, <3>1, VerdictIs
  <2>6. CASE Verdict(t) = "go"
    <3>1. overlapped' = (overlapped \/ \E v \in Workers : Running(v))
      BY <2>4, <2>6
    <3> QED BY <1>1, <1>2, <2>2, <2>3, <2>6, <3>1
  <2> QED BY <1>4, <2>5, <2>6, VerdictIs
<1> QED BY <1>3, <1>4


(***************************************************************************)
(* The first parts of the invariant: types, and the tasks of the workers.   *)
(***************************************************************************)

LEMMA TypesOfRuns ==
  ASSUME Types, NEW w \in Workers, Rest(w), IsFiniteSet(run'[w].old)
  PROVE  \A v \in Workers : IsFiniteSet(run'[v].old)
BY DEF Types, Rest

LEMMA IdleIsFinite == IsFiniteSet(Idle.old)
BY FS_EmptySet DEF Idle

\* Where the document and the counters stay, only the records and the runs matter.
LEMMA TypesOfTasks ==
  ASSUME Types, NEW w \in Workers, UNCHANGED <<asset, chunks, embedded, route>>,
         overlapped' \in BOOLEAN, hurt' \in BOOLEAN, faults' \in 0..MaxFaults,
         row' \in [Tasks -> RowStatus], job' \in [Tasks -> JobStatus],
         run' \in [Workers -> Run], Rest(w), IsFiniteSet(run'[w].old)
  PROVE  Types'
<1>1. \A v \in Workers : IsFiniteSet(run'[v].old)
  BY TypesOfRuns
<1> QED BY <1>1 DEF Types

LEMMA TypesFinished ==
  ASSUME Types, NEW w \in Workers, NEW r, Finished(w, r),
         UNCHANGED <<asset, chunks, embedded, route, overlapped>>,
         hurt' \in BOOLEAN, faults' \in 0..MaxFaults, row' \in [Tasks -> RowStatus]
  PROVE  Types'
<1>1. run' \in [Workers -> Run] /\ Rest(w) /\ IsFiniteSet(run'[w].old)
  BY IdleIsFinite DEF Finished, Stopped
<1>2. overlapped' \in BOOLEAN /\ job' \in [Tasks -> JobStatus]
  BY DEF Finished, Types
<1> QED BY <1>1, <1>2, TypesOfTasks

LEMMA TypesMoved ==
  ASSUME Types, NEW w \in Workers, NEW stage, NEW marked, NEW old, NEW new,
         Moved(w, stage, marked, old, new), IsFiniteSet(old),
         asset' \in AssetStatus, chunks' \subseteq Generations, IsFiniteSet(chunks'),
         embedded' \subseteq chunks', row' \in [Tasks -> RowStatus],
         UNCHANGED <<route, job, overlapped, hurt>>, faults' \in 0..MaxFaults
  PROVE  Types'
<1>1. run' \in [Workers -> Run] /\ Rest(w) /\ IsFiniteSet(run'[w].old)
  BY DEF Moved
<1>2. \A v \in Workers : IsFiniteSet(run'[v].old)
  BY <1>1, TypesOfRuns
<1> QED BY <1>1, <1>2 DEF Types

LEMMA TypesOutside ==
  ASSUME Types, NEW t \in Tasks,
         Dispatch(t) \/ RecordOwner(t) \/ RequestDies(t) \/ Poll(t) \/ Cleanup(t)
  PROVE  Types'
<1>1. UNCHANGED <<asset, chunks, embedded, run, overlapped, hurt>>
  BY DEF Dispatch, RecordOwner, RequestDies, Poll, Cleanup, document
<1>2. /\ row' \in [Tasks -> RowStatus]
      /\ route' \in [Tasks -> {"unused", "queued", "recorded"}]
      /\ job' \in [Tasks -> JobStatus]
      /\ faults' \in 0..MaxFaults
  <2>1. CASE Dispatch(t)
    BY <2>1 DEF Dispatch, records, Types, JobStatus
  <2>2. CASE RecordOwner(t)
    BY <2>2 DEF RecordOwner, Insert, Types, RowStatus
  <2>3. CASE RequestDies(t)
    BY <2>3, ProcessingConstants DEF RequestDies, Spend, records, Types
  <2>4. CASE Poll(t)
    <3>1. job[t] \in RowStatus
      BY <2>4 DEF Poll, Ended, RowStatus
    <3> QED BY <2>4, <3>1 DEF Poll, Types
  <2>5. CASE Cleanup(t)
    BY <2>5 DEF Cleanup, Types, RowStatus
  <2> QED BY <2>1, <2>2, <2>3, <2>4, <2>5
<1> QED BY <1>1, <1>2 DEF Types

LEMMA TypesWork ==
  ASSUME Types, TasksHeld, ChunksHeld, NEW w \in Workers, Work(w)
  PROVE  Types'
<1>1. ASSUME NEW t \in Tasks, Check(w, t) PROVE Types'
  <2>1. /\ UNCHANGED <<asset, chunks, embedded, row, route, hurt, faults>>
        /\ job' \in [Tasks -> JobStatus]
    BY <1>1, CheckDoes
  <2>2. overlapped' \in BOOLEAN
    BY <1>1, CheckDoes DEF Types
  <2>3. CASE run' = run
    BY <2>1, <2>2, <2>3 DEF Types
  <2>4. CASE run' # run
    <3>1. run' \in [Workers -> Run] /\ Rest(w) /\ run'[w].old = {}
      BY <1>1, <2>4, CheckDoes DEF Started
    <3>2. IsFiniteSet(run'[w].old)
      BY <3>1, FS_EmptySet
    <3>3. hurt' \in BOOLEAN /\ faults' \in 0..MaxFaults /\ row' \in [Tasks -> RowStatus]
      BY <2>1 DEF Types
    <3> QED BY <2>1, <2>2, <3>1, <3>2, <3>3, TypesOfTasks
  <2> QED BY <2>3, <2>4
<1> DEFINE quiet == UNCHANGED <<asset, chunks, embedded, route, overlapped>>
           calm == hurt' \in BOOLEAN /\ faults' \in 0..MaxFaults
<1>2. IsFiniteSet(run[w].old) /\ IsFiniteSet(chunks) /\ row \in [Tasks -> RowStatus]
  BY DEF Types
<1>3. CASE Record(w)
  <2>1. quiet /\ calm /\ row' \in [Tasks -> RowStatus] /\ hurt' = hurt
    BY <1>3, RecordDoes DEF Written, Types
  <2>2. CASE Finished(w, "SUCCESS")
    BY <2>1, <2>2, TypesFinished
  <2>3. CASE Onward(w, "recorded") /\ UNCHANGED job
    <3>1. /\ asset' \in AssetStatus /\ chunks' \subseteq Generations /\ IsFiniteSet(chunks')
          /\ embedded' \subseteq chunks'
      BY <2>1 DEF Types
    <3> QED BY <1>2, <2>1, <2>3, <3>1, TypesMoved DEF Onward
  <2> QED BY <1>3, <2>2, <2>3, RecordDoes
<1>4. CASE InsertFails(w)
  <2>1. quiet /\ calm /\ row' \in [Tasks -> RowStatus] /\ Finished(w, "FAILURE")
    BY <1>4, InsertFailsDoes DEF Types
  <2> QED BY <2>1, TypesFinished
<1>5. CASE Load(w)
  <2>1. quiet /\ calm /\ row' \in [Tasks -> RowStatus] /\ hurt' = hurt
    BY <1>5, LoadDoes DEF Written, Types
  <2>2. CASE Finished(w, "SUCCESS") \/ Finished(w, "FAILURE")
    BY <2>1, <2>2, TypesFinished
  <2>3. CASE Moved(w, "loaded", asset = "processing", chunks, run[w].new) /\ UNCHANGED job
    <3>1. /\ asset' \in AssetStatus /\ chunks' \subseteq Generations /\ IsFiniteSet(chunks')
          /\ embedded' \subseteq chunks'
      BY <2>1 DEF Types
    <3> QED BY <1>2, <2>1, <2>3, <3>1, TypesMoved
  <2> QED BY <1>5, <2>2, <2>3, LoadDoes
<1>6. CASE Mark(w)
  <2>1. Moved(w, "processing", FALSE, run[w].old, run[w].new)
    BY <1>6, Marking
  <2>2. /\ asset' \in AssetStatus /\ chunks' \subseteq Generations /\ IsFiniteSet(chunks')
        /\ embedded' \subseteq chunks' /\ row' \in [Tasks -> RowStatus]
        /\ UNCHANGED <<route, job, overlapped, hurt>> /\ faults' \in 0..MaxFaults
    BY <1>6 DEF Mark, records, Types, AssetStatus
  <2> QED BY <1>2, <2>1, <2>2, TypesMoved
<1>7. CASE Store(w)
  <2>1. Moved(w, "stored", run[w].marked, run[w].old, NextGeneration)
    BY <1>7, Storing
  <2>2. chunks' = chunks \cup {NextGeneration}
    BY <1>7 DEF Store
  <2>3. IsFiniteSet(chunks') /\ chunks' \subseteq Generations
    BY <1>2, <2>2, NextIsFree, FS_AddElement DEF Types
  <2>4. /\ asset' \in AssetStatus
        /\ embedded' \subseteq chunks' /\ row' \in [Tasks -> RowStatus]
        /\ UNCHANGED <<route, job, overlapped, hurt>> /\ faults' \in 0..MaxFaults
    BY <1>7 DEF Store, records, Types
  <2> QED BY <1>2, <2>1, <2>3, <2>4, TypesMoved
<1>8. CASE Index(w)
  <2>1. Onward(w, "indexed")
    BY <1>8, Advancing DEF Index, Stage
  <2>2. /\ asset' \in AssetStatus /\ chunks' \subseteq Generations /\ IsFiniteSet(chunks')
        /\ embedded' \subseteq chunks' /\ row' \in [Tasks -> RowStatus]
        /\ UNCHANGED <<route, job, overlapped, hurt>> /\ faults' \in 0..MaxFaults
    BY <1>8 DEF Index, document, records, Types
  <2> QED BY <1>2, <2>1, <2>2, TypesMoved DEF Onward
<1>9. CASE DropVectors(w)
  <2>1. Onward(w, "dropped")
    BY <1>9, Advancing DEF DropVectors, Stage
  <2>2. chunks' \subseteq chunks
    BY <1>9 DEF DropVectors
  <2>3. IsFiniteSet(chunks')
    BY <1>2, <2>2, FS_Subset
  <2>4. /\ asset' \in AssetStatus /\ chunks' \subseteq Generations
        /\ embedded' \subseteq chunks' /\ row' \in [Tasks -> RowStatus]
        /\ UNCHANGED <<route, job, overlapped, hurt>> /\ faults' \in 0..MaxFaults
    BY <1>9 DEF DropVectors, records, Types
  <2> QED BY <1>2, <2>1, <2>3, <2>4, TypesMoved DEF Onward
<1>10. CASE DropRows(w)
  <2>1. Moved(w, "flushed", run[w].marked, {}, run[w].new)
    BY <1>10, Flushing
  <2>2. /\ chunks' = chunks \ run[w].old
        /\ embedded' = (embedded \ run[w].old) \cup {run[w].new}
        /\ run[w].new \in chunks /\ run[w].new \notin run[w].old
    BY <1>10 DEF DropRows, ChunksHeld
  <2>3. chunks' \subseteq chunks /\ embedded' \subseteq chunks'
    BY <2>2 DEF Types
  <2>4. IsFiniteSet(chunks') /\ IsFiniteSet({})
    BY <1>2, <2>3, FS_Subset, FS_EmptySet
  <2>5. /\ asset' \in AssetStatus /\ chunks' \subseteq Generations /\ row' \in [Tasks -> RowStatus]
        /\ UNCHANGED <<route, job, overlapped, hurt>> /\ faults' \in 0..MaxFaults
    BY <1>10, <2>3 DEF DropRows, records, Types
  <2> QED BY <2>1, <2>3, <2>4, <2>5, TypesMoved
<1>11. CASE Complete(w)
  <2>1. Moved(w, "completed", run[w].marked, run[w].old, 0)
    BY <1>11, Completing
  <2>2. /\ asset' \in AssetStatus /\ chunks' \subseteq Generations /\ IsFiniteSet(chunks')
        /\ row' \in [Tasks -> RowStatus]
        /\ UNCHANGED <<route, job, overlapped, hurt>> /\ faults' \in 0..MaxFaults
    BY <1>11 DEF Complete, records, Types, AssetStatus
  <2>3. embedded' = embedded \cup LockedChunks(w) /\ chunks' = chunks
    BY <1>11 DEF Complete
  <2>4. LockedChunks(w) \subseteq chunks
    BY DEF LockedChunks, ChunksHeld
  <2>5. embedded' \subseteq chunks'
    BY <2>3, <2>4 DEF Types
  <2> QED BY <1>2, <2>1, <2>2, <2>5, TypesMoved
<1>12. CASE Fail(w)
  <2>1. Moved(w, "failed", run[w].marked, {}, 0)
    BY <1>12, Failing
  <2>2. chunks' \subseteq chunks
    BY <1>12 DEF Fail
  <2>3. IsFiniteSet(chunks') /\ IsFiniteSet({})
    BY <1>2, <2>2, FS_Subset, FS_EmptySet
  <2>4. /\ asset' \in AssetStatus /\ chunks' \subseteq Generations
        /\ embedded' \subseteq chunks' /\ row' \in [Tasks -> RowStatus]
        /\ UNCHANGED <<route, job, overlapped, hurt>> /\ faults' \in 0..MaxFaults
    BY <1>12 DEF Fail, records, Types, AssetStatus
  <2> QED BY <2>1, <2>3, <2>4, TypesMoved
<1>13. CASE Conclude(w)
  <2>1. quiet /\ calm /\ row' \in [Tasks -> RowStatus]
    BY <1>13, ConcludeDoes DEF Written, Types
  <2> QED BY <1>13, <2>1, ConcludeDoes, TypesFinished
<1>14. CASE Vanish(w)
  <2>1. quiet /\ calm /\ row' \in [Tasks -> RowStatus] /\ Finished(w, "FAILURE")
    BY <1>14, VanishDoes DEF Types
  <2> QED BY <2>1, TypesFinished
<1> QED BY <1>1, <1>3, <1>4, <1>5, <1>6, <1>7, <1>8, <1>9, <1>10, <1>11, <1>12, <1>13, <1>14 DEF Work


LEMMA TypesStep ==
  ASSUME Types, TasksHeld, ChunksHeld, [Next]_vars
  PROVE  Types'
<1>1. ASSUME NEW t \in Tasks,
             Dispatch(t) \/ RecordOwner(t) \/ RequestDies(t) \/ Poll(t) \/ Cleanup(t)
      PROVE  Types'
  BY <1>1, TypesOutside
<1>2. ASSUME NEW w \in Workers, Work(w) PROVE Types'
  BY <1>2, TypesWork
<1>3. ASSUME NEW w \in Workers, Jam(w) PROVE Types'
  <2>1. Onward(w, "jammed") /\ IsFiniteSet(run[w].old)
    BY <1>3, Advancing DEF Jam, Stage, Types
  <2>2. /\ asset' \in AssetStatus /\ chunks' \subseteq Generations /\ IsFiniteSet(chunks')
        /\ embedded' \subseteq chunks' /\ row' \in [Tasks -> RowStatus]
        /\ UNCHANGED <<route, job, overlapped, hurt>> /\ faults' \in 0..MaxFaults
    BY <1>3, ProcessingConstants DEF Jam, Spend, document, records, Types
  <2> QED BY <2>1, <2>2, TypesMoved DEF Onward
<1>4. ASSUME NEW w \in Workers, Crash(w) PROVE Types'
  <2>1. hurt' \in BOOLEAN /\ row' \in [Tasks -> RowStatus]
    BY <1>4, CrashDoes DEF Types
  <2> QED BY <1>4, <2>1, CrashDoes, TypesFinished
<1>5. ASSUME NEW w \in Workers, Abort(w) PROVE Types'
  <2>1. hurt' \in BOOLEAN /\ row' \in [Tasks -> RowStatus]
    BY <1>5, AbortDoes DEF Types
  <2> QED BY <1>5, <2>1, AbortDoes, TypesFinished
<1>6. CASE Delete
  BY <1>6, FS_EmptySet DEF Delete, records, Types, AssetStatus
<1>7. CASE UNCHANGED vars
  BY <1>7 DEF vars, Types
<1> QED BY <1>1, <1>2, <1>3, <1>4, <1>5, <1>6, <1>7 DEF Next

\* The tasks of the workers.  The four ways in which a step concerns them:
LEMMA TasksElsewhere ==
  ASSUME TasksHeld, run' = run, \A t \in Tasks : job[t] = "running" => job'[t] = "running",
         \A t \in Tasks : row'[t] = "none" => row[t] = "none" \/ job[t] # "running",
         \A t \in Tasks : route'[t] = "unused" => route[t] = "unused" /\ job'[t] = job[t]
  PROVE  TasksHeld'
BY DEF TasksHeld

LEMMA TasksFinished ==
  ASSUME TasksHeld, NEW w \in Workers, run[w].at # "idle", NEW r, Finished(w, r), route' = route,
         \A t \in Tasks : row'[t] = "none" => row[t] = "none"
  PROVE  TasksHeld'
<1>1. run'[w] = Idle /\ run'[w].at = "idle" /\ \A v \in Workers \ {w} : run'[v] = run[v]
  BY DEF Finished, Stopped, Rest, Idle
<1>2. run[w].task \in Tasks /\ job[run[w].task] = "running"
  BY DEF TasksHeld
<1>3. \A t \in Tasks \ {run[w].task} : job'[t] = job[t]
  BY DEF Finished
<1>4. \A v \in Workers : run'[v].at = "idle" => run'[v] = Idle
  BY <1>1 DEF TasksHeld
<1>5. ASSUME NEW v \in Workers, run'[v].at # "idle"
      PROVE  /\ run'[v].task \in Tasks
             /\ job'[run'[v].task] = "running"
             /\ run'[v].at \notin {"skip", "go"} => row'[run'[v].task] # "none"
  <2>1. v # w /\ run'[v] = run[v]
    BY <1>1, <1>5
  <2>2. run[v].task # run[w].task /\ run[v].task \in Tasks
    BY <1>5, <2>1 DEF TasksHeld
  <2> QED BY <1>3, <1>5, <2>1, <2>2 DEF TasksHeld
<1>6. \A u, v \in Workers :
        u # v /\ run'[u].at # "idle" /\ run'[v].at # "idle" => run'[u].task # run'[v].task
  BY <1>1 DEF TasksHeld
<1>7. \A t \in Tasks : route'[t] = "unused" => job'[t] = "none"
  <2>1. \A t \in Tasks : route'[t] = "unused" => route[t] = "unused" /\ job[t] = "none"
    BY DEF TasksHeld
  <2> QED BY <1>2, <1>3, <2>1
<1> QED BY <1>4, <1>5, <1>6, <1>7 DEF TasksHeld

LEMMA TasksMoved ==
  ASSUME TasksHeld, NEW w \in Workers, run[w].at # "idle",
         NEW stage \in Stage \ {"idle", "skip", "go"}, NEW marked, NEW old, NEW new,
         Moved(w, stage, marked, old, new), UNCHANGED <<route, job>>,
         \A t \in Tasks : row'[t] = "none" => row[t] = "none",
         row'[run[w].task] # "none"
  PROVE  TasksHeld'
<1>1. run'[w].at = stage /\ run'[w].task = run[w].task /\ \A v \in Workers \ {w} : run'[v] = run[v]
  BY DEF Moved, Rest
<1>2. \A v \in Workers : run'[v].at = "idle" => run'[v] = Idle
  BY <1>1 DEF TasksHeld
<1>3. ASSUME NEW v \in Workers, run'[v].at # "idle"
      PROVE  /\ run'[v].task \in Tasks
             /\ job'[run'[v].task] = "running"
             /\ run'[v].at \notin {"skip", "go"} => row'[run'[v].task] # "none"
  <2>1. CASE v = w
    BY <1>1, <2>1 DEF TasksHeld
  <2>2. CASE v # w
    BY <1>1, <1>3, <2>2 DEF TasksHeld
  <2> QED BY <2>1, <2>2
<1>4. \A u, v \in Workers :
        u # v /\ run'[u].at # "idle" /\ run'[v].at # "idle" => run'[u].task # run'[v].task
  BY <1>1 DEF TasksHeld
<1> QED BY <1>2, <1>3, <1>4 DEF TasksHeld

LEMMA TasksStarted ==
  ASSUME TasksHeld, NEW w \in Workers, run[w] = Idle, NEW t \in Tasks, job[t] = "queued",
         NEW stage \in {"skip", "go"}, Started(w, t, stage), job'[t] = "running",
         \A s \in Tasks \ {t} : job'[s] = job[s], UNCHANGED <<row, route>>
  PROVE  TasksHeld'
<1>1. run'[w].at = stage /\ run'[w].task = t /\ \A v \in Workers \ {w} : run'[v] = run[v]
  BY DEF Started, Rest
<1>2. \A v \in Workers : run'[v].at = "idle" => run'[v] = Idle
  BY <1>1 DEF TasksHeld
<1>3. \A v \in Workers \ {w} : run[v].at # "idle" => run[v].task # t
  BY DEF TasksHeld
<1>4. ASSUME NEW v \in Workers, run'[v].at # "idle"
      PROVE  /\ run'[v].task \in Tasks
             /\ job'[run'[v].task] = "running"
             /\ run'[v].at \notin {"skip", "go"} => row'[run'[v].task] # "none"
  <2>1. CASE v = w
    BY <1>1, <2>1
  <2>2. CASE v # w
    BY <1>1, <1>3, <1>4, <2>2 DEF TasksHeld
  <2> QED BY <2>1, <2>2
<1>5. \A u, v \in Workers :
        u # v /\ run'[u].at # "idle" /\ run'[v].at # "idle" => run'[u].task # run'[v].task
  BY <1>1, <1>3 DEF TasksHeld
<1>6. \A s \in Tasks : route'[s] = "unused" => job'[s] = "none"
  BY DEF TasksHeld
<1> QED BY <1>2, <1>4, <1>5, <1>6 DEF TasksHeld


LEMMA TasksWork ==
  ASSUME Types, TasksHeld, NEW w \in Workers, Work(w)
  PROVE  TasksHeld'
<1>1. ASSUME NEW t \in Tasks, Check(w, t) PROVE TasksHeld'
  <2>1. /\ run[w] = Idle /\ job[t] = "queued" /\ UNCHANGED <<row, route>>
        /\ \A s \in Tasks \ {t} : job'[s] = job[s]
    BY <1>1, CheckDoes
  <2>2. CASE run' = run
    <3>1. \A s \in Tasks : route[s] = "unused" => s # t
      BY <2>1 DEF TasksHeld
    <3> QED BY <2>1, <2>2, <3>1, TasksElsewhere
  <2>3. CASE job'[t] = "running" /\ (Started(w, t, "skip") \/ Started(w, t, "go"))
    BY <2>1, <2>3, TasksStarted
  <2> QED BY <1>1, <2>2, <2>3, CheckDoes
<1>2. CASE Record(w)
  <2>1. /\ run[w].at \in {"skip", "go"} /\ run[w].at # "idle" /\ route' = route
        /\ run[w].task \in Tasks
        /\ row'[run[w].task] # "none"
        /\ \A t \in Tasks : row'[t] = "none" => row[t] = "none"
    BY <1>2, RecordDoes, Working DEF Written
  <2>2. CASE Finished(w, "SUCCESS")
    BY <2>1, <2>2, TasksFinished
  <2>3. CASE Onward(w, "recorded") /\ UNCHANGED job
    BY <2>1, <2>3, TasksMoved DEF Onward, Stage
  <2> QED BY <1>2, <2>2, <2>3, RecordDoes
<1>3. CASE InsertFails(w)
  BY <1>3, InsertFailsDoes, TasksFinished
<1>4. CASE Load(w)
  <2>1. run[w].at = "recorded" /\ route' = route /\ run[w].task \in Tasks
    BY <1>4, LoadDoes, Working
  <2>2. row[run[w].task] # "none"
    BY <2>1 DEF TasksHeld
  <2>3. CASE Finished(w, "SUCCESS") /\ Written(w, "SUCCESS")
    <3>1. \A t \in Tasks : row'[t] = "none" => row[t] = "none"
      BY <2>1, <2>3 DEF Written
    <3> QED BY <2>1, <2>3, <3>1, TasksFinished
  <2>4. CASE Finished(w, "FAILURE") /\ Written(w, "FAILURE")
    <3>1. \A t \in Tasks : row'[t] = "none" => row[t] = "none"
      BY <2>1, <2>4 DEF Written
    <3> QED BY <2>1, <2>4, <3>1, TasksFinished
  <2>5. CASE Moved(w, "loaded", asset = "processing", chunks, run[w].new) /\ UNCHANGED <<row, job>>
    BY <2>1, <2>2, <2>5, TasksMoved DEF Stage
  <2> QED BY <1>4, <2>3, <2>4, <2>5, LoadDoes
<1>5. CASE Conclude(w)
  <2>1. run[w].at # "idle" /\ route' = route /\ run[w].task \in Tasks
    BY <1>5, ConcludeDoes, Working
  <2>2. CASE Finished(w, "SUCCESS") /\ Written(w, "SUCCESS")
    <3>1. \A t \in Tasks : row'[t] = "none" => row[t] = "none"
      BY <2>1, <2>2 DEF Written
    <3> QED BY <2>1, <2>2, <3>1, TasksFinished
  <2>3. CASE Finished(w, "FAILURE") /\ Written(w, "FAILURE")
    <3>1. \A t \in Tasks : row'[t] = "none" => row[t] = "none"
      BY <2>1, <2>3 DEF Written
    <3> QED BY <2>1, <2>3, <3>1, TasksFinished
  <2> QED BY <1>5, <2>2, <2>3, ConcludeDoes
<1>6. CASE Vanish(w)
  BY <1>6, VanishDoes, TasksFinished
<1>7. ASSUME UNCHANGED <<row, route, job>>, run[w].at \notin {"idle", "skip", "go"}
      PROVE  /\ run[w].at # "idle" /\ row'[run[w].task] # "none"
             /\ \A t \in Tasks : row'[t] = "none" => row[t] = "none"
  BY <1>7 DEF TasksHeld
<1>8. CASE Mark(w)
  <2>1. UNCHANGED <<row, route, job>> /\ run[w].at \notin {"idle", "skip", "go"}
    BY <1>8 DEF Mark, records
  <2> QED BY <1>7, <1>8, <2>1, Marking, TasksMoved DEF Stage
<1>9. CASE Store(w)
  <2>1. UNCHANGED <<row, route, job>> /\ run[w].at \notin {"idle", "skip", "go"}
    BY <1>9 DEF Store, records
  <2> QED BY <1>7, <1>9, <2>1, Storing, TasksMoved DEF Stage
<1>10. CASE Index(w)
  <2>1. UNCHANGED <<row, route, job>> /\ run[w].at \notin {"idle", "skip", "go"} /\ Onward(w, "indexed")
    BY <1>10, Advancing DEF Index, records, Stage
  <2> QED BY <1>7, <2>1, TasksMoved DEF Onward, Stage
<1>11. CASE DropVectors(w)
  <2>1. UNCHANGED <<row, route, job>> /\ run[w].at \notin {"idle", "skip", "go"} /\ Onward(w, "dropped")
    BY <1>11, Advancing DEF DropVectors, records, Stage
  <2> QED BY <1>7, <2>1, TasksMoved DEF Onward, Stage
<1>12. CASE DropRows(w)
  <2>1. UNCHANGED <<row, route, job>> /\ run[w].at \notin {"idle", "skip", "go"}
    BY <1>12 DEF DropRows, records
  <2> QED BY <1>7, <1>12, <2>1, Flushing, TasksMoved DEF Stage
<1>13. CASE Complete(w)
  <2>1. UNCHANGED <<row, route, job>> /\ run[w].at \notin {"idle", "skip", "go"}
    BY <1>13 DEF Complete, records
  <2> QED BY <1>7, <1>13, <2>1, Completing, TasksMoved DEF Stage
<1>14. CASE Fail(w)
  <2>1. UNCHANGED <<row, route, job>> /\ run[w].at \notin {"idle", "skip", "go"}
    BY <1>14 DEF Fail, records
  <2> QED BY <1>7, <1>14, <2>1, Failing, TasksMoved DEF Stage
<1> QED BY <1>1, <1>2, <1>3, <1>4, <1>5, <1>6, <1>8, <1>9, <1>10, <1>11, <1>12, <1>13, <1>14 DEF Work

LEMMA TasksStep ==
  ASSUME Types, TasksHeld, [Next]_vars
  PROVE  TasksHeld'
<1>1. ASSUME NEW t \in Tasks,
             Dispatch(t) \/ RecordOwner(t) \/ RequestDies(t) \/ Poll(t) \/ Cleanup(t)
      PROVE  TasksHeld'
  <2>1. run' = run
    BY <1>1 DEF Dispatch, RecordOwner, RequestDies, Poll, Cleanup
  <2>2. \A s \in Tasks : job[s] = "running" => job'[s] = "running"
    BY <1>1 DEF Dispatch, RecordOwner, RequestDies, Poll, Cleanup, TasksHeld, Types
  <2>3. \A s \in Tasks : route'[s] = "unused" => route[s] = "unused" /\ job'[s] = job[s]
    BY <1>1 DEF Dispatch, RecordOwner, RequestDies, Poll, Cleanup, Types
  <2>4. ASSUME NEW s \in Tasks, row'[s] = "none" PROVE row[s] = "none" \/ job[s] # "running"
    <3>1. CASE Dispatch(t) \/ RequestDies(t)
      BY <2>4, <3>1 DEF Dispatch, RequestDies, records
    <3>2. CASE RecordOwner(t)
      BY <2>4, <3>2 DEF RecordOwner, Insert, Types
    <3>3. CASE Poll(t)
      BY <2>4, <3>3 DEF Poll, Ended, Types
    <3>4. CASE Cleanup(t)
      BY <2>4, <3>4 DEF Cleanup, Ended, Types
    <3> QED BY <1>1, <3>1, <3>2, <3>3, <3>4
  <2> QED BY <2>1, <2>2, <2>3, <2>4, TasksElsewhere
<1>2. ASSUME NEW w \in Workers, Work(w) PROVE TasksHeld'
  BY <1>2, TasksWork
<1>3. ASSUME NEW w \in Workers, Jam(w) PROVE TasksHeld'
  <2>1. /\ UNCHANGED <<row, route, job>> /\ run[w].at = "stored"
        /\ Onward(w, "jammed")
    BY <1>3, Advancing DEF Jam, document, records, Stage
  <2>2. row'[run[w].task] # "none"
    BY <2>1 DEF TasksHeld
  <2> QED BY <2>1, <2>2, TasksMoved DEF Onward, Stage
<1>4. ASSUME NEW w \in Workers, Crash(w) PROVE TasksHeld'
  BY <1>4, CrashDoes, TasksFinished
<1>5. ASSUME NEW w \in Workers, Abort(w) PROVE TasksHeld'
  BY <1>5, AbortDoes, TasksFinished
<1>6. CASE Delete
  <2>1. UNCHANGED <<row, route, job, run>>
    BY <1>6 DEF Delete, records
  <2> QED BY <2>1, TasksElsewhere
<1>7. CASE UNCHANGED vars
  <2>1. UNCHANGED <<row, route, job, run>>
    BY <1>7 DEF vars
  <2> QED BY <2>1, TasksElsewhere
<1> QED BY <1>1, <1>2, <1>3, <1>4, <1>5, <1>6, <1>7 DEF Next


(***************************************************************************)
(* The list of rows.                                                        *)
(***************************************************************************)

LEMMA RowsInserted ==
  ASSUME Types, RowsListed, NEW t \in Tasks, NEW s \in RowStatus \ {"none"}, row[t] = "none", Insert(t, s)
  PROVE  RowsListed'
<1>1. created' = Append(created, t) /\ created \in Seq(Tasks)
  BY DEF Insert, RowsListed
<1> DEFINE n == Len(created)
<1>2. /\ created' \in Seq(Tasks) /\ Len(created') = n + 1
      /\ \A i \in 1..n : created'[i] = created[i]
      /\ created'[n + 1] = t
  BY <1>1, AppendProperties
<1>3. n \in Nat /\ DOMAIN created = 1..n /\ DOMAIN created' = 1..(n + 1)
  BY <1>1, <1>2
<1> HIDE DEF n
<1>4. \A i \in 1..n : created[i] # t
  BY <1>3 DEF RowsListed
<1>5. row'[t] # "none" /\ \A u \in Tasks \ {t} : row'[u] = row[u]
  BY DEF Insert, Types
<1>6. \A i \in 1..(n + 1) : i \in 1..n \/ i = n + 1
  BY <1>3
<1>7. n + 1 \in 1..(n + 1) /\ \A i \in 1..n : i \in 1..(n + 1)
  BY <1>3
<1>8. ASSUME NEW u \in Tasks
      PROVE  row'[u] = "none" <=> \A i \in DOMAIN created' : created'[i] # u
  <2>1. CASE u = t
    BY <1>2, <1>3, <1>5, <1>7, <2>1
  <2>2. CASE u # t
    <3>1. row[u] = "none" <=> \A i \in 1..n : created[i] # u
      BY <1>3 DEF RowsListed
    <3> QED BY <1>2, <1>3, <1>5, <1>6, <1>7, <2>2, <3>1
  <2> QED BY <2>1, <2>2
<1>9. ASSUME NEW i \in 1..(n + 1), NEW j \in 1..(n + 1), created'[i] = created'[j] PROVE i = j
  <2>1. CASE i \in 1..n /\ j \in 1..n
    BY <1>2, <1>3, <1>9, <2>1 DEF RowsListed
  <2>2. CASE i = n + 1 \/ j = n + 1
    BY <1>2, <1>4, <1>6, <1>9, <2>2
  <2> QED BY <1>6, <2>1, <2>2
<1> QED BY <1>2, <1>3, <1>8, <1>9 DEF RowsListed

LEMMA RowsRewritten ==
  ASSUME RowsListed, created' = created, \A t \in Tasks : row'[t] = "none" <=> row[t] = "none"
  PROVE  RowsListed'
BY DEF RowsListed

LEMMA RowsRemoved ==
  ASSUME Types, RowsListed, NEW t \in Tasks, Cleanup(t)
  PROVE  RowsListed'
<1>1. created' = Others(t) /\ row'[t] = "none" /\ \A u \in Tasks \ {t} : row'[u] = row[u]
  BY DEF Cleanup, Types
<1>2. /\ Others(t) \in Seq(Tasks)
      /\ \A s \in Tasks : (\E i \in DOMAIN Others(t) : Others(t)[i] = s)
                          <=> s # t /\ \E i \in DOMAIN created : created[i] = s
      /\ \A i, j \in DOMAIN Others(t) : Others(t)[i] = Others(t)[j] => i = j
  BY OthersListed
<1>3. \A u \in Tasks : row[u] = "none" <=> \A i \in DOMAIN created : created[i] # u
  BY DEF RowsListed
<1>4. ASSUME NEW u \in Tasks
      PROVE  row'[u] = "none" <=> \A i \in DOMAIN created' : created'[i] # u
  <2>1. CASE u = t
    BY <1>1, <1>2, <2>1
  <2>2. CASE u # t
    <3>1. (\E i \in DOMAIN Others(t) : Others(t)[i] = u) <=> \E i \in DOMAIN created : created[i] = u
      BY <1>2, <2>2
    <3> QED BY <1>1, <1>3, <2>2, <3>1
  <2> QED BY <2>1, <2>2
<1> QED BY <1>1, <1>2, <1>4 DEF RowsListed

LEMMA RowsStep ==
  ASSUME Types, TasksHeld, RowsListed, [Next]_vars
  PROVE  RowsListed'
<1>1. ASSUME NEW t \in Tasks,
             Dispatch(t) \/ RecordOwner(t) \/ RequestDies(t) \/ Poll(t) \/ Cleanup(t)
      PROVE  RowsListed'
  <2>1. CASE Dispatch(t) \/ RequestDies(t)
    BY <2>1, RowsRewritten DEF Dispatch, RequestDies, records
  <2>2. CASE RecordOwner(t) /\ row[t] = "none"
    <3>1. Insert(t, "open")
      BY <2>2 DEF RecordOwner
    <3> QED BY <2>2, <3>1, RowsInserted DEF RowStatus
  <2>3. CASE RecordOwner(t) /\ row[t] # "none"
    <3>1. created' = created /\ row' \in {row, [row EXCEPT ![t] = "open"]}
      BY <2>3 DEF RecordOwner
    <3>2. \A u \in Tasks : row'[u] = "none" <=> row[u] = "none"
      BY <2>3, <3>1 DEF Types
    <3> QED BY <3>1, <3>2, RowsRewritten
  <2>4. CASE Poll(t)
    <3>1. created' = created /\ row' = [row EXCEPT ![t] = job[t]] /\ row[t] = "open"
          /\ job[t] # "none"
      BY <2>4 DEF Poll, Ended
    <3>2. \A u \in Tasks : row'[u] = "none" <=> row[u] = "none"
      BY <3>1 DEF Types
    <3> QED BY <3>1, <3>2, RowsRewritten
  <2>5. CASE Cleanup(t)
    BY <2>5, RowsRemoved
  <2> QED BY <1>1, <2>1, <2>2, <2>3, <2>4, <2>5
<1>2. ASSUME NEW w \in Workers, NEW s \in {"SUCCESS", "FAILURE", "open"}, Written(w, s), created' = created,
             run[w].task \in Tasks, row[run[w].task] # "none"
      PROVE  RowsListed'
  <2>1. \A u \in Tasks : row'[u] = "none" <=> row[u] = "none"
    BY <1>2 DEF Written
  <2> QED BY <1>2, <2>1, RowsRewritten
<1>3. ASSUME NEW w \in Workers, Record(w) PROVE RowsListed'
  <2> DEFINE t == run[w].task
             s == IF run[w].at = "skip" THEN "SUCCESS" ELSE "open"
  <2>1. t \in Tasks
    BY <1>3, Working DEF Record
  <2>2. CASE row[t] = "none"
    <3>1. Insert(t, s) /\ s \in RowStatus \ {"none"}
      BY <1>3, <2>2 DEF Record, RowStatus
    <3> HIDE DEF s, t
    <3> QED BY <2>1, <2>2, <3>1, RowsInserted
  <2>3. CASE row[t] # "none"
    <3>1. row' = [row EXCEPT ![t] = s] /\ created' = created /\ s \in {"SUCCESS", "open"}
      BY <1>3, <2>3 DEF Record
    <3> HIDE DEF s, t
    <3>2. \A u \in Tasks : row'[u] = "none" <=> row[u] = "none"
      BY <2>1, <2>3, <3>1 DEF Types
    <3> QED BY <3>1, <3>2, RowsRewritten
  <2> QED BY <2>2, <2>3
<1>4. ASSUME NEW w \in Workers, Load(w) \/ Conclude(w) PROVE RowsListed'
  <2>1. run[w].at \in {"recorded", "completed", "failed"} /\ created' = created
    BY <1>4, LoadDoes, ConcludeDoes
  <2>2. run[w].task \in Tasks /\ row[run[w].task] # "none"
    BY <2>1, Working DEF TasksHeld
  <2>3. row' = row \/ Written(w, "SUCCESS") \/ Written(w, "FAILURE")
    BY <1>4, LoadDoes, ConcludeDoes
  <2>4. CASE row' = row
    BY <2>1, <2>4, RowsRewritten
  <2> QED BY <1>2, <2>1, <2>2, <2>3, <2>4
<1>5. ASSUME NEW w \in Workers, Work(w) PROVE RowsListed'
  <2>1. ASSUME UNCHANGED <<row, created>> PROVE RowsListed'
    BY <2>1, RowsRewritten
  <2>2. ASSUME NEW t \in Tasks, Check(w, t) PROVE RowsListed'
    BY <2>1, <2>2, CheckDoes
  <2>3. CASE InsertFails(w) \/ Vanish(w)
    BY <2>1, <2>3, InsertFailsDoes, VanishDoes
  <2>4. CASE Mark(w) \/ Store(w) \/ Index(w) \/ DropVectors(w) \/ DropRows(w) \/ Complete(w) \/ Fail(w)
    BY <2>1, <2>4 DEF Mark, Store, Index, DropVectors, DropRows, Complete, Fail, records
  <2> QED BY <1>3, <1>4, <1>5, <2>2, <2>3, <2>4 DEF Work
<1>6. ASSUME NEW w \in Workers, Jam(w) \/ Crash(w) \/ Abort(w) PROVE RowsListed'
  <2>1. UNCHANGED <<row, created>>
    BY <1>6 DEF Jam, Crash, Abort, records
  <2> QED BY <2>1, RowsRewritten
<1>7. CASE Delete \/ UNCHANGED vars
  <2>1. UNCHANGED <<row, created>>
    BY <1>7 DEF Delete, vars, records
  <2> QED BY <2>1, RowsRewritten
<1> QED BY <1>1, <1>5, <1>6, <1>7 DEF Next

(***************************************************************************)
(* The chunks of each run.                                                  *)
(***************************************************************************)

Stored == {"stored", "jammed", "indexed", "dropped", "flushed"}
Locking == {"jammed", "indexed", "dropped"}

LEMMA LocksAre ==
  ASSUME NEW w \in Workers
  PROVE  LockedChunks(w) = IF run[w].at \in Locking THEN {run[w].new} ELSE {}
BY DEF LockedChunks, Locking

LEMMA ChunksElsewhere ==
  ASSUME ChunksHeld, run' = run, chunks' = chunks
  PROVE  ChunksHeld'
BY DEF ChunksHeld

LEMMA ChunksLeft ==
  ASSUME ChunksHeld, NEW w \in Workers, Rest(w), run'[w].at \notin Stored, run'[w].new = 0,
         chunks' = chunks
  PROVE  ChunksHeld'
<1>1. \A v \in Workers \ {w} : run'[v] = run[v]
  BY DEF Rest
<1>2. ASSUME NEW u \in Workers, NEW v \in Workers, u # v, run'[u].new # 0
      PROVE  run'[u].new # run'[v].new
  BY <1>1, <1>2 DEF ChunksHeld
<1> QED BY <1>1, <1>2 DEF ChunksHeld, Stored

LEMMA ChunksMoved ==
  ASSUME ChunksHeld, NEW w \in Workers,
         NEW stage, NEW marked, NEW old, NEW new, Moved(w, stage, marked, old, new),
         \A v \in Workers \ {w} : new = 0 \/ run[v].new # new,
         stage \in Stored => new # 0 /\ new \notin old,
         stage \in Locking => new \in chunks',
         \A v \in Workers \ {w} : run[v].at \in Locking => run[v].new \in chunks'
  PROVE  ChunksHeld'
<1>1. /\ \A v \in Workers \ {w} : run'[v] = run[v]
      /\ run'[w].at = stage /\ run'[w].old = old /\ run'[w].new = new
  BY DEF Moved, Rest
<1>2. ASSUME NEW v \in Workers
      PROVE  /\ run'[v].at \in Stored => run'[v].new # 0 /\ run'[v].new \notin run'[v].old
             /\ run'[v].at \in Locking => run'[v].new \in chunks'
  BY <1>1 DEF ChunksHeld, Stored, Locking
<1>3. ASSUME NEW u \in Workers, NEW v \in Workers, u # v, run'[u].new # 0
      PROVE  run'[u].new # run'[v].new
  <2>1. CASE u = w
    BY <1>1, <1>3, <2>1
  <2>2. CASE v = w
    BY <1>1, <1>3, <2>2
  <2>3. CASE u # w /\ v # w
    BY <1>1, <1>3, <2>3 DEF ChunksHeld
  <2> QED BY <2>1, <2>2, <2>3
<1> QED BY <1>2, <1>3 DEF ChunksHeld, Stored, Locking

LEMMA ChunksWork ==
  ASSUME Types, TasksHeld, ChunksHeld, NEW w \in Workers, Work(w) \/ Jam(w)
  PROVE  ChunksHeld'
<1>1. /\ \A v \in Workers \ {w} : run[w].new = 0 \/ run[v].new # run[w].new
      /\ \A v \in Workers \ {w} : run[v].new = 0 \/ run[v].new # run[w].new
      /\ \A v \in Workers : run[v].at \in Locking => run[v].new \in chunks /\ run[v].new # 0
      /\ run[w].at \in Stored => run[w].new # 0 /\ run[w].new \notin run[w].old
  BY DEF ChunksHeld, Locking, Stored
<1>2. ASSUME NEW r, Finished(w, r), chunks' = chunks PROVE ChunksHeld'
  <2>1. Rest(w) /\ run'[w].at \notin Stored /\ run'[w].new = 0
    BY <1>2 DEF Finished, Stopped, Idle, Stored
  <2> QED BY <1>2, <2>1, ChunksLeft
<1>3. ASSUME NEW stage, NEW marked, NEW old, Moved(w, stage, marked, old, run[w].new), chunks' = chunks,
             stage \notin Stored
      PROVE  ChunksHeld'
  <2>1. stage \notin Locking
    BY <1>3 DEF Stored, Locking
  <2> QED BY <1>1, <1>3, <2>1, ChunksMoved
<1>4. ASSUME NEW t \in Tasks, Check(w, t) PROVE ChunksHeld'
  <2>1. chunks' = chunks
    BY <1>4, CheckDoes
  <2>2. CASE run' = run
    BY <2>1, <2>2, ChunksElsewhere
  <2>3. CASE Started(w, t, "skip") \/ Started(w, t, "go")
    <3>1. Rest(w) /\ run'[w].at \notin Stored /\ run'[w].new = 0
      BY <2>3 DEF Started, Stored
    <3> QED BY <2>1, <3>1, ChunksLeft
  <2> QED BY <1>4, <2>2, <2>3, CheckDoes
<1>5. CASE Record(w)
  BY <1>2, <1>3, <1>5, RecordDoes DEF Onward, Stored
<1>6. CASE InsertFails(w) \/ Vanish(w) \/ Conclude(w)
  BY <1>2, <1>6, InsertFailsDoes, VanishDoes, ConcludeDoes
<1>7. CASE Load(w)
  BY <1>2, <1>3, <1>7, LoadDoes DEF Stored
<1>8. CASE Mark(w)
  BY <1>3, <1>8, Marking DEF Mark, Stored
<1>9. CASE Store(w)
  <2> DEFINE g == NextGeneration
  <2>1. /\ g # 0 /\ \A v \in Workers : g \notin run[v].old /\ run[v].new # g
    BY NextIsFree DEF Generations
  <2>2. Moved(w, "stored", run[w].marked, run[w].old, g) /\ chunks' = chunks \cup {g}
    BY <1>9, Storing DEF Store
  <2> HIDE DEF g
  <2> QED BY <1>1, <2>1, <2>2, ChunksMoved DEF Locking
<1>10. CASE Index(w)
  <2>1. Onward(w, "indexed") /\ chunks' = chunks /\ run[w].new \in chunks /\ run[w].at \in Stored
    BY <1>10, Advancing DEF Index, document, Stage, Stored
  <2> QED BY <1>1, <2>1, ChunksMoved DEF Onward
<1>11. CASE Jam(w)
  <2>1. Onward(w, "jammed") /\ chunks' = chunks /\ run[w].new \in chunks /\ run[w].at \in Stored
    BY <1>11, Advancing DEF Jam, document, Stage, Stored
  <2> QED BY <1>1, <2>1, ChunksMoved DEF Onward
<1>12. ASSUME OldUnlocked(w)
       PROVE  \A v \in Workers \ {w} : run[v].at \in Locking => run[v].new \in chunks \ run[w].old
  BY <1>1, <1>12, LocksAre DEF OldUnlocked
<1>13. CASE DropVectors(w)
  <2>1. Onward(w, "dropped") /\ run[w].at \in Stored /\ run[w].at \in Locking
    BY <1>13, Advancing DEF DropVectors, Stage, Stored, Locking
  <2>2. chunks' = chunks \/ (OldUnlocked(w) /\ chunks' = chunks \ run[w].old)
    BY <1>13 DEF DropVectors
  <2>3. /\ run[w].new \in chunks'
        /\ \A v \in Workers \ {w} : run[v].at \in Locking => run[v].new \in chunks'
    BY <1>1, <1>12, <2>1, <2>2
  <2> QED BY <1>1, <2>1, <2>3, ChunksMoved DEF Onward
<1>14. CASE DropRows(w)
  <2>1. /\ Moved(w, "flushed", run[w].marked, {}, run[w].new) /\ run[w].at \in Stored
        /\ OldUnlocked(w) /\ chunks' = chunks \ run[w].old
    BY <1>14, Flushing DEF DropRows, Stored
  <2> QED BY <1>1, <1>12, <2>1, ChunksMoved DEF Locking
<1>15. CASE Complete(w)
  <2>1. Moved(w, "completed", run[w].marked, run[w].old, 0) /\ chunks' = chunks
    BY <1>15, Completing DEF Complete
  <2> QED BY <1>1, <2>1, ChunksMoved DEF Locking, Stored
<1>16. CASE Fail(w)
  <2>1. Moved(w, "failed", run[w].marked, {}, 0) /\ chunks' = chunks \ {run[w].new}
    BY <1>16, Failing DEF Fail
  <2> QED BY <1>1, <2>1, ChunksMoved DEF Locking, Stored
<1> QED BY <1>4, <1>5, <1>6, <1>7, <1>8, <1>9, <1>10, <1>11, <1>13, <1>14, <1>15, <1>16 DEF Work

LEMMA ChunksStep ==
  ASSUME Types, TasksHeld, ChunksHeld, [Next]_vars
  PROVE  ChunksHeld'
<1>1. ASSUME NEW t \in Tasks,
             Dispatch(t) \/ RecordOwner(t) \/ RequestDies(t) \/ Poll(t) \/ Cleanup(t)
      PROVE  ChunksHeld'
  <2>1. run' = run /\ chunks' = chunks
    BY <1>1 DEF Dispatch, RecordOwner, RequestDies, Poll, Cleanup, document
  <2> QED BY <2>1, ChunksElsewhere
<1>2. ASSUME NEW w \in Workers, Work(w) \/ Jam(w) PROVE ChunksHeld'
  BY <1>2, ChunksWork
<1>3. ASSUME NEW w \in Workers, Crash(w) \/ Abort(w) PROVE ChunksHeld'
  <2>1. chunks' = chunks /\ (Finished(w, "queued") \/ Finished(w, "FAILURE"))
    BY <1>3, CrashDoes, AbortDoes
  <2>2. Rest(w) /\ run'[w].at \notin Stored /\ run'[w].new = 0
    BY <2>1 DEF Finished, Stopped, Idle, Stored
  <2> QED BY <2>1, <2>2, ChunksLeft
<1>4. CASE Delete
  <2>1. run' = run /\ \A w \in Workers : run[w].at \notin Locking
    BY <1>4, LocksAre DEF Delete
  <2> QED BY <2>1 DEF ChunksHeld, Locking
<1>5. CASE UNCHANGED vars
  <2>1. run' = run /\ chunks' = chunks
    BY <1>5 DEF vars
  <2> QED BY <2>1, ChunksElsewhere
<1> QED BY <1>1, <1>2, <1>3, <1>4, <1>5 DEF Next


(***************************************************************************)
(* While no two runs overlapped.                                            *)
(***************************************************************************)

Solo == \A v, w \in Workers : Running(v) /\ Running(w) => v = w

\* What the stage of the run says of the document.
Known(stage, marked, old, new) ==
  /\ stage = "loaded" =>
       /\ asset # "completed"
       /\ asset # "deleted" => old = chunks
       /\ marked => asset \in {"processing", "deleted"}
  /\ stage = "processing" =>
       /\ asset \in {"processing", "deleted"}
       /\ asset # "deleted" => old = chunks
  /\ stage = "stored" =>
       /\ asset \in {"processing", "deleted"}
       /\ asset # "deleted" => chunks = old \cup {new}
  /\ stage \in {"jammed", "indexed"} => asset = "processing" /\ chunks = old \cup {new}
  /\ stage = "dropped" => asset = "processing" /\ chunks \subseteq old \cup {new}
  /\ stage = "flushed" =>
       /\ asset \in {"processing", "deleted"}
       /\ asset # "deleted" => chunks = {new} /\ embedded = {new}
  /\ stage = "completed" => asset \in {"completed", "deleted"}
  /\ stage = "failed" => asset \in {"failed", "deleted"}

Stages == \A w \in Workers : Known(run[w].at, run[w].marked, run[w].old, run[w].new)

Indexed == asset = "completed" => \E g \in chunks : chunks = {g} /\ embedded = {g}

\* "SUCCESS" is reported, or about to be, only for a completed document.
Truth ==
  (\/ \E t \in Tasks : row[t] = "SUCCESS" \/ job[t] = "SUCCESS"
   \/ \E w \in Workers : run[w].at = "skip") => asset \in {"completed", "deleted"}

Gone == asset = "deleted" => chunks = {}

Alone == Solo /\ Stages /\ Indexed /\ Truth

Safe == Gone /\ (~overlapped => Alone)


LEMMA GoneStep ==
  ASSUME Types, TasksHeld, Gone, [Next]_vars
  PROVE  Gone'
<1>1. ASSUME NEW t \in Tasks,
             Dispatch(t) \/ RecordOwner(t) \/ RequestDies(t) \/ Poll(t) \/ Cleanup(t)
      PROVE  Gone'
  <2>1. UNCHANGED <<asset, chunks>>
    BY <1>1 DEF Dispatch, RecordOwner, RequestDies, Poll, Cleanup, document
  <2> QED BY <2>1 DEF Gone
<1>2. ASSUME NEW w \in Workers, Work(w) PROVE Gone'
  <2>1. ASSUME NEW t \in Tasks, Check(w, t) PROVE Gone'
    BY <2>1, CheckDoes DEF Gone
  <2>2. CASE Record(w) \/ InsertFails(w) \/ Load(w) \/ Conclude(w) \/ Vanish(w)
    BY <2>2, RecordDoes, InsertFailsDoes, LoadDoes, ConcludeDoes, VanishDoes DEF Gone
  <2>3. CASE Mark(w) \/ Store(w) \/ Complete(w) \/ Fail(w)
    BY <2>3 DEF Mark, Store, Complete, Fail, Gone
  <2>4. CASE Index(w) \/ DropVectors(w) \/ DropRows(w)
    BY <2>4 DEF Index, DropVectors, DropRows, document, Gone
  <2> QED BY <1>2, <2>1, <2>2, <2>3, <2>4 DEF Work
<1>3. ASSUME NEW w \in Workers, Jam(w) \/ Crash(w) \/ Abort(w) PROVE Gone'
  BY <1>3 DEF Jam, Crash, Abort, document, Gone
<1>4. CASE Delete \/ UNCHANGED vars
  BY <1>4 DEF Delete, vars, Gone
<1> QED BY <1>1, <1>2, <1>3, <1>4 DEF Next

Settled == {"completed", "deleted"}

Successes == \E t \in Tasks : row[t] = "SUCCESS" \/ job[t] = "SUCCESS"

\* No worker moves, the document stays.
LEMMA AloneElsewhere ==
  ASSUME Alone, UNCHANGED <<asset, chunks, embedded, run>>, Successes' => Successes
  PROVE  Alone'
<1>1. Solo' /\ Stages'
  BY DEF Alone, Solo, Stages, Known, Running
<1>2. Indexed'
  BY DEF Alone, Indexed
<1>3. Truth'
  BY DEF Alone, Truth, Successes
<1> QED BY <1>1, <1>2, <1>3 DEF Alone

\* A worker stops.
LEMMA AloneFinished ==
  ASSUME Alone, NEW w \in Workers, NEW r, Finished(w, r), UNCHANGED <<asset, chunks, embedded>>,
         Successes' => Successes \/ asset \in Settled
  PROVE  Alone'
<1>1. run'[w].at = "idle" /\ \A v \in Workers \ {w} : run'[v] = run[v]
  BY DEF Finished, Stopped, Rest, Idle
<1>2. Solo'
  BY <1>1 DEF Alone, Solo, Running
<1>3. Stages'
  BY <1>1 DEF Alone, Stages, Known
<1>4. Indexed'
  BY DEF Alone, Indexed
<1>5. Truth'
  BY <1>1 DEF Alone, Truth, Successes, Settled
<1> QED BY <1>2, <1>3, <1>4, <1>5 DEF Alone

\* The run under way moves on; nobody else runs.
LEMMA AloneMoved ==
  ASSUME Alone, NEW w \in Workers, Running(w),
         NEW stage \in Stage \ {"idle", "skip"}, NEW marked, NEW old, NEW new,
         Moved(w, stage, marked, old, new), Known(stage, marked, old, new)',
         UNCHANGED <<row, job>>, Indexed', asset \in Settled => asset' \in Settled
  PROVE  Alone'
<1>1. /\ run'[w].at = stage /\ run'[w].marked = marked /\ run'[w].old = old /\ run'[w].new = new
      /\ \A v \in Workers \ {w} : run'[v] = run[v]
  BY DEF Moved, Rest
<1>2. \A v \in Workers \ {w} : run[v].at \notin Stage \ {"idle", "skip"}
  BY DEF Alone, Solo, Running
<1>3. Solo'
  BY <1>1, <1>2 DEF Solo, Running
<1>4. ASSUME NEW v \in Workers
      PROVE  Known(run[v].at, run[v].marked, run[v].old, run[v].new)'
  <2>1. CASE v = w
    BY <1>1, <2>1 DEF Known
  <2>2. CASE v # w
    BY <1>1, <1>2, <2>2 DEF Known, Stage
  <2> QED BY <2>1, <2>2
<1>5. Truth'
  BY <1>1 DEF Alone, Truth, Settled
<1> QED BY <1>3, <1>4, <1>5 DEF Alone, Stages

\* A worker starts while nobody runs, or is to skip its task.
LEMMA AloneStarted ==
  ASSUME Alone, NEW w \in Workers, NEW t \in Tasks, NEW stage \in {"skip", "go"}, Started(w, t, stage),
         UNCHANGED <<asset, chunks, embedded>>, Successes' => Successes,
         stage = "skip" => Successes,
         stage = "go" => \A v \in Workers : ~Running(v)
  PROVE  Alone'
<1>1. run'[w].at = stage /\ \A v \in Workers \ {w} : run'[v] = run[v]
  BY DEF Started, Rest
<1>2. Solo'
  BY <1>1 DEF Alone, Solo, Running
<1>3. Stages'
  BY <1>1 DEF Alone, Stages, Known
<1>4. Indexed'
  BY DEF Alone, Indexed
<1>5. Truth'
  BY <1>1 DEF Alone, Truth, Successes
<1> QED BY <1>2, <1>3, <1>4, <1>5 DEF Alone

LEMMA AloneOutside ==
  ASSUME Types, TasksHeld, Alone, NEW t \in Tasks,
         Dispatch(t) \/ RecordOwner(t) \/ RequestDies(t) \/ Poll(t) \/ Cleanup(t)
  PROVE  Alone'
<1>1. UNCHANGED <<asset, chunks, embedded, run>>
  BY DEF Dispatch, RecordOwner, RequestDies, Poll, Cleanup, document
<1>2. Successes' => Successes
  <2>1. CASE Dispatch(t)
    BY <2>1 DEF Dispatch, records, Types, Successes
  <2>2. CASE RequestDies(t)
    BY <2>2 DEF RequestDies, records, Successes
  <2>3. CASE RecordOwner(t)
    BY <2>3 DEF RecordOwner, Insert, Types, Successes
  <2>4. CASE Poll(t)
    BY <2>4 DEF Poll, Types, Successes
  <2>5. CASE Cleanup(t)
    BY <2>5 DEF Cleanup, Types, Successes
  <2> QED BY <2>1, <2>2, <2>3, <2>4, <2>5
<1> QED BY <1>1, <1>2, AloneElsewhere

LEMMA AloneCheck ==
  ASSUME Types, TasksHeld, RowsListed, Alone, NEW w \in Workers, NEW t \in Tasks, Check(w, t), ~overlapped'
  PROVE  Alone'
<1>1. UNCHANGED <<asset, chunks, embedded, row>> /\ \A s \in Tasks \ {t} : job'[s] = job[s]
  BY CheckDoes
<1>2. job'[t] # "SUCCESS"
  BY CheckDoes
<1>3. Successes' => Successes
  BY <1>1, <1>2 DEF Successes
<1>4. CASE run' = run
  BY <1>1, <1>3, <1>4, AloneElsewhere
<1>5. CASE Started(w, t, "skip") /\ Existing(t) = "SUCCESS"
  <2>1. \E s \in Tasks : row[s] = "SUCCESS"
    BY <1>5, ExistingIs
  <2> QED BY <1>1, <1>3, <1>5, <2>1, AloneStarted DEF Successes
<1>6. CASE Started(w, t, "go") /\ overlapped' = (overlapped \/ \E v \in Workers : Running(v))
  BY <1>1, <1>3, <1>6, AloneStarted
<1> QED BY <1>4, <1>5, <1>6, CheckDoes

LEMMA Spent ==
  ASSUME NEW w \in Workers, NEW r, Finished(w, r), r # "SUCCESS", row' = row
  PROVE  Successes' => Successes
BY DEF Finished, Successes

LEMMA Won ==
  ASSUME NEW w \in Workers, NEW r, Finished(w, r), r # "SUCCESS", NEW s, Written(w, s), s # "SUCCESS"
  PROVE  Successes' => Successes
BY DEF Finished, Written, Successes

LEMMA AloneEnds ==
  ASSUME Types, TasksHeld, Alone, NEW w \in Workers,
         Record(w) \/ InsertFails(w) \/ Load(w) \/ Conclude(w) \/ Vanish(w) \/ Crash(w) \/ Abort(w)
  PROVE  Alone'
<1>1. UNCHANGED <<asset, chunks, embedded>>
  BY RecordDoes, InsertFailsDoes, LoadDoes, ConcludeDoes, VanishDoes, CrashDoes, AbortDoes
<1>2. Indexed'
  BY <1>1 DEF Alone, Indexed
<1>3. Known(run[w].at, run[w].marked, run[w].old, run[w].new)
  BY DEF Alone, Stages
<1>4. CASE Record(w)
  <2>1. CASE run[w].at = "skip" /\ Finished(w, "SUCCESS")
    <3>1. asset \in Settled
      BY <2>1 DEF Alone, Truth, Settled
    <3> QED BY <1>1, <2>1, <3>1, AloneFinished
  <2>2. CASE run[w].at = "go" /\ Written(w, "open") /\ Onward(w, "recorded") /\ UNCHANGED job
    <3>1. run'[w].at = "recorded" /\ \A v \in Workers \ {w} : run'[v] = run[v]
      BY <2>2 DEF Onward, Moved, Rest
    <3>2. Solo'
      BY <2>2, <3>1 DEF Alone, Solo, Running, Stage
    <3>3. Stages'
      BY <1>1, <3>1 DEF Alone, Stages, Known
    <3>4. Truth'
      BY <1>1, <2>2, <3>1 DEF Alone, Truth, Written
    <3> QED BY <1>2, <3>2, <3>3, <3>4 DEF Alone
  <2> QED BY <1>4, <2>1, <2>2, RecordDoes
<1>5. CASE InsertFails(w)
  BY <1>1, <1>5, InsertFailsDoes, Spent, AloneFinished
<1>6. CASE Load(w)
  <2>1. CASE asset = "deleted" /\ Finished(w, "FAILURE")
    BY <1>1, <2>1, AloneFinished DEF Settled
  <2>2. CASE asset = "completed" /\ Finished(w, "SUCCESS")
    BY <1>1, <2>2, AloneFinished DEF Settled
  <2>3. CASE /\ asset \notin {"deleted", "completed"}
             /\ Moved(w, "loaded", asset = "processing", chunks, run[w].new)
             /\ UNCHANGED <<row, job>>
    <3>1. Running(w)
      BY <1>6, LoadDoes DEF Running, Stage
    <3>2. Known("loaded", asset = "processing", chunks, run[w].new)
      BY <2>3 DEF Known
    <3> DEFINE m == asset = "processing"
               c == chunks
               n == run[w].new
    <3>3. PICK marked, old, new : marked = m /\ old = c /\ new = n
      OBVIOUS
    <3>4. Moved(w, "loaded", marked, old, new)
      BY <2>3, <3>3
    <3>5. Known("loaded", marked, old, new)'
      BY <1>1, <2>3, <3>3 DEF Known
    <3> HIDE DEF m, c, n
    <3> QED BY <1>1, <1>2, <2>3, <3>1, <3>4, <3>5, AloneMoved DEF Stage
  <2> QED BY <1>6, <2>1, <2>2, <2>3, LoadDoes
<1>7. CASE Conclude(w)
  <2>1. CASE run[w].at = "completed" /\ Finished(w, "SUCCESS")
    <3>1. asset \in Settled
      BY <1>3, <2>1 DEF Known, Settled
    <3> QED BY <1>1, <2>1, <3>1, AloneFinished
  <2>2. CASE Written(w, "FAILURE") /\ Finished(w, "FAILURE")
    <3>1. Successes' => Successes
      BY <2>2, Won
    <3> QED BY <1>1, <2>2, <3>1, AloneFinished
  <2> QED BY <1>7, <2>1, <2>2, ConcludeDoes
<1>8. CASE Vanish(w)
  BY <1>1, <1>8, VanishDoes, Spent, AloneFinished
<1>9. CASE Crash(w)
  BY <1>1, <1>9, CrashDoes, Spent, AloneFinished
<1>10. CASE Abort(w)
  BY <1>1, <1>10, AbortDoes, Spent, AloneFinished
<1> QED BY <1>4, <1>5, <1>6, <1>7, <1>8, <1>9, <1>10


LEMMA AloneWorks ==
  ASSUME Types, TasksHeld, ChunksHeld, Gone, Alone, NEW w \in Workers,
         \/ Mark(w) \/ Store(w) \/ Index(w) \/ Jam(w) \/ DropVectors(w) \/ DropRows(w)
         \/ Complete(w) \/ Fail(w)
  PROVE  Alone'
<1>1. PICK stage, marked, old, new :
        stage = run[w].at /\ marked = run[w].marked /\ old = run[w].old /\ new = run[w].new
  OBVIOUS
<1>2. Known(stage, marked, old, new)
  BY <1>1 DEF Alone, Stages
<1>3. UNCHANGED <<row, job>>
  BY DEF Mark, Store, Index, Jam, DropVectors, DropRows, Complete, Fail, records
<1>4. Running(w) /\ stage \in Stage
  BY <1>1 DEF Mark, Store, Index, Jam, DropVectors, DropRows, Complete, Fail, Running, Stage
<1>5. /\ stage \in {"stored", "jammed", "indexed", "dropped", "flushed"} => new # 0 /\ new \notin old
      /\ stage \in {"jammed", "indexed", "dropped"} => new \in chunks
      /\ embedded \subseteq chunks
  BY <1>1 DEF ChunksHeld, Types
<1>6. CASE Mark(w)
  <2>1. /\ stage = "loaded" /\ asset # "deleted" /\ chunks' = chunks
        /\ asset' = IF marked THEN asset ELSE "processing"
    BY <1>1, <1>6 DEF Mark
  <2>2. asset' = "processing" /\ old = chunks /\ asset \notin Settled
    BY <1>2, <2>1 DEF Known, Settled
  <2>3. Known("processing", FALSE, old, new)' /\ Indexed'
    BY <2>1, <2>2 DEF Known, Indexed
  <2>4. Moved(w, "processing", FALSE, old, new)
    BY <1>1, <1>6, Marking
  <2> QED BY <1>3, <1>4, <2>2, <2>3, <2>4, AloneMoved DEF Stage
<1>7. CASE Store(w)
  <2>1. PICK g : g = NextGeneration
    OBVIOUS
  <2>2. stage = "processing" /\ asset # "deleted" /\ asset' = asset /\ chunks' = chunks \cup {g}
    BY <1>1, <1>7, <2>1 DEF Store
  <2>3. asset = "processing" /\ old = chunks
    BY <1>2, <2>2 DEF Known
  <2>4. Known("stored", marked, old, g)' /\ Indexed'
    BY <2>2, <2>3 DEF Known, Indexed
  <2>5. Moved(w, "stored", marked, old, g)
    BY <1>1, <1>7, <2>1, Storing
  <2> QED BY <1>3, <1>4, <2>2, <2>4, <2>5, AloneMoved DEF Stage
<1>8. CASE Index(w) \/ Jam(w)
  <2>1. stage = "stored" /\ new \in chunks /\ UNCHANGED <<asset, chunks, embedded>>
    BY <1>1, <1>8 DEF Index, Jam, document
  <2>2. asset = "processing" /\ chunks = old \cup {new}
    BY <1>2, <2>1 DEF Known, Gone
  <2>3. Known("indexed", marked, old, new)' /\ Known("jammed", marked, old, new)' /\ Indexed'
    BY <2>1, <2>2 DEF Known, Indexed
  <2>4. Moved(w, "indexed", marked, old, new) \/ Moved(w, "jammed", marked, old, new)
    BY <1>1, <1>8, Advancing DEF Index, Jam, Onward, Stage
  <2> QED BY <1>3, <1>4, <2>1, <2>3, <2>4, AloneMoved DEF Stage
<1>9. CASE DropVectors(w)
  <2>1. /\ stage = "indexed" /\ asset' = asset /\ chunks' \subseteq chunks
    BY <1>1, <1>9 DEF DropVectors
  <2>2. asset = "processing" /\ chunks = old \cup {new}
    BY <1>2, <2>1 DEF Known
  <2>3. Known("dropped", marked, old, new)' /\ Indexed'
    BY <2>1, <2>2 DEF Known, Indexed
  <2>4. Moved(w, "dropped", marked, old, new)
    BY <1>1, <1>9, Advancing DEF DropVectors, Onward, Stage
  <2> QED BY <1>3, <1>4, <2>1, <2>3, <2>4, AloneMoved DEF Stage
<1>10. CASE DropRows(w)
  <2>1. /\ stage = "dropped" /\ asset' = asset /\ chunks' = chunks \ old
        /\ embedded' = (embedded \ old) \cup {new}
    BY <1>1, <1>10 DEF DropRows
  <2>2. asset = "processing" /\ chunks \subseteq old \cup {new} /\ new \in chunks /\ new \notin old
    BY <1>2, <1>5, <2>1 DEF Known
  <2>3. chunks' = {new} /\ embedded' = {new}
    BY <1>5, <2>1, <2>2
  <2>4. Known("flushed", marked, {}, new)' /\ Indexed'
    BY <2>1, <2>2, <2>3 DEF Known, Indexed
  <2>5. Moved(w, "flushed", marked, {}, new)
    BY <1>1, <1>10, Flushing
  <2> QED BY <1>3, <1>4, <2>1, <2>4, <2>5, AloneMoved DEF Stage
<1>11. CASE Complete(w)
  <2>1. /\ asset # "deleted" /\ asset' = "completed" /\ chunks' = chunks
        /\ embedded' = embedded \cup LockedChunks(w)
        /\ stage = "flushed" \/ (stage = "indexed" /\ old = {})
    BY <1>1, <1>11 DEF Complete
  <2>2. chunks = {new} /\ embedded' = {new}
    <3>1. CASE stage = "flushed"
      <4>1. LockedChunks(w) = {}
        BY <1>1, <3>1, LocksAre DEF Locking
      <4> QED BY <1>2, <2>1, <3>1, <4>1 DEF Known
    <3>2. CASE stage = "indexed" /\ old = {}
      <4>1. LockedChunks(w) = {new}
        BY <1>1, <3>2, LocksAre DEF Locking
      <4>2. chunks = {new}
        BY <1>2, <3>2 DEF Known
      <4> QED BY <1>5, <2>1, <4>1, <4>2
    <3> QED BY <2>1, <3>1, <3>2
  <2>3. Known("completed", marked, old, 0)' /\ Indexed' /\ asset' \in Settled
    BY <2>1, <2>2 DEF Known, Indexed, Settled
  <2>4. Moved(w, "completed", marked, old, 0)
    BY <1>1, <1>11, Completing
  <2> QED BY <1>3, <1>4, <2>3, <2>4, AloneMoved DEF Stage
<1>12. CASE Fail(w)
  <2>1. stage \in {"processing", "stored"} /\ asset # "deleted" /\ asset' = "failed"
    BY <1>1, <1>12 DEF Fail
  <2>2. asset \notin Settled
    BY <1>2, <2>1 DEF Known, Settled
  <2>3. Known("failed", marked, {}, 0)' /\ Indexed'
    BY <2>1 DEF Known, Indexed
  <2>4. Moved(w, "failed", marked, {}, 0)
    BY <1>1, <1>12, Failing
  <2> QED BY <1>3, <1>4, <2>2, <2>3, <2>4, AloneMoved DEF Stage
<1> QED BY <1>6, <1>7, <1>8, <1>9, <1>10, <1>11, <1>12

LEMMA AloneDeleted ==
  ASSUME Alone, Delete
  PROVE  Alone'
<1>1. asset' = "deleted" /\ run' = run /\ \A w \in Workers : run[w].at \notin Locking
  BY LocksAre DEF Delete
<1>2. Solo'
  BY <1>1 DEF Alone, Solo, Running
<1>3. Stages'
  BY <1>1 DEF Alone, Stages, Known, Locking
<1>4. Indexed' /\ Truth'
  BY <1>1 DEF Indexed, Truth
<1> QED BY <1>2, <1>3, <1>4 DEF Alone

LEMMA OverlapStays ==
  ASSUME Types, TasksHeld, [Next]_vars, overlapped
  PROVE  overlapped'
<1>1. ASSUME NEW w \in Workers, NEW t \in Tasks, Check(w, t) PROVE overlapped'
  BY <1>1, CheckDoes
<1>2. ASSUME NEW w \in Workers, Work(w) PROVE overlapped'
  BY <1>1, <1>2 DEF Work, Record, InsertFails, Load, Mark, Store, Index, DropVectors, DropRows,
     Complete, Fail, Conclude, Vanish
<1> QED BY <1>2 DEF Next, Dispatch, RecordOwner, RequestDies, Poll, Cleanup, Jam, Crash, Abort, Delete, vars

LEMMA AloneStep ==
  ASSUME Base, Gone, Alone, [Next]_vars, ~overlapped'
  PROVE  Alone'
<1>1. Types /\ TasksHeld /\ ChunksHeld /\ RowsListed
  BY DEF Base
<1>2. ASSUME NEW w \in Workers, Work(w) PROVE Alone'
  <2>1. ASSUME NEW t \in Tasks, Check(w, t) PROVE Alone'
    BY <1>1, <2>1, AloneCheck
  <2> QED BY <1>1, <1>2, <2>1, AloneEnds, AloneWorks DEF Work
<1>3. ASSUME NEW w \in Workers, Jam(w) \/ Crash(w) \/ Abort(w) PROVE Alone'
  BY <1>1, <1>3, AloneEnds, AloneWorks
<1>4. CASE UNCHANGED vars
  BY <1>4, AloneElsewhere DEF vars, Successes
<1> QED BY <1>1, <1>2, <1>3, <1>4, AloneOutside, AloneDeleted DEF Next

(***************************************************************************)
(* The theorems.                                                            *)
(***************************************************************************)

Inv == Base /\ Safe

LEMMA InitInv ==
  ASSUME Init
  PROVE  Inv
<1>1. Types
  <2>1. run \in [Workers -> Run] /\ \A w \in Workers : IsFiniteSet(run[w].old)
    BY IdleIsRun, IdleIsFinite DEF Init
  <2>2. /\ asset \in AssetStatus /\ chunks \subseteq Generations /\ IsFiniteSet(chunks)
        /\ embedded \subseteq chunks /\ overlapped \in BOOLEAN /\ hurt \in BOOLEAN
    BY FS_EmptySet DEF Init, AssetStatus
  <2>4. faults \in 0..MaxFaults
    BY ProcessingConstants DEF Init
  <2>3. /\ row \in [Tasks -> RowStatus] /\ job \in [Tasks -> JobStatus]
        /\ route \in [Tasks -> {"unused", "queued", "recorded"}]
    BY DEF Init, RowStatus, JobStatus
  <2> QED BY <2>1, <2>2, <2>3, <2>4 DEF Types
<1>2. \A w \in Workers : run[w] = Idle /\ run[w].at = "idle" /\ run[w].new = 0
  BY DEF Init, Idle
<1>3. TasksHeld /\ ChunksHeld
  BY <1>2 DEF Init, TasksHeld, ChunksHeld
<1>4. RowsListed
  BY DEF Init, RowsListed
<1>5. Gone /\ Solo /\ Stages /\ Indexed /\ Truth
  BY <1>2 DEF Init, Gone, Solo, Running, Stages, Known, Indexed, Truth
<1> QED BY <1>1, <1>3, <1>4, <1>5 DEF Inv, Base, Safe, Alone

LEMMA InvStep ==
  ASSUME Inv, [Next]_vars
  PROVE  Inv'
<1>1. Types /\ TasksHeld /\ ChunksHeld /\ RowsListed /\ Base /\ Gone /\ (~overlapped => Alone)
  BY DEF Inv, Base, Safe
<1>2. Types' /\ TasksHeld' /\ ChunksHeld' /\ RowsListed'
  BY <1>1, TypesStep, TasksStep, ChunksStep, RowsStep
<1>3. Gone'
  BY <1>1, GoneStep
<1>4. ~overlapped' => Alone'
  BY <1>1, OverlapStays, AloneStep
<1> QED BY <1>2, <1>3, <1>4 DEF Inv, Base, Safe

THEOREM Invariant == Spec => []Inv
<1>1. Init => Inv
  BY InitInv
<1>2. Inv /\ [Next]_vars => Inv'
  BY InvStep
<1> QED BY <1>1, <1>2, PTL DEF Spec

\* Every reachable state is well typed, and the tasks that have a row are listed once each.
THEOREM ProcessingTypesHold == Spec => []TypeOK
<1>1. Inv => TypeOK
  BY DEF Inv, Base, Types, RowsListed, TypeOK, JobStatus
<1> QED BY <1>1, Invariant, PTL

\* A completed document has one generation of chunks and their vectors, if no two of its runs
\* overlapped: process_document_task replaces the old chunks before it commits "completed".
THEOREM CompletedHasVectors == Spec => []CompletedIsIndexed
<1>1. Inv => CompletedIsIndexed
  BY DEF Inv, Safe, Alone, Indexed, CompletedIsIndexed
<1> QED BY <1>1, Invariant, PTL

\* A task row says SUCCESS only for a document that is completed, or was until its deletion.
THEOREM SuccessHolds == Spec => []SuccessIsTrue
<1>1. Inv => SuccessIsTrue
  BY DEF Inv, Safe, Alone, Truth, SuccessIsTrue
<1> QED BY <1>1, Invariant, PTL

\* What a step may do to a completed document.
Untouched == \/ asset' = "deleted"
             \/ asset' = "completed" /\ chunks' = chunks /\ embedded' = embedded

LEMMA CompletedStep ==
  ASSUME Inv, [Next]_vars, asset = "completed", ~overlapped'
  PROVE  Untouched
<1>1. Types /\ TasksHeld /\ ChunksHeld
  BY DEF Inv, Base
<1>2. Alone
  BY <1>1, OverlapStays DEF Inv, Safe
<1>3. ASSUME NEW w \in Workers,
             run[w].at \in {"loaded", "processing", "stored", "jammed", "indexed", "dropped", "flushed"}
      PROVE  FALSE
  <2>1. Known(run[w].at, run[w].marked, run[w].old, run[w].new)
    BY <1>2 DEF Alone, Stages
  <2> QED BY <1>3, <2>1 DEF Known
<1>4. ASSUME UNCHANGED <<asset, chunks, embedded>> PROVE Untouched
  BY <1>4 DEF Untouched
<1>5. ASSUME NEW t \in Tasks,
             Dispatch(t) \/ RecordOwner(t) \/ RequestDies(t) \/ Poll(t) \/ Cleanup(t)
      PROVE  Untouched
  BY <1>4, <1>5 DEF Dispatch, RecordOwner, RequestDies, Poll, Cleanup, document
<1>6. ASSUME NEW w \in Workers, Work(w) PROVE Untouched
  <2>1. ASSUME NEW t \in Tasks, Check(w, t) PROVE Untouched
    BY <1>1, <1>4, <2>1, CheckDoes
  <2>2. CASE Record(w) \/ InsertFails(w) \/ Load(w) \/ Conclude(w) \/ Vanish(w)
    BY <1>1, <1>4, <2>2, RecordDoes, InsertFailsDoes, LoadDoes, ConcludeDoes, VanishDoes
  <2>3. CASE \/ Mark(w) \/ Store(w) \/ Index(w) \/ DropVectors(w) \/ DropRows(w) \/ Complete(w)
             \/ Fail(w)
    BY <1>3, <2>3 DEF Mark, Store, Index, DropVectors, DropRows, Complete, Fail
  <2> QED BY <1>6, <2>1, <2>2, <2>3 DEF Work
<1>7. ASSUME NEW w \in Workers, Jam(w) \/ Crash(w) \/ Abort(w) PROVE Untouched
  BY <1>4, <1>7 DEF Jam, Crash, Abort, document
<1>8. CASE Delete \/ UNCHANGED vars
  BY <1>8 DEF Delete, vars, Untouched
<1> QED BY <1>5, <1>6, <1>7, <1>8 DEF Next

\* Without overlapping runs, only its deletion changes a completed document: a second task, a
\* redelivery or a late failure leaves its status, its chunks and its vectors alone.
THEOREM CompletedStays == Spec => CompletedIsFinal
<1>1. Inv /\ [Next]_vars => [asset = "completed" /\ ~overlapped'
        => \/ asset' = "deleted"
           \/ asset' = "completed" /\ chunks' = chunks /\ embedded' = embedded]_vars
  BY CompletedStep DEF Untouched
<1> QED BY <1>1, Invariant, PTL DEF Spec, CompletedIsFinal
===============================================================================
