----------------------------- MODULE VectorIndexing -----------------------------
(***************************************************************************)
(* Indexing the chunks of a project (backend/tasks/data_indexing.py): the  *)
(* texts are cut into batches, an embedding provider turns each batch into *)
(* vectors (backend/services/embedding_service.py, providers/llm), and the *)
(* vectors, put together in the order of the batches, are paired with the  *)
(* chunks by position and stored (providers/vectordb).                     *)
(*                                                                         *)
(* Text t is the text of chunk t, and t also stands for its vector.        *)
(* Batches run at once, up to the limit of a semaphore; Gemini is asked    *)
(* for a batch in one call, Cohere in several that respect a budget of     *)
(* tokens.  Both retry some failures.  A task that failed or ended may be  *)
(* started again.                                                          *)
(*                                                                         *)
(* A definition X_Y just before a definition X is a faulty X: a slip the   *)
(* properties are tested against.  Nothing uses it.                        *)
(***************************************************************************)
EXTENDS Integers, FiniteSets

CONSTANTS
  NumTexts,        \* chunks of the project
  BatchSize,       \* embedding_batch_size
  Concurrency,     \* embedding_concurrency
  Fits(_, _),      \* Fits(s, t): texts s..t together stay within cohere_max_batch_tokens
  GeminiAttempts,  \* max_attempts of _run_with_retries
  CohereRetries,   \* cohere_max_retries
  UpsertBatch,     \* qdrant_upsert_batch_size
  UpsertAttempts,  \* attempts of one upsert
  MaxRuns,         \* bound: runs of the task
  NoVector         \* the chunk has no vector

ASSUME IndexingConstants ==
  /\ {NumTexts, BatchSize, GeminiAttempts, UpsertBatch, UpsertAttempts} \subseteq Nat \ {0}
  /\ {Concurrency, CohereRetries, MaxRuns} \subseteq Nat
  /\ \A s, t \in 1..NumTexts : Fits(s, t) \in BOOLEAN
  /\ NoVector \notin 1..NumTexts

VARIABLES
  provider,    \* embedding_provider
  store,       \* vector_db_provider
  batch,       \* the call of each batch
  run,         \* where the task is
  runs,        \* runs of the task so far
  upserted,    \* vectors sent to Qdrant by this run
  failures,    \* of the upsert being tried
  stored,      \* the vector of each chunk in the vector store
  misaligned   \* history: a run went on to Qdrant although a batch had no vectors

indexingVars == <<provider, store, batch, run, runs, upserted, failures, stored, misaligned>>

Texts == 1..NumTexts
Lower(a, b) == IF a < b THEN a ELSE b

Batches == {b \in Texts : (b - 1) * BatchSize < NumTexts}
FirstText(b) == (b - 1) * BatchSize + 1
LastText(b) == Lower(b * BatchSize, NumTexts)
TextsOf(b) == FirstText(b)..LastText(b)

\* The texts of the next call.  Cohere's share is the longest that fits, at least one text.
Share(b) ==
  LET from == batch[b].next
  IN  IF provider = "gemini"
      THEN TextsOf(b)
      ELSE {t \in from..LastText(b) : t = from \/ \A u \in from + 1..t : Fits(from, u)}

Providers == {"gemini", "cohere"}
Stores == {"pgvector", "qdrant"}
Faults == {"unavailable", "timeout", "rate limit", "refused"}
CallStage == {"waiting", "calling", "pausing", "done", "failed"}

NewCall(b) == [at |-> "waiting", next |-> FirstText(b), tries |-> 0, got |-> {}]

InitIndexing ==
  /\ provider \in Providers
  /\ store \in Stores
  /\ batch = [b \in Batches |-> NewCall(b)]
  /\ run = "embedding"
  /\ runs = 1
  /\ upserted = 0
  /\ failures = 0
  /\ stored = [t \in Texts |-> NoVector]
  /\ misaligned = FALSE

-----------------------------------------------------------------------------
(* The calls of EmbeddingService.generate_embeddings. *)

Limit == IF provider = "cohere" \/ Concurrency = 0 THEN 1 ELSE Concurrency
Holding == {b \in Batches : batch[b].at \in {"calling", "pausing"}}

Call(b, call) ==
  /\ batch' = [batch EXCEPT ![b] = call]
  /\ UNCHANGED <<provider, store, runs, upserted, failures, stored, misaligned>>

\* async with semaphore, in the order of the batches.
Enter(b) ==
  /\ batch[b].at = "waiting"
  /\ \A c \in Batches : batch[c].at = "waiting" => b <= c
  /\ Cardinality(Holding) < Limit
  /\ Call(b, [batch[b] EXCEPT !.at = "calling"])
  /\ UNCHANGED run

\* The provider answers with the vectors of the share.  Gemini's answer may hold none.
CallAnswers(b) ==
  LET last == LastText(b) \in Share(b)
      got == batch[b].got \cup Share(b)
  IN  /\ batch[b].at = "calling"
      /\ \/ Call(b, [at |-> IF last THEN "done" ELSE "pausing",
                     next |-> batch[b].next + Cardinality(Share(b)), tries |-> 0, got |-> got])
         \/ /\ provider = "gemini"
            /\ Call(b, [batch[b] EXCEPT !.at = "done", !.next = LastText(b) + 1])
      /\ UNCHANGED run

Retryable(fault) ==
  IF provider = "gemini"
  THEN fault \in {"unavailable", "timeout", "rate limit"}
  ELSE fault = "rate limit"

MayRetry(tries) == IF provider = "gemini" THEN tries + 1 < GeminiAttempts ELSE tries < CohereRetries

\* A failure that is not retried, or was retried often enough, fails the batch; the first
\* such failure fails the task.
CallFails(b) ==
  /\ batch[b].at = "calling"
  /\ \E fault \in Faults :
       IF Retryable(fault) /\ MayRetry(batch[b].tries)
       THEN /\ Call(b, [batch[b] EXCEPT !.at = "pausing", !.tries = @ + 1])
            /\ UNCHANGED run
       ELSE /\ Call(b, [batch[b] EXCEPT !.at = "failed"])
            /\ run' = IF run = "embedding" THEN "failed" ELSE run

\* Backed off, or throttled between two shares.
Resume(b) ==
  /\ batch[b].at = "pausing"
  /\ Call(b, [batch[b] EXCEPT !.at = "calling"])
  /\ UNCHANGED run

-----------------------------------------------------------------------------
(* The vectors are paired with the chunks. *)

Vectors == UNION {batch[b].got : b \in Batches}
Nth(n) == CHOOSE t \in Vectors : Cardinality({u \in Vectors : u <= t}) = n
NoAnswer == \E b \in Batches : batch[b].at = "done" /\ batch[b].got = {}

Unstored == UNCHANGED <<provider, store, batch, runs, stored>>

\* asyncio.gather returns; no vectors at all is an error.
Gather ==
  /\ run = "embedding"
  /\ \A b \in Batches : batch[b].at = "done"
  /\ run' = IF Vectors = {} THEN "failed" ELSE "storing"
  /\ misaligned' = (misaligned \/ (store = "qdrant" /\ NoAnswer /\ Vectors # {}))
  /\ Unstored /\ UNCHANGED <<upserted, failures>>

\* create_collection or the store raises before anything is stored for good.
StoreFails ==
  /\ run = "storing"
  /\ upserted = 0
  /\ run' = "failed"
  /\ Unstored /\ UNCHANGED <<upserted, failures, misaligned>>

UpdateRows_Uncounted ==
  /\ run = "storing" /\ store = "pgvector"
  /\ stored' = [t \in Texts |-> IF t <= Cardinality(Vectors) THEN Nth(t) ELSE stored[t]]
  /\ run' = "stored"
  /\ UNCHANGED <<provider, store, batch, runs, upserted, failures, misaligned>>

\* PGVectorProvider.add_vectors and the task's commit: one transaction.
UpdateRows ==
  /\ run = "storing" /\ store = "pgvector"
  /\ IF Cardinality(Vectors) = NumTexts
     THEN /\ stored' = [t \in Texts |-> Nth(t)]
          /\ run' = "stored"
     ELSE /\ run' = "failed"
          /\ UNCHANGED stored
  /\ UNCHANGED <<provider, store, batch, runs, upserted, failures, misaligned>>

\* QdrantProvider.add_vectors, one upsert: it is done (`applied`) or not, and Qdrant says so
\* (`acknowledged`) or the call fails.  zip pairs as many chunks as there are vectors.
Upserting(t) == upserted < t /\ t <= upserted + UpsertBatch /\ t <= Cardinality(Vectors)

Upsert ==
  /\ run = "storing" /\ store = "qdrant"
  /\ \E applied, acknowledged \in BOOLEAN :
       /\ acknowledged => applied
       /\ stored' = [t \in Texts |-> IF applied /\ Upserting(t) THEN Nth(t) ELSE stored[t]]
       /\ failures' = IF acknowledged THEN 0 ELSE failures + 1
       /\ upserted' = IF acknowledged THEN Lower(upserted + UpsertBatch, Cardinality(Vectors)) ELSE upserted
       /\ run' = IF upserted' = Cardinality(Vectors) THEN "stored"
                 ELSE IF failures' >= UpsertAttempts THEN "failed" ELSE "storing"
  /\ UNCHANGED <<provider, store, batch, runs, misaligned>>

-----------------------------------------------------------------------------

\* The task is started again.  Calls still under way end with the event loop of the old run.
Rerun ==
  /\ run \in {"stored", "failed"}
  /\ runs < MaxRuns
  /\ runs' = runs + 1
  /\ batch' = [b \in Batches |-> NewCall(b)]
  /\ run' = "embedding"
  /\ upserted' = 0
  /\ failures' = 0
  /\ UNCHANGED <<provider, store, stored, misaligned>>

CallStep(b) == Enter(b) \/ CallAnswers(b) \/ CallFails(b) \/ Resume(b)
StoreStep == Gather \/ StoreFails \/ UpdateRows \/ Upsert
Work == StoreStep \/ \E b \in Batches : CallStep(b)
NextIndexing == Work \/ Rerun

IndexingSpec == InitIndexing /\ [][NextIndexing]_indexingVars

-----------------------------------------------------------------------------

\* A call asks for the texts of its batch only, and has vectors of texts before `next`.
IndexingTypeOK ==
  /\ provider \in Providers
  /\ store \in Stores
  /\ batch \in [Batches -> [at : CallStage, next : 1..NumTexts + 1, tries : Nat, got : SUBSET Texts]]
  /\ run \in {"embedding", "storing", "stored", "failed"}
  /\ runs \in Nat
  /\ upserted \in 0..NumTexts
  /\ failures \in 0..UpsertAttempts
  /\ stored \in [Texts -> Texts \cup {NoVector}]
  /\ misaligned \in BOOLEAN

\* No chunk ever has the vector of another text, whatever order the batches end in and however
\* they are split, retried and stored, except in Qdrant after a batch came back with no vectors:
\* only PGVectorProvider compares the counts before it pairs vectors with chunks.
VectorsMatch ==
  store = "pgvector" \/ ~misaligned => \A t \in Texts : stored[t] \in {t, NoVector}

\* A task that ends well has given every chunk its vector, also where an earlier run had left
\* some, or wrong ones: with the same exception.
IndexedWhole ==
  run = "stored" /\ (store = "pgvector" \/ ~NoAnswer) => \A t \in Texts : stored[t] = t

\* Vectors and chunks agree at every moment, and completely once a run has ended well.
IndexIsTrue == VectorsMatch /\ IndexedWhole

\* The provider is not asked for more batches at once than the semaphore allows, through all
\* failures and retries; Cohere for one at a time.
CallsAreBounded == Cardinality(Holding) <= Limit
===============================================================================
