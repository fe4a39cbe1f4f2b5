---------------------------- MODULE MCKnowledgeBase ----------------------------
(* Four parts of the dashboard that share no state.  A behaviour exercises one of them  *)
(* (`part`), so that their interleavings are not multiplied: an update of the settings, *)
(* a request to process and index a document, the indexing of a project's chunks, or a  *)
(* question.                                                                            *)
EXTENDS RuntimeConfig, ProcessAndIndex, VectorIndexing, Retrieval

CONSTANTS s1, s2, s3, c1, c2, c3, c4, doc1, doc2, shared, short, long

MCAsset == (c1 :> doc1 @@ c2 :> doc1 @@ c3 :> doc1 @@ c4 :> doc2)
\* c1 and c2 have the same parent chunk.
MCText == (c1 :> shared @@ c2 :> shared @@ c3 :> short @@ c4 :> long)
MCSize == (shared :> 3 @@ short :> 2 @@ long :> 6)

\* Five texts in three batches; Cohere is asked for 1 and 2 together and for the others one by one.
MCTokens == <<2, 1, 2, 2, 4>>
TokenCap == 3
MCFits(s, t) == FoldLeft(+, 0, SubSeq(MCTokens, s, t)) <= TokenCap

VARIABLE part

vars == <<part, configVars, taskVars, indexingVars, queryVars>>

Init ==
  /\ part \in {"settings", "workflow", "indexing", "question"}
  /\ InitConfig
  /\ IF part = "workflow" THEN InitTasks ELSE InitTasks /\ asset = "uploaded"
  /\ IF part = "indexing" THEN InitIndexing
     ELSE InitIndexing /\ provider = "gemini" /\ store = "pgvector"
  /\ IF part = "question" THEN InitQuery ELSE InitQuery /\ asked = AnyAsset

Next ==
  \/ part = "settings" /\ NextConfig /\ UNCHANGED <<part, taskVars, indexingVars, queryVars>>
  \/ part = "workflow" /\ NextTasks /\ UNCHANGED <<part, configVars, indexingVars, queryVars>>
  \/ part = "indexing" /\ NextIndexing /\ UNCHANGED <<part, configVars, taskVars, queryVars>>
  \/ part = "question" /\ NextQuery /\ UNCHANGED <<part, configVars, taskVars, indexingVars>>

Spec == Init /\ [][Next]_vars

TypeOK == ConfigTypeOK /\ TasksTypeOK /\ IndexingTypeOK /\ QueryTypeOK
===============================================================================
