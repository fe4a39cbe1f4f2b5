------------------------------- MODULE Retrieval -------------------------------
(***************************************************************************)
(* A question about a project (backend/routes/query.py, and the bot's      *)
(* answers): the nearest chunks are searched by vector, their texts are    *)
(* read from the database in a second step, re-scored, and packed into the *)
(* prompt up to a budget of tokens (backend/services/query_service.py,     *)
(* answer_service.py).  A document may be deleted, or its chunks replaced, *)
(* between the two steps.                                                  *)
(*                                                                         *)
(* Similarity and lexical scores are not modelled: a search or a ranking   *)
(* may return any order.                                                   *)
(*                                                                         *)
(* A definition X_Y just before a definition X is a faulty X: a slip the   *)
(* properties are tested against.  Nothing uses it.                        *)
(***************************************************************************)
EXTENDS Naturals, SequencesExt

CONSTANTS
  ChunkIds,    \* chunks of the project that have vectors
  Asset,       \* the document of each chunk
  Text,        \* what a chunk adds to the prompt: its parent's text, or its own
  Size,        \* of each text, in estimated tokens
  AnyAsset,    \* stands for a question about the whole project
  CandidateK,  \* retrieval_candidate_k
  TopK,        \* retrieval_top_k
  Budget       \* context_token_budget

ASSUME RetrievalConstants ==
  /\ IsFiniteSet(ChunkIds)
  /\ \A c \in ChunkIds : Text[c] \in DOMAIN Size /\ Size[Text[c]] \in Nat \ {0}
  /\ TopK \in Nat \ {0}
  /\ CandidateK \in Nat
  /\ Budget \in Nat \ {0}

VARIABLES
  table,    \* the chunks that are in the database
  asked,    \* the document the question is about
  qstep,    \* where the question is
  found,    \* chunks found
  hits,     \* the best of them, the best one first
  prompt,   \* texts in the prompt, in order
  cut,      \* the only text of the prompt was cut to the budget
  sources   \* chunks shown with the answer

queryVars == <<table, asked, qstep, found, hits, prompt, cut, sources>>

Documents == {Asset[c] : c \in ChunkIds}

InitQuery ==
  /\ table = ChunkIds
  /\ asked \in Documents \cup {AnyAsset}
  /\ qstep = "asked"
  /\ found = {}
  /\ hits = <<>>
  /\ prompt = <<>>
  /\ cut = FALSE
  /\ sources = {}

First(s, n) == SubSeq(s, 1, IF n < Len(s) THEN n ELSE Len(s))

\* The document is deleted, or processed again and its chunks replaced.
Replaced(d) ==
  /\ table' = {c \in table : Asset[c] # d}
  /\ UNCHANGED <<asked, qstep, found, hits, prompt, cut, sources>>

\* vector_db.search, for at least TopK candidates.
Search ==
  LET eligible   == {c \in table : asked \in {AnyAsset, Asset[c]}}
      candidates == IF CandidateK < TopK THEN TopK ELSE CandidateK
      number     == IF candidates < Cardinality(eligible) THEN candidates ELSE Cardinality(eligible)
  IN  /\ qstep = "asked"
      /\ found' \in kSubset(number, eligible)
      /\ qstep' = "searched"
      /\ UNCHANGED <<table, asked, hits, prompt, cut, sources>>

\* _hydrate_chunk_payloads drops what is gone by now.  With nothing left the answer only
\* tells how far the documents of the project are.
Hydrate ==
  /\ qstep = "searched"
  /\ found' = found \cap table
  /\ qstep' = IF found' = {} THEN "no context" ELSE "read"
  /\ UNCHANGED <<table, asked, hits, prompt, cut, sources>>

\* Hybrid scores, the re-ranking, the sort and the cut to TopK.
Rank ==
  /\ qstep = "read"
  /\ \E order \in SetToSeqs(found) : hits' = First(order, TopK)
  /\ qstep' = "ranked"
  /\ UNCHANGED <<table, asked, found, prompt, cut, sources>>

\* _build_context: a text that is there already is skipped; the first one that does not fit
\* ends the prompt, and is cut if it would be the only one.
Empty == [texts |-> <<>>, tokens |-> 0, cut |-> FALSE, full |-> FALSE]

Add_Uncounted(context, c) ==
  LET size == Size[Text[c]]
  IN  CASE context.full \/ Text[c] \in ToSet(context.texts) -> context
        [] ~context.full /\ context.tokens + size <= Budget ->
             [context EXCEPT !.texts = Append(@, Text[c])]
        [] OTHER -> [context EXCEPT !.full = TRUE]
Add(context, c) ==
  LET size == Size[Text[c]]
  IN  CASE context.full \/ Text[c] \in ToSet(context.texts) -> context
        [] OTHER ->
           IF size > Budget /\ context.texts = <<>>
           THEN [texts |-> <<Text[c]>>, tokens |-> Budget, cut |-> TRUE, full |-> TRUE]
           ELSE IF context.tokens + size > Budget
           THEN [context EXCEPT !.full = TRUE]
           ELSE [context EXCEPT !.texts = Append(@, Text[c]), !.tokens = @ + size]

Context ==
  LET built[n \in 0..Len(hits)] == IF n = 0 THEN Empty ELSE Add(built[n - 1], hits[n])
  IN  built[Len(hits)]

\* generate_answer: the prompt, the answer, and all found chunks as its sources.
Answer ==
  /\ qstep = "ranked"
  /\ prompt' = Context.texts
  /\ cut' = Context.cut
  /\ sources' = ToSet(hits)
  /\ qstep' = "answered"
  /\ UNCHANGED <<table, asked, found, hits>>

\* The provider raises: 503, or the bot's failure reply.
Unavailable ==
  /\ qstep \in {"asked", "ranked"}
  /\ qstep' = "failed"
  /\ UNCHANGED <<table, asked, found, hits, prompt, cut, sources>>

NextQuery ==
  \/ \E d \in Documents : Replaced(d)
  \/ Search \/ Hydrate \/ Rank \/ Answer \/ Unavailable

QuerySpec == InitQuery /\ [][NextQuery]_queryVars

-----------------------------------------------------------------------------
\* The types of the question's variables.
QueryTypeOK ==
  /\ table \subseteq ChunkIds
  /\ asked \in Documents \cup {AnyAsset}
  /\ qstep \in {"asked", "searched", "read", "ranked", "answered", "no context", "failed"}
  /\ found \subseteq ChunkIds
  /\ hits \in Seq(ChunkIds)
  /\ cut \in BOOLEAN
  /\ sources \subseteq ChunkIds

Tokens(texts) ==
  LET sum[n \in 0..Len(texts)] == IF n = 0 THEN 0 ELSE sum[n - 1] + Size[texts[n]]
  IN  sum[Len(texts)]

\* An answer rests on the documents: its prompt holds at least one text, none twice, each
\* from a chunk that is listed as a source and belongs to what was asked about, and all of
\* them within the budget unless the first alone exceeds it and is cut.
AnswerIsGrounded ==
  qstep = "answered" =>
    /\ prompt # <<>>
    /\ \A i, j \in DOMAIN prompt : prompt[i] = prompt[j] => i = j
    /\ \A i \in DOMAIN prompt : \E c \in sources :
         Text[c] = prompt[i] /\ asked \in {AnyAsset, Asset[c]}
    /\ cut \/ Tokens(prompt) <= Budget
    /\ cut => Len(prompt) = 1
=============================================================================
