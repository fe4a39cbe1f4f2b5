----------------------------- MODULE VectorIndexingProofs -----------------------------
(***************************************************************************)
(* Proofs about VectorIndexing, for any number of texts, batch sizes,      *)
(* limits, token budgets and numbers of attempts and runs:                 *)
(*                                                                         *)
(*   TypesHold      the types                                              *)
(*   IndexStaysTrue no chunk has the vector of another, and a run that     *)
(*                  ends well has stored them all (IndexIsTrue)            *)
(*   BoundStays     no more batches at once than allowed (CallsAreBounded) *)
(*                                                                         *)
(* The heart of it is what a call knows while it is split and retried      *)
(* (CallIs): its vectors are those of the first texts of its batch, all of *)
(* them once it is done, or none.  If no batch came back with none, the    *)
(* vectors together are those of all texts, because the batches cover the  *)
(* texts (BatchesCover), and the n-th vector is the vector of text n.      *)
(***************************************************************************)
EXTENDS VectorIndexing, TLAPS, FiniteSetTheorems, WellFoundedInduction

-----------------------------------------------------------------------------
CallRecord == [at : CallStage, next : 1..NumTexts + 1, tries : Nat, got : SUBSET Texts]

\* A call has the vectors of the first texts of its batch, all of them or none when done.
CallIs(b, call) ==
  /\ call \in CallRecord
  /\ call.at # "done" =>
       /\ call.next \in TextsOf(b)
       /\ call.got = FirstText(b)..call.next - 1
       /\ provider = "gemini" => call.next = FirstText(b)
  /\ call.at = "done" => call.got \in {{}, TextsOf(b)}

CallsAre == batch \in [Batches -> CallRecord] /\ \A b \in Batches : CallIs(b, batch[b])

\* Whoever stores has all the answers, and one of them holds vectors.
StoringHasAll ==
  run \in {"storing", "stored"} =>
    /\ \A b \in Batches : batch[b].at = "done"
    /\ store = "qdrant" /\ NoAnswer => misaligned

\* What this run has stored, if no answer was empty.
StoredSoFar ==
  /\ run = "embedding" => upserted = 0 /\ failures = 0
  /\ run = "storing" => failures < UpsertAttempts
  /\ store = "qdrant" /\ run \in {"storing", "stored"} /\ ~NoAnswer =>
       \A t \in 1..upserted : stored[t] = t
  /\ store = "qdrant" /\ run = "stored" => upserted = Cardinality(Vectors)
  /\ store = "pgvector" /\ run = "stored" => \A t \in Texts : stored[t] = t

IndexingInv == IndexingTypeOK /\ CallsAre /\ StoringHasAll /\ StoredSoFar /\ VectorsMatch /\ CallsAreBounded

-----------------------------------------------------------------------------
(* Numbers: least elements, and sets that start an interval. *)

\* From the well-foundedness of the finite sets: the interval of the least element is one of
\* the smallest.
LEMMA Least ==
  ASSUME NEW T, T \subseteq Nat, T # {}
  PROVE  \E x \in T : \A y \in T : x <= y
  <1> DEFINE Intervals == {0..n : n \in T}
  <1>1. \A n \in Nat : 0..n \in FiniteSubsetsOf(Nat)
    BY FS_Interval DEF FiniteSubsetsOf
  <1>2. Intervals \subseteq FiniteSubsetsOf(Nat) /\ Intervals # {}
    BY <1>1
  <1> HIDE DEF Intervals
  <1>3. PICK u \in Intervals : \A v \in Intervals : ~(<<v, u>> \in StrictSubsetOrdering(Nat))
    BY <1>2, WFMin, FS_StrictSubsetOrderingWellFounded
  <1>4. PICK x \in T : u = 0..x
    BY DEF Intervals
  <1>5. ASSUME NEW y \in T, y < x PROVE FALSE
    <2>1. 0..y \in Intervals
      BY DEF Intervals
    <2>2. 0..y \subseteq 0..x /\ 0..y # 0..x /\ 0..y \subseteq Nat /\ 0..x \subseteq Nat
      BY <1>5
    <2>3. QED BY <1>3, <1>4, <2>1, <2>2 DEF StrictSubsetOrdering
  <1>6. QED BY <1>4, <1>5

\* A set without gaps that starts with `from` is an interval, as long as it has members.
LEMMA NoGaps ==
  ASSUME NEW from \in Nat, NEW to \in Nat, NEW S, S \subseteq from..to, from \in S,
         \A t \in S : \A u \in from..t : u \in S
  PROVE  /\ Cardinality(S) \in Nat \ {0}
         /\ S = from..from + Cardinality(S) - 1
         /\ from + Cardinality(S) - 1 <= to
  <1>1. IsFiniteSet(S) /\ Cardinality(S) \in Nat
    <2>1. IsFiniteSet(from..to)
      BY FS_Interval
    <2>2. IsFiniteSet(S)
      BY <2>1, FS_Subset
    <2>3. QED BY <2>2, FS_CardinalityType
  <1>2. PICK size \in Nat : size = Cardinality(S)
    BY <1>1
  <1>3. size # 0
    BY <1>1, <1>2, FS_EmptySet
  <1>4. ASSUME NEW t \in S, t > from + size - 1 PROVE FALSE
    <2>1. from..t \subseteq S /\ t \in Nat /\ from <= t
      BY <1>4
    <2>2. Cardinality(from..t) = t - from + 1
      BY <2>1, FS_Interval
    <2>3. Cardinality(from..t) <= Cardinality(S)
      BY <1>1, <2>1, FS_Subset
    <2>4. t - from + 1 <= size
      BY <1>2, <2>2, <2>3
    <2>5. QED BY <1>4, <2>1, <2>4
  <1>5. S \subseteq from..from + size - 1
    BY <1>4
  <1>6. IsFiniteSet(from..from + size - 1) /\ Cardinality(from..from + size - 1) = size
    BY <1>3, FS_Interval
  <1>7. S = from..from + size - 1
    BY <1>2, <1>5, <1>6, FS_Subset
  <1>8. from + size - 1 <= to
    BY <1>3, <1>7
  <1>9. QED BY <1>2, <1>3, <1>7, <1>8

-----------------------------------------------------------------------------
(* The batches. *)

LEMMA BatchIs ==
  ASSUME NEW b \in Batches
  PROVE  /\ FirstText(b) \in Texts /\ LastText(b) \in Texts
         /\ FirstText(b) <= LastText(b)
         /\ TextsOf(b) \subseteq Texts
  <1>1. b \in Nat \ {0} /\ NumTexts \in Nat /\ BatchSize \in Nat \ {0}
    BY IndexingConstants DEF Batches, Texts
  <1>2. PICK before \in Nat : before = (b - 1) * BatchSize
    BY <1>1
  <1>3. b * BatchSize = before + BatchSize
    BY <1>1, <1>2
  <1>4. before < NumTexts
    BY <1>2 DEF Batches
  <1>5. FirstText(b) = before + 1
    BY <1>2 DEF FirstText
  <1>6. LastText(b) \in before + 1..NumTexts
    BY <1>1, <1>3, <1>4 DEF LastText, Lower
  <1>7. QED BY <1>1, <1>4, <1>5, <1>6 DEF Texts, TextsOf

\* Every text is in the first batch that ends after it.
LEMMA BatchesCover == \A t \in Texts : \E b \in Batches : t \in TextsOf(b)
  <1> TAKE t \in Texts
  <1>1. t \in Nat \ {0} /\ t <= NumTexts /\ NumTexts \in Nat /\ BatchSize \in Nat \ {0}
    BY IndexingConstants DEF Texts
  <1> DEFINE EndAfter == {b \in Nat : t <= b * BatchSize}
  <1>2. t <= t * BatchSize
    BY <1>1
  <1>3. PICK b \in EndAfter : \A c \in EndAfter : b <= c
    BY <1>1, <1>2, Least
  <1>4. b # 0 /\ b <= t /\ b \in Nat /\ t <= b * BatchSize
    BY <1>1, <1>2, <1>3
  <1>5. (b - 1) * BatchSize < t
    <2>1. b - 1 \notin EndAfter /\ b - 1 \in Nat
      BY <1>3, <1>4
    <2>2. (b - 1) * BatchSize \in Int
      BY <1>1, <2>1
    <2>3. QED BY <1>1, <2>1, <2>2
  <1>6. b \in Batches
    BY <1>1, <1>4, <1>5 DEF Batches, Texts
  <1>7. t \in TextsOf(b)
    <2>1. (b - 1) * BatchSize \in Int /\ b * BatchSize \in Int
      BY <1>1, <1>4
    <2>2. QED BY <1>1, <1>4, <1>5, <2>1 DEF TextsOf, FirstText, LastText, Lower
  <1>8. QED BY <1>6, <1>7

\* A share is the next texts of the batch, one of them at least.
LEMMA ShareIs ==
  ASSUME NEW b \in Batches, CallIs(b, batch[b]), batch[b].at # "done"
  PROVE  /\ Cardinality(Share(b)) \in Nat \ {0}
         /\ Share(b) = batch[b].next..batch[b].next + Cardinality(Share(b)) - 1
         /\ batch[b].next + Cardinality(Share(b)) - 1 <= LastText(b)
         /\ provider = "gemini" => Share(b) = TextsOf(b)
  <1>1. PICK from \in Nat, to \in Nat : from = batch[b].next /\ to = LastText(b)
    BY BatchIs DEF CallIs, Texts, TextsOf
  <1>2. from <= to
    BY <1>1 DEF CallIs, TextsOf
  <1>3. /\ Share(b) \subseteq from..to /\ from \in Share(b)
        /\ \A t \in Share(b) : \A u \in from..t : u \in Share(b)
    <2>1. CASE provider = "gemini"
      <3>1. Share(b) = from..to
        BY <1>1, <2>1 DEF Share, CallIs, TextsOf
      <3>2. QED BY <1>2, <3>1
    <2>2. CASE provider # "gemini"
      <3>1. Share(b) = {t \in from..to : t = from \/ \A u \in from + 1..t : Fits(from, u)}
        BY <1>1, <2>2 DEF Share
      <3>2. QED BY <1>2, <3>1
    <2>3. QED BY <2>1, <2>2
  <1>4. provider = "gemini" => Share(b) = TextsOf(b)
    BY DEF Share
  <1>5. QED BY <1>1, <1>3, <1>4, NoGaps

-----------------------------------------------------------------------------
(* The vectors. *)

LEMMA VectorsAreTexts ==
  ASSUME CallsAre
  PROVE  /\ Vectors \subseteq Texts
         /\ IsFiniteSet(Vectors) /\ Cardinality(Vectors) \in 0..NumTexts
         /\ IsFiniteSet(Texts) /\ Cardinality(Texts) = NumTexts
  <1>1. Vectors \subseteq Texts
    BY DEF CallsAre, CallRecord, Vectors
  <1>2. IsFiniteSet(Texts) /\ Cardinality(Texts) = NumTexts
    BY FS_Interval, IndexingConstants DEF Texts
  <1>3. IsFiniteSet(Vectors) /\ Cardinality(Vectors) <= NumTexts
    BY <1>1, <1>2, FS_Subset
  <1>4. QED BY <1>1, <1>2, <1>3, FS_CardinalityType, IndexingConstants

\* Without an empty answer the vectors are those of all texts.
LEMMA VectorsAreAll ==
  ASSUME CallsAre, \A b \in Batches : batch[b].at = "done", ~NoAnswer
  PROVE  Vectors = Texts
  <1>1. \A b \in Batches : batch[b].got = TextsOf(b)
    BY DEF CallsAre, CallIs, NoAnswer
  <1>2. QED BY <1>1, VectorsAreTexts, BatchesCover DEF Vectors

\* The vectors up to t.
UpTo(t) == {u \in Vectors : u <= t}

\* If all vectors are there, the n-th is the vector of text n.
LEMMA NthOfAll ==
  ASSUME Vectors = Texts, NEW n \in Texts
  PROVE  Nth(n) = n
  <1>1. \A t \in Texts : UpTo(t) = 1..t
    BY IndexingConstants DEF UpTo, Texts
  <1>2. \A t \in Texts : Cardinality(UpTo(t)) = t
    BY <1>1, FS_Interval, IndexingConstants DEF Texts
  <1>3. Nth(n) = CHOOSE t \in Vectors : Cardinality(UpTo(t)) = n
    BY DEF Nth, UpTo
  <1>4. QED BY <1>2, <1>3

\* There is an n-th vector as long as there are n of them: the least up to which there are n.
LEMMA NthIsVector ==
  ASSUME CallsAre, NEW n \in 1..Cardinality(Vectors)
  PROVE  Nth(n) \in Vectors
  <1>1. /\ Vectors \subseteq Texts /\ IsFiniteSet(Vectors) /\ Cardinality(Vectors) \in Nat
        /\ NumTexts \in Nat
    BY VectorsAreTexts, IndexingConstants
  <1>2. \A t \in Nat : IsFiniteSet(UpTo(t)) /\ Cardinality(UpTo(t)) \in Nat
    BY <1>1, FS_Subset, FS_CardinalityType DEF UpTo
  <1>0. \A u \in Vectors : u \in Nat /\ 1 <= u /\ u <= NumTexts
    BY <1>1 DEF Texts
  <1> DEFINE Enough == {t \in Nat : Cardinality(UpTo(t)) >= n}
  <1>3. NumTexts \in Enough
    <2>1. UpTo(NumTexts) = Vectors
      BY <1>0, <1>1 DEF UpTo
    <2>2. QED BY <1>1, <2>1
  <1>4. PICK t \in Enough : \A u \in Enough : t <= u
    BY <1>3, Least
  <1>5. t \in Nat /\ Cardinality(UpTo(t)) >= n
    BY <1>4
  <1>6. t # 0
    <2>1. UpTo(0) = {}
      BY <1>0, <1>1 DEF UpTo
    <2>2. QED BY <1>5, <2>1, FS_EmptySet
  <1>7. t - 1 \in Nat /\ Cardinality(UpTo(t - 1)) < n
    <2>1. t - 1 \in Nat /\ t - 1 \notin Enough
      BY <1>4, <1>5, <1>6
    <2>2. QED BY <1>2, <2>1
  <1>8. t \in Vectors
    <2>1. SUFFICES ASSUME t \notin Vectors PROVE FALSE
      OBVIOUS
    <2>2. UpTo(t) = UpTo(t - 1)
      BY <1>0, <1>5, <2>1 DEF UpTo
    <2>3. QED BY <1>2, <1>5, <1>7, <2>2
  <1>9. Cardinality(UpTo(t)) = n
    <2>1. UpTo(t) = UpTo(t - 1) \cup {t}
      <3>1. \A u \in Vectors : u <= t <=> u <= t - 1 \/ u = t
        BY <1>0, <1>5
      <3>2. QED BY <1>5, <1>8, <3>1 DEF UpTo
    <2>2. Cardinality(UpTo(t)) <= Cardinality(UpTo(t - 1)) + 1
      <3>1. IsFiniteSet(UpTo(t - 1)) /\ Cardinality(UpTo(t - 1)) \in Nat
        BY <1>2, <1>7
      <3>2. Cardinality(UpTo(t - 1) \cup {t}) \in {Cardinality(UpTo(t - 1)), Cardinality(UpTo(t - 1)) + 1}
        BY <3>1, FS_AddElement
      <3>3. QED BY <2>1, <3>1, <3>2
    <2>3. QED BY <1>2, <1>5, <1>7, <2>2
  <1>10. QED BY <1>8, <1>9 DEF Nth, UpTo

-----------------------------------------------------------------------------
(* The calls. *)

LEMMA NewCallIs == \A b \in Batches : CallIs(b, NewCall(b))
  <1> TAKE b \in Batches
  <1>1. FirstText(b) \in 1..NumTexts /\ NumTexts \in Nat
    BY BatchIs, IndexingConstants DEF Texts
  <1>2. NewCall(b) \in CallRecord
    BY <1>1 DEF NewCall, CallRecord, CallStage
  <1>3. FirstText(b)..FirstText(b) - 1 = {}
    BY <1>1
  <1>4. FirstText(b) \in TextsOf(b)
    BY BatchIs DEF TextsOf, Texts
  <1>5. QED BY <1>2, <1>3, <1>4 DEF NewCall, CallIs

\* A stage that keeps `next` and `got`, reached from another.
LEMMA StageKeeps ==
  ASSUME NEW b \in Batches, CallIs(b, batch[b]), batch[b].at # "done",
         NEW stage \in CallStage \ {"done"}, NEW tries \in Nat
  PROVE  CallIs(b, [at |-> stage, next |-> batch[b].next, tries |-> tries, got |-> batch[b].got])
  BY DEF CallIs, CallRecord

\* A call that is one field or two away from the old one.
LEMMA ChangedFields ==
  ASSUME NEW b \in Batches, CallIs(b, batch[b]), NEW stage, NEW next, NEW tries
  PROVE  /\ [batch[b] EXCEPT !.at = stage]
              = [at |-> stage, next |-> batch[b].next, tries |-> batch[b].tries, got |-> batch[b].got]
         /\ [batch[b] EXCEPT !.at = stage, !.tries = tries]
              = [at |-> stage, next |-> batch[b].next, tries |-> tries, got |-> batch[b].got]
         /\ [batch[b] EXCEPT !.at = stage, !.tries = @ + 1]
              = [at |-> stage, next |-> batch[b].next, tries |-> batch[b].tries + 1, got |-> batch[b].got]
         /\ [batch[b] EXCEPT !.at = stage, !.next = next]
              = [at |-> stage, next |-> next, tries |-> batch[b].tries, got |-> batch[b].got]
  <1>1. batch[b] = [at |-> batch[b].at, next |-> batch[b].next, tries |-> batch[b].tries,
                    got |-> batch[b].got]
    BY DEF CallIs, CallRecord
  <1> DEFINE one == [batch[b] EXCEPT !.at = stage]
  <1>2. one = [at |-> stage, next |-> batch[b].next, tries |-> batch[b].tries, got |-> batch[b].got]
    BY <1>1
  <1> HIDE DEF one
  <1>3. [one EXCEPT !.tries = tries]
          = [at |-> stage, next |-> batch[b].next, tries |-> tries, got |-> batch[b].got]
    BY <1>2
  <1>4. [one EXCEPT !.next = next]
          = [at |-> stage, next |-> next, tries |-> batch[b].tries, got |-> batch[b].got]
    BY <1>2
  <1>5. [one EXCEPT !.tries = @ + 1]
          = [at |-> stage, next |-> batch[b].next, tries |-> batch[b].tries + 1, got |-> batch[b].got]
    BY <1>2
  <1>6. QED BY <1>2, <1>3, <1>4, <1>5 DEF one

\* What a step of a call makes of it; the task may fail with it.
LEMMA CallStepIs ==
  ASSUME CallsAre, NEW b \in Batches, CallStep(b)
  PROVE  \E call :
           /\ CallIs(b, call)
           /\ Call(b, call)
           /\ batch[b].at # "done"
           /\ call.at \in {"calling", "pausing"} =>
                \/ batch[b].at \in {"calling", "pausing"}
                \/ Cardinality(Holding) < Limit
           /\ run' = run \/ (run = "embedding" /\ run' = "failed")
  <1>1. CallIs(b, batch[b]) /\ batch[b] \in CallRecord /\ batch[b].tries \in Nat
    BY DEF CallsAre, CallRecord
  <1> DEFINE Stage(stage, tries) ==
        [at |-> stage, next |-> batch[b].next, tries |-> tries, got |-> batch[b].got]
  <1>2. CASE Enter(b)
    <2>1. Call(b, Stage("calling", batch[b].tries))
      BY <1>1, <1>2, ChangedFields DEF Enter
    <2>2. CallIs(b, Stage("calling", batch[b].tries))
      BY <1>1, <1>2, StageKeeps DEF Enter, CallStage
    <2>3. QED BY <1>2, <2>1, <2>2 DEF Enter
  <1>3. CASE Resume(b)
    <2>1. Call(b, Stage("calling", batch[b].tries))
      BY <1>1, <1>3, ChangedFields DEF Resume
    <2>2. CallIs(b, Stage("calling", batch[b].tries))
      BY <1>1, <1>3, StageKeeps DEF Resume, CallStage
    <2>3. QED BY <1>3, <2>1, <2>2 DEF Resume
  <1>4. CASE CallFails(b)
    <2>1. batch[b].at = "calling"
      BY <1>4 DEF CallFails
    <2>2. \/ Call(b, Stage("pausing", batch[b].tries + 1)) /\ run' = run
          \/ /\ Call(b, Stage("failed", batch[b].tries))
             /\ run' = IF run = "embedding" THEN "failed" ELSE run
      <3>1. \/ Call(b, [batch[b] EXCEPT !.at = "pausing", !.tries = @ + 1]) /\ run' = run
            \/ /\ Call(b, [batch[b] EXCEPT !.at = "failed"])
               /\ run' = IF run = "embedding" THEN "failed" ELSE run
        BY <1>4 DEF CallFails
      <3>2. [batch[b] EXCEPT !.at = "pausing", !.tries = @ + 1] = Stage("pausing", batch[b].tries + 1)
        BY <1>1, ChangedFields
      <3>3. [batch[b] EXCEPT !.at = "failed"] = Stage("failed", batch[b].tries)
        BY <1>1, ChangedFields
      <3>4. QED BY <3>1, <3>2, <3>3
    <2>3. CallIs(b, Stage("pausing", batch[b].tries + 1)) /\ CallIs(b, Stage("failed", batch[b].tries))
      BY <1>1, <2>1, StageKeeps DEF CallStage
    <2>4. QED BY <2>1, <2>2, <2>3
  <1>5. CASE CallAnswers(b)
    <2>1. batch[b].at = "calling" /\ run' = run
      BY <1>5 DEF CallAnswers
    <2>2. /\ NumTexts \in Nat /\ FirstText(b) \in Nat /\ LastText(b) \in Nat
          /\ 1 <= FirstText(b) /\ LastText(b) <= NumTexts
      BY BatchIs, IndexingConstants DEF Texts
    <2>3. /\ batch[b].next \in FirstText(b)..LastText(b)
          /\ batch[b].got = FirstText(b)..batch[b].next - 1
          /\ provider = "gemini" => batch[b].next = FirstText(b)
      BY <1>1, <2>1 DEF CallIs, TextsOf
    <2>4. PICK next \in Nat, size \in Nat \ {0} :
            next = batch[b].next /\ size = Cardinality(Share(b))
      BY <1>1, <2>1, <2>2, <2>3, ShareIs
    <2>5. /\ Share(b) = next..next + size - 1
          /\ next + size - 1 <= LastText(b)
          /\ FirstText(b) <= next
          /\ provider = "gemini" => Share(b) = TextsOf(b)
      BY <1>1, <2>1, <2>3, <2>4, ShareIs
    <2> DEFINE last == LastText(b) \in Share(b)
               some == [at |-> IF last THEN "done" ELSE "pausing", next |-> next + size, tries |-> 0,
                        got |-> batch[b].got \cup Share(b)]
               none == [at |-> "done", next |-> LastText(b) + 1, tries |-> batch[b].tries,
                        got |-> batch[b].got]
    <2>6. Call(b, some) \/ (provider = "gemini" /\ Call(b, none))
      <3>1. [batch[b] EXCEPT !.at = "done", !.next = LastText(b) + 1] = none
        BY <1>1, ChangedFields
      <3>2. QED BY <1>5, <2>4, <3>1 DEF CallAnswers
    <2>7. some.got = FirstText(b)..next + size - 1
      <3>1. PICK first \in Nat : first = FirstText(b)
        BY <2>2
      <3>2. first <= next
        BY <2>5, <3>1
      <3>3. (first..next - 1) \cup (next..next + size - 1) = first..next + size - 1
        BY <3>2
      <3>4. QED BY <2>3, <2>4, <2>5, <3>1, <3>3
    <2>8. CallIs(b, some)
      <3>1. some \in CallRecord
        <4>1. next + size \in 1..NumTexts + 1
          BY <2>2, <2>5
        <4>2. some.got \subseteq Texts
          BY <2>2, <2>5, <2>7 DEF Texts
        <4>3. QED BY <4>1, <4>2 DEF CallRecord, CallStage
      <3>2. CASE last
        <4>1. next + size - 1 = LastText(b)
          BY <2>2, <2>5, <3>2
        <4>2. some.got = TextsOf(b)
          BY <2>7, <4>1 DEF TextsOf
        <4>3. QED BY <3>1, <3>2, <4>2 DEF CallIs
      <3>3. CASE ~last
        <4>1. next + size - 1 < LastText(b)
          BY <2>2, <2>5, <3>3
        <4>2. next + size \in TextsOf(b) /\ next + size - 1 = (next + size) - 1
          BY <2>2, <2>5, <4>1 DEF TextsOf
        <4>3. provider # "gemini"
          <5>1. LastText(b) \in TextsOf(b)
            BY BatchIs DEF TextsOf, Texts
          <5>2. QED BY <2>5, <3>3, <5>1
        <4>4. QED BY <2>7, <3>1, <3>3, <4>2, <4>3 DEF CallIs
      <3>4. QED BY <3>2, <3>3
    <2>9. provider = "gemini" => CallIs(b, none)
      <3> HAVE provider = "gemini"
      <3>1. none \in CallRecord
        BY <1>1, <2>2 DEF CallRecord, CallStage
      <3>2. none.got = {}
        BY <2>2, <2>3
      <3>3. QED BY <3>1, <3>2 DEF CallIs
    <2>10. QED BY <2>1, <2>6, <2>8, <2>9
  <1>6. QED BY <1>2, <1>3, <1>4, <1>5 DEF CallStep

\* The records of the calls after a step of one of them.
LEMMA CallsStay ==
  ASSUME CallsAre, NEW b \in Batches, NEW call, CallIs(b, call), Call(b, call)
  PROVE  /\ CallsAre'
         /\ batch'[b] = call
         /\ \A c \in Batches : c # b => batch'[c] = batch[c]
  <1>1. /\ batch' = [batch EXCEPT ![b] = call] /\ call \in CallRecord
        /\ provider' = provider
    BY DEF Call, CallIs
  <1>2. batch' \in [Batches -> CallRecord]
    BY <1>1 DEF CallsAre
  <1>3. batch'[b] = call /\ \A c \in Batches : c # b => batch'[c] = batch[c]
    BY <1>1 DEF CallsAre
  <1>4. \A c \in Batches : CallIs(c, batch'[c])
    BY <1>3 DEF CallsAre
  <1>5. \A c \in Batches : CallIs(c, batch[c])'
    BY <1>1, <1>4 DEF CallIs
  <1>6. QED BY <1>2, <1>3, <1>5 DEF CallsAre

LEMMA BatchesFinite == IsFiniteSet(Batches)
  <1>1. IsFiniteSet(Texts)
    BY FS_Interval, IndexingConstants DEF Texts
  <1>2. QED BY <1>1, FS_Subset DEF Batches

LEMMA HoldingFinite == IsFiniteSet(Holding) /\ Cardinality(Holding) \in Nat /\ Limit \in Nat \ {0}
  <1>1. IsFiniteSet(Holding)
    BY BatchesFinite, FS_Subset DEF Holding
  <1>2. QED BY <1>1, FS_CardinalityType, IndexingConstants DEF Limit

LEMMA CallStepKeeps ==
  ASSUME IndexingInv, NEW b \in Batches, CallStep(b)
  PROVE  IndexingInv'
  <1>1. PICK call :
           /\ CallIs(b, call)
           /\ Call(b, call)
           /\ batch[b].at # "done"
           /\ call.at \in {"calling", "pausing"} =>
                \/ batch[b].at \in {"calling", "pausing"}
                \/ Cardinality(Holding) < Limit
           /\ run' = run \/ (run = "embedding" /\ run' = "failed")
    BY CallStepIs DEF IndexingInv
  <1>2. /\ CallsAre'
        /\ batch'[b] = call
        /\ \A c \in Batches : c # b => batch'[c] = batch[c]
    BY <1>1, CallsStay DEF IndexingInv
  <1>3. UNCHANGED <<provider, store, runs, upserted, failures, stored, misaligned>>
    BY <1>1 DEF Call
  <1>4. run \notin {"storing", "stored"} /\ run' \notin {"storing", "stored"}
    BY <1>1 DEF IndexingInv, StoringHasAll
  <1>5. IndexingTypeOK'
    <2>1. batch' \in [Batches -> CallRecord]
      BY <1>2 DEF CallsAre
    <2>2. run' \in {"embedding", "storing", "stored", "failed"}
      BY <1>1 DEF IndexingInv, IndexingTypeOK
    <2>3. QED BY <1>3, <2>1, <2>2 DEF IndexingInv, IndexingTypeOK, CallRecord
  <1>6. CallsAreBounded'
    <2>1. Holding' \subseteq Holding \cup {b}
      BY <1>2 DEF Holding
    <2>2. Limit' = Limit
      BY <1>3 DEF Limit
    <2>3. CASE b \in Holding \/ b \notin Holding'
      <3>1. Holding' \subseteq Holding
        BY <2>1, <2>3
      <3>2. Cardinality(Holding') <= Cardinality(Holding)
        BY <3>1, HoldingFinite, FS_Subset
      <3>3. Cardinality(Holding') \in Nat
        BY <3>1, HoldingFinite, FS_Subset, FS_CardinalityType
      <3>4. Cardinality(Holding) <= Limit
        BY DEF IndexingInv, CallsAreBounded
      <3>5. Cardinality(Holding') <= Limit
        BY <3>2, <3>3, <3>4, HoldingFinite
      <3>6. QED BY <2>2, <3>5 DEF CallsAreBounded
    <2>4. CASE b \notin Holding /\ b \in Holding'
      <3>1. Cardinality(Holding) < Limit
        BY <1>1, <1>2, <2>4 DEF Holding
      <3>2. IsFiniteSet(Holding \cup {b}) /\ Cardinality(Holding \cup {b}) = Cardinality(Holding) + 1
        BY <2>4, HoldingFinite, FS_AddElement
      <3>3. Cardinality(Holding') <= Cardinality(Holding \cup {b})
        BY <2>1, <3>2, FS_Subset
      <3>4. Cardinality(Holding') \in Nat
        BY <2>1, <3>2, FS_Subset, FS_CardinalityType
      <3>5. Cardinality(Holding') <= Limit
        BY <3>1, <3>2, <3>3, <3>4, HoldingFinite
      <3>6. QED BY <2>2, <3>5 DEF CallsAreBounded
    <2>5. QED BY <2>3, <2>4
  <1>7. VectorsMatch'
    BY <1>3 DEF IndexingInv, VectorsMatch
  <1>8. StoredSoFar'
    BY <1>1, <1>3, <1>4 DEF IndexingInv, StoredSoFar
  <1>9. QED BY <1>2, <1>4, <1>5, <1>6, <1>7, <1>8 DEF IndexingInv, StoringHasAll

-----------------------------------------------------------------------------
(* Storing, and starting again. *)

\* Steps of the store leave the calls alone.
LEMMA CallsUntouched ==
  ASSUME IndexingInv, UNCHANGED <<provider, batch>>
  PROVE  /\ CallsAre' /\ CallsAreBounded'
         /\ Vectors' = Vectors /\ NoAnswer' = NoAnswer
  BY DEF IndexingInv, CallsAre, CallIs, CallsAreBounded, Holding, Limit, Vectors, NoAnswer

LEMMA GatherKeeps ==
  ASSUME IndexingInv, Gather
  PROVE  IndexingInv'
  <1>1. /\ run' \in {"failed", "storing"} /\ (run' = "storing" => Vectors # {})
        /\ misaligned' = (misaligned \/ (store = "qdrant" /\ NoAnswer /\ Vectors # {}))
        /\ UNCHANGED <<provider, store, batch, runs, stored, upserted, failures>>
        /\ \A b \in Batches : batch[b].at = "done"
        /\ run = "embedding"
    BY DEF Gather, Unstored
  <1>2. /\ CallsAre' /\ CallsAreBounded' /\ Vectors' = Vectors /\ NoAnswer' = NoAnswer
    BY <1>1, CallsUntouched
  <1>3. IndexingTypeOK'
    BY <1>1 DEF IndexingInv, IndexingTypeOK
  <1>4. StoringHasAll'
    BY <1>1, <1>2 DEF StoringHasAll
  <1>5. VectorsMatch'
    BY <1>1 DEF IndexingInv, VectorsMatch
  <1>6. StoredSoFar'
    <2>1. upserted' = 0 /\ failures' = 0 /\ 0 < UpsertAttempts
      BY <1>1, IndexingConstants DEF IndexingInv, StoredSoFar
    <2>2. QED BY <1>1, <2>1 DEF StoredSoFar
  <1>7. QED BY <1>2, <1>3, <1>4, <1>5, <1>6 DEF IndexingInv

LEMMA StoreFailsKeeps ==
  ASSUME IndexingInv, StoreFails
  PROVE  IndexingInv'
  <1>1. run' = "failed" /\ UNCHANGED <<provider, store, batch, runs, stored, upserted, failures, misaligned>>
    BY DEF StoreFails, Unstored
  <1>2. CallsAre' /\ CallsAreBounded'
    BY <1>1, CallsUntouched
  <1>3. IndexingTypeOK' /\ VectorsMatch'
    BY <1>1 DEF IndexingInv, IndexingTypeOK, VectorsMatch
  <1>4. QED BY <1>1, <1>2, <1>3 DEF IndexingInv, StoringHasAll, StoredSoFar

\* What the vector store may write, where it knows enough: the vector of the text itself.
LEMMA NthFits ==
  ASSUME IndexingInv, run = "storing", NEW t \in Texts, t <= Cardinality(Vectors)
  PROVE  /\ Nth(t) \in Texts
         /\ ~NoAnswer \/ Cardinality(Vectors) = NumTexts => Nth(t) = t
  <1>1. /\ Vectors \subseteq Texts /\ Cardinality(Vectors) \in 0..NumTexts
        /\ IsFiniteSet(Texts) /\ Cardinality(Texts) = NumTexts
    BY VectorsAreTexts DEF IndexingInv
  <1>2. t \in 1..Cardinality(Vectors)
    BY <1>1 DEF Texts
  <1>3. Nth(t) \in Texts
    BY <1>1, <1>2, NthIsVector DEF IndexingInv
  <1>4. ~NoAnswer \/ Cardinality(Vectors) = NumTexts => Vectors = Texts
    <2>1. Cardinality(Vectors) = NumTexts => Vectors = Texts
      BY <1>1, FS_Subset
    <2>2. QED BY <2>1, VectorsAreAll DEF IndexingInv, StoringHasAll
  <1>5. QED BY <1>3, <1>4, NthOfAll

LEMMA UpdateRowsKeeps ==
  ASSUME IndexingInv, UpdateRows
  PROVE  IndexingInv'
  <1>1. /\ run = "storing" /\ store = "pgvector"
        /\ UNCHANGED <<provider, store, batch, runs, upserted, failures, misaligned>>
    BY DEF UpdateRows
  <1>2. CallsAre' /\ CallsAreBounded' /\ Vectors' = Vectors /\ NoAnswer' = NoAnswer
    BY <1>1, CallsUntouched
  <1>3. CASE Cardinality(Vectors) = NumTexts
    <2>1. stored' = [t \in Texts |-> Nth(t)] /\ run' = "stored"
      BY <1>3 DEF UpdateRows
    <2>2. \A t \in Texts : Nth(t) = t
      BY <1>1, <1>3, NthFits DEF Texts
    <2>3. stored' \in [Texts -> Texts \cup {NoVector}] /\ \A t \in Texts : stored'[t] = t
      BY <2>1, <2>2
    <2>4. IndexingTypeOK'
      BY <1>1, <2>1, <2>3 DEF IndexingInv, IndexingTypeOK
    <2>5. VectorsMatch'
      BY <2>3 DEF VectorsMatch
    <2>6. QED BY <1>1, <1>2, <2>1, <2>3, <2>4, <2>5 DEF IndexingInv, StoringHasAll, StoredSoFar
  <1>4. CASE Cardinality(Vectors) # NumTexts
    <2>1. stored' = stored /\ run' = "failed"
      BY <1>4 DEF UpdateRows
    <2>2. IndexingTypeOK' /\ VectorsMatch'
      BY <1>1, <2>1 DEF IndexingInv, IndexingTypeOK, VectorsMatch
    <2>3. QED BY <1>1, <1>2, <2>1, <2>2 DEF IndexingInv, StoringHasAll, StoredSoFar
  <1>5. QED BY <1>3, <1>4

LEMMA UpsertKeeps ==
  ASSUME IndexingInv, Upsert
  PROVE  IndexingInv'
  <1>1. PICK applied \in BOOLEAN, acknowledged \in BOOLEAN :
          /\ acknowledged => applied
          /\ stored' = [t \in Texts |-> IF applied /\ Upserting(t) THEN Nth(t) ELSE stored[t]]
          /\ failures' = IF acknowledged THEN 0 ELSE failures + 1
          /\ upserted' = IF acknowledged THEN Lower(upserted + UpsertBatch, Cardinality(Vectors))
                         ELSE upserted
          /\ run' = IF upserted' = Cardinality(Vectors) THEN "stored"
                    ELSE IF failures' >= UpsertAttempts THEN "failed" ELSE "storing"
    BY DEF Upsert
  <1>2. run = "storing" /\ store = "qdrant" /\ UNCHANGED <<provider, store, batch, runs, misaligned>>
    BY DEF Upsert
  <1>3. CallsAre' /\ CallsAreBounded' /\ Vectors' = Vectors /\ NoAnswer' = NoAnswer
    BY <1>2, CallsUntouched
  <1>4. Cardinality(Vectors) \in 0..NumTexts
    BY VectorsAreTexts DEF IndexingInv
  <1>5. /\ NumTexts \in Nat /\ UpsertBatch \in Nat \ {0} /\ UpsertAttempts \in Nat \ {0}
        /\ upserted \in 0..NumTexts /\ failures \in 0..UpsertAttempts
    BY IndexingConstants DEF IndexingInv, IndexingTypeOK
  <1>6. upserted' \in 0..NumTexts
    BY <1>1, <1>4, <1>5 DEF Lower
  <1>7. ASSUME NEW t \in Texts
        PROVE  /\ stored'[t] \in Texts \cup {NoVector}
               /\ stored'[t] = stored[t] \/ stored'[t] = Nth(t)
               /\ applied /\ Upserting(t) => stored'[t] = Nth(t)
               /\ ~NoAnswer => stored'[t] \in {stored[t], t}
    <2>1. stored'[t] = IF applied /\ Upserting(t) THEN Nth(t) ELSE stored[t]
      BY <1>1
    <2>2. Upserting(t) => t <= Cardinality(Vectors)
      BY DEF Upserting
    <2>3. Upserting(t) => Nth(t) \in Texts /\ (~NoAnswer => Nth(t) = t)
      BY <1>2, <2>2, NthFits
    <2>4. stored[t] \in Texts \cup {NoVector}
      BY DEF IndexingInv, IndexingTypeOK
    <2>5. QED BY <2>1, <2>3, <2>4
  <1>8. IndexingTypeOK'
    <2>1. stored' \in [Texts -> Texts \cup {NoVector}]
      BY <1>1, <1>7
    <2>2. run' \in {"embedding", "storing", "stored", "failed"}
      BY <1>1
    <2>3. failures' \in 0..UpsertAttempts
      BY <1>1, <1>2, <1>5 DEF IndexingInv, StoredSoFar
    <2>4. QED BY <1>2, <1>6, <2>1, <2>2, <2>3 DEF IndexingInv, IndexingTypeOK
  <1>9. StoringHasAll'
    BY <1>2, <1>3 DEF IndexingInv, StoringHasAll
  <1>10. VectorsMatch'
    <2>1. ~misaligned => ~NoAnswer
      BY <1>2 DEF IndexingInv, StoringHasAll
    <2>2. QED BY <1>2, <1>7, <2>1 DEF IndexingInv, VectorsMatch
  <1>11. StoredSoFar'
    <2>1. run' = "stored" => upserted' = Cardinality(Vectors)
      BY <1>1
    <2>2. ASSUME ~NoAnswer, NEW t \in 1..upserted' PROVE stored'[t] = t
      <3>1. t \in Texts
        BY <1>5, <1>6, <2>2 DEF Texts
      <3>2. t <= upserted => stored[t] = t
        BY <1>2, <1>5, <2>2 DEF IndexingInv, StoredSoFar
      <3>3. CASE t <= upserted
        BY <1>7, <2>2, <3>1, <3>2, <3>3
      <3>4. CASE ~(t <= upserted)
        <4>1. acknowledged /\ upserted < t
          BY <1>1, <1>5, <2>2, <3>4
        <4>2. t <= upserted + UpsertBatch /\ t <= Cardinality(Vectors)
          BY <1>1, <1>4, <1>5, <2>2, <4>1 DEF Lower
        <4>3. applied /\ Upserting(t)
          BY <1>1, <4>1, <4>2 DEF Upserting
        <4>4. Nth(t) = t
          BY <1>2, <2>2, <3>1, <4>2, NthFits
        <4>5. QED BY <1>7, <3>1, <4>3, <4>4
      <3>5. QED BY <3>3, <3>4
    <2>3. run' # "embedding" /\ (run' = "storing" => failures' < UpsertAttempts)
      BY <1>1, <1>5, <1>8 DEF IndexingTypeOK
    <2>4. QED BY <1>2, <1>3, <2>1, <2>2, <2>3 DEF StoredSoFar
  <1>12. QED BY <1>3, <1>8, <1>9, <1>10, <1>11 DEF IndexingInv

LEMMA FreshBatches ==
  ASSUME batch' = [b \in Batches |-> NewCall(b)], UNCHANGED provider
  PROVE  CallsAre' /\ CallsAreBounded' /\ batch' \in [Batches -> CallRecord]
  <1>1. \A b \in Batches : NewCall(b) \in CallRecord
    BY NewCallIs DEF CallIs
  <1>2. batch' \in [Batches -> CallRecord]
    BY <1>1
  <1>3. (\A b \in Batches : CallIs(b, NewCall(b)))'
    BY NewCallIs, PTL
  <1>4. CallsAre'
    BY <1>2, <1>3 DEF CallsAre, NewCall
  <1>5. Holding' = {}
    BY DEF Holding, NewCall
  <1>6. CallsAreBounded'
    BY <1>5, FS_EmptySet, IndexingConstants DEF CallsAreBounded, Limit
  <1>7. QED BY <1>2, <1>4, <1>6

LEMMA RerunKeeps ==
  ASSUME IndexingInv, Rerun
  PROVE  IndexingInv'
  <1>1. /\ batch' = [b \in Batches |-> NewCall(b)] /\ run' = "embedding" /\ upserted' = 0 /\ failures' = 0
        /\ runs' = runs + 1 /\ UNCHANGED <<provider, store, stored, misaligned>>
    BY DEF Rerun
  <1>2. CallsAre' /\ CallsAreBounded' /\ batch' \in [Batches -> CallRecord]
    BY <1>1, FreshBatches
  <1>3. IndexingTypeOK'
    BY <1>1, <1>2, IndexingConstants DEF IndexingInv, IndexingTypeOK, CallRecord
  <1>4. VectorsMatch'
    BY <1>1 DEF IndexingInv, VectorsMatch
  <1>5. QED BY <1>1, <1>2, <1>3, <1>4 DEF IndexingInv, StoringHasAll, StoredSoFar

-----------------------------------------------------------------------------
(* The theorems. *)

LEMMA IndexingStarts == InitIndexing => IndexingInv
  <1> SUFFICES ASSUME InitIndexing PROVE IndexingInv
    OBVIOUS
  <1>1. batch = [b \in Batches |-> NewCall(b)]
    BY DEF InitIndexing
  <1>2. \A b \in Batches : NewCall(b) \in CallRecord
    BY NewCallIs DEF CallIs
  <1>3. CallsAre
    BY <1>1, <1>2, NewCallIs DEF CallsAre
  <1>4. IndexingTypeOK
    <2>1. batch \in [Batches -> CallRecord]
      BY <1>1, <1>2
    <2>2. stored \in [Texts -> Texts \cup {NoVector}]
      BY DEF InitIndexing
    <2>3. upserted \in 0..NumTexts /\ failures \in 0..UpsertAttempts /\ runs \in Nat
      BY IndexingConstants DEF InitIndexing
    <2>4. QED BY <2>1, <2>2, <2>3 DEF InitIndexing, IndexingTypeOK, CallRecord
  <1>5. CallsAreBounded
    <2>1. Holding = {}
      BY <1>1 DEF Holding, NewCall
    <2>2. QED BY <2>1, FS_EmptySet, HoldingFinite DEF CallsAreBounded
  <1>6. VectorsMatch /\ StoringHasAll /\ StoredSoFar
    BY DEF InitIndexing, StoringHasAll, StoredSoFar, VectorsMatch
  <1>7. QED BY <1>3, <1>4, <1>5, <1>6 DEF IndexingInv

LEMMA IndexingKept == IndexingInv /\ [NextIndexing]_indexingVars => IndexingInv'
  <1> SUFFICES ASSUME IndexingInv, [NextIndexing]_indexingVars PROVE IndexingInv'
    OBVIOUS
  <1>1. CASE UNCHANGED indexingVars
    <2>1. CallsAre' /\ CallsAreBounded' /\ Vectors' = Vectors /\ NoAnswer' = NoAnswer
      BY <1>1, CallsUntouched DEF indexingVars
    <2>2. IndexingTypeOK' /\ VectorsMatch'
      BY <1>1 DEF indexingVars, IndexingInv, IndexingTypeOK, VectorsMatch
    <2>3. StoringHasAll' /\ StoredSoFar'
      BY <1>1, <2>1 DEF indexingVars, IndexingInv, StoringHasAll, StoredSoFar
    <2>4. QED BY <2>1, <2>2, <2>3 DEF IndexingInv
  <1>2. QED
    BY <1>1, CallStepKeeps, GatherKeeps, StoreFailsKeeps, UpdateRowsKeeps, UpsertKeeps, RerunKeeps
    DEF NextIndexing, Work, StoreStep

LEMMA IndexingInvHolds == IndexingSpec => []IndexingInv
  BY IndexingStarts, IndexingKept, PTL DEF IndexingSpec

\* Every variable keeps its type: a call never asks for texts of another batch, and only
\* vectors of the project's own texts reach the store.
THEOREM TypesHold == IndexingSpec => []IndexingTypeOK
  BY IndexingInvHolds, PTL DEF IndexingInv

\* Whatever order the batches end in and however they are split, retried and stored, no chunk
\* gets the vector of another text, but in Qdrant after an answer without vectors.
LEMMA MatchStays == IndexingSpec => []VectorsMatch
  BY IndexingInvHolds, PTL DEF IndexingInv

\* The provider is never asked for more batches at once than the semaphore lets through.
THEOREM BoundStays == IndexingSpec => []CallsAreBounded
  BY IndexingInvHolds, PTL DEF IndexingInv

\* A task that ends well has stored the vector of every chunk, with the same exception.
LEMMA WholeStays == IndexingSpec => []IndexedWhole
  <1>1. IndexingInv => IndexedWhole
    <2> SUFFICES ASSUME IndexingInv, run = "stored", store = "pgvector" \/ ~NoAnswer
                 PROVE  \A t \in Texts : stored[t] = t
      BY DEF IndexedWhole
    <2>1. CASE store = "pgvector"
      BY <2>1 DEF IndexingInv, StoredSoFar
    <2>2. CASE store = "qdrant" /\ ~NoAnswer
      <3>1. Vectors = Texts
        BY <2>2, VectorsAreAll DEF IndexingInv, StoringHasAll
      <3>2. upserted = NumTexts
        BY <2>2, <3>1, VectorsAreTexts DEF IndexingInv, StoredSoFar
      <3>3. QED BY <2>2, <3>2 DEF IndexingInv, StoredSoFar, Texts
    <2>3. QED BY <2>1, <2>2 DEF IndexingInv, IndexingTypeOK, Stores
  <1>2. QED BY <1>1, IndexingInvHolds, PTL

\* What is stored for a chunk is the vector of its text, and after a run that ended well every chunk
\* has one, whatever the order, the splitting and the failures of the calls and of the upserts.
THEOREM IndexStaysTrue == IndexingSpec => []IndexIsTrue
  BY MatchStays, WholeStays, PTL DEF IndexIsTrue

===============================================================================
