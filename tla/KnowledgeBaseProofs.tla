-------------------------- MODULE KnowledgeBaseProofs --------------------------
(***************************************************************************)
(* The parts of MCKnowledgeBase, for every value of the constants, and     *)
(* that their composition implements each of them.  Indexing is the        *)
(* subject of VectorIndexingProofs; the other parts follow.                *)
(*                                                                         *)
(* Settings.  An update that was answered with success stays in the file.  *)
(* The strengthening says what the lock is for: as long as none was taken  *)
(* from a live process, the processes between acquiring the lock and       *)
(* releasing it hold it, hence there is one; it alone has the temporary    *)
(* file open, and what it is about to write is the file's content and its  *)
(* own update.                                                             *)
(*                                                                         *)
(* Questions.  An answer is grounded.  The prompt is a fold over the       *)
(* chunks found; what it holds after each of them is proved by counting    *)
(* up, an induction over a set of numbers.                                 *)
(*                                                                         *)
(* Workflows.  A reported success is true.  Whatever says that the         *)
(* document was processed -- a row, a result in Celery, a task past the    *)
(* point where it can take its work back -- is evidence; there is evidence *)
(* only of a processed document, and none while the one processing task    *)
(* under way may still undo what it did.                                   *)
(***************************************************************************)
EXTENDS MCKnowledgeBase, VectorIndexingProofs

-----------------------------------------------------------------------------
(* Numbers, and sequences that are defined by recursion. *)

\* What holds at 0, and goes on holding from each number to the next, holds up to N.
LEMMA CountingUp ==
  ASSUME NEW N \in Nat, NEW T, 0 \in T, \A n \in 0..N : n \in T /\ n < N => n + 1 \in T
  PROVE  0..N \subseteq T
<1> SUFFICES ASSUME (0..N) \ T # {} PROVE FALSE
    OBVIOUS
<1>1. PICK x \in (0..N) \ T : \A y \in (0..N) \ T : x <= y
  <2>1. (0..N) \ T \subseteq Nat
    OBVIOUS
  <2> QED BY <2>1, Least
<1>2. x # 0 /\ x - 1 \in 0..N /\ x - 1 < N /\ ~(x <= x - 1)
  BY <1>1
<1>3. x - 1 \in T
  BY <1>1, <1>2
<1> QED BY <1>1, <1>2, <1>3

\* A sequence of values in S, from base on, each of them F's of the one before.
Recurses(N, S, base, F) == N \in Nat /\ base \in S /\ F \in [1..N -> [S -> S]]

Follows(f, N, base, F) == f[0] = base /\ \A m \in 1..N : f[m] = F[m][f[m - 1]]

LEMMA Recursion ==
  ASSUME NEW N, NEW S, NEW base, NEW F, Recurses(N, S, base, F)
  PROVE  \E f \in [0..N -> S] : Follows(f, N, base, F)
<1>0. N \in Nat /\ base \in S /\ \A m \in 1..N : \A x \in S : F[m][x] \in S
  BY DEF Recurses
<1> DEFINE T == {n \in 0..N : \E f \in [0..n -> S] : Follows(f, n, base, F)}
<1>1. 0 \in T
  <2> DEFINE g == [m \in 0..0 |-> base]
  <2>1. g \in [0..0 -> S] /\ Follows(g, 0, base, F)
    BY <1>0 DEF Follows
  <2> HIDE DEF g
  <2> QED BY <1>0, <2>1
<1>2. ASSUME NEW n \in 0..N, n \in T, n < N PROVE n + 1 \in T
  <2>1. PICK f \in [0..n -> S] : Follows(f, n, base, F)
    BY <1>2
  <2>2. n \in Nat /\ n + 1 \in 1..N
    BY <1>0, <1>2
  <2> DEFINE last == F[n + 1][f[n]]
             g == [m \in 0..(n + 1) |-> IF m <= n THEN f[m] ELSE last]
  <2>3. last \in S
    BY <1>0, <2>2
  <2>4. g \in [0..(n + 1) -> S]
    <3> HIDE DEF last
    <3> QED BY <2>2, <2>3
  <2>5. Follows(g, n + 1, base, F)
    <3>1. g[0] = base
      BY <2>1, <2>2 DEF Follows
    <3>2. ASSUME NEW m \in 1..(n + 1), m <= n PROVE g[m] = F[m][g[m - 1]]
      <4>1. m - 1 \in 0..(n + 1) /\ m - 1 <= n /\ m \in 1..n
        BY <2>2, <3>2
      <4>2. g[m] = f[m] /\ g[m - 1] = f[m - 1]
        BY <2>2, <3>2, <4>1
      <4> HIDE DEF g
      <4> QED BY <2>1, <4>1, <4>2 DEF Follows
    <3>3. g[n + 1] = F[n + 1][g[(n + 1) - 1]]
      <4>1. g[n + 1] = last /\ g[n] = f[n] /\ (n + 1) - 1 = n
        <5> HIDE DEF last
        <5> QED BY <2>2
      <4> QED BY <4>1
    <3>4. \A m \in 1..(n + 1) : m <= n \/ m = n + 1
      BY <2>2
    <3> HIDE DEF g, last
    <3> QED BY <3>1, <3>2, <3>3, <3>4 DEF Follows
  <2> HIDE DEF g, last
  <2> QED BY <1>0, <2>2, <2>4, <2>5
<1>3. 0..N \subseteq T
  <2> HIDE DEF T
  <2> QED BY <1>0, <1>1, <1>2, CountingUp
<1> QED BY <1>0, <1>3

-----------------------------------------------------------------------------
(* The settings file. *)

\* The steps between the lock's creation and its removal after success.
LockHolding == {"locked", "merged", "opened", "written", "ok"}

HoldersHold == \A s \in Servers : step[s] \in LockHolding => lock = s

OpenedTmp == \A s \in Servers : target[s] = IF step[s] \in {"opened", "written"} THEN "tmp" ELSE "none"

MergedIsFresh ==
  \A s \in Servers : step[s] \in {"merged", "opened", "written"} => merged[s] = file \cup {s}

TmpIsMerged == \A s \in Servers : step[s] = "written" => tmp = {merged[s]}

DoneIsInFile == \A s \in Servers : step[s] \in {"ok", "done"} => s \in file

Kept == HoldersHold /\ OpenedTmp /\ MergedIsFresh /\ TmpIsMerged /\ DoneIsInFile

ConfigInv == ConfigTypeOK /\ (forced \/ Kept)

\* The type invariant is inductive.
LEMMA TypeStep == ConfigTypeOK /\ [NextConfig]_configVars => ConfigTypeOK'
<1> SUFFICES ASSUME ConfigTypeOK, [NextConfig]_configVars
             PROVE  ConfigTypeOK'
    OBVIOUS
<1> USE DEF ConfigTypeOK, Steps, Contents, Go
<1>1. CASE UNCHANGED configVars
  BY <1>1 DEF configVars
<1>2. ASSUME NEW s \in Servers, Request(s) PROVE ConfigTypeOK'
  BY <1>2 DEF Request
<1>3. ASSUME NEW s \in Servers, Acquire(s) PROVE ConfigTypeOK'
  BY <1>3 DEF Acquire
<1>4. ASSUME NEW s \in Servers, TimeOut(s) PROVE ConfigTypeOK'
  BY <1>4 DEF TimeOut
<1>5. ASSUME NEW s \in Servers, Merge(s) PROVE ConfigTypeOK'
  BY <1>5 DEF Merge
<1>6. ASSUME NEW s \in Servers, Open(s) PROVE ConfigTypeOK'
  BY <1>6 DEF Open
<1>7. ASSUME NEW s \in Servers, Write(s) PROVE ConfigTypeOK'
  BY <1>7 DEF Write
<1>8. ASSUME NEW s \in Servers, Replace(s) PROVE ConfigTypeOK'
  <2>1. CASE tmp = {}
    BY <1>8, <2>1 DEF Replace
  <2>2. CASE tmp # {}
    <3>1. /\ step' = [step EXCEPT ![s] = "ok"]
          /\ tmp' = {}
          /\ file' \in tmp
          /\ target' = [r \in Servers |->
               CASE r = s -> "none"
                 [] r # s /\ target[r] = "tmp" -> "file"
                 [] OTHER -> target[r]]
          /\ UNCHANGED <<lock, merged, forced>>
      BY <1>8, <2>2 DEF Replace
    <3>2. target' \in [Servers -> {"none", "tmp", "file"}]
      BY <3>1
    <3> QED BY <3>1, <3>2
  <2> QED BY <2>1, <2>2
<1>9. ASSUME NEW s \in Servers, DiskFails(s) PROVE ConfigTypeOK'
  BY <1>9 DEF DiskFails
<1>10. ASSUME NEW s \in Servers, Release(s) PROVE ConfigTypeOK'
  BY <1>10 DEF Release
<1>11. ASSUME NEW s \in Servers, Die(s) PROVE ConfigTypeOK'
  BY <1>11 DEF Die
<1> QED BY <1>1, <1>2, <1>3, <1>4, <1>5, <1>6, <1>7, <1>8, <1>9, <1>10, <1>11
        DEF NextConfig, Update

\* Two holders are one.
LEMMA OneHolder ==
  ASSUME HoldersHold, NEW r \in Servers, NEW s \in Servers,
         step[r] \in LockHolding, step[s] \in LockHolding
  PROVE  r = s
BY DEF HoldersHold

\* A step that leaves all locks to their live holders keeps the order of the updates.
LEMMA KeptStep ==
  ASSUME ConfigTypeOK, Kept, ~forced', NextConfig
  PROVE  Kept'
<1> USE DEF ConfigTypeOK, Steps, Contents, Go, Kept, LockHolding
<1>1. ASSUME NEW s \in Servers, Request(s) PROVE Kept'
  BY <1>1 DEF Request, HoldersHold, OpenedTmp, MergedIsFresh, TmpIsMerged, DoneIsInFile
<1>2. ASSUME NEW s \in Servers, Acquire(s) PROVE Kept'
  <2>1. \A r \in Servers : step[r] \notin LockHolding
    BY <1>2, ServersNamed DEF Acquire, HoldersHold
  <2> QED BY <1>2, <2>1 DEF Acquire, HoldersHold, OpenedTmp, MergedIsFresh, TmpIsMerged, DoneIsInFile
<1>3. ASSUME NEW s \in Servers, TimeOut(s) PROVE Kept'
  BY <1>3 DEF TimeOut, HoldersHold, OpenedTmp, MergedIsFresh, TmpIsMerged, DoneIsInFile
<1>4. ASSUME NEW s \in Servers, Merge(s) PROVE Kept'
  BY <1>4 DEF Merge, HoldersHold, OpenedTmp, MergedIsFresh, TmpIsMerged, DoneIsInFile
<1>5. ASSUME NEW s \in Servers, Open(s) PROVE Kept'
  <2>1. \A r \in Servers \ {s} : step[r] \notin LockHolding
    BY <1>5, OneHolder DEF Open
  <2> QED BY <1>5, <2>1 DEF Open, HoldersHold, OpenedTmp, MergedIsFresh, TmpIsMerged, DoneIsInFile
<1>6. ASSUME NEW s \in Servers, Write(s) PROVE Kept'
  <2>1. \A r \in Servers \ {s} : step[r] \notin LockHolding
    BY <1>6, OneHolder DEF Write
  <2>2. target[s] = "tmp" /\ \A r \in Servers \ {s} : target[r] # target[s]
    BY <1>6, <2>1 DEF Write, OpenedTmp
  <2>3. tmp' = {merged[s]} /\ UNCHANGED <<file, lock, merged, target, forced>>
    BY <1>6, <2>2 DEF Write
  <2> QED BY <1>6, <2>1, <2>3 DEF Write, HoldersHold, OpenedTmp, MergedIsFresh, TmpIsMerged, DoneIsInFile
<1>7. ASSUME NEW s \in Servers, Replace(s) PROVE Kept'
  <2>1. \A r \in Servers \ {s} : step[r] \notin LockHolding
    BY <1>7, OneHolder DEF Replace
  <2>2. tmp = {merged[s]} /\ merged[s] = file \cup {s}
    BY <1>7 DEF Replace, TmpIsMerged, MergedIsFresh
  <2>3. file' = file \cup {s} /\ step' = [step EXCEPT ![s] = "ok"] /\ UNCHANGED <<lock, merged>>
    BY <1>7, <2>2 DEF Replace
  <2>4. target' = [r \in Servers |->
               CASE r = s -> "none"
                 [] r # s /\ target[r] = "tmp" -> "file"
                 [] OTHER -> target[r]]
    BY <1>7, <2>2 DEF Replace
  <2>5. \A r \in Servers : target'[r] = "none"
    BY <2>1, <2>4 DEF OpenedTmp
  <2> QED BY <2>1, <2>3, <2>5, <1>7 DEF Replace, HoldersHold, OpenedTmp, MergedIsFresh, TmpIsMerged, DoneIsInFile
<1>8. ASSUME NEW s \in Servers, DiskFails(s) PROVE Kept'
  BY <1>8 DEF DiskFails, HoldersHold, OpenedTmp, MergedIsFresh, TmpIsMerged, DoneIsInFile
<1>9. ASSUME NEW s \in Servers, Release(s) PROVE Kept'
  <2>1. \A r \in Servers \ {s} : step[r] \notin LockHolding
    <3>1. lock \in {s, NoServer} \/ step[lock] = "dead"
      BY <1>9 DEF Release
    <3> QED BY <3>1, ServersNamed DEF HoldersHold
  <2>2. \A r \in Servers : step'[r] \notin LockHolding
    BY <1>9, <2>1 DEF Release
  <2> QED BY <1>9, <2>1, <2>2 DEF Release, HoldersHold, OpenedTmp, MergedIsFresh, TmpIsMerged, DoneIsInFile
<1>10. ASSUME NEW s \in Servers, Die(s) PROVE Kept'
  BY <1>10 DEF Die, HoldersHold, OpenedTmp, MergedIsFresh, TmpIsMerged, DoneIsInFile
<1> QED BY <1>1, <1>2, <1>3, <1>4, <1>5, <1>6, <1>7, <1>8, <1>9, <1>10 DEF NextConfig, Update

\* A lock that was taken from a live process is not forgotten.
LEMMA ForcedStays == ASSUME NextConfig, forced PROVE forced'
BY DEF NextConfig, Update, Request, Acquire, TimeOut, Merge, Open, Write, Replace, Release,
       DiskFails, Die

LEMMA ConfigStep == ConfigInv /\ [NextConfig]_configVars => ConfigInv'
<1> SUFFICES ASSUME ConfigInv, [NextConfig]_configVars
             PROVE  ConfigInv'
    OBVIOUS
<1>1. ConfigTypeOK'
  BY TypeStep DEF ConfigInv
<1>2. CASE NextConfig
  <2>1. CASE forced
    BY <1>1, <1>2, <2>1, ForcedStays DEF ConfigInv
  <2>2. CASE ~forced
    BY <1>1, <1>2, <2>2, KeptStep DEF ConfigInv
  <2> QED BY <2>1, <2>2
<1>3. CASE UNCHANGED configVars
  BY <1>1, <1>3 DEF ConfigInv, configVars, Kept, HoldersHold, OpenedTmp, MergedIsFresh,
                    TmpIsMerged, DoneIsInFile
<1> QED BY <1>2, <1>3

LEMMA ConfigStart == InitConfig => ConfigInv
BY DEF InitConfig, ConfigInv, ConfigTypeOK, Steps, Contents, Kept, LockHolding, HoldersHold,
       OpenedTmp, MergedIsFresh, TmpIsMerged, DoneIsInFile

\* The variables of the settings file have their types in every reachable state
\* (runtime_config.py).
THEOREM ConfigTypesHold == ConfigSpec => []ConfigTypeOK
<1>1. ConfigInv => ConfigTypeOK
  BY DEF ConfigInv
<1> QED BY <1>1, ConfigStart, ConfigStep, PTL DEF ConfigSpec

\* An update that update_runtime_config answered with success is in the settings file for good,
\* unless _release_lock took a lock from a live process.
THEOREM UpdatesStay == ConfigSpec => []UpdatesAreKept
<1>1. ConfigInv => UpdatesAreKept
  BY DEF ConfigInv, Kept, DoneIsInFile, UpdatesAreKept
<1> QED BY <1>1, ConfigStart, ConfigStep, PTL DEF ConfigSpec

-----------------------------------------------------------------------------
(* A question. *)

ChunkTexts == {Text[c] : c \in ChunkIds}

Contexts == [texts : Seq(ChunkTexts), tokens : Nat, cut : BOOLEAN, full : BOOLEAN]

LEMMA AddTyped ==
  ASSUME NEW x \in Contexts, NEW c \in ChunkIds
  PROVE  Add(x, c) \in Contexts
<1> DEFINE text == Text[c]
           size == Size[text]
           cutOff == [texts |-> <<text>>, tokens |-> Budget, cut |-> TRUE, full |-> TRUE]
           longer == [[x EXCEPT !.texts = Append(x.texts, text)] EXCEPT !.tokens = x.tokens + size]
<1>1. size \in Nat /\ text \in ChunkTexts /\ Budget \in Nat
  BY RetrievalConstants DEF ChunkTexts
<1> HIDE DEF text, size
<1>2. cutOff \in Contexts
  <2>1. <<text>> \in Seq(ChunkTexts)
    BY <1>1
  <2> QED BY <1>1, <2>1 DEF Contexts
<1>3. longer \in Contexts
  <2>1. Append(x.texts, text) \in Seq(ChunkTexts) /\ x.tokens + size \in Nat
    BY <1>1 DEF Contexts
  <2> QED BY <2>1 DEF Contexts
<1>4. [x EXCEPT !.full = TRUE] \in Contexts
  BY DEF Contexts
<1>5. Add(x, c) \in {x, cutOff, longer, [x EXCEPT !.full = TRUE]}
  BY DEF Add, text, size
<1> QED BY <1>2, <1>3, <1>4, <1>5

\* The prompts while it is built.
LEMMA ContextBuilt ==
  ASSUME hits \in Seq(ChunkIds)
  PROVE  \E f \in [0..Len(hits) -> Contexts] :
           /\ f[0] = Empty
           /\ \A m \in 1..Len(hits) : f[m] = Add(f[m - 1], hits[m])
           /\ Context = f[Len(hits)]
<1> DEFINE N == Len(hits)
           F == [m \in 1..N |-> [x \in Contexts |-> Add(x, hits[m])]]
<1>0. N \in Nat
  OBVIOUS
<1>1. \A m \in 1..N : hits[m] \in ChunkIds
  OBVIOUS
<1>2. Empty \in Contexts
  BY DEF Empty, Contexts
<1>3. F \in [1..N -> [Contexts -> Contexts]]
  BY <1>1, AddTyped
<1>4. PICK f \in [0..N -> Contexts] : Follows(f, N, Empty, F)
  <2>1. Recurses(N, Contexts, Empty, F)
    <3> HIDE DEF N, F
    <3> QED BY <1>0, <1>2, <1>3 DEF Recurses
  <2> HIDE DEF N, F
  <2> QED BY <2>1, Recursion
<1>5. ASSUME NEW m \in 1..N PROVE f[m] = Add(f[m - 1], hits[m])
  <2>1. m - 1 \in 0..N /\ f[m - 1] \in Contexts
    BY <1>0
  <2>2. f[m] = F[m][f[m - 1]]
    BY <1>4 DEF Follows
  <2>3. \A x \in Contexts : F[m][x] = Add(x, hits[m])
    OBVIOUS
  <2> HIDE DEF F
  <2> QED BY <2>1, <2>2, <2>3
<1> DEFINE Built(g) == g = [n \in 0..N |-> IF n = 0 THEN Empty ELSE Add(g[n - 1], hits[n])]
           built == CHOOSE g : Built(g)
<1>6. Built(f)
  BY <1>4, <1>5 DEF Follows
<1>7. Built(built)
  <2> HIDE DEF Built
  <2> QED BY <1>6
<1>8. Context = built[N]
  BY DEF Context
<1> HIDE DEF built
<1>9. built[0] = Empty /\ \A m \in 1..N : built[m] = Add(built[m - 1], hits[m])
  <2> HIDE DEF N
  <2> QED BY <1>0, <1>7
<1>10. 0..N \subseteq {n \in 0..N : built[n] \in Contexts}
  <2> DEFINE T == {n \in 0..N : built[n] \in Contexts}
  <2>1. 0 \in T
    BY <1>0, <1>2, <1>9
  <2>2. ASSUME NEW n \in 0..N, n \in T, n < N PROVE n + 1 \in T
    <3>1. n + 1 \in 1..N /\ (n + 1) - 1 = n
      BY <1>0, <2>2
    <3>2. built[n + 1] = Add(built[n], hits[n + 1])
      BY <1>9, <3>1
    <3> QED BY <1>1, <2>2, <3>1, <3>2, AddTyped
  <2>3. 0..N \subseteq T
    <3> HIDE DEF T, N
    <3> QED BY <1>0, <2>1, <2>2, CountingUp
  <2> QED BY <2>3
<1>11. built \in [0..N -> Contexts]
  BY <1>7, <1>10
<1> QED BY <1>8, <1>9, <1>11

\* The sum of the sizes, text by text.
LEMMA TokensCounted ==
  ASSUME NEW texts \in Seq(ChunkTexts)
  PROVE  \E f \in [0..Len(texts) -> Nat] :
           /\ f[0] = 0
           /\ \A m \in 1..Len(texts) : f[m] = f[m - 1] + Size[texts[m]]
           /\ Tokens(texts) = f[Len(texts)]
<1> DEFINE N == Len(texts)
           F == [m \in 1..N |-> [x \in Nat |-> x + Size[texts[m]]]]
<1>0. N \in Nat
  OBVIOUS
<1>1. \A m \in 1..N : Size[texts[m]] \in Nat
  BY RetrievalConstants DEF ChunkTexts
<1>3. F \in [1..N -> [Nat -> Nat]]
  BY <1>1
<1>4. PICK f \in [0..N -> Nat] : Follows(f, N, 0, F)
  <2>1. Recurses(N, Nat, 0, F)
    <3> HIDE DEF N, F
    <3> QED BY <1>0, <1>3 DEF Recurses
  <2> HIDE DEF N, F
  <2> QED BY <2>1, Recursion
<1>5. ASSUME NEW m \in 1..N PROVE f[m] = f[m - 1] + Size[texts[m]]
  <2>1. m - 1 \in 0..N /\ f[m - 1] \in Nat
    BY <1>0
  <2>2. f[m] = F[m][f[m - 1]]
    BY <1>4 DEF Follows
  <2>3. \A x \in Nat : F[m][x] = x + Size[texts[m]]
    OBVIOUS
  <2> HIDE DEF F
  <2> QED BY <2>1, <2>2, <2>3
<1> DEFINE Summed(g) == g = [n \in 0..N |-> IF n = 0 THEN 0 ELSE g[n - 1] + Size[texts[n]]]
           summed == CHOOSE g : Summed(g)
<1>6. Summed(f)
  BY <1>4, <1>5 DEF Follows
<1>7. Summed(summed)
  <2> HIDE DEF Summed
  <2> QED BY <1>6
<1>8. Tokens(texts) = summed[N]
  BY DEF Tokens
<1> HIDE DEF summed
<1>9. summed[0] = 0 /\ \A m \in 1..N : summed[m] = summed[m - 1] + Size[texts[m]]
  <2>1. \A n \in 0..N : summed[n] = IF n = 0 THEN 0 ELSE summed[n - 1] + Size[texts[n]]
    <3> HIDE DEF N
    <3> QED BY <1>7
  <2>2. 0 \in 0..N /\ \A m \in 1..N : m \in 0..N /\ m # 0
    BY <1>0
  <2> HIDE DEF N
  <2> QED BY <2>1, <2>2
<1>10. 0..N \subseteq {n \in 0..N : summed[n] \in Nat}
  <2> DEFINE T == {n \in 0..N : summed[n] \in Nat}
  <2>1. 0 \in T
    BY <1>0, <1>9
  <2>2. ASSUME NEW n \in 0..N, n \in T, n < N PROVE n + 1 \in T
    <3>1. n + 1 \in 1..N /\ (n + 1) - 1 = n
      BY <1>0, <2>2
    <3>2. summed[n + 1] = summed[n] + Size[texts[n + 1]]
      BY <1>9, <3>1
    <3> QED BY <1>1, <2>2, <3>1, <3>2
  <2>3. 0..N \subseteq T
    <3> HIDE DEF T, N
    <3> QED BY <1>0, <2>1, <2>2, CountingUp
  <2> QED BY <2>3
<1>11. summed \in [0..N -> Nat]
  BY <1>7, <1>10
<1> QED BY <1>8, <1>9, <1>11

LEMMA TokensEmpty == Tokens(<<>>) = 0
<1>1. <<>> \in Seq(ChunkTexts) /\ Len(<<>>) = 0
  OBVIOUS
<1> QED BY <1>1, TokensCounted

\* One more text adds its size.
LEMMA TokensAppended ==
  ASSUME NEW texts \in Seq(ChunkTexts), NEW t \in ChunkTexts
  PROVE  Tokens(Append(texts, t)) = Tokens(texts) + Size[t]
<1> DEFINE more == Append(texts, t)
           N == Len(texts)
<1>1. N \in Nat /\ more \in Seq(ChunkTexts) /\ Len(more) = N + 1 /\ more[N + 1] = t
      /\ \A m \in 1..N : more[m] = texts[m]
  OBVIOUS
<1> HIDE DEF more
<1>2. PICK f \in [0..N -> Nat] :
        /\ f[0] = 0
        /\ \A m \in 1..N : f[m] = f[m - 1] + Size[texts[m]]
        /\ Tokens(texts) = f[N]
  BY TokensCounted
<1>3. PICK g \in [0..(N + 1) -> Nat] :
        /\ g[0] = 0
        /\ \A m \in 1..(N + 1) : g[m] = g[m - 1] + Size[more[m]]
        /\ Tokens(more) = g[N + 1]
  BY <1>1, TokensCounted
<1> HIDE DEF N
<1>4. 0..N \subseteq {n \in 0..N : g[n] = f[n]}
  <2> DEFINE T == {n \in 0..N : g[n] = f[n]}
  <2>1. 0 \in T
    BY <1>1, <1>2, <1>3
  <2>2. ASSUME NEW n \in 0..N, n \in T, n < N PROVE n + 1 \in T
    <3>1. n + 1 \in 1..N /\ n + 1 \in 1..(N + 1) /\ (n + 1) - 1 = n
      BY <1>1, <2>2
    <3>2. g[n + 1] = g[n] + Size[more[n + 1]] /\ f[n + 1] = f[n] + Size[texts[n + 1]]
      BY <1>2, <1>3, <3>1
    <3> QED BY <1>1, <2>2, <3>1, <3>2
  <2>3. 0..N \subseteq T
    <3> HIDE DEF T
    <3> QED BY <1>1, <2>1, <2>2, CountingUp
  <2> QED BY <2>3
<1>5. g[N] = f[N]
  BY <1>1, <1>4
<1>6. g[N + 1] = g[N] + Size[t]
  <2>1. N + 1 \in 1..(N + 1) /\ (N + 1) - 1 = N
    BY <1>1
  <2> QED BY <1>1, <1>3, <2>1
<1> QED BY <1>2, <1>3, <1>5, <1>6 DEF more

\* What is always so of the prompt after the first n hits.
Packed(x, n) ==
  /\ \A i, j \in DOMAIN x.texts : x.texts[i] = x.texts[j] => i = j
  /\ \A i \in DOMAIN x.texts : \E m \in 1..n : x.texts[i] = Text[hits[m]]
  /\ IF x.cut THEN Len(x.texts) = 1 /\ x.full
              ELSE x.tokens = Tokens(x.texts) /\ x.tokens <= Budget
  /\ x.texts = <<>> => n = 0 /\ ~x.full

LEMMA PackedMore ==
  ASSUME hits \in Seq(ChunkIds), NEW n \in Nat, n + 1 <= Len(hits),
         NEW x \in Contexts, Packed(x, n)
  PROVE  Packed(Add(x, hits[n + 1]), n + 1)
<1> DEFINE text == Text[hits[n + 1]]
           size == Size[text]
           y == Add(x, hits[n + 1])
<1> SUFFICES Packed(y, n + 1)
    OBVIOUS
<1>1. /\ size \in Nat \ {0} /\ text \in ChunkTexts /\ Budget \in Nat \ {0}
      /\ n + 1 \in 1..(n + 1) /\ 1..n \subseteq 1..(n + 1)
  BY RetrievalConstants DEF ChunkTexts
<1>2. x.texts \in Seq(ChunkTexts) /\ x.tokens \in Nat /\ x.cut \in BOOLEAN /\ x.full \in BOOLEAN
  BY DEF Contexts
<1>3. CASE y = x /\ (x.full \/ text \in ToSet(x.texts))
  <2>1. x.texts # <<>>
    BY <1>2, <1>3 DEF Packed, ToSet
  <2> QED BY <1>1, <1>3, <2>1 DEF Packed
<1>4. CASE /\ text \notin ToSet(x.texts) /\ ~x.full /\ x.texts = <<>>
           /\ y = [texts |-> <<text>>, tokens |-> Budget, cut |-> TRUE, full |-> TRUE]
  <2> HIDE DEF y
  <2>1. y.texts = <<text>> /\ y.cut /\ y.full /\ Len(y.texts) = 1 /\ DOMAIN y.texts = {1} /\ y.texts[1] = text
    BY <1>4
  <2>2. \A i \in DOMAIN y.texts : i = 1
    BY <2>1
  <2>3. \A i \in DOMAIN y.texts : y.texts[i] = Text[hits[n + 1]]
    BY <2>1, <2>2
  <2>4. y.texts # <<>>
    BY <2>1
  <2> HIDE DEF text
  <2> QED BY <1>1, <2>1, <2>2, <2>3, <2>4 DEF Packed
<1>5. CASE /\ text \notin ToSet(x.texts) /\ ~x.full /\ x.texts # <<>>
           /\ y = [x EXCEPT !.full = TRUE]
  <2> HIDE DEF y
  <2>1. y.texts = x.texts /\ y.tokens = x.tokens /\ y.cut = x.cut /\ y.full = TRUE
    BY <1>5 DEF Contexts
  <2>2. ~x.cut
    BY <1>5 DEF Packed
  <2>3. \A i \in DOMAIN y.texts : \E m \in 1..(n + 1) : y.texts[i] = Text[hits[m]]
    BY <1>1, <2>1 DEF Packed
  <2> HIDE DEF text
  <2> QED BY <1>5, <2>1, <2>2, <2>3 DEF Packed
<1>6. CASE /\ text \notin ToSet(x.texts) /\ ~x.full /\ x.tokens + size <= Budget
           /\ y = [x EXCEPT !.texts = Append(@, text), !.tokens = @ + size]
  <2> HIDE DEF y
  <2>1. y.texts = Append(x.texts, text) /\ y.tokens = x.tokens + size /\ y.cut = x.cut /\ y.full = x.full
    BY <1>6 DEF Contexts
  <2>2. ~x.cut /\ x.tokens = Tokens(x.texts)
    BY <1>6 DEF Packed
  <2>3. y.tokens = Tokens(y.texts)
    BY <1>1, <1>2, <2>1, <2>2, TokensAppended
  <2>4. /\ DOMAIN y.texts = 1..(Len(x.texts) + 1) /\ DOMAIN x.texts = 1..Len(x.texts)
        /\ y.texts[Len(x.texts) + 1] = text /\ y.texts # <<>>
        /\ \A i \in 1..Len(x.texts) : y.texts[i] = x.texts[i]
    <3>1. ASSUME NEW s \in Seq(ChunkTexts), NEW t \in ChunkTexts
          PROVE  /\ DOMAIN Append(s, t) = 1..(Len(s) + 1) /\ DOMAIN s = 1..Len(s)
                 /\ Append(s, t)[Len(s) + 1] = t /\ Append(s, t) # <<>>
                 /\ \A i \in 1..Len(s) : Append(s, t)[i] = s[i]
      OBVIOUS
    <3>2. x.texts \in Seq(ChunkTexts) /\ text \in ChunkTexts /\ y.texts = Append(x.texts, text)
      BY <1>1, <1>2, <2>1
    <3> DEFINE s == x.texts
               z == y.texts
    <3>3. s \in Seq(ChunkTexts) /\ z = Append(s, text)
      BY <3>2
    <3> HIDE DEF text, s, z
    <3>4. /\ DOMAIN z = 1..(Len(s) + 1) /\ DOMAIN s = 1..Len(s)
          /\ z[Len(s) + 1] = text /\ z # <<>>
          /\ \A i \in 1..Len(s) : z[i] = s[i]
      BY ONLY <3>1, <3>2, <3>3
    <3> QED BY <3>4 DEF s, z
  <2>5. \A i \in DOMAIN y.texts : i \in DOMAIN x.texts \/ i = Len(x.texts) + 1
    BY <1>2, <2>4
  <2>6. \A i \in DOMAIN x.texts : x.texts[i] # text
    BY <1>6 DEF ToSet
  <2>7. \A i, j \in DOMAIN y.texts : y.texts[i] = y.texts[j] => i = j
    BY <2>4, <2>5, <2>6 DEF Packed
  <2>8. \A i \in DOMAIN y.texts : \E m \in 1..(n + 1) : y.texts[i] = Text[hits[m]]
    BY <1>1, <2>4, <2>5 DEF Packed
  <2>9. y.tokens <= Budget /\ ~y.cut
    BY <1>6, <2>1, <2>2
  <2> HIDE DEF text
  <2> QED BY <2>3, <2>4, <2>7, <2>8, <2>9 DEF Packed
<1>7. x.texts = <<>> /\ ~x.full => x.tokens = 0
  BY TokensEmpty DEF Packed
<1>8. x.full \/ text \in ToSet(x.texts) => y = x
  BY DEF Add
<1>9. ASSUME ~x.full, text \notin ToSet(x.texts), size > Budget, x.texts = <<>>
      PROVE  y = [texts |-> <<text>>, tokens |-> Budget, cut |-> TRUE, full |-> TRUE]
  BY <1>9 DEF Add
<1>10. ASSUME ~x.full, text \notin ToSet(x.texts), ~(size > Budget /\ x.texts = <<>>), x.tokens + size > Budget
       PROVE  y = [x EXCEPT !.full = TRUE]
  BY <1>10 DEF Add
<1>11. ASSUME ~x.full, text \notin ToSet(x.texts), ~(size > Budget /\ x.texts = <<>>), ~(x.tokens + size > Budget)
       PROVE  y = [x EXCEPT !.texts = Append(@, text), !.tokens = @ + size]
  BY <1>11 DEF Add
<1> HIDE DEF y, size, text
<1> QED
  <2>1. CASE x.full \/ text \in ToSet(x.texts)
    BY <1>3, <1>8, <2>1
  <2>2. CASE ~x.full /\ text \notin ToSet(x.texts) /\ size > Budget /\ x.texts = <<>>
    BY <1>4, <1>9, <2>2
  <2>3. CASE ~x.full /\ text \notin ToSet(x.texts) /\ ~(size > Budget /\ x.texts = <<>>) /\ x.tokens + size > Budget
    <3>1. x.texts # <<>>
      BY <1>1, <1>7, <2>3
    <3> QED BY <1>5, <1>10, <2>3, <3>1
  <2>4. CASE ~x.full /\ text \notin ToSet(x.texts) /\ ~(size > Budget /\ x.texts = <<>>) /\ ~(x.tokens + size > Budget)
    <3>1. x.tokens + size <= Budget
      BY <1>1, <1>2, <2>4
    <3> QED BY <1>6, <1>11, <2>4, <3>1
  <2> QED BY <2>1, <2>2, <2>3, <2>4

\* The prompt of all hits.
LEMMA ContextPacked ==
  ASSUME hits \in Seq(ChunkIds)
  PROVE  Context \in Contexts /\ Packed(Context, Len(hits))
<1> DEFINE N == Len(hits)
<1>0. N \in Nat
  OBVIOUS
<1>1. PICK f \in [0..N -> Contexts] :
        /\ f[0] = Empty
        /\ \A m \in 1..N : f[m] = Add(f[m - 1], hits[m])
        /\ Context = f[N]
  BY ContextBuilt
<1> DEFINE T == {n \in 0..N : Packed(f[n], n)}
<1>2. 0 \in T
  <2>1. /\ f[0].texts = <<>> /\ f[0].tokens = 0 /\ f[0].cut = FALSE /\ f[0].full = FALSE
        /\ DOMAIN f[0].texts = {}
    BY <1>1 DEF Empty
  <2>2. Budget \in Nat
    BY RetrievalConstants
  <2>3. Packed(f[0], 0)
    BY <2>1, <2>2, TokensEmpty DEF Packed
  <2> QED BY <1>0, <2>3
<1>3. ASSUME NEW n \in 0..N, n \in T, n < N PROVE n + 1 \in T
  <2>1. n \in Nat /\ n + 1 \in 1..N /\ n + 1 <= N /\ (n + 1) - 1 = n /\ n + 1 \in 0..N
    BY <1>0, <1>3
  <2>2. f[n + 1] = Add(f[n], hits[n + 1]) /\ f[n] \in Contexts /\ Packed(f[n], n)
    BY <1>1, <1>3, <2>1
  <2>3. Packed(f[n + 1], n + 1)
    BY <2>1, <2>2, PackedMore
  <2> QED BY <2>1, <2>3
<1>4. 0..N \subseteq T
  <2> HIDE DEF T, N
  <2> QED BY <1>0, <1>2, <1>3, CountingUp
<1>5. N \in T
  BY <1>0, <1>4
<1> QED BY <1>0, <1>1, <1>5

(***************************************************************************)
(* The invariant.                                                           *)
(***************************************************************************)

QueryInv ==
  /\ QueryTypeOK
  /\ \A c \in found : asked \in {AnyAsset, Asset[c]}
  /\ qstep = "read" => found # {}
  /\ qstep \in {"asked", "searched", "read"} => hits = <<>>
  /\ ToSet(hits) \subseteq found
  /\ qstep = "ranked" => hits # <<>>
  /\ AnswerIsGrounded

LEMMA QueryStart == InitQuery => QueryInv
<1> SUFFICES ASSUME InitQuery PROVE QueryInv
    OBVIOUS
<1>1. hits = <<>> /\ found = {}
  BY DEF InitQuery
<1>2. ToSet(hits) = {} /\ hits \in Seq(ChunkIds)
  BY <1>1 DEF ToSet
<1> QED BY <1>1, <1>2 DEF InitQuery, QueryInv, QueryTypeOK, AnswerIsGrounded

LEMMA SearchStep == ASSUME QueryInv, Search PROVE QueryInv'
<1>1. PICK n : found' \in kSubset(n, {c \in table : asked \in {AnyAsset, Asset[c]}})
  BY DEF Search
<1>2. found' \subseteq {c \in table : asked \in {AnyAsset, Asset[c]}}
  BY <1>1 DEF kSubset
<1>3. qstep = "asked" /\ qstep' = "searched" /\ UNCHANGED <<table, asked, hits, prompt, cut, sources>>
  BY DEF Search
<1>4. ToSet(hits) = {}
  BY <1>3 DEF QueryInv, ToSet
<1> QED BY <1>2, <1>3, <1>4 DEF QueryInv, QueryTypeOK, AnswerIsGrounded

LEMMA RankStep == ASSUME QueryInv, Rank PROVE QueryInv'
<1>1. /\ qstep = "read" /\ qstep' = "ranked" /\ found # {} /\ found \subseteq ChunkIds
      /\ UNCHANGED <<table, asked, found, prompt, cut, sources>>
  BY DEF Rank, QueryInv, QueryTypeOK
<1> DEFINE K == Cardinality(found)
<1>2. K \in Nat /\ K >= 1
  <2>1. IsFiniteSet(found)
    BY <1>1, RetrievalConstants, FS_Subset
  <2> QED BY <1>1, <2>1, FS_CardinalityType, FS_EmptySet
<1>3. PICK order \in [1..K -> found] : hits' = First(order, TopK)
  BY DEF Rank, SetToSeqs
<1> HIDE DEF K
<1>4. order \in Seq(found) /\ Len(order) = K
  BY <1>2, <1>3
<1> DEFINE last == IF TopK < Len(order) THEN TopK ELSE Len(order)
<1>5. last \in 1..K /\ hits' = SubSeq(order, 1, last)
  BY <1>2, <1>3, <1>4, RetrievalConstants DEF First
<1> HIDE DEF last
<1>6. hits' \in Seq(found) /\ Len(hits') = last /\ last \in Nat \ {0}
  BY <1>2, <1>4, <1>5
<1>7. hits' # <<>> /\ ToSet(hits') \subseteq found /\ hits' \in Seq(ChunkIds)
  BY <1>1, <1>6 DEF ToSet
<1> QED BY <1>1, <1>7 DEF QueryInv, QueryTypeOK, AnswerIsGrounded

LEMMA AnswerStep == ASSUME QueryInv, Answer PROVE QueryInv'
<1>1. /\ qstep = "ranked" /\ qstep' = "answered"
      /\ prompt' = Context.texts /\ cut' = Context.cut /\ sources' = ToSet(hits)
      /\ UNCHANGED <<table, asked, found, hits>>
  BY DEF Answer
<1>2. hits \in Seq(ChunkIds) /\ hits # <<>> /\ ToSet(hits) \subseteq found /\ found \subseteq ChunkIds
  BY <1>1 DEF QueryInv, QueryTypeOK
<1>3. Context \in Contexts /\ Packed(Context, Len(hits))
  BY <1>2, ContextPacked
<1>4. Len(hits) \in Nat \ {0} /\ \A m \in 1..Len(hits) : hits[m] \in ToSet(hits)
  BY <1>2 DEF ToSet
<1>5. AnswerIsGrounded'
  <2>1. prompt' # <<>>
    BY <1>1, <1>3, <1>4 DEF Packed
  <2>2. \A i, j \in DOMAIN prompt' : prompt'[i] = prompt'[j] => i = j
    BY <1>1, <1>3 DEF Packed
  <2>3. ASSUME NEW i \in DOMAIN prompt'
        PROVE  \E c \in sources' : Text[c] = prompt'[i] /\ asked' \in {AnyAsset, Asset[c]}
    <3>1. PICK m \in 1..Len(hits) : prompt'[i] = Text[hits[m]]
      BY <1>1, <1>3, <2>3 DEF Packed
    <3>2. hits[m] \in sources' /\ hits[m] \in found
      BY <1>1, <1>2, <1>4
    <3> QED BY <1>1, <3>1, <3>2 DEF QueryInv
  <2>4. cut' \/ Tokens(prompt') <= Budget
    BY <1>1, <1>3 DEF Packed
  <2>5. cut' => Len(prompt') = 1
    BY <1>1, <1>3 DEF Packed
  <2>6. AnswerIsGrounded' <=> (qstep' = "answered" =>
          /\ prompt' # <<>>
          /\ \A i, j \in DOMAIN prompt' : prompt'[i] = prompt'[j] => i = j
          /\ \A i \in DOMAIN prompt' : \E c \in sources' :
               Text[c] = prompt'[i] /\ asked' \in {AnyAsset, Asset[c]}
          /\ cut' \/ Tokens(prompt') <= Budget
          /\ cut' => Len(prompt') = 1)
    BY DEF AnswerIsGrounded
  <2> QED BY <2>1, <2>2, <2>3, <2>4, <2>5, <2>6
<1>6. QueryTypeOK'
  <2>1. cut' \in BOOLEAN
    BY <1>1, <1>3 DEF Contexts
  <2> QED BY <1>1, <1>2, <2>1 DEF QueryInv, QueryTypeOK
<1> QED BY <1>1, <1>2, <1>5, <1>6 DEF QueryInv

LEMMA QueryStep == QueryInv /\ [NextQuery]_queryVars => QueryInv'
<1> SUFFICES ASSUME QueryInv, [NextQuery]_queryVars PROVE QueryInv'
    OBVIOUS
<1>1. ASSUME NEW d \in Documents, Replaced(d) PROVE QueryInv'
  <2>1. table' \subseteq table /\ UNCHANGED <<asked, qstep, found, hits, prompt, cut, sources>>
    BY <1>1 DEF Replaced
  <2> QED BY <2>1 DEF QueryInv, QueryTypeOK, AnswerIsGrounded
<1>2. CASE Hydrate
  <2>1. /\ qstep = "searched" /\ found' = found \cap table
        /\ qstep' = IF found' = {} THEN "no context" ELSE "read"
        /\ UNCHANGED <<table, asked, hits, prompt, cut, sources>>
    BY <1>2 DEF Hydrate
  <2>2. hits = <<>>
    BY <2>1 DEF QueryInv
  <2>3. ToSet(hits) = {}
    BY <2>2 DEF ToSet
  <2> QED BY <2>1, <2>2, <2>3 DEF QueryInv, QueryTypeOK, AnswerIsGrounded
<1>3. CASE Unavailable
  <2>1. /\ qstep' = "failed" /\ UNCHANGED <<table, asked, found, hits, prompt, cut, sources>>
    BY <1>3 DEF Unavailable
  <2> QED BY <2>1 DEF QueryInv, QueryTypeOK, AnswerIsGrounded
<1>4. CASE UNCHANGED queryVars
  BY <1>4 DEF QueryInv, QueryTypeOK, AnswerIsGrounded, queryVars
<1> QED BY <1>1, <1>2, <1>3, <1>4, SearchStep, RankStep, AnswerStep DEF NextQuery

\* The variables of a question have their types (query_service.py, answer_service.py).
THEOREM QueryTypesHold == QuerySpec => []QueryTypeOK
<1>1. QueryInv => QueryTypeOK
  BY DEF QueryInv
<1> QED BY <1>1, QueryStart, QueryStep, PTL DEF QuerySpec

\* What _build_context puts into the prompt comes from the sources, once each and within the budget,
\* whatever is deleted between the search and the reading of the texts.
THEOREM GroundedStays == QuerySpec => []AnswerIsGrounded
<1>1. QueryInv => AnswerIsGrounded
  BY DEF QueryInv
<1> QED BY <1>1, QueryStart, QueryStep, PTL DEF QuerySpec

-----------------------------------------------------------------------------
(* A workflow and the two tasks of its chain. *)

Processing == {"process"} \X Chains

\* The rows and the list of the tasks that have one agree.
RowsListed ==
  /\ row \in [Tasks -> RowStatus]
  /\ created \in Seq(Tasks)
  /\ \A t \in Tasks : row[t] = "none" <=> \A i \in DOMAIN created : created[i] # t
  /\ \A i, j \in DOMAIN created : created[i] = created[j] => i = j

\* The types of the other variables.
RestTyped ==
  /\ asset \in AssetStatus
  /\ linked \subseteq Children
  /\ named \in [Workflows -> Chains \cup {0}]
  /\ job \in [Tasks -> JobStatus]
  /\ at \in [Tasks -> Stage]
  /\ mine \subseteq Tasks
  /\ held \subseteq Children
  /\ chainOf \in [Chains -> Workflows \cup {NoWorkflow}]
  /\ tries \in [Workflows -> 0..MaxRetries]
  /\ route \in [Workflows -> {"unused", "queued", "recorded"}]
  /\ overlapped \in BOOLEAN
  /\ events \in 0..MaxEvents

\* A task runs from its check to its end; its row is there once it has recorded it.
Runs ==
  /\ \A t \in Tasks : at[t] # "idle" <=> job[t] = "running"
  /\ \A t \in Tasks : at[t] \notin {"idle", "skip", "go"} => row[t] # "none"
  /\ \A w \in Workflows : at[w] \in {"idle", "skip", "go", "recorded", "dispatched", "tracked"}
  /\ \A t \in Children : at[t] \notin {"dispatched", "tracked"}
  /\ \A w \in Workflows : route[w] = "unused" => job[w] = "none"
  /\ \A w \in Workflows : at[w] \in {"dispatched", "tracked"} => \E c \in Chains : chainOf[c] = w

\* The second task of a chain follows the first one's success.
InOrder ==
  \A c \in Chains :
    /\ chainOf[c] = NoWorkflow => job[Process(c)] = "none"
    /\ job[Index(c)] # "none" => job[Process(c)] = "SUCCESS"
    /\ row[Index(c)] = "SUCCESS" => job[Index(c)] # "none"

\* Something says that the document was processed.
Vouches(t) ==
  \/ job[t] = "SUCCESS"
  \/ at[t] \in {"skip", "kept", "over"}
  \/ row[t] = "SUCCESS" /\ at[t] # "good"

Claims(w) == row[w] = "SUCCESS" \/ at[w] = "skip"

Evidence == (\E t \in Processing : Vouches(t)) \/ (\E w \in Workflows : Claims(w))

\* A task has processed the document and may still take it back.
MayUndo(t) == at[t] \in {"worked", "good"}

Processed == asset \in {"completed", "deleted"}

Truth ==
  overlapped \/
    /\ Evidence => Processed
    /\ \A t \in Processing : MayUndo(t) => Processed /\ ~Evidence
    /\ \A s, t \in Processing : at[s] # "idle" /\ at[t] # "idle" => s = t

TasksInv == RowsListed /\ RestTyped /\ Runs /\ InOrder /\ Truth

-----------------------------------------------------------------------------
LEMMA ChildOfChain ==
  ASSUME NEW c \in Chains
  PROVE  /\ Process(c) \in Processing /\ Process(c) \in Children /\ Process(c) \in Tasks
         /\ Index(c) \in Children /\ Index(c) \in Tasks /\ Index(c) \notin Processing
         /\ Process(c)[1] = "process" /\ Process(c)[2] = c
         /\ Index(c)[1] = "index" /\ Index(c)[2] = c
         /\ Process(c) \notin Workflows /\ Index(c) \notin Workflows
BY DEF Process, Index, Processing, Children, Tasks, Workflows

LEMMA ChainOfChild ==
  ASSUME NEW t \in Children
  PROVE  /\ t \in Tasks /\ t \notin Workflows /\ t[2] \in Chains
         /\ t \in Processing <=> t[1] = "process"
         /\ t[1] = "process" => t = Process(t[2])
         /\ t[1] # "process" => t = Index(t[2]) /\ t[1] = "index"
BY DEF Process, Index, Processing, Children, Tasks, Workflows

LEMMA KindsOfTask ==
  /\ Processing \subseteq Children
  /\ \A w \in Workflows : w \in Tasks /\ w \notin Children /\ w \notin Processing /\ w[1] # "process"
  /\ \A t \in Tasks : t \in Workflows \/ t \in Children
  /\ NoWorkflow \notin Tasks /\ NoWorkflow \notin Workflows
  /\ \A b, c : (Process(b) = Process(c) => b = c) /\ (Index(b) = Index(c) => b = c)
  /\ \A b, c : Process(b) # Index(c)
BY DEF Process, Index, Processing, Children, Tasks, Workflows, NoWorkflow

LEMMA RowInserted ==
  ASSUME RowsListed, NEW t \in Tasks, NEW s \in RowStatus, s # "none", row[t] = "none", Insert(t, s)
  PROVE  RowsListed' /\ row' = [row EXCEPT ![t] = s]
<1> DEFINE N == Len(created)
<1>1. row' = [row EXCEPT ![t] = s] /\ created' = Append(created, t)
  BY DEF Insert
<1>2. N \in Nat /\ DOMAIN created = 1..N /\ created \in Seq(Tasks)
  BY DEF RowsListed
<1>3. /\ created' \in Seq(Tasks)
      /\ DOMAIN created' = 1..(N + 1)
      /\ \A i \in 1..N : created'[i] = created[i]
      /\ created'[N + 1] = t
  BY <1>1, <1>2
<1>4. \A i \in 1..(N + 1) : i \in 1..N \/ i = N + 1
  BY <1>2
<1>5. \A i \in 1..N : i \in 1..(N + 1) /\ i # N + 1
  BY <1>2
<1>6. N + 1 \in 1..(N + 1)
  BY <1>2
<1> HIDE DEF N
<1>7. \A i \in 1..N : created[i] # t
  BY <1>2 DEF RowsListed
<1>8. \A u \in Tasks : row'[u] = "none" <=> \A i \in DOMAIN created' : created'[i] # u
  <2> SUFFICES ASSUME NEW u \in Tasks PROVE row'[u] = "none" <=> \A i \in DOMAIN created' : created'[i] # u
    OBVIOUS
  <2>1. CASE u = t
    BY <2>1, <1>1, <1>3, <1>6 DEF RowsListed
  <2>2. CASE u # t
    BY <2>2, <1>1, <1>2, <1>3, <1>4, <1>5 DEF RowsListed
  <2> QED BY <2>1, <2>2
<1>9. \A i, j \in DOMAIN created' : created'[i] = created'[j] => i = j
  BY <1>2, <1>3, <1>4, <1>7 DEF RowsListed
<1> QED BY <1>1, <1>3, <1>8, <1>9 DEF RowsListed

LEMMA RowsWritten ==
  ASSUME RowsListed, UNCHANGED created, row' \in [Tasks -> RowStatus],
         \A t \in Tasks : row'[t] = "none" <=> row[t] = "none"
  PROVE  RowsListed'
BY DEF RowsListed

LEMMA RowWritten ==
  ASSUME RowsListed, UNCHANGED created, NEW t \in Tasks, row[t] # "none",
         NEW s \in RowStatus, s # "none", row' = [row EXCEPT ![t] = s]
  PROVE  RowsListed'
<1>1. row' \in [Tasks -> RowStatus] /\ \A u \in Tasks : row'[u] = "none" <=> row[u] = "none"
  BY DEF RowsListed
<1> QED BY <1>1, RowsWritten

LEMMA RowsSame ==
  ASSUME RowsListed, UNCHANGED <<row, created>>
  PROVE  RowsListed'
BY DEF RowsListed

LEMMA SpendTyped ==
  ASSUME events \in 0..MaxEvents, Spend
  PROVE  events' \in 0..MaxEvents
BY WorkflowConstants DEF Spend

LEMMA TruthKept ==
  ASSUME Truth,
         overlapped => overlapped',
         Processed => Processed',
         \A t \in Processing : /\ Vouches(t)' => Evidence
                               /\ MayUndo(t)' => MayUndo(t)
                               /\ at'[t] # "idle" => at[t] # "idle",
         \A w \in Workflows : Claims(w)' => Evidence
  PROVE  Truth'
<1>1. Evidence' => Evidence
  BY DEF Evidence
<1> QED BY <1>1 DEF Truth

-----------------------------------------------------------------------------
\* A step that leaves the children, the rows, `at` and the document alone.
LEMMA DispatchStep ==
  ASSUME TasksInv, NEW w \in Workflows, Dispatch(w)
  PROVE  TasksInv'
<1>1. RowsListed'
  BY RowsSame DEF TasksInv, Dispatch
<1>2. RestTyped'
  BY SpendTyped, KindsOfTask DEF TasksInv, RestTyped, Dispatch, JobStatus
<1>3. job' = [job EXCEPT ![w] = "queued"] /\ job[w] = "none" /\ UNCHANGED <<asset, row, at, chainOf, overlapped>>
  BY DEF TasksInv, Runs, Dispatch
<1>4. Runs'
  BY <1>3, KindsOfTask DEF TasksInv, RestTyped, Runs, Dispatch
<1>5. InOrder'
  BY <1>3, KindsOfTask, ChildOfChain DEF TasksInv, InOrder, RestTyped
<1>6. Truth'
  BY <1>3, TruthKept, KindsOfTask DEF TasksInv, RestTyped, Processed, Vouches, Claims, MayUndo, Evidence
<1> QED BY <1>1, <1>2, <1>4, <1>5, <1>6 DEF TasksInv

LEMMA RecordOwnerStep ==
  ASSUME TasksInv, NEW w \in Workflows, RecordOwner(w)
  PROVE  TasksInv'
<1>1. /\ route' = [route EXCEPT ![w] = "recorded"]
      /\ UNCHANGED <<asset, linked, named, job, at, mine, held, chainOf, tries, overlapped, events>>
  BY DEF RecordOwner
<1>2. RowsListed' /\ (row' = row \/ row' = [row EXCEPT ![w] = "open"])
  <2>1. CASE row[w] = "none"
    BY <2>1, RowInserted, KindsOfTask DEF TasksInv, RecordOwner, RowStatus
  <2>2. CASE row[w] # "none" /\ row' = row
    BY <2>2, RowsSame DEF TasksInv, RecordOwner
  <2>3. CASE row[w] # "none" /\ row' = [row EXCEPT ![w] = "open"]
    BY <2>3, RowWritten, KindsOfTask DEF TasksInv, RecordOwner, RowStatus
  <2> QED BY <2>1, <2>2, <2>3 DEF RecordOwner
<1>3. RestTyped'
  BY <1>1 DEF TasksInv, RestTyped
<1>4. Runs'
  BY <1>1, <1>2, KindsOfTask DEF TasksInv, RestTyped, RowsListed, Runs
<1>5. InOrder'
  BY <1>1, <1>2, KindsOfTask, ChildOfChain DEF TasksInv, InOrder, RowsListed
<1>6. Truth'
  <2>0. \A t \in Tasks : row'[t] = "SUCCESS" => row[t] = "SUCCESS"
    <3>1. row' = row \/ row' = [row EXCEPT ![w] = "open"]
      BY <1>2
    <3>2. row \in [Tasks -> RowStatus]
      BY DEF TasksInv, RowsListed
    <3> QED BY <3>1, <3>2
  <2>1. \A t \in Processing : /\ Vouches(t)' => Vouches(t)
                              /\ MayUndo(t)' => MayUndo(t)
                              /\ at'[t] # "idle" => at[t] # "idle"
    BY <1>1, <2>0, KindsOfTask, ChainOfChild DEF Vouches, MayUndo
  <2>2. \A v \in Workflows : Claims(v)' => Claims(v)
    BY <1>1, <2>0, KindsOfTask DEF Claims
  <2> QED BY <1>1, <2>1, <2>2, TruthKept DEF TasksInv, Processed, Evidence
<1> QED BY <1>2, <1>3, <1>4, <1>5, <1>6 DEF TasksInv

LEMMA RequestDiesStep ==
  ASSUME TasksInv, NEW w \in Workflows, RequestDies(w)
  PROVE  TasksInv'
<1>1. /\ route' = [route EXCEPT ![w] = "recorded"]
      /\ UNCHANGED <<asset, row, created, linked, named, job, at, mine, held, chainOf, tries, overlapped>>
  BY DEF RequestDies
<1>2. RowsListed'
  BY <1>1, RowsSame DEF TasksInv
<1>3. RestTyped'
  BY <1>1, SpendTyped DEF TasksInv, RestTyped, RequestDies
<1>4. Runs'
  BY <1>1 DEF TasksInv, RestTyped, Runs
<1>5. InOrder'
  BY <1>1 DEF TasksInv, InOrder
<1>6. Truth'
  BY <1>1, TruthKept DEF TasksInv, Processed, Vouches, Claims, MayUndo, Evidence
<1> QED BY <1>2, <1>3, <1>4, <1>5, <1>6 DEF TasksInv

LEMMA DeleteStep ==
  ASSUME TasksInv, Delete
  PROVE  TasksInv'
<1>1. /\ asset' = "deleted"
      /\ UNCHANGED <<row, created, linked, named, job, at, mine, held, chainOf, tries, route, overlapped>>
  BY DEF Delete
<1>2. RowsListed'
  BY <1>1, RowsSame DEF TasksInv
<1>3. RestTyped'
  BY <1>1, SpendTyped DEF TasksInv, RestTyped, Delete, AssetStatus
<1>4. Runs'
  BY <1>1 DEF TasksInv, Runs
<1>5. InOrder'
  BY <1>1 DEF TasksInv, InOrder
<1>6. Truth'
  BY <1>1, TruthKept DEF TasksInv, Processed, Vouches, Claims, MayUndo, Evidence
<1> QED BY <1>2, <1>3, <1>4, <1>5, <1>6 DEF TasksInv

LEMMA PollChildStep ==
  ASSUME TasksInv, NEW t \in Children, PollChild(t)
  PROVE  TasksInv'
<1>1. /\ row[t] = "open" /\ job[t] \in {"SUCCESS", "FAILURE"}
      /\ row' = [row EXCEPT ![t] = job[t]]
      /\ UNCHANGED <<asset, created, linked, named, job, at, mine, held, chainOf, tries, route, overlapped>>
  BY DEF PollChild, Ended
<1>2. RowsListed'
  BY <1>1, RowWritten, ChainOfChild DEF TasksInv, RowStatus
<1>3. RestTyped'
  BY <1>1, SpendTyped DEF TasksInv, RestTyped, PollChild
<1>4. Runs'
  BY <1>1, ChainOfChild DEF TasksInv, RowsListed, Runs
<1>5. InOrder'
  BY <1>1, ChildOfChain DEF TasksInv, RowsListed, InOrder
<1>6. Truth'
  BY <1>1, TruthKept, ChainOfChild, KindsOfTask
     DEF TasksInv, RowsListed, Processed, Vouches, Claims, MayUndo, Evidence
<1> QED BY <1>2, <1>3, <1>4, <1>5, <1>6 DEF TasksInv

\* What a reconciled row may say.
LEMMA ReconciledTyped ==
  ASSUME NEW w \in Workflows, NEW r, NEW x, r[w] = x, x \in RowStatus
  PROVE  /\ Reconciled(w, r) \in RowStatus
         /\ Reconciled(w, r) = "none" <=> x = "none"
         /\ Reconciled(w, r) = "SUCCESS" /\ x # "SUCCESS" =>
              /\ named[w] # 0
              /\ r[Process(named[w])] = "SUCCESS"
              /\ r[Index(named[w])] = "SUCCESS"
<1>1. CASE named[w] = 0 \/ r[w] = "none"
  BY <1>1 DEF Reconciled
<1>2. CASE ~(named[w] = 0 \/ r[w] = "none")
  BY <1>2 DEF Reconciled, RowStatus
<1> QED BY <1>1, <1>2

LEMMA PollStep ==
  ASSUME TasksInv, NEW w \in Workflows, Poll(w)
  PROVE  TasksInv'
<1> DEFINE s == Reconciled(w, row)
<1>1. /\ row[w] # "none" /\ row' = [row EXCEPT ![w] = s]
      /\ UNCHANGED <<asset, created, linked, named, job, at, mine, held, chainOf, tries, route, overlapped, events>>
  BY DEF Poll
<1>2. /\ s \in RowStatus /\ s # "none"
      /\ (s = "SUCCESS" /\ row[w] # "SUCCESS") =>
           named[w] # 0 /\ row[Process(named[w])] = "SUCCESS" /\ row[Index(named[w])] = "SUCCESS"
  BY <1>1, ReconciledTyped, KindsOfTask DEF TasksInv, RowsListed
<1> HIDE DEF s
<1>3. (s = "SUCCESS" /\ row[w] # "SUCCESS") => \E t \in Processing : Vouches(t)
  <2> SUFFICES ASSUME s = "SUCCESS", row[w] # "SUCCESS" PROVE \E t \in Processing : Vouches(t)
    OBVIOUS
  <2>1. named[w] \in Chains
    BY <1>2 DEF TasksInv, RestTyped
  <2>2. job[Process(named[w])] = "SUCCESS"
    BY <1>2, <2>1 DEF TasksInv, InOrder
  <2> QED BY <2>1, <2>2, ChildOfChain DEF Vouches
<1>4. RowsListed'
  BY <1>1, <1>2, RowWritten, KindsOfTask DEF TasksInv
<1>5. RestTyped'
  BY <1>1 DEF TasksInv, RestTyped
<1>6. Runs'
  BY <1>1, <1>2, KindsOfTask DEF TasksInv, RowsListed, Runs
<1>7. InOrder'
  BY <1>1, KindsOfTask, ChildOfChain DEF TasksInv, RowsListed, InOrder
<1>8. Truth'
  <2>1. \A t \in Processing : /\ Vouches(t)' => Vouches(t)
                              /\ MayUndo(t)' => MayUndo(t)
                              /\ at'[t] # "idle" => at[t] # "idle"
    BY <1>1, KindsOfTask DEF TasksInv, RowsListed, Vouches, MayUndo
  <2>2. \A v \in Workflows : Claims(v)' => Evidence
    BY <1>1, <1>3, KindsOfTask DEF TasksInv, RowsListed, Claims, Evidence
  <2> QED BY <1>1, <2>1, <2>2, TruthKept DEF TasksInv, Processed, Evidence
<1> QED BY <1>4, <1>5, <1>6, <1>7, <1>8 DEF TasksInv

-----------------------------------------------------------------------------
LEMMA Greatest ==
  ASSUME NEW N \in Nat, NEW S, S \subseteq 0..N, S # {}
  PROVE  \E x \in S : \A y \in S : x >= y
<1> DEFINE T == {N - i : i \in S}
<1>1. T \subseteq Nat /\ T # {}
  <2>1. \A i \in S : N - i \in Nat
    OBVIOUS
  <2> QED BY <2>1
<1> HIDE DEF T
<1>2. PICK m \in T : \A y \in T : m <= y
  BY <1>1, Least
<1>3. PICK x \in S : m = N - x
  BY DEF T
<1>4. \A y \in S : N - x <= N - y
  BY <1>2, <1>3 DEF T
<1> QED BY <1>3, <1>4

\* get_existing_task finds the row of another task with the same arguments, if any.
LEMMA ExistingIsARow ==
  ASSUME RowsListed, NEW t \in Tasks, Existing(t) # "none"
  PROVE  \E u \in Tasks : u # t /\ SameArgs(u, t) /\ row[u] = Existing(t)
<1> DEFINE others == {i \in DOMAIN created : created[i] # t /\ SameArgs(created[i], t)}
<1>1. others # {} /\ Existing(t) = row[created[Max(others)]]
  BY DEF Existing
<1>2. PICK N \in Nat : DOMAIN created = 1..N
  BY DEF RowsListed
<1>3. others \subseteq 0..N
  BY <1>2
<1>4. \A i \in others : created[i] # t /\ SameArgs(created[i], t) /\ created[i] \in Tasks
  BY DEF RowsListed
<1> HIDE DEF others
<1>5. \E x \in others : \A y \in others : x >= y
  BY <1>1, <1>3, Greatest
<1>6. Max(others) \in others
  BY <1>5 DEF Max
<1> QED BY <1>1, <1>4, <1>6

LEMMA TruthHeld ==
  ASSUME Truth,
         overlapped => overlapped',
         Processed => Processed',
         ~overlapped' =>
           /\ Evidence' => Evidence
           /\ \A t \in Processing : MayUndo(t)' => MayUndo(t)
           /\ \A s, t \in Processing : at'[s] # "idle" /\ at'[t] # "idle" => s = t
  PROVE  Truth'
BY DEF Truth

-----------------------------------------------------------------------------
\* Task t goes on to x, and its job to y.
Moves(t, x, y) ==
  /\ at' = [at EXCEPT ![t] = x]
  /\ job' = [job EXCEPT ![t] = y]
  /\ x \in Stage
  /\ y \in JobStatus \ {"none"}
  /\ x # "idle" <=> y = "running"
  /\ job[t] \in {"queued", "running"}
  /\ UNCHANGED <<chainOf, route>>

\* No row vanishes, and x is a stage that t may be in.
MayBe(t, x) ==
  /\ \A u \in Tasks : row[u] # "none" => row'[u] # "none"
  /\ x \notin {"idle", "skip", "go"} => row'[t] # "none"
  /\ t \in Workflows => x \in {"idle", "skip", "go", "recorded", "dispatched", "tracked"}
  /\ x \in {"dispatched", "tracked"} => t \notin Children /\ \E c \in Chains : chainOf[c] = t

LEMMA RunsMoved ==
  ASSUME RestTyped, Runs, NEW t \in Tasks, NEW x, NEW y, Moves(t, x, y), MayBe(t, x)
  PROVE  Runs'
<1>1. /\ \A u \in Tasks : at'[u] = IF u = t THEN x ELSE at[u]
      /\ \A u \in Tasks : job'[u] = IF u = t THEN y ELSE job[u]
  BY DEF RestTyped, Moves
<1>2. \A u \in Tasks : at'[u] # "idle" <=> job'[u] = "running"
  BY <1>1 DEF Runs, Moves
<1>3. \A u \in Tasks : at'[u] \notin {"idle", "skip", "go"} => row'[u] # "none"
  BY <1>1 DEF Runs, MayBe
<1>4. \A w \in Workflows : at'[w] \in {"idle", "skip", "go", "recorded", "dispatched", "tracked"}
  BY <1>1, KindsOfTask DEF Runs, MayBe
<1>5. \A u \in Children : at'[u] \notin {"dispatched", "tracked"}
  BY <1>1, ChainOfChild DEF Runs, MayBe
<1>6. \A w \in Workflows : route'[w] = "unused" => job'[w] = "none"
  BY <1>1, KindsOfTask DEF Runs, Moves
<1>7. \A w \in Workflows : at'[w] \in {"dispatched", "tracked"} => \E c \in Chains : chainOf'[c] = w
  BY <1>1, KindsOfTask DEF Runs, MayBe, Moves
<1> QED BY <1>2, <1>3, <1>4, <1>5, <1>6, <1>7 DEF Runs

LEMMA InOrderMoved ==
  ASSUME RestTyped, InOrder, NEW t \in Tasks, NEW x, NEW y, Moves(t, x, y),
         \A c \in Chains : row'[Index(c)] = "SUCCESS" => row[Index(c)] = "SUCCESS" \/ Index(c) = t
  PROVE  InOrder'
<1> SUFFICES ASSUME NEW c \in Chains
             PROVE  /\ chainOf'[c] = NoWorkflow => job'[Process(c)] = "none"
                    /\ job'[Index(c)] # "none" => job'[Process(c)] = "SUCCESS"
                    /\ row'[Index(c)] = "SUCCESS" => job'[Index(c)] # "none"
  BY DEF InOrder
<1>1. \A u \in Tasks : job'[u] = IF u = t THEN y ELSE job[u]
  BY DEF RestTyped, Moves
<1> QED BY <1>1, ChildOfChain, KindsOfTask DEF InOrder, Moves

LEMMA InOrderKept ==
  ASSUME InOrder, UNCHANGED <<job, chainOf>>,
         \A c \in Chains : row'[Index(c)] = "SUCCESS" => row[Index(c)] = "SUCCESS" \/ job[Index(c)] # "none"
  PROVE  InOrder'
BY DEF InOrder

\* An exception ends the task's run, and a workflow may be queued again.
LEMMA RaiseDoes ==
  ASSUME RestTyped, NEW t \in Tasks, Raise(t)
  PROVE  /\ at' = [at EXCEPT ![t] = "idle"]
         /\ \/ job' = [job EXCEPT ![t] = "FAILURE"]
            \/ t \in Workflows /\ job' = [job EXCEPT ![t] = "queued"]
         /\ mine' \subseteq mine /\ held' \subseteq held
         /\ tries' \in [Workflows -> 0..MaxRetries]
<1>1. CASE t \in Workflows /\ tries[t] < MaxRetries
  <2>1. End(t, "queued") /\ tries' = [tries EXCEPT ![t] = @ + 1]
    BY <1>1 DEF Raise
  <2>2. tries[t] + 1 \in 0..MaxRetries
    BY <1>1, WorkflowConstants DEF RestTyped
  <2>3. tries' \in [Workflows -> 0..MaxRetries]
    BY <2>1, <2>2, <1>1 DEF RestTyped
  <2> QED BY <1>1, <2>1, <2>3 DEF End
<1>2. CASE ~(t \in Workflows /\ tries[t] < MaxRetries)
  BY <1>2 DEF Raise, End, RestTyped
<1> QED BY <1>1, <1>2

-----------------------------------------------------------------------------
LEMMA TruthStopped ==
  ASSUME RowsListed, RestTyped, Truth, NEW t \in Tasks, NEW y, Moves(t, "idle", y), y # "SUCCESS",
         UNCHANGED <<asset, overlapped>>,
         \A u \in Tasks : row'[u] = "SUCCESS" => row[u] = "SUCCESS"
  PROVE  Truth'
<1>1. /\ \A u \in Tasks : at'[u] = IF u = t THEN "idle" ELSE at[u]
      /\ \A u \in Tasks : job'[u] = IF u = t THEN y ELSE job[u]
  BY DEF RestTyped, Moves
<1>2. /\ \A u \in Processing : MayUndo(u)' => MayUndo(u) /\ u # t
      /\ \A u \in Processing : at'[u] # "idle" => at[u] # "idle"
  BY <1>1, KindsOfTask, ChainOfChild DEF MayUndo
<1>3. CASE t \in Processing /\ MayUndo(t) /\ ~overlapped
  <2>1. Processed /\ Processed'
    BY <1>3 DEF Truth, Processed
  <2>2. \A u \in Processing : ~MayUndo(u)'
    BY <1>2, <1>3 DEF Truth, MayUndo
  <2> QED BY <1>2, <2>1, <2>2 DEF Truth
<1>4. CASE ~(t \in Processing /\ MayUndo(t))
  <2>1. \A u \in Processing : Vouches(u)' => Vouches(u)
    BY <1>1, <1>4, KindsOfTask, ChainOfChild DEF Vouches, MayUndo
  <2>2. \A w \in Workflows : Claims(w)' => Claims(w)
    BY <1>1, KindsOfTask DEF Claims
  <2> QED BY <1>2, <2>1, <2>2, TruthKept DEF Evidence, Processed
<1> QED BY <1>3, <1>4 DEF Truth

\* A task that ends without a success, its row left as it is.
LEMMA StoppedStep ==
  ASSUME TasksInv, NEW t \in Tasks, NEW y, Moves(t, "idle", y), y # "SUCCESS",
         UNCHANGED <<asset, row, created, overlapped>>, RestTyped'
  PROVE  TasksInv'
<1>1. RowsListed'
  BY RowsSame DEF TasksInv
<1>2. MayBe(t, "idle")
  BY DEF MayBe
<1>3. Runs'
  BY <1>2, RunsMoved DEF TasksInv
<1>4. InOrder'
  BY InOrderMoved DEF TasksInv
<1>5. Truth'
  BY TruthStopped DEF TasksInv
<1> QED BY <1>1, <1>3, <1>4, <1>5 DEF TasksInv

LEMMA RaiseStep ==
  ASSUME TasksInv, NEW t \in Tasks, job[t] \in {"queued", "running"}, Raise(t),
         UNCHANGED <<asset, row, created, linked, named, chainOf, route, overlapped, events>>
  PROVE  TasksInv'
<1>1. PICK y \in {"queued", "FAILURE"} : Moves(t, "idle", y)
  BY RaiseDoes DEF TasksInv, Moves, Stage, JobStatus
<1>2. RestTyped'
  <2>1. job' \in [Tasks -> JobStatus] /\ at' \in [Tasks -> Stage]
    BY <1>1 DEF TasksInv, RestTyped, Moves
  <2>2. mine' \subseteq mine /\ held' \subseteq held /\ tries' \in [Workflows -> 0..MaxRetries]
    BY RaiseDoes DEF TasksInv
  <2> QED BY <2>1, <2>2 DEF TasksInv, RestTyped
<1> QED BY <1>1, <1>2, StoppedStep

LEMMA EndStep ==
  ASSUME TasksInv, NEW t \in Tasks, NEW y \in {"queued", "FAILURE"}, at[t] # "idle", End(t, y), Spend,
         UNCHANGED <<asset, row, created, linked, named, chainOf, tries, route, overlapped>>
  PROVE  TasksInv'
<1>1. Moves(t, "idle", y)
  BY DEF TasksInv, Runs, Moves, End, Stage, JobStatus
<1>2. RestTyped'
  <2>1. job' \in [Tasks -> JobStatus] /\ at' \in [Tasks -> Stage]
    BY <1>1 DEF TasksInv, RestTyped, Moves
  <2>2. mine' \subseteq mine /\ held' \subseteq held
    BY DEF End
  <2> QED BY <2>1, <2>2, SpendTyped DEF TasksInv, RestTyped
<1> QED BY <1>1, <1>2, StoppedStep

LEMMA CrashStep ==
  ASSUME TasksInv, NEW t \in Tasks, Crash(t)
  PROVE  TasksInv'
BY EndStep DEF Crash

LEMMA AbortStep ==
  ASSUME TasksInv, NEW t \in Tasks, Abort(t)
  PROVE  TasksInv'
BY EndStep DEF Abort

LEMMA InsertFailsStep ==
  ASSUME TasksInv, NEW t \in Tasks, InsertFails(t)
  PROVE  TasksInv'
<1>1. job[t] \in {"queued", "running"}
  BY DEF TasksInv, Runs, InsertFails
<1> QED BY <1>1, RaiseStep DEF InsertFails

LEMMA CheckStep ==
  ASSUME TasksInv, NEW t \in Tasks, Check(t)
  PROVE  TasksInv'
<1>1. CASE Verdict(t) = "raise"
  BY <1>1, RaiseStep DEF Check
<1>2. CASE Verdict(t) # "raise"
  <2> DEFINE x == Verdict(t)
  <2>1. x \in {"skip", "go"} /\ (x = "skip" => Existing(t) = "SUCCESS")
    BY <1>2 DEF Verdict
  <2>2. /\ job[t] = "queued"
        /\ job' = [job EXCEPT ![t] = "running"]
        /\ at' = [at EXCEPT ![t] = x]
        /\ overlapped' = (overlapped \/ /\ t[1] = "process"
                                        /\ \E c \in Chains \ {t[2]} : at[Process(c)] # "idle")
        /\ UNCHANGED <<asset, row, created, linked, named, chainOf, tries, route, events>>
    BY <1>2 DEF Check
  <2>3. mine' \subseteq mine \cup {t} /\ held' \subseteq held \cup linked
    BY <1>2 DEF Check
  <2> HIDE DEF x
  <2>4. Moves(t, x, "running") /\ MayBe(t, x) /\ at[t] = "idle"
    BY <2>1, <2>2 DEF TasksInv, Runs, Moves, MayBe, Stage, JobStatus
  <2>5. RowsListed'
    BY <2>2, RowsSame DEF TasksInv
  <2>6. RestTyped'
    <3>1. job' \in [Tasks -> JobStatus] /\ at' \in [Tasks -> Stage]
      BY <2>4 DEF TasksInv, RestTyped, Moves
    <3>2. overlapped' \in BOOLEAN
      BY <2>2
    <3> QED BY <2>2, <2>3, <3>1, <3>2 DEF TasksInv, RestTyped
  <2>7. Runs'
    BY <2>4, RunsMoved DEF TasksInv
  <2>8. InOrder'
    BY <2>2, <2>4, InOrderMoved DEF TasksInv
  <2>9. Truth'
    <3> SUFFICES ASSUME ~overlapped'
                 PROVE  /\ Evidence' => Evidence
                        /\ \A u \in Processing : MayUndo(u)' => MayUndo(u)
                        /\ \A s, u \in Processing : at'[s] # "idle" /\ at'[u] # "idle" => s = u
      BY <2>2, TruthHeld DEF TasksInv, Processed
    <3>1. /\ \A u \in Tasks : at'[u] = IF u = t THEN x ELSE at[u]
          /\ \A u \in Tasks : job'[u] = IF u = t THEN "running" ELSE job[u]
      BY <2>2 DEF TasksInv, RestTyped
    <3>2. t \in Processing => \A u \in Processing : u # t => at[u] = "idle"
      <4> SUFFICES ASSUME t \in Processing, NEW u \in Processing, u # t PROVE at[u] = "idle"
        OBVIOUS
      <4>1. u = Process(u[2]) /\ t = Process(t[2]) /\ t[1] = "process" /\ u[2] \in Chains
        BY KindsOfTask, ChainOfChild
      <4> QED BY <2>2, <4>1
    <3>3. t[1] = "process" <=> t \in Processing
      BY KindsOfTask, ChainOfChild
    <3>4. (x = "skip" /\ t \in Processing \cup Workflows) => Evidence
      <4> SUFFICES ASSUME x = "skip", t \in Processing \cup Workflows PROVE Evidence
        OBVIOUS
      <4>1. PICK u \in Tasks : u # t /\ u[1] = t[1] /\ row[u] = "SUCCESS"
        BY <2>1, ExistingIsARow DEF TasksInv, SameArgs
      <4>2. CASE t \in Processing
        <5>1. u \in Processing
          BY <4>1, <4>2, <3>3, KindsOfTask, ChainOfChild
        <5> QED BY <3>2, <4>1, <4>2, <5>1 DEF Evidence, Vouches
      <4>3. CASE t \in Workflows
        <5>1. u \in Workflows
          BY <4>1, <4>3 DEF Tasks, Workflows, Children
        <5> QED BY <4>1, <5>1 DEF Evidence, Claims
      <4> QED BY <4>2, <4>3
    <3>5. \A u \in Processing : Vouches(u)' => Evidence
      <4> SUFFICES ASSUME NEW u \in Processing, Vouches(u)' PROVE Evidence
        OBVIOUS
      <4>1. u \in Tasks
        BY KindsOfTask, ChainOfChild
      <4>2. u = t /\ x = "skip" => Evidence
        BY <3>4
      <4>3. Vouches(u) \/ (u = t /\ x = "skip")
        BY <2>1, <2>2, <2>4, <3>1, <4>1 DEF Vouches
      <4> QED BY <4>2, <4>3 DEF Evidence
    <3>6. \A w \in Workflows : Claims(w)' => Evidence
      BY <2>2, <3>1, <3>4, KindsOfTask DEF Claims, Evidence
    <3>7. \A u \in Processing : MayUndo(u)' => MayUndo(u)
      BY <2>1, <3>1, KindsOfTask, ChainOfChild DEF MayUndo
    <3>8. ASSUME NEW s \in Processing, NEW u \in Processing, at'[s] # "idle", at'[u] # "idle" PROVE s = u
      <4>1. s \in Tasks /\ u \in Tasks
        BY KindsOfTask, ChainOfChild
      <4>2. ~overlapped
        BY <2>2
      <4> QED BY <3>1, <3>2, <3>8, <4>1, <4>2 DEF TasksInv, Truth
    <3> QED BY <3>5, <3>6, <3>7, <3>8 DEF Evidence
  <2> QED BY <2>5, <2>6, <2>7, <2>8, <2>9 DEF TasksInv
<1> QED BY <1>1, <1>2

-----------------------------------------------------------------------------
\* The rest of the types, when a task moves.
LEMMA RestMoved ==
  ASSUME RestTyped, NEW t \in Tasks, NEW x, NEW y, Moves(t, x, y),
         asset' \in AssetStatus, linked' \subseteq Children, named' \in [Workflows -> Chains \cup {0}],
         mine' \subseteq Tasks, held' \subseteq Children,
         tries' \in [Workflows -> 0..MaxRetries], events' \in 0..MaxEvents, UNCHANGED overlapped
  PROVE  RestTyped'
BY DEF RestTyped, Moves

LEMMA RecordStep ==
  ASSUME TasksInv, NEW t \in Tasks, Record(t)
  PROVE  TasksInv'
<1> DEFINE s == IF at[t] = "skip" THEN "SUCCESS" ELSE "open"
           next == CASE at[t] = "go" -> "recorded"
                     [] at[t] = "skip" /\ t \in Children -> "over"
                     [] OTHER -> "idle"
           y == IF next = "idle" THEN "SUCCESS" ELSE "running"
<1>1. /\ at[t] \in {"skip", "go"}
      /\ IF row[t] = "none" THEN Insert(t, s) ELSE row' = [row EXCEPT ![t] = s] /\ UNCHANGED created
      /\ UNCHANGED <<asset, linked, named, chainOf, tries, route, overlapped, events>>
      /\ next = "idle" => End(t, "SUCCESS")
      /\ next # "idle" =>
           /\ at' = [at EXCEPT ![t] = next]
           /\ held' = IF t \in mine THEN held ELSE held \cup ({t} \cap linked)
           /\ UNCHANGED <<job, mine>>
  BY DEF Record
<1>2. /\ at[t] = "skip" => s = "SUCCESS" /\ next = (IF t \in Children THEN "over" ELSE "idle")
      /\ at[t] = "go" => s = "open" /\ next = "recorded"
      /\ s \in RowStatus /\ s # "none"
      /\ next \in {"recorded", "over", "idle"}
  BY <1>1, KindsOfTask DEF RowStatus
<1>3. y = IF next = "idle" THEN "SUCCESS" ELSE "running"
  OBVIOUS
<1> HIDE DEF s, next, y
<1>4. RowsListed' /\ row' = [row EXCEPT ![t] = s]
  <2>1. CASE row[t] = "none"
    BY <1>1, <1>2, <2>1, RowInserted DEF TasksInv
  <2>2. CASE row[t] # "none"
    BY <1>1, <1>2, <2>2, RowWritten DEF TasksInv
  <2> QED BY <2>1, <2>2
<1>5. Moves(t, next, y)
  <2>1. job[t] = "running"
    BY <1>1 DEF TasksInv, Runs
  <2>2. CASE next = "idle"
    BY <1>1, <1>3, <2>1, <2>2 DEF Moves, End, Stage, JobStatus
  <2>3. CASE next # "idle"
    <3>1. job' = [job EXCEPT ![t] = y]
      BY <1>1, <1>3, <2>1, <2>3 DEF TasksInv, RestTyped
    <3> QED BY <1>1, <1>2, <1>3, <2>1, <2>3, <3>1 DEF Moves, Stage, JobStatus
  <2> QED BY <2>2, <2>3
<1>6. /\ \A u \in Tasks : row'[u] = IF u = t THEN s ELSE row[u]
      /\ \A u \in Tasks : at'[u] = IF u = t THEN next ELSE at[u]
      /\ \A u \in Tasks : job'[u] = IF u = t THEN y ELSE job[u]
  BY <1>4, <1>5 DEF TasksInv, RowsListed, RestTyped, Moves
<1>7. RestTyped'
  <2>1. mine' \subseteq mine /\ held' \subseteq held \cup linked
    <3>1. CASE next = "idle"
      BY <1>1, <3>1 DEF End
    <3>2. CASE next # "idle"
      BY <1>1, <3>2
    <3> QED BY <3>1, <3>2
  <2>2. /\ asset' \in AssetStatus /\ linked' \subseteq Children /\ named' \in [Workflows -> Chains \cup {0}]
        /\ mine' \subseteq Tasks /\ held' \subseteq Children
        /\ tries' \in [Workflows -> 0..MaxRetries] /\ events' \in 0..MaxEvents
    BY <1>1, <2>1 DEF TasksInv, RestTyped
  <2> QED BY <1>1, <1>5, <2>2, RestMoved DEF TasksInv
<1>8. Runs'
  <2>1. MayBe(t, next)
    BY <1>1, <1>2, <1>6, KindsOfTask DEF MayBe
  <2> QED BY <1>5, <2>1, RunsMoved DEF TasksInv
<1>9. InOrder'
  <2>1. \A c \in Chains : row'[Index(c)] = "SUCCESS" => row[Index(c)] = "SUCCESS" \/ Index(c) = t
    BY <1>6, ChildOfChain
  <2> QED BY <1>5, <2>1, InOrderMoved DEF TasksInv
<1>10. Truth'
  <2>1. ASSUME NEW u \in Processing
        PROVE  /\ Vouches(u)' => Vouches(u)
               /\ MayUndo(u)' => MayUndo(u)
               /\ at'[u] # "idle" => at[u] # "idle"
    <3>1. u \in Tasks /\ u \in Children
      BY KindsOfTask, ChainOfChild
    <3>2. CASE u = t
      BY <1>1, <1>2, <1>3, <1>6, <3>1, <3>2 DEF Vouches, MayUndo
    <3>3. CASE u # t
      BY <1>6, <3>1, <3>3 DEF Vouches, MayUndo
    <3> QED BY <3>2, <3>3
  <2>2. \A w \in Workflows : Claims(w)' => Claims(w)
    BY <1>1, <1>2, <1>6, KindsOfTask DEF Claims
  <2> QED BY <1>1, <2>1, <2>2, TruthKept DEF TasksInv, Evidence, Processed
<1> QED BY <1>4, <1>7, <1>8, <1>9, <1>10 DEF TasksInv

-----------------------------------------------------------------------------
\* A step of a workflow after which no more rows say SUCCESS than before.
LEMMA TruthOfWorkflow ==
  ASSUME RestTyped, Truth, NEW w \in Workflows, NEW x, x # "skip", at' = [at EXCEPT ![w] = x],
         UNCHANGED <<asset, overlapped>>,
         \A u \in Tasks : row'[u] = "SUCCESS" => row[u] = "SUCCESS",
         \A u \in Processing : job'[u] = "SUCCESS" => job[u] = "SUCCESS"
  PROVE  Truth'
<1>1. \A u \in Tasks : at'[u] = IF u = w THEN x ELSE at[u]
  BY DEF RestTyped
<1>2. \A u \in Processing : u \in Tasks /\ u # w
  BY KindsOfTask, ChainOfChild
<1>3. \A u \in Processing : /\ Vouches(u)' => Vouches(u)
                            /\ MayUndo(u)' => MayUndo(u)
                            /\ at'[u] # "idle" => at[u] # "idle"
  BY <1>1, <1>2 DEF Vouches, MayUndo
<1>4. \A v \in Workflows : Claims(v)' => Claims(v)
  BY <1>1, KindsOfTask DEF Claims
<1> QED BY <1>3, <1>4, TruthKept DEF Evidence, Processed

LEMMA ChainStep ==
  ASSUME TasksInv, NEW w \in Workflows, Chain(w)
  PROVE  TasksInv'
<1>1. PICK c \in Chains : /\ chainOf[c] = NoWorkflow
                          /\ chainOf' = [chainOf EXCEPT ![c] = w]
                          /\ job' = [job EXCEPT ![Process(c)] = "queued"]
  BY DEF Chain
<1>2. /\ at[w] = "recorded" /\ at' = [at EXCEPT ![w] = "dispatched"]
      /\ UNCHANGED <<asset, row, created, linked, named, mine, held, tries, route, overlapped, events>>
  BY DEF Chain
<1> DEFINE p == Process(c)
<1>3. p \in Tasks /\ p \in Children /\ p \in Processing /\ p # w /\ p \notin Workflows
  BY ChildOfChain
<1>4. job[p] = "none" /\ at[p] = "idle" /\ job[w] = "running"
  BY <1>1, <1>2, <1>3, KindsOfTask DEF TasksInv, InOrder, Runs
<1>5. /\ \A b \in Chains : chainOf'[b] = IF b = c THEN w ELSE chainOf[b]
      /\ \A u \in Tasks : job'[u] = IF u = p THEN "queued" ELSE job[u]
      /\ \A u \in Tasks : at'[u] = IF u = w THEN "dispatched" ELSE at[u]
  BY <1>1, <1>2 DEF TasksInv, RestTyped
<1>6. \A b \in Chains : Process(b) = p <=> b = c
  BY KindsOfTask
<1> HIDE DEF p
<1>7. RowsListed'
  BY <1>2, RowsSame DEF TasksInv
<1>8. RestTyped'
  <2>1. job' \in [Tasks -> JobStatus] /\ at' \in [Tasks -> Stage]
    BY <1>1, <1>2 DEF TasksInv, RestTyped, JobStatus, Stage
  <2>2. chainOf' \in [Chains -> Workflows \cup {NoWorkflow}]
    BY <1>1 DEF TasksInv, RestTyped
  <2> QED BY <1>2, <2>1, <2>2 DEF TasksInv, RestTyped
<1>9. Runs'
  <2>1. \A u \in Tasks : at'[u] # "idle" <=> job'[u] = "running"
    BY <1>2, <1>3, <1>4, <1>5 DEF TasksInv, Runs
  <2>2. \A u \in Tasks : at'[u] \notin {"idle", "skip", "go"} => row'[u] # "none"
    BY <1>2, <1>5 DEF TasksInv, Runs
  <2>3. \A v \in Workflows : at'[v] \in {"idle", "skip", "go", "recorded", "dispatched", "tracked"}
    BY <1>5, KindsOfTask DEF TasksInv, Runs
  <2>4. \A u \in Children : at'[u] \notin {"dispatched", "tracked"}
    BY <1>5, KindsOfTask, ChainOfChild DEF TasksInv, Runs
  <2>5. \A v \in Workflows : route'[v] = "unused" => job'[v] = "none"
    BY <1>2, <1>3, <1>5, KindsOfTask DEF TasksInv, Runs
  <2>6. ASSUME NEW v \in Workflows, at'[v] \in {"dispatched", "tracked"}
        PROVE  \E b \in Chains : chainOf'[b] = v
    <3>1. CASE v = w
      BY <1>5, <3>1
    <3>2. CASE v # w
      <4>1. PICK b \in Chains : chainOf[b] = v
        BY <1>5, <2>6, <3>2, KindsOfTask DEF TasksInv, Runs
      <4>2. b # c
        BY <1>1, <4>1, KindsOfTask
      <4> QED BY <1>5, <4>1, <4>2
    <3> QED BY <3>1, <3>2
  <2> QED BY <2>1, <2>2, <2>3, <2>4, <2>5, <2>6 DEF Runs
<1>10. InOrder'
  <2> SUFFICES ASSUME NEW b \in Chains
               PROVE  /\ chainOf'[b] = NoWorkflow => job'[Process(b)] = "none"
                      /\ job'[Index(b)] # "none" => job'[Process(b)] = "SUCCESS"
                      /\ row'[Index(b)] = "SUCCESS" => job'[Index(b)] # "none"
    BY DEF InOrder
  <2>1. Process(b) \in Tasks /\ Index(b) \in Tasks /\ Index(b) # p
    BY <1>3, ChildOfChain
  <2>2. job'[Index(b)] = job[Index(b)]
    BY <1>5, <2>1
  <2>3. w # NoWorkflow
    BY KindsOfTask
  <2>4. CASE b = c
    <3>1. Process(b) = p
      BY <1>6, <2>4
    <3> QED BY <1>2, <1>4, <1>5, <2>1, <2>2, <2>3, <2>4, <3>1 DEF TasksInv, InOrder
  <2>5. CASE b # c
    BY <1>2, <1>5, <1>6, <2>1, <2>2, <2>5 DEF TasksInv, InOrder
  <2> QED BY <2>4, <2>5
<1>11. Truth'
  <2>1. \A u \in Processing : job'[u] = "SUCCESS" => job[u] = "SUCCESS"
    BY <1>5, KindsOfTask, ChainOfChild
  <2> QED BY <1>2, <2>1, TruthOfWorkflow DEF TasksInv
<1> QED BY <1>7, <1>8, <1>9, <1>10, <1>11 DEF TasksInv

\* A workflow that queued a chain knows the last one it queued.
LEMMA LatestIsAChain ==
  ASSUME RestTyped, Runs, NEW w \in Workflows, at[w] \in {"dispatched", "tracked"}
  PROVE  Latest(w) \in Chains
<1> DEFINE S == {c \in Chains : chainOf[c] = w}
<1>1. S # {} /\ S \subseteq 0..MaxChains
  BY DEF Runs, Chains
<1>2. \A c \in S : c \in Chains /\ chainOf[c] = w
  OBVIOUS
<1>3. \A c \in Chains : chainOf[c] = w => c \in S
  OBVIOUS
<1> HIDE DEF S
<1>4. PICK c \in S : \A b \in S : c >= b
  BY <1>1, Greatest, WorkflowConstants
<1>5. \A b \in (c + 1)..MaxChains : chainOf[b] # w
  <2> SUFFICES ASSUME NEW b \in (c + 1)..MaxChains, chainOf[b] = w PROVE FALSE
    OBVIOUS
  <2>1. c \in Nat /\ c >= 1
    BY <1>2, <1>4 DEF Chains
  <2>2. b \in Chains /\ ~(c >= b)
    BY <2>1, WorkflowConstants DEF Chains
  <2> QED BY <1>3, <1>4, <2>2
<1> QED BY <1>2, <1>4, <1>5 DEF Latest

LEMMA TrackDoes ==
  ASSUME RowsListed, NEW w \in Workflows, NEW t \in Children, Track(w, t)
  PROVE  /\ RowsListed'
         /\ linked' = linked \cup {t}
         /\ \A u \in Tasks : row'[u] = "SUCCESS" => row[u] = "SUCCESS"
         /\ \A u \in Tasks : row[u] # "none" => row'[u] # "none"
<1>1. t \in Tasks
  BY ChainOfChild
<1>2. RowsListed' /\ (row' = row \/ row' = [row EXCEPT ![t] = "open"])
  <2>1. CASE row[t] = "none"
    BY <1>1, <2>1, RowInserted DEF Track, RowStatus
  <2>2. CASE row[t] # "none" /\ row' = row
    BY <2>2, RowsSame DEF Track
  <2>3. CASE row[t] # "none" /\ row' = [row EXCEPT ![t] = "open"]
    BY <1>1, <2>3, RowWritten DEF Track, RowStatus
  <2> QED BY <2>1, <2>2, <2>3 DEF Track
<1>3. row \in [Tasks -> RowStatus]
  BY DEF RowsListed
<1>4. row' = row \/ row' = [row EXCEPT ![t] = "open"]
  BY <1>2
<1>5. \A u \in Tasks : (row'[u] = "SUCCESS" => row[u] = "SUCCESS") /\ (row[u] # "none" => row'[u] # "none")
  BY <1>3, <1>4
<1> QED BY <1>2, <1>5 DEF Track

LEMMA TrackProcessStep ==
  ASSUME TasksInv, NEW w \in Workflows, TrackProcess(w)
  PROVE  TasksInv'
<1> DEFINE t == Process(Latest(w))
<1>1. /\ at[w] = "dispatched" /\ Track(w, t) /\ at' = [at EXCEPT ![w] = "tracked"]
      /\ UNCHANGED <<asset, named, job, mine, held, chainOf, tries, route, overlapped, events>>
  BY DEF TrackProcess
<1>2. t \in Children
  BY <1>1, LatestIsAChain, ChildOfChain DEF TasksInv
<1> HIDE DEF t
<1>3. /\ RowsListed'
      /\ linked' = linked \cup {t}
      /\ \A u \in Tasks : row'[u] = "SUCCESS" => row[u] = "SUCCESS"
      /\ \A u \in Tasks : row[u] # "none" => row'[u] # "none"
  BY <1>1, <1>2, TrackDoes DEF TasksInv
<1>4. w \in Tasks /\ w \notin Children
  BY KindsOfTask
<1>5. Moves(w, "tracked", "running")
  <2>1. job[w] = "running"
    BY <1>1, <1>4 DEF TasksInv, Runs
  <2>2. job' = [job EXCEPT ![w] = "running"]
    BY <1>1, <2>1, <1>4 DEF TasksInv, RestTyped
  <2> QED BY <1>1, <2>1, <2>2 DEF Moves, Stage, JobStatus
<1>6. MayBe(w, "tracked")
  BY <1>1, <1>3, <1>4 DEF TasksInv, Runs, MayBe
<1>7. RestTyped'
  BY <1>1, <1>2, <1>3, <1>4, <1>5, RestMoved DEF TasksInv, RestTyped
<1>8. Runs'
  BY <1>4, <1>5, <1>6, RunsMoved DEF TasksInv
<1>9. InOrder'
  BY <1>3, <1>4, <1>5, InOrderMoved, ChildOfChain DEF TasksInv
<1>10. Truth'
  BY <1>1, <1>3, TruthOfWorkflow DEF TasksInv
<1> QED BY <1>3, <1>7, <1>8, <1>9, <1>10 DEF TasksInv

LEMMA TrackIndexStep ==
  ASSUME TasksInv, NEW w \in Workflows, TrackIndex(w)
  PROVE  TasksInv'
<1> DEFINE t == Index(Latest(w))
<1>1. /\ at[w] = "tracked" /\ Track(w, t)
      /\ UNCHANGED <<asset, named, job, at, mine, held, chainOf, tries, route, overlapped, events>>
  BY DEF TrackIndex
<1>2. t \in Children
  BY <1>1, LatestIsAChain, ChildOfChain DEF TasksInv
<1> HIDE DEF t
<1>3. /\ RowsListed'
      /\ linked' = linked \cup {t}
      /\ \A u \in Tasks : row'[u] = "SUCCESS" => row[u] = "SUCCESS"
      /\ \A u \in Tasks : row[u] # "none" => row'[u] # "none"
  BY <1>1, <1>2, TrackDoes DEF TasksInv
<1>4. RestTyped'
  BY <1>1, <1>2, <1>3 DEF TasksInv, RestTyped
<1>5. Runs'
  BY <1>1, <1>3, KindsOfTask DEF TasksInv, Runs
<1>6. InOrder'
  BY <1>1, <1>3, InOrderKept, ChildOfChain DEF TasksInv
<1>7. Truth'
  <2>1. w \in Tasks /\ at' = [at EXCEPT ![w] = "tracked"]
    BY <1>1, KindsOfTask DEF TasksInv, RestTyped
  <2> QED BY <1>1, <1>3, <2>1, TruthOfWorkflow DEF TasksInv
<1> QED BY <1>3, <1>4, <1>5, <1>6, <1>7 DEF TasksInv

LEMMA AnnounceStep ==
  ASSUME TasksInv, NEW w \in Workflows, Announce(w)
  PROVE  TasksInv'
<1>1. /\ at[w] = "tracked" /\ row' = [row EXCEPT ![w] = "open"]
      /\ named' = [named EXCEPT ![w] = Latest(w)]
      /\ End(w, "SUCCESS")
      /\ UNCHANGED <<asset, created, linked, chainOf, tries, route, overlapped, events>>
  BY DEF Announce
<1>2. w \in Tasks /\ w \notin Children /\ row[w] # "none" /\ job[w] = "running" /\ Latest(w) \in Chains
  BY <1>1, KindsOfTask, LatestIsAChain DEF TasksInv, Runs
<1>3. Moves(w, "idle", "SUCCESS")
  BY <1>1, <1>2 DEF Moves, End, Stage, JobStatus
<1>4. RowsListed'
  BY <1>1, <1>2, RowWritten DEF TasksInv, RowStatus
<1>5. \A u \in Tasks : row'[u] = IF u = w THEN "open" ELSE row[u]
  BY <1>1 DEF TasksInv, RowsListed
<1>6. RestTyped'
  <2>1. named' \in [Workflows -> Chains \cup {0}] /\ mine' \subseteq mine /\ held' \subseteq held
    BY <1>1, <1>2 DEF TasksInv, RestTyped, End
  <2> QED BY <1>1, <1>2, <1>3, <2>1, RestMoved DEF TasksInv, RestTyped
<1>7. Runs'
  BY <1>2, <1>3, <1>5, RunsMoved DEF TasksInv, MayBe
<1>8. InOrder'
  BY <1>2, <1>3, <1>5, InOrderMoved, ChildOfChain DEF TasksInv
<1>9. Truth'
  <2>1. \A u \in Processing : job'[u] = job[u]
    BY <1>3, KindsOfTask, ChainOfChild DEF Moves, TasksInv, RestTyped
  <2>2. at' = [at EXCEPT ![w] = "idle"]
    BY <1>3 DEF Moves
  <2>3. \A u \in Tasks : row'[u] = "SUCCESS" => row[u] = "SUCCESS"
    BY <1>5
  <2>4. UNCHANGED <<asset, overlapped>>
    BY <1>1
  <2> QED BY <2>1, <2>2, <2>3, <2>4, TruthOfWorkflow DEF TasksInv
<1> QED BY <1>4, <1>6, <1>7, <1>8, <1>9 DEF TasksInv

LEMMA WorkflowFailsStep ==
  ASSUME TasksInv, NEW w \in Workflows, WorkflowFails(w)
  PROVE  TasksInv'
<1>1. /\ at[w] \in {"recorded", "dispatched", "tracked"} /\ row' = [row EXCEPT ![w] = "FAILURE"]
      /\ named' = [named EXCEPT ![w] = 0]
      /\ Raise(w) /\ Spend
      /\ UNCHANGED <<asset, created, linked, chainOf, route, overlapped>>
  BY DEF WorkflowFails
<1>2. w \in Tasks /\ w \notin Children /\ row[w] # "none" /\ job[w] = "running"
  BY <1>1, KindsOfTask DEF TasksInv, Runs
<1>3. PICK y \in {"queued", "FAILURE"} : Moves(w, "idle", y)
  BY <1>1, <1>2, RaiseDoes DEF TasksInv, Moves, Stage, JobStatus
<1>4. RowsListed'
  BY <1>1, <1>2, RowWritten DEF TasksInv, RowStatus
<1>5. \A u \in Tasks : row'[u] = IF u = w THEN "FAILURE" ELSE row[u]
  BY <1>1 DEF TasksInv, RowsListed
<1>6. RestTyped'
  <2>1. mine' \subseteq mine /\ held' \subseteq held /\ tries' \in [Workflows -> 0..MaxRetries]
    BY <1>1, <1>2, RaiseDoes DEF TasksInv
  <2>2. named' \in [Workflows -> Chains \cup {0}]
    BY <1>1 DEF TasksInv, RestTyped
  <2> QED BY <1>1, <1>2, <1>3, <2>1, <2>2, RestMoved, SpendTyped DEF TasksInv, RestTyped
<1>7. Runs'
  BY <1>2, <1>3, <1>5, RunsMoved DEF TasksInv, MayBe
<1>8. InOrder'
  BY <1>2, <1>3, <1>5, InOrderMoved, ChildOfChain DEF TasksInv
<1>9. Truth'
  BY <1>1, <1>2, <1>3, <1>5, TruthStopped DEF TasksInv
<1> QED BY <1>4, <1>6, <1>7, <1>8, <1>9 DEF TasksInv

-----------------------------------------------------------------------------
\* A child that goes on running.
GoesOn(t, x) ==
  /\ at[t] # "idle"
  /\ x \in Stage \ {"idle", "dispatched", "tracked"}
  /\ at' = [at EXCEPT ![t] = x]
  /\ UNCHANGED <<job, chainOf, route>>

LEMMA GoesOnDoes ==
  ASSUME TasksInv, NEW t \in Children, NEW x, GoesOn(t, x)
  PROVE  /\ Moves(t, x, "running")
         /\ t \in Tasks /\ t \notin Workflows
         /\ job[t] = "running"
         /\ \A u \in Tasks : at'[u] = IF u = t THEN x ELSE at[u]
<1>1. t \in Tasks /\ t \notin Workflows
  BY ChainOfChild
<1>2. job[t] = "running"
  BY <1>1 DEF GoesOn, TasksInv, Runs
<1>3. job' = [job EXCEPT ![t] = "running"]
  BY <1>1, <1>2 DEF GoesOn, TasksInv, RestTyped
<1>4. Moves(t, x, "running")
  BY <1>2, <1>3 DEF GoesOn, Moves, JobStatus
<1>5. \A u \in Tasks : at'[u] = IF u = t THEN x ELSE at[u]
  BY DEF GoesOn, TasksInv, RestTyped
<1> QED BY <1>1, <1>2, <1>4, <1>5

\* A child's step: its types, its stage and its order hold on whatever it finds.
LEMMA ChildGoesOn ==
  ASSUME TasksInv, NEW t \in Children, NEW x, GoesOn(t, x), RowsListed',
         \A u \in Tasks : row[u] # "none" => row'[u] # "none",
         row[t] # "none",
         \A c \in Chains : row'[Index(c)] = "SUCCESS" => row[Index(c)] = "SUCCESS" \/ Index(c) = t,
         asset' \in AssetStatus, linked' \subseteq Children, events' \in 0..MaxEvents,
         UNCHANGED <<named, mine, held, tries, overlapped>>,
         Truth'
  PROVE  TasksInv'
<1>1. Moves(t, x, "running") /\ t \in Tasks /\ t \notin Workflows
  BY GoesOnDoes
<1>2. RestTyped'
  <2>1. /\ named' \in [Workflows -> Chains \cup {0}] /\ mine' \subseteq Tasks /\ held' \subseteq Children
        /\ tries' \in [Workflows -> 0..MaxRetries]
    BY DEF TasksInv, RestTyped
  <2> QED BY <1>1, <2>1, RestMoved DEF TasksInv
<1>3. MayBe(t, x)
  BY <1>1 DEF MayBe, GoesOn
<1>4. Runs'
  BY <1>1, <1>3, RunsMoved DEF TasksInv
<1>5. InOrder'
  BY <1>1, InOrderMoved DEF TasksInv
<1> QED BY <1>2, <1>4, <1>5 DEF TasksInv

\* The truth is kept by a child that does not succeed.
LEMMA TruthOfChild ==
  ASSUME TasksInv, NEW t \in Children, NEW x, GoesOn(t, x), x \in {"loaded", "spoilt", "bad"},
         UNCHANGED overlapped, Processed => Processed',
         \A u \in Tasks : row'[u] = "SUCCESS" => row[u] = "SUCCESS",
         row'[t] = "SUCCESS" => at[t] # "good"
  PROVE  Truth'
<1>1. /\ t \in Tasks /\ t \notin Workflows /\ at[t] # "idle"
      /\ \A u \in Tasks : at'[u] = IF u = t THEN x ELSE at[u]
  BY GoesOnDoes DEF GoesOn
<1>2. UNCHANGED job
  BY DEF GoesOn
<1>3. \A u \in Processing : /\ Vouches(u)' => Vouches(u)
                            /\ MayUndo(u)' => MayUndo(u)
                            /\ at'[u] # "idle" => at[u] # "idle"
  BY <1>1, <1>2, KindsOfTask, ChainOfChild DEF Vouches, MayUndo
<1>4. \A w \in Workflows : Claims(w)' => Claims(w)
  BY <1>1, KindsOfTask DEF Claims
<1> QED BY <1>3, <1>4, TruthKept DEF TasksInv, Evidence

LEMMA LoadStep ==
  ASSUME TasksInv, NEW t \in Children, Load(t)
  PROVE  TasksInv'
<1>1. /\ GoesOn(t, "loaded") /\ at[t] = "recorded" /\ linked' \subseteq linked \cup {t}
      /\ UNCHANGED <<asset, row, created, named, mine, held, tries, overlapped, events>>
  BY DEF Load, GoesOn, Stage
<1>2. row[t] # "none"
  BY <1>1, ChainOfChild DEF TasksInv, Runs
<1>3. RowsListed'
  BY <1>1, RowsSame DEF TasksInv
<1>4. Truth'
  <2>1. Processed => Processed'
    BY <1>1 DEF Processed
  <2> QED BY <1>1, <2>1, TruthOfChild
<1>5. asset' \in AssetStatus /\ linked' \subseteq Children /\ events' \in 0..MaxEvents
  BY <1>1 DEF TasksInv, RestTyped
<1> QED BY <1>1, <1>2, <1>3, <1>4, <1>5, ChildGoesOn

LEMMA FindNothingStep ==
  ASSUME TasksInv, NEW t \in Children, FindNothing(t)
  PROVE  TasksInv'
<1>1. /\ GoesOn(t, "spoilt") /\ at[t] = "recorded"
      /\ UNCHANGED <<asset, row, created, linked, named, mine, held, tries, overlapped, events>>
  BY DEF FindNothing, GoesOn, Stage
<1>2. row[t] # "none"
  BY <1>1, ChainOfChild DEF TasksInv, Runs
<1>3. RowsListed'
  BY <1>1, RowsSame DEF TasksInv
<1>4. Truth'
  <2>1. Processed => Processed'
    BY <1>1 DEF Processed
  <2> QED BY <1>1, <2>1, TruthOfChild
<1>5. asset' \in AssetStatus /\ linked' \subseteq Children /\ events' \in 0..MaxEvents
  BY <1>1 DEF TasksInv, RestTyped
<1> QED BY <1>1, <1>2, <1>3, <1>4, <1>5, ChildGoesOn

LEMMA SpoilStep ==
  ASSUME TasksInv, NEW t \in Children, Spoil(t)
  PROVE  TasksInv'
<1>1. /\ GoesOn(t, "spoilt") /\ at[t] = "loaded"
      /\ UNCHANGED <<row, created, linked, named, mine, held, tries, overlapped, events>>
  BY DEF Spoil, GoesOn, Stage
<1>2. row[t] # "none"
  BY <1>1, ChainOfChild DEF TasksInv, Runs
<1>3. RowsListed'
  BY <1>1, RowsSame DEF TasksInv
<1>4. Truth'
  <2>1. Processed => Processed'
    BY DEF Processed, Spoil
  <2> QED BY <1>1, <2>1, TruthOfChild
<1>5. asset' \in AssetStatus /\ linked' \subseteq Children /\ events' \in 0..MaxEvents
  BY <1>1 DEF TasksInv, RestTyped, Spoil, AssetStatus
<1> QED BY <1>1, <1>2, <1>3, <1>4, <1>5, ChildGoesOn

LEMMA FinishStep ==
  ASSUME TasksInv, NEW t \in Children, Finish(t)
  PROVE  TasksInv'
<1> DEFINE x == IF t[1] = "process" /\ asset = "completed" THEN "kept" ELSE "worked"
<1>1. /\ at[t] = "loaded" /\ at' = [at EXCEPT ![t] = x]
      /\ t[1] = "process" => asset # "deleted"
      /\ asset' = IF t[1] = "process" THEN "completed" ELSE asset
      /\ UNCHANGED <<row, created, linked, named, job, mine, held, chainOf, tries, route, overlapped, events>>
  BY DEF Finish
<1>2. /\ x \in {"kept", "worked"}
      /\ t \in Processing /\ asset = "completed" => x = "kept"
      /\ t \in Processing /\ asset # "completed" => x = "worked"
  BY ChainOfChild
<1> HIDE DEF x
<1>3. GoesOn(t, x)
  BY <1>1, <1>2 DEF GoesOn, Stage
<1>4. row[t] # "none"
  BY <1>1, ChainOfChild DEF TasksInv, Runs
<1>5. RowsListed'
  BY <1>1, RowsSame DEF TasksInv
<1>6. asset' \in AssetStatus /\ linked' \subseteq Children /\ events' \in 0..MaxEvents
  BY <1>1 DEF TasksInv, RestTyped, AssetStatus
<1>7. /\ t \in Tasks /\ t \notin Workflows
      /\ \A u \in Tasks : at'[u] = IF u = t THEN x ELSE at[u]
  BY <1>3, GoesOnDoes
<1>8. Truth'
  <2>1. \A u \in Processing : u \in Tasks
    BY KindsOfTask, ChainOfChild
  <2>2. \A w \in Workflows : Claims(w)' => Claims(w)
    BY <1>1, <1>7, KindsOfTask DEF Claims
  <2>3. \A u \in Processing : at'[u] # "idle" => at[u] # "idle"
    BY <1>1, <1>7, <2>1
  <2>4. Processed => Processed'
    BY <1>1 DEF Processed
  <2>5. \A u \in Processing : u # t => (Vouches(u)' => Vouches(u)) /\ (MayUndo(u)' => MayUndo(u))
    BY <1>1, <1>7, <2>1 DEF Vouches, MayUndo
  <2>6. CASE t \notin Processing
    BY <1>1, <2>2, <2>3, <2>4, <2>5, <2>6, TruthKept DEF TasksInv, Evidence
  <2>7. CASE t \in Processing /\ ~overlapped
    <3>1. asset' = "completed" /\ Processed' /\ overlapped' = overlapped
      BY <1>1, <2>7, ChainOfChild DEF Processed
    <3>2. \A u \in Processing : u # t => at[u] = "idle"
      BY <1>1, <2>7 DEF TasksInv, Truth
    <3>3. \A u \in Processing : u # t => ~MayUndo(u)'
      BY <2>5, <3>2 DEF MayUndo
    <3>4. CASE asset = "completed"
      <4>1. ~MayUndo(t)'
        BY <1>2, <1>7, <2>7, <3>4 DEF MayUndo
      <4> QED BY <2>3, <2>7, <3>1, <3>3, <4>1 DEF TasksInv, Truth
    <3>5. CASE asset # "completed"
      <4>1. ~Evidence
        BY <1>1, <2>7, <3>5, ChainOfChild DEF TasksInv, Truth, Processed
      <4>2. ~Vouches(t)'
        BY <1>1, <1>2, <1>7, <2>7, <3>5, <4>1 DEF Vouches, Evidence
      <4>3. ~Evidence'
        BY <2>2, <2>5, <4>1, <4>2 DEF Evidence
      <4> QED BY <2>3, <2>7, <3>1, <4>3 DEF TasksInv, Truth
    <3> QED BY <3>4, <3>5
  <2> QED BY <1>1, <2>6, <2>7 DEF Truth
<1> QED BY <1>1, <1>3, <1>4, <1>5, <1>6, <1>8, ChildGoesOn

LEMMA ConcludeStep ==
  ASSUME TasksInv, NEW t \in Children, Conclude(t)
  PROVE  TasksInv'
<1> DEFINE s == IF at[t] = "spoilt" THEN "FAILURE" ELSE "SUCCESS"
           x == CASE at[t] = "worked" -> "good" [] at[t] = "kept" -> "over" [] OTHER -> "bad"
<1>1. /\ at[t] \in {"worked", "kept", "spoilt"}
      /\ row' = [row EXCEPT ![t] = s]
      /\ UNCHANGED <<asset, created, linked, named, job, mine, held, chainOf, tries, route, overlapped, events>>
  BY DEF Conclude
<1>2. at' = [at EXCEPT ![t] = x]
  <2>1. at \in [Tasks -> Stage] /\ t \in Tasks
    BY ChainOfChild DEF TasksInv, RestTyped
  <2> QED BY <2>1 DEF Conclude
<1>3. /\ at[t] = "worked" => x = "good" /\ s = "SUCCESS"
      /\ at[t] = "kept" => x = "over" /\ s = "SUCCESS"
      /\ at[t] = "spoilt" => x = "bad" /\ s = "FAILURE"
      /\ x \in Stage \ {"idle", "dispatched", "tracked"} /\ s \in RowStatus /\ s # "none"
  BY <1>1 DEF Stage, RowStatus
<1> HIDE DEF s, x
<1>4. GoesOn(t, x)
  BY <1>1, <1>2, <1>3 DEF GoesOn
<1>5. /\ t \in Tasks /\ t \notin Workflows /\ job[t] = "running"
      /\ \A u \in Tasks : at'[u] = IF u = t THEN x ELSE at[u]
  BY <1>4, GoesOnDoes
<1>6. row[t] # "none"
  BY <1>1, <1>5 DEF TasksInv, Runs
<1>7. RowsListed'
  BY <1>1, <1>3, <1>5, <1>6, RowWritten DEF TasksInv
<1>8. \A u \in Tasks : row'[u] = IF u = t THEN s ELSE row[u]
  BY <1>1 DEF TasksInv, RowsListed
<1>9. asset' \in AssetStatus /\ linked' \subseteq Children /\ events' \in 0..MaxEvents
  BY <1>1 DEF TasksInv, RestTyped
<1>10. Truth'
  <2>1. ASSUME NEW u \in Processing
        PROVE  /\ Vouches(u)' => Vouches(u)
               /\ MayUndo(u)' => MayUndo(u)
               /\ at'[u] # "idle" => at[u] # "idle"
    <3>1. u \in Tasks
      BY KindsOfTask, ChainOfChild
    <3>2. CASE u = t
      BY <1>1, <1>3, <1>5, <1>8, <3>1, <3>2 DEF Vouches, MayUndo
    <3>3. CASE u # t
      BY <1>1, <1>5, <1>8, <3>1, <3>3 DEF Vouches, MayUndo
    <3> QED BY <3>2, <3>3
  <2>2. \A w \in Workflows : Claims(w)' => Claims(w)
    BY <1>5, <1>8, KindsOfTask DEF Claims
  <2>3. Processed => Processed'
    BY <1>1 DEF Processed
  <2> QED BY <1>1, <2>1, <2>2, <2>3, TruthKept DEF TasksInv, Evidence
<1>11. \A c \in Chains : row'[Index(c)] = "SUCCESS" => row[Index(c)] = "SUCCESS" \/ Index(c) = t
  BY <1>8, ChildOfChain
<1>12. \A u \in Tasks : row[u] # "none" => row'[u] # "none"
  BY <1>3, <1>8
<1> QED BY <1>1, <1>4, <1>6, <1>7, <1>9, <1>10, <1>11, <1>12, ChildGoesOn

LEMMA ReconcileFailsStep ==
  ASSUME TasksInv, NEW t \in Children, ReconcileFails(t)
  PROVE  TasksInv'
<1>1. /\ at[t] = "good" /\ row[t] # "none" /\ row' = [row EXCEPT ![t] = "FAILURE"]
      /\ asset' = IF t[1] = "process" /\ asset # "deleted" THEN "failed" ELSE asset
      /\ Spend
      /\ UNCHANGED <<created, linked, named, mine, held, tries, overlapped>>
  BY DEF ReconcileFails
<1>2. GoesOn(t, "bad")
  BY DEF ReconcileFails, GoesOn, Stage
<1>3. /\ t \in Tasks /\ t \notin Workflows /\ job[t] = "running"
      /\ \A u \in Tasks : at'[u] = IF u = t THEN "bad" ELSE at[u]
  BY <1>2, GoesOnDoes
<1>4. RowsListed'
  BY <1>1, <1>3, RowWritten DEF TasksInv, RowStatus
<1>5. \A u \in Tasks : row'[u] = IF u = t THEN "FAILURE" ELSE row[u]
  BY <1>1 DEF TasksInv, RowsListed
<1>6. asset' \in AssetStatus /\ linked' \subseteq Children /\ events' \in 0..MaxEvents
  BY <1>1, SpendTyped DEF TasksInv, RestTyped, AssetStatus
<1>7. Truth'
  <2>1. CASE t \notin Processing
    <3>1. Processed => Processed'
      BY <1>1, <2>1, ChainOfChild DEF Processed
    <3> QED BY <1>1, <1>2, <1>3, <1>5, <3>1, TruthOfChild
  <2>2. CASE t \in Processing /\ ~overlapped
    <3>1. ~Evidence /\ Processed /\ \A u \in Processing : u # t => at[u] = "idle"
      BY <1>1, <2>2 DEF TasksInv, Truth, MayUndo
    <3>2. UNCHANGED job
      BY <1>2 DEF GoesOn
    <3>3. \A u \in Processing : u \in Tasks
      BY KindsOfTask, ChainOfChild
    <3>4. \A u \in Processing : ~Vouches(u)' /\ ~MayUndo(u)' /\ (at'[u] # "idle" => u = t)
      BY <1>3, <1>5, <3>1, <3>2, <3>3 DEF Vouches, MayUndo, Evidence
    <3>5. \A w \in Workflows : ~Claims(w)'
      BY <1>3, <1>5, <3>1, KindsOfTask DEF Claims, Evidence
    <3>6. ~Evidence'
      BY <3>4, <3>5 DEF Evidence
    <3> QED BY <3>4, <3>6 DEF Truth
  <2>3. CASE overlapped
    BY <1>1, <2>3 DEF Truth
  <2> QED BY <2>1, <2>2, <2>3
<1>8. \A c \in Chains : row'[Index(c)] = "SUCCESS" => row[Index(c)] = "SUCCESS" \/ Index(c) = t
  BY <1>5, ChildOfChain
<1>9. \A u \in Tasks : row[u] # "none" => row'[u] # "none"
  BY <1>5
<1> QED BY <1>1, <1>2, <1>4, <1>6, <1>7, <1>8, <1>9, ChildGoesOn

-----------------------------------------------------------------------------
\* A child that ends, and what becomes of its chain and of its workflow.
LEMMA FinallyStep ==
  ASSUME TasksInv, NEW t \in Children, Finally(t)
  PROVE  TasksInv'
<1> DEFINE c == t[2]
           result == IF at[t] = "bad" THEN "FAILURE" ELSE "SUCCESS"
           w == chainOf[c]
           r == [row EXCEPT ![t] = result]
           s == Reconciled(w, r)
           y == IF t[1] = "process" /\ result = "SUCCESS" THEN "queued"
                ELSE IF t[1] = "index" THEN result ELSE job[Index(c)]
<1>1. /\ at[t] \in {"good", "bad", "over"}
      /\ row' = IF t \in held THEN [row EXCEPT ![w] = s] ELSE row
      /\ at' = [at EXCEPT ![t] = "idle"]
      /\ mine' = mine \ {t} /\ held' = held \ {t}
      /\ UNCHANGED <<asset, created, linked, named, chainOf, tries, route, overlapped, events>>
  BY DEF Finally
<1>2. c \in Chains /\ t \in Tasks /\ t \notin Workflows /\ job[t] = "running"
  BY <1>1, ChainOfChild DEF TasksInv, Runs
<1>3. /\ Process(c) \in Tasks /\ Index(c) \in Tasks /\ Process(c) # Index(c)
      /\ t[1] = "process" => t = Process(c)
      /\ t[1] # "process" => t = Index(c) /\ t[1] = "index"
      /\ t \in Processing <=> t[1] = "process"
  BY <1>2, ChildOfChain, ChainOfChild, KindsOfTask
<1>4. w \in Workflows /\ w \in Tasks
  <2>1. w # NoWorkflow
    BY <1>2, <1>3 DEF TasksInv, InOrder
  <2> QED BY <1>2, <2>1, KindsOfTask DEF TasksInv, RestTyped
<1>5. result \in {"SUCCESS", "FAILURE"} /\ (result = "SUCCESS" <=> at[t] # "bad")
  OBVIOUS
<1>6. \A u \in Tasks : r[u] = IF u = t THEN result ELSE row[u]
  BY DEF TasksInv, RowsListed
<1>7. \A u \in Tasks : job'[u] = IF u = t THEN result ELSE IF u = Index(c) THEN y ELSE job[u]
  <2>1. job' = [[job EXCEPT ![t] = result] EXCEPT ![Index(c)] = y]
    BY DEF Finally
  <2>2. job \in [Tasks -> JobStatus]
    BY DEF TasksInv, RestTyped
  <2>0. t = Index(c) => y = result
    BY <1>3
  <2> HIDE DEF result, c, y
  <2>3. CASE t[1] = "process"
    BY <1>2, <1>3, <2>1, <2>2, <2>3
  <2>4. CASE t[1] # "process"
    BY <1>2, <1>3, <2>0, <2>1, <2>2, <2>4
  <2> QED BY <2>3, <2>4
<1>8. /\ s \in RowStatus
      /\ s = "none" <=> row[w] = "none"
      /\ (s = "SUCCESS" /\ row[w] # "SUCCESS") =>
           named[w] # 0 /\ r[Process(named[w])] = "SUCCESS" /\ r[Index(named[w])] = "SUCCESS"
  <2>1. r[w] = row[w] /\ row[w] \in RowStatus
    BY <1>2, <1>4, <1>6 DEF TasksInv, RowsListed
  <2> HIDE DEF r, w
  <2> QED BY <1>4, <2>1, ReconciledTyped
<1>9. /\ (t = Process(c) /\ result = "SUCCESS") => y = "queued"
      /\ (t = Process(c) /\ result # "SUCCESS") => y = job[Index(c)]
      /\ t = Index(c) => y = result
  BY <1>3
<1> HIDE DEF result, r, s, y, w
<1>10. \A u \in Tasks : at'[u] = IF u = t THEN "idle" ELSE at[u]
  BY <1>1 DEF TasksInv, RestTyped
<1>11. \A u \in Tasks : row'[u] = IF u = w /\ t \in held THEN s ELSE row[u]
  BY <1>1, <1>4 DEF TasksInv, RowsListed
<1>12. (s = "SUCCESS" /\ row[w] # "SUCCESS") => \E u \in Processing : job[u] = "SUCCESS"
  <2> SUFFICES ASSUME s = "SUCCESS", row[w] # "SUCCESS" PROVE \E u \in Processing : job[u] = "SUCCESS"
    OBVIOUS
  <2>1. named[w] \in Chains
    BY <1>4, <1>8 DEF TasksInv, RestTyped
  <2>2. Index(named[w]) \in Tasks /\ Process(named[w]) \in Processing
    BY <2>1, ChildOfChain
  <2>3. job[Index(named[w])] # "none"
    BY <1>2, <1>6, <1>8, <2>1, <2>2 DEF TasksInv, InOrder
  <2> QED BY <2>1, <2>2, <2>3 DEF TasksInv, InOrder
<1>13. t = Process(c) => job[Index(c)] = "none" /\ at[Index(c)] = "idle"
  BY <1>2, <1>3 DEF TasksInv, InOrder, Runs
<1>14. RowsListed'
  <2>1. CASE t \in held /\ row[w] = "none"
    BY <1>1, <1>4, <1>8, <1>11, <2>1, RowsWritten DEF TasksInv, RowsListed
  <2>2. CASE t \in held /\ row[w] # "none"
    BY <1>1, <1>4, <1>8, <2>2, RowWritten DEF TasksInv
  <2>3. CASE t \notin held
    BY <1>1, <2>3, RowsSame DEF TasksInv
  <2> QED BY <2>1, <2>2, <2>3
<1>15. RestTyped'
  <2>1. at' \in [Tasks -> Stage]
    BY <1>1 DEF TasksInv, RestTyped, Stage
  <2>2. job' \in [Tasks -> JobStatus]
    <3>1. \E f \in [Tasks -> JobStatus] : \E a, b : job' = [[f EXCEPT ![t] = a] EXCEPT ![Index(c)] = b]
      BY DEF Finally, TasksInv, RestTyped
    <3>2. \A u \in Tasks : job'[u] \in JobStatus
      BY <1>3, <1>5, <1>7, <1>9 DEF TasksInv, RestTyped, JobStatus
    <3> QED BY <3>1, <3>2
  <2> QED BY <1>1, <2>1, <2>2 DEF TasksInv, RestTyped
<1>16. Runs'
  <2>1. \A u \in Tasks : at'[u] # "idle" <=> job'[u] = "running"
    BY <1>3, <1>5, <1>7, <1>9, <1>10, <1>13 DEF TasksInv, Runs
  <2>2. \A u \in Tasks : at'[u] \notin {"idle", "skip", "go"} => row'[u] # "none"
    BY <1>8, <1>10, <1>11 DEF TasksInv, Runs
  <2>3. \A v \in Workflows : v \in Tasks /\ v # t /\ v # Index(c)
    BY <1>2, KindsOfTask, ChildOfChain
  <2>4. \A u \in Children : u \in Tasks
    BY ChainOfChild
  <2> QED BY <1>1, <1>7, <1>10, <2>1, <2>2, <2>3, <2>4 DEF TasksInv, Runs
<1>17. InOrder'
  <2> SUFFICES ASSUME NEW b \in Chains
               PROVE  /\ chainOf'[b] = NoWorkflow => job'[Process(b)] = "none"
                      /\ job'[Index(b)] # "none" => job'[Process(b)] = "SUCCESS"
                      /\ row'[Index(b)] = "SUCCESS" => job'[Index(b)] # "none"
    BY DEF InOrder
  <2>1. /\ Process(b) \in Tasks /\ Index(b) \in Tasks /\ Index(b) # w
        /\ Process(b) # Index(c) /\ Index(b) # Process(c)
        /\ (Process(b) = Process(c) => b = c) /\ (Index(b) = Index(c) => b = c)
    BY <1>4, ChildOfChain, KindsOfTask
  <2>2. /\ row'[Index(b)] = row[Index(b)] /\ chainOf'[b] = chainOf[b]
        /\ chainOf[b] = NoWorkflow => job[Process(b)] = "none"
        /\ job[Index(b)] # "none" => job[Process(b)] = "SUCCESS"
        /\ row[Index(b)] = "SUCCESS" => job[Index(b)] # "none"
    BY <1>1, <1>11, <2>1 DEF TasksInv, InOrder
  <2>3. /\ job'[Index(b)] = IF Index(b) = t THEN result ELSE IF b = c THEN y ELSE job[Index(b)]
        /\ job'[Process(b)] = IF Process(b) = t THEN result ELSE job[Process(b)]
    BY <1>7, <2>1
  <2>4. CASE b # c
    BY <1>3, <2>1, <2>2, <2>3, <2>4
  <2>5. CASE b = c /\ t = Process(c)
    BY <1>2, <1>3, <1>5, <1>9, <1>13, <2>2, <2>3, <2>5
  <2>6. CASE b = c /\ t = Index(c)
    BY <1>2, <1>3, <1>5, <1>9, <2>2, <2>3, <2>6
  <2> QED BY <1>3, <2>4, <2>5, <2>6
<1>18. Truth'
  <2>1. \A u \in Processing : u \in Tasks /\ u # Index(c) /\ u # w
    BY <1>2, <1>4, KindsOfTask, ChainOfChild, ChildOfChain
  <2>2. \A u \in Processing : u # t => (Vouches(u)' => Vouches(u)) /\ (MayUndo(u)' => MayUndo(u))
    BY <1>7, <1>10, <1>11, <2>1 DEF Vouches, MayUndo
  <2>3. \A u \in Processing : at'[u] # "idle" => at[u] # "idle" /\ u # t
    BY <1>10, <2>1
  <2>4. ~MayUndo(t)'
    BY <1>2, <1>10 DEF MayUndo
  <2>5. \A v \in Workflows : Claims(v)' => Evidence
    BY <1>2, <1>10, <1>11, <1>12, KindsOfTask DEF Claims, Evidence, Vouches
  <2>6. Processed => Processed'
    BY <1>1 DEF Processed
  <2>7. CASE t \in Processing /\ at[t] = "good" /\ ~overlapped
    <3>1. Processed' /\ \A u \in Processing : u # t => at[u] = "idle"
      BY <2>6, <2>7 DEF TasksInv, Truth, MayUndo
    <3>2. \A u \in Processing : ~MayUndo(u)'
      BY <2>2, <2>4, <3>1 DEF MayUndo
    <3> QED BY <2>3, <2>7, <3>1, <3>2 DEF TasksInv, Truth
  <2>8. CASE t \in Processing => at[t] # "good"
    <3>1. t \in Processing => (Vouches(t)' => Vouches(t))
      BY <1>1, <1>2, <1>5, <1>7, <1>10, <1>11, <2>1, <2>8 DEF Vouches
    <3> QED BY <1>1, <2>2, <2>3, <2>4, <2>5, <2>6, <3>1, TruthKept DEF TasksInv, Evidence
  <2>9. CASE overlapped
    BY <1>1, <2>9 DEF Truth
  <2> QED BY <2>7, <2>8, <2>9
<1> QED BY <1>14, <1>15, <1>16, <1>17, <1>18 DEF TasksInv

\* The clean-up takes the oldest rows, of tasks that are not under way.
LEMMA CleanupStep ==
  ASSUME TasksInv, NEW n \in 1..Len(created), Cleanup(n)
  PROVE  TasksInv'
<1> DEFINE old == {created[i] : i \in 1..n}
           N == Len(created)
<1>1. /\ \A t \in old : Quiet(t)
      /\ row' = [t \in Tasks |-> IF t \in old THEN "none" ELSE row[t]]
      /\ created' = SubSeq(created, n + 1, N)
      /\ linked' = linked \ old
      /\ named' = [w \in Workflows |-> IF w \in old THEN 0 ELSE named[w]]
      /\ UNCHANGED <<asset, job, at, mine, held, chainOf, tries, route, overlapped>>
      /\ Spend
  BY DEF Cleanup
<1>2. N \in Nat /\ DOMAIN created = 1..N /\ created \in Seq(Tasks) /\ n \in 1..N
  BY DEF TasksInv, RowsListed
<1>3. /\ created' \in Seq(Tasks)
      /\ DOMAIN created' = 1..(N - n)
      /\ \A i \in 1..(N - n) : created'[i] = created[i + n]
  BY <1>1, <1>2
<1>4. /\ \A i \in 1..N : i \in 1..n \/ (i - n \in 1..(N - n) /\ (i - n) + n = i)
      /\ \A i \in 1..(N - n) : i + n \in 1..N /\ i + n \notin 1..n
      /\ \A i \in 1..n : i \in 1..N
      /\ \A i, j \in 1..(N - n) : i + n = j + n => i = j
  BY <1>2
<1>5. /\ \A t : t \in old <=> \E i \in 1..n : created[i] = t
  OBVIOUS
<1> HIDE DEF old, N
<1>6. RowsListed'
  <2>1. row' \in [Tasks -> RowStatus]
    BY <1>1 DEF TasksInv, RowsListed, RowStatus
  <2>2. ASSUME NEW t \in Tasks
        PROVE  row'[t] = "none" <=> \A i \in DOMAIN created' : created'[i] # t
    <3>1. CASE t \in old
      <4>1. PICK j \in 1..n : created[j] = t
        BY <1>5, <3>1
      <4>2. \A i \in 1..(N - n) : created[i + n] # t
        BY <1>2, <1>4, <4>1 DEF TasksInv, RowsListed
      <4> QED BY <1>1, <1>3, <3>1, <4>2
    <3>2. CASE t \notin old
      <4>1. row'[t] = row[t] /\ \A i \in 1..n : created[i] # t
        BY <1>1, <1>5, <3>2
      <4>2. (\A i \in 1..N : created[i] # t) <=> \A i \in 1..(N - n) : created[i + n] # t
        BY <1>4, <4>1
      <4>3. row[t] = "none" <=> \A i \in 1..N : created[i] # t
        BY <1>2 DEF TasksInv, RowsListed
      <4> QED BY <1>3, <4>1, <4>2, <4>3
    <3> QED BY <3>1, <3>2
  <2>3. ASSUME NEW i \in DOMAIN created', NEW j \in DOMAIN created', created'[i] = created'[j]
        PROVE  i = j
    <3>1. i \in 1..(N - n) /\ j \in 1..(N - n)
      BY <1>3
    <3>2. created[i + n] = created[j + n] /\ i + n \in 1..N /\ j + n \in 1..N
      BY <1>3, <1>4, <2>3, <3>1
    <3>3. i + n = j + n
      BY <1>2, <3>2 DEF TasksInv, RowsListed
    <3> QED BY <1>4, <3>1, <3>3
  <2> QED BY <1>3, <2>1, <2>2, <2>3 DEF RowsListed
<1>7. RestTyped'
  <2>1. linked' \subseteq Children /\ named' \in [Workflows -> Chains \cup {0}]
    BY <1>1 DEF TasksInv, RestTyped
  <2> QED BY <1>1, <2>1, SpendTyped DEF TasksInv, RestTyped
<1>8. \A t \in Tasks : (row'[t] = "SUCCESS" => row[t] = "SUCCESS")
                       /\ (row'[t] = "none" => row[t] = "none" \/ t \in old)
  BY <1>1
<1>9. \A t \in Tasks : t \in old => at[t] = "idle"
  BY <1>1 DEF TasksInv, Runs, Quiet
<1>10. Runs'
  <2>1. \A t \in Tasks : at'[t] \notin {"idle", "skip", "go"} => row'[t] # "none"
    BY <1>1, <1>8, <1>9 DEF TasksInv, Runs
  <2> QED BY <1>1, <2>1 DEF TasksInv, Runs
<1>11. InOrder'
  BY <1>1, <1>8, InOrderKept, ChildOfChain DEF TasksInv
<1>12. Truth'
  <2>1. \A u \in Processing : /\ Vouches(u)' => Vouches(u)
                              /\ MayUndo(u)' => MayUndo(u)
                              /\ at'[u] # "idle" => at[u] # "idle"
    BY <1>1, <1>8, KindsOfTask, ChainOfChild DEF Vouches, MayUndo
  <2>2. \A w \in Workflows : Claims(w)' => Claims(w)
    BY <1>1, <1>8, KindsOfTask DEF Claims
  <2> QED BY <1>1, <2>1, <2>2, TruthKept DEF TasksInv, Evidence, Processed
<1> QED BY <1>6, <1>7, <1>10, <1>11, <1>12 DEF TasksInv

-----------------------------------------------------------------------------
LEMMA TasksStart ==
  ASSUME InitTasks
  PROVE  TasksInv
<1>1. RowsListed
  <2>1. DOMAIN created = {} /\ created \in Seq(Tasks)
    BY DEF InitTasks
  <2>2. row \in [Tasks -> RowStatus] /\ \A t \in Tasks : row[t] = "none"
    BY DEF InitTasks, RowStatus
  <2> QED BY <2>1, <2>2 DEF RowsListed
<1>2. RestTyped
  <2>1. asset \in AssetStatus
    BY DEF InitTasks, AssetStatus
  <2>4. overlapped \in BOOLEAN
    BY DEF InitTasks
  <2>5. events \in 0..MaxEvents
    BY WorkflowConstants DEF InitTasks
  <2>2. job \in [Tasks -> JobStatus] /\ at \in [Tasks -> Stage]
    BY DEF InitTasks, JobStatus, Stage
  <2>3. /\ linked \subseteq Children /\ mine \subseteq Tasks /\ held \subseteq Children
        /\ named \in [Workflows -> Chains \cup {0}]
        /\ chainOf \in [Chains -> Workflows \cup {NoWorkflow}]
        /\ tries \in [Workflows -> 0..MaxRetries]
        /\ route \in [Workflows -> {"unused", "queued", "recorded"}]
    BY WorkflowConstants DEF InitTasks
  <2> QED BY <2>1, <2>2, <2>3, <2>4, <2>5 DEF RestTyped
<1>3. \A t \in Tasks : row[t] = "none" /\ job[t] = "none" /\ at[t] = "idle"
  BY DEF InitTasks
<1>4. Runs
  BY <1>3, KindsOfTask, ChainOfChild DEF Runs
<1>5. InOrder
  BY <1>3, ChildOfChain DEF InOrder
<1>6. Truth
  BY <1>3, KindsOfTask, ChainOfChild DEF Truth, Evidence, Vouches, Claims, MayUndo
<1> QED BY <1>1, <1>2, <1>4, <1>5, <1>6 DEF TasksInv

LEMMA TasksStep ==
  ASSUME TasksInv, [NextTasks]_taskVars
  PROVE  TasksInv'
<1>1. ASSUME NEW w \in Workflows,
             \/ Dispatch(w) \/ RecordOwner(w) \/ RequestDies(w) \/ Poll(w)
             \/ WorkflowStep(w) \/ WorkflowFails(w)
      PROVE  TasksInv'
  <2>1. w \in Tasks
    BY KindsOfTask
  <2>2. CASE Dispatch(w)
    BY <2>2, DispatchStep
  <2>3. CASE RecordOwner(w)
    BY <2>3, RecordOwnerStep
  <2>4. CASE RequestDies(w)
    BY <2>4, RequestDiesStep
  <2>5. CASE Poll(w)
    BY <2>5, PollStep
  <2>6. CASE Check(w)
    BY <2>1, <2>6, CheckStep
  <2>7. CASE Record(w)
    BY <2>1, <2>7, RecordStep
  <2>8. CASE InsertFails(w)
    BY <2>1, <2>8, InsertFailsStep
  <2>9. CASE Chain(w)
    BY <2>9, ChainStep
  <2>10. CASE TrackProcess(w)
    BY <2>10, TrackProcessStep
  <2>11. CASE TrackIndex(w)
    BY <2>11, TrackIndexStep
  <2>12. CASE Announce(w)
    BY <2>12, AnnounceStep
  <2>13. CASE WorkflowFails(w)
    BY <2>13, WorkflowFailsStep
  <2> QED BY <1>1, <2>2, <2>3, <2>4, <2>5, <2>6, <2>7, <2>8, <2>9, <2>10, <2>11, <2>12, <2>13
          DEF WorkflowStep
<1>2. ASSUME NEW t \in Children, PollChild(t) \/ ChildStep(t) \/ ReconcileFails(t)
      PROVE  TasksInv'
  <2>1. t \in Tasks
    BY ChainOfChild
  <2>2. CASE PollChild(t)
    BY <2>2, PollChildStep
  <2>3. CASE Check(t)
    BY <2>1, <2>3, CheckStep
  <2>4. CASE Record(t)
    BY <2>1, <2>4, RecordStep
  <2>5. CASE InsertFails(t)
    BY <2>1, <2>5, InsertFailsStep
  <2>6. CASE Load(t)
    BY <2>6, LoadStep
  <2>7. CASE FindNothing(t)
    BY <2>7, FindNothingStep
  <2>8. CASE Finish(t)
    BY <2>8, FinishStep
  <2>9. CASE Spoil(t)
    BY <2>9, SpoilStep
  <2>10. CASE Conclude(t)
    BY <2>10, ConcludeStep
  <2>11. CASE Finally(t)
    BY <2>11, FinallyStep
  <2>12. CASE ReconcileFails(t)
    BY <2>12, ReconcileFailsStep
  <2> QED BY <1>2, <2>2, <2>3, <2>4, <2>5, <2>6, <2>7, <2>8, <2>9, <2>10, <2>11, <2>12 DEF ChildStep
<1>3. CASE UNCHANGED taskVars
  <2>1. UNCHANGED <<asset, row, created, linked, named, job, at, mine, held, chainOf, tries, route,
                    overlapped, events>>
    BY <1>3 DEF taskVars
  <2>2. RowsListed' /\ RestTyped'
    BY <2>1, RowsSame DEF TasksInv, RestTyped
  <2>3. Runs' /\ InOrder'
    BY <2>1 DEF TasksInv, Runs, InOrder
  <2>4. Truth'
    BY <2>1, TruthKept DEF TasksInv, Processed, Vouches, Claims, MayUndo, Evidence
  <2> QED BY <2>2, <2>3, <2>4 DEF TasksInv
<1> QED BY <1>1, <1>2, <1>3, CrashStep, AbortStep, CleanupStep, DeleteStep DEF NextTasks

\* The types of the tasks' variables, and the list of their rows (create_task_record,
\* delete of old rows in backend/utils/idempotency_manager.py).
THEOREM TaskTypesHold == TasksSpec => []TasksTypeOK
<1>1. TasksInv => TasksTypeOK
  BY DEF TasksInv, RowsListed, RestTyped, TasksTypeOK
<1> QED BY <1>1, TasksStart, TasksStep, PTL DEF TasksSpec

\* A workflow whose row says SUCCESS stands for a processed document
\* (reconcile_process_and_index_workflow and the tasks that write the rows it reads).
THEOREM SuccessIsTrue == TasksSpec => []WorkflowSuccessIsTrue
<1>1. TasksInv => WorkflowSuccessIsTrue
  BY DEF TasksInv, Truth, Evidence, Claims, Processed, WorkflowSuccessIsTrue
<1> QED BY <1>1, TasksStart, TasksStep, PTL DEF TasksSpec

-----------------------------------------------------------------------------
(* The composition. *)

LEMMA PartsStart == Init => InitConfig /\ InitTasks /\ InitIndexing /\ InitQuery
BY DEF Init

\* A step is a step of one part, and the other parts stutter.
LEMMA PartsStep ==
  [Next]_vars => /\ [NextConfig]_configVars
                 /\ [NextTasks]_taskVars
                 /\ [NextIndexing]_indexingVars
                 /\ [NextQuery]_queryVars
BY DEF Next, vars

\* The composition implements the specification of each of its parts.
THEOREM KnowledgeBaseImplementsParts ==
  Spec => ConfigSpec /\ TasksSpec /\ IndexingSpec /\ QuerySpec
BY PartsStart, PartsStep, PTL DEF Spec, ConfigSpec, TasksSpec, IndexingSpec, QuerySpec

\* The settings file, the tasks, the calls for vectors and the question have their types in every
\* reachable state of the composition.
THEOREM KnowledgeBaseTypesHold == Spec => []TypeOK
BY KnowledgeBaseImplementsParts, ConfigTypesHold, TaskTypesHold, TypesHold, QueryTypesHold, PTL
DEF TypeOK

================================================================================
