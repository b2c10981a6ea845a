------------------------ MODULE KnowledgeAgentProofs ------------------------
(***************************************************************************)
(* Proofs about KnowledgeAgent for any runs, files, chunks, scores and     *)
(* settings.  The inductive invariant ties what a run holds to the folder  *)
(* since it listed the files, what it found to the collection, and the     *)
(* files it has yet to read to those that were removed meanwhile.          *)
(***************************************************************************)
EXTENDS KnowledgeAgent, FiniteSetTheorems, TLAPS

Under(r) == phase[r] \notin {"idle", "done"}

(* What a run loads and retrieves was in the folder since it listed it. *)
LoadedSeen ==
    \A r \in Runs :
        /\ Under(r) => InFolder \subseteq seen[r]
        /\ loaded[r] \subseteq seen[r]
        /\ phase[r] \notin {"retrieved", "asking"} => evidence[r] = {}
        /\ evidence[r] \subseteq loaded[r]

(* The collection holds what a run found and added. *)
KnownIndexed ==
    \A r \in Runs :
        /\ phase[r] = "adding" => known[r] \subseteq collection
        /\ phase[r] = "querying" => loaded[r] \subseteq collection

(* A listed file that is not there was removed since it was listed. *)
RemovedAreGone == \A r \in Runs : unread[r] \subseteq present \cup gone[r]

IInv == TypeOK /\ LoadedSeen /\ KnownIndexed /\ RemovedAreGone /\ NothingBetterLeftOut

-----------------------------------------------------------------------------
LEMMA InitIInv == Init => IInv
<1> SUFFICES ASSUME Init PROVE IInv
  OBVIOUS
<1> USE DEF Init
<1>1. TypeOK
  BY SettingsAssumption DEF TypeOK, Phases, FirstTry
<1>2. LoadedSeen /\ KnownIndexed /\ RemovedAreGone /\ NothingBetterLeftOut
  BY DEF LoadedSeen, KnownIndexed, RemovedAreGone, NothingBetterLeftOut, Under
<1> QED BY <1>1, <1>2 DEF IInv

(* A run's words give an integer to every chunk it has loaded. *)
LEMMA LexicalType ==
    ASSUME NEW r \in Runs, NEW chunks \in SUBSET Chunks
    PROVE  Lexical(r, chunks) \in [chunks -> Int]
<1>1. ASSUME NEW c \in chunks PROVE Okapi[r][chunks][c] \in Int /\ Count[r][c] \in Int
  <2>1. Okapi[r] \in [SUBSET Chunks -> [Chunks -> Int]]
    BY ScoreAssumption
  <2>2. Okapi[r][chunks] \in [Chunks -> Int]
    BY <2>1
  <2> QED BY <2>2, ScoreAssumption
<1> QED BY <1>1 DEF Lexical

LEMMA ScoreType ==
    ASSUME TypeOK, NEW r \in Runs, NEW hits \in SUBSET loaded[r], NEW c \in loaded[r]
    PROVE  /\ ScoreOf(r, hits, c) \in Int
           /\ ScoreOf(r, hits, c) >= Lexical(r, loaded[r])[c]
           /\ Maximum(Similarity[r][c], Lexical(r, loaded[r])[c]) >= ScoreOf(r, hits, c)
<1>1. loaded[r] \in SUBSET Chunks
  BY DEF TypeOK
<1>2. Lexical(r, loaded[r]) \in [loaded[r] -> Int]
  BY <1>1, LexicalType
<1>3. Lexical(r, loaded[r])[c] \in Int /\ Similarity[r][c] \in Int
  BY <1>1, <1>2, ScoreAssumption
<1> QED BY <1>3 DEF ScoreOf, Maximum

(* The best of a finite set are all of it or as many as were asked for. *)
LEMMA BestFull ==
    ASSUME NEW set, IsFiniteSet(set), NEW score, NEW top \in Best(TopK, set, score),
           NEW c \in set \ top
    PROVE  Cardinality(top) = TopK
<1>1. top \subseteq set /\ Cardinality(top) = Minimum(TopK, Cardinality(set))
  BY DEF Best
<1>2. Cardinality(set) \in Nat
  BY FS_CardinalityType
<1>3. Cardinality(top) # Cardinality(set)
  BY <1>1, FS_Subset
<1> QED BY <1>1, <1>2, <1>3, SettingsAssumption DEF Minimum

(* A ranking is not disturbed by what other runs do. *)
LEMMA RankingFrame ==
    ASSUME NothingBetterLeftOut,
           \A r \in Runs : phase'[r] = "retrieved" =>
               \/ loaded'[r] = {}
               \/ /\ phase[r] = "retrieved"
                  /\ loaded'[r] = loaded[r] /\ evidence'[r] = evidence[r]
    PROVE  NothingBetterLeftOut'
<1> SUFFICES ASSUME NEW r \in Runs, phase'[r] = "retrieved"
             PROVE  LeavesOutOnlyWorse(r, loaded[r], evidence[r])'
  BY DEF NothingBetterLeftOut
<1>1. CASE loaded'[r] = {}
  BY <1>1 DEF LeavesOutOnlyWorse
<1>2. CASE phase[r] = "retrieved" /\ loaded'[r] = loaded[r] /\ evidence'[r] = evidence[r]
  <2>1. LeavesOutOnlyWorse(r, loaded[r], evidence[r])
    BY <1>2 DEF NothingBetterLeftOut
  <2>2. \A chunks : Lexical(r, chunks)' = Lexical(r, chunks)
    BY DEF Lexical
  <2> QED
    BY <1>2, <2>1, <2>2 DEF LeavesOutOnlyWorse
<1> QED
  BY <1>1, <1>2

LEMMA InFolderType == TypeOK => InFolder \in SUBSET Chunks
<1> SUFFICES ASSUME TypeOK, NEW f \in present PROVE folder[f] \subseteq Chunks
  BY DEF InFolder
<1> QED BY DEF TypeOK

-----------------------------------------------------------------------------
(* Steps outside the runs. *)

(* A change counts. *)
LEMMA EditType ==
    ASSUME TypeOK, edits < MaxEdits, edits' = edits + 1
    PROVE  edits \in Nat /\ edits' \in 0 .. MaxEdits
<1>1. MaxEdits \in Nat
  BY SettingsAssumption
<1>2. edits \in 0 .. MaxEdits
  BY DEF TypeOK
<1> QED BY <1>1, <1>2

LEMMA WriteIInv ==
    ASSUME NEW f \in Files, NEW content \in Contents[f], IInv, Write(f, content)
    PROVE  IInv'
<1>1. TypeOK /\ LoadedSeen /\ KnownIndexed /\ RemovedAreGone /\ NothingBetterLeftOut
  BY DEF IInv
<1>2. content \in SUBSET Chunks
  BY FilesAssumption
<1>3. TypeOK'
  BY <1>1, <1>2, EditType DEF TypeOK, Write
<1>4. InFolder' \subseteq InFolder \cup content
  <2> SUFFICES ASSUME NEW g \in present', NEW c \in folder'[g]
               PROVE  c \in InFolder \cup content
    BY DEF InFolder
  <2>1. CASE g = f
    BY <1>1, <2>1 DEF TypeOK, Write
  <2>2. CASE g # f
    BY <1>1, <2>2 DEF TypeOK, Write, InFolder
  <2> QED BY <2>1, <2>2
<1>5. LoadedSeen'
  BY <1>1, <1>4 DEF LoadedSeen, Under, TypeOK, Write
<1>6. KnownIndexed'
  BY <1>1 DEF KnownIndexed, Write
<1>7. NothingBetterLeftOut'
  BY <1>1, RankingFrame DEF Write
<1>8. RemovedAreGone'
  BY <1>1 DEF RemovedAreGone, TypeOK, Write
<1> QED BY <1>3, <1>5, <1>6, <1>7, <1>8 DEF IInv

LEMMA RemoveIInv == ASSUME NEW f \in Files, IInv, Remove(f) PROVE IInv'
<1>1. TypeOK /\ LoadedSeen /\ KnownIndexed /\ RemovedAreGone /\ NothingBetterLeftOut
  BY DEF IInv
<1>2. TypeOK'
  BY <1>1, EditType DEF TypeOK, Remove
<1>3. InFolder' \subseteq InFolder
  BY DEF InFolder, Remove
<1>4. LoadedSeen'
  BY <1>1, <1>3 DEF LoadedSeen, Under, Remove
<1>5. KnownIndexed'
  BY <1>1 DEF KnownIndexed, Remove
<1>6. NothingBetterLeftOut'
  BY <1>1, RankingFrame DEF Remove
<1>7. RemovedAreGone'
  BY <1>1 DEF RemovedAreGone, TypeOK, Remove
<1> QED BY <1>2, <1>4, <1>5, <1>6, <1>7 DEF IInv

(* Runs that end forget what they held. *)
LEMMA ForgetIInv ==
    ASSUME NEW ended \in SUBSET Runs, IInv, Forget(ended),
           outcome' \in [Runs -> {"none", "answered", "not found", "failed", "cancelled"}]
    PROVE  IInv'
<1>1. TypeOK /\ LoadedSeen /\ KnownIndexed /\ RemovedAreGone /\ NothingBetterLeftOut
  BY DEF IInv
<1>2. TypeOK'
  BY <1>1 DEF TypeOK, Phases, FirstTry, Forget, folderVars
<1>3. InFolder' = InFolder
  BY DEF InFolder, Forget, folderVars
<1>4. LoadedSeen'
  BY <1>1, <1>3 DEF LoadedSeen, Under, TypeOK, Forget
<1>5. KnownIndexed'
  BY <1>1 DEF KnownIndexed, TypeOK, Forget
<1>6. RemovedAreGone'
  BY <1>1 DEF RemovedAreGone, TypeOK, Forget, folderVars
<1>7. NothingBetterLeftOut'
  BY <1>1, RankingFrame DEF TypeOK, Forget
<1> QED BY <1>2, <1>4, <1>5, <1>6, <1>7 DEF IInv

LEMMA OutcomeType ==
    ASSUME IInv, NEW r \in Runs, NEW how \in {"answered", "not found", "failed", "cancelled"},
           EndAs(r, how)
    PROVE  outcome' \in [Runs -> {"none", "answered", "not found", "failed", "cancelled"}]
BY DEF IInv, TypeOK, EndAs

LEMMA AnswerIInv == ASSUME NEW r \in Runs, IInv, Answer(r) PROVE IInv'
BY OutcomeType, ForgetIInv, {r} \in SUBSET Runs DEF Answer

LEMMA RestartIInv == IInv /\ Restart => IInv'
<1> SUFFICES ASSUME IInv, Restart PROVE IInv'
  OBVIOUS
<1> DEFINE begun == {r \in Runs : phase[r] # "idle"}
<1>1. outcome' \in [Runs -> {"none", "answered", "not found", "failed", "cancelled"}]
  BY DEF Restart, IInv, TypeOK
<1> QED BY <1>1, ForgetIInv, begun \in SUBSET Runs DEF Restart

LEMMA CancelIInv == ASSUME NEW r \in Runs, IInv, Cancel(r) PROVE IInv'
<1> DEFINE ended == {r} \cap {s \in Runs : phase[s] \in {"idle", "again"}}
<1> QED BY OutcomeType, ForgetIInv, ended \in SUBSET Runs DEF Cancel

-----------------------------------------------------------------------------
(* Loading. *)

LEMMA ListFilesIInv == ASSUME NEW r \in Runs, IInv, ListFiles(r) PROVE IInv'
<1>1. TypeOK /\ LoadedSeen /\ KnownIndexed /\ RemovedAreGone /\ NothingBetterLeftOut
  BY DEF IInv
<1>2. TypeOK'
  BY <1>1, InFolderType DEF TypeOK, Phases, ListFiles, Go, folderVars
<1>3. InFolder' = InFolder
  BY DEF InFolder, ListFiles, Go, folderVars
<1>4. LoadedSeen'
  BY <1>1, <1>3 DEF LoadedSeen, Under, TypeOK, ListFiles, Go, folderVars
<1>5. KnownIndexed'
  BY <1>1 DEF KnownIndexed, TypeOK, ListFiles, Go, folderVars
<1>6. RemovedAreGone'
  BY <1>1 DEF RemovedAreGone, TypeOK, ListFiles, Go, folderVars
<1>7. NothingBetterLeftOut'
  BY <1>1, RankingFrame DEF TypeOK, ListFiles, Go, folderVars
<1> QED BY <1>2, <1>4, <1>5, <1>6, <1>7 DEF IInv

LEMMA ReadFileIInv == ASSUME NEW r \in Runs, NEW f \in Files, IInv, ReadFile(r, f) PROVE IInv'
<1>1. TypeOK /\ LoadedSeen /\ KnownIndexed /\ RemovedAreGone /\ NothingBetterLeftOut
  BY DEF IInv
<1>2. TypeOK'
  BY <1>1 DEF TypeOK, Phases, ReadFile, folderVars
<1>3. InFolder' = InFolder
  BY DEF InFolder, ReadFile, folderVars
<1>8. f \in present => folder[f] \subseteq InFolder
  BY DEF InFolder
<1>4. LoadedSeen'
  BY <1>1, <1>3, <1>8 DEF LoadedSeen, Under, TypeOK, ReadFile, folderVars
<1>5. KnownIndexed'
  BY <1>1 DEF KnownIndexed, TypeOK, ReadFile, folderVars
<1>6. RemovedAreGone'
  BY <1>1 DEF RemovedAreGone, TypeOK, ReadFile, folderVars
<1>7. NothingBetterLeftOut'
  BY <1>1, RankingFrame DEF TypeOK, ReadFile, folderVars
<1> QED BY <1>2, <1>4, <1>5, <1>6, <1>7 DEF IInv

LEMMA AttemptFailsIInv ==
    ASSUME NEW r \in Runs, IInv, phase[r] = "reading", AttemptFails(r) PROVE IInv'
<1>1. CASE outcome[r] = "none" /\ tries[r] = 1
  <2>1. TypeOK /\ LoadedSeen /\ KnownIndexed /\ RemovedAreGone /\ NothingBetterLeftOut
    BY DEF IInv
  <2>2. /\ phase' = [phase EXCEPT ![r] = "again"]
        /\ tries' = [tries EXCEPT ![r] = 2]
        /\ UNCHANGED <<folder, present, edits, collection, locals, outcome>>
    BY <1>1 DEF AttemptFails, folderVars
  <2>3. TypeOK'
    BY <2>1, <2>2 DEF TypeOK, Phases, locals
  <2>4. InFolder' = InFolder
    BY <2>2 DEF InFolder
  <2>5. LoadedSeen'
    BY <2>1, <2>2, <2>4 DEF LoadedSeen, Under, TypeOK, locals
  <2>6. KnownIndexed' /\ RemovedAreGone'
    BY <2>1, <2>2 DEF KnownIndexed, RemovedAreGone, TypeOK, locals
  <2>7. NothingBetterLeftOut'
    BY <2>1, <2>2, RankingFrame DEF TypeOK, locals
  <2> QED BY <2>3, <2>5, <2>6, <2>7 DEF IInv
<1>2. CASE ~ (outcome[r] = "none" /\ tries[r] = 1)
  <2>1. EndAs(r, "failed") /\ Forget({r})
    BY <1>2 DEF AttemptFails
  <2> QED BY <2>1, OutcomeType, ForgetIInv, {r} \in SUBSET Runs
<1> QED BY <1>1, <1>2

LEMMA FailsIInv ==
    ASSUME NEW r \in Runs, IInv, ScoringFails(r) \/ \E f \in Files : ReadFails(r, f)
    PROVE  IInv'
BY AttemptFailsIInv DEF ScoringFails, ReadFails

LEMMA LoadedIInv == ASSUME NEW r \in Runs, IInv, Loaded(r) PROVE IInv'
<1>1. TypeOK /\ LoadedSeen /\ KnownIndexed /\ RemovedAreGone /\ NothingBetterLeftOut
  BY DEF IInv
<1>2. TypeOK'
  BY <1>1 DEF TypeOK, Phases, Loaded, Go, folderVars
<1>3. InFolder' = InFolder
  BY DEF InFolder, Loaded, Go, folderVars
<1>4. LoadedSeen'
  BY <1>1, <1>3 DEF LoadedSeen, Under, TypeOK, Loaded, Go, folderVars
<1>5. KnownIndexed'
  BY <1>1 DEF KnownIndexed, TypeOK, Loaded, Go, folderVars
<1>6. RemovedAreGone'
  BY <1>1 DEF RemovedAreGone, TypeOK, Loaded, Go, folderVars
<1>7. NothingBetterLeftOut'
  BY <1>1, RankingFrame DEF TypeOK, Loaded, Go, folderVars
<1> QED BY <1>2, <1>4, <1>5, <1>6, <1>7 DEF IInv

-----------------------------------------------------------------------------
(* Ranking. *)

LEMMA FetchKnownIInv == ASSUME NEW r \in Runs, IInv, FetchKnown(r) PROVE IInv'
<1>1. TypeOK /\ LoadedSeen /\ KnownIndexed /\ RemovedAreGone /\ NothingBetterLeftOut
  BY DEF IInv
<1>2. TypeOK'
  BY <1>1 DEF TypeOK, Phases, FetchKnown, Go, folderVars
<1>3. InFolder' = InFolder
  BY DEF InFolder, FetchKnown, Go, folderVars
<1>4. LoadedSeen'
  BY <1>1, <1>3 DEF LoadedSeen, Under, TypeOK, FetchKnown, Go, folderVars
<1>5. KnownIndexed'
  BY <1>1 DEF KnownIndexed, TypeOK, FetchKnown, Go, folderVars
<1>6. RemovedAreGone'
  BY <1>1 DEF RemovedAreGone, TypeOK, FetchKnown, Go, folderVars
<1>7. NothingBetterLeftOut'
  BY <1>1, RankingFrame DEF TypeOK, FetchKnown, Go, folderVars
<1> QED BY <1>2, <1>4, <1>5, <1>6, <1>7 DEF IInv

LEMMA AddMissingIInv == ASSUME NEW r \in Runs, IInv, AddMissing(r) PROVE IInv'
<1>1. TypeOK /\ LoadedSeen /\ KnownIndexed /\ RemovedAreGone /\ NothingBetterLeftOut
  BY DEF IInv
<1>2. TypeOK'
  BY <1>1 DEF TypeOK, Phases, AddMissing, Go, folderVars
<1>3. InFolder' = InFolder
  BY DEF InFolder, AddMissing, Go, folderVars
<1>4. LoadedSeen'
  BY <1>1, <1>3 DEF LoadedSeen, Under, TypeOK, AddMissing, Go, folderVars
<1>5. KnownIndexed'
  BY <1>1 DEF KnownIndexed, TypeOK, AddMissing, Go, folderVars
<1>6. RemovedAreGone'
  BY <1>1 DEF RemovedAreGone, TypeOK, AddMissing, Go, folderVars
<1>7. NothingBetterLeftOut'
  BY <1>1, RankingFrame DEF TypeOK, AddMissing, Go, folderVars
<1> QED BY <1>2, <1>4, <1>5, <1>6, <1>7 DEF IInv

(* Whatever Chroma found among the loaded chunks, the ranking is fair to   *)
(* those found by words.                                                   *)
LEMMA RankIInv ==
    ASSUME NEW r \in Runs, NEW hits \in SUBSET loaded[r], IInv, Under(r),
           phase[r] # "again", Rank(r, hits)
    PROVE  IInv'
<1> DEFINE ranked == Ranked(r, hits)
           score == [c \in ranked |-> ScoreOf(r, hits, c)]
           lexical == Lexical(r, loaded[r])
<1>1. PICK top \in Best(TopK, ranked, score) : evidence' = [evidence EXCEPT ![r] = top]
  BY DEF Rank
<1>2. loaded[r] \in SUBSET Chunks /\ ranked \subseteq loaded[r] /\ top \subseteq ranked
  BY DEF Ranked, Best, IInv, TypeOK
<1>3. /\ phase' = [phase EXCEPT ![r] = "retrieved"]
      /\ UNCHANGED <<folder, present, edits, collection, tries, unread, loaded, known,
                     outcome, seen, gone>>
  BY DEF Rank, Go, folderVars
<1>4. TypeOK'
  BY <1>1, <1>2, <1>3 DEF IInv, TypeOK, Phases
<1>9. InFolder' = InFolder
  BY <1>3 DEF InFolder
<1>5. LoadedSeen'
  BY <1>1, <1>2, <1>3, <1>9 DEF IInv, TypeOK, LoadedSeen, Under
<1>6. KnownIndexed' /\ RemovedAreGone'
  BY <1>3 DEF IInv, TypeOK, KnownIndexed, RemovedAreGone
<1>7. ASSUME NEW c \in loaded[r] \ top, lexical[c] > 0
      PROVE  /\ Cardinality(top) = TopK
             /\ \A e \in top : Maximum(Similarity[r][e], lexical[e]) >= lexical[c]
  <2>1. c \in ranked \ top
    BY <1>7 DEF Ranked
  <2>2. IsFiniteSet(ranked)
    BY <1>2, FS_Subset, FilesAssumption
  <2>3. Cardinality(top) = TopK
    BY <2>1, <2>2, BestFull
  <2>4. ASSUME NEW e \in top PROVE Maximum(Similarity[r][e], lexical[e]) >= lexical[c]
    <3>1. score[e] >= score[c]
      BY <2>1 DEF Best
    <3>2. score[e] = ScoreOf(r, hits, e) /\ score[c] = ScoreOf(r, hits, c)
      BY <1>2, <2>1
    <3>3. e \in loaded[r] /\ TypeOK
      BY <1>2 DEF IInv
    <3>4. /\ ScoreOf(r, hits, e) \in Int /\ ScoreOf(r, hits, c) \in Int
          /\ ScoreOf(r, hits, c) >= lexical[c]
          /\ Maximum(Similarity[r][e], lexical[e]) >= ScoreOf(r, hits, e)
      BY <3>3, ScoreType
    <3>5. lexical[e] \in Int /\ lexical[c] \in Int /\ Similarity[r][e] \in Int
      <4>1. lexical \in [loaded[r] -> Int] /\ c \in loaded[r]
        BY <1>2, <2>1, LexicalType
      <4>2. Similarity[r][e] \in Int
        BY <1>2, <3>3, ScoreAssumption
      <4> QED BY <3>3, <4>1, <4>2
    <3> QED BY <3>1, <3>2, <3>4, <3>5 DEF Maximum
  <2> QED BY <2>3, <2>4
<1>8. NothingBetterLeftOut'
  <2>1. TypeOK /\ NothingBetterLeftOut
    BY DEF IInv
  <2>2. evidence'[r] = top /\ loaded' = loaded
    BY <1>1, <1>3, <2>1 DEF TypeOK
  <2>3. ASSUME NEW s \in Runs, s # r
        PROVE  phase'[s] = phase[s] /\ evidence'[s] = evidence[s]
    BY <1>1, <1>3, <2>1, <2>3 DEF TypeOK
  <2>4. LeavesOutOnlyWorse(r, loaded[r], top)
    BY <1>7 DEF LeavesOutOnlyWorse
  <2>5. ASSUME NEW s \in Runs, phase'[s] = "retrieved"
        PROVE  LeavesOutOnlyWorse(s, loaded'[s], evidence'[s])
    <3>1. CASE s = r
      BY <2>2, <2>4, <3>1
    <3>2. CASE s # r
      BY <2>1, <2>2, <2>3, <2>5, <3>2 DEF NothingBetterLeftOut
    <3> QED BY <3>1, <3>2
  <2> QED BY <2>5 DEF NothingBetterLeftOut, LeavesOutOnlyWorse, Lexical, Maximum
<1> QED BY <1>4, <1>5, <1>6, <1>8 DEF IInv

LEMMA AskIInv == ASSUME NEW r \in Runs, IInv, Ask(r) PROVE IInv'
<1>1. TypeOK /\ LoadedSeen /\ KnownIndexed /\ RemovedAreGone /\ NothingBetterLeftOut
  BY DEF IInv
<1>2. TypeOK'
  BY <1>1 DEF TypeOK, Phases, Ask, Go, locals, folderVars
<1>3. InFolder' = InFolder
  BY DEF InFolder, Ask, Go, folderVars
<1>4. LoadedSeen'
  BY <1>1, <1>3 DEF LoadedSeen, Under, TypeOK, Ask, Go, locals, folderVars
<1>5. KnownIndexed'
  BY <1>1 DEF KnownIndexed, TypeOK, Ask, Go, locals, folderVars
<1>6. RemovedAreGone'
  BY <1>1 DEF RemovedAreGone, TypeOK, Ask, Go, locals, folderVars
<1>7. NothingBetterLeftOut'
  BY <1>1, RankingFrame DEF TypeOK, Ask, Go, locals
<1> QED BY <1>2, <1>4, <1>5, <1>6, <1>7 DEF IInv

LEMMA QueryIInv == ASSUME NEW r \in Runs, IInv, Query(r) PROVE IInv'
<1>1. PICK nearest \in Nearest(r) : Rank(r, nearest \cap loaded[r])
  BY DEF Query
<1> QED BY <1>1, RankIInv, nearest \cap loaded[r] \in SUBSET loaded[r] DEF Query, Under

LEMMA ChromaFailsIInv == ASSUME NEW r \in Runs, IInv, ChromaFails(r) PROVE IInv'
BY RankIInv, {} \in SUBSET loaded[r] DEF ChromaFails, Under

-----------------------------------------------------------------------------
LEMMA NextIInv == IInv /\ [Next]_vars => IInv'
<1> SUFFICES ASSUME IInv, [Next]_vars PROVE IInv'
  OBVIOUS
<1>1. ASSUME NEW r \in Runs, Step(r) PROVE IInv'
  BY <1>1, ListFilesIInv, ReadFileIInv, FailsIInv, LoadedIInv, FetchKnownIInv,
     AddMissingIInv, QueryIInv, ChromaFailsIInv, AskIInv, AnswerIInv DEF Step
<1>2. ASSUME NEW r \in Runs, Cancel(r) PROVE IInv'
  BY <1>2, CancelIInv
<1>3. CASE \E f \in Files : Remove(f) \/ \E content \in Contents[f] : Write(f, content)
  BY <1>3, RemoveIInv, WriteIInv
<1>4. CASE Restart
  BY <1>4, RestartIInv
<1>5. CASE UNCHANGED vars
  <2>1. NothingBetterLeftOut'
    BY <1>5, RankingFrame DEF vars, runVars, IInv
  <2>2. InFolder' = InFolder
    BY <1>5 DEF InFolder, vars, folderVars
  <2>3. TypeOK' /\ LoadedSeen' /\ KnownIndexed' /\ RemovedAreGone'
    BY <1>5, <2>2 DEF vars, folderVars, runVars, IInv, TypeOK, LoadedSeen, Under,
                      KnownIndexed, RemovedAreGone
  <2> QED BY <2>1, <2>3 DEF IInv
<1> QED BY <1>1, <1>2, <1>3, <1>4, <1>5 DEF Next

(* The invariant holds of every behaviour. *)
THEOREM Invariance == Spec => []IInv
BY InitIInv, NextIInv, PTL DEF Spec

(* Every variable has its type. *)
THEOREM TypeCorrect == Spec => []TypeOK
<1>1. IInv => TypeOK
  BY DEF IInv
<1> QED BY <1>1, Invariance, PTL

(* No run presents a chunk that left the folder before the run looked.      *)
THEOREM EvidenceCurrent == Spec => []EvidenceWasCurrent
<1>1. IInv => EvidenceWasCurrent
  BY DEF IInv, LoadedSeen, EvidenceWasCurrent
<1> QED BY <1>1, Invariance, PTL

(* The merged ranking leaves out no chunk found by words for a worse one.   *)
THEOREM RankingFair == Spec => []NothingBetterLeftOut
<1>1. IInv => NothingBetterLeftOut
  BY DEF IInv
<1> QED BY <1>1, Invariance, PTL

(* A run that reports nothing has loaded nothing with a word of the query.  *)
THEOREM NotFoundTrue == Spec => []NotFoundIsTrue
<1>1. ASSUME IInv PROVE NotFoundIsTrue
  <2> SUFFICES ASSUME NEW r \in Runs, phase[r] = "retrieved", evidence[r] = {},
                      NEW c \in loaded[r], Count[r][c] # 0
               PROVE  FALSE
    BY DEF NotFoundIsTrue
  <2>1. loaded[r] \in SUBSET Chunks
    BY <1>1 DEF IInv, TypeOK
  <2>2. \E d \in loaded[r] : Lexical(r, loaded[r])[d] > 0
    <3>1. Count[r][c] > 0
      BY <2>1, ScoreAssumption
    <3> QED BY <3>1 DEF Lexical
  <2>3. Cardinality({}) = TopK
    BY <1>1, <2>2 DEF IInv, NothingBetterLeftOut, LeavesOutOnlyWorse
  <2> QED BY <2>3, FS_EmptySet, SettingsAssumption
<1> QED BY <1>1, Invariance, PTL

(* What a run queries holds all it has loaded. *)
THEOREM Indexed == Spec => []QueriedIsIndexed
<1>1. IInv => QueriedIsIndexed
  BY DEF IInv, KnownIndexed, QueriedIsIndexed
<1> QED BY <1>1, Invariance, PTL

-----------------------------------------------------------------------------
(* How far runs are. *)

(* A run that ended has told its caller and holds nothing. *)
Forgotten(r) ==
    phase[r] = "done" =>
        /\ outcome[r] # "none" /\ tries[r] = FirstTry
        /\ unread[r] = {} /\ loaded[r] = {} /\ known[r] = {} /\ evidence[r] = {}
        /\ seen[r] = {} /\ gone[r] = {}

EndedAreForgotten == \A r \in Runs : Forgotten(r)

(* The place of a run in its course: the attempt, then the phase. *)
PlaceOf(at, try) ==
    IF at = "done" THEN 21
    ELSE 7 * try + [idle |-> 0, again |-> 0, reading |-> 1, embedding |-> 2, adding |-> 3,
                    querying |-> 4, retrieved |-> 5, asking |-> 6][at]

Place(r) == PlaceOf(phase[r], tries[r])

Stands(r) == Place(r)' = Place(r) /\ unread'[r] = unread[r]

GoesOn(r) ==
    \/ Place(r) < Place(r)'
    \/ /\ Place(r)' = Place(r)
       /\ \E f \in unread[r] : unread'[r] = unread[r] \ {f}

(* The step of one run is one of this run only. *)
LEMMA OwnStep ==
    ASSUME IInv, NEW r \in Runs, Step(r)
    PROVE  \A s \in Runs \ {r} :
              /\ phase'[s] = phase[s] /\ tries'[s] = tries[s] /\ unread'[s] = unread[s]
              /\ loaded'[s] = loaded[s] /\ known'[s] = known[s] /\ seen'[s] = seen[s]
              /\ evidence'[s] = evidence[s] /\ outcome'[s] = outcome[s]
              /\ gone'[s] = gone[s]
<1> USE DEF IInv, TypeOK
<1>1. ASSUME Forget({r}), NEW how, EndAs(r, how)
      PROVE  \A s \in Runs \ {r} :
              /\ phase'[s] = phase[s] /\ tries'[s] = tries[s] /\ unread'[s] = unread[s]
              /\ loaded'[s] = loaded[s] /\ known'[s] = known[s] /\ seen'[s] = seen[s]
              /\ evidence'[s] = evidence[s] /\ outcome'[s] = outcome[s]
              /\ gone'[s] = gone[s]
  BY <1>1 DEF Forget, EndAs
<1>2. CASE ListFiles(r)
  BY <1>2 DEF ListFiles, Go
<1>3. CASE \E f \in Files : ReadFile(r, f)
  BY <1>3 DEF ReadFile
<1>4. CASE ScoringFails(r) \/ \E f \in Files : ReadFails(r, f)
  <2>1. AttemptFails(r)
    BY <1>4 DEF ScoringFails, ReadFails
  <2> QED
    BY <1>1, <2>1 DEF AttemptFails, locals
<1>5. CASE Loaded(r)
  BY <1>5 DEF Loaded, Go
<1>6. CASE FetchKnown(r) \/ AddMissing(r)
  BY <1>6 DEF FetchKnown, AddMissing, Go
<1>7. CASE Query(r) \/ ChromaFails(r)
  BY <1>7 DEF Query, ChromaFails, Rank, Go
<1>8. CASE Answer(r)
  BY <1>1, <1>8 DEF Answer
<1>9. CASE Ask(r)
  BY <1>9 DEF Ask, Go, locals
<1> QED
  BY <1>2, <1>3, <1>4, <1>5, <1>6, <1>7, <1>8, <1>9 DEF Step

(* Whatever made an attempt fail was one of the three causes, and with       *)
(* langgraph a caller learns of a failure only after the second attempt.     *)
THEOREM FailuresHaveCauses == Spec => FailsOnlyForCause
<1> DEFINE Failing ==
             \A r \in Runs : AttemptFailed(r) =>
               /\ \/ \E f \in gone[r] \ present : NextFile(r, f)
                  \/ \E f \in Unreadable \cap present : NextFile(r, f)
                  \/ unread[r] = {} /\ loaded[r] # {} /\ loaded[r] \cap Worded = {}
               /\ outcome'[r] = "failed" => tries[r] = 2
           Cause(r) ==
             \/ \E f \in gone[r] \ present : NextFile(r, f)
             \/ \E f \in Unreadable \cap present : NextFile(r, f)
             \/ unread[r] = {} /\ loaded[r] # {} /\ loaded[r] \cap Worded = {}
           Caused(r) == AttemptFailed(r) =>
                          Cause(r) /\ (outcome'[r] = "failed" => tries[r] = 2)
<1>1. ASSUME IInv, NEW r \in Runs, Step(r) PROVE \A s \in Runs : Caused(s)
  <2>1. \A s \in Runs \ {r} : Caused(s)
    BY <1>1, OwnStep DEF AttemptFailed
  <2>2. CASE ScoringFails(r) \/ \E f \in Files : ReadFails(r, f)
    <3>1. Cause(r)
      BY <1>1, <2>2 DEF ScoringFails, ReadFails, NextFile, IInv, RemovedAreGone
    <3>2. ASSUME AttemptFailed(r), outcome'[r] = "failed" PROVE tries[r] = 2
      <4>1. AttemptFails(r) /\ tries[r] \in {1, 2}
        BY <1>1, <2>2 DEF ScoringFails, ReadFails, IInv, TypeOK
      <4>2. ASSUME Forget({r}) PROVE phase'[r] = "done"
        BY <4>2 DEF Forget
      <4> QED
        BY <3>2, <4>1, <4>2 DEF AttemptFails, AttemptFailed
    <3> QED
      BY <2>1, <3>1, <3>2
  <2>3. CASE ~ (ScoringFails(r) \/ \E f \in Files : ReadFails(r, f))
    <3>1. ~ AttemptFailed(r)
      BY <1>1, <2>3 DEF AttemptFailed, Step, ListFiles, ReadFile, Loaded, FetchKnown, AddMissing,
         Query, ChromaFails, Rank, Ask, Answer, Go, EndAs, Forget, IInv, TypeOK
    <3> QED
      BY <2>1, <3>1
  <2> QED
    BY <2>2, <2>3
<1>2. ASSUME IInv, NEW r \in Runs, Cancel(r) PROVE \A s \in Runs : ~ AttemptFailed(s)
  BY <1>2 DEF Cancel, EndAs, Forget, AttemptFailed, IInv, TypeOK
<1>3. ASSUME NEW f \in Files, Remove(f) \/ \E content \in Contents[f] : Write(f, content)
      PROVE  \A s \in Runs : ~ AttemptFailed(s)
  BY <1>3 DEF Remove, Write, AttemptFailed
<1>4. ASSUME IInv, Restart PROVE \A s \in Runs : ~ AttemptFailed(s)
  BY <1>4 DEF Restart, Forget, AttemptFailed, IInv, TypeOK
<1>5. IInv /\ [Next]_vars => [Failing]_vars
  <2>1. ASSUME IInv, Next PROVE \A r \in Runs : Caused(r)
    BY <1>1, <1>2, <1>3, <1>4, <2>1 DEF Next
  <2> QED
    BY <2>1
<1> QED
  BY <1>5, Invariance, PTL DEF Spec, FailsOnlyForCause

(* A run that ends tells its caller what the step says, or what it was told. *)
LEMMA ForgottenByForget ==
    ASSUME IInv, NEW ended \in SUBSET Runs, Forget(ended), EndedAreForgotten,
           \A r \in Runs : outcome[r] # "none" => outcome'[r] = outcome[r],
           \A r \in ended : outcome'[r] # "none"
    PROVE  EndedAreForgotten'
BY SettingsAssumption DEF EndedAreForgotten, Forgotten, Forget, FirstTry, IInv, TypeOK

LEMMA ForgottenStep ==
    ASSUME IInv, [Next]_vars, EndedAreForgotten
    PROVE  EndedAreForgotten'
<1>1. ASSUME NEW r \in Runs, NEW how \in {"answered", "not found", "failed", "cancelled"},
             EndAs(r, how)
      PROVE  /\ \A s \in Runs : outcome[s] # "none" => outcome'[s] = outcome[s]
             /\ outcome'[r] # "none"
  BY <1>1 DEF EndAs, IInv, TypeOK
<1>2. ASSUME NEW r \in Runs, Step(r) PROVE EndedAreForgotten'
  <2>1. ASSUME phase'[r] # "done" PROVE EndedAreForgotten'
    BY <1>2, <2>1, OwnStep DEF EndedAreForgotten, Forgotten, FirstTry
  <2>2. ASSUME NEW how \in {"answered", "not found", "failed", "cancelled"},
               EndAs(r, how), Forget({r})
        PROVE  EndedAreForgotten'
    BY <1>1, <2>2, ForgottenByForget, {r} \in SUBSET Runs
  <2>3. \/ phase'[r] # "done"
        \/ \E how \in {"answered", "not found", "failed", "cancelled"} : EndAs(r, how) /\ Forget({r})
    BY <1>2 DEF Step, ListFiles, ReadFile, ReadFails, ScoringFails, AttemptFails, Loaded, FetchKnown,
       AddMissing, Query, ChromaFails, Rank, Ask, Answer, Go, IInv, TypeOK
  <2> QED
    BY <2>1, <2>2, <2>3
<1>3. ASSUME NEW r \in Runs, Cancel(r) PROVE EndedAreForgotten'
  <2> DEFINE ended == {r} \cap {s \in Runs : phase[s] \in {"idle", "again"}}
  <2>1. ended \in SUBSET Runs /\ Forget(ended) /\ \A s \in ended : s = r
    BY <1>3 DEF Cancel
  <2> HIDE DEF ended
  <2> QED
    BY <1>1, <1>3, <2>1, ForgottenByForget DEF Cancel
<1>4. CASE \E f \in Files : Remove(f) \/ \E content \in Contents[f] : Write(f, content)
  BY <1>4 DEF Remove, Write, runVars, EndedAreForgotten, Forgotten, FirstTry
<1>5. CASE Restart
  <2> DEFINE begun == {r \in Runs : phase[r] # "idle"}
  <2>1. begun \in SUBSET Runs /\ Forget(begun)
    BY <1>5 DEF Restart
  <2>2. /\ \A r \in Runs : outcome[r] # "none" => outcome'[r] = outcome[r]
        /\ \A r \in begun : outcome'[r] # "none"
    BY <1>5 DEF Restart
  <2> HIDE DEF begun
  <2> QED
    BY <2>1, <2>2, ForgottenByForget
<1>6. CASE UNCHANGED vars
  BY <1>6 DEF vars, runVars, EndedAreForgotten, Forgotten, FirstTry
<1> QED
  BY <1>2, <1>3, <1>4, <1>5, <1>6 DEF Next

(* A run that ended, for whatever reason, has told its caller something and *)
(* holds no file, chunk or attempt any more, also one whose thread went on  *)
(* after the cancellation.                                                  *)
THEOREM EndedHoldNothing == Spec => []EndedAreForgotten
<1>1. Init => EndedAreForgotten
  BY DEF Init, EndedAreForgotten, Forgotten
<1> QED
  BY <1>1, ForgottenStep, Invariance, PTL DEF Spec

(* Every step takes one run on in its course, or one file off its list, and *)
(* leaves the others where they are; or it changes the folder, or tells a   *)
(* caller that its run is cancelled; or it is a restart, which ends some    *)
(* run and takes back none.  Of each there are only so many, so the retry   *)
(* without langgraph, the threads and the restarts never go round in a      *)
(* circle, and the fairness of RunsEnd is needed for the next step only.    *)
RunsAdvance ==
    [][\/ \E r \in Runs : GoesOn(r) /\ \A s \in Runs \ {r} : Stands(s)
       \/ edits' = edits + 1 /\ \A r \in Runs : Stands(r)
       \/ /\ \E r \in Runs : outcome[r] = "none" /\ outcome'[r] = "cancelled"
          /\ \A r \in Runs : Stands(r)
       \/ /\ \E r \in Runs : Under(r)
          /\ \A r \in Runs : IF Under(r) THEN phase'[r] = "done" ELSE Stands(r)]_vars

LEMMA Places ==
    ASSUME NEW try \in {1, 2}
    PROVE  /\ PlaceOf("idle", try) = 7 * try /\ PlaceOf("again", try) = 7 * try
           /\ PlaceOf("reading", try) = 7 * try + 1 /\ PlaceOf("embedding", try) = 7 * try + 2
           /\ PlaceOf("adding", try) = 7 * try + 3 /\ PlaceOf("querying", try) = 7 * try + 4
           /\ PlaceOf("retrieved", try) = 7 * try + 5 /\ PlaceOf("asking", try) = 7 * try + 6
           /\ PlaceOf("done", try) = 21
<1>1. 7 * try \in {7, 14}
  OBVIOUS
<1> QED
  BY <1>1 DEF PlaceOf

LEMMA Onward ==
    /\ PlaceOf("reading", 1) < PlaceOf("again", 2)
    /\ \A try \in {1, 2} :
          /\ \A at \in {"idle", "again"} : PlaceOf(at, try) < PlaceOf("reading", try)
          /\ PlaceOf("reading", try) < PlaceOf("embedding", try)
          /\ PlaceOf("embedding", try) < PlaceOf("adding", try)
          /\ PlaceOf("adding", try) < PlaceOf("querying", try)
          /\ \A at \in {"reading", "embedding", "adding", "querying"} :
                PlaceOf(at, try) < PlaceOf("retrieved", try)
          /\ PlaceOf("retrieved", try) < PlaceOf("asking", try)
<1>1. \A try \in {1, 2} : 7 * try \in {7, 14}
  OBVIOUS
<1>2. PlaceOf("reading", 1) = 8 /\ PlaceOf("again", 2) = 14
  BY DEF PlaceOf
<1> QED
  BY <1>1, <1>2, Places

LEMMA PlaceBeforeEnd ==
    ASSUME NEW at \in Phases \ {"done"}, NEW try \in {1, 2}
    PROVE  PlaceOf(at, try) \in Nat /\ PlaceOf(at, try) < 21
<1>1. 7 * try \in {7, 14}
  OBVIOUS
<1> QED
  BY <1>1, Places DEF Phases

LEMMA StepAdvances ==
    ASSUME IInv, NEW r \in Runs, Step(r)
    PROVE  GoesOn(r)
<1>1. tries[r] \in {1, 2} /\ tries'[r] \in {1, 2}
  BY NextIInv DEF Next, IInv, TypeOK
<1>2. phase[r] \in Phases \ {"done"}
  BY DEF Step, ListFiles, ReadFile, ReadFails, ScoringFails, Loaded, FetchKnown, AddMissing,
     Query, ChromaFails, Rank, Ask, Answer, IInv, TypeOK
<1>3. ASSUME phase'[r] = "done" PROVE Place(r) < Place(r)'
  BY <1>1, <1>2, <1>3, Places, PlaceBeforeEnd DEF Place
<1>4. CASE ListFiles(r)
  <2>1. phase[r] \in {"idle", "again"} /\ phase'[r] = "reading" /\ tries'[r] = tries[r]
    BY <1>4 DEF ListFiles, Go, IInv, TypeOK
  <2> QED
    BY <1>1, <2>1, Onward DEF Place, GoesOn
<1>5. CASE \E f \in Files : ReadFile(r, f)
  BY <1>5 DEF ReadFile, NextFile, Place, GoesOn, IInv, TypeOK
<1>6. CASE ScoringFails(r) \/ \E f \in Files : ReadFails(r, f)
  <2>1. AttemptFails(r) /\ phase[r] = "reading"
    BY <1>6 DEF ScoringFails, ReadFails
  <2>2. CASE phase' = [phase EXCEPT ![r] = "again"] /\ tries[r] = 1 /\ tries' = [tries EXCEPT ![r] = 2]
    <3>1. phase'[r] = "again" /\ tries'[r] = 2
      BY <2>2 DEF IInv, TypeOK
    <3> QED
      BY <2>1, <2>2, <3>1, Onward DEF Place, GoesOn
  <2>3. CASE Forget({r})
    BY <1>3, <2>3 DEF Forget, GoesOn, IInv, TypeOK
  <2> QED
    BY <2>1, <2>2, <2>3 DEF AttemptFails
<1>7. CASE Loaded(r)
  <2>1. phase[r] = "reading" /\ phase'[r] \in {"retrieved", "embedding"} /\ tries'[r] = tries[r]
    BY <1>7 DEF Loaded, Go, IInv, TypeOK
  <2> QED
    BY <1>1, <2>1, Onward DEF Place, GoesOn
<1>8. CASE FetchKnown(r) \/ AddMissing(r)
  <2>1. /\ \/ phase[r] = "embedding" /\ phase'[r] = "adding"
           \/ phase[r] = "adding" /\ phase'[r] = "querying"
        /\ tries'[r] = tries[r]
    BY <1>8 DEF FetchKnown, AddMissing, Go, IInv, TypeOK
  <2> QED
    BY <1>1, <2>1, Onward DEF Place, GoesOn
<1>9. CASE Query(r) \/ ChromaFails(r)
  <2>1. /\ phase[r] \in {"embedding", "adding", "querying"} /\ phase'[r] = "retrieved"
        /\ tries'[r] = tries[r]
    BY <1>9 DEF Query, ChromaFails, Rank, Go, IInv, TypeOK
  <2> QED
    BY <1>1, <2>1, Onward DEF Place, GoesOn
<1>10. CASE Answer(r)
  BY <1>3, <1>10 DEF Answer, Forget, GoesOn, IInv, TypeOK
<1>11. CASE Ask(r)
  <2>1. phase[r] = "retrieved" /\ phase'[r] = "asking" /\ tries'[r] = tries[r]
    BY <1>11 DEF Ask, Go, IInv, TypeOK
  <2> QED
    BY <1>1, <2>1, Onward DEF Place, GoesOn
<1> QED
  BY <1>4, <1>5, <1>6, <1>7, <1>8, <1>9, <1>10, <1>11 DEF Step

(* A restart of a service without runs changes nothing. *)
LEMMA IdleRestart ==
    ASSUME IInv, EndedAreForgotten, Restart, \A r \in Runs : ~ Under(r)
    PROVE  UNCHANGED vars
<1> USE DEF IInv, TypeOK
<1>1. \A r \in Runs : phase[r] # "idle" => phase[r] = "done"
  BY DEF Under
<1>2. phase' = phase /\ outcome' = outcome
  BY <1>1 DEF Restart, Forget, EndedAreForgotten, Forgotten
<1>3. tries' = tries
  BY <1>1 DEF Restart, Forget, EndedAreForgotten, Forgotten
<1>4. unread' = unread /\ loaded' = loaded
  BY <1>1 DEF Restart, Forget, EndedAreForgotten, Forgotten
<1>5. known' = known /\ evidence' = evidence /\ seen' = seen /\ gone' = gone
  BY <1>1 DEF Restart, Forget, EndedAreForgotten, Forgotten
<1> QED
  BY <1>2, <1>3, <1>4, <1>5 DEF Restart, Forget, vars, runVars

THEOREM NoRunGoesBack == Spec => RunsAdvance
<1> DEFINE Moves ==
      \/ \E r \in Runs : GoesOn(r) /\ \A s \in Runs \ {r} : Stands(s)
      \/ edits' = edits + 1 /\ \A r \in Runs : Stands(r)
      \/ /\ \E r \in Runs : outcome[r] = "none" /\ outcome'[r] = "cancelled"
         /\ \A r \in Runs : Stands(r)
      \/ /\ \E r \in Runs : Under(r)
         /\ \A r \in Runs : IF Under(r) THEN phase'[r] = "done" ELSE Stands(r)
<1>1. ASSUME IInv, EndedAreForgotten, Next PROVE Moves \/ UNCHANGED vars
  <2>1. ASSUME NEW r \in Runs, Step(r) PROVE Moves
    <3>1. \A s \in Runs \ {r} : Stands(s)
      BY <1>1, <2>1, OwnStep DEF Stands, Place
    <3> QED
      BY <1>1, <2>1, <3>1, StepAdvances
  <2>2. ASSUME NEW r \in Runs, Cancel(r) PROVE Moves
    <3>1. CASE phase[r] \in {"idle", "again"}
      <4>1. Forget({r})
        <5>1. {r} \cap {s \in Runs : phase[s] \in {"idle", "again"}} = {r}
          BY <3>1
        <5> QED
          BY <2>2, <5>1 DEF Cancel
      <4>2. \A s \in Runs \ {r} : Stands(s)
        BY <1>1, <4>1 DEF Forget, Stands, Place, IInv, TypeOK
      <4>3. Place(r) < Place(r)'
        <5>1. phase'[r] = "done" /\ tries[r] \in {1, 2} /\ phase[r] \in Phases \ {"done"}
          BY <1>1, <3>1, <4>1 DEF Forget, IInv, TypeOK, Phases
        <5>2. PlaceOf("done", tries'[r]) = 21
          BY DEF PlaceOf
        <5> QED
          BY <5>1, <5>2, PlaceBeforeEnd DEF Place
      <4> QED
        BY <4>2, <4>3 DEF GoesOn
    <3>2. CASE phase[r] \notin {"idle", "again"}
      <4>1. Forget({})
        <5>1. {r} \cap {s \in Runs : phase[s] \in {"idle", "again"}} = {}
          BY <3>2
        <5> QED
          BY <2>2, <5>1 DEF Cancel
      <4>2. \A s \in Runs : Stands(s)
        BY <1>1, <4>1 DEF Forget, Stands, Place, IInv, TypeOK
      <4>3. outcome[r] = "none" /\ outcome'[r] = "cancelled"
        BY <1>1, <2>2 DEF Cancel, EndAs, IInv, TypeOK
      <4> QED
        BY <4>2, <4>3
    <3> QED
      BY <3>1, <3>2
  <2>3. CASE \E f \in Files : Remove(f) \/ \E content \in Contents[f] : Write(f, content)
    BY <2>3 DEF Remove, Write, runVars, Stands, Place
  <2>4. CASE Restart
    <3>1. CASE \A r \in Runs : ~ Under(r)
      BY <1>1, <2>4, <3>1, IdleRestart
    <3>2. ASSUME NEW r \in Runs, Under(r) PROVE phase'[r] = "done"
      BY <2>4, <3>2 DEF Restart, Forget, Under
    <3>3. ASSUME NEW r \in Runs, ~ Under(r) PROVE Stands(r)
      BY <1>1, <2>4, <3>3 DEF Restart, Forget, Under, Stands, Place, EndedAreForgotten,
         Forgotten, IInv, TypeOK
    <3> QED
      BY <3>1, <3>2, <3>3
  <2> QED
    BY <1>1, <2>1, <2>2, <2>3, <2>4 DEF Next
<1>2. IInv /\ EndedAreForgotten /\ [Next]_vars => [Moves]_vars
  BY <1>1
<1>3. Spec => [](IInv /\ EndedAreForgotten)
  BY Invariance, EndedHoldNothing, PTL
<1> QED
  BY <1>2, <1>3, PTL DEF Spec, RunsAdvance
=============================================================================
