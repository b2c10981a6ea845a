--------------------------- MODULE KnowledgeAgent ---------------------------
(***************************************************************************)
(* The internal Knowledge agent of the A2A service                         *)
(* (a2a/app/internal_knowledge_agent.py).  Each run loads the documents of *)
(* a folder in chunks, ranks the chunks by words and by vectors, and words *)
(* an answer from the best.  Retrieval runs in a thread: those of several  *)
(* runs interleave, on a folder that people edit and on one collection of  *)
(* vectors that is kept on disk, into which chunks are put and from which  *)
(* none is ever taken.  A thread outlives the cancellation of its run.     *)
(*                                                                         *)
(* A chunk stands for its identifier, which is a hash of the file, the     *)
(* place in it and the text.  Scores are numbers of which only the order   *)
(* counts.                                                                 *)
(***************************************************************************)
EXTENDS Integers, FiniteSets

CONSTANTS
    Runs,
    Files,        \* the files of the folder, numbers in the order of their paths
    Pdfs,         \* those that are PDFs: one that cannot be opened is skipped
    Unreadable,   \* those whose text cannot be had: no permission, an encrypted PDF
    Chunks,
    Worded,       \* those with a token in them: a Latin letter, a digit or _
    Contents,     \* what each file can hold, as sets of chunks
    Count,        \* how often a run's query words occur in each chunk
    Okapi,        \* its BM25 scores, which depend on all the chunks loaded
    Similarity,   \* how near each chunk's vector is to the query's
    TopK,         \* internal_knowledge_top_k
    HasGraph,     \* langgraph is installed
    MaxEdits      \* bound: changes to the folder

ASSUME FilesAssumption ==
    /\ IsFiniteSet(Chunks)
    /\ Files \subseteq Nat /\ Pdfs \subseteq Files /\ Unreadable \subseteq Files
    /\ Worded \subseteq Chunks
    /\ Contents \in [Files -> SUBSET SUBSET Chunks]
ASSUME ScoreAssumption ==
    /\ Count \in [Runs -> [Chunks -> Nat]]
    /\ Okapi \in [Runs -> [SUBSET Chunks -> [Chunks -> Int]]]
    /\ Similarity \in [Runs -> [Chunks -> Nat \ {0}]]
ASSUME SettingsAssumption == TopK \in Nat \ {0} /\ HasGraph \in BOOLEAN /\ MaxEdits \in Nat

VARIABLES
    folder,       \* what each file holds
    present,      \* the files that exist
    edits,        \* how often the folder changed
    collection,   \* the chunks whose vectors are in Chroma's collection
    phase,        \* where the retrieval or the wording of each run is
    tries,        \* 1 within langgraph, 2 without it
    unread,       \* the files a run has listed and not read
    loaded,       \* the chunks it has loaded
    known,        \* those of them it found in the collection
    evidence,     \* the chunks it retrieved
    outcome,      \* how it ended for its caller
    seen,         \* the chunks that were in the folder since it listed the files
    gone          \* the files removed while it had listed and not read them

folderVars == <<folder, present, edits>>
runVars == <<phase, tries, unread, loaded, known, evidence, outcome, seen, gone>>
vars == <<folderVars, collection, runVars>>

-----------------------------------------------------------------------------
Maximum(m, n) == IF m >= n THEN m ELSE n
Minimum(m, n) == IF m <= n THEN m ELSE n

InFolder == UNION {folder[f] : f \in present}

(* The sets of k members of a set with the highest scores. *)
Best(k, set, score) ==
    {top \in SUBSET set : /\ Cardinality(top) = Minimum(k, Cardinality(set))
                          /\ \A c \in top, d \in set \ top : score[c] >= score[d]}

(* Mutant: the scores of BM25 as they are. *)
LexicalOkapi(r, chunks) == [c \in chunks |-> Okapi[r][chunks][c]]

(* BM25 scores, which of words that are in most chunks need not be         *)
(* positive; when none is, plain counts.                                   *)
Lexical(r, chunks) ==
    IF \E c \in chunks : Okapi[r][chunks][c] > 0
    THEN [c \in chunks |-> Okapi[r][chunks][c]]
    ELSE [c \in chunks |-> Count[r][c]]

(* Mutant: the score by vectors replaces the one by words. *)
ScoreOfLast(r, hits, c) ==
    IF c \in hits THEN Similarity[r][c] ELSE Lexical(r, loaded[r])[c]

(* A chunk found both ways keeps the better score. *)
ScoreOf(r, hits, c) ==
    IF c \in hits THEN Maximum(Similarity[r][c], Lexical(r, loaded[r])[c])
                  ELSE Lexical(r, loaded[r])[c]

Ranked(r, hits) == hits \cup {c \in loaded[r] : Lexical(r, loaded[r])[c] > 0}

-----------------------------------------------------------------------------
FirstTry == IF HasGraph THEN 1 ELSE 2

Init ==
    /\ folder \in [Files -> SUBSET Chunks]
    /\ \A f \in Files : folder[f] \in Contents[f]
    /\ present \in SUBSET Files
    /\ edits = 0
    /\ collection = {}
    /\ phase = [r \in Runs |-> "idle"]
    /\ tries = [r \in Runs |-> FirstTry]
    /\ unread = [r \in Runs |-> {}]
    /\ loaded = [r \in Runs |-> {}]
    /\ known = [r \in Runs |-> {}]
    /\ evidence = [r \in Runs |-> {}]
    /\ outcome = [r \in Runs |-> "none"]
    /\ seen = [r \in Runs |-> {}]
    /\ gone = [r \in Runs |-> {}]

locals == <<unread, loaded, known, evidence, seen, gone>>

Go(r, next) == phase' = [phase EXCEPT ![r] = next] /\ UNCHANGED tries

(* What a run worked with goes when it ends. *)
Forget(ended) ==
    /\ phase' = [r \in Runs |-> IF r \in ended THEN "done" ELSE phase[r]]
    /\ unread' = [r \in Runs |-> IF r \in ended THEN {} ELSE unread[r]]
    /\ loaded' = [r \in Runs |-> IF r \in ended THEN {} ELSE loaded[r]]
    /\ known' = [r \in Runs |-> IF r \in ended THEN {} ELSE known[r]]
    /\ evidence' = [r \in Runs |-> IF r \in ended THEN {} ELSE evidence[r]]
    /\ seen' = [r \in Runs |-> IF r \in ended THEN {} ELSE seen[r]]
    /\ gone' = [r \in Runs |-> IF r \in ended THEN {} ELSE gone[r]]
    /\ tries' = [r \in Runs |-> IF r \in ended THEN FirstTry ELSE tries[r]]
    /\ UNCHANGED <<folderVars, collection>>

EndAs(r, how) ==
    outcome' = [outcome EXCEPT ![r] = IF @ = "none" THEN how ELSE @]

(* People write and remove documents. *)
Write(f, content) ==
    /\ edits < MaxEdits
    /\ edits' = edits + 1
    /\ folder' = [folder EXCEPT ![f] = content]
    /\ present' = present \cup {f}
    /\ seen' = [r \in Runs |-> IF phase[r] \in {"idle", "done"} THEN seen[r]
                               ELSE seen[r] \cup content]
    /\ UNCHANGED <<collection, phase, tries, unread, loaded, known, evidence, outcome, gone>>

Remove(f) ==
    /\ edits < MaxEdits
    /\ f \in present
    /\ edits' = edits + 1
    /\ present' = present \ {f}
    /\ gone' = [r \in Runs |-> IF f \in unread[r] THEN gone[r] \cup {f} ELSE gone[r]]
    /\ UNCHANGED <<folder, collection, phase, tries, unread, loaded, known, evidence, outcome, seen>>

-----------------------------------------------------------------------------
(* Loading. *)

ListFiles(r) ==
    /\ phase[r] \in {"idle", "again"}
    /\ Go(r, "reading")
    /\ unread' = [unread EXCEPT ![r] = present]
    /\ loaded' = [loaded EXCEPT ![r] = {}]
    /\ seen' = [seen EXCEPT ![r] = InFolder]
    /\ gone' = [gone EXCEPT ![r] = {}]
    /\ UNCHANGED <<folderVars, collection, known, evidence, outcome>>

NextFile(r, f) == f \in unread[r] /\ \A g \in unread[r] : f <= g

ReadFile(r, f) ==
    /\ phase[r] = "reading"
    /\ NextFile(r, f)
    /\ IF f \in present THEN f \notin Unreadable ELSE f \in Pdfs
    /\ unread' = [unread EXCEPT ![r] = @ \ {f}]
    /\ loaded' = [loaded EXCEPT ![r] = IF f \in present THEN @ \cup folder[f] ELSE @]
    /\ UNCHANGED <<folderVars, collection, phase, tries, known, evidence, outcome, seen, gone>>

(* Mutant: whatever fails is tried again. *)
AttemptFailsAgain(r) ==
    IF outcome[r] = "none"
    THEN /\ phase' = [phase EXCEPT ![r] = "again"]
         /\ tries' = [tries EXCEPT ![r] = 2]
         /\ UNCHANGED <<folderVars, collection, locals, outcome>>
    ELSE EndAs(r, "failed") /\ Forget({r})

(* Something raises.  A failure within langgraph makes the agent try again *)
(* without it; a cancelled run has nobody to tell.                         *)
AttemptFails(r) ==
    IF outcome[r] = "none" /\ tries[r] = 1
    THEN /\ phase' = [phase EXCEPT ![r] = "again"]
         /\ tries' = [tries EXCEPT ![r] = 2]
         /\ UNCHANGED <<folderVars, collection, locals, outcome>>
    ELSE EndAs(r, "failed") /\ Forget({r})

(* A file that was listed is gone, or its text cannot be had.  Only a PDF  *)
(* that cannot be opened is passed over.                                   *)
ReadFails(r, f) ==
    /\ phase[r] = "reading"
    /\ NextFile(r, f)
    /\ IF f \in present THEN f \in Unreadable ELSE f \notin Pdfs
    /\ AttemptFails(r)

(* Mutant: an empty folder is scored like any other. *)
ScoringFailsOfNothing(r) ==
    /\ phase[r] = "reading"
    /\ unread[r] = {} /\ loaded[r] \cap Worded = {}
    /\ AttemptFails(r)

(* BM25 divides by the number of different tokens in the chunks, and       *)
(* nothing catches what that raises: a folder all in Arabic has none.      *)
ScoringFails(r) ==
    /\ phase[r] = "reading"
    /\ unread[r] = {} /\ loaded[r] # {} /\ loaded[r] \cap Worded = {}
    /\ AttemptFails(r)

(* Without chunks there is no evidence; else the words are scored. *)
Loaded(r) ==
    /\ phase[r] = "reading"
    /\ unread[r] = {}
    /\ loaded[r] = {} \/ loaded[r] \cap Worded # {}
    /\ IF loaded[r] = {}
       THEN Go(r, "retrieved") /\ evidence' = [evidence EXCEPT ![r] = {}]
       ELSE Go(r, "embedding") /\ UNCHANGED evidence
    /\ UNCHANGED <<folderVars, collection, unread, loaded, known, outcome, seen, gone>>

-----------------------------------------------------------------------------
(* Ranking.  Words need nothing but the chunks; vectors go through Chroma. *)

FetchKnown(r) ==
    /\ phase[r] = "embedding"
    /\ known' = [known EXCEPT ![r] = loaded[r] \cap collection]
    /\ Go(r, "adding")
    /\ UNCHANGED <<folderVars, collection, unread, loaded, evidence, outcome, seen, gone>>

(* What another run has added meanwhile is ignored by Chroma. *)
AddMissing(r) ==
    /\ phase[r] = "adding"
    /\ collection' = collection \cup (loaded[r] \ known[r])
    /\ Go(r, "querying")
    /\ UNCHANGED <<folderVars, unread, loaded, known, evidence, outcome, seen, gone>>

Rank(r, hits) ==
    /\ \E top \in Best(TopK, Ranked(r, hits), [c \in Ranked(r, hits) |-> ScoreOf(r, hits, c)]) :
          evidence' = [evidence EXCEPT ![r] = top]
    /\ Go(r, "retrieved")
    /\ UNCHANGED <<folderVars, collection, unread, loaded, known, outcome, seen, gone>>

Nearest(r) == Best(Minimum(TopK, Cardinality(loaded[r])), collection, Similarity[r])

(* Mutant: what the collection returns is taken for what the folder holds. *)
QueryAll(r) ==
    /\ phase[r] = "querying"
    /\ \E nearest \in Nearest(r) :
          \E top \in Best(TopK, nearest, Similarity[r]) :
             evidence' = [evidence EXCEPT ![r] = top]
    /\ Go(r, "retrieved")
    /\ UNCHANGED <<folderVars, collection, unread, loaded, known, outcome, seen, gone>>

(* The nearest chunks of all that ever were in the folder; those that are  *)
(* not loaded now have taken the place of others.                          *)
Query(r) ==
    /\ phase[r] = "querying"
    /\ \E nearest \in Nearest(r) : Rank(r, nearest \cap loaded[r])

(* Chroma is missing or fails at any point: only words count. *)
ChromaFails(r) ==
    /\ phase[r] \in {"embedding", "adding", "querying"}
    /\ Rank(r, {})

-----------------------------------------------------------------------------
(* With evidence Gemini is asked in a thread, where it is configured.  The *)
(* call has no timeout.                                                    *)
Ask(r) ==
    /\ phase[r] = "retrieved"
    /\ evidence[r] # {} /\ outcome[r] = "none"
    /\ Go(r, "asking")
    /\ UNCHANGED <<folderVars, collection, locals, outcome>>

(* The answer: none without evidence, else Gemini's words, or an extract   *)
(* where that is not configured, fails or says nothing.                    *)
Answer(r) ==
    /\ phase[r] \in {"retrieved", "asking"}
    /\ EndAs(r, IF evidence[r] = {} THEN "not found" ELSE "answered")
    /\ Forget({r})

(* The caller's task is cancelled; a thread that runs goes on. *)
Cancel(r) ==
    /\ phase[r] # "done"
    /\ outcome[r] = "none"
    /\ EndAs(r, "cancelled")
    /\ Forget({r} \cap {s \in Runs : phase[s] \in {"idle", "again"}})

(* The service restarts: its runs are gone, the collection is not. *)
Restart ==
    LET begun == {r \in Runs : phase[r] # "idle"} IN
    /\ outcome' = [r \in Runs |-> IF r \in begun /\ outcome[r] = "none" THEN "cancelled"
                                  ELSE outcome[r]]
    /\ Forget(begun)

Step(r) ==
    \/ ListFiles(r)
    \/ \E f \in Files : ReadFile(r, f) \/ ReadFails(r, f)
    \/ ScoringFails(r)
    \/ Loaded(r)
    \/ FetchKnown(r)
    \/ AddMissing(r)
    \/ Query(r)
    \/ ChromaFails(r)
    \/ Ask(r)
    \/ Answer(r)

Next ==
    \/ \E r \in Runs : Step(r) \/ Cancel(r)
    \/ \E f \in Files : Remove(f) \/ \E content \in Contents[f] : Write(f, content)
    \/ Restart

(* Of the runs that began and do not wait for Gemini some run gets on:       *)
(* threads run and calls of the local Chroma return.  A call of Gemini need  *)
(* not return, and nobody need start, edit, cancel or restart anything.      *)
Fairness == WF_vars(\E r \in Runs : phase[r] \notin {"idle", "asking"} /\ Step(r))

Spec == Init /\ [][Next]_vars /\ Fairness

-----------------------------------------------------------------------------
(* Properties. *)

Phases == {"idle", "reading", "again", "embedding", "adding", "querying", "retrieved",
           "asking", "done"}

(* Every variable has its type.                                              *)
TypeOK ==
    /\ folder \in [Files -> SUBSET Chunks]
    /\ present \in SUBSET Files
    /\ edits \in 0 .. MaxEdits
    /\ collection \in SUBSET Chunks
    /\ phase \in [Runs -> Phases]
    /\ tries \in [Runs -> {1, 2}]
    /\ unread \in [Runs -> SUBSET Files]
    /\ loaded \in [Runs -> SUBSET Chunks]
    /\ known \in [Runs -> SUBSET Chunks]
    /\ evidence \in [Runs -> SUBSET Chunks]
    /\ outcome \in [Runs -> {"none", "answered", "not found", "failed", "cancelled"}]
    /\ seen \in [Runs -> SUBSET Chunks]
    /\ gone \in [Runs -> SUBSET Files]

(* Evidence was in the folder since the run began to look, whatever older    *)
(* editions the collection has kept and other runs are adding to it.         *)
EvidenceWasCurrent == \A r \in Runs : evidence[r] \subseteq seen[r]

(* Of the chunks loaded and retrieved, none with words of the query was left *)
(* out for one that ranks lower, by words and by vectors, or without need.   *)
LeavesOutOnlyWorse(r, chunks, retrieved) ==
    \A c \in chunks \ retrieved : Lexical(r, chunks)[c] > 0 =>
        /\ Cardinality(retrieved) = TopK
        /\ \A e \in retrieved :
              Maximum(Similarity[r][e], Lexical(r, chunks)[e]) >= Lexical(r, chunks)[c]

(* Merging the two rankings loses no chunk found by words that belongs among *)
(* the best, nor does a failure of Chroma at any point.                      *)
NothingBetterLeftOut ==
    \A r \in Runs : phase[r] = "retrieved" =>
                      LeavesOutOnlyWorse(r, loaded[r], evidence[r])

(* A run that is to report that nothing was found has loaded no chunk with a *)
(* word of the query in it, also where BM25 gives such words no positive score.   *)
NotFoundIsTrue ==
    \A r \in Runs : phase[r] = "retrieved" /\ evidence[r] = {} =>
                      \A c \in loaded[r] : Count[r][c] = 0

(* When a run queries the collection, all it has loaded is in it, though     *)
(* others added to it since it looked what was missing.                      *)
QueriedIsIndexed == \A r \in Runs : phase[r] = "querying" => loaded[r] \subseteq collection

(* An attempt fails: it is tried again, or its caller gets the error. *)
AttemptFailed(r) ==
    \/ phase[r] # "again" /\ phase'[r] = "again"
    \/ outcome[r] = "none" /\ outcome'[r] = "failed"

(* An attempt fails only for one of three reasons: a file that it listed was *)
(* removed before it came to read it, one it came to cannot be read, or of   *)
(* all the chunks it loaded none has a token.  An empty folder, a cancelled  *)
(* run, other runs and Chroma make none fail; and of a run with langgraph    *)
(* two attempts must fail before its caller gets an error.                   *)
FailsOnlyForCause ==
    [][\A r \in Runs : AttemptFailed(r) =>
         /\ \/ \E f \in gone[r] \ present : NextFile(r, f)
            \/ \E f \in Unreadable \cap present : NextFile(r, f)
            \/ unread[r] = {} /\ loaded[r] # {} /\ loaded[r] \cap Worded = {}
         /\ outcome'[r] = "failed" => tries[r] = 2]_vars

(* Again and again every run that began has ended, with an answer, with an   *)
(* error or cancelled, and so has its thread, unless it waits for Gemini,    *)
(* which may take for ever: no other wait and no row of failures keeps one.  *)
RunsEnd ==
    []<>(\A r \in Runs : \/ phase[r] \in {"idle", "asking"}
                         \/ phase[r] = "done" /\ outcome[r] # "none")
=============================================================================
