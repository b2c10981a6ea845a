------------------------- MODULE OnboardingBackend -------------------------
(***************************************************************************)
(* The onboarding backend (NexTalent-app/backend/app/main.py): the cases,  *)
(* documents, agent runs, plans and questions it keeps in PostgreSQL, the  *)
(* CV extractions it keeps in MongoDB, and the HTTP handlers that change   *)
(* them.                                                                   *)
(*                                                                         *)
(* Two kinds of handlers run at the same time in the one server process.   *)
(* A "def" handler runs in a thread: it loads rows, and commits later,     *)
(* whatever the others did meanwhile.  An "async def" handler runs on the  *)
(* event loop: between two awaits no other async handler runs, but threads *)
(* still commit.  The variable loop says which async handler is in such a  *)
(* section; a section that other handlers cannot tell from one step is one *)
(* step and leaves loop alone.                                             *)
(***************************************************************************)
EXTENDS Naturals

CONSTANTS
    Cases,      \* the onboarding cases that exist or may be created
    Seeded,     \* the cases seed.py creates before the server starts
    Requests,   \* the HTTP requests that reach the server, each once
    Endpoint,   \* the handler each request goes to
    NoOne       \* no request, no case

Endpoints == {"CREATE", "PATCH", "UPLOAD", "GENERATE", "GENERATE_FORCED",
              "REVISE", "APPROVE", "ASK", "CALLBACK"}

ASSUME SeededAssumption == Seeded \subseteq Cases
ASSUME EndpointAssumption == Endpoint \in [Requests -> Endpoints]
ASSUME NoOneAssumption == NoOne \notin Requests /\ NoOne \notin Cases

VARIABLES
    cases,        \* table onboarding_cases
    documents,    \* table documents; a row is named after the upload that added it
    extractions,  \* collection cv_extractions: the uploads whose extraction is stored
    runs,         \* table agent_runs; a row is named after the request that added it
    plans,        \* table plans; a row is named after the request that handled the result
    questions,    \* table questions, its status column; a row is named after its run
    handler,      \* what the handler of each request has done, and the rows it holds
    loop          \* the async handler in a section without await, or NoOne

tables == <<cases, documents, extractions, runs, plans, questions>>
vars == <<cases, documents, extractions, runs, plans, questions, handler, loop>>

-----------------------------------------------------------------------------
(* Rows.  "NONE" (for a case "ABSENT") is the status of a row that does not *)
(* exist.                                                                   *)

CaseStatus == {"DRAFT", "READY_FOR_PLAN", "REVIEW", "ACTIVE"}

CaseRow == [status : CaseStatus \cup {"ABSENT"}, version : Nat]

NewCase == [status |-> "DRAFT", version |-> 1]

DocumentRow == [status : {"NONE", "PROCESSED", "FAILED"},
                case   : Cases \cup {NoOne}]

(* What WF-01 says of a run, as find_terminal_payload, extract_plan_data    *)
(* and extract_answer_data tell it apart: the run failed; it is done and    *)
(* the plan or answer is there; it is done and there is none; or nothing is *)
(* terminal yet, as in the acknowledgement of an asynchronous flow.         *)
Payload == {"FAILED", "DONE", "NO_ARTIFACT", "ACK"}

RunStatus == {"RUNNING", "FAILED", "COMPLETED"}

(* The semantic key of a run is operation:case:version, made unique by a    *)
(* random suffix unless the request was an unforced generation.             *)
RunRow == [status    : RunStatus \cup {"NONE"},
           operation : {"GENERATE_PLAN", "REVISE_PLAN", "ANSWER_QUESTION"},
           case      : Cases \cup {NoOne},
           version   : Nat,
           unique    : BOOLEAN,
           result    : Payload \cup {"NONE"}]

PlanRow == [status  : {"NONE", "UNDER_REVIEW", "APPROVED"},
            case    : Cases \cup {NoOne},
            version : Nat,
            run     : Requests \cup {NoOne}]

QuestionStatus == {"NONE", "PENDING", "COMPLETED", "FAILED"}

(* Mutant: a run starts in the status a question starts in. *)
NewRunPending(operation, c, version, unique) ==
    [status |-> "PENDING", operation |-> operation, case |-> c,
     version |-> version, unique |-> unique, result |-> "NONE"]

NewRun(operation, c, version, unique) ==
    [status |-> "RUNNING", operation |-> operation, case |-> c,
     version |-> version, unique |-> unique, result |-> "NONE"]

PlanExists(p) == plans[p].status # "NONE"
PlanVersions(c) ==
    {plans[p].version : p \in {q \in Requests : PlanExists(q) /\ plans[q].case = c}}

(* select(func.max(Plan.version)) or 0 *)
IsLatestVersion(c, n) ==
    /\ n \in {0} \cup PlanVersions(c)
    /\ \A v \in PlanVersions(c) : v <= n

HasProcessedDocument(c) ==
    \E u \in Requests : documents[u].status = "PROCESSED" /\ documents[u].case = c

(* The run an unforced generation for this case and version already made.  *)
HasSemanticKey(r, c, version) ==
    /\ runs[r].status # "NONE"
    /\ runs[r].operation = "GENERATE_PLAN"
    /\ ~ runs[r].unique
    /\ runs[r].case = c
    /\ runs[r].version = version

-----------------------------------------------------------------------------
(* Handlers. *)

Blocking == {"storing", "creating", "handling"}

Phase == {"new", "updating", "approving", "reading", "calling", "done", "dead"}
         \cup Blocking

Reply == {"none", "ok", "duplicate", "refused", "error"}

(* caseStatus and number are what the handler loaded: the case's status,   *)
(* and a version of the case or of its latest plan.                        *)
HandlerState == [phase      : Phase,
                 case       : Cases \cup {NoOne},
                 caseStatus : CaseStatus \cup {"ABSENT"},
                 number     : Nat,
                 run        : Requests \cup {NoOne},
                 plan       : Requests \cup {NoOne},
                 payload    : Payload \cup {"NONE"},
                 reply      : Reply]

Holding(phase, c, caseStatus, number) ==
    [phase |-> phase, case |-> c, caseStatus |-> caseStatus, number |-> number,
     run |-> NoOne, plan |-> NoOne, payload |-> "NONE", reply |-> "none"]

Ended(phase, reply) ==
    [phase |-> phase, case |-> NoOne, caseStatus |-> "ABSENT", number |-> 0,
     run |-> NoOne, plan |-> NoOne, payload |-> "NONE", reply |-> reply]

Answer(r, reply) == handler' = [handler EXCEPT ![r] = Ended("done", reply)]

New(r, endpoint) == handler[r].phase = "new" /\ Endpoint[r] = endpoint
CaseExists(c) == cases[c].status # "ABSENT"

(* The session writes a column only when its value differs from the one it *)
(* loaded: an assignment of the loaded value leaves what others committed. *)
Flushed(loaded, assigned, stored) == IF assigned = loaded THEN stored ELSE assigned

WithStatus(c, loaded, assigned) ==
    [cases EXCEPT ![c].status = Flushed(loaded, assigned, @)]

-----------------------------------------------------------------------------
Init ==
    /\ cases = [c \in Cases |-> IF c \in Seeded THEN NewCase
                                ELSE [status |-> "ABSENT", version |-> 0]]
    /\ documents = [r \in Requests |-> [status |-> "NONE", case |-> NoOne]]
    /\ extractions = {}
    /\ runs = [r \in Requests |->
                 [NewRun("GENERATE_PLAN", NoOne, 0, FALSE) EXCEPT !.status = "NONE"]]
    /\ plans = [r \in Requests |->
                 [status |-> "NONE", case |-> NoOne, version |-> 0, run |-> NoOne]]
    /\ questions = [r \in Requests |-> "NONE"]
    /\ handler = [r \in Requests |-> Ended("new", "none")]
    /\ loop = NoOne

(* A request that names no row (404), breaks a constraint (409) or is      *)
(* malformed (422), or a callback whose handling raises (500): its session *)
(* is closed before anything is committed.                                 *)
Reject(r) ==
    /\ handler[r].phase = "new"
    /\ Answer(r, "refused")
    /\ UNCHANGED <<tables, loop>>

-----------------------------------------------------------------------------
(* create_employee, update_employee and approve_plan run in threads. *)

CreateEmployee(r, c) ==
    /\ New(r, "CREATE")
    /\ ~ CaseExists(c)
    /\ cases' = [cases EXCEPT ![c] = NewCase]
    /\ Answer(r, "ok")
    /\ UNCHANGED <<documents, extractions, runs, plans, questions, loop>>

UpdateEmployeeLoad(r, c) ==
    /\ New(r, "PATCH")
    /\ CaseExists(c)
    /\ handler' = [handler EXCEPT
                     ![r] = Holding("updating", c, cases[c].status, cases[c].version)]
    /\ UNCHANGED <<tables, loop>>

UpdateEmployeeCommit(r) ==
    LET c == handler[r].case IN
    /\ handler[r].phase = "updating"
    /\ cases' = [WithStatus(c, handler[r].caseStatus, "DRAFT")
                   EXCEPT ![c].version = handler[r].number + 1]
    /\ Answer(r, "ok")
    /\ UNCHANGED <<documents, extractions, runs, plans, questions, loop>>

ApprovePlanLoad(r, p) ==
    LET c == plans[p].case IN
    /\ New(r, "APPROVE")
    /\ PlanExists(p)
    /\ handler' = [handler EXCEPT
                     ![r] = [Holding("approving", c, cases[c].status, 0) EXCEPT !.plan = p]]
    /\ UNCHANGED <<tables, loop>>

ApprovePlanCommit(r) ==
    /\ handler[r].phase = "approving"
    /\ plans' = [plans EXCEPT ![handler[r].plan].status = "APPROVED"]
    /\ cases' = WithStatus(handler[r].case, handler[r].caseStatus, "ACTIVE")
    /\ Answer(r, "ok")
    /\ UNCHANGED <<documents, extractions, runs, questions, loop>>

-----------------------------------------------------------------------------
(* upload_cv loads the case, awaits the file, and then runs to its commit. *)

UploadCv(r, c) ==
    /\ New(r, "UPLOAD")
    /\ loop = NoOne
    /\ CaseExists(c)
    /\ handler' = [handler EXCEPT
                     ![r] = Holding("reading", c, cases[c].status, cases[c].version)]
    /\ UNCHANGED <<tables, loop>>

UploadCvTooLarge(r) ==
    /\ handler[r].phase = "reading"
    /\ loop = NoOne
    /\ Answer(r, "refused")
    /\ UNCHANGED <<tables, loop>>

(* No text could be extracted, or MongoDB refused the extraction. *)
UploadCvFail(r) ==
    /\ handler[r].phase = "reading"
    /\ loop = NoOne
    /\ documents' = [documents EXCEPT
                       ![r] = [status |-> "FAILED", case |-> handler[r].case]]
    /\ \E reply \in {"refused", "error"} : Answer(r, reply)
    /\ UNCHANGED <<cases, extractions, runs, plans, questions, loop>>

(* Mutant: the extraction is inserted after the document's commit. *)
UploadCvStoreLater(r) ==
    /\ handler[r].phase = "reading"
    /\ loop = NoOne
    /\ handler' = [handler EXCEPT ![r].phase = "storing"]
    /\ loop' = r
    /\ UNCHANGED tables

UploadCvStore(r) ==
    /\ handler[r].phase = "reading"
    /\ loop = NoOne
    /\ extractions' = extractions \cup {r}
    /\ handler' = [handler EXCEPT ![r].phase = "storing"]
    /\ loop' = r
    /\ UNCHANGED <<cases, documents, runs, plans, questions>>

UploadCvCommit(r) ==
    LET c == handler[r].case IN
    /\ handler[r].phase = "storing"
    /\ documents' = [documents EXCEPT ![r] = [status |-> "PROCESSED", case |-> c]]
    /\ cases' = [WithStatus(c, handler[r].caseStatus, "READY_FOR_PLAN")
                   EXCEPT ![c].version = handler[r].number + 1]
    /\ Answer(r, "ok")
    /\ loop' = NoOne
    /\ UNCHANGED <<extractions, runs, plans, questions>>

-----------------------------------------------------------------------------
(* generate_plan, revise_plan and ask_question commit a run, then await    *)
(* WF-01.                                                                  *)

Generation(r) == New(r, "GENERATE") \/ New(r, "GENERATE_FORCED")

MayGenerate(c) == cases[c].status \in {"READY_FOR_PLAN", "REVIEW"} /\ HasProcessedDocument(c)

GeneratePlanConflict(r, c) ==
    /\ Generation(r)
    /\ loop = NoOne
    /\ CaseExists(c)
    /\ ~ MayGenerate(c)
    /\ Answer(r, "refused")
    /\ UNCHANGED <<tables, loop>>

GeneratePlanDuplicate(r, c) ==
    /\ New(r, "GENERATE")
    /\ loop = NoOne
    /\ MayGenerate(c)
    /\ \E s \in Requests : HasSemanticKey(s, c, cases[c].version)
    /\ Answer(r, "duplicate")
    /\ UNCHANGED <<tables, loop>>

(* Mutant: something is awaited between the semantic key's check and the    *)
(* insert of the run.                                                      *)
GeneratePlanLoadYields(r, c) ==
    /\ Generation(r)
    /\ loop = NoOne
    /\ MayGenerate(c)
    /\ \/ Endpoint[r] = "GENERATE_FORCED"
       \/ ~ \E s \in Requests : HasSemanticKey(s, c, cases[c].version)
    /\ handler' = [handler EXCEPT
                     ![r] = Holding("creating", c, cases[c].status, cases[c].version)]
    /\ UNCHANGED <<tables, loop>>

GeneratePlanLoad(r, c) ==
    /\ Generation(r)
    /\ loop = NoOne
    /\ MayGenerate(c)
    /\ \/ Endpoint[r] = "GENERATE_FORCED"
       \/ ~ \E s \in Requests : HasSemanticKey(s, c, cases[c].version)
    /\ handler' = [handler EXCEPT
                     ![r] = Holding("creating", c, cases[c].status, cases[c].version)]
    /\ loop' = r
    /\ UNCHANGED tables

GeneratePlanCreate(r) ==
    /\ handler[r].phase = "creating"
    /\ runs' = [runs EXCEPT
                  ![r] = NewRun("GENERATE_PLAN", handler[r].case, handler[r].number,
                                Endpoint[r] = "GENERATE_FORCED")]
    /\ handler' = [handler EXCEPT ![r] = Holding("calling", handler[r].case, "ABSENT", 0)]
    /\ loop' = NoOne
    /\ UNCHANGED <<cases, documents, extractions, plans, questions>>

MayRevise(c) == PlanVersions(c) # {} /\ HasProcessedDocument(c)

RevisePlanConflict(r, c) ==
    /\ New(r, "REVISE")
    /\ loop = NoOne
    /\ CaseExists(c)
    /\ ~ MayRevise(c)
    /\ Answer(r, "refused")
    /\ UNCHANGED <<tables, loop>>

RevisePlanCreate(r, c) ==
    /\ New(r, "REVISE")
    /\ loop = NoOne
    /\ MayRevise(c)
    /\ \E n \in PlanVersions(c) :
         /\ IsLatestVersion(c, n)
         /\ runs' = [runs EXCEPT ![r] = NewRun("REVISE_PLAN", c, n, TRUE)]
    /\ handler' = [handler EXCEPT ![r] = Holding("calling", c, "ABSENT", 0)]
    /\ UNCHANGED <<cases, documents, extractions, plans, questions, loop>>

AskQuestionCreate(r, c) ==
    /\ New(r, "ASK")
    /\ loop = NoOne
    /\ CaseExists(c)
    /\ runs' = [runs EXCEPT ![r] = NewRun("ANSWER_QUESTION", c, 0, TRUE)]
    /\ questions' = [questions EXCEPT ![r] = "PENDING"]
    /\ handler' = [handler EXCEPT ![r] = Holding("calling", c, "ABSENT", 0)]
    /\ UNCHANGED <<cases, documents, extractions, plans, loop>>

(* fail_run, for whatever became of the run meanwhile. *)
FailRun(r) == runs' = [runs EXCEPT ![r].status = "FAILED"]

(* Mutant: only the run is marked. *)
AgentCallFailsRunOnly(r) ==
    /\ handler[r].phase = "calling"
    /\ loop = NoOne
    /\ FailRun(r)
    /\ Answer(r, "error")
    /\ UNCHANGED <<cases, documents, extractions, plans, questions, loop>>

(* Mutant: the exception is answered, and the run left as it is. *)
AgentCallFailsUnmarked(r) ==
    /\ handler[r].phase = "calling"
    /\ loop = NoOne
    /\ Answer(r, "error")
    /\ UNCHANGED <<tables, loop>>

(* Mutant: a call whose run a callback settled does not time out. *)
AgentCallFailsWhileRunning(r) ==
    /\ runs[r].status = "RUNNING"
    /\ AgentCallFailsRunOnly(r)

(* WF-01 timed out, was unreachable, answered an HTTP error, or answered   *)
(* something that is not a JSON object: call_wf01 or the handling raises.  *)
AgentCallFails(r) ==
    /\ handler[r].phase = "calling"
    /\ loop = NoOne
    /\ FailRun(r)
    /\ questions' = [questions EXCEPT
                       ![r] = IF runs[r].operation = "ANSWER_QUESTION" THEN "FAILED" ELSE @]
    /\ Answer(r, "error")
    /\ UNCHANGED <<cases, documents, extractions, plans, loop>>

-----------------------------------------------------------------------------
(* A result reaches the backend twice: as the answer to the POST that      *)
(* started the run, or in a callback.  Either way one handler loads the    *)
(* run, its case and its latest plan, and then commits.                    *)

(* Mutant: the versions are read without an order. *)
HoldResultUnordered(q, r, payload) ==
    LET c == runs[r].case IN
    \E n \in PlanVersions(c) \cup {v \in {0} : PlanVersions(c) = {}} :
      handler' = [handler EXCEPT
                    ![q] = [Holding("handling", c, cases[c].status, n)
                              EXCEPT !.run = r, !.payload = payload]]

HoldResult(q, r, payload) ==
    LET c == runs[r].case IN
    \E n \in {0} \cup PlanVersions(c) :
      /\ IsLatestVersion(c, n)
      /\ handler' = [handler EXCEPT
                       ![q] = [Holding("handling", c, cases[c].status, n)
                                 EXCEPT !.run = r, !.payload = payload]]

(* Mutant: something is awaited between the read of the latest version and  *)
(* the insert of the plan.                                                 *)
AgentCallReturnsYields(r, payload) ==
    /\ handler[r].phase = "calling"
    /\ loop = NoOne
    /\ HoldResult(r, r, payload)
    /\ UNCHANGED <<tables, loop>>

AgentCallReturns(r, payload) ==
    /\ handler[r].phase = "calling"
    /\ loop = NoOne
    /\ HoldResult(r, r, payload)
    /\ loop' = r
    /\ UNCHANGED tables

(* The callback names a run by run_id or request_id; nothing else of it is *)
(* compared with the run.                                                  *)
AgentRunCallback(q, r, payload) ==
    /\ New(q, "CALLBACK")
    /\ loop = NoOne
    /\ runs[r].status # "NONE"
    /\ HoldResult(q, r, payload)
    /\ loop' = q
    /\ UNCHANGED tables

Handling(q, operations, payloads) ==
    /\ handler[q].phase = "handling"
    /\ runs[handler[q].run].operation \in operations
    /\ handler[q].payload \in payloads
    /\ Answer(q, "ok")
    /\ loop' = NoOne

PlanOperation == {"GENERATE_PLAN", "REVISE_PLAN"}

Settle(q, status) ==
    runs' = [runs EXCEPT ![handler[q].run].status = status,
                         ![handler[q].run].result = handler[q].payload]

(* Mutant: the case goes back whether or not it was edited. *)
FailPlanRunReopens(q) ==
    LET c == handler[q].case IN
    /\ Handling(q, PlanOperation, {"FAILED"})
    /\ Settle(q, "FAILED")
    /\ cases' = IF handler[q].number = 0
                THEN WithStatus(c, handler[q].caseStatus, "READY_FOR_PLAN")
                ELSE cases
    /\ UNCHANGED <<documents, extractions, plans, questions>>

(* The case goes back to READY_FOR_PLAN only if it has no plan and was     *)
(* not put back to DRAFT.                                                  *)
FailPlanRun(q) ==
    LET c == handler[q].case IN
    /\ Handling(q, PlanOperation, {"FAILED"})
    /\ Settle(q, "FAILED")
    /\ cases' = IF handler[q].number = 0 /\ handler[q].caseStatus # "DRAFT"
                THEN WithStatus(c, handler[q].caseStatus, "READY_FOR_PLAN")
                ELSE cases
    /\ UNCHANGED <<documents, extractions, plans, questions>>

(* Mutant: a later plan takes the number of the latest one. *)
SaveCompletedPlanReplaces(q) ==
    LET c == handler[q].case IN
    /\ Handling(q, PlanOperation, {"DONE"})
    /\ Settle(q, "COMPLETED")
    /\ plans' = [plans EXCEPT
                   ![q] = [status |-> "UNDER_REVIEW", case |-> c, run |-> handler[q].run,
                           version |-> IF handler[q].number = 0 THEN 1 ELSE handler[q].number]]
    /\ cases' = WithStatus(c, handler[q].caseStatus, "REVIEW")
    /\ UNCHANGED <<documents, extractions, questions>>

SaveCompletedPlan(q) ==
    LET c == handler[q].case IN
    /\ Handling(q, PlanOperation, {"DONE"})
    /\ Settle(q, "COMPLETED")
    /\ plans' = [plans EXCEPT ![q] = [status  |-> "UNDER_REVIEW",
                                      case    |-> c,
                                      version |-> handler[q].number + 1,
                                      run     |-> handler[q].run]]
    /\ cases' = WithStatus(c, handler[q].caseStatus, "REVIEW")
    /\ UNCHANGED <<documents, extractions, questions>>

(* Mutant: a terminal status completes the run, artifact or not. *)
StoreResultCompletes(q) ==
    /\ Handling(q, PlanOperation \cup {"ANSWER_QUESTION"}, {"NO_ARTIFACT", "ACK"})
    /\ Settle(q, IF handler[q].payload = "NO_ARTIFACT" THEN "COMPLETED" ELSE "RUNNING")
    /\ UNCHANGED <<cases, documents, extractions, plans, questions>>

(* Mutant: the case enters review before the artifact is looked at. *)
StoreResultReviews(q) ==
    /\ Handling(q, PlanOperation, {"NO_ARTIFACT", "ACK"})
    /\ runs' = [runs EXCEPT ![handler[q].run].result = handler[q].payload]
    /\ cases' = WithStatus(handler[q].case, handler[q].caseStatus, "REVIEW")
    /\ UNCHANGED <<documents, extractions, plans, questions>>

(* Nothing terminal, or no plan or answer in it: the payload is kept.      *)
StoreResult(q) ==
    /\ Handling(q, PlanOperation \cup {"ANSWER_QUESTION"}, {"NO_ARTIFACT", "ACK"})
    /\ runs' = [runs EXCEPT ![handler[q].run].result = handler[q].payload]
    /\ UNCHANGED <<cases, documents, extractions, plans, questions>>

FailQuestion(q) ==
    /\ Handling(q, {"ANSWER_QUESTION"}, {"FAILED"})
    /\ Settle(q, "FAILED")
    /\ questions' = [questions EXCEPT ![handler[q].run] = "FAILED"]
    /\ UNCHANGED <<cases, documents, extractions, plans>>

AnswerQuestion(q) ==
    /\ Handling(q, {"ANSWER_QUESTION"}, {"DONE"})
    /\ Settle(q, "COMPLETED")
    /\ questions' = [questions EXCEPT ![handler[q].run] = "COMPLETED"]
    /\ UNCHANGED <<cases, documents, extractions, plans>>

-----------------------------------------------------------------------------
InFlight(r) == handler[r].phase \notin {"new", "done", "dead"}

(* The server process dies and starts again: the databases keep what was   *)
(* committed, nothing resumes the handlers or looks for their runs.        *)
Crash ==
    /\ \E r \in Requests : InFlight(r)
    /\ handler' = [r \in Requests |->
                     IF InFlight(r) THEN Ended("dead", "none") ELSE handler[r]]
    /\ loop' = NoOne
    /\ UNCHANGED tables

Arrive(r) ==
    \/ Reject(r)
    \/ \E c \in Cases : \/ CreateEmployee(r, c)
                        \/ UpdateEmployeeLoad(r, c)
                        \/ UploadCv(r, c)
                        \/ GeneratePlanConflict(r, c)
                        \/ GeneratePlanDuplicate(r, c)
                        \/ GeneratePlanLoad(r, c)
                        \/ RevisePlanConflict(r, c)
                        \/ RevisePlanCreate(r, c)
                        \/ AskQuestionCreate(r, c)
    \/ \E p \in Requests : ApprovePlanLoad(r, p)
    \/ \E s \in Requests, payload \in Payload : AgentRunCallback(r, s, payload)

Proceed(r) ==
    \/ UpdateEmployeeCommit(r)
    \/ ApprovePlanCommit(r)
    \/ UploadCvTooLarge(r)
    \/ UploadCvFail(r)
    \/ UploadCvStore(r)
    \/ UploadCvCommit(r)
    \/ GeneratePlanCreate(r)
    \/ FailPlanRun(r)
    \/ SaveCompletedPlan(r)
    \/ StoreResult(r)
    \/ FailQuestion(r)
    \/ AnswerQuestion(r)

Next ==
    \/ \E r \in Requests : \/ Arrive(r)
                           \/ Proceed(r)
                           \/ AgentCallFails(r)
                           \/ \E payload \in Payload : AgentCallReturns(r, payload)
    \/ Crash

(* Some handler that was scheduled continues, and the HTTP client gives up *)
(* some call after its timeout.  Nothing makes WF-01 answer, or a client   *)
(* call.  A handler takes few steps, so that this is fair to each of them. *)
Fairness ==
    /\ WF_vars(\E r \in Requests : Proceed(r))
    /\ WF_vars(\E r \in Requests : AgentCallFails(r))

Spec == Init /\ [][Next]_vars /\ Fairness

-----------------------------------------------------------------------------
(* Properties. *)

(* Every variable has its type: what the ORM columns and the handlers'      *)
(* local variables may hold.                                                *)
TypeOK ==
    /\ cases \in [Cases -> CaseRow]
    /\ documents \in [Requests -> DocumentRow]
    /\ extractions \in SUBSET Requests
    /\ runs \in [Requests -> RunRow]
    /\ plans \in [Requests -> PlanRow]
    /\ questions \in [Requests -> QuestionStatus]
    /\ handler \in [Requests -> HandlerState]
    /\ loop \in Requests \cup {NoOne}

(* The plans of a case are numbered 1, 2, 3, ... without a gap or a repeat,  *)
(* though nothing in the schema keeps (case_id, version) unique: two results *)
(* handled at once, from a POST and a callback or for two runs, must not     *)
(* read the same latest version.                                             *)
PlanVersionsConsecutive ==
    \A p \in Requests : PlanExists(p) =>
        /\ plans[p].version > 0
        /\ \A q \in Requests :
             PlanExists(q) /\ plans[q].case = plans[p].case
                          /\ plans[q].version = plans[p].version => q = p
        /\ plans[p].version > 1 => plans[p].version - 1 \in PlanVersions(plans[p].case)

(* The status of a case tells the truth about its rows, whatever stale       *)
(* status the uploads, edits, approvals and results in flight loaded: a case *)
(* ready for a plan has a processed CV, a case in review has a plan, and an  *)
(* active case has an approved one.                                          *)
StatusJustified ==
    \A c \in Cases :
        /\ cases[c].status = "READY_FOR_PLAN" => HasProcessedDocument(c)
        /\ cases[c].status = "REVIEW" => PlanVersions(c) # {}
        /\ cases[c].status = "ACTIVE" =>
             \E p \in Requests : plans[p].status = "APPROVED" /\ plans[p].case = c

(* A generation or revision that says COMPLETED produced a plan, for the     *)
(* case it was started for.                                                  *)
CompletedRunHasPlan ==
    \A r \in Requests :
        runs[r].status = "COMPLETED" /\ runs[r].operation \in PlanOperation =>
            \E p \in Requests : /\ PlanExists(p)
                                /\ plans[p].run = r
                                /\ plans[p].case = runs[r].case

(* A document is PROCESSED in PostgreSQL only once its extraction is in      *)
(* MongoDB, through failures and crashes between the two stores: otherwise   *)
(* every later generation would read a missing extraction.                   *)
ProcessedHasExtraction ==
    \A u \in Requests : documents[u].status = "PROCESSED" => u \in extractions

(* Two unforced generations never commit runs for the same version of a      *)
(* case: the check for an existing run and the insert of the new one are not *)
(* one transaction step, and a second insert would be an unhandled error.    *)
SemanticKeysUnique ==
    \A r \in Requests :
        HasSemanticKey(r, runs[r].case, runs[r].version) =>
            \A s \in Requests : HasSemanticKey(s, runs[r].case, runs[r].version) => s = r

(* A question and its run, kept in two tables and settled by answers,        *)
(* callbacks and timeouts in any order, always agree.                        *)
QuestionFollowsRun ==
    \A r \in Requests :
        runs[r].operation = "ANSWER_QUESTION" /\ runs[r].status # "NONE" =>
            questions[r] = IF runs[r].status = "RUNNING" THEN "PENDING" ELSE runs[r].status

(* What a handler loaded or made before its last step still stands when it   *)
(* takes that step, however many commits came between: the event loop runs   *)
(* at most the one handler in a section; the latest plan version and the     *)
(* free semantic key it read are still the latest and still free; the run it *)
(* called WF-01 for, and the extraction it stored, are there.  (The status   *)
(* and version of the case, which threads write, are not claimed: they do    *)
(* go stale.)                                                                *)
LoopExclusive == \A r \in Requests : handler[r].phase \in Blocking <=> loop = r

RowsComplete ==
    \A r \in Requests : /\ runs[r].status # "NONE" => runs[r].case \in Cases
                        /\ PlanExists(r) => plans[r].case \in Cases
                        /\ handler[r].phase # "done" =>
                              plans[r].status = "NONE" /\ documents[r].status = "NONE"
                        /\ handler[r].phase \notin {"calling", "handling", "done", "dead"} =>
                              runs[r].status = "NONE"

ResultCurrent(q) ==
    LET r == handler[q].run IN
    /\ r \in Requests
    /\ runs[r].status # "NONE"
    /\ handler[q].case = runs[r].case
    /\ handler[q].payload \in Payload
    /\ IsLatestVersion(handler[q].case, handler[q].number)

HandlerCurrent(r) ==
    /\ handler[r].phase \in {"updating", "reading", "storing", "creating"} =>
         handler[r].case \in Cases
    /\ handler[r].phase = "storing" => r \in extractions
    /\ handler[r].phase = "approving" =>
         /\ handler[r].plan \in Requests
         /\ PlanExists(handler[r].plan)
         /\ handler[r].case = plans[handler[r].plan].case
    /\ handler[r].phase = "creating" /\ Endpoint[r] # "GENERATE_FORCED" =>
         ~ \E s \in Requests : HasSemanticKey(s, handler[r].case, handler[r].number)
    /\ handler[r].phase = "calling" => runs[r].status # "NONE"
    /\ handler[r].phase = "handling" => ResultCurrent(r)

HandlersCurrent ==
    LoopExclusive /\ RowsComplete /\ \A r \in Requests : HandlerCurrent(r)

(* A case becomes ready for a plan only by an upload that processed a CV for *)
(* it: a failed run, however late, must not take an edited case out of DRAFT *)
(* or a case with a plan out of REVIEW or ACTIVE.                            *)
ReadyOnlyAfterUpload ==
    [][\A c \in Cases :
         cases[c].status # "READY_FOR_PLAN" /\ cases'[c].status = "READY_FOR_PLAN" =>
            \E u \in Requests : /\ documents[u].status = "NONE"
                                /\ documents'[u].status = "PROCESSED"
                                /\ documents'[u].case = c]_vars

(* Every request the server started on is answered or dies with the server,  *)
(* though WF-01 may never answer and handlers wait for each other's sections:*)
(* as requests come once, in the end none is in flight.                      *)
RequestsEnd == (\E r \in Requests : InFlight(r)) ~> \A r \in Requests : ~ InFlight(r)

(* A run still says RUNNING only while its request is worked on, or for one  *)
(* of three reasons: all that came of it held nothing terminal, as an        *)
(* acknowledgement does; or a success without a plan or an answer; or its    *)
(* handler died with the server.  A request that was answered with an error  *)
(* never leaves such a run, whatever calls and callbacks brought and when.   *)
RunningExplained ==
    \A r \in Requests : runs[r].status = "RUNNING" =>
        \/ handler[r].phase \in {"calling", "handling", "dead"}
        \/ /\ handler[r].phase = "done" /\ handler[r].reply = "ok"
           /\ runs[r].result \in {"ACK", "NO_ARTIFACT"}

(* The plans table implements the ledger of plans.                           *)
Ledger == INSTANCE PlanLedger WITH
    Ids    <- Requests,
    NoCase <- NoOne,
    ledger <- [p \in Requests |-> [status  |-> plans[p].status,
                                   case    |-> plans[p].case,
                                   version |-> plans[p].version]]
ImplementsLedger == Ledger!Spec

-----------------------------------------------------------------------------
(* What the documentation says and the code does not do. *)

(* a2a/README.md:662-670: the backend validates the idempotency key of a     *)
(* callback.  One run then makes at most one plan, however often and by      *)
(* whichever way its result arrives.                                         *)
OnePlanPerRun ==
    \A p, q \in Requests :
        PlanExists(p) /\ PlanExists(q) /\ plans[p].run = plans[q].run => p = q

(* NexTalent-app/README.md:126: a request gets a 502 for a successful answer *)
(* of WF-01 whose artifact is invalid: one that is terminal and holds no     *)
(* plan, or no answer.                                                       *)
InvalidArtifactIsError ==
    [][\A r \in Requests :
         /\ handler[r].phase = "handling" /\ handler[r].run = r
         /\ handler[r].payload = "NO_ARTIFACT"
         /\ handler'[r].phase = "done"
         => handler'[r].reply = "error"]_vars

(* NexTalent-app/README.md:271: PATCH increments the case version.           *)
PatchIncrementsVersion ==
    [][\A r \in Requests :
         handler[r].phase = "updating" /\ handler'[r].phase = "done" =>
            LET c == handler[r].case IN cases'[c].version = cases[c].version + 1]_vars

=============================================================================
