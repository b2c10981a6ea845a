---------------------- MODULE OnboardingBackendProofs ----------------------
(* Theorems about OnboardingBackend for every set of cases and requests:   *)
(* its inductive invariant and the plans table; then how the tables agree  *)
(* with each other, and that the status of a case and of a run tells the   *)
(* truth about the other rows.                                             *)
EXTENDS OnboardingBackend, TLAPS

-----------------------------------------------------------------------------
(* Records that handlers and tables are given have their type.             *)

LEMMA HoldingType ==
    ASSUME NEW phase \in Phase, NEW c \in Cases \cup {NoOne},
           NEW s \in CaseStatus \cup {"ABSENT"}, NEW n \in Nat
    PROVE  Holding(phase, c, s, n) \in HandlerState
BY DEF Holding, HandlerState, Reply

LEMMA EndedType ==
    ASSUME NEW phase \in Phase, NEW reply \in Reply
    PROVE  Ended(phase, reply) \in HandlerState
BY DEF Ended, HandlerState

LEMMA AnswerType ==
    ASSUME TypeOK, NEW r \in Requests, NEW reply \in Reply, Answer(r, reply)
    PROVE  handler' \in [Requests -> HandlerState]
BY EndedType DEF TypeOK, Answer, Phase

(* Writing a status leaves the cases table well typed. *)
LEMMA WithStatusType ==
    ASSUME TypeOK, NEW c, NEW loaded, NEW assigned \in CaseStatus
    PROVE  WithStatus(c, loaded, assigned) \in [Cases -> CaseRow]
BY DEF TypeOK, WithStatus, Flushed, CaseRow

LEMMA PlanVersionsType ==
    ASSUME TypeOK, NEW c
    PROVE  PlanVersions(c) \subseteq Nat
BY DEF TypeOK, PlanVersions, PlanRow

-----------------------------------------------------------------------------
(* The inductive invariant. *)

IInv == TypeOK /\ HandlersCurrent

(* What a step may do to the rows other handlers rely on: rows are added,  *)
(* and an existing run or plan keeps what identifies it.                   *)
RowsKept ==
    /\ extractions \subseteq extractions'
    /\ \A s \in Requests : runs[s].status # "NONE" =>
          /\ runs'[s].status # "NONE"
          /\ runs'[s].case = runs[s].case
    /\ \A p \in Requests : PlanExists(p) => PlanExists(p)' /\ plans'[p].case = plans[p].case

(* A thread, the only one that may commit while an async handler is in a   *)
(* section, adds no run and no plan.                                       *)
NoRowAdded ==
    /\ runs' = runs
    /\ \A p \in Requests :
         /\ PlanExists(p)' <=> PlanExists(p)
         /\ plans'[p].case = plans[p].case
         /\ plans'[p].version = plans[p].version

LEMMA OthersCurrent ==
    ASSUME IInv, NEW r \in Requests, NEW s \in Requests, s # r,
           handler'[s] = handler[s], RowsKept,
           loop \in {r, NoOne} \/ NoRowAdded
    PROVE  HandlerCurrent(s)'
<1>1. handler[s].phase \in {"creating", "handling"} => NoRowAdded
  BY NoOneAssumption DEF IInv, HandlersCurrent, LoopExclusive, Blocking
<1>2. NoRowAdded => \A c : PlanVersions(c)' = PlanVersions(c)
  <2> SUFFICES ASSUME NoRowAdded, NEW c PROVE PlanVersions(c)' = PlanVersions(c)
    OBVIOUS
  <2> QED
    BY DEF NoRowAdded, PlanVersions
<1>3. handler[s].phase = "handling" => ResultCurrent(s)'
  BY <1>1, <1>2 DEF IInv, HandlersCurrent, HandlerCurrent, ResultCurrent, NoRowAdded,
     IsLatestVersion
<1>4. handler[s].phase = "creating" /\ Endpoint[s] # "GENERATE_FORCED" =>
        ~ \E q \in Requests : HasSemanticKey(q, handler[s].case, handler[s].number)'
  BY <1>1 DEF IInv, HandlersCurrent, HandlerCurrent, NoRowAdded, HasSemanticKey
<1> QED
  BY <1>3, <1>4 DEF IInv, HandlersCurrent, HandlerCurrent, RowsKept, HasSemanticKey

(* A step of r's handler keeps the invariant if it keeps the types, the    *)
(* loop and the rows, and leaves what r's handler holds current.           *)
LEMMA HandlerStep ==
    ASSUME IInv, NEW r \in Requests,
           TypeOK', LoopExclusive', RowsComplete', HandlerCurrent(r)',
           RowsKept, loop \in {r, NoOne} \/ NoRowAdded,
           \A s \in Requests : s # r => handler'[s] = handler[s]
    PROVE  IInv'
<1>1. \A s \in Requests : HandlerCurrent(s)'
  BY OthersCurrent
<1> QED
  BY <1>1 DEF IInv, HandlersCurrent

LEMMA UnchangedRows ==
    ASSUME UNCHANGED <<extractions, runs, plans>>
    PROVE  RowsKept /\ NoRowAdded
BY DEF RowsKept, NoRowAdded, PlanExists

(* A handler that ends, or goes on to another step without await, leaves   *)
(* the loop as free as it was.                                             *)
LEMMA LoopKept ==
    ASSUME IInv, NEW r \in Requests, loop' = loop,
           handler[r].phase \notin Blocking, handler'[r].phase \notin Blocking,
           \A s \in Requests : s # r => handler'[s] = handler[s]
    PROVE  LoopExclusive'
BY DEF IInv, HandlersCurrent, LoopExclusive

LEMMA LoopTaken ==
    ASSUME IInv, NEW r \in Requests, loop = NoOne, loop' = r,
           handler'[r].phase \in Blocking,
           \A s \in Requests : s # r => handler'[s] = handler[s]
    PROVE  LoopExclusive'
BY NoOneAssumption DEF IInv, HandlersCurrent, LoopExclusive

LEMMA LoopReleased ==
    ASSUME IInv, NEW r \in Requests, handler[r].phase \in Blocking, loop' = NoOne,
           handler'[r].phase \notin Blocking,
           \A s \in Requests : s # r => handler'[s] = handler[s]
    PROVE  LoopExclusive'
BY NoOneAssumption DEF IInv, HandlersCurrent, LoopExclusive

(* A request answered without a change of any row. *)
LEMMA AnswerOnly ==
    ASSUME IInv, NEW r \in Requests, NEW reply \in Reply,
           handler[r].phase \in {"new", "reading"},
           Answer(r, reply), UNCHANGED <<tables, loop>>
    PROVE  IInv'
<1> USE DEF tables
<1>1. /\ handler'[r] = Ended("done", reply)
      /\ \A s \in Requests : s # r => handler'[s] = handler[s]
  BY DEF IInv, TypeOK, Answer
<1>2. handler'[r].phase = "done"
  BY <1>1 DEF Ended
<1>3. TypeOK'
  BY AnswerType DEF IInv, TypeOK
<1>4. LoopExclusive'
  BY <1>1, <1>2, LoopKept DEF Blocking
<1>5. RowsComplete'
  BY <1>1, <1>2 DEF IInv, HandlersCurrent, RowsComplete, PlanExists
<1>6. HandlerCurrent(r)'
  BY <1>2 DEF HandlerCurrent
<1> QED
  BY <1>1, <1>3, <1>4, <1>5, <1>6, UnchangedRows, HandlerStep

LEMMA RefusalsInv ==
    ASSUME IInv, NEW r \in Requests, NEW c \in Cases,
           \/ Reject(r)
           \/ UploadCvTooLarge(r)
           \/ GeneratePlanConflict(r, c)
           \/ GeneratePlanDuplicate(r, c)
           \/ RevisePlanConflict(r, c)
    PROVE  IInv'
<1>1. /\ handler[r].phase \in {"new", "reading"}
      /\ UNCHANGED <<tables, loop>>
      /\ Answer(r, "refused") \/ Answer(r, "duplicate")
  BY DEF Reject, UploadCvTooLarge, GeneratePlanConflict, GeneratePlanDuplicate,
     RevisePlanConflict, Generation, New
<1> QED
  BY <1>1, AnswerOnly DEF Reply

(* A thread or an upload that loaded a case. *)
LEMMA LoadInv ==
    ASSUME IInv, NEW r \in Requests, NEW phase \in {"updating", "reading"}, NEW c \in Cases,
           handler[r].phase = "new",
           handler' = [handler EXCEPT
                         ![r] = Holding(phase, c, cases[c].status, cases[c].version)],
           UNCHANGED <<tables, loop>>
    PROVE  IInv'
<1> USE DEF tables
<1>1. /\ handler'[r] = Holding(phase, c, cases[c].status, cases[c].version)
      /\ \A s \in Requests : s # r => handler'[s] = handler[s]
  BY DEF IInv, TypeOK
<1>2. handler'[r].phase = phase /\ handler'[r].case = c
  BY <1>1 DEF Holding
<1>3. TypeOK'
  <2>1. cases[c].status \in CaseStatus \cup {"ABSENT"} /\ cases[c].version \in Nat
    BY DEF IInv, TypeOK, CaseRow
  <2>2. Holding(phase, c, cases[c].status, cases[c].version) \in HandlerState
    BY <2>1, HoldingType DEF Phase
  <2> QED
    BY <2>2 DEF IInv, TypeOK
<1>4. LoopExclusive'
  BY <1>1, <1>2, LoopKept DEF Blocking
<1>5. RowsComplete'
  BY <1>1, <1>2 DEF IInv, HandlersCurrent, RowsComplete, PlanExists
<1>6. HandlerCurrent(r)'
  BY <1>2 DEF HandlerCurrent
<1> QED
  BY <1>1, <1>3, <1>4, <1>5, <1>6, UnchangedRows, HandlerStep

(* Threads. *)

LEMMA CreateEmployeeInv ==
    ASSUME IInv, NEW r \in Requests, NEW c \in Cases, CreateEmployee(r, c)
    PROVE  IInv'
<1> USE DEF CreateEmployee, New
<1>1. /\ handler'[r] = Ended("done", "ok")
      /\ \A s \in Requests : s # r => handler'[s] = handler[s]
  BY DEF IInv, TypeOK, Answer
<1>2. handler'[r].phase = "done"
  BY <1>1 DEF Ended
<1>3. TypeOK'
  <2>1. handler' \in [Requests -> HandlerState]
    BY AnswerType DEF IInv, Reply
  <2>2. cases' \in [Cases -> CaseRow]
    BY DEF IInv, TypeOK, NewCase, CaseRow, CaseStatus
  <2> QED
    BY <2>1, <2>2 DEF IInv, TypeOK
<1>4. LoopExclusive'
  BY <1>1, <1>2, LoopKept DEF Blocking
<1>5. RowsComplete'
  BY <1>1, <1>2 DEF IInv, HandlersCurrent, RowsComplete, PlanExists
<1>6. HandlerCurrent(r)'
  BY <1>2 DEF HandlerCurrent
<1> QED
  BY <1>1, <1>3, <1>4, <1>5, <1>6, UnchangedRows, HandlerStep

LEMMA UpdateEmployeeCommitInv ==
    ASSUME IInv, NEW r \in Requests, UpdateEmployeeCommit(r)
    PROVE  IInv'
<1> USE DEF UpdateEmployeeCommit
<1>1. /\ handler'[r] = Ended("done", "ok")
      /\ \A s \in Requests : s # r => handler'[s] = handler[s]
  BY DEF IInv, TypeOK, Answer
<1>2. handler'[r].phase = "done"
  BY <1>1 DEF Ended
<1>3. TypeOK'
  <2>1. handler' \in [Requests -> HandlerState]
    BY AnswerType DEF IInv, Reply
  <2>2. WithStatus(handler[r].case, handler[r].caseStatus, "DRAFT") \in [Cases -> CaseRow]
    BY WithStatusType DEF IInv, CaseStatus
  <2>3. handler[r].number + 1 \in Nat
    BY DEF IInv, TypeOK, HandlerState
  <2>4. cases' \in [Cases -> CaseRow]
    BY <2>2, <2>3 DEF CaseRow
  <2> QED
    BY <2>1, <2>4 DEF IInv, TypeOK
<1>4. LoopExclusive'
  BY <1>1, <1>2, LoopKept DEF Blocking
<1>5. RowsComplete'
  BY <1>1, <1>2 DEF IInv, HandlersCurrent, RowsComplete, PlanExists
<1>6. HandlerCurrent(r)'
  BY <1>2 DEF HandlerCurrent
<1> QED
  BY <1>1, <1>3, <1>4, <1>5, <1>6, UnchangedRows, HandlerStep

LEMMA ApprovePlanLoadInv ==
    ASSUME IInv, NEW r \in Requests, NEW p \in Requests, ApprovePlanLoad(r, p)
    PROVE  IInv'
<1> USE DEF ApprovePlanLoad, New, tables
<1> DEFINE c == plans[p].case
           held == [Holding("approving", c, cases[c].status, 0) EXCEPT !.plan = p]
<1>1. /\ handler'[r] = held
      /\ \A s \in Requests : s # r => handler'[s] = handler[s]
  BY DEF IInv, TypeOK
<1>2. handler'[r].phase = "approving" /\ handler'[r].case = c /\ handler'[r].plan = p
  BY <1>1 DEF Holding
<1>3. TypeOK'
  <2>1. c \in Cases
    BY DEF IInv, HandlersCurrent, RowsComplete
  <2>2. cases[c].status \in CaseStatus \cup {"ABSENT"}
    BY <2>1 DEF IInv, TypeOK, CaseRow
  <2>3. Holding("approving", c, cases[c].status, 0) \in HandlerState
    BY <2>1, <2>2, HoldingType DEF Phase
  <2>4. held \in HandlerState
    BY <2>3 DEF HandlerState
  <2> QED
    BY <2>4 DEF IInv, TypeOK
<1>4. LoopExclusive'
  BY <1>1, <1>2, LoopKept DEF Blocking
<1>5. RowsComplete'
  BY <1>1, <1>2 DEF IInv, HandlersCurrent, RowsComplete, PlanExists
<1>6. HandlerCurrent(r)'
  BY <1>2 DEF HandlerCurrent, PlanExists
<1> QED
  BY <1>1, <1>3, <1>4, <1>5, <1>6, UnchangedRows, HandlerStep

LEMMA ApprovedRow ==
    ASSUME NEW row \in PlanRow
    PROVE  /\ [row EXCEPT !.status = "APPROVED"] \in PlanRow
           /\ [row EXCEPT !.status = "APPROVED"].status = "APPROVED"
           /\ [row EXCEPT !.status = "APPROVED"].case = row.case
           /\ [row EXCEPT !.status = "APPROVED"].version = row.version
BY DEF PlanRow

LEMMA ApprovePlanCommitInv ==
    ASSUME IInv, NEW r \in Requests, ApprovePlanCommit(r)
    PROVE  IInv'
<1> USE DEF ApprovePlanCommit
<1>1. /\ handler'[r] = Ended("done", "ok")
      /\ \A s \in Requests : s # r => handler'[s] = handler[s]
  BY DEF IInv, TypeOK, Answer
<1>2. handler'[r].phase = "done"
  BY <1>1 DEF Ended
<1>3. handler[r].plan \in Requests /\ PlanExists(handler[r].plan)
  BY DEF IInv, HandlersCurrent, HandlerCurrent
<1>4. \A p \in Requests :
        /\ plans[p] \in PlanRow
        /\ plans'[p] = IF p = handler[r].plan THEN [plans[p] EXCEPT !.status = "APPROVED"]
                                              ELSE plans[p]
  BY DEF IInv, TypeOK
<1>5. /\ RowsKept
      /\ NoRowAdded
  <2>1. UNCHANGED <<documents, extractions, runs>>
    OBVIOUS
  <2>2. \A p \in Requests : /\ plans'[p].case = plans[p].case
                            /\ plans'[p].version = plans[p].version
                            /\ PlanExists(p)' <=> PlanExists(p)
    BY <1>3, <1>4, ApprovedRow DEF PlanExists
  <2> HIDE DEF ApprovePlanCommit
  <2> QED
    BY <2>1, <2>2 DEF RowsKept, NoRowAdded, PlanExists
<1>6. TypeOK'
  <2>1. handler' \in [Requests -> HandlerState]
    BY AnswerType DEF IInv, Reply
  <2>2. cases' \in [Cases -> CaseRow]
    BY WithStatusType DEF IInv, CaseStatus
  <2>3. plans' \in [Requests -> PlanRow]
    <3>1. plans \in [Requests -> PlanRow]
      BY DEF IInv, TypeOK
    <3>2. \E f : plans' = [plans EXCEPT ![handler[r].plan] = f]
      OBVIOUS
    <3> HIDE DEF ApprovePlanCommit
    <3>3. \A p \in Requests : plans'[p] \in PlanRow
      BY <1>4, ApprovedRow
    <3> QED
      BY <3>1, <3>2, <3>3
  <2> QED
    BY <2>1, <2>2, <2>3 DEF IInv, TypeOK
<1>7. LoopExclusive'
  BY <1>1, <1>2, LoopKept DEF Blocking
<1>8. RowsComplete'
  <2>1. \A q \in Requests : plans[q].status = "NONE" <=> plans'[q].status = "NONE"
    BY <1>5 DEF NoRowAdded, PlanExists
  <2> QED
    BY <1>1, <1>2, <1>5, <2>1 DEF IInv, HandlersCurrent, RowsComplete, NoRowAdded, PlanExists
<1>9. HandlerCurrent(r)'
  BY <1>2 DEF HandlerCurrent
<1> QED
  BY <1>1, <1>5, <1>6, <1>7, <1>8, <1>9, HandlerStep

(* Uploads. *)

LEMMA UploadCvFailInv ==
    ASSUME IInv, NEW r \in Requests, UploadCvFail(r)
    PROVE  IInv'
<1> USE DEF UploadCvFail
<1>1. PICK reply \in {"refused", "error"} : Answer(r, reply)
  OBVIOUS
<1>2. /\ handler'[r] = Ended("done", reply)
      /\ \A s \in Requests : s # r => handler'[s] = handler[s]
  BY <1>1 DEF IInv, TypeOK, Answer
<1>3. handler'[r].phase = "done"
  BY <1>2 DEF Ended
<1>4. TypeOK'
  <2>1. handler' \in [Requests -> HandlerState]
    BY <1>1, AnswerType DEF IInv, Reply
  <2>2. handler[r].case \in Cases \cup {NoOne}
    BY DEF IInv, TypeOK, HandlerState
  <2>3. documents' \in [Requests -> DocumentRow]
    BY <2>2 DEF IInv, TypeOK, DocumentRow
  <2> QED
    BY <2>1, <2>3 DEF IInv, TypeOK
<1>5. LoopExclusive'
  BY <1>2, <1>3, LoopKept DEF Blocking
<1>6. RowsComplete'
  BY <1>2, <1>3 DEF IInv, TypeOK, HandlersCurrent, RowsComplete, PlanExists
<1>7. HandlerCurrent(r)'
  BY <1>3 DEF HandlerCurrent
<1> QED
  BY <1>2, <1>4, <1>5, <1>6, <1>7, UnchangedRows, HandlerStep

LEMMA UploadCvStoreInv ==
    ASSUME IInv, NEW r \in Requests, UploadCvStore(r)
    PROVE  IInv'
<1> USE DEF UploadCvStore
<1>1. /\ handler'[r] = [handler[r] EXCEPT !.phase = "storing"]
      /\ \A s \in Requests : s # r => handler'[s] = handler[s]
  BY DEF IInv, TypeOK
<1>2. handler'[r].phase = "storing" /\ handler'[r].case = handler[r].case
  BY <1>1 DEF IInv, TypeOK, HandlerState
<1>3. TypeOK'
  <2>1. [handler[r] EXCEPT !.phase = "storing"] \in HandlerState
    <3>1. handler[r] \in HandlerState /\ "storing" \in Phase
      BY DEF IInv, TypeOK, Phase, Blocking
    <3> HIDE DEF UploadCvStore
    <3> QED
      BY <3>1 DEF HandlerState
  <2> QED
    BY <2>1 DEF IInv, TypeOK
<1>4. LoopExclusive'
  BY <1>1, <1>2, LoopTaken DEF Blocking
<1>5. RowsComplete'
  BY <1>1, <1>2 DEF IInv, HandlersCurrent, RowsComplete, PlanExists
<1>6. HandlerCurrent(r)'
  BY <1>2 DEF IInv, HandlersCurrent, HandlerCurrent
<1>7. RowsKept
  BY DEF RowsKept, PlanExists
<1> QED
  BY <1>1, <1>3, <1>4, <1>5, <1>6, <1>7, HandlerStep

LEMMA UploadCvCommitInv ==
    ASSUME IInv, NEW r \in Requests, UploadCvCommit(r)
    PROVE  IInv'
<1> USE DEF UploadCvCommit
<1>1. /\ handler'[r] = Ended("done", "ok")
      /\ \A s \in Requests : s # r => handler'[s] = handler[s]
  BY DEF IInv, TypeOK, Answer
<1>2. handler'[r].phase = "done"
  BY <1>1 DEF Ended
<1>3. TypeOK'
  <2>1. handler' \in [Requests -> HandlerState]
    BY AnswerType DEF IInv, Reply
  <2>2. WithStatus(handler[r].case, handler[r].caseStatus, "READY_FOR_PLAN")
          \in [Cases -> CaseRow]
    BY WithStatusType DEF IInv, CaseStatus
  <2>3. handler[r].number + 1 \in Nat /\ handler[r].case \in Cases \cup {NoOne}
    BY DEF IInv, TypeOK, HandlerState
  <2>4. cases' \in [Cases -> CaseRow]
    BY <2>2, <2>3 DEF CaseRow
  <2>5. documents' \in [Requests -> DocumentRow]
    BY <2>3 DEF IInv, TypeOK, DocumentRow
  <2> QED
    BY <2>1, <2>4, <2>5 DEF IInv, TypeOK
<1>4. LoopExclusive'
  BY <1>1, <1>2, LoopReleased DEF Blocking
<1>5. RowsComplete'
  BY <1>1, <1>2 DEF IInv, TypeOK, HandlersCurrent, RowsComplete, PlanExists
<1>6. HandlerCurrent(r)'
  BY <1>2 DEF HandlerCurrent
<1> QED
  BY <1>1, <1>3, <1>4, <1>5, <1>6, UnchangedRows, HandlerStep

(* Runs. *)

LEMMA NewRunType ==
    ASSUME NEW operation \in {"GENERATE_PLAN", "REVISE_PLAN", "ANSWER_QUESTION"},
           NEW c \in Cases, NEW n \in Nat, NEW unique \in BOOLEAN
    PROVE  /\ NewRun(operation, c, n, unique) \in RunRow
           /\ NewRun(operation, c, n, unique).status # "NONE"
           /\ NewRun(operation, c, n, unique).case = c
BY DEF NewRun, RunRow, RunStatus

(* A handler that added its run goes on to call WF-01. *)
LEMMA RunCreated ==
    ASSUME IInv, NEW r \in Requests, NEW c \in Cases, NEW run \in RunRow,
           run.status # "NONE", run.case = c,
           runs[r].status = "NONE",
           handler[r].phase \in {"new", "creating"},
           runs' = [runs EXCEPT ![r] = run],
           questions' \in [Requests -> QuestionStatus],
           handler' = [handler EXCEPT ![r] = Holding("calling", c, "ABSENT", 0)],
           loop \in {NoOne, r}, loop' = NoOne,
           UNCHANGED <<cases, documents, extractions, plans>>
    PROVE  IInv'
<1>1. /\ handler'[r] = Holding("calling", c, "ABSENT", 0)
      /\ \A s \in Requests : s # r => handler'[s] = handler[s]
  BY DEF IInv, TypeOK
<1>2. handler'[r].phase = "calling"
  BY <1>1 DEF Holding
<1>3. TypeOK'
  <2>1. Holding("calling", c, "ABSENT", 0) \in HandlerState
    BY HoldingType DEF Phase
  <2> QED
    BY <2>1 DEF IInv, TypeOK
<1>4. LoopExclusive'
  <2>1. CASE handler[r].phase \in Blocking
    BY <1>1, <1>2, <2>1, LoopReleased DEF Blocking
  <2>2. CASE handler[r].phase \notin Blocking
    <3>1. loop = NoOne
      BY <2>2 DEF IInv, HandlersCurrent, LoopExclusive
    <3> QED
      BY <1>1, <1>2, <2>2, <3>1, LoopKept DEF Blocking
  <2> QED
    BY <2>1, <2>2
<1>5. RowsComplete'
  BY <1>1, <1>2 DEF IInv, TypeOK, HandlersCurrent, RowsComplete, PlanExists
<1>6. HandlerCurrent(r)'
  BY <1>2 DEF IInv, TypeOK, HandlerCurrent
<1>7. RowsKept
  BY DEF IInv, TypeOK, RowsKept, PlanExists
<1> QED
  BY <1>1, <1>3, <1>4, <1>5, <1>6, <1>7, HandlerStep

LEMMA GeneratePlanLoadInv ==
    ASSUME IInv, NEW r \in Requests, NEW c \in Cases, GeneratePlanLoad(r, c)
    PROVE  IInv'
<1> USE DEF GeneratePlanLoad, tables
<1>1. /\ handler'[r] = Holding("creating", c, cases[c].status, cases[c].version)
      /\ \A s \in Requests : s # r => handler'[s] = handler[s]
      /\ handler[r].phase = "new"
  BY DEF IInv, TypeOK, Generation, New
<1>2. /\ handler'[r].phase = "creating"
      /\ handler'[r].case = c
      /\ handler'[r].number = cases[c].version
  BY <1>1 DEF Holding
<1>3. TypeOK'
  <2>1. cases[c].status \in CaseStatus \cup {"ABSENT"} /\ cases[c].version \in Nat
    BY DEF IInv, TypeOK, CaseRow
  <2>2. Holding("creating", c, cases[c].status, cases[c].version) \in HandlerState
    BY <2>1, HoldingType DEF Phase, Blocking
  <2> QED
    BY <2>2 DEF IInv, TypeOK
<1>4. LoopExclusive'
  BY <1>1, <1>2, LoopTaken DEF Blocking
<1>5. RowsComplete'
  BY <1>1, <1>2 DEF IInv, HandlersCurrent, RowsComplete, PlanExists
<1>6. HandlerCurrent(r)'
  BY <1>2 DEF HandlerCurrent, HasSemanticKey
<1> QED
  BY <1>1, <1>3, <1>4, <1>5, <1>6, UnchangedRows, HandlerStep

LEMMA GeneratePlanCreateInv ==
    ASSUME IInv, NEW r \in Requests, GeneratePlanCreate(r)
    PROVE  IInv'
<1> USE DEF GeneratePlanCreate
<1>1. /\ handler[r].case \in Cases
      /\ handler[r].number \in Nat
      /\ runs[r].status = "NONE"
      /\ loop = r
  BY DEF IInv, TypeOK, HandlerState, HandlersCurrent, LoopExclusive, Blocking, RowsComplete,
     HandlerCurrent
<1> DEFINE run == NewRun("GENERATE_PLAN", handler[r].case, handler[r].number,
                         Endpoint[r] = "GENERATE_FORCED")
<1>2. run \in RunRow /\ run.status # "NONE" /\ run.case = handler[r].case
  <2> HIDE DEF GeneratePlanCreate
  <2> QED
    BY <1>1, NewRunType DEF NewRun
<1>3. questions' \in [Requests -> QuestionStatus]
  BY DEF IInv, TypeOK
<1> HIDE DEF run
<1>4. runs' = [runs EXCEPT ![r] = run]
  BY DEF run
<1> QED
  BY <1>1, <1>2, <1>3, <1>4, RunCreated

LEMMA RevisePlanCreateInv ==
    ASSUME IInv, NEW r \in Requests, NEW c \in Cases, RevisePlanCreate(r, c)
    PROVE  IInv'
<1>1. PICK n \in PlanVersions(c) : runs' = [runs EXCEPT ![r] = NewRun("REVISE_PLAN", c, n, TRUE)]
  BY DEF RevisePlanCreate
<1>2. n \in Nat
  BY PlanVersionsType DEF IInv
<1>3. runs[r].status = "NONE" /\ handler[r].phase = "new"
  BY DEF IInv, HandlersCurrent, RowsComplete, RevisePlanCreate, New
<1> DEFINE run == NewRun("REVISE_PLAN", c, n, TRUE)
<1>4. run \in RunRow /\ run.status # "NONE" /\ run.case = c
  BY <1>2, NewRunType
<1>5. questions' \in [Requests -> QuestionStatus]
  BY DEF IInv, TypeOK, RevisePlanCreate
<1> HIDE DEF run
<1>6. runs' = [runs EXCEPT ![r] = run]
  BY <1>1 DEF run
<1> QED
  BY <1>3, <1>4, <1>5, <1>6, RunCreated DEF RevisePlanCreate

LEMMA AskQuestionCreateInv ==
    ASSUME IInv, NEW r \in Requests, NEW c \in Cases, AskQuestionCreate(r, c)
    PROVE  IInv'
<1>1. runs[r].status = "NONE" /\ handler[r].phase = "new"
  BY DEF IInv, HandlersCurrent, RowsComplete, AskQuestionCreate, New
<1>2. questions' \in [Requests -> QuestionStatus]
  BY DEF IInv, TypeOK, AskQuestionCreate, QuestionStatus
<1> DEFINE run == NewRun("ANSWER_QUESTION", c, 0, TRUE)
<1>3. run \in RunRow /\ run.status # "NONE" /\ run.case = c
  BY NewRunType
<1> HIDE DEF run
<1>4. runs' = [runs EXCEPT ![r] = run]
  BY DEF run, AskQuestionCreate
<1> QED
  BY <1>1, <1>2, <1>3, <1>4, RunCreated DEF AskQuestionCreate

(* Calls of WF-01 and their results. *)

LEMMA AgentCallFailsInv ==
    ASSUME IInv, NEW r \in Requests, AgentCallFails(r)
    PROVE  IInv'
<1> USE DEF AgentCallFails, FailRun
<1>1. /\ handler'[r] = Ended("done", "error")
      /\ \A s \in Requests : s # r => handler'[s] = handler[s]
  BY DEF IInv, TypeOK, Answer
<1>2. handler'[r].phase = "done"
  BY <1>1 DEF Ended
<1>3. runs[r].status # "NONE"
  BY DEF IInv, HandlersCurrent, HandlerCurrent
<1>4. \A s \in Requests : /\ runs'[s].status = "NONE" <=> runs[s].status = "NONE"
                          /\ runs'[s].case = runs[s].case
  BY <1>3 DEF IInv, TypeOK, RunRow
<1>5. TypeOK'
  <2>1. handler' \in [Requests -> HandlerState]
    BY AnswerType DEF IInv, Reply
  <2>2. runs' \in [Requests -> RunRow]
    BY DEF IInv, TypeOK, RunRow, RunStatus
  <2>3. questions' \in [Requests -> QuestionStatus]
    BY DEF IInv, TypeOK, QuestionStatus
  <2> QED
    BY <2>1, <2>2, <2>3 DEF IInv, TypeOK
<1>6. LoopExclusive'
  BY <1>1, <1>2, LoopKept DEF Blocking
<1>7. RowsComplete'
  BY <1>1, <1>2, <1>4 DEF IInv, HandlersCurrent, RowsComplete, PlanExists
<1>8. HandlerCurrent(r)'
  BY <1>2 DEF HandlerCurrent
<1>9. RowsKept
  BY <1>4 DEF RowsKept, PlanExists
<1> QED
  BY <1>1, <1>5, <1>6, <1>7, <1>8, <1>9, HandlerStep

(* The handler of q starts on a result of r. *)
LEMMA HoldResultInv ==
    ASSUME IInv, NEW q \in Requests, NEW r \in Requests, NEW payload \in Payload,
           handler[q].phase \in {"new", "calling"}, runs[r].status # "NONE",
           HoldResult(q, r, payload), loop = NoOne, loop' = q, UNCHANGED tables
    PROVE  IInv'
<1> USE DEF tables
<1> DEFINE c == runs[r].case
<1>1. c \in Cases
  BY DEF IInv, HandlersCurrent, RowsComplete
<1>2. PICK n \in {0} \cup PlanVersions(c) :
        /\ IsLatestVersion(c, n)
        /\ handler' = [handler EXCEPT
                         ![q] = [Holding("handling", c, cases[c].status, n)
                                   EXCEPT !.run = r, !.payload = payload]]
  BY DEF HoldResult
<1> DEFINE held == [Holding("handling", c, cases[c].status, n)
                      EXCEPT !.run = r, !.payload = payload]
<1>3. /\ held.phase = "handling"
      /\ held.case = c
      /\ held.number = n
      /\ held.run = r
      /\ held.payload = payload
  BY DEF Holding
<1>4. held \in HandlerState
  <2>1. n \in Nat /\ cases[c].status \in CaseStatus \cup {"ABSENT"}
    BY <1>1, PlanVersionsType DEF IInv, TypeOK, CaseRow
  <2>2. Holding("handling", c, cases[c].status, n) \in HandlerState
    BY <1>1, <2>1, HoldingType DEF Phase, Blocking
  <2> QED
    BY <2>2 DEF HandlerState
<1>5. handler' = [handler EXCEPT ![q] = held]
  BY <1>2
<1> HIDE DEF held
<1>6. /\ handler'[q] = held
      /\ \A s \in Requests : s # q => handler'[s] = handler[s]
  BY <1>5 DEF IInv, TypeOK
<1>7. TypeOK'
  BY <1>4, <1>5 DEF IInv, TypeOK
<1>8. LoopExclusive'
  BY <1>3, <1>6, LoopTaken DEF Blocking
<1>9. RowsComplete'
  BY <1>3, <1>6 DEF IInv, HandlersCurrent, RowsComplete, PlanExists
<1>10. HandlerCurrent(q)'
  <2>1. PlanVersions(c)' = PlanVersions(c)
    BY DEF PlanVersions, PlanExists
  <2>2. ResultCurrent(q)'
    BY <1>2, <1>3, <1>6, <2>1 DEF ResultCurrent, IsLatestVersion
  <2> QED
    BY <1>3, <1>6, <2>2 DEF HandlerCurrent
<1> QED
  BY <1>6, <1>7, <1>8, <1>9, <1>10, UnchangedRows, HandlerStep

LEMMA AgentCallReturnsInv ==
    ASSUME IInv, NEW r \in Requests, NEW payload \in Payload, AgentCallReturns(r, payload)
    PROVE  IInv'
<1>1. runs[r].status # "NONE"
  BY DEF IInv, HandlersCurrent, HandlerCurrent, AgentCallReturns
<1> QED
  BY <1>1, HoldResultInv DEF AgentCallReturns

LEMMA AgentRunCallbackInv ==
    ASSUME IInv, NEW q \in Requests, NEW r \in Requests, NEW payload \in Payload,
           AgentRunCallback(q, r, payload)
    PROVE  IInv'
BY HoldResultInv DEF AgentRunCallback, New

(* What every handling of a result does: it settles or keeps its run, may  *)
(* add a plan of its own, and ends.                                        *)
LEMMA HandlingInv ==
    ASSUME IInv, NEW q \in Requests, NEW operations, NEW payloads,
           Handling(q, operations, payloads),
           cases' \in [Cases -> CaseRow],
           runs' \in [Requests -> RunRow],
           plans' \in [Requests -> PlanRow],
           questions' \in [Requests -> QuestionStatus],
           UNCHANGED <<documents, extractions>>,
           \A s \in Requests : /\ runs'[s].status = "NONE" <=> runs[s].status = "NONE"
                               /\ runs'[s].case = runs[s].case,
           \A p \in Requests : p # q => plans'[p] = plans[p],
           plans'[q].status # "NONE" => plans'[q].case \in Cases
    PROVE  IInv'
<1>1. handler[q].phase = "handling" /\ Answer(q, "ok") /\ loop' = NoOne
  BY DEF Handling
<1>2. /\ handler'[q] = Ended("done", "ok")
      /\ \A s \in Requests : s # q => handler'[s] = handler[s]
  BY <1>1 DEF IInv, TypeOK, Answer
<1>3. handler'[q].phase = "done"
  BY <1>2 DEF Ended
<1>4. TypeOK'
  <2>1. handler' \in [Requests -> HandlerState]
    BY <1>1, AnswerType DEF IInv, Reply
  <2> QED
    BY <1>1, <2>1 DEF IInv, TypeOK
<1>5. LoopExclusive'
  BY <1>1, <1>2, <1>3, LoopReleased DEF Blocking
<1>6. RowsComplete'
  BY <1>2, <1>3 DEF IInv, HandlersCurrent, RowsComplete, PlanExists
<1>7. HandlerCurrent(q)'
  BY <1>3 DEF HandlerCurrent
<1>8. plans[q].status = "NONE"
  BY <1>1 DEF IInv, HandlersCurrent, RowsComplete
<1>9. RowsKept
  BY <1>8 DEF RowsKept, PlanExists
<1>10. loop = q
  BY <1>1 DEF IInv, HandlersCurrent, LoopExclusive, Blocking
<1> QED
  BY <1>2, <1>4, <1>5, <1>6, <1>7, <1>9, <1>10, HandlerStep

(* The run a result is about exists. *)
LEMMA HandledRun ==
    ASSUME IInv, NEW q \in Requests, handler[q].phase = "handling"
    PROVE  /\ handler[q].run \in Requests
           /\ runs[handler[q].run].status # "NONE"
           /\ runs[handler[q].run].case = handler[q].case
           /\ handler[q].case \in Cases
           /\ handler[q].payload \in Payload
           /\ handler[q].number \in Nat
BY DEF IInv, TypeOK, HandlerState, HandlersCurrent, HandlerCurrent, ResultCurrent, RowsComplete

LEMMA SettleKeeps ==
    ASSUME IInv, NEW q \in Requests, handler[q].phase = "handling",
           NEW status \in RunStatus, Settle(q, status)
    PROVE  /\ runs' \in [Requests -> RunRow]
           /\ \A s \in Requests : /\ runs'[s].status = "NONE" <=> runs[s].status = "NONE"
                                  /\ runs'[s].case = runs[s].case
<1> DEFINE r == handler[q].run
<1>1. r \in Requests /\ runs[r].status # "NONE" /\ handler[q].payload \in Payload
  BY HandledRun
<1> DEFINE row == [runs[r] EXCEPT !.status = status, !.result = handler[q].payload]
<1>2. runs[r] \in RunRow
  BY <1>1 DEF IInv, TypeOK
<1>3. row \in RunRow /\ row.status = status /\ row.case = runs[r].case
  BY <1>1, <1>2 DEF RunRow, RunStatus
<1>4. runs' = [runs EXCEPT ![r] = row]
  BY <1>1 DEF IInv, TypeOK, Settle
<1> HIDE DEF r, row
<1> QED
  BY <1>1, <1>3, <1>4 DEF IInv, TypeOK, RunStatus

LEMMA FailPlanRunInv ==
    ASSUME IInv, NEW q \in Requests, FailPlanRun(q)
    PROVE  IInv'
<1>1. handler[q].phase = "handling"
  BY DEF FailPlanRun, Handling
<1>2. cases' \in [Cases -> CaseRow]
  BY WithStatusType DEF IInv, TypeOK, CaseStatus, FailPlanRun
<1>3. plans[q].status = "NONE"
  BY <1>1 DEF IInv, HandlersCurrent, RowsComplete
<1>4. /\ runs' \in [Requests -> RunRow]
      /\ \A s \in Requests : /\ runs'[s].status = "NONE" <=> runs[s].status = "NONE"
                             /\ runs'[s].case = runs[s].case
  BY <1>1, SettleKeeps DEF FailPlanRun, RunStatus
<1> QED
  BY <1>2, <1>3, <1>4, HandlingInv DEF FailPlanRun, IInv, TypeOK

LEMMA SaveCompletedPlanInv ==
    ASSUME IInv, NEW q \in Requests, SaveCompletedPlan(q)
    PROVE  IInv'
<1>1. handler[q].phase = "handling"
  BY DEF SaveCompletedPlan, Handling
<1>2. cases' \in [Cases -> CaseRow]
  BY WithStatusType DEF IInv, TypeOK, CaseStatus, SaveCompletedPlan
<1>3. /\ runs' \in [Requests -> RunRow]
      /\ \A s \in Requests : /\ runs'[s].status = "NONE" <=> runs[s].status = "NONE"
                             /\ runs'[s].case = runs[s].case
  BY <1>1, SettleKeeps DEF SaveCompletedPlan, RunStatus
<1> DEFINE row == [status |-> "UNDER_REVIEW", case |-> handler[q].case,
                   version |-> handler[q].number + 1, run |-> handler[q].run]
<1>4. row \in PlanRow /\ row.case \in Cases
  BY <1>1, HandledRun DEF PlanRow
<1>5. plans' = [plans EXCEPT ![q] = row]
  BY DEF SaveCompletedPlan
<1> HIDE DEF row
<1>6. /\ plans' \in [Requests -> PlanRow]
      /\ \A p \in Requests : p # q => plans'[p] = plans[p]
      /\ plans'[q].case \in Cases
  BY <1>4, <1>5 DEF IInv, TypeOK
<1> QED
  BY <1>2, <1>3, <1>6, HandlingInv DEF SaveCompletedPlan, IInv, TypeOK

LEMMA StoreResultInv ==
    ASSUME IInv, NEW q \in Requests, StoreResult(q)
    PROVE  IInv'
<1>1. handler[q].phase = "handling"
  BY DEF StoreResult, Handling
<1>2. plans[q].status = "NONE"
  BY <1>1 DEF IInv, HandlersCurrent, RowsComplete
<1>3. handler[q].run \in Requests /\ handler[q].payload \in Payload
  BY <1>1, HandledRun
<1>4. /\ runs' \in [Requests -> RunRow]
      /\ \A s \in Requests : /\ runs'[s].status = "NONE" <=> runs[s].status = "NONE"
                             /\ runs'[s].case = runs[s].case
  BY <1>3 DEF IInv, TypeOK, RunRow, StoreResult
<1> QED
  BY <1>2, <1>4, HandlingInv DEF StoreResult, IInv, TypeOK

LEMMA SettleQuestionInv ==
    ASSUME IInv, NEW q \in Requests, FailQuestion(q) \/ AnswerQuestion(q)
    PROVE  IInv'
<1>1. handler[q].phase = "handling"
  BY DEF FailQuestion, AnswerQuestion, Handling
<1>2. plans[q].status = "NONE"
  BY <1>1 DEF IInv, HandlersCurrent, RowsComplete
<1>3. questions' \in [Requests -> QuestionStatus]
  BY DEF IInv, TypeOK, QuestionStatus, FailQuestion, AnswerQuestion
<1>4. /\ runs' \in [Requests -> RunRow]
      /\ \A s \in Requests : /\ runs'[s].status = "NONE" <=> runs[s].status = "NONE"
                             /\ runs'[s].case = runs[s].case
  BY <1>1, SettleKeeps DEF FailQuestion, AnswerQuestion, RunStatus
<1> QED
  BY <1>2, <1>3, <1>4, HandlingInv DEF FailQuestion, AnswerQuestion, IInv, TypeOK

LEMMA CrashInv ==
    ASSUME IInv, Crash
    PROVE  IInv'
<1> USE DEF Crash, tables
<1>1. \A r \in Requests :
        \/ handler'[r] = handler[r] /\ handler[r].phase \in {"new", "done", "dead"}
        \/ handler'[r] = Ended("dead", "none")
  BY DEF InFlight
<1>2. Ended("dead", "none") \in HandlerState /\ Ended("dead", "none").phase = "dead"
  BY EndedType DEF Phase, Reply, Ended
<1>3. TypeOK'
  <2>1. handler' \in [Requests -> HandlerState]
    BY <1>2 DEF IInv, TypeOK
  <2> QED
    BY <2>1 DEF IInv, TypeOK
<1>4. LoopExclusive'
  BY <1>1, <1>2, NoOneAssumption DEF LoopExclusive, Blocking
<1>5. RowsComplete'
  <2> SUFFICES ASSUME NEW r \in Requests
               PROVE  /\ handler'[r].phase # "done" => handler[r].phase # "done"
                      /\ handler'[r].phase \notin {"calling", "handling", "done", "dead"} =>
                           handler'[r] = handler[r]
    BY DEF IInv, HandlersCurrent, RowsComplete, PlanExists
  <2> QED
    BY <1>1, <1>2 DEF InFlight
<1>6. \A r \in Requests : HandlerCurrent(r)'
  BY <1>1, <1>2 DEF HandlerCurrent
<1> QED
  BY <1>3, <1>4, <1>5, <1>6 DEF IInv, HandlersCurrent

-----------------------------------------------------------------------------
(* The induction. *)

LEMMA InitInv == Init => IInv
<1> SUFFICES ASSUME Init PROVE IInv
  OBVIOUS
<1> USE DEF Init
<1>1. TypeOK
  <2>1. cases \in [Cases -> CaseRow]
    BY SeededAssumption DEF NewCase, CaseRow, CaseStatus
  <2>2. runs \in [Requests -> RunRow]
    BY DEF NewRun, RunRow
  <2>3. handler \in [Requests -> HandlerState]
    BY EndedType DEF Phase, Reply
  <2> QED
    BY <2>1, <2>2, <2>3 DEF TypeOK, DocumentRow, PlanRow, QuestionStatus
<1>2. \A r \in Requests : handler[r].phase = "new"
  BY DEF Ended
<1>3. LoopExclusive
  BY <1>2, NoOneAssumption DEF LoopExclusive, Blocking
<1>4. RowsComplete
  BY <1>2 DEF RowsComplete, PlanExists, NewRun
<1>5. \A r \in Requests : HandlerCurrent(r)
  BY <1>2 DEF HandlerCurrent
<1> QED
  BY <1>1, <1>3, <1>4, <1>5 DEF IInv, HandlersCurrent

LEMMA NextInv == IInv /\ [Next]_vars => IInv'
<1> SUFFICES ASSUME IInv, [Next]_vars PROVE IInv'
  OBVIOUS
<1>1. ASSUME NEW r \in Requests, Arrive(r) PROVE IInv'
  <2>1. CASE Reject(r)
    BY <2>1, AnswerOnly DEF Reject, Reply
  <2>2. ASSUME NEW c \in Cases, CreateEmployee(r, c) PROVE IInv'
    BY <2>2, CreateEmployeeInv
  <2>3. ASSUME NEW c \in Cases, UpdateEmployeeLoad(r, c) \/ UploadCv(r, c) PROVE IInv'
    BY <2>3, LoadInv DEF UpdateEmployeeLoad, UploadCv, New
  <2>4. ASSUME NEW c \in Cases,
               \/ GeneratePlanConflict(r, c)
               \/ GeneratePlanDuplicate(r, c)
               \/ RevisePlanConflict(r, c)
        PROVE  IInv'
    BY <2>4, RefusalsInv
  <2>5. ASSUME NEW c \in Cases, GeneratePlanLoad(r, c) PROVE IInv'
    BY <2>5, GeneratePlanLoadInv
  <2>6. ASSUME NEW c \in Cases, RevisePlanCreate(r, c) PROVE IInv'
    BY <2>6, RevisePlanCreateInv
  <2>7. ASSUME NEW c \in Cases, AskQuestionCreate(r, c) PROVE IInv'
    BY <2>7, AskQuestionCreateInv
  <2>8. ASSUME NEW p \in Requests, ApprovePlanLoad(r, p) PROVE IInv'
    BY <2>8, ApprovePlanLoadInv
  <2>9. ASSUME NEW s \in Requests, NEW payload \in Payload, AgentRunCallback(r, s, payload)
        PROVE  IInv'
    BY <2>9, AgentRunCallbackInv
  <2> QED
    BY <1>1, <2>1, <2>2, <2>3, <2>4, <2>5, <2>6, <2>7, <2>8, <2>9 DEF Arrive
<1>2. ASSUME NEW r \in Requests, Proceed(r) PROVE IInv'
  <2>1. CASE UploadCvTooLarge(r)
    BY <2>1, AnswerOnly DEF UploadCvTooLarge, Reply
  <2>2. CASE UpdateEmployeeCommit(r) \/ ApprovePlanCommit(r)
    BY <2>2, UpdateEmployeeCommitInv, ApprovePlanCommitInv
  <2>3. CASE UploadCvFail(r) \/ UploadCvStore(r) \/ UploadCvCommit(r)
    BY <2>3, UploadCvFailInv, UploadCvStoreInv, UploadCvCommitInv
  <2>4. CASE GeneratePlanCreate(r)
    BY <2>4, GeneratePlanCreateInv
  <2>5. CASE FailPlanRun(r) \/ SaveCompletedPlan(r) \/ StoreResult(r)
    BY <2>5, FailPlanRunInv, SaveCompletedPlanInv, StoreResultInv
  <2>6. CASE FailQuestion(r) \/ AnswerQuestion(r)
    BY <2>6, SettleQuestionInv
  <2> QED
    BY <1>2, <2>1, <2>2, <2>3, <2>4, <2>5, <2>6 DEF Proceed
<1>3. ASSUME NEW r \in Requests, AgentCallFails(r) PROVE IInv'
  BY <1>3, AgentCallFailsInv
<1>4. ASSUME NEW r \in Requests, NEW payload \in Payload, AgentCallReturns(r, payload)
      PROVE  IInv'
  BY <1>4, AgentCallReturnsInv
<1>5. CASE Crash
  BY <1>5, CrashInv
<1>6. CASE UNCHANGED vars
  <2> USE <1>6 DEF vars
  <2>1. TypeOK'
    BY DEF IInv, TypeOK
  <2>2. LoopExclusive' /\ RowsComplete'
    BY DEF IInv, HandlersCurrent, LoopExclusive, RowsComplete, PlanExists
  <2>3. \A c : PlanVersions(c)' = PlanVersions(c)
    BY DEF PlanVersions, PlanExists
  <2>4. \A r \in Requests : HandlerCurrent(r)'
    BY <2>3 DEF IInv, HandlersCurrent, HandlerCurrent, ResultCurrent, IsLatestVersion,
       HasSemanticKey, PlanExists
  <2> QED
    BY <2>1, <2>2, <2>4 DEF IInv, HandlersCurrent
<1> QED
  BY <1>1, <1>2, <1>3, <1>4, <1>5, <1>6 DEF Next

LEMMA Invariance == Spec => []IInv
BY InitInv, NextInv, PTL DEF Spec

(* Every variable keeps its type, for every set of cases and requests.     *)
THEOREM TypeCorrect == Spec => []TypeOK
<1>1. IInv => TypeOK
  BY DEF IInv
<1> QED
  BY <1>1, Invariance, PTL

(* What a handler on the event loop loaded about runs, plans and           *)
(* extractions is still true when it commits.                              *)
THEOREM HandlersStayCurrent == Spec => []HandlersCurrent
<1>1. IInv => HandlersCurrent
  BY DEF IInv
<1> QED
  BY <1>1, Invariance, PTL

-----------------------------------------------------------------------------
(* The series of plans. *)

(* Only an approval and a completed result change the plans table. *)
LEMMA PlansChange ==
    ASSUME [Next]_vars
    PROVE  \/ UNCHANGED plans
           \/ \E q \in Requests : ApprovePlanCommit(q) \/ SaveCompletedPlan(q)
<1>1. ASSUME NEW r \in Requests, Arrive(r) PROVE UNCHANGED plans
  BY <1>1 DEF Arrive, tables, Reject, CreateEmployee, UpdateEmployeeLoad, UploadCv,
     GeneratePlanConflict, GeneratePlanDuplicate, GeneratePlanLoad, RevisePlanConflict,
     RevisePlanCreate, AskQuestionCreate, ApprovePlanLoad, AgentRunCallback
<1>2. ASSUME NEW r \in Requests, Proceed(r)
      PROVE  UNCHANGED plans \/ ApprovePlanCommit(r) \/ SaveCompletedPlan(r)
  BY <1>2 DEF Proceed, tables, UpdateEmployeeCommit, UploadCvTooLarge, UploadCvFail,
     UploadCvStore, UploadCvCommit, GeneratePlanCreate, FailPlanRun, StoreResult,
     FailQuestion, AnswerQuestion
<1> QED
  BY <1>1, <1>2 DEF Next, vars, tables, AgentCallFails, AgentCallReturns, Crash

(* An approval changes the status of one existing plan. *)
LEMMA ApprovalChanges ==
    ASSUME IInv, NEW q \in Requests, ApprovePlanCommit(q)
    PROVE  \E p \in Requests :
             /\ PlanExists(p)
             /\ plans' = [plans EXCEPT ![p].status = "APPROVED"]
BY DEF IInv, HandlersCurrent, HandlerCurrent, ApprovePlanCommit

(* A completed result adds one plan, numbered after the latest of its case. *)
LEMMA CompletionAdds ==
    ASSUME IInv, NEW q \in Requests, SaveCompletedPlan(q)
    PROVE  \E c \in Cases, n \in Nat, r \in Requests :
             /\ ~ PlanExists(q)
             /\ IsLatestVersion(c, n)
             /\ r = handler[q].run
             /\ c = runs[r].case
             /\ plans' = [plans EXCEPT ![q] = [status  |-> "UNDER_REVIEW",
                                               case    |-> c,
                                               version |-> n + 1,
                                               run     |-> r]]
<1>1. handler[q].phase = "handling"
  BY DEF SaveCompletedPlan, Handling
<1>2. /\ handler[q].case \in Cases
      /\ handler[q].number \in Nat
      /\ handler[q].run \in Requests
      /\ handler[q].case = runs[handler[q].run].case
  BY <1>1, HandledRun
<1>3. ~ PlanExists(q) /\ IsLatestVersion(handler[q].case, handler[q].number)
  BY <1>1 DEF IInv, HandlersCurrent, HandlerCurrent, ResultCurrent, RowsComplete, PlanExists
<1> QED
  BY <1>2, <1>3 DEF SaveCompletedPlan

LEMMA PlanVersionsStep ==
    ASSUME IInv, PlanVersionsConsecutive, [Next]_vars
    PROVE  PlanVersionsConsecutive'
<1>1. CASE UNCHANGED plans
  <2>1. \A c : PlanVersions(c)' = PlanVersions(c)
    BY <1>1 DEF PlanVersions, PlanExists
  <2> QED
    BY <1>1, <2>1 DEF PlanVersionsConsecutive, PlanExists
<1>2. ASSUME NEW q \in Requests, ApprovePlanCommit(q) PROVE PlanVersionsConsecutive'
  <2>1. \A p \in Requests : /\ PlanExists(p)' <=> PlanExists(p)
                            /\ plans'[p].case = plans[p].case
                            /\ plans'[p].version = plans[p].version
    BY <1>2, ApprovalChanges DEF IInv, TypeOK, PlanRow, PlanExists
  <2>2. \A c : PlanVersions(c)' = PlanVersions(c)
    BY <2>1 DEF PlanVersions
  <2> QED
    BY <2>1, <2>2 DEF PlanVersionsConsecutive
<1>3. ASSUME NEW q \in Requests, SaveCompletedPlan(q) PROVE PlanVersionsConsecutive'
  <2>1. PICK c \in Cases, n \in Nat, r \in Requests :
          /\ ~ PlanExists(q)
          /\ IsLatestVersion(c, n)
          /\ plans' = [plans EXCEPT ![q] = [status  |-> "UNDER_REVIEW", case |-> c,
                                            version |-> n + 1, run |-> r]]
    BY <1>3, CompletionAdds
  <2>2. /\ PlanExists(q)' /\ plans'[q].case = c /\ plans'[q].version = n + 1
        /\ \A p \in Requests : p # q => plans'[p] = plans[p]
    BY <2>1 DEF IInv, TypeOK, PlanExists
  <2>3. \A d : PlanVersions(d) \subseteq PlanVersions(d)'
    BY <2>1, <2>2 DEF PlanVersions, PlanExists
  <2>4. \A p \in Requests : PlanExists(p) /\ plans[p].case = c => plans[p].version <= n
    BY <2>1 DEF IsLatestVersion, PlanVersions
  <2>5. n + 1 > 1 => n \in PlanVersions(c)
    BY <2>1 DEF IsLatestVersion
  <2>6. \A p \in Requests : plans[p].version \in Nat
    BY DEF IInv, TypeOK, PlanRow
  <2> SUFFICES ASSUME NEW p \in Requests, PlanExists(p)'
               PROVE  /\ plans'[p].version > 0
                      /\ \A s \in Requests :
                           /\ PlanExists(s)'
                           /\ plans'[s].case = plans'[p].case
                           /\ plans'[s].version = plans'[p].version
                           => s = p
                      /\ plans'[p].version > 1 =>
                           plans'[p].version - 1 \in PlanVersions(plans[p].case)'
    BY <2>2 DEF PlanVersionsConsecutive
  <2>7. CASE p = q
    BY <2>2, <2>3, <2>4, <2>5, <2>6, <2>7 DEF PlanExists
  <2>8. CASE p # q
    <3>1. PlanExists(p) /\ plans'[p] = plans[p]
      BY <2>2, <2>8 DEF PlanExists
    <3> QED
      BY <2>2, <2>3, <2>4, <2>6, <3>1 DEF PlanVersionsConsecutive, PlanExists
  <2> QED
    BY <2>7, <2>8
<1> QED
  BY <1>1, <1>2, <1>3, PlansChange

(* The plans of every case are numbered 1, 2, 3, ..., whichever requests   *)
(* and callbacks arrive and however their handlers interleave.             *)
THEOREM PlanNumbering == Spec => []PlanVersionsConsecutive
<1>1. Init => PlanVersionsConsecutive
  BY DEF Init, PlanVersionsConsecutive, PlanExists
<1>2. IInv /\ PlanVersionsConsecutive /\ [Next]_vars => PlanVersionsConsecutive'
  BY PlanVersionsStep
<1> QED
  BY <1>1, <1>2, Invariance, PTL DEF Spec

-----------------------------------------------------------------------------
(* The plans table implements the ledger. *)

LedgerRow(p) == [status |-> plans[p].status, case |-> plans[p].case,
                 version |-> plans[p].version]
LedgerRows == [p \in Requests |-> LedgerRow(p)]

LEMMA SeriesIsPlanVersions == \A c : Ledger!Series(c) = PlanVersions(c)
<1> SUFFICES ASSUME NEW c PROVE Ledger!Series(c) = PlanVersions(c)
  OBVIOUS
<1>1. \A p \in Requests : Ledger!Entered(p) <=> PlanExists(p)
  BY DEF Ledger!Entered, PlanExists
<1> QED
  BY <1>1 DEF Ledger!Series, PlanVersions

LEMMA LedgerStep ==
    ASSUME IInv, [Next]_vars
    PROVE  Ledger!Next \/ UNCHANGED LedgerRows
<1>1. CASE UNCHANGED plans
  BY <1>1 DEF LedgerRows, LedgerRow
<1>2. ASSUME NEW q \in Requests, ApprovePlanCommit(q) PROVE Ledger!Next
  <2>1. PICK p \in Requests : PlanExists(p) /\ plans' = [plans EXCEPT ![p].status = "APPROVED"]
    BY <1>2, ApprovalChanges
  <2>2. /\ plans'[p].status = "APPROVED"
        /\ plans'[p].case = plans[p].case
        /\ plans'[p].version = plans[p].version
        /\ \A s \in Requests : s # p => plans'[s] = plans[s]
    BY <2>1 DEF IInv, TypeOK, PlanRow
  <2>3. LedgerRows' = [LedgerRows EXCEPT ![p].status = "APPROVED"]
    <3>1. LedgerRow(p)' = [LedgerRow(p) EXCEPT !.status = "APPROVED"]
      BY <2>2 DEF LedgerRow
    <3>2. \A s \in Requests : s # p => LedgerRow(s)' = LedgerRow(s)
      BY <2>2 DEF LedgerRow
    <3> QED
      BY <3>1, <3>2 DEF LedgerRows
  <2>4. Ledger!Approve(p)
    BY <2>1, <2>3 DEF Ledger!Approve, Ledger!Entered, PlanExists, LedgerRows, LedgerRow
  <2> QED
    BY <2>4 DEF Ledger!Next
<1>3. ASSUME NEW q \in Requests, SaveCompletedPlan(q) PROVE Ledger!Next
  <2>1. PICK c \in Cases, n \in Nat, r \in Requests :
          /\ ~ PlanExists(q)
          /\ IsLatestVersion(c, n)
          /\ plans' = [plans EXCEPT ![q] = [status  |-> "UNDER_REVIEW", case |-> c,
                                            version |-> n + 1, run |-> r]]
    BY <1>3, CompletionAdds
  <2>2. /\ plans'[q].status = "UNDER_REVIEW"
        /\ plans'[q].case = c
        /\ plans'[q].version = n + 1
        /\ \A s \in Requests : s # q => plans'[s] = plans[s]
    BY <2>1 DEF IInv, TypeOK
  <2>3. LedgerRows' = [LedgerRows EXCEPT
                         ![q] = [status |-> "UNDER_REVIEW", case |-> c, version |-> n + 1]]
    BY <2>2 DEF LedgerRows, LedgerRow
  <2>4. n + 1 \in {1} \cup {v + 1 : v \in PlanVersions(c)}
    BY <2>1 DEF IsLatestVersion
  <2>5. Ledger!IsNext(n + 1, c)
    <3>1. \A v \in PlanVersions(c) : v \in Nat /\ v <= n
      BY <2>1, PlanVersionsType DEF IInv, IsLatestVersion
    <3> QED
      BY <2>4, <3>1, SeriesIsPlanVersions DEF Ledger!IsNext
  <2>6. Ledger!Append(q, c)
    BY <2>1, <2>2, <2>3, <2>4, <2>5, SeriesIsPlanVersions
       DEF Ledger!Append, Ledger!Entered, PlanExists, LedgerRows, LedgerRow
  <2> QED
    BY <2>6 DEF Ledger!Next
<1> QED
  BY <1>1, <1>2, <1>3, PlansChange

(* Requests of every kind, in any number and order, change the plans table *)
(* only by appending the next plan of a case and by approving one.         *)
THEOREM LedgerImplemented == Spec => ImplementsLedger
<1>1. Init => Ledger!Init
  BY DEF Init, Ledger!Init, Ledger!Blank
<1>2. IInv /\ [Next]_vars => Ledger!Next \/ UNCHANGED LedgerRows
  BY LedgerStep
<1> QED
  BY <1>1, <1>2, Invariance, PTL DEF Spec, ImplementsLedger, Ledger!Spec, LedgerRows, LedgerRow

-----------------------------------------------------------------------------
(* Documents and extractions. *)

LEMMA DocumentsChange ==
    ASSUME [Next]_vars
    PROVE  \/ UNCHANGED documents
           \/ \E q \in Requests : UploadCvFail(q) \/ UploadCvCommit(q)
<1>1. ASSUME NEW r \in Requests, Arrive(r) PROVE UNCHANGED documents
  BY <1>1 DEF Arrive, tables, Reject, CreateEmployee, UpdateEmployeeLoad, UploadCv,
     GeneratePlanConflict, GeneratePlanDuplicate, GeneratePlanLoad, RevisePlanConflict,
     RevisePlanCreate, AskQuestionCreate, ApprovePlanLoad, AgentRunCallback
<1>2. ASSUME NEW r \in Requests, Proceed(r)
      PROVE  UNCHANGED documents \/ UploadCvFail(r) \/ UploadCvCommit(r)
  BY <1>2 DEF Proceed, tables, UpdateEmployeeCommit, UploadCvTooLarge, ApprovePlanCommit,
     UploadCvStore, GeneratePlanCreate, FailPlanRun, SaveCompletedPlan, StoreResult,
     FailQuestion, AnswerQuestion
<1> QED
  BY <1>1, <1>2 DEF Next, vars, tables, AgentCallFails, AgentCallReturns, Crash

LEMMA ExtractionsGrow ==
    ASSUME [Next]_vars
    PROVE  extractions \subseteq extractions'
<1>1. ASSUME NEW r \in Requests, Arrive(r) PROVE UNCHANGED extractions
  BY <1>1 DEF Arrive, tables, Reject, CreateEmployee, UpdateEmployeeLoad, UploadCv,
     GeneratePlanConflict, GeneratePlanDuplicate, GeneratePlanLoad, RevisePlanConflict,
     RevisePlanCreate, AskQuestionCreate, ApprovePlanLoad, AgentRunCallback
<1>2. ASSUME NEW r \in Requests, Proceed(r) PROVE UNCHANGED extractions \/ UploadCvStore(r)
  BY <1>2 DEF Proceed, tables, UpdateEmployeeCommit, UploadCvTooLarge, ApprovePlanCommit,
     UploadCvFail, UploadCvCommit, GeneratePlanCreate, FailPlanRun, SaveCompletedPlan,
     StoreResult, FailQuestion, AnswerQuestion
<1> QED
  BY <1>1, <1>2 DEF Next, vars, tables, AgentCallFails, AgentCallReturns, Crash, UploadCvStore

(* A document row is written once, by its upload. *)
LEMMA DocumentsKept ==
    ASSUME IInv, [Next]_vars, NEW u \in Requests, documents[u].status # "NONE"
    PROVE  documents'[u] = documents[u]
<1>1. ASSUME NEW q \in Requests, UploadCvFail(q) \/ UploadCvCommit(q)
      PROVE  documents'[u] = documents[u]
  <2>1. handler[q].phase # "done"
    BY <1>1 DEF UploadCvFail, UploadCvCommit
  <2>2. q # u
    BY <2>1 DEF IInv, HandlersCurrent, RowsComplete
  <2> QED
    BY <1>1, <2>2 DEF IInv, TypeOK, UploadCvFail, UploadCvCommit
<1> QED
  BY <1>1, DocumentsChange

LEMMA ProcessedStep ==
    ASSUME IInv, ProcessedHasExtraction, [Next]_vars
    PROVE  ProcessedHasExtraction'
<1> SUFFICES ASSUME NEW u \in Requests, documents'[u].status = "PROCESSED"
             PROVE  u \in extractions'
  BY DEF ProcessedHasExtraction
<1>1. CASE documents[u].status = "PROCESSED"
  BY <1>1, ExtractionsGrow DEF ProcessedHasExtraction
<1>2. CASE documents[u].status # "PROCESSED"
  <2>1. PICK q \in Requests : UploadCvFail(q) \/ UploadCvCommit(q)
    BY <1>2, DocumentsChange
  <2>2. UploadCvCommit(q) /\ q = u
    BY <1>2, <2>1 DEF IInv, TypeOK, UploadCvFail, UploadCvCommit
  <2>3. u \in extractions
    BY <2>2 DEF IInv, HandlersCurrent, HandlerCurrent, UploadCvCommit
  <2> QED
    BY <2>3, ExtractionsGrow
<1> QED
  BY <1>1, <1>2

(* A document is PROCESSED only once its extraction is stored. *)
THEOREM ExtractionFirst == Spec => []ProcessedHasExtraction
<1>1. Init => ProcessedHasExtraction
  BY DEF Init, ProcessedHasExtraction
<1>2. IInv /\ ProcessedHasExtraction /\ [Next]_vars => ProcessedHasExtraction'
  BY ProcessedStep
<1> QED
  BY <1>1, <1>2, Invariance, PTL DEF Spec

-----------------------------------------------------------------------------
(* What a step does to the runs. *)

CreatesRun(q) ==
    \/ GeneratePlanCreate(q)
    \/ \E c \in Cases : RevisePlanCreate(q, c) \/ AskQuestionCreate(q, c)

SettlesRun(q) == FailPlanRun(q) \/ SaveCompletedPlan(q) \/ FailQuestion(q) \/ AnswerQuestion(q)

LEMMA RunsChange ==
    ASSUME [Next]_vars
    PROVE  \/ UNCHANGED <<runs, questions>>
           \/ \E q \in Requests :
                CreatesRun(q) \/ AgentCallFails(q) \/ StoreResult(q) \/ SettlesRun(q)
<1>1. ASSUME NEW r \in Requests, Arrive(r) PROVE UNCHANGED <<runs, questions>> \/ CreatesRun(r)
  BY <1>1 DEF Arrive, tables, CreatesRun, Reject, CreateEmployee, UpdateEmployeeLoad, UploadCv,
     GeneratePlanConflict, GeneratePlanDuplicate, GeneratePlanLoad, RevisePlanConflict,
     ApprovePlanLoad, AgentRunCallback
<1>2. ASSUME NEW r \in Requests, Proceed(r)
      PROVE  \/ UNCHANGED <<runs, questions>>
             \/ CreatesRun(r) \/ StoreResult(r) \/ SettlesRun(r)
  BY <1>2 DEF Proceed, tables, CreatesRun, SettlesRun, UpdateEmployeeCommit, UploadCvTooLarge,
     ApprovePlanCommit, UploadCvFail, UploadCvStore, UploadCvCommit
<1> QED
  BY <1>1, <1>2 DEF Next, vars, tables, AgentCallReturns, Crash

LEMMA NewRunUnique ==
    ASSUME NEW operation, NEW c, NEW version, NEW unique
    PROVE  NewRun(operation, c, version, unique).unique = unique
BY DEF NewRun

(* A run is created RUNNING, in a row that was free, and named by a new *)
(* semantic key if it is named without a suffix.                        *)
LEMMA RunCreation ==
    ASSUME IInv, NEW q \in Requests, CreatesRun(q)
    PROVE  /\ runs[q].status = "NONE"
           /\ handler[q].phase \in {"new", "creating"}
           /\ runs'[q].status = "RUNNING"
           /\ runs'[q].result = "NONE"
           /\ \A s \in Requests : s # q => runs'[s] = runs[s]
           /\ handler'[q].phase = "calling"
           /\ \A s \in Requests : s # q => handler'[s] = handler[s]
           /\ \/ /\ GeneratePlanCreate(q)
                 /\ runs'[q].operation = "GENERATE_PLAN"
                 /\ runs'[q].case = handler[q].case
                 /\ runs'[q].version = handler[q].number
                 /\ runs'[q].unique = (Endpoint[q] = "GENERATE_FORCED")
                 /\ questions' = questions
              \/ /\ runs'[q].operation = "REVISE_PLAN" /\ runs'[q].unique
                 /\ \E c \in Cases : RevisePlanCreate(q, c) /\ runs'[q].case = c
                 /\ questions' = questions
              \/ /\ runs'[q].operation = "ANSWER_QUESTION" /\ runs'[q].unique
                 /\ \E c \in Cases : AskQuestionCreate(q, c) /\ runs'[q].case = c
                 /\ questions' = [questions EXCEPT ![q] = "PENDING"]
<1>1. CASE GeneratePlanCreate(q)
  <2> USE <1>1 DEF GeneratePlanCreate
  <2>1. runs[q].status = "NONE" /\ handler[q].phase = "creating"
    BY DEF IInv, HandlersCurrent, RowsComplete
  <2>2. /\ runs'[q] = NewRun("GENERATE_PLAN", handler[q].case, handler[q].number,
                             Endpoint[q] = "GENERATE_FORCED")
        /\ \A s \in Requests : s # q => runs'[s] = runs[s]
    BY DEF IInv, TypeOK
  <2>3. /\ handler'[q].phase = "calling"
        /\ \A s \in Requests : s # q => handler'[s] = handler[s]
    BY DEF IInv, TypeOK, Holding
  <2>4. /\ runs'[q].status = "RUNNING" /\ runs'[q].result = "NONE"
        /\ runs'[q].operation = "GENERATE_PLAN"
        /\ runs'[q].case = handler[q].case /\ runs'[q].version = handler[q].number
    BY <2>2 DEF NewRun
  <2>5. runs'[q].unique = (Endpoint[q] = "GENERATE_FORCED")
    <3> DEFINE forced == Endpoint[q] = "GENERATE_FORCED"
    <3>1. runs'[q] = NewRun("GENERATE_PLAN", handler[q].case, handler[q].number, forced)
      BY <2>2, Zenon
    <3> HIDE DEF forced
    <3>2. runs'[q].unique = forced
      BY <3>1, NewRunUnique
    <3> QED
      BY <3>2 DEF forced
  <2> QED
    BY <2>1, <2>2, <2>3, <2>4, <2>5
<1>2. ASSUME NEW c \in Cases, RevisePlanCreate(q, c)
      PROVE  /\ runs[q].status = "NONE"
             /\ handler[q].phase = "new"
             /\ runs'[q].status = "RUNNING"
             /\ runs'[q].result = "NONE"
             /\ \A s \in Requests : s # q => runs'[s] = runs[s]
             /\ handler'[q].phase = "calling"
             /\ \A s \in Requests : s # q => handler'[s] = handler[s]
             /\ runs'[q].operation = "REVISE_PLAN" /\ runs'[q].unique
             /\ runs'[q].case = c
             /\ questions' = questions
  <2> USE <1>2 DEF RevisePlanCreate
  <2>1. handler[q].phase = "new" /\ runs[q].status = "NONE"
    BY DEF IInv, HandlersCurrent, RowsComplete, New
  <2>2. PICK n \in PlanVersions(c) : runs' = [runs EXCEPT ![q] = NewRun("REVISE_PLAN", c, n, TRUE)]
    OBVIOUS
  <2>3. /\ runs'[q] = NewRun("REVISE_PLAN", c, n, TRUE)
        /\ \A s \in Requests : s # q => runs'[s] = runs[s]
    BY <2>2 DEF IInv, TypeOK
  <2>4. /\ handler'[q].phase = "calling"
        /\ \A s \in Requests : s # q => handler'[s] = handler[s]
    BY DEF IInv, TypeOK, Holding
  <2> QED
    BY <2>1, <2>3, <2>4 DEF NewRun
<1>3. ASSUME NEW c \in Cases, AskQuestionCreate(q, c)
      PROVE  /\ runs[q].status = "NONE"
             /\ handler[q].phase = "new"
             /\ runs'[q].status = "RUNNING"
             /\ runs'[q].result = "NONE"
             /\ \A s \in Requests : s # q => runs'[s] = runs[s]
             /\ handler'[q].phase = "calling"
             /\ \A s \in Requests : s # q => handler'[s] = handler[s]
             /\ runs'[q].operation = "ANSWER_QUESTION" /\ runs'[q].unique
             /\ runs'[q].case = c
             /\ questions' = [questions EXCEPT ![q] = "PENDING"]
  <2> USE <1>3 DEF AskQuestionCreate
  <2>1. handler[q].phase = "new" /\ runs[q].status = "NONE"
    BY DEF IInv, HandlersCurrent, RowsComplete, New
  <2>2. /\ runs'[q] = NewRun("ANSWER_QUESTION", c, 0, TRUE)
        /\ \A s \in Requests : s # q => runs'[s] = runs[s]
    BY DEF IInv, TypeOK
  <2>3. /\ handler'[q].phase = "calling"
        /\ \A s \in Requests : s # q => handler'[s] = handler[s]
    BY DEF IInv, TypeOK, Holding
  <2> QED
    BY <2>1, <2>2, <2>3 DEF NewRun
<1> QED
  BY <1>1, <1>2, <1>3 DEF CreatesRun

(* A run that exists keeps what identifies it. *)
SameRun(r) ==
    /\ runs'[r].operation = runs[r].operation
    /\ runs'[r].case = runs[r].case
    /\ runs'[r].version = runs[r].version
    /\ runs'[r].unique = runs[r].unique

LEMMA RunSettled ==
    ASSUME IInv, NEW q \in Requests, NEW status \in RunStatus,
           handler[q].phase = "handling", Settle(q, status)
    PROVE  /\ runs'[handler[q].run].status = status
           /\ runs'[handler[q].run].result = handler[q].payload
           /\ SameRun(handler[q].run)
           /\ \A s \in Requests : s # handler[q].run => runs'[s] = runs[s]
<1> DEFINE r == handler[q].run
           row == [runs[r] EXCEPT !.status = status, !.result = handler[q].payload]
<1>1. r \in Requests
  BY HandledRun
<1>2. runs[r] \in RunRow
  BY <1>1 DEF IInv, TypeOK
<1>3. /\ row.status = status /\ row.result = handler[q].payload
      /\ row.operation = runs[r].operation /\ row.case = runs[r].case
      /\ row.version = runs[r].version /\ row.unique = runs[r].unique
  BY <1>2 DEF RunRow
<1>4. runs' = [runs EXCEPT ![r] = row]
  BY <1>1 DEF IInv, TypeOK, Settle
<1> HIDE DEF r, row
<1>5. runs'[r] = row /\ \A s \in Requests : s # r => runs'[s] = runs[s]
  BY <1>1, <1>4 DEF IInv, TypeOK
<1>6. SameRun(r)
  BY <1>3, <1>5 DEF SameRun
<1> QED
  BY <1>3, <1>5, <1>6 DEF r

LEMMA RunFailed ==
    ASSUME IInv, NEW q \in Requests, AgentCallFails(q)
    PROVE  /\ runs[q].status # "NONE"
           /\ runs'[q].status = "FAILED"
           /\ SameRun(q)
           /\ \A s \in Requests : s # q => runs'[s] = runs[s]
<1>1. runs[q].status # "NONE"
  BY DEF IInv, HandlersCurrent, HandlerCurrent, AgentCallFails
<1>2. runs[q] \in RunRow
  BY DEF IInv, TypeOK
<1> DEFINE row == [runs[q] EXCEPT !.status = "FAILED"]
<1>3. /\ row.status = "FAILED"
      /\ row.operation = runs[q].operation /\ row.case = runs[q].case
      /\ row.version = runs[q].version /\ row.unique = runs[q].unique
  BY <1>2 DEF RunRow
<1>4. runs'[q] = row /\ \A s \in Requests : s # q => runs'[s] = runs[s]
  BY DEF IInv, TypeOK, AgentCallFails, FailRun
<1> HIDE DEF row
<1> QED
  BY <1>1, <1>3, <1>4 DEF SameRun

LEMMA RunStored ==
    ASSUME IInv, NEW q \in Requests, StoreResult(q)
    PROVE  /\ runs'[handler[q].run].status = runs[handler[q].run].status
           /\ runs'[handler[q].run].result = handler[q].payload
           /\ SameRun(handler[q].run)
           /\ \A s \in Requests : s # handler[q].run => runs'[s] = runs[s]
<1> DEFINE r == handler[q].run
           row == [runs[r] EXCEPT !.result = handler[q].payload]
<1>1. r \in Requests
  BY HandledRun DEF StoreResult, Handling
<1>2. runs[r] \in RunRow
  BY <1>1 DEF IInv, TypeOK
<1>3. /\ row.status = runs[r].status /\ row.result = handler[q].payload
      /\ row.operation = runs[r].operation /\ row.case = runs[r].case
      /\ row.version = runs[r].version /\ row.unique = runs[r].unique
  BY <1>2 DEF RunRow
<1>4. runs' = [runs EXCEPT ![r] = row]
  BY <1>1 DEF IInv, TypeOK, StoreResult
<1> HIDE DEF r, row
<1>5. runs'[r] = row /\ \A s \in Requests : s # r => runs'[s] = runs[s]
  BY <1>1, <1>4 DEF IInv, TypeOK
<1>6. SameRun(r)
  BY <1>3, <1>5 DEF SameRun
<1> QED
  BY <1>3, <1>5, <1>6 DEF r

(* Whatever a settling handler decides, it is one of these. *)
LEMMA Settlement ==
    ASSUME IInv, NEW q \in Requests, SettlesRun(q)
    PROVE  /\ handler[q].phase = "handling"
           /\ \/ /\ FailPlanRun(q) /\ Settle(q, "FAILED") /\ questions' = questions
                 /\ runs[handler[q].run].operation \in PlanOperation
              \/ /\ SaveCompletedPlan(q) /\ Settle(q, "COMPLETED") /\ questions' = questions
                 /\ runs[handler[q].run].operation \in PlanOperation
              \/ /\ Settle(q, "FAILED")
                 /\ questions' = [questions EXCEPT ![handler[q].run] = "FAILED"]
                 /\ runs[handler[q].run].operation = "ANSWER_QUESTION"
              \/ /\ Settle(q, "COMPLETED")
                 /\ questions' = [questions EXCEPT ![handler[q].run] = "COMPLETED"]
                 /\ runs[handler[q].run].operation = "ANSWER_QUESTION"
BY DEF SettlesRun, FailPlanRun, SaveCompletedPlan, FailQuestion, AnswerQuestion, Handling

(* A step creates one run, or it leaves which runs there are. *)
LEMMA RunsIdentified ==
    ASSUME IInv, [Next]_vars
    PROVE  \/ \E q \in Requests : CreatesRun(q)
           \/ \A r \in Requests : /\ runs'[r].status = "NONE" <=> runs[r].status = "NONE"
                                  /\ SameRun(r)
<1>1. CASE UNCHANGED <<runs, questions>>
  BY <1>1 DEF SameRun
<1>2. ASSUME NEW q \in Requests, AgentCallFails(q)
      PROVE  \A r \in Requests : /\ runs'[r].status = "NONE" <=> runs[r].status = "NONE"
                                 /\ SameRun(r)
  BY <1>2, RunFailed DEF SameRun
<1>3. ASSUME NEW q \in Requests, StoreResult(q)
      PROVE  \A r \in Requests : /\ runs'[r].status = "NONE" <=> runs[r].status = "NONE"
                                 /\ SameRun(r)
  BY <1>3, RunStored DEF SameRun
<1>4. ASSUME NEW q \in Requests, SettlesRun(q)
      PROVE  \A r \in Requests : /\ runs'[r].status = "NONE" <=> runs[r].status = "NONE"
                                 /\ SameRun(r)
  <2>1. PICK status \in {"FAILED", "COMPLETED"} : Settle(q, status)
    BY <1>4, Settlement
  <2>2. handler[q].phase = "handling" /\ status \in RunStatus
    BY <1>4, Settlement DEF RunStatus
  <2> QED
    BY <2>1, <2>2, RunSettled, HandledRun DEF SameRun
<1> QED
  BY <1>1, <1>2, <1>3, <1>4, RunsChange

-----------------------------------------------------------------------------
(* Semantic keys. *)

LEMMA SemanticKeysStep ==
    ASSUME IInv, SemanticKeysUnique, [Next]_vars
    PROVE  SemanticKeysUnique'
<1>1. ASSUME NEW q \in Requests, CreatesRun(q) PROVE SemanticKeysUnique'
  <2>1. \A s \in Requests : s # q => runs'[s] = runs[s]
    BY <1>1, RunCreation
  <2>2. runs[q].status = "NONE"
    BY <1>1, RunCreation
  <2>3. \A s \in Requests : \A c, n : HasSemanticKey(s, c, n) => s # q
    BY <2>2 DEF HasSemanticKey
  <2>4. \A s \in Requests : \A c, n :
            s # q => (HasSemanticKey(s, c, n)' <=> HasSemanticKey(s, c, n))
    BY <2>1 DEF HasSemanticKey
  <2>5. CASE runs'[q].unique \/ runs'[q].operation # "GENERATE_PLAN"
    <3>1. \A c, n : ~ HasSemanticKey(q, c, n)'
      BY <2>5 DEF HasSemanticKey
    <3> QED
      BY <2>1, <2>4, <3>1 DEF SemanticKeysUnique
  <2>6. CASE ~ runs'[q].unique /\ runs'[q].operation = "GENERATE_PLAN"
    <3>1. PICK c, n : c = handler[q].case /\ n = handler[q].number
      OBVIOUS
    <3>2. /\ handler[q].phase = "creating" /\ Endpoint[q] # "GENERATE_FORCED"
          /\ runs'[q].case = c /\ runs'[q].version = n
      BY <1>1, <2>6, <3>1, RunCreation DEF GeneratePlanCreate
    <3>3. ~ \E s \in Requests : HasSemanticKey(s, c, n)
      BY <3>1, <3>2 DEF IInv, HandlersCurrent, HandlerCurrent
    <3>4. \A s \in Requests : s # q => ~ HasSemanticKey(s, c, n)'
      BY <2>4, <3>3
    <3>5. \A d, m : HasSemanticKey(q, d, m)' => d = c /\ m = n
      BY <3>2 DEF HasSemanticKey
    <3> SUFFICES ASSUME NEW r \in Requests, NEW s \in Requests, s # r,
                        HasSemanticKey(r, runs[r].case, runs[r].version)',
                        HasSemanticKey(s, runs[r].case, runs[r].version)'
                 PROVE  FALSE
      BY DEF SemanticKeysUnique
    <3>6. PICK d, m : d = runs'[r].case /\ m = runs'[r].version
      OBVIOUS
    <3>7. HasSemanticKey(r, d, m)' /\ HasSemanticKey(s, d, m)'
      BY <3>6 DEF HasSemanticKey
    <3>8. CASE r = q \/ s = q
      BY <3>4, <3>5, <3>7, <3>8
    <3>9. CASE r # q /\ s # q
      <4>1. HasSemanticKey(r, d, m) /\ HasSemanticKey(s, d, m)
        BY <2>4, <3>7, <3>9
      <4>2. d = runs[r].case /\ m = runs[r].version
        BY <4>1 DEF HasSemanticKey
      <4> QED
        BY <4>1, <4>2 DEF SemanticKeysUnique
    <3> QED
      BY <3>8, <3>9
  <2> QED
    BY <2>5, <2>6
<1>2. CASE \A r \in Requests : /\ runs'[r].status = "NONE" <=> runs[r].status = "NONE"
                               /\ SameRun(r)
  <2>1. \A s \in Requests : \A c, n : HasSemanticKey(s, c, n)' <=> HasSemanticKey(s, c, n)
    BY <1>2 DEF HasSemanticKey, SameRun
  <2> QED
    BY <1>2, <2>1 DEF SemanticKeysUnique, SameRun
<1> QED
  BY <1>1, <1>2, RunsIdentified

(* No two runs have one semantic key: a generation checks the key and      *)
(* inserts its run with no other handler in between.                       *)
THEOREM KeysUnique == Spec => []SemanticKeysUnique
<1>1. Init => SemanticKeysUnique
  BY DEF Init, NewRun, SemanticKeysUnique, HasSemanticKey
<1>2. IInv /\ SemanticKeysUnique /\ [Next]_vars => SemanticKeysUnique'
  BY SemanticKeysStep
<1> QED
  BY <1>1, <1>2, Invariance, PTL DEF Spec

-----------------------------------------------------------------------------
(* Plans of completed runs. *)

LEMMA PlansKept ==
    ASSUME IInv, [Next]_vars, NEW p \in Requests, PlanExists(p)
    PROVE  /\ PlanExists(p)'
           /\ plans'[p].run = plans[p].run
           /\ plans'[p].case = plans[p].case
           /\ plans'[p].version = plans[p].version
           /\ plans[p].status = "APPROVED" => plans'[p].status = "APPROVED"
<1>1. CASE UNCHANGED plans
  BY <1>1 DEF PlanExists
<1>2. ASSUME NEW q \in Requests, ApprovePlanCommit(q)
      PROVE  /\ plans'[p].status = "APPROVED" \/ plans'[p] = plans[p]
             /\ plans'[p].run = plans[p].run
             /\ plans'[p].case = plans[p].case
             /\ plans'[p].version = plans[p].version
  BY <1>2, ApprovalChanges DEF IInv, TypeOK, PlanRow
<1>3. ASSUME NEW q \in Requests, SaveCompletedPlan(q) PROVE plans'[p] = plans[p]
  BY <1>3, CompletionAdds DEF IInv, TypeOK
<1> QED
  BY <1>1, <1>2, <1>3, PlansChange DEF PlanExists

(* Why a generation or revision may be COMPLETED. *)
HasPlan(r) ==
    \E p \in Requests : PlanExists(p) /\ plans[p].run = r /\ plans[p].case = runs[r].case

LEMMA CompletedStep ==
    ASSUME IInv, CompletedRunHasPlan, [Next]_vars
    PROVE  CompletedRunHasPlan'
<1> SUFFICES ASSUME NEW r \in Requests, runs'[r].status = "COMPLETED",
                    runs'[r].operation \in PlanOperation
             PROVE  HasPlan(r)'
  BY DEF CompletedRunHasPlan, HasPlan
<1>1. CASE runs[r].status = "COMPLETED" /\ SameRun(r)
  <2>1. HasPlan(r)
    BY <1>1 DEF CompletedRunHasPlan, HasPlan, SameRun
  <2> QED
    BY <1>1, <2>1, PlansKept DEF HasPlan, SameRun
<1>2. CASE UNCHANGED <<runs, questions>>
  BY <1>1, <1>2 DEF SameRun
<1>3. ASSUME NEW q \in Requests, CreatesRun(q) PROVE HasPlan(r)'
  <2>1. r # q /\ runs'[r] = runs[r]
    BY <1>3, RunCreation
  <2> QED
    BY <1>1, <2>1 DEF SameRun
<1>4. ASSUME NEW q \in Requests, AgentCallFails(q) PROVE HasPlan(r)'
  <2>1. r # q /\ runs'[r] = runs[r]
    BY <1>4, RunFailed
  <2> QED
    BY <1>1, <2>1 DEF SameRun
<1>5. ASSUME NEW q \in Requests, StoreResult(q) PROVE HasPlan(r)'
  <2>1. runs[r].status = "COMPLETED" /\ SameRun(r)
    BY <1>5, RunStored DEF SameRun
  <2> QED
    BY <1>1, <2>1
<1>6. ASSUME NEW q \in Requests, SettlesRun(q) PROVE HasPlan(r)'
  <2>1. PICK status \in {"FAILED", "COMPLETED"} : Settle(q, status)
    BY <1>6, Settlement
  <2>2. handler[q].phase = "handling" /\ status \in RunStatus
    BY <1>6, Settlement DEF RunStatus
  <2>3. CASE r # handler[q].run
    <3>1. runs'[r] = runs[r]
      BY <2>1, <2>2, <2>3, RunSettled
    <3> QED
      BY <1>1, <3>1 DEF SameRun
  <2>4. CASE r = handler[q].run
    <3>1. SameRun(r) /\ status = "COMPLETED"
      BY <2>1, <2>2, <2>4, RunSettled
    <3>2. runs[r].operation \in PlanOperation
      BY <3>1 DEF SameRun
    <3>3. ~ Settle(q, "FAILED")
      BY <2>2, <2>4, RunSettled DEF RunStatus
    <3>4. SaveCompletedPlan(q)
      BY <1>6, <2>4, <3>2, <3>3, Settlement DEF PlanOperation
    <3>5. PICK c \in Cases, n \in Nat, s \in Requests :
            /\ s = handler[q].run
            /\ c = runs[s].case
            /\ plans' = [plans EXCEPT ![q] = [status  |-> "UNDER_REVIEW", case |-> c,
                                              version |-> n + 1, run |-> s]]
      BY <3>4, CompletionAdds
    <3>6. PlanExists(q)' /\ plans'[q].run = r /\ plans'[q].case = runs[r].case
      BY <2>4, <3>5 DEF IInv, TypeOK, PlanExists
    <3> QED
      BY <3>1, <3>6 DEF HasPlan, SameRun
  <2> QED
    BY <2>3, <2>4
<1> QED
  BY <1>2, <1>3, <1>4, <1>5, <1>6, RunsChange

(* A completed generation or revision has a plan for its case. *)
THEOREM CompletionHasPlan == Spec => []CompletedRunHasPlan
<1>1. Init => CompletedRunHasPlan
  BY DEF Init, CompletedRunHasPlan, NewRun
<1>2. IInv /\ CompletedRunHasPlan /\ [Next]_vars => CompletedRunHasPlan'
  BY CompletedStep
<1> QED
  BY <1>1, <1>2, Invariance, PTL DEF Spec

-----------------------------------------------------------------------------
(* Questions. *)

QuestionAgrees(r) ==
    runs[r].operation = "ANSWER_QUESTION" /\ runs[r].status # "NONE" =>
        questions[r] = IF runs[r].status = "RUNNING" THEN "PENDING" ELSE runs[r].status

LEMMA QuestionsStep ==
    ASSUME IInv, QuestionFollowsRun, [Next]_vars
    PROVE  QuestionFollowsRun'
<1> SUFFICES ASSUME NEW r \in Requests PROVE QuestionAgrees(r)'
  BY DEF QuestionFollowsRun, QuestionAgrees
<1>1. QuestionAgrees(r)
  BY DEF QuestionFollowsRun, QuestionAgrees
<1>2. CASE /\ questions'[r] = questions[r] /\ runs'[r].status = runs[r].status
           /\ runs'[r].operation = runs[r].operation
  BY <1>1, <1>2 DEF QuestionAgrees
<1>3. CASE UNCHANGED <<runs, questions>>
  BY <1>2, <1>3
<1>4. ASSUME NEW q \in Requests, CreatesRun(q) PROVE QuestionAgrees(r)'
  <2>1. CASE r = q
    <3>1. runs'[q].status = "RUNNING"
      BY <1>4, RunCreation
    <3>2. runs'[q].operation = "ANSWER_QUESTION" => questions' = [questions EXCEPT ![q] = "PENDING"]
      BY <1>4, RunCreation
    <3> QED
      BY <2>1, <3>1, <3>2 DEF QuestionAgrees, IInv, TypeOK
  <2>2. CASE r # q
    <3>1. runs'[r] = runs[r]
      BY <1>4, <2>2, RunCreation
    <3>2. questions' = questions \/ questions' = [questions EXCEPT ![q] = "PENDING"]
      BY <1>4, RunCreation
    <3> QED
      BY <1>2, <2>2, <3>1, <3>2 DEF IInv, TypeOK
  <2> QED
    BY <2>1, <2>2
<1>5. ASSUME NEW q \in Requests, AgentCallFails(q) PROVE QuestionAgrees(r)'
  <2>1. questions' = [questions EXCEPT
                        ![q] = IF runs[q].operation = "ANSWER_QUESTION" THEN "FAILED" ELSE @]
    BY <1>5 DEF AgentCallFails
  <2>2. CASE r = q
    <3>1. runs'[q].status = "FAILED" /\ SameRun(q)
      BY <1>5, RunFailed
    <3> QED
      BY <2>1, <2>2, <3>1 DEF QuestionAgrees, SameRun, IInv, TypeOK
  <2>3. CASE r # q
    <3>1. runs'[r] = runs[r] /\ questions'[r] = questions[r]
      BY <1>5, <2>1, <2>3, RunFailed DEF IInv, TypeOK
    <3> QED
      BY <1>2, <3>1
  <2> QED
    BY <2>2, <2>3
<1>6. ASSUME NEW q \in Requests, StoreResult(q) PROVE QuestionAgrees(r)'
  <2>1. runs'[r].status = runs[r].status /\ runs'[r].operation = runs[r].operation
    BY <1>6, RunStored DEF SameRun
  <2> QED
    BY <1>2, <1>6, <2>1 DEF StoreResult
<1>7. ASSUME NEW q \in Requests, SettlesRun(q) PROVE QuestionAgrees(r)'
  <2>1. handler[q].phase = "handling" /\ handler[q].run \in Requests
    BY <1>7, Settlement, HandledRun
  <2>2. CASE r # handler[q].run
    <3>1. PICK status \in {"FAILED", "COMPLETED"} : Settle(q, status)
      BY <1>7, Settlement
    <3>2. runs'[r] = runs[r]
      BY <2>1, <2>2, <3>1, RunSettled DEF RunStatus
    <3>3. \/ questions' = questions
          \/ questions' = [questions EXCEPT ![handler[q].run] = "FAILED"]
          \/ questions' = [questions EXCEPT ![handler[q].run] = "COMPLETED"]
      BY <1>7, Settlement
    <3>4. questions'[r] = questions[r]
      BY <2>1, <2>2, <3>3 DEF IInv, TypeOK
    <3> QED
      BY <1>2, <3>2, <3>4
  <2>3. CASE r = handler[q].run
    <3>1. CASE runs[r].operation \in PlanOperation
      <4>1. PICK status \in {"FAILED", "COMPLETED"} : Settle(q, status)
        BY <1>7, Settlement
      <4>2. SameRun(r)
        BY <2>1, <2>3, <4>1, RunSettled DEF RunStatus
      <4> QED
        BY <3>1, <4>2 DEF SameRun, PlanOperation, QuestionAgrees
    <3>2. CASE runs[r].operation \notin PlanOperation
      <4>1. PICK status \in {"FAILED", "COMPLETED"} :
              /\ Settle(q, status)
              /\ questions' = [questions EXCEPT ![handler[q].run] = status]
        BY <1>7, <2>3, <3>2, Settlement
      <4>2. runs'[r].status = status
        BY <2>1, <2>3, <4>1, RunSettled DEF RunStatus
      <4>3. questions'[r] = status
        BY <2>1, <2>3, <4>1 DEF IInv, TypeOK
      <4> QED
        BY <4>2, <4>3 DEF QuestionAgrees
    <3> QED
      BY <3>1, <3>2
  <2> QED
    BY <2>2, <2>3
<1> QED
  BY <1>3, <1>4, <1>5, <1>6, <1>7, RunsChange

(* A question and its run agree, whichever answer, callback or timeout *)
(* settled them.                                                       *)
THEOREM QuestionsAgree == Spec => []QuestionFollowsRun
<1>1. Init => QuestionFollowsRun
  BY DEF Init, QuestionFollowsRun, NewRun
<1>2. IInv /\ QuestionFollowsRun /\ [Next]_vars => QuestionFollowsRun'
  BY QuestionsStep
<1> QED
  BY <1>1, <1>2, Invariance, PTL DEF Spec

-----------------------------------------------------------------------------
(* What a step does to the cases. *)

WritesCase(q) ==
    \/ UpdateEmployeeCommit(q) \/ ApprovePlanCommit(q) \/ UploadCvCommit(q)
    \/ FailPlanRun(q) \/ SaveCompletedPlan(q)

LEMMA CasesChange ==
    ASSUME [Next]_vars
    PROVE  \/ UNCHANGED cases
           \/ \E q \in Requests, c \in Cases : CreateEmployee(q, c)
           \/ \E q \in Requests : WritesCase(q)
<1>1. ASSUME NEW r \in Requests, Arrive(r)
      PROVE  UNCHANGED cases \/ \E c \in Cases : CreateEmployee(r, c)
  BY <1>1 DEF Arrive, tables, Reject, UpdateEmployeeLoad, UploadCv,
     GeneratePlanConflict, GeneratePlanDuplicate, GeneratePlanLoad, RevisePlanConflict,
     RevisePlanCreate, AskQuestionCreate, ApprovePlanLoad, AgentRunCallback
<1>2. ASSUME NEW r \in Requests, Proceed(r) PROVE UNCHANGED cases \/ WritesCase(r)
  BY <1>2 DEF Proceed, WritesCase, tables, UploadCvTooLarge, UploadCvFail,
     UploadCvStore, GeneratePlanCreate, StoreResult, FailQuestion, AnswerQuestion
<1> QED
  BY <1>1, <1>2 DEF Next, vars, tables, AgentCallFails, AgentCallReturns, Crash

(* A flushed status is the one that was stored, or the one assigned to a   *)
(* case that was loaded with another.                                      *)
LEMMA StatusWritten ==
    ASSUME TypeOK, NEW c, NEW loaded, NEW assigned, NEW d \in Cases
    PROVE  /\ WithStatus(c, loaded, assigned)[d].status = cases[d].status
              \/ (d = c /\ loaded # assigned
                  /\ WithStatus(c, loaded, assigned)[d].status = assigned)
           /\ \A n : [WithStatus(c, loaded, assigned) EXCEPT ![c].version = n][d].status
                       = WithStatus(c, loaded, assigned)[d].status
<1> DEFINE w == WithStatus(c, loaded, assigned)
<1>1. w = [cases EXCEPT ![c].status = IF assigned = loaded THEN @ ELSE assigned]
  BY DEF WithStatus, Flushed
<1>2. DOMAIN w = Cases
  BY <1>1 DEF TypeOK
<1>3. \/ w[d] = cases[d]
      \/ w[d] = [cases[d] EXCEPT !.status = IF assigned = loaded THEN @ ELSE assigned]
  BY <1>1 DEF TypeOK
<1>4. cases[d] \in CaseRow
  BY DEF TypeOK
<1>5. "status" \in DOMAIN w[d]
  BY <1>3, <1>4 DEF CaseRow
<1>6. \A n : [w EXCEPT ![c].version = n][d].status = w[d].status
  BY <1>2, <1>5
<1>7. w[d].status = cases[d].status
      \/ (d = c /\ loaded # assigned /\ w[d].status = assigned)
  BY <1>1, <1>4 DEF TypeOK, CaseRow
<1> QED
  BY <1>6, <1>7

(* How the status of a case may change. *)
Reopened(q, c) == FailPlanRun(q) /\ handler[q].number = 0
                  /\ handler[q].caseStatus \notin {"DRAFT", "READY_FOR_PLAN"}
                  /\ c = handler[q].case

LEMMA StatusChange ==
    ASSUME IInv, [Next]_vars, NEW c \in Cases, cases'[c].status # cases[c].status
    PROVE  \/ cases'[c].status = "DRAFT"
           \/ \E q \in Requests :
                \/ /\ UploadCvCommit(q) /\ handler[q].case = c
                   /\ cases'[c].status = "READY_FOR_PLAN"
                \/ Reopened(q, c) /\ cases'[c].status = "READY_FOR_PLAN"
                \/ /\ ApprovePlanCommit(q) /\ handler[q].case = c
                   /\ cases'[c].status = "ACTIVE"
                \/ /\ SaveCompletedPlan(q) /\ handler[q].case = c
                   /\ cases'[c].status = "REVIEW"
<1>1. TypeOK
  BY DEF IInv
<1>2. ASSUME NEW q \in Requests, NEW d \in Cases, CreateEmployee(q, d)
      PROVE  cases'[c].status = "DRAFT"
  BY <1>1, <1>2 DEF CreateEmployee, NewCase, TypeOK
<1>3. ASSUME NEW q \in Requests, UpdateEmployeeCommit(q) PROVE cases'[c].status = "DRAFT"
  BY <1>1, <1>3, StatusWritten DEF UpdateEmployeeCommit
<1>4. ASSUME NEW q \in Requests, UploadCvCommit(q)
      PROVE  handler[q].case = c /\ cases'[c].status = "READY_FOR_PLAN"
  BY <1>1, <1>4, StatusWritten DEF UploadCvCommit
<1>5. ASSUME NEW q \in Requests, ApprovePlanCommit(q)
      PROVE  handler[q].case = c /\ cases'[c].status = "ACTIVE"
  BY <1>1, <1>5, StatusWritten DEF ApprovePlanCommit
<1>6. ASSUME NEW q \in Requests, SaveCompletedPlan(q)
      PROVE  handler[q].case = c /\ cases'[c].status = "REVIEW"
  BY <1>1, <1>6, StatusWritten DEF SaveCompletedPlan
<1>7. ASSUME NEW q \in Requests, FailPlanRun(q)
      PROVE  Reopened(q, c) /\ cases'[c].status = "READY_FOR_PLAN"
  BY <1>1, <1>7, StatusWritten DEF FailPlanRun, Reopened
<1> QED
  BY <1>2, <1>3, <1>4, <1>5, <1>6, <1>7, CasesChange DEF WritesCase

LEMMA CasesKept ==
    ASSUME IInv, [Next]_vars, NEW c \in Cases, CaseExists(c)
    PROVE  CaseExists(c)'
BY StatusChange DEF CaseExists

-----------------------------------------------------------------------------
(* The cases that rows and handlers name exist. *)

RunNamed(r) == runs[r].status # "NONE" => runs[r].case \in Cases /\ CaseExists(runs[r].case)
PlanNamed(r) == PlanExists(r) => plans[r].case \in Cases /\ CaseExists(plans[r].case)
DocumentNamed(r) ==
    documents[r].status = "PROCESSED" =>
        documents[r].case \in Cases /\ CaseExists(documents[r].case)
HandlerNamed(r) ==
    handler[r].phase \in {"creating", "reading", "storing"} =>
        handler[r].case \in Cases /\ CaseExists(handler[r].case)

CasesNamed ==
    \A r \in Requests : RunNamed(r) /\ PlanNamed(r) /\ DocumentNamed(r) /\ HandlerNamed(r)

(* What a handler holds of its case for the phases in between. *)
LEMMA HandlerMoves ==
    ASSUME IInv, [Next]_vars, NEW r \in Requests
    PROVE  \/ handler'[r] = handler[r]
           \/ \E c \in Cases : UploadCv(r, c) \/ GeneratePlanLoad(r, c)
           \/ UploadCvStore(r)
           \/ \E q \in Requests, payload \in Payload :
                /\ HoldResult(r, q, payload) /\ runs[q].status # "NONE"
                /\ q = r \/ Endpoint[r] = "CALLBACK"
           \/ \E c \in Cases : UpdateEmployeeLoad(r, c) /\ handler'[r].phase = "updating"
           \/ handler'[r].phase \notin {"updating", "reading", "storing", "creating", "handling"}
<1> DEFINE Outcome ==
        \/ handler'[r] = handler[r]
        \/ \E c \in Cases : UploadCv(r, c) \/ GeneratePlanLoad(r, c)
        \/ UploadCvStore(r)
        \/ \E q \in Requests, payload \in Payload :
             /\ HoldResult(r, q, payload) /\ runs[q].status # "NONE"
             /\ q = r \/ Endpoint[r] = "CALLBACK"
        \/ \E c \in Cases : UpdateEmployeeLoad(r, c) /\ handler'[r].phase = "updating"
        \/ handler'[r].phase \notin {"updating", "reading", "storing", "creating", "handling"}
<1> USE DEF IInv, TypeOK
<1>1. ASSUME NEW q \in Requests, Arrive(q) PROVE Outcome
  <2>1. CASE Reject(q)
    BY <2>1 DEF Reject, Answer, Ended
  <2>2. ASSUME NEW c \in Cases,
               \/ CreateEmployee(q, c) \/ GeneratePlanConflict(q, c)
               \/ GeneratePlanDuplicate(q, c) \/ RevisePlanConflict(q, c)
        PROVE  Outcome
    BY <2>2 DEF CreateEmployee, GeneratePlanConflict, GeneratePlanDuplicate,
       RevisePlanConflict, Answer, Ended
  <2>3. ASSUME NEW c \in Cases,
               UpdateEmployeeLoad(q, c) \/ RevisePlanCreate(q, c) \/ AskQuestionCreate(q, c)
        PROVE  Outcome
    <3>1. CASE UpdateEmployeeLoad(q, c)
      <4>1. handler'[q].phase = "updating" /\ \A s \in Requests : s # q => handler'[s] = handler[s]
        BY <3>1 DEF UpdateEmployeeLoad, Holding
      <4> QED
        BY <3>1, <4>1
    <3>2. CASE RevisePlanCreate(q, c) \/ AskQuestionCreate(q, c)
      <4>1. handler' = [handler EXCEPT ![q] = Holding("calling", c, "ABSENT", 0)]
        BY <3>2 DEF RevisePlanCreate, AskQuestionCreate
      <4> QED
        BY <4>1 DEF Holding
    <3> QED
      BY <2>3, <3>1, <3>2
  <2>4. ASSUME NEW c \in Cases, UploadCv(q, c) PROVE Outcome
    BY <2>4 DEF UploadCv
  <2>5. ASSUME NEW c \in Cases, GeneratePlanLoad(q, c) PROVE Outcome
    BY <2>5 DEF GeneratePlanLoad
  <2>6. ASSUME NEW p \in Requests, ApprovePlanLoad(q, p) PROVE Outcome
    BY <2>6 DEF ApprovePlanLoad, Holding
  <2>7. ASSUME NEW s \in Requests, NEW payload \in Payload, AgentRunCallback(q, s, payload)
        PROVE  Outcome
    <3>1. /\ HoldResult(q, s, payload) /\ runs[s].status # "NONE"
          /\ Endpoint[q] = "CALLBACK"
      BY <2>7 DEF AgentRunCallback, New
    <3>2. r # q => handler'[r] = handler[r]
      BY <3>1 DEF HoldResult
    <3> QED
      BY <3>1, <3>2
  <2> QED
    BY <1>1, <2>1, <2>2, <2>3, <2>4, <2>5, <2>6, <2>7 DEF Arrive
<1>2. ASSUME NEW q \in Requests, Proceed(q) PROVE Outcome
  <2>1. CASE UpdateEmployeeCommit(q) \/ ApprovePlanCommit(q) \/ UploadCvTooLarge(q)
             \/ UploadCvFail(q) \/ UploadCvCommit(q)
    BY <2>1 DEF UpdateEmployeeCommit, ApprovePlanCommit, UploadCvTooLarge, UploadCvFail,
       UploadCvCommit, Answer, Ended
  <2>2. CASE UploadCvStore(q)
    BY <2>2 DEF UploadCvStore
  <2>3. CASE GeneratePlanCreate(q)
    BY <2>3 DEF GeneratePlanCreate, Holding
  <2>4. CASE FailPlanRun(q) \/ SaveCompletedPlan(q) \/ StoreResult(q) \/ FailQuestion(q)
             \/ AnswerQuestion(q)
    BY <2>4 DEF FailPlanRun, SaveCompletedPlan, StoreResult, FailQuestion, AnswerQuestion,
       Handling, Answer, Ended
  <2> QED
    BY <1>2, <2>1, <2>2, <2>3, <2>4 DEF Proceed
<1>3. ASSUME NEW q \in Requests, AgentCallFails(q) PROVE Outcome
  BY <1>3 DEF AgentCallFails, Answer, Ended
<1>4. ASSUME NEW q \in Requests, NEW payload \in Payload, AgentCallReturns(q, payload)
      PROVE  Outcome
  <2>1. runs[q].status # "NONE"
    BY <1>4 DEF AgentCallReturns, HandlersCurrent, HandlerCurrent
  <2> QED
    BY <1>4, <2>1 DEF AgentCallReturns, HoldResult
<1>5. CASE Crash
  BY <1>5 DEF Crash, Ended
<1> QED
  BY <1>1, <1>2, <1>3, <1>4, <1>5 DEF Next, vars

LEMMA RunNamedStep ==
    ASSUME IInv, CasesNamed, [Next]_vars, NEW r \in Requests
    PROVE  RunNamed(r)'
<1> USE DEF RunNamed, CaseExists
<1>1. \A c \in Cases : CaseExists(c) => CaseExists(c)'
  BY CasesKept
<1>2. CASE runs[r].status # "NONE" /\ SameRun(r)
  BY <1>1, <1>2 DEF CasesNamed, SameRun
<1>3. CASE (runs'[r].status = "NONE" <=> runs[r].status = "NONE") /\ SameRun(r)
  BY <1>2, <1>3
<1>4. ASSUME NEW q \in Requests, CreatesRun(q), r # q PROVE RunNamed(r)'
  BY <1>2, <1>4, RunCreation DEF SameRun
<1>5. CASE CreatesRun(r)
  <2>1. CASE GeneratePlanCreate(r) /\ runs'[r].case = handler[r].case
    BY <1>1, <2>1 DEF CasesNamed, HandlerNamed, GeneratePlanCreate
  <2>2. ASSUME NEW c \in Cases, RevisePlanCreate(r, c), runs'[r].case = c PROVE RunNamed(r)'
    <3>1. CaseExists(c)
      BY <2>2 DEF RevisePlanCreate, MayRevise, HasProcessedDocument, CasesNamed, DocumentNamed
    <3> QED
      BY <1>1, <2>2, <3>1
  <2>3. ASSUME NEW c \in Cases, AskQuestionCreate(r, c), runs'[r].case = c PROVE RunNamed(r)'
    BY <1>1, <2>3 DEF AskQuestionCreate
  <2> QED
    BY <1>5, <2>1, <2>2, <2>3, RunCreation
<1> QED
  BY <1>3, <1>4, <1>5, RunsIdentified

LEMMA PlanNamedStep ==
    ASSUME IInv, CasesNamed, [Next]_vars, NEW p \in Requests
    PROVE  PlanNamed(p)'
<1> USE DEF PlanNamed, CaseExists
<1>1. \A c \in Cases : CaseExists(c) => CaseExists(c)'
  BY CasesKept
<1>2. CASE PlanExists(p)
  BY <1>1, <1>2, PlansKept DEF CasesNamed
<1>3. CASE ~ PlanExists(p)
  <2>1. ASSUME NEW q \in Requests, ApprovePlanCommit(q) PROVE plans'[p] = plans[p]
    BY <1>3, <2>1, ApprovalChanges DEF IInv, TypeOK
  <2>2. ASSUME NEW q \in Requests, SaveCompletedPlan(q) PROVE PlanNamed(p)'
    <3>1. PICK c \in Cases, n \in Nat, r \in Requests :
            /\ r = handler[q].run
            /\ c = runs[r].case
            /\ plans' = [plans EXCEPT ![q] = [status  |-> "UNDER_REVIEW", case |-> c,
                                              version |-> n + 1, run |-> r]]
      BY <2>2, CompletionAdds
    <3>2. handler[q].phase = "handling"
      BY <2>2 DEF SaveCompletedPlan, Handling
    <3>3. runs[r].status # "NONE"
      BY <3>1, <3>2 DEF IInv, HandlersCurrent, HandlerCurrent, ResultCurrent
    <3>4. CaseExists(c)
      BY <3>1, <3>3 DEF CasesNamed, RunNamed
    <3>5. plans'[p] = plans[p] \/ plans'[p].case = c
      BY <3>1 DEF IInv, TypeOK
    <3> QED
      BY <1>1, <1>3, <3>4, <3>5 DEF PlanExists
  <2> QED
    BY <1>3, <2>1, <2>2, PlansChange DEF PlanExists
<1> QED
  BY <1>2, <1>3

LEMMA DocumentNamedStep ==
    ASSUME IInv, CasesNamed, [Next]_vars, NEW u \in Requests
    PROVE  DocumentNamed(u)'
<1> USE DEF DocumentNamed, CaseExists
<1>1. \A c \in Cases : CaseExists(c) => CaseExists(c)'
  BY CasesKept
<1>2. CASE documents'[u] = documents[u]
  BY <1>1, <1>2 DEF CasesNamed
<1>3. ASSUME NEW q \in Requests, UploadCvFail(q) PROVE DocumentNamed(u)'
  BY <1>2, <1>3 DEF UploadCvFail, IInv, TypeOK
<1>4. ASSUME NEW q \in Requests, UploadCvCommit(q) PROVE DocumentNamed(u)'
  <2>1. handler[q].case \in Cases /\ CaseExists(handler[q].case)
    BY <1>4 DEF UploadCvCommit, CasesNamed, HandlerNamed
  <2>2. documents'[u] = documents[u] \/ documents'[u].case = handler[q].case
    BY <1>4 DEF UploadCvCommit, IInv, TypeOK
  <2> QED
    BY <1>1, <1>2, <2>1, <2>2
<1> QED
  BY <1>2, <1>3, <1>4, DocumentsChange

LEMMA HandlerNamedStep ==
    ASSUME IInv, CasesNamed, [Next]_vars, NEW r \in Requests
    PROVE  HandlerNamed(r)'
<1> USE DEF HandlerNamed, CaseExists
<1>1. \A c \in Cases : CaseExists(c) => CaseExists(c)'
  BY CasesKept
<1>2. CASE handler'[r] = handler[r]
  BY <1>1, <1>2 DEF CasesNamed
<1>3. ASSUME NEW c \in Cases, UploadCv(r, c) \/ GeneratePlanLoad(r, c) PROVE HandlerNamed(r)'
  <2>1. CaseExists(c)
    BY <1>3 DEF UploadCv, GeneratePlanLoad, MayGenerate
  <2>2. handler'[r].case = c
    BY <1>3 DEF UploadCv, GeneratePlanLoad, Holding, IInv, TypeOK
  <2> QED
    BY <1>1, <2>1, <2>2
<1>4. CASE UploadCvStore(r)
  <2>1. handler[r].phase = "reading" /\ handler' = [handler EXCEPT ![r].phase = "storing"]
    BY <1>4 DEF UploadCvStore
  <2>2. handler'[r].case = handler[r].case
    BY <2>1 DEF IInv, TypeOK, HandlerState
  <2> QED
    BY <1>1, <2>1, <2>2 DEF CasesNamed
<1>5. ASSUME NEW q \in Requests, NEW payload \in Payload, HoldResult(r, q, payload)
      PROVE  HandlerNamed(r)'
  BY <1>5 DEF HoldResult, Holding, IInv, TypeOK
<1> QED
  BY <1>2, <1>3, <1>4, <1>5, HandlerMoves

LEMMA CasesNamedStep ==
    ASSUME IInv, CasesNamed, [Next]_vars
    PROVE  CasesNamed'
BY RunNamedStep, PlanNamedStep, DocumentNamedStep, HandlerNamedStep DEF CasesNamed

-----------------------------------------------------------------------------
(* The status of a case. *)

(* A handler that found no plan found the case before its review: a failed *)
(* run it handles then leaves the case's status as it is.                  *)
LoadedEarly ==
    \A r \in Requests : handler[r].phase = "handling" /\ handler[r].number = 0 =>
        handler[r].caseStatus \in {"DRAFT", "READY_FOR_PLAN"}

LEMMA LoadedEarlyStep ==
    ASSUME IInv, CasesNamed, PlanVersionsConsecutive, StatusJustified, LoadedEarly, [Next]_vars
    PROVE  LoadedEarly'
<1> SUFFICES ASSUME NEW r \in Requests, handler'[r].phase = "handling", handler'[r].number = 0
             PROVE  handler'[r].caseStatus \in {"DRAFT", "READY_FOR_PLAN"}
  BY DEF LoadedEarly
<1>1. CASE handler'[r] = handler[r]
  BY <1>1 DEF LoadedEarly
<1>2. ASSUME NEW c \in Cases, UploadCv(r, c) \/ GeneratePlanLoad(r, c) PROVE FALSE
  BY <1>2 DEF UploadCv, GeneratePlanLoad, Holding, IInv, TypeOK
<1>3. CASE UploadCvStore(r)
  BY <1>3 DEF UploadCvStore, IInv, TypeOK, HandlerState
<1>4. ASSUME NEW q \in Requests, NEW payload \in Payload, HoldResult(r, q, payload),
             runs[q].status # "NONE"
      PROVE  handler'[r].caseStatus \in {"DRAFT", "READY_FOR_PLAN"}
  <2>1. PICK c, n : c = runs[q].case /\ n \in {0} \cup PlanVersions(c) /\ IsLatestVersion(c, n)
                    /\ handler' = [handler EXCEPT
                                     ![r] = [Holding("handling", c, cases[c].status, n)
                                               EXCEPT !.run = q, !.payload = payload]]
    BY <1>4 DEF HoldResult
  <2>2. handler'[r].caseStatus = cases[c].status /\ handler'[r].number = n
    BY <2>1 DEF Holding, IInv, TypeOK
  <2>3. c \in Cases /\ CaseExists(c)
    BY <1>4, <2>1 DEF CasesNamed, RunNamed
  <2>4. PlanVersions(c) = {}
    <3> SUFFICES ASSUME NEW p \in Requests, PlanExists(p), plans[p].case = c PROVE FALSE
      BY DEF PlanVersions
    <3>1. plans[p].version \in Nat /\ plans[p].version > 0
      BY DEF PlanVersionsConsecutive, IInv, TypeOK, PlanRow
    <3>2. plans[p].version <= 0
      BY <2>1, <2>2 DEF IsLatestVersion, PlanVersions
    <3> QED
      BY <3>1, <3>2
  <2>5. cases[c].status # "ACTIVE"
    BY <2>3, <2>4 DEF StatusJustified, PlanVersions, PlanExists
  <2>6. cases[c].status \in CaseStatus
    BY <2>3 DEF IInv, TypeOK, CaseRow, CaseExists
  <2> QED
    BY <2>2, <2>3, <2>4, <2>5, <2>6 DEF StatusJustified, CaseStatus
<1> QED
  BY <1>1, <1>2, <1>3, <1>4, HandlerMoves

CaseJustified(c) ==
    /\ cases[c].status = "READY_FOR_PLAN" => HasProcessedDocument(c)
    /\ cases[c].status = "REVIEW" => PlanVersions(c) # {}
    /\ cases[c].status = "ACTIVE" =>
         \E p \in Requests : plans[p].status = "APPROVED" /\ plans[p].case = c

LEMMA StatusJustifiedStep ==
    ASSUME IInv, StatusJustified, LoadedEarly, [Next]_vars
    PROVE  StatusJustified'
<1> SUFFICES ASSUME NEW c \in Cases PROVE CaseJustified(c)'
  BY DEF StatusJustified, CaseJustified
<1>1. CASE cases'[c].status = cases[c].status
  <2>1. CaseJustified(c)
    BY DEF StatusJustified, CaseJustified
  <2>2. HasProcessedDocument(c) => HasProcessedDocument(c)'
    BY DocumentsKept DEF HasProcessedDocument
  <2>3. PlanVersions(c) # {} => PlanVersions(c)' # {}
    BY PlansKept DEF PlanVersions
  <2>4. ASSUME NEW p \in Requests, plans[p].status = "APPROVED", plans[p].case = c
        PROVE  plans'[p].status = "APPROVED" /\ plans'[p].case = c
    BY <2>4, PlansKept DEF PlanExists
  <2> QED
    BY <1>1, <2>1, <2>2, <2>3, <2>4 DEF CaseJustified
<1>2. CASE cases'[c].status = "DRAFT"
  BY <1>2 DEF CaseJustified
<1>3. ASSUME NEW q \in Requests, UploadCvCommit(q), handler[q].case = c,
             cases'[c].status = "READY_FOR_PLAN"
      PROVE  CaseJustified(c)'
  BY <1>3 DEF UploadCvCommit, CaseJustified, HasProcessedDocument, IInv, TypeOK
<1>4. ASSUME NEW q \in Requests, Reopened(q, c) PROVE FALSE
  BY <1>4 DEF Reopened, FailPlanRun, Handling, LoadedEarly
<1>5. ASSUME NEW q \in Requests, ApprovePlanCommit(q), handler[q].case = c,
             cases'[c].status = "ACTIVE"
      PROVE  CaseJustified(c)'
  <2>1. PICK p \in Requests : p = handler[q].plan /\ PlanExists(p) /\ plans[p].case = c
    BY <1>5 DEF ApprovePlanCommit, IInv, HandlersCurrent, HandlerCurrent
  <2>2. plans' = [plans EXCEPT ![p].status = "APPROVED"]
    BY <1>5, <2>1 DEF ApprovePlanCommit
  <2>3. plans'[p].status = "APPROVED" /\ plans'[p].case = c
    BY <2>1, <2>2 DEF IInv, TypeOK, PlanRow
  <2> QED
    BY <1>5, <2>3 DEF CaseJustified
<1>6. ASSUME NEW q \in Requests, SaveCompletedPlan(q), handler[q].case = c,
             cases'[c].status = "REVIEW"
      PROVE  CaseJustified(c)'
  <2>1. PlanExists(q)' /\ plans'[q].case = c
    BY <1>6 DEF SaveCompletedPlan, IInv, TypeOK, PlanExists
  <2> QED
    BY <1>6, <2>1 DEF CaseJustified, PlanVersions
<1> QED
  BY <1>1, <1>2, <1>3, <1>4, <1>5, <1>6, StatusChange

SInv == CasesNamed /\ LoadedEarly /\ StatusJustified

LEMMA StatusInvariance == Spec => []SInv
<1>1. Init => SInv
  <2> SUFFICES ASSUME Init PROVE SInv
    OBVIOUS
  <2>1. \A r \in Requests : handler[r].phase = "new"
    BY DEF Init, Ended
  <2>2. CasesNamed
    BY <2>1 DEF Init, CasesNamed, RunNamed, PlanNamed, DocumentNamed, HandlerNamed, NewRun,
       PlanExists
  <2>3. StatusJustified
    BY DEF Init, StatusJustified, NewCase
  <2> QED
    BY <2>1, <2>2, <2>3 DEF SInv, LoadedEarly
<1>2. IInv /\ PlanVersionsConsecutive /\ SInv /\ [Next]_vars => SInv'
  BY CasesNamedStep, LoadedEarlyStep, StatusJustifiedStep DEF SInv
<1> QED
  BY <1>1, <1>2, Invariance, PlanNumbering, PTL DEF Spec

(* The status of a case tells the truth about its rows, however stale the  *)
(* status a handler loaded.                                                *)
THEOREM StatusTrue == Spec => []StatusJustified
<1>1. SInv => StatusJustified
  BY DEF SInv
<1> QED
  BY <1>1, StatusInvariance, PTL

(* Only an upload that processed a CV makes a case ready for a plan: no    *)
(* failed run, however late, takes it back there.                          *)
THEOREM ReadyByUpload == Spec => ReadyOnlyAfterUpload
<1> DEFINE ReadyStep ==
        \A c \in Cases :
          cases[c].status # "READY_FOR_PLAN" /\ cases'[c].status = "READY_FOR_PLAN" =>
            \E u \in Requests : /\ documents[u].status = "NONE"
                                /\ documents'[u].status = "PROCESSED"
                                /\ documents'[u].case = c
<1>1. IInv /\ SInv /\ [Next]_vars => [ReadyStep]_vars
  <2> SUFFICES ASSUME IInv, SInv, [Next]_vars, NEW c \in Cases,
                      cases[c].status # "READY_FOR_PLAN",
                      cases'[c].status = "READY_FOR_PLAN"
               PROVE  \E u \in Requests : /\ documents[u].status = "NONE"
                                          /\ documents'[u].status = "PROCESSED"
                                          /\ documents'[u].case = c
    OBVIOUS
  <2>1. PICK q \in Requests : \/ UploadCvCommit(q) /\ handler[q].case = c
                              \/ Reopened(q, c)
    BY StatusChange
  <2>2. ~ Reopened(q, c)
    BY DEF SInv, LoadedEarly, Reopened, FailPlanRun, Handling
  <2>3. documents[q].status = "NONE"
    BY <2>1, <2>2 DEF UploadCvCommit, IInv, HandlersCurrent, RowsComplete
  <2> QED
    BY <2>1, <2>2, <2>3 DEF UploadCvCommit, IInv, TypeOK
<1> QED
  BY <1>1, Invariance, StatusInvariance, PTL DEF Spec, ReadyOnlyAfterUpload

-----------------------------------------------------------------------------
(* Running runs. *)

(* A handler of a callback has no run of its own. *)
OwnRun ==
    \A r \in Requests : handler[r].phase = "handling" /\ runs[r].status # "NONE" =>
        handler[r].run = r

(* A handler that works on a run goes on with it, or settles it. *)
LEMMA WorkGoesOn ==
    ASSUME IInv, [Next]_vars, NEW r \in Requests,
           handler[r].phase \in {"calling", "handling", "done", "dead"}
    PROVE  \/ handler'[r] = handler[r]
           \/ handler'[r].phase = "handling" /\ handler'[r].run = r
           \/ handler'[r].phase = "dead"
           \/ /\ AgentCallFails(r) \/ StoreResult(r) \/ SettlesRun(r)
              /\ handler'[r].phase = "done"
<1> DEFINE Outcome ==
        \/ handler'[r] = handler[r]
        \/ handler'[r].phase = "handling" /\ handler'[r].run = r
        \/ handler'[r].phase = "dead"
        \/ /\ AgentCallFails(r) \/ StoreResult(r) \/ SettlesRun(r)
           /\ handler'[r].phase = "done"
<1> USE DEF IInv, TypeOK
<1>1. ASSUME NEW q \in Requests, Arrive(q) PROVE Outcome
  <2>1. handler[q].phase = "new" /\ \E h : handler' = [handler EXCEPT ![q] = h]
    BY <1>1 DEF Arrive, New, Answer, Reject, CreateEmployee, UpdateEmployeeLoad, UploadCv,
       GeneratePlanConflict, GeneratePlanDuplicate, GeneratePlanLoad, Generation,
       RevisePlanConflict, RevisePlanCreate, AskQuestionCreate, ApprovePlanLoad,
       AgentRunCallback, HoldResult
  <2> QED
    BY <2>1
<1>2. ASSUME NEW q \in Requests, Proceed(q) PROVE Outcome
  <2>1. CASE FailPlanRun(q) \/ SaveCompletedPlan(q) \/ StoreResult(q) \/ FailQuestion(q)
             \/ AnswerQuestion(q)
    BY <2>1 DEF SettlesRun, FailPlanRun, SaveCompletedPlan, StoreResult, FailQuestion,
       AnswerQuestion, Handling, Answer, Ended
  <2>2. CASE UpdateEmployeeCommit(q) \/ ApprovePlanCommit(q) \/ UploadCvTooLarge(q)
             \/ UploadCvFail(q) \/ UploadCvStore(q) \/ UploadCvCommit(q)
             \/ GeneratePlanCreate(q)
    BY <2>2 DEF UpdateEmployeeCommit, ApprovePlanCommit, UploadCvTooLarge, UploadCvFail,
       UploadCvStore, UploadCvCommit, GeneratePlanCreate, Answer
  <2> QED
    BY <1>2, <2>1, <2>2 DEF Proceed
<1>3. ASSUME NEW q \in Requests, AgentCallFails(q) PROVE Outcome
  BY <1>3 DEF AgentCallFails, Answer, Ended
<1>4. ASSUME NEW q \in Requests, NEW payload \in Payload, AgentCallReturns(q, payload)
      PROVE  Outcome
  BY <1>4 DEF AgentCallReturns, HoldResult, Holding
<1>5. CASE Crash
  BY <1>5 DEF Crash, Ended
<1> QED
  BY <1>1, <1>2, <1>3, <1>4, <1>5 DEF Next, vars

LEMMA OwnRunStep ==
    ASSUME IInv, OwnRun, [Next]_vars
    PROVE  OwnRun'
<1> SUFFICES ASSUME NEW r \in Requests, handler'[r].phase = "handling",
                    runs'[r].status # "NONE"
             PROVE  handler'[r].run = r
  BY DEF OwnRun
<1>1. CASE runs[r].status = "NONE"
  <2>1. CreatesRun(r)
    BY <1>1, RunsIdentified, RunCreation
  <2> QED
    BY <2>1, RunCreation
<1>2. CASE runs[r].status # "NONE"
  <2>1. handler[r].phase \in {"calling", "handling", "done", "dead"}
    BY <1>2 DEF IInv, HandlersCurrent, RowsComplete
  <2>2. CASE handler'[r] = handler[r]
    BY <1>2, <2>2 DEF OwnRun
  <2> QED
    BY <2>1, <2>2, WorkGoesOn
<1> QED
  BY <1>1, <1>2

Explained(r) ==
    runs[r].status = "RUNNING" =>
        \/ handler[r].phase \in {"calling", "handling", "dead"}
        \/ /\ handler[r].phase = "done" /\ handler[r].reply = "ok"
           /\ runs[r].result \in {"ACK", "NO_ARTIFACT"}

(* A run that its own handler does not finish with stays explained. *)
LEMMA ExplainedOfOthers ==
    ASSUME IInv, [Next]_vars, NEW r \in Requests, Explained(r),
           runs'[r].status = "RUNNING" => runs[r].status = "RUNNING",
           runs'[r].result = runs[r].result \/ runs'[r].result \in {"ACK", "NO_ARTIFACT"},
           ~ (AgentCallFails(r) \/ StoreResult(r) \/ SettlesRun(r))
    PROVE  Explained(r)'
<1> SUFFICES ASSUME runs[r].status = "RUNNING" PROVE Explained(r)'
  BY DEF Explained
<1>1. handler[r].phase \in {"calling", "handling", "done", "dead"}
  BY DEF Explained
<1>2. CASE handler'[r] = handler[r]
  BY <1>2 DEF Explained
<1> QED
  BY <1>1, <1>2, WorkGoesOn DEF Explained

LEMMA ExplainedStep ==
    ASSUME IInv, OwnRun, RunningExplained, [Next]_vars
    PROVE  RunningExplained'
<1> SUFFICES ASSUME NEW r \in Requests PROVE Explained(r)'
  BY DEF RunningExplained, Explained
<1>1. Explained(r)
  BY DEF RunningExplained, Explained
<1>2. CASE AgentCallFails(r)
  BY <1>2, RunFailed DEF Explained
<1>3. CASE runs[r].status = "NONE"
  <2>1. \/ runs'[r].status = "NONE"
        \/ handler'[r].phase = "calling"
    BY <1>3, RunsIdentified, RunCreation
  <2> QED
    BY <2>1 DEF Explained
<1>4. ASSUME StoreResult(r) \/ SettlesRun(r), runs[r].status # "NONE" PROVE handler[r].run = r
  <2>1. handler[r].phase = "handling"
    BY <1>4, Settlement DEF StoreResult, Handling
  <2> QED
    BY <1>4, <2>1 DEF OwnRun
<1>5. CASE StoreResult(r) /\ runs[r].status # "NONE"
  <2>1. handler[r].run = r /\ handler[r].payload \in {"ACK", "NO_ARTIFACT"}
    BY <1>4, <1>5 DEF StoreResult, Handling
  <2>2. runs'[r].result = handler[r].payload
    BY <1>5, <2>1, RunStored
  <2>3. handler'[r].phase = "done" /\ handler'[r].reply = "ok"
    BY <1>5 DEF StoreResult, Handling, Answer, Ended, IInv, TypeOK
  <2> QED
    BY <2>1, <2>2, <2>3 DEF Explained
<1>6. ASSUME NEW q \in Requests, SettlesRun(q), handler[q].run = r
      PROVE  runs'[r].status # "RUNNING"
  <2>1. PICK status \in {"FAILED", "COMPLETED"} : Settle(q, status)
    BY <1>6, Settlement
  <2>2. runs'[r].status = status
    BY <1>6, <2>1, Settlement, RunSettled DEF RunStatus
  <2> QED
    BY <2>1, <2>2
<1>7. CASE SettlesRun(r) /\ runs[r].status # "NONE"
  BY <1>4, <1>6, <1>7 DEF Explained
<1>8. ASSUME ~ (AgentCallFails(r) \/ StoreResult(r) \/ SettlesRun(r)) PROVE Explained(r)'
  <2>1. ASSUME NEW q \in Requests, CreatesRun(q) PROVE Explained(r)'
    BY <1>1, <1>8, <2>1, RunCreation, ExplainedOfOthers DEF Explained
  <2>2. ASSUME NEW q \in Requests, AgentCallFails(q) PROVE Explained(r)'
    BY <1>1, <1>8, <2>2, RunFailed, ExplainedOfOthers
  <2>3. ASSUME NEW q \in Requests, StoreResult(q) PROVE Explained(r)'
    <3>1. handler[q].payload \in {"ACK", "NO_ARTIFACT"}
      BY <2>3 DEF StoreResult, Handling
    <3> QED
      BY <1>1, <1>8, <2>3, <3>1, RunStored, ExplainedOfOthers
  <2>4. ASSUME NEW q \in Requests, SettlesRun(q) PROVE Explained(r)'
    <3>1. CASE handler[q].run = r
      BY <1>6, <2>4, <3>1 DEF Explained
    <3>2. CASE handler[q].run # r
      <4>1. PICK status \in {"FAILED", "COMPLETED"} : Settle(q, status)
        BY <2>4, Settlement
      <4>2. runs'[r] = runs[r]
        BY <2>4, <3>2, <4>1, Settlement, RunSettled DEF RunStatus
      <4> QED
        BY <1>1, <1>8, <4>2, ExplainedOfOthers
    <3> QED
      BY <3>1, <3>2
  <2>5. CASE UNCHANGED <<runs, questions>>
    BY <1>1, <1>8, <2>5, ExplainedOfOthers
  <2> QED
    BY <2>1, <2>2, <2>3, <2>4, <2>5, RunsChange
<1> QED
  BY <1>2, <1>3, <1>5, <1>7, <1>8

(* A run says RUNNING only while it is worked on, or because nothing      *)
(* terminal or no plan or answer came of it, or because the server died.  *)
THEOREM RunningIsExplained == Spec => []RunningExplained
<1>1. Init => OwnRun /\ RunningExplained
  BY DEF Init, Ended, NewRun, OwnRun, RunningExplained
<1>2. IInv /\ OwnRun /\ RunningExplained /\ [Next]_vars => (OwnRun /\ RunningExplained)'
  BY OwnRunStep, ExplainedStep
<1> QED
  BY <1>1, <1>2, Invariance, PTL DEF Spec

-----------------------------------------------------------------------------
(* Plans of one run. *)

(* A handler that is not a callback's handles, and saves, its own run. *)
OwnResult(q) ==
    Endpoint[q] # "CALLBACK" =>
        /\ handler[q].phase = "handling" => handler[q].run = q
        /\ PlanExists(q) => plans[q].run = q

LEMMA OwnResultStep ==
    ASSUME IInv, NEW q \in Requests, OwnResult(q), [Next]_vars
    PROVE  OwnResult(q)'
<1> SUFFICES ASSUME Endpoint[q] # "CALLBACK"
             PROVE  /\ handler'[q].phase = "handling" => handler'[q].run = q
                    /\ PlanExists(q)' => plans'[q].run = q
  BY DEF OwnResult
<1>1. handler'[q].phase = "handling" => handler'[q].run = q
  <2>1. ASSUME NEW c \in Cases, UploadCv(q, c) \/ GeneratePlanLoad(q, c)
        PROVE  handler'[q].phase # "handling"
    BY <2>1 DEF UploadCv, GeneratePlanLoad, Holding, IInv, TypeOK
  <2>2. UploadCvStore(q) => handler'[q].phase # "handling"
    BY DEF UploadCvStore, IInv, TypeOK, HandlerState
  <2>3. ASSUME NEW payload \in Payload, HoldResult(q, q, payload)
        PROVE  handler'[q].run = q
    BY <2>3 DEF HoldResult, Holding, IInv, TypeOK
  <2> QED
    BY <2>1, <2>2, <2>3, HandlerMoves DEF OwnResult
<1>2. ASSUME PlanExists(q)' PROVE plans'[q].run = q
  <2>1. CASE PlanExists(q)
    BY <2>1, PlansKept DEF OwnResult
  <2>2. CASE ~ PlanExists(q)
    <3>1. ASSUME NEW s \in Requests, ApprovePlanCommit(s) PROVE plans'[q] = plans[q]
      BY <2>2, <3>1, ApprovalChanges DEF IInv, TypeOK
    <3>2. ASSUME NEW s \in Requests, SaveCompletedPlan(s), plans'[q] # plans[q]
          PROVE  plans'[q].run = q
      <4>1. s = q /\ plans'[q].run = handler[q].run
        BY <3>2 DEF SaveCompletedPlan, IInv, TypeOK
      <4> QED
        BY <3>2, <4>1 DEF SaveCompletedPlan, Handling, OwnResult
    <3> QED
      BY <1>2, <2>2, <3>1, <3>2, PlansChange DEF PlanExists
  <2> QED
    BY <2>1, <2>2
<1> QED
  BY <1>1, <1>2

LEMMA OwnResults == Spec => [](\A q \in Requests : OwnResult(q))
<1>1. Init => \A q \in Requests : OwnResult(q)
  BY DEF Init, Ended, OwnResult, PlanExists
<1>2. IInv /\ (\A q \in Requests : OwnResult(q)) /\ [Next]_vars
        => (\A q \in Requests : OwnResult(q))'
  BY OwnResultStep
<1> QED
  BY <1>1, <1>2, Invariance, PTL DEF Spec

(* What makes a second plan of a run is a callback: of two plans of one run  *)
(* at least one was saved by agent_run_callback, and never two by the POSTs  *)
(* that await WF-01's answer.                                                *)
SecondPlanByCallback ==
    \A p, q \in Requests :
        PlanExists(p) /\ PlanExists(q) /\ plans[p].run = plans[q].run /\ p # q =>
            Endpoint[p] = "CALLBACK" \/ Endpoint[q] = "CALLBACK"

THEOREM DuplicatesByCallback == Spec => []SecondPlanByCallback
<1>1. (\A q \in Requests : OwnResult(q)) => SecondPlanByCallback
  BY DEF OwnResult, SecondPlanByCallback
<1> QED
  BY <1>1, OwnResults, PTL

(* Where WF-01 answers the POST and posts no callback, as it does when it    *)
(* runs synchronously, a run makes at most one plan.                         *)
THEOREM OncePerRun ==
    ASSUME \A r \in Requests : Endpoint[r] # "CALLBACK"
    PROVE  Spec => []OnePlanPerRun
<1>1. SecondPlanByCallback => OnePlanPerRun
  BY DEF SecondPlanByCallback, OnePlanPerRun
<1> QED
  BY <1>1, DuplicatesByCallback, PTL

-----------------------------------------------------------------------------
(* Versions of a case. *)

(* The version of a case that exists changes only when an edit or an       *)
(* upload that loaded this case commits.                                   *)
LEMMA VersionChange ==
    ASSUME IInv, [Next]_vars, NEW c \in Cases, CaseExists(c),
           cases'[c].version # cases[c].version
    PROVE  \E q \in Requests : /\ UpdateEmployeeCommit(q) \/ UploadCvCommit(q)
                              /\ handler[q].case = c
<1> USE DEF IInv, TypeOK, CaseRow
<1>1. ASSUME NEW q \in Requests, NEW d \in Cases, CreateEmployee(q, d) PROVE FALSE
  BY <1>1 DEF CreateEmployee
<1>2. ASSUME NEW q \in Requests, ApprovePlanCommit(q) \/ FailPlanRun(q) \/ SaveCompletedPlan(q)
      PROVE  FALSE
  BY <1>2 DEF ApprovePlanCommit, FailPlanRun, SaveCompletedPlan, WithStatus
<1>3. ASSUME NEW q \in Requests, UpdateEmployeeCommit(q) \/ UploadCvCommit(q)
      PROVE  handler[q].case = c
  BY <1>3 DEF UpdateEmployeeCommit, UploadCvCommit, WithStatus
<1> QED
  BY <1>1, <1>2, <1>3, CasesChange DEF WritesCase

Editing(r) == handler[r].phase \in {"updating", "reading", "storing"}

(* An edit or upload holds the version its case still has. *)
Fresh(r) ==
    Editing(r) => /\ handler[r].case \in Cases
                  /\ CaseExists(handler[r].case)
                  /\ handler[r].number = cases[handler[r].case].version

(* No two edits or uploads of one case are in flight. *)
EditsApart ==
    \A r, s \in Requests :
        Editing(r) /\ Editing(s) /\ handler[r].case = handler[s].case => r = s

LEMMA FreshStep ==
    ASSUME IInv, EditsApart, NEW r \in Requests, Fresh(r), [Next]_vars
    PROVE  Fresh(r)'
<1> USE DEF Fresh, Editing
<1>1. CASE handler'[r] = handler[r] /\ Editing(r)
  <2> DEFINE c == handler[r].case
  <2>1. c \in Cases /\ CaseExists(c) /\ CaseExists(c)'
    BY <1>1, CasesKept
  <2>2. cases'[c].version = cases[c].version
    <3> SUFFICES ASSUME cases'[c].version # cases[c].version PROVE FALSE
      OBVIOUS
    <3>1. PICK q \in Requests : /\ UpdateEmployeeCommit(q) \/ UploadCvCommit(q)
                               /\ handler[q].case = c
      BY <2>1, VersionChange
    <3>2. Editing(q) /\ handler'[q].phase = "done"
      BY <3>1 DEF UpdateEmployeeCommit, UploadCvCommit, Answer, Ended, IInv, TypeOK
    <3>3. q = r
      BY <1>1, <3>1, <3>2 DEF EditsApart
    <3> QED
      BY <1>1, <3>2, <3>3
  <2> QED
    BY <1>1, <2>1, <2>2
<1>2. ASSUME NEW c \in Cases, UploadCv(r, c) \/ UpdateEmployeeLoad(r, c) PROVE Fresh(r)'
  <2>1. handler'[r] = Holding(handler'[r].phase, c, cases[c].status, cases[c].version)
    BY <1>2 DEF UploadCv, UpdateEmployeeLoad, Holding, IInv, TypeOK
  <2> QED
    BY <1>2, <2>1 DEF UploadCv, UpdateEmployeeLoad, Holding, tables, CaseExists
<1>3. CASE UploadCvStore(r)
  <2>1. handler[r].phase = "reading" /\ handler' = [handler EXCEPT ![r].phase = "storing"]
    BY <1>3 DEF UploadCvStore
  <2>2. handler'[r].case = handler[r].case /\ handler'[r].number = handler[r].number
    BY <2>1 DEF IInv, TypeOK, HandlerState
  <2> QED
    BY <1>3, <2>1, <2>2 DEF UploadCvStore, CaseExists
<1>4. ASSUME NEW c \in Cases, GeneratePlanLoad(r, c) PROVE ~ Editing(r)'
  BY <1>4 DEF GeneratePlanLoad, Holding, IInv, TypeOK
<1>5. ASSUME NEW q \in Requests, NEW payload \in Payload, HoldResult(r, q, payload)
      PROVE  ~ Editing(r)'
  BY <1>5 DEF HoldResult, Holding, IInv, TypeOK
<1> QED
  BY <1>1, <1>2, <1>3, <1>4, <1>5, HandlerMoves

(* What ends an edit that was loaded, short of a crash, is its commit. *)
LEMMA UpdatingEnds ==
    ASSUME IInv, [Next]_vars, NEW r \in Requests,
           handler[r].phase = "updating", handler'[r].phase = "done"
    PROVE  UpdateEmployeeCommit(r)
<1> USE DEF IInv, TypeOK
<1>1. ASSUME NEW q \in Requests, Arrive(q) PROVE FALSE
  <2>1. handler[q].phase = "new" /\ \E h : handler' = [handler EXCEPT ![q] = h]
    BY <1>1 DEF Arrive, New, Answer, Reject, CreateEmployee, UpdateEmployeeLoad, UploadCv,
       GeneratePlanConflict, GeneratePlanDuplicate, GeneratePlanLoad, Generation,
       RevisePlanConflict, RevisePlanCreate, AskQuestionCreate, ApprovePlanLoad,
       AgentRunCallback, HoldResult
  <2> QED
    BY <2>1
<1>2. ASSUME NEW q \in Requests, Proceed(q) PROVE UpdateEmployeeCommit(r)
  BY <1>2 DEF Proceed, UpdateEmployeeCommit, ApprovePlanCommit, UploadCvTooLarge, UploadCvFail,
     UploadCvStore, UploadCvCommit, GeneratePlanCreate, FailPlanRun, SaveCompletedPlan,
     StoreResult, FailQuestion, AnswerQuestion, Handling, Answer
<1>3. ASSUME NEW q \in Requests, AgentCallFails(q) PROVE FALSE
  BY <1>3 DEF AgentCallFails, Answer
<1>4. ASSUME NEW q \in Requests, NEW payload \in Payload, AgentCallReturns(q, payload)
      PROVE  FALSE
  BY <1>4 DEF AgentCallReturns, HoldResult
<1>5. ~ Crash
  BY DEF Crash, InFlight, Ended
<1>6. ~ UNCHANGED vars
  BY DEF vars
<1> QED
  BY <1>1, <1>2, <1>3, <1>4, <1>5, <1>6 DEF Next

(* The lost edit needs an overlap: as long as no two edits or uploads of    *)
(* one case are in flight at once, each PATCH increments the version of its *)
(* case, whatever generations, results, approvals and crashes come between  *)
(* its load and its commit.                                                 *)
THEOREM NoLostEdit == Spec /\ []EditsApart => PatchIncrementsVersion
<1> DEFINE AllFresh == \A r \in Requests : Fresh(r)
           Increments ==
             \A r \in Requests :
               handler[r].phase = "updating" /\ handler'[r].phase = "done" =>
                 LET c == handler[r].case IN cases'[c].version = cases[c].version + 1
<1>1. Init => AllFresh
  BY DEF Init, Ended, Fresh, Editing
<1>2. IInv /\ EditsApart /\ AllFresh /\ [Next]_vars => AllFresh'
  BY FreshStep
<1>3. IInv /\ AllFresh /\ [Next]_vars => [Increments]_vars
  <2> SUFFICES ASSUME IInv, AllFresh, [Next]_vars, NEW r \in Requests,
                      handler[r].phase = "updating", handler'[r].phase = "done"
               PROVE  cases'[handler[r].case].version = cases[handler[r].case].version + 1
    OBVIOUS
  <2>1. UpdateEmployeeCommit(r)
    BY UpdatingEnds
  <2>2. handler[r].case \in Cases /\ handler[r].number = cases[handler[r].case].version
    BY DEF Fresh, Editing
  <2> QED
    BY <2>1, <2>2 DEF UpdateEmployeeCommit, WithStatus, IInv, TypeOK, CaseRow
<1> QED
  BY <1>1, <1>2, <1>3, Invariance, PTL DEF Spec, PatchIncrementsVersion

-----------------------------------------------------------------------------
(* Progress of the handlers, as far as it is safety. *)

(* How far a handler has come. *)
Rank(phase) ==
    CASE phase = "new" -> 0
      [] phase \in {"updating", "approving", "reading", "creating"} -> 1
      [] phase \in {"storing", "calling"} -> 2
      [] phase = "handling" -> 3
      [] OTHER -> 4

Stands(r) == handler'[r] = handler[r]
Advances(r) == Rank(handler[r].phase) < Rank(handler'[r].phase)

(* No handler goes back: each step but a crash takes exactly one of them on, *)
(* and a crash ends all that were in flight.  A request takes four steps at  *)
(* most, whatever the others, WF-01, its callbacks and crashes do, which is  *)
(* what the fairness of RequestsEnd rests on.                                *)
HandlersAdvance ==
    [][\/ \E r \in Requests : Advances(r) /\ \A s \in Requests \ {r} : Stands(s)
       \/ /\ \E r \in Requests : InFlight(r)
          /\ \A r \in Requests : IF InFlight(r) THEN Advances(r) /\ ~ InFlight(r)'
                                               ELSE Stands(r)]_vars

(* The step of a handler from one phase to another. *)
LEMMA PhaseStep ==
    ASSUME IInv, NEW r \in Requests, NEW h, h.phase \in Phase,
           handler' = [handler EXCEPT ![r] = h],
           Rank(handler[r].phase) < Rank(h.phase)
    PROVE  Advances(r) /\ \A s \in Requests \ {r} : Stands(s)
<1>1. handler \in [Requests -> HandlerState]
  BY DEF IInv, TypeOK
<1>2. handler'[r] = h /\ \A s \in Requests \ {r} : handler'[s] = handler[s]
  BY <1>1
<1> QED
  BY <1>2 DEF Advances, Stands

LEMMA HeldPhase ==
    ASSUME NEW q, NEW r, NEW payload, HoldResult(q, r, payload)
    PROVE  \E h : h.phase = "handling" /\ handler' = [handler EXCEPT ![q] = h]
<1>1. PICK c, status, n :
        handler' = [handler EXCEPT ![q] = [Holding("handling", c, status, n)
                                             EXCEPT !.run = r, !.payload = payload]]
  BY DEF HoldResult
<1> DEFINE h == [Holding("handling", c, status, n) EXCEPT !.run = r, !.payload = payload]
<1>2. h.phase = "handling"
  BY DEF Holding
<1> QED
  BY <1>1, <1>2

LEMMA RankValues ==
    /\ Rank("new") = 0 /\ Rank("reading") = 1 /\ Rank("creating") = 1
    /\ Rank("storing") = 2 /\ Rank("calling") = 2 /\ Rank("handling") = 3
BY DEF Rank

LEMMA PhaseNames == {"storing", "calling", "handling"} \subseteq Phase
BY DEF Phase, Blocking

LEMMA ArrivalAdvances ==
    ASSUME IInv, NEW r \in Requests, Arrive(r)
    PROVE  Advances(r) /\ \A s \in Requests \ {r} : Stands(s)
<1> DEFINE Moves(next) ==
        /\ handler[r].phase = "new"
        /\ \E h : h.phase = next /\ handler' = [handler EXCEPT ![r] = h]
<1>1. Reject(r) => Moves("done")
  BY DEF Reject, Answer, Ended
<1>2. ASSUME NEW c \in Cases,
             \/ CreateEmployee(r, c) \/ GeneratePlanConflict(r, c)
             \/ GeneratePlanDuplicate(r, c) \/ RevisePlanConflict(r, c)
      PROVE  Moves("done")
  BY <1>2 DEF CreateEmployee, GeneratePlanConflict, GeneratePlanDuplicate, RevisePlanConflict,
     Generation, New, Answer, Ended
<1>3. ASSUME NEW c \in Cases, UpdateEmployeeLoad(r, c) PROVE Moves("updating")
  BY <1>3 DEF UpdateEmployeeLoad, New, Holding
<1>4. ASSUME NEW c \in Cases, UploadCv(r, c) PROVE Moves("reading")
  BY <1>4 DEF UploadCv, New, Holding
<1>5. ASSUME NEW c \in Cases, GeneratePlanLoad(r, c) PROVE Moves("creating")
  BY <1>5 DEF GeneratePlanLoad, Generation, New, Holding
<1>6. ASSUME NEW c \in Cases, RevisePlanCreate(r, c) \/ AskQuestionCreate(r, c)
      PROVE  Moves("calling")
  <2>1. handler[r].phase = "new"
        /\ handler' = [handler EXCEPT ![r] = Holding("calling", c, "ABSENT", 0)]
    BY <1>6 DEF RevisePlanCreate, AskQuestionCreate, New
  <2> QED
    BY <2>1 DEF Holding
<1>7. ASSUME NEW p \in Requests, ApprovePlanLoad(r, p) PROVE Moves("approving")
  <2> DEFINE held == Holding("approving", plans[p].case, cases[plans[p].case].status, 0)
             h == [held EXCEPT !.plan = p]
  <2>1. h.phase = "approving"
    BY DEF Holding
  <2>2. handler[r].phase = "new" /\ handler' = [handler EXCEPT ![r] = h]
    BY <1>7 DEF ApprovePlanLoad, New
  <2> HIDE DEF h
  <2> QED
    BY <2>1, <2>2
<1>8. ASSUME NEW q \in Requests, NEW payload \in Payload, AgentRunCallback(r, q, payload)
      PROVE  Moves("handling")
  BY <1>8, HeldPhase DEF AgentRunCallback, New
<1>9. ASSUME NEW next \in Phase, Rank(next) > 0, Moves(next)
      PROVE  Advances(r) /\ \A s \in Requests \ {r} : Stands(s)
  <2>1. PICK h : h.phase = next /\ handler' = [handler EXCEPT ![r] = h]
    BY <1>9
  <2>2. Rank(handler[r].phase) = 0
    BY <1>9 DEF Rank
  <2> QED
    BY <1>9, <2>1, <2>2, PhaseStep
<1>10. /\ Rank("done") > 0 /\ Rank("updating") > 0 /\ Rank("reading") > 0
       /\ Rank("creating") > 0 /\ Rank("calling") > 0 /\ Rank("approving") > 0
       /\ Rank("handling") > 0
  BY DEF Rank
<1>11. {"done", "updating", "reading", "creating", "calling", "approving", "handling"}
         \subseteq Phase
  BY DEF Phase, Blocking
<1> HIDE DEF Moves
<1> QED
  BY <1>1, <1>2, <1>3, <1>4, <1>5, <1>6, <1>7, <1>8, <1>9, <1>10, <1>11 DEF Arrive

LEMMA ProceedAdvances ==
    ASSUME IInv, NEW r \in Requests, Proceed(r) \/ AgentCallFails(r)
    PROVE  Advances(r) /\ \A s \in Requests \ {r} : Stands(s)
<1>1. ASSUME NEW reply, Answer(r, reply), handler[r].phase \notin {"done", "dead"}
      PROVE  Advances(r) /\ \A s \in Requests \ {r} : Stands(s)
  <2>1. Rank(handler[r].phase) < Rank("done")
    BY <1>1 DEF Rank, Phase, Blocking, IInv, TypeOK, HandlerState
  <2> QED
    BY <1>1, <2>1, PhaseStep DEF Answer, Ended, Phase
<1>2. CASE UpdateEmployeeCommit(r) \/ ApprovePlanCommit(r) \/ UploadCvTooLarge(r)
           \/ UploadCvFail(r) \/ UploadCvCommit(r) \/ AgentCallFails(r)
  BY <1>1, <1>2 DEF UpdateEmployeeCommit, ApprovePlanCommit, UploadCvTooLarge, UploadCvFail,
     UploadCvCommit, AgentCallFails
<1>3. CASE FailPlanRun(r) \/ SaveCompletedPlan(r) \/ StoreResult(r) \/ FailQuestion(r)
           \/ AnswerQuestion(r)
  BY <1>1, <1>3 DEF FailPlanRun, SaveCompletedPlan, StoreResult, FailQuestion, AnswerQuestion,
     Handling
<1>4. CASE UploadCvStore(r)
  <2> DEFINE h == [handler[r] EXCEPT !.phase = "storing"]
  <2>1. h.phase = "storing"
    BY DEF IInv, TypeOK, HandlerState
  <2>2. handler' = [handler EXCEPT ![r] = h] /\ handler[r].phase = "reading"
    BY <1>4 DEF UploadCvStore, IInv, TypeOK
  <2>3. Rank(handler[r].phase) < Rank("storing") /\ "storing" \in Phase
    BY <2>2, RankValues, PhaseNames
  <2> HIDE DEF h
  <2> QED
    BY <2>1, <2>2, <2>3, PhaseStep
<1>5. CASE GeneratePlanCreate(r)
  <2>1. handler[r].phase = "creating"
    BY <1>5 DEF GeneratePlanCreate
  <2>2. PICK h : h.phase = "calling" /\ handler' = [handler EXCEPT ![r] = h]
    BY <1>5 DEF GeneratePlanCreate, Holding
  <2>3. Rank(handler[r].phase) < Rank(h.phase) /\ h.phase \in Phase
    BY <2>1, <2>2, RankValues, PhaseNames
  <2> QED
    BY <2>2, <2>3, PhaseStep
<1> QED
  BY <1>2, <1>3, <1>4, <1>5 DEF Proceed

LEMMA StepAdvances ==
    ASSUME IInv, Next
    PROVE  \/ \E r \in Requests : Advances(r) /\ \A s \in Requests \ {r} : Stands(s)
           \/ /\ \E r \in Requests : InFlight(r)
              /\ \A r \in Requests : IF InFlight(r) THEN Advances(r) /\ ~ InFlight(r)'
                                                   ELSE Stands(r)
<1>1. ASSUME NEW r \in Requests, NEW payload \in Payload, AgentCallReturns(r, payload)
      PROVE  Advances(r) /\ \A s \in Requests \ {r} : Stands(s)
  <2>1. handler[r].phase = "calling"
    BY <1>1 DEF AgentCallReturns
  <2>2. PICK h : h.phase = "handling" /\ handler' = [handler EXCEPT ![r] = h]
    BY <1>1, HeldPhase DEF AgentCallReturns
  <2>3. Rank(handler[r].phase) < Rank(h.phase) /\ h.phase \in Phase
    BY <2>1, <2>2, RankValues, PhaseNames
  <2> QED
    BY <2>2, <2>3, PhaseStep
<1>2. ASSUME Crash, NEW r \in Requests
      PROVE  IF InFlight(r) THEN Advances(r) /\ ~ InFlight(r)' ELSE Stands(r)
  BY <1>2 DEF Crash, InFlight, Advances, Stands, Ended, Rank, Phase, Blocking, IInv, TypeOK,
     HandlerState
<1>3. Crash => \E r \in Requests : InFlight(r)
  BY DEF Crash
<1> QED
  BY <1>1, <1>2, <1>3, ArrivalAdvances, ProceedAdvances DEF Next

THEOREM NoHandlerGoesBack == Spec => HandlersAdvance
<1>1. IInv /\ [Next]_vars =>
        [\/ \E r \in Requests : Advances(r) /\ \A s \in Requests \ {r} : Stands(s)
         \/ /\ \E r \in Requests : InFlight(r)
            /\ \A r \in Requests : IF InFlight(r) THEN Advances(r) /\ ~ InFlight(r)'
                                                 ELSE Stands(r)]_vars
  BY StepAdvances
<1> QED
  BY <1>1, Invariance, PTL DEF Spec, HandlersAdvance

-----------------------------------------------------------------------------
(* Runs that were settled. *)

Settled(r) == runs[r].status \in {"FAILED", "COMPLETED"}
Over(r) == handler[r].phase \in {"done", "dead"}

(* The two ways to a settled run: a callback, or the answer to the POST,     *)
(* which comes once.                                                         *)
ByCallback(r) ==
    \E q \in Requests :
        Endpoint[q] = "CALLBACK" /\ handler[q].phase = "handling" /\ handler[q].run = r

ByPost(r) == handler[r].phase \in {"calling", "handling"}

(* After the handler that made a run has ended, nothing but a callback       *)
(* changes the run's status or its result: no restart, no retry and no other *)
(* request of the case does.                                                 *)
ChangedByCallback ==
    [][\A r \in Requests : Over(r) /\ Settled(r) /\ runs'[r] # runs[r] => ByCallback(r)]_vars

(* A run that failed or completed stays as it is: neither a late failure of  *)
(* the POST nor an acknowledgement replaces its status or its result.        *)
RunsStaySettled == [][\A r \in Requests : Settled(r) => runs'[r] = runs[r]]_vars

LEMMA SettledChange ==
    ASSUME IInv, [Next]_vars, \A q \in Requests : OwnResult(q),
           NEW r \in Requests, Settled(r), runs'[r] # runs[r]
    PROVE  ByCallback(r) \/ ByPost(r)
<1> USE DEF Settled, ByCallback, ByPost
<1>1. ASSUME NEW q \in Requests, CreatesRun(q) PROVE FALSE
  BY <1>1, RunCreation
<1>2. ASSUME NEW q \in Requests, AgentCallFails(q) PROVE ByPost(r)
  <2>1. q = r
    BY <1>2, RunFailed
  <2> QED
    BY <1>2, <2>1 DEF AgentCallFails
<1>3. ASSUME NEW q \in Requests, StoreResult(q) \/ SettlesRun(q) PROVE ByCallback(r) \/ ByPost(r)
  <2>1. handler[q].phase = "handling"
    BY <1>3, Settlement DEF StoreResult, Handling
  <2>2. handler[q].run = r
    <3>1. CASE StoreResult(q)
      BY <3>1, RunStored
    <3>2. CASE SettlesRun(q)
      <4>1. PICK status \in {"FAILED", "COMPLETED"} : Settle(q, status)
        BY <3>2, Settlement
      <4> QED
        BY <2>1, <4>1, RunSettled DEF RunStatus
    <3> QED
      BY <1>3, <3>1, <3>2
  <2> QED
    BY <2>1, <2>2 DEF OwnResult
<1> QED
  BY <1>1, <1>2, <1>3, RunsChange

LEMMA StaysOver ==
    ASSUME IInv, [Next]_vars, NEW r \in Requests, Over(r)
    PROVE  Over(r)'
<1>1. ~ Advances(r)
  BY DEF Over, Advances, Rank
<1>2. handler'[r] = handler[r]
  BY <1>1, StepAdvances DEF Stands, vars
<1> QED
  BY <1>2 DEF Over

(* Without callbacks what settles a run is the end of its own handler. *)
LEMMA SettledOver ==
    ASSUME \A q \in Requests : Endpoint[q] # "CALLBACK",
           IInv, [Next]_vars, \A q \in Requests : OwnResult(q),
           \A r \in Requests : Settled(r) => Over(r)
    PROVE  /\ \A r \in Requests : Settled(r) => runs'[r] = runs[r]
           /\ \A r \in Requests : Settled(r)' => Over(r)'
<1>1. ASSUME NEW r \in Requests, Settled(r) PROVE runs'[r] = runs[r] /\ Over(r)'
  BY <1>1, SettledChange, StaysOver DEF ByCallback, ByPost, Over
<1>2. ASSUME NEW r \in Requests, ~ Settled(r), Settled(r)' PROVE Over(r)'
  <2> USE DEF Settled, Over
  <2>1. ASSUME NEW q \in Requests, CreatesRun(q) PROVE FALSE
    BY <1>2, <2>1, RunCreation
  <2>2. ASSUME NEW q \in Requests, AgentCallFails(q) PROVE handler'[r].phase = "done"
    <3>1. q = r
      BY <1>2, <2>2, RunFailed
    <3> QED
      BY <2>2, <3>1 DEF AgentCallFails, Answer, Ended, IInv, TypeOK
  <2>3. ASSUME NEW q \in Requests, StoreResult(q) PROVE FALSE
    BY <1>2, <2>3, RunStored
  <2>4. ASSUME NEW q \in Requests, SettlesRun(q) PROVE handler'[r].phase = "done"
    <3>1. PICK status \in {"FAILED", "COMPLETED"} : Settle(q, status)
      BY <2>4, Settlement
    <3>2. handler[q].phase = "handling"
      BY <2>4, Settlement
    <3>3. handler[q].run = r
      BY <1>2, <3>1, <3>2, RunSettled DEF RunStatus
    <3>4. q = r
      BY <3>2, <3>3 DEF OwnResult
    <3>5. Answer(q, "ok")
      BY <2>4 DEF SettlesRun, FailPlanRun, SaveCompletedPlan, FailQuestion, AnswerQuestion, Handling
    <3> QED
      BY <3>4, <3>5 DEF Answer, Ended, IInv, TypeOK
  <2>5. ~ UNCHANGED <<runs, questions>>
    BY <1>2
  <2> QED
    BY <2>1, <2>2, <2>3, <2>4, <2>5, RunsChange
<1> QED
  BY <1>1, <1>2

THEOREM SettledByCallback == Spec => ChangedByCallback
<1>1. IInv /\ (\A q \in Requests : OwnResult(q)) /\ [Next]_vars =>
        [\A r \in Requests : Over(r) /\ Settled(r) /\ runs'[r] # runs[r] => ByCallback(r)]_vars
  BY SettledChange DEF ByPost, Over
<1> QED
  BY <1>1, Invariance, OwnResults, PTL DEF Spec, ChangedByCallback

(* Where WF-01 only answers the POST, a settled run is final.                *)
THEOREM SettledForGood ==
    ASSUME \A r \in Requests : Endpoint[r] # "CALLBACK"
    PROVE  Spec => RunsStaySettled
<1> DEFINE OwnAll == \A q \in Requests : OwnResult(q)
           SettledAll == \A r \in Requests : Settled(r) => Over(r)
<1>1. Init => SettledAll
  BY DEF Init, NewRun, Settled
<1>2. IInv /\ OwnAll /\ SettledAll /\ [Next]_vars => SettledAll'
  BY SettledOver
<1>3. IInv /\ OwnAll /\ SettledAll /\ [Next]_vars =>
        [\A r \in Requests : Settled(r) => runs'[r] = runs[r]]_vars
  BY SettledOver
<1>4. Spec => []OwnAll
  BY OwnResults
<1> QED
  BY <1>1, <1>2, <1>3, <1>4, Invariance, PTL DEF Spec, RunsStaySettled
=============================================================================
