------------------------ MODULE AgentExecutorProofs ------------------------
(***************************************************************************)
(* Proofs about AgentExecutor for every set of tasks, keys and results.    *)
(* A step of the tasks is a step of the calls or leaves them alone, so     *)
(* what WebhookCallbacksProofs shows of the calls holds here too.  The     *)
(* rest of the inductive invariant says, of each task, how the execution   *)
(* and its call go together, what the call's end may be, and what the task *)
(* may have reported.                                                      *)
(***************************************************************************)
EXTENDS AgentExecutor, WebhookCallbacksProofs

TaskTypes ==
    /\ stage \in [Calls -> Stages]
    /\ active \in SUBSET Calls
    /\ asked \in [Calls -> {"no", "asked", "answered"}]
    /\ stopped \in SUBSET Calls
    /\ emitted \in [Calls -> SUBSET Events]

(* The call is idle until the worker is created, and over when execute()   *)
(* has come back from it.                                                  *)
Staged(t) ==
    /\ stage[t] \in {"none", "starting", "paused"} => pc[t] = "idle" /\ t \notin active
    /\ stage[t] \in {"awaiting", "interrupted", "publishing", "closing"} => t \in active
    /\ stage[t] = "interrupted" => pc[t] # "idle" /\ asked[t] # "no"
    /\ stage[t] \in {"publishing", "closing"} => pc[t] = "done"
    /\ stage[t] = "publishing" => HasResult(t) /\ "ARTIFACT" \in emitted[t]
    /\ stage[t] = "done" => t \notin active /\ pc[t] \in {"idle", "done"}

(* Only a cancelled future or a request cancels a call. *)
Called(t) ==
    /\ outcome[t] # "none" => pc[t] = "done"
    /\ outcome[t] \notin Unfit
    /\ pc[t] = "stopping" => asked[t] # "no"
    /\ outcome[t] = "cancelled" /\ asked[t] = "no" =>
          awaited[t] \in Calls /\ future[awaited[t]] = "cancelled"

Reported(t) ==
    /\ "ARTIFACT" \in emitted[t] =>
          HasResult(t) /\ stage[t] \in {"publishing", "interrupted", "closing", "done"}
    /\ "COMPLETED" \in emitted[t] => "ARTIFACT" \in emitted[t]
                                     /\ outcome[t] \in Results \ (Failures \cup Unfit)
    /\ "CANCELED" \in emitted[t] /\ asked[t] = "no" => outcome[t] = "cancelled"

Halted(t) ==
    t \in stopped =>
        /\ asked[t] # "no"
        /\ stage[t] \in {"awaiting", "interrupted", "closing", "done"}
        /\ pc[t] = "stopping" \/ (pc[t] = "done" /\ outcome[t] = "cancelled")

TaskFacts(t) == Staged(t) /\ Called(t) /\ Reported(t) /\ Halted(t)

TInv == IInv /\ TaskTypes /\ \A t \in Calls : TaskFacts(t)

-----------------------------------------------------------------------------
(* What steps of the calls do. *)

CallStep(t) ==
    \/ Register(t) \/ Join(t) \/ Conflict(t)
    \/ PostReturns(t) \/ Wake(t) \/ Expire(t) \/ Leave(t)

CallFrame(t) ==
    \A d \in Calls \ {t} :
        pc'[d] = pc[d] /\ awaited'[d] = awaited[d] /\ outcome'[d] = outcome[d]

LEMMA StepFrame ==
    ASSUME IInv, NEW t \in Calls, CallStep(t) \/ Cancel(t)
    PROVE  CallFrame(t)
BY DEF IInv, TypeOK, CallStep, CallFrame, Register, Join, Conflict, PostReturns,
       PostAcknowledged, PostReturnsResult, PostUnprocessable, PostFails, Wake, Expire,
       Leave, Cancel, End

LEMMA StepIsNext ==
    ASSUME NEW t \in Calls, CallStep(t) \/ Cancel(t)
    PROVE  Next
BY DEF CallStep, Next

(* A call ends once, with a result that is fit, and as cancelled only if it *)
(* was being stopped or its future was cancelled.                           *)
LEMMA CallStepFacts ==
    ASSUME IInv, NEW t \in Calls, Called(t), CallStep(t)
    PROVE  /\ pc[t] # "done" /\ pc'[t] \notin {"idle", "stopping"}
           /\ outcome'[t] # "none" => pc'[t] = "done"
           /\ outcome'[t] \notin Unfit
           /\ pc[t] = "stopping" => pc'[t] = "done" /\ outcome'[t] = "cancelled"
           /\ outcome'[t] = "cancelled" =>
                pc[t] = "stopping" \/ (awaited'[t] \in Calls /\ future'[awaited'[t]] = "cancelled")
<1>1. /\ Unfit \subseteq Results
      /\ Results \cap {"unprocessable", "cancelled", "none", "conflict", "failed", "timeout"} = {}
  BY ResultAssumption
<1>2. pc[t] # "done" => outcome[t] = "none"
  BY DEF Called
<1>3. CASE Register(t) \/ Join(t) \/ Conflict(t)
  BY <1>1, <1>2, <1>3 DEF Register, Join, Conflict, IInv, TypeOK
<1>4. CASE PostReturns(t)
  BY <1>1, <1>2, <1>4
  DEF PostReturns, PostAcknowledged, PostReturnsResult, PostUnprocessable, PostFails, End,
      OutcomeOf, IInv, TypeOK
<1>5. CASE Wake(t)
  <2>1. awaited[t] \in Calls
    BY <1>5 DEF Wake, IInv, FuturesKnown, Active
  <2> QED
    BY <1>1, <1>2, <1>5, <2>1 DEF Wake, End, OutcomeOf, IInv, TypeOK
<1>6. CASE Expire(t)
  BY <1>1, <1>2, <1>6 DEF Expire, IInv, TypeOK
<1>7. CASE Leave(t)
  BY <1>1, <1>2, <1>7 DEF Leave, End, IInv, TypeOK
<1> QED
  BY <1>3, <1>4, <1>5, <1>6, <1>7 DEF CallStep

(* A cancelled call is stopping, or over if it had not started. *)
LEMMA CancelFacts ==
    ASSUME IInv, NEW t \in Calls, Called(t), pc[t] # "done", Cancel(t)
    PROVE  /\ outcome'[t] # "none" => pc'[t] = "done"
           /\ outcome'[t] \notin Unfit
           /\ pc'[t] = "stopping" \/ (pc'[t] = "done" /\ outcome'[t] = "cancelled")
<1>1. Unfit \subseteq Results /\ Results \cap {"none", "cancelled"} = {}
  BY ResultAssumption
<1> QED
  BY <1>1 DEF Cancel, Called, IInv, TypeOK

-----------------------------------------------------------------------------
(* What a step leaves of the facts of a task it is not about.  The future  *)
(* of its call may be resolved, but not if it was cancelled before.        *)
LEMMA OtherTask ==
    ASSUME TInv, [Next]_vars, NEW d \in Calls,
           pc'[d] = pc[d] /\ awaited'[d] = awaited[d] /\ outcome'[d] = outcome[d],
           stage'[d] = stage[d] /\ asked'[d] = asked[d] /\ emitted'[d] = emitted[d],
           d \in active' <=> d \in active,
           d \in stopped' <=> d \in stopped
    PROVE  TaskFacts(d)'
<1>1. awaited[d] \in Calls /\ future[awaited[d]] = "cancelled" =>
        future'[awaited[d]] = "cancelled"
  BY ResolvedStays DEF TInv
<1> QED
  BY <1>1 DEF TInv, TaskFacts, Staged, Called, Reported, Halted, HasResult

(* The frame of a step of the execution of t alone. *)
LEMMA RunStep ==
    ASSUME TInv, NEW t \in Calls, UNCHANGED vars,
           NEW next \in Stages, stage' = [stage EXCEPT ![t] = next],
           NEW events \in SUBSET Events, emitted' = [emitted EXCEPT ![t] = events],
           active' \in SUBSET Calls, \A d \in Calls \ {t} : d \in active' <=> d \in active,
           UNCHANGED <<asked, stopped>>,
           TaskFacts(t)'
    PROVE  TInv'
<1>1. IInv'
  BY NextInv DEF TInv
<1>2. TaskTypes'
  BY DEF TInv, TaskTypes
<1>3. ASSUME NEW d \in Calls, d # t PROVE TaskFacts(d)'
  BY <1>3, OtherTask DEF TInv, TaskTypes, vars
<1> QED
  BY <1>1, <1>2, <1>3 DEF TInv

LEMMA RunInv == ASSUME TInv, NEW t \in Calls, Run(t) \/ Execute(t) PROVE TInv'
<1>1. /\ TaskTypes /\ Staged(t) /\ Called(t) /\ Reported(t) /\ Halted(t)
      /\ stage[t] \in Stages /\ emitted[t] \in SUBSET Events
  BY DEF TInv, TaskFacts, TaskTypes
<1>2. "cancelled" \notin Delivered /\ Results \cap {"none"} = {}
  BY ResultAssumption DEF Delivered
<1> USE DEF Staged, Called, Reported, Halted, HasResult, Events, Final, Stages, Go, Emit
<1>3. CASE Execute(t)
  <2>1. TaskFacts(t)'
    BY <1>1, <1>3 DEF Execute, TaskFacts, TaskTypes, vars
  <2> QED
    BY <1>1, <1>3, <2>1, RunStep, {} \in SUBSET Events DEF Execute, TaskTypes
<1>4. CASE RequireInput(t)
  <2>1. TaskFacts(t)'
    BY <1>1, <1>4 DEF RequireInput, TaskFacts, TaskTypes, vars
  <2> QED
    BY <1>1, <1>4, <2>1, RunStep, emitted[t] \cup {"INPUT_REQUIRED"} \in SUBSET Events
    DEF RequireInput, TaskTypes
<1>5. CASE RefuseCommand(t)
  <2>1. TaskFacts(t)'
    BY <1>1, <1>5 DEF RefuseCommand, TaskFacts, TaskTypes, vars
  <2> QED
    BY <1>1, <1>5, <2>1, RunStep, emitted[t] \cup {"FAILED"} \in SUBSET Events
    DEF RefuseCommand, TaskTypes
<1>6. CASE StartWorker(t)
  <2>1. TaskFacts(t)'
    BY <1>1, <1>6 DEF StartWorker, TaskFacts, TaskTypes, vars
  <2>2. emitted' = [emitted EXCEPT ![t] = emitted[t]]
    BY <1>1, <1>6 DEF StartWorker, TaskTypes
  <2> QED
    BY <1>1, <1>6, <2>1, <2>2, RunStep DEF StartWorker, TaskTypes
<1>7. CASE PublishArtifact(t)
  <2>1. TaskFacts(t)'
    BY <1>1, <1>2, <1>7 DEF PublishArtifact, Returned, TaskFacts, TaskTypes, vars
  <2> QED
    BY <1>1, <1>7, <2>1, RunStep, emitted[t] \cup {"ARTIFACT"} \in SUBSET Events
    DEF PublishArtifact, TaskTypes
<1>8. CASE Conclude(t)
  <2> DEFINE event == IF outcome[t] \in Results \ Failures THEN {"COMPLETED"} ELSE {"FAILED"}
  <2>1. TaskFacts(t)'
    BY <1>1, <1>8 DEF Conclude, TaskFacts, TaskTypes, vars
  <2> QED
    BY <1>1, <1>8, <2>1, RunStep, emitted[t] \cup event \in SUBSET Events
    DEF Conclude, TaskTypes
<1>9. CASE ReportError(t)
  <2>1. TaskFacts(t)'
    BY <1>1, <1>9 DEF ReportError, Returned, TaskFacts, TaskTypes, vars
  <2> QED
    BY <1>1, <1>9, <2>1, RunStep, emitted[t] \cup {"FAILED"} \in SUBSET Events
    DEF ReportError, TaskTypes
<1>10. CASE ReportCanceled(t)
  <2>1. TaskFacts(t)'
    BY <1>1, <1>10 DEF ReportCanceled, Returned, TaskFacts, TaskTypes, vars
  <2> QED
    BY <1>1, <1>10, <2>1, RunStep, emitted[t] \cup {"CANCELED"} \in SUBSET Events
    DEF ReportCanceled, TaskTypes
<1>11. CASE Finish(t)
  <2>1. TaskFacts(t)'
    BY <1>1, <1>11 DEF Finish, TaskFacts, TaskTypes, vars
  <2>2. emitted' = [emitted EXCEPT ![t] = emitted[t]]
    BY <1>1, <1>11 DEF Finish, TaskTypes
  <2> QED
    BY <1>1, <1>11, <2>1, <2>2, RunStep DEF Finish, TaskTypes
<1> QED
  BY <1>3, <1>4, <1>5, <1>6, <1>7, <1>8, <1>9, <1>10, <1>11 DEF Run

LEMMA WorkerInv == ASSUME TInv, NEW t \in Calls, WorkerSteps(t) PROVE TInv'
<1>1. /\ IInv /\ TaskTypes
      /\ Staged(t) /\ Called(t) /\ Reported(t) /\ Halted(t)
  BY DEF TInv, TaskFacts
<1>2. CallStep(t) /\ UNCHANGED taskVars
  BY DEF WorkerSteps, WorkerStarts, CallStep
<1>3. pc[t] = "idle" => stage[t] = "awaiting"
  BY DEF WorkerSteps, WorkerStarts, PostReturns, PostAcknowledged, PostReturnsResult,
         PostUnprocessable, PostFails, Wake, Expire, Leave
<1>4. IInv' /\ [Next]_vars
  BY <1>2, NextInv, StepIsNext DEF TInv
<1>5. TaskTypes'
  BY <1>1, <1>2 DEF TaskTypes, taskVars
<1>6. ASSUME NEW d \in Calls, d # t PROVE TaskFacts(d)'
  BY <1>1, <1>2, <1>4, <1>6, StepFrame, OtherTask DEF CallFrame, taskVars
<1>7. TaskFacts(t)'
  <2> USE <1>1, <1>2, <1>3, CallStepFacts DEF taskVars
  <2>1. stage[t] \in {"awaiting", "interrupted"}
    BY DEF Staged, TaskTypes, Stages
  <2>2. Staged(t)'
    BY <2>1 DEF Staged
  <2>3. Called(t)'
    BY DEF Called
  <2>4. Reported(t)'
    BY <2>1, ResultAssumption DEF Reported, HasResult, Delivered, Called
  <2>5. Halted(t)'
    BY DEF Halted
  <2> QED
    BY <2>2, <2>3, <2>4, <2>5 DEF TaskFacts
<1> QED
  BY <1>4, <1>5, <1>6, <1>7 DEF TInv

LEMMA EnvironmentInv == TInv /\ Environment => TInv'
<1> SUFFICES ASSUME TInv, Environment PROVE TInv'
  OBVIOUS
<1>1. Next /\ UNCHANGED taskVars /\ UNCHANGED <<pc, awaited, outcome>>
  BY DEF Environment, Next, Close, Callback
<1>2. IInv' /\ TaskTypes'
  BY <1>1, NextInv DEF TInv, TaskTypes, taskVars
<1>3. ASSUME NEW d \in Calls PROVE TaskFacts(d)'
  BY <1>1, OtherTask DEF taskVars
<1> QED
  BY <1>2, <1>3 DEF TInv

(* What cancel() and the library do to a task whose worker is at work or   *)
(* not.                                                                    *)
LEMMA AskInv == ASSUME TInv, NEW t \in Calls, AskToCancel(t) PROVE TInv'
<1>1. /\ IInv /\ TaskTypes
      /\ Staged(t) /\ Called(t) /\ Reported(t) /\ Halted(t)
  BY DEF TInv, TaskFacts
<1>2. [Next]_vars /\ (AtWork(t) => Cancel(t)) /\ (~ AtWork(t) => UNCHANGED vars)
  BY StepIsNext DEF AskToCancel
<1>3. /\ UNCHANGED <<stage, active, emitted>>
      /\ asked' = [asked EXCEPT ![t] = "asked"]
      /\ stopped' = IF AtWork(t) THEN stopped \cup {t} ELSE stopped
  BY DEF AskToCancel
<1>4. IInv' /\ TaskTypes'
  BY <1>1, <1>2, <1>3, NextInv DEF TaskTypes
<1>5. ASSUME NEW d \in Calls, d # t PROVE TaskFacts(d)'
  <2>1. pc'[d] = pc[d] /\ awaited'[d] = awaited[d] /\ outcome'[d] = outcome[d]
    BY <1>1, <1>2, <1>5, StepFrame DEF CallFrame, vars
  <2> QED
    BY <1>1, <1>2, <1>3, <1>5, <2>1, OtherTask DEF TaskTypes
<1>6. TaskFacts(t)'
  <2>1. asked'[t] = "asked"
    BY <1>1, <1>3 DEF TaskTypes
  <2>2. CASE AtWork(t)
    <3>1. stage[t] \in {"awaiting", "interrupted"} /\ pc[t] # "done"
      BY <1>1, <2>2 DEF AtWork, Staged, TaskTypes, Stages
    <3>2. Staged(t)' /\ Halted(t)'
      BY <1>1, <1>2, <1>3, <2>1, <2>2, <3>1, CancelFacts DEF Staged, Halted
    <3>3. Called(t)'
      BY <1>1, <1>2, <1>3, <2>1, <2>2, <3>1, CancelFacts DEF Called
    <3>4. Reported(t)'
      BY <1>1, <1>3, <2>1, <3>1, ResultAssumption DEF Reported, HasResult, Delivered, Called
    <3> QED
      BY <3>2, <3>3, <3>4 DEF TaskFacts
  <2>3. CASE ~ AtWork(t)
    BY <1>1, <1>2, <1>3, <2>1, <2>3
    DEF TaskFacts, Staged, Called, Reported, Halted, HasResult, vars
  <2> QED
    BY <2>2, <2>3
<1> QED
  BY <1>4, <1>5, <1>6 DEF TInv

LEMMA AnswerCancelInv == ASSUME TInv, NEW t \in Calls, AnswerCancel(t) PROVE TInv'
<1>1. /\ IInv /\ TaskTypes
      /\ Staged(t) /\ Called(t) /\ Reported(t) /\ Halted(t)
  BY DEF TInv, TaskFacts
<1> USE DEF AnswerCancel, Emit, Events, Final
<1>2. IInv' /\ TaskTypes'
  BY <1>1, NextInv DEF TaskTypes
<1>3. ASSUME NEW d \in Calls, d # t PROVE TaskFacts(d)'
  BY <1>1, <1>3, OtherTask DEF TaskTypes, vars
<1>4. TaskFacts(t)'
  BY <1>1 DEF TaskTypes, TaskFacts, Staged, Called, Reported, Halted, HasResult, vars
<1> QED
  BY <1>2, <1>3, <1>4 DEF TInv

LEMMA InterruptInv == ASSUME TInv, NEW t \in Calls, Interrupt(t) PROVE TInv'
<1>1. /\ IInv /\ TaskTypes
      /\ Staged(t) /\ Called(t) /\ Reported(t) /\ Halted(t)
  BY DEF TInv, TaskFacts
<1>2. /\ asked[t] = "answered"
      /\ UNCHANGED <<active, asked, stopped, emitted>>
      /\ [Next]_vars
      /\ Cancel(t) \/ UNCHANGED vars
  BY StepIsNext DEF Interrupt
<1>3. stage' = [stage EXCEPT ![t] = "done"] \/ stage' = [stage EXCEPT ![t] = "interrupted"]
  BY DEF Interrupt, Go
<1>4. IInv' /\ TaskTypes'
  BY <1>1, <1>2, <1>3, NextInv DEF TaskTypes, Stages
<1>5. ASSUME NEW d \in Calls, d # t PROVE TaskFacts(d)'
  <2>1. pc'[d] = pc[d] /\ awaited'[d] = awaited[d] /\ outcome'[d] = outcome[d]
    BY <1>1, <1>2, <1>5, StepFrame DEF CallFrame, vars
  <2> QED
    BY <1>1, <1>2, <1>3, <1>5, <2>1, OtherTask DEF TaskTypes
<1>6. TaskFacts(t)'
  <2>1. CASE stage[t] = "starting"
    BY <1>1, <1>2, <2>1
    DEF Interrupt, Go, TaskTypes, TaskFacts, Staged, Called, Reported, Halted, HasResult, vars
  <2>2. CASE stage[t] \in {"awaiting", "publishing"} /\ ~ AtWork(t)
    BY <1>1, <1>2, <2>2
    DEF Interrupt, Go, AtWork, TaskTypes, TaskFacts, Staged, Called, Reported, Halted,
        HasResult, vars
  <2>3. CASE stage[t] \in {"awaiting", "publishing"} /\ AtWork(t)
    <3>1. Cancel(t) /\ pc[t] # "done" /\ stage'[t] = "interrupted" /\ stage[t] = "awaiting"
      BY <1>1, <2>3 DEF Interrupt, AtWork, Go, TaskTypes, Staged
    <3>2. Staged(t)' /\ Halted(t)'
      BY <1>1, <1>2, <2>3, <3>1, CancelFacts DEF Staged, Halted
    <3>3. Called(t)'
      BY <1>1, <1>2, <3>1, CancelFacts DEF Called
    <3>4. Reported(t)'
      BY <1>1, <1>2, <3>1, ResultAssumption DEF Reported, HasResult, Delivered, Called
    <3> QED
      BY <3>2, <3>3, <3>4 DEF TaskFacts
  <2> QED
    BY <2>1, <2>2, <2>3 DEF Interrupt
<1> QED
  BY <1>4, <1>5, <1>6 DEF TInv

-----------------------------------------------------------------------------
LEMMA TaskInitInv == TaskInit => TInv
<1> SUFFICES ASSUME TaskInit PROVE TInv
  OBVIOUS
<1>1. IInv
  BY InitInv DEF TaskInit
<1>2. TaskTypes
  BY DEF TaskInit, TaskTypes, Stages
<1>3. ASSUME NEW t \in Calls PROVE TaskFacts(t)
  BY ResultAssumption
  DEF TaskInit, Init, TaskFacts, Staged, Called, Reported, Halted, HasResult
<1> QED
  BY <1>1, <1>2, <1>3 DEF TInv

LEMMA TaskNextInv == TInv /\ [TaskNext]_allVars => TInv'
<1> SUFFICES ASSUME TInv, [TaskNext]_allVars PROVE TInv'
  OBVIOUS
<1>1. ASSUME NEW t \in Calls, Execute(t) \/ Run(t) PROVE TInv'
  BY <1>1, RunInv
<1>2. ASSUME NEW t \in Calls, WorkerSteps(t) PROVE TInv'
  BY <1>2, WorkerInv
<1>3. ASSUME NEW t \in Calls, AskToCancel(t) \/ AnswerCancel(t) \/ Interrupt(t) PROVE TInv'
  BY <1>3, AskInv, AnswerCancelInv, InterruptInv
<1>4. CASE Environment
  BY <1>4, EnvironmentInv
<1>5. CASE UNCHANGED allVars
  <2>1. IInv' /\ TaskTypes'
    BY <1>5, NextInv DEF allVars, taskVars, vars, TInv, TaskTypes
  <2>2. ASSUME NEW d \in Calls PROVE TaskFacts(d)'
    BY <1>5, OtherTask DEF allVars, taskVars, vars
  <2> QED
    BY <2>1, <2>2 DEF TInv
<1> QED
  BY <1>1, <1>2, <1>3, <1>4, <1>5 DEF TaskNext

(* The invariant holds of every behaviour of the tasks. *)
THEOREM TaskInvariance == TaskSpec => []TInv
BY TaskInitInv, TaskNextInv, PTL DEF TaskSpec

(* Every variable has its type, those of the calls included. *)
THEOREM TasksTyped == TaskSpec => []TaskTypeOK
<1>1. TInv => TaskTypeOK
  BY DEF TInv, IInv, TaskTypes, TaskTypeOK
<1> QED
  BY <1>1, TaskInvariance, PTL

(* No call is at work that no execution waits for or cancel() cannot find.  *)
THEOREM NoOrphans == TaskSpec => []CallsHaveOwners
<1>1. TInv => CallsHaveOwners
  BY DEF TInv, TaskFacts, Staged, TaskTypes, Stages, CallsHaveOwners, Active
<1> QED
  BY <1>1, TaskInvariance, PTL

(* What a task reports is what became of its call. *)
THEOREM TrueReports == TaskSpec => []ReportsAreTrue
<1>1. TInv => ReportsAreTrue
  BY DEF TInv, TaskFacts, Reported, Called, ReportsAreTrue
<1> QED
  BY <1>1, TaskInvariance, PTL

LEMMA StoppedEmits ==
    ASSUME TInv, [TaskNext]_allVars, NEW t \in stopped
    PROVE  emitted'[t] \subseteq emitted[t] \cup {"CANCELED"}
<1>1. /\ t \in Calls /\ TaskTypes
      /\ stage[t] \in {"awaiting", "interrupted", "closing", "done"}
      /\ Returned(t) => outcome[t] = "cancelled"
  BY DEF TInv, TaskTypes, TaskFacts, Halted, Returned
<1>2. "cancelled" \notin Delivered
  BY ResultAssumption DEF Delivered
<1>3. ASSUME NEW d \in Calls, Execute(d) \/ Run(d)
      PROVE  emitted'[t] \subseteq emitted[t] \cup {"CANCELED"}
  BY <1>1, <1>2, <1>3
  DEF Execute, Run, RequireInput, RefuseCommand, StartWorker, PublishArtifact, Conclude,
      ReportError, ReportCanceled, Finish, Emit, HasResult, TaskTypes
<1>4. ASSUME NEW d \in Calls, AskToCancel(d) \/ AnswerCancel(d) \/ Interrupt(d)
      PROVE  emitted'[t] \subseteq emitted[t] \cup {"CANCELED"}
  BY <1>1, <1>4 DEF AskToCancel, AnswerCancel, Interrupt, Emit, TaskTypes
<1>5. ASSUME (\E d \in Calls : WorkerSteps(d)) \/ Environment \/ UNCHANGED allVars
      PROVE  emitted' = emitted
  BY <1>5 DEF WorkerSteps, Environment, allVars, taskVars
<1> QED
  BY <1>3, <1>4, <1>5 DEF TaskNext

(* A task whose worker cancel() found reports nothing but the cancellation. *)
THEOREM StopsForGood == TaskSpec => StoppedMeansStopped
<1>1. TInv /\ [TaskNext]_allVars =>
        [\A t \in stopped : emitted'[t] \subseteq emitted[t] \cup {"CANCELED"}]_allVars
  BY StoppedEmits
<1> QED
  BY <1>1, TaskInvariance, PTL DEF TaskSpec, StoppedMeansStopped

-----------------------------------------------------------------------------
(* The tasks drive the calls as WebhookCallbacks allows. *)

LEMMA TaskStepIsCallStep == [TaskNext]_allVars => [Next]_vars
<1>1. ASSUME NEW t \in Calls, Execute(t) \/ Run(t) PROVE UNCHANGED vars
  BY <1>1 DEF Execute, Run, RequireInput, RefuseCommand, StartWorker, PublishArtifact, Conclude,
     ReportError, ReportCanceled, Finish
<1>2. ASSUME NEW t \in Calls, WorkerSteps(t) PROVE Next
  BY <1>2, StepIsNext DEF WorkerSteps, WorkerStarts, CallStep
<1>3. ASSUME NEW t \in Calls, AskToCancel(t) \/ AnswerCancel(t) \/ Interrupt(t)
      PROVE  [Next]_vars
  BY <1>3, StepIsNext DEF AskToCancel, AnswerCancel, Interrupt
<1>4. Environment => Next
  BY DEF Environment, Next
<1>5. UNCHANGED allVars => UNCHANGED vars
  BY DEF allVars, vars
<1> QED
  BY <1>1, <1>2, <1>3, <1>4, <1>5 DEF TaskNext

(* Whatever the tasks of the executor do, their calls behave as those of    *)
(* WebhookCallbacks, whose safety theorems hold of them.                    *)
THEOREM TasksMakeCalls == TaskSpec => Init /\ [][Next]_vars
<1>1. TaskInit => Init
  BY DEF TaskInit
<1> QED
  BY <1>1, TaskStepIsCallStep, PTL DEF TaskSpec

(* So no task, however it is cancelled or interrupted, leaves its key in    *)
(* the registry or reports a result of another command.                     *)
THEOREM TasksKeepCallsSafe == TaskSpec => [](NoLeak /\ ResultsBelong)
<1>1. TInv => NoLeak /\ ResultsBelong
  BY DEF TInv, IInv
<1> QED
  BY <1>1, TaskInvariance, PTL

-----------------------------------------------------------------------------
(* Why a task reports a cancellation nobody asked it for. *)

(* A task that was asked to cancel, or ran into its timeout, cancels the   *)
(* future it awaits.                                                       *)
CancelsFuture(d) == asked[d] # "no" \/ pc[d] = "expired" \/ outcome[d] = "timeout"

Canceller(c, d) == awaited[d] = c /\ pc[d] # "idle" /\ CancelsFuture(d)

FutureExplained(c) == future[c] = "cancelled" => closed \/ \E d \in Calls : Canceller(c, d)

LEMMA AskedStays ==
    ASSUME TInv, [TaskNext]_allVars, NEW d \in Calls, asked[d] # "no"
    PROVE  asked'[d] # "no"
<1>1. ASSUME NEW t \in Calls, AskToCancel(t) \/ AnswerCancel(t) PROVE asked'[d] # "no"
  BY <1>1 DEF AskToCancel, AnswerCancel, TInv, TaskTypes
<1>2. ASSUME NEW t \in Calls, Execute(t) \/ Run(t) \/ WorkerSteps(t) \/ Interrupt(t)
      PROVE  asked' = asked
  BY <1>2 DEF Execute, Run, RequireInput, RefuseCommand, StartWorker, PublishArtifact, Conclude,
     ReportError, ReportCanceled, Finish, WorkerSteps, Interrupt, taskVars
<1>3. Environment \/ UNCHANGED allVars => asked' = asked
  BY DEF Environment, allVars, taskVars
<1> QED
  BY <1>1, <1>2, <1>3 DEF TaskNext

(* A step of the tasks is no step of the calls, or one of these. *)
LEMMA CallsMove ==
    ASSUME TInv, [TaskNext]_allVars
    PROVE  \/ UNCHANGED vars
           \/ \E t \in Calls : CallStep(t) \/ (Cancel(t) /\ asked'[t] # "no")
           \/ Close
           \/ \E k \in Keys, result \in Results : Callback(k, result)
<1>1. ASSUME NEW t \in Calls, Execute(t) \/ Run(t) PROVE UNCHANGED vars
  BY <1>1 DEF Execute, Run, RequireInput, RefuseCommand, StartWorker, PublishArtifact, Conclude,
     ReportError, ReportCanceled, Finish
<1>2. ASSUME NEW t \in Calls, WorkerSteps(t) PROVE CallStep(t)
  BY <1>2 DEF WorkerSteps, WorkerStarts, CallStep
<1>3. ASSUME NEW t \in Calls, AskToCancel(t)
      PROVE  UNCHANGED vars \/ (Cancel(t) /\ asked'[t] # "no")
  BY <1>3 DEF AskToCancel, TInv, TaskTypes
<1>4. ASSUME NEW t \in Calls, AnswerCancel(t) \/ Interrupt(t)
      PROVE  UNCHANGED vars \/ (Cancel(t) /\ asked'[t] # "no")
  BY <1>4 DEF AnswerCancel, Interrupt
<1>5. UNCHANGED allVars => UNCHANGED vars
  BY DEF allVars, vars
<1> QED
  BY <1>1, <1>2, <1>3, <1>4, <1>5 DEF TaskNext, Environment

LEMMA CancellerStays ==
    ASSUME TInv, [TaskNext]_allVars, NEW c \in Calls, NEW d \in Calls, Canceller(c, d)
    PROVE  Canceller(c, d)'
<1> USE DEF Canceller, CancelsFuture
<1>0. /\ IInv /\ TypeOK /\ [Next]_vars /\ Called(d)
  BY TaskStepIsCallStep DEF TInv, TaskFacts, IInv
<1>1. CASE pc[d] = "done"
  BY <1>0, <1>1, DoneStays, AskedStays
<1>2. CASE UNCHANGED <<pc, awaited, outcome>>
  BY <1>2, AskedStays
<1>3. ASSUME pc[d] # "done", NEW t \in Calls, CallStep(t) \/ (Cancel(t) /\ asked'[t] # "no")
      PROVE  Canceller(c, d)'
  <2>1. CASE t # d
    BY <1>0, <1>3, <2>1, StepFrame, AskedStays DEF CallFrame
  <2>2. CASE Cancel(d) /\ asked'[d] # "no"
    BY <1>0, <2>2 DEF Cancel, TypeOK
  <2>3. CASE CallStep(d)
    <3>1. pc[d] # "idle" /\ outcome[d] # "timeout"
      BY <1>0, <1>3 DEF Called
    <3>2. awaited'[d] = awaited[d] /\ pc'[d] # "idle"
      BY <1>0, <2>3, <3>1 DEF CallStep, Register, Join, Conflict, PostReturns, PostAcknowledged,
         PostReturnsResult, PostUnprocessable, PostFails, Wake, Expire, Leave, End, TypeOK
    <3>3. pc[d] = "expired" => outcome'[d] = "timeout"
      BY <1>0, <2>3 DEF CallStep, Register, Join, Conflict, PostReturns, PostAcknowledged,
         PostReturnsResult, PostUnprocessable, PostFails, Wake, Expire, Leave, End, TypeOK
    <3> QED
      BY <3>1, <3>2, <3>3, AskedStays
  <2> QED
    BY <1>3, <2>1, <2>2, <2>3
<1> QED
  BY <1>1, <1>2, <1>3, CallsMove DEF Close, Callback, vars

LEMMA FutureExplainedStep ==
    ASSUME TInv, [TaskNext]_allVars, NEW c \in Calls, FutureExplained(c)
    PROVE  FutureExplained(c)'
<1> SUFFICES ASSUME future'[c] = "cancelled", ~ closed'
             PROVE  \E d \in Calls : Canceller(c, d)'
  BY DEF FutureExplained
<1>0. /\ IInv /\ TypeOK /\ [Next]_vars /\ "cancelled" \notin Delivered
  BY TaskStepIsCallStep, ResultAssumption DEF TInv, IInv, Delivered
<1>1. CASE future[c] = "cancelled"
  <2>1. ~ closed
    BY <1>0 DEF Next, vars, Register, Join, Conflict, PostReturns, PostAcknowledged,
       PostReturnsResult, PostUnprocessable, PostFails, Wake, Expire, Cancel, Leave,
       Callback, Close
  <2> QED
    BY <1>1, <2>1, CancellerStays DEF FutureExplained
<1>2. CASE future[c] # "cancelled"
  <2>1. ASSUME NEW t \in Calls, CallStep(t) \/ (Cancel(t) /\ asked'[t] # "no")
        PROVE  Canceller(c, t)'
    <3>1. ASSUME NEW o \in Calls, NEW value, future' = Resolve(o, value)
          PROVE  o = c /\ value = "cancelled"
      BY <1>0, <1>2, <3>1, ResolveFacts
    <3>2. CASE Register(t) \/ Join(t) \/ Conflict(t) \/ Wake(t) \/ Leave(t)
      BY <1>0, <1>2, <3>2 DEF Register, Join, Conflict, Wake, Leave, TypeOK
    <3>3. CASE PostReturns(t)
      BY <1>0, <1>2, <3>1, <3>3 DEF PostReturns, PostAcknowledged, PostReturnsResult,
         PostUnprocessable, PostFails, Delivered
    <3>4. CASE Expire(t)
      <4>1. awaited[t] \in Calls
        BY <1>0, <3>4 DEF Expire, IInv, FuturesKnown, Active
      <4> QED
        BY <1>0, <3>1, <3>4, <4>1 DEF Expire, Canceller, CancelsFuture, TypeOK
    <3>5. CASE Cancel(t) /\ asked'[t] # "no"
      <4>1. pc[t] = "waiting" => awaited[t] \in Calls
        BY <1>0 DEF IInv, FuturesKnown, Active
      <4> QED
        BY <1>0, <1>2, <3>1, <3>5, <4>1 DEF Cancel, Canceller, CancelsFuture, TypeOK
    <3> QED
      BY <2>1, <3>2, <3>3, <3>4, <3>5 DEF CallStep
  <2>2. ASSUME NEW k \in Keys, NEW result \in Results, Callback(k, result) PROVE FALSE
    <3>1. registry[k] \in Calls
      BY <1>0, <2>2 DEF Callback, TypeOK
    <3> QED
      BY <1>0, <1>2, <2>2, <3>1, ResolveFacts DEF Callback, Delivered
  <2>3. ~ Close
    BY DEF Close
  <2> QED
    BY <1>2, <2>1, <2>2, <2>3, CallsMove DEF vars
<1> QED
  BY <1>1, <1>2

(* A task that nobody asked to cancel reports CANCELED only when the        *)
(* service shuts down, or with another task it shared a flow with, which    *)
(* was asked to cancel or ran into its timeout: what one task does to its   *)
(* flow is the only way to a task that sent the same command.               *)
CancellationExplained ==
    \A t \in Calls :
        "CANCELED" \in emitted[t] =>
            \/ asked[t] # "no"
            \/ closed
            \/ \E d \in Calls \ {t} : awaited[d] = awaited[t] /\ CancelsFuture(d)

THEOREM CanceledByOthers == TaskSpec => []CancellationExplained
<1> DEFINE AllExplained == \A c \in Calls : FutureExplained(c)
<1>1. TaskInit => AllExplained
  BY DEF TaskInit, Init, FutureExplained
<1>2. TInv /\ AllExplained /\ [TaskNext]_allVars => AllExplained'
  BY FutureExplainedStep
<1>3. TInv /\ AllExplained => CancellationExplained
  <2> SUFFICES ASSUME TInv, AllExplained, NEW t \in Calls, "CANCELED" \in emitted[t],
                      asked[t] = "no", ~ closed
               PROVE  \E d \in Calls \ {t} : awaited[d] = awaited[t] /\ CancelsFuture(d)
    BY DEF CancellationExplained
  <2>1. /\ outcome[t] = "cancelled" /\ pc[t] = "done"
        /\ awaited[t] \in Calls /\ future[awaited[t]] = "cancelled"
    BY DEF TInv, TaskFacts, Called, Reported
  <2>2. PICK d \in Calls : awaited[d] = awaited[t] /\ CancelsFuture(d)
    BY <2>1 DEF FutureExplained, Canceller
  <2>3. d # t
    BY <2>1, <2>2 DEF CancelsFuture
  <2> QED
    BY <2>2, <2>3
<1> QED
  BY <1>1, <1>2, <1>3, TaskInvariance, PTL DEF TaskSpec

-----------------------------------------------------------------------------
(* One verdict. *)

Verdicts == {"COMPLETED", "FAILED"}

(* A task is never told both to have completed and to have failed, and it    *)
(* is told to be cancelled beside one of them only if the answer of cancel() *)
(* came too late or was overtaken: execute() alone never reports two ends,   *)
(* through its result, an error, a cancelled worker and its own interruption. *)
OneVerdict ==
    \A t \in Calls :
        /\ ~ (Verdicts \subseteq emitted[t])
        /\ "CANCELED" \in emitted[t] /\ emitted[t] \cap Verdicts # {} =>
              asked[t] = "answered"

(* What execute() has reported before it closes, and after. *)
VerdictFacts(t) ==
    /\ stage[t] \notin {"closing", "done"} =>
          /\ emitted[t] \cap Verdicts = {}
          /\ "CANCELED" \in emitted[t] => asked[t] = "answered"
    /\ ~ (Verdicts \subseteq emitted[t])
    /\ "CANCELED" \in emitted[t] /\ emitted[t] \cap Verdicts # {} => asked[t] = "answered"

VerdictInv == \A t \in Calls : VerdictFacts(t)

LEMMA VerdictStep == TInv /\ VerdictInv /\ [TaskNext]_allVars => VerdictInv'
<1> SUFFICES ASSUME TInv, VerdictInv, [TaskNext]_allVars, NEW t \in Calls
             PROVE  VerdictFacts(t)'
  BY DEF VerdictInv
<1> USE DEF VerdictFacts, Verdicts
<1>0. TaskTypes /\ VerdictFacts(t)
  BY DEF TInv, VerdictInv
<1>1. ASSUME NEW d \in Calls, Execute(d) \/ Finish(d) PROVE VerdictFacts(t)'
  BY <1>0, <1>1 DEF Execute, Finish, Go, TaskTypes
<1>2. ASSUME NEW d \in Calls, RequireInput(d) \/ RefuseCommand(d) \/ StartWorker(d)
      PROVE  VerdictFacts(t)'
  BY <1>0, <1>2 DEF RequireInput, RefuseCommand, StartWorker, Go, Emit, TaskTypes
<1>3. ASSUME NEW d \in Calls, PublishArtifact(d) \/ Conclude(d) \/ ReportError(d)
      PROVE  VerdictFacts(t)'
  BY <1>0, <1>3 DEF PublishArtifact, Conclude, ReportError, Returned, Go, Emit, TaskTypes
<1>4. ASSUME NEW d \in Calls, ReportCanceled(d) PROVE VerdictFacts(t)'
  BY <1>0, <1>4 DEF ReportCanceled, Returned, Go, Emit, TaskTypes
<1>5. ASSUME NEW d \in Calls, AskToCancel(d) \/ AnswerCancel(d) \/ Interrupt(d)
      PROVE  VerdictFacts(t)'
  BY <1>0, <1>5 DEF AskToCancel, AnswerCancel, Interrupt, Go, Emit, TaskTypes
<1>6. (\E d \in Calls : WorkerSteps(d)) \/ Environment \/ UNCHANGED allVars =>
        UNCHANGED taskVars
  BY DEF WorkerSteps, Environment, allVars, taskVars
<1>7. UNCHANGED taskVars => VerdictFacts(t)'
  BY <1>0 DEF taskVars
<1> QED
  BY <1>1, <1>2, <1>3, <1>4, <1>5, <1>6, <1>7 DEF TaskNext, Run

(* No task completes and fails, and two ends of one task are the race of    *)
(* its end with cancel().                                                   *)
THEOREM VerdictsExclude == TaskSpec => []OneVerdict
<1>1. TaskInit => VerdictInv
  BY DEF TaskInit, VerdictInv, VerdictFacts, Verdicts
<1>2. VerdictInv => OneVerdict
  BY DEF VerdictInv, VerdictFacts, OneVerdict
<1> QED
  BY <1>1, <1>2, VerdictStep, TaskInvariance, PTL DEF TaskSpec

-----------------------------------------------------------------------------
(* Every step takes a task on. *)

StagePlace(at) ==
    CASE at = "none" -> 0
      [] at = "starting" -> 1
      [] at \in {"paused", "awaiting"} -> 2
      [] at = "publishing" -> 3
      [] at = "interrupted" -> 4
      [] at = "closing" -> 5
      [] at = "done" -> 6

CallPlace(at) ==
    CASE at = "idle" -> 0
      [] at = "posting" -> 1
      [] at = "waiting" -> 2
      [] at = "expired" -> 3
      [] at = "stopping" -> 4
      [] at = "done" -> 5

AskPlace(at) ==
    CASE at = "no" -> 0
      [] at = "asked" -> 1
      [] at = "answered" -> 2

(* How far a task has come: execute(), its worker's call and its cancel(). *)
Place(t) == StagePlace(stage[t]) + CallPlace(pc[t]) + AskPlace(asked[t])

Advances(t) == Place(t) < Place(t)'

Rests(t) == stage'[t] = stage[t] /\ pc'[t] = pc[t] /\ asked'[t] = asked[t]

NewTurn(t) ==
    /\ stage[t] = "paused" /\ stage'[t] = "starting"
    /\ pc'[t] = pc[t] /\ asked'[t] = asked[t]

(* A future takes its first result, or the client is closed. *)
FromOutside ==
    \/ ~ closed /\ closed'
    \/ \E c \in Calls : Pending(c) /\ future'[c] \in Results

TakesOneOn ==
    \/ \E t \in Calls : (Advances(t) \/ NewTurn(t)) /\ \A d \in Calls \ {t} : Rests(d)
    \/ FromOutside /\ \A t \in Calls : Rests(t)

(* Every step takes one task on and leaves the others where they are, except *)
(* the client's answer to a question, which begins a new turn, and what the  *)
(* surroundings do, a first result for a future or the shutdown, which moves *)
(* no task.  So between two questions a task takes at most 13 steps, however *)
(* the ends of its call, its timers and cancellations come together: the     *)
(* safety half of TasksEnd.                                                  *)
TasksAdvance == [][TakesOneOn]_allVars

LEMMA Places ==
    /\ StagePlace("none") = 0 /\ StagePlace("starting") = 1 /\ StagePlace("paused") = 2
    /\ StagePlace("awaiting") = 2 /\ StagePlace("publishing") = 3
    /\ StagePlace("interrupted") = 4 /\ StagePlace("closing") = 5 /\ StagePlace("done") = 6
    /\ CallPlace("idle") = 0 /\ CallPlace("posting") = 1 /\ CallPlace("waiting") = 2
    /\ CallPlace("expired") = 3 /\ CallPlace("stopping") = 4 /\ CallPlace("done") = 5
    /\ AskPlace("no") = 0 /\ AskPlace("asked") = 1 /\ AskPlace("answered") = 2
BY DEF StagePlace, CallPlace, AskPlace

LEMMA PlacesTyped ==
    ASSUME TInv, NEW t \in Calls
    PROVE  StagePlace(stage[t]) \in Nat /\ CallPlace(pc[t]) \in Nat /\ AskPlace(asked[t]) \in Nat
BY Places DEF TInv, TaskTypes, IInv, TypeOK, Stages

(* A task advances by any of its three parts, if the others do not go back. *)
LEMMA PartAdvances ==
    ASSUME TInv, NEW t \in Calls,
           StagePlace(stage'[t]) \in Nat /\ CallPlace(pc'[t]) \in Nat /\ AskPlace(asked'[t]) \in Nat,
           StagePlace(stage[t]) <= StagePlace(stage'[t]),
           CallPlace(pc[t]) <= CallPlace(pc'[t]),
           AskPlace(asked[t]) <= AskPlace(asked'[t]),
           \/ StagePlace(stage[t]) < StagePlace(stage'[t])
           \/ CallPlace(pc[t]) < CallPlace(pc'[t])
           \/ AskPlace(asked[t]) < AskPlace(asked'[t])
    PROVE  Advances(t)
BY PlacesTyped DEF Advances, Place

LEMMA CallStepAdvances ==
    ASSUME IInv, NEW t \in Calls, CallStep(t)
    PROVE  CallPlace(pc'[t]) \in Nat /\ CallPlace(pc[t]) < CallPlace(pc'[t])
BY Places DEF IInv, TypeOK, CallStep, Register, Join, Conflict, PostReturns,
   PostAcknowledged, PostReturnsResult, PostUnprocessable, PostFails, Wake, Expire, Leave, End

LEMMA CancelAdvances ==
    ASSUME IInv, NEW t \in Calls, Cancel(t)
    PROVE  CallPlace(pc'[t]) \in Nat /\ CallPlace(pc[t]) <= CallPlace(pc'[t])
BY Places DEF IInv, TypeOK, Cancel

LEMMA ExecutionAdvances ==
    ASSUME TInv, NEW t \in Calls, Run(t) \/ (Execute(t) /\ stage[t] = "none")
    PROVE  Advances(t) /\ \A d \in Calls \ {t} : Rests(d)
<1> USE DEF Go
<1>1. UNCHANGED <<pc, asked>>
  BY DEF Run, Execute, RequireInput, RefuseCommand, StartWorker, PublishArtifact,
     Conclude, ReportError, ReportCanceled, Finish, vars
<1>2. /\ StagePlace(stage'[t]) \in Nat /\ StagePlace(stage[t]) < StagePlace(stage'[t])
      /\ \A d \in Calls \ {t} : stage'[d] = stage[d]
  <2>1. stage \in [Calls -> Stages]
    BY DEF TInv, TaskTypes
  <2>2. CASE Execute(t) /\ stage[t] = "none"
    BY <2>1, <2>2, Places DEF Execute
  <2>3. CASE RequireInput(t) \/ RefuseCommand(t) \/ StartWorker(t)
    BY <2>1, <2>3, Places DEF RequireInput, RefuseCommand, StartWorker
  <2>4. CASE PublishArtifact(t) \/ Conclude(t) \/ ReportError(t)
    BY <2>1, <2>4, Places DEF PublishArtifact, Conclude, ReportError, Returned
  <2>5. CASE ReportCanceled(t) \/ Finish(t)
    BY <2>1, <2>5, Places DEF ReportCanceled, Finish, Returned
  <2> QED
    BY <2>2, <2>3, <2>4, <2>5 DEF Run
<1>3. Advances(t)
  BY <1>1, <1>2, PlacesTyped, PartAdvances
<1> QED
  BY <1>1, <1>2, <1>3 DEF Rests

LEMMA TaskStepAdvances == TInv /\ [TaskNext]_allVars => [TakesOneOn]_allVars
<1> SUFFICES ASSUME TInv, TaskNext, ~ UNCHANGED allVars PROVE TakesOneOn
  OBVIOUS
<1>0. IInv /\ TaskTypes /\ \A t \in Calls : CallPlace(pc[t]) \in Nat /\ StagePlace(stage[t]) \in Nat
                                           /\ AskPlace(asked[t]) \in Nat
  BY PlacesTyped DEF TInv
<1>1. ASSUME NEW t \in Calls, Run(t) \/ Execute(t)
      PROVE  (Advances(t) \/ NewTurn(t)) /\ \A d \in Calls \ {t} : Rests(d)
  <2>1. CASE Run(t) \/ stage[t] = "none"
    BY <1>1, <2>1, ExecutionAdvances
  <2>2. CASE Execute(t) /\ stage[t] = "paused"
    BY <1>0, <2>2 DEF Execute, Go, vars, Rests, TaskTypes, NewTurn
  <2> QED
    BY <1>1, <2>1, <2>2 DEF Execute
<1>2. ASSUME NEW t \in Calls, WorkerSteps(t)
      PROVE  Advances(t) /\ \A d \in Calls \ {t} : Rests(d)
  <2>1. CallStep(t) /\ UNCHANGED <<stage, asked>>
    BY <1>2 DEF WorkerSteps, WorkerStarts, CallStep, taskVars
  <2>2. CallFrame(t)
    BY <1>0, <2>1, StepFrame
  <2>3. Advances(t)
    BY <1>0, <2>1, CallStepAdvances, PartAdvances
  <2> QED
    BY <2>1, <2>2, <2>3 DEF CallFrame, Rests
<1>3. ASSUME NEW t \in Calls, AskToCancel(t) \/ AnswerCancel(t)
      PROVE  Advances(t) /\ \A d \in Calls \ {t} : Rests(d)
  <2>1. Cancel(t) \/ UNCHANGED vars
    BY <1>3 DEF AskToCancel, AnswerCancel
  <2>2. /\ CallPlace(pc'[t]) \in Nat /\ CallPlace(pc[t]) <= CallPlace(pc'[t])
        /\ \A d \in Calls \ {t} : pc'[d] = pc[d]
    BY <1>0, <2>1, CancelAdvances, StepFrame DEF CallFrame, vars
  <2>3. /\ UNCHANGED stage
        /\ AskPlace(asked'[t]) \in Nat /\ AskPlace(asked[t]) < AskPlace(asked'[t])
        /\ \A d \in Calls \ {t} : asked'[d] = asked[d]
    BY <1>0, <1>3, Places DEF AskToCancel, AnswerCancel, TaskTypes
  <2> QED
    BY <1>0, <2>2, <2>3, PartAdvances DEF Rests
<1>4. ASSUME NEW t \in Calls, Interrupt(t)
      PROVE  Advances(t) /\ \A d \in Calls \ {t} : Rests(d)
  <2>1. Cancel(t) \/ UNCHANGED vars
    BY <1>4 DEF Interrupt
  <2>2. /\ CallPlace(pc'[t]) \in Nat /\ CallPlace(pc[t]) <= CallPlace(pc'[t])
        /\ \A d \in Calls \ {t} : pc'[d] = pc[d]
    BY <1>0, <2>1, CancelAdvances, StepFrame DEF CallFrame, vars
  <2>3. /\ UNCHANGED asked
        /\ StagePlace(stage'[t]) \in Nat /\ StagePlace(stage[t]) < StagePlace(stage'[t])
        /\ \A d \in Calls \ {t} : stage'[d] = stage[d]
    BY <1>0, <1>4, Places DEF Interrupt, Go, TaskTypes
  <2> QED
    BY <1>0, <2>2, <2>3, PartAdvances DEF Rests
<1>5. ASSUME Environment
      PROVE  FromOutside /\ \A t \in Calls : Rests(t)
  <2>1. \A t \in Calls : Rests(t)
    BY <1>5 DEF Environment, Close, Callback, taskVars, Rests
  <2>2. CASE Close
    BY <2>1, <2>2 DEF Close, FromOutside
  <2>3. ASSUME NEW k \in Keys, NEW result \in Results, Callback(k, result), UNCHANGED taskVars
        PROVE  Pending(registry[k]) /\ future'[registry[k]] \in Results
    <3>1. registry[k] \in Calls /\ future \in [Calls -> Delivered \cup {"absent", "pending", "cancelled"}]
      BY <1>0, <2>3 DEF Callback, IInv, TypeOK
    <3>2. Pending(registry[k])
      BY <2>3, <3>1 DEF Callback, Resolve, Pending, allVars
    <3> QED
      BY <2>3, <3>1, <3>2 DEF Callback, Resolve
  <2>4. ASSUME NEW k \in Keys, NEW result \in Results, Callback(k, result)
        PROVE  registry[k] \in Calls
    BY <1>0, <2>4 DEF Callback, IInv, TypeOK
  <2> QED
    BY <1>5, <2>1, <2>2, <2>3, <2>4 DEF Environment, FromOutside
<1> QED
  BY <1>1, <1>2, <1>3, <1>4, <1>5 DEF TaskNext, TakesOneOn

(* Every step of the executor takes one task on, or is a new turn of one,   *)
(* or moves none: so tasks end if they go on at all.                        *)
THEOREM NoTaskGoesBack == TaskSpec => TasksAdvance
<1> QED
  BY TaskStepAdvances, TaskInvariance, PTL DEF TaskSpec, TasksAdvance
=============================================================================
