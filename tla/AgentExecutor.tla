--------------------------- MODULE AgentExecutor ---------------------------
(***************************************************************************)
(* The A2A tasks of an agent (a2a/app/executor.py) over the webhook mode   *)
(* of the Langflow client.  execute() announces a task, starts a worker    *)
(* that makes the call, waits for it and reports how it ended; cancel()    *)
(* stops the worker it finds and reports the cancellation itself.          *)
(*                                                                         *)
(* The call of a task is the call of WebhookCallbacks that bears its name. *)
(* The A2A library runs the turns of one task one after the other; whether *)
(* it also cancels the coroutine of execute() after cancel() returned is   *)
(* its own affair, and both are possible here (Interrupt).                 *)
(***************************************************************************)
EXTENDS WebhookCallbacks

CONSTANT
    Failures    \* the results whose status is FAILED

ASSUME FailuresAssumption == Failures \subseteq Results

VARIABLES
    stage,      \* where the execution of each task is
    active,     \* _active: the tasks whose worker is registered
    asked,      \* where the one cancel() of each task is
    stopped,    \* the tasks of which cancel() found the worker at work
    emitted     \* the events of the current turn of each task

taskVars == <<stage, active, asked, stopped, emitted>>
allVars == <<pc, registry, future, awaited, outcome, closed, taskVars>>

-----------------------------------------------------------------------------
Final == {"COMPLETED", "FAILED", "CANCELED"}
Events == Final \cup {"ARTIFACT", "INPUT_REQUIRED"}

Emit(t, events) == emitted' = [emitted EXCEPT ![t] = @ \cup events]

Go(t, next) == stage' = [stage EXCEPT ![t] = next]

TaskInit ==
    /\ Init
    /\ stage = [t \in Calls |-> "none"]
    /\ active = {}
    /\ asked = [t \in Calls |-> "no"]
    /\ stopped = {}
    /\ emitted = [t \in Calls |-> {}]

(* A message starts a task, or goes on with one that asked for input: the  *)
(* task and TASK_STATE_WORKING are emitted.                                *)
Execute(t) ==
    /\ \/ stage[t] = "none"
       \/ stage[t] = "paused" /\ asked[t] = "no"
    /\ Go(t, "starting")
    /\ emitted' = [emitted EXCEPT ![t] = {}]
    /\ UNCHANGED <<vars, active, asked, stopped>>

(* The command lacks data. *)
RequireInput(t) ==
    /\ stage[t] = "starting"
    /\ Go(t, "paused")
    /\ Emit(t, {"INPUT_REQUIRED"})
    /\ UNCHANGED <<vars, active, asked, stopped>>

(* There is no command in the message, or not one for this agent. *)
RefuseCommand(t) ==
    /\ stage[t] = "starting"
    /\ Go(t, "done")
    /\ Emit(t, {"FAILED"})
    /\ UNCHANGED <<vars, active, asked, stopped>>

(* The command is checked and its worker created and registered at once:   *)
(* nobody holds the lock across an await.                                  *)
StartWorker(t) ==
    /\ stage[t] = "starting"
    /\ Go(t, "awaiting")
    /\ active' = active \cup {t}
    /\ UNCHANGED <<vars, asked, stopped, emitted>>

-----------------------------------------------------------------------------
(* The worker, once it was created, is a call of WebhookCallbacks. *)

WorkerStarts(t) == stage[t] = "awaiting" /\ (Register(t) \/ Join(t) \/ Conflict(t))

WorkerSteps(t) ==
    /\ WorkerStarts(t) \/ PostReturns(t) \/ Wake(t) \/ Expire(t) \/ Leave(t)
    /\ UNCHANGED taskVars

Environment ==
    /\ Close \/ \E k \in Keys, result \in Results : Callback(k, result)
    /\ UNCHANGED taskVars

-----------------------------------------------------------------------------
(* The worker ended, and execute() resumes. *)

Returned(t) == stage[t] = "awaiting" /\ pc[t] = "done"

HasResult(t) == outcome[t] \in Delivered

(* An AgentResult, which may say FAILED: it is published, then judged. *)
PublishArtifact(t) ==
    /\ Returned(t)
    /\ HasResult(t)
    /\ Go(t, "publishing")
    /\ Emit(t, {"ARTIFACT"})
    /\ UNCHANGED <<vars, active, asked, stopped>>

(* Mutant: whatever was published is a completion. *)
ConcludeCompleted(t) ==
    /\ stage[t] = "publishing"
    /\ Go(t, "closing")
    /\ Emit(t, {"COMPLETED"})
    /\ UNCHANGED <<vars, active, asked, stopped>>

Conclude(t) ==
    /\ stage[t] = "publishing"
    /\ Go(t, "closing")
    /\ Emit(t, IF outcome[t] \in Results \ Failures THEN {"COMPLETED"} ELSE {"FAILED"})
    /\ UNCHANGED <<vars, active, asked, stopped>>

(* LangflowInvocationError or any other exception. *)
ReportError(t) ==
    /\ Returned(t)
    /\ outcome[t] \in {"conflict", "failed", "timeout"}
    /\ Go(t, "closing")
    /\ Emit(t, {"FAILED"})
    /\ UNCHANGED <<vars, active, asked, stopped>>

(* CancelledError: of the worker, or of execute() itself. *)
ReportCanceled(t) ==
    /\ \/ Returned(t) /\ outcome[t] = "cancelled"
       \/ stage[t] = "interrupted" /\ pc[t] = "done"
    /\ Go(t, "closing")
    /\ Emit(t, {"CANCELED"})
    /\ UNCHANGED <<vars, active, asked, stopped>>

(* The finally clause. *)
Finish(t) ==
    /\ stage[t] = "closing"
    /\ Go(t, "done")
    /\ active' = active \ {t}
    /\ UNCHANGED <<vars, asked, stopped, emitted>>

-----------------------------------------------------------------------------
(* Cancellation. *)

AtWork(t) == t \in active /\ pc[t] # "done"

(* Mutant: the worker is looked up but not cancelled. *)
AskToCancelOnly(t) ==
    /\ stage[t] # "none" /\ asked[t] = "no"
    /\ asked' = [asked EXCEPT ![t] = "asked"]
    /\ stopped' = IF AtWork(t) THEN stopped \cup {t} ELSE stopped
    /\ UNCHANGED <<vars, stage, active, emitted>>

(* cancel() looks the worker up and cancels it if there is one.  The       *)
(* library calls it of tasks that exist and whose last stored state was    *)
(* not final, which may be behind by now.                                  *)
AskToCancel(t) ==
    /\ stage[t] # "none" /\ asked[t] = "no"
    /\ asked' = [asked EXCEPT ![t] = "asked"]
    /\ IF AtWork(t) THEN Cancel(t) /\ stopped' = stopped \cup {t}
                    ELSE UNCHANGED <<vars, stopped>>
    /\ UNCHANGED <<stage, active, emitted>>

(* Then it emits TASK_STATE_CANCELED, whatever execute() has emitted.      *)
AnswerCancel(t) ==
    /\ asked[t] = "asked"
    /\ asked' = [asked EXCEPT ![t] = "answered"]
    /\ Emit(t, {"CANCELED"})
    /\ UNCHANGED <<vars, stage, active, stopped>>

(* Mutant: the worker is shielded from the cancellation of execute(). *)
InterruptShielded(t) ==
    /\ asked[t] = "answered"
    /\ \/ /\ stage[t] = "starting"
          /\ Go(t, "done")
          /\ UNCHANGED active
       \/ /\ stage[t] \in {"awaiting", "publishing"}
          /\ Go(t, "done")
          /\ active' = active \ {t}
    /\ UNCHANGED <<vars, asked, stopped, emitted>>

(* The library cancels the coroutine of execute().  Before the try block   *)
(* that is its end; a worker it waits for is cancelled with it; a result   *)
(* it was about to use or to conclude with is dropped.                     *)
Interrupt(t) ==
    /\ asked[t] = "answered"
    /\ \/ /\ stage[t] = "starting"
          /\ Go(t, "done")
          /\ UNCHANGED vars
       \/ /\ stage[t] \in {"awaiting", "publishing"}
          /\ Go(t, "interrupted")
          /\ IF AtWork(t) THEN Cancel(t) ELSE UNCHANGED vars
    /\ UNCHANGED <<active, asked, stopped, emitted>>

-----------------------------------------------------------------------------
Run(t) ==
    \/ RequireInput(t)
    \/ RefuseCommand(t)
    \/ StartWorker(t)
    \/ PublishArtifact(t)
    \/ Conclude(t)
    \/ ReportError(t)
    \/ ReportCanceled(t)
    \/ Finish(t)

TaskNext ==
    \/ \E t \in Calls : \/ Execute(t)
                        \/ Run(t)
                        \/ WorkerSteps(t)
                        \/ AskToCancel(t)
                        \/ AnswerCancel(t)
                        \/ Interrupt(t)
    \/ Environment

(* Every coroutine that can run does, HTTP calls and waits have timeouts.  *)
(* No callback need ever come, and nothing is ever cancelled for sure.     *)
TaskFairness ==
    \A t \in Calls : /\ WF_allVars(Run(t))
                     /\ WF_allVars(WorkerStarts(t) /\ UNCHANGED taskVars)
                     /\ WF_allVars(PostReturns(t) /\ UNCHANGED taskVars)
                     /\ WF_allVars(Wake(t) /\ UNCHANGED taskVars)
                     /\ WF_allVars(Expire(t) /\ UNCHANGED taskVars)
                     /\ WF_allVars(Leave(t) /\ UNCHANGED taskVars)

TaskSpec == TaskInit /\ [][TaskNext]_allVars /\ TaskFairness

-----------------------------------------------------------------------------
(* Properties. *)

Stages == {"none", "starting", "paused", "awaiting", "publishing", "interrupted",
           "closing", "done"}

(* Every variable has its type, those of the calls included.                 *)
TaskTypeOK ==
    /\ TypeOK
    /\ stage \in [Calls -> Stages]
    /\ active \in SUBSET Calls
    /\ asked \in [Calls -> {"no", "asked", "answered"}]
    /\ stopped \in SUBSET Calls
    /\ emitted \in [Calls -> SUBSET Events]

(* No call outlives the execution that waits for it, and as long as a call   *)
(* is at work the executor can find it: otherwise a cancelled task would     *)
(* leave a call behind that holds its key and cannot be stopped.             *)
CallsHaveOwners ==
    \A t \in Calls : Active(t) => t \in active /\ stage[t] \in {"awaiting", "interrupted"}

(* What a task says of itself is what became of its call, through shared     *)
(* futures, cancellations and shutdown: COMPLETED needs a result published   *)
(* that is fit and not FAILED, an artifact needs a result, and a cancelled   *)
(* task was asked to cancel, shared a future that was cancelled, or started  *)
(* no call that could end otherwise.                                         *)
ReportsAreTrue ==
    \A t \in Calls :
        /\ "ARTIFACT" \in emitted[t] => HasResult(t)
        /\ "COMPLETED" \in emitted[t] =>
             "ARTIFACT" \in emitted[t] /\ outcome[t] \in Results \ (Failures \cup Unfit)
        /\ "CANCELED" \in emitted[t] /\ asked[t] = "no" =>
             outcome[t] = "cancelled" /\ future[awaited[t]] = "cancelled"

(* Once cancel() has found the worker of a task at work, the task neither    *)
(* publishes nor completes nor fails any more: whatever result, timer or     *)
(* error of the call was on its way is dropped.                              *)
StoppedMeansStopped ==
    [][\A t \in stopped : emitted'[t] \subseteq emitted[t] \cup {"CANCELED"}]_allVars

(* Every execution ends, with a final event or a question to the client,     *)
(* though callbacks may never come, and the future it waits for may belong   *)
(* to another task, that is cancelled, fails or expires.                     *)
TasksEnd ==
    \A t \in Calls :
        stage[t] \notin {"none", "paused", "done"} ~>
            \/ stage[t] = "paused"
            \/ stage[t] = "done" /\ (emitted[t] \cap Final # {})

-----------------------------------------------------------------------------
(* What the documentation says and the code does not do. *)

(* a2a/README.md:562-563: an executor failure is FAILED, a cancellation      *)
(* request sets CANCELED.  A task is cancelled only if that was requested,   *)
(* or the service shuts down.                                                *)
CanceledOnlyIfAsked ==
    \A t \in Calls : "CANCELED" \in emitted[t] => asked[t] # "no" \/ closed
=============================================================================
