----------------------------- MODULE Dispatcher -----------------------------
(***************************************************************************)
(* The dispatcher of the A2A service (a2a/app/dispatcher.py), behind the   *)
(* MCP tool and the REST endpoint.  A dispatch request is one or more      *)
(* calls of agents, in series or in parallel.  They are executed by a      *)
(* background task; the request waits for it for a few seconds and is then *)
(* told to ask again.  A request with the same content finds the task, and *)
(* its outcome, until nobody has asked for it during the time to live.     *)
(*                                                                         *)
(* Everything runs on one event loop and the lock around the jobs is never *)
(* held across an await: cleaning up and finding or making a job is one    *)
(* step.  Requests that do not wait (dispatch_wait_seconds <= 0) share     *)
(* nothing and are left out.                                               *)
(***************************************************************************)
EXTENDS Naturals

CONSTANTS
    Askers,     \* the invocations of dispatch(), retries included
    Keys,       \* fingerprints of requests
    KeyOf,      \* the fingerprint of each asker's request
    Series,     \* the requests in series mode
    Width,      \* the number of calls of each request
    Outcomes,   \* the statuses InternalA2AClient.invoke returns
    Nobody

ASSUME KeyOfAssumption == KeyOf \in [Askers -> Keys]
ASSUME WidthAssumption == Width \in [Keys -> Nat \ {0}]
ASSUME OutcomesAssumption == Outcomes \cap {"waiting", "running"} = {}
ASSUME NobodyAssumption == Nobody \notin Askers

VARIABLES
    pc,         \* where each asker is: "idle", "waiting" or "done"
    jobs,       \* _jobs: the asker that made the job of a key, or Nobody
    lapsed,     \* the time to live has passed since the job was last asked for
    task,       \* the background task each asker started, if it did
    calls,      \* the calls of each task
    awaited,    \* the asker whose task each asker shares, or Nobody
    reply,      \* what each asker was answered
    closed      \* close() ran

vars == <<pc, jobs, lapsed, task, calls, awaited, reply, closed>>

Positions(a) == 1..Width[KeyOf[a]]
Ended(c, i) == calls[c][i] \in Outcomes
TaskDone(c) == task[c] \in {"finished", "cancelled"}

-----------------------------------------------------------------------------
Init ==
    /\ pc = [a \in Askers |-> "idle"]
    /\ jobs = [k \in Keys |-> Nobody]
    /\ lapsed = [k \in Keys |-> FALSE]
    /\ task = [a \in Askers |-> "absent"]
    /\ calls = [a \in Askers |-> [i \in Positions(a) |-> "waiting"]]
    /\ awaited = [a \in Askers |-> Nobody]
    /\ reply = [a \in Askers |-> "none"]
    /\ closed = FALSE

(* Mutant: a job is forgotten when its time is up, done or not. *)
ForgottenRunning(k) == jobs[k] # Nobody /\ lapsed[k]

(* Mutant: a job is forgotten as soon as it is done. *)
ForgottenDone(k) == jobs[k] # Nobody /\ TaskDone(jobs[k])

(* Every dispatch first forgets the jobs, of all keys, that are done and   *)
(* that nobody has asked for during the time to live.                      *)
Forgotten(k) == jobs[k] # Nobody /\ TaskDone(jobs[k]) /\ lapsed[k]

CleanedUp == [k \in Keys |-> IF Forgotten(k) THEN Nobody ELSE jobs[k]]

Wait(a, owner) ==
    /\ pc[a] = "idle" /\ ~ closed
    /\ pc' = [pc EXCEPT ![a] = "waiting"]
    /\ awaited' = [awaited EXCEPT ![a] = owner]
    /\ lapsed' = [lapsed EXCEPT ![KeyOf[a]] = FALSE]
    /\ UNCHANGED <<calls, reply, closed>>

Find(a) ==
    LET owner == CleanedUp[KeyOf[a]] IN
    /\ owner # Nobody
    /\ Wait(a, owner)
    /\ jobs' = CleanedUp
    /\ UNCHANGED task

Start(a) ==
    /\ CleanedUp[KeyOf[a]] = Nobody
    /\ Wait(a, a)
    /\ jobs' = [CleanedUp EXCEPT ![KeyOf[a]] = a]
    /\ task' = [task EXCEPT ![a] = "running"]

-----------------------------------------------------------------------------
(* The background task. *)

(* Mutant: a series does not go on after a call that failed. *)
InvokeUnlessFailed(a, i) ==
    /\ task[a] = "running"
    /\ calls[a][i] = "waiting"
    /\ KeyOf[a] \in Series => \A j \in Positions(a) :
                                 j < i => Ended(a, j) /\ calls[a][j] # "FAILED"
    /\ calls' = [calls EXCEPT ![a][i] = "running"]
    /\ UNCHANGED <<pc, jobs, lapsed, task, awaited, reply, closed>>

Invoke(a, i) ==
    /\ task[a] = "running"
    /\ calls[a][i] = "waiting"
    /\ KeyOf[a] \in Series => \A j \in Positions(a) : j < i => Ended(a, j)
    /\ calls' = [calls EXCEPT ![a][i] = "running"]
    /\ UNCHANGED <<pc, jobs, lapsed, task, awaited, reply, closed>>

(* invoke returns a result whatever happens: the final state of the remote *)
(* task, or a failure for every exception it meets.                        *)
InvokeReturns(a, i, outcome) ==
    /\ task[a] = "running"
    /\ calls[a][i] = "running"
    /\ calls' = [calls EXCEPT ![a][i] = outcome]
    /\ UNCHANGED <<pc, jobs, lapsed, task, awaited, reply, closed>>

Finish(a) ==
    /\ task[a] = "running"
    /\ \A i \in Positions(a) : Ended(a, i)
    /\ task' = [task EXCEPT ![a] = "finished"]
    /\ UNCHANGED <<pc, jobs, lapsed, calls, awaited, reply, closed>>

-----------------------------------------------------------------------------
(* The end of a wait. *)

Answer(a, answer) ==
    /\ pc[a] = "waiting"
    /\ pc' = [pc EXCEPT ![a] = "done"]
    /\ reply' = [reply EXCEPT ![a] = answer]
    /\ UNCHANGED <<jobs, lapsed, task, calls, awaited, closed>>

(* Mutant: whatever ends the task gives a response. *)
AnswerAnyEnd(a) ==
    /\ Answer(a, "results")
    /\ TaskDone(awaited[a])

AnswerResults(a) ==
    /\ Answer(a, "results")
    /\ task[awaited[a]] = "finished"

(* The task was cancelled, and the asker with it. *)
AnswerCancelled(a) ==
    /\ Answer(a, "cancelled")
    /\ task[awaited[a]] = "cancelled"

(* The wait is over, perhaps after the task finished and before the asker  *)
(* was resumed.  The shield keeps the task from being cancelled.           *)
AnswerInProgress(a) == Answer(a, "working")

(* The asker's own request is cancelled; the shield holds here too. *)
Abandon(a) == Answer(a, "cancelled")

(* Time passes: the time to live since somebody asked for this job is up. *)
Lapse(k) ==
    /\ jobs[k] # Nobody
    /\ ~ lapsed[k]
    /\ lapsed' = [lapsed EXCEPT ![k] = TRUE]
    /\ UNCHANGED <<pc, jobs, task, calls, awaited, reply, closed>>

(* The service shuts down; no request arrives any more. *)
Close ==
    /\ ~ closed
    /\ closed' = TRUE
    /\ task' = [a \in Askers |->
                  IF jobs[KeyOf[a]] = a /\ ~ TaskDone(a) THEN "cancelled" ELSE task[a]]
    /\ jobs' = [k \in Keys |-> Nobody]
    /\ UNCHANGED <<pc, lapsed, calls, awaited, reply>>

-----------------------------------------------------------------------------
Execute(a) ==
    \/ \E i \in Positions(a) : Invoke(a, i)
    \/ \E i \in Positions(a), outcome \in Outcomes : InvokeReturns(a, i, outcome)
    \/ Finish(a)

Next ==
    \/ \E a \in Askers : \/ Find(a)
                         \/ Start(a)
                         \/ Execute(a)
                         \/ AnswerResults(a)
                         \/ AnswerCancelled(a)
                         \/ AnswerInProgress(a)
                         \/ Abandon(a)
    \/ \E k \in Keys : Lapse(k)
    \/ Close

(* The HTTP client of invoke and wait_for have timeouts, and the event     *)
(* loop resumes every task that can run.  Nobody need ask again, and time  *)
(* to live need not pass.                                                  *)
Fairness == \A a \in Askers : WF_vars(Execute(a)) /\ WF_vars(AnswerInProgress(a))

Spec == Init /\ [][Next]_vars /\ Fairness

-----------------------------------------------------------------------------
(* Properties. *)

(* Every variable has its type. *)
TypeOK ==
    /\ pc \in [Askers -> {"idle", "waiting", "done"}]
    /\ jobs \in [Keys -> Askers \cup {Nobody}]
    /\ lapsed \in [Keys -> BOOLEAN]
    /\ task \in [Askers -> {"absent", "running", "finished", "cancelled"}]
    /\ DOMAIN calls = Askers
    /\ \A a \in Askers : calls[a] \in [Positions(a) -> Outcomes \cup {"waiting", "running"}]
    /\ awaited \in [Askers -> Askers \cup {Nobody}]
    /\ reply \in [Askers -> {"none", "working", "results", "cancelled"}]
    /\ closed \in BOOLEAN

(* However often a request is repeated while its calls run, given up,        *)
(* cancelled or outlived by its time to live, its calls run once: two tasks  *)
(* for one request are never at work together.                               *)
OneExecutionAtATime ==
    \A a, b \in Askers :
        task[a] = "running" /\ task[b] = "running" /\ KeyOf[a] = KeyOf[b] => a = b

(* A retry of a request that was asked for within the time to live gets the  *)
(* task and the results of the one before, failed or not: new calls are made *)
(* only for a request nobody asked for, or not for that long.                *)
RetriesShare ==
    [][\A a, b \in Askers :
         /\ task[a] = "absent" /\ task'[a] = "running"
         /\ KeyOf[b] = KeyOf[a] /\ awaited[b] # Nobody
         => lapsed[KeyOf[a]]]_vars

(* Every asker that waits is answered, and every task ends, though askers    *)
(* give up and calls fail.                                                   *)
DispatchesEnd ==
    \A a \in Askers : /\ pc[a] = "waiting" ~> pc[a] = "done"
                      /\ task[a] = "running" ~> task[a] # "running"

(* The dispatcher shares work as SharedWork promises: the results an asker  *)
(* gets are those of a finished execution of its own request, whoever        *)
(* started it, no execution runs twice, and no answer is taken back.         *)
Execution ==
    [a \in Askers |-> CASE task[a] = "finished" -> "ended"
                        [] task[a] = "cancelled" -> "stopped"
                        [] OTHER -> task[a]]

Told ==
    [a \in Askers |-> CASE reply[a] = "none" -> [answer |-> "nothing", by |-> Nobody]
                        [] reply[a] = "working" -> [answer |-> "working", by |-> Nobody]
                        [] reply[a] = "results" -> [answer |-> "outcome", by |-> awaited[a]]
                        [] OTHER -> [answer |-> "nothing done", by |-> Nobody]]

Work == INSTANCE SharedWork WITH
    Ids <- Askers, WorkOf <- KeyOf, execution <- Execution, told <- Told
ImplementsSharedWork == Work!Spec

=============================================================================
