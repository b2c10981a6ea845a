-------------------------- MODULE DispatcherProofs --------------------------
(* Theorems about Dispatcher for every set of askers and requests.         *)
EXTENDS Dispatcher, WellFoundedInduction, TLAPS

(* A registered job belongs to its key and has a task; a task at work is   *)
(* registered.                                                             *)
JobsMatchTasks ==
    /\ \A k \in Keys : jobs[k] # Nobody => KeyOf[jobs[k]] = k /\ task[jobs[k]] # "absent"
    /\ \A a \in Askers : task[a] = "running" => jobs[KeyOf[a]] = a

(* An asker that has not asked has nothing; one that waits shares a task of *)
(* its own key and was told nothing; one that has results got them from a   *)
(* finished task of its key.                                                *)
AskersMatchTasks ==
    \A a \in Askers :
        /\ pc[a] = "idle" => task[a] = "absent" /\ reply[a] = "none" /\ awaited[a] = Nobody
        /\ pc[a] = "waiting" => reply[a] = "none" /\ awaited[a] # Nobody
        /\ awaited[a] # Nobody => /\ KeyOf[awaited[a]] = KeyOf[a]
                                  /\ task[awaited[a]] # "absent"
        /\ reply[a] = "results" => /\ awaited[a] # Nobody
                                   /\ task[awaited[a]] = "finished"

(* A job that was asked for goes away only after its time to live. *)
GoneHaveLapsed ==
    \A a \in Askers :
        ~ closed /\ awaited[a] # Nobody /\ jobs[KeyOf[a]] = Nobody => lapsed[KeyOf[a]]

IInv == TypeOK /\ JobsMatchTasks /\ AskersMatchTasks /\ GoneHaveLapsed

(* What cleaning up leaves is what was there, but for jobs that are done    *)
(* and whose time is up.                                                    *)
LEMMA CleanedUpFacts ==
    ASSUME IInv
    PROVE  /\ CleanedUp \in [Keys -> Askers \cup {Nobody}]
           /\ \A k \in Keys :
                \/ CleanedUp[k] = jobs[k]
                \/ /\ CleanedUp[k] = Nobody
                   /\ lapsed[k]
                   /\ jobs[k] \in Askers
                   /\ task[jobs[k]] # "running"
BY NobodyAssumption DEF IInv, TypeOK, CleanedUp, Forgotten, TaskDone

-----------------------------------------------------------------------------
(* One lemma per kind of step. *)

LEMMA FindInv ==
    ASSUME IInv, NEW a \in Askers, Find(a)
    PROVE  IInv'
<1> USE KeyOfAssumption, NobodyAssumption DEF Find, Wait
<1>1. /\ KeyOf[a] \in Keys
      /\ CleanedUp[KeyOf[a]] = jobs[KeyOf[a]]
      /\ jobs[KeyOf[a]] \in Askers
      /\ jobs' = CleanedUp
  <2>1. KeyOf[a] \in Keys
    OBVIOUS
  <2>2. CleanedUp[KeyOf[a]] # Nobody /\ jobs' = CleanedUp
    OBVIOUS
  <2> HIDE DEF Find, Wait
  <2> QED
    BY <2>1, <2>2, CleanedUpFacts DEF IInv, TypeOK
<1>2. TypeOK'
  <2>1. /\ jobs' \in [Keys -> Askers \cup {Nobody}]
        /\ awaited' \in [Askers -> Askers \cup {Nobody}]
        /\ lapsed' \in [Keys -> BOOLEAN]
        /\ pc' \in [Askers -> {"idle", "waiting", "done"}]
    BY <1>1, CleanedUpFacts DEF IInv, TypeOK
  <2>2. UNCHANGED <<task, calls, reply, closed>>
    OBVIOUS
  <2> HIDE DEF Find, Wait
  <2> QED
    BY <2>1, <2>2 DEF IInv, TypeOK, Positions
<1>3. JobsMatchTasks'
  <2>1. \A k \in Keys : jobs'[k] # Nobody => jobs'[k] = jobs[k]
    BY <1>1, CleanedUpFacts
  <2>2. ASSUME NEW b \in Askers, task[b] = "running"
        PROVE  jobs'[KeyOf[b]] = b
    BY <1>1, <2>2, CleanedUpFacts DEF IInv, JobsMatchTasks
  <2>3. task' = task
    OBVIOUS
  <2> QED
    BY <2>1, <2>2, <2>3 DEF IInv, JobsMatchTasks
<1>4. AskersMatchTasks'
  BY <1>1 DEF IInv, TypeOK, JobsMatchTasks, AskersMatchTasks
<1>5. GoneHaveLapsed'
  BY <1>1, CleanedUpFacts DEF IInv, TypeOK, GoneHaveLapsed
<1> QED
  BY <1>2, <1>3, <1>4, <1>5 DEF IInv

LEMMA StartInv ==
    ASSUME IInv, NEW a \in Askers, Start(a)
    PROVE  IInv'
<1> USE KeyOfAssumption, NobodyAssumption DEF Start, Wait
<1>1. /\ KeyOf[a] \in Keys
      /\ task[a] = "absent"
      /\ jobs' = [CleanedUp EXCEPT ![KeyOf[a]] = a]
  BY DEF IInv, AskersMatchTasks
<1>2. \A b \in Askers : task[b] = "running" => KeyOf[b] # KeyOf[a]
  BY <1>1, CleanedUpFacts DEF IInv, TypeOK, JobsMatchTasks
<1>3. TypeOK'
  <2>1. jobs' \in [Keys -> Askers \cup {Nobody}]
    BY <1>1, CleanedUpFacts
  <2>2. /\ awaited' \in [Askers -> Askers \cup {Nobody}]
        /\ lapsed' \in [Keys -> BOOLEAN]
        /\ pc' \in [Askers -> {"idle", "waiting", "done"}]
        /\ task' \in [Askers -> {"absent", "running", "finished", "cancelled"}]
    BY DEF IInv, TypeOK
  <2>3. UNCHANGED <<calls, reply, closed>>
    OBVIOUS
  <2> HIDE DEF Start, Wait
  <2> QED
    BY <2>1, <2>2, <2>3 DEF IInv, TypeOK, Positions
<1>4. JobsMatchTasks'
  <2>1. task' = [task EXCEPT ![a] = "running"]
    OBVIOUS
  <2>2. ASSUME NEW k \in Keys, jobs'[k] # Nobody
        PROVE  KeyOf[jobs'[k]] = k /\ task'[jobs'[k]] # "absent"
    <3>1. CASE k = KeyOf[a]
      BY <1>1, <2>1, <3>1, CleanedUpFacts DEF IInv, TypeOK
    <3>2. CASE k # KeyOf[a]
      <4>1. jobs'[k] = jobs[k] /\ jobs[k] # Nobody
        BY <1>1, <2>2, <3>2, CleanedUpFacts
      <4> QED
        BY <2>1, <4>1 DEF IInv, TypeOK, JobsMatchTasks
    <3> QED
      BY <3>1, <3>2
  <2>3. ASSUME NEW b \in Askers, task'[b] = "running"
        PROVE  jobs'[KeyOf[b]] = b
    <3>1. CASE b = a
      BY <1>1, <3>1, CleanedUpFacts
    <3>2. CASE b # a
      <4>1. task[b] = "running" /\ KeyOf[b] # KeyOf[a] /\ KeyOf[b] \in Keys
        BY <1>2, <2>1, <2>3, <3>2 DEF IInv, TypeOK
      <4> QED
        BY <1>1, <4>1, CleanedUpFacts DEF IInv, JobsMatchTasks
    <3> QED
      BY <3>1, <3>2
  <2> HIDE DEF Start, Wait
  <2> QED
    BY <2>2, <2>3 DEF JobsMatchTasks
<1>5. AskersMatchTasks'
  <2>1. \A b \in Askers : awaited[b] # a
    BY <1>1 DEF IInv, AskersMatchTasks
  <2>2. /\ pc' = [pc EXCEPT ![a] = "waiting"]
        /\ awaited' = [awaited EXCEPT ![a] = a]
        /\ task' = [task EXCEPT ![a] = "running"]
        /\ reply' = reply /\ pc[a] = "idle"
    OBVIOUS
  <2>3. ASSUME NEW b \in Askers, b # a, awaited[b] # Nobody
        PROVE  task'[awaited'[b]] = task[awaited[b]]
    BY <2>1, <2>2, <2>3 DEF IInv, TypeOK
  <2> HIDE DEF Start, Wait
  <2> SUFFICES ASSUME NEW b \in Askers PROVE AskersMatchTasks!(b)'
    BY DEF AskersMatchTasks
  <2>4. CASE b = a
    BY <2>2, <2>4, <1>1 DEF IInv, TypeOK, AskersMatchTasks
  <2>5. CASE b # a
    <3>1. /\ pc'[b] = pc[b] /\ awaited'[b] = awaited[b]
          /\ task'[b] = task[b] /\ reply'[b] = reply[b]
      BY <2>2, <2>5 DEF IInv, TypeOK
    <3> QED
      BY <2>3, <2>5, <3>1 DEF IInv, TypeOK, AskersMatchTasks
  <2> QED
    BY <2>4, <2>5
<1>6. GoneHaveLapsed'
  <2> SUFFICES ASSUME NEW b \in Askers, ~ closed', awaited'[b] # Nobody,
                      jobs'[KeyOf[b]] = Nobody
               PROVE  lapsed'[KeyOf[b]]
    BY DEF GoneHaveLapsed
  <2>1. KeyOf[b] \in Keys /\ KeyOf[b] # KeyOf[a] /\ b # a
    BY <1>1, CleanedUpFacts
  <2>2. /\ CleanedUp[KeyOf[b]] = Nobody
        /\ awaited[b] # Nobody
        /\ lapsed'[KeyOf[b]] = lapsed[KeyOf[b]]
    BY <1>1, <2>1, CleanedUpFacts DEF IInv, TypeOK
  <2> QED
    BY <2>1, <2>2, CleanedUpFacts DEF IInv, GoneHaveLapsed
<1> QED
  BY <1>3, <1>4, <1>5, <1>6 DEF IInv

LEMMA ExecuteInv ==
    ASSUME IInv, NEW a \in Askers, Execute(a)
    PROVE  IInv'
<1>1. CASE \E i \in Positions(a) : Invoke(a, i)
  <2> PICK i \in Positions(a) : Invoke(a, i)
    BY <1>1
  <2>1. TypeOK'
    BY DEF IInv, TypeOK, Invoke, Positions
  <2> QED
    BY <2>1 DEF IInv, Invoke, JobsMatchTasks, AskersMatchTasks, GoneHaveLapsed
<1>2. CASE \E i \in Positions(a), outcome \in Outcomes : InvokeReturns(a, i, outcome)
  <2> PICK i \in Positions(a), outcome \in Outcomes : InvokeReturns(a, i, outcome)
    BY <1>2
  <2>1. TypeOK'
    BY DEF IInv, TypeOK, InvokeReturns, Positions
  <2> QED
    BY <2>1 DEF IInv, InvokeReturns, JobsMatchTasks, AskersMatchTasks, GoneHaveLapsed
<1>3. CASE Finish(a)
  <2> USE <1>3 DEF Finish
  <2>1. TypeOK'
    BY DEF IInv, TypeOK, Positions
  <2>2. JobsMatchTasks'
    BY DEF IInv, TypeOK, JobsMatchTasks
  <2>3. AskersMatchTasks'
    BY DEF IInv, TypeOK, AskersMatchTasks
  <2>4. GoneHaveLapsed'
    BY DEF IInv, GoneHaveLapsed
  <2> QED
    BY <2>1, <2>2, <2>3, <2>4 DEF IInv
<1> QED
  BY <1>1, <1>2, <1>3 DEF Execute

Replies(a) ==
    \/ AnswerResults(a)
    \/ AnswerCancelled(a)
    \/ AnswerInProgress(a)
    \/ Abandon(a)

LEMMA RepliesFacts ==
    ASSUME NEW a \in Askers, Replies(a)
    PROVE  \E answer \in {"working", "results", "cancelled"} :
             /\ Answer(a, answer)
             /\ answer = "results" => task[awaited[a]] = "finished"
BY DEF Replies, AnswerResults, AnswerCancelled, AnswerInProgress, Abandon

LEMMA RepliesInv ==
    ASSUME IInv, NEW a \in Askers, Replies(a)
    PROVE  IInv'
<1>1. PICK answer \in {"working", "results", "cancelled"} :
        /\ Answer(a, answer)
        /\ answer = "results" => task[awaited[a]] = "finished"
  BY RepliesFacts
<1> USE <1>1 DEF Answer
<1>2. TypeOK'
  BY DEF IInv, TypeOK, Positions
<1>3. JobsMatchTasks'
  BY DEF IInv, JobsMatchTasks
<1>4. AskersMatchTasks'
  BY DEF IInv, TypeOK, AskersMatchTasks
<1>5. GoneHaveLapsed'
  BY DEF IInv, GoneHaveLapsed
<1> QED
  BY <1>2, <1>3, <1>4, <1>5 DEF IInv

LEMMA CloseInv ==
    ASSUME IInv, Close
    PROVE  IInv'
<1> USE KeyOfAssumption, NobodyAssumption DEF Close
<1>1. TypeOK'
  BY DEF IInv, TypeOK, Positions, TaskDone
<1>2. /\ \A a \in Askers : task'[a] # "running"
      /\ \A k \in Keys : jobs'[k] = Nobody
  BY DEF IInv, TypeOK, JobsMatchTasks, TaskDone
<1>3. JobsMatchTasks'
  BY <1>2 DEF JobsMatchTasks
<1>4. \A a \in Askers : /\ (task'[a] = "absent") <=> (task[a] = "absent")
                        /\ task[a] = "finished" => task'[a] = "finished"
  BY DEF IInv, TypeOK, JobsMatchTasks, TaskDone
<1>5. AskersMatchTasks'
  <2> HIDE DEF Close
  <2>1. UNCHANGED <<pc, reply, awaited>>
    BY DEF Close
  <2> QED
    BY <1>4, <2>1 DEF IInv, TypeOK, AskersMatchTasks
<1>6. GoneHaveLapsed'
  BY DEF GoneHaveLapsed
<1> QED
  BY <1>1, <1>3, <1>5, <1>6 DEF IInv

LEMMA LapseInv ==
    ASSUME IInv, NEW k \in Keys, Lapse(k)
    PROVE  IInv'
BY DEF IInv, TypeOK, Positions, Lapse, JobsMatchTasks, AskersMatchTasks, GoneHaveLapsed

LEMMA InitInv == Init => IInv
<1> SUFFICES ASSUME Init PROVE IInv
  OBVIOUS
<1>1. TypeOK
  BY DEF Init, TypeOK
<1>2. JobsMatchTasks /\ AskersMatchTasks /\ GoneHaveLapsed
  BY KeyOfAssumption DEF Init, JobsMatchTasks, AskersMatchTasks, GoneHaveLapsed
<1> QED
  BY <1>1, <1>2 DEF IInv

LEMMA NextInv == IInv /\ [Next]_vars => IInv'
<1> SUFFICES ASSUME IInv, [Next]_vars PROVE IInv'
  OBVIOUS
<1>1. ASSUME NEW a \in Askers, Find(a) PROVE IInv'
  BY <1>1, FindInv
<1>2. ASSUME NEW a \in Askers, Start(a) PROVE IInv'
  BY <1>2, StartInv
<1>3. ASSUME NEW a \in Askers, Execute(a) PROVE IInv'
  BY <1>3, ExecuteInv
<1>4. ASSUME NEW a \in Askers, Replies(a) PROVE IInv'
  BY <1>4, RepliesInv
<1>5. ASSUME NEW k \in Keys, Lapse(k) PROVE IInv'
  BY <1>5, LapseInv
<1>6. CASE Close
  BY <1>6, CloseInv
<1>7. CASE UNCHANGED vars
  BY <1>7 DEF IInv, TypeOK, Positions, JobsMatchTasks, AskersMatchTasks, GoneHaveLapsed, vars
<1> QED
  BY <1>1, <1>2, <1>3, <1>4, <1>5, <1>6, <1>7 DEF Next, Replies

LEMMA Invariance == Spec => []IInv
BY InitInv, NextInv, PTL DEF Spec

-----------------------------------------------------------------------------
(* Every variable keeps its type, for every set of askers and requests.    *)
THEOREM TypeCorrect == Spec => []TypeOK
<1>1. IInv => TypeOK
  BY DEF IInv
<1> QED
  BY <1>1, Invariance, PTL

(* However askers repeat a request, its calls are made by one task at a    *)
(* time.                                                                   *)
THEOREM SingleExecution == Spec => []OneExecutionAtATime
<1>1. IInv => OneExecutionAtATime
  BY DEF IInv, JobsMatchTasks, OneExecutionAtATime
<1> QED
  BY <1>1, Invariance, PTL

(* Within the time to live a retry starts nothing.                         *)
THEOREM RetriesStartNothing == Spec => RetriesShare
<1>1. ASSUME IInv, [Next]_vars,
             NEW a \in Askers, NEW b \in Askers,
             task[a] = "absent", task'[a] = "running",
             KeyOf[b] = KeyOf[a], awaited[b] # Nobody
      PROVE  lapsed[KeyOf[a]]
  <2>1. Start(a)
    <3>1. ASSUME NEW c \in Askers, Start(c) PROVE Start(a)
      BY <1>1, <3>1 DEF Start, IInv, TypeOK
    <3>2. ~ Close
      BY <1>1 DEF Close, IInv, TypeOK
    <3>3. ASSUME NEW c \in Askers, Find(c) \/ Execute(c) \/ Replies(c) PROVE FALSE
      BY <1>1, <3>3 DEF Find, Execute, Invoke, InvokeReturns, Finish, Replies,
         AnswerResults, AnswerCancelled, AnswerInProgress, Abandon, Answer, IInv, TypeOK
    <3>4. ASSUME NEW k \in Keys, Lapse(k) PROVE FALSE
      BY <1>1, <3>4 DEF Lapse
    <3> QED
      BY <1>1, <3>1, <3>2, <3>3, <3>4 DEF Next, Replies, vars
  <2>2. KeyOf[a] \in Keys /\ CleanedUp[KeyOf[a]] = Nobody /\ ~ closed
    BY <2>1, KeyOfAssumption DEF Start, Wait
  <2> QED
    BY <1>1, <2>2, CleanedUpFacts DEF IInv, GoneHaveLapsed
<1>2. IInv /\ [Next]_vars =>
        [\A a, b \in Askers :
           /\ task[a] = "absent" /\ task'[a] = "running"
           /\ KeyOf[b] = KeyOf[a] /\ awaited[b] # Nobody
           => lapsed[KeyOf[a]]]_vars
  BY <1>1
<1> QED
  BY <1>2, Invariance, PTL DEF Spec, RetriesShare

-----------------------------------------------------------------------------
(* The refinement: what each kind of step does to the executions and to     *)
(* what askers were told.                                                   *)

LEMMA FindSimulates ==
    ASSUME IInv, NEW a \in Askers, Find(a)
    PROVE  UNCHANGED Work!vars
<1>1. reply[a] = "none"
  BY DEF Find, Wait, IInv, AskersMatchTasks
<1>2. Execution' = Execution
  BY DEF Find, Execution
<1>3. Told' = Told
  <2>1. reply' = reply /\ \A b \in Askers : b # a => awaited'[b] = awaited[b]
    BY DEF Find, Wait, IInv, TypeOK
  <2> QED
    BY <1>1, <2>1 DEF Told
<1> QED
  BY <1>2, <1>3 DEF Work!vars

LEMMA StartSimulates ==
    ASSUME IInv, NEW a \in Askers, Start(a)
    PROVE  Work!Begin(a)
<1>1. /\ task[a] = "absent"
      /\ reply[a] = "none"
  BY DEF Start, Wait, IInv, AskersMatchTasks
<1>2. \A b \in Askers : task[b] = "running" => KeyOf[b] # KeyOf[a]
  <2>1. KeyOf[a] \in Keys /\ CleanedUp[KeyOf[a]] = Nobody
    BY KeyOfAssumption DEF Start
  <2> QED
    BY <2>1, NobodyAssumption, CleanedUpFacts DEF IInv, TypeOK, JobsMatchTasks
<1>3. Execution' = [Execution EXCEPT ![a] = "running"]
  BY DEF Start, IInv, TypeOK, Execution
<1>4. Told' = Told
  <2>1. reply' = reply /\ \A b \in Askers : b # a => awaited'[b] = awaited[b]
    BY DEF Start, Wait, IInv, TypeOK
  <2> QED
    BY <1>1, <2>1 DEF Told
<1>5. Execution[a] = "absent" /\ Told[a].answer = "nothing"
  BY <1>1 DEF Execution, Told
<1>6. \A b \in Askers : Execution[b] = "running" => KeyOf[b] # KeyOf[a]
  BY <1>2 DEF Execution
<1> QED
  BY <1>3, <1>4, <1>5, <1>6 DEF Work!Begin, Work!Silent

LEMMA ExecuteSimulates ==
    ASSUME IInv, NEW a \in Askers, Execute(a)
    PROVE  Work!EndOf(a) \/ UNCHANGED Work!vars
<1>1. CASE \/ \E i \in Positions(a) : Invoke(a, i)
           \/ \E i \in Positions(a), outcome \in Outcomes : InvokeReturns(a, i, outcome)
  <2>1. UNCHANGED <<task, reply, awaited>>
    BY <1>1 DEF Invoke, InvokeReturns
  <2> QED
    BY <2>1 DEF Work!vars, Execution, Told
<1>2. CASE Finish(a)
  <2>1. Execution' = [Execution EXCEPT ![a] = "ended"] /\ Execution[a] = "running"
    BY <1>2 DEF Finish, IInv, TypeOK, Execution
  <2>2. Told' = Told
    BY <1>2 DEF Finish, Told
  <2> QED
    BY <2>1, <2>2 DEF Work!EndOf
<1> QED
  BY <1>1, <1>2 DEF Execute

LEMMA RepliesSimulate ==
    ASSUME IInv, NEW a \in Askers, Replies(a)
    PROVE  Work!Next
<1>1. PICK answer \in {"working", "results", "cancelled"} :
        /\ Answer(a, answer)
        /\ answer = "results" => task[awaited[a]] = "finished"
  BY RepliesFacts
<1>2. Execution' = Execution
  BY <1>1 DEF Answer, Execution
<1>3. /\ reply[a] = "none"
      /\ awaited[a] \in Askers
      /\ KeyOf[awaited[a]] = KeyOf[a]
  BY <1>1 DEF Answer, IInv, TypeOK, AskersMatchTasks
<1>4. Work!Silent(a)
  BY <1>3 DEF Work!Silent, Told
<1>5. /\ reply' = [reply EXCEPT ![a] = answer]
      /\ awaited' = awaited
      /\ reply \in [Askers -> {"none", "working", "results", "cancelled"}]
  BY <1>1 DEF Answer, IInv, TypeOK
<1>6. CASE answer = "working"
  <2>1. Told' = [Told EXCEPT ![a] = [answer |-> "working", by |-> Nobody]]
    BY <1>5, <1>6 DEF Told
  <2> QED
    BY <1>2, <1>4, <2>1 DEF Work!Next, Work!Tell
<1>7. CASE answer = "cancelled"
  <2>1. Told' = [Told EXCEPT ![a] = [answer |-> "nothing done", by |-> Nobody]]
    BY <1>5, <1>7 DEF Told
  <2> QED
    BY <1>2, <1>4, <2>1 DEF Work!Next, Work!Tell
<1>8. CASE answer = "results"
  <2>1. Told' = [Told EXCEPT ![a] = [answer |-> "outcome", by |-> awaited[a]]]
    BY <1>5, <1>8 DEF Told
  <2>2. Execution[awaited[a]] = "ended"
    BY <1>1, <1>3, <1>8 DEF Execution
  <2> QED
    BY <1>2, <1>3, <1>4, <2>1, <2>2 DEF Work!Next, Work!Tell
<1> QED
  BY <1>6, <1>7, <1>8

LEMMA CloseSimulates ==
    ASSUME IInv, Close
    PROVE  Work!Stop
<1>1. \A a \in Askers :
        task'[a] = IF task[a] = "running" THEN "cancelled" ELSE task[a]
  BY KeyOfAssumption, NobodyAssumption DEF Close, IInv, TypeOK, JobsMatchTasks, TaskDone
<1>2. Execution' = [a \in Askers |->
                      IF Execution[a] = "running" THEN "stopped" ELSE Execution[a]]
  BY <1>1 DEF IInv, TypeOK, Execution
<1>3. Told' = Told
  BY DEF Close, Told
<1> QED
  BY <1>2, <1>3 DEF Work!Stop

(* Every behaviour of the dispatcher is one of the abstract specification  *)
(* of shared work.                                                         *)
THEOREM SharedWorkImplemented == Spec => ImplementsSharedWork
<1>1. Init => Work!Init
  BY DEF Init, Work!Init, Execution, Told
<1>2. IInv /\ [Next]_vars => [Work!Next]_(Work!vars)
  <2> SUFFICES ASSUME IInv, [Next]_vars
               PROVE  Work!Next \/ UNCHANGED Work!vars
    OBVIOUS
  <2>1. ASSUME NEW a \in Askers, Find(a) PROVE UNCHANGED Work!vars
    BY <2>1, FindSimulates
  <2>2. ASSUME NEW a \in Askers, Start(a) PROVE Work!Next
    BY <2>2, StartSimulates DEF Work!Next
  <2>3. ASSUME NEW a \in Askers, Execute(a) PROVE Work!Next \/ UNCHANGED Work!vars
    BY <2>3, ExecuteSimulates DEF Work!Next
  <2>4. ASSUME NEW a \in Askers, Replies(a) PROVE Work!Next
    BY <2>4, RepliesSimulate
  <2>5. CASE Close
    BY <2>5, CloseSimulates DEF Work!Next
  <2>6. ASSUME NEW k \in Keys, Lapse(k) PROVE UNCHANGED Work!vars
    BY <2>6 DEF Lapse, Work!vars, Execution, Told
  <2>7. CASE UNCHANGED vars
    BY <2>7 DEF vars, Work!vars, Execution, Told
  <2> QED
    BY <2>1, <2>2, <2>3, <2>4, <2>5, <2>6, <2>7 DEF Next, Replies
<1> QED
  BY <1>1, <1>2, Invariance, PTL DEF Spec, ImplementsSharedWork, Work!Spec

-----------------------------------------------------------------------------
(* The calls of a task, and the shutdown. *)

(* In a series a call begins when all before it have answered. *)
InTurn(a) ==
    KeyOf[a] \in Series =>
        \A i, j \in Positions(a) : j < i /\ calls[a][i] # "waiting" => Ended(a, j)

Whole(a) == \A i \in Positions(a) : Ended(a, i)

CallsKept ==
    /\ \A a \in Askers : InTurn(a)
    /\ \A a \in Askers : task[a] = "finished" => Whole(a)
    /\ closed => \A a \in Askers : task[a] # "running"

(* What has answered stays as it is, and only a task at work makes calls. *)
LEMMA CallsStep ==
    ASSUME IInv, [Next]_vars, NEW a \in Askers
    PROVE  \/ calls'[a] = calls[a]
           \/ \E i \in Positions(a) :
                /\ task[a] = "running" /\ task'[a] = "running"
                /\ \/ /\ calls[a][i] = "waiting"
                      /\ KeyOf[a] \in Series => \A j \in Positions(a) : j < i => Ended(a, j)
                   \/ calls[a][i] = "running"
                /\ \A j \in Positions(a) \ {i} : calls'[a][j] = calls[a][j]
<1> USE DEF IInv, TypeOK
<1>1. ASSUME NEW b \in Askers, Execute(b), calls'[a] # calls[a]
      PROVE  \E i \in Positions(a) :
                /\ task[a] = "running" /\ task'[a] = "running"
                /\ \/ /\ calls[a][i] = "waiting"
                      /\ KeyOf[a] \in Series => \A j \in Positions(a) : j < i => Ended(a, j)
                   \/ calls[a][i] = "running"
                /\ \A j \in Positions(a) \ {i} : calls'[a][j] = calls[a][j]
  <2>1. ~ Finish(b)
    BY <1>1 DEF Finish
  <2>2. ASSUME NEW i \in Positions(b), Invoke(b, i)
        PROVE  /\ b = a /\ task[a] = "running" /\ task'[a] = "running"
               /\ calls[a][i] = "waiting"
               /\ KeyOf[a] \in Series => \A j \in Positions(a) : j < i => Ended(a, j)
               /\ \A j \in Positions(a) \ {i} : calls'[a][j] = calls[a][j]
    BY <1>1, <2>2 DEF Invoke
  <2>3. ASSUME NEW i \in Positions(b), NEW outcome \in Outcomes, InvokeReturns(b, i, outcome)
        PROVE  /\ b = a /\ task[a] = "running" /\ task'[a] = "running"
               /\ calls[a][i] = "running"
               /\ \A j \in Positions(a) \ {i} : calls'[a][j] = calls[a][j]
    BY <1>1, <2>3 DEF InvokeReturns
  <2> QED
    BY <1>1, <2>1, <2>2, <2>3 DEF Execute
<1>2. ASSUME NEW b \in Askers, Find(b) \/ Start(b) \/ Replies(b) PROVE calls' = calls
  BY <1>2 DEF Find, Start, Wait, Replies, AnswerResults, AnswerCancelled, AnswerInProgress,
     Abandon, Answer
<1>3. ASSUME NEW k \in Keys, Lapse(k) PROVE calls' = calls
  BY <1>3 DEF Lapse
<1>4. Close => calls' = calls
  BY DEF Close
<1> QED
  BY <1>1, <1>2, <1>3, <1>4 DEF Next, Replies, vars

LEMMA EndedStays ==
    ASSUME IInv, [Next]_vars, NEW a \in Askers, NEW i \in Positions(a), Ended(a, i)
    PROVE  Ended(a, i)'
BY CallsStep, OutcomesAssumption DEF Ended

LEMMA InTurnStep ==
    ASSUME IInv, [Next]_vars, NEW a \in Askers, InTurn(a)
    PROVE  InTurn(a)'
<1> SUFFICES ASSUME KeyOf[a] \in Series, NEW i \in Positions(a), NEW j \in Positions(a),
                    j < i, calls'[a][i] # "waiting"
             PROVE  Ended(a, j)'
  BY DEF InTurn, Positions
<1>1. CASE calls[a][i] # "waiting"
  BY <1>1, EndedStays DEF InTurn
<1>2. CASE calls[a][i] = "waiting"
  <2>1. PICK n \in Positions(a) :
           /\ \/ /\ calls[a][n] = "waiting"
                 /\ KeyOf[a] \in Series => \A m \in Positions(a) : m < n => Ended(a, m)
              \/ calls[a][n] = "running"
           /\ \A m \in Positions(a) \ {n} : calls'[a][m] = calls[a][m]
    BY <1>2, CallsStep
  <2>2. n = i
    BY <1>2, <2>1
  <2>3. Ended(a, j)
    BY <1>2, <2>1, <2>2
  <2> QED
    BY <2>3, EndedStays
<1> QED
  BY <1>1, <1>2

LEMMA CallsKeptStep ==
    ASSUME IInv, [Next]_vars, CallsKept
    PROVE  CallsKept'
<1>1. \A a \in Askers : InTurn(a)'
  BY InTurnStep DEF CallsKept
<1>2. ASSUME NEW a \in Askers, Whole(a) PROVE Whole(a)'
  BY <1>2, EndedStays DEF Whole, Positions
<1>3. ASSUME NEW a \in Askers, task'[a] = "finished", task[a] # "finished" PROVE Whole(a)
  <2>1. ASSUME NEW b \in Askers, Execute(b) PROVE Whole(a)
    BY <1>3, <2>1 DEF Execute, Invoke, InvokeReturns, Finish, Whole, IInv, TypeOK
  <2>2. ASSUME NEW b \in Askers, Find(b) \/ Start(b) \/ Replies(b) PROVE FALSE
    BY <1>3, <2>2 DEF Find, Start, Replies, AnswerResults, AnswerCancelled,
       AnswerInProgress, Abandon, Answer, IInv, TypeOK
  <2>3. ASSUME NEW k \in Keys, Lapse(k) PROVE FALSE
    BY <1>3, <2>3 DEF Lapse
  <2>4. ~ Close
    BY <1>3 DEF Close
  <2> QED
    BY <1>3, <2>1, <2>2, <2>3, <2>4 DEF Next, Replies, vars
<1>4. closed' => \A a \in Askers : task'[a] # "running"
  <2>1. CASE Close
    BY <2>1 DEF Close, IInv, JobsMatchTasks, TaskDone
  <2>2. ASSUME NEW b \in Askers, Find(b) \/ Start(b) \/ Execute(b) \/ Replies(b), closed'
        PROVE  \A a \in Askers : task'[a] # "running"
    BY <2>2 DEF CallsKept, Find, Start, Wait, Execute, Invoke, InvokeReturns, Finish, Replies,
       AnswerResults, AnswerCancelled, AnswerInProgress, Abandon, Answer, IInv, TypeOK
  <2>3. ASSUME NEW k \in Keys, Lapse(k), closed' PROVE \A a \in Askers : task'[a] # "running"
    BY <2>3 DEF Lapse, CallsKept
  <2> QED
    BY <2>1, <2>2, <2>3 DEF Next, Replies, vars, CallsKept
<1> QED
  BY <1>1, <1>2, <1>3, <1>4 DEF CallsKept

LEMMA CallsAreKept == Spec => []CallsKept
<1>1. Init => CallsKept
  BY DEF Init, CallsKept, InTurn
<1> QED
  BY <1>1, CallsKeptStep, Invariance, PTL DEF Spec

(* A series makes its calls one at a time and in order, each after the      *)
(* answer of the one before, a failure included, however often the request  *)
(* is repeated or given up meanwhile.                                       *)
OneAtATime ==
    \A a \in Askers : KeyOf[a] \in Series =>
        \A i, j \in Positions(a) :
            /\ j < i /\ calls[a][i] # "waiting" => Ended(a, j)
            /\ calls[a][i] = "running" /\ calls[a][j] = "running" => i = j

THEOREM SeriesInTurn == Spec => []OneAtATime
<1>1. ASSUME CallsKept PROVE OneAtATime
  <2> SUFFICES ASSUME NEW a \in Askers, KeyOf[a] \in Series,
                      NEW i \in Positions(a), NEW j \in Positions(a)
               PROVE  /\ j < i /\ calls[a][i] # "waiting" => Ended(a, j)
                      /\ calls[a][i] = "running" /\ calls[a][j] = "running" => i = j
    BY DEF OneAtATime
  <2>1. /\ j < i /\ calls[a][i] # "waiting" => Ended(a, j)
        /\ i < j /\ calls[a][j] # "waiting" => Ended(a, i)
    BY <1>1 DEF CallsKept, InTurn
  <2>2. i = j \/ i < j \/ j < i
    BY WidthAssumption, KeyOfAssumption DEF Positions
  <2> QED
    BY <2>1, <2>2, OutcomesAssumption DEF Ended
<1> QED
  BY <1>1, CallsAreKept, PTL

(* Results hold the end of every call, of whichever asker's task they are;  *)
(* no answer is put together from a task that was stopped or still works.   *)
ResultsAreWhole == \A a \in Askers : reply[a] = "results" => Whole(awaited[a])

THEOREM WholeResults == Spec => []ResultsAreWhole
<1>1. IInv /\ CallsKept => ResultsAreWhole
  BY DEF IInv, TypeOK, AskersMatchTasks, CallsKept, ResultsAreWhole
<1> QED
  BY <1>1, Invariance, CallsAreKept, PTL

(* The shutdown leaves no task at work, though their jobs may have been     *)
(* shared, given up or past their time to live, and none starts after it.   *)
ShutdownStops == closed => \A a \in Askers : task[a] # "running"

THEOREM StoppedByShutdown == Spec => []ShutdownStops
<1>1. CallsKept => ShutdownStops
  BY DEF CallsKept, ShutdownStops
<1> QED
  BY <1>1, CallsAreKept, PTL

-----------------------------------------------------------------------------
(* How dispatches go on. *)

AskerGoesOn(a) ==
    \/ pc[a] = "idle" /\ pc'[a] = "waiting"
    \/ pc[a] = "waiting" /\ pc'[a] = "done"

TaskGoesOn(a) ==
    \/ task[a] = "absent" /\ task'[a] = "running"
    \/ task[a] = "running" /\ TaskDone(a)'

CallGoesOn(a, i) ==
    \/ calls[a][i] = "waiting" /\ calls'[a][i] = "running"
    \/ calls[a][i] = "running" /\ Ended(a, i)'

GoesOn ==
    /\ \A a \in Askers :
          /\ pc'[a] = pc[a] \/ AskerGoesOn(a)
          /\ task'[a] = task[a] \/ TaskGoesOn(a)
          /\ \A i \in Positions(a) : calls'[a][i] = calls[a][i] \/ CallGoesOn(a, i)
    /\ closed => closed'
    /\ \A k \in Keys : lapsed[k] /\ ~ lapsed'[k] =>
          \E a \in Askers : KeyOf[a] = k /\ pc[a] = "idle" /\ pc'[a] = "waiting"
    /\ \/ \E a \in Askers : \/ AskerGoesOn(a) \/ TaskGoesOn(a)
                            \/ \E i \in Positions(a) : CallGoesOn(a, i)
       \/ \E k \in Keys : ~ lapsed[k] /\ lapsed'[k]
       \/ ~ closed /\ closed'

(* What a task at work needs for its next step. *)
CanGoOn(a) ==
    \/ Whole(a)
    \/ \E i \in Positions(a) :
         \/ calls[a][i] = "running"
         \/ /\ calls[a][i] = "waiting"
            /\ KeyOf[a] \in Series => \A j \in Positions(a) : j < i => Ended(a, j)

(* Every step takes an asker, a task or a call on, or closes the service, or *)
(* lets a time to live pass, which only an asker that comes sets back;       *)
(* nothing goes back; and no task at work waits for calls that wait.         *)
DispatchesGoOn == [][GoesOn]_vars /\ [](\A a \in Askers : task[a] = "running" => CanGoOn(a))

LEMMA SomebodyGoesOn ==
    ASSUME IInv, Next
    PROVE  \/ \E a \in Askers : \/ AskerGoesOn(a) \/ TaskGoesOn(a)
                               \/ \E i \in Positions(a) : CallGoesOn(a, i)
           \/ \E k \in Keys : ~ lapsed[k] /\ lapsed'[k]
           \/ ~ closed /\ closed'
<1> USE DEF IInv, TypeOK
<1>1. ASSUME NEW a \in Askers, Find(a) \/ Start(a) \/ Replies(a)
      PROVE  AskerGoesOn(a)
  BY <1>1 DEF Find, Start, Wait, Replies, AnswerResults, AnswerCancelled, AnswerInProgress,
     Abandon, Answer, AskerGoesOn
<1>2. ASSUME NEW a \in Askers, Execute(a)
      PROVE  TaskGoesOn(a) \/ \E i \in Positions(a) : CallGoesOn(a, i)
  <2>1. ASSUME NEW i \in Positions(a), Invoke(a, i) PROVE CallGoesOn(a, i)
    BY <2>1 DEF Invoke, CallGoesOn
  <2>2. ASSUME NEW i \in Positions(a), NEW outcome \in Outcomes, InvokeReturns(a, i, outcome)
        PROVE  CallGoesOn(a, i)
    BY <2>2 DEF InvokeReturns, CallGoesOn, Ended
  <2>3. Finish(a) => TaskGoesOn(a)
    BY DEF Finish, TaskGoesOn, TaskDone
  <2> QED
    BY <1>2, <2>1, <2>2, <2>3 DEF Execute
<1>3. ASSUME NEW k \in Keys, Lapse(k) PROVE ~ lapsed[k] /\ lapsed'[k]
  BY <1>3 DEF Lapse
<1>4. Close => ~ closed /\ closed'
  BY DEF Close
<1> QED
  BY <1>1, <1>2, <1>3, <1>4 DEF Next, Replies

LEMMA AskersGoOn ==
    ASSUME IInv, Next, NEW a \in Askers
    PROVE  /\ pc'[a] = pc[a] \/ AskerGoesOn(a)
           /\ task'[a] = task[a] \/ TaskGoesOn(a)
<1> USE DEF IInv, TypeOK
<1>1. ASSUME NEW b \in Askers, Find(b) \/ Replies(b)
      PROVE  (pc'[a] = pc[a] \/ AskerGoesOn(a)) /\ task' = task
  BY <1>1 DEF Find, Wait, Replies, AnswerResults, AnswerCancelled, AnswerInProgress,
     Abandon, Answer, AskerGoesOn
<1>2. ASSUME NEW b \in Askers, Start(b)
      PROVE  (pc'[a] = pc[a] \/ AskerGoesOn(a)) /\ (task'[a] = task[a] \/ TaskGoesOn(a))
  BY <1>2 DEF Start, Wait, AskerGoesOn, TaskGoesOn, AskersMatchTasks
<1>3. ASSUME NEW b \in Askers, Execute(b)
      PROVE  pc' = pc /\ (task'[a] = task[a] \/ TaskGoesOn(a))
  BY <1>3 DEF Execute, Invoke, InvokeReturns, Finish, TaskGoesOn, TaskDone
<1>4. ASSUME NEW k \in Keys, Lapse(k) PROVE pc' = pc /\ task' = task
  BY <1>4 DEF Lapse
<1>5. Close => pc' = pc /\ (task'[a] = task[a] \/ TaskGoesOn(a))
  <2>1. Close /\ jobs[KeyOf[a]] = a => task[a] # "absent"
    BY KeyOfAssumption, NobodyAssumption DEF JobsMatchTasks
  <2> QED
    BY <2>1 DEF Close, TaskGoesOn, TaskDone
<1> QED
  BY <1>1, <1>2, <1>3, <1>4, <1>5 DEF Next, Replies

LEMMA CallsGoOn ==
    ASSUME IInv, Next, NEW a \in Askers, NEW i \in Positions(a)
    PROVE  calls'[a][i] = calls[a][i] \/ CallGoesOn(a, i)
<1> USE DEF IInv, TypeOK
<1>1. ASSUME NEW b \in Askers, Execute(b)
      PROVE  calls'[a][i] = calls[a][i] \/ CallGoesOn(a, i)
  <2>1. ASSUME NEW j \in Positions(b), Invoke(b, j)
        PROVE  calls'[a][i] = calls[a][i] \/ CallGoesOn(a, i)
    BY <2>1 DEF Invoke, CallGoesOn
  <2>2. ASSUME NEW j \in Positions(b), NEW outcome \in Outcomes, InvokeReturns(b, j, outcome)
        PROVE  calls'[a][i] = calls[a][i] \/ CallGoesOn(a, i)
    BY <2>2 DEF InvokeReturns, CallGoesOn, Ended
  <2>3. Finish(b) => calls' = calls
    BY DEF Finish
  <2> QED
    BY <1>1, <2>1, <2>2, <2>3 DEF Execute
<1>2. ASSUME NEW b \in Askers, Find(b) \/ Start(b) \/ Replies(b) PROVE calls' = calls
  BY <1>2 DEF Find, Start, Wait, Replies, AnswerResults, AnswerCancelled, AnswerInProgress,
     Abandon, Answer
<1>3. ASSUME NEW k \in Keys, Lapse(k) PROVE calls' = calls
  BY <1>3 DEF Lapse
<1>4. Close => calls' = calls
  BY DEF Close
<1> QED
  BY <1>1, <1>2, <1>3, <1>4 DEF Next, Replies

LEMMA TimesGoOn ==
    ASSUME IInv, Next
    PROVE  /\ closed => closed'
           /\ \A k \in Keys : lapsed[k] /\ ~ lapsed'[k] =>
                \E a \in Askers : KeyOf[a] = k /\ pc[a] = "idle" /\ pc'[a] = "waiting"
<1> USE DEF IInv, TypeOK
<1>1. ASSUME NEW b \in Askers, Find(b) \/ Start(b)
      PROVE  /\ closed' = closed
             /\ pc[b] = "idle" /\ pc'[b] = "waiting"
             /\ \A k \in Keys : lapsed[k] /\ ~ lapsed'[k] => KeyOf[b] = k
  BY <1>1 DEF Find, Start, Wait
<1>2. ASSUME NEW b \in Askers, Execute(b) \/ Replies(b)
      PROVE  closed' = closed /\ lapsed' = lapsed
  BY <1>2 DEF Execute, Invoke, InvokeReturns, Finish, Replies, AnswerResults, AnswerCancelled,
     AnswerInProgress, Abandon, Answer
<1>3. ASSUME NEW k \in Keys, Lapse(k)
      PROVE  closed' = closed /\ \A l \in Keys : lapsed[l] => lapsed'[l]
  BY <1>3 DEF Lapse
<1>4. Close => closed' /\ lapsed' = lapsed
  BY DEF Close
<1> QED
  BY <1>1, <1>2, <1>3, <1>4 DEF Next, Replies

(* The first call that has not answered runs or can be made. *)
LEMMA TaskCanGoOn ==
    ASSUME IInv, NEW a \in Askers
    PROVE  CanGoOn(a)
<1> DEFINE Open == {i \in Positions(a) : ~ Ended(a, i)}
           Less == {ss \in Nat \X Nat : ss[1] < ss[2]}
<1>1. CASE Open = {}
  BY <1>1 DEF CanGoOn, Whole
<1>2. CASE Open # {}
  <2>1. Positions(a) \subseteq Nat
    BY KeyOfAssumption, WidthAssumption DEF Positions
  <2>2. IsWellFoundedOn(Less, Nat)
    BY NatLessThanWellFounded DEF OpToRel
  <2>3. PICK i \in Open : \A j \in Open : ~ (<<j, i>> \in Less)
    BY <1>2, <2>1, <2>2, WFMin
  <2>4. \A j \in Positions(a) : j < i => Ended(a, j)
    BY <2>1, <2>3
  <2>5. calls[a][i] \in {"waiting", "running"}
    BY <2>3 DEF IInv, TypeOK, Ended
  <2> QED
    BY <2>4, <2>5 DEF CanGoOn
<1> QED
  BY <1>1, <1>2

(* The dispatcher goes through finitely many steps for each asker and each   *)
(* call: what DispatchesEnd needs beyond this is only that what can go on    *)
(* does.                                                                     *)
THEOREM NothingGoesBack == Spec => DispatchesGoOn
<1>1. IInv /\ [Next]_vars => [GoesOn]_vars
  BY SomebodyGoesOn, AskersGoOn, CallsGoOn, TimesGoOn DEF GoesOn
<1>2. IInv => \A a \in Askers : task[a] = "running" => CanGoOn(a)
  BY TaskCanGoOn
<1> QED
  BY <1>1, <1>2, Invariance, PTL DEF Spec, DispatchesGoOn
=============================================================================
