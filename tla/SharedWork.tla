----------------------------- MODULE SharedWork -----------------------------
(***************************************************************************)
(* What a service that shares work promises: the work of a request is done *)
(* by one execution at a time; an execution that began ends or is stopped, *)
(* and never runs again; an asker is told that the work goes on, or gets   *)
(* the outcome of an execution of its own request that has ended; and what *)
(* an asker was told it was told for good.  How askers find executions,    *)
(* and how long their outcomes are kept, is not said.                      *)
(***************************************************************************)
CONSTANTS
    Ids,        \* askers; an execution has the name of the asker it began for
    WorkOf,     \* the work each asker asks for
    Nobody

VARIABLES
    execution,  \* "absent", "running", "ended" or "stopped"
    told        \* what each asker was told, and by which execution

vars == <<execution, told>>

Init ==
    /\ execution = [i \in Ids |-> "absent"]
    /\ told = [i \in Ids |-> [answer |-> "nothing", by |-> Nobody]]

Silent(i) == told[i].answer = "nothing"

Begin(i) ==
    /\ execution[i] = "absent"
    /\ Silent(i)
    /\ \A j \in Ids : execution[j] = "running" => WorkOf[j] # WorkOf[i]
    /\ execution' = [execution EXCEPT ![i] = "running"]
    /\ UNCHANGED told

EndOf(i) ==
    /\ execution[i] = "running"
    /\ execution' = [execution EXCEPT ![i] = "ended"]
    /\ UNCHANGED told

Stop ==
    /\ execution' = [i \in Ids |->
                       IF execution[i] = "running" THEN "stopped" ELSE execution[i]]
    /\ UNCHANGED told

Tell(i, answer, by) ==
    /\ Silent(i)
    /\ told' = [told EXCEPT ![i] = [answer |-> answer, by |-> by]]
    /\ UNCHANGED execution

Next ==
    \/ Stop
    \/ \E i \in Ids :
         \/ Begin(i)
         \/ EndOf(i)
         \/ Tell(i, "working", Nobody)
         \/ Tell(i, "nothing done", Nobody)
         \/ \E j \in Ids : /\ WorkOf[j] = WorkOf[i]
                           /\ execution[j] = "ended"
                           /\ Tell(i, "outcome", j)

Spec == Init /\ [][Next]_vars
=============================================================================
