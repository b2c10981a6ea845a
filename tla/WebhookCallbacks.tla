-------------------------- MODULE WebhookCallbacks --------------------------
(***************************************************************************)
(* The webhook mode of the A2A service's Langflow client                   *)
(* (a2a/app/langflow_client.py): a call posts a command to an executor's   *)
(* webhook, is told that the flow runs in the background, and waits for    *)
(* the flow to post its result to /executors/{agent}/callback.  A call     *)
(* with the identifiers and the payload of one in flight waits for the     *)
(* same result; one with another payload is refused.                       *)
(*                                                                         *)
(* Everything runs on one event loop.  The lock around the registry of     *)
(* pending callbacks is never held across an await, so it never makes      *)
(* anyone wait, and a registration, a match and a removal are each part of *)
(* one step.  Cancelling a task that awaits a future cancels the future,   *)
(* and the future is shared: this is what wait_for does when it expires,   *)
(* and what the cancellation of an A2A task does.                          *)
(***************************************************************************)
EXTENDS Naturals

CONSTANTS
    Calls,     \* the invocations of _run_webhook_agent
    Keys,      \* agent, request_id, run_id and correlation_id together
    Prints,    \* fingerprints of commands
    Results,   \* the results executor flows compute
    KeyOf,     \* the key of each call
    PrintOf,   \* the fingerprint of each call's command
    FlowOf,    \* the key of the command each result was computed for
    Unfit,     \* the results with another artifact type than expected
    NoCall

ASSUME KeyAssumption == KeyOf \in [Calls -> Keys] /\ PrintOf \in [Calls -> Prints]
ASSUME ResultAssumption ==
    /\ FlowOf \in [Results -> Keys]
    /\ Unfit \subseteq Results
    /\ Results \cap {"absent", "pending", "cancelled", "unprocessable"} = {}
    /\ Results \cap {"none", "conflict", "failed", "timeout"} = {}
ASSUME NoCallAssumption == NoCall \notin Calls

VARIABLES
    pc,         \* where each call is
    registry,   \* _webhook_callbacks: the call that registered a key, or NoCall
    future,     \* the future each call created, if it registered
    awaited,    \* the call whose future each call holds, or NoCall
    outcome,    \* how each call ended
    closed      \* LangflowClient.close() ran

vars == <<pc, registry, future, awaited, outcome, closed>>

-----------------------------------------------------------------------------
(* A 422 makes a FAILED result, shared like any other. *)
Delivered == Results \cup {"unprocessable"}

Pending(c) == future[c] = "pending"

(* Only an unresolved future takes a result or is cancelled. *)
Resolve(c, value) == [future EXCEPT ![c] = IF Pending(c) THEN value ELSE @]

(* A result of another artifact type is an error. *)
OutcomeOf(result) == IF result \in Unfit THEN "failed" ELSE result

(* Mutant: only the end of a wait removes the key. *)
EndWaitOnly(c, how) ==
    /\ pc' = [pc EXCEPT ![c] = "done"]
    /\ outcome' = [outcome EXCEPT ![c] = how]
    /\ registry' = IF pc[c] = "posting" THEN registry
                   ELSE [registry EXCEPT ![KeyOf[c]] = NoCall]

(* Every end of a call that got past the registration removes its key,     *)
(* whoever holds it by then.                                               *)
End(c, how) ==
    /\ pc' = [pc EXCEPT ![c] = "done"]
    /\ outcome' = [outcome EXCEPT ![c] = how]
    /\ registry' = [registry EXCEPT ![KeyOf[c]] = NoCall]

-----------------------------------------------------------------------------
Init ==
    /\ pc = [c \in Calls |-> "idle"]
    /\ registry = [k \in Keys |-> NoCall]
    /\ future = [c \in Calls |-> "absent"]
    /\ awaited = [c \in Calls |-> NoCall]
    /\ outcome = [c \in Calls |-> "none"]
    /\ closed = FALSE

Register(c) ==
    /\ pc[c] = "idle"
    /\ registry[KeyOf[c]] = NoCall
    /\ registry' = [registry EXCEPT ![KeyOf[c]] = c]
    /\ future' = [future EXCEPT ![c] = "pending"]
    /\ awaited' = [awaited EXCEPT ![c] = c]
    /\ pc' = [pc EXCEPT ![c] = "posting"]
    /\ UNCHANGED <<outcome, closed>>

(* Mutant: the identifiers are enough to join. *)
JoinAnyPayload(c) ==
    LET owner == registry[KeyOf[c]] IN
    /\ pc[c] = "idle"
    /\ owner # NoCall
    /\ awaited' = [awaited EXCEPT ![c] = owner]
    /\ pc' = [pc EXCEPT ![c] = "waiting"]
    /\ UNCHANGED <<registry, future, outcome, closed>>

Join(c) ==
    LET owner == registry[KeyOf[c]] IN
    /\ pc[c] = "idle"
    /\ owner # NoCall
    /\ PrintOf[owner] = PrintOf[c]
    /\ awaited' = [awaited EXCEPT ![c] = owner]
    /\ pc' = [pc EXCEPT ![c] = "waiting"]
    /\ UNCHANGED <<registry, future, outcome, closed>>

(* The refusal is raised before the try block: it removes nothing. *)
Conflict(c) ==
    LET owner == registry[KeyOf[c]] IN
    /\ pc[c] = "idle"
    /\ owner # NoCall
    /\ PrintOf[owner] # PrintOf[c]
    /\ pc' = [pc EXCEPT ![c] = "done"]
    /\ outcome' = [outcome EXCEPT ![c] = "conflict"]
    /\ UNCHANGED <<registry, future, awaited, closed>>

-----------------------------------------------------------------------------
(* The POST to the webhook returns. *)

PostAcknowledged(c) ==
    /\ pc[c] = "posting"
    /\ pc' = [pc EXCEPT ![c] = "waiting"]
    /\ UNCHANGED <<registry, future, awaited, outcome, closed>>

(* The response holds the result already. *)
PostReturnsResult(c, result) ==
    /\ pc[c] = "posting"
    /\ FlowOf[result] = KeyOf[c]
    /\ future' = Resolve(c, result)
    /\ End(c, OutcomeOf(result))
    /\ UNCHANGED <<awaited, closed>>

PostUnprocessable(c) ==
    /\ pc[c] = "posting"
    /\ future' = Resolve(c, "unprocessable")
    /\ End(c, "unprocessable")
    /\ UNCHANGED <<awaited, closed>>

(* A retryable status, another HTTP error, a timeout or no connection: the *)
(* call raises and leaves its future as it is.                             *)
PostFails(c) ==
    /\ pc[c] = "posting"
    /\ End(c, "failed")
    /\ UNCHANGED <<future, awaited, closed>>

-----------------------------------------------------------------------------
(* Waiting for the callback. *)

(* The flow posts a result.  No match is a 404, a match of a resolved      *)
(* future a 202 like the first; neither changes anything.                  *)
Callback(k, result) ==
    /\ FlowOf[result] = k
    /\ registry[k] # NoCall
    /\ future' = Resolve(registry[k], result)
    /\ UNCHANGED <<pc, registry, awaited, outcome, closed>>

(* Mutant: the call is resumed before the future is done. *)
WakeEarly(c) ==
    LET value == future[awaited[c]] IN
    /\ pc[c] = "waiting"
    /\ End(c, OutcomeOf(value))
    /\ UNCHANGED <<future, awaited, closed>>

(* Mutant: a resumed call looks its key up again. *)
WakeRegistered(c) ==
    LET value == future[awaited[c]] IN
    /\ pc[c] = "waiting"
    /\ value # "pending"
    /\ End(c, IF registry[KeyOf[c]] = NoCall THEN "failed" ELSE OutcomeOf(value))
    /\ UNCHANGED <<future, awaited, closed>>

(* The future a call awaits is done and the event loop resumes the call. *)
Wake(c) ==
    LET value == future[awaited[c]] IN
    /\ pc[c] = "waiting"
    /\ value # "pending"
    /\ End(c, OutcomeOf(value))
    /\ UNCHANGED <<future, awaited, closed>>

(* Mutant: a call that joined waits without a timeout. *)
ExpireOwner(c) ==
    /\ pc[c] = "waiting"
    /\ awaited[c] = c
    /\ pc' = [pc EXCEPT ![c] = "expired"]
    /\ future' = Resolve(awaited[c], "cancelled")
    /\ UNCHANGED <<registry, awaited, outcome, closed>>

(* The timer of wait_for fires, perhaps after the result came and before   *)
(* the call was resumed.                                                   *)
Expire(c) ==
    /\ pc[c] = "waiting"
    /\ pc' = [pc EXCEPT ![c] = "expired"]
    /\ future' = Resolve(awaited[c], "cancelled")
    /\ UNCHANGED <<registry, awaited, outcome, closed>>

(* The A2A task of a call is cancelled.  What a call awaits is cancelled   *)
(* with it; one that has not started never does; and of a cancellation and *)
(* a timer that both fired before the call resumed, the former is seen.    *)
Cancel(c) ==
    \/ /\ pc[c] = "idle"
       /\ pc' = [pc EXCEPT ![c] = "done"]
       /\ outcome' = [outcome EXCEPT ![c] = "cancelled"]
       /\ UNCHANGED <<registry, future, awaited, closed>>
    \/ /\ pc[c] = "posting"
       /\ pc' = [pc EXCEPT ![c] = "stopping"]
       /\ UNCHANGED <<registry, future, awaited, outcome, closed>>
    \/ /\ pc[c] = "waiting"
       /\ pc' = [pc EXCEPT ![c] = "stopping"]
       /\ future' = Resolve(awaited[c], "cancelled")
       /\ UNCHANGED <<registry, awaited, outcome, closed>>
    \/ /\ pc[c] \in {"expired", "stopping"}
       /\ pc' = [pc EXCEPT ![c] = "stopping"]
       /\ UNCHANGED <<registry, future, awaited, outcome, closed>>

Leave(c) ==
    /\ pc[c] \in {"expired", "stopping"}
    /\ End(c, IF pc[c] = "expired" THEN "timeout" ELSE "cancelled")
    /\ UNCHANGED <<future, awaited, closed>>

(* The service shuts down: what is pending then is cancelled.  A call that *)
(* was about to start may still register.                                  *)
Close ==
    /\ ~ closed
    /\ closed' = TRUE
    /\ future' = [c \in Calls |->
                    IF registry[KeyOf[c]] = c /\ Pending(c) THEN "cancelled" ELSE future[c]]
    /\ registry' = [k \in Keys |-> NoCall]
    /\ UNCHANGED <<pc, awaited, outcome>>

-----------------------------------------------------------------------------
PostReturns(c) ==
    \/ PostAcknowledged(c)
    \/ \E result \in Results : PostReturnsResult(c, result)
    \/ PostUnprocessable(c)
    \/ PostFails(c)

Next ==
    \/ \E c \in Calls : \/ Register(c)
                        \/ Join(c)
                        \/ Conflict(c)
                        \/ PostReturns(c)
                        \/ Wake(c)
                        \/ Expire(c)
                        \/ Cancel(c)
                        \/ Leave(c)
    \/ \E k \in Keys, result \in Results : Callback(k, result)
    \/ Close

(* The HTTP client and wait_for have timeouts, and the event loop resumes  *)
(* every task that can run.  No callback need ever come.                   *)
Fairness == \A c \in Calls : /\ WF_vars(PostReturns(c))
                             /\ WF_vars(Wake(c))
                             /\ WF_vars(Expire(c))
                             /\ WF_vars(Leave(c))

Spec == Init /\ [][Next]_vars /\ Fairness

-----------------------------------------------------------------------------
(* Properties. *)

Active(c) == pc[c] \in {"posting", "waiting", "expired", "stopping"}

(* Every variable has its type; in particular no call ends with the state of *)
(* a future that is still pending.                                           *)
TypeOK ==
    /\ pc \in [Calls -> {"idle", "posting", "waiting", "expired", "stopping", "done"}]
    /\ registry \in [Keys -> Calls \cup {NoCall}]
    /\ future \in [Calls -> Delivered \cup {"absent", "pending", "cancelled"}]
    /\ awaited \in [Calls -> Calls \cup {NoCall}]
    /\ outcome \in [Calls -> Delivered \cup
                      {"none", "conflict", "failed", "timeout", "cancelled"}]
    /\ closed \in BOOLEAN

(* The registry never keeps a key for a call that ended, whichever way it    *)
(* ended and whoever joined it: a later command with the same identifiers    *)
(* would wait for a flow that nobody started, or be refused for ever.        *)
NoLeak ==
    \A k \in Keys : registry[k] # NoCall =>
        KeyOf[registry[k]] = k /\ Active(registry[k])

(* A call shares a future only with a call of the same identifiers and the   *)
(* same payload, and no result crosses from one key to another, however      *)
(* calls end and keys are registered again between a join and its result.    *)
ResultsBelong ==
    \A c \in Calls :
        /\ awaited[c] # NoCall =>
             KeyOf[awaited[c]] = KeyOf[c] /\ PrintOf[awaited[c]] = PrintOf[c]
        /\ outcome[c] \in Results => FlowOf[outcome[c]] = KeyOf[c]

(* Whose future took a result ends with it, unless it is cancelled.          *)
KeepsAccepted(c) ==
    pc[c] = "done" /\ outcome[c] # "cancelled" /\ future[c] \in Results =>
        outcome[c] = OutcomeOf(future[c])

(* A result accepted for a call is lost to it in two ways only: the POST     *)
(* that started its flow ends, after it, with anything but an                *)
(* acknowledgement, or the timer fires before the call is resumed.  No end   *)
(* of a joiner, conflict, repeated callback, other registration of its key   *)
(* or shutdown takes it away, before the call's own end or after.            *)
AcceptedLostByPost ==
    [][\A c \in Calls : KeepsAccepted(c) /\ ~ KeepsAccepted(c)' =>
                            pc[c] = "posting" \/ pc[c] = "expired"]_vars

-----------------------------------------------------------------------------
(* What the documentation and the tests say and the code does not do. *)

(* a2a/docs/endpoints.md:76: a successful match completes the waiting task.  *)
(* A call whose future took a result ends with it, unless it was cancelled   *)
(* or its command turned out to be one that no flow can run.                 *)
AcceptedCompletes ==
    \A c \in Calls :
        /\ pc[c] = "done" /\ outcome[c] \notin {"cancelled", "unprocessable"}
        /\ future[c] \in Results
        => outcome[c] = OutcomeOf(future[c])

(* a2a/tests/test_langflow_client.py:342: of exact duplicates in flight one  *)
(* invokes the webhook: while the client is open, two calls never have a     *)
(* flow of one command each and wait for its result still.                   *)
OneFlowAtATime ==
    ~ closed => \A c, d \in Calls :
        /\ KeyOf[c] = KeyOf[d] /\ PrintOf[c] = PrintOf[d]
        /\ pc[c] \in {"posting", "waiting"} /\ awaited[c] = c /\ Pending(c)
        /\ pc[d] \in {"posting", "waiting"} /\ awaited[d] = d /\ Pending(d)
        => c = d
=============================================================================
