------------------------------- MODULE RunApi -------------------------------
(***************************************************************************)
(* The run API mode of the A2A service's Langflow client                   *)
(* (a2a/app/langflow_client.py): a call posts a command, waits for the     *)
(* flow to answer it, and after a timeout, a lost connection or a status   *)
(* that may pass posts it again.  With the style `auto' a 422 is taken for *)
(* a mismatch of schemas, and the command is posted once more, wrapped.    *)
(*                                                                         *)
(* The server starts the flow of a post whenever it gets to it: while the  *)
(* client waits, after it gave up, or never.                               *)
(***************************************************************************)
EXTENDS Naturals

CONSTANTS
    MaxAttempts,    \* langflow_max_attempts
    Bodies,         \* the bodies a flow answers with
    Results,        \* the structured results that can be read from them
    ResultIn,       \* the valid result in each body, or NoResult
    Fit,            \* the results with the expected artifact type
    NoBody, NoResult

ASSUME AttemptsAssumption == MaxAttempts \in Nat \ {0}
ASSUME BodyAssumption ==
    /\ ResultIn \in [Bodies -> Results \cup {NoResult}]
    /\ Fit \subseteq Results
    /\ NoResult \notin Results
    /\ NoBody \notin Bodies

VARIABLES
    style,      \* langflow_api_style
    pc,         \* where the call is
    attempt,
    posts,      \* what was posted: attempts and shapes
    started,    \* the posts whose flow the server has started
    dropped,    \* the posts whose flow the server never starts
    reply,      \* the body the call received, or NoBody
    outcome     \* how the call ended

vars == <<style, pc, attempt, posts, started, dropped, reply, outcome>>

-----------------------------------------------------------------------------
Attempts == 1 .. MaxAttempts
Shapes == {"direct", "wrapped"}

Init ==
    /\ style \in {"legacy", "wrapped", "auto"}
    /\ pc = "ready"
    /\ attempt = 1
    /\ posts = {}
    /\ started = {}
    /\ dropped = {}
    /\ reply = NoBody
    /\ outcome = "none"

(* The shape of the post that is next or under way. *)
Shape == IF style = "wrapped" \/ pc \in {"rewrap", "rewrapped"} THEN "wrapped" ELSE "direct"

Current == <<attempt, Shape>>

Waiting == pc \in {"posted", "rewrapped"}

Post ==
    /\ pc \in {"ready", "rewrap"}
    /\ posts' = posts \cup {Current}
    /\ pc' = IF pc = "ready" THEN "posted" ELSE "rewrapped"
    /\ UNCHANGED <<style, attempt, started, dropped, reply, outcome>>

StartFlow(post) ==
    /\ post \in posts \ (started \cup dropped)
    /\ started' = started \cup {post}
    /\ UNCHANGED <<style, pc, attempt, posts, dropped, reply, outcome>>

EndAs(how) == pc' = "done" /\ outcome' = how

-----------------------------------------------------------------------------
(* What comes back from a post. *)

(* Mutant: a body without the expected result is worth another attempt. *)
ReceiveRetries(body) ==
    /\ Waiting
    /\ Current \in started
    /\ reply' = body
    /\ IF ResultIn[body] \in Fit THEN EndAs("result")
       ELSE IF attempt < MaxAttempts THEN pc' = "sleeping" /\ UNCHANGED outcome
       ELSE EndAs("failed")
    /\ UNCHANGED <<style, attempt, posts, started, dropped>>

(* The flow ran and answered; a body without a valid result of the         *)
(* expected artifact type is an error, and not one to retry.               *)
Receive(body) ==
    /\ Waiting
    /\ Current \in started
    /\ reply' = body
    /\ EndAs(IF ResultIn[body] \in Fit THEN "result" ELSE "failed")
    /\ UNCHANGED <<style, attempt, posts, started, dropped>>

(* A 422: the server does not run the flow.  It makes a FAILED result      *)
(* unless the other shape is to be tried.                                  *)
Unprocessable ==
    /\ Waiting
    /\ Current \notin started
    /\ dropped' = dropped \cup {Current}
    /\ IF style = "auto" /\ pc = "posted" THEN pc' = "rewrap" /\ UNCHANGED outcome
                                          ELSE EndAs("unprocessable")
    /\ UNCHANGED <<style, attempt, posts, started, reply>>

(* Another attempt follows, if there is one left. *)
GiveUpOrSleep ==
    IF attempt < MaxAttempts THEN pc' = "sleeping" /\ UNCHANGED outcome
                             ELSE EndAs("failed")

(* Mutant: with `auto' any refusal of the direct shape is a mismatch. *)
MayPassRewraps ==
    /\ Waiting
    /\ IF style = "auto" /\ pc = "posted" THEN pc' = "rewrap" /\ UNCHANGED outcome
                                          ELSE GiveUpOrSleep
    /\ UNCHANGED <<style, attempt, posts, started, dropped, reply>>

(* 429, 502, 503, 504 or a timeout: the flow may have run, may be running, *)
(* and may start later.                                                    *)
MayPass ==
    /\ Waiting
    /\ GiveUpOrSleep
    /\ UNCHANGED <<style, attempt, posts, started, dropped, reply>>

NoConnection ==
    /\ Waiting
    /\ Current \notin started
    /\ dropped' = dropped \cup {Current}
    /\ GiveUpOrSleep
    /\ UNCHANGED <<style, attempt, posts, started, reply>>

(* Another status, or a connection lost once it was made: raised at once. *)
Refused ==
    /\ Waiting
    /\ EndAs("failed")
    /\ UNCHANGED <<style, attempt, posts, started, dropped, reply>>

-----------------------------------------------------------------------------
(* Mutant: the attempt is not counted. *)
WakeUpUncounted ==
    /\ pc = "sleeping"
    /\ pc' = "ready"
    /\ UNCHANGED <<style, attempt, posts, started, dropped, reply, outcome>>

WakeUp ==
    /\ pc = "sleeping"
    /\ pc' = "ready"
    /\ attempt' = attempt + 1
    /\ UNCHANGED <<style, posts, started, dropped, reply, outcome>>

(* The task of the call is cancelled, at any await. *)
Cancel ==
    /\ pc # "done"
    /\ EndAs("cancelled")
    /\ UNCHANGED <<style, attempt, posts, started, dropped, reply>>

Answered ==
    \/ \E body \in Bodies : Receive(body)
    \/ Unprocessable
    \/ MayPass
    \/ NoConnection
    \/ Refused

Next ==
    \/ Post
    \/ \E post \in posts : StartFlow(post)
    \/ Answered
    \/ WakeUp
    \/ Cancel

(* The HTTP client has a timeout and the event loop resumes every task.    *)
(* The server owes nothing.                                                *)
Fairness == WF_vars(Post) /\ WF_vars(Answered) /\ WF_vars(WakeUp)

Spec == Init /\ [][Next]_vars /\ Fairness

-----------------------------------------------------------------------------
(* Properties. *)

(* Every variable has its type; no attempt is made past the last.            *)
TypeOK ==
    /\ style \in {"legacy", "wrapped", "auto"}
    /\ pc \in {"ready", "posted", "rewrap", "rewrapped", "sleeping", "done"}
    /\ attempt \in Attempts
    /\ posts \in SUBSET (Attempts \X Shapes)
    /\ started \in SUBSET (Attempts \X Shapes)
    /\ dropped \in SUBSET (Attempts \X Shapes)
    /\ reply \in Bodies \cup {NoBody}
    /\ outcome \in {"none", "result", "unprocessable", "failed", "cancelled"}

(* An attempt starts one flow at most although it may post twice, so that    *)
(* retries, late starts and shapes together never run a flow more often      *)
(* than there are attempts.                                                  *)
AttemptRunsOnce ==
    \A a \in Attempts : ~ ({<<a, "direct">>, <<a, "wrapped">>} \subseteq started)

(* What a call ends with is true of its last attempt, whatever the posts     *)
(* given up before still do: a result was computed by that attempt's flow,   *)
(* and an unprocessable command was not run by it.                           *)
OutcomeOfLastAttempt ==
    LET last == {a \in started : a[1] = attempt} IN
    /\ outcome = "result" => last # {} /\ reply # NoBody /\ ResultIn[reply] \in Fit
    /\ outcome = "unprocessable" => last = {}

(* Once a flow has answered, the command is never posted again, also when    *)
(* its answer is of no use: the work is done and would be done twice.        *)
AnsweredIsFinal == [][reply # NoBody => posts' = posts /\ reply' = reply]_vars

(* Every call ends, whatever the server does.                                *)
CallEnds == <>(pc = "done")
=============================================================================
