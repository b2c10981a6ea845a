# A verification of NexTalent

NexTalent plans the onboarding of new employees. Its repository holds two
services: the *onboarding backend* (`NexTalent-app/backend`, FastAPI over
PostgreSQL and MongoDB, with a web page in `NexTalent-app/app`) and the *A2A
service* (`a2a`, FastAPI, which stands between Langflow flows). An HR user edits
an employee, uploads a CV, and asks for a plan; the backend posts the request to
the Langflow flow WF-01; WF-01 dispatches to the profile, knowledge and planning
agents through the A2A service, each of which starts a Langflow flow and waits for
its callback; WF-01 answers the POST, or calls the backend back, or both.

This directory holds TLA+ specifications of the parts of that system whose
correctness depends on the order of events, TLC configurations that check them on
small instances, and TLAPS proofs of the most important properties for all
instances.

## 1. Inventory

| Part | State | Operations | Interacts with | Hard because | Correct when |
|---|---|---|---|---|---|
| Onboarding backend: `backend/app/main.py`, `models.py`, `database.py` | tables `onboarding_cases`, `documents`, `agent_runs`, `plans`, `questions`; collection `cv_extractions` | create / edit employee, upload CV, generate / revise plan, ask, approve, agent callback | WF-01 by POST and callback; two databases; the web page polls it | threads and an event loop run handlers together on rows they loaded earlier; results arrive twice or late; two stores, no transaction over both; restarts | plans are numbered consecutively; a case's status is justified by its rows; runs, questions and plans agree; every request ends |
| Client of WF-01: `backend/app/langflow.py` | none | `call_wf01`, `parse_jsonish`, `normalize_response` | WF-01 | replies are JSON inside text inside JSON | a terminal payload or an error is found whenever there is one |
| Response parsing: `main.py` `find_*`, `extract_*` | none | recursive searches of a JSON tree, cut off at depth 8 | handlers of results | precedence of FAILED over success, depth limit | a nested failure is never read as success; nothing is read as a failure that is none |
| CV extraction: `cv_service.py` | none | extract text, analyse it | upload | formats | (pure function) |
| Backend authentication and settings | none | login, token check | all handlers | | (stateless) |
| Web page: `NexTalent-app/app/page.tsx` | what it shows, its timers | polls runs and questions | backend | | (shows what the backend has) |
| Webhook callbacks: `a2a/app/langflow_client.py` 181-301 | registry of pending callbacks, one shared future per registration | register, join, refuse, POST, callback, timeout, cancel, close | executor flows by POST and callback; agent executor | calls that share a future end independently, keys are reused, callbacks race timeouts | no key outlives its call; results reach the call they are for, once |
| Direct run API: `langflow_client.py` 75-149, 334-511 | attempt counter | retry loop, two payload shapes, search of the reply | Langflow | a post that timed out may have run, may run now or later; replies repeat the command and nest results | one flow per attempt; nothing is posted after an answer; what is read is a result of the reply, never one inside another, and is found if there is one |
| Dispatcher: `a2a/app/dispatcher.py` | jobs by request fingerprint | dispatch, clean up, close | A2A client; the flow that retries | a job outlives the request that started it; cached results expire | one execution per request in flight; a retry finds its job |
| Agent executor: `a2a/app/executor.py` | active workers by task | execute, cancel | A2A SDK's event queue and task store; webhook callbacks | cancellation between any two steps; tasks share futures; two terminal events | no call outlives its task; a task reports what became of its call; a stopped task stays stopped; every task ends |
| Internal A2A client: `a2a_client.py` | none | invoke | executor | | a task's state becomes a result |
| Validation, registry, schemas, message utilities | constant tables | `command_from_message`, `validate_command`, reading of callbacks | gateway, client, executor, knowledge agent | each keeps a list of its own of skills or fields | what one step admits the next can use; missing inputs are all reported |
| Internal knowledge agent: `internal_knowledge_agent.py` | a collection of vectors on disk; the documents, which people edit | load, rank by words and by vectors, merge, answer | executor; Chroma; Gemini | threads of several runs on one collection that keeps every old edition; failures at any point are swallowed or tried again; Gemini is asked without a timeout | evidence is of the documents as they are; nothing better is left out; NOT_FOUND is true; a run fails only for a cause, and ends unless it waits for Gemini |
| MCP gateway: `mcp_gateway.py` | none | one tool | dispatcher | | admits what the agents can do |
| Request audit log: `request_logging.py` | the preview of a body | wrappers of receive and send | all requests | a body comes in pieces | the preview is the body's beginning; identifiers are of one request |
| Agent Cards, mock responses, configuration, key check; Langflow workflows, scripts, hosting scaffold | none, or external | | | | |

`PROJECT.json` lists the same components with the modules that model them, and the
hazards of the code line by line.

## 2. Modules

| Module | What it is |
|---|---|
| `OnboardingBackend` | the backend's tables and handlers, and WF-01's answers and callbacks as its inputs |
| `PlanLedger` | the abstract specification of the plans table: a numbered series per case, append and approve |
| `WorkflowReplies` | how the backend reads a response of WF-01, as operators on JSON trees |
| `WebhookCallbacks` | the webhook mode of the A2A service's Langflow client |
| `AgentExecutor` | A2A tasks and their cancellation, composed with `WebhookCallbacks` |
| `RunApi` | the run API mode of the Langflow client: attempts, shapes, retries |
| `FlowReplies` | how the A2A service reads a flow's reply or callback, as operators on JSON trees |
| `Dispatcher` | the dispatcher of the A2A service, with the calls it makes by their outcomes |
| `SharedWork` | the abstract specification of a service that does the work of a request once for all who ask |
| `KnowledgeAgent` | the internal knowledge agent: retrievals in threads over a folder and a collection |
| `CallbackBodies` | how it reads a callback out of its wrappers |
| `CommandPath` | a client with a command: gateway, client, message, validation, query, and the answer to a question |
| `RequestAudit` | what the audit log keeps of the bodies of a request and its response |
| `LoggedIdentifiers` | which identifiers the audit log finds in a body |
| `JsonTrees` | JSON values and paths, for the readers |
| `JsonPositions` | all values of a number of layers, and where the parts of a value stand, for the readers that search it recursively |
| `RunReplies` | `RunApi` composed with `FlowReplies`: the result in a body is what is read there |
| `Readers` | `WorkflowReplies`, `CallbackBodies` and `LoggedIdentifiers` with one subject to read |
| `MC...` | instances for TLC; `MCRunApi` gives the bodies of `RunReplies`, `MCTranslations` the subjects of `Readers`, and `MCEdge` puts both side by side with `MCCommandPath` and `RequestAudit` |
| `OnboardingBackendProofs` | TLAPS proofs about the backend: its handlers and plans, then how its tables agree |
| `WebhookCallbacksProofs`, `AgentExecutorProofs` | TLAPS proofs about the calls, and about the tasks over them |
| `KnowledgeAgentProofs`, `DispatcherProofs` | TLAPS proofs about the modules they name |
| `JsonProofs` | what the proofs about readers rest on: induction and recursion over values, places, searches |
| `RunApiProofs` | TLAPS proofs about `RunApi` and, on `JsonProofs`, about `RunReplies` |
| `EdgeProofs` | TLAPS proofs about `CommandPath`, `RequestAudit` and, on `JsonProofs`, about `Readers` |

An operator marked *Mutant* in a comment is a plausible mistake in the definition
after it; nothing uses it. It shows that the property it is kept for would notice.

### 2.1 OnboardingBackend

**State.** One variable per table, each a function over all the rows that may ever
exist. Rows are named after the HTTP request that creates them: a document after
its upload, a run and its question after the request that started it, a plan after
the request whose handler saved it. `"NONE"` (`"ABSENT"` for a case) is the status
of a row that does not exist. `handler[r]` is the progress of request `r` and the
values it has in local variables and ORM objects; `loop` says which `async` handler
is in a section without `await`.

What is kept of a row is what the handlers' decisions depend on. A CV, a plan's
text, an answer, error codes and times are left out. A result of WF-01 is one of
four kinds (`Payload`), which is what `find_terminal_payload`, `extract_plan_data`
and `extract_answer_data` make of it (`WorkflowReplies`, whose operator `Payload`
yields the same four, and `RAISES` for a result that the handlers cannot read: an answer
that is no object, or one with an object or a list for a status. When that was the answer
to a POST, the handler's `except` makes the run FAILED, which is `AgentCallFails`; when it
came by a callback nothing is committed, which is `Reject`). A semantic key is the triple operation, case,
version, with a flag for the random suffix that makes it unique.

**Concurrency.** The server is one process. `def` handlers (`create_employee`,
`update_employee`, `approve_plan`) run in FastAPI's thread pool: their load and
their commit are two steps and anything may happen in between. `async def`
handlers (`upload_cv`, `generate_plan`, `revise_plan`, `ask_question`,
`agent_run_callback`) run on the event loop: they interleave with each other only
at an `await` (the file, WF-01), but threads may commit between any two of their
database calls. So a section of an `async` handler is split into a load and a
commit wherever a thread's commit in between could be noticed, and `loop` keeps
the other `async` handlers out; a section in which nothing could be noticed is one
step. The database's isolation level is PostgreSQL's default, READ COMMITTED, and
no row is locked. A SQLAlchemy session writes a column only if the assigned value
differs from the loaded one: `Flushed` says so, and this is why an edit of a DRAFT
case does not undo another request's change of the status.

**Actions.** One per handler and outcome: `CreateEmployee`,
`UpdateEmployeeLoad/Commit`, `ApprovePlanLoad/Commit`, `UploadCv` and its four
continuations, `GeneratePlanConflict/Duplicate/Load/Create`,
`RevisePlanConflict/Create`, `AskQuestionCreate`, `AgentCallFails`,
`AgentCallReturns`, `AgentRunCallback`, and the handling of a result:
`FailPlanRun`, `SaveCompletedPlan`, `StoreResult`, `FailQuestion`,
`AnswerQuestion`. `Reject` is every answer that changes nothing (404, 409, 422, and the
500 of a callback whose handling raises).
`Crash` ends every handler in flight and keeps the databases.

Nothing relates what WF-01 answers to what it was asked: an answer, and a callback
for any run, may be of any kind at any time, and one run may get several.

### 2.2 WebhookCallbacks

**State.** For each call of `_run_webhook_agent` its place (`pc`), the future it
created, the call whose future it awaits and how it ended; the registry from keys
(agent, request, run and correlation identifiers) to the call that registered
them; and whether the client was closed.

**Concurrency.** One event loop. The lock of the registry is never held across an
`await`, so lookup-and-register, match-and-resolve and remove are single steps. A
future is shared by the call that made it and those that joined; `asyncio.wait_for`
and the cancellation of a task cancel the future they await, which is the shared
one. A resolved call is resumed later (`Wake`), so a timer or a cancellation may
come between the resolution and the resumption.

**Actions.** `Register`, `Join`, `Conflict`; the four ways a POST ends
(`PostAcknowledged`, `PostReturnsResult`, `PostUnprocessable`, `PostFails`);
`Callback`, `Wake`, `Expire`, `Cancel`, `Leave`, `Close`. `End` is the `finally`
clause: it removes the key, whoever registered it by then.

### 2.3 Dispatcher

**State.** An *asker* is one invocation of `dispatch()`; a retry is an asker of its
own with the same key. `jobs` is `_jobs`: for each key the asker that made the job.
`task` and `calls` are the background task each asker may have started and the
calls it makes; `awaited` is the task an asker waits for behind the shield; `reply`
is what it was answered. Time is one bit per job: `lapsed` says whether the time to
live has passed since somebody last asked for it (`last_seen_at`).

**Concurrency.** One event loop, and the lock around `_jobs` is never held across an
`await`: cleaning up and finding or making a job are one step (`Find`, `Start`). The
wait of an asker may end at any moment, also after the task is done and before the
asker is resumed (`AnswerInProgress`), or because the asker's own request is given up
(`Abandon`); the shield keeps both from the task.

**Actions.** `Find`, `Start`; `Invoke`, `InvokeReturns`, `Finish` of the task, in
series or in parallel; `AnswerResults`, `AnswerCancelled`, `AnswerInProgress`,
`Abandon`; `Lapse`; `Close`. `InternalA2AClient.invoke` turns every exception into a
failed result, so that a call always returns one. What calls are made of, and how two
requests get one fingerprint, is left out.

**Refinement.** `SharedWork` knows executions and what askers were told, and neither
jobs nor times. An execution of it is a task of the dispatcher; a retry that finds a
job is a stutter.

### 2.4 AgentExecutor

**State.** For each task the place of its `execute()` (`stage`), whether its worker is
registered (`active` is `_active`), how far the one `cancel()` of it is (`asked`),
whether that found the worker at work (`stopped`, for the properties), and the events
of its current turn (`emitted`). The worker of a task is the call of
`WebhookCallbacks` with the task's name: a step of a worker is a step of that module,
and its variables are those of this one.

**Concurrency.** One event loop; `execute()`, the worker and `cancel()` are three
coroutines. The lock around `_active` is never held across an `await`, so the command
is checked and the worker created and registered in one step (`StartWorker`). The
library runs the turns of a task one after the other and calls `cancel()` by the last
state it stored. Whether it also cancels the coroutine of `execute()` after `cancel()`
returned is left open: `Interrupt` may happen or not.

**Actions.** `Execute`, `RequireInput`, `RefuseCommand`, `StartWorker`; the worker's
`WorkerSteps`; `PublishArtifact`, `Conclude`, `ReportError`, `ReportCanceled`,
`Finish`; `AskToCancel`, `AnswerCancel`, `Interrupt`.

### 2.5 RunApi and FlowReplies

**State.** The style of the API, the place of the call, its attempt, what it has
posted, which of the posts the server has started a flow for and which it never will,
the body it received and how it ended. Bodies are a constant, with the result that can
be read from each; `RunReplies` assumes that bodies are JSON values and that the reading is
the operator `Extract` of `FlowReplies` (`RepliesAssumption`).

**Actions.** `Post` in either shape; `StartFlow`, at any time after the post, also when
the client gave up; `Receive`, `Unprocessable`, `MayPass` (429, 502, 503, 504 or a
timeout), `NoConnection`, `Refused`; `WakeUp` after the pause; `Cancel`. That a server
that answers 422 has not run the flow is what `_post_run_flow` says of Langflow, and is
assumed.

**FlowReplies.** A tree for a value; of a text only the values its candidates parse to,
in the order they are tried. `Extract` looks into the body, then the message's texts at
the five paths, then all texts. The command that a body echoes is part of it: a result that
stands there as an object is found before the flow's message, and one in its text when the
message holds none. `ResultsAreRead` says what is read wherever it stands, not whose it is.

### 2.6 KnowledgeAgent

**State.** The folder (`folder`, `present`), the collection of vectors, and for each run
its place, its attempt, the files listed and unread, the chunks loaded, those found in
the collection, the evidence and how it ended for its caller. A chunk is its
identifier, a hash of file, place and text, so that an edited text is other chunks.
`seen` collects what was in the folder since the run listed it, and `gone` which of the
files that it had still to read were removed, for the properties. Two constants say what a
text is like: `Unreadable` files raise when they are read, and only chunks of `Worded` have
a token, which an Arabic text has not. Scores are constants: any numbers for vectors, and for BM25 any function of a chunk and
of all the chunks loaded, as inverse document frequencies make it.

**Concurrency.** `_retrieve` runs in a thread; each file read, and each call of Chroma,
is a step, and other runs, people and restarts come between. A cancelled run's thread
goes on and still adds to the collection. A failed attempt within langgraph is followed
by one without. The thread pool is assumed to have room: calls of Gemini that hang hold
places in it, and with enough of them no retrieval would start.

**Actions.** `ListFiles`, `ReadFile`, `ReadFails`, `ScoringFails` (`BM25Okapi` divides by the
number of different tokens), `Loaded`, `FetchKnown`, `AddMissing`, `Query`, `ChromaFails`,
`Ask` (the call of Gemini begins), `Answer`; `Cancel`, `Restart`; `Write` and `Remove` of people.

### 2.7 CommandPath

**State.** One client's latest command (agent, skill and the fields it gives, each with
the kind of its value), the way it came, what became of it, what the answer says is
missing, and whether the client has answered that.

**Actions.** `CallGateway` (skills of the MCP schema), `CallDispatch` (any skill),
`SendMessage` and `SendOther` (a message with a command after other parts, or without
one), `Answer`: the client sends its command again, the way it did, with one of each of
the alternatives it was asked for. A step takes the command through the whole path, since
nothing on it waits: the client's check of the skill (`Invoke`), the reading of the
message and its validation (`Execute`).

### 2.8 RequestAudit

**State.** The preview, size and flag kept of the request's and of the response's body,
all that passed (for the properties), and whether the record was written.

**Actions.** `ReceiveWrapper` and `SendWrapper`, one piece of a body each, in any order;
`LogRequest`, when the application returns or raises, however much has passed.

### 2.9 The readers

`WorkflowReplies`, `FlowReplies`, `CallbackBodies` and `LoggedIdentifiers` have no
variables. Each states at its end what its operators are to give. `Readers` has one input
as its state, which is then read, and makes invariants of the statements of three of them;
`RunReplies` makes one of those of `FlowReplies`, of the body that a call received.

**Exceptions.** `find_terminal_payload` asks whether a status is in a set, and Python raises
when the status is an object or a list (`Raised`); a search that comes to one before it has
an answer ends with that (`Stops`). `IsFailed` compares, and so never raises.

**Values.** A value of `Trees[n]` nests at most `n` layers; keys and texts have names of
`Names`, and objects and lists any length. What is sent nests `MaxLayers` layers. A text is
a layer too: it holds the values that its candidates parse to. The readers that search
whole values are functions on them, defined by recursion over the value or over the levels
that are left to search, as the calls in the code are nested.

## 3. Runs

All with `tlc -config <run>.cfg <module>.tla`. Deadlock checking is off because every
request (call, task, input) of an instance is made once and the system then rightly
stops.

| Run | Instance | Shows |
|---|---|---|
| `backend` | the life of a case (an upload, an edit, a generation, a revision, an approval, a callback); or two generations and a forced one over two cases, one created meanwhile, with an upload and an edit; or a generation and a question with two callbacks for either; restarts in each | `TypeOK`; `PlanVersionsConsecutive`; `StatusJustified`; `HandlersCurrent`, the inductive part of the proofs; `SemanticKeysUnique`; `ProcessedHasExtraction`; `CompletedRunHasPlan`; `QuestionFollowsRun`; `RunningExplained`; `ReadyOnlyAfterUpload`; the plans table implements `PlanLedger`; `RequestsEnd` (liveness) |
| `backend_no_artifact` | an upload, a generation | violated: `InvalidArtifactIsError` |
| `backend_plan_twice` | an upload, a generation, a callback | violated: `OnePlanPerRun` |
| `backend_lost_edit` | two edits | violated: `PatchIncrementsVersion` |
| `webhook_sharing` | two identical calls, one with another payload, one with another key; three results, one of the wrong type | `NoLeak`; `ResultsBelong`; `AcceptedLostByPost` |
| `webhook_accepted` | two identical calls | violated: `AcceptedCompletes` |
| `webhook_one_flow` | four identical calls | violated: `OneFlowAtATime` |
| `agent_tasks` | two tasks with one command; a good result, a failed one, one of the wrong type | `TaskTypeOK`; `CallsHaveOwners`; `ReportsAreTrue`; `StoppedMeansStopped`; `TasksEnd` (liveness) |
| `agent_canceled` | two tasks with one command | violated: `CanceledOnlyIfAsked` |
| `knowledge` | two runs; a text with two editions, a PDF whose second edition is in Arabic, a text that cannot be read; two changes, one chunk of evidence; words too common for BM25 | `EvidenceWasCurrent`; `NothingBetterLeftOut`; `NotFoundIsTrue`; `FailsOnlyForCause`; `RunsEnd` (liveness) |
| `dispatch_sharing` | two requests with the same two calls in series, one with another call | `OneExecutionAtATime`; `RetriesShare`; the dispatcher implements `SharedWork`; `DispatchesEnd` (liveness) |
| `edge` | 85,268 states: one for each input of section 2.9; `CommandPath` with every command that gives at most two fields; `RequestAudit` with up to four pieces of up to two bytes and limits of three and of zero bytes; `RunReplies` with three attempts, three styles, and bodies with the result bare, in a list, in text, in a wrapped message, beside and inside other results and echoes, broken or missing | of WF-01's responses `OutcomesShow`; of them and of callbacks `WrappersUnwrap`; of logged bodies `RequestsAreNamed`; of commands `CommandsArrive`, `AskingOnceSuffices`, `AcceptedIsQueried`; of the audit `LogIsTrue`; of the run API `AttemptRunsOnce`, `ResultsAreRead`, `AnsweredIsFinal`, `CallEnds` (liveness) |

**Bounds.** An instance is bounded by its set of requests, calls, tasks or runs; beyond
that `MaxEdits` bounds the changes of the folder, and `InScenario` keeps the requests of
`backend` to one of its three scenarios, since all of them in every order are too many.
Versions and plan numbers grow with the requests, and a restart needs a handler in
flight, so there are finitely many. The instances are chosen so that each hazard can
happen: a wrong plan number needs two results for one case, a stale status one thread and
one handler that awaits, a semantic key two generations and an edit, a wrong removal from
the registry a call, a joiner that outlives it, a second registration, and a fourth call
that notices. A task cancelled by another needs two that share a future. A second flow of
an attempt needs both shapes, a late start a second attempt, and a third attempt shows
that counting goes on. Stale evidence needs an edit after another run indexed the old
edition; a failure of both attempts two files that vanish, one that is there and cannot be
read, or a folder that two changes leave with nothing but Arabic.
A second execution beside the first needs one retry; a clean-up by a stranger, a request
of another key; an answer in the middle, a series of two calls. In `dispatch_sharing`
every call fails: no property of that run tells outcomes apart, and the dispatcher does
not either. Responses are nested up to the depth of 8 at which the backend stops looking,
and beyond it. `MaxLayers` (24) is no bound on the inputs, which
are listed and nest less, but must be some number; the proofs leave it open. Two fields
(`MaxGiven`) show every way a requirement can be met or missed, and each skill has at most
two requirements. Of the audit, `MaxPiece`, `MaxPieces` and
the limits let a piece just fit, overflow by one byte, be empty, and come when the preview
is full; a limit of zero keeps nothing.

**Fairness.** *Backend:* some handler that can continue does (`Proceed`), as the event
loop and the thread pool see to; some call of WF-01 fails if nothing else happens
(`AgentCallFails`), because httpx has a timeout (`langflow_timeout_seconds`, connect
30 s). WF-01 need never answer, no callback need come, no client need call. *Calls and
tasks:* each coroutine that can run does, the POST returns or times out, the timer of
`wait_for` fires. Callbacks, cancellations and the shutdown are never promised. *Run API:*
the client posts, gets an answer, a refusal or its timeout, and wakes up; the server need
not run anything. *Knowledge agent:* of the runs that began and do not wait for Gemini some
run gets on, as threads run and the local Chroma returns. A call of Gemini has no timeout
and need not return (`Ask` is followed by `Answer` or by nothing), so that `RunsEnd` says
nothing of a run that waits for one; nobody need edit, cancel or restart.
*Dispatcher:* a task goes on (`Execute`), since the HTTP client of `invoke` has timeouts,
and `wait_for` ends a wait (`AnswerInProgress`). Retries, the end of a time to live and
the shutdown are never promised. *Commands, audit and readers:* none; they have safety
properties only.

## 4. What the documentation says and the code does not do

Each is a run that TLC refutes; `PROJECT.json` quotes the sentences.

* *An invalid artifact is no error* (`backend_no_artifact`). A terminal success without a
  plan is stored like an acknowledgement and answered 200 with a run that says RUNNING,
  where the documentation has a 502; so is one without an answer to a question. Unless a
  callback comes, nothing settles that run.
* *One run, two plans* (`backend_plan_twice`). A callback is compared with nothing
  but the run's identifiers, and the handling of a result does not ask whether the
  run is still RUNNING. WF-01 answering its POST and also calling back, or calling
  back twice, saves a plan each time. The plans get consecutive numbers all the same.
* *A lost edit* (`backend_lost_edit`). Two edits that loaded the same version
  increment it once; the same happens to an edit during an upload. The version is
  part of the semantic key of a generation, so a generation after both edits can be
  answered with the run made after the first.
* *An accepted callback is lost* (`webhook_accepted`). A callback that comes while
  the POST is outstanding is accepted; if the POST then times out or fails, the call
  raises. (A 422 after a callback loses the result too; the property excuses it, as a
  command that no flow can run.)
* *A duplicate flow* (`webhook_one_flow`). A joiner that is resumed after the call it
  joined has ended removes, when it ends itself, a registration made since; the
  next duplicate starts the flow a second time while the first is in flight. The property
  is about an open client: `close()` empties the registry too, but its calls can no longer
  post. A joiner that is cancelled while the call it joined still posts also removes the
  key, and two flows may run; but it cancels the shared future with itself, so that nobody
  waits for the first any more.
* *Cancelled with another* (`agent_canceled`). Two tasks with the same command await one
  future. Cancelling one, or the end of its wait, cancels the future, and the other task
  reports CANCELED although nobody asked.

The models show more that no document speaks about: a run of a dead server stays
RUNNING; a run completed by a callback is marked FAILED when its POST times out; an
unforced retry of a failed generation is answered with the failed run; a plan that
arrives after an edit takes the case from DRAFT to REVIEW; an acknowledgement handled
after a callback replaces the completed run's stored result; an answer that is no object,
or that has an object or a list for a status, fails its run though nothing in it says so;
a result that stands in an echoed command can be read as the flow's own; a folder of
Arabic texts alone fails every retrieval; a command accepted for `question: 5` asks nothing;
the failure of a later item
of a list is hidden by an earlier item that ended; an empty plan in an outer object hides
one further in; text under an early wrapper key is taken for the answer though a later key
holds the response; a call whose POST returns a result directly returns that one though
the joiners were given the callback's; a flow may be run once for each attempt; vectors of
old editions take the places of current ones among the nearest; a preview cut by the limit
is not marked so if the body's last piece is empty; and a job that runs for longer than
the time to live after it was last asked for is forgotten by the first dispatch after its
end, so that nobody gets its results.

## 5. Proofs

With `tlapm <module>.tla`; every obligation is proved. The theorems hold for all
finite or infinite sets of cases, requests, calls, tasks, keys, results, runs, bodies,
commands and bytes (of chunks, for finite sets), and for values of any number of layers,
under the named assumptions on the constants, which TLC evaluates in the runs. Every
safety property that a passing run checks is proved: each invariant, each action property
and both refinements.

Three kinds of theorem go beyond the properties of the passing runs:

* *Why a documented promise fails.* For five of the six runs that refute one, a theorem
  names the only ways in which it can, or a condition under which it holds:
  `DuplicatesByCallback` and `OncePerRun` (a second plan needs a callback), `NoLostEdit`
  (a lost edit needs two edits or uploads of one case in flight), `LostByPostOnly` (an
  accepted result is lost by its POST or its timer), `SecondFlowByJoining` (a second flow
  needs a call that joined another), `CanceledByOthers` (an unasked cancellation needs
  another task with the same future, or the shutdown). The sixth, `backend_no_artifact`, needs
  no cause beyond the answer itself; `RunningIsExplained` counts it among the three.
* *The safety half of liveness.* `NoHandlerGoesBack`, `NoTaskGoesBack`, `StepsBounded`,
  `NoRunGoesBack` and `NothingGoesBack` (of the dispatcher) say that each step takes one
  handler, task, call or run on in a finite course, and what else a step may be. So nothing
  goes round in circles, and of `RequestsEnd`, `TasksEnd`, `CallEnds`, `RunsEnd` and
  `DispatchesEnd` only the fairness of the next step is left to TLC.
* *What holds of hazards that no document speaks of.* `SettledByCallback` and
  `SettledForGood` say when the status or the result of a settled run is replaced.

The type invariants of `RunApi`,
`KnowledgeAgent` and `Dispatcher`, `OutcomeOfLastAttempt` and `QueriedIsIndexed` follow
from the same inductive invariants and are left to the proofs; that of
`WebhookCallbacks` is part of `TaskTypeOK`, which `agent_tasks` checks.

**OnboardingBackendProofs.** The inductive invariant is `TypeOK /\ HandlersCurrent`.
`HandlersCurrent` says what a handler may rely on between its steps:

* `LoopExclusive`: a handler is in a section without `await` iff `loop` names it, so
  there is at most one;
* `RowsComplete`: a request that has not ended has saved no plan or document, and one
  that has not yet called WF-01 no run; existing runs and plans belong to a case;
* `HandlerCurrent`: the row a handler works on exists, the semantic key it found free
  is free, the extraction it stored is there, and the latest plan number it read is
  still the latest (`ResultCurrent`).

The last is what makes numbering correct: `PlanVersionsConsecutive` alone is not
inductive, because a handler that holds a stale number would break it one step
later. The threads never add a plan, and `LoopExclusive` keeps the other `async`
handlers out; an `await` between the read and the insert would break it, as the
mutant `AgentCallReturnsYields` shows. From the invariant follow `TypeCorrect`,
`HandlersStayCurrent`, `PlanNumbering` (a second induction, on top of it) and
`LedgerImplemented` (initial states map to initial states; every step maps to an
`Append`, an `Approve` or a stutter).

Then come four more inductions on top of that invariant, one for each pair of stores: `ExtractionFirst`, `KeysUnique`, `CompletionHasPlan`, `QuestionsAgree`. Each
begins with lemmas that say which actions write the table at all (`DocumentsChange`,
`ExtractionsGrow` and the like), so that the other actions need no case of their own.

`StatusJustified` is not inductive. A handler that fails a run
without a plan sets READY_FOR_PLAN unless the case was in DRAFT, by the status and the
number of plans it loaded; what it loaded must have been one that an upload gave
(`LoadedEarly`: while no plan of a case exists, a handler of its result holds DRAFT or
READY_FOR_PLAN), and rows must belong to cases that exist (`CasesNamed`). With `SInv`,
the three together, follow `StatusTrue` and the action property `ReadyByUpload`.
`RunningIsExplained` needs `OwnRun`: a handler of a callback has no run of its own. It
leaves three reasons for a run that says RUNNING with nobody at work on it, and an error
that its client got is none of them.

A handler that is not a callback's handles its own run and saves its plan for it
(`OwnResult`). This gives `DuplicatesByCallback`, and `OncePerRun` where no request is a
callback. With it, and with the observation that the handler of a settled run is over
unless a callback settled it, follow `SettledByCallback` and `SettledForGood`. `NoLostEdit`
rests on `Fresh`: as long as no two edits of a case are in flight (`EditsApart`, a
hypothesis on the behaviour), each still holds the version that its case has.
`NoHandlerGoesBack` orders the phases of a handler; a crash is the one step that takes on
more than one.

**WebhookCallbacksProofs.** The inductive invariant relates the registry, the futures
and the calls; from it follow `TypeCorrect`, `RegistryNeverLeaks`
and `ResultsStayWithTheirCommand`. Two more inductions
on top of it say that a call with a future of its own awaits it (`OwnFuture`) and that a
flow without its key had it taken (`Held`). From the first follow `JoinersAgree`, that
calls which joined one flow end alike unless by their own timeout or cancellation, and
`LostByPostOnly`; from the second `SecondFlowByJoining`.

**AgentExecutorProofs.** A step of the tasks is a step of the calls or leaves them alone,
so the invariant of `WebhookCallbacksProofs` holds for them too. To it the proof adds
four facts of each task: how the stage of `execute()` and the place of the call go
together (`Staged`), what may have cancelled a call (`Called`), what may be reported at
which stage (`Reported`), and where a stopped task can be (`Halted`). `ReportsAreTrue`
needs `Called`, since a report speaks of a call that has ended before. From it follow
`TasksTyped`, `NoOrphans`, `TrueReports` and the action property `StopsForGood`.
`TasksMakeCalls` shows the composition, that the calls of the tasks behave as
`WebhookCallbacks` allows, and `TasksKeepCallsSafe` what that is good for.
`CanceledByOthers` follows from whoever cancelled a future (`FutureExplained`).
`VerdictsExclude` says that no task reports to have completed and to have failed, and a
cancellation beside either only through `cancel()`; it is inductive once nothing is
reported before the execution closes (`VerdictFacts`). `NoTaskGoesBack` adds up how far
`execute()`, the call and `cancel()` of a task are: between two questions to the client a
task takes at most 13 steps.

**RunApiProofs.** The inductive invariant says which posts can exist at each place of the
call, and that a wrapped post of an attempt is its only one or follows a direct one whose
flow was never started (`WrappedLast`), which is what `RunsOnce` rests on. From it follow
also `TypeCorrect`, `OutcomeTrue` and the action property `FinalAnswer`. `StepsBounded`
counts the steps left, five for each attempt.

`RepliesRead` is about what a call reads from the body it received. By induction over
values `_find_result` gives the first of the results in a value, outermost first
(`FindResultIs`), and the texts collected are all of the value's
(`CollectStringsIs`); then `Extract` looks in the body, in the message's texts and in all
texts, and takes the first of these that has a result (`ExtractIs`). From this follow its
three parts: the result is outermost (`OutermostIsTaken`), it stands in the body
(`ReadStandsInBody`), and a body with a result is not answered without one
(`ResultIsFound`). That it is the flow's own, and not an echo, is not said.

**KnowledgeAgentProofs.** The inductive invariant ties what a run loaded and retrieved to
the folder since it listed the files (`LoadedSeen`), what it found missing to the
collection, which only grows (`KnownIndexed`), and each listed file that is not there to
a removal since (`RemovedAreGone`). From the last follows `FailuresHaveCauses`. That the
merge leaves out nothing better (`RankingFair`) is shown of the sets of best chunks, by
their cardinalities; `NotFoundTrue` follows from it and from the fallback to plain counts.
`EndedHoldNothing` says what is left of a run that ended, and `NoRunGoesBack` that a run
goes through its attempts and phases in order, with ever fewer files unread.

**DispatcherProofs.** The inductive invariant adds to `TypeOK` that a task at work is
the registered job of its key (`JobsMatchTasks`), that an asker shares a task of its
own key and has results only of a finished one (`AskersMatchTasks`), and that a job
that was asked for is gone only after its time to live (`GoneHaveLapsed`).
`OneExecutionAtATime` is not inductive without the first: a second task would be
started as soon as the registry lost a running one. From it follow `TypeCorrect`,
`SingleExecution`, the action property `RetriesStartNothing` and
`SharedWorkImplemented`, with one lemma per kind of step for the invariant and one
for the simulation. A second induction (`CallsKept`) follows the calls of a task: those
of a series in turn (`SeriesInTurn`), all of them before the task's end (`WholeResults`),
and none of a task at work after the shutdown (`StoppedByShutdown`). `NothingGoesBack`
says that askers, tasks and calls only go on, that a time to live begins again only with
an asker that comes, and that a task at work always has a call to make, a call that runs,
or nothing left but its end: the first of its calls that has not answered is never waiting
for another.

**EdgeProofs.** `LogTrue` is an induction over the pieces of the bodies, on lemmas about the
beginning of a concatenation (`TakenConcat`, `AppendKeepsTrue`). `Arrival` and `AskedOnce`
rest on `CommandInv`, what became of the latest command by the way it came, and on lemmas
about the operators: the two lists of skills agree, the command is the first object of its
message whatever stands before it, and what the client is asked for meets every
requirement that was missing (`AnswerMeets`). `AcceptedQueried` compares two lists of
fields, and speaks of commands accepted for a text or for topics in a list.

The readers follow, each first shown to be a function that satisfies its recursive
equation.
* `Outcomes`: by induction over the levels left to search, `find_terminal_payload` gives
  something that ended, or raises at a status it cannot compare, and passes over a failure
  or such a status only behind an ended item of a list (`EndsShown`), `find_plan_data` passes over a plan only below an empty one
  (`PlansFound`), and `find_errors` gives errors that stand in the value it was given
  (`ErrorsFound`). A failure deeper than the search is of no concern to it: the positions
  searched are those up to the depth of the levels (`SearchedIs`).
* `WrappedRead`: a callback reads the same bare, as text or under any key of a wrapper
  (`CallbacksUnwrap`), and a response of WF-01 under two wrappers, in every combination of
  objects and texts (`ResponsesUnwrap`). The latter rests on what `parse_jsonish` makes of
  one more wrapper (`UnderParses`); `ParseJsonishIs` bounds what parsing gives by what was
  sent.
* `RequestsNamed`: of a value whose objects name whole requests or none, the walk learns
  the first of them, and nothing if there is none (`EachLearnsFirst`, an induction over
  values with one over the children of each).

**JsonProofs.** The induction theorems of the library take a formula as their parameter,
which the provers cannot instantiate; so the module has sets and functions in its place.
`Induction` is over the numbers in a set, from the well-foundedness of `<`. `Recursion`
shows that there is a function with `f[x] = G[x][f]` when `G[x]` depends only on values of
lower rank, by joining the functions of all initial segments; `Stepwise` and
`TreeRecursion` are that for numbers and for JSON values, ranked by the layers they nest.
With `TreesExist` values themselves are such a function, and with `TreeInduction` what is
true of a value when it is true of all it holds is true of all. The rest says where the
parts of a value stand (`PartsBelow`, `PlaceBelow`, `EarlierOne`), that parts of parts are
parts (`PartsOfParts`), and what the first of several found values is (`FirstFoundIs`,
`FirstFoundConcat`).

**Assumptions.** Most give constants their types, or say that a model value for nothing is
no member of a set. The others: of `RunReplies`, that bodies are JSON values and read by
`Extract`; of `Readers` (`SubjectsAssumption`), that the keys of wrappers are names, that
what is sent nests at most `MaxLayers` layers, and what is sent under wrappers five fewer,
since two wrappers and their texts are five; of `KnowledgeAgent`, that there are finitely
many chunks, that similarities are positive, and that something may be retrieved
(`TopK`); of `CommandPath`, that commands name one of the agents, and that what stands
before a command in a message reads as no object.

**Only model-checked.** Liveness (`RequestsEnd`, `TasksEnd`, `CallEnds`, `RunsEnd`,
`DispatchesEnd`): fairness and `ENABLED` are out of the prover's reach, and what can be
said without them is proved.

**Left open.** That the abstract specifications give what they are for (one execution at
a time of `SharedWork`, consecutive numbers of `PlanLedger`) is proved only of the modules
that implement them, not of the abstract ones. Of a run whose case was edited in flight,
nothing says what its plan may do to the case's status, since nothing in the repository
does.

## 6. Not modelled

CV extraction, authentication, settings and the formats of the request schemas are pure
functions of one request. The web page shows and polls rows of the backend and keeps
nothing that another part reads. Of the internal A2A client the events of the SDK that it
folds into a result are left out: which events a task's end makes is up to the SDK, and
the client takes the last. Agent Cards are made from the registry; mock responses are
canned. Of the audit log, redaction, headers and the record itself are left out; of the
MCP gateway its transport. Scores, prompts and the wording of answers of the knowledge
agent are abstracted to their order or left out. Langflow's flows, PostgreSQL, MongoDB,
Chroma and the A2A SDK are external: the models take any behaviour from the flows, and
from the others what section 2 says. A commit that fails, for want of a connection for
instance, is modelled only as the failure of the CV's storage and as the restart, so that
`RunningExplained` holds provided the commits that settle a run succeed. Of
`asyncio.wait_for` the models have the behaviour of Python 3.12, which the Dockerfile
names: earlier versions may lose a cancellation that meets a resolved future. Scripts
and the hosting scaffold are no part of the running system.
