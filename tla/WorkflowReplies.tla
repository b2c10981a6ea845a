-------------------------- MODULE WorkflowReplies --------------------------
(***************************************************************************)
(* How the onboarding backend reads what WF-01 sends: in the answer to the *)
(* POST (backend/app/langflow.py) or in a callback (backend/app/main.py).  *)
(* WF-01 is a Langflow flow, and the agent's response may come bare, as    *)
(* text, or under wrapper keys.  What it comes to is the payload that the  *)
(* handlers of OnboardingBackend tell apart.                               *)
(*                                                                         *)
(* The candidates cut from a text are the text without its Markdown fence  *)
(* and what stands between its first brace and the one that closes it;     *)
(* `docs' is empty when neither is JSON.                                   *)
(***************************************************************************)
EXTENDS JsonPositions

WrapperKeys == <<"text/result", "text", "result", "output", "message", "content", "data">>

AgentResponseKeys ==
    {"schema_version", "operation", "status", "request_id", "run_id", "security_outcome",
     "requires_human_review", "callback_status", "warnings", "errors"}

IsAgentResponse(value) == IsObject(value) /\ KeysOf(value) \cap AgentResponseKeys # {}

(* As Python's bool() has it; an atom is a number other than 0, or true. *)
Truthy(value) ==
    CASE IsText(value) -> value.name # ""
      [] IsObject(value) -> value.entries # <<>>
      [] IsList(value) -> value.items # <<>>
      [] OTHER -> value # None

FirstTruthy(values) == FirstWhere(values, Truthy)

-----------------------------------------------------------------------------
(* From a wrapped response to the response. *)

(* Mutant: a wrapper is looked into once. *)
ParseJsonishOnce(parse, value) ==
    LET under == [i \in DOMAIN WrapperKeys |-> Get(value, WrapperKeys[i])]
    IN CASE IsText(value) /\ value.docs = <<>> -> Object(<<Entry("answer", value)>>)
         [] IsText(value) /\ value.docs # <<>> -> parse[Head(value.docs)]
         [] IsObject(value) /\ ~ IsAgentResponse(value) /\ FirstWhere(under, IsObject) # None ->
                FirstWhere(under, IsObject)
         [] OTHER -> value

(* Text that is no JSON is taken for an answer, so text under an earlier *)
(* wrapper key hides what a later one holds.                             *)
ParseJsonishWith(parse, value) ==
    LET under == [i \in DOMAIN WrapperKeys |-> parse[Get(value, WrapperKeys[i])]]
    IN CASE IsText(value) /\ value.docs = <<>> -> Object(<<Entry("answer", value)>>)
         [] IsText(value) /\ value.docs # <<>> -> parse[Head(value.docs)]
         [] IsObject(value) /\ ~ IsAgentResponse(value) /\ FirstWhere(under, IsObject) # None ->
                FirstWhere(under, IsObject)
         [] OTHER -> value

ParseJsonish[value \in Tree] == ParseJsonishWith(ParseJsonish, value)

ResponsePaths ==
    << <<"result">>,
       <<"outputs", "[0]", "outputs", "[0]", "results", "message", "data", "text">> >>

NormalizeResponse(sent) ==
    LET parsed == ParseJsonish[sent]
        held == FirstTruthy([i \in DOMAIN ResponsePaths |-> Dig(parsed, ResponsePaths[i])])
        unwrapped(entry) ==
            IF entry.key \in ToSet(WrapperKeys)
            THEN Entry(entry.key, ParseJsonish[entry.value]) ELSE entry
    IN CASE IsAgentResponse(parsed) ->
                Object([i \in DOMAIN parsed.entries |-> unwrapped(parsed.entries[i])])
         [] ~ IsAgentResponse(parsed) /\ held # None ->
                IF IsObject(ParseJsonish[held]) THEN ParseJsonish[held] ELSE held
         [] OTHER -> parsed

-----------------------------------------------------------------------------
(* What a response says of its run. *)

Operations == {"PLAN", "QUESTION"}

MaxDepth == 8

StatusOf(value) == LET s == Get(value, "status") IN IF IsText(s) THEN s.name ELSE ""

IsFailed(value) == StatusOf(value) = "FAILED"
IsSuccess(value) == StatusOf(value) \in {"SUCCEEDED", "COMPLETED"}

(* Looking for an object or a list in a set of statuses raises TypeError. *)
IsUnhashable(status) == IsObject(status) \/ IsList(status)

(* What a search has for its result when it raises. *)
Raised == [kind |-> "raised"]

(* What an object that has not failed comes to by its own status. *)
OwnEnd(value) ==
    IF IsUnhashable(Get(value, "status")) THEN Raised
    ELSE IF IsSuccess(value) THEN value ELSE None

(* Searches end below MaxDepth: they have as many levels left to look at. *)
Levels == 0 .. MaxDepth + 1

(* Mutant: what an object says of itself comes before what it holds. *)
FindTerminalOuter(find, value) ==
    LET nested == [i \in DOMAIN Children(value) |-> find[Children(value)[i]]]
    IN IF IsFailed(value) THEN value ELSE FirstFound(<<OwnEnd(value)>> \o nested)

Stops(found) == found = Raised \/ IsFailed(found)

(* A failure anywhere in an object comes before the object's own success; of *)
(* the items of a list the first that is terminal counts, failed or not.     *)
FindTerminalWith(find, value) ==
    LET nested == [i \in DOMAIN Children(value) |-> find[Children(value)[i]]]
    IN CASE IsFailed(value) -> value
         [] IsObject(value) /\ ~ IsFailed(value) ->
                FirstFound(<<FirstWhere(nested, Stops), OwnEnd(value)>> \o nested)
         [] OTHER -> FirstFound(nested)

TerminalWithin[levels \in Levels] ==
    [value \in Tree |->
        IF levels = 0 THEN None ELSE FindTerminalWith(TerminalWithin[levels - 1], value)]

FindTerminal(value) == TerminalWithin[MaxDepth + 1][value]

(* extract_plan_data wants the plan itself, empty or not; extract_answer_data *)
(* the object that has an answer.                                             *)
Artifact(operation, value) ==
    CASE operation = "PLAN" -> IF IsObject(Get(value, "plan")) THEN Get(value, "plan") ELSE None
      [] operation = "QUESTION" ->
             IF Truthy(Get(value, "answer")) \/ Truthy(Get(value, "response"))
             THEN value ELSE None

SearchedFirst == <<"result", "text", "output", "message", "content", "data">>

(* Mutant: only what the searched keys hold is looked into. *)
FindArtifactKeyed(operation, find, value) ==
    LET named == [i \in DOMAIN SearchedFirst |-> Get(value, SearchedFirst[i])]
    IN IF Artifact(operation, value) # None THEN Artifact(operation, value)
       ELSE FirstTruthy([i \in DOMAIN named |-> find[named[i]]])

FindArtifactWith(operation, find, value) ==
    LET named == [i \in DOMAIN SearchedFirst |-> Get(value, SearchedFirst[i])]
        places == named \o Children(value)
    IN IF Artifact(operation, value) # None THEN Artifact(operation, value)
       ELSE FirstTruthy([i \in DOMAIN places |-> find[places[i]]])

ArtifactWithin[levels \in Levels] ==
    [operation \in Operations |->
        [value \in Tree |->
            IF levels = 0 \/ value = None THEN None
            ELSE FindArtifactWith(operation, ArtifactWithin[levels - 1][operation], value)]]

FindArtifact(operation, value) == ArtifactWithin[MaxDepth + 1][operation][value]

FindErrorsWith(find, value) ==
    LET errors == Get(value, "errors")
    IN IF IsList(errors) /\ Truthy(errors) THEN errors
       ELSE FirstFound([i \in DOMAIN Children(value) |-> find[Children(value)[i]]])

ErrorsWithin[levels \in Levels] ==
    [value \in Tree |->
        IF levels = 0 THEN None ELSE FindErrorsWith(ErrorsWithin[levels - 1], value)]

FindErrors(value) == ErrorsWithin[MaxDepth + 1][value]

(* Mutant: a run's error is looked for in all of the response. *)
ErrorsOfResponse(response) == FindErrors(response)

(* extract_error_info, of the terminal object if there is one. *)
ErrorsOf(response) ==
    LET terminal == FindTerminal(response)
    IN FindErrors(IF terminal # None THEN terminal ELSE response)

(* handle_plan_generation_result and handle_question_result, which ask a     *)
(* response without a terminal object for its status and raise if it is no   *)
(* object.  What raises fails the run when it was the answer to the POST (in *)
(* OnboardingBackend AgentCallFails), and leaves it as it was when it came   *)
(* by a callback (there Reject).                                             *)
Payload(operation, response) ==
    LET terminal == FindTerminal(response)
        artifact == FindArtifact(operation, response)
    IN CASE terminal = Raised \/ (terminal = None /\ ~ IsObject(response)) -> "RAISES"
         [] IsFailed(terminal) -> "FAILED"
         [] IsSuccess(terminal) /\ Truthy(artifact) -> "DONE"
         [] IsSuccess(terminal) /\ ~ Truthy(artifact) -> "NO_ARTIFACT"
         [] terminal = None /\ IsObject(response) -> "ACK"

-----------------------------------------------------------------------------
(* What reading a response is to give. *)

Searched(response) == {p \in Parts[response] : Len(p.at) <= MaxDepth}

(* p stands in a list behind an item that is terminal. *)
Behind(p, response) ==
    \E list, item \in Searched(response) :
        /\ IsList(list.is)
        /\ IsFailed(item.is) \/ IsSuccess(item.is)
        /\ \A q \in {p, item} : Within(q, list) /\ ~ Within(list, q)
        /\ item.at[Len(list.at) + 1] < p.at[Len(list.at) + 1]

(* main.py find_terminal_payload: a response is taken for a failure only if  *)
(* something in it failed, and is unreadable only if it is no object or a    *)
(* status in it is an object or a list; neither is passed over anywhere in   *)
(* it, except in a list behind an item that is terminal already.             *)
FailureIsNotHidden(operation, response) ==
    LET failures == {p \in Searched(response) : IsFailed(p.is)}
        unhashable == {p \in Searched(response) : IsUnhashable(Get(p.is, "status"))}
    IN CASE Payload(operation, response) = "FAILED" -> failures # {}
         [] Payload(operation, response) = "RAISES" ->
                unhashable # {} \/ ~ IsObject(response)
         [] OTHER -> \A p \in failures \cup unhashable : Behind(p, response)

(* main.py find_plan_data: a success without a plan has none at any depth    *)
(* that is searched, except below an object that names an empty one.         *)
PlanIsFound(response) ==
    LET holders == {p \in Searched(response) : IsObject(Get(p.is, "plan"))}
    IN Payload("PLAN", response) = "NO_ARTIFACT" =>
          \A p \in holders : \E q \in holders : Within(p, q) /\ ~ Truthy(Get(q.is, "plan"))

(* main.py extract_error_info: the error stored with a failed run is one of  *)
(* what failed, not of what stands beside it in the response.                *)
ErrorIsOfTheFailure(operation, response) ==
    Payload(operation, response) = "FAILED" /\ ErrorsOf(response) # None =>
        \E p \in Searched(response), q \in Parts[response] :
            IsFailed(p.is) /\ Within(q, p) /\ q.is = ErrorsOf(response)

(* langflow.py parse_jsonish: a response reads the same bare, as text, or    *)
(* under a wrapper key as an object or as text, once and twice.              *)
WrappedReadsAlike(operation, response) ==
    LET forms(v) == {v, Text("json", <<v>>)}
        under(v) == UNION {{Object(<<Entry("session_id", Atom), Entry(key, form)>>) :
                               form \in forms(v)} : key \in ToSet(WrapperKeys)}
        sent == UNION {forms(v) : v \in under(response) \cup {response}}
    IN IsAgentResponse(response) =>
          \A s \in sent \cup UNION {under(v) : v \in sent} :
              Payload(operation, NormalizeResponse(s)) =
                  Payload(operation, NormalizeResponse(response))
=============================================================================
