---------------------------- MODULE CommandPath ----------------------------
(***************************************************************************)
(* The way of a command to an agent of the A2A service, up to the work:    *)
(* the MCP gateway's schema (mcp_gateway.py), the internal client's check  *)
(* of the skill (a2a_client.py), the reading of the A2A message            *)
(* (message_utils.py), the validation (validation.py) and, for the         *)
(* knowledge agent, the query it asks (internal_knowledge_agent.py).       *)
(*                                                                         *)
(* Every step keeps its own list of skills or of fields.  A command has a  *)
(* skill and `given', the fields it gives and what kind of value each has; *)
(* employee_id, a text of the request, stands among those of the payload.  *)
(* The module follows a client with one command: how it comes, what is     *)
(* made of it and, when it lacks data, what the client sends then.         *)
(***************************************************************************)
EXTENDS JsonTrees

Agents == {"profile", "knowledge", "planning"}

Values == {"text", "list", "object", "zero", "blank"}

CONSTANTS
    Commands,   \* what clients send: an agent, a skill and what is given
    Prologues   \* what may stand in a message before the command

VARIABLES
    command,    \* the client's latest command
    via,        \* the way it came
    state,      \* what became of it
    asked,      \* what the answer says is missing: sets of alternatives
    answered    \* the client gave one of each of the alternatives

commandVars == <<command, via, state, asked, answered>>

-----------------------------------------------------------------------------
(* The lists of skills: what the gateway's schema admits and what the *)
(* registry, and so every Agent Card, advertises.                     *)

Admitted(agent) ==
    CASE agent = "profile" ->
             {"get_employee_onboarding_profile", "assess_profile_completeness",
              "identify_onboarding_constraints"}
      [] agent = "knowledge" ->
             {"search_onboarding_knowledge", "answer_onboarding_question",
              "get_role_onboarding_requirements"}
      [] agent = "planning" ->
             {"generate_onboarding_plan", "revise_onboarding_plan", "adapt_onboarding_plan",
              "explain_onboarding_plan"}

(* Mutant: a skill the gateway offers is missing in the registry. *)
SkillIdsWithoutExplain(agent) ==
    CASE agent = "planning" ->
             {"generate_onboarding_plan", "revise_onboarding_plan", "adapt_onboarding_plan"}
      [] OTHER -> Admitted(agent)

SkillIds(agent) ==
    CASE agent = "profile" ->
             {"get_employee_onboarding_profile", "assess_profile_completeness",
              "identify_onboarding_constraints"}
      [] agent = "knowledge" ->
             {"search_onboarding_knowledge", "answer_onboarding_question",
              "get_role_onboarding_requirements"}
      [] agent = "planning" ->
             {"generate_onboarding_plan", "revise_onboarding_plan", "adapt_onboarding_plan",
              "explain_onboarding_plan"}

-----------------------------------------------------------------------------
(* The A2A message: parts with data, a JSON value, or with text. *)

DataPart(value) == [field |-> "data", value |-> value]
TextPart(text) == [field |-> "text", value |-> text]

(* The JSON value of a part, if there is one; of a text, the whole parsed. *)
ReadPart(part) ==
    IF part.field = "data" THEN part.value
    ELSE IF part.value.docs = <<>> THEN None ELSE Head(part.value.docs)

(* Mutant: only the first part is read. *)
CommandFromMessageHead(parts) ==
    FirstWhere(<<ReadPart(Head(parts))>>, IsObject)

(* The first object there is. *)
CommandFromMessage(parts) ==
    FirstWhere([i \in DOMAIN parts |-> ReadPart(parts[i])], IsObject)

-----------------------------------------------------------------------------
(* Validation.  A requirement is met by one of its fields; whether a zero *)
(* counts as given depends on which of two tests looks at the field.      *)

AnyOf(fields) == [fields |-> fields, zeroCounts |-> TRUE]
One(field) == [fields |-> {field}, zeroCounts |-> FALSE]

Met(requirement, given) ==
    \E f \in requirement.fields \cap DOMAIN given :
        given[f] # "blank" /\ (given[f] = "zero" => requirement.zeroCounts)

KnowledgeFields ==
    {"question", "query", "role", "department", "location", "employment_type",
     "onboarding_scope", "topics"}

Requirements(agent, skill) ==
    CASE agent = "profile" -> {One("employee_id")}
      [] agent = "knowledge" -> {AnyOf(KnowledgeFields)}
      [] agent = "planning" /\ skill = "generate_onboarding_plan" ->
             {One("profile_context"), One("knowledge_context")}
      [] agent = "planning" /\ skill = "revise_onboarding_plan" ->
             {One("current_plan"), AnyOf({"requested_changes", "feedback", "revision_reason"})}
      [] agent = "planning" /\ skill = "adapt_onboarding_plan" ->
             {One("current_plan"),
              AnyOf({"progress", "adaptation_trigger", "blockers", "changes"})}
      [] agent = "planning" /\ skill = "explain_onboarding_plan" ->
             {AnyOf({"current_plan", "plan"}), One("question")}

(* What the answer to an incomplete command names, as alternatives. *)
Named(requirement) ==
    IF requirement = AnyOf(KnowledgeFields)
    THEN {"question", "query", "role", "department", "onboarding_scope"}
    ELSE requirement.fields

(* Mutant: an answer names the first thing that is missing. *)
AskedForFirst(agent, skill, given) ==
    LET missing == {r \in Requirements(agent, skill) : ~ Met(r, given)}
    IN IF missing = {} THEN {} ELSE {Named(CHOOSE r \in missing : TRUE)}

AskedFor(agent, skill, given) ==
    {Named(r) : r \in {q \in Requirements(agent, skill) : ~ Met(q, given)}}

(* validate_command, and what execute makes of its errors. *)
Validate(agent, skill, given) ==
    CASE skill \notin SkillIds(agent) -> "FAILED"
      [] skill \in SkillIds(agent) /\ AskedFor(agent, skill, given) # {} -> "INPUT_REQUIRED"
      [] OTHER -> "RUN"

-----------------------------------------------------------------------------
(* _query_from_command: the fields that put words of the request in the query. *)

QueryFields ==
    {"question", "query", "role", "job_title", "job_family", "department", "location",
     "employment_type", "topic", "onboarding_scope"}

(* Mutant: a field that validation accepts is not read. *)
QueriedWithoutScope(given) ==
    {f \in (QueryFields \ {"onboarding_scope"}) \cap DOMAIN given : given[f] = "text"}

Queried(given) ==
    LET topics == IF "topics" \in DOMAIN given /\ given["topics"] \notin {"blank", "zero"}
                  THEN "topics" ELSE "requested_topics"
    IN {f \in QueryFields \cap DOMAIN given : given[f] = "text"} \cup
       {f \in {topics} \cap DOMAIN given : given[f] = "list"}

-----------------------------------------------------------------------------
(* The client's steps.  The command's object is abstracted to its skill and *)
(* what it gives.                                                           *)

CommandObject(x) == [kind |-> "object", skill |-> x.skill, given |-> x.given]

NoCommand == [agent |-> "none", skill |-> "none", given |-> <<>>]

Messages(x) ==
    {before \o <<part>> :
        before \in Prologues,
        part \in {DataPart(CommandObject(x)), TextPart(Text("json", <<CommandObject(x)>>))}}

Ends(end, missing) == state' = end /\ asked' = missing

(* execute: a message without a command fails the task. *)
Execute(agent, parts) ==
    LET x == CommandFromMessage(parts)
    IN IF x = None \/ "skill" \notin DOMAIN x THEN Ends("FAILED", {})
       ELSE Ends(Validate(agent, x.skill, x.given),
                 IF x.skill \in SkillIds(agent) THEN AskedFor(agent, x.skill, x.given) ELSE {})

(* invoke: the skill is compared with the registry before anything is sent. *)
Invoke(x) ==
    IF x.skill \notin SkillIds(x.agent) THEN Ends("REJECTED", {})
    ELSE Execute(x.agent, <<DataPart(CommandObject(x))>>)

CommandInit ==
    /\ command = NoCommand
    /\ via = "none"
    /\ state = "none"
    /\ asked = {}
    /\ answered = FALSE

(* A call of the MCP tool, whose schema lists the skills. *)
CallGateway(x) ==
    /\ x.skill \in Admitted(x.agent)
    /\ Invoke(x)
    /\ command' = x /\ via' = "gateway"
    /\ UNCHANGED answered

(* A call of the dispatch endpoint, with any skill. *)
CallDispatch(x) ==
    /\ Invoke(x)
    /\ command' = x /\ via' = "dispatch"
    /\ UNCHANGED answered

(* A message to the agent itself. *)
SendMessage(x) ==
    /\ \E parts \in Messages(x) : Execute(x.agent, parts)
    /\ command' = x /\ via' = "message"
    /\ UNCHANGED answered

(* A message with no command in it, or whose first object is none. *)
SendOther(agent) ==
    /\ \E before \in Prologues, rest \in {<<>>, <<DataPart(Object(<<>>))>>} :
          Execute(agent, before \o rest)
    /\ via' = "message"
    /\ UNCHANGED <<command, answered>>

WithTexts(given, fields) ==
    [f \in fields \cup DOMAIN given |-> IF f \in fields THEN "text" ELSE given[f]]

(* The client sends its command again, the way it did, with one of each of *)
(* the alternatives it was asked for.                                      *)
Answer(fields) ==
    LET x == [command EXCEPT !.given = WithTexts(@, fields)] IN
    /\ state = "INPUT_REQUIRED"
    /\ \A alternatives \in asked : fields \cap alternatives # {}
    /\ \/ via \in {"gateway", "dispatch"} /\ Invoke(x)
       \/ via = "message" /\ \E parts \in Messages(x) : Execute(x.agent, parts)
    /\ command' = x /\ answered' = TRUE
    /\ UNCHANGED via

CommandNext ==
    \/ /\ state = "none"
       /\ \/ \E x \in Commands : CallGateway(x) \/ CallDispatch(x) \/ SendMessage(x)
          \/ \E agent \in Agents : SendOther(agent)
    \/ \E fields \in SUBSET UNION asked : Answer(fields)

CommandSpec == CommandInit /\ [][CommandNext]_commandVars

ASSUME CommandsAssumption ==
    \A x \in Commands : /\ x.agent \in Agents
                        /\ x = [agent |-> x.agent, skill |-> x.skill, given |-> x.given]
                        /\ \A f \in DOMAIN x.given :
                              x.given[f] \in IF f = "employee_id" THEN {"text", "blank"}
                                            ELSE Values

ASSUME ProloguesAssumption ==
    \A before \in Prologues : /\ before \in Seq({before[i] : i \in DOMAIN before})
                              /\ \A i \in DOMAIN before : ~ IsObject(ReadPart(before[i]))

-----------------------------------------------------------------------------
(* What a command can count on. *)

(* What the gateway's schema (mcp_gateway.py) admits is turned down neither  *)
(* by the client (a2a_client.py) nor by the agent (validation.py), which     *)
(* go by the registry; and a message's command does the same from data and   *)
(* from text, behind whatever holds no object (message_utils.py).            *)
CommandsArrive ==
    /\ via = "gateway" => state \notin {"REJECTED", "FAILED"}
    /\ via = "message" /\ command # NoCommand =>
          state = Validate(command.agent, command.skill, command.given)

(* validation.py, validate_command: a client that gives one of each of the   *)
(* alternatives it was asked for is neither asked again nor turned down      *)
(* (README.md:559).                                                          *)
AskingOnceSuffices == answered => state = "RUN"

(* internal_knowledge_agent.py, _query_from_command: a command accepted for  *)
(* a text, or for topics in a list, asks something.  One accepted for values *)
(* of another type only (question: 5) asks nothing: validation looks for a   *)
(* value, the query for its type.                                            *)
AcceptedIsQueried ==
    LET accepted == {f \in KnowledgeFields \cap DOMAIN command.given :
                        command.given[f] # "blank"}
        fits(f) == command.given[f] = IF f = "topics" THEN "list" ELSE "text"
    IN command.agent = "knowledge" /\ state = "RUN" =>
          Queried(command.given) # {} \/ \A f \in accepted : ~ fits(f)
=============================================================================
