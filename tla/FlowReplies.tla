---------------------------- MODULE FlowReplies ----------------------------
(***************************************************************************)
(* How the A2A service's Langflow client reads what a flow answers         *)
(* (a2a/app/langflow_client.py).                                           *)
(* The body of a run wraps the agent's result in layers that differ        *)
(* between versions, repeats the input, and may carry the result as text.  *)
(* The candidates cut from a text are the whole text, its fences, then     *)
(* every object that starts in it.                                         *)
(***************************************************************************)
EXTENDS JsonPositions

-----------------------------------------------------------------------------
(* Results. *)

IsResult(value) ==
    IsObject(value) /\ {"status", "artifact_type", "data"} \subseteq KeysOf(value)

(* Mutant: what is inside a value is searched before the value itself. *)
FindResultInside(find, value) ==
    FirstFound([i \in DOMAIN Children(value) |-> find[Children(value)[i]]]
               \o <<IF IsResult(value) THEN value ELSE None>>)

(* The first result met, objects before what they hold; a text is opaque. *)
FindResultWith(find, value) ==
    IF IsResult(value) THEN value
    ELSE FirstFound([i \in DOMAIN Children(value) |-> find[Children(value)[i]]])

FindResult[value \in Tree] == FindResultWith(FindResult, value)

CollectStrings[value \in Tree] ==
    IF IsText(value) THEN <<value>>
    ELSE FlattenSeq([i \in DOMAIN Children(value) |-> CollectStrings[Children(value)[i]]])

(* Only the first object that can be cut from a text is looked into. *)
ResultInText(value) ==
    IF IsText(value) THEN FindResult[FirstWhere(value.docs, IsObject)] ELSE None

StandardPaths ==
    << <<"text">>,
       <<"outputs", "[0]", "outputs", "[0]", "results", "message", "text">>,
       <<"outputs", "[0]", "outputs", "[0]", "results", "text", "data", "text">>,
       <<"message">>,
       <<"result", "message">> >>

(* What the texts hold where a flow's message is expected. *)
MessageResults(raw) ==
    [i \in DOMAIN StandardPaths |-> ResultInText(Dig(raw, StandardPaths[i]))]

TextResults(raw) ==
    LET texts == CollectStrings[raw]
    IN [i \in DOMAIN texts |-> ResultInText(texts[i])]

(* An object in the body, else in the message texts, else in any text. *)
Extract(raw) ==
    FirstFound(<<FindResult[raw]>> \o MessageResults(raw) \o TextResults(raw))

(* AgentResult.model_validate, as far as the model's values go. *)
Validates(result) ==
    LET status == Get(result, "status")
        errors == Get(result, "errors")
    IN /\ IsText(status) /\ status.name \in {"SUCCEEDED", "PARTIAL_SUCCESS", "FAILED"}
       /\ IsText(Get(result, "artifact_type")) /\ Get(result, "artifact_type").name # ""
       /\ IsObject(Get(result, "data"))
       /\ errors = None \/ IsList(errors)
       /\ status.name = "FAILED" => errors # None /\ errors.items # <<>>

-----------------------------------------------------------------------------
(* What reading a body is to give. *)

(* Of the results that stand in a body as objects the first and outermost is *)
(* taken: never one that another result holds in its data.                   *)
ResultIsOutermost(raw) ==
    LET results == {p \in Parts[raw] : IsResult(p.is)}
    IN \A p \in results :
          (\A q \in results \ {p} : Earlier(p, q)) => Extract(raw) = p.is

(* What is taken stands in the body, as an object or in the first object of  *)
(* one of its texts.                                                         *)
NothingInvented(raw) ==
    Extract(raw) # None =>
        /\ IsResult(Extract(raw))
        /\ \E p \in Parts[raw] : Extract(raw) \in {p.is, ResultInText(p.is)}

(* A body without a result gives none, and a result in the first object of a *)
(* text is found wherever in the body that text is.                          *)
NothingLost(raw) ==
    Extract(raw) = None <=>
        \A p \in Parts[raw] : ~ IsResult(p.is) /\ ResultInText(p.is) = None
=============================================================================
