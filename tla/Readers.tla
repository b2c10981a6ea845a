------------------------------ MODULE Readers ------------------------------
(***************************************************************************)
(* The readers at the edge of the two services: the backend's of what      *)
(* WF-01 sends, the A2A service's of callbacks, and its audit log's of the *)
(* bodies it previews.  They keep nothing: a behaviour has one subject,    *)
(* which is then read.                                                     *)
(***************************************************************************)
EXTENDS WorkflowReplies, CallbackBodies, LoggedIdentifiers

CONSTANTS
    Responses,  \* what WF-01 may send
    Wrapped,    \* responses that it may send under wrapper keys
    Callbacks,  \* what a flow may post to the A2A service
    Previews    \* bodies that the audit log parses

(* A wrapper adds an object and a text to what it wraps, twice, and a text. *)
ASSUME SubjectsAssumption ==
    /\ {"answer", "json", "session_id"} \cup ToSet(WrapperKeys) \subseteq Names
    /\ MaxLayers >= 5
    /\ Responses \cup Previews \subseteq Sent
    /\ Wrapped \subseteq Trees[MaxLayers - 5]

VARIABLES
    subject,    \* what is read, with the reader it is for
    read        \* whether it was

readerVars == <<subject, read>>

Subjects ==
    [kind : {"response"}, operation : Operations, value : Responses] \cup
    [kind : {"wrapped"}, operation : Operations, value : Wrapped] \cup
    [kind : {"callback"}, value : Callbacks] \cup
    [kind : {"body"}, value : Previews]

ReaderInit == subject \in Subjects /\ read = FALSE
Read ==
    /\ ~ read
    /\ read' = TRUE
    /\ UNCHANGED subject

ReaderSpec == ReaderInit /\ [][Read]_readerVars

-----------------------------------------------------------------------------
(* Properties. *)

Reading(kind) == read /\ subject.kind = kind

(* What the backend makes of a response (main.py, find_terminal_payload,     *)
(* find_plan_data and extract_error_info): it is a failure only if something *)
(* in it failed, and unreadable only if it is no object or a status in it is *)
(* an object or a list; neither is passed over, unless it stands in a list   *)
(* behind an item that ended already.  The error stored stands in something  *)
(* that failed; and where no plan is found in a success, there is none       *)
(* within the depth searched but below an object that names an empty one.    *)
OutcomesShow ==
    Reading("response") =>
        LET response == NormalizeResponse(subject.value)
        IN /\ FailureIsNotHidden(subject.operation, response)
           /\ ErrorIsOfTheFailure(subject.operation, response)
           /\ PlanIsFound(response)

(* langflow.py, parse_jsonish and normalize_response, and schemas.py,        *)
(* normalize_langflow_callback: an agent's response means the same bare, as  *)
(* text and under up to two wrapper keys, and a callback bare, as text and   *)
(* under one.                                                                *)
WrappersUnwrap ==
    /\ Reading("wrapped") => WrappedReadsAlike(subject.operation, subject.value)
    /\ Reading("callback") => WrappedCallbackReads(subject.value)

(* request_logging.py, _extract_identifiers: a body that names several       *)
(* requests is logged under one of them, the first.                          *)
RequestsAreNamed == Reading("body") => OneRequestIsNamed(subject.value)
=============================================================================
