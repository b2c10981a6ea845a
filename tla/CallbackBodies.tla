--------------------------- MODULE CallbackBodies ---------------------------
(***************************************************************************)
(* How the A2A service reads what a flow posts to its callback             *)
(* (a2a/app/schemas.py): the identifiers of the request and its result,    *)
(* bare, as text, or under one of the keys Langflow puts around it.        *)
(***************************************************************************)
EXTENDS JsonTrees

(* Unlike in a reply, whatever parses first is taken, an object or not. *)
Unwrap(value) == IF IsText(value) /\ value.docs # <<>> THEN Head(value.docs) ELSE value

LooksLikeCallback(value) ==
    IsObject(value)
    /\ {"request_id", "run_id", "correlation_id", "result"} \subseteq KeysOf(value)

Wrappers == <<"text", "result", "output", "data">>

(* Mutant: what a wrapper key holds is taken as it is. *)
ReadCallbackFlat(value) ==
    LET payload == Unwrap(value)
        nested == [i \in DOMAIN Wrappers |-> Get(payload, Wrappers[i])]
        found == FirstWhere(<<payload>> \o nested, LooksLikeCallback)
    IN IF ~ IsObject(payload) THEN value ELSE IF found = None THEN payload ELSE found

ReadCallback(value) ==
    LET payload == Unwrap(value)
        nested == [i \in DOMAIN Wrappers |-> Unwrap(Get(payload, Wrappers[i]))]
        found == FirstWhere(<<payload>> \o nested, LooksLikeCallback)
    IN IF ~ IsObject(payload) THEN value ELSE IF found = None THEN payload ELSE found

-----------------------------------------------------------------------------
(* What reading a callback is to give. *)

(* A callback alone, and what Langflow may put around it. *)
Bare(callback) == {callback, Text("json", <<callback>>)}
Under(callback) ==
    {Object(<<Entry("note", Atom), Entry(key, form)>>) :
         key \in ToSet(Wrappers), form \in Bare(callback)}

(* a2a/docs/endpoints.md:78: a callback may come wrapped, as an object or as *)
(* text, under any of the wrapper keys or bare; it reads the same.           *)
WrappedCallbackReads(callback) ==
    LooksLikeCallback(callback) =>
        \A wrapped \in Under(callback) :
            \A sent \in Bare(callback) \cup {wrapped, Text("json", <<wrapped>>)} :
                ReadCallback(sent) = callback
=============================================================================
