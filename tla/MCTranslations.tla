--------------------------- MODULE MCTranslations ---------------------------
(***************************************************************************)
(* Inputs of Readers for TLC.                                              *)
(***************************************************************************)
EXTENDS Readers

MCNames == STRING

Leaf(name) == Text(name, <<>>)
Status(status) == IF status = "" THEN <<>> ELSE <<Entry("status", Leaf(status))>>
Errors(name) == <<Entry("errors", List(<<Leaf(name)>>))>>
Nest(value, n) == FoldLeft(LAMBDA v, i : Object(<<Entry("body", v)>>), value, [i \in 1 .. n |-> i])

-----------------------------------------------------------------------------
(* What WF-01 sends. *)

planned == Object(<<Entry("plan", Object(<<Entry("title", Leaf("t"))>>))>>)
unplanned == Object(<<Entry("plan", Object(<<Entry("draft", planned)>>))>>)
empty == Object(<<Entry("plan", Object(<<>>)), Entry("data", planned)>>)
replied == Object(<<Entry("answer", Leaf("a"))>>)
succeeded == Object(Status("SUCCEEDED") \o planned.entries)
failed == Object(Status("FAILED") \o Errors("inner"))
silent == Object(Status("FAILED"))
coded == Object(<<Entry("status", List(<<Leaf("SUCCEEDED")>>))>> \o planned.entries)

Fragments == {planned, unplanned, empty, replied, succeeded, failed, silent, coded, Atom}

Held ==
    {<<>>} \cup {<<Entry("result", a)>> : a \in Fragments} \cup
    {<<Entry("result", a), Entry("log", b)>> : a, b \in Fragments} \cup
    {<<Entry("steps", List(<<a, b>>))>> : a, b \in Fragments}

MCResponses ==
    {Object(Status(status) \o errors \o held) :
        status \in {"", "ACCEPTED", "SUCCEEDED"}, errors \in {<<>>, Errors("outer")},
        held \in Held} \cup
    {Object(Status("SUCCEEDED") \o <<Entry("body", Nest(v, n))>>) :
        v \in Fragments, n \in {6, 7, 8}} \cup
    {Object(<<Entry("status", status), Entry("result", a)>>) :
        status \in {Object(<<>>), Object(Status("FAILED"))}, a \in Fragments} \cup
    {List(<<a, b>>) : a, b \in Fragments} \cup
    {Atom, List(<<>>), Leaf("sorry"), Text("json", <<Atom>>),
     Object(<<Entry("result", List(<<Atom>>))>>)}

MCWrapped == {succeeded, failed, Object(Status("SUCCEEDED")), Object(Status("ACCEPTED"))} \cup
           {Object(Status("SUCCEEDED") \o <<Entry("result", a)>>) : a \in Fragments}

-----------------------------------------------------------------------------
(* Callbacks to the A2A service, and bodies that the audit log reads. *)

Callback(result) ==
    Object([i \in 1 .. 3 |-> Entry(<<"request_id", "run_id", "correlation_id">>[i], Leaf("id"))]
           \o <<Entry("result", result)>>)
MCCallbacks == {Callback(Object(<<>>)), Callback(succeeded), Callback(Callback(Object(<<>>)))}

Naming(ids, n) == [i \in DOMAIN ids |-> Entry(ids[i], Leaf(n))]
Whole(n) == Naming(<<"request_id", "run_id", "correlation_id">>, n)
Named3 == {Whole("a"), Whole("b"), Naming(<<"run_id">>, "c"), Naming(<<"agent">>, "d")}
MCPreviews ==
    {Object(own \o <<Entry("calls", List(<<Object(<<Entry("request", Object(x))>>), Object(y)>>))>>) :
        own \in Named3 \cup {<<>>}, x, y \in Named3}
=============================================================================
