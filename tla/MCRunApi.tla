------------------------------ MODULE MCRunApi ------------------------------
(* Inputs of RunApi for TLC: bodies that FlowReplies reads. *)
EXTENDS MCTranslations, RunReplies

Result(status, type, data) ==
    Object(<<Entry("status", Leaf(status)), Entry("artifact_type", Leaf(type)),
             Entry("data", data)>>)

plan == Result("SUCCEEDED", "PLAN", Object(<<>>))
evidence == Result("PARTIAL_SUCCESS", "EVIDENCE", Object(<<>>))
failure == Object(Result("FAILED", "PLAN", Object(<<>>)).entries
                  \o <<Entry("errors", List(<<Object(<<>>)>>))>>)
broken == Result("FAILED", "PLAN", Object(<<>>))
nested == Result("SUCCEEDED", "PLAN", Object(<<Entry("previous", evidence)>>))
inText(value) == Text("prose", <<value>>)

\* The layers of a run, with the command it repeats and the flow's message.
Reply(input, message) ==
    Object(<<Entry("session_id", Leaf("s")),
             Entry("outputs", List(<<Object(<<
                 Entry("inputs", Object(<<Entry("input_value", input)>>)),
                 Entry("outputs", List(<<Object(<<Entry("results",
                     Object(<<Entry("message", Object(<<Entry("text", message)>>))>>))>>)>>))
             >>)>>))>>)

echoed == Object(<<Entry("request", Object(<<Entry("payload",
               Object(<<Entry("knowledge", evidence)>>))>>))>>)

MCBodies ==
    {plan, broken, evidence, nested, Atom, List(<<plan, evidence>>), inText(plan)} \cup
    {Reply(input, message) :
        input \in {Leaf("hello"), inText(echoed)},
        message \in {Leaf("sorry"), inText(plan), inText(nested), inText(broken), failure,
                     Text("two", <<List(<<plan>>), plan>>),
                     Text("late", <<Object(<<>>), plan>>)}} \cup
    {Object(<<Entry("result", evidence), Entry("text", inText(plan))>>),
     Object(<<Entry("log", inText(evidence)), Entry("message", inText(plan))>>)}

MCResults == {plan, evidence, failure, nested}
MCFit == {plan, failure, nested}
MCResultIn ==
    [b \in MCBodies |-> LET result == Extract(b)
                        IN IF result # None /\ Validates(result) THEN result ELSE NoResult]
=============================================================================
