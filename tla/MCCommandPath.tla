--------------------------- MODULE MCCommandPath ---------------------------
(* Inputs of CommandPath for TLC: every command with at most MaxGiven      *)
(* fields of those its agent looks at, and the parts a message may begin   *)
(* with.                                                                   *)
EXTENDS CommandPath

FieldsOf(agent) ==
    CASE agent = "profile" -> {"employee_id"}
      [] agent = "knowledge" -> KnowledgeFields \cup {"requested_topics"}
      [] agent = "planning" ->
             UNION {UNION {r.fields : r \in Requirements("planning", skill)} :
                       skill \in Admitted("planning")}
ValuesOf(agent) ==
    CASE agent = "profile" -> {"text", "blank"}
      [] agent = "knowledge" -> Values
      [] agent = "planning" -> {"object", "zero", "blank"}

CONSTANT MaxGiven
Given(agent) ==
    UNION {[fields -> ValuesOf(agent)] :
              fields \in {f \in SUBSET FieldsOf(agent) : Cardinality(f) <= MaxGiven}}

MCCommands ==
    UNION {{[agent |-> agent, skill |-> skill, given |-> given] :
               skill \in Admitted(agent) \cup {"unknown"}, given \in Given(agent)} :
              agent \in Agents}

prose == TextPart(Text("prose", <<>>))
number == TextPart(Text("number", <<Atom>>))
list == DataPart(List(<<>>))

MCPrologues == {<<>>, <<prose>>, <<number>>, <<list, prose>>}
=============================================================================
