----------------------------- MODULE RunReplies -----------------------------
(***************************************************************************)
(* The run API mode with what its bodies are: RunApi is told which result  *)
(* is in which body, and here FlowReplies reads it there.                  *)
(***************************************************************************)
EXTENDS RunApi, FlowReplies

ASSUME RepliesAssumption ==
    /\ Bodies \subseteq Tree
    /\ ResultIn = [b \in Bodies |-> IF Extract(b) # None /\ Validates(Extract(b))
                                    THEN Extract(b) ELSE NoResult]

(* What is read from the body a call received is a result that stands there: *)
(* the first and outermost of those that are objects, else one that a text   *)
(* holds, and none only if there is none.  The command that a body repeats   *)
(* is part of it, so that a result of another agent in it may be what is     *)
(* read: that it is the flow's own is not said.                              *)
ResultsAreRead ==
    reply # NoBody =>
        ResultIsOutermost(reply) /\ NothingInvented(reply) /\ NothingLost(reply)
=============================================================================
