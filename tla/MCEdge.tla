------------------------------- MODULE MCEdge -------------------------------
(***************************************************************************)
(* The parts at the edge of the two services, for TLC: the readers, the    *)
(* way of a command, the audit log and a call of the run API.  They share  *)
(* nothing, so a behaviour is one of one of them, and the others stay      *)
(* where they start.                                                       *)
(***************************************************************************)
EXTENDS MCRunApi, MCCommandPath, RequestAudit

CONSTANTS a, b

VARIABLE part   \* whose behaviour it is

edgeVars == <<part, readerVars, commandVars, auditVars, vars>>

\* A call of the run API that is over.
NoCall ==
    /\ style = "legacy" /\ pc = "done" /\ attempt = 1 /\ outcome = "none"
    /\ posts = {} /\ started = {} /\ dropped = {} /\ reply = NoBody

EdgeInit ==
    /\ part \in {"readers", "command", "audit", "run"}
    /\ IF part = "readers" THEN ReaderInit ELSE subject = None /\ read = FALSE
    /\ IF part = "run" THEN Init ELSE NoCall
    /\ CommandInit
    /\ AuditInit

EdgeNext ==
    /\ UNCHANGED part
    /\ \/ part = "readers" /\ Read /\ UNCHANGED <<commandVars, auditVars, vars>>
       \/ part = "command" /\ CommandNext /\ UNCHANGED <<readerVars, auditVars, vars>>
       \/ part = "audit" /\ AuditNext /\ UNCHANGED <<readerVars, commandVars, vars>>
       \/ part = "run" /\ Next /\ UNCHANGED <<readerVars, commandVars, auditVars>>

EdgeSpec == EdgeInit /\ [][EdgeNext]_edgeVars /\ Fairness
=============================================================================
