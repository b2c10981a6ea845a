----------------------------- MODULE PlanLedger -----------------------------
(***************************************************************************)
(* What the plans table promises to those who read it: every case has a    *)
(* series of plans numbered 1, 2, 3, ...; a plan enters the series under   *)
(* review and with the next number; from then on the only thing that       *)
(* changes of it is that it gets approved.  No plan leaves, is replaced,   *)
(* or is renumbered.  OnboardingBackend implements it with a read of the   *)
(* largest version and a later insert, among handlers that interleave.     *)
(***************************************************************************)
EXTENDS Naturals

CONSTANTS
    Cases,    \* the cases that may have plans
    Ids,      \* the names of plans
    NoCase    \* the case of a plan that does not exist yet

VARIABLE ledger

Blank == [status |-> "NONE", case |-> NoCase, version |-> 0]

Entered(i) == ledger[i].status # "NONE"

Series(c) == {ledger[i].version : i \in {j \in Ids : Entered(j) /\ ledger[j].case = c}}

(* n follows every number of the series, and leaves no gap after it. *)
IsNext(n, c) ==
    /\ n \in {1} \cup {v + 1 : v \in Series(c)}
    /\ \A v \in Series(c) : v < n

Init == ledger = [i \in Ids |-> Blank]

Append(i, c) ==
    /\ ~ Entered(i) /\ Entered(i)'
    /\ \E n \in {1} \cup {v + 1 : v \in Series(c)} :
         /\ IsNext(n, c)
         /\ ledger' = [ledger EXCEPT
                         ![i] = [status |-> "UNDER_REVIEW", case |-> c, version |-> n]]

Approve(i) ==
    /\ Entered(i)
    /\ ledger' = [ledger EXCEPT ![i].status = "APPROVED"]

Next == \E i \in Ids : Approve(i) \/ \E c \in Cases : Append(i, c)

Spec == Init /\ [][Next]_ledger
=============================================================================
