------------------------ MODULE MCOnboardingBackend ------------------------
(* Instances of OnboardingBackend for TLC.  The requests are named after   *)
(* the handler they go to.                                                 *)
EXTENDS OnboardingBackend, TLC, FiniteSets

CONSTANTS p1, p2, u1, u2, g1, g2, f1, v1, a1, q1, k1, k2, n1

EndpointOf ==
    p1 :> "PATCH" @@ p2 :> "PATCH" @@ u1 :> "UPLOAD" @@ u2 :> "UPLOAD"
    @@ g1 :> "GENERATE" @@ g2 :> "GENERATE" @@ f1 :> "GENERATE_FORCED"
    @@ v1 :> "REVISE" @@ a1 :> "APPROVE" @@ q1 :> "ASK"
    @@ k1 :> "CALLBACK" @@ k2 :> "CALLBACK" @@ n1 :> "CREATE"

MCEndpoint == [r \in Requests |-> EndpointOf[r]]

(* All the requests in every order are too many: a behaviour has those of  *)
(* one scenario only, and the others never arrive.                         *)
Scenarios == { {u1, p1, g1, v1, a1, k1},    \* the life of a case
               {n1, u1, p1, g1, g2, f1},    \* generations, over two cases
               {u1, g1, q1, k1, k2} }       \* results that come more than once

Arrived == {r \in Requests : handler[r].phase # "new"}
InScenario == \E S \in Scenarios : Arrived \subseteq S

MCSpec == Init /\ [][Next /\ InScenario']_vars /\ Fairness
=============================================================================
