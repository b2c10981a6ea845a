------------------------- MODULE MCWebhookCallbacks -------------------------
(* Instances of WebhookCallbacks for TLC: calls c1 to c4 and, with another *)
(* payload, x1, all for key k1; and o1 for key k2.                         *)
EXTENDS WebhookCallbacks, TLC

CONSTANTS c1, c2, c3, c4, x1, o1, k1, k2, r1, r2, r3, w1

MCKeyOf == [c \in Calls |-> IF c = o1 THEN k2 ELSE k1]
MCPrintOf == [c \in Calls |-> IF c = x1 THEN "changed" ELSE "original"]
MCFlowOf == [r \in Results |-> IF r = r3 THEN k2 ELSE k1]
Symmetry == Permutations({c1, c2, c3, c4} \cap Calls)
=============================================================================
