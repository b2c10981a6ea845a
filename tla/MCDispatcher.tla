---------------------------- MODULE MCDispatcher ----------------------------
(* Instances of Dispatcher for TLC: a1, a2 and a3 ask for one request in   *)
(* series mode, b1 for one of a single call.                               *)
EXTENDS Dispatcher, TLC

CONSTANTS a1, a2, a3, b1, k1, k2

MCKeyOf == [a \in Askers |-> IF a = b1 THEN k2 ELSE k1]
MCWidth == [k \in Keys |-> IF k = k1 THEN 2 ELSE 1]
=============================================================================
