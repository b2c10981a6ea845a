--------------------------- MODULE JsonPositions ---------------------------
(***************************************************************************)
(* All values that nest so many layers deep, over which the readers that   *)
(* look into whole values recur; and where a part stands in a value, as    *)
(* the indices of the children on the way, which their properties are      *)
(* stated with.                                                            *)
(***************************************************************************)
EXTENDS JsonTrees

CONSTANTS
    Names,      \* of keys and texts
    MaxLayers   \* how deep what is sent nests

ASSUME LayersAssumption == MaxLayers \in Nat

(* A value holds values: its children, or what its text parses to. *)
Layer(values) ==
    {Atom, None}
    \cup [kind : {"text"}, name : Names, docs : Seq(values)]
    \cup [kind : {"object"}, entries : Seq([key : Names, value : values])]
    \cup [kind : {"list"}, items : Seq(values)]

Trees[n \in Nat] == IF n = 0 THEN {Atom, None} ELSE Layer(Trees[n - 1])

(* What is sent, and what may be read: a reader may put an object around it. *)
Sent == Trees[MaxLayers]
Tree == Trees[MaxLayers + 1]

-----------------------------------------------------------------------------
Part(position, value) == [at |-> position, is |-> value]

Below(i, part) == Part(<<i>> \o part.at, part.is)

(* The parts of a value, itself included. *)
Parts[value \in Tree] ==
    {Part(<<>>, value)} \cup
    UNION {{Below(i, part) : part \in Parts[Children(value)[i]]} : i \in DOMAIN Children(value)}

(* p is q or stands within q. *)
Within(p, q) == Len(q.at) <= Len(p.at) /\ \A i \in DOMAIN q.at : p.at[i] = q.at[i]

(* At the first index where they differ p comes before q. *)
Before(p, q) ==
    \E i \in DOMAIN p.at \cap DOMAIN q.at :
        /\ p.at[i] < q.at[i]
        /\ \A j \in 1 .. i - 1 : p.at[j] = q.at[j]

Earlier(p, q) == Before(p, q) \/ (Within(q, p) /\ ~ Within(p, q))
=============================================================================
