-------------------------- MODULE MCKnowledgeAgent --------------------------
(* Instances of KnowledgeAgent for TLC: a text file with two editions, a    *)
(* PDF whose new edition is in Arabic, and a text file nobody may read that *)
(* is not there at first.  The words of the query are in b and in the old   *)
(* edition of the text, and too common for BM25 where most of the chunks    *)
(* loaded hold them.                                                        *)
EXTENDS KnowledgeAgent, TLC

CONSTANTS r1, r2, old, new, b, arabic

MCContents == (1 :> {{old}, {new}}) @@ (2 :> {{b}, {arabic}}) @@ (3 :> {{}})
MCCount == [r \in Runs |-> (old :> 4) @@ (new :> 0) @@ (b :> 3) @@ (arabic :> 0)]
MCOkapi ==
    [r \in Runs |-> [s \in SUBSET Chunks |-> [c \in Chunks |->
        IF 2 * Cardinality({d \in s : MCCount[r][d] > 0}) > Cardinality(s)
        THEN - MCCount[r][c] ELSE MCCount[r][c]]]]
MCSimilarity == [r \in Runs |-> (old :> 2) @@ (new :> 1) @@ (b :> 2) @@ (arabic :> 1)]

\* The folder starts with the old edition of the text, and with the PDF.
MCInit == Init /\ present = {1, 2} /\ folder[1] = {old} /\ folder[2] = {b}

MCSpec == MCInit /\ [][Next]_vars /\ Fairness
=============================================================================
