------------------------- MODULE LoggedIdentifiers -------------------------
(***************************************************************************)
(* The identifiers that the audit log takes from a body, once its preview  *)
(* is parsed (a2a/app/request_logging.py, _extract_identifiers).           *)
(***************************************************************************)
EXTENDS JsonPositions

RequestIds == {"request_id", "run_id", "correlation_id"}

AllIds == RequestIds \cup {"agent", "skill_id"}

(* Of each identifier what is known: nothing, or its name. *)
Knowledge == [AllIds -> Seq(Names)]

Unknown == [k \in AllIds |-> <<>>]

Found(object) ==
    [k \in AllIds |-> LET id == Get(object, k) IN IF IsText(id) THEN <<id.name>> ELSE <<>>]

IdsIn(known) == {k \in RequestIds : known[k] # <<>>}

Learn(known, value) ==
    [k \in AllIds |->
        IF IsObject(value) /\ Found(value)[k] # <<>> THEN Found(value)[k] ELSE known[k]]

(* What is known after each of the parts, one by one. *)
VisitEach(visit, known, parts) ==
    LET after[n \in 0 .. Len(parts)] ==
            IF n = 0 THEN known ELSE visit[parts[n]][after[n - 1]]
    IN after[Len(parts)]

(* Mutant: the walk goes on when the request is known. *)
VisitAllWith(visit, known, value) ==
    VisitEach(visit, Learn(known, value), Children(value))

(* What a nested object says replaces what was found before, until the three *)
(* identifiers of a request are known.                                       *)
VisitWith(visit, known, value) ==
    IF IdsIn(known) = RequestIds THEN known
    ELSE VisitEach(visit, Learn(known, value), Children(value))

Visit[value \in Tree] == [known \in Knowledge |-> VisitWith(Visit, known, value)]

Identifiers(preview) == Visit[preview][Unknown]

-----------------------------------------------------------------------------
(* A body that names whole requests only is logged under the first of them,  *)
(* never under identifiers of two.                                           *)
OneRequestIsNamed(body) ==
    LET naming == {p \in Parts[body] : IsObject(p.is) /\ IdsIn(Found(p.is)) # {}}
    IN \A p \in naming :
          /\ \A q \in naming : IdsIn(Found(q.is)) = RequestIds
          /\ \A q \in naming \ {p} : Earlier(p, q)
          => \A k \in RequestIds : Identifiers(body)[k] = Found(p.is)[k]
=============================================================================
