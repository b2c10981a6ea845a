---------------------------- MODULE RequestAudit ----------------------------
(***************************************************************************)
(* What the audit log keeps of the bodies of a request and of its response *)
(* (a2a/app/request_logging.py).  The bodies pass the middleware in        *)
(* pieces, as the application asks for them and answers; when it ends, or  *)
(* fails, the log gets of each body the size, a preview of at most so many *)
(* bytes, and whether that is truncated.                                   *)
(***************************************************************************)
EXTENDS Naturals, Sequences

CONSTANTS
    Bytes,
    RequestLimit,   \* log_request_body_max_bytes
    ResponseLimit,  \* log_response_body_max_bytes
    MaxPiece,       \* bound: the bytes of a piece
    MaxPieces       \* bound: the pieces of both bodies

ASSUME LimitsAssumption == RequestLimit \in Nat /\ ResponseLimit \in Nat
ASSUME BoundsAssumption == MaxPiece \in Nat /\ MaxPieces \in Nat

VARIABLES
    request,    \* what is kept of the request's body
    response,   \* what is kept of the response's body
    passed,     \* all that passed, for the properties
    logged      \* the record was written

auditVars == <<request, response, passed, logged>>

Pieces == UNION {[1 .. n -> Bytes] : n \in 0 .. MaxPiece}

-----------------------------------------------------------------------------
NothingKept == [preview |-> <<>>, size |-> 0, truncated |-> FALSE]

Taken(piece, n) == SubSeq(piece, 1, IF n < Len(piece) THEN n ELSE Len(piece))

(* Mutant: every piece is cut to the limit, whatever was kept before it. *)
AppendEach(audit, piece, limit) ==
    [preview   |-> audit.preview \o Taken(piece, limit),
     size      |-> audit.size + Len(piece),
     truncated |-> Len(piece) > limit]

(* The wrapper of receive or send, with _append_limited; the chunks are     *)
(* joined here.  The flag is that of the last piece.                        *)
AppendLimited(audit, piece, limit) ==
    LET kept == Len(audit.preview)
        full == limit = 0 \/ kept >= limit
    IN [preview   |-> IF piece = <<>> \/ full THEN audit.preview
                      ELSE audit.preview \o Taken(piece, limit - kept),
        size      |-> audit.size + Len(piece),
        truncated |-> piece # <<>> /\ (full \/ Len(piece) > limit - kept)]

-----------------------------------------------------------------------------
Nothing == [body |-> <<>>, last |-> <<>>, pieces |-> 0]

Passed(history, piece) ==
    [body |-> history.body \o piece, last |-> piece, pieces |-> history.pieces + 1]

AuditInit ==
    /\ request = NothingKept
    /\ response = NothingKept
    /\ passed = [request |-> Nothing, response |-> Nothing]
    /\ logged = FALSE

Room == passed.request.pieces + passed.response.pieces < MaxPieces

(* The application receives a piece of the request. *)
ReceiveWrapper(piece) ==
    /\ ~ logged /\ Room
    /\ request' = AppendLimited(request, piece, RequestLimit)
    /\ passed' = [passed EXCEPT !.request = Passed(@, piece)]
    /\ UNCHANGED <<response, logged>>

(* The application sends a piece of the response. *)
SendWrapper(piece) ==
    /\ ~ logged /\ Room
    /\ response' = AppendLimited(response, piece, ResponseLimit)
    /\ passed' = [passed EXCEPT !.response = Passed(@, piece)]
    /\ UNCHANGED <<request, logged>>

(* The application returns or raises, however much has passed. *)
LogRequest ==
    /\ ~ logged
    /\ logged' = TRUE
    /\ UNCHANGED <<request, response, passed>>

AuditNext ==
    \/ \E piece \in Pieces : ReceiveWrapper(piece) \/ SendWrapper(piece)
    \/ LogRequest

AuditSpec == AuditInit /\ [][AuditNext]_auditVars

-----------------------------------------------------------------------------
(* What the log is to say. *)

(* The preview is what the limit allows of the body's beginning, whatever    *)
(* pieces it came in; the size is the whole body's.  Marked truncated,       *)
(* something is missing; and what is missing is marked, unless the last      *)
(* piece is empty.                                                           *)
TrueOf(audit, history, limit) ==
    /\ audit.preview = Taken(history.body, limit)
    /\ audit.size = Len(history.body)
    /\ audit.truncated <=> Len(history.body) > limit /\ history.last # <<>>

(* request_logging.py, _append_limited and __call__: when the record is      *)
(* written, what it says of both bodies is true, in whatever pieces and in   *)
(* whatever order they passed.                                               *)
LogIsTrue ==
    logged => /\ TrueOf(request, passed.request, RequestLimit)
              /\ TrueOf(response, passed.response, ResponseLimit)
=============================================================================
