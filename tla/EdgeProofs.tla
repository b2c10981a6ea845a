----------------------------- MODULE EdgeProofs -----------------------------
(* Theorems about the edge of the services: the bodies that the A2A        *)
(* service's audit log records (RequestAudit), the commands on their way   *)
(* to an agent (CommandPath), and what is read of responses of WF-01, of   *)
(* callbacks of flows and of logged bodies (Readers).                      *)
EXTENDS CommandPath, RequestAudit, Readers, JsonProofs, SequenceTheorems, TLAPS

-----------------------------------------------------------------------------
(* Beginnings of sequences. *)

LEMMA TakenProperties ==
    ASSUME NEW S, NEW s \in Seq(S), NEW n \in Nat
    PROVE  /\ Taken(s, n) \in Seq(S)
           /\ Len(Taken(s, n)) = IF n < Len(s) THEN n ELSE Len(s)
           /\ \A i \in 1 .. Len(Taken(s, n)) : Taken(s, n)[i] = s[i]
<1> DEFINE m == IF n < Len(s) THEN n ELSE Len(s)
<1>1. m \in Nat /\ m <= Len(s)
  BY LenProperties
<1>2. \A i \in 1 .. m : s[i] \in S
  BY <1>1, ElementOfSeq
<1>3. /\ SubSeq(s, 1, m) \in Seq(S)
      /\ Len(SubSeq(s, 1, m)) = m
      /\ \A i \in 1 .. m : SubSeq(s, 1, m)[i] = s[i]
  BY <1>1, <1>2, SubSeqProperties
<1> QED
  BY <1>3 DEF Taken

LEMMA TakenWhole ==
    ASSUME NEW S, NEW s \in Seq(S), NEW n \in Nat, Len(s) <= n
    PROVE  Taken(s, n) = s
<1>1. Len(s) \in Nat
  BY LenProperties
<1>2. /\ Taken(s, n) \in Seq(S)
      /\ Len(Taken(s, n)) = Len(s)
      /\ \A i \in 1 .. Len(s) : Taken(s, n)[i] = s[i]
  BY <1>1, TakenProperties
<1> QED
  BY <1>2, SeqEqual

(* What a longer body adds to its beginning.                                 *)
LEMMA TakenConcat ==
    ASSUME NEW S, NEW s \in Seq(S), NEW t \in Seq(S), NEW n \in Nat
    PROVE  /\ Len(s) >= n => Taken(s \o t, n) = Taken(s, n)
           /\ Len(s) <= n => Taken(s \o t, n) = s \o Taken(t, n - Len(s))
<1>1. /\ Len(s) \in Nat /\ Len(t) \in Nat
      /\ s \o t \in Seq(S) /\ Len(s \o t) = Len(s) + Len(t)
      /\ \A i \in 1 .. Len(s) + Len(t) :
            (s \o t)[i] = IF i <= Len(s) THEN s[i] ELSE t[i - Len(s)]
  BY LenProperties, ConcatProperties
<1>2. /\ Taken(s \o t, n) \in Seq(S)
      /\ Len(Taken(s \o t, n)) = IF n < Len(s) + Len(t) THEN n ELSE Len(s) + Len(t)
      /\ \A i \in 1 .. Len(Taken(s \o t, n)) : Taken(s \o t, n)[i] = (s \o t)[i]
  BY <1>1, TakenProperties
<1>3. CASE Len(s) >= n
  <2>1. /\ Taken(s, n) \in Seq(S)
        /\ Len(Taken(s, n)) = n
        /\ \A i \in 1 .. n : Taken(s, n)[i] = s[i]
    BY <1>1, <1>3, TakenProperties
  <2>2. Len(Taken(s \o t, n)) = n
    BY <1>1, <1>2, <1>3
  <2>3. \A i \in 1 .. n : Taken(s \o t, n)[i] = Taken(s, n)[i]
    BY <1>1, <1>2, <1>3, <2>1, <2>2
  <2>4. Taken(s \o t, n) = Taken(s, n)
    BY <1>2, <2>1, <2>2, <2>3, SeqEqual
  <2>5. CASE Len(s) <= n
    <3> DEFINE u == Taken(t, n - Len(s))
    <3>1. n - Len(s) = 0
      BY <1>1, <1>3, <2>5
    <3>2. u \in Seq(S) /\ Len(u) = 0
      BY <1>1, <3>1, TakenProperties
    <3>3. u = <<>>
      BY <3>2, EmptySeq
    <3>4. s \o u = s
      BY <3>3, ConcatEmptySeq
    <3>5. Taken(s, n) = s
      <4>1. Len(s) = n
        BY <1>1, <3>1
      <4> QED
        BY <2>1, <4>1, SeqEqual
    <3> QED
      BY <2>4, <3>4, <3>5
  <2> QED
    BY <2>4, <2>5
<1>4. CASE Len(s) < n
  <2> DEFINE u == Taken(t, n - Len(s))
  <2>1. n - Len(s) \in Nat
    BY <1>1, <1>4
  <2>2. /\ u \in Seq(S)
        /\ Len(u) = IF n - Len(s) < Len(t) THEN n - Len(s) ELSE Len(t)
        /\ \A i \in 1 .. Len(u) : u[i] = t[i]
    BY <2>1, TakenProperties
  <2>3. /\ s \o u \in Seq(S) /\ Len(s \o u) = Len(s) + Len(u)
        /\ \A i \in 1 .. Len(s) + Len(u) :
              (s \o u)[i] = IF i <= Len(s) THEN s[i] ELSE u[i - Len(s)]
    BY <2>2, ConcatProperties
  <2>4. Len(Taken(s \o t, n)) = Len(s) + Len(u)
    <3>1. CASE n < Len(s) + Len(t)
      <4>1. n - Len(s) < Len(t)
        BY <1>1, <3>1
      <4>2. Len(u) = n - Len(s) /\ Len(Taken(s \o t, n)) = n
        BY <1>2, <2>2, <3>1, <4>1
      <4> QED
        BY <1>1, <4>2
    <3>2. CASE ~ (n < Len(s) + Len(t))
      <4>1. ~ (n - Len(s) < Len(t))
        BY <1>1, <3>2
      <4> QED
        BY <1>2, <2>2, <3>2, <4>1
    <3> QED
      BY <3>1, <3>2
  <2>5. \A i \in 1 .. Len(s) + Len(u) : (s \o t)[i] = (s \o u)[i]
    <3> SUFFICES ASSUME NEW i \in 1 .. Len(s) + Len(u) PROVE (s \o t)[i] = (s \o u)[i]
      OBVIOUS
    <3>1. Len(u) \in Nat /\ Len(u) <= Len(t)
      BY <1>1, <2>1, <2>2
    <3>2. i \in 1 .. Len(s) + Len(t)
      BY <1>1, <3>1
    <3>3. CASE i <= Len(s)
      BY <1>1, <2>3, <3>2, <3>3
    <3>4. CASE ~ (i <= Len(s))
      <4>1. i - Len(s) \in 1 .. Len(u)
        BY <1>1, <3>1, <3>4
      <4> QED
        BY <1>1, <2>2, <2>3, <3>2, <3>4, <4>1
    <3> QED
      BY <3>3, <3>4
  <2>6. Taken(s \o t, n) = s \o u
    <3> DEFINE v == Taken(s \o t, n)
               w == s \o u
    <3>1. v \in Seq(S) /\ w \in Seq(S) /\ Len(v) = Len(w)
      BY <1>2, <2>3, <2>4
    <3>2. \A i \in 1 .. Len(v) : v[i] = w[i]
      BY <1>2, <2>4, <2>5
    <3> HIDE DEF v, w
    <3>3. v = w
      BY <3>1, <3>2, SeqEqual
    <3> QED
      BY <3>3 DEF v, w
  <2> QED
    BY <1>1, <1>4, <2>6
<1> QED
  BY <1>1, <1>3, <1>4
-----------------------------------------------------------------------------
(* The audit log. *)

(* A piece that passes leaves what is kept true of the longer body.          *)
LEMMA AppendKeepsTrue ==
    ASSUME NEW S, NEW audit, NEW history, NEW limit \in Nat, NEW piece \in Seq(S),
           history.body \in Seq(S), TrueOf(audit, history, limit)
    PROVE  TrueOf(AppendLimited(audit, piece, limit), Passed(history, piece), limit)
<1> DEFINE body == history.body
           kept == Len(audit.preview)
           next == AppendLimited(audit, piece, limit)
<1>0. body \in Seq(S)
  OBVIOUS
<1>1. /\ Len(body) \in Nat /\ Len(piece) \in Nat
      /\ body \o piece \in Seq(S) /\ Len(body \o piece) = Len(body) + Len(piece)
      /\ piece # <<>> <=> Len(piece) > 0
  BY LenProperties, ConcatProperties, EmptySeq
<1>2. /\ audit.preview = Taken(body, limit)
      /\ audit.size = Len(body)
      /\ kept = IF limit < Len(body) THEN limit ELSE Len(body)
  BY TakenProperties DEF TrueOf
<1>3. /\ Passed(history, piece).body = body \o piece
      /\ Passed(history, piece).last = piece
  BY DEF Passed
<1>4. next.size = Len(body \o piece)
  BY <1>1, <1>2 DEF AppendLimited
<1>5. CASE limit <= Len(body)
  <2>1. kept >= limit
    BY <1>1, <1>2, <1>5
  <2>2. next.preview = audit.preview /\ (next.truncated <=> piece # <<>>)
    BY <2>1 DEF AppendLimited
  <2>3. Taken(body \o piece, limit) = Taken(body, limit)
    BY <1>5, <1>1, TakenConcat
  <2>4. next.truncated <=> Len(body \o piece) > limit /\ piece # <<>>
    BY <1>1, <1>5, <2>2
  <2> QED
    BY <1>2, <1>3, <1>4, <2>2, <2>3, <2>4 DEF TrueOf
<1>6. CASE limit > Len(body)
  <2>1. kept = Len(body) /\ limit # 0 /\ ~ (kept >= limit)
    BY <1>1, <1>2, <1>6
  <2>2. Taken(body, limit) = body
    BY <1>0, <1>1, <1>6, TakenWhole
  <2>3. Taken(body \o piece, limit) = body \o Taken(piece, limit - Len(body))
    <3> HIDE DEF body
    <3>1. Len(body) <= limit
      BY <1>1, <1>6
    <3> QED
      BY <1>0, <3>1, TakenConcat
  <2>4. CASE piece = <<>>
    <3>1. next.preview = audit.preview /\ ~ next.truncated
      BY <2>4 DEF AppendLimited
    <3>2. body \o piece = body
      BY <2>4, ConcatEmptySeq
    <3> QED
      BY <1>2, <1>3, <1>4, <2>4, <3>1, <3>2 DEF TrueOf
  <2>5. CASE piece # <<>>
    <3>1. /\ next.preview = audit.preview \o Taken(piece, limit - kept)
          /\ next.truncated <=> Len(piece) > limit - kept
      BY <2>1, <2>5 DEF AppendLimited
    <3>2. next.truncated <=> Len(body \o piece) > limit
      BY <1>1, <2>1, <3>1
    <3>3. next.preview = Taken(body \o piece, limit)
      BY <1>2, <2>1, <2>2, <2>3, <3>1
    <3> QED
      BY <1>3, <1>4, <2>5, <3>2, <3>3 DEF TrueOf
  <2> QED
    BY <2>4, <2>5
<1> QED
  BY <1>1, <1>5, <1>6

(* Every step of the audit keeps what is said of either body true, logged or *)
(* not.                                                                      *)
AuditInv ==
    /\ passed = [request |-> passed.request, response |-> passed.response]
    /\ passed.request.body \in Seq(Bytes)
    /\ passed.response.body \in Seq(Bytes)
    /\ TrueOf(request, passed.request, RequestLimit)
    /\ TrueOf(response, passed.response, ResponseLimit)

LEMMA AuditStarts == AuditInit => AuditInv
<1> SUFFICES ASSUME AuditInit PROVE AuditInv
  OBVIOUS
<1>1. <<>> \in Seq(Bytes) /\ Len(<<>>) = 0
  BY EmptySeq
<1>2. \A limit \in Nat : TrueOf(NothingKept, Nothing, limit)
  <2> SUFFICES ASSUME NEW limit \in Nat PROVE TrueOf(NothingKept, Nothing, limit)
    OBVIOUS
  <2>1. PICK empty \in Seq(Bytes) : empty = <<>>
    BY <1>1
  <2>2. Taken(<<>>, limit) = <<>>
    <3>1. Len(empty) <= limit
      BY <1>1, <2>1
    <3>2. Taken(empty, limit) = empty
      BY <3>1, TakenWhole
    <3> QED
      BY <2>1, <3>2
  <2> QED
    BY <1>1, <2>2 DEF TrueOf, NothingKept, Nothing
<1> QED
  BY <1>1, <1>2, LimitsAssumption DEF AuditInit, AuditInv, Nothing

LEMMA AuditSteps == AuditInv /\ [AuditNext]_auditVars => AuditInv'
<1> SUFFICES ASSUME AuditInv, [AuditNext]_auditVars PROVE AuditInv'
  OBVIOUS
<1>1. \A piece \in Pieces : piece \in Seq(Bytes)
  BY BoundsAssumption DEF Pieces
<1>2. ASSUME NEW piece \in Pieces, ReceiveWrapper(piece) PROVE AuditInv'
  <2>1. /\ passed'.request = Passed(passed.request, piece)
        /\ passed'.response = passed.response
        /\ passed' = [request |-> passed'.request, response |-> passed'.response]
    BY <1>2 DEF AuditInv, ReceiveWrapper
  <2>2. TrueOf(AppendLimited(request, piece, RequestLimit), Passed(passed.request, piece),
               RequestLimit)
    BY <1>1, LimitsAssumption, AppendKeepsTrue DEF AuditInv
  <2>3. passed'.request.body \in Seq(Bytes)
    BY <1>1, <2>1, ConcatProperties DEF AuditInv, Passed
  <2> QED
    BY <1>2, <2>1, <2>2, <2>3 DEF AuditInv, ReceiveWrapper
<1>3. ASSUME NEW piece \in Pieces, SendWrapper(piece) PROVE AuditInv'
  <2>1. /\ passed'.response = Passed(passed.response, piece)
        /\ passed'.request = passed.request
        /\ passed' = [request |-> passed'.request, response |-> passed'.response]
    BY <1>3 DEF AuditInv, SendWrapper
  <2>2. TrueOf(AppendLimited(response, piece, ResponseLimit), Passed(passed.response, piece),
               ResponseLimit)
    BY <1>1, LimitsAssumption, AppendKeepsTrue DEF AuditInv
  <2>3. passed'.response.body \in Seq(Bytes)
    BY <1>1, <2>1, ConcatProperties DEF AuditInv, Passed
  <2> QED
    BY <1>3, <2>1, <2>2, <2>3 DEF AuditInv, SendWrapper
<1>4. CASE LogRequest
  BY <1>4 DEF AuditInv, LogRequest
<1>5. CASE UNCHANGED auditVars
  BY <1>5 DEF AuditInv, auditVars
<1> QED
  BY <1>2, <1>3, <1>4, <1>5 DEF AuditNext

(* request_logging.py, _append_limited: whatever the limits, and in whatever *)
(* pieces and order the bodies pass, the record is true of both.             *)
THEOREM LogTrue == AuditSpec => []LogIsTrue
<1>1. AuditInv => LogIsTrue
  BY DEF AuditInv, LogIsTrue
<1> QED
  BY <1>1, AuditStarts, AuditSteps, PTL DEF AuditSpec
-----------------------------------------------------------------------------
(* Commands. *)

IsCommand(x) ==
    /\ x.agent \in Agents
    /\ x = [agent |-> x.agent, skill |-> x.skill, given |-> x.given]

(* Of parts that hold no object but in the last, the last is read.           *)
LEMMA LastIsRead ==
    ASSUME NEW before \in Prologues, NEW part, IsObject(ReadPart(part))
    PROVE  CommandFromMessage(before \o <<part>>) = ReadPart(part)
<1> DEFINE S == {before[i] : i \in DOMAIN before}
           T == S \cup {part}
           parts == before \o <<part>>
           n == Len(before) + 1
           values == [i \in DOMAIN parts |-> ReadPart(parts[i])]
           fit == {i \in DOMAIN values : IsObject(values[i])}
<1>1. before \in Seq(S) /\ \A i \in DOMAIN before : ~ IsObject(ReadPart(before[i]))
  BY ProloguesAssumption
<1>2. before \in Seq(T)
  BY <1>1, SeqMonotonic
<1>3. <<part>> \in Seq(T) /\ Len(<<part>>) = 1 /\ <<part>>[1] = part
  OBVIOUS
<1> HIDE DEF S, T
<1>4. Len(before) \in Nat /\ DOMAIN before = 1 .. Len(before)
  BY <1>2, LenProperties
<1>5. /\ parts \in Seq(T)
      /\ Len(parts) = n
      /\ \A i \in 1 .. n : parts[i] = IF i <= Len(before) THEN before[i] ELSE part
  <2>1. /\ parts \in Seq(T) /\ Len(parts) = n
        /\ \A i \in 1 .. n : parts[i] = IF i <= Len(before) THEN before[i]
                                        ELSE <<part>>[i - Len(before)]
    BY <1>2, <1>3, ConcatProperties
  <2>2. \A i \in 1 .. n : ~ (i <= Len(before)) => i - Len(before) = 1
    BY <1>4
  <2> QED
    BY <1>3, <2>1, <2>2
<1> HIDE DEF parts
<1>6. DOMAIN parts = 1 .. n
  BY <1>5, LenProperties
<1>7. \A i \in 1 .. Len(before) : ~ IsObject(values[i])
  BY <1>1, <1>4, <1>5, <1>6
<1>8. values[n] = ReadPart(part)
  BY <1>4, <1>5, <1>6
<1>9. fit = {n}
  BY <1>4, <1>6, <1>7, <1>8
<1>10. FirstWhere(values, IsObject) = values[n]
  <2>1. fit # {} /\ (CHOOSE i \in fit : \A j \in fit : i <= j) = n
    BY <1>4, <1>9
  <2> HIDE DEF values
  <2> QED
    BY <2>1 DEF FirstWhere
<1> QED
  BY <1>8, <1>10 DEF CommandFromMessage, parts

(* A message without an object is read as none.                              *)
LEMMA NothingIsRead ==
    ASSUME NEW before \in Prologues
    PROVE  CommandFromMessage(before) = None
<1> DEFINE values == [i \in DOMAIN before |-> ReadPart(before[i])]
<1>1. {i \in DOMAIN values : IsObject(values[i])} = {}
  BY ProloguesAssumption
<1> HIDE DEF values
<1>2. FirstWhere(values, IsObject) = None
  BY <1>1 DEF FirstWhere
<1> QED
  BY <1>2 DEF CommandFromMessage, values

LEMMA CommandIsObject ==
    ASSUME NEW x
    PROVE  /\ IsObject(CommandObject(x)) /\ CommandObject(x) # None
           /\ "skill" \in DOMAIN CommandObject(x)
           /\ CommandObject(x).skill = x.skill /\ CommandObject(x).given = x.given
BY DEF CommandObject, IsObject, None

LEMMA MessageIsRead ==
    ASSUME NEW x, NEW parts \in Messages(x)
    PROVE  CommandFromMessage(parts) = CommandObject(x)
<1>1. PICK before \in Prologues,
           part \in {DataPart(CommandObject(x)), TextPart(Text("json", <<CommandObject(x)>>))} :
         parts = before \o <<part>>
  BY DEF Messages
<1>2. ReadPart(part) = CommandObject(x)
  BY <1>1 DEF ReadPart, DataPart, TextPart, Text
<1> QED
  BY <1>1, <1>2, LastIsRead, CommandIsObject

Missing(x) ==
    IF x.skill \in SkillIds(x.agent) THEN AskedFor(x.agent, x.skill, x.given) ELSE {}

LEMMA ReceiveCommand ==
    ASSUME NEW x, NEW parts, CommandFromMessage(parts) = CommandObject(x),
           Execute(x.agent, parts)
    PROVE  state' = Validate(x.agent, x.skill, x.given) /\ asked' = Missing(x)
BY CommandIsObject DEF Execute, Ends, Missing

LEMMA InvokeCommand ==
    ASSUME NEW x, Invoke(x)
    PROVE  /\ x.skill \in SkillIds(x.agent) => state' = Validate(x.agent, x.skill, x.given)
           /\ x.skill \notin SkillIds(x.agent) => state' = "REJECTED"
           /\ asked' = Missing(x)
<1>1. CASE x.skill \notin SkillIds(x.agent)
  BY <1>1 DEF Invoke, Ends, Missing
<1>2. CASE x.skill \in SkillIds(x.agent)
  <2> DEFINE parts == <<DataPart(CommandObject(x))>>
  <2>1. Execute(x.agent, parts)
    BY <1>2 DEF Invoke
  <2>2. CommandFromMessage(parts) = CommandObject(x)
    <3> DEFINE values == [i \in DOMAIN parts |-> ReadPart(parts[i])]
               fit == {i \in DOMAIN values : IsObject(values[i])}
    <3>1. DOMAIN parts = {1} /\ parts[1] = DataPart(CommandObject(x))
      OBVIOUS
    <3>2. DOMAIN values = {1} /\ values[1] = CommandObject(x)
      BY <3>1 DEF ReadPart, DataPart
    <3>3. fit = {1}
      BY <3>2, CommandIsObject
    <3>4. fit # {} /\ (CHOOSE i \in fit : \A j \in fit : i <= j) = 1
      <4> HIDE DEF fit
      <4> QED
        BY <3>3
    <3> HIDE DEF values
    <3>5. FirstWhere(values, IsObject) = values[1]
      BY <3>4 DEF FirstWhere
    <3> QED
      BY <3>2, <3>5 DEF CommandFromMessage, values
  <2> QED
    BY <1>2, <2>1, <2>2, ReceiveCommand
<1> QED
  BY <1>1, <1>2

LEMMA SkillsAgree == \A agent \in Agents : Admitted(agent) = SkillIds(agent)
BY DEF Agents, Admitted, SkillIds

(* A requirement that is not met names alternatives that would meet it, and  *)
(* what is met stays met when texts are added.                               *)
LEMMA AnswerMeets ==
    ASSUME NEW agent, NEW skill, NEW given, NEW texts,
           \A alternatives \in AskedFor(agent, skill, given) : texts \cap alternatives # {}
    PROVE  AskedFor(agent, skill, WithTexts(given, texts)) = {}
<1> DEFINE new == WithTexts(given, texts)
<1>1. /\ DOMAIN new = texts \cup DOMAIN given
      /\ \A f \in texts : new[f] = "text"
      /\ \A f \in DOMAIN given : new[f] = "text" \/ new[f] = given[f]
  BY DEF WithTexts
<1> HIDE DEF new
<1>2. ASSUME NEW r \in Requirements(agent, skill) PROVE Met(r, new)
  <2>1. CASE Met(r, given)
    BY <1>1, <2>1 DEF Met
  <2>2. CASE ~ Met(r, given)
    <3>1. Named(r) \in AskedFor(agent, skill, given)
      BY <2>2 DEF AskedFor
    <3>2. PICK f \in Named(r) : f \in texts
      BY <3>1
    <3>3. Named(r) \subseteq r.fields
      BY DEF Named, AnyOf, KnowledgeFields
    <3> QED
      BY <1>1, <3>2, <3>3 DEF Met
  <2> QED
    BY <2>1, <2>2
<1> QED
  BY <1>2 DEF AskedFor, new

(* What became of the latest command, by the way it came.                    *)
CommandInv ==
    /\ command = NoCommand \/ IsCommand(command)
    /\ command = NoCommand =>
          state \in {"none", "FAILED"} /\ via \in {"none", "message"} /\ ~ answered
    /\ command # NoCommand =>
          /\ via \in {"gateway", "dispatch", "message"}
          /\ asked = Missing(command)
          /\ via = "gateway" => command.skill \in SkillIds(command.agent)
          /\ via = "message" \/ command.skill \in SkillIds(command.agent) =>
                state = Validate(command.agent, command.skill, command.given)
          /\ via # "message" /\ command.skill \notin SkillIds(command.agent) =>
                state = "REJECTED"
    /\ answered => state = "RUN"

LEMMA NoCommandIsNone == \A x : IsCommand(x) => x # NoCommand
BY DEF IsCommand, Agents, NoCommand

LEMMA ValidateEnds ==
    \A agent, skill, given : Validate(agent, skill, given) \in {"FAILED", "INPUT_REQUIRED", "RUN"}
BY DEF Validate

LEMMA CommandSteps == CommandInv /\ [CommandNext]_commandVars => CommandInv'
<1> SUFFICES ASSUME CommandInv, [CommandNext]_commandVars PROVE CommandInv'
  OBVIOUS
<1>1. \A x \in Commands : IsCommand(x)
  BY CommandsAssumption DEF IsCommand
<1>2. state = "none" => ~ answered
  BY DEF CommandInv
<1>3. ASSUME state = "none", NEW x \in Commands, CallGateway(x) PROVE CommandInv'
  <2>1. IsCommand(x) /\ x # NoCommand
    BY <1>1, NoCommandIsNone
  <2>2. x.skill \in SkillIds(x.agent)
    BY <1>3, <2>1, SkillsAgree DEF CallGateway, IsCommand
  <2>3. state' = Validate(x.agent, x.skill, x.given) /\ asked' = Missing(x)
    BY <1>3, <2>2, InvokeCommand DEF CallGateway
  <2> QED
    BY <1>2, <1>3, <2>1, <2>2, <2>3 DEF CallGateway, CommandInv, IsCommand, Missing
<1>4. ASSUME state = "none", NEW x \in Commands, CallDispatch(x) PROVE CommandInv'
  <2>1. IsCommand(x) /\ x # NoCommand
    BY <1>1, NoCommandIsNone
  <2>2. /\ x.skill \in SkillIds(x.agent) => state' = Validate(x.agent, x.skill, x.given)
        /\ x.skill \notin SkillIds(x.agent) => state' = "REJECTED"
        /\ asked' = Missing(x)
    BY <1>4, InvokeCommand DEF CallDispatch
  <2> QED
    BY <1>2, <1>4, <2>1, <2>2 DEF CallDispatch, CommandInv, IsCommand, Missing
<1>5. ASSUME state = "none", NEW x \in Commands, SendMessage(x) PROVE CommandInv'
  <2>1. IsCommand(x) /\ x # NoCommand
    BY <1>1, NoCommandIsNone
  <2>2. PICK parts \in Messages(x) : Execute(x.agent, parts)
    BY <1>5 DEF SendMessage
  <2>3. state' = Validate(x.agent, x.skill, x.given) /\ asked' = Missing(x)
    BY <2>2, MessageIsRead, ReceiveCommand
  <2> QED
    BY <1>2, <1>5, <2>1, <2>3 DEF SendMessage, CommandInv, IsCommand, Missing
<1>6. ASSUME state = "none", NEW agent \in Agents, SendOther(agent) PROVE CommandInv'
  <2>1. state = "none" /\ command = NoCommand
    BY <1>6, ValidateEnds DEF SendOther, CommandInv
  <2>2. PICK before \in Prologues, rest \in {<<>>, <<DataPart(Object(<<>>))>>} :
          Execute(agent, before \o rest)
    BY <1>6 DEF SendOther
  <2>3. state' = "FAILED" /\ asked' = {}
    <3>1. CASE rest = <<>>
      <4>1. before \o <<>> = before
        BY ProloguesAssumption, ConcatEmptySeq
      <4> QED
        BY <2>2, <3>1, <4>1, NothingIsRead DEF Execute, Ends
    <3>2. CASE rest = <<DataPart(Object(<<>>))>>
      <4>1. ReadPart(DataPart(Object(<<>>))) = Object(<<>>)
        BY DEF ReadPart, DataPart
      <4>2. IsObject(Object(<<>>)) /\ "skill" \notin DOMAIN Object(<<>>)
        BY DEF IsObject, Object
      <4>3. CommandFromMessage(before \o rest) = Object(<<>>)
        BY <3>2, <4>1, <4>2, LastIsRead
      <4> QED
        BY <2>2, <4>2, <4>3 DEF Execute, Ends
    <3> QED
      BY <3>1, <3>2
  <2> QED
    BY <1>2, <1>6, <2>1, <2>3 DEF SendOther, CommandInv
<1>7. ASSUME NEW fields \in SUBSET UNION asked, Answer(fields) PROVE CommandInv'
  <2> DEFINE x == [command EXCEPT !.given = WithTexts(@, fields)]
  <2>1. IsCommand(command) /\ command # NoCommand
    BY <1>7 DEF Answer, CommandInv
  <2>2. /\ x.agent = command.agent /\ x.skill = command.skill
        /\ x.given = WithTexts(command.given, fields)
        /\ IsCommand(x)
    BY <2>1 DEF IsCommand
  <2>3. /\ command.skill \in SkillIds(command.agent)
        /\ asked = AskedFor(command.agent, command.skill, command.given)
    <3>1. state = "INPUT_REQUIRED"
      BY <1>7 DEF Answer
    <3>2. command.skill \notin SkillIds(command.agent) =>
            Validate(command.agent, command.skill, command.given) = "FAILED"
      BY DEF Validate
    <3> QED
      BY <2>1, <3>1, <3>2 DEF CommandInv, Missing
  <2>4. AskedFor(x.agent, x.skill, x.given) = {}
    BY <1>7, <2>2, <2>3, AnswerMeets DEF Answer
  <2>5. Validate(x.agent, x.skill, x.given) = "RUN"
    BY <2>2, <2>3, <2>4 DEF Validate
  <2> HIDE DEF x
  <2>6. command' = x /\ answered' = TRUE /\ via' = via
    BY <1>7 DEF Answer, x
  <2>7. state' = Validate(x.agent, x.skill, x.given) /\ asked' = Missing(x)
    <3>1. CASE via \in {"gateway", "dispatch"} /\ Invoke(x)
      BY <2>2, <2>3, <3>1, InvokeCommand
    <3>2. ASSUME NEW parts \in Messages(x), Execute(x.agent, parts)
          PROVE  state' = Validate(x.agent, x.skill, x.given) /\ asked' = Missing(x)
      BY <3>2, MessageIsRead, ReceiveCommand
    <3> QED
      BY <1>7, <3>1, <3>2 DEF Answer, x
  <2>8. x # NoCommand
    BY <2>2, NoCommandIsNone
  <2> QED
    BY <2>1, <2>2, <2>3, <2>5, <2>6, <2>7, <2>8 DEF CommandInv
<1>8. CASE UNCHANGED commandVars
  BY <1>8 DEF commandVars, CommandInv, IsCommand, Missing
<1> QED
  BY <1>3, <1>4, <1>5, <1>6, <1>7, <1>8 DEF CommandNext

LEMMA CommandInvariance == CommandSpec => []CommandInv
<1>1. CommandInit => CommandInv
  BY DEF CommandInit, CommandInv
<1> QED
  BY <1>1, CommandSteps, PTL DEF CommandSpec

(* mcp_gateway.py, a2a_client.py, message_utils.py, validation.py: the lists *)
(* of skills agree, and a command is read wherever it stands in a message.   *)
THEOREM Arrival == CommandSpec => []CommandsArrive
<1>1. CommandInv => CommandsArrive
  <2> SUFFICES ASSUME CommandInv PROVE CommandsArrive
    OBVIOUS
  <2>1. via = "gateway" => command # NoCommand
    BY DEF CommandInv
  <2>2. ASSUME via = "gateway" PROVE state \notin {"REJECTED", "FAILED"}
    <3>1. /\ command.skill \in SkillIds(command.agent)
          /\ state = Validate(command.agent, command.skill, command.given)
      BY <2>1, <2>2 DEF CommandInv
    <3> QED
      BY <3>1 DEF Validate
  <2> QED
    BY <2>2 DEF CommandInv, CommandsArrive
<1> QED
  BY <1>1, CommandInvariance, PTL

(* validation.py, validate_command: for all fields and values given.         *)
THEOREM AskedOnce == CommandSpec => []AskingOnceSuffices
<1>1. CommandInv => AskingOnceSuffices
  BY DEF CommandInv, AskingOnceSuffices
<1> QED
  BY <1>1, CommandInvariance, PTL

(* internal_knowledge_agent.py, _query_from_command: every command that is   *)
(* accepted for a text, or for topics in a list, puts something in the       *)
(* query.  Of one accepted for another type the theorem says nothing.        *)
THEOREM AcceptedQueried == CommandSpec => []AcceptedIsQueried
<1>1. AcceptedIsQueried
  <2> SUFFICES ASSUME NEW f \in KnowledgeFields \cap DOMAIN command.given,
                      command.given[f] = IF f = "topics" THEN "list" ELSE "text"
               PROVE  Queried(command.given) # {}
    BY DEF AcceptedIsQueried
  <2>1. CASE f = "topics"
    BY <2>1 DEF Queried
  <2>2. CASE f # "topics"
    <3>1. f \in QueryFields
      BY <2>2 DEF KnowledgeFields, QueryFields
    <3> QED
      BY <2>2, <3>1 DEF Queried
  <2> QED
    BY <2>1, <2>2
<1> QED
  BY <1>1, PTL

-----------------------------------------------------------------------------
(* Callbacks. *)

LEMMA CallbackIsObject ==
    ASSUME NEW callback, LooksLikeCallback(callback)
    PROVE  callback # None /\ Unwrap(callback) = callback
BY DEF LooksLikeCallback, IsObject, IsText, None, Unwrap

LEMMA TextUnwraps == \A v : Unwrap(Text("json", <<v>>)) = v
BY DEF Unwrap, IsText, Text

(* The payload and what it holds under the keys, as ReadCallback tries them. *)
LEMMA Tried ==
    ASSUME NEW payload
    PROVE  LET values == <<payload>> \o [i \in DOMAIN Wrappers |-> Unwrap(Get(payload, Wrappers[i]))]
           IN /\ DOMAIN values = 1 .. 5
              /\ values[1] = payload
              /\ \A i \in 1 .. 4 : values[i + 1] = Unwrap(Get(payload, Wrappers[i]))
<1> DEFINE nested == [i \in DOMAIN Wrappers |-> Unwrap(Get(payload, Wrappers[i]))]
           S == {payload} \cup {nested[i] : i \in 1 .. 4}
<1>1. DOMAIN Wrappers = 1 .. 4
  BY DEF Wrappers
<1>2. nested \in Seq(S) /\ Len(nested) = 4
  BY <1>1
<1>3. <<payload>> \in Seq(S) /\ Len(<<payload>>) = 1
  OBVIOUS
<1>4. \A i \in 1 .. 4 : nested[i] = Unwrap(Get(payload, Wrappers[i]))
  BY <1>1
<1> HIDE DEF nested, S
<1> QED
  BY <1>2, <1>3, <1>4, ConcatProperties DEF nested

(* A callback is found bare, before whatever it holds itself. *)
LEMMA BareCallbackReads ==
    ASSUME NEW callback, LooksLikeCallback(callback), NEW sent, Unwrap(sent) = callback
    PROVE  ReadCallback(sent) = callback
<1> DEFINE values == <<callback>> \o [i \in DOMAIN Wrappers |-> Unwrap(Get(callback, Wrappers[i]))]
<1>1. DOMAIN values = 1 .. 5 /\ values[1] = callback
  BY Tried
<1> HIDE DEF values
<1>2. FirstWhere(values, LooksLikeCallback) = callback
  BY <1>1 DEF FirstWhere
<1>3. callback # None /\ IsObject(callback)
  BY CallbackIsObject DEF LooksLikeCallback
<1> QED
  BY <1>2, <1>3 DEF ReadCallback, values

(* A callback is found under the first key that holds one, whatever else   *)
(* the object that wraps it has.                                           *)
LEMMA WrappedCallbackFound ==
    ASSUME NEW callback, LooksLikeCallback(callback),
           NEW wrapper, IsObject(wrapper), ~ LooksLikeCallback(wrapper),
           NEW n \in 1 .. 4, Unwrap(Get(wrapper, Wrappers[n])) = callback,
           \A i \in 1 .. 4 : i < n => ~ LooksLikeCallback(Unwrap(Get(wrapper, Wrappers[i]))),
           NEW sent, Unwrap(sent) = wrapper
    PROVE  ReadCallback(sent) = callback
<1> DEFINE values == <<wrapper>> \o [i \in DOMAIN Wrappers |-> Unwrap(Get(wrapper, Wrappers[i]))]
<1>1. /\ DOMAIN values = 1 .. 5
      /\ values[1] = wrapper
      /\ \A i \in 1 .. 4 : values[i + 1] = Unwrap(Get(wrapper, Wrappers[i]))
  <2>1. DOMAIN values = 1 .. 5 /\ values[1] = wrapper
    BY Tried
  <2>2. \A i \in 1 .. 4 : values[i + 1] = Unwrap(Get(wrapper, Wrappers[i]))
    BY Tried, ZenonT(60)
  <2> QED
    BY <2>1, <2>2
<1> HIDE DEF values
<1>2. n + 1 \in DOMAIN values /\ values[n + 1] = callback
  BY <1>1
<1>3. ASSUME NEW j \in DOMAIN values, j < n + 1 PROVE ~ LooksLikeCallback(values[j])
  <2>1. j = 1 \/ (j - 1 \in 1 .. 4 /\ j - 1 < n /\ values[j] = values[(j - 1) + 1])
    BY <1>1, <1>3
  <2> QED
    BY <1>1, <2>1
<1>4. FirstWhere(values, LooksLikeCallback) = callback
  <2> DEFINE fit == {j \in DOMAIN values : LooksLikeCallback(values[j])}
  <2>1. n + 1 \in fit /\ \A j \in fit : n + 1 <= j
    BY <1>1, <1>2, <1>3
  <2>2. \A i \in fit : (\A j \in fit : i <= j) => i = n + 1
    BY <1>1, <2>1
  <2> HIDE DEF fit
  <2>3. (CHOOSE i \in fit : \A j \in fit : i <= j) = n + 1
    BY <2>1, <2>2
  <2> QED
    BY <1>2, <2>1, <2>3 DEF FirstWhere, fit
<1>5. callback # None
  BY CallbackIsObject
<1> QED
  BY <1>4, <1>5 DEF ReadCallback, values

LEMMA NotedFields ==
    ASSUME NEW key, key # "note", NEW value
    PROVE  LET w == Object(<<Entry("note", Atom), Entry(key, value)>>)
           IN /\ IsObject(w) /\ Unwrap(w) = w
              /\ KeysOf(w) = {"note", key}
              /\ Get(w, key) = value
              /\ \A other : other \notin {"note", key} => Get(w, other) = None
<1> DEFINE w == Object(<<Entry("note", Atom), Entry(key, value)>>)
<1>1. w.kind = "object" /\ w.entries = <<Entry("note", Atom), Entry(key, value)>>
  BY DEF Object
<1>2. /\ DOMAIN w.entries = 1 .. 2
      /\ w.entries[1] = Entry("note", Atom) /\ w.entries[2] = Entry(key, value)
  BY <1>1
<1>3. /\ Entry("note", Atom).key = "note"
      /\ Entry(key, value).key = key /\ Entry(key, value).value = value
  BY DEF Entry
<1> HIDE DEF w
<1>4. IsObject(w) /\ Unwrap(w) = w
  BY <1>1 DEF IsObject, IsText, Unwrap
<1>5. KeysOf(w) = {"note", key}
  BY <1>2, <1>3 DEF KeysOf
<1>6. ToSet(w.entries) = {Entry("note", Atom), Entry(key, value)}
  BY <1>2 DEF ToSet
<1>7. (CHOOSE e \in ToSet(w.entries) : e.key = key) = Entry(key, value)
  BY <1>3, <1>6
<1>8. Get(w, key) = value
  BY <1>3, <1>4, <1>5, <1>7 DEF Get
<1>9. \A other : other \notin {"note", key} => Get(w, other) = None
  BY <1>5 DEF Get
<1> QED
  BY <1>4, <1>5, <1>8, <1>9 DEF w

(* A callback of a flow reads the same bare, as text, or as an object or    *)
(* text under any of the keys that Langflow wraps around it, whatever       *)
(* results and other fields it holds.                                       *)
THEOREM CallbacksUnwrap == \A callback : WrappedCallbackReads(callback)
<1> SUFFICES ASSUME NEW callback, LooksLikeCallback(callback),
                    NEW wrapped \in Under(callback),
                    NEW sent \in Bare(callback) \cup {wrapped, Text("json", <<wrapped>>)}
             PROVE  ReadCallback(sent) = callback
  BY DEF WrappedCallbackReads
<1>1. \A form \in Bare(callback) : Unwrap(form) = callback
  BY CallbackIsObject, TextUnwraps DEF Bare
<1>2. CASE sent \in Bare(callback)
  BY <1>1, <1>2, BareCallbackReads
<1>3. CASE sent \in {wrapped, Text("json", <<wrapped>>)}
  <2>1. PICK key \in ToSet(Wrappers), form \in Bare(callback) :
          wrapped = Object(<<Entry("note", Atom), Entry(key, form)>>)
    BY DEF Under
  <2>2. PICK n \in 1 .. 4 : key = Wrappers[n]
    BY DEF ToSet, Wrappers
  <2>3. \A i \in 1 .. 4 : Wrappers[i] # "note" /\ (i # n => Wrappers[i] # key)
    BY <2>2 DEF Wrappers
  <2>4. /\ IsObject(wrapped) /\ KeysOf(wrapped) = {"note", key}
        /\ Unwrap(wrapped) = wrapped
        /\ Get(wrapped, key) = form
        /\ \A i \in 1 .. 4 : i # n => Get(wrapped, Wrappers[i]) = None
    BY <2>1, <2>2, <2>3, NotedFields
  <2>5. Unwrap(sent) = wrapped
    BY <1>3, <2>4, TextUnwraps
  <2>6. ~ LooksLikeCallback(wrapped)
    BY <2>4 DEF LooksLikeCallback
  <2>7. ~ LooksLikeCallback(Unwrap(None))
    BY DEF Unwrap, None, IsText, LooksLikeCallback, IsObject
  <2>8. Unwrap(Get(wrapped, Wrappers[n])) = callback
    BY <1>1, <2>2, <2>4
  <2>9. \A i \in 1 .. 4 : i < n => ~ LooksLikeCallback(Unwrap(Get(wrapped, Wrappers[i])))
    BY <2>4, <2>7
  <2> QED
    BY <2>4, <2>5, <2>6, <2>8, <2>9, WrappedCallbackFound
<1> QED
  BY <1>2, <1>3

-----------------------------------------------------------------------------
(* The identifiers of a body. *)

LEMMA OneIsSeq == \A S : <<>> \in Seq(S) /\ \A x \in S : <<x>> \in Seq(S)
OBVIOUS

LEMMA FoundIsKnowledge == \A v \in Tree : Found(v) \in Knowledge
<1> SUFFICES ASSUME NEW v \in Tree PROVE Found(v) \in Knowledge
  OBVIOUS
<1>1. ASSUME NEW k \in AllIds
      PROVE  (IF IsText(Get(v, k)) THEN <<Get(v, k).name>> ELSE <<>>) \in Seq(Names)
  <2>1. Get(v, k) \in Layer(Sent)
    BY GetIsTree, SentAreTrees
  <2>2. IsText(Get(v, k)) => Get(v, k).name \in Names
    BY <2>1, LayerForms
  <2> QED
    BY <2>2, OneIsSeq
<1> QED
  BY <1>1 DEF Found, Knowledge

LEMMA LearnIsKnowledge == \A v \in Tree, known \in Knowledge : Learn(known, v) \in Knowledge
<1> SUFFICES ASSUME NEW v \in Tree, NEW known \in Knowledge PROVE Learn(known, v) \in Knowledge
  OBVIOUS
<1>1. Found(v) \in Knowledge
  BY FoundIsKnowledge
<1> HIDE DEF Found
<1> QED
  BY <1>1 DEF Learn, Knowledge

(* What is known before and after each of the parts.                       *)
Passes(visit, known, parts, after) ==
    /\ after \in [0 .. Len(parts) -> Knowledge]
    /\ after[0] = known
    /\ \A k \in 1 .. Len(parts) : after[k] = visit[parts[k]][after[k - 1]]

Visits(visit, parts) == \A k \in 1 .. Len(parts) : visit[parts[k]] \in [Knowledge -> Knowledge]

LEMMA VisitEachIs ==
    ASSUME NEW visit, NEW known \in Knowledge, NEW parts, Len(parts) \in Nat, Visits(visit, parts)
    PROVE  \E after : /\ Passes(visit, known, parts, after)
                      /\ VisitEach(visit, known, parts) = after[Len(parts)]
<1> DEFINE n == Len(parts)
           D == [k \in 1 .. n |-> [r \in Knowledge |-> visit[parts[k]][r]]]
<1>1. n \in Nat /\ \A k \in 1 .. n : visit[parts[k]] \in [Knowledge -> Knowledge]
  BY DEF Visits
<1>2. D \in [1 .. n -> [Knowledge -> Knowledge]]
  BY <1>1
<1>3. \A k \in 1 .. n, r \in Knowledge : D[k][r] = visit[parts[k]][r]
  OBVIOUS
<1> HIDE DEF n, D
<1>4. PICK f \in [0 .. n -> Knowledge] : f = [k \in 0 .. n |-> IF k = 0 THEN known ELSE D[k][f[k - 1]]]
  <2>1. StepsIn(n, Knowledge, known, D)
    BY <1>1, <1>2 DEF StepsIn
  <2> QED
    BY <2>1, Stepwise
<1>5. ASSUME NEW k \in 1 .. n PROVE k \in 0 .. n /\ k # 0 /\ k - 1 \in 0 .. n
  BY <1>1
<1>6. f = [k \in 0 .. n |-> IF k = 0 THEN known ELSE visit[parts[k]][f[k - 1]]]
  <2>1. ASSUME NEW k \in 0 .. n, k # 0 PROVE D[k][f[k - 1]] = visit[parts[k]][f[k - 1]]
    <3>1. k \in 1 .. n /\ k - 1 \in 0 .. n
      BY <1>1, <2>1
    <3> QED
      BY <1>3, <3>1
  <2>2. \A k \in 0 .. n : f[k] = IF k = 0 THEN known ELSE visit[parts[k]][f[k - 1]]
    BY <1>4, <2>1
  <2> QED
    BY <1>4, <2>2
<1> DEFINE G == CHOOSE g : g = [k \in 0 .. n |-> IF k = 0 THEN known ELSE visit[parts[k]][g[k - 1]]]
<1>7. G = [k \in 0 .. n |-> IF k = 0 THEN known ELSE visit[parts[k]][G[k - 1]]]
  BY <1>6
<1>8. VisitEach(visit, known, parts) = G[n]
  BY DEF VisitEach, n
<1> HIDE DEF G
<1>9. \A k \in Nat : k <= n => G[k] \in Knowledge
  <2> DEFINE T == {k \in Nat : k <= n => G[k] \in Knowledge}
  <2>1. 0 \in T
    BY <1>1, <1>7
  <2>2. ASSUME NEW k \in Nat, k \in T PROVE k + 1 \in T
    <3> SUFFICES ASSUME k + 1 <= n PROVE G[k + 1] \in Knowledge
      OBVIOUS
    <3>1. /\ k + 1 \in 0 .. n /\ k + 1 \in 1 .. n /\ k + 1 # 0 /\ (k + 1) - 1 = k /\ k <= n
      BY <1>1
    <3>2. G[k + 1] = visit[parts[k + 1]][G[k]] /\ G[k] \in Knowledge
      BY <1>7, <2>2, <3>1
    <3> QED
      BY <1>1, <3>1, <3>2
  <2> HIDE DEF T
  <2>3. Nat \subseteq T
    BY <2>1, <2>2, Induction
  <2> QED
    BY <2>3 DEF T
<1>10. G \in [0 .. n -> Knowledge] /\ G[0] = known
  <2>1. \A k \in 0 .. n : G[k] \in Knowledge
    BY <1>1, <1>9
  <2> QED
    BY <1>1, <1>7, <2>1
<1>11. \A k \in 1 .. n : G[k] = visit[parts[k]][G[k - 1]]
  BY <1>5, <1>7
<1>12. Passes(visit, known, parts, G)
  BY <1>10, <1>11 DEF Passes, n
<1> QED
  BY <1>8, <1>12 DEF n

LEMMA PassesAlike ==
    ASSUME NEW g, NEW h, NEW known, NEW parts, Len(parts) \in Nat,
           \A k \in 1 .. Len(parts) : g[parts[k]] = h[parts[k]],
           NEW a, Passes(g, known, parts, a), NEW b, Passes(h, known, parts, b)
    PROVE  a[Len(parts)] = b[Len(parts)]
<1> DEFINE T == {k \in Nat : k <= Len(parts) => a[k] = b[k]}
<1>1. 0 \in T
  BY DEF Passes
<1>2. ASSUME NEW k \in Nat, k \in T PROVE k + 1 \in T
  <2> SUFFICES ASSUME k + 1 <= Len(parts) PROVE a[k + 1] = b[k + 1]
    OBVIOUS
  <2>1. k + 1 \in 1 .. Len(parts) /\ (k + 1) - 1 = k /\ k <= Len(parts)
    OBVIOUS
  <2>2. a[k + 1] = g[parts[k + 1]][a[k]] /\ b[k + 1] = h[parts[k + 1]][b[k]]
    BY <2>1 DEF Passes
  <2> QED
    BY <1>2, <2>1, <2>2
<1> HIDE DEF T
<1>3. Nat \subseteq T
  BY <1>1, <1>2, Induction
<1> QED
  BY <1>3 DEF T

LEMMA VisitExists ==
    /\ Visit \in [Tree -> [Knowledge -> Knowledge]]
    /\ \A v \in Tree, known \in Knowledge : Visit[v][known] = VisitWith(Visit, known, v)
<1> DEFINE R == [Knowledge -> Knowledge]
           F(g, v) == [known \in Knowledge |-> VisitWith(g, known, v)]
           D == [v \in Tree |-> [g \in [Tree -> R] |-> F(g, v)]]
<1>1. ASSUME NEW v \in Tree, NEW g, \A w \in Held(v) : g[w] \in R
      PROVE  Len(Children(v)) \in Nat /\ Visits(g, Children(v))
  <2>1. Children(v) \in Seq(Tree) /\ \A i \in DOMAIN Children(v) : Children(v)[i] \in Held(v)
    BY PartsBelow
  <2> QED
    BY <1>1, <2>1 DEF Visits
<1>2. ASSUME NEW v \in Tree, NEW g, \A w \in Held(v) : g[w] \in R, NEW known \in Knowledge
      PROVE  VisitWith(g, known, v) \in Knowledge
  <2>1. Learn(known, v) \in Knowledge
    BY LearnIsKnowledge
  <2>2. PICK after : /\ Passes(g, Learn(known, v), Children(v), after)
                     /\ VisitEach(g, Learn(known, v), Children(v)) = after[Len(Children(v))]
    <3>1. Len(Children(v)) \in Nat /\ Visits(g, Children(v))
      BY <1>1, <1>2
    <3> QED
      BY <2>1, <3>1, VisitEachIs
  <2>3. Len(Children(v)) \in 0 .. Len(Children(v))
    BY <1>1, <1>2
  <2>4. VisitEach(g, Learn(known, v), Children(v)) \in Knowledge
    BY <2>2, <2>3 DEF Passes
  <2> QED
    BY <2>4 DEF VisitWith
<1>3. ASSUME NEW v \in Tree, NEW g, NEW h, \A w \in Held(v) : g[w] = h[w] /\ g[w] \in R
      PROVE  F(g, v) = F(h, v)
  <2>1. ASSUME NEW known \in Knowledge PROVE VisitWith(g, known, v) = VisitWith(h, known, v)
    <3> DEFINE parts == Children(v)
               known0 == Learn(known, v)
    <3>1. known0 \in Knowledge
      BY LearnIsKnowledge
    <3>2. Len(parts) \in Nat /\ Visits(g, parts) /\ Visits(h, parts)
      BY <1>1, <1>3
    <3>3. \A k \in 1 .. Len(parts) : g[parts[k]] = h[parts[k]]
      <4>1. parts \in Seq(Tree) /\ \A i \in DOMAIN parts : parts[i] \in Held(v)
        BY PartsBelow
      <4> QED
        BY <1>3, <4>1
    <3> HIDE DEF parts, known0
    <3>4. PICK a : Passes(g, known0, parts, a) /\ VisitEach(g, known0, parts) = a[Len(parts)]
      BY <3>1, <3>2, VisitEachIs
    <3>5. PICK b : Passes(h, known0, parts, b) /\ VisitEach(h, known0, parts) = b[Len(parts)]
      BY <3>1, <3>2, VisitEachIs
    <3>6. VisitEach(g, known0, parts) = VisitEach(h, known0, parts)
      BY <3>2, <3>3, <3>4, <3>5, PassesAlike
    <3> QED
      BY <3>6 DEF VisitWith, parts, known0
  <2> QED
    BY <2>1
<1>4. \A v \in Tree : \A g \in [Tree -> R] : D[v][g] = F(g, v)
  OBVIOUS
<1>5. ASSUME NEW v \in Tree, NEW g \in [Tree -> R] PROVE F(g, v) \in R
  <2>1. \A w \in Held(v) : g[w] \in R
    BY HeldAreSent
  <2> QED
    BY <1>2, <2>1
<1>6. R # {}
  <2>1. [known \in Knowledge |-> known] \in R
    OBVIOUS
  <2> QED
    BY <2>1
<1>7. D \in [Tree -> [[Tree -> R] -> R]]
  <2> HIDE DEF F, R
  <2> QED
    BY <1>5
<1> HIDE DEF D, R, F
<1>8. LooksInside(R, D)
  <2>1. ASSUME NEW v \in Tree, NEW g \in [Tree -> R], NEW h \in [Tree -> R],
               \A w \in Held(v) : g[w] = h[w]
        PROVE  D[v][g] = D[v][h]
    <3>1. \A w \in Held(v) : g[w] \in R
      BY HeldAreSent
    <3> QED
      BY <1>3, <1>4, <2>1, <3>1
  <2> QED
    BY <1>6, <1>7, <2>1 DEF LooksInside
<1>9. PICK f \in [Tree -> R] : \A v \in Tree : f[v] = D[v][f]
  BY <1>8, TreeRecursion
<1>10. f = [v \in Tree |-> F(f, v)]
  BY <1>4, <1>9
<1>11. Visit = [v \in Tree |-> F(Visit, v)]
  <2> DEFINE G == CHOOSE g : g = [v \in Tree |-> F(g, v)]
  <2>1. G = [v \in Tree |-> F(G, v)]
    BY <1>10
  <2>2. Visit = G
    BY DEF Visit, F
  <2> QED
    BY <2>1, <2>2
<1>12. Visit = f
  <2> DEFINE Q == {v \in Tree : Visit[v] = f[v]}
  <2>1. ASSUME NEW v \in Tree, Held(v) \subseteq Q PROVE v \in Q
    <3>1. \A w \in Held(v) : Visit[w] = f[w] /\ Visit[w] \in R
      BY <1>9, <2>1
    <3>2. F(Visit, v) = F(f, v)
      BY <1>3, <3>1
    <3> QED
      BY <1>10, <1>11, <3>2
  <2>2. Tree \subseteq Q
    <3> HIDE DEF Q
    <3> QED
      BY <2>1, TreeInduction
  <2> QED
    BY <1>10, <1>11, <2>2
<1>13. Visit \in [Tree -> R]
  BY <1>9, <1>12
<1>14. ASSUME NEW v \in Tree, NEW known \in Knowledge PROVE Visit[v][known] = VisitWith(Visit, known, v)
  BY <1>11 DEF F
<1> QED
  BY <1>13, <1>14 DEF R

NamingParts(v) == {p \in Parts[v] : IsObject(p.is) /\ IdsIn(Found(p.is)) # {}}

NamesWhole(v) == \A p \in NamingParts(v) : IdsIn(Found(p.is)) = RequestIds

(* A value that names no request leaves none known, and one that names only *)
(* whole requests makes the first of them known.                            *)
LearnsFirst(v) ==
    NamesWhole(v) => \A known \in Knowledge : IdsIn(known) = {} =>
        /\ NamingParts(v) = {} => IdsIn(Visit[v][known]) = {}
        /\ \A p \in NamingParts(v) :
              (\A q \in NamingParts(v) \ {p} : Earlier(p, q)) =>
                  \A k \in RequestIds : Visit[v][known][k] = Found(p.is)[k]

LEMMA WholeStays == \A v \in Tree, known \in Knowledge : IdsIn(known) = RequestIds => Visit[v][known] = known
BY VisitExists DEF VisitWith

LEMMA LearnIds ==
    ASSUME NEW v \in Tree, NEW known \in Knowledge, IdsIn(known) = {}
    PROVE  /\ (~ IsObject(v) \/ IdsIn(Found(v)) = {}) => IdsIn(Learn(known, v)) = {}
           /\ IsObject(v) /\ IdsIn(Found(v)) = RequestIds =>
                 /\ IdsIn(Learn(known, v)) = RequestIds
                 /\ \A k \in RequestIds : Learn(known, v)[k] = Found(v)[k]
<1>1. RequestIds \subseteq AllIds
  BY DEF AllIds
<1>2. \A k \in RequestIds : known[k] = <<>>
  BY DEF IdsIn
<1>3. \A k \in RequestIds :
        Learn(known, v)[k] = IF IsObject(v) /\ Found(v)[k] # <<>> THEN Found(v)[k] ELSE <<>>
  BY <1>1, <1>2 DEF Learn
<1> QED
  BY <1>3 DEF IdsIn

LEMMA EachLearnsFirst == \A v \in Tree : LearnsFirst(v)
<1> DEFINE Q == {v \in Tree : LearnsFirst(v)}
<1>1. ASSUME NEW v \in Tree, Held(v) \subseteq Q PROVE LearnsFirst(v)
  <2> SUFFICES ASSUME NamesWhole(v), NEW known \in Knowledge, IdsIn(known) = {}
               PROVE  /\ NamingParts(v) = {} => IdsIn(Visit[v][known]) = {}
                      /\ \A p \in NamingParts(v) :
                            (\A q \in NamingParts(v) \ {p} : Earlier(p, q)) =>
                                \A k \in RequestIds : Visit[v][known][k] = Found(p.is)[k]
    BY DEF LearnsFirst
  <2> DEFINE parts == Children(v)
             n == Len(parts)
             first == Learn(known, v)
             root == Part(<<>>, v)
  <2>1. /\ n \in Nat /\ DOMAIN parts = 1 .. n
        /\ \A i \in 1 .. n : parts[i] \in Tree /\ parts[i] \in Held(v) /\ LearnsFirst(parts[i])
    <3>1. parts \in Seq(Tree) /\ \A i \in DOMAIN parts : parts[i] \in Tree /\ parts[i] \in Held(v)
      BY PartsBelow
    <3>2. n \in Nat /\ DOMAIN parts = 1 .. n
      BY <3>1
    <3> QED
      BY <1>1, <3>1, <3>2
  <2>2. first \in Knowledge
    BY LearnIsKnowledge
  <2>3. Visits(Visit, parts)
    BY <2>1, VisitExists DEF Visits
  <2>4. PICK after : Passes(Visit, first, parts, after) /\ VisitEach(Visit, first, parts) = after[n]
    BY <2>1, <2>2, <2>3, VisitEachIs
  <2>5. Visit[v][known] = after[n]
    <3>1. IdsIn(known) # RequestIds
      BY DEF RequestIds
    <3>2. Visit[v][known] = VisitWith(Visit, known, v)
      BY VisitExists
    <3> QED
      BY <2>4, <3>1, <3>2 DEF VisitWith
  <2>6. /\ after[0] = first /\ \A k \in 0 .. n : after[k] \in Knowledge
        /\ \A k \in Nat : k + 1 <= n => after[k + 1] = Visit[parts[k + 1]][after[k]] /\ after[k] \in Knowledge
    <3>1. \A k \in Nat : k + 1 <= n => k + 1 \in 1 .. n /\ (k + 1) - 1 = k /\ k \in 0 .. n
      BY <2>1
    <3> QED
      BY <2>1, <2>4, <3>1 DEF Passes
  <2>7. root \in Parts[v] /\ root.is = v /\ root \in Places
    BY PartsBelow, PartIs
  <2>8. ASSUME NEW i \in 1 .. n, NEW q \in Parts[parts[i]]
        PROVE  /\ i \in Nat /\ q \in Places /\ Below(i, q) \in Parts[v] /\ Below(i, q) \in Places
               /\ Below(i, q).is = q.is /\ Earlier(root, Below(i, q))
    <3>1. i \in Nat /\ i \in DOMAIN Children(v) /\ parts[i] \in Tree
      BY <2>1
    <3>2. q \in Places /\ Below(i, q) \in Parts[v]
      BY <3>1, PartsBelow
    <3> QED
      BY <3>1, <3>2, BelowIs, PlaceAbove
  <2>9. \A p \in Parts[v] : p # root => \E i \in 1 .. n : \E q \in Parts[parts[i]] : p = Below(i, q)
    <3>1. \A p \in Parts[v] : p # root =>
             \E i \in DOMAIN parts : \E q \in Parts[parts[i]] : p = Below(i, q)
      BY PartsBelow, Zenon
    <3> QED
      BY <2>1, <3>1
  <2> HIDE DEF parts, n, first, root
  <2>10. \A i \in 1 .. n : \A q \in Parts[parts[i]] :
            q \in NamingParts(parts[i]) <=> Below(i, q) \in NamingParts(v)
    BY <2>8 DEF NamingParts
  <2>11. \A i \in 1 .. n : NamesWhole(parts[i])
    <3> SUFFICES ASSUME NEW i \in 1 .. n, NEW q \in NamingParts(parts[i])
                 PROVE  IdsIn(Found(q.is)) = RequestIds
      BY DEF NamesWhole
    <3>1. q \in Parts[parts[i]]
      BY DEF NamingParts
    <3>2. Below(i, q) \in NamingParts(v) /\ Below(i, q).is = q.is
      BY <2>8, <2>10, <3>1
    <3> QED
      BY <3>2 DEF NamesWhole
  <2>12. root \in NamingParts(v) <=> IsObject(v) /\ IdsIn(Found(v)) # {}
    BY <2>7 DEF NamingParts
  <2>13. ASSUME NEW m \in Nat, m <= n, IdsIn(after[m]) = RequestIds PROVE after[n] = after[m]
    <3> DEFINE T == {j \in Nat : m + j <= n => after[m + j] = after[m]}
    <3>1. 0 \in T
      BY <2>13
    <3>2. ASSUME NEW j \in Nat, j \in T PROVE j + 1 \in T
      <4> SUFFICES ASSUME m + (j + 1) <= n PROVE after[m + (j + 1)] = after[m]
        OBVIOUS
      <4>1. m + j \in Nat /\ m + (j + 1) = (m + j) + 1 /\ (m + j) + 1 <= n /\ m + j <= n
            /\ (m + j) + 1 \in 1 .. n
        BY <2>1
      <4>2. after[m + j] = after[m]
        BY <3>2, <4>1
      <4>3. after[(m + j) + 1] = Visit[parts[(m + j) + 1]][after[m + j]] /\ after[m + j] \in Knowledge
        BY <2>6, <4>1
      <4>4. parts[(m + j) + 1] \in Tree
        BY <2>1, <4>1
      <4>5. Visit[parts[(m + j) + 1]][after[m + j]] = after[m + j]
        BY <2>13, <4>2, <4>3, <4>4, WholeStays
      <4> QED
        BY <4>1, <4>2, <4>3, <4>5
    <3> HIDE DEF T
    <3>3. Nat \subseteq T
      BY <3>1, <3>2, Induction
    <3>4. n - m \in T /\ m + (n - m) = n
      BY <2>1, <2>13, <3>3
    <3> QED
      BY <2>1, <3>4 DEF T
  <2>14. ASSUME IdsIn(first) = {}, NEW m \in Nat, m <= n, \A i \in 1 .. m : NamingParts(parts[i]) = {}
         PROVE  IdsIn(after[m]) = {}
    <3> DEFINE T == {j \in Nat : j <= m => IdsIn(after[j]) = {}}
    <3>1. 0 \in T
      BY <2>6, <2>14
    <3>2. ASSUME NEW j \in Nat, j \in T PROVE j + 1 \in T
      <4> SUFFICES ASSUME j + 1 <= m PROVE IdsIn(after[j + 1]) = {}
        OBVIOUS
      <4>1. j + 1 \in 1 .. m /\ j + 1 \in 1 .. n /\ j + 1 <= n /\ j <= m
        BY <2>1, <2>14
      <4>2. after[j + 1] = Visit[parts[j + 1]][after[j]] /\ after[j] \in Knowledge /\ IdsIn(after[j]) = {}
        BY <2>6, <3>2, <4>1
      <4>3. LearnsFirst(parts[j + 1]) /\ NamesWhole(parts[j + 1]) /\ NamingParts(parts[j + 1]) = {}
        BY <2>1, <2>11, <2>14, <4>1
      <4> QED
        BY <4>2, <4>3 DEF LearnsFirst
    <3> HIDE DEF T
    <3>3. Nat \subseteq T
      BY <3>1, <3>2, Induction
    <3> QED
      BY <3>3 DEF T
  <2>15. ASSUME NamingParts(v) = {} PROVE IdsIn(Visit[v][known]) = {}
    <3>1. \A i \in 1 .. n : NamingParts(parts[i]) = {}
      BY <2>10, <2>15 DEF NamingParts
    <3>2. IdsIn(first) = {}
      BY <2>12, <2>15, LearnIds DEF first
    <3>3. n \in Nat /\ n <= n
      BY <2>1
    <3> QED
      BY <2>5, <2>14, <3>1, <3>2, <3>3
  <2>16. ASSUME NEW p \in NamingParts(v), \A q \in NamingParts(v) \ {p} : Earlier(p, q)
         PROVE  \A k \in RequestIds : Visit[v][known][k] = Found(p.is)[k]
    <3>1. p \in Parts[v] /\ p \in Places /\ IdsIn(Found(p.is)) = RequestIds
      BY PartsBelow DEF NamingParts, NamesWhole
    <3>2. CASE root \in NamingParts(v)
      <4>1. p = root
        <5> SUFFICES ASSUME p # root PROVE FALSE
          OBVIOUS
        <5>1. Earlier(p, root)
          BY <2>16, <3>2
        <5>2. Earlier(root, p)
          BY <2>8, <2>9, <3>1
        <5> QED
          BY <2>7, <3>1, <5>1, <5>2, EarlierOne
      <4>2. IsObject(v) /\ IdsIn(Found(v)) = RequestIds
        BY <2>7, <2>12, <3>1, <3>2, <4>1
      <4>3. IdsIn(first) = RequestIds /\ \A k \in RequestIds : first[k] = Found(v)[k]
        BY <4>2, LearnIds DEF first
      <4>4. 0 \in Nat /\ 0 <= n /\ IdsIn(after[0]) = RequestIds
        BY <2>1, <2>6, <4>3
      <4>5. after[n] = first
        BY <2>6, <2>13, <4>4
      <4> QED
        BY <2>5, <2>7, <4>1, <4>3, <4>5
    <3>3. CASE root \notin NamingParts(v)
      <4>1. PICK i \in 1 .. n : \E q \in Parts[parts[i]] : p = Below(i, q)
        BY <2>9, <3>1, <3>3
      <4>2. PICK q \in Parts[parts[i]] : p = Below(i, q)
        BY <4>1
      <4>3. i \in Nat /\ q \in Places /\ p.is = q.is /\ q \in NamingParts(parts[i])
        BY <2>8, <2>10, <4>2
      <4>4. ASSUME NEW r \in NamingParts(parts[i]) \ {q} PROVE Earlier(q, r)
        <5>1. r \in Parts[parts[i]]
          BY <4>4 DEF NamingParts
        <5>2. r \in Places /\ Below(i, r) \in NamingParts(v)
          BY <2>8, <2>10, <4>4, <5>1
        <5>3. ~ Earlier(Below(i, q), Below(i, r)) => Below(i, r) = Below(i, q)
          BY <2>16, <4>2, <5>2
        <5>4. Below(i, r) # Below(i, q)
          BY <4>3, <4>4, <5>2, BelowOne
        <5>5. Earlier(Below(i, q), Below(i, r))
          BY <5>3, <5>4
        <5> QED
          BY <4>3, <5>2, <5>5, PlaceBelow
      <4>5. ASSUME NEW j \in 1 .. n, j < i PROVE NamingParts(parts[j]) = {}
        <5> SUFFICES ASSUME NEW r \in NamingParts(parts[j]) PROVE FALSE
          OBVIOUS
        <5>1. r \in Parts[parts[j]]
          BY DEF NamingParts
        <5>2. j \in Nat /\ r \in Places /\ Below(j, r) \in NamingParts(v) /\ Below(j, r) \in Places
          BY <2>8, <2>10, <5>1
        <5>3. Earlier(Below(j, r), Below(i, q))
          BY <4>3, <4>5, <5>2, PlaceBelow
        <5>4. ~ Earlier(Below(i, q), Below(j, r)) => Below(j, r) = p
          BY <2>16, <4>2, <5>2
        <5>5. ~ Earlier(Below(i, q), Below(j, r))
          BY <3>1, <4>2, <5>2, <5>3, EarlierOne
        <5> QED
          BY <3>1, <4>2, <5>3, <5>4, <5>5
      <4>6. IdsIn(first) = {}
        BY <2>12, <3>3, LearnIds DEF first
      <4>7. i - 1 \in Nat /\ i - 1 <= n /\ (i - 1) + 1 = i /\ i <= n
            /\ \A j \in 1 .. i - 1 : j \in 1 .. n /\ j < i
        BY <2>1
      <4>8. IdsIn(after[i - 1]) = {}
        BY <2>14, <4>5, <4>6, <4>7
      <4>9. after[i] = Visit[parts[i]][after[i - 1]] /\ after[i - 1] \in Knowledge
        BY <2>6, <4>7
      <4>10. LearnsFirst(parts[i]) /\ NamesWhole(parts[i])
        BY <2>1, <2>11
      <4>11. \A k \in RequestIds : after[i][k] = Found(q.is)[k]
        BY <4>3, <4>4, <4>8, <4>9, <4>10 DEF LearnsFirst
      <4>12. IdsIn(after[i]) = RequestIds
        BY <3>1, <4>3, <4>11 DEF IdsIn
      <4>13. after[n] = after[i]
        BY <2>13, <4>7, <4>3, <4>12
      <4> QED
        BY <2>5, <4>3, <4>11, <4>13
    <3> QED
      BY <3>2, <3>3
  <2> QED
    BY <2>15, <2>16
<1>2. \A v \in Tree : Held(v) \subseteq Q => v \in Q
  BY <1>1
<1> HIDE DEF Q
<1>3. Tree \subseteq Q
  BY <1>2, TreeInduction
<1> QED
  BY <1>3 DEF Q

(* A body that names whole requests only is logged under the first of them. *)
LEMMA FirstRequestIsNamed == \A body \in Tree : OneRequestIsNamed(body)
<1> SUFFICES ASSUME NEW body \in Tree, NEW p \in NamingParts(body),
                    \A q \in NamingParts(body) : IdsIn(Found(q.is)) = RequestIds,
                    \A q \in NamingParts(body) \ {p} : Earlier(p, q)
             PROVE  \A k \in RequestIds : Identifiers(body)[k] = Found(p.is)[k]
  BY DEF OneRequestIsNamed, NamingParts
<1>1. Unknown \in Knowledge /\ IdsIn(Unknown) = {}
  BY OneIsSeq DEF Unknown, Knowledge, IdsIn, AllIds
<1>2. NamesWhole(body) /\ LearnsFirst(body)
  BY EachLearnsFirst DEF NamesWhole
<1> QED
  BY <1>1, <1>2 DEF LearnsFirst, Identifiers

-----------------------------------------------------------------------------
(* Unwrapping. *)

LEMMA FirstObjectIs ==
    ASSUME NEW values, DOMAIN values \subseteq Nat
    PROVE  \/ FirstWhere(values, IsObject) = None /\ \A i \in DOMAIN values : ~ IsObject(values[i])
           \/ \E i \in DOMAIN values : IsObject(values[i]) /\ FirstWhere(values, IsObject) = values[i]
<1> DEFINE fit == {i \in DOMAIN values : IsObject(values[i])}
           m == CHOOSE i \in fit : \A j \in fit : i <= j
<1>1. FirstWhere(values, IsObject) = IF fit = {} THEN None ELSE values[m]
  BY DEF FirstWhere
<1>2. fit \subseteq Nat
  OBVIOUS
<1>3. fit # {} => m \in fit
  <2> HIDE DEF fit
  <2> QED
    BY <1>2, LeastIndex
<1> HIDE DEF m
<1> QED
  BY <1>1, <1>3

LEMMA KindsApart ==
    /\ ~ IsObject(None) /\ ~ IsText(None) /\ ~ IsList(None)
    /\ \A v : IsObject(v) => ~ IsText(v) /\ ~ IsList(v) /\ v # None
    /\ \A v : IsText(v) => ~ IsList(v) /\ v # None
BY DEF IsObject, IsText, IsList, None

LEMMA EntryIs == \A S : \A key \in Names, v \in S : Entry(key, v) \in [key : Names, value : S]
BY DEF Entry

Answered(text) == Object(<<Entry("answer", text)>>)

LEMMA AnsweredIs ==
    ASSUME NEW n \in Nat, NEW t \in Trees[n]
    PROVE  Answered(t) \in Trees[n + 1] /\ IsObject(Answered(t)) /\ ~ IsAgentResponse(Answered(t))
<1>1. Entry("answer", t) \in [key : Names, value : Trees[n]]
  <2>1. "answer" \in Names
    BY SubjectsAssumption
  <2> QED
    BY <2>1, EntryIs
<1>2. <<Entry("answer", t)>> \in Seq([key : Names, value : Trees[n]])
  BY <1>1, OneIsSeq
<1>3. Answered(t) \in Layer(Trees[n])
  BY <1>2, LayerHas DEF Answered
<1>4. Answered(t).kind = "object" /\ Answered(t).entries = <<Entry("answer", t)>>
  BY DEF Answered, Object
<1>5. KeysOf(Answered(t)) = {"answer"}
  BY <1>4 DEF KeysOf, Entry
<1> QED
  BY <1>3, <1>4, <1>5, TreesNext DEF IsObject, IsAgentResponse, AgentResponseKeys

LEMMA WrapperKeysAre ==
    /\ DOMAIN WrapperKeys = 1 .. 7
    /\ \A i \in 1 .. 7 : WrapperKeys[i] # "session_id" /\ WrapperKeys[i] \notin AgentResponseKeys
                         /\ WrapperKeys[i] \in Names
<1> DEFINE Fine(key) == key # "session_id" /\ key \notin AgentResponseKeys
<1>1. /\ Fine("text/result") /\ Fine("text") /\ Fine("result") /\ Fine("output")
      /\ Fine("message") /\ Fine("content") /\ Fine("data")
  BY DEF AgentResponseKeys
<1> HIDE DEF Fine
<1>2. \A i \in 1 .. 7 : i \in {1, 2, 3, 4, 5, 6, 7}
  OBVIOUS
<1>3. \A i \in 1 .. 7 : Fine(WrapperKeys[i])
  BY <1>1, <1>2 DEF WrapperKeys
<1>4. DOMAIN WrapperKeys = 1 .. 7
  BY DEF WrapperKeys
<1>5. \A i \in 1 .. 7 : WrapperKeys[i] \in Names
  BY <1>4, SubjectsAssumption DEF ToSet
<1> QED
  BY <1>3, <1>4, <1>5 DEF Fine

LEMMA ParseJsonishExists ==
    ParseJsonish = [v \in Tree |-> ParseJsonishWith(ParseJsonish, v)]
<1> DEFINE Wide == Trees[(MaxLayers + 1) + 1]
           D == [v \in Tree |-> [g \in [Tree -> Wide] |-> ParseJsonishWith(g, v)]]
<1>1. Tree \subseteq Wide /\ None \in Wide
  BY SentAreTrees, TreesGrow DEF Tree
<1>2. ASSUME NEW v \in Tree, NEW g, NEW h, \A w \in Held(v) : g[w] = h[w]
      PROVE  ParseJsonishWith(g, v) = ParseJsonishWith(h, v)
  <2>1. ASSUME IsText(v), v.docs # <<>> PROVE g[Head(v.docs)] = h[Head(v.docs)]
    <3>1. v.docs \in Seq(Sent)
      BY <2>1, SentAreTrees, LayerForms
    <3>2. 1 \in DOMAIN v.docs /\ Head(v.docs) = v.docs[1]
      BY <2>1, <3>1
    <3>3. Head(v.docs) \in Held(v)
      BY <2>1, <3>2 DEF Held
    <3> QED
      BY <1>2, <3>3
  <2>2. ASSUME IsObject(v)
        PROVE  [i \in DOMAIN WrapperKeys |-> g[Get(v, WrapperKeys[i])]] =
               [i \in DOMAIN WrapperKeys |-> h[Get(v, WrapperKeys[i])]]
    BY <1>2, <2>2, GetIsTree
  <2>3. CASE IsText(v)
    <3>1. ~ IsObject(v)
      BY <2>3, KindsApart
    <3> QED
      BY <2>1, <2>3, <3>1 DEF ParseJsonishWith
  <2>4. CASE IsObject(v)
    <3>1. ~ IsText(v)
      BY <2>4, KindsApart
    <3> QED
      BY <2>2, <2>4, <3>1 DEF ParseJsonishWith
  <2>5. CASE ~ IsText(v) /\ ~ IsObject(v)
    BY <2>5 DEF ParseJsonishWith
  <2> QED
    BY <2>3, <2>4, <2>5
<1>3. ASSUME NEW v \in Tree, NEW g \in [Tree -> Wide] PROVE ParseJsonishWith(g, v) \in Wide
  <2> DEFINE under == [i \in DOMAIN WrapperKeys |-> g[Get(v, WrapperKeys[i])]]
  <2>1. DOMAIN under \subseteq Nat /\ \A i \in DOMAIN under : under[i] \in Wide
    BY WrapperKeysAre, GetIsTree
  <2> HIDE DEF under
  <2>2. FirstWhere(under, IsObject) \in Wide
    BY <1>1, <2>1, FirstObjectIs
  <2>3. ASSUME IsText(v), v.docs # <<>> PROVE g[Head(v.docs)] \in Wide
    <3>1. v.docs \in Seq(Sent)
      BY <2>3, SentAreTrees, LayerForms
    <3>2. Head(v.docs) \in Tree
      BY <2>3, <3>1, SentAreTrees
    <3> QED
      BY <3>2
  <2>4. Answered(v) \in Wide
    BY AnsweredIs, SentAreTrees DEF Tree
  <2>5. ParseJsonishWith(g, v) \in {Answered(v), FirstWhere(under, IsObject), v}
        \/ (IsText(v) /\ v.docs # <<>> /\ ParseJsonishWith(g, v) = g[Head(v.docs)])
    BY KindsApart DEF ParseJsonishWith, Answered, under
  <2> QED
    BY <1>1, <2>2, <2>3, <2>4, <2>5
<1>4. D \in [Tree -> [[Tree -> Wide] -> Wide]]
  <2> HIDE DEF Wide
  <2> QED
    BY <1>3
<1>5. \A v \in Tree : \A g \in [Tree -> Wide] : D[v][g] = ParseJsonishWith(g, v)
  OBVIOUS
<1> HIDE DEF D, Wide
<1>6. LooksInside(Wide, D)
  <2>1. ASSUME NEW v \in Tree, NEW g \in [Tree -> Wide], NEW h \in [Tree -> Wide],
               \A w \in Held(v) : g[w] = h[w]
        PROVE  D[v][g] = D[v][h]
    BY <1>2, <1>5, <2>1
  <2> QED
    BY <1>1, <1>4, <2>1 DEF LooksInside
<1>7. PICK f \in [Tree -> Wide] : \A v \in Tree : f[v] = D[v][f]
  BY <1>6, TreeRecursion
<1>8. f = [v \in Tree |-> ParseJsonishWith(f, v)]
  BY <1>5, <1>7
<1> QED
  BY <1>8 DEF ParseJsonish

(* A parsed value is as deep as what was sent, or an answer around its text. *)
LEMMA ParseJsonishIs ==
    \A n \in Nat : n <= MaxLayers + 1 => \A v \in Trees[n] :
        ParseJsonish[v] \in Trees[n] \cup {Answered(t) : t \in Trees[n]}
<1> DEFINE Parsed(n) == Trees[n] \cup {Answered(t) : t \in Trees[n]}
           T == {n \in Nat : n <= MaxLayers + 1 => \A v \in Trees[n] : ParseJsonish[v] \in Parsed(n)}
<1>1. \A n \in Nat : n <= MaxLayers + 1 => Trees[n] \subseteq Tree
  BY SentAreTrees, TreesRise DEF Tree
<1>2. 0 \in T
  <2> SUFFICES ASSUME NEW v \in Trees[0] PROVE ParseJsonish[v] = v
    OBVIOUS
  <2>1. ~ IsText(v) /\ ~ IsObject(v)
    BY TreesStart DEF Atom, None, IsText, IsObject
  <2>2. v \in Tree
    BY <1>1, SentAreTrees
  <2> QED
    BY <2>1, <2>2, ParseJsonishExists DEF ParseJsonishWith
<1>3. ASSUME NEW n \in Nat, n \in T PROVE n + 1 \in T
  <2> SUFFICES ASSUME n + 1 <= MaxLayers + 1, NEW v \in Trees[n + 1]
               PROVE  ParseJsonish[v] \in Parsed(n + 1)
    OBVIOUS
  <2>1. n + 1 \in Nat /\ n <= MaxLayers + 1 /\ v \in Tree /\ Trees[n] \subseteq Trees[n + 1]
    BY <1>1, SentAreTrees, TreesGrow
  <2>2. \A w \in Held(v) : ParseJsonish[w] \in Parsed(n)
    BY <1>3, <2>1, HeldBelow
  <2>3. Parsed(n) \subseteq Parsed(n + 1)
    BY <2>1
  <2> DEFINE under == [i \in DOMAIN WrapperKeys |-> ParseJsonish[Get(v, WrapperKeys[i])]]
  <2>4. ASSUME IsObject(v) PROVE FirstWhere(under, IsObject) \in Parsed(n) \cup {None}
    <3>1. DOMAIN under \subseteq Nat /\ \A i \in DOMAIN under : under[i] \in Parsed(n)
      BY <2>1, <2>2, <2>4, WrapperKeysAre, GetIsTree
    <3> HIDE DEF under, Parsed
    <3> QED
      BY <3>1, FirstObjectIs
  <2>5. ASSUME IsText(v), v.docs # <<>> PROVE ParseJsonish[Head(v.docs)] \in Parsed(n)
    <3>1. v.docs \in Seq(Trees[n])
      BY <2>5, TreesNext, LayerForms
    <3>2. 1 \in DOMAIN v.docs /\ Head(v.docs) = v.docs[1]
      BY <2>5, <3>1
    <3>3. Head(v.docs) \in Held(v)
      BY <2>5, <3>2 DEF Held
    <3> QED
      BY <2>2, <3>3
  <2>6. ParseJsonish[v] = ParseJsonishWith(ParseJsonish, v)
    BY <2>1, ParseJsonishExists
  <2> HIDE DEF Parsed, T
  <2>7. CASE IsText(v)
    <3>1. ParseJsonish[v] = IF v.docs = <<>> THEN Answered(v) ELSE ParseJsonish[Head(v.docs)]
      <4>1. ~ IsObject(v)
        BY <2>7, KindsApart
      <4> QED
        BY <2>6, <2>7, <4>1 DEF ParseJsonishWith, Answered
    <3> QED
      BY <2>3, <2>5, <2>7, <3>1 DEF Parsed
  <2>8. CASE IsObject(v)
    <3>1. \/ ParseJsonish[v] = v
          \/ FirstWhere(under, IsObject) # None /\ ParseJsonish[v] = FirstWhere(under, IsObject)
      <4>1. ~ IsText(v)
        BY <2>8, KindsApart
      <4> QED
        BY <2>6, <2>8, <4>1 DEF ParseJsonishWith
    <3> HIDE DEF under
    <3> QED
      BY <2>3, <2>4, <2>8, <3>1 DEF Parsed
  <2>9. CASE ~ IsText(v) /\ ~ IsObject(v)
    <3>1. ParseJsonish[v] = v
      BY <2>6, <2>9 DEF ParseJsonishWith
    <3> QED
      BY <3>1 DEF Parsed
  <2> QED
    BY <2>7, <2>8, <2>9
<1> HIDE DEF T
<1>4. Nat \subseteq T
  BY <1>2, <1>3, Induction
<1> QED
  BY <1>4 DEF T

LEMMA ResponsePathsAre ==
    /\ DOMAIN ResponsePaths = 1 .. 2
    /\ \A i \in 1 .. 2 : Len(ResponsePaths[i]) \in Nat \ {0}
<1>1. /\ DOMAIN ResponsePaths = 1 .. 2 /\ Len(ResponsePaths[1]) = 1 /\ Len(ResponsePaths[2]) = 8
  BY DEF ResponsePaths
<1>2. \A i \in 1 .. 2 : i \in {1, 2}
  OBVIOUS
<1> QED
  BY <1>1, <1>2

LEMMA FirstTruthyIs ==
    ASSUME NEW values, DOMAIN values \subseteq Nat
    PROVE  \/ FirstTruthy(values) = None /\ \A i \in DOMAIN values : ~ Truthy(values[i])
           \/ \E i \in DOMAIN values : Truthy(values[i]) /\ FirstTruthy(values) = values[i]
<1> DEFINE fit == {i \in DOMAIN values : Truthy(values[i])}
           m == CHOOSE i \in fit : \A j \in fit : i <= j
<1>1. FirstTruthy(values) = IF fit = {} THEN None ELSE values[m]
  BY DEF FirstTruthy, FirstWhere
<1>2. fit \subseteq Nat
  OBVIOUS
<1>3. fit # {} => m \in fit
  <2> HIDE DEF fit
  <2> QED
    BY <1>2, LeastIndex
<1> HIDE DEF m
<1> QED
  BY <1>1, <1>3

(* What the backend reads is a value too.                                  *)
LEMMA NormalizedIs == \A sent \in Sent : NormalizeResponse(sent) \in Tree
<1> SUFFICES ASSUME NEW sent \in Sent PROVE NormalizeResponse(sent) \in Tree
  OBVIOUS
<1> DEFINE parsed == ParseJsonish[sent]
           holders == [i \in DOMAIN ResponsePaths |-> Dig(parsed, ResponsePaths[i])]
           held == FirstTruthy(holders)
           unwrapped(entry) ==
               IF entry.key \in ToSet(WrapperKeys)
               THEN Entry(entry.key, ParseJsonish[entry.value]) ELSE entry
<1>1. parsed \in Sent \cup {Answered(t) : t \in Sent}
  BY SentAreTrees, ParseJsonishIs DEF Sent
<1>2. parsed \in Tree
  BY <1>1, SentAreTrees, AnsweredIs DEF Sent, Tree
<1>3. held \in Sent
  <2>1. DOMAIN holders \subseteq Nat /\ \A i \in DOMAIN holders : holders[i] \in Sent
    BY <1>2, ResponsePathsAre, DigIs
  <2> HIDE DEF holders
  <2> QED
    BY <2>1, FirstTruthyIs, SentAreTrees
<1>4. ParseJsonish[held] \in Tree
  <2>1. ParseJsonish[held] \in Sent \cup {Answered(t) : t \in Sent}
    BY <1>3, SentAreTrees, ParseJsonishIs DEF Sent
  <2> QED
    BY <2>1, SentAreTrees, AnsweredIs DEF Sent, Tree
<1>5. ASSUME IsAgentResponse(parsed)
      PROVE  Object([i \in DOMAIN parsed.entries |-> unwrapped(parsed.entries[i])]) \in Tree
  <2>1. parsed \in Sent
    <3>1. \A t \in Sent : ~ IsAgentResponse(Answered(t))
      BY SentAreTrees, AnsweredIs DEF Sent
    <3> QED
      BY <1>1, <1>5, <3>1
  <2>2. IsObject(parsed)
    BY <1>5 DEF IsAgentResponse
  <2>3. MaxLayers # 0
    <3>1. \A v \in Trees[0] : ~ IsObject(v)
      BY TreesStart DEF Atom, None, IsObject
    <3> QED
      BY <2>1, <2>2, <3>1 DEF Sent
  <2>4. MaxLayers - 1 \in Nat /\ (MaxLayers - 1) + 1 = MaxLayers /\ MaxLayers - 1 <= MaxLayers + 1
    BY <2>3, SentAreTrees
  <2>5. Sent = Layer(Trees[MaxLayers - 1])
    BY <2>4, TreesNext DEF Sent
  <2>6. parsed.entries \in Seq([key : Names, value : Trees[MaxLayers - 1]])
    BY <2>1, <2>2, <2>5, LayerForms
  <2>7. ASSUME NEW entry \in [key : Names, value : Trees[MaxLayers - 1]]
        PROVE  unwrapped(entry) \in [key : Names, value : Sent]
    <3>1. entry.value \in Trees[MaxLayers - 1] /\ entry.value \in Sent /\ entry.key \in Names
      BY <2>4, TreesGrow DEF Sent
    <3>2. ParseJsonish[entry.value] \in Trees[MaxLayers - 1] \cup {Answered(t) : t \in Trees[MaxLayers - 1]}
      BY <2>4, <3>1, ParseJsonishIs
    <3>3. ParseJsonish[entry.value] \in Sent
      BY <2>4, <3>2, TreesGrow, AnsweredIs DEF Sent
    <3> QED
      BY <3>1, <3>3 DEF Entry
  <2>8. /\ Len(parsed.entries) \in Nat /\ DOMAIN parsed.entries = 1 .. Len(parsed.entries)
        /\ \A i \in 1 .. Len(parsed.entries) :
              parsed.entries[i] \in [key : Names, value : Trees[MaxLayers - 1]]
    <3> DEFINE S == [key : Names, value : Trees[MaxLayers - 1]]
    <3> HIDE DEF S, parsed
    <3>1. parsed.entries \in Seq(S)
      BY <2>6 DEF S
    <3>2. /\ Len(parsed.entries) \in Nat /\ DOMAIN parsed.entries = 1 .. Len(parsed.entries)
          /\ \A i \in 1 .. Len(parsed.entries) : parsed.entries[i] \in S
      BY <3>1, ElementOfSeq
    <3> QED
      BY <3>2 DEF S
  <2> HIDE DEF unwrapped, parsed
  <2> DEFINE entries == [i \in DOMAIN parsed.entries |-> unwrapped(parsed.entries[i])]
  <2>9. entries \in [1 .. Len(parsed.entries) -> [key : Names, value : Sent]]
    BY <2>7, <2>8
  <2>10. entries \in Seq([key : Names, value : Sent])
    <3> DEFINE S == [key : Names, value : Sent]
    <3> HIDE DEF S, entries
    <3>1. \A n \in Nat : [1 .. n -> S] \subseteq Seq(S)
      OBVIOUS
    <3> QED
      BY <2>8, <2>9, <3>1 DEF S
  <2> QED
    BY <2>10, SentAreTrees, LayerHas
<1>6. \/ IsAgentResponse(parsed)
         /\ NormalizeResponse(sent) = Object([i \in DOMAIN parsed.entries |-> unwrapped(parsed.entries[i])])
      \/ NormalizeResponse(sent) \in {ParseJsonish[held], held, parsed}
  BY DEF NormalizeResponse
<1> HIDE DEF parsed, held, unwrapped
<1> QED
  BY <1>2, <1>3, <1>4, <1>5, <1>6, SentAreTrees

-----------------------------------------------------------------------------
(* Wrapped responses. *)

LEMMA TextFormParses ==
    ASSUME NEW n \in Nat, n + 1 <= MaxLayers, NEW v \in Trees[n]
    PROVE  Text("json", <<v>>) \in Trees[n + 1] /\ ParseJsonish[Text("json", <<v>>)] = ParseJsonish[v]
<1> DEFINE t == Text("json", <<v>>)
<1>1. t \in Trees[n + 1]
  <2>1. "json" \in Names /\ <<v>> \in Seq(Trees[n])
    BY OneIsSeq, SubjectsAssumption
  <2>2. t \in Layer(Trees[n])
    BY <2>1, LayerHas
  <2> QED
    BY <2>2, TreesNext
<1>2. t \in Tree
  <2>1. n + 1 \in Nat /\ n + 1 <= MaxLayers + 1
    BY SentAreTrees
  <2> QED
    BY <1>1, <2>1, SentAreTrees, TreesRise DEF Tree
<1>3. t.kind = "text" /\ t.docs = <<v>>
  BY DEF Text
<1> HIDE DEF t
<1>4. IsText(t) /\ ~ IsObject(t) /\ t.docs # <<>> /\ Head(t.docs) = v
  BY <1>3 DEF IsText, IsObject
<1>5. ParseJsonish[t] = ParseJsonish[v]
  BY <1>2, <1>4, ParseJsonishExists DEF ParseJsonishWith
<1> QED
  BY <1>1, <1>5 DEF t

LEMMA SessionFields ==
    ASSUME NEW key, key # "session_id", NEW value
    PROVE  LET w == Object(<<Entry("session_id", Atom), Entry(key, value)>>)
           IN /\ IsObject(w) /\ KeysOf(w) = {"session_id", key}
              /\ Get(w, key) = value
              /\ \A other : other \notin {"session_id", key} => Get(w, other) = None
<1> DEFINE w == Object(<<Entry("session_id", Atom), Entry(key, value)>>)
<1>1. w.kind = "object" /\ w.entries = <<Entry("session_id", Atom), Entry(key, value)>>
  BY DEF Object
<1>2. /\ DOMAIN w.entries = 1 .. 2
      /\ w.entries[1] = Entry("session_id", Atom) /\ w.entries[2] = Entry(key, value)
  BY <1>1
<1>3. /\ Entry("session_id", Atom).key = "session_id"
      /\ Entry(key, value).key = key /\ Entry(key, value).value = value
  BY DEF Entry
<1> HIDE DEF w
<1>4. IsObject(w)
  BY <1>1 DEF IsObject
<1>5. KeysOf(w) = {"session_id", key}
  BY <1>2, <1>3 DEF KeysOf
<1>6. ToSet(w.entries) = {Entry("session_id", Atom), Entry(key, value)}
  BY <1>2 DEF ToSet
<1>7. (CHOOSE e \in ToSet(w.entries) : e.key = key) = Entry(key, value)
  BY <1>3, <1>6
<1>8. Get(w, key) = value
  BY <1>3, <1>4, <1>5, <1>7 DEF Get
<1>9. \A other : other \notin {"session_id", key} => Get(w, other) = None
  BY <1>5 DEF Get
<1> QED
  BY <1>4, <1>5, <1>8, <1>9 DEF w

LEMMA UnderParses ==
    ASSUME NEW n \in Nat, n + 1 <= MaxLayers, NEW v \in Trees[n], NEW key \in ToSet(WrapperKeys),
           IsObject(ParseJsonish[v])
    PROVE  LET w == Object(<<Entry("session_id", Atom), Entry(key, v)>>)
           IN w \in Trees[n + 1] /\ ParseJsonish[w] = ParseJsonish[v]
<1> DEFINE w == Object(<<Entry("session_id", Atom), Entry(key, v)>>)
           under == [i \in DOMAIN WrapperKeys |-> ParseJsonish[Get(w, WrapperKeys[i])]]
<1>1. PICK k \in 1 .. 7 : key = WrapperKeys[k]
  BY WrapperKeysAre DEF ToSet
<1>2. key # "session_id" /\ key \notin AgentResponseKeys /\ key \in Names
  BY <1>1, WrapperKeysAre
<1>3. w \in Trees[n + 1]
  <2> DEFINE S == [key : Names, value : Trees[n]]
  <2>1. Atom \in Trees[n]
    <3>1. 0 \in Nat /\ 0 <= n
      OBVIOUS
    <3> QED
      BY <3>1, TreesRise, TreesStart
  <2>2. Entry("session_id", Atom) \in S /\ Entry(key, v) \in S
    <3>1. "session_id" \in Names
      BY SubjectsAssumption
    <3> QED
      BY <1>2, <2>1, <3>1, EntryIs
  <2> HIDE DEF S
  <2>3. <<Entry("session_id", Atom), Entry(key, v)>> \in Seq(S)
    BY <2>2
  <2> QED
    BY <2>3, LayerHas, TreesNext DEF S
<1>4. w \in Tree
  <2>1. n + 1 \in Nat /\ n + 1 <= MaxLayers + 1
    BY SentAreTrees
  <2> QED
    BY <1>3, <2>1, SentAreTrees, TreesRise DEF Tree
<1>5. /\ IsObject(w) /\ KeysOf(w) = {"session_id", key} /\ Get(w, key) = v
      /\ \A other : other \notin {"session_id", key} => Get(w, other) = None
  BY <1>2, SessionFields
<1> HIDE DEF w
<1>6. ~ IsAgentResponse(w)
  BY <1>2, <1>5 DEF IsAgentResponse, AgentResponseKeys
<1>7. ParseJsonish[None] = None
  BY KindsApart, SentAreTrees, ParseJsonishExists DEF ParseJsonishWith
<1>8. ASSUME NEW i \in 1 .. 7
      PROVE  under[i] = IF WrapperKeys[i] = key THEN ParseJsonish[v] ELSE None
  <2>1. WrapperKeys[i] # "session_id" /\ i \in DOMAIN WrapperKeys
    BY WrapperKeysAre
  <2> QED
    BY <1>5, <1>7, <2>1
<1>9. DOMAIN under = 1 .. 7
  BY WrapperKeysAre
<1>10. ParseJsonish[w] = IF FirstWhere(under, IsObject) # None THEN FirstWhere(under, IsObject) ELSE w
  <2>1. ~ IsText(w)
    BY <1>5, KindsApart
  <2>2. ParseJsonish[w] = ParseJsonishWith(ParseJsonish, w)
    BY <1>4, ParseJsonishExists
  <2> QED
    BY <1>5, <1>6, <2>1, <2>2 DEF ParseJsonishWith
<1> HIDE DEF under
<1>11. FirstWhere(under, IsObject) = ParseJsonish[v]
  <2>1. IsObject(under[k]) /\ k \in DOMAIN under /\ DOMAIN under \subseteq Nat
    BY <1>1, <1>8, <1>9
  <2>2. PICK i \in DOMAIN under : IsObject(under[i]) /\ FirstWhere(under, IsObject) = under[i]
    BY <2>1, FirstObjectIs
  <2> QED
    BY <1>8, <1>9, <2>2, KindsApart
<1>12. ParseJsonish[w] = ParseJsonish[v]
  BY <1>10, <1>11, KindsApart
<1> QED
  BY <1>3, <1>12 DEF w

LEMMA ResponsesUnwrap ==
    ASSUME NEW operation \in Operations, MaxLayers >= 5, NEW said \in Trees[MaxLayers - 5]
    PROVE  WrappedReadsAlike(operation, said)
<1> DEFINE forms(v) == {v, Text("json", <<v>>)}
           under(v) == UNION {{Object(<<Entry("session_id", Atom), Entry(key, form)>>) :
                                 form \in forms(v)} : key \in ToSet(WrapperKeys)}
           sent == UNION {forms(v) : v \in under(said) \cup {said}}
           ReadAs(n) == {v \in Trees[n] : ParseJsonish[v] = said}
<1> SUFFICES ASSUME IsAgentResponse(said), NEW s \in sent \cup UNION {under(v) : v \in sent}
             PROVE  Payload(operation, NormalizeResponse(s)) =
                       Payload(operation, NormalizeResponse(said))
  BY DEF WrappedReadsAlike
<1> DEFINE m == MaxLayers - 5
<1>1. /\ m \in Nat /\ m + 1 \in Nat /\ m + 2 \in Nat /\ m + 3 \in Nat /\ m + 4 \in Nat
      /\ m + 1 <= MaxLayers /\ (m + 1) + 1 = m + 2 /\ (m + 2) + 1 = m + 3 /\ (m + 3) + 1 = m + 4
      /\ (m + 4) + 1 = MaxLayers /\ m + 2 <= MaxLayers /\ m + 3 <= MaxLayers
      /\ m + 4 <= MaxLayers /\ m <= MaxLayers + 1
  BY SentAreTrees
<1>2. IsObject(said)
  BY DEF IsAgentResponse
<1>3. said \in ReadAs(m)
  <2>1. said \in Tree
    BY <1>1, SentAreTrees, TreesRise DEF Tree
  <2>2. ~ IsText(said)
    BY <1>2, KindsApart
  <2> QED
    BY <2>1, <2>2, ParseJsonishExists DEF ParseJsonishWith
<1> HIDE DEF m
<1>4. ASSUME NEW n \in Nat, n + 1 <= MaxLayers, NEW v \in ReadAs(n)
      PROVE  forms(v) \subseteq ReadAs(n + 1)
  <2>1. v \in Trees[n + 1]
    BY TreesGrow
  <2> QED
    BY <1>4, <2>1, TextFormParses
<1>5. ASSUME NEW n \in Nat, n + 1 + 1 <= MaxLayers, NEW v \in ReadAs(n)
      PROVE  under(v) \subseteq ReadAs(n + 1 + 1)
  <2> SUFFICES ASSUME NEW w \in under(v) PROVE w \in ReadAs(n + 1 + 1)
    OBVIOUS
  <2> PICK key \in ToSet(WrapperKeys), form \in forms(v) :
          w = Object(<<Entry("session_id", Atom), Entry(key, form)>>)
    OBVIOUS
  <2>1. n + 1 \in Nat /\ n + 1 <= MaxLayers
    BY <1>5, SentAreTrees
  <2>2. form \in ReadAs(n + 1)
    BY <1>4, <2>1
  <2> HIDE DEF forms, under, sent
  <2> QED
    BY <1>2, <1>5, <2>1, <2>2, UnderParses
<1> HIDE DEF forms, under, ReadAs
<1>6. sent \subseteq ReadAs(m + 3)
  <2>1. said \in ReadAs(m + 1) /\ said \in ReadAs(m + 2)
    BY <1>1, <1>3, TreesGrow DEF ReadAs
  <2>2. under(said) \subseteq ReadAs(m + 2)
    BY <1>1, <1>3, <1>5
  <2>3. \A v \in under(said) \cup {said} : forms(v) \subseteq ReadAs(m + 3)
    BY <1>1, <1>4, <2>1, <2>2
  <2> QED
    BY <2>3
<1>7. \A v \in sent : under(v) \subseteq ReadAs(MaxLayers)
  BY <1>1, <1>5, <1>6
<1>8. ParseJsonish[s] = said
  BY <1>6, <1>7 DEF ReadAs
<1>9. ParseJsonish[said] = said
  BY <1>3 DEF ReadAs
<1>10. NormalizeResponse(s) = NormalizeResponse(said)
  BY <1>8, <1>9 DEF NormalizeResponse
<1> QED
  BY <1>10

-----------------------------------------------------------------------------
(* What a response says of its run: searches of so many levels. *)

LEMMA LevelsAre ==
    /\ MaxDepth = 8 /\ MaxDepth + 1 = 9 /\ Levels = 0 .. 9 /\ 9 \in Levels
    /\ \A l \in Nat : l + 1 \in Levels => l \in Levels
BY DEF Levels, MaxDepth

LEMMA SearchExists ==
    ASSUME NEW R, NEW r0 \in R, NEW D \in [R -> R]
    PROVE  \E f \in [Levels -> R] : f = [l \in Levels |-> IF l = 0 THEN r0 ELSE D[f[l - 1]]]
<1> DEFINE n == MaxDepth + 1
           Ds == [k \in 1 .. n |-> D]
<1>1. /\ n \in Nat /\ Levels = 0 .. n /\ \A k \in 0 .. n : k # 0 => k \in 1 .. n
      /\ Ds \in [1 .. n -> [R -> R]] /\ \A k \in 1 .. n : Ds[k] = D
  BY LevelsAre
<1> HIDE DEF n, Ds
<1>2. StepsIn(n, R, r0, Ds)
  BY <1>1 DEF StepsIn
<1>3. PICK f \in [0 .. n -> R] : f = [k \in 0 .. n |-> IF k = 0 THEN r0 ELSE Ds[k][f[k - 1]]]
  BY <1>2, Stepwise
<1>4. \A k \in 0 .. n : (IF k = 0 THEN r0 ELSE Ds[k][f[k - 1]]) = IF k = 0 THEN r0 ELSE D[f[k - 1]]
  BY <1>1
<1>5. f = [k \in 0 .. n |-> IF k = 0 THEN r0 ELSE D[f[k - 1]]]
  BY <1>3, <1>4
<1> QED
  BY <1>1, <1>5

(* What the search for a terminal object finds, and what it raises at. *)
Endings == Tree \cup {Raised}

IsOdd(v) == IsUnhashable(Get(v, "status"))

LEMMA StatusesApart ==
    /\ ~ IsFailed(None) /\ ~ IsSuccess(None) /\ ~ Stops(None)
    /\ ~ IsFailed(Raised) /\ ~ IsSuccess(Raised) /\ Raised # None /\ ~ IsObject(Raised)
    /\ \A v : IsFailed(v) => ~ IsSuccess(v)
    /\ \A v : IsFailed(v) \/ IsSuccess(v) => IsObject(v) /\ v # None
    /\ \A v : IsOdd(v) => IsObject(v) /\ ~ IsFailed(v) /\ ~ IsSuccess(v)
<1>1. \A v : ~ IsObject(v) => Get(v, "status") = None
  BY DEF Get
<1>2. \A v : ~ IsText(Get(v, "status")) => StatusOf(v) = ""
  BY DEF StatusOf
<1>3. \A v : ~ IsObject(v) => ~ IsFailed(v) /\ ~ IsSuccess(v) /\ ~ IsOdd(v)
  BY <1>1, <1>2, KindsApart DEF IsFailed, IsSuccess, IsOdd, IsUnhashable
<1>4. \A v : IsOdd(v) => ~ IsFailed(v) /\ ~ IsSuccess(v)
  BY <1>2, KindsApart DEF IsFailed, IsSuccess, IsOdd, IsUnhashable
<1>5. Raised # None /\ ~ IsObject(Raised) /\ ~ IsObject(None)
  BY DEF Raised, None, IsObject
<1>6. \A v : IsFailed(v) => ~ IsSuccess(v)
  BY DEF IsFailed, IsSuccess
<1> QED
  BY <1>3, <1>4, <1>5, <1>6 DEF Stops

LEMMA ChildrenAre ==
    ASSUME NEW v \in Tree
    PROVE  /\ Len(Children(v)) \in Nat /\ DOMAIN Children(v) = 1 .. Len(Children(v))
           /\ Children(v) \in Seq(Tree)
           /\ \A i \in DOMAIN Children(v) : i \in Nat /\ Children(v)[i] \in Tree
           /\ DOMAIN Children(v) # {} => IsObject(v) \/ IsList(v)
<1>1. Children(v) \in Seq(Tree) /\ \A i \in DOMAIN Children(v) : Children(v)[i] \in Tree
  BY PartsBelow
<1>2. ~ IsObject(v) /\ ~ IsList(v) => Children(v) = <<>>
  BY SentAreTrees, ChildrenIn
<1> HIDE DEF Children
<1> QED
  BY <1>1, <1>2

(* What is found below a value, child by child. *)
FoundBelow(find, v) == [i \in DOMAIN Children(v) |-> find[Children(v)[i]]]

LEMMA FoundBelowIs ==
    ASSUME NEW v \in Tree, NEW S, NEW find \in [Tree -> S]
    PROVE  /\ FoundBelow(find, v) \in Seq(S)
           /\ DOMAIN FoundBelow(find, v) = DOMAIN Children(v) /\ DOMAIN Children(v) \subseteq Nat
           /\ \A i \in DOMAIN Children(v) :
                 FoundBelow(find, v)[i] = find[Children(v)[i]] /\ FoundBelow(find, v)[i] \in S
<1>1. /\ Len(Children(v)) \in Nat /\ DOMAIN Children(v) = 1 .. Len(Children(v))
      /\ \A i \in DOMAIN Children(v) : i \in Nat /\ Children(v)[i] \in Tree
  BY ChildrenAre
<1>2. FoundBelow(find, v) \in [1 .. Len(Children(v)) -> S]
  BY <1>1 DEF FoundBelow
<1>3. \A n \in Nat : [1 .. n -> S] \subseteq Seq(S)
  OBVIOUS
<1>4. FoundBelow(find, v) \in Seq(S)
  BY <1>1, <1>2, <1>3
<1>5. /\ DOMAIN FoundBelow(find, v) = DOMAIN Children(v)
      /\ \A i \in DOMAIN Children(v) : FoundBelow(find, v)[i] = find[Children(v)[i]]
  BY DEF FoundBelow
<1> QED
  BY <1>1, <1>4, <1>5

LEMMA FirstStopIs ==
    ASSUME NEW values, DOMAIN values \subseteq Nat
    PROVE  \/ FirstWhere(values, Stops) = None /\ \A i \in DOMAIN values : ~ Stops(values[i])
           \/ \E i \in DOMAIN values : Stops(values[i]) /\ FirstWhere(values, Stops) = values[i]
<1> DEFINE fit == {i \in DOMAIN values : Stops(values[i])}
           m == CHOOSE i \in fit : \A j \in fit : i <= j
<1>1. FirstWhere(values, Stops) = IF fit = {} THEN None ELSE values[m]
  BY DEF FirstWhere
<1>2. fit \subseteq Nat
  OBVIOUS
<1>3. fit # {} => m \in fit
  <2> HIDE DEF fit
  <2> QED
    BY <1>2, LeastIndex
<1> HIDE DEF m
<1> QED
  BY <1>1, <1>3

-----------------------------------------------------------------------------
(* The terminal object. *)

LEMMA FindTerminalIs ==
    ASSUME NEW v \in Tree, NEW find \in [Tree -> Endings]
    PROVE  LET nested == FoundBelow(find, v)
               t == FindTerminalWith(find, v)
           IN /\ t \in Endings
              /\ IsFailed(v) => t = v
              /\ ~ IsFailed(v) /\ IsObject(v) =>
                    \/ Stops(t) /\ \E i \in DOMAIN nested : t = nested[i]
                    \/ /\ \A i \in DOMAIN nested : ~ Stops(nested[i])
                       /\ \/ IsOdd(v) /\ t = Raised
                          \/ ~ IsOdd(v) /\ IsSuccess(v) /\ t = v
                          \/ ~ IsOdd(v) /\ t = None
                          \/ ~ IsOdd(v) /\ \E i \in DOMAIN nested : t = nested[i]
              /\ ~ IsFailed(v) /\ ~ IsObject(v) =>
                    \/ t = None /\ \A i \in DOMAIN nested : nested[i] = None
                    \/ \E i \in DOMAIN nested :
                          /\ t # None /\ t = nested[i]
                          /\ \A j \in DOMAIN nested : j < i => nested[j] = None
<1> DEFINE nested == FoundBelow(find, v)
           t == FindTerminalWith(find, v)
           stop == FirstWhere(nested, Stops)
           own == OwnEnd(v)
<1>1. /\ nested \in Seq(Endings) /\ DOMAIN nested \subseteq Nat
      /\ \A i \in DOMAIN nested : nested[i] \in Endings
  BY FoundBelowIs
<1>2. t = IF IsFailed(v) THEN v
          ELSE IF IsObject(v) THEN FirstFound(<<stop, own>> \o nested) ELSE FirstFound(nested)
  BY StatusesApart DEF FindTerminalWith, FoundBelow
<1> HIDE DEF t
<1>3. \/ stop = None /\ \A i \in DOMAIN nested : ~ Stops(nested[i])
      \/ \E i \in DOMAIN nested : Stops(nested[i]) /\ stop = nested[i]
  <2> HIDE DEF nested
  <2> QED
    BY <1>1, FirstStopIs
<1>4. \/ FirstFound(nested) = None /\ \A i \in DOMAIN nested : nested[i] = None
      \/ \E i \in DOMAIN nested :
            /\ nested[i] # None /\ FirstFound(nested) = nested[i]
            /\ \A j \in DOMAIN nested : j < i => nested[j] = None
  <2> HIDE DEF nested
  <2> QED
    BY <1>1, FirstFoundIs
<1> HIDE DEF nested, stop
<1>5. None \in Endings /\ stop \in Endings /\ own \in Endings /\ FirstFound(nested) \in Endings
  <2>1. None \in Endings /\ v \in Endings /\ Raised \in Endings
    BY SentAreTrees DEF Endings
  <2>2. own \in Endings
    BY <2>1 DEF OwnEnd
  <2> QED
    BY <1>1, <1>3, <1>4, <2>1, <2>2
<1>6. FirstFound(<<stop, own>> \o nested) =
         IF stop # None THEN stop ELSE IF own # None THEN own ELSE FirstFound(nested)
  <2> DEFINE s == <<stop, own>>
  <2>1. s \in Seq(Endings) /\ DOMAIN s = 1 .. 2 /\ s[1] = stop /\ s[2] = own
    <3> HIDE DEF own
    <3> QED
      BY <1>5
  <2> HIDE DEF s, own
  <2>2. FirstFound(s \o nested) = IF FirstFound(s) # None THEN FirstFound(s) ELSE FirstFound(nested)
    BY <1>1, <2>1, FirstFoundConcat
  <2>3. FirstFound(s) = IF stop # None THEN stop ELSE own
    <3>1. \/ FirstFound(s) = None /\ \A i \in 1 .. 2 : s[i] = None
          \/ \E i \in 1 .. 2 :
                s[i] # None /\ FirstFound(s) = s[i] /\ \A j \in 1 .. 2 : j < i => s[j] = None
      <4>1. DOMAIN s \subseteq Nat
        BY <2>1
      <4> QED
        BY <2>1, <4>1, FirstFoundIs
    <3>2. CASE FirstFound(s) = None /\ \A i \in 1 .. 2 : s[i] = None
      BY <2>1, <3>2
    <3>3. CASE \E i \in 1 .. 2 :
                  s[i] # None /\ FirstFound(s) = s[i] /\ \A j \in 1 .. 2 : j < i => s[j] = None
      BY <2>1, <3>3
    <3> QED
      BY <3>1, <3>2, <3>3
  <2> QED
    BY <2>2, <2>3 DEF s
<1>7. t \in Endings
  <2>1. v \in Endings
    BY DEF Endings
  <2> QED
    BY <1>2, <1>5, <1>6, <2>1
<1>8. ~ IsFailed(v) /\ IsObject(v) =>
         \/ Stops(t) /\ \E i \in DOMAIN nested : t = nested[i]
         \/ /\ \A i \in DOMAIN nested : ~ Stops(nested[i])
            /\ \/ IsOdd(v) /\ t = Raised
               \/ ~ IsOdd(v) /\ IsSuccess(v) /\ t = v
               \/ ~ IsOdd(v) /\ t = None
               \/ ~ IsOdd(v) /\ \E i \in DOMAIN nested : t = nested[i]
  <2>1. (\E i \in DOMAIN nested : Stops(nested[i]) /\ stop = nested[i]) => stop # None
    BY StatusesApart
  <2>2. own = IF IsOdd(v) THEN Raised ELSE IF IsSuccess(v) THEN v ELSE None
    BY DEF OwnEnd, IsOdd
  <2>3. IsSuccess(v) => v # None
    BY StatusesApart
  <2>4. Raised # None
    BY StatusesApart
  <2> QED
    BY <1>2, <1>3, <1>4, <1>6, <2>1, <2>2, <2>3, <2>4
<1>9. ~ IsFailed(v) /\ ~ IsObject(v) =>
         \/ t = None /\ \A i \in DOMAIN nested : nested[i] = None
         \/ \E i \in DOMAIN nested :
               t # None /\ t = nested[i] /\ \A j \in DOMAIN nested : j < i => nested[j] = None
  BY <1>2, <1>4
<1> QED
  BY <1>2, <1>7, <1>8, <1>9 DEF t, nested

LEMMA TerminalExists ==
    /\ \A l \in Levels : TerminalWithin[l] \in [Tree -> Endings]
    /\ \A v \in Tree : TerminalWithin[0][v] = None
    /\ \A l \in Nat : l + 1 \in Levels =>
          \A v \in Tree : TerminalWithin[l + 1][v] = FindTerminalWith(TerminalWithin[l], v)
<1> DEFINE R == [Tree -> Endings]
           r0 == [v \in Tree |-> None]
           D == [g \in R |-> [v \in Tree |-> FindTerminalWith(g, v)]]
<1>1. r0 \in R
  BY SentAreTrees DEF Endings
<1>2. D \in [R -> R]
  BY FindTerminalIs
<1>3. PICK f \in [Levels -> R] : f = [l \in Levels |-> IF l = 0 THEN r0 ELSE D[f[l - 1]]]
  <2> HIDE DEF R, r0, D
  <2> QED
    BY <1>1, <1>2, SearchExists
<1>4. \A l \in Levels : l # 0 => l - 1 \in Levels
  BY LevelsAre
<1>5. ASSUME NEW l \in Levels
      PROVE  (IF l = 0 THEN r0 ELSE D[f[l - 1]]) =
             [v \in Tree |-> IF l = 0 THEN None ELSE FindTerminalWith(f[l - 1], v)]
  <2>1. CASE l = 0
    BY <2>1
  <2>2. CASE l # 0
    BY <1>4, <2>2
  <2> QED
    BY <2>1, <2>2
<1>6. f = [l \in Levels |-> [v \in Tree |-> IF l = 0 THEN None ELSE FindTerminalWith(f[l - 1], v)]]
  <2> HIDE DEF R, r0, D
  <2> QED
    BY <1>3, <1>5
<1>7. TerminalWithin = [l \in Levels |->
                           [v \in Tree |-> IF l = 0 THEN None ELSE FindTerminalWith(TerminalWithin[l - 1], v)]]
  <2> HIDE DEF R, r0, D
  <2> QED
    BY <1>6 DEF TerminalWithin
<1>8. \A v \in Tree : TerminalWithin[0][v] = None
  BY <1>7, LevelsAre
<1>9. \A l \in Nat : l + 1 \in Levels =>
         TerminalWithin[l + 1] = [v \in Tree |-> FindTerminalWith(TerminalWithin[l], v)]
  <2> SUFFICES ASSUME NEW l \in Nat, l + 1 \in Levels
               PROVE  TerminalWithin[l + 1] = [v \in Tree |-> FindTerminalWith(TerminalWithin[l], v)]
    OBVIOUS
  <2>1. l + 1 # 0 /\ (l + 1) - 1 = l
    OBVIOUS
  <2> QED
    BY <1>7, <2>1
<1> DEFINE T == {l \in Nat : l \in Levels => TerminalWithin[l] \in R}
<1>10. 0 \in T
  <2>1. TerminalWithin[0] = r0
    BY <1>7, LevelsAre
  <2> QED
    BY <1>1, <2>1
<1>11. ASSUME NEW l \in Nat, l \in T PROVE l + 1 \in T
  <2> SUFFICES ASSUME l + 1 \in Levels PROVE TerminalWithin[l + 1] \in R
    OBVIOUS
  <2>1. TerminalWithin[l] \in R
    BY <1>11, LevelsAre
  <2>2. \A v \in Tree : FindTerminalWith(TerminalWithin[l], v) \in Endings
    BY <2>1, FindTerminalIs
  <2> QED
    BY <1>9, <2>2
<1> HIDE DEF T
<1>12. Nat \subseteq T
  BY <1>10, <1>11, Induction
<1>13. \A l \in Levels : l \in Nat
  BY LevelsAre
<1>14. \A l \in Levels : TerminalWithin[l] \in R
  BY <1>12, <1>13 DEF T
<1>15. \A l \in Nat : l + 1 \in Levels =>
          \A v \in Tree : TerminalWithin[l + 1][v] = FindTerminalWith(TerminalWithin[l], v)
  <2> HIDE DEF R, r0, D
  <2> QED
    BY <1>9
<1> QED
  BY <1>8, <1>14, <1>15

-----------------------------------------------------------------------------
(* Parts that so many levels reach, and items that hide what is behind them. *)

Shown(l, v) == {p \in Parts[v] : Len(p.at) < l}

Hides(list, item, p) ==
    /\ IsList(list.is)
    /\ IsFailed(item.is) \/ IsSuccess(item.is)
    /\ \A q \in {p, item} : Within(q, list) /\ ~ Within(list, q)
    /\ item.at[Len(list.at) + 1] < p.at[Len(list.at) + 1]

LEMMA ShownBelow ==
    ASSUME NEW l \in Nat, NEW v \in Tree
    PROVE  /\ Shown(l + 1, v) \subseteq Parts[v] /\ Shown(0, v) = {}
           /\ Part(<<>>, v) \in Shown(l + 1, v)
           /\ \A i \in DOMAIN Children(v) : \A q \in Shown(l, Children(v)[i]) :
                 q \in Places /\ Below(i, q) \in Shown(l + 1, v) /\ Below(i, q).is = q.is
           /\ \A p \in Shown(l + 1, v) : p # Part(<<>>, v) =>
                 \E i \in DOMAIN Children(v) : \E q \in Shown(l, Children(v)[i]) : p = Below(i, q)
<1> DEFINE root == Part(<<>>, v)
<1>1. \A i \in DOMAIN Children(v) : i \in Nat /\ Children(v)[i] \in Tree
  BY ChildrenAre
<1>2. \A w \in Tree : \A p \in Parts[w] : p \in Places /\ Len(p.at) \in Nat
  <2>1. \A w \in Tree : \A p \in Parts[w] : p \in Places
    BY PartsBelow
  <2>2. \A p \in Places : Len(p.at) \in Nat
    BY DEF Places
  <2> QED
    BY <2>1, <2>2
<1>3. \A i \in DOMAIN Children(v) : \A q \in Parts[Children(v)[i]] :
         /\ q \in Places /\ Below(i, q) \in Parts[v] /\ Below(i, q).is = q.is
         /\ Len(q.at) \in Nat /\ Len(Below(i, q).at) = Len(q.at) + 1
  BY <1>1, <1>2, PartsBelow, BelowIs
<1>4. root \in Parts[v] /\ Len(root.at) = 0
  BY PartsBelow, PartIs
<1>5. \A p \in Parts[v] : p # root =>
         \E i \in DOMAIN Children(v) : \E q \in Parts[Children(v)[i]] : p = Below(i, q)
  BY PartsBelow
<1> HIDE DEF root
<1>6. Shown(0, v) = {}
  BY <1>2 DEF Shown
<1>7. root \in Shown(l + 1, v)
  BY <1>4 DEF Shown
<1>8. \A i \in DOMAIN Children(v) : \A q \in Parts[Children(v)[i]] :
         q \in Shown(l, Children(v)[i]) <=> Below(i, q) \in Shown(l + 1, v)
  BY <1>3 DEF Shown
<1>9. \A p \in Shown(l + 1, v) : p # root =>
         \E i \in DOMAIN Children(v) : \E q \in Shown(l, Children(v)[i]) : p = Below(i, q)
  BY <1>5, <1>8 DEF Shown
<1>10. \A i \in DOMAIN Children(v) : \A q \in Shown(l, Children(v)[i]) :
          q \in Places /\ Below(i, q) \in Shown(l + 1, v) /\ Below(i, q).is = q.is
  BY <1>3, <1>8 DEF Shown
<1> QED
  BY <1>6, <1>7, <1>9, <1>10 DEF root, Shown

LEMMA StrictlyInside ==
    ASSUME NEW p \in Places, NEW q \in Places, Within(p, q), ~ Within(q, p)
    PROVE  Len(q.at) + 1 \in 1 .. Len(p.at)
<1>1. /\ Len(p.at) \in Nat /\ Len(q.at) \in Nat
      /\ DOMAIN p.at = 1 .. Len(p.at) /\ DOMAIN q.at = 1 .. Len(q.at)
  <2>1. p.at \in Seq(Nat) /\ q.at \in Seq(Nat)
    BY DEF Places
  <2> QED
    BY <2>1
<1>2. Len(q.at) <= Len(p.at) /\ \A i \in 1 .. Len(q.at) : p.at[i] = q.at[i]
  BY <1>1 DEF Within
<1>3. Len(q.at) # Len(p.at)
  BY <1>1, <1>2 DEF Within
<1> QED
  BY <1>1, <1>2, <1>3

LEMMA HidesBelow ==
    ASSUME NEW i \in Nat, NEW list \in Places, NEW item \in Places, NEW p \in Places,
           Hides(list, item, p)
    PROVE  Hides(Below(i, list), Below(i, item), Below(i, p))
<1>1. /\ IsList(list.is) /\ (IsFailed(item.is) \/ IsSuccess(item.is))
      /\ Within(p, list) /\ ~ Within(list, p) /\ Within(item, list) /\ ~ Within(list, item)
      /\ item.at[Len(list.at) + 1] < p.at[Len(list.at) + 1]
  BY DEF Hides
<1>2. Len(list.at) + 1 \in 1 .. Len(item.at) /\ Len(list.at) + 1 \in 1 .. Len(p.at)
  BY <1>1, StrictlyInside
<1>3. Below(i, list).is = list.is /\ Below(i, item).is = item.is
  BY BelowIs
<1>4. Len(Below(i, list).at) = Len(list.at) + 1
  BY BelowIs
<1>5. /\ Below(i, item).at[(Len(list.at) + 1) + 1] = item.at[Len(list.at) + 1]
      /\ Below(i, p).at[(Len(list.at) + 1) + 1] = p.at[Len(list.at) + 1]
  <2>1. /\ \A k \in 1 .. Len(item.at) : Below(i, item).at[k + 1] = item.at[k]
        /\ \A k \in 1 .. Len(p.at) : Below(i, p).at[k + 1] = p.at[k]
    BY BelowIs
  <2> QED
    BY <1>2, <2>1, Zenon
<1>6. /\ Within(Below(i, p), Below(i, list)) /\ ~ Within(Below(i, list), Below(i, p))
      /\ Within(Below(i, item), Below(i, list)) /\ ~ Within(Below(i, list), Below(i, item))
  BY <1>1, PlaceBelow
<1> QED
  BY <1>1, <1>3, <1>4, <1>5, <1>6 DEF Hides

LEMMA RootHides ==
    ASSUME NEW v \in Tree, IsList(v), NEW i \in Nat, NEW j \in Nat, j < i,
           NEW item \in Places, NEW p \in Places, IsFailed(item.is) \/ IsSuccess(item.is)
    PROVE  Hides(Part(<<>>, v), Below(j, item), Below(i, p))
<1> DEFINE root == Part(<<>>, v)
<1>1. root.is = v /\ Len(root.at) = 0 /\ Len(root.at) + 1 = 1
  BY PartIs
<1>2. /\ Below(j, item) \in Places /\ Below(i, p) \in Places /\ Below(j, item).is = item.is
      /\ Below(j, item).at[1] = j /\ Below(i, p).at[1] = i
  BY BelowIs
<1>3. /\ Within(Below(j, item), root) /\ ~ Within(root, Below(j, item))
      /\ Within(Below(i, p), root) /\ ~ Within(root, Below(i, p))
  BY <1>2, PlaceAbove
<1> HIDE DEF root
<1> QED
  BY <1>1, <1>2, <1>3 DEF Hides, root

(* What a search of so many levels for the end of a run comes to: an object  *)
(* that ended within them, or an odd status there; and unless it failed or   *)
(* raised, whatever failed or is odd is hidden.                              *)
EndIsShown(l, v) ==
    LET t == TerminalWithin[l][v]
    IN \/ t = None
       \/ t = Raised /\ \E p \in Shown(l, v) : IsOdd(p.is)
       \/ (IsFailed(t) \/ IsSuccess(t)) /\ \E p \in Shown(l, v) : p.is = t

IsTrouble(v) == IsFailed(v) \/ IsOdd(v)

FailuresHidden(l, v) ==
    Stops(TerminalWithin[l][v]) \/
    \A p \in Shown(l, v) : IsTrouble(p.is) => \E list, item \in Shown(l, v) : Hides(list, item, p)

LEMMA EndsShown == \A l \in Levels : \A v \in Tree : EndIsShown(l, v) /\ FailuresHidden(l, v)
<1> DEFINE T == {l \in Nat : l \in Levels => \A v \in Tree : EndIsShown(l, v) /\ FailuresHidden(l, v)}
<1>1. 0 \in T
  <2>1. \A v \in Tree : TerminalWithin[0][v] = None /\ Shown(0, v) = {}
    BY TerminalExists, ShownBelow
  <2> QED
    BY <2>1 DEF EndIsShown, FailuresHidden
<1>2. ASSUME NEW l \in Nat, l \in T PROVE l + 1 \in T
  <2> SUFFICES ASSUME l + 1 \in Levels, NEW v \in Tree
               PROVE  EndIsShown(l + 1, v) /\ FailuresHidden(l + 1, v)
    OBVIOUS
  <2> DEFINE find == TerminalWithin[l]
             nested == FoundBelow(find, v)
             t == FindTerminalWith(find, v)
             root == Part(<<>>, v)
  <2>1. /\ find \in [Tree -> Endings]
        /\ \A w \in Tree : EndIsShown(l, w) /\ FailuresHidden(l, w)
        /\ TerminalWithin[l + 1][v] = t
    BY <1>2, LevelsAre, TerminalExists
  <2> HIDE DEF T, find
  <2>2. /\ DOMAIN nested = DOMAIN Children(v)
        /\ \A i \in DOMAIN nested : nested[i] = find[Children(v)[i]]
        /\ \A i \in DOMAIN nested : i \in Nat /\ Children(v)[i] \in Tree
        /\ DOMAIN nested # {} => IsObject(v) \/ IsList(v)
    <3>1. /\ DOMAIN nested = DOMAIN Children(v)
          /\ \A i \in DOMAIN Children(v) : nested[i] = find[Children(v)[i]]
      BY DEF FoundBelow
    <3> HIDE DEF nested
    <3> QED
      BY <3>1, ChildrenAre
  <2>3. /\ IsFailed(v) => t = v
        /\ ~ IsFailed(v) /\ IsObject(v) =>
              \/ Stops(t) /\ \E i \in DOMAIN nested : t = nested[i]
              \/ /\ \A i \in DOMAIN nested : ~ Stops(nested[i])
                 /\ \/ IsOdd(v) /\ t = Raised
                    \/ ~ IsOdd(v) /\ IsSuccess(v) /\ t = v
                    \/ ~ IsOdd(v) /\ t = None
                    \/ ~ IsOdd(v) /\ \E i \in DOMAIN nested : t = nested[i]
        /\ ~ IsFailed(v) /\ ~ IsObject(v) =>
              \/ t = None /\ \A i \in DOMAIN nested : nested[i] = None
              \/ \E i \in DOMAIN nested :
                    t # None /\ t = nested[i] /\ \A j \in DOMAIN nested : j < i => nested[j] = None
    BY <2>1, FindTerminalIs
  <2>4. root \in Shown(l + 1, v) /\ root.is = v /\ root \in Places
    BY ShownBelow, PartIs, PartsBelow
  <2>5. \A i \in DOMAIN nested : \A q \in Shown(l, Children(v)[i]) :
           q \in Places /\ Below(i, q) \in Shown(l + 1, v) /\ Below(i, q).is = q.is
    BY <2>2, ShownBelow
  <2>6. \A p \in Shown(l + 1, v) : p # root =>
           \E i \in DOMAIN nested : \E q \in Shown(l, Children(v)[i]) : p = Below(i, q)
    BY <2>2, ShownBelow
  <2> HIDE DEF nested, t, root
  <2>7. ASSUME NEW i \in DOMAIN nested, nested[i] # None
        PROVE  \/ nested[i] = Raised /\ \E q \in Shown(l, Children(v)[i]) : IsOdd(q.is)
               \/ /\ IsFailed(nested[i]) \/ IsSuccess(nested[i])
                  /\ \E q \in Shown(l, Children(v)[i]) : q.is = nested[i]
    BY <2>1, <2>2, <2>7 DEF EndIsShown, find
  <2>8. EndIsShown(l + 1, v)
    <3>1. \/ t = None
          \/ t = Raised /\ IsOdd(v)
          \/ t = v /\ (IsFailed(v) \/ IsSuccess(v))
          \/ \E i \in DOMAIN nested : t = nested[i]
      BY <2>3
    <3>2. ASSUME NEW i \in DOMAIN nested, t = nested[i], t # None
          PROVE  \/ t = Raised /\ \E p \in Shown(l + 1, v) : IsOdd(p.is)
                 \/ (IsFailed(t) \/ IsSuccess(t)) /\ \E p \in Shown(l + 1, v) : p.is = t
      BY <2>5, <2>7, <3>2
    <3> QED
      BY <2>1, <2>4, <3>1, <3>2 DEF EndIsShown
  <2>9. ASSUME ~ Stops(t), NEW p \in Shown(l + 1, v), IsTrouble(p.is)
        PROVE  \E list, item \in Shown(l + 1, v) : Hides(list, item, p)
    <3>1. ~ IsFailed(v) /\ ~ IsTrouble(v)
      <4>1. IsFailed(v) => Stops(t)
        BY <2>3 DEF Stops
      <4>2. IsOdd(v) => Stops(t)
        BY <2>3, StatusesApart DEF Stops
      <4> QED
        BY <2>9, <4>1, <4>2 DEF IsTrouble
    <3>2. PICK i \in DOMAIN nested : \E q \in Shown(l, Children(v)[i]) : p = Below(i, q)
      BY <2>4, <2>6, <2>9, <3>1
    <3> PICK q \in Shown(l, Children(v)[i]) : p = Below(i, q)
      BY <3>2
    <3>3. i \in Nat /\ Children(v)[i] \in Tree /\ q \in Places /\ IsTrouble(q.is)
      BY <2>2, <2>5, <2>9, <3>2
    <3>4. CASE Stops(nested[i])
      <4>1. ~ IsObject(v) /\ IsList(v)
        BY <2>2, <2>3, <2>9, <3>1, <3>4
      <4>2. nested[i] # None
        BY <3>4, StatusesApart
      <4>3. PICK j \in DOMAIN nested :
                t # None /\ t = nested[j] /\ \A k \in DOMAIN nested : k < j => nested[k] = None
        BY <2>3, <3>1, <4>1, <4>2
      <4>4. j \in Nat /\ j < i
        <5>1. j \in Nat /\ j # i /\ ~ (i < j)
          BY <2>2, <2>9, <3>4, <4>2, <4>3
        <5> QED
          BY <3>3, <5>1
      <4>5. IsSuccess(nested[j]) /\ \E r \in Shown(l, Children(v)[j]) : r.is = nested[j]
        BY <2>7, <2>9, <4>3 DEF Stops
      <4> PICK r \in Shown(l, Children(v)[j]) : r.is = nested[j]
        BY <4>5
      <4>6. r \in Places /\ IsSuccess(r.is)
        BY <2>5, <4>3, <4>5
      <4>7. Hides(root, Below(j, r), p)
        BY <3>2, <3>3, <4>1, <4>4, <4>6, RootHides DEF root
      <4> QED
        BY <2>4, <2>5, <4>5, <4>7
    <3>5. CASE ~ Stops(nested[i])
      <4>1. PICK list \in Shown(l, Children(v)[i]), item \in Shown(l, Children(v)[i]) : Hides(list, item, q)
        BY <2>1, <2>2, <3>3, <3>5 DEF FailuresHidden, find
      <4>2. Hides(Below(i, list), Below(i, item), p)
        BY <2>5, <3>2, <3>3, <4>1, HidesBelow
      <4> QED
        BY <2>5, <4>1, <4>2
    <3> QED
      BY <3>4, <3>5
  <2> QED
    BY <2>1, <2>8, <2>9 DEF FailuresHidden
<1> HIDE DEF T
<1>3. Nat \subseteq T
  BY <1>1, <1>2, Induction
<1>4. \A l \in Levels : l \in Nat
  BY LevelsAre
<1> QED
  BY <1>3, <1>4 DEF T

-----------------------------------------------------------------------------
(* The artifact. *)

LEMMA ArtifactIs ==
    ASSUME NEW operation \in Operations, NEW v \in Tree
    PROVE  /\ Artifact(operation, v) \in Tree
           /\ Artifact("PLAN", v) = IF IsObject(Get(v, "plan")) THEN Get(v, "plan") ELSE None
<1>1. None \in Tree /\ Get(v, "plan") \in Tree
  BY SentAreTrees, GetIsTree
<1>2. Artifact("PLAN", v) = IF IsObject(Get(v, "plan")) THEN Get(v, "plan") ELSE None
  BY DEF Artifact
<1>3. Artifact("QUESTION", v) \in {v, None}
  BY DEF Artifact
<1> QED
  BY <1>1, <1>2, <1>3 DEF Operations

(* Where it is looked for below a value: under some keys first, then in all. *)
PlacesOf(v) == [i \in DOMAIN SearchedFirst |-> Get(v, SearchedFirst[i])] \o Children(v)

FoundAt(find, v) == [i \in DOMAIN PlacesOf(v) |-> find[PlacesOf(v)[i]]]

LEMMA PlacesOfIs ==
    ASSUME NEW v \in Tree
    PROVE  /\ DOMAIN PlacesOf(v) \subseteq Nat
           /\ \A i \in DOMAIN PlacesOf(v) : PlacesOf(v)[i] \in Tree
           /\ \A i \in DOMAIN Children(v) : \E j \in DOMAIN PlacesOf(v) : PlacesOf(v)[j] = Children(v)[i]
<1> DEFINE named == [i \in DOMAIN SearchedFirst |-> Get(v, SearchedFirst[i])]
           below == Children(v)
<1>1. DOMAIN SearchedFirst = 1 .. 6
  BY DEF SearchedFirst
<1>2. named \in [1 .. 6 -> Tree]
  BY <1>1, GetIsTree
<1>3. named \in Seq(Tree) /\ Len(named) = 6
  <2>1. \A n \in Nat : [1 .. n -> Tree] \subseteq Seq(Tree)
    OBVIOUS
  <2>2. named \in Seq(Tree) /\ DOMAIN named = 1 .. 6
    BY <1>2, <2>1
  <2> HIDE DEF named
  <2>3. Len(named) \in Nat /\ 1 .. Len(named) = 1 .. 6
    <3>1. Len(named) \in Nat /\ DOMAIN named = 1 .. Len(named)
      <4>1. \A s \in Seq(Tree) : Len(s) \in Nat /\ DOMAIN s = 1 .. Len(s)
        OBVIOUS
      <4> QED
        BY <2>2, <4>1, Zenon
    <3> QED
      BY <2>2, <3>1
  <2>4. 6 \in 1 .. Len(named) /\ Len(named) \in 1 .. Len(named)
    BY <2>3
  <2> QED
    BY <2>2, <2>3, <2>4
<1>4. below \in Seq(Tree) /\ Len(below) \in Nat /\ DOMAIN below = 1 .. Len(below)
  BY ChildrenAre
<1>5. PlacesOf(v) = named \o below
  BY DEF PlacesOf
<1> HIDE DEF named, below
<1>6. /\ DOMAIN (named \o below) = 1 .. 6 + Len(below)
      /\ \A j \in 1 .. 6 + Len(below) : (named \o below)[j] \in Tree
      /\ \A i \in 1 .. Len(below) : (named \o below)[6 + i] = below[i]
  <2>1. \A s, t \in Seq(Tree) :
           /\ s \o t \in Seq(Tree) /\ Len(s \o t) = Len(s) + Len(t)
           /\ \A i \in 1 .. Len(t) : (s \o t)[Len(s) + i] = t[i]
    OBVIOUS
  <2>2. named \o below \in Seq(Tree) /\ Len(named \o below) = 6 + Len(below)
    <3>1. /\ named \o below \in Seq(Tree)
          /\ Len(named \o below) = Len(named) + Len(below)
      BY <1>3, <1>4, <2>1, Zenon
    <3> QED
      BY <1>3, <3>1
  <2>3. \A i \in 1 .. Len(below) : (named \o below)[6 + i] = below[i]
    <3>1. \A i \in 1 .. Len(below) : (named \o below)[Len(named) + i] = below[i]
      BY <1>3, <1>4, <2>1, Zenon
    <3> QED
      BY <1>3, <3>1
  <2>4. \A s \in Seq(Tree) : DOMAIN s = 1 .. Len(s) /\ \A j \in 1 .. Len(s) : s[j] \in Tree
    OBVIOUS
  <2>5. /\ DOMAIN (named \o below) = 1 .. Len(named \o below)
        /\ \A j \in 1 .. Len(named \o below) : (named \o below)[j] \in Tree
    BY <2>2, <2>4
  <2> QED
    BY <2>2, <2>3, <2>5
<1>7. \A i \in 1 .. Len(below) : 6 + i \in 1 .. 6 + Len(below)
  BY <1>4
<1>8. DOMAIN PlacesOf(v) = 1 .. 6 + Len(below)
  BY <1>5, <1>6
<1>9. \A i \in DOMAIN below : \E j \in DOMAIN PlacesOf(v) : PlacesOf(v)[j] = below[i]
  BY <1>4, <1>5, <1>6, <1>7, <1>8
<1>10. DOMAIN PlacesOf(v) \subseteq Nat /\ \A j \in DOMAIN PlacesOf(v) : PlacesOf(v)[j] \in Tree
  BY <1>4, <1>5, <1>6, <1>8
<1> QED
  BY <1>9, <1>10 DEF below

LEMMA FindArtifactIs ==
    ASSUME NEW operation \in Operations, NEW v \in Tree, NEW find \in [Tree -> Tree]
    PROVE  LET a == FindArtifactWith(operation, find, v)
           IN /\ a \in Tree
              /\ Artifact(operation, v) # None => a = Artifact(operation, v)
              /\ Artifact(operation, v) = None =>
                    Truthy(a) \/ \A i \in DOMAIN Children(v) : ~ Truthy(find[Children(v)[i]])
<1> DEFINE a == FindArtifactWith(operation, find, v)
           looked == FoundAt(find, v)
<1>1. a = IF Artifact(operation, v) # None THEN Artifact(operation, v) ELSE FirstTruthy(looked)
  BY DEF FindArtifactWith, FoundAt, PlacesOf
<1>2. /\ DOMAIN looked = DOMAIN PlacesOf(v) /\ DOMAIN looked \subseteq Nat
      /\ \A i \in DOMAIN looked : looked[i] = find[PlacesOf(v)[i]] /\ looked[i] \in Tree
  BY PlacesOfIs DEF FoundAt
<1> HIDE DEF a, looked
<1>3. \/ FirstTruthy(looked) = None /\ \A i \in DOMAIN looked : ~ Truthy(looked[i])
      \/ \E i \in DOMAIN looked : Truthy(looked[i]) /\ FirstTruthy(looked) = looked[i]
  BY <1>2, FirstTruthyIs
<1>4. a \in Tree
  BY <1>1, <1>2, <1>3, ArtifactIs, SentAreTrees
<1>5. ASSUME Artifact(operation, v) = None, ~ Truthy(a), NEW i \in DOMAIN Children(v)
      PROVE  ~ Truthy(find[Children(v)[i]])
  <2>1. \A j \in DOMAIN looked : ~ Truthy(looked[j])
    BY <1>1, <1>3, <1>5
  <2>2. PICK j \in DOMAIN PlacesOf(v) : PlacesOf(v)[j] = Children(v)[i]
    BY PlacesOfIs
  <2> QED
    BY <1>2, <2>1, <2>2
<1> QED
  BY <1>1, <1>4, <1>5 DEF a

LEMMA ArtifactExists ==
    \A operation \in Operations :
        /\ \A l \in Levels : ArtifactWithin[l][operation] \in [Tree -> Tree]
        /\ \A v \in Tree : ArtifactWithin[0][operation][v] = None
        /\ \A l \in Nat : l + 1 \in Levels => \A v \in Tree :
              ArtifactWithin[l + 1][operation][v] =
                  IF v = None THEN None
                  ELSE FindArtifactWith(operation, ArtifactWithin[l][operation], v)
<1> DEFINE R == [Operations -> [Tree -> Tree]]
           r0 == [operation \in Operations |-> [v \in Tree |-> None]]
           Look(g) == [operation \in Operations |->
                          [v \in Tree |-> IF v = None THEN None
                                          ELSE FindArtifactWith(operation, g[operation], v)]]
           D == [g \in R |-> Look(g)]
<1>1. r0 \in R
  BY SentAreTrees
<1>2. \A g \in R : Look(g) \in R
  BY FindArtifactIs, SentAreTrees
<1>3. D \in [R -> R] /\ \A g \in R : D[g] = Look(g)
  <2> HIDE DEF R, Look
  <2> QED
    BY <1>2
<1>4. PICK f \in [Levels -> R] : f = [l \in Levels |-> IF l = 0 THEN r0 ELSE D[f[l - 1]]]
  <2> HIDE DEF R, r0, D, Look
  <2>1. D \in [R -> R]
    BY <1>3
  <2> QED
    BY <1>1, <2>1, SearchExists
<1>5. \A l \in Levels : l # 0 => l - 1 \in Levels
  BY LevelsAre
<1> DEFINE Within1(g, l) == [operation \in Operations |->
                [v \in Tree |-> IF l = 0 \/ v = None THEN None
                                ELSE FindArtifactWith(operation, g[l - 1][operation], v)]]
<1>6. \A g : \A l \in Levels : Within1(g, l) = IF l = 0 THEN r0 ELSE Look(g[l - 1])
  <2> SUFFICES ASSUME NEW g, NEW l \in Levels
               PROVE  Within1(g, l) = IF l = 0 THEN r0 ELSE Look(g[l - 1])
    OBVIOUS
  <2>1. CASE l = 0
    BY <2>1
  <2>2. CASE l # 0
    BY <2>2
  <2> QED
    BY <2>1, <2>2
<1>7. f = [l \in Levels |-> Within1(f, l)]
  <2> HIDE DEF R, r0, D, Look, Within1
  <2>1. \A l \in Levels : (IF l = 0 THEN r0 ELSE D[f[l - 1]]) = Within1(f, l)
    BY <1>3, <1>5, <1>6
  <2> QED
    BY <1>4, <2>1
<1>8. ArtifactWithin = [l \in Levels |-> Within1(ArtifactWithin, l)]
  <2> HIDE DEF R, r0, D, Look
  <2> QED
    BY <1>7 DEF ArtifactWithin
<1>9. ArtifactWithin[0] = r0
  <2>1. 0 \in Levels
    BY LevelsAre
  <2> HIDE DEF r0, Look, Within1
  <2> QED
    BY <1>6, <1>8, <2>1
<1>10. \A l \in Nat : l + 1 \in Levels => ArtifactWithin[l + 1] = Look(ArtifactWithin[l])
  <2> HIDE DEF r0, Look, Within1
  <2> SUFFICES ASSUME NEW l \in Nat, l + 1 \in Levels
               PROVE  ArtifactWithin[l + 1] = Look(ArtifactWithin[l])
    OBVIOUS
  <2>1. l + 1 # 0 /\ (l + 1) - 1 = l
    OBVIOUS
  <2> QED
    BY <1>6, <1>8, <2>1
<1> DEFINE T == {l \in Nat : l \in Levels => ArtifactWithin[l] \in R}
<1>11. 0 \in T
  BY <1>1, <1>9
<1>12. ASSUME NEW l \in Nat, l \in T PROVE l + 1 \in T
  <2> HIDE DEF R, Look
  <2> QED
    BY <1>2, <1>10, <1>12, LevelsAre
<1> HIDE DEF T
<1>13. Nat \subseteq T
  BY <1>11, <1>12, Induction
<1>14. \A l \in Levels : ArtifactWithin[l] \in R
  <2>1. \A l \in Levels : l \in Nat
    BY LevelsAre
  <2> QED
    BY <1>13, <2>1 DEF T
<1> SUFFICES ASSUME NEW operation \in Operations
             PROVE  /\ \A l \in Levels : ArtifactWithin[l][operation] \in [Tree -> Tree]
                    /\ \A v \in Tree : ArtifactWithin[0][operation][v] = None
                    /\ \A l \in Nat : l + 1 \in Levels => \A v \in Tree :
                          ArtifactWithin[l + 1][operation][v] =
                              IF v = None THEN None
                              ELSE FindArtifactWith(operation, ArtifactWithin[l][operation], v)
  OBVIOUS
<1>15. \A l \in Levels : ArtifactWithin[l][operation] \in [Tree -> Tree]
  BY <1>14
<1>16. \A v \in Tree : ArtifactWithin[0][operation][v] = None
  BY <1>9
<1>17. ASSUME NEW l \in Nat, l + 1 \in Levels, NEW v \in Tree
       PROVE  ArtifactWithin[l + 1][operation][v] =
                 IF v = None THEN None
                 ELSE FindArtifactWith(operation, ArtifactWithin[l][operation], v)
  <2>1. \A g : Look(g)[operation][v] =
           IF v = None THEN None ELSE FindArtifactWith(operation, g[operation], v)
    OBVIOUS
  <2> HIDE DEF Look
  <2> QED
    BY <1>10, <1>17, <2>1
<1> HIDE DEF R, r0, D, Look
<1> QED
  BY <1>15, <1>16, <1>17

(* Where no plan is found within so many levels, all plans stand in objects *)
(* that name empty ones.                                                    *)
Holder(p) == IsObject(Get(p.is, "plan"))

PlansHidden(l, v) ==
    Truthy(ArtifactWithin[l]["PLAN"][v]) \/
    \A p \in Shown(l, v) : Holder(p) =>
        \E q \in Shown(l, v) : Holder(q) /\ Within(p, q) /\ ~ Truthy(Get(q.is, "plan"))

LEMMA PlansFound == \A l \in Levels : \A v \in Tree : PlansHidden(l, v)
<1> DEFINE T == {l \in Nat : l \in Levels => \A v \in Tree : PlansHidden(l, v)}
<1>0. "PLAN" \in Operations
  BY DEF Operations
<1>1. 0 \in T
  BY ShownBelow DEF PlansHidden
<1>2. ASSUME NEW l \in Nat, l \in T PROVE l + 1 \in T
  <2> SUFFICES ASSUME l + 1 \in Levels, NEW v \in Tree, ~ Truthy(ArtifactWithin[l + 1]["PLAN"][v]),
                      NEW p \in Shown(l + 1, v), Holder(p)
               PROVE  \E q \in Shown(l + 1, v) : Holder(q) /\ Within(p, q) /\ ~ Truthy(Get(q.is, "plan"))
    BY DEF PlansHidden
  <2> DEFINE find == ArtifactWithin[l]["PLAN"]
             a == FindArtifactWith("PLAN", find, v)
             root == Part(<<>>, v)
  <2>1. /\ find \in [Tree -> Tree] /\ \A w \in Tree : PlansHidden(l, w)
        /\ ArtifactWithin[l + 1]["PLAN"][v] = IF v = None THEN None ELSE a
    BY <1>0, <1>2, LevelsAre, ArtifactExists
  <2> HIDE DEF T, find
  <2>2. /\ Artifact("PLAN", v) # None => a = Artifact("PLAN", v)
        /\ Artifact("PLAN", v) = None =>
              Truthy(a) \/ \A i \in DOMAIN Children(v) : ~ Truthy(find[Children(v)[i]])
    BY <1>0, <2>1, FindArtifactIs
  <2>3. Artifact("PLAN", v) = IF IsObject(Get(v, "plan")) THEN Get(v, "plan") ELSE None
    BY <1>0, ArtifactIs
  <2>4. root \in Shown(l + 1, v) /\ root.is = v
    BY ShownBelow, PartIs
  <2>5. p \in Places
    BY ShownBelow, PartsBelow
  <2>6. \A i \in DOMAIN Children(v) : i \in Nat /\ Children(v)[i] \in Tree
    BY ChildrenAre
  <2>7. p = root \/
        \E i \in DOMAIN Children(v) : \E q \in Shown(l, Children(v)[i]) : p = Below(i, q)
    <3>1. \A r \in Shown(l + 1, v) : r # root =>
             \E i \in DOMAIN Children(v) : \E q \in Shown(l, Children(v)[i]) : r = Below(i, q)
      BY ShownBelow, Zenon
    <3> QED
      BY <3>1
  <2> HIDE DEF a, root
  <2>8. v # None
    <3> SUFFICES ASSUME v = None PROVE FALSE
      OBVIOUS
    <3>1. DOMAIN Children(v) = {}
      BY ChildrenAre, KindsApart
    <3>2. Get(v, "plan") = None
      BY KindsApart DEF Get
    <3> QED
      BY <2>4, <2>7, <3>1, <3>2, KindsApart DEF Holder
  <2>9. CASE IsObject(Get(v, "plan"))
    <3>1. ~ Truthy(Get(v, "plan"))
      BY <2>1, <2>2, <2>3, <2>8, <2>9, KindsApart
    <3>2. Within(p, root)
      BY <2>5, PlaceAbove DEF root
    <3> QED
      BY <2>4, <2>9, <3>1, <3>2 DEF Holder
  <2>10. CASE ~ IsObject(Get(v, "plan"))
    <3>1. p # root
      BY <2>4, <2>10 DEF Holder
    <3>2. PICK i \in DOMAIN Children(v) : \E q \in Shown(l, Children(v)[i]) : p = Below(i, q)
      BY <2>7, <3>1
    <3> PICK q \in Shown(l, Children(v)[i]) : p = Below(i, q)
      BY <3>2
    <3>3. ~ Truthy(find[Children(v)[i]])
      BY <2>1, <2>2, <2>3, <2>8, <2>10
    <3>4. \A r \in Shown(l, Children(v)[i]) :
             r \in Places /\ Below(i, r) \in Shown(l + 1, v) /\ Below(i, r).is = r.is
      BY ShownBelow
    <3>5. PICK r \in Shown(l, Children(v)[i]) :
              Holder(r) /\ Within(q, r) /\ ~ Truthy(Get(r.is, "plan"))
      BY <2>1, <2>6, <3>3, <3>4 DEF PlansHidden, Holder, find
    <3>6. Within(p, Below(i, r))
      BY <2>6, <3>4, <3>5, PlaceBelow
    <3> QED
      BY <3>4, <3>5, <3>6 DEF Holder
  <2> QED
    BY <2>9, <2>10
<1> HIDE DEF T
<1>3. Nat \subseteq T
  BY <1>1, <1>2, Induction
<1>4. \A l \in Levels : l \in Nat
  BY LevelsAre
<1> QED
  BY <1>3, <1>4 DEF T

-----------------------------------------------------------------------------
(* The errors. *)

LEMMA FindErrorsIs ==
    ASSUME NEW v \in Tree, NEW find \in [Tree -> Tree]
    PROVE  LET e == FindErrorsWith(find, v)
           IN \/ e = None
              \/ \E i \in DOMAIN Children(v) : e \in {Children(v)[i], find[Children(v)[i]]}
<1> DEFINE e == FindErrorsWith(find, v)
           errors == Get(v, "errors")
           nested == FoundBelow(find, v)
<1>1. e = IF IsList(errors) /\ Truthy(errors) THEN errors ELSE FirstFound(nested)
  BY DEF FindErrorsWith, FoundBelow
<1>2. errors = None \/ \E i \in DOMAIN Children(v) : errors = Children(v)[i]
  BY GetIs
<1>3. /\ DOMAIN nested = DOMAIN Children(v) /\ DOMAIN nested \subseteq Nat
      /\ \A i \in DOMAIN nested : nested[i] = find[Children(v)[i]]
  <2>1. /\ DOMAIN nested = DOMAIN Children(v)
        /\ \A i \in DOMAIN Children(v) : nested[i] = find[Children(v)[i]]
    BY DEF FoundBelow
  <2> HIDE DEF nested
  <2> QED
    BY <2>1, ChildrenAre
<1> HIDE DEF e, errors, nested
<1>4. FirstFound(nested) = None \/ \E i \in DOMAIN nested : FirstFound(nested) = nested[i]
  BY <1>3, FirstFoundIs
<1> QED
  BY <1>1, <1>2, <1>3, <1>4, KindsApart DEF e

LEMMA ErrorsExist ==
    /\ \A l \in Levels : ErrorsWithin[l] \in [Tree -> Tree]
    /\ \A v \in Tree : ErrorsWithin[0][v] = None
    /\ \A l \in Nat : l + 1 \in Levels =>
          \A v \in Tree : ErrorsWithin[l + 1][v] = FindErrorsWith(ErrorsWithin[l], v)
<1> DEFINE R == [Tree -> Tree]
           r0 == [v \in Tree |-> None]
           D == [g \in R |-> [v \in Tree |-> FindErrorsWith(g, v)]]
<1>0. \A g \in R : \A v \in Tree : FindErrorsWith(g, v) \in Tree
  <2> SUFFICES ASSUME NEW g \in R, NEW v \in Tree PROVE FindErrorsWith(g, v) \in Tree
    OBVIOUS
  <2>1. \/ FindErrorsWith(g, v) = None
        \/ \E i \in DOMAIN Children(v) : FindErrorsWith(g, v) \in {Children(v)[i], g[Children(v)[i]]}
    BY FindErrorsIs
  <2>2. \A i \in DOMAIN Children(v) : Children(v)[i] \in Tree /\ g[Children(v)[i]] \in Tree
    BY ChildrenAre
  <2> QED
    BY <2>1, <2>2, SentAreTrees
<1>1. r0 \in R
  BY SentAreTrees
<1>2. D \in [R -> R]
  BY <1>0
<1>3. PICK f \in [Levels -> R] : f = [l \in Levels |-> IF l = 0 THEN r0 ELSE D[f[l - 1]]]
  <2> HIDE DEF R, r0, D
  <2> QED
    BY <1>1, <1>2, SearchExists
<1>4. \A l \in Levels : l # 0 => l - 1 \in Levels
  BY LevelsAre
<1>5. ASSUME NEW l \in Levels
      PROVE  (IF l = 0 THEN r0 ELSE D[f[l - 1]]) =
             [v \in Tree |-> IF l = 0 THEN None ELSE FindErrorsWith(f[l - 1], v)]
  <2>1. CASE l = 0
    BY <2>1
  <2>2. CASE l # 0
    BY <1>4, <2>2
  <2> QED
    BY <2>1, <2>2
<1>6. f = [l \in Levels |-> [v \in Tree |-> IF l = 0 THEN None ELSE FindErrorsWith(f[l - 1], v)]]
  <2> HIDE DEF R, r0, D
  <2> QED
    BY <1>3, <1>5
<1>7. ErrorsWithin = [l \in Levels |->
                         [v \in Tree |-> IF l = 0 THEN None ELSE FindErrorsWith(ErrorsWithin[l - 1], v)]]
  <2> HIDE DEF R, r0, D
  <2> QED
    BY <1>6 DEF ErrorsWithin
<1>8. \A v \in Tree : ErrorsWithin[0][v] = None
  BY <1>7, LevelsAre
<1>9. \A l \in Nat : l + 1 \in Levels =>
         ErrorsWithin[l + 1] = [v \in Tree |-> FindErrorsWith(ErrorsWithin[l], v)]
  <2> SUFFICES ASSUME NEW l \in Nat, l + 1 \in Levels
               PROVE  ErrorsWithin[l + 1] = [v \in Tree |-> FindErrorsWith(ErrorsWithin[l], v)]
    OBVIOUS
  <2>1. l + 1 # 0 /\ (l + 1) - 1 = l
    OBVIOUS
  <2> QED
    BY <1>7, <2>1
<1> DEFINE T == {l \in Nat : l \in Levels => ErrorsWithin[l] \in R}
<1>10. 0 \in T
  <2>1. ErrorsWithin[0] = r0
    BY <1>7, LevelsAre
  <2> QED
    BY <1>1, <2>1
<1>11. ASSUME NEW l \in Nat, l \in T PROVE l + 1 \in T
  <2> SUFFICES ASSUME l + 1 \in Levels PROVE ErrorsWithin[l + 1] \in R
    OBVIOUS
  <2>1. ErrorsWithin[l] \in R
    BY <1>11, LevelsAre
  <2>2. \A v \in Tree : FindErrorsWith(ErrorsWithin[l], v) \in Tree
    BY <1>0, <2>1
  <2> QED
    BY <1>9, <2>2
<1> HIDE DEF T
<1>12. Nat \subseteq T
  BY <1>10, <1>11, Induction
<1>13. \A l \in Levels : ErrorsWithin[l] \in R
  <2>1. \A l \in Levels : l \in Nat
    BY LevelsAre
  <2> QED
    BY <1>12, <2>1 DEF T
<1>14. \A l \in Nat : l + 1 \in Levels =>
          \A v \in Tree : ErrorsWithin[l + 1][v] = FindErrorsWith(ErrorsWithin[l], v)
  <2> HIDE DEF R, r0, D
  <2> QED
    BY <1>9
<1> QED
  BY <1>8, <1>13, <1>14

(* The errors found for a value stand in it. *)
ErrorsStandIn(l, v) == ErrorsWithin[l][v] = None \/ \E p \in Parts[v] : p.is = ErrorsWithin[l][v]

LEMMA ErrorsFound == \A l \in Levels : \A v \in Tree : ErrorsStandIn(l, v)
<1> DEFINE T == {l \in Nat : l \in Levels => \A v \in Tree : ErrorsStandIn(l, v)}
<1>1. 0 \in T
  BY ErrorsExist DEF ErrorsStandIn
<1>2. ASSUME NEW l \in Nat, l \in T PROVE l + 1 \in T
  <2> SUFFICES ASSUME l + 1 \in Levels, NEW v \in Tree PROVE ErrorsStandIn(l + 1, v)
    OBVIOUS
  <2> DEFINE find == ErrorsWithin[l]
             e == FindErrorsWith(find, v)
  <2>1. /\ find \in [Tree -> Tree] /\ \A w \in Tree : ErrorsStandIn(l, w)
        /\ ErrorsWithin[l + 1][v] = e
    BY <1>2, LevelsAre, ErrorsExist
  <2> HIDE DEF T, find
  <2>2. e = None \/ \E i \in DOMAIN Children(v) : e \in {Children(v)[i], find[Children(v)[i]]}
    BY <2>1, FindErrorsIs
  <2> HIDE DEF e
  <2>3. ASSUME NEW i \in DOMAIN Children(v), NEW q \in Parts[Children(v)[i]]
        PROVE  \E p \in Parts[v] : p.is = q.is
    <3>1. i \in Nat /\ Children(v)[i] \in Tree
      BY ChildrenAre
    <3>2. q \in Places /\ Below(i, q) \in Parts[v]
      BY <3>1, PartsBelow
    <3> QED
      BY <3>1, <3>2, BelowIs
  <2>4. ASSUME NEW i \in DOMAIN Children(v), e \in {Children(v)[i], find[Children(v)[i]]}, e # None
        PROVE  \E p \in Parts[v] : p.is = e
    <3>1. Children(v)[i] \in Tree
      BY ChildrenAre
    <3>2. \E q \in Parts[Children(v)[i]] : q.is = Children(v)[i]
      BY <3>1, PartsBelow, PartIs
    <3>3. e = find[Children(v)[i]] => \E q \in Parts[Children(v)[i]] : q.is = e
      BY <2>1, <2>4, <3>1 DEF ErrorsStandIn, find
    <3>4. PICK q \in Parts[Children(v)[i]] : q.is = e
      BY <2>4, <3>2, <3>3
    <3> QED
      BY <2>3, <3>4
  <2> QED
    BY <2>1, <2>2, <2>4 DEF ErrorsStandIn
<1> HIDE DEF T
<1>3. Nat \subseteq T
  BY <1>1, <1>2, Induction
<1>4. \A l \in Levels : l \in Nat
  BY LevelsAre
<1> QED
  BY <1>3, <1>4 DEF T

-----------------------------------------------------------------------------
(* What is stored of a response shows what it says. *)

LEMMA PayloadIs ==
    ASSUME NEW operation, NEW said,
           LET t == FindTerminal(said) IN t \in {None, Raised} \/ IsFailed(t) \/ IsSuccess(t)
    PROVE  LET t == FindTerminal(said)
               a == FindArtifact(operation, said)
           IN Payload(operation, said) =
                 IF t = Raised \/ (t = None /\ ~ IsObject(said)) THEN "RAISES"
                 ELSE IF IsFailed(t) THEN "FAILED"
                 ELSE IF IsSuccess(t) THEN (IF Truthy(a) THEN "DONE" ELSE "NO_ARTIFACT") ELSE "ACK"
BY StatusesApart DEF Payload

LEMMA SearchedIs == \A v \in Tree : Searched(v) = Shown(MaxDepth + 1, v)
<1> SUFFICES ASSUME NEW v \in Tree, NEW p \in Parts[v]
             PROVE  Len(p.at) <= MaxDepth <=> Len(p.at) < MaxDepth + 1
  BY DEF Searched, Shown
<1>1. Len(p.at) \in Nat
  <2>1. p.at \in Seq(Nat)
    BY PartsBelow DEF Places
  <2> QED
    BY <2>1
<1> QED
  BY <1>1, LevelsAre

LEMMA OutcomeShows ==
    ASSUME NEW operation \in Operations, NEW said \in Tree
    PROVE  /\ FailureIsNotHidden(operation, said)
           /\ ErrorIsOfTheFailure(operation, said)
           /\ PlanIsFound(said)
<1> DEFINE l == MaxDepth + 1
           t == FindTerminal(said)
<1>1. l \in Levels /\ t = TerminalWithin[l][said]
  BY LevelsAre DEF FindTerminal
<1>2. Searched(said) = Shown(l, said) /\ Searched(said) \subseteq Parts[said]
  BY SearchedIs DEF Searched
<1> HIDE DEF l, t
<1>3. /\ \/ t = None
         \/ t = Raised /\ \E p \in Searched(said) : IsOdd(p.is)
         \/ (IsFailed(t) \/ IsSuccess(t)) /\ \E p \in Searched(said) : p.is = t
      /\ Stops(t) \/ \A p \in Searched(said) : IsTrouble(p.is) =>
                        \E list, item \in Searched(said) : Hides(list, item, p)
  BY <1>1, <1>2, EndsShown DEF EndIsShown, FailuresHidden
<1>4. /\ Payload(operation, said) = "FAILED" <=> IsFailed(t)
      /\ Payload(operation, said) = "RAISES" <=> t = Raised \/ (t = None /\ ~ IsObject(said))
  BY <1>3, PayloadIs, StatusesApart DEF t
<1>5. FailureIsNotHidden(operation, said)
  <2>1. ASSUME IsFailed(t) PROVE \E p \in Searched(said) : IsFailed(p.is)
    BY <1>3, <2>1, StatusesApart
  <2>2. ASSUME NEW p, NEW list \in Searched(said), NEW item \in Searched(said), Hides(list, item, p)
        PROVE  Behind(p, said)
    BY <2>2 DEF Hides, Behind
  <2>3. CASE Payload(operation, said) = "FAILED"
    BY <1>4, <2>1, <2>3 DEF FailureIsNotHidden
  <2>4. CASE Payload(operation, said) = "RAISES"
    <3>1. (\E p \in Searched(said) : IsOdd(p.is)) \/ ~ IsObject(said)
      BY <1>3, <1>4, <2>4, StatusesApart
    <3> QED
      BY <2>4, <3>1 DEF FailureIsNotHidden, IsOdd
  <2>5. CASE Payload(operation, said) \notin {"FAILED", "RAISES"}
    <3>1. ~ Stops(t)
      BY <1>4, <2>5 DEF Stops
    <3>2. ASSUME NEW p \in Searched(said), IsTrouble(p.is) PROVE Behind(p, said)
      BY <1>3, <2>2, <3>1, <3>2
    <3> QED
      BY <2>5, <3>2 DEF FailureIsNotHidden, IsTrouble, IsOdd
  <2> QED
    BY <2>3, <2>4, <2>5
<1>6. ErrorIsOfTheFailure(operation, said)
  <2> SUFFICES ASSUME IsFailed(t), ErrorsOf(said) # None
               PROVE  \E p \in Searched(said), q \in Parts[said] :
                         IsFailed(p.is) /\ Within(q, p) /\ q.is = ErrorsOf(said)
    BY <1>4 DEF ErrorIsOfTheFailure
  <2>1. PICK p \in Searched(said) : p.is = t
    BY <1>3, StatusesApart
  <2>2. t \in Tree
    BY <1>1, TerminalExists, StatusesApart DEF Endings
  <2>3. ErrorsOf(said) = ErrorsWithin[l][t]
    BY StatusesApart DEF ErrorsOf, FindErrors, l, t
  <2>4. PICK q \in Parts[t] : q.is = ErrorsOf(said)
    BY <1>1, <2>2, <2>3, ErrorsFound DEF ErrorsStandIn
  <2> DEFINE r == Part(p.at \o q.at, q.is)
  <2>5. r \in Parts[said] /\ Within(r, p) /\ r.is = q.is
    BY <1>2, <2>1, <2>4, PartsOfParts
  <2> QED
    BY <2>1, <2>4, <2>5
<1>7. PlanIsFound(said)
  <2>1. Payload("PLAN", said) = "NO_ARTIFACT" => ~ Truthy(ArtifactWithin[l]["PLAN"][said])
    BY <1>3, PayloadIs DEF FindArtifact, l, t
  <2>2. PlansHidden(l, said)
    BY <1>1, PlansFound
  <2> QED
    BY <1>2, <2>1, <2>2 DEF PlanIsFound, PlansHidden, Holder
<1> QED
  BY <1>5, <1>6, <1>7

-----------------------------------------------------------------------------
(* The readers. *)

LEMMA SubjectStays == ReaderSpec => [](subject \in Subjects)
<1>1. ReaderInit => subject \in Subjects
  BY DEF ReaderInit
<1>2. subject \in Subjects /\ [Read]_readerVars => (subject \in Subjects)'
  BY DEF Read, readerVars
<1> QED
  BY <1>1, <1>2, PTL DEF ReaderSpec

LEMMA SubjectKinds ==
    ASSUME subject \in Subjects
    PROVE  /\ subject.kind = "response" => subject.operation \in Operations /\ subject.value \in Sent
           /\ subject.kind = "wrapped" =>
                 subject.operation \in Operations /\ subject.value \in Trees[MaxLayers - 5]
           /\ subject.kind = "body" => subject.value \in Sent
<1>1. Responses \subseteq Sent /\ Previews \subseteq Sent /\ Wrapped \subseteq Trees[MaxLayers - 5]
  BY SubjectsAssumption
<1> QED
  BY <1>1 DEF Subjects

(* main.py, find_terminal_payload, find_plan_data and extract_error_info: of *)
(* any response of any depth, what is stored for its run is what it says.    *)
THEOREM Outcomes == ReaderSpec => []OutcomesShow
<1>1. subject \in Subjects => OutcomesShow
  <2> SUFFICES ASSUME subject \in Subjects, subject.kind = "response"
               PROVE  LET said == NormalizeResponse(subject.value)
                      IN /\ FailureIsNotHidden(subject.operation, said)
                         /\ ErrorIsOfTheFailure(subject.operation, said)
                         /\ PlanIsFound(said)
    BY DEF OutcomesShow, Reading
  <2>1. subject.operation \in Operations /\ NormalizeResponse(subject.value) \in Tree
    BY SubjectKinds, NormalizedIs
  <2> QED
    BY <2>1, OutcomeShows
<1> QED
  BY <1>1, SubjectStays, PTL

(* langflow.py, parse_jsonish and normalize_response, and schemas.py,        *)
(* normalize_langflow_callback: any response and any callback means the same *)
(* bare, as text and under wrapper keys.                                     *)
THEOREM WrappedRead == ReaderSpec => []WrappersUnwrap
<1>1. subject \in Subjects => WrappersUnwrap
  <2> SUFFICES ASSUME subject \in Subjects PROVE WrappersUnwrap
    OBVIOUS
  <2>1. subject.kind = "wrapped" => WrappedReadsAlike(subject.operation, subject.value)
    <3>1. MaxLayers >= 5
      BY SubjectsAssumption
    <3> QED
      BY <3>1, SubjectKinds, ResponsesUnwrap
  <2> QED
    BY <2>1, CallbacksUnwrap DEF WrappersUnwrap, Reading
<1> QED
  BY <1>1, SubjectStays, PTL

(* request_logging.py, _extract_identifiers: any body that names whole       *)
(* requests is logged under the first of them.                               *)
THEOREM RequestsNamed == ReaderSpec => []RequestsAreNamed
<1>1. subject \in Subjects => RequestsAreNamed
  <2> SUFFICES ASSUME subject \in Subjects, subject.kind = "body" PROVE OneRequestIsNamed(subject.value)
    BY DEF RequestsAreNamed, Reading
  <2>1. subject.value \in Tree
    BY SubjectKinds, SentAreTrees
  <2> QED
    BY <2>1, FirstRequestIsNamed
<1> QED
  BY <1>1, SubjectStays, PTL
=============================================================================
