---------------------------- MODULE RunApiProofs ----------------------------
(***************************************************************************)
(* Proofs about RunApi for every number of attempts and every set of       *)
(* bodies.  The inductive invariant says what is known of the posts of the *)
(* current attempt at each pc, and that a wrapped post of an attempt is    *)
(* either its only one or follows a direct one that was refused.  Then     *)
(* what a call reads from a body (RunReplies), for all bodies.             *)
(***************************************************************************)
EXTENDS RunReplies, JsonProofs, TLAPS

(* A wrapped post is the only one of its attempt or follows a refusal. *)
WrappedLast ==
    /\ style = "wrapped" => \A a \in Attempts : <<a, "direct">> \notin posts
    /\ \A a \in Attempts : <<a, "wrapped">> \in posts =>
          style = "wrapped" \/ (style = "auto" /\ <<a, "direct">> \in dropped)

PostsBounded ==
    /\ \A a \in Attempts, s \in Shapes : <<a, s>> \in posts => a <= attempt
    /\ started \subseteq posts
    /\ started \cap dropped = {}

PcKnown ==
    /\ pc = "ready" => \A s \in Shapes : <<attempt, s>> \notin posts
    /\ pc = "posted" /\ style # "wrapped" => <<attempt, "wrapped">> \notin posts
    /\ pc \in {"rewrap", "rewrapped"} => style = "auto" /\ <<attempt, "direct">> \in dropped
    /\ pc = "sleeping" => attempt < MaxAttempts
    /\ pc # "done" => outcome = "none" /\ reply = NoBody

OutcomeKnown ==
    /\ outcome = "result" =>
         /\ \E s \in Shapes : <<attempt, s>> \in started
         /\ reply # NoBody /\ ResultIn[reply] \in Fit
    /\ outcome = "unprocessable" =>
         \A s \in Shapes : <<attempt, s>> \in posts => <<attempt, s>> \in dropped

IInv == TypeOK /\ WrappedLast /\ PostsBounded /\ PcKnown /\ OutcomeKnown

-----------------------------------------------------------------------------
USE AttemptsAssumption, BodyAssumption

LEMMA InitIInv == Init => IInv
BY DEF Init, IInv, TypeOK, WrappedLast, PostsBounded, PcKnown, OutcomeKnown, Attempts

LEMMA CurrentType == TypeOK => Shape \in Shapes /\ Current \in Attempts \X Shapes
BY DEF TypeOK, Shape, Shapes, Current

LEMMA PostIInv == IInv /\ Post => IInv'
<1> SUFFICES ASSUME IInv, Post PROVE IInv'
  OBVIOUS
<1> USE DEF IInv, Post
<1>1. TypeOK'
  BY CurrentType DEF TypeOK
<1>2. WrappedLast'
  BY DEF WrappedLast, PcKnown, TypeOK, Current, Shape, Shapes
<1>3. PostsBounded'
  BY DEF PostsBounded, TypeOK, Current, Shape, Shapes, Attempts
<1>4. PcKnown'
  BY DEF PcKnown, TypeOK, Current, Shape, Shapes
<1>5. OutcomeKnown'
  BY DEF OutcomeKnown, PcKnown, TypeOK
<1> QED BY <1>1, <1>2, <1>3, <1>4, <1>5

LEMMA StartFlowIInv == ASSUME NEW post \in posts, IInv, StartFlow(post) PROVE IInv'
<1> USE DEF IInv, StartFlow
<1>1. TypeOK'
  BY DEF TypeOK
<1>2. WrappedLast' /\ PcKnown'
  BY DEF WrappedLast, PcKnown
<1>3. PostsBounded'
  BY DEF PostsBounded
<1>4. OutcomeKnown'
  BY DEF OutcomeKnown
<1> QED BY <1>1, <1>2, <1>3, <1>4

(* An answer changes neither what was posted nor what was started. *)
LEMMA ReceiveIInv == ASSUME NEW body \in Bodies, IInv, Receive(body) PROVE IInv'
<1> USE DEF IInv, Receive, EndAs
<1>1. TypeOK'
  BY DEF TypeOK
<1>2. WrappedLast' /\ PostsBounded'
  BY DEF WrappedLast, PostsBounded
<1>3. PcKnown'
  BY DEF PcKnown
<1>4. OutcomeKnown'
  BY CurrentType DEF OutcomeKnown, PcKnown, Current
<1> QED BY <1>1, <1>2, <1>3, <1>4

LEMMA UnprocessableIInv == IInv /\ Unprocessable => IInv'
<1> SUFFICES ASSUME IInv, Unprocessable PROVE IInv'
  OBVIOUS
<1> USE DEF IInv, Unprocessable, EndAs
<1>1. TypeOK'
  BY CurrentType DEF TypeOK
<1>2. WrappedLast'
  BY DEF WrappedLast
<1>3. PostsBounded'
  BY DEF PostsBounded
<1>4. PcKnown'
  BY DEF PcKnown, TypeOK, Current, Shape, Waiting
<1>5. OutcomeKnown'
  <2>1. CASE style = "auto" /\ pc = "posted"
    BY <2>1 DEF OutcomeKnown, PcKnown
  <2>2. CASE ~ (style = "auto" /\ pc = "posted")
    <3>1. ASSUME NEW s \in Shapes, <<attempt, s>> \in posts
          PROVE  <<attempt, s>> \in dropped'
      <4>1. CASE s = Shape
        BY <4>1 DEF Current
      <4>2. CASE s # Shape
        BY <2>2, <3>1, <4>2
        DEF Shape, Shapes, Waiting, WrappedLast, PcKnown, TypeOK
      <4> QED BY <4>1, <4>2
    <3> QED BY <2>2, <3>1 DEF OutcomeKnown, PcKnown, Waiting
  <2> QED BY <2>1, <2>2
<1> QED BY <1>1, <1>2, <1>3, <1>4, <1>5

LEMMA NoConnectionIInv == IInv /\ NoConnection => IInv'
<1> SUFFICES ASSUME IInv, NoConnection PROVE IInv'
  OBVIOUS
<1> USE DEF IInv, NoConnection, GiveUpOrSleep, EndAs
<1>1. TypeOK'
  BY CurrentType DEF TypeOK
<1>2. WrappedLast' /\ PostsBounded'
  BY DEF WrappedLast, PostsBounded
<1>3. PcKnown' /\ OutcomeKnown'
  BY DEF PcKnown, OutcomeKnown, Waiting, TypeOK, Attempts
<1> QED BY <1>1, <1>2, <1>3

(* What only moves the call on, or ends it without a result. *)
LEMMA MoveIInv == IInv /\ (MayPass \/ Refused \/ Cancel) => IInv'
<1> SUFFICES ASSUME IInv, MayPass \/ Refused \/ Cancel PROVE IInv'
  OBVIOUS
<1> USE DEF IInv, MayPass, Refused, Cancel, GiveUpOrSleep, EndAs
<1>1. TypeOK'
  BY DEF TypeOK
<1>2. WrappedLast' /\ PostsBounded'
  BY DEF WrappedLast, PostsBounded
<1>3. PcKnown' /\ OutcomeKnown'
  BY DEF PcKnown, OutcomeKnown, Waiting, TypeOK, Attempts
<1> QED BY <1>1, <1>2, <1>3

LEMMA WakeUpIInv == IInv /\ WakeUp => IInv'
<1> SUFFICES ASSUME IInv, WakeUp PROVE IInv'
  OBVIOUS
<1> USE DEF IInv, WakeUp
<1>1. TypeOK'
  BY DEF TypeOK, PcKnown, Attempts
<1>2. WrappedLast'
  BY DEF WrappedLast
<1>3. PostsBounded'
  BY DEF PostsBounded, TypeOK, Attempts
<1>4. PcKnown' /\ OutcomeKnown'
  BY <1>1 DEF PcKnown, OutcomeKnown, PostsBounded, TypeOK, Attempts
<1> QED BY <1>1, <1>2, <1>3, <1>4

LEMMA NextIInv == IInv /\ [Next]_vars => IInv'
<1> SUFFICES ASSUME IInv, [Next]_vars PROVE IInv'
  OBVIOUS
<1>1. CASE Post
  BY <1>1, PostIInv
<1>2. CASE \E post \in posts : StartFlow(post)
  BY <1>2, StartFlowIInv
<1>3. CASE Answered
  BY <1>3, ReceiveIInv, UnprocessableIInv, NoConnectionIInv, MoveIInv DEF Answered
<1>4. CASE WakeUp
  BY <1>4, WakeUpIInv
<1>5. CASE Cancel
  BY <1>5, MoveIInv
<1>6. CASE UNCHANGED vars
  BY <1>6 DEF vars, IInv, TypeOK, WrappedLast, PostsBounded, PcKnown, OutcomeKnown
<1> QED BY <1>1, <1>2, <1>3, <1>4, <1>5, <1>6 DEF Next

(* The invariant holds of every behaviour. *)
THEOREM Invariance == Spec => []IInv
BY InitIInv, NextIInv, PTL DEF Spec

-----------------------------------------------------------------------------
(* Every variable has its type, and no attempt is made past the last,        *)
(* whatever MaxAttempts is.                                                  *)
THEOREM TypeCorrect == Spec => []TypeOK
<1>1. IInv => TypeOK
  BY DEF IInv
<1> QED BY <1>1, Invariance, PTL

(* No attempt starts two flows, however late the server starts them.         *)
THEOREM RunsOnce == Spec => []AttemptRunsOnce
<1>1. IInv => AttemptRunsOnce
  BY DEF IInv, AttemptRunsOnce, WrappedLast, PostsBounded
<1> QED BY <1>1, Invariance, PTL

(* A result or an unprocessable command is that of the last attempt.         *)
THEOREM OutcomeTrue == Spec => []OutcomeOfLastAttempt
<1>1. ASSUME IInv PROVE OutcomeOfLastAttempt
  <2>1. ASSUME NEW a \in started, a[1] = attempt
        PROVE  \E s \in Shapes : a = <<attempt, s>>
    BY <1>1, <2>1 DEF IInv, TypeOK
  <2>2. outcome = "unprocessable" => {a \in started : a[1] = attempt} = {}
    BY <1>1, <2>1 DEF IInv, OutcomeKnown, PostsBounded
  <2>3. ASSUME NEW s \in Shapes, <<attempt, s>> \in started
        PROVE  {a \in started : a[1] = attempt} # {}
    BY <2>3
  <2> QED BY <1>1, <2>2, <2>3 DEF IInv, OutcomeKnown, OutcomeOfLastAttempt
<1> QED BY <1>1, Invariance, PTL

(* After an answer of a flow no step posts the command again.                *)
THEOREM FinalAnswer == Spec => AnsweredIsFinal
<1>1. ASSUME IInv, reply # NoBody, [Next]_vars PROVE posts' = posts /\ reply' = reply
  <2>1. pc = "done"
    BY <1>1 DEF IInv, PcKnown
  <2>2. CASE \E post \in posts : StartFlow(post)
    BY <2>2 DEF StartFlow
  <2>3. CASE UNCHANGED vars
    BY <2>3 DEF vars
  <2> QED BY <1>1, <2>1, <2>2, <2>3
      DEF Next, Post, Answered, Receive, Unprocessable, MayPass, NoConnection, Refused,
          WakeUp, Cancel, Waiting
<1>2. IInv /\ [Next]_vars => [reply # NoBody => posts' = posts /\ reply' = reply]_vars
  BY <1>1
<1> QED BY <1>2, Invariance, PTL DEF Spec, AnsweredIsFinal

-----------------------------------------------------------------------------
(* How long a call can take. *)

(* The steps a call can still make: five of an attempt are its post, the    *)
(* refusal of that shape, the post of the other, its answer and the pause.  *)
StepsLeft ==
    IF pc = "done" THEN 0
    ELSE 5 * (MaxAttempts - attempt) +
         [ready |-> 5, posted |-> 4, rewrap |-> 3, rewrapped |-> 2, sleeping |-> 1][pc]

(* Every step of the call brings its end nearer, and the server, which may  *)
(* start what was posted at any time, never takes it back: a call makes     *)
(* 5 * MaxAttempts steps at most, and fairness is needed for one more step  *)
(* only, never against a repetition.                                        *)
CallComesDown ==
    /\ [](StepsLeft \in 0 .. 5 * MaxAttempts)
    /\ [][\/ StepsLeft' < StepsLeft
          \/ /\ \E post \in posts \ started : started' = started \cup {post}
             /\ UNCHANGED <<pc, attempt, posts>>]_vars

THEOREM StepsBounded == Spec => CallComesDown
<1>1. IInv => StepsLeft \in 0 .. 5 * MaxAttempts
  <2> SUFFICES ASSUME IInv, pc # "done" PROVE StepsLeft \in 0 .. 5 * MaxAttempts
    BY DEF StepsLeft
  <2>1. attempt \in Nat /\ 1 <= attempt /\ attempt <= MaxAttempts
    BY DEF IInv, TypeOK, Attempts
  <2>2. pc \in {"ready", "posted", "rewrap", "rewrapped", "sleeping"}
    BY DEF IInv, TypeOK
  <2>3. [ready |-> 5, posted |-> 4, rewrap |-> 3, rewrapped |-> 2, sleeping |-> 1][pc] \in 1 .. 5
    BY <2>2
  <2> QED
    BY <2>1, <2>3 DEF StepsLeft
<1>2. ASSUME IInv, Next
      PROVE  \/ StepsLeft' < StepsLeft
             \/ /\ \E post \in posts \ started : started' = started \cup {post}
                /\ UNCHANGED <<pc, attempt, posts>>
  <2>1. attempt \in Nat /\ 1 <= attempt /\ attempt <= MaxAttempts
    BY <1>2 DEF IInv, TypeOK, Attempts
  <2>2. pc # "done" => StepsLeft > 0
    <3>1. pc \in {"done", "ready", "posted", "rewrap", "rewrapped", "sleeping"}
      BY <1>2 DEF IInv, TypeOK
    <3> QED
      BY <2>1, <3>1 DEF StepsLeft
  <2>3. pc # "done" /\ pc' = "done" => StepsLeft' < StepsLeft
    BY <2>2 DEF StepsLeft
  <2>4. CASE Post
    BY <2>1, <2>4 DEF Post, StepsLeft
  <2>5. CASE \E post \in posts : StartFlow(post)
    BY <2>5 DEF StartFlow
  <2>6. CASE Answered
    <3>1. Waiting
      BY <2>6 DEF Answered, Receive, Unprocessable, MayPass, NoConnection, Refused
    <3>2. attempt' = attempt /\ pc' \in {"done", "sleeping", "rewrap"} /\ (pc' = "rewrap" => pc = "posted")
      BY <2>6 DEF Answered, Receive, Unprocessable, MayPass, NoConnection, Refused, GiveUpOrSleep, EndAs
    <3> QED
      BY <2>1, <2>3, <3>1, <3>2 DEF Waiting, StepsLeft
  <2>7. CASE WakeUp
    <3>1. attempt + 1 <= MaxAttempts
      BY <1>2, <2>1, <2>7 DEF WakeUp, IInv, PcKnown
    <3> QED
      BY <2>1, <2>7, <3>1 DEF WakeUp, StepsLeft
  <2>8. CASE Cancel
    BY <2>3, <2>8 DEF Cancel, EndAs
  <2> QED
    BY <1>2, <2>4, <2>5, <2>6, <2>7, <2>8 DEF Next
<1>3. IInv /\ [Next]_vars =>
        [\/ StepsLeft' < StepsLeft
         \/ /\ \E post \in posts \ started : started' = started \cup {post}
            /\ UNCHANGED <<pc, attempt, posts>>]_vars
  BY <1>2
<1> QED
  BY <1>1, <1>3, Invariance, PTL DEF Spec, CallComesDown

-----------------------------------------------------------------------------
(* What is read from a body. *)

(* The first result of a value, outermost first, or none if it has none.   *)
IsFirstResult(p, v) ==
    /\ p \in Parts[v] /\ IsResult(p.is)
    /\ \A q \in Parts[v] \ {p} : IsResult(q.is) => Earlier(p, q)

LEMMA NoneIsNoResult == ~ IsResult(None) /\ ~ IsText(None) /\ ~ IsObject(None)
BY DEF IsResult, IsObject, IsText, None

LEMMA FindResultExists ==
    FindResult = [v \in Tree |-> FindResultWith(FindResult, v)]
<1> DEFINE D == [v \in Tree |-> [g \in [Tree -> Tree] |-> FindResultWith(g, v)]]
<1>1. ASSUME NEW v \in Tree, NEW g, NEW h, \A w \in Held(v) : g[w] = h[w]
      PROVE  FindResultWith(g, v) = FindResultWith(h, v)
  <2>1. \A i \in DOMAIN Children(v) : g[Children(v)[i]] = h[Children(v)[i]]
    BY <1>1, PartsBelow
  <2>2. [i \in DOMAIN Children(v) |-> g[Children(v)[i]]] = [i \in DOMAIN Children(v) |-> h[Children(v)[i]]]
    BY <2>1
  <2> QED
    BY <2>2 DEF FindResultWith
<1>2. ASSUME NEW v \in Tree, NEW g \in [Tree -> Tree] PROVE FindResultWith(g, v) \in Tree
  <2> DEFINE found == [i \in DOMAIN Children(v) |-> g[Children(v)[i]]]
  <2>1. DOMAIN found \subseteq Nat /\ \A i \in DOMAIN found : found[i] \in Tree
    BY PartsBelow
  <2> HIDE DEF found
  <2>2. FirstFound(found) \in Tree
    BY <2>1, FirstFoundIs, SentAreTrees
  <2> QED
    BY <2>2 DEF FindResultWith, found
<1>3. D \in [Tree -> [[Tree -> Tree] -> Tree]]
  BY <1>2
<1>4. \A v \in Tree : \A g \in [Tree -> Tree] : D[v][g] = FindResultWith(g, v)
  OBVIOUS
<1> HIDE DEF D
<1>5. LooksInside(Tree, D)
  <2>1. ASSUME NEW v \in Tree, NEW g \in [Tree -> Tree], NEW h \in [Tree -> Tree],
               \A w \in Held(v) : g[w] = h[w]
        PROVE  D[v][g] = D[v][h]
    BY <1>1, <1>4, <2>1
  <2>2. Tree # {}
    BY SentAreTrees
  <2> QED
    BY <1>3, <2>1, <2>2 DEF LooksInside
<1>6. PICK f \in [Tree -> Tree] : \A v \in Tree : f[v] = D[v][f]
  BY <1>5, TreeRecursion
<1>7. f = [v \in Tree |-> FindResultWith(f, v)]
  BY <1>4, <1>6
<1> QED
  BY <1>7 DEF FindResult

LEMMA FindResultIs ==
    \A v \in Tree :
        \/ FindResult[v] = None /\ \A p \in Parts[v] : ~ IsResult(p.is)
        \/ \E p \in Parts[v] : IsFirstResult(p, v) /\ FindResult[v] = p.is
<1> DEFINE Right(v) == \/ FindResult[v] = None /\ \A p \in Parts[v] : ~ IsResult(p.is)
                       \/ \E p \in Parts[v] : IsFirstResult(p, v) /\ FindResult[v] = p.is
           Q == {v \in Tree : Right(v)}
<1>1. ASSUME NEW v \in Tree, Held(v) \subseteq Q PROVE Right(v)
  <2> DEFINE found == [i \in DOMAIN Children(v) |-> FindResult[Children(v)[i]]]
             root == Part(<<>>, v)
  <2>1. FindResult[v] = IF IsResult(v) THEN v ELSE FirstFound(found)
    BY FindResultExists DEF FindResultWith
  <2>2. /\ DOMAIN found = DOMAIN Children(v) /\ DOMAIN found \subseteq Nat
        /\ \A i \in DOMAIN found : found[i] = FindResult[Children(v)[i]] /\ Children(v)[i] \in Tree
    BY PartsBelow
  <2>3. \A i \in DOMAIN found : Right(Children(v)[i])
    BY <1>1, PartsBelow
  <2>4. root \in Parts[v] /\ root.is = v /\ root.at = <<>>
    BY PartsBelow, PartIs
  <2>5. \A p \in Parts[v] : p # root =>
            \E i \in DOMAIN found : \E q \in Parts[Children(v)[i]] : p = Below(i, q)
    BY <2>2, PartsBelow
  <2>6. \A i \in DOMAIN found : \A q \in Parts[Children(v)[i]] :
            /\ q \in Places /\ i \in Nat /\ Below(i, q) \in Parts[v]
            /\ Below(i, q).is = q.is /\ Earlier(root, Below(i, q))
    <3> SUFFICES ASSUME NEW i \in DOMAIN found, NEW q \in Parts[Children(v)[i]]
                 PROVE  /\ q \in Places /\ i \in Nat /\ Below(i, q) \in Parts[v]
                        /\ Below(i, q).is = q.is /\ Earlier(root, Below(i, q))
      OBVIOUS
    <3>1. i \in Nat /\ i \in DOMAIN Children(v) /\ Children(v)[i] \in Tree
      BY <2>2
    <3>2. q \in Places /\ Below(i, q) \in Parts[v]
      BY <3>1, PartsBelow
    <3> QED
      BY <3>1, <3>2, BelowIs, PlaceAbove
  <2> HIDE DEF found, root, Right
  <2>7. CASE IsResult(v)
    <3>1. IsFirstResult(root, v)
      BY <2>4, <2>5, <2>6, <2>7 DEF IsFirstResult
    <3> QED
      BY <2>1, <2>4, <2>7, <3>1 DEF Right
  <2>8. CASE ~ IsResult(v) /\ FirstFound(found) = None
    <3>1. \A i \in DOMAIN found : found[i] = None
      BY <2>2, <2>8, FirstFoundIs
    <3>2. \A i \in DOMAIN found : \A q \in Parts[Children(v)[i]] : ~ IsResult(q.is)
      BY <2>2, <2>3, <3>1, NoneIsNoResult DEF Right, IsFirstResult
    <3>3. \A p \in Parts[v] : ~ IsResult(p.is)
      BY <2>4, <2>5, <2>6, <2>8, <3>2
    <3> QED
      BY <2>1, <2>8, <3>3 DEF Right
  <2>9. CASE ~ IsResult(v) /\ FirstFound(found) # None
    <3>1. PICK i \in DOMAIN found : /\ found[i] # None /\ FirstFound(found) = found[i]
                                    /\ \A j \in DOMAIN found : j < i => found[j] = None
      BY <2>2, <2>9, FirstFoundIs
    <3>2. PICK q \in Parts[Children(v)[i]] :
             IsFirstResult(q, Children(v)[i]) /\ FindResult[Children(v)[i]] = q.is
      BY <2>2, <2>3, <3>1 DEF Right
    <3>3. \A j \in DOMAIN found : j < i => \A r \in Parts[Children(v)[j]] : ~ IsResult(r.is)
      BY <2>2, <2>3, <3>1, NoneIsNoResult DEF Right, IsFirstResult
    <3> DEFINE p == Below(i, q)
    <3>4. p \in Parts[v] /\ p.is = q.is /\ IsResult(p.is)
      BY <2>6, <3>2 DEF IsFirstResult
    <3>5. ASSUME NEW r \in Parts[v] \ {p}, IsResult(r.is) PROVE Earlier(p, r)
      <4>1. r # root
        BY <2>4, <2>9, <3>5
      <4>2. PICK j \in DOMAIN found : \E s \in Parts[Children(v)[j]] : r = Below(j, s)
        BY <2>5, <4>1
      <4>3. PICK s \in Parts[Children(v)[j]] : r = Below(j, s)
        BY <4>2
      <4>4. s \in Places /\ j \in Nat /\ q \in Places /\ i \in Nat /\ IsResult(s.is)
        BY <2>6, <3>5, <4>3
      <4>5. ~ (j < i)
        BY <3>3, <4>4
      <4>6. CASE j = i
        <5>1. s # q
          BY <3>5, <4>3, <4>6
        <5>2. Earlier(q, s)
          BY <3>2, <4>4, <4>6, <5>1 DEF IsFirstResult
        <5> QED
          BY <4>3, <4>4, <4>6, <5>2, PlaceBelow
      <4>7. CASE i < j
        BY <4>3, <4>4, <4>7, PlaceBelow
      <4> QED
        BY <4>4, <4>5, <4>6, <4>7
    <3>6. IsFirstResult(p, v)
      BY <3>4, <3>5 DEF IsFirstResult
    <3> QED
      BY <2>1, <2>2, <2>9, <3>1, <3>2, <3>4, <3>6 DEF Right
  <2> QED
    BY <2>7, <2>8, <2>9
<1>2. \A v \in Tree : Held(v) \subseteq Q => v \in Q
  BY <1>1
<1> HIDE DEF Q
<1>3. Tree \subseteq Q
  BY <1>2, TreeInduction
<1> QED
  BY <1>3 DEF Q

(* The members of several sequences, put one after the other.              *)
LEMMA ConcatMembers ==
    ASSUME NEW S, NEW s \in Seq(S), NEW t \in Seq(S)
    PROVE  s \o t \in Seq(S) /\ ToSet(s \o t) = ToSet(s) \cup ToSet(t)
<1>1. /\ Len(s) \in Nat /\ Len(t) \in Nat /\ DOMAIN s = 1 .. Len(s) /\ DOMAIN t = 1 .. Len(t)
      /\ s \o t \in Seq(S) /\ DOMAIN (s \o t) = 1 .. Len(s) + Len(t)
  <2>1. s \o t \in Seq(S) /\ Len(s \o t) = Len(s) + Len(t)
    BY ConcatProperties
  <2> QED
    BY <2>1
<1>2. \A i \in 1 .. Len(s) + Len(t) : (s \o t)[i] = IF i <= Len(s) THEN s[i] ELSE t[i - Len(s)]
  BY ConcatProperties
<1>3. ASSUME NEW i \in DOMAIN (s \o t) PROVE (s \o t)[i] \in ToSet(s) \cup ToSet(t)
  <2>1. CASE i <= Len(s)
    <3>1. i \in DOMAIN s /\ (s \o t)[i] = s[i]
      BY <1>1, <1>2, <2>1
    <3> QED
      BY <3>1 DEF ToSet
  <2>2. CASE ~ (i <= Len(s))
    <3>1. i - Len(s) \in DOMAIN t /\ (s \o t)[i] = t[i - Len(s)]
      BY <1>1, <1>2, <2>2
    <3> QED
      BY <3>1 DEF ToSet
  <2> QED
    BY <2>1, <2>2
<1>4. ASSUME NEW i \in DOMAIN s PROVE s[i] \in ToSet(s \o t)
  <2>1. i \in DOMAIN (s \o t) /\ i <= Len(s)
    BY <1>1
  <2>2. (s \o t)[i] = s[i]
    BY <1>1, <1>2, <2>1
  <2> QED
    BY <2>1, <2>2 DEF ToSet
<1>5. ASSUME NEW i \in DOMAIN t PROVE t[i] \in ToSet(s \o t)
  <2>1. Len(s) + i \in DOMAIN (s \o t) /\ ~ (Len(s) + i <= Len(s)) /\ (Len(s) + i) - Len(s) = i
    BY <1>1
  <2>2. (s \o t)[Len(s) + i] = t[i]
    BY <1>1, <1>2, <2>1
  <2> QED
    BY <2>1, <2>2 DEF ToSet
<1> QED
  BY <1>1, <1>3, <1>4, <1>5 DEF ToSet

LEMMA FlattenIs ==
    ASSUME NEW S, NEW seqs \in Seq(Seq(S))
    PROVE  /\ FlattenSeq(seqs) \in Seq(S)
           /\ ToSet(FlattenSeq(seqs)) = UNION {ToSet(seqs[i]) : i \in DOMAIN seqs}
<1> DEFINE n == Len(seqs)
           D == [k \in 1 .. n |-> [r \in Seq(S) |-> IF k = 1 THEN seqs[k] ELSE r \o seqs[k]]]
<1>1. n \in Nat /\ DOMAIN seqs = 1 .. n /\ \A k \in 1 .. n : seqs[k] \in Seq(S)
  BY ElementOfSeq
<1>2. CASE n = 0
  <2>1. FlattenSeq(seqs) = seqs /\ seqs = <<>> /\ DOMAIN seqs = {}
    BY <1>1, <1>2 DEF FlattenSeq
  <2> QED
    BY <2>1 DEF ToSet
<1>3. CASE n # 0
  <2>1. D \in [1 .. n -> [Seq(S) -> Seq(S)]]
    BY <1>1, ConcatMembers
  <2>2. \A k \in 1 .. n, r \in Seq(S) : D[k][r] = IF k = 1 THEN seqs[k] ELSE r \o seqs[k]
    OBVIOUS
  <2> HIDE DEF n, D
  <2>3. StepsIn(n, Seq(S), <<>>, D)
    BY <1>1, <2>1 DEF StepsIn
  <2>4. PICK f \in [0 .. n -> Seq(S)] : f = [k \in 0 .. n |-> IF k = 0 THEN <<>> ELSE D[k][f[k - 1]]]
    BY <2>3, Stepwise
  <2> DEFINE h == [k \in 1 .. n |-> f[k]]
  <2>5. ASSUME NEW k \in 1 .. n PROVE h[k] = IF k = 1 THEN seqs[k] ELSE h[k - 1] \o seqs[k]
    <3>1. k \in 0 .. n /\ k - 1 \in 0 .. n /\ k # 0 /\ (k # 1 => k - 1 \in 1 .. n)
      BY <1>1
    <3>2. f[k] = D[k][f[k - 1]] /\ f[k - 1] \in Seq(S)
      BY <2>4, <3>1
    <3>3. f[k] = IF k = 1 THEN seqs[k] ELSE f[k - 1] \o seqs[k]
      BY <2>2, <3>2
    <3> QED
      BY <3>1, <3>3
  <2>6. h = [k \in 1 .. n |-> IF k = 1 THEN seqs[k] ELSE h[k - 1] \o seqs[k]]
    BY <2>5
  <2> DEFINE G == CHOOSE g : g = [k \in 1 .. n |-> IF k = 1 THEN seqs[k] ELSE g[k - 1] \o seqs[k]]
  <2>7. G = [k \in 1 .. n |-> IF k = 1 THEN seqs[k] ELSE G[k - 1] \o seqs[k]]
    <3> HIDE DEF h
    <3> QED
      BY <2>6
  <2>8. FlattenSeq(seqs) = G[n]
    BY <1>3 DEF FlattenSeq, n
  <2> HIDE DEF G, h
  <2> DEFINE Members(k) == UNION {ToSet(seqs[i]) : i \in 1 .. k}
             T == {k \in Nat : k + 1 <= n => G[k + 1] \in Seq(S) /\ ToSet(G[k + 1]) = Members(k + 1)}
  <2>9. 0 \in T
    <3>1. 1 \in 1 .. n /\ 0 + 1 = 1 /\ 1 .. 1 = {1}
      BY <1>1, <1>3
    <3>2. G[1] = seqs[1]
      BY <2>7, <3>1
    <3> QED
      BY <1>1, <3>1, <3>2
  <2>10. ASSUME NEW k \in Nat, k \in T PROVE k + 1 \in T
    <3> SUFFICES ASSUME (k + 1) + 1 <= n
                 PROVE  G[(k + 1) + 1] \in Seq(S) /\ ToSet(G[(k + 1) + 1]) = Members((k + 1) + 1)
      OBVIOUS
    <3>1. /\ k + 1 <= n /\ k + 1 \in 1 .. n /\ (k + 1) + 1 \in 1 .. n
          /\ (k + 1) + 1 # 1 /\ ((k + 1) + 1) - 1 = k + 1
          /\ 1 .. (k + 1) + 1 = (1 .. k + 1) \cup {(k + 1) + 1}
      BY <1>1
    <3>2. G[(k + 1) + 1] = G[k + 1] \o seqs[(k + 1) + 1]
      BY <2>7, <3>1
    <3>3. G[k + 1] \in Seq(S) /\ ToSet(G[k + 1]) = Members(k + 1)
      BY <2>10, <3>1
    <3>4. Members((k + 1) + 1) = Members(k + 1) \cup ToSet(seqs[(k + 1) + 1])
      BY <3>1
    <3> HIDE DEF Members, T
    <3>5. \A s, t \in Seq(S) : s \o t \in Seq(S) /\ ToSet(s \o t) = ToSet(s) \cup ToSet(t)
      BY ConcatMembers
    <3>6. seqs[(k + 1) + 1] \in Seq(S)
      BY <1>1, <3>1
    <3> QED
      BY <3>2, <3>3, <3>4, <3>5, <3>6
  <2> HIDE DEF T
  <2>11. Nat \subseteq T
    BY <2>9, <2>10, Induction
  <2>12. n - 1 \in T /\ (n - 1) + 1 = n
    BY <1>1, <1>3, <2>11
  <2> QED
    BY <1>1, <2>8, <2>12 DEF T
<1> QED
  BY <1>2, <1>3

LEMMA CollectStringsExists ==
    CollectStrings = [v \in Tree |->
        IF IsText(v) THEN <<v>>
        ELSE FlattenSeq([i \in DOMAIN Children(v) |-> CollectStrings[Children(v)[i]]])]
<1> DEFINE R == Seq(Tree)
           F(g, v) == IF IsText(v) THEN <<v>>
                      ELSE FlattenSeq([i \in DOMAIN Children(v) |-> g[Children(v)[i]]])
           D == [v \in Tree |-> [g \in [Tree -> R] |-> F(g, v)]]
<1>1. ASSUME NEW v \in Tree, NEW g, NEW h, \A w \in Held(v) : g[w] = h[w] PROVE F(g, v) = F(h, v)
  <2>1. \A i \in DOMAIN Children(v) : g[Children(v)[i]] = h[Children(v)[i]]
    BY <1>1, PartsBelow
  <2>2. [i \in DOMAIN Children(v) |-> g[Children(v)[i]]] = [i \in DOMAIN Children(v) |-> h[Children(v)[i]]]
    BY <2>1
  <2> QED
    BY <2>2
<1>2. ASSUME NEW v \in Tree, NEW g \in [Tree -> R] PROVE F(g, v) \in R
  <2> DEFINE found == [i \in DOMAIN Children(v) |-> g[Children(v)[i]]]
  <2>1. Children(v) \in Seq(Tree) /\ \A i \in DOMAIN Children(v) : g[Children(v)[i]] \in R
    BY PartsBelow
  <2>2. Len(Children(v)) \in Nat /\ DOMAIN Children(v) = 1 .. Len(Children(v))
    BY <2>1
  <2>3. found \in Seq(R)
    BY <2>1, <2>2
  <2> HIDE DEF found
  <2>4. FlattenSeq(found) \in R
    BY <2>3, FlattenIs
  <2> QED
    BY <2>4 DEF found
<1>3. D \in [Tree -> [[Tree -> R] -> R]]
  <2> HIDE DEF F, R
  <2> QED
    BY <1>2
<1>4. \A v \in Tree : \A g \in [Tree -> R] : D[v][g] = F(g, v)
  OBVIOUS
<1>5. R # {}
  BY EmptySeq
<1> HIDE DEF D, F, R
<1>6. LooksInside(R, D)
  <2>1. ASSUME NEW v \in Tree, NEW g \in [Tree -> R], NEW h \in [Tree -> R],
               \A w \in Held(v) : g[w] = h[w]
        PROVE  D[v][g] = D[v][h]
    BY <1>1, <1>4, <2>1
  <2> QED
    BY <1>3, <1>5, <2>1 DEF LooksInside
<1>7. PICK f \in [Tree -> R] : \A v \in Tree : f[v] = D[v][f]
  BY <1>6, TreeRecursion
<1>8. f = [v \in Tree |-> F(f, v)]
  BY <1>4, <1>7
<1> QED
  BY <1>8 DEF CollectStrings, F

(* All texts of a value are collected, and nothing else.                   *)
LEMMA CollectStringsIs ==
    \A v \in Tree :
        /\ CollectStrings[v] \in Seq(Tree)
        /\ ToSet(CollectStrings[v]) = {p.is : p \in {q \in Parts[v] : IsText(q.is)}}
<1> DEFINE Texts(v) == {p.is : p \in {q \in Parts[v] : IsText(q.is)}}
           Q == {v \in Tree : CollectStrings[v] \in Seq(Tree) /\ ToSet(CollectStrings[v]) = Texts(v)}
<1>1. ASSUME NEW v \in Tree, Held(v) \subseteq Q
      PROVE  CollectStrings[v] \in Seq(Tree) /\ ToSet(CollectStrings[v]) = Texts(v)
  <2> DEFINE root == Part(<<>>, v)
  <2>1. root \in Parts[v] /\ root.is = v
    BY PartsBelow, PartIs
  <2>2. \A p \in Parts[v] : p # root =>
            \E i \in DOMAIN Children(v) : \E q \in Parts[Children(v)[i]] : p = Below(i, q)
    BY PartsBelow
  <2>3. \A i \in DOMAIN Children(v) : \A q \in Parts[Children(v)[i]] :
            Below(i, q) \in Parts[v] /\ Below(i, q).is = q.is
    BY PartsBelow, PartIs DEF Below
  <2>4. \A i \in DOMAIN Children(v) : Children(v)[i] \in Q
    BY <1>1, PartsBelow
  <2> HIDE DEF root
  <2>5. CASE IsText(v)
    <3>1. Children(v) = <<>>
      BY <2>5 DEF Children, IsText, IsObject, IsList
    <3>2. Parts[v] = {root}
      BY <2>1, <2>2, <3>1
    <3>3. CollectStrings[v] = <<v>>
      BY <2>5, CollectStringsExists
    <3>4. ToSet(<<v>>) = {v} /\ <<v>> \in Seq(Tree)
      BY DEF ToSet
    <3>5. Texts(v) = {v}
      BY <2>1, <2>5, <3>2
    <3> QED
      BY <3>3, <3>4, <3>5
  <2>6. CASE ~ IsText(v)
    <3> DEFINE found == [i \in DOMAIN Children(v) |-> CollectStrings[Children(v)[i]]]
    <3>1. Children(v) \in Seq(Tree)
      BY PartsBelow
    <3>2. Len(Children(v)) \in Nat /\ DOMAIN Children(v) = 1 .. Len(Children(v))
      BY <3>1
    <3>3. found \in Seq(Seq(Tree))
      BY <2>4, <3>2
    <3>4. DOMAIN found = DOMAIN Children(v)
          /\ \A i \in DOMAIN found : found[i] = CollectStrings[Children(v)[i]]
      OBVIOUS
    <3>5. CollectStrings[v] = FlattenSeq(found)
      BY <2>6, CollectStringsExists
    <3> HIDE DEF found
    <3>6. /\ CollectStrings[v] \in Seq(Tree)
          /\ ToSet(CollectStrings[v]) = UNION {ToSet(found[i]) : i \in DOMAIN found}
      BY <3>3, <3>5, FlattenIs
    <3>7. \A i \in DOMAIN found : ToSet(found[i]) = Texts(Children(v)[i])
      BY <2>4, <3>4
    <3>8. Texts(v) = UNION {ToSet(found[i]) : i \in DOMAIN found}
      <4>1. ASSUME NEW p \in Parts[v], IsText(p.is)
            PROVE  \E i \in DOMAIN found : p.is \in ToSet(found[i])
        <5>1. p # root
          BY <2>1, <2>6, <4>1
        <5>2. PICK i \in DOMAIN Children(v) : \E q \in Parts[Children(v)[i]] : p = Below(i, q)
          BY <2>2, <5>1
        <5>3. PICK q \in Parts[Children(v)[i]] : p = Below(i, q)
          BY <5>2
        <5>4. p.is = q.is
          BY <2>3, <5>3
        <5>5. p.is \in Texts(Children(v)[i])
          BY <4>1, <5>4
        <5> QED
          BY <3>4, <3>7, <5>5
      <4>2. ASSUME NEW i \in DOMAIN found, NEW t \in ToSet(found[i]) PROVE t \in Texts(v)
        <5>1. PICK q \in Parts[Children(v)[i]] : IsText(q.is) /\ t = q.is
          BY <3>7
        <5>2. Below(i, q) \in Parts[v] /\ Below(i, q).is = q.is
          BY <2>3, <3>4
        <5> QED
          BY <5>1, <5>2
      <4> QED
        BY <4>1, <4>2
    <3> QED
      BY <3>6, <3>8
  <2> QED
    BY <2>5, <2>6
<1>2. \A v \in Tree : Held(v) \subseteq Q => v \in Q
  BY <1>1
<1> HIDE DEF Q
<1>3. Tree \subseteq Q
  BY <1>2, TreeInduction
<1> QED
  BY <1>3 DEF Q

LEMMA StandardPathsAre ==
    /\ DOMAIN StandardPaths = 1 .. 5
    /\ \A i \in 1 .. 5 : Len(StandardPaths[i]) \in Nat
<1>1. /\ DOMAIN StandardPaths = 1 .. 5
      /\ StandardPaths[1] = <<"text">>
      /\ StandardPaths[2] = <<"outputs", "[0]", "outputs", "[0]", "results", "message", "text">>
      /\ StandardPaths[3] = <<"outputs", "[0]", "outputs", "[0]", "results", "text", "data", "text">>
      /\ StandardPaths[4] = <<"message">>
      /\ StandardPaths[5] = <<"result", "message">>
  BY DEF StandardPaths
<1>2. /\ Len(StandardPaths[1]) = 1 /\ Len(StandardPaths[2]) = 7 /\ Len(StandardPaths[3]) = 8
      /\ Len(StandardPaths[4]) = 1 /\ Len(StandardPaths[5]) = 2
  BY <1>1
<1>3. \A i \in 1 .. 5 : i \in {1, 2, 3, 4, 5}
  OBVIOUS
<1> QED
  BY <1>1, <1>2, <1>3

LEMMA ResultInTextIs ==
    /\ ResultInText(None) = None
    /\ \A v \in Tree : ResultInText(v) \in Tree /\ (~ IsText(v) => ResultInText(v) = None)
    /\ \A v \in Tree : ResultInText(v) = None \/ IsResult(ResultInText(v))
<1>1. ResultInText(None) = None
  BY NoneIsNoResult DEF ResultInText
<1>2. ASSUME NEW v \in Tree
      PROVE  ResultInText(v) \in Tree /\ (ResultInText(v) = None \/ IsResult(ResultInText(v)))
  <2>1. CASE ~ IsText(v)
    BY <2>1, SentAreTrees DEF ResultInText
  <2>2. CASE IsText(v)
    <3>1. v.docs \in Seq(Sent)
      BY <2>2, SentAreTrees, LayerForms
    <3>2. FirstWhere(v.docs, IsObject) \in Tree
      <4> DEFINE fit == {i \in DOMAIN v.docs : IsObject(v.docs[i])}
                 m == CHOOSE i \in fit : \A j \in fit : i <= j
      <4>1. FirstWhere(v.docs, IsObject) = IF fit = {} THEN None ELSE v.docs[m]
        BY DEF FirstWhere
      <4>2. fit \subseteq Nat /\ \A i \in fit : v.docs[i] \in Sent
        BY <3>1
      <4>3. fit # {} => m \in fit
        <5> HIDE DEF fit
        <5> QED
          BY <4>2, LeastIndex
      <4> HIDE DEF fit, m
      <4> QED
        BY <4>1, <4>2, <4>3, SentAreTrees
    <3>3. \A w \in Tree : /\ FindResult[w] \in Tree
                          /\ FindResult[w] = None \/ IsResult(FindResult[w])
      BY FindResultIs, SentAreTrees, PartsBelow DEF Places, IsFirstResult
    <3> QED
      BY <2>2, <3>2, <3>3 DEF ResultInText
  <2> QED
    BY <2>1, <2>2
<1> QED
  BY <1>1, <1>2 DEF ResultInText

(* The texts that are read are parts of the body, those on the paths too.  *)
LEMMA ExtractIs ==
    ASSUME NEW raw \in Tree
    PROVE  /\ MessageResults(raw) \in Seq(Tree)
           /\ Extract(raw) = IF FindResult[raw] # None THEN FindResult[raw]
                             ELSE IF FirstFound(MessageResults(raw)) # None
                                  THEN FirstFound(MessageResults(raw))
                                  ELSE FirstFound(TextResults(raw))
           /\ \A i \in DOMAIN MessageResults(raw) :
                 MessageResults(raw)[i] = None \/ \E p \in Parts[raw] : MessageResults(raw)[i] = ResultInText(p.is)
           /\ DOMAIN TextResults(raw) \subseteq Nat
           /\ {TextResults(raw)[i] : i \in DOMAIN TextResults(raw)} =
                 {ResultInText(p.is) : p \in {q \in Parts[raw] : IsText(q.is)}}
<1> DEFINE texts == CollectStrings[raw]
           M == MessageResults(raw)
           T == TextResults(raw)
           R == <<FindResult[raw]>>
<1>1. /\ DOMAIN M = 1 .. 5
      /\ \A i \in 1 .. 5 : M[i] = ResultInText(Dig(raw, StandardPaths[i]))
  BY StandardPathsAre DEF MessageResults
<1>2. \A i \in 1 .. 5 : /\ Dig(raw, StandardPaths[i]) \in Tree
                        /\ \/ Dig(raw, StandardPaths[i]) = None
                           \/ \E p \in Parts[raw] : p.is = Dig(raw, StandardPaths[i])
  BY StandardPathsAre, DigIs
<1>3. \A i \in 1 .. 5 : M[i] \in Tree /\ (M[i] = None \/ \E p \in Parts[raw] : M[i] = ResultInText(p.is))
  BY <1>1, <1>2, ResultInTextIs
<1>4. M = [i \in 1 .. 5 |-> M[i]]
  BY StandardPathsAre DEF MessageResults
<1>5. texts \in Seq(Tree)
  BY CollectStringsIs
<1>6. /\ DOMAIN T = DOMAIN texts /\ T = [i \in DOMAIN texts |-> ResultInText(texts[i])]
  BY DEF TextResults
<1>7. Len(texts) \in Nat /\ DOMAIN texts = 1 .. Len(texts) /\ \A i \in DOMAIN texts : texts[i] \in Tree
  BY <1>5
<1>8. FindResult[raw] \in Tree
  BY FindResultIs, SentAreTrees, PartsBelow DEF Places
<1> HIDE DEF texts, M, T
<1>9. M \in Seq(Tree)
  BY <1>3, <1>4
<1>10. T \in Seq(Tree)
  BY <1>6, <1>7, ResultInTextIs
<1>11. {T[i] : i \in DOMAIN T} = {ResultInText(p.is) : p \in {q \in Parts[raw] : IsText(q.is)}}
  <2>1. ToSet(texts) = {p.is : p \in {q \in Parts[raw] : IsText(q.is)}}
    BY CollectStringsIs DEF texts
  <2>2. {T[i] : i \in DOMAIN T} = {ResultInText(t) : t \in ToSet(texts)}
    BY <1>6 DEF ToSet
  <2> QED
    BY <2>1, <2>2
<1>12. Extract(raw) = FirstFound((R \o M) \o T)
  BY DEF Extract, M, T
<1>13. /\ R \in Seq(Tree) /\ DOMAIN R = {1} /\ DOMAIN R \subseteq Nat /\ R[1] = FindResult[raw]
       /\ R \o M \in Seq(Tree)
  BY <1>8, <1>9
<1> HIDE DEF R
<1>14. FirstFound(R) = FindResult[raw]
  BY <1>13, FirstFoundIs
<1>15. \A s, t \in Seq(Tree) :
          FirstFound(s \o t) = IF FirstFound(s) # None THEN FirstFound(s) ELSE FirstFound(t)
  BY FirstFoundConcat
<1>16. /\ FirstFound(R \o M) = IF FirstFound(R) # None THEN FirstFound(R) ELSE FirstFound(M)
       /\ FirstFound((R \o M) \o T) =
              IF FirstFound(R \o M) # None THEN FirstFound(R \o M) ELSE FirstFound(T)
  BY <1>9, <1>10, <1>13, <1>15
<1>17. DOMAIN T \subseteq Nat
  BY <1>6, <1>7
<1> QED
  BY <1>1, <1>3, <1>9, <1>11, <1>12, <1>14, <1>16, <1>17 DEF M, T

LEMMA OutermostIsTaken == \A raw \in Tree : ResultIsOutermost(raw)
<1> SUFFICES ASSUME NEW raw \in Tree, NEW p \in Parts[raw], IsResult(p.is),
                    \A q \in {r \in Parts[raw] : IsResult(r.is)} \ {p} : Earlier(p, q)
             PROVE  Extract(raw) = p.is
  BY DEF ResultIsOutermost
<1>1. PICK first \in Parts[raw] : IsFirstResult(first, raw) /\ FindResult[raw] = first.is
  BY FindResultIs
<1>2. first = p
  <2> SUFFICES ASSUME first # p PROVE FALSE
    OBVIOUS
  <2>1. Earlier(first, p) /\ Earlier(p, first)
    BY <1>1 DEF IsFirstResult
  <2> QED
    BY <2>1, EarlierOne, PartsBelow
<1>3. FindResult[raw] = p.is /\ p.is # None
  BY <1>1, <1>2, NoneIsNoResult
<1> QED
  BY <1>3, ExtractIs

LEMMA ReadStandsInBody == \A raw \in Tree : NothingInvented(raw)
<1> SUFFICES ASSUME NEW raw \in Tree, Extract(raw) # None
             PROVE  /\ IsResult(Extract(raw))
                    /\ \E p \in Parts[raw] : Extract(raw) \in {p.is, ResultInText(p.is)}
  BY DEF NothingInvented
<1> DEFINE M == MessageResults(raw)
           T == TextResults(raw)
<1>1. DOMAIN M \subseteq Nat /\ DOMAIN T \subseteq Nat
  BY ExtractIs
<1>2. \A p \in Parts[raw] : p.is \in Tree
  BY PartsBelow DEF Places
<1>3. CASE FindResult[raw] # None
  <2>1. PICK p \in Parts[raw] : IsFirstResult(p, raw) /\ FindResult[raw] = p.is
    BY <1>3, FindResultIs
  <2> QED
    BY <1>3, <2>1, ExtractIs DEF IsFirstResult
<1>4. CASE FindResult[raw] = None
  <2>1. PICK p \in Parts[raw] : Extract(raw) = ResultInText(p.is)
    <3>1. CASE FirstFound(M) # None
      <4>1. PICK i \in DOMAIN M : FirstFound(M) = M[i] /\ M[i] # None
        <5> HIDE DEF M
        <5> QED
          BY <1>1, <3>1, FirstFoundIs
      <4>2. Extract(raw) = M[i]
        BY <1>4, <3>1, <4>1, ExtractIs
      <4>3. M[i] = None \/ \E p \in Parts[raw] : M[i] = ResultInText(p.is)
        BY ExtractIs
      <4> HIDE DEF M
      <4> QED
        BY <4>1, <4>2, <4>3
    <3>2. CASE FirstFound(M) = None
      <4>1. Extract(raw) = FirstFound(T) /\ FirstFound(T) # None
        BY <1>4, <3>2, ExtractIs
      <4>2. PICK i \in DOMAIN T : FirstFound(T) = T[i]
        <5> HIDE DEF T
        <5> QED
          BY <1>1, <4>1, FirstFoundIs
      <4>3. T[i] \in {ResultInText(p.is) : p \in {q \in Parts[raw] : IsText(q.is)}}
        BY ExtractIs
      <4> HIDE DEF T
      <4> QED
        BY <4>1, <4>2, <4>3
    <3> QED
      BY <3>1, <3>2
  <2> QED
    BY <1>2, <2>1, ResultInTextIs
<1> QED
  BY <1>3, <1>4

LEMMA ResultIsFound == \A raw \in Tree : NothingLost(raw)
<1> SUFFICES ASSUME NEW raw \in Tree PROVE NothingLost(raw)
  OBVIOUS
<1> DEFINE M == MessageResults(raw)
           T == TextResults(raw)
<1>1. DOMAIN M \subseteq Nat /\ DOMAIN T \subseteq Nat
  BY ExtractIs
<1>2. ASSUME Extract(raw) = None, NEW p \in Parts[raw] PROVE ~ IsResult(p.is) /\ ResultInText(p.is) = None
  <2>1. FindResult[raw] = None /\ FirstFound(T) = None
    BY <1>2, ExtractIs
  <2>2. ~ IsResult(p.is)
    BY <2>1, FindResultIs, NoneIsNoResult DEF IsFirstResult
  <2>3. CASE IsText(p.is)
    <3>1. \A i \in DOMAIN T : T[i] = None
      BY <1>1, <2>1, FirstFoundIs
    <3>2. ResultInText(p.is) \in {T[i] : i \in DOMAIN T}
      BY <2>3, ExtractIs
    <3> QED
      BY <2>2, <3>1, <3>2
  <2>4. CASE ~ IsText(p.is)
    BY <2>2, <2>4, ResultInTextIs, PartsBelow DEF Places
  <2> QED
    BY <2>3, <2>4
<1>3. ASSUME \A p \in Parts[raw] : ~ IsResult(p.is) /\ ResultInText(p.is) = None
      PROVE  Extract(raw) = None
  <2>1. FindResult[raw] = None
    BY <1>3, FindResultIs DEF IsFirstResult
  <2>2. \A i \in DOMAIN M : M[i] = None
    BY <1>3, ExtractIs
  <2>3. \A i \in DOMAIN T : T[i] = None
    <3>1. \A i \in DOMAIN T : T[i] \in {ResultInText(p.is) : p \in {q \in Parts[raw] : IsText(q.is)}}
      BY ExtractIs
    <3> QED
      BY <1>3, <3>1
  <2>4. FirstFound(M) = None /\ FirstFound(T) = None
    <3> HIDE DEF M, T
    <3> QED
      BY <1>1, <2>2, <2>3, FirstFoundIs
  <2> QED
    BY <2>1, <2>4, ExtractIs
<1> QED
  BY <1>2, <1>3 DEF NothingLost

(* What is read from the body a call received is a result that stands in it, *)
(* the first and outermost if one is an object, and none is missed.          *)
THEOREM RepliesRead == Spec => []ResultsAreRead
<1>1. TypeOK => ResultsAreRead
  <2> SUFFICES ASSUME TypeOK, reply # NoBody
               PROVE  ResultIsOutermost(reply) /\ NothingInvented(reply) /\ NothingLost(reply)
    BY DEF ResultsAreRead
  <2>1. reply \in Tree
    BY RepliesAssumption DEF TypeOK
  <2> QED
    BY <2>1, OutermostIsTaken, ReadStandsInBody, ResultIsFound
<1> QED
  BY <1>1, TypeCorrect, PTL
=============================================================================
