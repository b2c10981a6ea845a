----------------------- MODULE WebhookCallbacksProofs -----------------------
(* Theorems about WebhookCallbacks for every set of calls, keys and        *)
(* results.                                                                *)
EXTENDS WebhookCallbacks, TLAPS

(* What the properties need to know of futures: a call creates its own when *)
(* it registers; who is active holds one that exists; who posts holds its   *)
(* own; and a result in a future was computed for the key of the call that  *)
(* created it.                                                              *)
FuturesKnown ==
    \A c \in Calls :
        /\ pc[c] = "idle" => future[c] = "absent"
        /\ Active(c) => awaited[c] \in Calls /\ future[awaited[c]] # "absent"
        /\ future[c] \in Results => FlowOf[future[c]] = KeyOf[c]

RegisteredHaveFutures ==
    \A k \in Keys : registry[k] # NoCall => future[registry[k]] # "absent"

IInv == TypeOK /\ NoLeak /\ ResultsBelong /\ FuturesKnown /\ RegisteredHaveFutures

(* A future keeps what it has, or a pending one takes a value. *)
LEMMA ResolveFacts ==
    ASSUME TypeOK, NEW o \in Calls, NEW value, future' = Resolve(o, value)
    PROVE  \A d \in Calls :
             \/ future'[d] = future[d]
             \/ d = o /\ future[d] = "pending" /\ future'[d] = value
BY DEF TypeOK, Resolve, Pending

LEMMA ResolveType ==
    ASSUME TypeOK, NEW o \in Calls, NEW value \in Delivered \cup {"cancelled"},
           future' = Resolve(o, value)
    PROVE  future' \in [Calls -> Delivered \cup {"absent", "pending", "cancelled"}]
BY DEF TypeOK, Resolve, Pending

(* A call that ends gives its key up, and only its own. *)
LEMMA EndFacts ==
    ASSUME IInv, NEW c \in Calls, NEW how, End(c, how)
    PROVE  /\ pc'[c] = "done" /\ outcome'[c] = how
           /\ \A d \in Calls : d # c => pc'[d] = pc[d] /\ outcome'[d] = outcome[d]
           /\ \A k \in Keys : registry'[k] # NoCall =>
                registry'[k] = registry[k] /\ registry[k] # c
BY KeyAssumption DEF IInv, TypeOK, NoLeak, End

(* The end of a call keeps the invariant if its outcome and the futures are *)
(* in order.                                                                *)
LEMMA EndInv ==
    ASSUME IInv, NEW c \in Calls, Active(c),
           NEW how \in Delivered \cup {"conflict", "failed", "timeout", "cancelled"},
           how \in Results => FlowOf[how] = KeyOf[c],
           End(c, how),
           future' \in [Calls -> Delivered \cup {"absent", "pending", "cancelled"}],
           \A d \in Calls : \/ future'[d] = future[d]
                            \/ /\ d = c
                               /\ future'[d] # "absent"
                               /\ future'[d] \in Results => FlowOf[future'[d]] = KeyOf[d],
           UNCHANGED <<awaited, closed>>
    PROVE  IInv'
<1>1. TypeOK'
  BY KeyAssumption DEF IInv, TypeOK, End
<1>2. NoLeak'
  BY EndFacts DEF IInv, TypeOK, NoLeak, Active
<1>3. ResultsBelong'
  BY EndFacts DEF IInv, ResultsBelong
<1>4. FuturesKnown'
  <2> SUFFICES ASSUME NEW d \in Calls
               PROVE  /\ pc'[d] = "idle" => future'[d] = "absent"
                      /\ Active(d)' => awaited[d] \in Calls /\ future'[awaited[d]] # "absent"
                      /\ future'[d] \in Results => FlowOf[future'[d]] = KeyOf[d]
    BY DEF FuturesKnown
  <2>1. pc'[d] = "done" \/ pc'[d] = pc[d]
    BY EndFacts
  <2> QED
    BY <2>1 DEF IInv, FuturesKnown, Active
<1>5. RegisteredHaveFutures'
  BY EndFacts DEF IInv, TypeOK, RegisteredHaveFutures
<1> QED
  BY <1>1, <1>2, <1>3, <1>4, <1>5 DEF IInv

-----------------------------------------------------------------------------
(* One lemma per kind of step. *)

LEMMA StartInv ==
    ASSUME IInv, NEW c \in Calls, Register(c) \/ Join(c) \/ Conflict(c)
    PROVE  IInv'
<1> USE KeyAssumption, NoCallAssumption, ResultAssumption
<1>1. CASE Register(c)
  <2> USE <1>1 DEF Register
  <2>1. TypeOK'
    BY DEF IInv, TypeOK
  <2>2. NoLeak'
    BY DEF IInv, TypeOK, NoLeak, Active
  <2>3. ResultsBelong'
    BY DEF IInv, TypeOK, ResultsBelong
  <2>4. FuturesKnown'
    BY DEF IInv, TypeOK, FuturesKnown, Active
  <2>5. RegisteredHaveFutures'
    BY DEF IInv, TypeOK, RegisteredHaveFutures
  <2> QED
    BY <2>1, <2>2, <2>3, <2>4, <2>5 DEF IInv
<1>2. CASE Join(c)
  <2> USE <1>2 DEF Join
  <2>1. KeyOf[c] \in Keys /\ registry[KeyOf[c]] \in Calls
    BY DEF IInv, TypeOK
  <2>2. TypeOK'
    BY <2>1 DEF IInv, TypeOK
  <2>3. NoLeak'
    BY <2>1 DEF IInv, TypeOK, NoLeak, Active
  <2>4. ResultsBelong'
    BY <2>1 DEF IInv, TypeOK, NoLeak, ResultsBelong
  <2>5. FuturesKnown'
    BY <2>1 DEF IInv, TypeOK, FuturesKnown, RegisteredHaveFutures, Active
  <2>6. RegisteredHaveFutures'
    BY DEF IInv, RegisteredHaveFutures
  <2> QED
    BY <2>2, <2>3, <2>4, <2>5, <2>6 DEF IInv
<1>3. CASE Conflict(c)
  <2> USE <1>3 DEF Conflict
  <2>1. TypeOK'
    BY DEF IInv, TypeOK
  <2>2. NoLeak'
    BY DEF IInv, TypeOK, NoLeak, Active
  <2>3. ResultsBelong'
    BY DEF IInv, TypeOK, ResultsBelong
  <2>4. FuturesKnown'
    BY DEF IInv, TypeOK, FuturesKnown, Active
  <2>5. RegisteredHaveFutures'
    BY DEF IInv, RegisteredHaveFutures
  <2> QED
    BY <2>1, <2>2, <2>3, <2>4, <2>5 DEF IInv
<1> QED
  BY <1>1, <1>2, <1>3

LEMMA PostReturnsInv ==
    ASSUME IInv, NEW c \in Calls, PostReturns(c)
    PROVE  IInv'
<1>1. CASE PostAcknowledged(c)
  <2> USE <1>1 DEF PostAcknowledged
  <2>1. TypeOK' /\ NoLeak'
    BY DEF IInv, TypeOK, NoLeak, Active
  <2>2. ResultsBelong' /\ RegisteredHaveFutures'
    BY DEF IInv, ResultsBelong, RegisteredHaveFutures
  <2>3. FuturesKnown'
    BY DEF IInv, TypeOK, FuturesKnown, Active
  <2> QED
    BY <2>1, <2>2, <2>3 DEF IInv
<1>2. ASSUME NEW result \in Results, PostReturnsResult(c, result) PROVE IInv'
  <2> USE <1>2 DEF PostReturnsResult
  <2>1. future' \in [Calls -> Delivered \cup {"absent", "pending", "cancelled"}]
    BY ResolveType DEF IInv, Delivered
  <2>2. \A d \in Calls : \/ future'[d] = future[d]
                         \/ /\ d = c
                            /\ future'[d] # "absent"
                            /\ future'[d] \in Results => FlowOf[future'[d]] = KeyOf[d]
    BY ResolveFacts, ResultAssumption DEF IInv
  <2>3. /\ OutcomeOf(result) \in Delivered \cup {"conflict", "failed", "timeout", "cancelled"}
        /\ OutcomeOf(result) \in Results => FlowOf[OutcomeOf(result)] = KeyOf[c]
    BY ResultAssumption DEF OutcomeOf, Delivered
  <2> QED
    BY <2>1, <2>2, <2>3, EndInv DEF Active
<1>3. CASE PostUnprocessable(c)
  <2> USE <1>3 DEF PostUnprocessable
  <2>1. future' \in [Calls -> Delivered \cup {"absent", "pending", "cancelled"}]
    BY ResolveType DEF IInv, Delivered
  <2>2. "unprocessable" \notin Results /\ "unprocessable" \in Delivered
    BY ResultAssumption DEF Delivered
  <2>3. \A d \in Calls : \/ future'[d] = future[d]
                         \/ /\ d = c
                            /\ future'[d] # "absent"
                            /\ future'[d] \in Results => FlowOf[future'[d]] = KeyOf[d]
    BY <2>2, ResolveFacts DEF IInv
  <2> QED
    BY <2>1, <2>2, <2>3, EndInv DEF Active
<1>4. CASE PostFails(c)
  <2>1. "failed" \notin Results
    BY ResultAssumption
  <2> QED
    BY <1>4, <2>1, EndInv DEF PostFails, Active, IInv, TypeOK
<1> QED
  BY <1>1, <1>2, <1>3, <1>4 DEF PostReturns

(* A step that resolves a future and leaves the registry. *)
LEMMA ResolveInv ==
    ASSUME IInv, NEW o \in Calls, NEW value \in Delivered \cup {"cancelled"},
           value \in Results => FlowOf[value] = KeyOf[o],
           future' = Resolve(o, value),
           pc' \in [Calls -> {"idle", "posting", "waiting", "expired", "stopping", "done"}],
           \A d \in Calls : /\ pc'[d] = "idle" <=> pc[d] = "idle"
                            /\ Active(d)' <=> Active(d),
           UNCHANGED <<registry, awaited, outcome, closed>>
    PROVE  IInv'
<1>1. TypeOK'
  BY ResolveType DEF IInv, TypeOK
<1>2. NoLeak'
  BY DEF IInv, TypeOK, NoLeak
<1>3. ResultsBelong'
  BY DEF IInv, ResultsBelong
<1>4. \A d \in Calls : \/ future'[d] = future[d]
                       \/ d = o /\ future[d] = "pending" /\ future'[d] = value
  BY ResolveFacts DEF IInv
<1>5. value # "absent"
  BY ResultAssumption DEF Delivered
<1>6. FuturesKnown'
  <2> SUFFICES ASSUME NEW d \in Calls
               PROVE  /\ pc'[d] = "idle" => future'[d] = "absent"
                      /\ Active(d)' => awaited[d] \in Calls /\ future'[awaited[d]] # "absent"
                      /\ future'[d] \in Results => FlowOf[future'[d]] = KeyOf[d]
    BY DEF FuturesKnown
  <2> QED
    BY <1>4, <1>5 DEF IInv, FuturesKnown
<1>7. RegisteredHaveFutures'
  BY <1>4, <1>5 DEF IInv, TypeOK, RegisteredHaveFutures
<1> QED
  BY <1>1, <1>2, <1>3, <1>6, <1>7 DEF IInv

LEMMA CallbackInv ==
    ASSUME IInv, NEW k \in Keys, NEW result \in Results, Callback(k, result)
    PROVE  IInv'
<1>1. registry[k] \in Calls /\ KeyOf[registry[k]] = k
  BY DEF IInv, TypeOK, NoLeak, Callback
<1> QED
  BY <1>1, ResolveInv DEF IInv, TypeOK, Callback, Delivered, Active

LEMMA StopInv ==
    ASSUME IInv, NEW c \in Calls, pc[c] = "waiting",
           NEW stop \in {"expired", "stopping"},
           pc' = [pc EXCEPT ![c] = stop],
           future' = Resolve(awaited[c], "cancelled"),
           UNCHANGED <<registry, awaited, outcome, closed>>
    PROVE  IInv'
<1>1. awaited[c] \in Calls
  BY DEF IInv, FuturesKnown, Active
<1>2. "cancelled" \notin Results
  BY ResultAssumption
<1>3. /\ pc' \in [Calls -> {"idle", "posting", "waiting", "expired", "stopping", "done"}]
      /\ \A d \in Calls : /\ pc'[d] = "idle" <=> pc[d] = "idle"
                          /\ Active(d)' <=> Active(d)
  BY DEF IInv, TypeOK, Active
<1> QED
  BY <1>1, <1>2, <1>3, ResolveInv

LEMMA CancelInv ==
    ASSUME IInv, NEW c \in Calls, Cancel(c)
    PROVE  IInv'
<1>1. CASE pc[c] = "idle"
  <2> USE <1>1 DEF Cancel
  <2>1. TypeOK' /\ NoLeak'
    BY DEF IInv, TypeOK, NoLeak, Active
  <2>2. ResultsBelong' /\ RegisteredHaveFutures'
    BY ResultAssumption DEF IInv, TypeOK, ResultsBelong, RegisteredHaveFutures
  <2>3. FuturesKnown'
    BY DEF IInv, TypeOK, FuturesKnown, Active
  <2> QED
    BY <2>1, <2>2, <2>3 DEF IInv
<1>2. CASE pc[c] \in {"posting", "expired", "stopping"}
  <2> USE <1>2 DEF Cancel
  <2>1. TypeOK' /\ NoLeak'
    BY DEF IInv, TypeOK, NoLeak, Active
  <2>2. ResultsBelong' /\ RegisteredHaveFutures'
    BY DEF IInv, ResultsBelong, RegisteredHaveFutures
  <2>3. FuturesKnown'
    BY DEF IInv, TypeOK, FuturesKnown, Active
  <2> QED
    BY <2>1, <2>2, <2>3 DEF IInv
<1>3. CASE pc[c] = "waiting"
  BY <1>3, StopInv DEF Cancel
<1> QED
  BY <1>1, <1>2, <1>3 DEF Cancel

LEMMA WakeInv ==
    ASSUME IInv, NEW c \in Calls, Wake(c)
    PROVE  IInv'
<1> DEFINE o == awaited[c]
           value == future[o]
<1>1. o \in Calls /\ value # "absent" /\ value # "pending" /\ KeyOf[o] = KeyOf[c]
  BY NoCallAssumption DEF IInv, FuturesKnown, ResultsBelong, Active, Wake
<1>2. value \in Delivered \cup {"cancelled"}
  BY <1>1 DEF IInv, TypeOK
<1>3. value \in Results => FlowOf[value] = KeyOf[c]
  BY <1>1 DEF IInv, FuturesKnown
<1>4. /\ OutcomeOf(value) \in Delivered \cup {"conflict", "failed", "timeout", "cancelled"}
      /\ OutcomeOf(value) \in Results => FlowOf[OutcomeOf(value)] = KeyOf[c]
  BY <1>2, <1>3, ResultAssumption DEF OutcomeOf
<1> QED
  BY <1>4, EndInv DEF Wake, Active, IInv, TypeOK

LEMMA LeaveInv ==
    ASSUME IInv, NEW c \in Calls, Leave(c)
    PROVE  IInv'
<1>1. "timeout" \notin Results /\ "cancelled" \notin Results
  BY ResultAssumption
<1> QED
  BY <1>1, EndInv DEF Leave, Active, IInv, TypeOK

LEMMA CloseInv ==
    ASSUME IInv, Close
    PROVE  IInv'
<1> USE DEF Close
<1>1. "cancelled" \notin Results
  BY ResultAssumption
<1>2. \A d \in Calls : \/ future'[d] = future[d]
                       \/ future[d] = "pending" /\ future'[d] = "cancelled"
  BY DEF Pending
<1>3. TypeOK'
  BY DEF IInv, TypeOK
<1>4. NoLeak' /\ RegisteredHaveFutures' /\ ResultsBelong'
  BY DEF IInv, NoLeak, RegisteredHaveFutures, ResultsBelong
<1>5. FuturesKnown'
  BY <1>1, <1>2 DEF IInv, FuturesKnown, Active
<1> QED
  BY <1>3, <1>4, <1>5 DEF IInv

-----------------------------------------------------------------------------
LEMMA InitInv == Init => IInv
<1> SUFFICES ASSUME Init PROVE IInv
  OBVIOUS
<1> USE ResultAssumption DEF Init
<1>1. TypeOK
  BY DEF TypeOK
<1>2. NoLeak /\ RegisteredHaveFutures
  BY DEF NoLeak, RegisteredHaveFutures
<1>3. ResultsBelong /\ FuturesKnown
  BY DEF ResultsBelong, FuturesKnown, Active
<1> QED
  BY <1>1, <1>2, <1>3 DEF IInv

LEMMA NextInv == IInv /\ [Next]_vars => IInv'
<1> SUFFICES ASSUME IInv, [Next]_vars PROVE IInv'
  OBVIOUS
<1>1. ASSUME NEW c \in Calls, Register(c) \/ Join(c) \/ Conflict(c) PROVE IInv'
  BY <1>1, StartInv
<1>2. ASSUME NEW c \in Calls, PostReturns(c) PROVE IInv'
  BY <1>2, PostReturnsInv
<1>3. ASSUME NEW c \in Calls, Wake(c) PROVE IInv'
  BY <1>3, WakeInv
<1>4. ASSUME NEW c \in Calls, Expire(c) PROVE IInv'
  BY <1>4, StopInv DEF Expire
<1>5. ASSUME NEW c \in Calls, Cancel(c) PROVE IInv'
  BY <1>5, CancelInv
<1>6. ASSUME NEW c \in Calls, Leave(c) PROVE IInv'
  BY <1>6, LeaveInv
<1>7. ASSUME NEW k \in Keys, NEW result \in Results, Callback(k, result) PROVE IInv'
  BY <1>7, CallbackInv
<1>8. CASE Close
  BY <1>8, CloseInv
<1>9. CASE UNCHANGED vars
  BY <1>9 DEF vars, IInv, TypeOK, NoLeak, ResultsBelong, FuturesKnown,
     RegisteredHaveFutures, Active
<1> QED
  BY <1>1, <1>2, <1>3, <1>4, <1>5, <1>6, <1>7, <1>8, <1>9 DEF Next

LEMMA Invariance == Spec => []IInv
BY InitInv, NextInv, PTL DEF Spec

(* Every variable keeps its type; no call ends on an unresolved future.    *)
THEOREM TypeCorrect == Spec => []TypeOK
<1>1. IInv => TypeOK
  BY DEF IInv
<1> QED
  BY <1>1, Invariance, PTL

(* Whatever calls, cancellations, timeouts and callbacks come, a key is    *)
(* registered only for a call of that key that has not ended.              *)
THEOREM RegistryNeverLeaks == Spec => []NoLeak
<1>1. IInv => NoLeak
  BY DEF IInv
<1> QED
  BY <1>1, Invariance, PTL

(* A call only ever shares a flow of its own identifiers and payload, and  *)
(* only ever returns a result computed for its identifiers.                *)
THEOREM ResultsStayWithTheirCommand == Spec => []ResultsBelong
<1>1. IInv => ResultsBelong
  BY DEF IInv
<1> QED
  BY <1>1, Invariance, PTL

-----------------------------------------------------------------------------
LEMMA ResolvedStays ==
    ASSUME IInv, [Next]_vars
    PROVE  \A d \in Calls : future[d] \in Delivered \cup {"cancelled"} =>
                                future'[d] = future[d]
<1> SUFFICES ASSUME NEW d \in Calls, future[d] \in Delivered \cup {"cancelled"}
             PROVE  future'[d] = future[d]
  OBVIOUS
<1>1. future[d] # "pending" /\ future[d] # "absent"
  BY ResultAssumption DEF Delivered
<1>2. ASSUME NEW o \in Calls, NEW value, future' = Resolve(o, value)
      PROVE  future'[d] = future[d]
  BY <1>1, <1>2, ResolveFacts DEF IInv
<1>3. ASSUME NEW c \in Calls, Register(c) PROVE future'[d] = future[d]
  BY <1>1, <1>3 DEF IInv, TypeOK, FuturesKnown, Register
<1>4. ASSUME NEW c \in Calls, PostReturns(c) PROVE future'[d] = future[d]
  BY <1>2, <1>4 DEF PostReturns, PostAcknowledged, PostReturnsResult, PostUnprocessable,
     PostFails
<1>5. ASSUME NEW c \in Calls, Expire(c) \/ Cancel(c) PROVE future'[d] = future[d]
  <2>1. pc[c] = "waiting" => awaited[c] \in Calls
    BY DEF IInv, FuturesKnown, Active
  <2> QED
    BY <1>2, <1>5, <2>1 DEF Expire, Cancel
<1>6. ASSUME NEW c \in Calls, Join(c) \/ Conflict(c) \/ Wake(c) \/ Leave(c)
      PROVE  future'[d] = future[d]
  BY <1>6 DEF Join, Conflict, Wake, Leave
<1>7. ASSUME NEW k \in Keys, NEW result \in Results, Callback(k, result)
      PROVE  future'[d] = future[d]
  <2>1. registry[k] \in Calls
    BY <1>7 DEF IInv, TypeOK, Callback
  <2> QED
    BY <1>2, <1>7, <2>1 DEF Callback
<1>8. CASE Close
  BY <1>1, <1>8 DEF Close, Pending
<1> QED
  BY <1>3, <1>4, <1>5, <1>6, <1>7, <1>8 DEF Next, vars

-----------------------------------------------------------------------------
(* Why two flows of one command can run at once. *)

Joined(c) == awaited[c] \notin {c, NoCall}
OwnsFlow(c) == Active(c) /\ awaited[c] = c

(* A call that joined another of the key k has ended, or the service shuts *)
(* down.                                                                   *)
KeyGivenUp(k) ==
    closed \/ \E e \in Calls : KeyOf[e] = k /\ Joined(e) /\ pc[e] = "done"

Held(c) == OwnsFlow(c) => registry[KeyOf[c]] = c \/ KeyGivenUp(KeyOf[c])

(* A call that ended has nothing left to do. *)
LEMMA DoneStays ==
    ASSUME IInv, [Next]_vars, NEW e \in Calls, pc[e] = "done"
    PROVE  pc'[e] = "done" /\ awaited'[e] = awaited[e] /\ outcome'[e] = outcome[e]
<1> USE DEF IInv, TypeOK
<1>1. ASSUME NEW c \in Calls,
             \/ Register(c) \/ Join(c) \/ Conflict(c) \/ PostReturns(c) \/ Wake(c)
             \/ Expire(c) \/ Cancel(c) \/ Leave(c)
      PROVE  pc'[e] = "done" /\ awaited'[e] = awaited[e] /\ outcome'[e] = outcome[e]
  BY <1>1 DEF Register, Join, Conflict, PostReturns, PostAcknowledged, PostReturnsResult,
     PostUnprocessable, PostFails, Wake, Expire, Cancel, Leave, End
<1>2. ASSUME NEW k \in Keys, NEW result \in Results, Callback(k, result)
      PROVE  pc'[e] = "done" /\ awaited'[e] = awaited[e] /\ outcome'[e] = outcome[e]
  BY <1>2 DEF Callback
<1>3. CASE Close
  BY <1>3 DEF Close
<1> QED
  BY <1>1, <1>2, <1>3 DEF Next, vars

LEMMA GivenUpStays ==
    ASSUME IInv, [Next]_vars, NEW k, KeyGivenUp(k)
    PROVE  KeyGivenUp(k)'
<1>1. closed => closed'
  BY DEF Next, vars, Register, Join, Conflict, PostReturns, PostAcknowledged,
     PostReturnsResult, PostUnprocessable, PostFails, Wake, Expire, Cancel, Leave,
     Callback, Close
<1> QED
  BY <1>1, DoneStays DEF KeyGivenUp, Joined

(* The end of a call takes the key from itself, or from another if it had  *)
(* joined or the key was given up before.                                  *)
LEMMA EndHeld ==
    ASSUME IInv, [Next]_vars, \A d \in Calls : Held(d), NEW e \in Calls, Active(e),
           NEW how, End(e, how), UNCHANGED awaited, NEW c \in Calls
    PROVE  Held(c)'
<1> SUFFICES ASSUME OwnsFlow(c)', ~ KeyGivenUp(KeyOf[c])' PROVE registry'[KeyOf[c]] = c
  BY DEF Held
<1>1. /\ e # c /\ pc'[e] = "done" /\ pc[c] = pc'[c]
      /\ registry' = [registry EXCEPT ![KeyOf[e]] = NoCall]
  BY DEF OwnsFlow, Active, End, IInv, TypeOK
<1>2. ~ KeyGivenUp(KeyOf[c])
  BY GivenUpStays
<1>3. registry[KeyOf[c]] = c
  BY <1>1, <1>2 DEF Held, OwnsFlow, Active
<1>4. KeyOf[e] # KeyOf[c]
  <2> SUFFICES ASSUME KeyOf[e] = KeyOf[c] PROVE FALSE
    OBVIOUS
  <2>1. ~ Joined(e)
    BY <1>1 DEF KeyGivenUp, Joined
  <2>2. awaited[e] = e
    BY <2>1, NoCallAssumption DEF Joined, IInv, FuturesKnown
  <2>3. registry[KeyOf[e]] = e
    BY <1>2, <2>2 DEF Held, OwnsFlow
  <2> QED
    BY <1>1, <1>3, <2>3
<1> QED
  BY <1>1, <1>3, <1>4, KeyAssumption DEF IInv, TypeOK

LEMMA HeldStep ==
    ASSUME IInv, [Next]_vars, \A d \in Calls : Held(d), NEW c \in Calls
    PROVE  Held(c)'
<1>1. ASSUME UNCHANGED registry, OwnsFlow(c)' => OwnsFlow(c) PROVE Held(c)'
  BY <1>1, GivenUpStays DEF Held
<1>2. ASSUME NEW e \in Calls, Register(e) PROVE Held(c)'
  <2>1. CASE e = c
    BY <1>2, <2>1, KeyAssumption DEF Register, Held, IInv, TypeOK
  <2>2. CASE e # c
    <3>1. OwnsFlow(c)' => OwnsFlow(c)
      BY <1>2, <2>2 DEF Register, OwnsFlow, Active, IInv, TypeOK
    <3>2. registry[KeyOf[c]] = c => registry'[KeyOf[c]] = c
      BY <1>2, KeyAssumption, NoCallAssumption DEF Register, IInv, TypeOK
    <3> QED
      BY <3>1, <3>2, GivenUpStays DEF Held
  <2> QED
    BY <2>1, <2>2
<1>3. ASSUME NEW e \in Calls, Join(e) \/ Conflict(e) PROVE Held(c)'
  <2>1. Join(e) => registry[KeyOf[e]] # e
    BY <1>3, KeyAssumption DEF Join, IInv, NoLeak, Active
  <2>2. OwnsFlow(c)' => OwnsFlow(c)
    BY <1>3, <2>1 DEF Join, Conflict, OwnsFlow, Active, IInv, TypeOK
  <2> QED
    BY <1>1, <1>3, <2>2 DEF Join, Conflict
<1>4. ASSUME NEW e \in Calls, PostAcknowledged(e) \/ Expire(e) PROVE Held(c)'
  <2>1. OwnsFlow(c)' => OwnsFlow(c)
    BY <1>4 DEF PostAcknowledged, Expire, OwnsFlow, Active, IInv, TypeOK
  <2> QED
    BY <1>1, <1>4, <2>1 DEF PostAcknowledged, Expire
<1>5. ASSUME NEW e \in Calls, Cancel(e) PROVE Held(c)'
  <2>1. OwnsFlow(c)' => OwnsFlow(c)
    BY <1>5 DEF Cancel, OwnsFlow, Active, IInv, TypeOK
  <2> QED
    BY <1>1, <1>5, <2>1 DEF Cancel
<1>6. ASSUME NEW e \in Calls, PostReturns(e) \/ Wake(e) \/ Leave(e) PROVE Held(c)'
  <2>1. PostAcknowledged(e)
        \/ \E how : End(e, how) /\ UNCHANGED awaited /\ Active(e)
    BY <1>6 DEF PostReturns, PostReturnsResult, PostUnprocessable, PostFails, Wake, Leave, Active
  <2> QED
    BY <1>4, <2>1, EndHeld
<1>7. ASSUME NEW k \in Keys, NEW result \in Results, Callback(k, result) PROVE Held(c)'
  BY <1>1, <1>7 DEF Callback, OwnsFlow, Active
<1>8. Close => Held(c)'
  BY DEF Close, Held, KeyGivenUp
<1>9. UNCHANGED vars => Held(c)'
  BY <1>1 DEF vars, OwnsFlow, Active
<1> QED
  BY <1>2, <1>3, <1>4, <1>5, <1>6, <1>7, <1>8, <1>9 DEF Next

(* Two flows of one command run at once only after a call that had joined   *)
(* another of its identifiers ended, and took the key with it, or when the  *)
(* service shuts down: as long as every call waits for its own flow, exact  *)
(* duplicates in flight invoke the webhook once.                            *)
SecondFlowExplained ==
    \A c, d \in Calls :
        KeyOf[c] = KeyOf[d] /\ OwnsFlow(c) /\ OwnsFlow(d) /\ c # d =>
            \/ closed
            \/ \E e \in Calls : KeyOf[e] = KeyOf[c] /\ Joined(e) /\ pc[e] = "done"

THEOREM SecondFlowByJoining == Spec => []SecondFlowExplained
<1>1. Init => \A c \in Calls : Held(c)
  BY DEF Init, Held, OwnsFlow, Active
<1>2. IInv /\ (\A c \in Calls : Held(c)) /\ [Next]_vars => (\A c \in Calls : Held(c))'
  BY HeldStep
<1>3. (\A c \in Calls : Held(c)) => SecondFlowExplained
  BY DEF Held, KeyGivenUp, SecondFlowExplained
<1> QED
  BY <1>1, <1>2, <1>3, Invariance, PTL DEF Spec

-----------------------------------------------------------------------------
(* What becomes of a result that was accepted. *)

(* A call that has a future awaits it, and one that posts has one. *)
OwnFuture(c) ==
    /\ pc[c] = "idle" => awaited[c] = NoCall
    /\ future[c] # "absent" \/ pc[c] = "posting" => awaited[c] = c

LEMMA OwnFutureStep ==
    ASSUME IInv, [Next]_vars, NEW c \in Calls, OwnFuture(c)
    PROVE  OwnFuture(c)'
<1> USE DEF OwnFuture
<1>1. ASSUME NEW o \in Calls, NEW value, future' = Resolve(o, value)
      PROVE  future'[c] # "absent" => future[c] # "absent"
  <2>1. future'[c] = future[c] \/ future[c] = "pending"
    BY <1>1, ResolveFacts DEF IInv
  <2> QED
    BY <2>1
<1>2. ASSUME awaited' = awaited, pc'[c] \in {"idle", "posting"} => pc'[c] = pc[c],
             future'[c] # "absent" => future[c] # "absent"
      PROVE  OwnFuture(c)'
  BY <1>2
<1>3. ASSUME NEW e \in Calls, Register(e) PROVE OwnFuture(c)'
  BY <1>3 DEF Register, IInv, TypeOK
<1>4. ASSUME NEW e \in Calls, Join(e) PROVE OwnFuture(c)'
  BY <1>4 DEF Join, IInv, TypeOK, FuturesKnown
<1>5. ASSUME NEW e \in Calls, Conflict(e) \/ Wake(e) \/ Leave(e) PROVE OwnFuture(c)'
  BY <1>2, <1>5 DEF Conflict, Wake, Leave, End, IInv, TypeOK
<1>6. ASSUME NEW e \in Calls, PostReturns(e) PROVE OwnFuture(c)'
  BY <1>1, <1>2, <1>6 DEF PostReturns, PostAcknowledged, PostReturnsResult,
     PostUnprocessable, PostFails, End, IInv, TypeOK
<1>7. ASSUME NEW e \in Calls, Expire(e) \/ Cancel(e) PROVE OwnFuture(c)'
  <2>1. pc[e] = "waiting" => awaited[e] \in Calls
    BY DEF IInv, FuturesKnown, Active
  <2>2. future'[c] # "absent" => future[c] # "absent"
    BY <1>1, <1>7, <2>1 DEF Expire, Cancel
  <2> QED
    BY <1>2, <1>7, <2>2 DEF Expire, Cancel, IInv, TypeOK
<1>8. ASSUME NEW k \in Keys, NEW result \in Results, Callback(k, result)
      PROVE  OwnFuture(c)'
  <2>1. registry[k] \in Calls
    BY <1>8 DEF IInv, TypeOK, Callback
  <2> QED
    BY <1>1, <1>2, <1>8, <2>1 DEF Callback
<1>9. CASE Close
  BY <1>2, <1>9 DEF Close, Pending
<1> QED
  BY <1>3, <1>4, <1>5, <1>6, <1>7, <1>8, <1>9 DEF Next, vars

LEMMA OwnFutures == Spec => [](\A c \in Calls : OwnFuture(c))
<1>1. Init => \A c \in Calls : OwnFuture(c)
  BY DEF Init, OwnFuture
<1>2. IInv /\ (\A c \in Calls : OwnFuture(c)) /\ [Next]_vars => (\A c \in Calls : OwnFuture(c))'
  BY OwnFutureStep
<1> QED
  BY <1>1, <1>2, Invariance, PTL DEF Spec

(* A call that joined another's flow ends with what that flow's future took *)
(* unless it ran into its own timeout or was cancelled: those who wait for  *)
(* one flow end alike, however the registered call ends and whoever takes   *)
(* the key after it.                                                        *)
SharedResult(c) ==
    Joined(c) /\ pc[c] = "done" =>
        \/ outcome[c] \in {"timeout", "cancelled"}
        \/ /\ future[awaited[c]] \in Delivered
           /\ outcome[c] = OutcomeOf(future[awaited[c]])

JoinersEndAlike == \A c \in Calls : SharedResult(c)

LEMMA SharedResultStep ==
    ASSUME IInv, [Next]_vars, NEW c \in Calls, OwnFuture(c), SharedResult(c)
    PROVE  SharedResult(c)'
<1> USE DEF SharedResult, Joined
<1>1. CASE pc[c] = "done"
  <2>1. pc'[c] = "done" /\ awaited'[c] = awaited[c] /\ outcome'[c] = outcome[c]
    BY <1>1, DoneStays
  <2>2. awaited[c] # NoCall => awaited[c] \in Calls
    BY DEF IInv, TypeOK
  <2>3. awaited[c] # NoCall /\ future[awaited[c]] \in Delivered =>
          future'[awaited[c]] = future[awaited[c]]
    BY <2>2, ResolvedStays
  <2> QED
    BY <1>1, <2>1, <2>3 DEF OutcomeOf
<1>2. CASE pc[c] # "done" /\ pc'[c] = "done" /\ awaited'[c] \notin {c, NoCall}
  <2>1. ASSUME NEW e \in Calls, Wake(e) PROVE SharedResult(c)'
    <3>1. e = c /\ awaited' = awaited /\ future' = future
      BY <1>2, <2>1 DEF Wake, End, IInv, TypeOK
    <3>2. /\ awaited[c] \in Calls
          /\ future[awaited[c]] \in Delivered \cup {"cancelled"}
          /\ outcome'[c] = OutcomeOf(future[awaited[c]])
      BY <2>1, <3>1 DEF Wake, End, IInv, TypeOK, FuturesKnown, Active
    <3>3. OutcomeOf("cancelled") = "cancelled"
      BY ResultAssumption DEF OutcomeOf
    <3> QED
      BY <3>1, <3>2, <3>3 DEF OutcomeOf
  <2>2. ASSUME NEW e \in Calls, Leave(e) PROVE SharedResult(c)'
    BY <1>2, <2>2 DEF Leave, End, IInv, TypeOK
  <2>3. ASSUME NEW e \in Calls, Cancel(e) PROVE SharedResult(c)'
    BY <1>2, <2>3 DEF Cancel, IInv, TypeOK
  <2>4. ASSUME NEW e \in Calls, PostReturns(e) \/ Conflict(e) PROVE FALSE
    BY <1>2, <2>4 DEF OwnFuture, Conflict, PostReturns, PostAcknowledged,
       PostReturnsResult, PostUnprocessable, PostFails, End, IInv, TypeOK
  <2>5. ASSUME NEW e \in Calls, Register(e) \/ Join(e) \/ Expire(e) PROVE FALSE
    BY <1>2, <2>5 DEF Register, Join, Expire, IInv, TypeOK
  <2>6. ASSUME NEW k \in Keys, NEW result \in Results, Callback(k, result) PROVE FALSE
    BY <1>2, <2>6 DEF Callback
  <2>7. ~ Close /\ ~ UNCHANGED vars
    BY <1>2 DEF Close, vars
  <2> QED
    BY <2>1, <2>2, <2>3, <2>4, <2>5, <2>6, <2>7 DEF Next
<1> QED
  BY <1>1, <1>2

THEOREM JoinersAgree == Spec => []JoinersEndAlike
<1> DEFINE Own == \A c \in Calls : OwnFuture(c)
<1>1. Init => JoinersEndAlike
  BY DEF Init, JoinersEndAlike, SharedResult
<1>2. IInv /\ Own /\ JoinersEndAlike /\ [Next]_vars => JoinersEndAlike'
  BY SharedResultStep DEF JoinersEndAlike
<1> QED
  BY <1>1, <1>2, Invariance, OwnFutures, PTL DEF Spec

LEMMA AcceptedStep ==
    ASSUME IInv, [Next]_vars, NEW c \in Calls, OwnFuture(c),
           KeepsAccepted(c), pc[c] \notin {"posting", "expired"}
    PROVE  KeepsAccepted(c)'
<1> USE DEF KeepsAccepted
<1>1. CASE pc[c] = "done"
  <2>1. pc'[c] = "done" /\ outcome'[c] = outcome[c]
    BY <1>1, DoneStays
  <2>2. future[c] \in Results => future'[c] = future[c]
    BY ResolvedStays DEF Delivered
  <2>3. future'[c] \in Results => future[c] \in Results
    <3>1. ASSUME NEW o \in Calls, NEW value, future' = Resolve(o, value),
                 o # c \/ value = "cancelled"
          PROVE  future'[c] \in Results => future[c] \in Results
      BY <3>1, ResolveFacts, ResultAssumption DEF IInv
    <3>2. ASSUME NEW e \in Calls, Register(e)
          PROVE  future'[c] \in Results => future[c] \in Results
      BY <1>1, <3>2, ResultAssumption DEF Register, IInv, TypeOK
    <3>3. ASSUME NEW e \in Calls, PostReturns(e)
          PROVE  future'[c] \in Results => future[c] \in Results
      <4>1. PostAcknowledged(e) \/ PostFails(e) => future' = future
        BY DEF PostAcknowledged, PostFails
      <4>2. ASSUME NEW result \in Results, PostReturnsResult(e, result)
            PROVE  e # c /\ future' = Resolve(e, result)
        BY <1>1, <4>2 DEF PostReturnsResult
      <4>3. PostUnprocessable(e) => e # c /\ future' = Resolve(e, "unprocessable")
        BY <1>1 DEF PostUnprocessable
      <4> QED
        BY <3>1, <3>3, <4>1, <4>2, <4>3 DEF PostReturns
    <3>4. ASSUME NEW e \in Calls, Expire(e) \/ Cancel(e)
          PROVE  future'[c] \in Results => future[c] \in Results
      <4>1. pc[e] = "waiting" => awaited[e] \in Calls
        BY DEF IInv, FuturesKnown, Active
      <4>2. future' = future \/ (pc[e] = "waiting" /\ future' = Resolve(awaited[e], "cancelled"))
        BY <3>4 DEF Expire, Cancel
      <4> QED
        BY <3>1, <4>1, <4>2
    <3>5. ASSUME NEW e \in Calls, Join(e) \/ Conflict(e) \/ Wake(e) \/ Leave(e)
          PROVE  future' = future
      BY <3>5 DEF Join, Conflict, Wake, Leave
    <3>6. ASSUME NEW k \in Keys, NEW result \in Results, Callback(k, result)
          PROVE  future'[c] \in Results => future[c] \in Results
      <4>1. registry[k] \in Calls /\ registry[k] # c
        BY <1>1, <3>6 DEF IInv, TypeOK, NoLeak, Active, Callback
      <4> QED
        BY <3>1, <3>6, <4>1 DEF Callback
    <3>7. CASE Close
      BY <3>7, ResultAssumption DEF Close
    <3> QED
      BY <3>2, <3>3, <3>4, <3>5, <3>6, <3>7 DEF Next, vars
  <2> QED
    BY <1>1, <2>1, <2>2, <2>3 DEF OutcomeOf
<1>2. CASE pc[c] # "done" /\ pc'[c] = "done" /\ outcome'[c] # "cancelled" /\ future'[c] \in Results
  <2>1. ASSUME NEW e \in Calls, Wake(e) PROVE outcome'[c] = OutcomeOf(future'[c])
    <3>1. e = c /\ future' = future
      BY <1>2, <2>1 DEF Wake, End, IInv, TypeOK
    <3>2. awaited[c] = c
      BY <1>2, <3>1, ResultAssumption DEF OwnFuture
    <3> QED
      BY <2>1, <3>1, <3>2 DEF Wake, End, IInv, TypeOK, OutcomeOf
  <2>2. ASSUME NEW e \in Calls, Conflict(e) PROVE FALSE
    BY <1>2, <2>2, ResultAssumption DEF Conflict, IInv, TypeOK, FuturesKnown
  <2>3. ASSUME NEW e \in Calls, PostReturns(e) \/ Leave(e) \/ Cancel(e) PROVE FALSE
    BY <1>2, <2>3 DEF PostReturns, PostAcknowledged, PostReturnsResult,
       PostUnprocessable, PostFails, Leave, Cancel, End, IInv, TypeOK
  <2>4. ASSUME NEW e \in Calls, Register(e) \/ Join(e) \/ Expire(e) PROVE FALSE
    BY <1>2, <2>4 DEF Register, Join, Expire, IInv, TypeOK
  <2>5. ASSUME NEW k \in Keys, NEW result \in Results, Callback(k, result) PROVE FALSE
    BY <1>2, <2>5 DEF Callback
  <2>6. ~ Close /\ ~ UNCHANGED vars
    BY <1>2 DEF Close, vars
  <2> QED
    BY <2>1, <2>2, <2>3, <2>4, <2>5, <2>6 DEF Next
<1> QED
  BY <1>1, <1>2

(* _run_webhook_agent: whatever other calls of the key, callbacks and the   *)
(* shutdown do, an accepted result is lost to its call by the call's own    *)
(* POST or timer only.                                                      *)
THEOREM LostByPostOnly == Spec => AcceptedLostByPost
<1> DEFINE Own == \A c \in Calls : OwnFuture(c)
<1>1. IInv /\ Own /\ [Next]_vars =>
        [\A c \in Calls : KeepsAccepted(c) /\ ~ KeepsAccepted(c)' =>
                              pc[c] = "posting" \/ pc[c] = "expired"]_vars
  BY AcceptedStep
<1> QED
  BY <1>1, Invariance, OwnFutures, PTL DEF Spec, AcceptedLostByPost
=============================================================================
