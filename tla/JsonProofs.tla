----------------------------- MODULE JsonProofs -----------------------------
(***************************************************************************)
(* What the readers of JSON are proved with: induction over numbers and    *)
(* over values, that a function may be defined by recursion over them,     *)
(* where the parts of a value stand, and what the searches for the first   *)
(* of several values find.                                                 *)
(*                                                                         *)
(* The provers cannot instantiate a theorem with an operator parameter, so *)
(* the principles here have sets and functions in place of formulas.       *)
(***************************************************************************)
EXTENDS JsonPositions, SequenceTheorems, WellFoundedInduction, TLAPS

-----------------------------------------------------------------------------
(* Numbers, and recursion by rank. *)

(* A set of numbers has a least one.                                         *)
LEMMA LeastNumber ==
    ASSUME NEW T, T \subseteq Nat, T # {}
    PROVE  \E m \in T : \A k \in T : m <= k
<1> DEFINE R == {ss \in Nat \X Nat : ss[1] < ss[2]}
<1>1. IsWellFoundedOn(R, Nat)
  BY NatLessThanWellFounded DEF OpToRel
<1>2. PICK m \in T : \A k \in T : ~ (<<k, m>> \in R)
  BY <1>1, WFMin
<1>3. \A k \in T : ~ (k < m)
  BY <1>2
<1> QED
  BY <1>3

(* Induction, with the set of the numbers that a formula is true of.      *)
LEMMA Induction ==
    ASSUME NEW T, 0 \in T, \A n \in Nat : n \in T => n + 1 \in T
    PROVE  Nat \subseteq T
<1> SUFFICES ASSUME Nat \ T # {} PROVE FALSE
  OBVIOUS
<1>1. PICK m \in Nat \ T : \A k \in Nat \ T : m <= k
  BY LeastNumber
<1>2. m - 1 \in Nat /\ m - 1 \notin Nat \ T
  BY <1>1
<1>3. (m - 1) + 1 \in T
  BY <1>2
<1> QED
  BY <1>1, <1>3

(* What D makes of a function for an argument depends only on its values for *)
(* arguments of a smaller rank.                                              *)
LooksBelow(S, R, Rank, D) ==
    /\ R # {} /\ Rank \in [S -> Nat] /\ D \in [S -> [[S -> R] -> R]]
    /\ \A x \in S : \A g, h \in [S -> R] :
          (\A y \in S : Rank[y] < Rank[x] => g[y] = h[y]) => D[x][g] = D[x][h]

(* Then a function may be defined by recursion with D.                     *)
LEMMA Recursion ==
    ASSUME NEW S, NEW R, NEW Rank, NEW D, LooksBelow(S, R, Rank, D)
    PROVE  \E f \in [S -> R] : \A x \in S : f[x] = D[x][f]
<1> PICK r0 : r0 \in R
  BY DEF LooksBelow
<1> /\ Rank \in [S -> Nat] /\ D \in [S -> [[S -> R] -> R]]
  BY DEF LooksBelow
<1> DEFINE Good == [n \in Nat |-> {g \in [S -> R] : \A x \in S : Rank[x] < n => g[x] = D[x][g]}]
<1>0. \A n \in Nat : \A g : g \in Good[n] <=> g \in [S -> R] /\ \A x \in S : Rank[x] < n => g[x] = D[x][g]
  OBVIOUS
<1> HIDE DEF Good
<1>1. ASSUME NEW n \in Nat, NEW m \in Nat, NEW g \in Good[n], NEW h \in Good[m]
      PROVE  \A x \in S : Rank[x] < n /\ Rank[x] < m => g[x] = h[x]
  <2> DEFINE Apart == {x \in S : Rank[x] < n /\ Rank[x] < m /\ g[x] # h[x]}
  <2> SUFFICES ASSUME Apart # {} PROVE FALSE
    OBVIOUS
  <2>1. PICK x \in Apart : \A y \in Apart : Rank[x] <= Rank[y]
    <3> DEFINE T == {Rank[y] : y \in Apart}
    <3>1. T \subseteq Nat
      OBVIOUS
    <3>2. PICK y \in Apart : TRUE
      OBVIOUS
    <3>3. Rank[y] \in T
      BY <3>2
    <3>4. PICK k \in T : \A j \in T : k <= j
      BY <3>1, <3>3, LeastNumber
    <3> QED
      BY <3>4
  <2>2. ASSUME NEW y \in S, Rank[y] < Rank[x] PROVE g[y] = h[y]
    <3>1. Rank[x] \in Nat /\ Rank[y] \in Nat /\ Rank[x] < n /\ Rank[x] < m
      BY <2>1
    <3>2. y \notin Apart
      BY <2>1, <2>2, <3>1
    <3> QED
      BY <2>2, <3>1, <3>2
  <2>3. D[x][g] = D[x][h]
    BY <1>0, <2>2 DEF LooksBelow
  <2> QED
    BY <1>0, <2>1, <2>3
<1>2. \A n \in Nat : Good[n] # {}
  <2> DEFINE T == {n \in Nat : Good[n] # {}}
  <2>1. 0 \in T
    <3>1. [x \in S |-> r0] \in Good[0]
      BY <1>0
    <3> QED
      BY <3>1
  <2>2. ASSUME NEW n \in Nat, n \in T PROVE n + 1 \in T
    <3>1. PICK g : g \in Good[n]
      BY <2>2
    <3> DEFINE h == [x \in S |-> IF Rank[x] < n + 1 THEN D[x][g] ELSE r0]
    <3>2. h \in [S -> R]
      BY <1>0, <3>1
    <3>3. \A x \in S : Rank[x] < n => h[x] = g[x]
      BY <1>0, <3>1
    <3>4. \A x \in S : Rank[x] < n + 1 => h[x] = D[x][g]
      OBVIOUS
    <3> HIDE DEF h
    <3>5. ASSUME NEW x \in S, Rank[x] < n + 1 PROVE h[x] = D[x][h]
      <4>1. \A y \in S : Rank[y] < Rank[x] => g[y] = h[y]
        BY <3>3, <3>5
      <4>2. g \in [S -> R]
        BY <1>0, <3>1
      <4>3. D[x][g] = D[x][h]
        BY <3>2, <4>1, <4>2 DEF LooksBelow
      <4> QED
        BY <3>4, <3>5, <4>3
    <3>6. h \in Good[n + 1]
      BY <1>0, <3>2, <3>5
    <3> QED
      BY <3>6
  <2> QED
    BY <2>1, <2>2, Induction
<1> DEFINE G == [n \in Nat |-> CHOOSE g : g \in Good[n]]
<1>3. \A n \in Nat : G[n] \in Good[n]
  BY <1>2
<1> DEFINE f == [x \in S |-> G[Rank[x] + 1][x]]
<1> HIDE DEF G
<1>4. f \in [S -> R]
  <2>1. ASSUME NEW x \in S PROVE G[Rank[x] + 1][x] \in R
    <3>1. Rank[x] + 1 \in Nat
      OBVIOUS
    <3>2. G[Rank[x] + 1] \in [S -> R]
      BY <1>0, <1>3, <3>1
    <3> QED
      BY <3>2
  <2> QED
    BY <2>1
<1>5. ASSUME NEW x \in S PROVE f[x] = D[x][f]
  <2> DEFINE g == G[Rank[x] + 1]
  <2>1. Rank[x] \in Nat /\ Rank[x] + 1 \in Nat /\ Rank[x] < Rank[x] + 1
    OBVIOUS
  <2>2. g \in Good[Rank[x] + 1] /\ g \in [S -> R]
    BY <1>0, <1>3, <2>1
  <2>3. ASSUME NEW y \in S, Rank[y] < Rank[x] PROVE g[y] = f[y]
    <3> DEFINE h == G[Rank[y] + 1]
    <3>1. /\ Rank[y] \in Nat /\ Rank[y] + 1 \in Nat
          /\ Rank[y] < Rank[y] + 1 /\ Rank[y] < Rank[x] + 1
      BY <2>3
    <3>2. h \in Good[Rank[y] + 1] /\ f[y] = h[y]
      BY <1>3, <3>1
    <3> HIDE DEF g, h, f
    <3>3. g[y] = h[y]
      BY <1>1, <2>1, <2>2, <3>1, <3>2
    <3> QED
      BY <3>2, <3>3
  <2>4. f[x] = g[x]
    OBVIOUS
  <2> HIDE DEF f, g
  <2>5. g[x] = D[x][g]
    BY <1>0, <2>1, <2>2
  <2>6. D[x][g] = D[x][f]
    BY <1>4, <2>2, <2>3 DEF LooksBelow
  <2> QED
    BY <2>4, <2>5, <2>6
<1> QED
  BY <1>4, <1>5

-----------------------------------------------------------------------------
(* Values. *)

LEMMA TreesExist == Trees = [n \in Nat |-> IF n = 0 THEN {Atom, None} ELSE Layer(Trees[n - 1])]
<1> DEFINE Leaves == {Atom, None}
           Stage(n, g) == g[0] = Leaves /\ \A k \in Nat : k + 1 <= n => g[k + 1] = Layer(g[k])
<1>1. \A n, m \in Nat : \A g, h : Stage(n, g) /\ Stage(m, h) =>
          \A k \in Nat : k <= n /\ k <= m => g[k] = h[k]
  <2> SUFFICES ASSUME NEW n \in Nat, NEW m \in Nat, NEW g, NEW h, Stage(n, g), Stage(m, h)
               PROVE  \A k \in Nat : k <= n /\ k <= m => g[k] = h[k]
    <3> HIDE DEF Stage
    <3> QED
      OBVIOUS
  <2> DEFINE U == {k \in Nat : k <= n /\ k <= m => g[k] = h[k]}
  <2>1. 0 \in U
    OBVIOUS
  <2>2. ASSUME NEW k \in Nat, k \in U PROVE k + 1 \in U
    <3> SUFFICES ASSUME k + 1 <= n, k + 1 <= m PROVE g[k + 1] = h[k + 1]
      OBVIOUS
    <3>1. g[k] = h[k]
      BY <2>2
    <3>2. g[k + 1] = Layer(g[k]) /\ h[k + 1] = Layer(h[k])
      OBVIOUS
    <3> QED
      BY <3>1, <3>2
  <2> HIDE DEF U
  <2>3. Nat \subseteq U
    BY <2>1, <2>2, Induction
  <2> QED
    BY <2>3 DEF U
<1>2. \A n \in Nat : \E g : Stage(n, g)
  <2> DEFINE T == {n \in Nat : \E g : Stage(n, g)}
  <2>1. 0 \in T
    <3> DEFINE g == [k \in Nat |-> Leaves]
    <3>1. Stage(0, g)
      OBVIOUS
    <3> QED
      BY <3>1
  <2>2. ASSUME NEW n \in Nat, n \in T PROVE n + 1 \in T
    <3>1. PICK g : Stage(n, g)
      BY <2>2
    <3> DEFINE h == [k \in Nat |-> IF k <= n THEN g[k] ELSE Layer(g[n])]
    <3>2. h[0] = Leaves
      BY <3>1
    <3>3. ASSUME NEW k \in Nat, k + 1 <= n + 1 PROVE h[k + 1] = Layer(h[k])
      <4>1. k <= n /\ k \in Nat /\ k + 1 \in Nat /\ h[k] = g[k]
        BY <3>3
      <4>2. CASE k + 1 <= n
        <5>1. g[k + 1] = Layer(g[k])
          BY <3>1, <4>2
        <5> QED
          BY <4>1, <4>2, <5>1
      <4>3. CASE k = n
        BY <4>1, <4>3
      <4> QED
        BY <3>3, <4>2, <4>3
    <3> HIDE DEF h
    <3>4. Stage(n + 1, h)
      BY <3>2, <3>3
    <3> HIDE DEF Stage
    <3> QED
      BY <3>4
  <2> HIDE DEF T
  <2>3. Nat \subseteq T
    BY <2>1, <2>2, Induction
  <2> QED
    BY <2>3 DEF T
<1> DEFINE G == [n \in Nat |-> CHOOSE g : Stage(n, g)]
           f == [n \in Nat |-> G[n][n]]
<1>3. \A n \in Nat : Stage(n, G[n])
  <2> HIDE DEF Stage
  <2> QED
    BY <1>2
<1> HIDE DEF G
<1>4. f[0] = Leaves
  BY <1>3
<1>5. ASSUME NEW n \in Nat PROVE f[n + 1] = Layer(f[n])
  <2>1. n + 1 \in Nat /\ n <= n + 1 /\ n <= n /\ n + 1 <= n + 1
    OBVIOUS
  <2>2. Stage(n, G[n]) /\ Stage(n + 1, G[n + 1])
    BY <1>3, <2>1
  <2>3. f[n] = G[n][n] /\ f[n + 1] = G[n + 1][n + 1]
    BY <2>1
  <2>4. G[n + 1][n + 1] = Layer(G[n + 1][n])
    BY <2>1, <2>2
  <2> HIDE DEF f, Stage
  <2>5. G[n][n] = G[n + 1][n]
    BY <1>1, <2>1, <2>2
  <2> QED
    BY <2>3, <2>4, <2>5
<1>6. DOMAIN f = Nat /\ f = [n \in Nat |-> f[n]]
  OBVIOUS
<1> HIDE DEF f
<1>7. ASSUME NEW n \in Nat PROVE f[n] = IF n = 0 THEN {Atom, None} ELSE Layer(f[n - 1])
  <2>1. CASE n = 0
    BY <1>4, <2>1
  <2>2. CASE n # 0
    <3>1. n - 1 \in Nat /\ (n - 1) + 1 = n
      BY <2>2
    <3>2. f[(n - 1) + 1] = Layer(f[n - 1])
      BY <1>5, <3>1
    <3> QED
      BY <2>2, <3>1, <3>2
  <2> QED
    BY <2>1, <2>2
<1>8. f = [n \in Nat |-> IF n = 0 THEN {Atom, None} ELSE Layer(f[n - 1])]
  BY <1>6, <1>7
<1> QED
  BY <1>8 DEF Trees

LEMMA TreesStart == Trees[0] = {Atom, None}
BY TreesExist

LEMMA TreesNext == \A n \in Nat : Trees[n + 1] = Layer(Trees[n])
<1> SUFFICES ASSUME NEW n \in Nat PROVE Trees[n + 1] = Layer(Trees[n])
  OBVIOUS
<1>1. n + 1 \in Nat /\ n + 1 # 0 /\ (n + 1) - 1 = n
  OBVIOUS
<1> QED
  BY <1>1, TreesExist

(* What the members of a layer look like.                                  *)
LEMMA LayerForms ==
    ASSUME NEW values, NEW v \in Layer(values)
    PROVE  /\ v.kind \in {"atom", "none", "text", "object", "list"}
           /\ v.kind = "atom" => v = Atom
           /\ v.kind = "none" => v = None
           /\ IsText(v) => v = Text(v.name, v.docs) /\ v.name \in Names /\ v.docs \in Seq(values)
           /\ IsObject(v) => /\ v = Object(v.entries)
                             /\ v.entries \in Seq([key : Names, value : values])
           /\ IsList(v) => v = List(v.items) /\ v.items \in Seq(values)
<1>1. CASE v \in {Atom, None}
  BY <1>1 DEF Atom, None, IsText, IsObject, IsList
<1>2. CASE v \in [kind : {"text"}, name : Names, docs : Seq(values)]
  BY <1>2 DEF Text, IsText, IsObject, IsList
<1>3. CASE v \in [kind : {"object"}, entries : Seq([key : Names, value : values])]
  BY <1>3 DEF Object, IsText, IsObject, IsList
<1>4. CASE v \in [kind : {"list"}, items : Seq(values)]
  BY <1>4 DEF List, IsText, IsObject, IsList
<1> QED
  BY <1>1, <1>2, <1>3, <1>4 DEF Layer

(* And what belongs to a layer.                                            *)
LEMMA LayerHas ==
    ASSUME NEW values
    PROVE  /\ Atom \in Layer(values) /\ None \in Layer(values)
           /\ \A name \in Names, docs \in Seq(values) : Text(name, docs) \in Layer(values)
           /\ \A entries \in Seq([key : Names, value : values]) : Object(entries) \in Layer(values)
           /\ \A items \in Seq(values) : List(items) \in Layer(values)
BY DEF Layer, Text, Object, List

LEMMA LayerGrows ==
    ASSUME NEW few, NEW many, few \subseteq many
    PROVE  Layer(few) \subseteq Layer(many)
<1> SUFFICES ASSUME NEW v \in Layer(few) PROVE v \in Layer(many)
  OBVIOUS
<1>1. Seq(few) \subseteq Seq(many)
  BY SeqMonotonic
<1>2. [key : Names, value : few] \subseteq [key : Names, value : many]
  OBVIOUS
<1>3. Seq([key : Names, value : few]) \subseteq Seq([key : Names, value : many])
  BY <1>2, SeqMonotonic
<1> QED
  BY <1>1, <1>3 DEF Layer

LEMMA TreesGrow == \A n \in Nat : Trees[n] \subseteq Trees[n + 1]
<1> DEFINE T == {n \in Nat : Trees[n] \subseteq Trees[n + 1]}
<1>1. 0 \in T
  BY TreesStart, TreesNext, LayerHas
<1>2. ASSUME NEW n \in Nat, n \in T PROVE n + 1 \in T
  <2>1. n + 1 \in Nat /\ Trees[n] \subseteq Trees[n + 1]
    BY <1>2
  <2>2. Layer(Trees[n]) \subseteq Layer(Trees[n + 1])
    BY <2>1, LayerGrows
  <2> QED
    BY <2>1, <2>2, TreesNext
<1> HIDE DEF T
<1>3. Nat \subseteq T
  BY <1>1, <1>2, Induction
<1> QED
  BY <1>3 DEF T

LEMMA TreesRise == \A n, m \in Nat : n <= m => Trees[n] \subseteq Trees[m]
<1> SUFFICES ASSUME NEW n \in Nat PROVE \A m \in Nat : n <= m => Trees[n] \subseteq Trees[m]
  OBVIOUS
<1> DEFINE T == {k \in Nat : Trees[n] \subseteq Trees[n + k]}
<1>1. 0 \in T
  OBVIOUS
<1>2. ASSUME NEW k \in Nat, k \in T PROVE k + 1 \in T
  <2>1. n + k \in Nat /\ n + (k + 1) = (n + k) + 1
    OBVIOUS
  <2>2. Trees[n + k] \subseteq Trees[(n + k) + 1]
    BY <2>1, TreesGrow
  <2> QED
    BY <1>2, <2>1, <2>2
<1> HIDE DEF T
<1>3. Nat \subseteq T
  BY <1>1, <1>2, Induction
<1>4. ASSUME NEW m \in Nat, n <= m PROVE Trees[n] \subseteq Trees[m]
  <2>1. m - n \in Nat /\ n + (m - n) = m
    BY <1>4
  <2> QED
    BY <1>3, <2>1 DEF T
<1> QED
  BY <1>4

-----------------------------------------------------------------------------
(* What a value holds: its children or, for a text, what it parses to; and *)
(* an object has None for the keys that it does not have.                  *)
Held(v) ==
    {Children(v)[i] : i \in DOMAIN Children(v)}
    \cup {v.docs[i] : i \in IF IsText(v) THEN DOMAIN v.docs ELSE {}}
    \cup (IF IsObject(v) THEN {None} ELSE {})

LEMMA ChildrenIn ==
    ASSUME NEW values, NEW v \in Layer(values)
    PROVE  /\ Children(v) \in Seq(values)
           /\ ~ IsObject(v) /\ ~ IsList(v) => Children(v) = <<>>
           /\ IsObject(v) => /\ DOMAIN Children(v) = DOMAIN v.entries
                             /\ Len(Children(v)) = Len(v.entries)
                             /\ \A i \in DOMAIN Children(v) :
                                   /\ Children(v)[i] = v.entries[i].value
                                   /\ v.entries[i].key \in Names
           /\ IsList(v) => Children(v) = v.items
<1>1. CASE IsObject(v)
  <2>1. v.entries \in Seq([key : Names, value : values])
    BY <1>1, LayerForms
  <2>2. Children(v) = [i \in DOMAIN v.entries |-> v.entries[i].value]
    BY <1>1 DEF Children, IsObject, IsList
  <2>3. Len(v.entries) \in Nat /\ DOMAIN v.entries = 1 .. Len(v.entries)
    BY <2>1
  <2>4. \A i \in 1 .. Len(v.entries) : v.entries[i] \in [key : Names, value : values]
    BY <2>1, ElementOfSeq
  <2>5. Children(v) \in [1 .. Len(v.entries) -> values]
    BY <2>2, <2>3, <2>4
  <2>6. Children(v) \in Seq(values) /\ Len(Children(v)) = Len(v.entries)
    BY <2>3, <2>5
  <2> QED
    BY <1>1, <2>2, <2>3, <2>4, <2>6 DEF IsObject, IsList
<1>2. CASE IsList(v)
  <2>1. ~ IsObject(v) /\ Children(v) = v.items
    BY <1>2 DEF Children, IsObject, IsList
  <2> QED
    BY <1>2, <2>1, LayerForms
<1>3. CASE ~ IsObject(v) /\ ~ IsList(v)
  BY <1>3 DEF Children
<1> QED
  BY <1>1, <1>2, <1>3

LEMMA HeldBelow == \A n \in Nat : \A v \in Trees[n + 1] : Held(v) \subseteq Trees[n]
<1> SUFFICES ASSUME NEW n \in Nat, NEW v \in Trees[n + 1], NEW w \in Held(v) PROVE w \in Trees[n]
  OBVIOUS
<1>1. v \in Layer(Trees[n])
  BY TreesNext
<1>2. None \in Trees[n]
  <2>1. 0 <= n /\ 0 \in Nat
    OBVIOUS
  <2> QED
    BY <2>1, TreesRise, TreesStart
<1>3. Children(v) \in Seq(Trees[n])
  BY <1>1, ChildrenIn
<1>4. IsText(v) => v.docs \in Seq(Trees[n])
  BY <1>1, LayerForms
<1>5. CASE \E i \in DOMAIN Children(v) : w = Children(v)[i]
  BY <1>3, <1>5
<1>6. CASE IsText(v) /\ \E i \in DOMAIN v.docs : w = v.docs[i]
  BY <1>4, <1>6
<1> QED
  BY <1>2, <1>5, <1>6 DEF Held

LEMMA LeavesHoldNothing == \A v \in Trees[0] : Held(v) = {}
<1>1. Children(Atom) = <<>> /\ Children(None) = <<>>
  BY DEF Children, Atom, None, IsObject, IsList
<1> QED
  BY <1>1, TreesStart DEF Held, Atom, None, IsText, IsObject

LEMMA SentAreTrees ==
    /\ MaxLayers \in Nat /\ MaxLayers + 1 \in Nat
    /\ Sent \subseteq Tree /\ None \in Sent /\ Atom \in Sent
    /\ Tree = Layer(Sent)
<1>1. MaxLayers \in Nat /\ MaxLayers + 1 \in Nat /\ 0 <= MaxLayers
  BY LayersAssumption
<1> QED
  BY <1>1, TreesGrow, TreesRise, TreesStart, TreesNext DEF Sent, Tree

LEMMA HeldAreSent == \A v \in Tree : Held(v) \subseteq Sent /\ Held(v) \subseteq Tree
BY SentAreTrees, HeldBelow DEF Sent, Tree

(* Induction over values, with the set of those that a formula is true of. *)
LEMMA TreeInduction ==
    ASSUME NEW Q, \A v \in Tree : Held(v) \subseteq Q => v \in Q
    PROVE  Tree \subseteq Q
<1> DEFINE T == {n \in Nat : n <= MaxLayers + 1 => Trees[n] \subseteq Q}
<1>1. MaxLayers + 1 \in Nat
  BY SentAreTrees
<1>2. \A n \in Nat : n <= MaxLayers + 1 => Trees[n] \subseteq Tree
  BY <1>1, TreesRise DEF Tree
<1>3. 0 \in T
  BY <1>2, LeavesHoldNothing
<1>4. ASSUME NEW n \in Nat, n \in T PROVE n + 1 \in T
  <2> SUFFICES ASSUME n + 1 <= MaxLayers + 1, NEW v \in Trees[n + 1] PROVE v \in Q
    OBVIOUS
  <2>1. n <= MaxLayers + 1 /\ n + 1 \in Nat
    BY <1>1
  <2>2. Held(v) \subseteq Trees[n]
    BY HeldBelow
  <2>3. Held(v) \subseteq Q
    BY <1>4, <2>1, <2>2
  <2>4. v \in Tree
    BY <1>2, <2>1
  <2> QED
    BY <2>3, <2>4
<1> HIDE DEF T
<1>5. Nat \subseteq T
  BY <1>3, <1>4, Induction
<1> QED
  BY <1>1, <1>5 DEF T, Tree

LEMMA RankExists == \E Rank \in [Tree -> Nat] : \A v \in Tree : \A w \in Held(v) : Rank[w] < Rank[v]
<1> DEFINE Depths(v) == {n \in Nat : v \in Trees[n]}
           Rank == [v \in Tree |-> CHOOSE m \in Depths(v) : \A k \in Depths(v) : m <= k]
<1>1. ASSUME NEW v \in Tree PROVE Rank[v] \in Depths(v) /\ \A k \in Depths(v) : Rank[v] <= k
  <2>1. MaxLayers + 1 \in Depths(v)
    BY SentAreTrees DEF Tree
  <2>2. Depths(v) \subseteq Nat
    OBVIOUS
  <2> HIDE DEF Depths
  <2>3. \E m \in Depths(v) : \A k \in Depths(v) : m <= k
    BY <2>1, <2>2, LeastNumber
  <2> QED
    BY <2>3
<1> HIDE DEF Rank
<1>2. ASSUME NEW v \in Tree, NEW w \in Held(v) PROVE Rank[w] < Rank[v]
  <2>1. Rank[v] \in Nat /\ v \in Trees[Rank[v]]
    BY <1>1
  <2>2. Rank[v] # 0
    BY <2>1, LeavesHoldNothing
  <2>3. Rank[v] - 1 \in Nat /\ (Rank[v] - 1) + 1 = Rank[v]
    BY <2>1, <2>2
  <2>4. w \in Trees[Rank[v] - 1] /\ w \in Tree
    BY <2>1, <2>3, HeldBelow, HeldAreSent
  <2>5. Rank[w] <= Rank[v] - 1 /\ Rank[w] \in Nat
    BY <1>1, <2>3, <2>4
  <2> QED
    BY <2>1, <2>5
<1>3. Rank \in [Tree -> Nat]
  BY <1>1 DEF Rank
<1> QED
  BY <1>2, <1>3

(* What D makes of a function for a value depends only on its values for   *)
(* what that value holds.                                                  *)
LooksInside(R, D) ==
    /\ R # {} /\ D \in [Tree -> [[Tree -> R] -> R]]
    /\ \A v \in Tree : \A g, h \in [Tree -> R] :
          (\A w \in Held(v) : g[w] = h[w]) => D[v][g] = D[v][h]

(* Then a function of values may be defined by recursion with D.           *)
LEMMA TreeRecursion ==
    ASSUME NEW R, NEW D, LooksInside(R, D)
    PROVE  \E f \in [Tree -> R] : \A v \in Tree : f[v] = D[v][f]
<1>1. PICK Rank \in [Tree -> Nat] : \A v \in Tree : \A w \in Held(v) : Rank[w] < Rank[v]
  BY RankExists
<1>2. ASSUME NEW v \in Tree, NEW g \in [Tree -> R], NEW h \in [Tree -> R],
             \A w \in Tree : Rank[w] < Rank[v] => g[w] = h[w]
      PROVE  D[v][g] = D[v][h]
  <2>1. \A w \in Held(v) : g[w] = h[w]
    BY <1>1, <1>2, HeldAreSent
  <2> QED
    BY <2>1 DEF LooksInside
<1>3. LooksBelow(Tree, R, Rank, D)
  BY <1>2 DEF LooksBelow, LooksInside
<1> QED
  BY <1>3, Recursion

(* The same for a function of the numbers up to n, step by step.           *)
StepsIn(n, R, r0, D) == n \in Nat /\ r0 \in R /\ D \in [1 .. n -> [R -> R]]

LEMMA Stepwise ==
    ASSUME NEW n, NEW R, NEW r0, NEW D, StepsIn(n, R, r0, D)
    PROVE  \E f \in [0 .. n -> R] : f = [k \in 0 .. n |-> IF k = 0 THEN r0 ELSE D[k][f[k - 1]]]
<1> /\ n \in Nat /\ r0 \in R /\ D \in [1 .. n -> [R -> R]]
  BY DEF StepsIn
<1> DEFINE S == 0 .. n
           Rank == [k \in S |-> k]
           E == [k \in S |-> [g \in [S -> R] |-> IF k = 0 THEN r0 ELSE D[k][g[k - 1]]]]
<1>1. \A k \in S : k # 0 => k \in 1 .. n /\ k - 1 \in S /\ Rank[k - 1] < Rank[k]
  OBVIOUS
<1>2. \A k \in 1 .. n, r \in R : D[k][r] \in R
  OBVIOUS
<1>3. Rank \in [S -> Nat] /\ R # {}
  OBVIOUS
<1> HIDE DEF S, Rank
<1>4. E \in [S -> [[S -> R] -> R]]
  BY <1>1, <1>2
<1>5. \A k \in S : \A g \in [S -> R] : E[k][g] = IF k = 0 THEN r0 ELSE D[k][g[k - 1]]
  OBVIOUS
<1> HIDE DEF E
<1>6. ASSUME NEW k \in S, NEW g \in [S -> R], NEW h \in [S -> R],
             \A j \in S : Rank[j] < Rank[k] => g[j] = h[j]
      PROVE  E[k][g] = E[k][h]
  <2>1. k # 0 => g[k - 1] = h[k - 1]
    BY <1>1, <1>6
  <2> QED
    BY <1>5, <2>1
<1>7. LooksBelow(S, R, Rank, E)
  BY <1>3, <1>4, <1>6 DEF LooksBelow
<1>8. PICK f \in [S -> R] : \A k \in S : f[k] = E[k][f]
  BY <1>7, Recursion
<1>9. \A k \in S : f[k] = IF k = 0 THEN r0 ELSE D[k][f[k - 1]]
  BY <1>5, <1>8
<1> QED
  BY <1>8, <1>9 DEF S

-----------------------------------------------------------------------------
(* The first of several values. *)

LEMMA LeastIndex ==
    ASSUME NEW fit, fit \subseteq Nat, fit # {}
    PROVE  LET m == CHOOSE i \in fit : \A j \in fit : i <= j
           IN m \in fit /\ \A j \in fit : m <= j
<1>1. \E m \in fit : \A j \in fit : m <= j
  BY LeastNumber
<1> QED
  BY <1>1

LEMMA FirstFoundIs ==
    ASSUME NEW values, DOMAIN values \subseteq Nat
    PROVE  \/ FirstFound(values) = None /\ \A i \in DOMAIN values : values[i] = None
           \/ \E i \in DOMAIN values :
                 /\ values[i] # None /\ FirstFound(values) = values[i]
                 /\ \A j \in DOMAIN values : j < i => values[j] = None
<1> DEFINE fit == {i \in DOMAIN values : values[i] # None}
           m == CHOOSE i \in fit : \A j \in fit : i <= j
<1>1. FirstFound(values) = IF fit = {} THEN None ELSE values[m]
  BY DEF FirstFound, FirstWhere
<1>2. CASE fit = {}
  BY <1>1, <1>2
<1>3. CASE fit # {}
  <2>1. fit \subseteq Nat
    OBVIOUS
  <2>2. m \in fit /\ \A j \in fit : m <= j
    <3> HIDE DEF fit
    <3> QED
      BY <1>3, <2>1, LeastIndex
  <2> HIDE DEF m
  <2>3. \A j \in DOMAIN values : j < m => values[j] = None
    BY <2>2
  <2> QED
    BY <1>1, <1>3, <2>2, <2>3
<1> QED
  BY <1>2, <1>3

LEMMA FirstFoundConcat ==
    ASSUME NEW S, NEW T, NEW s \in Seq(S), NEW t \in Seq(T)
    PROVE  FirstFound(s \o t) = IF FirstFound(s) # None THEN FirstFound(s) ELSE FirstFound(t)
<1>1. s \in Seq(S \cup T) /\ t \in Seq(S \cup T)
  BY SeqMonotonic
<1>2. /\ Len(s) \in Nat /\ Len(t) \in Nat
      /\ DOMAIN s = 1 .. Len(s) /\ DOMAIN t = 1 .. Len(t)
      /\ DOMAIN (s \o t) = 1 .. Len(s) + Len(t)
      /\ \A i \in 1 .. Len(s) : (s \o t)[i] = s[i]
      /\ \A i \in 1 .. Len(t) : (s \o t)[Len(s) + i] = t[i]
  <2>1. s \o t \in Seq(S \cup T) /\ Len(s \o t) = Len(s) + Len(t)
    BY <1>1, ConcatProperties
  <2>2. \A i \in 1 .. Len(s) + Len(t) :
          (s \o t)[i] = IF i <= Len(s) THEN s[i] ELSE t[i - Len(s)]
    BY <1>1, ConcatProperties
  <2>3. \A i \in 1 .. Len(t) : Len(s) + i \in 1 .. Len(s) + Len(t) /\ (Len(s) + i) - Len(s) = i
                               /\ ~ (Len(s) + i <= Len(s))
    OBVIOUS
  <2>4. DOMAIN (s \o t) = 1 .. Len(s) + Len(t)
    BY <2>1
  <2>5. \A i \in 1 .. Len(s) : i \in 1 .. Len(s) + Len(t)
    OBVIOUS
  <2> QED
    BY <2>2, <2>3, <2>4, <2>5
<1>3. DOMAIN s \subseteq Nat /\ DOMAIN t \subseteq Nat /\ DOMAIN (s \o t) \subseteq Nat
  BY <1>2
<1> DEFINE w == s \o t
<1> HIDE DEF w
<1>4. CASE FirstFound(s) # None
  <2>1. PICK i \in DOMAIN s : /\ s[i] # None /\ FirstFound(s) = s[i]
                              /\ \A j \in DOMAIN s : j < i => s[j] = None
    BY <1>3, <1>4, FirstFoundIs
  <2>2. i \in DOMAIN w /\ w[i] = s[i]
    BY <1>2 DEF w
  <2>3. PICK k \in DOMAIN w : /\ w[k] # None /\ FirstFound(w) = w[k]
                              /\ \A j \in DOMAIN w : j < k => w[j] = None
    BY <1>3, <2>1, <2>2, FirstFoundIs DEF w
  <2>4. ~ (k < i)
    <3> SUFFICES ASSUME k < i PROVE FALSE
      OBVIOUS
    <3>1. k \in DOMAIN s /\ w[k] = s[k]
      BY <1>2, <2>3 DEF w
    <3> QED
      BY <2>1, <2>3, <3>1
  <2>5. ~ (i < k)
    BY <2>1, <2>2, <2>3
  <2>6. i = k
    BY <1>3, <2>2, <2>4, <2>5 DEF w
  <2> QED
    BY <1>4, <2>1, <2>2, <2>3, <2>6 DEF w
<1>5. CASE FirstFound(s) = None
  <2>1. \A i \in DOMAIN s : s[i] = None
    BY <1>3, <1>5, FirstFoundIs
  <2>2. CASE FirstFound(t) = None
    <3>1. \A i \in DOMAIN t : t[i] = None
      BY <1>3, <2>2, FirstFoundIs
    <3>2. ASSUME NEW i \in DOMAIN w PROVE w[i] = None
      <4>1. CASE i \in DOMAIN s
        BY <1>2, <2>1, <4>1 DEF w
      <4>2. CASE i \notin DOMAIN s
        <5>1. i - Len(s) \in 1 .. Len(t) /\ Len(s) + (i - Len(s)) = i
          BY <1>2, <4>2 DEF w
        <5> QED
          BY <1>2, <3>1, <5>1 DEF w
      <4> QED
        BY <4>1, <4>2
    <3> QED
      BY <1>3, <1>5, <2>2, <3>2, FirstFoundIs DEF w
  <2>3. CASE FirstFound(t) # None
    <3>1. PICK i \in DOMAIN t : /\ t[i] # None /\ FirstFound(t) = t[i]
                                /\ \A j \in DOMAIN t : j < i => t[j] = None
      BY <1>3, <2>3, FirstFoundIs
    <3>2. Len(s) + i \in DOMAIN w /\ w[Len(s) + i] = t[i]
      BY <1>2 DEF w
    <3>3. PICK k \in DOMAIN w : /\ w[k] # None /\ FirstFound(w) = w[k]
                                /\ \A j \in DOMAIN w : j < k => w[j] = None
      BY <1>3, <3>1, <3>2, FirstFoundIs DEF w
    <3>4. k \notin DOMAIN s
      BY <1>2, <2>1, <3>3 DEF w
    <3>5. k - Len(s) \in DOMAIN t /\ w[k] = t[k - Len(s)] /\ k \in Nat /\ i \in Nat
      <4>1. k - Len(s) \in 1 .. Len(t) /\ Len(s) + (k - Len(s)) = k
        BY <1>2, <3>4 DEF w
      <4> QED
        BY <1>2, <4>1 DEF w
    <3>6. ~ (k - Len(s) < i)
      BY <3>1, <3>3, <3>5
    <3>7. ~ (Len(s) + i < k)
      BY <3>1, <3>2, <3>3
    <3>8. k = Len(s) + i
      BY <1>2, <3>5, <3>6, <3>7
    <3> QED
      BY <1>5, <3>1, <3>2, <3>3, <3>8 DEF w
  <2> QED
    BY <2>2, <2>3
<1> QED
  BY <1>4, <1>5

-----------------------------------------------------------------------------
(* Where the parts of a value stand. *)

Places == [at : Seq(Nat), is : Tree]

LEMMA PartIs == \A at, v : Part(at, v).at = at /\ Part(at, v).is = v
BY DEF Part

LEMMA BelowIs ==
    ASSUME NEW i \in Nat, NEW p \in Places
    PROVE  /\ Below(i, p) \in Places /\ Below(i, p).is = p.is
           /\ Len(p.at) \in Nat /\ Len(Below(i, p).at) = Len(p.at) + 1
           /\ DOMAIN p.at = 1 .. Len(p.at) /\ DOMAIN Below(i, p).at = 1 .. Len(p.at) + 1
           /\ Below(i, p).at[1] = i
           /\ \A k \in 1 .. Len(p.at) : Below(i, p).at[k + 1] = p.at[k] /\ p.at[k] \in Nat
<1>1. /\ p.at \in Seq(Nat) /\ <<i>> \in Seq(Nat) /\ Len(<<i>>) = 1 /\ <<i>>[1] = i
      /\ Len(p.at) \in Nat /\ DOMAIN p.at = 1 .. Len(p.at)
  BY DEF Places
<1> DEFINE at == <<i>> \o p.at
<1>2. at \in Seq(Nat) /\ Len(at) = 1 + Len(p.at)
  BY <1>1, ConcatProperties
<1>3. \A k \in 1 .. 1 + Len(p.at) : at[k] = IF k <= 1 THEN <<i>>[k] ELSE p.at[k - 1]
  BY <1>1, ConcatProperties
<1> HIDE DEF at
<1>4. at[1] = i /\ \A k \in 1 .. Len(p.at) : at[k + 1] = p.at[k]
  <2>1. 1 \in 1 .. 1 + Len(p.at)
    BY <1>1
  <2>2. \A k \in 1 .. Len(p.at) : /\ k + 1 \in 1 .. 1 + Len(p.at) /\ ~ (k + 1 <= 1)
                                  /\ (k + 1) - 1 = k
    BY <1>1
  <2> QED
    BY <1>1, <1>3, <2>1, <2>2
<1>5. \A k \in 1 .. Len(p.at) : p.at[k] \in Nat
  BY <1>1, ElementOfSeq
<1>6. Below(i, p).at = at /\ Below(i, p).is = p.is
  BY DEF Below, Part, at
<1>7. Below(i, p) \in Places
  BY <1>2 DEF Below, Part, Places, at
<1>8. DOMAIN at = 1 .. Len(p.at) + 1 /\ Len(at) = Len(p.at) + 1
  BY <1>1, <1>2
<1> QED
  BY <1>1, <1>4, <1>5, <1>6, <1>7, <1>8

LEMMA BelowOne ==
    \A i \in Nat : \A p, q \in Places : Below(i, p) = Below(i, q) => p = q
<1> SUFFICES ASSUME NEW i \in Nat, NEW p \in Places, NEW q \in Places, Below(i, p) = Below(i, q)
             PROVE  p = q
  OBVIOUS
<1> DEFINE a == Below(i, p)
           b == Below(i, q)
<1>1. /\ Len(p.at) \in Nat /\ Len(a.at) = Len(p.at) + 1 /\ a.is = p.is
      /\ \A k \in 1 .. Len(p.at) : a.at[k + 1] = p.at[k]
  BY BelowIs
<1>2. /\ Len(q.at) \in Nat /\ Len(b.at) = Len(q.at) + 1 /\ b.is = q.is
      /\ \A k \in 1 .. Len(q.at) : b.at[k + 1] = q.at[k]
  BY BelowIs
<1>3. a = b
  OBVIOUS
<1> HIDE DEF a, b
<1>4. Len(p.at) = Len(q.at)
  BY <1>1, <1>2, <1>3
<1>5. \A k \in 1 .. Len(p.at) : p.at[k] = q.at[k]
  BY <1>1, <1>2, <1>3, <1>4
<1>6. p.at \in Seq(Nat) /\ q.at \in Seq(Nat)
  BY DEF Places
<1>7. p.at = q.at
  BY <1>4, <1>5, <1>6, SeqEqual
<1>8. p.is = q.is
  BY <1>1, <1>2, <1>3
<1> QED
  BY <1>7, <1>8 DEF Places

LEMMA PartsExist ==
    /\ Parts \in [Tree -> SUBSET Places]
    /\ \A v \in Tree :
          Parts[v] = {Part(<<>>, v)} \cup
                     UNION {{Below(i, p) : p \in Parts[Children(v)[i]]} : i \in DOMAIN Children(v)}
<1> DEFINE R == SUBSET Places
           F(g, v) == {Part(<<>>, v)} \cup
                      UNION {{Below(i, p) : p \in g[Children(v)[i]]} : i \in DOMAIN Children(v)}
           D == [v \in Tree |-> [g \in [Tree -> R] |-> F(g, v)]]
<1>1. ASSUME NEW v \in Tree PROVE DOMAIN Children(v) \subseteq Nat /\ Part(<<>>, v) \in Places
  <2>1. Children(v) \in Seq(Sent)
    BY SentAreTrees, ChildrenIn
  <2> QED
    BY <2>1 DEF Places, Part
<1>2. ASSUME NEW v \in Tree, NEW i \in DOMAIN Children(v) PROVE Children(v)[i] \in Held(v) /\ Children(v)[i] \in Tree
  <2>1. Children(v)[i] \in Held(v)
    BY DEF Held
  <2> QED
    BY <2>1, HeldAreSent
<1>3. ASSUME NEW v \in Tree, NEW g \in [Tree -> R] PROVE F(g, v) \in R
  <2>1. ASSUME NEW i \in DOMAIN Children(v), NEW p \in g[Children(v)[i]] PROVE Below(i, p) \in Places
    <3>1. i \in Nat /\ p \in Places
      BY <1>1, <1>2
    <3> QED
      BY <3>1, BelowIs
  <2> QED
    BY <1>1, <2>1
<1>4. ASSUME NEW v \in Tree, NEW g, NEW h, \A w \in Held(v) : g[w] = h[w]
      PROVE  F(g, v) = F(h, v)
  BY <1>2, <1>4
<1>5. \A v \in Tree : \A g \in [Tree -> R] : D[v][g] = F(g, v)
  OBVIOUS
<1>6. D \in [Tree -> [[Tree -> R] -> R]]
  <2> HIDE DEF F, R
  <2> QED
    BY <1>3
<1>7. R # {}
  OBVIOUS
<1> HIDE DEF D, R, F
<1>8. LooksInside(R, D)
  <2>1. ASSUME NEW v \in Tree, NEW g \in [Tree -> R], NEW h \in [Tree -> R],
               \A w \in Held(v) : g[w] = h[w]
        PROVE  D[v][g] = D[v][h]
    BY <1>4, <1>5, <2>1
  <2> QED
    BY <1>6, <1>7, <2>1 DEF LooksInside
<1>9. PICK f \in [Tree -> R] : \A v \in Tree : f[v] = D[v][f]
  BY <1>8, TreeRecursion
<1>10. f = [v \in Tree |-> F(f, v)]
  BY <1>5, <1>9
<1>11. Parts = [v \in Tree |-> F(Parts, v)]
  <2> DEFINE G == CHOOSE g : g = [v \in Tree |-> F(g, v)]
  <2>1. G = [v \in Tree |-> F(G, v)]
    BY <1>10
  <2>2. Parts = G
    BY DEF Parts, F
  <2> QED
    BY <2>1, <2>2
<1>12. Parts = f
  <2> DEFINE Q == {v \in Tree : Parts[v] = f[v]}
  <2>1. ASSUME NEW v \in Tree, Held(v) \subseteq Q PROVE v \in Q
    BY <1>4, <1>10, <1>11, <2>1
  <2>2. Tree \subseteq Q
    <3> HIDE DEF Q
    <3> QED
      BY <2>1, TreeInduction
  <2> QED
    BY <1>10, <1>11, <2>2
<1> QED
  BY <1>9, <1>11, <1>12 DEF F, R

LEMMA PlaceBelow ==
    ASSUME NEW i \in Nat, NEW j \in Nat, NEW p \in Places, NEW q \in Places
    PROVE  /\ Within(Below(i, p), Below(j, q)) <=> i = j /\ Within(p, q)
           /\ Before(Below(i, p), Below(j, q)) <=> i < j \/ (i = j /\ Before(p, q))
           /\ Earlier(Below(i, p), Below(j, q)) <=> i < j \/ (i = j /\ Earlier(p, q))
<1> DEFINE a == Below(i, p).at
           b == Below(j, q).at
           m == Len(p.at)
           n == Len(q.at)
<1>1. /\ m \in Nat /\ DOMAIN p.at = 1 .. m /\ Len(a) = m + 1 /\ DOMAIN a = 1 .. m + 1
      /\ a[1] = i /\ \A k \in 1 .. m : a[k + 1] = p.at[k] /\ p.at[k] \in Nat
  BY BelowIs
<1>2. /\ n \in Nat /\ DOMAIN q.at = 1 .. n /\ Len(b) = n + 1 /\ DOMAIN b = 1 .. n + 1
      /\ b[1] = j /\ \A k \in 1 .. n : b[k + 1] = q.at[k] /\ q.at[k] \in Nat
  BY BelowIs
<1> HIDE DEF a, b, m, n
<1>3. Within(Below(i, p), Below(j, q)) <=> n + 1 <= m + 1 /\ \A k \in 1 .. n + 1 : a[k] = b[k]
  BY <1>1, <1>2 DEF Within, a, b
<1>4. Within(p, q) <=> n <= m /\ \A k \in 1 .. n : p.at[k] = q.at[k]
  BY <1>1, <1>2 DEF Within, m, n
<1>5. ASSUME NEW l \in Nat, l <= m, l <= n
      PROVE  (\A k \in 1 .. l + 1 : a[k] = b[k]) <=> i = j /\ \A k \in 1 .. l : p.at[k] = q.at[k]
  <2>1. ASSUME \A k \in 1 .. l + 1 : a[k] = b[k] PROVE i = j /\ \A k \in 1 .. l : p.at[k] = q.at[k]
    <3>1. 1 \in 1 .. l + 1 /\ \A k \in 1 .. l : k + 1 \in 1 .. l + 1 /\ k \in 1 .. m /\ k \in 1 .. n
      BY <1>1, <1>2, <1>5
    <3> QED
      BY <1>1, <1>2, <2>1, <3>1
  <2>2. ASSUME i = j, \A k \in 1 .. l : p.at[k] = q.at[k] PROVE \A k \in 1 .. l + 1 : a[k] = b[k]
    <3>1. ASSUME NEW k \in 1 .. l + 1, k # 1 PROVE a[k] = b[k]
      <4>1. k - 1 \in 1 .. l /\ k - 1 \in 1 .. m /\ k - 1 \in 1 .. n /\ (k - 1) + 1 = k
        BY <1>1, <1>2, <1>5, <3>1
      <4>2. a[(k - 1) + 1] = p.at[k - 1] /\ b[(k - 1) + 1] = q.at[k - 1]
        BY <1>1, <1>2, <4>1
      <4> QED
        BY <2>2, <4>1, <4>2
    <3> QED
      BY <1>1, <1>2, <2>2, <3>1
  <2> QED
    BY <2>1, <2>2
<1>6. Within(Below(i, p), Below(j, q)) <=> i = j /\ Within(p, q)
  <2>1. n + 1 <= m + 1 <=> n <= m
    BY <1>1, <1>2
  <2>2. n <= m => ((\A k \in 1 .. n + 1 : a[k] = b[k]) <=> i = j /\ \A k \in 1 .. n : p.at[k] = q.at[k])
    <3>1. n \in Nat /\ n <= n
      BY <1>2
    <3> QED
      BY <1>5, <3>1
  <2> QED
    BY <1>3, <1>4, <2>1, <2>2
<1>7. Before(Below(i, p), Below(j, q)) <=>
          \E k \in (1 .. m + 1) \cap (1 .. n + 1) : a[k] < b[k] /\ \A l \in 1 .. k - 1 : a[l] = b[l]
  <2>1. Before(Below(i, p), Below(j, q)) <=>
            \E k \in DOMAIN a \cap DOMAIN b : a[k] < b[k] /\ \A l \in 1 .. k - 1 : a[l] = b[l]
    BY DEF Before, a, b
  <2> QED
    BY <1>1, <1>2, <2>1
<1>8. Before(p, q) <=>
          \E k \in (1 .. m) \cap (1 .. n) :
              p.at[k] < q.at[k] /\ \A l \in 1 .. k - 1 : p.at[l] = q.at[l]
  <2>1. Before(p, q) <=>
            \E k \in DOMAIN p.at \cap DOMAIN q.at :
                p.at[k] < q.at[k] /\ \A l \in 1 .. k - 1 : p.at[l] = q.at[l]
    BY DEF Before
  <2> QED
    BY <1>1, <1>2, <2>1
<1>9. ASSUME Before(Below(i, p), Below(j, q)) PROVE i < j \/ (i = j /\ Before(p, q))
  <2>1. PICK k \in (1 .. m + 1) \cap (1 .. n + 1) :
           a[k] < b[k] /\ \A l \in 1 .. k - 1 : a[l] = b[l]
    BY <1>7, <1>9
  <2>2. CASE k = 1
    BY <1>1, <1>2, <2>1, <2>2
  <2>3. CASE k # 1
    <3>1. /\ k - 1 \in 1 .. m /\ k - 1 \in 1 .. n /\ (k - 1) + 1 = k
          /\ (k - 1) - 1 \in Nat /\ ((k - 1) - 1) + 1 = k - 1
          /\ (k - 1) - 1 <= m /\ (k - 1) - 1 <= n
      BY <1>1, <1>2, <2>1, <2>3
    <3>2. p.at[k - 1] < q.at[k - 1]
      BY <1>1, <1>2, <2>1, <3>1
    <3>3. i = j /\ \A l \in 1 .. (k - 1) - 1 : p.at[l] = q.at[l]
      BY <1>5, <2>1, <3>1
    <3> QED
      BY <1>8, <3>1, <3>2, <3>3
  <2> QED
    BY <2>2, <2>3
<1>10. ASSUME i < j PROVE Before(Below(i, p), Below(j, q))
  <2>1. 1 \in (1 .. m + 1) \cap (1 .. n + 1) /\ 1 .. 1 - 1 = {}
    BY <1>1, <1>2
  <2> QED
    BY <1>1, <1>2, <1>7, <1>10, <2>1
<1>11. ASSUME i = j, Before(p, q) PROVE Before(Below(i, p), Below(j, q))
  <2>1. PICK k \in (1 .. m) \cap (1 .. n) :
           p.at[k] < q.at[k] /\ \A l \in 1 .. k - 1 : p.at[l] = q.at[l]
    BY <1>8, <1>11
  <2>2. /\ k + 1 \in (1 .. m + 1) \cap (1 .. n + 1) /\ (k + 1) - 1 = k /\ k \in 1 .. n
        /\ k - 1 \in Nat /\ (k - 1) + 1 = k /\ k - 1 <= m /\ k - 1 <= n
    BY <1>1, <1>2, <2>1
  <2>3. a[k + 1] < b[k + 1]
    BY <1>1, <1>2, <2>1, <2>2
  <2>4. \A l \in 1 .. k : a[l] = b[l]
    BY <1>5, <1>11, <2>1, <2>2
  <2> QED
    BY <1>7, <2>2, <2>3, <2>4
<1>12. Before(Below(i, p), Below(j, q)) <=> i < j \/ (i = j /\ Before(p, q))
  BY <1>9, <1>10, <1>11
<1>13. Within(Below(j, q), Below(i, p)) <=> i = j /\ Within(q, p)
  <2>1. Within(Below(j, q), Below(i, p)) <=> m + 1 <= n + 1 /\ \A k \in 1 .. m + 1 : b[k] = a[k]
    BY <1>1, <1>2 DEF Within, a, b
  <2>2. Within(q, p) <=> m <= n /\ \A k \in 1 .. m : q.at[k] = p.at[k]
    BY <1>1, <1>2 DEF Within, m, n
  <2>3. m + 1 <= n + 1 <=> m <= n
    BY <1>1, <1>2
  <2>4. m <= n => ((\A k \in 1 .. m + 1 : a[k] = b[k]) <=> i = j /\ \A k \in 1 .. m : p.at[k] = q.at[k])
    <3>1. m \in Nat /\ m <= m
      BY <1>1
    <3> QED
      BY <1>5, <3>1
  <2> QED
    BY <2>1, <2>2, <2>3, <2>4
<1> QED
  BY <1>6, <1>12, <1>13 DEF Earlier

LEMMA PlaceAbove ==
    ASSUME NEW v, NEW i \in Nat, NEW p \in Places
    PROVE  /\ Within(p, Part(<<>>, v))
           /\ ~ Within(Part(<<>>, v), Below(i, p))
           /\ Earlier(Part(<<>>, v), Below(i, p))
<1>1. /\ Len(Part(<<>>, v).at) = 0 /\ DOMAIN Part(<<>>, v).at = {}
      /\ Len(p.at) \in Nat /\ Len(Below(i, p).at) = Len(p.at) + 1
      /\ Below(i, p) \in Places
  BY BelowIs DEF Part
<1>2. \A q \in Places : Len(q.at) \in Nat
  BY DEF Places
<1>3. \A q \in Places : Within(q, Part(<<>>, v))
  BY <1>1, <1>2 DEF Within
<1>4. ~ Within(Part(<<>>, v), Below(i, p))
  BY <1>1 DEF Within
<1> QED
  BY <1>1, <1>3, <1>4 DEF Earlier

(* Of two parts only one is the earlier.                                   *)
LEMMA EarlierOne == \A p, q \in Places : ~ (Earlier(p, q) /\ Earlier(q, p))
<1> SUFFICES ASSUME NEW p \in Places, NEW q \in Places PROVE ~ (Earlier(p, q) /\ Earlier(q, p))
  OBVIOUS
<1>1. \A r \in Places : Len(r.at) \in Nat /\ DOMAIN r.at = 1 .. Len(r.at)
                        /\ \A k \in 1 .. Len(r.at) : r.at[k] \in Nat
  BY ElementOfSeq DEF Places
<1>2. ASSUME NEW r \in Places, NEW s \in Places, Before(r, s)
      PROVE  ~ Before(s, r) /\ ~ Within(r, s) /\ ~ Within(s, r)
  <2>1. PICK k \in DOMAIN r.at \cap DOMAIN s.at :
           r.at[k] < s.at[k] /\ \A l \in 1 .. k - 1 : r.at[l] = s.at[l]
    BY <1>2 DEF Before
  <2>2. k \in Nat /\ r.at[k] \in Nat /\ s.at[k] \in Nat /\ r.at[k] # s.at[k]
    BY <1>1, <2>1
  <2>3. ~ Within(r, s) /\ ~ Within(s, r)
    BY <2>1, <2>2 DEF Within
  <2>4. ASSUME NEW n \in DOMAIN s.at \cap DOMAIN r.at, s.at[n] < r.at[n],
               \A l \in 1 .. n - 1 : s.at[l] = r.at[l]
        PROVE  FALSE
    <3>1. n \in Nat /\ s.at[n] \in Nat /\ r.at[n] \in Nat /\ n >= 1 /\ k >= 1
      BY <1>1, <2>1
    <3>2. n # k
      BY <2>1, <2>4, <3>1
    <3>3. ~ (n < k)
      BY <2>1, <2>2, <2>4, <3>1
    <3>4. ~ (k < n)
      BY <2>1, <2>2, <2>4, <3>1
    <3> QED
      BY <2>2, <3>1, <3>2, <3>3, <3>4
  <2>5. ~ Before(s, r)
    BY <2>4 DEF Before
  <2> QED
    BY <2>3, <2>5
<1> QED
  BY <1>2 DEF Earlier

(* The parts of a value are itself and the parts of its children.          *)
LEMMA PartsBelow ==
    ASSUME NEW v \in Tree
    PROVE  /\ Children(v) \in Seq(Tree) /\ DOMAIN Children(v) \subseteq Nat
           /\ \A i \in DOMAIN Children(v) : Children(v)[i] \in Tree /\ Children(v)[i] \in Held(v)
           /\ Parts[v] \subseteq Places
           /\ Part(<<>>, v) \in Parts[v] /\ Part(<<>>, v) \in Places
           /\ \A i \in DOMAIN Children(v) : \A p \in Parts[Children(v)[i]] : Below(i, p) \in Parts[v]
           /\ \A p \in Parts[v] : p # Part(<<>>, v) =>
                 \E i \in DOMAIN Children(v) : \E q \in Parts[Children(v)[i]] : p = Below(i, q)
<1>1. Children(v) \in Seq(Sent)
  BY SentAreTrees, ChildrenIn
<1>2. Children(v) \in Seq(Tree)
  BY <1>1, SentAreTrees, SeqMonotonic
<1>3. DOMAIN Children(v) \subseteq Nat
  BY <1>2
<1>4. \A i \in DOMAIN Children(v) : Children(v)[i] \in Held(v)
  BY DEF Held
<1>5. \A i \in DOMAIN Children(v) : Children(v)[i] \in Tree
  BY <1>4, HeldAreSent
<1>6. Part(<<>>, v) \in Places
  BY DEF Part, Places
<1> QED
  BY <1>2, <1>3, <1>4, <1>5, <1>6, PartsExist

LEMMA PositionsJoin ==
    \A s, t \in Seq(Nat) :
        /\ \A u \in Seq(Nat) : (u \o s) \o t = u \o (s \o t)
        /\ s \o t \in Seq(Nat) /\ Len(s \o t) = Len(s) + Len(t) /\ Len(s) <= Len(s \o t)
        /\ \A i \in DOMAIN s : (s \o t)[i] = s[i]
<1> SUFFICES ASSUME NEW s \in Seq(Nat), NEW t \in Seq(Nat)
             PROVE  /\ \A u \in Seq(Nat) : (u \o s) \o t = u \o (s \o t)
                    /\ s \o t \in Seq(Nat) /\ Len(s \o t) = Len(s) + Len(t) /\ Len(s) <= Len(s \o t)
                    /\ \A i \in DOMAIN s : (s \o t)[i] = s[i]
  OBVIOUS
<1>1. \A u \in Seq(Nat) : (u \o s) \o t = u \o (s \o t)
  BY ConcatAssociative, SMTT(30)
<1>2. Len(s) \in Nat /\ Len(t) \in Nat /\ DOMAIN s = 1 .. Len(s)
  OBVIOUS
<1>3. s \o t \in Seq(Nat) /\ Len(s \o t) = Len(s) + Len(t)
  BY ConcatProperties
<1>4. \A i \in 1 .. Len(s) + Len(t) : (s \o t)[i] = IF i <= Len(s) THEN s[i] ELSE t[i - Len(s)]
  BY ConcatProperties
<1>5. \A i \in 1 .. Len(s) : i \in 1 .. Len(s) + Len(t) /\ i <= Len(s)
  BY <1>2
<1> QED
  BY <1>1, <1>2, <1>3, <1>4, <1>5

(* The parts of a part are parts, which stand within it.                   *)
LEMMA PartsOfParts ==
    \A v \in Tree : \A p \in Parts[v] : \A q \in Parts[p.is] :
        LET r == Part(p.at \o q.at, q.is)
        IN r \in Parts[v] /\ Within(r, p) /\ r.is = q.is /\ Len(r.at) = Len(p.at) + Len(q.at)
<1> DEFINE Joined(p, q) == Part(p.at \o q.at, q.is)
           Q == {v \in Tree : \A p \in Parts[v] : \A q \in Parts[p.is] : Joined(p, q) \in Parts[v]}
<1>1. ASSUME NEW v \in Tree, Held(v) \subseteq Q, NEW p \in Parts[v], NEW q \in Parts[p.is]
      PROVE  Joined(p, q) \in Parts[v]
  <2>1. CASE p = Part(<<>>, v)
    <3>1. p.at = <<>> /\ p.is = v
      BY <2>1, PartIs
    <3>2. q \in Places /\ q \in Parts[v]
      BY <3>1, PartsBelow
    <3>3. <<>> \o q.at = q.at
      BY <3>2, ConcatEmptySeq DEF Places
    <3>4. Part(q.at, q.is) = q
      BY <3>2 DEF Part, Places
    <3> QED
      BY <3>1, <3>2, <3>3, <3>4
  <2>2. CASE p # Part(<<>>, v)
    <3>0. \A r \in Parts[v] : r # Part(<<>>, v) =>
              \E i \in DOMAIN Children(v) : \E s \in Parts[Children(v)[i]] : r = Below(i, s)
      BY PartsBelow
    <3>1. PICK i \in DOMAIN Children(v) : \E r \in Parts[Children(v)[i]] : p = Below(i, r)
      BY <2>2, <3>0
    <3> PICK r \in Parts[Children(v)[i]] : p = Below(i, r)
      BY <3>1
    <3>2. /\ i \in Nat /\ Children(v)[i] \in Tree /\ Children(v)[i] \in Q
          /\ r \in Places
      BY <1>1, PartsBelow
    <3>3. p.is = r.is /\ p.at = <<i>> \o r.at /\ r.is \in Tree
      BY <3>1, <3>2, BelowIs DEF Below, Part, Places
    <3>4. q \in Parts[r.is] /\ q \in Places
      BY <3>3, PartsBelow
    <3>5. Joined(r, q) \in Parts[Children(v)[i]]
      BY <3>2, <3>4
    <3>6. Below(i, Joined(r, q)) \in Parts[v]
      BY <3>5, PartsBelow
    <3>7. (<<i>> \o r.at) \o q.at = <<i>> \o (r.at \o q.at)
      <4>1. <<i>> \in Seq(Nat) /\ r.at \in Seq(Nat) /\ q.at \in Seq(Nat)
        BY <3>2, <3>4 DEF Places
      <4>2. \A u, s, t \in Seq(Nat) : (u \o s) \o t = u \o (s \o t)
        BY PositionsJoin
      <4> QED
        BY <4>1, <4>2, Zenon
    <3>8. Below(i, Joined(r, q)) = Joined(p, q)
      BY <3>3, <3>7, PartIs DEF Below
    <3> QED
      BY <3>6, <3>8
  <2> QED
    BY <2>1, <2>2
<1>2. Tree \subseteq Q
  <2>1. \A v \in Tree : Held(v) \subseteq Q => v \in Q
    BY <1>1
  <2> HIDE DEF Q
  <2> QED
    BY <2>1, TreeInduction
<1>3. ASSUME NEW v \in Tree, NEW p \in Parts[v], NEW q \in Parts[p.is]
      PROVE  /\ Within(Joined(p, q), p)
             /\ Joined(p, q).is = q.is /\ Len(Joined(p, q).at) = Len(p.at) + Len(q.at)
  <2>1. p \in Places /\ q \in Places
    <3>1. p \in Places /\ p.is \in Tree
      BY PartsBelow DEF Places
    <3> QED
      BY <3>1, PartsBelow
  <2>2. p.at \in Seq(Nat) /\ q.at \in Seq(Nat)
    BY <2>1 DEF Places
  <2>3. /\ Len(p.at \o q.at) = Len(p.at) + Len(q.at) /\ Len(p.at) <= Len(p.at \o q.at)
        /\ \A i \in DOMAIN p.at : (p.at \o q.at)[i] = p.at[i]
    BY <2>2, PositionsJoin
  <2>4. Joined(p, q).at = p.at \o q.at /\ Joined(p, q).is = q.is
    BY PartIs
  <2> QED
    BY <2>3, <2>4 DEF Within
<1> QED
  BY <1>2, <1>3

-----------------------------------------------------------------------------
(* What keys and paths lead to. *)

LEMMA GetIs ==
    ASSUME NEW v \in Tree, NEW key
    PROVE  \/ Get(v, key) = None
           \/ /\ IsObject(v)
              /\ \E i \in DOMAIN Children(v) : v.entries[i].key = key /\ Get(v, key) = Children(v)[i]
<1> SUFFICES ASSUME IsObject(v), key \in KeysOf(v)
             PROVE  \E i \in DOMAIN Children(v) : v.entries[i].key = key /\ Get(v, key) = Children(v)[i]
  BY DEF Get
<1>1. \E entry \in ToSet(v.entries) : entry.key = key
  BY DEF KeysOf, ToSet
<1> DEFINE found == CHOOSE entry \in ToSet(v.entries) : entry.key = key
<1>2. found \in ToSet(v.entries) /\ found.key = key
  BY <1>1
<1>3. Get(v, key) = found.value
  BY DEF Get
<1> HIDE DEF found
<1>4. PICK i \in DOMAIN v.entries : found = v.entries[i]
  BY <1>2 DEF ToSet
<1>5. DOMAIN Children(v) = DOMAIN v.entries /\ Children(v)[i] = v.entries[i].value
  BY <1>4, SentAreTrees, ChildrenIn
<1> QED
  BY <1>2, <1>3, <1>4, <1>5

LEMMA GetIsTree ==
    ASSUME NEW v \in Tree, NEW key
    PROVE  Get(v, key) \in Tree /\ (IsObject(v) => Get(v, key) \in Held(v))
<1>1. None \in Tree
  BY SentAreTrees
<1>2. IsObject(v) => None \in Held(v)
  BY DEF Held
<1>3. CASE Get(v, key) = None
  BY <1>1, <1>2, <1>3
<1>4. CASE Get(v, key) # None
  <2>1. PICK i \in DOMAIN Children(v) : Get(v, key) = Children(v)[i]
    BY <1>4, GetIs
  <2> QED
    BY <2>1, PartsBelow
<1> QED
  BY <1>3, <1>4

LEMMA StepIs ==
    ASSUME NEW v \in Tree, NEW step
    PROVE  Step(v, step) = None \/ \E i \in DOMAIN Children(v) : Step(v, step) = Children(v)[i]
<1>1. CASE step # "[0]"
  BY <1>1, GetIs DEF Step
<1>2. CASE step = "[0]" /\ IsList(v) /\ v.items # <<>>
  <2>1. Children(v) = v.items /\ v.items \in Seq(Sent)
    BY <1>2, SentAreTrees, ChildrenIn
  <2>2. 1 \in DOMAIN v.items /\ Head(v.items) = v.items[1]
    BY <1>2, <2>1
  <2> QED
    BY <1>2, <2>1, <2>2 DEF Step
<1>3. CASE step = "[0]" /\ ~ (IsList(v) /\ v.items # <<>>)
  BY <1>3 DEF Step
<1> QED
  BY <1>1, <1>2, <1>3

(* A path leads to a part of the value, or to nothing.                     *)
LEMMA DigIs ==
    ASSUME NEW raw \in Tree, NEW path, Len(path) \in Nat
    PROVE  /\ Dig(raw, path) \in Tree /\ (Len(path) # 0 => Dig(raw, path) \in Sent)
           /\ Dig(raw, path) = None \/ \E p \in Parts[raw] : p.is = Dig(raw, path)
<1> DEFINE n == Len(path)
           Met == {None} \cup {p.is : p \in Parts[raw]}
           D == [k \in 1 .. n |-> [r \in Met |-> Step(r, path[k])]]
<1>1. n \in Nat /\ None \in Tree
  BY SentAreTrees
<1>2. raw \in Met /\ Met \subseteq Tree
  BY <1>1, PartsBelow, PartIs DEF Places
<1>3. ASSUME NEW r \in Met, NEW step PROVE Step(r, step) \in Met
  <2>1. CASE Step(r, step) = None
    BY <2>1
  <2>2. CASE Step(r, step) # None
    <3>1. PICK i \in DOMAIN Children(r) : Step(r, step) = Children(r)[i]
      BY <1>2, <2>2, StepIs
    <3>2. r # None
      <4>1. Children(None) = <<>>
        BY DEF Children, None, IsObject, IsList
      <4> QED
        BY <3>1, <4>1
    <3>3. PICK p \in Parts[raw] : p.is = r
      BY <3>2
    <3>4. r \in Tree /\ Children(r)[i] \in Tree
      BY <1>2, <3>1, PartsBelow
    <3>5. Part(<<>>, Children(r)[i]) \in Parts[Children(r)[i]]
      BY <3>4, PartsBelow
    <3>6. Below(i, Part(<<>>, Children(r)[i])) \in Parts[r]
      BY <3>1, <3>4, <3>5, PartsBelow
    <3>7. Below(i, Part(<<>>, Children(r)[i])).is = Children(r)[i]
      BY PartIs DEF Below
    <3>8. \E q \in Parts[raw] : q.is = Children(r)[i]
      <4> DEFINE q == Below(i, Part(<<>>, Children(r)[i]))
      <4>1. q \in Parts[p.is] /\ q.is = Children(r)[i]
        BY <3>3, <3>6, <3>7
      <4> HIDE DEF q
      <4>2. LET s == Part(p.at \o q.at, q.is) IN s \in Parts[raw] /\ s.is = q.is
        BY <4>1, PartsOfParts
      <4> QED
        BY <4>1, <4>2
    <3> QED
      BY <3>1, <3>8
  <2> QED
    BY <2>1, <2>2
<1> HIDE DEF Met
<1>4. D \in [1 .. n -> [Met -> Met]]
  BY <1>3
<1>5. \A k \in 1 .. n, r \in Met : D[k][r] = Step(r, path[k])
  OBVIOUS
<1> HIDE DEF n, D
<1>6. PICK f \in [0 .. n -> Met] : f = [k \in 0 .. n |-> IF k = 0 THEN raw ELSE D[k][f[k - 1]]]
  <2>1. StepsIn(n, Met, raw, D)
    BY <1>1, <1>2, <1>4 DEF StepsIn
  <2> QED
    BY <2>1, Stepwise
<1>7. f = [k \in 0 .. n |-> IF k = 0 THEN raw ELSE Step(f[k - 1], path[k])]
  <2>1. ASSUME NEW k \in 0 .. n, k # 0 PROVE D[k][f[k - 1]] = Step(f[k - 1], path[k])
    <3>1. k \in 1 .. n /\ k - 1 \in 0 .. n
      BY <1>1, <2>1
    <3> QED
      BY <1>5, <3>1
  <2>2. \A k \in 0 .. n : f[k] = IF k = 0 THEN raw ELSE Step(f[k - 1], path[k])
    BY <1>6, <2>1
  <2> QED
    BY <1>6, <2>2
<1> DEFINE G == CHOOSE g : g = [k \in 0 .. n |-> IF k = 0 THEN raw ELSE Step(g[k - 1], path[k])]
<1>8. G = [k \in 0 .. n |-> IF k = 0 THEN raw ELSE Step(G[k - 1], path[k])]
  BY <1>7
<1>9. Dig(raw, path) = G[n]
  BY DEF Dig, n
<1> HIDE DEF G
<1>10. \A k \in 0 .. n : G[k] \in Met
  <2> DEFINE T == {k \in Nat : k <= n => G[k] \in Met}
  <2>1. 0 \in T
    BY <1>1, <1>2, <1>8
  <2>2. ASSUME NEW k \in Nat, k \in T PROVE k + 1 \in T
    <3> SUFFICES ASSUME k + 1 <= n PROVE G[k + 1] \in Met
      OBVIOUS
    <3>1. k + 1 \in 0 .. n /\ k + 1 # 0 /\ (k + 1) - 1 = k /\ k <= n
      BY <1>1
    <3>2. G[k + 1] = Step(G[k], path[k + 1])
      BY <1>8, <3>1
    <3> QED
      BY <1>3, <2>2, <3>1, <3>2
  <2> HIDE DEF T
  <2>3. Nat \subseteq T
    BY <2>1, <2>2, Induction
  <2> QED
    BY <1>1, <2>3 DEF T
<1>11. G[n] \in Met
  BY <1>1, <1>10
<1>12. Dig(raw, path) \in Met
  BY <1>9, <1>11
<1>13. n # 0 => Dig(raw, path) \in Sent
  <2> SUFFICES ASSUME n # 0 PROVE G[n] \in Sent
    BY <1>9
  <2>1. n \in 0 .. n /\ n \in 1 .. n /\ n - 1 \in 0 .. n /\ n - 1 \in Nat
    BY <1>1
  <2>2. G[n] = Step(G[n - 1], path[n])
    BY <1>8, <2>1
  <2>3. G[n - 1] \in Tree
    BY <1>2, <1>10, <2>1
  <2>4. \A i \in DOMAIN Children(G[n - 1]) : Children(G[n - 1])[i] \in Sent
    BY <2>3, PartsBelow, HeldAreSent
  <2> QED
    BY <2>2, <2>3, <2>4, StepIs, SentAreTrees
<1> QED
  BY <1>2, <1>12, <1>13 DEF Met, n
=============================================================================
