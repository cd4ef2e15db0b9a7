------------------------------- MODULE Induction -------------------------------
(***************************************************************************)
(* Induction and recursion, stated of sets and of functions: the library's *)
(* theorems take a predicate, which the provers cannot be given, and a set *)
(* says the same.                                                          *)
(*                                                                         *)
(* Over numbers it follows from the finite sets of numbers being well      *)
(* founded under inclusion.  Along a chain of wrappers nothing in a slot   *)
(* says that the chain ends: what says so is that of every set of layers   *)
(* one calls on to something outside of the set.  A layer nobody calls on  *)
(* to (Loose) can go on top without closing a cycle.                       *)
(***************************************************************************)
EXTENDS WrapperChain, FiniteSetTheorems, WellFoundedInduction, TLAPS

-----------------------------------------------------------------------------
(* Over numbers and positions.                                             *)

\* A set of numbers with zero and each successor has them all.
LEMMA EveryNumber ==
  ASSUME NEW S \in SUBSET Nat, 0 \in S, \A n \in S : n + 1 \in S
  PROVE  S = Nat
<1> DEFINE Below(n) == 1 .. n
           T == {Below(n) : n \in Nat \ S}
<1>1. IsWellFoundedOn(StrictSubsetOrdering(Nat), FiniteSubsetsOf(Nat))
  BY FS_StrictSubsetOrderingWellFounded
<1>2. T \subseteq FiniteSubsetsOf(Nat)
  <2>1. \A n \in Nat : Below(n) \in SUBSET Nat /\ IsFiniteSet(Below(n))
    BY FS_Interval
  <2>2. \A n \in Nat : Below(n) \in FiniteSubsetsOf(Nat)
    BY <2>1 DEF FiniteSubsetsOf
  <2> QED
    BY <2>2
<1>3. SUFFICES ASSUME T # {} PROVE FALSE
  OBVIOUS
<1>4. PICK x \in T : \A y \in T : ~(<<y, x>> \in StrictSubsetOrdering(Nat))
  <2> HIDE DEF T
  <2> QED
    BY <1>1, <1>2, <1>3, WFMin
<1>5. PICK n \in Nat \ S : x = Below(n)
  OBVIOUS
<1>6. n # 0 /\ n - 1 \in Nat
  BY <1>5
<1>7. n - 1 \in Nat \ S
  BY <1>5, <1>6
<1>8. <<Below(n - 1), Below(n)>> \in StrictSubsetOrdering(Nat)
  <2>1. Below(n - 1) \subseteq Below(n) /\ n \in Below(n) /\ n \notin Below(n - 1)
    BY <1>6
  <2> QED
    BY <2>1 DEF StrictSubsetOrdering
<1> QED
  BY <1>4, <1>5, <1>7, <1>8

\* A set of numbers that is not empty has a least one.
LEMMA LeastNumber ==
  ASSUME NEW B \in SUBSET Nat, B # {}
  PROVE  \E n \in B : \A m \in B : n <= m
<1> DEFINE S == {n \in Nat : \A m \in 0 .. n : m \notin B}
<1>1. SUFFICES ASSUME ~\E n \in B : \A m \in B : n <= m
               PROVE  FALSE
  OBVIOUS
<1>2. 0 \in S
  <2>1. 0 \notin B
    BY <1>1
  <2> QED
    BY <2>1
<1>3. ASSUME NEW n \in S PROVE n + 1 \in S
  <2>1. n + 1 \notin B
    <3>1. \A m \in B : ~(m < n + 1)
      BY <1>3
    <3> QED
      BY <1>1, <3>1
  <2>2. \A m \in 0 .. n + 1 : m \in 0 .. n \/ m = n + 1
    BY <1>3
  <2> QED
    BY <1>3, <2>1, <2>2
<1>4. S = Nat
  <2>1. S \in SUBSET Nat
    OBVIOUS
  <2> HIDE DEF S
  <2> QED
    BY <1>2, <1>3, <2>1, EveryNumber
<1>5. \A m \in Nat : m \in S /\ m \in 0 .. m
  BY <1>4
<1> QED
  BY <1>5

\* Likewise up to a bound.
LEMMA EveryPosition ==
  ASSUME NEW N \in Nat, NEW P, 0 \in P, \A n \in 1 .. N : n - 1 \in P => n \in P
  PROVE  \A n \in 0 .. N : n \in P
<1> DEFINE S == {n \in Nat : n <= N => n \in P}
<1>1. S \in SUBSET Nat /\ 0 \in S
  OBVIOUS
<1>2. ASSUME NEW n \in S PROVE n + 1 \in S
  <2>1. CASE n + 1 <= N
    <3>1. n + 1 \in 1 .. N /\ (n + 1) - 1 = n /\ n \in P
      BY <1>2, <2>1
    <3> QED
      BY <3>1
  <2>2. CASE ~(n + 1 <= N)
    BY <2>2
  <2> QED
    BY <2>1, <2>2
<1>3. S = Nat
  <2> HIDE DEF S
  <2> QED
    BY <1>1, <1>2, EveryNumber
<1> QED
  BY <1>3

\* f begins with b, and goes on at each position with what G makes of the one before.
Iterates(N, V, b, G, f) ==
  /\ f \in [0 .. N -> V]
  /\ f[0] = b
  /\ \A n \in 1 .. N : f[n] = G[n][f[n - 1]]

\* A recursion over positions has a solution.
LEMMA PositionRecursion ==
  ASSUME NEW N \in Nat, NEW V, NEW b \in V, NEW G \in [1 .. N -> [V -> V]]
  PROVE  \E f : Iterates(N, V, b, G, f)
<1> DEFINE Upto(n, f) == Iterates(n, V, b, G, f)
           P == {n \in 0 .. N : \E f : Upto(n, f)}
<1>1. 0 \in P
  <2>1. Upto(0, [i \in 0 .. 0 |-> b])
    BY DEF Iterates
  <2> QED
    BY <2>1
<1>2. ASSUME NEW n \in 1 .. N, n - 1 \in P
      PROVE  n \in P
  <2>1. PICK f : Upto(n - 1, f)
    BY <1>2
  <2> DEFINE g == [i \in 0 .. n |-> IF i = n THEN G[n][f[n - 1]] ELSE f[i]]
  <2>2. f[n - 1] \in V /\ G[n] \in [V -> V]
    BY <2>1 DEF Iterates
  <2>3. g \in [0 .. n -> V]
    BY <2>1, <2>2 DEF Iterates
  <2>4. \A i \in 0 .. n - 1 : g[i] = f[i]
    OBVIOUS
  <2>5. g[0] = b
    BY <2>1, <2>4 DEF Iterates
  <2>6. \A i \in 1 .. n : g[i] = G[i][g[i - 1]]
    <3>1. ASSUME NEW i \in 1 .. n, i # n PROVE g[i] = G[i][g[i - 1]]
      <4>1. i \in 1 .. n - 1 /\ i \in 0 .. n - 1 /\ i - 1 \in 0 .. n - 1
        BY <3>1
      <4> HIDE DEF g
      <4> QED
        BY <2>1, <2>4, <4>1 DEF Iterates
    <3>2. g[n] = G[n][f[n - 1]]
      OBVIOUS
    <3>3. g[n - 1] = f[n - 1]
      BY <2>4
    <3> HIDE DEF g
    <3> QED
      BY <3>1, <3>2, <3>3
  <2>7. Upto(n, g)
    BY <2>3, <2>5, <2>6 DEF Iterates
  <2> HIDE DEF g
  <2> QED
    BY <2>7
<1>3. N \in 0 .. N => N \in P
  <2> HIDE DEF P
  <2> QED
    BY <1>1, <1>2, EveryPosition
<1> QED
  BY <1>3

-----------------------------------------------------------------------------
(* Along a chain of wrappers. *)

\* A slot whose chain ends: no set of layers holds itself up, from every layer calls reach the method.
Chain(layers, base, s) ==
  /\ base \notin layers /\ s \in Slot(layers, base)
  /\ \A T \in SUBSET layers : T # {} => \E l \in T : s.below[l] \notin T

\* f gives the method b, and each layer what it makes of the value below it.
Along(layers, base, s, V, b, G, f) ==
  /\ f \in [layers \cup {base} -> V]
  /\ f[base] = b
  /\ \A l \in layers : f[l] = G[l][f[s.below[l]]]

\* A recursion along the chain has a solution.
LEMMA ChainRecursion ==
  ASSUME NEW Layers, NEW Base, NEW s, Chain(Layers, Base, s), NEW V, NEW b \in V, NEW G \in [Layers -> [V -> V]]
  PROVE  \E f : Along(Layers, Base, s, V, b, G, f)
<1> DEFINE All == Layers \cup {Base}
           Closed(D) == /\ D \in SUBSET All /\ Base \in D
                        /\ \A l \in D \ {Base} : s.below[l] \in D
           Solves(D, f) == /\ f \in [D -> V] /\ f[Base] = b
                           /\ \A l \in D \ {Base} : f[l] = G[l][f[s.below[l]]]
           Part(D, f) == Closed(D) /\ Solves(D, f)
<1>0. Base \notin Layers /\ s.below \in [Layers -> All]
  BY DEF Chain, Slot
<1>1. ASSUME NEW D, NEW f, NEW E, NEW g, Part(D, f), Part(E, g)
      PROVE  \A l \in D \cap E : f[l] = g[l]
  <2> DEFINE T == {l \in Layers \cap D \cap E : f[l] # g[l]}
  <2>1. SUFFICES T = {}
    BY <1>1
  <2>2. SUFFICES ASSUME T # {} PROVE FALSE
    OBVIOUS
  <2>3. PICK l \in T : s.below[l] \notin T
    BY <2>2 DEF Chain
  <2>4. s.below[l] \in D \cap E
    BY <1>0, <1>1
  <2>5. f[s.below[l]] = g[s.below[l]]
    BY <1>0, <1>1, <2>3, <2>4
  <2> QED
    BY <1>0, <1>1, <2>5
<1>2. \A l \in All : \E D, f : Part(D, f) /\ l \in D
  <2> DEFINE T == {l \in Layers : ~\E D, f : Part(D, f) /\ l \in D}
  <2>1. Part({Base}, [l \in {Base} |-> b])
    OBVIOUS
  <2>2. SUFFICES ASSUME T # {} PROVE FALSE
    BY <2>1
  <2>3. PICK l \in T : s.below[l] \notin T
    BY <2>2 DEF Chain
  <2>4. PICK D, f : Part(D, f) /\ s.below[l] \in D
    BY <1>0, <2>1, <2>3
  <2>5. l \notin D
    BY <2>3, <2>4
  <2> DEFINE E == D \cup {l}
             g == [m \in E |-> IF m = l THEN G[l][f[s.below[l]]] ELSE f[m]]
  <2>6. Closed(E)
    BY <1>0, <2>4
  <2>7. g \in [E -> V]
    BY <1>0, <2>4
  <2>8. g[Base] = b /\ \A m \in E \ {Base} : g[m] = G[m][g[s.below[m]]]
    BY <1>0, <2>4, <2>5
  <2>9. Part(E, g)
    BY <2>6, <2>7, <2>8
  <2> QED
    BY <2>9
<1> DEFINE Value(l) == CHOOSE v : \E D, f : Part(D, f) /\ l \in D /\ v = f[l]
           F == [l \in All |-> Value(l)]
<1>3. ASSUME NEW D, NEW f, Part(D, f), NEW l \in D
      PROVE  F[l] = f[l]
  <2>1. \E v : \E E, g : Part(E, g) /\ l \in E /\ v = g[l]
    BY <1>3
  <2>2. PICK E, g : Part(E, g) /\ l \in E /\ Value(l) = g[l]
    <3> HIDE DEF Part
    <3> QED BY <2>1
  <2>3. g[l] = f[l]
    BY <1>1, <1>3, <2>2
  <2> QED
    BY <1>3, <2>2, <2>3
<1> HIDE DEF F
<1>4. F[Base] = b
  <2>1. PICK D, f : Part(D, f) /\ Base \in D
    BY <1>2
  <2> QED
    BY <1>3, <2>1
<1>5. ASSUME NEW l \in Layers
      PROVE  F[l] = G[l][F[s.below[l]]]
  <2>1. PICK D, f : Part(D, f) /\ l \in D
    BY <1>2
  <2>2. s.below[l] \in D /\ f[l] = G[l][f[s.below[l]]]
    BY <1>0, <2>1
  <2> QED
    BY <1>3, <2>1, <2>2
<1>6. ASSUME NEW l \in All
      PROVE  F[l] \in V
  <2>1. PICK D, f : Part(D, f) /\ l \in D
    BY <1>2
  <2> QED
    BY <1>3, <2>1
<1>7. F \in [All -> V]
  BY <1>6 DEF F
<1> QED
  BY <1>4, <1>5, <1>7 DEF Along

\* What holds at the method and is passed up by every layer holds at every layer.
LEMMA ChainInduction ==
  ASSUME NEW Layers, NEW Base, NEW s, Chain(Layers, Base, s), NEW P, Base \in P,
         \A l \in Layers : s.below[l] \in P => l \in P
  PROVE  \A l \in Layers \cup {Base} : l \in P
<1> DEFINE T == Layers \ P
<1>1. SUFFICES ASSUME T # {} PROVE FALSE
  OBVIOUS
<1>2. PICK l \in T : s.below[l] \notin T
  BY <1>1 DEF Chain
<1>3. s.below[l] \in Layers \cup {Base}
  BY DEF Chain, Slot
<1> QED
  BY <1>2, <1>3

\* The layers from a layer on are itself and those from the one below it on.
Descends(layers, base, s) ==
  /\ From(s) \in [layers \cup {base} -> SUBSET layers]
  /\ From(s)[base] = {}
  /\ \A l \in layers : From(s)[l] = {l} \cup From(s)[s.below[l]]

\* That holds of every chain.
LEMMA FromEquation ==
  ASSUME NEW Layers, NEW Base, NEW s, Chain(Layers, Base, s)
  PROVE  Descends(Layers, Base, s)
<1> DEFINE All == Layers \cup {Base}
           D == DOMAIN s.below \cup Range(s.below) \cup {s.top}
           Def(f) == [l \in D |-> IF l \in DOMAIN s.below THEN {l} \cup f[s.below[l]] ELSE {}]
           G == [l \in Layers |-> [v \in SUBSET Layers |-> {l} \cup v]]
           from == CHOOSE f : f = Def(f)
<1>0. Base \notin Layers /\ s.below \in [Layers -> All]
  BY DEF Chain, Slot
<1>1. G \in [Layers -> [SUBSET Layers -> SUBSET Layers]]
  OBVIOUS
<1>a. D = All /\ DOMAIN s.below = Layers
  <2>1. s.top \in All /\ DOMAIN s.below = Layers /\ Range(s.below) \subseteq All
    BY <1>0 DEF Chain, Slot, Range
  <2>2. CASE Layers = {}
    BY <2>1, <2>2
  <2>3. CASE Layers # {}
    <3>1. PICK l \in Layers : s.below[l] \notin Layers
      BY <2>3 DEF Chain
    <3>2. Base \in Range(s.below)
      BY <1>0, <3>1 DEF Range
    <3> QED
      BY <2>1, <3>2
  <2> QED
    BY <2>2, <2>3
<1> HIDE DEF D
<1>2. PICK f \in [All -> SUBSET Layers] :
        f[Base] = {} /\ \A l \in Layers : f[l] = G[l][f[s.below[l]]]
  <2> DEFINE V == SUBSET Layers
             b == {}
  <2>1. b \in V /\ G \in [Layers -> [V -> V]]
    BY <1>1
  <2> HIDE DEF V, b, G
  <2>2. \E f : Along(Layers, Base, s, V, b, G, f)
    BY <2>1, ChainRecursion
  <2> QED
    BY <2>2 DEF Along, V, b
<1>3. f = Def(f)
  BY <1>0, <1>a, <1>2
<1>4. from = Def(from)
  <2> HIDE DEF Def
  <2> QED
    BY <1>3
<1>5. From(s) = from
  BY DEF From, D
<1> HIDE DEF from
<1>6. from[Base] = {} /\ \A l \in Layers : from[l] = {l} \cup from[s.below[l]]
  BY <1>0, <1>a, <1>4
<1> DEFINE P == {l \in All : from[l] \in SUBSET Layers}
<1>7. \A l \in All : l \in P
  <2>1. Base \in P /\ \A l \in Layers : s.below[l] \in P => l \in P
    BY <1>6
  <2> HIDE DEF P
  <2> QED
    BY <2>1, ChainInduction
<1>8. from \in [All -> SUBSET Layers]
  BY <1>4, <1>a, <1>7
<1> QED
  BY <1>5, <1>6, <1>8 DEF Descends

\* No layer is below itself.
LEMMA NotBelowItself ==
  ASSUME NEW Layers, NEW Base, NEW s, Chain(Layers, Base, s), NEW l \in Layers
  PROVE  l \notin From(s)[s.below[l]]
<1> DEFINE T == {m \in Layers : l \in From(s)[m]}
<1>0. /\ From(s)[Base] = {}
      /\ \A m \in Layers : From(s)[m] = {m} \cup From(s)[s.below[m]]
  <2>1. Descends(Layers, Base, s)
    BY FromEquation
  <2> QED
    BY <2>1 DEF Descends
<1>1. l \in T
  BY <1>0
<1>2. PICK m \in T : s.below[m] \notin T
  <2> HIDE DEF T
  <2>1. T \in SUBSET Layers
    BY DEF T
  <2> QED
    BY <1>1, <2>1 DEF Chain
<1>3. s.below[m] \in Layers \cup {Base}
  BY DEF Chain, Slot
<1>4. l \notin From(s)[s.below[m]]
  BY <1>0, <1>2, <1>3
<1>5. m = l
  BY <1>0, <1>2, <1>4
<1> QED
  BY <1>4, <1>5

(* What a mount and a disposal do to the chain. *)

\* Nobody has this layer below it.
Loose(s, l) == s.top # l /\ \A m \in DOMAIN s.below : s.below[m] # l

\* A loose layer put on top adds itself to the path, and to no other.
LEMMA WrappedChain ==
  ASSUME NEW Layers, NEW Base, NEW s, Chain(Layers, Base, s), NEW l \in Layers, Loose(s, l)
  PROVE  /\ Chain(Layers, Base, WrappedBy(s, l))
         /\ Through(WrappedBy(s, l)) = {l} \cup Through(s)
<1> DEFINE t == WrappedBy(s, l)
           All == Layers \cup {Base}
<1>0. /\ Base \notin Layers /\ s.below \in [Layers -> All] /\ s.top \in All /\ s.top # l
      /\ \A m \in Layers : s.below[m] # l
  BY DEF Chain, Slot, Loose
<1>1. t \in Slot(Layers, Base) /\ t.top = l /\ t.below[l] = s.top
      /\ \A m \in Layers \ {l} : t.below[m] = s.below[m]
  BY <1>0 DEF WrappedBy, Slot
<1> HIDE DEF t
<1>2. ASSUME NEW T \in SUBSET Layers, T # {}
      PROVE  \E m \in T : t.below[m] \notin T
  <2>1. CASE T = {l}
    BY <1>0, <1>1, <2>1
  <2>2. CASE T # {l}
    <3>1. T \ {l} # {} /\ T \ {l} \in SUBSET Layers
      BY <1>2, <2>2
    <3>2. PICK m \in T \ {l} : s.below[m] \notin T \ {l}
      BY <3>1 DEF Chain
    <3> QED
      BY <1>0, <1>1, <3>2
  <2> QED
    BY <2>1, <2>2
<1>3. Chain(Layers, Base, t)
  BY <1>1, <1>2 DEF Chain
<1>a. /\ From(s)[Base] = {}
      /\ \A m \in Layers : From(s)[m] = {m} \cup From(s)[s.below[m]]
  <2>1. Descends(Layers, Base, s)
    BY FromEquation
  <2> QED
    BY <2>1 DEF Descends
<1>b. /\ From(t)[Base] = {}
      /\ \A m \in Layers : From(t)[m] = {m} \cup From(t)[t.below[m]]
  <2>1. Descends(Layers, Base, t)
    BY <1>3, FromEquation
  <2> QED
    BY <2>1 DEF Descends
<1> DEFINE P == {m \in All : m # l => From(t)[m] = From(s)[m]}
<1>4. \A m \in All : m \in P
  <2>1. Base \in P
    BY <1>a, <1>b
  <2>2. ASSUME NEW m \in Layers, s.below[m] \in P
        PROVE  m \in P
    <3>1. CASE m = l
      BY <3>1
    <3>2. CASE m # l
      <4>1. t.below[m] = s.below[m] /\ s.below[m] # l
        BY <1>0, <1>1, <3>2
      <4>2. From(t)[s.below[m]] = From(s)[s.below[m]]
        BY <2>2, <4>1
      <4>3. From(t)[m] = From(s)[m]
        BY <1>a, <1>b, <4>1, <4>2
      <4> QED
        BY <4>3
    <3> QED
      BY <3>1, <3>2
  <2> HIDE DEF P
  <2> QED
    BY <2>1, <2>2, ChainInduction
<1>5. From(t)[s.top] = From(s)[s.top]
  BY <1>0, <1>4
<1>6. Through(t) = {l} \cup From(t)[s.top]
  BY <1>1, <1>b DEF Through
<1> QED
  BY <1>1, <1>3, <1>5, <1>6 DEF Through, t

\* Restoring the slot takes the layer out of the path if it is on top, and nothing otherwise.
LEMMA RestoredChain ==
  ASSUME NEW Layers, NEW Base, NEW s, Chain(Layers, Base, s), NEW l \in Layers
  PROVE  /\ Chain(Layers, Base, RestoredBy(s, l))
         /\ Through(RestoredBy(s, l)) = IF s.top = l THEN Through(s) \ {l} ELSE Through(s)
<1> DEFINE t == RestoredBy(s, l)
<1>1. t \in Slot(Layers, Base) /\ t.below = s.below
      /\ t.top = IF s.top = l THEN s.below[l] ELSE s.top
  BY DEF Chain, RestoredBy, Slot
<1> HIDE DEF t
<1>2. Chain(Layers, Base, t)
  BY <1>1 DEF Chain
<1>a. /\ From(s)[Base] = {}
      /\ \A m \in Layers : From(s)[m] = {m} \cup From(s)[s.below[m]]
  <2>1. Descends(Layers, Base, s)
    BY FromEquation
  <2> QED
    BY <2>1 DEF Descends
<1>b. /\ From(t)[Base] = {}
      /\ \A m \in Layers : From(t)[m] = {m} \cup From(t)[s.below[m]]
  <2>1. Descends(Layers, Base, t)
    BY <1>2, FromEquation
  <2> QED
    BY <1>1, <2>1 DEF Descends
<1> DEFINE P == {m \in Layers \cup {Base} : From(t)[m] = From(s)[m]}
<1>3. \A m \in Layers \cup {Base} : m \in P
  <2>1. Base \in P
    BY <1>a, <1>b
  <2>2. ASSUME NEW m \in Layers, s.below[m] \in P
        PROVE  m \in P
    BY <1>a, <1>b, <2>2
  <2> HIDE DEF P
  <2> QED
    BY <2>1, <2>2, ChainInduction
<1>4. t.top \in Layers \cup {Base}
  BY <1>1 DEF Chain, Slot
<1>5. Through(t) = From(s)[t.top]
  BY <1>3, <1>4 DEF Through
<1>6. s.top = l => Through(s) = {l} \cup From(s)[s.below[l]]
  BY <1>a DEF Through
<1>7. l \notin From(s)[s.below[l]]
  BY NotBelowItself
<1> QED
  BY <1>1, <1>2, <1>5, <1>6, <1>7 DEF Through, t
=============================================================================
