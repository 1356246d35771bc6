---------------------------- MODULE GreedyProofs ----------------------------
(***************************************************************************)
(* Facts about the operators of the solver and of the views for any team,  *)
(* calendar and request: sums and products, working days, the places that  *)
(* the solver gives, how long they last, and what a board of them shows.   *)
(***************************************************************************)
EXTENDS LoadViews, FiniteSetTheorems, WellFoundedInduction, TLAPS

-----------------------------------------------------------------------------
(* Minimal elements, in the place of induction                             *)

LEMMA NatHasLeast ==
    ASSUME NEW T \in SUBSET Nat, T # {}
    PROVE  \E n \in T : \A m \in T : n <= m
<1> DEFINE less == {ss \in Nat \X Nat : ss[1] < ss[2]}
<1>1. IsWellFoundedOn(less, Nat) BY NatLessThanWellFounded DEF OpToRel
<1>2. \E x \in T : \A y \in T : ~(<<y, x>> \in less)
  <2> HIDE DEF less
  <2> QED BY <1>1, WFMin
<1>3. PICK n \in T : \A y \in T : ~(<<y, n>> \in less) BY <1>2
<1>4. ASSUME NEW m \in T PROVE n <= m
  <2>1. <<m, n>> \notin less /\ <<m, n>> \in Nat \X Nat BY <1>3
  <2>2. ~(m < n) BY <2>1
  <2> QED BY <2>2
<1> QED BY <1>4

LEMMA LeastOf ==
    ASSUME NEW T \in SUBSET Nat, T # {}
    PROVE  Least(T) \in T /\ \A m \in T : Least(T) <= m
BY NatHasLeast DEF Least

(* Of the sets of a nonempty family of finite sets, one includes no other. *)
LEMMA MinimalSet ==
    ASSUME NEW S, IsFiniteSet(S), NEW F \in SUBSET (SUBSET S), F # {}
    PROVE  \E T \in F : \A U \in SUBSET T : U # T => U \notin F
<1>1. \A T \in F : IsFiniteSet(T) /\ Cardinality(T) \in Nat
  BY FS_Subset, FS_CardinalityType
<1> DEFINE sizes == {Cardinality(T) : T \in F}
<1>2. \E n \in sizes : \A m \in sizes : n <= m
  <2>1. sizes \in SUBSET Nat /\ sizes # {} BY <1>1
  <2> QED BY <2>1, NatHasLeast
<1>3. PICK T \in F : \A U \in F : Cardinality(T) <= Cardinality(U)
  BY <1>2
<1>4. ASSUME NEW U \in SUBSET T, U # T, U \in F PROVE FALSE
  <2>1. Cardinality(U) <= Cardinality(T) /\ (Cardinality(T) = Cardinality(U) => T = U)
    BY FS_Subset, <1>1, <1>3
  <2>2. Cardinality(T) <= Cardinality(U) BY <1>3, <1>4
  <2> QED BY <2>1, <2>2, <1>1, <1>3, <1>4
<1> QED BY <1>3, <1>4

-----------------------------------------------------------------------------
(* Sums over finite sets                                                   *)

Pick(s) == CHOOSE x \in s : TRUE

Unfolds(f, D, h) ==
    h = [s \in D |-> IF s = {} THEN 0
                     ELSE f[CHOOSE x \in s : TRUE] + h[s \ {CHOOSE x \in s : TRUE}]]

LEMMA SumIs ==
    ASSUME NEW f, NEW S, \E h : Unfolds(f, SUBSET S, h)
    PROVE  \E h : Unfolds(f, SUBSET S, h) /\ SumFunctionOnSet(f, S) = h[S]
BY DEF SumFunctionOnSet, FoldFunctionOnSet, MapThenFoldSet, Unfolds

LEMMA PickIsIn == \A s : s # {} => Pick(s) \in s
BY DEF Pick

LEMMA UnfoldsAt ==
    ASSUME NEW f, NEW S, NEW h, Unfolds(f, SUBSET S, h)
    PROVE  /\ h[{}] = 0
           /\ \A s \in SUBSET S : s # {} => h[s] = f[Pick(s)] + h[s \ {Pick(s)}]
BY DEF Unfolds, Pick

(* Two unfoldings agree where both are defined.                            *)
LEMMA UnfoldsOnce ==
    ASSUME NEW f, NEW A, NEW B, NEW g, NEW h, NEW S, IsFiniteSet(S),
           S \subseteq A, S \subseteq B,
           Unfolds(f, SUBSET A, g), Unfolds(f, SUBSET B, h)
    PROVE  g[S] = h[S]
<1> DEFINE bad == {T \in SUBSET S : g[T] # h[T]}
<1>1. SUFFICES ASSUME bad # {} PROVE FALSE OBVIOUS
<1>2. PICK T \in bad : \A U \in SUBSET T : U # T => U \notin bad
  <2>1. bad \in SUBSET (SUBSET S) OBVIOUS
  <2> HIDE DEF bad
  <2> QED BY <1>1, <2>1, MinimalSet
<1>3. T # {} BY <1>2, UnfoldsAt
<1>4. Pick(T) \in T BY <1>3, PickIsIn
<1>5. g[T \ {Pick(T)}] = h[T \ {Pick(T)}] BY <1>2, <1>4
<1> QED BY <1>2, <1>3, <1>5, UnfoldsAt

LEMMA UnfoldsExists ==
    ASSUME NEW f, NEW S, IsFiniteSet(S)
    PROVE  \E h : Unfolds(f, SUBSET S, h)
<1> DEFINE bad == {T \in SUBSET S : ~\E h : Unfolds(f, SUBSET T, h)}
<1>1. SUFFICES ASSUME bad # {} PROVE FALSE OBVIOUS
<1>2. PICK T \in bad : \A U \in SUBSET T : U # T => U \notin bad
  <2>1. bad \in SUBSET (SUBSET S) OBVIOUS
  <2> HIDE DEF bad
  <2> QED BY <1>1, <2>1, MinimalSet
<1> DEFINE val(s) == (CHOOSE h : Unfolds(f, SUBSET s, h))[s]
           H == [s \in SUBSET T |-> IF s = {} THEN 0 ELSE f[Pick(s)] + val(s \ {Pick(s)})]
<1>3. ASSUME NEW U \in SUBSET T, U # T
      PROVE  Unfolds(f, SUBSET U, CHOOSE h : Unfolds(f, SUBSET U, h))
  <2>1. U \in SUBSET S BY <1>2
  <2>2. \E h : Unfolds(f, SUBSET U, h) BY <1>2, <1>3, <2>1
  <2> QED BY <2>2
<1>4. ASSUME NEW U \in SUBSET T, U # T PROVE H[U] = val(U)
  <2> DEFINE hU == CHOOSE h : Unfolds(f, SUBSET U, h)
  <2>1. Unfolds(f, SUBSET U, hU) BY <1>3, <1>4
  <2>2. CASE U = {} BY <2>1, <2>2, UnfoldsAt
  <2>3. CASE U # {}
    <3> DEFINE V == U \ {Pick(U)}
               hV == CHOOSE h : Unfolds(f, SUBSET V, h)
    <3>1. V \in SUBSET T /\ V # T /\ V \in SUBSET U /\ IsFiniteSet(V)
      <4>1. V \in SUBSET S BY <1>2
      <4> QED BY <2>3, PickIsIn, <1>4, <4>1, FS_Subset
    <3>2. Unfolds(f, SUBSET V, hV) BY <1>3, <3>1
    <3>3. hU[V] = hV[V]
      <4> HIDE DEF hU, hV, V
      <4> QED BY <2>1, <3>1, <3>2, UnfoldsOnce
    <3>4. hU[U] = f[Pick(U)] + hU[V] BY <2>1, <2>3, UnfoldsAt
    <3>5. H[U] = f[Pick(U)] + hV[V] BY <2>3
    <3> QED BY <3>3, <3>4, <3>5
  <2> QED BY <2>2, <2>3
<1>5. \A s \in SUBSET T : s # {} => H[s \ {Pick(s)}] = val(s \ {Pick(s)})
  <2> SUFFICES ASSUME NEW s \in SUBSET T, s # {}
               PROVE  H[s \ {Pick(s)}] = val(s \ {Pick(s)})
    OBVIOUS
  <2>1. s \ {Pick(s)} \in SUBSET T /\ s \ {Pick(s)} # T BY PickIsIn
  <2> HIDE DEF H, val
  <2> QED BY <1>4, <2>1
<1>6. Unfolds(f, SUBSET T, H)
  <2>1. H = [s \in SUBSET T |-> IF s = {} THEN 0 ELSE f[Pick(s)] + H[s \ {Pick(s)}]]
    <3> DEFINE G == [s \in SUBSET T |-> IF s = {} THEN 0 ELSE f[Pick(s)] + H[s \ {Pick(s)}]]
    <3>1. ASSUME NEW s \in SUBSET T PROVE H[s] = G[s]
      <4>1. H[s] = IF s = {} THEN 0 ELSE f[Pick(s)] + val(s \ {Pick(s)}) OBVIOUS
      <4>2. G[s] = IF s = {} THEN 0 ELSE f[Pick(s)] + H[s \ {Pick(s)}]
        <5> HIDE DEF H
        <5> QED OBVIOUS
      <4> HIDE DEF H, G, val
      <4> QED BY <4>1, <4>2, <1>5
    <3>2. H = [s \in SUBSET T |-> H[s]] OBVIOUS
    <3> HIDE DEF H
    <3> QED BY <3>1, <3>2
  <2> HIDE DEF H
  <2> QED BY <2>1 DEF Unfolds, Pick
<1> QED BY <1>2, <1>6

LEMMA SumEmpty == \A f, S : S = {} => SumFunctionOnSet(f, S) = 0
<1> SUFFICES ASSUME NEW f PROVE SumFunctionOnSet(f, {}) = 0 OBVIOUS
<1>1. PICK h : Unfolds(f, SUBSET {}, h) /\ SumFunctionOnSet(f, {}) = h[{}]
  BY FS_EmptySet, UnfoldsExists, SumIs
<1> QED BY <1>1, UnfoldsAt

LEMMA SumStep ==
    ASSUME NEW f, NEW S, IsFiniteSet(S), S # {}
    PROVE  /\ Pick(S) \in S
           /\ SumFunctionOnSet(f, S) = f[Pick(S)] + SumFunctionOnSet(f, S \ {Pick(S)})
<1> DEFINE R == S \ {Pick(S)}
<1>1. Pick(S) \in S /\ R \subseteq S /\ IsFiniteSet(R) BY PickIsIn, FS_RemoveElement
<1>2. PICK g : Unfolds(f, SUBSET S, g) /\ SumFunctionOnSet(f, S) = g[S]
  BY UnfoldsExists, SumIs
<1>3. PICK h : Unfolds(f, SUBSET R, h) /\ SumFunctionOnSet(f, R) = h[R]
  BY <1>1, UnfoldsExists, SumIs
<1>4. g[R] = h[R]
  <2> HIDE DEF R
  <2> QED BY <1>1, <1>2, <1>3, UnfoldsOnce
<1>5. g[S] = f[Pick(S)] + g[R] BY <1>2, UnfoldsAt
<1> QED BY <1>1, <1>2, <1>3, <1>4, <1>5

LEMMA SumIsInt ==
    ASSUME NEW f, NEW S, IsFiniteSet(S), \A x \in S : f[x] \in Int
    PROVE  SumFunctionOnSet(f, S) \in Int
<1> DEFINE bad == {T \in SUBSET S : SumFunctionOnSet(f, T) \notin Int}
<1>1. SUFFICES ASSUME bad # {} PROVE FALSE OBVIOUS
<1>2. PICK T \in bad : \A U \in SUBSET T : U # T => U \notin bad
  <2>1. bad \in SUBSET (SUBSET S) OBVIOUS
  <2> HIDE DEF bad
  <2> QED BY <1>1, <2>1, MinimalSet
<1>3. T \in SUBSET S /\ SumFunctionOnSet(f, T) \notin Int BY <1>2
<1>4. T # {} /\ IsFiniteSet(T) BY <1>3, SumEmpty, FS_Subset
<1>5. Pick(T) \in T /\ SumFunctionOnSet(f, T) = f[Pick(T)] + SumFunctionOnSet(f, T \ {Pick(T)})
  BY <1>4, SumStep
<1>6. SumFunctionOnSet(f, T \ {Pick(T)}) \in Int BY <1>2, <1>5
<1> QED BY <1>3, <1>5, <1>6

(* Any element can be taken out.                                           *)
LEMMA SumOut ==
    ASSUME NEW f, NEW S, IsFiniteSet(S), \A y \in S : f[y] \in Int, NEW x \in S
    PROVE  SumFunctionOnSet(f, S) = f[x] + SumFunctionOnSet(f, S \ {x})
<1> DEFINE P(T) == \A z \in T :
                       SumFunctionOnSet(f, T) = f[z] + SumFunctionOnSet(f, T \ {z})
           bad == {T \in SUBSET S : ~P(T)}
<1>1. SUFFICES ASSUME bad # {} PROVE FALSE OBVIOUS
<1>2. PICK T \in bad : \A U \in SUBSET T : U # T => U \notin bad
  <2>1. bad \in SUBSET (SUBSET S) OBVIOUS
  <2> HIDE DEF bad
  <2> QED BY <1>1, <2>1, MinimalSet
<1>3. PICK z \in T : SumFunctionOnSet(f, T) # f[z] + SumFunctionOnSet(f, T \ {z})
  BY <1>2
<1> DEFINE p == Pick(T)
<1>4. T # {} /\ IsFiniteSet(T) /\ T \subseteq S BY <1>2, <1>3, FS_Subset
<1>5. p \in T /\ SumFunctionOnSet(f, T) = f[p] + SumFunctionOnSet(f, T \ {p})
  BY <1>4, SumStep
<1>6. p # z BY <1>3, <1>5
<1>7. SumFunctionOnSet(f, T \ {p}) = f[z] + SumFunctionOnSet(f, (T \ {p}) \ {z})
  <2>1. T \ {p} \in SUBSET S /\ T \ {p} # T /\ T \ {p} \in SUBSET T /\ z \in T \ {p}
    BY <1>4, <1>5, <1>6
  <2> QED BY <1>2, <2>1
<1>8. SumFunctionOnSet(f, T \ {z}) = f[p] + SumFunctionOnSet(f, (T \ {z}) \ {p})
  <2>1. T \ {z} \in SUBSET S /\ T \ {z} # T /\ T \ {z} \in SUBSET T /\ p \in T \ {z}
    BY <1>4, <1>5, <1>6
  <2> QED BY <1>2, <2>1
<1>9. SumFunctionOnSet(f, (T \ {p}) \ {z}) = SumFunctionOnSet(f, (T \ {z}) \ {p})
  <2>1. (T \ {p}) \ {z} = (T \ {z}) \ {p} OBVIOUS
  <2> HIDE DEF p
  <2> QED BY <2>1, Zenon
<1>10. SumFunctionOnSet(f, (T \ {p}) \ {z}) \in Int
  <2>1. IsFiniteSet((T \ {p}) \ {z}) BY <1>4, FS_RemoveElement
  <2> QED BY <2>1, <1>4, SumIsInt
<1>11. f[p] \in Int /\ f[z] \in Int BY <1>4, <1>5
<1> HIDE DEF p
<1> QED BY <1>3, <1>5, <1>7, <1>8, <1>9, <1>10, <1>11

LEMMA SumIn ==
    ASSUME NEW f, NEW S, IsFiniteSet(S), NEW x, x \notin S,
           \A y \in S \cup {x} : f[y] \in Int
    PROVE  SumFunctionOnSet(f, S \cup {x}) = f[x] + SumFunctionOnSet(f, S)
<1>1. IsFiniteSet(S \cup {x}) /\ (S \cup {x}) \ {x} = S BY FS_AddElement
<1>2. x \in S \cup {x} OBVIOUS
<1> QED BY <1>1, <1>2, SumOut

(* Termwise                                                                *)
Adds(h, f, g, S) ==
    \A x \in S : f[x] \in Int /\ g[x] \in Int /\ h[x] = f[x] + g[x]

LEMMA SumOfSums ==
    ASSUME NEW f, NEW g, NEW h, NEW S, IsFiniteSet(S), Adds(h, f, g, S)
    PROVE  SumFunctionOnSet(h, S) = SumFunctionOnSet(f, S) + SumFunctionOnSet(g, S)
<1> DEFINE Sum(e, T) == SumFunctionOnSet(e, T)
           P(T) == Sum(h, T) = Sum(f, T) + Sum(g, T)
           bad == {T \in SUBSET S : ~P(T)}
<1>0. \A x \in S : f[x] \in Int /\ g[x] \in Int /\ h[x] \in Int /\ h[x] = f[x] + g[x]
  BY DEF Adds
<1>1. SUFFICES ASSUME bad # {} PROVE FALSE OBVIOUS
<1>2. PICK T \in bad : \A U \in SUBSET T : U # T => U \notin bad
  <2>1. bad \in SUBSET (SUBSET S) OBVIOUS
  <2> HIDE DEF bad
  <2> QED BY <1>1, <2>1, MinimalSet
<1>3. T \subseteq S /\ IsFiniteSet(T) BY <1>2, FS_Subset
<1>4. T # {}
  <2>1. ASSUME T = {} PROVE FALSE
    <3>1. Sum(f, T) = 0 /\ Sum(g, T) = 0 /\ Sum(h, T) = 0 BY <2>1, SumEmpty
    <3> HIDE DEF Sum
    <3> QED BY <1>2, <3>1
  <2> QED BY <2>1
<1>5. PICK x \in T : TRUE BY <1>4
<1> DEFINE U == T \ {x}
<1>6. /\ Sum(f, T) = f[x] + Sum(f, U) /\ Sum(g, T) = g[x] + Sum(g, U)
      /\ Sum(h, T) = h[x] + Sum(h, U)
  BY <1>0, <1>3, <1>5, SumOut
<1>7. Sum(f, U) \in Int /\ Sum(g, U) \in Int /\ Sum(h, U) \in Int
  BY <1>0, <1>3, <1>5, SumIsInt, FS_RemoveElement
<1>8. P(U)
  <2>1. U \in SUBSET S /\ U \in SUBSET T /\ U # T BY <1>3, <1>5
  <2> HIDE DEF P
  <2> QED BY <1>2, <2>1
<1>9. f[x] \in Int /\ g[x] \in Int /\ h[x] = f[x] + g[x] BY <1>0, <1>3, <1>5
<1> HIDE DEF Sum
<1>10. P(T) BY <1>5, <1>6, <1>7, <1>8, <1>9
<1> QED BY <1>2, <1>10

(* What is left out counts for what it is.                                 *)
LEMMA SumSplit ==
    ASSUME NEW f, NEW S, IsFiniteSet(S), NEW T, IsFiniteSet(T), S \cap T = {},
           \A x \in S \cup T : f[x] \in Int
    PROVE  SumFunctionOnSet(f, S \cup T) = SumFunctionOnSet(f, S) + SumFunctionOnSet(f, T)
<1> DEFINE Sum(X) == SumFunctionOnSet(f, X)
           bad == {X \in SUBSET T : Sum(S \cup X) # Sum(S) + Sum(X)}
<1>1. SUFFICES ASSUME bad # {} PROVE FALSE OBVIOUS
<1>2. PICK X \in bad : \A U \in SUBSET X : U # X => U \notin bad
  <2>1. bad \in SUBSET (SUBSET T) OBVIOUS
  <2> HIDE DEF bad
  <2> QED BY <1>1, <2>1, MinimalSet
<1>3. X \subseteq T /\ IsFiniteSet(X) BY <1>2, FS_Subset
<1>4. Sum(S) \in Int BY SumIsInt
<1>5. X # {}
  <2>1. ASSUME X = {} PROVE FALSE
    <3>1. Sum(S \cup X) = Sum(S) /\ Sum(X) = 0
      <4>1. S \cup X = S BY <2>1
      <4>2. Sum(S \cup X) = Sum(S)
        <5> HIDE DEF Sum
        <5> QED BY <4>1, Zenon
      <4> QED BY <4>2, <2>1, SumEmpty
    <3>2. Sum(S \cup X) # Sum(S) + Sum(X) BY <1>2
    <3> QED BY <1>4, <3>1, <3>2
  <2> QED BY <2>1
<1>6. PICK x \in X : TRUE BY <1>5
<1> DEFINE U == X \ {x}
<1>7. IsFiniteSet(U) /\ IsFiniteSet(S \cup X) /\ IsFiniteSet(S \cup U)
  BY <1>3, FS_RemoveElement, FS_Union
<1>8. Sum(X) = f[x] + Sum(U) BY <1>3, <1>6, SumOut
<1>9. Sum(S \cup X) = f[x] + Sum(S \cup U)
  <2>1. (S \cup X) \ {x} = S \cup U /\ x \in S \cup X /\ \A y \in S \cup X : f[y] \in Int
    BY <1>3, <1>6
  <2>2. Sum(S \cup X) = f[x] + Sum((S \cup X) \ {x}) BY <1>7, <2>1, SumOut
  <2> QED BY <2>1, <2>2
<1>10. Sum(S \cup U) = Sum(S) + Sum(U)
  <2>1. U \in SUBSET T /\ U \in SUBSET X /\ U # X BY <1>3, <1>6
  <2> HIDE DEF Sum
  <2> QED BY <1>2, <2>1
<1>11. f[x] \in Int /\ Sum(U) \in Int BY <1>3, <1>6, <1>7, SumIsInt
<1> HIDE DEF Sum
<1> QED BY <1>2, <1>4, <1>8, <1>9, <1>10, <1>11

LEMMA SumOfNat ==
    ASSUME NEW f, NEW S, IsFiniteSet(S), \A x \in S : f[x] \in Nat
    PROVE  /\ SumFunctionOnSet(f, S) \in Nat
           /\ \A x \in S : f[x] <= SumFunctionOnSet(f, S)
<1> DEFINE Sum(X) == SumFunctionOnSet(f, X)
           zero == [x \in S |-> 0]
<1>1. ASSUME NEW T \in SUBSET S PROVE Sum(T) \in Nat
  <2> DEFINE bad == {X \in SUBSET T : Sum(X) \notin Nat}
  <2>1. SUFFICES ASSUME bad # {} PROVE FALSE OBVIOUS
  <2>2. PICK X \in bad : \A U \in SUBSET X : U # X => U \notin bad
    <3>1. bad \in SUBSET (SUBSET T) /\ IsFiniteSet(T) BY FS_Subset
    <3> HIDE DEF bad
    <3> QED BY <2>1, <3>1, MinimalSet
  <2>3. X \subseteq S /\ IsFiniteSet(X) /\ X # {}
    <3>1. X \in SUBSET S /\ Sum(X) \notin Nat BY <2>2
    <3> QED BY <3>1, FS_Subset, SumEmpty
  <2>4. PICK x \in X : TRUE BY <2>3
  <2>5. Sum(X) = f[x] + Sum(X \ {x}) BY <2>3, <2>4, SumOut
  <2>6. Sum(X \ {x}) \in Nat BY <2>2, <2>4
  <2> HIDE DEF Sum
  <2> QED BY <2>2, <2>3, <2>4, <2>5, <2>6
<1>2. ASSUME NEW x \in S PROVE f[x] <= Sum(S)
  <2>1. Sum(S) = f[x] + Sum(S \ {x}) BY SumOut
  <2>2. Sum(S \ {x}) \in Nat BY <1>1
  <2> HIDE DEF Sum
  <2> QED BY <2>1, <2>2
<1> QED BY <1>1, <1>2

LEMMA SumOfZeros ==
    ASSUME NEW f, NEW S, IsFiniteSet(S), \A x \in S : f[x] = 0
    PROVE  SumFunctionOnSet(f, S) = 0
<1> DEFINE bad == {T \in SUBSET S : SumFunctionOnSet(f, T) # 0}
<1>1. SUFFICES ASSUME bad # {} PROVE FALSE OBVIOUS
<1>2. PICK T \in bad : \A U \in SUBSET T : U # T => U \notin bad
  <2>1. bad \in SUBSET (SUBSET S) OBVIOUS
  <2> HIDE DEF bad
  <2> QED BY <1>1, <2>1, MinimalSet
<1>3. T \in SUBSET S /\ SumFunctionOnSet(f, T) # 0 BY <1>2
<1>4. T # {} /\ IsFiniteSet(T) BY <1>3, SumEmpty, FS_Subset
<1>5. Pick(T) \in T /\ SumFunctionOnSet(f, T) = f[Pick(T)] + SumFunctionOnSet(f, T \ {Pick(T)})
  BY <1>4, SumStep
<1>6. SumFunctionOnSet(f, T \ {Pick(T)}) = 0 BY <1>2, <1>5
<1> QED BY <1>3, <1>5, <1>6

LEMMA SumSame ==
    ASSUME NEW f, NEW g, NEW S, IsFiniteSet(S),
           \A x \in S : f[x] \in Int /\ f[x] = g[x]
    PROVE  SumFunctionOnSet(f, S) = SumFunctionOnSet(g, S)
<1> DEFINE zero == [x \in S |-> 0]
<1>1. Adds(f, g, zero, S) /\ \A x \in S : zero[x] = 0 BY DEF Adds
<1> HIDE DEF zero
<1>2. SumFunctionOnSet(f, S) = SumFunctionOnSet(g, S) + SumFunctionOnSet(zero, S)
  BY <1>1, SumOfSums
<1>3. SumFunctionOnSet(zero, S) = 0 BY <1>1, SumOfZeros
<1>4. SumFunctionOnSet(g, S) \in Int BY SumIsInt
<1> QED BY <1>2, <1>3, <1>4

LEMMA SumOfOne ==
    ASSUME NEW f, NEW S, IsFiniteSet(S), NEW x \in S,
           f[x] \in Int, \A y \in S \ {x} : f[y] = 0
    PROVE  SumFunctionOnSet(f, S) = f[x]
<1>1. IsFiniteSet(S \ {x}) BY FS_RemoveElement
<1>2. SumFunctionOnSet(f, S \ {x}) = 0 BY <1>1, SumOfZeros
<1>3. \A y \in S : f[y] \in Int OBVIOUS
<1>4. SumFunctionOnSet(f, S) = f[x] + SumFunctionOnSet(f, S \ {x}) BY <1>3, SumOut
<1> QED BY <1>2, <1>4

(* A part of a sum of naturals is no more than the whole, and is the whole *)
(* when the rest is nothing.                                               *)
LEMMA SumPart ==
    ASSUME NEW f, NEW S, IsFiniteSet(S), NEW T \in SUBSET S, \A x \in S : f[x] \in Nat
    PROVE  /\ SumFunctionOnSet(f, T) <= SumFunctionOnSet(f, S)
           /\ (\A x \in S \ T : f[x] = 0) =>
                  SumFunctionOnSet(f, T) = SumFunctionOnSet(f, S)
<1> DEFINE R == S \ T
<1>1. IsFiniteSet(T) /\ IsFiniteSet(R) /\ T \cap R = {} /\ T \cup R = S
  BY FS_Subset, FS_Difference
<1>2. SumFunctionOnSet(f, S) = SumFunctionOnSet(f, T) + SumFunctionOnSet(f, R)
  <2>1. \A x \in T \cup R : f[x] \in Int OBVIOUS
  <2> HIDE DEF R
  <2> QED BY <1>1, <2>1, SumSplit
<1>3. SumFunctionOnSet(f, T) \in Nat /\ SumFunctionOnSet(f, R) \in Nat
  BY <1>1, SumOfNat
<1>4. (\A x \in R : f[x] = 0) => SumFunctionOnSet(f, R) = 0
  <2> SUFFICES ASSUME \A x \in R : f[x] = 0 PROVE SumFunctionOnSet(f, R) = 0 OBVIOUS
  <2> HIDE DEF R
  <2> QED BY <1>1, SumOfZeros
<1> HIDE DEF R
<1>5. R = S \ T BY DEF R
<1> QED BY <1>2, <1>3, <1>4, <1>5

LEMMA SumAtMost ==
    ASSUME NEW f, NEW S, IsFiniteSet(S), NEW c \in Int,
           \A x \in S : f[x] \in Int /\ f[x] <= c
    PROVE  /\ SumFunctionOnSet(f, S) \in Int
           /\ SumFunctionOnSet(f, S) <= c * Cardinality(S)
<1> DEFINE P(T) == SumFunctionOnSet(f, T) <= c * Cardinality(T)
           bad == {T \in SUBSET S : ~P(T)}
<1>0. \A T \in SUBSET S : IsFiniteSet(T) /\ SumFunctionOnSet(f, T) \in Int
  <2> TAKE T \in SUBSET S
  <2>1. IsFiniteSet(T) BY FS_Subset
  <2> QED BY <2>1, SumIsInt
<1>1. bad = {}
  <2>1. SUFFICES ASSUME bad # {} PROVE FALSE OBVIOUS
  <2>2. PICK T \in bad : \A U \in SUBSET T : U # T => U \notin bad
    <3>1. bad \in SUBSET (SUBSET S) OBVIOUS
    <3> HIDE DEF bad
    <3> QED BY <2>1, <3>1, MinimalSet
  <2>3. T \in SUBSET S /\ ~P(T) BY <2>2
  <2>4. CASE T = {}
    <3>1. SumFunctionOnSet(f, T) = 0 BY <2>4, SumEmpty
    <3>2. Cardinality(T) = 0 BY <2>4, FS_EmptySet
    <3> QED BY <2>3, <3>1, <3>2
  <2>5. CASE T # {}
    <3>1. PICK x \in T : TRUE BY <2>5
    <3> DEFINE U == T \ {x}
    <3>2. U \in SUBSET T /\ U # T /\ U \in SUBSET S BY <2>3, <3>1
    <3>3. P(U) BY <2>2, <3>2
    <3>4. IsFiniteSet(T) /\ \A y \in T : f[y] \in Int BY <1>0, <2>3
    <3>5. SumFunctionOnSet(f, T) = f[x] + SumFunctionOnSet(f, U) BY <3>1, <3>4, SumOut
    <3>6. Cardinality(T) = Cardinality(U) + 1
      <4>1. IsFiniteSet(T) BY <3>4
      <4>2. Cardinality(U) = Cardinality(T) - 1 BY <3>1, <4>1, FS_RemoveElement
      <4>3. Cardinality(T) \in Nat BY <4>1, FS_CardinalityType
      <4> QED BY <4>2, <4>3
    <3>7. f[x] \in Int /\ f[x] <= c /\ SumFunctionOnSet(f, U) \in Int
      BY <1>0, <2>3, <3>1, <3>2
    <3>8. Cardinality(U) \in Nat BY <1>0, <3>2, FS_CardinalityType
    <3>9. SumFunctionOnSet(f, U) <= c * Cardinality(U) BY <3>3
    <3> HIDE DEF U
    <3>10. c * Cardinality(T) = c * Cardinality(U) + c BY <3>6, <3>8
    <3>11. c * Cardinality(U) \in Int BY <3>8
    <3> QED BY <2>3, <3>5, <3>7, <3>9, <3>10, <3>11
  <2> QED BY <2>4, <2>5
<1> QED BY <1>0, <1>1

LEMMA GreatestOf ==
    ASSUME NEW S \in SUBSET Int, IsFiniteSet(S), S # {}
    PROVE  Greatest(S) \in S /\ \A m \in S : m <= Greatest(S)
<1> DEFINE P(T) == \E g \in T : \A m \in T : m <= g
           bad == {T \in SUBSET S : T # {} /\ ~P(T)}
<1>1. P(S)
  <2>1. SUFFICES ASSUME bad # {} PROVE FALSE OBVIOUS
  <2>2. PICK T \in bad : \A U \in SUBSET T : U # T => U \notin bad
    <3>1. bad \in SUBSET (SUBSET S) OBVIOUS
    <3> HIDE DEF bad
    <3> QED BY <2>1, <3>1, MinimalSet
  <2>3. PICK x \in T : TRUE BY <2>2
  <2>4. CASE T \ {x} = {}
    <3>1. T \in SUBSET Int /\ ~P(T) BY <2>2
    <3>2. \A m \in T : m <= x BY <2>4, <2>3, <3>1
    <3> QED BY <3>1, <3>2, <2>3
  <2>5. CASE T \ {x} # {}
    <3>1. PICK g \in T \ {x} : \A m \in T \ {x} : m <= g
      <4>1. T \ {x} \in SUBSET T /\ T \ {x} # T /\ T \ {x} \in SUBSET S BY <2>2, <2>3
      <4> QED BY <4>1, <2>2, <2>5
    <3>2. g \in Int /\ x \in Int /\ T \subseteq Int BY <2>2, <2>3
    <3>3. CASE x <= g
      <4>1. \A m \in T : m <= g BY <3>1, <3>3
      <4> QED BY <4>1, <2>2
    <3>4. CASE g <= x
      <4>1. \A m \in T : m <= x BY <3>1, <3>2, <3>4
      <4> QED BY <4>1, <2>2
    <3> QED BY <3>2, <3>3, <3>4
  <2> QED BY <2>4, <2>5
<1> QED BY <1>1 DEF Greatest

-----------------------------------------------------------------------------
(* Working days                                                            *)

(* Among the first days of as many weeks as there are holidays, and one    *)
(* more, one is no holiday.                                                *)
LEMMA WorkIsNear ==
    ASSUME NEW d \in Nat
    PROVE  \E e \in (d + 1)..(d + Reach) : IsWorkingDay(e)
<1> DEFINE c == Cardinality(Holidays)
           monday(i) == 7 * (d \div 7 + 1) + 7 * i
<1>1. c \in Nat BY HolidaysAssumption, FS_CardinalityType
<1> SUFFICES ASSUME \A e \in (d + 1)..(d + Reach) : ~IsWorkingDay(e) PROVE FALSE OBVIOUS
<1>2. Reach = 7 * (c + 1) BY DEF Reach
<1>3. ASSUME NEW i \in 0..c PROVE monday(i) \in Holidays
  <2> DEFINE q == d \div 7
  <2>1. q \in Int /\ 7 * q <= d /\ d < 7 * q + 7 OBVIOUS
  <2>2. i \in Int /\ 0 <= i /\ i <= c BY <1>1
  <2>3. monday(i) = 7 * q + 7 + 7 * i /\ monday(i) = 7 * (q + 1 + i) BY <2>1, <2>2
  <2> HIDE DEF q, monday, c
  <2>4. monday(i) \in (d + 1)..(d + Reach) BY <1>1, <1>2, <2>1, <2>2, <2>3
  <2>5. monday(i) % 7 = 0 BY <2>1, <2>2, <2>3
  <2> QED BY <2>4, <2>5 DEF IsWorkingDay
<1> DEFINE f == [i \in 0..c |-> monday(i)]
<1>4. f \in Injection(0..c, Holidays)
  <2>1. f \in [0..c -> Holidays] BY <1>3
  <2>2. ASSUME NEW i \in 0..c, NEW j \in 0..c, f[i] = f[j] PROVE i = j
    <3> DEFINE q == d \div 7
    <3>1. q \in Int /\ f[i] = 7 * (q + 1) + 7 * i /\ f[j] = 7 * (q + 1) + 7 * j OBVIOUS
    <3>2. i \in Int /\ j \in Int BY <1>1
    <3>3. 7 * (q + 1) + 7 * i = 7 * (q + 1) + 7 * j
      <4> HIDE DEF q, f, monday
      <4> QED BY <2>2, <3>1
    <3> HIDE DEF q, f
    <3> QED BY <3>1, <3>2, <3>3
  <2> HIDE DEF f
  <2> QED BY <2>1, <2>2 DEF Injection, IsInjective
<1>5. Cardinality(0..c) <= c
  <2> HIDE DEF f
  <2> QED BY <1>4, HolidaysAssumption, FS_Injection
<1>6. Cardinality(0..c) = c + 1 BY <1>1, FS_Interval
<1> QED BY <1>1, <1>5, <1>6

LEMMA NextIsWorking ==
    ASSUME NEW d \in Nat
    PROVE  LET n == NextWorkingDay(d) IN n \in Nat /\ n > d /\ IsWorkingDay(n)
<1> DEFINE c == Cardinality(Holidays)
           T == {e \in (d + 1)..(d + Reach) : IsWorkingDay(e)}
<1>1. c \in Nat /\ Reach \in Nat
  BY HolidaysAssumption, FS_CardinalityType DEF Reach
<1>2. T \in SUBSET Nat /\ T # {} BY <1>1, WorkIsNear
<1>3. Least(T) \in T
  <2> HIDE DEF T
  <2> QED BY <1>2, LeastOf
<1> QED BY <1>1, <1>3 DEF NextWorkingDay

LEMMA FirstIsWorking ==
    ASSUME NEW d \in Nat
    PROVE  LET n == FirstWorkingDay(d) IN n \in Nat /\ n >= d /\ IsWorkingDay(n)
BY NextIsWorking DEF FirstWorkingDay

LEMMA BetweenIsNat ==
    ASSUME NEW a \in Int, NEW b \in Int
    PROVE  BusinessDaysBetween(a, b) \in Nat
<1>1. IsFiniteSet(a..(b - 1)) BY FS_Interval
<1>2. IsFiniteSet({e \in a..(b - 1) : IsWorkingDay(e)}) BY <1>1, FS_Subset
<1> QED BY <1>2, FS_CardinalityType DEF BusinessDaysBetween

LEMMA BetweenGrows ==
    ASSUME NEW a \in Int, NEW b \in Int, NEW c \in Int, NEW d \in Int, c <= a, b <= d
    PROVE  BusinessDaysBetween(a, b) <= BusinessDaysBetween(c, d)
<1> DEFINE A == {e \in a..(b - 1) : IsWorkingDay(e)}
           C == {e \in c..(d - 1) : IsWorkingDay(e)}
<1>1. IsFiniteSet(C)
  <2>1. IsFiniteSet(c..(d - 1)) BY FS_Interval
  <2> QED BY <2>1, FS_Subset
<1>2. A \in SUBSET C OBVIOUS
<1> HIDE DEF A, C
<1>3. IsFiniteSet(A) /\ Cardinality(A) <= Cardinality(C) /\ Cardinality(A) \in Nat
  BY <1>1, <1>2, FS_Subset, FS_CardinalityType
<1> QED BY <1>3 DEF A, C, BusinessDaysBetween

LEMMA BetweenAdds ==
    ASSUME NEW a \in Int, NEW b \in Int, NEW c \in Int, a <= b, b <= c
    PROVE  BusinessDaysBetween(a, c) = BusinessDaysBetween(a, b) + BusinessDaysBetween(b, c)
<1> DEFINE A == {e \in a..(b - 1) : IsWorkingDay(e)}
           B == {e \in b..(c - 1) : IsWorkingDay(e)}
<1>1. IsFiniteSet(A) /\ IsFiniteSet(B)
  <2>1. IsFiniteSet(a..(b - 1)) /\ IsFiniteSet(b..(c - 1)) BY FS_Interval
  <2> QED BY <2>1, FS_Subset
<1>2. A \cap B = {} OBVIOUS
<1>3. A \cup B = {e \in a..(c - 1) : IsWorkingDay(e)}
  <2>1. a..(c - 1) = (a..(b - 1)) \cup (b..(c - 1)) OBVIOUS
  <2> QED BY <2>1
<1> HIDE DEF A, B
<1>4. Cardinality(A \cup B) = Cardinality(A) + Cardinality(B)
  <2>1. Cardinality(A \cup B) = Cardinality(A) + Cardinality(B) - Cardinality(A \cap B)
    BY <1>1, FS_Union
  <2>2. Cardinality(A \cap B) = 0 BY <1>2, FS_EmptySet
  <2>3. Cardinality(A) \in Nat /\ Cardinality(B) \in Nat BY <1>1, FS_CardinalityType
  <2> QED BY <2>1, <2>2, <2>3
<1> QED BY <1>3, <1>4 DEF A, B, BusinessDaysBetween

LEMMA NoneBetween ==
    ASSUME NEW a \in Int, NEW b \in Int, \A e \in a..(b - 1) : ~IsWorkingDay(e)
    PROVE  BusinessDaysBetween(a, b) = 0
<1>1. {e \in a..(b - 1) : IsWorkingDay(e)} = {} OBVIOUS
<1> QED BY <1>1, FS_EmptySet DEF BusinessDaysBetween

LEMMA OneBetween ==
    ASSUME NEW a \in Int, IsWorkingDay(a)
    PROVE  BusinessDaysBetween(a, a + 1) = 1
<1>1. {e \in a..((a + 1) - 1) : IsWorkingDay(e)} = {a} OBVIOUS
<1>2. Cardinality({a}) = 1 BY FS_Singleton
<1> QED BY <1>1, <1>2 DEF BusinessDaysBetween

(* No working day is passed over.                                          *)
LEMMA NextIsSoonest ==
    ASSUME NEW d \in Nat
    PROVE  \A e \in (d + 1)..(NextWorkingDay(d) - 1) : ~IsWorkingDay(e)
<1> DEFINE c == Cardinality(Holidays)
           T == {e \in (d + 1)..(d + Reach) : IsWorkingDay(e)}
<1>1. c \in Nat /\ Reach \in Nat
  BY HolidaysAssumption, FS_CardinalityType DEF Reach
<1>2. T \in SUBSET Nat /\ T # {} BY <1>1, WorkIsNear
<1>3. Least(T) \in T /\ \A m \in T : Least(T) <= m
  <2> HIDE DEF T
  <2> QED BY <1>2, LeastOf
<1>4. Least(T) \in (d + 1)..(d + Reach) BY <1>3
<1>5. ASSUME NEW e \in (d + 1)..(Least(T) - 1), IsWorkingDay(e) PROVE FALSE
  <2>1. e \in T BY <1>1, <1>4, <1>5
  <2> HIDE DEF T
  <2> QED BY <1>1, <1>3, <1>4, <2>1
<1> QED BY <1>5 DEF NextWorkingDay

LEMMA FirstIsSoonest ==
    ASSUME NEW d \in Nat
    PROVE  BusinessDaysBetween(d, FirstWorkingDay(d)) = 0
<1> DEFINE n == FirstWorkingDay(d)
<1>1. n \in Nat /\ n >= d BY FirstIsWorking
<1>2. \A e \in d..(n - 1) : ~IsWorkingDay(e)
  <2>1. CASE IsWorkingDay(d) BY <2>1 DEF FirstWorkingDay
  <2>2. CASE ~IsWorkingDay(d)
    <3>1. n = NextWorkingDay(d) BY <2>2 DEF FirstWorkingDay
    <3>2. \A e \in (d + 1)..(n - 1) : ~IsWorkingDay(e) BY <3>1, NextIsSoonest
    <3> HIDE DEF n
    <3> QED BY <1>1, <2>2, <3>2
  <2> QED BY <2>1, <2>2
<1> HIDE DEF n
<1>3. BusinessDaysBetween(d, n) = 0 BY <1>1, <1>2, NoneBetween
<1> QED BY <1>3 DEF n

Counts(d, n, h) ==
    h = [k \in 1..n |-> IF k = 1 THEN FirstWorkingDay(d) ELSE NextWorkingDay(h[k - 1])]

LEMMA CountsExists ==
    ASSUME NEW d, NEW n \in Nat \ {0}
    PROVE  \E h : Counts(d, n, h)
<1> DEFINE bad == {m \in Nat \ {0} : ~\E h : Counts(d, m, h)}
<1>1. SUFFICES ASSUME bad # {} PROVE FALSE OBVIOUS
<1>2. PICK m \in bad : \A k \in bad : m <= k
  <2>1. bad \in SUBSET Nat OBVIOUS
  <2> HIDE DEF bad
  <2> QED BY <1>1, <2>1, NatHasLeast
<1>3. m \in Nat \ {0} /\ ~\E h : Counts(d, m, h) BY <1>2
<1>4. CASE m = 1
  <2> DEFINE g == [k \in 1..1 |-> FirstWorkingDay(d)]
  <2>1. g = [k \in 1..1 |-> IF k = 1 THEN FirstWorkingDay(d) ELSE NextWorkingDay(g[k - 1])]
    OBVIOUS
  <2> HIDE DEF g
  <2> QED BY <1>3, <1>4, <2>1 DEF Counts
<1>5. CASE m # 1
  <2>1. m - 1 \in Nat \ {0} /\ m - 1 < m BY <1>3, <1>5
  <2>2. m - 1 \notin bad
    <3> HIDE DEF bad
    <3> QED BY <1>2, <1>3, <2>1
  <2>3. PICK g : Counts(d, m - 1, g) BY <2>1, <2>2
  <2> DEFINE h == [k \in 1..m |-> IF k = m THEN NextWorkingDay(g[m - 1]) ELSE g[k]]
             u == [k \in 1..m |-> IF k = 1 THEN FirstWorkingDay(d) ELSE NextWorkingDay(h[k - 1])]
  <2>4. ASSUME NEW k \in 1..m PROVE h[k] = u[k]
    <3>1. u[k] = IF k = 1 THEN FirstWorkingDay(d) ELSE NextWorkingDay(h[k - 1])
      <4> HIDE DEF h
      <4> QED OBVIOUS
    <3>2. CASE k = m
      <4>1. k # 1 /\ k - 1 \in 1..m /\ k - 1 # m BY <1>3, <1>5, <3>2
      <4>2. h[k - 1] = g[k - 1] BY <4>1
      <4>3. h[k] = NextWorkingDay(g[m - 1]) BY <3>2
      <4> QED BY <3>1, <3>2, <4>1, <4>2, <4>3
    <3>3. CASE k # m
      <4>1. k \in 1..(m - 1) BY <1>3, <3>3
      <4>2. h[k] = g[k] BY <3>3
      <4>3. g[k] = IF k = 1 THEN FirstWorkingDay(d) ELSE NextWorkingDay(g[k - 1])
        BY <2>3, <4>1 DEF Counts
      <4>4. k # 1 => h[k - 1] = g[k - 1] BY <4>1, <1>3
      <4> HIDE DEF h, u
      <4> QED BY <3>1, <4>2, <4>3, <4>4
    <3> QED BY <3>2, <3>3
  <2>5. h = u
    <3>1. h = [k \in 1..m |-> h[k]] /\ u = [k \in 1..m |-> u[k]] OBVIOUS
    <3> HIDE DEF h, u
    <3> QED BY <2>4, <3>1
  <2>6. u = [k \in 1..m |-> IF k = 1 THEN FirstWorkingDay(d) ELSE NextWorkingDay(h[k - 1])]
    OBVIOUS
  <2> HIDE DEF h, u
  <2> QED BY <1>3, <2>5, <2>6 DEF Counts
<1> QED BY <1>4, <1>5

LEMMA NthCounts ==
    ASSUME NEW d, NEW n, \E h : Counts(d, n, h)
    PROVE  \E h : Counts(d, n, h) /\ NthWorkingDay(d, n) = h[n]
BY DEF NthWorkingDay, Counts

(* The nth working day has exactly n - 1 before it.                        *)
LEMMA NthIsWorking ==
    ASSUME NEW d \in Nat, NEW n \in Nat \ {0}
    PROVE  LET e == NthWorkingDay(d, n)
           IN  /\ e \in Nat /\ e >= d /\ IsWorkingDay(e)
               /\ BusinessDaysBetween(d, e) = n - 1
<1>1. PICK h : Counts(d, n, h) /\ NthWorkingDay(d, n) = h[n]
  BY CountsExists, NthCounts
<1>2. \A k \in 1..n :
          h[k] = IF k = 1 THEN FirstWorkingDay(d) ELSE NextWorkingDay(h[k - 1])
  BY <1>1 DEF Counts
<1> DEFINE P(k) == /\ h[k] \in Nat /\ h[k] >= d /\ IsWorkingDay(h[k])
                   /\ BusinessDaysBetween(d, h[k]) = k - 1
           bad == {k \in 1..n : ~P(k)}
<1>3. bad = {}
  <2>1. SUFFICES ASSUME bad # {} PROVE FALSE OBVIOUS
  <2>2. PICK k \in bad : \A j \in bad : k <= j
    <3>1. bad \in SUBSET Nat OBVIOUS
    <3> HIDE DEF bad
    <3> QED BY <2>1, <3>1, NatHasLeast
  <2>3. k \in 1..n /\ ~P(k) BY <2>2
  <2>4. CASE k = 1
    <3>1. h[k] = FirstWorkingDay(d) BY <1>2, <2>3, <2>4
    <3>2. h[k] \in Nat /\ h[k] >= d /\ IsWorkingDay(h[k]) BY <3>1, FirstIsWorking
    <3>3. BusinessDaysBetween(d, h[k]) = 0 BY <3>1, FirstIsSoonest
    <3> QED BY <2>3, <2>4, <3>2, <3>3
  <2>5. CASE k # 1
    <3> DEFINE a == h[k - 1]
               b == h[k]
    <3>1. k - 1 \in 1..n /\ k - 1 < k /\ k \in Int BY <2>3, <2>5
    <3>2. P(k - 1)
      <4>1. k - 1 \notin bad
        <5> HIDE DEF bad
        <5> QED BY <2>2, <2>3, <3>1
      <4> QED BY <3>1, <4>1
    <3>3. b = NextWorkingDay(a) BY <1>2, <2>3, <2>5
    <3>4. a \in Nat /\ a >= d /\ IsWorkingDay(a) /\ BusinessDaysBetween(d, a) = (k - 1) - 1
      BY <3>2
    <3> HIDE DEF a, b
    <3>5. b \in Nat /\ b > a /\ IsWorkingDay(b) BY <3>3, <3>4, NextIsWorking
    <3>6. BusinessDaysBetween(a + 1, b) = 0 BY <3>3, <3>4, <3>5, NextIsSoonest, NoneBetween
    <3>7. BusinessDaysBetween(a, a + 1) = 1 BY <3>4, OneBetween
    <3>8. BusinessDaysBetween(d, a + 1) = BusinessDaysBetween(d, a) + BusinessDaysBetween(a, a + 1)
      BY <3>4, BetweenAdds
    <3>9. BusinessDaysBetween(d, b) = BusinessDaysBetween(d, a + 1) + BusinessDaysBetween(a + 1, b)
      BY <3>4, <3>5, BetweenAdds
    <3>10. BusinessDaysBetween(d, b) = k - 1 BY <3>1, <3>4, <3>6, <3>7, <3>8, <3>9
    <3>11. b >= d BY <3>4, <3>5
    <3> QED BY <2>3, <3>5, <3>10, <3>11 DEF b
  <2> QED BY <2>4, <2>5
<1>4. n \in 1..n OBVIOUS
<1> QED BY <1>1, <1>3, <1>4

(* Where there are n working days, the nth is no later.                    *)
LEMMA NthComesBy ==
    ASSUME NEW d \in Nat, NEW n \in Nat \ {0}, NEW e \in Nat,
           BusinessDaysBetween(d, e + 1) >= n
    PROVE  NthWorkingDay(d, n) <= e
<1> DEFINE w == NthWorkingDay(d, n)
<1>1. w \in Nat /\ w >= d BY NthIsWorking
<1>2. BusinessDaysBetween(d, w) = n - 1 BY NthIsWorking
<1> HIDE DEF w
<1>3. ASSUME e + 1 <= w PROVE FALSE
  <2>1. BusinessDaysBetween(d, e + 1) <= BusinessDaysBetween(d, w)
    BY <1>1, <1>3, BetweenGrows
  <2>2. BusinessDaysBetween(d, e + 1) \in Int
    <3>1. e + 1 \in Int OBVIOUS
    <3> QED BY <3>1, BetweenIsNat
  <2> QED BY <1>2, <2>1, <2>2
<1>4. w <= e BY <1>1, <1>3
<1> QED BY <1>4 DEF w

-----------------------------------------------------------------------------
(* Requests and loads                                                      *)

IsLoad(load) ==
    /\ IsABag(load)
    /\ IsFiniteSet(DOMAIN load)
    /\ DOMAIN load \subseteq (DOMAIN Capacity) \X Nat

IsTask(task) ==
    /\ task.hours \in Nat \ {0}
    /\ task.allowed \in Seq(DOMAIN Capacity)
    /\ IsInjective(task.allowed)
    /\ {task.splittable, task.pair, task.window} \subseteq BOOLEAN
    /\ IsFiniteSet(task.after)
    /\ \A l \in task.after : l.lag \in Int

IsRequest(r) ==
    /\ r.team \in Seq(DOMAIN Capacity) /\ IsInjective(r.team) /\ r.team # <<>>
    /\ IsFiniteSet(DOMAIN r.tasks)
    /\ \A t \in DOMAIN r.tasks : IsTask(r.tasks[t])
    /\ r.start \in Nat
    /\ \A k \in DOMAIN r.overrides : r.overrides[k] \in Nat

PeopleOf(load) == {k[1] : k \in DOMAIN load}
HoursBy(load, p) == SumFunction([k \in {l \in DOMAIN load : l[1] = p} |-> load[k]])

LEMMA LoadIsNat ==
    ASSUME NEW load, IsABag(load), NEW k
    PROVE  /\ HoursOn(k, load) \in Nat
           /\ k \in DOMAIN load => load[k] \in Nat \ {0} /\ HoursOn(k, load) = load[k]
BY DEF IsABag, HoursOn

LEMMA MembersAreAble ==
    ASSUME NEW r, IsRequest(r)
    PROVE  Members(r) \subseteq DOMAIN Capacity
BY DEF IsRequest, Members, Range

LEMMA CapacityIsNat ==
    ASSUME NEW r, IsRequest(r), NEW p, NEW d
    PROVE  BaseCapacity(r, p, d) \in Nat
BY MembersAreAble, GreedyAssumption DEF BaseCapacity, IsRequest

LEMMA RemainingIsInt ==
    ASSUME NEW r, IsRequest(r), NEW used, IsABag(used), NEW p, NEW d
    PROVE  Remaining(r, used, p, d) \in Int
<1>1. BaseCapacity(r, p, d) \in Nat BY CapacityIsNat
<1>2. HoursOn(<<p, d>>, used) \in Nat BY LoadIsNat
<1> QED BY <1>1, <1>2 DEF Remaining

LEMMA OpenIsFinite ==
    ASSUME NEW r, IsRequest(r), NEW from \in Nat
    PROVE  /\ OpenDays(r, from) \in SUBSET Nat /\ IsFiniteSet(OpenDays(r, from))
           /\ \A d \in OpenDays(r, from) : from <= d /\ d <= Limit(r) /\ IsWorkingDay(d)
           /\ Limit(r) \in Nat
<1>1. Limit(r) \in Nat BY GreedyAssumption DEF IsRequest, Limit
<1>2. IsFiniteSet(from..Limit(r)) BY <1>1, FS_Interval
<1>3. OpenDays(r, from) \in SUBSET (from..Limit(r)) BY DEF OpenDays
<1>4. IsFiniteSet(OpenDays(r, from)) BY <1>2, <1>3, FS_Subset
<1> QED BY <1>1, <1>4 DEF OpenDays

(* A sum over the days of one person is a sum over the days.               *)
ByDay(f, K, p, g, D) ==
    /\ K = {p} \X D
    /\ \A d \in D : g[d] \in Int /\ f[<<p, d>>] = g[d]

LEMMA SumOfPerson ==
    ASSUME NEW f, NEW g, NEW p, NEW D, IsFiniteSet(D), NEW K, ByDay(f, K, p, g, D)
    PROVE  IsFiniteSet(K) /\ SumFunctionOnSet(f, K) = SumFunctionOnSet(g, D)
<1>0. K = {p} \X D /\ \A d \in D : g[d] \in Int /\ f[<<p, d>>] = g[d] BY DEF ByDay
<1> DEFINE P(T) == /\ IsFiniteSet({p} \X T)
                   /\ SumFunctionOnSet(f, {p} \X T) = SumFunctionOnSet(g, T)
           bad == {T \in SUBSET D : ~P(T)}
<1>1. SUFFICES ASSUME bad # {} PROVE FALSE
  <2>1. ~P(D) => D \in bad OBVIOUS
  <2>2. P(D) => IsFiniteSet(K) /\ SumFunctionOnSet(f, K) = SumFunctionOnSet(g, D)
    BY <1>0, Zenon
  <2> HIDE DEF P
  <2> QED BY <2>1, <2>2
<1>2. PICK T \in bad : \A U \in SUBSET T : U # T => U \notin bad
  <2>1. bad \in SUBSET (SUBSET D) OBVIOUS
  <2> HIDE DEF bad
  <2> QED BY <1>1, <2>1, MinimalSet
<1>3. T \in SUBSET D /\ ~P(T) BY <1>2
<1>4. IsFiniteSet(T) BY <1>3, FS_Subset
<1>5. IsFiniteSet({p} \X T) BY <1>4, FS_Singleton, FS_Product
<1>6. T # {}
  <2>1. ASSUME T = {} PROVE FALSE
    <3>1. {p} \X T = {} BY <2>1
    <3>2. SumFunctionOnSet(f, {p} \X T) = 0 /\ SumFunctionOnSet(g, T) = 0
      BY <2>1, <3>1, SumEmpty
    <3> QED BY <1>3, <1>5, <3>2
  <2> QED BY <2>1
<1>7. PICK x \in T : TRUE BY <1>6
<1> DEFINE U == T \ {x}
<1>8. P(U)
  <2>1. U \in SUBSET D /\ U \in SUBSET T /\ U # T BY <1>3, <1>7
  <2> HIDE DEF P
  <2> QED BY <1>2, <2>1
<1>9. SumFunctionOnSet(g, T) = g[x] + SumFunctionOnSet(g, U)
  <2>1. \A y \in T : g[y] \in Int BY <1>0, <1>3
  <2> QED BY <1>4, <1>7, <2>1, SumOut
<1>10. SumFunctionOnSet(f, {p} \X T) = f[<<p, x>>] + SumFunctionOnSet(f, {p} \X U)
  <2>1. \A y \in {p} \X T : f[y] \in Int
    <3> SUFFICES ASSUME NEW y \in {p} \X T PROVE f[y] \in Int OBVIOUS
    <3>1. y = <<p, y[2]>> /\ y[2] \in D BY <1>3
    <3> QED BY <1>0, <3>1
  <2>2. <<p, x>> \in {p} \X T BY <1>7
  <2>3. SumFunctionOnSet(f, {p} \X T) =
            f[<<p, x>>] + SumFunctionOnSet(f, ({p} \X T) \ {<<p, x>>})
    BY <1>5, <2>1, <2>2, SumOut
  <2>4. ({p} \X T) \ {<<p, x>>} = {p} \X U BY <1>7
  <2>5. SumFunctionOnSet(f, ({p} \X T) \ {<<p, x>>}) = SumFunctionOnSet(f, {p} \X U)
    <3> HIDE DEF U
    <3> QED BY <2>4, Zenon
  <2> QED BY <2>3, <2>5
<1>11. f[<<p, x>>] = g[x] BY <1>0, <1>3, <1>7
<1> HIDE DEF U
<1> QED BY <1>3, <1>5, <1>8, <1>9, <1>10, <1>11

LEMMA HoursByDays ==
    ASSUME NEW load, NEW p, NEW D, IsFiniteSet(D), NEW g,
           {l \in DOMAIN load : l[1] = p} = {p} \X D,
           \A d \in D : g[d] \in Int /\ load[<<p, d>>] = g[d]
    PROVE  HoursBy(load, p) = SumFunctionOnSet(g, D)
<1> DEFINE K == {p} \X D
           f == [k \in K |-> load[k]]
<1>1. \A d \in D : g[d] \in Int /\ f[<<p, d>>] = g[d] OBVIOUS
<1>2. DOMAIN f = K OBVIOUS
<1>3. HoursBy(load, p) = SumFunction(f) BY Zenon DEF HoursBy
<1>4. K = {p} \X D OBVIOUS
<1> HIDE DEF f, K
<1>5. SumFunctionOnSet(f, K) = SumFunctionOnSet(g, D)
  <2>1. ByDay(f, K, p, g, D) BY <1>1, <1>4 DEF ByDay
  <2> QED BY <2>1, SumOfPerson
<1>6. SumFunction(f) = SumFunctionOnSet(f, K) BY <1>2, Zenon DEF SumFunction
<1> QED BY <1>3, <1>5, <1>6

-----------------------------------------------------------------------------
(* Places                                                                  *)

(* The hours of everyone on the place, and how an overload comes about: the*)
(* people had no day with enough hours left.                               *)
KeepsHours(load, hours, n) ==
    /\ IsLoad(load)
    /\ \A p \in PeopleOf(load) : HoursBy(load, p) = hours
    /\ Cardinality(PeopleOf(load)) = n

IsForced(r, used, place, least) ==
    \A k \in DOMAIN place.load :
        \/ HoursOn(k, used) + place.load[k] <= BaseCapacity(r, k[1], k[2])
        \/ \A d \in OpenDays(r, place.start) : \E p \in PeopleOf(place.load) :
               Remaining(r, used, p, d) - HoursOn(<<p, d>>, place.load) < least

InWork(place, from) ==
    /\ place.start \in Nat /\ place.end \in Nat
    /\ from <= place.start /\ place.start <= place.end
    /\ \A k \in DOMAIN place.load :
           IsWorkingDay(k[2]) /\ k[2] \in place.start..place.end

LEMMA TogetherDay ==
    ASSUME NEW r, IsRequest(r), NEW used, NEW people, NEW hours, NEW from \in Nat
    PROVE  LET place == PlaceTogether(r, used, people, hours, from)
               day   == place.start
           IN  /\ place = [start |-> day, end |-> day,
                           load |-> [k \in people \X {day} |-> hours]]
               /\ day \in Nat /\ from <= day /\ IsWorkingDay(day)
               /\ \/ \A p \in people : Remaining(r, used, p, day) >= hours
                  \/ \A d \in OpenDays(r, day) : ~\A p \in people :
                         Remaining(r, used, p, d) >= hours
<1> DEFINE first == FirstWorkingDay(from)
           open == OpenDays(r, first)
           fits == {d \in open : \A p \in people : Remaining(r, used, p, d) >= hours}
           day == IF fits = {} THEN first ELSE Least(fits)
<1>1. first \in Nat /\ from <= first /\ IsWorkingDay(first) BY FirstIsWorking
<1>2. open \in SUBSET Nat /\ \A d \in open : first <= d /\ IsWorkingDay(d)
  <2> HIDE DEF first
  <2> QED BY <1>1, OpenIsFinite
<1>3. PlaceTogether(r, used, people, hours, from) =
          [start |-> day, end |-> day, load |-> [k \in people \X {day} |-> hours]]
  BY DEF PlaceTogether
<1>4. CASE fits = {}
  <2>1. day = first BY <1>4
  <2>2. \A d \in OpenDays(r, day) : ~\A p \in people : Remaining(r, used, p, d) >= hours
    BY <1>4, <2>1
  <2> HIDE DEF day, first
  <2> QED BY <1>1, <1>3, <2>1, <2>2
<1>5. CASE fits # {}
  <2>1. fits \in SUBSET Nat BY <1>2
  <2>2. Least(fits) \in fits
    <3> HIDE DEF fits
    <3> QED BY <1>5, <2>1, LeastOf
  <2>3. day \in fits BY <1>5, <2>2
  <2>4. /\ day \in Nat /\ first <= day /\ IsWorkingDay(day)
        /\ \A p \in people : Remaining(r, used, p, day) >= hours
    <3>1. day \in open /\ \A p \in people : Remaining(r, used, p, day) >= hours
      <4> HIDE DEF day
      <4> QED BY <2>3
    <3> HIDE DEF day, open, first
    <3> QED BY <1>2, <3>1
  <2>5. from <= day
    <3> HIDE DEF day, first
    <3> QED BY <1>1, <2>4
  <2> HIDE DEF day
  <2> QED BY <1>3, <2>4, <2>5
<1> QED BY <1>4, <1>5

LEMMA TogetherIsRight ==
    ASSUME NEW r, IsRequest(r), NEW used, IsLoad(used), NEW people,
           people \in SUBSET (DOMAIN Capacity), IsFiniteSet(people), people # {},
           NEW hours \in Nat \ {0}, NEW from \in Nat
    PROVE  LET place == PlaceTogether(r, used, people, hours, from)
           IN  /\ InWork(place, from)
               /\ KeepsHours(place.load, hours, Cardinality(people))
               /\ IsForced(r, used, place, hours)
<1> DEFINE place == PlaceTogether(r, used, people, hours, from)
           day   == place.start
           load  == place.load
<1>1. /\ place = [start |-> day, end |-> day, load |-> [k \in people \X {day} |-> hours]]
      /\ day \in Nat /\ from <= day /\ IsWorkingDay(day)
      /\ \/ \A p \in people : Remaining(r, used, p, day) >= hours
         \/ \A d \in OpenDays(r, day) : ~\A p \in people : Remaining(r, used, p, d) >= hours
  BY TogetherDay
<1> HIDE DEF place
<1>2. place.end = day /\ load = [k \in people \X {day} |-> hours] BY <1>1
<1> HIDE DEF day, load
<1>3. DOMAIN load = people \X {day} /\ \A k \in DOMAIN load : load[k] = hours BY <1>2
<1>4. PeopleOf(load) = people
  <2>1. \A p \in people : <<p, day>> \in DOMAIN load /\ <<p, day>>[1] = p BY <1>3
  <2>2. \A k \in DOMAIN load : k[1] \in people BY <1>3
  <2> QED BY <2>1, <2>2 DEF PeopleOf
<1>5. IsLoad(load)
  <2>1. IsFiniteSet(people \X {day}) BY FS_Singleton, FS_Product
  <2>2. IsFiniteSet(DOMAIN load) BY <1>3, <2>1
  <2>3. load \in [DOMAIN load -> {n \in Nat : n > 0}] BY <1>2
  <2>4. DOMAIN load \subseteq (DOMAIN Capacity) \X Nat
    <3>1. \A k \in people \X {day} : \E p \in people : k = <<p, day>> OBVIOUS
    <3>2. \A p \in people : <<p, day>> \in (DOMAIN Capacity) \X Nat BY <1>1
    <3> QED BY <1>3, <3>1, <3>2
  <2> QED BY <2>2, <2>3, <2>4 DEF IsLoad, IsABag
<1>6. ASSUME NEW p \in people PROVE HoursBy(load, p) = hours
  <2> DEFINE D == {day}
             g == [e \in D |-> hours]
  <2>1. {l \in DOMAIN load : l[1] = p} = {p} \X D
    <3>1. \A k \in people \X {day} : k = <<k[1], k[2]>> /\ k[2] = day OBVIOUS
    <3> QED BY <1>3, <3>1
  <2>2. \A d \in D : g[d] \in Int /\ load[<<p, d>>] = g[d] BY <1>3
  <2>3. IsFiniteSet(D) /\ day \in D /\ D \ {day} = {} BY FS_Singleton
  <2>4. \A d \in D : g[d] \in Int /\ g[d] = hours OBVIOUS
  <2> HIDE DEF D, g
  <2>5. HoursBy(load, p) = SumFunctionOnSet(g, D) BY <2>1, <2>2, <2>3, HoursByDays
  <2>6. SumFunctionOnSet(g, D) = g[day] + SumFunctionOnSet(g, D \ {day})
    BY <2>3, <2>4, SumOut
  <2>7. SumFunctionOnSet(g, D \ {day}) = 0 BY <2>3, SumEmpty
  <2> QED BY <2>3, <2>4, <2>5, <2>6, <2>7
<1>7. KeepsHours(load, hours, Cardinality(people)) BY <1>4, <1>5, <1>6 DEF KeepsHours
<1>8. InWork(place, from)
  <2>1. \A k \in DOMAIN load : k[2] = day BY <1>3
  <2> QED BY <1>1, <1>2, <2>1 DEF InWork, day, load
<1>9. IsForced(r, used, place, hours)
  <2> SUFFICES ASSUME NEW k \in DOMAIN load
               PROVE  \/ HoursOn(k, used) + load[k] <= BaseCapacity(r, k[1], k[2])
                      \/ \A d \in OpenDays(r, day) : \E p \in PeopleOf(load) :
                             Remaining(r, used, p, d) - HoursOn(<<p, d>>, load) < hours
    BY DEF IsForced, day, load
  <2>1. k = <<k[1], day>> /\ k[2] = day /\ k[1] \in people /\ load[k] = hours BY <1>3
  <2>2. CASE \A p \in people : Remaining(r, used, p, day) >= hours
    <3>1. Remaining(r, used, k[1], day) >= hours BY <2>1, <2>2
    <3>2. /\ Remaining(r, used, k[1], day) = BaseCapacity(r, k[1], k[2]) - HoursOn(k, used)
          /\ BaseCapacity(r, k[1], k[2]) \in Nat /\ HoursOn(k, used) \in Nat
      BY <2>1, CapacityIsNat, LoadIsNat DEF Remaining, IsLoad
    <3> QED BY <2>1, <3>1, <3>2
  <2>3. CASE \A d \in OpenDays(r, day) : ~\A p \in people : Remaining(r, used, p, d) >= hours
    <3>1. ASSUME NEW d \in OpenDays(r, day)
          PROVE  \E p \in PeopleOf(load) :
                     Remaining(r, used, p, d) - HoursOn(<<p, d>>, load) < hours
      <4>1. PICK p \in people : ~(Remaining(r, used, p, d) >= hours) BY <2>3
      <4>2. Remaining(r, used, p, d) \in Int BY RemainingIsInt DEF IsLoad
      <4>3. HoursOn(<<p, d>>, load) \in Nat BY <1>5, LoadIsNat DEF IsLoad
      <4>4. Remaining(r, used, p, d) - HoursOn(<<p, d>>, load) < hours BY <4>1, <4>2, <4>3
      <4> QED BY <1>4, <4>4
    <3> QED BY <3>1
  <2> QED BY <1>1, <2>2, <2>3
<1> QED BY <1>7, <1>8, <1>9 DEF place, load

(* The days of a splittable task are filled in turn: up to any day, it has *)
(* taken all the room there was, or all its hours.                         *)
Fills(room, take, open, hours) ==
    /\ open \in SUBSET Nat /\ IsFiniteSet(open)
    /\ \A d \in open :
           /\ room[d] \in Nat
           /\ take[d] = AtMost(room[d],
                  AtLeast(hours - SumFunctionOnSet(room, {e \in open : e < d}), 0))

LEMMA FilledUpTo ==
    ASSUME NEW room, NEW take, NEW open, NEW hours \in Nat, Fills(room, take, open, hours)
    PROVE  /\ \A d \in open : take[d] \in Nat /\ take[d] <= room[d]
           /\ \A n \in Nat :
                  SumFunctionOnSet(take, {e \in open : e < n})
                      = AtMost(SumFunctionOnSet(room, {e \in open : e < n}), hours)
<1> DEFINE seg(n) == {e \in open : e < n}
           R(n) == SumFunctionOnSet(room, seg(n))
           T(n) == SumFunctionOnSet(take, seg(n))
           P(n) == T(n) = AtMost(R(n), hours)
           bad == {n \in Nat : ~P(n)}
<1>1. /\ open \in SUBSET Nat /\ IsFiniteSet(open)
      /\ \A d \in open : /\ room[d] \in Nat
                         /\ take[d] = AtMost(room[d], AtLeast(hours - R(d), 0))
  BY DEF Fills
<1>0. \A e \in open : e \in Nat BY <1>1
<1>2. \A n \in Nat : seg(n) \in SUBSET open /\ IsFiniteSet(seg(n)) BY <1>1, FS_Subset
<1>3. \A n \in Nat : R(n) \in Nat
  <2> SUFFICES ASSUME NEW n \in Nat PROVE R(n) \in Nat OBVIOUS
  <2>1. IsFiniteSet(seg(n)) /\ \A x \in seg(n) : room[x] \in Nat BY <1>1, <1>2
  <2> HIDE DEF seg
  <2> QED BY <2>1, SumOfNat
<1>4. \A d \in open : take[d] \in Nat /\ take[d] <= room[d]
  <2> SUFFICES ASSUME NEW d \in open PROVE take[d] \in Nat /\ take[d] <= room[d] OBVIOUS
  <2>1. /\ room[d] \in Nat /\ R(d) \in Nat
        /\ take[d] = AtMost(room[d], AtLeast(hours - R(d), 0))
    BY <1>1, <1>3
  <2> HIDE DEF R
  <2> QED BY <2>1 DEF AtMost, AtLeast
<1>5. bad = {}
  <2>1. SUFFICES ASSUME bad # {} PROVE FALSE OBVIOUS
  <2>2. PICK n \in bad : \A m \in bad : n <= m
    <3>1. bad \in SUBSET Nat OBVIOUS
    <3> HIDE DEF bad
    <3> QED BY <2>1, <3>1, NatHasLeast
  <2>3. n \in Nat /\ ~P(n) BY <2>2
  <2>4. n # 0
    <3>1. ASSUME n = 0 PROVE FALSE
      <4>1. seg(n) = {} BY <1>0, <3>1
      <4>2. R(n) = 0 /\ T(n) = 0 BY <4>1, SumEmpty
      <4> HIDE DEF R, T
      <4> QED BY <2>3, <4>2 DEF AtMost
    <3> QED BY <3>1
  <2> DEFINE m == n - 1
  <2>5. m \in Nat /\ m < n /\ n = m + 1 BY <2>3, <2>4
  <2>6. P(m)
    <3>1. m \notin bad
      <4> HIDE DEF bad, m
      <4> QED BY <2>2, <2>3, <2>5
    <3> QED BY <2>5, <3>1
  <2>7. CASE m \notin open
    <3>1. seg(n) = seg(m)
      <4> HIDE DEF m
      <4> QED BY <1>0, <2>5, <2>7
    <3>2. R(n) = R(m) /\ T(n) = T(m) 
      <4> HIDE DEF seg, m
      <4> QED BY <3>1, Zenon
    <3> HIDE DEF R, T
    <3> QED BY <2>3, <2>6, <3>2
  <2>8. CASE m \in open
    <3>1. seg(n) = seg(m) \cup {m} /\ m \notin seg(m)
      <4>1. \A e \in open : e < n <=> e < m \/ e = m
        <5> HIDE DEF m
        <5> QED BY <1>0, <2>5
      <4>2. ~(m < m) BY <2>5
      <4> HIDE DEF m
      <4> QED BY <4>1, <4>2, <2>8
    <3>2. IsFiniteSet(seg(m)) /\ seg(m) \in SUBSET open BY <1>2, <2>5
    <3>3. /\ SumFunctionOnSet(room, seg(m) \cup {m}) = room[m] + R(m)
          /\ SumFunctionOnSet(take, seg(m) \cup {m}) = take[m] + T(m)
      <4>1. \A y \in seg(m) \cup {m} : room[y] \in Int /\ take[y] \in Int
        <5>1. \A y \in open : room[y] \in Nat /\ take[y] \in Nat
          <6> HIDE DEF seg, R
          <6> QED BY <1>1, <1>4
        <5> HIDE DEF seg, m
        <5> QED BY <5>1, <2>8, <3>2
      <4> HIDE DEF seg, m
      <4> QED BY <3>1, <3>2, <4>1, SumIn
    <3>4. R(n) = room[m] + R(m) /\ T(n) = take[m] + T(m)
      <4>1. /\ R(n) = SumFunctionOnSet(room, seg(m) \cup {m})
            /\ T(n) = SumFunctionOnSet(take, seg(m) \cup {m})
        <5> HIDE DEF seg, m
        <5> QED BY <3>1, Zenon
      <4> QED BY <3>3, <4>1
    <3>5. room[m] \in Nat /\ R(m) \in Nat /\ take[m] = AtMost(room[m], AtLeast(hours - R(m), 0))
      BY <1>1, <1>3, <2>5, <2>8
    <3> HIDE DEF R, T, m
    <3> QED BY <2>3, <2>6, <3>4, <3>5 DEF AtMost, AtLeast
  <2> QED BY <2>7, <2>8
<1> QED BY <1>4, <1>5

(* The hours of a task that is split over days, and what is over booked on *)
(* the first of them.                                                      *)
AndOver(on, take, open, first, rest) ==
    \A d \in open \cup {first} :
        on[d] = (IF d \in open THEN take[d] ELSE 0) + (IF d = first THEN rest ELSE 0)

LEMMA SplitHours ==
    ASSUME NEW room, NEW take, NEW open, NEW hours \in Nat \ {0}, NEW first \in Nat,
           Fills(room, take, open, hours), DOMAIN take = open,
           NEW rest, rest = hours - SumFunction(take),
           NEW on, AndOver(on, take, open, first, rest)
    PROVE  /\ rest \in Nat
           /\ rest # 0 => \A d \in open : take[d] = room[d]
           /\ IsFiniteSet(open \cup {first})
           /\ \A d \in open \cup {first} : on[d] \in Nat
           /\ SumFunctionOnSet(on, open \cup {first}) = hours
<1>1. /\ open \in SUBSET Nat /\ IsFiniteSet(open)
      /\ \A d \in open : room[d] \in Nat /\ take[d] \in Nat /\ take[d] <= room[d]
  <2>1. \A d \in open : take[d] \in Nat /\ take[d] <= room[d] BY FilledUpTo
  <2>2. open \in SUBSET Nat /\ IsFiniteSet(open) /\ \A d \in open : room[d] \in Nat
    BY DEF Fills
  <2> QED BY <2>1, <2>2
<1>0. \A e \in open : e \in Nat BY <1>1
<1> DEFINE total == SumFunctionOnSet(room, open)
           taken == SumFunctionOnSet(take, open)
<1>2. total \in Nat /\ taken \in Nat BY <1>1, SumOfNat
<1>3. taken = AtMost(total, hours)
  <2>1. PICK n \in Nat : \A d \in open : d < n
    <3>1. CASE open = {} BY <3>1
    <3>2. CASE open # {}
      <4>1. Greatest(open) \in open /\ \A m \in open : m <= Greatest(open)
        BY <1>1, <3>2, GreatestOf
      <4>2. Greatest(open) + 1 \in Nat /\ \A m \in open : m < Greatest(open) + 1
        BY <1>0, <4>1
      <4> QED BY <4>2
    <3> QED BY <3>1, <3>2
  <2> DEFINE S == {e \in open : e < n}
  <2>2. S = open BY <2>1
  <2>3. SumFunctionOnSet(take, S) = AtMost(SumFunctionOnSet(room, S), hours)
    BY FilledUpTo
  <2> HIDE DEF S
  <2>4. /\ SumFunctionOnSet(take, S) = SumFunctionOnSet(take, open)
        /\ SumFunctionOnSet(room, S) = SumFunctionOnSet(room, open)
    BY <2>2, Zenon
  <2> QED BY <2>3, <2>4
<1>4. rest = hours - taken BY Zenon DEF SumFunction
<1>5. rest \in Nat BY <1>2, <1>3, <1>4 DEF AtMost
<1>6. ASSUME rest # 0, NEW d \in open PROVE take[d] = room[d]
  <2> DEFINE S == {e \in open : e < d}
             before == SumFunctionOnSet(room, S)
  <2>1. S \in SUBSET open /\ d \notin S BY <1>1
  <2>2. IsFiniteSet(S) /\ \A x \in S : room[x] \in Nat BY <1>1, <2>1, FS_Subset
  <2>3. take[d] = AtMost(room[d], AtLeast(hours - before, 0)) BY DEF Fills
  <2> HIDE DEF S
  <2>4. before \in Nat BY <2>2, SumOfNat
  <2>5. SumFunctionOnSet(room, S \cup {d}) = room[d] + before
    <3>1. \A y \in S \cup {d} : room[y] \in Int BY <1>1, <2>1
    <3> QED BY <2>1, <2>2, <3>1, SumIn
  <2>6. SumFunctionOnSet(room, S \cup {d}) <= total
    <3>1. S \cup {d} \in SUBSET open /\ \A x \in open : room[x] \in Nat BY <1>1, <2>1
    <3> QED BY <1>1, <3>1, SumPart
  <2>7. total < hours BY <1>2, <1>3, <1>4, <1>6 DEF AtMost
  <2>8. room[d] \in Nat BY <1>1
  <2> HIDE DEF before, total, taken
  <2> QED BY <1>2, <2>3, <2>4, <2>5, <2>6, <2>7, <2>8 DEF AtMost, AtLeast
<1> DEFINE A == open \cup {first}
           one == [d \in A |-> IF d \in open THEN take[d] ELSE 0]
           two == [d \in A |-> IF d = first THEN rest ELSE 0]
<1>7. IsFiniteSet(A) /\ first \in A BY <1>1, FS_AddElement
<1>8. \A d \in A : on[d] \in Nat /\ on[d] = one[d] + two[d] /\ one[d] \in Nat /\ two[d] \in Nat
  BY <1>1, <1>5 DEF AndOver
<1> HIDE DEF total, taken
<1>9. SumFunctionOnSet(one, A) = taken
  <2>1. /\ open \in SUBSET A /\ \A d \in A \ open : one[d] = 0
        /\ \A d \in open : one[d] \in Int /\ one[d] = take[d]
    BY <1>1
  <2>2. \A d \in A : one[d] \in Nat BY <1>8
  <2> HIDE DEF A, one
  <2>3. SumFunctionOnSet(one, open) = SumFunctionOnSet(one, A) BY <1>7, <2>1, <2>2, SumPart
  <2>4. SumFunctionOnSet(one, open) = taken BY <1>1, <2>1, SumSame DEF taken
  <2> QED BY <2>3, <2>4
<1>10. SumFunctionOnSet(two, A) = rest
  <2>1. \A d \in A \ {first} : two[d] = 0 BY <1>1
  <2>2. two[first] = rest BY <1>7
  <2>3. two[first] \in Int BY <1>5, <2>2
  <2> HIDE DEF A, two
  <2>4. SumFunctionOnSet(two, A) = two[first] BY <1>7, <2>1, <2>3, SumOfOne
  <2> QED BY <2>2, <2>4
<1>11. SumFunctionOnSet(on, A) = SumFunctionOnSet(one, A) + SumFunctionOnSet(two, A)
  <2> HIDE DEF A, one, two
  <2>1. Adds(on, one, two, A) BY <1>8 DEF Adds
  <2> QED BY <1>7, <2>1, SumOfSums
<1>12. SumFunctionOnSet(on, A) = hours
  <2> HIDE DEF A, one, two, taken
  <2> QED BY <1>2, <1>4, <1>9, <1>10, <1>11
<1> QED BY <1>5, <1>6, <1>7, <1>8, <1>12

(* What PlaceSplit computes, named.                                        *)
Splits(place, r, used, p, hours, first, open, room, take, rest, on, days) ==
    /\ Fills(room, take, open, hours)
    /\ DOMAIN take = open
    /\ \A d \in open : room[d] = AtLeast(Remaining(r, used, p, d), 0)
    /\ rest = hours - SumFunction(take)
    /\ AndOver(on, take, open, first, rest)
    /\ days = {d \in open \cup {first} : on[d] > 0}
    /\ place = [start |-> Least(days), end |-> Greatest(days),
                load |-> [k \in {p} \X days |-> on[k[2]]]]

LEMMA SplitComputes ==
    ASSUME NEW r, IsRequest(r), NEW used, IsABag(used), NEW p,
           NEW hours \in Nat \ {0}, NEW from \in Nat
    PROVE  \E room, take, rest, on, days :
               Splits(PlaceSplit(r, used, p, hours, from), r, used, p, hours,
                      FirstWorkingDay(from), OpenDays(r, FirstWorkingDay(from)),
                      room, take, rest, on, days)
<1> DEFINE first == FirstWorkingDay(from)
           open  == OpenDays(r, first)
           room  == [d \in open |-> AtLeast(Remaining(r, used, p, d), 0)]
           upTo(d) == SumFunctionOnSet(room, {e \in open : e < d})
           take  == [d \in open |-> AtMost(room[d], AtLeast(hours - upTo(d), 0))]
           rest  == hours - SumFunction(take)
           on(d) == (IF d \in open THEN take[d] ELSE 0)
                        + (IF d = first THEN rest ELSE 0)
           onf   == [d \in open \cup {first} |-> on(d)]
           days  == {d \in open \cup {first} : on(d) > 0}
           place == [start |-> Least(days), end |-> Greatest(days),
                     load |-> [k \in {p} \X days |-> on(k[2])]]
<1>1. PlaceSplit(r, used, p, hours, from) = place BY DEF PlaceSplit
<1>2. open \in SUBSET Nat /\ IsFiniteSet(open)
  <2>1. first \in Nat BY FirstIsWorking
  <2> HIDE DEF first
  <2> QED BY <2>1, OpenIsFinite
<1>3. \A d \in open : room[d] \in Nat
  <2> SUFFICES ASSUME NEW d \in open PROVE AtLeast(Remaining(r, used, p, d), 0) \in Nat
    OBVIOUS
  <2>1. Remaining(r, used, p, d) \in Int BY RemainingIsInt
  <2> QED BY <2>1 DEF AtLeast
<1> HIDE DEF first, open
<1>4. Fills(room, take, open, hours)
  <2>1. \A d \in open : take[d] = AtMost(room[d], AtLeast(hours - upTo(d), 0))
    <3> HIDE DEF upTo, room
    <3> QED OBVIOUS
  <2> HIDE DEF room, take
  <2> QED BY <1>2, <1>3, <2>1 DEF Fills
<1>5. DOMAIN take = open OBVIOUS
<1>6. \A d \in open : room[d] = AtLeast(Remaining(r, used, p, d), 0) OBVIOUS
<1> HIDE DEF room, take, upTo, rest
<1>7. AndOver(onf, take, open, first, rest) BY DEF AndOver
<1>8. days = {d \in open \cup {first} : onf[d] > 0} OBVIOUS
<1>9. place.load = [k \in {p} \X days |-> onf[k[2]]]
  <2>1. \A k \in {p} \X days : k[2] \in open \cup {first} /\ onf[k[2]] = on(k[2]) OBVIOUS
  <2>2. place.load = [k \in {p} \X days |-> on(k[2])] OBVIOUS
  <2> HIDE DEF days, onf, on, place
  <2> QED BY <2>1, <2>2
<1>10. place = [start |-> Least(days), end |-> Greatest(days), load |-> place.load]
  OBVIOUS
<1>11. rest = hours - SumFunction(take) BY DEF rest
<1> HIDE DEF days, onf, on, place
<1>12. Splits(place, r, used, p, hours, first, open, room, take, rest, onf, days)
  BY <1>4, <1>5, <1>6, <1>7, <1>8, <1>9, <1>10, <1>11 DEF Splits
<1> QED BY <1>1, <1>12 DEF first, open

LEMMA SplitIsRight ==
    ASSUME NEW r, IsRequest(r), NEW used, IsLoad(used), NEW p \in DOMAIN Capacity,
           NEW hours \in Nat \ {0}, NEW from \in Nat
    PROVE  LET place == PlaceSplit(r, used, p, hours, from)
           IN  /\ InWork(place, from)
               /\ KeepsHours(place.load, hours, 1)
               /\ IsForced(r, used, place, 1)
<1> DEFINE place == PlaceSplit(r, used, p, hours, from)
           load  == place.load
           first == FirstWorkingDay(from)
           open  == OpenDays(r, first)
           A     == open \cup {first}
<1>1. IsABag(used) BY DEF IsLoad
<1>2. PICK room, take, rest, on, days :
          Splits(place, r, used, p, hours, first, open, room, take, rest, on, days)
  BY <1>1, SplitComputes
<1>3. first \in Nat /\ from <= first /\ IsWorkingDay(first) BY FirstIsWorking
<1>4. open \in SUBSET Nat /\ \A d \in open : first <= d /\ IsWorkingDay(d)
  <2> HIDE DEF first
  <2> QED BY <1>3, OpenIsFinite
<1> HIDE DEF place, first, open
<1>5. /\ Fills(room, take, open, hours) /\ DOMAIN take = open
      /\ \A d \in open : room[d] = AtLeast(Remaining(r, used, p, d), 0)
      /\ rest = hours - SumFunction(take)
      /\ AndOver(on, take, open, first, rest)
      /\ days = {d \in A : on[d] > 0}
      /\ place = [start |-> Least(days), end |-> Greatest(days),
                  load |-> [k \in {p} \X days |-> on[k[2]]]]
  BY <1>2 DEF Splits
<1>6. /\ rest \in Nat
      /\ rest # 0 => \A d \in open : take[d] = room[d]
      /\ IsFiniteSet(A) /\ \A d \in A : on[d] \in Nat
      /\ SumFunctionOnSet(on, A) = hours
  BY <1>3, <1>5, SplitHours
<1>7. \A d \in A : d \in Nat /\ from <= d /\ first <= d /\ IsWorkingDay(d) BY <1>3, <1>4
<1>8. \A d \in open : take[d] \in Nat /\ take[d] <= room[d] /\ room[d] \in Nat
  <2>1. \A d \in open : take[d] \in Nat /\ take[d] <= room[d] BY <1>5, FilledUpTo
  <2>2. \A d \in open : room[d] \in Nat BY <1>5 DEF Fills
  <2> QED BY <2>1, <2>2
<1>9. \A d \in A : on[d] = (IF d \in open THEN take[d] ELSE 0) + (IF d = first THEN rest ELSE 0)
  BY <1>5 DEF AndOver
<1> HIDE DEF A
<1>10. days \in SUBSET A /\ IsFiniteSet(days) /\ \A d \in A \ days : on[d] = 0
  <2>1. days \in SUBSET A BY <1>5
  <2>2. \A d \in A \ days : ~(on[d] > 0) /\ on[d] \in Nat BY <1>5, <1>6
  <2>3. \A d \in A \ days : on[d] = 0 BY <2>2
  <2>4. IsFiniteSet(days) BY <1>6, <2>1, FS_Subset
  <2> QED BY <2>1, <2>3, <2>4
<1>11. SumFunctionOnSet(on, days) = hours BY <1>6, <1>10, SumPart
<1>12. days # {}
  <2>1. ASSUME days = {} PROVE FALSE
    <3>1. SumFunctionOnSet(on, days) = 0 BY <2>1, SumEmpty
    <3> QED BY <1>11, <3>1
  <2> QED BY <2>1
<1>13. /\ place.start \in days /\ place.end \in days
       /\ \A d \in days : place.start <= d /\ d <= place.end
  <2>1. days \in SUBSET Nat /\ days \in SUBSET Int BY <1>7, <1>10
  <2>2. Least(days) \in days /\ \A d \in days : Least(days) <= d BY <1>12, <2>1, LeastOf
  <2>3. Greatest(days) \in days /\ \A d \in days : d <= Greatest(days)
    BY <1>10, <1>12, <2>1, GreatestOf
  <2> QED BY <1>5, <2>2, <2>3
<1>14. load = [k \in {p} \X days |-> on[k[2]]] BY <1>5
<1> HIDE DEF load
<1>15. DOMAIN load = {p} \X days /\ \A k \in DOMAIN load : load[k] = on[k[2]] BY <1>14
<1>16. \A k \in DOMAIN load : k = <<p, k[2]>> /\ k[1] = p /\ k[2] \in days BY <1>15
<1>17. \A d \in days : <<p, d>> \in DOMAIN load /\ load[<<p, d>>] = on[d] BY <1>15
<1>18. PeopleOf(load) = {p}
  <2>1. PICK d \in days : TRUE BY <1>12
  <2>2. <<p, d>> \in DOMAIN load /\ <<p, d>>[1] = p BY <1>17
  <2> QED BY <1>16, <2>2 DEF PeopleOf
<1>19. IsLoad(load)
  <2>1. IsFiniteSet(DOMAIN load)
    <3>1. IsFiniteSet({p} \X days) BY <1>10, FS_Singleton, FS_Product
    <3> QED BY <1>15, <3>1
  <2>2. \A d \in days : on[d] \in {n \in Nat : n > 0} BY <1>5, <1>6
  <2>3. load \in [DOMAIN load -> {n \in Nat : n > 0}]
    <3>1. \A k \in {p} \X days : on[k[2]] \in {n \in Nat : n > 0} BY <2>2
    <3> QED BY <1>14, <3>1
  <2>4. DOMAIN load \subseteq (DOMAIN Capacity) \X Nat BY <1>7, <1>10, <1>15
  <2> QED BY <2>1, <2>3, <2>4 DEF IsLoad, IsABag
<1>20. HoursBy(load, p) = hours
  <2>1. {l \in DOMAIN load : l[1] = p} = {p} \X days BY <1>15, <1>16
  <2>2. \A d \in days : on[d] \in Int /\ load[<<p, d>>] = on[d] BY <1>6, <1>10, <1>17
  <2> QED BY <1>10, <1>11, <2>1, <2>2, HoursByDays
<1>21. KeepsHours(load, hours, 1)
  BY <1>18, <1>19, <1>20, FS_Singleton DEF KeepsHours
<1>22. InWork(place, from)
  <2>1. \A d \in days : d \in Nat /\ from <= d /\ IsWorkingDay(d) BY <1>7, <1>10
  <2>2. \A k \in DOMAIN place.load : k[2] \in days BY <1>16 DEF load
  <2> QED BY <1>13, <2>1, <2>2 DEF InWork
<1>23. IsForced(r, used, place, 1)
  <2> SUFFICES ASSUME NEW k \in DOMAIN load
               PROVE  \/ HoursOn(k, used) + load[k] <= BaseCapacity(r, k[1], k[2])
                      \/ \A d \in OpenDays(r, place.start) : \E q \in PeopleOf(load) :
                             Remaining(r, used, q, d) - HoursOn(<<q, d>>, load) < 1
    BY DEF IsForced, load
  <2> DEFINE e == k[2]
  <2>1. k = <<p, e>> /\ k[1] = p /\ e \in days /\ e \in A /\ load[k] = on[e] /\ on[e] > 0
    BY <1>5, <1>10, <1>15, <1>16
  <2>2. CASE rest = 0
    <3>1. e \in open /\ on[e] = take[e] BY <1>8, <1>9, <2>1, <2>2
    <3>2. on[e] <= room[e] /\ room[e] = AtLeast(Remaining(r, used, p, e), 0)
      BY <1>5, <1>8, <3>1
    <3>3. Remaining(r, used, p, e) \in Int BY <1>1, RemainingIsInt
    <3>4. on[e] <= Remaining(r, used, p, e)
      BY <1>6, <2>1, <3>2, <3>3 DEF AtLeast
    <3>5. /\ Remaining(r, used, p, e) = BaseCapacity(r, k[1], k[2]) - HoursOn(k, used)
          /\ BaseCapacity(r, k[1], k[2]) \in Nat /\ HoursOn(k, used) \in Nat
      BY <1>1, <2>1, CapacityIsNat, LoadIsNat DEF Remaining
    <3>6. on[e] \in Nat BY <1>6, <2>1
    <3> HIDE DEF e
    <3> QED BY <2>1, <3>4, <3>5, <3>6
  <2>3. CASE rest # 0
    <3> SUFFICES ASSUME NEW d \in OpenDays(r, place.start)
                 PROVE  Remaining(r, used, p, d) - HoursOn(<<p, d>>, load) < 1
      BY <1>18
    <3>1. place.start \in Nat /\ first <= place.start BY <1>7, <1>10, <1>13
    <3>2. d \in open
      <4>1. Limit(r) \in Nat BY <1>3, OpenIsFinite
      <4> QED BY <1>3, <3>1, <4>1 DEF OpenDays, open
    <3>3. room[d] = AtLeast(Remaining(r, used, p, d), 0) /\ take[d] = room[d] /\ d \in A
      BY <1>5, <1>6, <2>3, <3>2 DEF A
    <3>4. on[d] \in Nat /\ take[d] \in Nat /\ on[d] >= take[d]
      BY <1>6, <1>8, <1>9, <3>2, <3>3
    <3>5. HoursOn(<<p, d>>, load) = on[d]
      <4>1. CASE d \in days BY <1>17, <4>1 DEF HoursOn
      <4>2. CASE d \notin days
        <5>1. <<p, d>> \notin DOMAIN load BY <1>15, <4>2
        <5> QED BY <1>10, <3>3, <4>2, <5>1 DEF HoursOn
      <4> QED BY <4>1, <4>2
    <3>6. Remaining(r, used, p, d) \in Int BY <1>1, RemainingIsInt
    <3> QED BY <3>3, <3>4, <3>5, <3>6 DEF AtLeast
  <2> QED BY <2>2, <2>3
<1> QED BY <1>21, <1>22, <1>23 DEF place, load

LEMMA WindowIsRight ==
    ASSUME NEW r, NEW used, NEW hours \in Nat \ {0}, NEW from \in Nat
    PROVE  LET place == PlaceWindow(hours, from)
           IN  /\ InWork(place, from)
               /\ KeepsHours(place.load, hours, 0)
               /\ IsForced(r, used, place, 1)
<1> DEFINE place == PlaceWindow(hours, from)
           first == FirstWorkingDay(from)
           span  == AtLeast(CeilDiv(hours, DayHours), 1)
           end   == NthWorkingDay(first, span)
<1>1. place = [start |-> first, end |-> end, load |-> EmptyBag] BY DEF PlaceWindow
<1>2. first \in Nat /\ from <= first BY FirstIsWorking
<1>3. span \in Nat \ {0}
  <2>1. CeilDiv(hours, DayHours) \in Int BY GreedyAssumption DEF CeilDiv
  <2> QED BY <2>1 DEF AtLeast
<1> HIDE DEF place, first, span
<1>4. end \in Nat /\ first <= end BY <1>2, <1>3, NthIsWorking
<1> HIDE DEF end
<1>5. DOMAIN EmptyBag = {} BY DEF EmptyBag, SetToBag
<1>6. IsLoad(EmptyBag)
  <2>1. IsABag(EmptyBag) BY DEF EmptyBag, SetToBag, IsABag
  <2> QED BY <1>5, <2>1, FS_EmptySet DEF IsLoad
<1>7. PeopleOf(EmptyBag) = {} BY <1>5 DEF PeopleOf
<1>8. KeepsHours(EmptyBag, hours, 0) BY <1>6, <1>7, FS_EmptySet DEF KeepsHours
<1>9. InWork(place, from) BY <1>1, <1>2, <1>4, <1>5 DEF InWork
<1>10. IsForced(r, used, place, 1) BY <1>1, <1>5 DEF IsForced
<1> QED BY <1>1, <1>8, <1>9, <1>10 DEF place

(* Whom a task may be given to: somebody, and nobody twice.                *)
LEMMA SomebodyMayDoIt ==
    ASSUME NEW r, IsRequest(r), NEW t \in DOMAIN r.tasks
    PROVE  LET who == Allowed(r, t)
           IN  /\ DOMAIN who \in SUBSET Nat /\ DOMAIN who # {}
               /\ \A i \in DOMAIN who : who[i] \in DOMAIN Capacity
               /\ \A i, j \in DOMAIN who : who[i] = who[j] => i = j
<1> DEFINE bound == r.tasks[t].allowed
           known == {i \in DOMAIN bound : bound[i] \in Members(r)}
           chosen == [i \in known |-> bound[i]]
<1>1. bound \in Seq(DOMAIN Capacity) /\ IsInjective(bound) BY DEF IsRequest, IsTask
<1>2. Allowed(r, t) = IF known = {} THEN r.team ELSE chosen BY DEF Allowed
<1>3. CASE known = {}
  <2>1. r.team \in Seq(DOMAIN Capacity) /\ IsInjective(r.team) /\ r.team # <<>>
    BY DEF IsRequest
  <2>2. /\ DOMAIN r.team = 1..Len(r.team) /\ Len(r.team) \in Nat \ {0}
        /\ \A i \in DOMAIN r.team : r.team[i] \in DOMAIN Capacity
    BY <2>1
  <2>3. DOMAIN r.team \in SUBSET Nat /\ 1 \in DOMAIN r.team BY <2>2
  <2>4. Allowed(r, t) = r.team BY <1>2, <1>3
  <2> QED BY <2>1, <2>2, <2>3, <2>4 DEF IsInjective
<1>4. CASE known # {}
  <2>1. \A i \in DOMAIN bound : i \in Nat /\ bound[i] \in DOMAIN Capacity
    <3> HIDE DEF bound
    <3>1. DOMAIN bound = 1..Len(bound) /\ Len(bound) \in Nat BY <1>1
    <3> QED BY <1>1, <3>1
  <2>2. Allowed(r, t) = chosen BY <1>2, <1>4
  <2>3. DOMAIN chosen = known /\ known \subseteq DOMAIN bound OBVIOUS
  <2>4. \A i \in known : chosen[i] = bound[i] OBVIOUS
  <2> HIDE DEF known, chosen, bound
  <2> QED BY <1>1, <1>4, <2>1, <2>2, <2>3, <2>4 DEF IsInjective
<1> QED BY <1>3, <1>4

-----------------------------------------------------------------------------
(* Links                                                                   *)

(* A day n comes after a place with the lag of the link.                   *)
Follows(l, place, n) ==
    LET base == IF l.link = "FS" THEN place.end + 1 ELSE place.start
    IN  n >= base /\ BusinessDaysBetween(base, n) >= l.lag - 1

LEMMA FollowsLater ==
    ASSUME NEW l, l.lag \in Int, NEW place, place.start \in Nat, place.end \in Nat,
           NEW m \in Nat, NEW n \in Nat, m <= n, Follows(l, place, m)
    PROVE  Follows(l, place, n)
<1> DEFINE base == IF l.link = "FS" THEN place.end + 1 ELSE place.start
<1>1. base \in Int /\ m \in Int /\ n \in Int OBVIOUS
<1>2. m >= base /\ BusinessDaysBetween(base, m) >= l.lag - 1 BY DEF Follows
<1> HIDE DEF base
<1>3. /\ BusinessDaysBetween(base, m) <= BusinessDaysBetween(base, n)
      /\ BusinessDaysBetween(base, m) \in Nat /\ BusinessDaysBetween(base, n) \in Nat
  <2>1. base <= base BY <1>1
  <2> QED BY <1>1, <2>1, BetweenGrows, BetweenIsNat
<1>4. n >= base /\ BusinessDaysBetween(base, n) >= l.lag - 1 BY <1>1, <1>2, <1>3
<1> QED BY <1>4 DEF Follows, base

LEMMA ImageIsFinite ==
    ASSUME NEW f, NEW S, IsFiniteSet(S)
    PROVE  IsFiniteSet({f[x] : x \in S})
<1> DEFINE T == {f[x] : x \in S}
           g == [x \in S |-> f[x]]
<1>1. g \in Surjection(S, T)
  <2>1. g \in [S -> T] OBVIOUS
  <2>2. \A y \in T : \E x \in S : g[x] = y OBVIOUS
  <2> HIDE DEF g, T
  <2> QED BY <2>1, <2>2 DEF Surjection
<1> QED BY <1>1, FS_Surjection

(* The places that the links of a task can lead to.                        *)
ArePlaces(placed) ==
    \A u \in DOMAIN placed : placed[u].start \in Nat /\ placed[u].end \in Nat

LEMMA StartsAfterLinks ==
    ASSUME NEW r, IsRequest(r), NEW t \in DOMAIN r.tasks, NEW placed, ArePlaces(placed)
    PROVE  LET from == EarliestStart(r, placed, t)
           IN  /\ from \in Nat /\ r.start <= from
               /\ \A l \in r.tasks[t].after :
                      l.on \in DOMAIN placed => Follows(l, placed[l.on], from)
<1> DEFINE base(l) == IF l.link = "FS" THEN NextWorkingDay(placed[l.on].end)
                                       ELSE placed[l.on].start
           after(l) == IF l.lag > 0 THEN NthWorkingDay(base(l), l.lag)
                                    ELSE FirstWorkingDay(base(l))
           links == {l \in r.tasks[t].after : l.on \in DOMAIN placed}
           days == {after(l) : l \in links}
           from == Greatest({r.start} \cup days)
<1>1. EarliestStart(r, placed, t) = from BY DEF EarliestStart
<1>2. /\ r.start \in Nat /\ IsFiniteSet(r.tasks[t].after)
      /\ \A l \in r.tasks[t].after : l.lag \in Int
  BY DEF IsRequest, IsTask
<1>3. ASSUME NEW l \in links
      PROVE  after(l) \in Nat /\ Follows(l, placed[l.on], after(l))
  <2> DEFINE place == placed[l.on]
             b == IF l.link = "FS" THEN place.end + 1 ELSE place.start
  <2>1. place.start \in Nat /\ place.end \in Nat /\ l.lag \in Int
    BY <1>2 DEF ArePlaces
  <2> HIDE DEF place
  <2>2. base(l) \in Nat /\ base(l) >= b /\ b \in Nat
    <3>1. base(l) = IF l.link = "FS" THEN NextWorkingDay(place.end) ELSE place.start
      BY DEF place
    <3>2. NextWorkingDay(place.end) \in Nat /\ NextWorkingDay(place.end) > place.end
      BY <2>1, NextIsWorking
    <3> HIDE DEF base
    <3> QED BY <2>1, <3>1, <3>2
  <2> HIDE DEF base, b
  <2>3. after(l) \in Nat /\ after(l) >= base(l) /\ BusinessDaysBetween(base(l), after(l)) >= l.lag - 1
    <3>1. CASE l.lag > 0
      <4>1. l.lag \in Nat \ {0} /\ after(l) = NthWorkingDay(base(l), l.lag) BY <2>1, <3>1
      <4> HIDE DEF after
      <4> QED BY <2>2, <4>1, NthIsWorking
    <3>2. CASE ~(l.lag > 0)
      <4>1. after(l) = FirstWorkingDay(base(l)) BY <3>2
      <4> HIDE DEF after
      <4>2. after(l) \in Nat /\ after(l) >= base(l) BY <2>2, <4>1, FirstIsWorking
      <4>3. BusinessDaysBetween(base(l), after(l)) \in Nat BY <2>2, <4>2, BetweenIsNat
      <4> QED BY <2>1, <3>2, <4>2, <4>3
    <3> QED BY <3>1, <3>2
  <2> HIDE DEF after
  <2>4. BusinessDaysBetween(base(l), after(l)) <= BusinessDaysBetween(b, after(l))
    <3>1. b \in Int /\ base(l) \in Int /\ after(l) \in Int /\ after(l) <= after(l)
      BY <2>2, <2>3
    <3> QED BY <2>2, <3>1, BetweenGrows
  <2>5. /\ BusinessDaysBetween(b, after(l)) \in Nat
        /\ BusinessDaysBetween(base(l), after(l)) \in Nat
    <3>1. b \in Int /\ base(l) \in Int /\ after(l) \in Int BY <2>2, <2>3
    <3> QED BY <3>1, BetweenIsNat
  <2>6. after(l) >= b /\ BusinessDaysBetween(b, after(l)) >= l.lag - 1
    BY <2>1, <2>2, <2>3, <2>4, <2>5
  <2> QED BY <2>3, <2>6 DEF Follows, b, place
<1> HIDE DEF base, after
<1>4. IsFiniteSet(days)
  <2> DEFINE f == [l \in links |-> after(l)]
  <2>1. IsFiniteSet(links) BY <1>2, FS_Subset
  <2>2. {f[l] : l \in links} = days OBVIOUS
  <2>3. IsFiniteSet({f[l] : l \in links})
    <3> HIDE DEF f, links
    <3> QED BY <2>1, ImageIsFinite
  <2> QED BY <2>2, <2>3
<1>5. days \in SUBSET Nat BY <1>3
<1>6. from \in {r.start} \cup days /\ \A m \in {r.start} \cup days : m <= from
  <2>1. IsFiniteSet({r.start} \cup days)
    <3> HIDE DEF days
    <3>1. {r.start} \cup days = days \cup {r.start} OBVIOUS
    <3> QED BY <1>4, <3>1, FS_AddElement
  <2>2. {r.start} \cup days \in SUBSET Int /\ {r.start} \cup days # {} BY <1>2, <1>5
  <2> HIDE DEF days
  <2> QED BY <2>1, <2>2, GreatestOf
<1>7. from \in Nat /\ r.start <= from BY <1>2, <1>5, <1>6
<1>8. ASSUME NEW l \in links PROVE Follows(l, placed[l.on], from)
  <2>1. after(l) \in Nat /\ after(l) <= from /\ Follows(l, placed[l.on], after(l))
    BY <1>3, <1>6
  <2>2. placed[l.on].start \in Nat /\ placed[l.on].end \in Nat /\ l.lag \in Int
    BY <1>2 DEF ArePlaces
  <2> HIDE DEF from
  <2> QED BY <1>7, <2>1, <2>2, FollowsLater
<1> HIDE DEF from
<1> QED BY <1>1, <1>7, <1>8

-----------------------------------------------------------------------------
(* The place of a task                                                     *)

LEMMA SomethingIsBest ==
    ASSUME NEW solo, NEW D, D # {},
           \A i \in D : solo[i].start \in Nat /\ solo[i].end \in Nat
    PROVE  \E i \in D : \A j \in D : ~Earlier(solo[j], solo[i])
<1> DEFINE starts == {solo[i].start : i \in D}
<1>1. PICK i \in D : \A j \in D : solo[i].start <= solo[j].start
  <2>1. starts \in SUBSET Nat /\ starts # {} BY Zenon
  <2>2. \E n \in starts : \A m \in starts : n <= m
    <3> HIDE DEF starts
    <3> QED BY <2>1, NatHasLeast
  <2> QED BY <2>2
<1> DEFINE E == {j \in D : solo[j].start = solo[i].start}
           ends == {solo[j].end : j \in E}
<1>2. PICK j \in E : \A k \in E : solo[j].end <= solo[k].end
  <2>1. ends \in SUBSET Nat /\ ends # {}
    <3>1. \A j \in E : solo[j].end \in Nat BY Zenon
    <3>2. i \in E BY <1>1
    <3> HIDE DEF E
    <3> QED BY <3>1, <3>2
  <2>2. \E n \in ends : \A m \in ends : n <= m
    <3> HIDE DEF ends
    <3> QED BY <2>1, NatHasLeast
  <2> HIDE DEF E
  <2> QED BY <2>2
<1>3. ASSUME NEW k \in D PROVE ~Earlier(solo[k], solo[j])
  <2>1. /\ solo[k].start \in Nat /\ solo[k].end \in Nat
        /\ solo[j].start \in Nat /\ solo[j].end \in Nat /\ solo[j].start = solo[i].start
    BY <1>2
  <2>2. solo[j].start <= solo[k].start BY <1>1, <2>1
  <2>3. solo[k].start = solo[j].start => solo[j].end <= solo[k].end BY <1>2, <2>1
  <2> QED BY <2>1, <2>2, <2>3 DEF Earlier
<1> QED BY <1>2, <1>3

People(r, t) ==
    IF r.tasks[t].window THEN 0
    ELSE IF InPairs(r.tasks[t], Allowed(r, t)) THEN 2 ELSE 1

(* The hours that a person was short of where a task is an overload.       *)
Needed(r, t) ==
    IF r.tasks[t].splittable /\ ~InPairs(r.tasks[t], Allowed(r, t))
    THEN 1 ELSE r.tasks[t].hours

IsRight(r, used, t, place, from) ==
    /\ InWork(place, from)
    /\ KeepsHours(place.load, r.tasks[t].hours, People(r, t))
    /\ IsForced(r, used, place, Needed(r, t))

LEMMA ByIsRight ==
    ASSUME NEW r, NEW used, NEW t, NEW place, NEW from, NEW p,
           InWork(place, from), KeepsHours(place.load, r.tasks[t].hours, People(r, t)),
           IsForced(r, used, place, Needed(r, t))
    PROVE  IsRight(r, used, t, [person |-> p, start |-> place.start,
                                end |-> place.end, load |-> place.load], from)
BY DEF IsRight, InWork, KeepsHours, IsForced

LEMMA PlaceIsRight ==
    ASSUME NEW r, IsRequest(r), NEW used, IsLoad(used), NEW t \in DOMAIN r.tasks,
           NEW placed, ArePlaces(placed)
    PROVE  LET place == PlaceTask(r, used, placed, t)
           IN  /\ place.person \in DOMAIN Capacity
               /\ IsRight(r, used, t, place, EarliestStart(r, placed, t))
<1> DEFINE task == r.tasks[t]
           who  == Allowed(r, t)
           from == EarliestStart(r, placed, t)
           by(p, place) == [person |-> p, start |-> place.start,
                            end |-> place.end, load |-> place.load]
           solo == [i \in DOMAIN who |->
                       IF task.splittable
                       THEN PlaceSplit(r, used, who[i], task.hours, from)
                       ELSE PlaceTogether(r, used, {who[i]}, task.hours, from)]
           bests == {i \in DOMAIN who :
                         \A j \in DOMAIN who : ~Earlier(solo[j], solo[i])}
           best == Least(bests)
           lead == who[First(who)]
           pair == InPairs(task, who)
           apart == PlaceWindow(task.hours, from)
           both == PlaceTogether(r, used, {lead, who[Second(who)]}, task.hours, from)
           place == PlaceTask(r, used, placed, t)
<1>1. place = IF task.window THEN by(lead, apart)
              ELSE IF pair THEN by(lead, both) ELSE by(who[best], solo[best])
  BY DEF PlaceTask
<1>2. /\ task.hours \in Nat \ {0}
      /\ task.splittable \in BOOLEAN /\ task.pair \in BOOLEAN /\ task.window \in BOOLEAN
  BY DEF IsRequest, IsTask
<1>3. /\ DOMAIN who \in SUBSET Nat /\ DOMAIN who # {}
      /\ \A i \in DOMAIN who : who[i] \in DOMAIN Capacity
      /\ \A i, j \in DOMAIN who : who[i] = who[j] => i = j
  BY SomebodyMayDoIt
<1>4. from \in Nat BY StartsAfterLinks
<1> HIDE DEF from, who, task, place
<1>5. First(who) \in DOMAIN who /\ lead \in DOMAIN Capacity
  BY <1>3, LeastOf DEF First
<1>6. CASE task.window
  <2>1. /\ InWork(apart, from) /\ KeepsHours(apart.load, task.hours, 0)
        /\ IsForced(r, used, apart, 1) /\ DOMAIN apart.load = {}
    <3>1. DOMAIN apart.load = {} BY DEF PlaceWindow, EmptyBag, SetToBag
    <3> QED BY <1>2, <1>4, <3>1, WindowIsRight
  <2>2. IsForced(r, used, apart, Needed(r, t)) BY <2>1 DEF IsForced
  <2>3. People(r, t) = 0 BY <1>6 DEF People, task
  <2>4. place = by(lead, apart) /\ place.person = lead BY <1>1, <1>6
  <2>5. IsRight(r, used, t, by(lead, apart), from)
    <3> HIDE DEF apart, lead
    <3> QED BY <2>1, <2>2, <2>3, ByIsRight DEF task
  <2> QED BY <1>5, <2>4, <2>5 DEF from, place
<1>7. CASE ~task.window /\ pair
  <2> DEFINE second == who[Second(who)]
  <2>1. DOMAIN who \ {First(who)} # {} BY <1>7 DEF InPairs
  <2>2. Second(who) \in DOMAIN who \ {First(who)}
    <3>1. DOMAIN who \ {First(who)} \in SUBSET Nat BY <1>3
    <3> QED BY <2>1, <3>1, LeastOf DEF Second
  <2>3. second \in DOMAIN Capacity /\ second # lead BY <1>3, <1>5, <2>2
  <2> DEFINE people == {lead, second}
  <2>4. IsFiniteSet(people) /\ Cardinality(people) = 2
    <3>1. IsFiniteSet({lead}) /\ Cardinality({lead}) = 1 BY FS_Singleton
    <3>2. {lead} \cup {second} = people /\ second \notin {lead} BY <2>3
    <3> HIDE DEF lead, second, people
    <3> QED BY <3>1, <3>2, FS_AddElement
  <2>5. people \in SUBSET (DOMAIN Capacity) /\ people # {} BY <1>5, <2>3
  <2>6. both = PlaceTogether(r, used, people, task.hours, from) OBVIOUS
  <2> HIDE DEF people, both
  <2>7. /\ InWork(both, from) /\ KeepsHours(both.load, task.hours, 2)
        /\ IsForced(r, used, both, task.hours)
    BY <1>2, <1>4, <2>4, <2>5, <2>6, TogetherIsRight
  <2>8. People(r, t) = 2 /\ Needed(r, t) = task.hours
    BY <1>7 DEF People, Needed, task, who
  <2>9. place = by(lead, both) /\ place.person = lead BY <1>1, <1>7
  <2>10. IsRight(r, used, t, by(lead, both), from)
    <3> HIDE DEF lead
    <3> QED BY <2>7, <2>8, ByIsRight DEF task
  <2> QED BY <1>5, <2>9, <2>10 DEF from, place
<1>8. CASE ~task.window /\ ~pair
  <2>1. ASSUME NEW i \in DOMAIN who
        PROVE  /\ InWork(solo[i], from) /\ KeepsHours(solo[i].load, task.hours, 1)
               /\ IsForced(r, used, solo[i], Needed(r, t))
    <3>1. who[i] \in DOMAIN Capacity BY <1>3
    <3>2. CASE task.splittable
      <4>1. solo[i] = PlaceSplit(r, used, who[i], task.hours, from) BY <3>2
      <4>2. Needed(r, t) = 1 BY <1>8, <3>2 DEF Needed, task, who
      <4> HIDE DEF solo
      <4> QED BY <1>2, <1>4, <3>1, <4>1, <4>2, SplitIsRight
    <3>3. CASE ~task.splittable
      <4>1. solo[i] = PlaceTogether(r, used, {who[i]}, task.hours, from) BY <3>3
      <4>2. Needed(r, t) = task.hours BY <3>3 DEF Needed, task
      <4>3. /\ IsFiniteSet({who[i]}) /\ Cardinality({who[i]}) = 1 /\ {who[i]} # {}
            /\ {who[i]} \in SUBSET (DOMAIN Capacity)
        BY <3>1, FS_Singleton
      <4> HIDE DEF solo
      <4> QED BY <1>2, <1>4, <4>1, <4>2, <4>3, TogetherIsRight
    <3> QED BY <3>2, <3>3
  <2> HIDE DEF solo
  <2>2. \A i \in DOMAIN who : solo[i].start \in Nat /\ solo[i].end \in Nat
    BY <2>1 DEF InWork
  <2>3. bests # {} BY <1>3, <2>2, SomethingIsBest
  <2>4. best \in DOMAIN who
    <3>1. bests \in SUBSET Nat BY <1>3
    <3>2. best \in bests
      <4> HIDE DEF bests
      <4> QED BY <2>3, <3>1, LeastOf
    <3> QED BY <3>2
  <2>5. People(r, t) = 1 BY <1>8 DEF People, task, who
  <2>6. place = by(who[best], solo[best]) /\ place.person = who[best] BY <1>1, <1>8
  <2>7. IsRight(r, used, t, by(who[best], solo[best]), from)
    <3> HIDE DEF best
    <3> QED BY <2>1, <2>4, <2>5, ByIsRight DEF task
  <2>8. who[best] \in DOMAIN Capacity BY <1>3, <2>4
  <2> QED BY <2>6, <2>7, <2>8 DEF from, place
<1> QED BY <1>6, <1>7, <1>8

-----------------------------------------------------------------------------
(* Bags of hours                                                           *)

AreLoads(loads) ==
    /\ IsFiniteSet(DOMAIN loads)
    /\ \A i \in DOMAIN loads : IsLoad(loads[i])

LEMMA SameLoad ==
    ASSUME NEW a, IsLoad(a), NEW b, IsLoad(b), \A k : HoursOn(k, a) = HoursOn(k, b)
    PROVE  a = b
<1>1. /\ a \in [DOMAIN a -> {n \in Nat : n > 0}]
      /\ b \in [DOMAIN b -> {n \in Nat : n > 0}]
  BY DEF IsLoad, IsABag
<1>2. \A k : k \in DOMAIN a <=> HoursOn(k, a) # 0 BY <1>1 DEF HoursOn
<1>3. \A k : k \in DOMAIN b <=> HoursOn(k, b) # 0 BY <1>1 DEF HoursOn
<1>4. DOMAIN a = DOMAIN b BY <1>2, <1>3
<1>5. \A k \in DOMAIN a : a[k] = b[k]
  <2>1. \A k \in DOMAIN a : HoursOn(k, a) = a[k] /\ HoursOn(k, b) = b[k]
    BY <1>4 DEF HoursOn
  <2> QED BY <2>1
<1> QED BY <1>1, <1>4, <1>5

LEMMA PlusIsLoad ==
    ASSUME NEW a, IsLoad(a), NEW b, IsLoad(b)
    PROVE  /\ IsLoad(a (+) b)
           /\ DOMAIN (a (+) b) = DOMAIN a \cup DOMAIN b
           /\ \A k : HoursOn(k, a (+) b) = HoursOn(k, a) + HoursOn(k, b)
<1> DEFINE c == a (+) b
<1>1. c = [k \in DOMAIN a \cup DOMAIN b |-> HoursOn(k, a) + HoursOn(k, b)]
  BY DEF (+), HoursOn
<1>2. \A k : HoursOn(k, a) \in Nat /\ HoursOn(k, b) \in Nat BY LoadIsNat DEF IsLoad
<1>3. \A k : /\ k \in DOMAIN a => HoursOn(k, a) \in Nat \ {0}
             /\ k \in DOMAIN b => HoursOn(k, b) \in Nat \ {0}
  BY LoadIsNat DEF IsLoad
<1>4. \A k : /\ k \notin DOMAIN a => HoursOn(k, a) = 0
             /\ k \notin DOMAIN b => HoursOn(k, b) = 0
  BY DEF HoursOn
<1> HIDE DEF c
<1>5. DOMAIN c = DOMAIN a \cup DOMAIN b
      /\ \A k \in DOMAIN c : c[k] = HoursOn(k, a) + HoursOn(k, b)
  BY <1>1
<1>6. c \in [DOMAIN c -> {n \in Nat : n > 0}]
  <2>1. \A k \in DOMAIN c : c[k] \in {n \in Nat : n > 0} BY <1>2, <1>3, <1>5
  <2>2. c = [k \in DOMAIN c |-> c[k]] BY <1>1
  <2> QED BY <2>1, <2>2
<1>7. IsFiniteSet(DOMAIN c) /\ DOMAIN c \subseteq (DOMAIN Capacity) \X Nat
  <2>1. IsFiniteSet(DOMAIN a \cup DOMAIN b) BY FS_Union DEF IsLoad
  <2> QED BY <1>5, <2>1 DEF IsLoad
<1>8. ASSUME NEW k PROVE HoursOn(k, c) = HoursOn(k, a) + HoursOn(k, b)
  <2>1. CASE k \in DOMAIN c BY <1>5, <2>1 DEF HoursOn
  <2>2. CASE k \notin DOMAIN c
    <3>1. HoursOn(k, a) = 0 /\ HoursOn(k, b) = 0 BY <1>4, <1>5, <2>2
    <3>2. HoursOn(k, c) = 0 BY <2>2 DEF HoursOn
    <3> QED BY <3>1, <3>2
  <2> QED BY <2>1, <2>2
<1>9. IsLoad(c) BY <1>6, <1>7 DEF IsLoad, IsABag
<1> QED BY <1>5, <1>8, <1>9 DEF c

(* What several loads put on a person-day is the sum of what each does.    *)
HoursOfEach(k, loads) == [i \in DOMAIN loads |-> HoursOn(k, loads[i])]

LEMMA TotalIsLoad ==
    ASSUME NEW loads, AreLoads(loads)
    PROVE  /\ IsLoad(Total(loads))
           /\ DOMAIN Total(loads) = UNION {DOMAIN loads[i] : i \in DOMAIN loads}
           /\ \A k : /\ HoursOn(k, Total(loads))
                            = SumFunctionOnSet(HoursOfEach(k, loads), DOMAIN loads)
                     /\ \A i \in DOMAIN loads : HoursOfEach(k, loads)[i] \in Nat
<1> DEFINE D == DOMAIN loads
           each(k) == HoursOfEach(k, loads)
           keys == UNION {DOMAIN loads[i] : i \in D}
           T == Total(loads)
<1>0. IsFiniteSet(D) /\ \A i \in D : IsLoad(loads[i]) BY DEF AreLoads
<1>1. \A k : \A i \in D : /\ each(k)[i] = HoursOn(k, loads[i])
                          /\ each(k)[i] \in Nat
                          /\ k \in DOMAIN loads[i] => each(k)[i] # 0
  <2> SUFFICES ASSUME NEW k, NEW i \in D
               PROVE  /\ each(k)[i] = HoursOn(k, loads[i]) /\ each(k)[i] \in Nat
                      /\ k \in DOMAIN loads[i] => each(k)[i] # 0
    OBVIOUS
  <2>1. each(k)[i] = HoursOn(k, loads[i]) BY DEF HoursOfEach
  <2>2. IsABag(loads[i]) BY <1>0 DEF IsLoad
  <2>3. HoursOn(k, loads[i]) \in Nat BY <2>2, LoadIsNat
  <2>4. k \in DOMAIN loads[i] => HoursOn(k, loads[i]) \in Nat \ {0} BY <2>2, LoadIsNat
  <2> QED BY <2>1, <2>3, <2>4
<1>2. \A k : DOMAIN each(k) = D BY DEF HoursOfEach
<1>3. \A k : SumFunction(each(k)) = SumFunctionOnSet(each(k), D)
  BY <1>2, Zenon DEF SumFunction
<1>4. T = [k \in keys |-> SumFunction(each(k))] BY Zenon DEF Total, HoursOfEach
<1> HIDE DEF each, T, D
<1>5. DOMAIN T = keys /\ \A k \in keys : T[k] = SumFunctionOnSet(each(k), D)
  BY <1>3, <1>4
<1>6. ASSUME NEW k
      PROVE  /\ SumFunctionOnSet(each(k), D) \in Nat
             /\ k \in keys <=> SumFunctionOnSet(each(k), D) # 0
  <2> DEFINE f == each(k)
  <2>1. \A i \in D : f[i] \in Nat /\ f[i] = HoursOn(k, loads[i]) BY <1>1
  <2>2. k \in keys => \E i \in D : f[i] # 0 BY <1>1
  <2>3. k \notin keys => \A i \in D : f[i] = 0
    <3>1. k \notin keys => \A i \in D : k \notin DOMAIN loads[i] BY Zenon
    <3> QED BY <2>1, <3>1 DEF HoursOn
  <2> HIDE DEF f, keys
  <2>4. SumFunctionOnSet(f, D) \in Nat /\ \A i \in D : f[i] <= SumFunctionOnSet(f, D)
    BY <1>0, <2>1, SumOfNat
  <2>5. k \notin keys => SumFunctionOnSet(f, D) = 0 BY <1>0, <2>3, SumOfZeros
  <2>6. k \in keys => SumFunctionOnSet(f, D) # 0 BY <2>1, <2>2, <2>4
  <2> QED BY <2>4, <2>5, <2>6 DEF f
<1>7. IsFiniteSet(keys) /\ keys \subseteq (DOMAIN Capacity) \X Nat
  <2> DEFINE f == [i \in D |-> DOMAIN loads[i]]
  <2>1. {f[i] : i \in D} = {DOMAIN loads[i] : i \in D} OBVIOUS
  <2>2. IsFiniteSet({f[i] : i \in D})
    <3> HIDE DEF f
    <3> QED BY <1>0, ImageIsFinite
  <2>3. IsFiniteSet({DOMAIN loads[i] : i \in D}) BY <2>1, <2>2
  <2>4. \A i \in D : IsFiniteSet(DOMAIN loads[i]) /\ DOMAIN loads[i] \subseteq (DOMAIN Capacity) \X Nat
    BY <1>0 DEF IsLoad
  <2>5. \A S \in {DOMAIN loads[i] : i \in D} : IsFiniteSet(S) BY <2>4
  <2>6. keys \subseteq (DOMAIN Capacity) \X Nat BY <2>4
  <2> QED BY <2>3, <2>5, <2>6, FS_UNION
<1> HIDE DEF keys
<1>8. T \in [DOMAIN T -> {n \in Nat : n > 0}]
  <2>1. \A k \in keys : T[k] \in {n \in Nat : n > 0} BY <1>5, <1>6
  <2>2. T = [k \in DOMAIN T |-> T[k]] BY <1>4
  <2> QED BY <1>5, <2>1, <2>2
<1>9. IsLoad(T) BY <1>5, <1>7, <1>8 DEF IsLoad, IsABag
<1>10. \A k : HoursOn(k, T) = SumFunctionOnSet(each(k), D) BY <1>5, <1>6 DEF HoursOn
<1> QED BY <1>1, <1>5, <1>9, <1>10 DEF T, D, each, keys

LEMMA TotalOfNone ==
    ASSUME NEW loads, DOMAIN loads = {}
    PROVE  AreLoads(loads) /\ IsLoad(Total(loads)) /\ DOMAIN Total(loads) = {}
<1>1. AreLoads(loads) BY FS_EmptySet DEF AreLoads
<1> QED BY <1>1, TotalIsLoad

LEMMA TotalPut ==
    ASSUME NEW loads, AreLoads(loads), NEW t, t \notin DOMAIN loads, NEW load, IsLoad(load)
    PROVE  /\ AreLoads(Put(loads, t, load))
           /\ Total(Put(loads, t, load)) = Total(loads) (+) load
<1> DEFINE more == Put(loads, t, load)
           D == DOMAIN loads
           sum == Total(loads) (+) load
<1>1. /\ DOMAIN more = D \cup {t} /\ more[t] = load
      /\ \A i \in D : more[i] = loads[i]
  BY DEF Put
<1>2. IsFiniteSet(D) /\ \A i \in D : IsLoad(loads[i]) BY DEF AreLoads
<1> HIDE DEF more, D
<1>3. AreLoads(more)
  <2>1. IsFiniteSet(DOMAIN more) BY <1>1, <1>2, FS_AddElement
  <2> QED BY <1>1, <1>2, <2>1 DEF AreLoads
<1>4. IsLoad(Total(loads)) /\ IsLoad(Total(more)) BY <1>3, TotalIsLoad
<1>5. IsLoad(sum) /\ \A k : HoursOn(k, sum) = HoursOn(k, Total(loads)) + HoursOn(k, load)
  BY <1>4, PlusIsLoad
<1> HIDE DEF sum
<1>6. ASSUME NEW k PROVE HoursOn(k, Total(more)) = HoursOn(k, sum)
  <2> DEFINE f == HoursOfEach(k, loads)
             g == HoursOfEach(k, more)
  <2>1. /\ HoursOn(k, Total(loads)) = SumFunctionOnSet(f, D)
        /\ \A i \in D : f[i] \in Nat
    BY TotalIsLoad DEF D
  <2>2. /\ HoursOn(k, Total(more)) = SumFunctionOnSet(g, DOMAIN more)
        /\ \A i \in DOMAIN more : g[i] \in Nat
    BY <1>3, TotalIsLoad
  <2>3. g[t] = HoursOn(k, load) /\ \A i \in D : g[i] = f[i]
    BY <1>1 DEF HoursOfEach, D
  <2> HIDE DEF f, g
  <2>4. SumFunctionOnSet(g, DOMAIN more) = g[t] + SumFunctionOnSet(g, D)
    <3>1. \A y \in D \cup {t} : g[y] \in Int BY <1>1, <2>2
    <3>2. t \notin D BY DEF D
    <3>3. SumFunctionOnSet(g, D \cup {t}) = g[t] + SumFunctionOnSet(g, D)
      BY <1>2, <3>1, <3>2, SumIn
    <3>4. SumFunctionOnSet(g, DOMAIN more) = SumFunctionOnSet(g, D \cup {t})
      BY <1>1, Zenon
    <3> QED BY <3>3, <3>4
  <2>5. SumFunctionOnSet(g, D) = SumFunctionOnSet(f, D)
    <3>1. \A x \in D : g[x] \in Int /\ g[x] = f[x] BY <2>1, <2>3
    <3> QED BY <1>2, <3>1, SumSame
  <2>6. SumFunctionOnSet(f, D) \in Nat BY <1>2, <2>1, SumOfNat
  <2>7. g[t] \in Nat BY <1>1, <2>2
  <2> QED BY <1>5, <2>1, <2>2, <2>3, <2>4, <2>5, <2>6, <2>7
<1>7. Total(more) = sum BY <1>4, <1>5, <1>6, SameLoad
<1> QED BY <1>3, <1>7 DEF more, sum

(* All the hours of a load                                                 *)
LEMMA AllHours ==
    ASSUME NEW load, IsLoad(load), NEW S, IsFiniteSet(S), DOMAIN load \in SUBSET S
    PROVE  /\ SumFunction(load) \in Nat
           /\ SumFunction(load) = SumFunctionOnSet([k \in S |-> HoursOn(k, load)], S)
<1> DEFINE D == DOMAIN load
           f == [k \in S |-> HoursOn(k, load)]
<1>1. SumFunction(load) = SumFunctionOnSet(load, D) BY Zenon DEF SumFunction
<1>2. IsFiniteSet(D) /\ \A k \in D : load[k] \in Nat
  BY LoadIsNat DEF IsLoad
<1>3. \A k \in S : f[k] \in Nat BY LoadIsNat DEF IsLoad
<1>4. \A k \in D : load[k] \in Int /\ load[k] = f[k] BY <1>2 DEF HoursOn
<1>5. \A k \in S \ D : f[k] = 0 BY DEF HoursOn
<1> HIDE DEF f
<1>6. D \in SUBSET S OBVIOUS
<1> HIDE DEF D
<1>7. SumFunctionOnSet(load, D) = SumFunctionOnSet(f, D) BY <1>2, <1>4, SumSame
<1>8. SumFunctionOnSet(f, D) = SumFunctionOnSet(f, S) BY <1>3, <1>5, <1>6, SumPart
<1>9. SumFunctionOnSet(load, D) \in Nat BY <1>2, SumOfNat
<1> QED BY <1>1, <1>7, <1>8, <1>9 DEF f

LEMMA AllHoursOfTwo ==
    ASSUME NEW a, IsLoad(a), NEW b, IsLoad(b)
    PROVE  SumFunction(a (+) b) = SumFunction(a) + SumFunction(b)
<1> DEFINE c == a (+) b
           S == DOMAIN c
           f(x) == [k \in S |-> HoursOn(k, x)]
<1>1. /\ IsLoad(c) /\ S = DOMAIN a \cup DOMAIN b
      /\ \A k : HoursOn(k, c) = HoursOn(k, a) + HoursOn(k, b)
  BY PlusIsLoad
<1> HIDE DEF c
<1>2. IsFiniteSet(S) /\ DOMAIN a \in SUBSET S /\ DOMAIN b \in SUBSET S /\ DOMAIN c \in SUBSET S
  BY <1>1 DEF IsLoad
<1> HIDE DEF S
<1>3. /\ SumFunction(a) = SumFunctionOnSet(f(a), S)
      /\ SumFunction(b) = SumFunctionOnSet(f(b), S)
      /\ SumFunction(c) = SumFunctionOnSet(f(c), S)
  BY <1>1, <1>2, AllHours
<1>4. Adds(f(c), f(a), f(b), S)
  <2>1. \A k : HoursOn(k, a) \in Nat /\ HoursOn(k, b) \in Nat BY LoadIsNat DEF IsLoad
  <2> QED BY <1>1, <2>1 DEF Adds
<1> HIDE DEF f
<1>5. SumFunctionOnSet(f(c), S) = SumFunctionOnSet(f(a), S) + SumFunctionOnSet(f(b), S)
  BY <1>2, <1>4, SumOfSums
<1> QED BY <1>3, <1>5 DEF c

(* The hours of several loads together are the sum of the hours of each.   *)
LEMMA AllHoursOfAll ==
    ASSUME NEW loads, AreLoads(loads)
    PROVE  SumFunction(Total(loads))
               = SumFunctionOnSet([i \in DOMAIN loads |-> SumFunction(loads[i])], DOMAIN loads)
<1> DEFINE D == DOMAIN loads
           each == [i \in D |-> SumFunction(loads[i])]
           only(T) == [i \in T |-> loads[i]]
           P(T) == SumFunction(Total(only(T))) = SumFunctionOnSet(each, T)
           bad == {T \in SUBSET D : ~P(T)}
<1>1. IsFiniteSet(D) /\ \A i \in D : IsLoad(loads[i]) BY DEF AreLoads
<1>2. \A i \in D : each[i] \in Nat /\ each[i] = SumFunction(loads[i])
  <2> SUFFICES ASSUME NEW i \in D PROVE SumFunction(loads[i]) \in Nat OBVIOUS
  <2>1. IsLoad(loads[i]) /\ IsFiniteSet(DOMAIN loads[i]) BY <1>1 DEF IsLoad
  <2> QED BY <2>1, AllHours
<1> HIDE DEF each
<1>3. ASSUME NEW T \in SUBSET D
      PROVE  AreLoads(only(T)) /\ DOMAIN only(T) = T /\ IsFiniteSet(T)
  <2>1. IsFiniteSet(T) BY <1>1, FS_Subset
  <2> QED BY <1>1, <2>1 DEF AreLoads
<1>4. bad = {}
  <2>1. SUFFICES ASSUME bad # {} PROVE FALSE OBVIOUS
  <2>2. PICK T \in bad : \A U \in SUBSET T : U # T => U \notin bad
    <3>1. bad \in SUBSET (SUBSET D) OBVIOUS
    <3> HIDE DEF bad
    <3> QED BY <1>1, <2>1, <3>1, MinimalSet
  <2>3. T \in SUBSET D /\ ~P(T) BY <2>2
  <2>4. CASE T = {}
    <3> DEFINE none == Total(only(T))
    <3>1. DOMAIN none = {}
      <4>1. DOMAIN only(T) = {} BY <2>4
      <4> HIDE DEF only
      <4> QED BY <4>1, TotalOfNone
    <3> HIDE DEF none
    <3>2. SumFunction(none) = SumFunctionOnSet(none, DOMAIN none) BY Zenon DEF SumFunction
    <3>3. SumFunction(none) = 0 BY <3>1, <3>2, SumEmpty
    <3>4. SumFunctionOnSet(each, T) = 0 BY <2>4, SumEmpty
    <3> QED BY <2>3, <3>3, <3>4 DEF none
  <2>5. CASE T # {}
    <3>1. PICK x \in T : TRUE BY <2>5
    <3> DEFINE U == T \ {x}
    <3>2. U \in SUBSET D /\ U \in SUBSET T /\ U # T /\ x \notin U /\ x \in D /\ T = U \cup {x}
      BY <2>3, <3>1
    <3> HIDE DEF U
    <3>3. P(U)
      <4> HIDE DEF P
      <4> QED BY <2>2, <3>2
    <3>4. only(T) = Put(only(U), x, loads[x]) BY <3>2 DEF Put
    <3>5. AreLoads(only(U)) /\ DOMAIN only(U) = U /\ IsFiniteSet(U) BY <1>3, <3>2
    <3>6. IsLoad(loads[x]) BY <1>1, <3>2
    <3> DEFINE before == only(U)
               after == only(T)
    <3> HIDE DEF only
    <3>7. Total(Put(before, x, loads[x])) = Total(before) (+) loads[x]
      BY <3>2, <3>5, <3>6, TotalPut
    <3>8. SumFunction(Total(before) (+) loads[x]) = SumFunction(Total(before)) + SumFunction(loads[x])
      BY <3>5, <3>6, TotalIsLoad, AllHoursOfTwo
    <3>9. SumFunction(Total(after)) = SumFunction(Total(before)) + SumFunction(loads[x])
      <4>1. Total(after) = Total(before) (+) loads[x] BY <3>4, <3>7
      <4> QED BY <3>8, <4>1
    <3>10. SumFunctionOnSet(each, T) = each[x] + SumFunctionOnSet(each, U)
      <4>1. \A y \in U \cup {x} : each[y] \in Int BY <1>2, <3>2
      <4>2. SumFunctionOnSet(each, U \cup {x}) = each[x] + SumFunctionOnSet(each, U)
        BY <3>2, <3>5, <4>1, SumIn
      <4> QED BY <3>2, <4>2
    <3>11. each[x] = SumFunction(loads[x]) /\ each[x] \in Nat BY <1>2, <3>2
    <3>12. SumFunctionOnSet(each, U) \in Nat
      <4>1. \A y \in U : each[y] \in Nat BY <1>2, <3>2
      <4> QED BY <3>5, <4>1, SumOfNat
    <3> QED BY <2>3, <3>3, <3>9, <3>10, <3>11, <3>12
  <2> QED BY <2>4, <2>5
<1>5. P(D) BY <1>4
<1>6. Total(only(D)) = Total(loads)
  <2>1. UNION {DOMAIN only(D)[i] : i \in DOMAIN only(D)} = UNION {DOMAIN loads[i] : i \in D}
    OBVIOUS
  <2>2. ASSUME NEW k PROVE HoursOn(k, Total(only(D))) = HoursOn(k, Total(loads))
    <3>1. HoursOfEach(k, only(D)) = HoursOfEach(k, loads) BY DEF HoursOfEach
    <3>2. AreLoads(only(D)) /\ DOMAIN only(D) = D BY <1>3
    <3> HIDE DEF only, D
    <3>3. HoursOn(k, Total(only(D))) = SumFunctionOnSet(HoursOfEach(k, only(D)), D)
      BY <3>2, TotalIsLoad
    <3>4. HoursOn(k, Total(loads)) = SumFunctionOnSet(HoursOfEach(k, loads), D)
      BY TotalIsLoad DEF D
    <3> QED BY <3>1, <3>3, <3>4
  <2>3. AreLoads(only(D)) BY <1>3
  <2> HIDE DEF only, D
  <2> QED BY <2>2, <2>3, TotalIsLoad, SameLoad
<1> QED BY <1>5, <1>6 DEF each

LEMMA PlusIsAssociative ==
    ASSUME NEW a, IsLoad(a), NEW b, IsLoad(b), NEW c, IsLoad(c)
    PROVE  (a (+) b) (+) c = a (+) (b (+) c)
<1> DEFINE left == (a (+) b) (+) c
           right == a (+) (b (+) c)
           ab == a (+) b
           bc == b (+) c
<1>1. /\ IsLoad(ab) /\ \A k : HoursOn(k, ab) = HoursOn(k, a) + HoursOn(k, b)
      /\ IsLoad(bc) /\ \A k : HoursOn(k, bc) = HoursOn(k, b) + HoursOn(k, c)
  BY PlusIsLoad
<1>2. left = ab (+) c /\ right = a (+) bc OBVIOUS
<1> HIDE DEF left, right, ab, bc
<1>3. /\ IsLoad(ab (+) c) /\ \A k : HoursOn(k, ab (+) c) = HoursOn(k, ab) + HoursOn(k, c)
      /\ IsLoad(a (+) bc) /\ \A k : HoursOn(k, a (+) bc) = HoursOn(k, a) + HoursOn(k, bc)
  BY <1>1, PlusIsLoad
<1>4. /\ IsLoad(left)
      /\ \A k : HoursOn(k, left) = (HoursOn(k, a) + HoursOn(k, b)) + HoursOn(k, c)
  BY <1>1, <1>2, <1>3
<1>5. /\ IsLoad(right)
      /\ \A k : HoursOn(k, right) = HoursOn(k, a) + (HoursOn(k, b) + HoursOn(k, c))
  BY <1>1, <1>2, <1>3
<1>6. \A k : HoursOn(k, a) \in Nat /\ HoursOn(k, b) \in Nat /\ HoursOn(k, c) \in Nat
  BY LoadIsNat DEF IsLoad
<1>7. \A k : HoursOn(k, left) = HoursOn(k, right) BY <1>4, <1>5, <1>6
<1>8. left = right BY <1>4, <1>5, <1>7, SameLoad
<1> QED BY <1>8 DEF left, right

(* A sum over disjoint parts is the sum of their sums.                     *)
AreParts(parts, f) ==
    /\ IsFiniteSet(DOMAIN parts)
    /\ \A i \in DOMAIN parts : IsFiniteSet(parts[i]) /\ \A x \in parts[i] : f[x] \in Nat
    /\ \A i, j \in DOMAIN parts : i # j => parts[i] \cap parts[j] = {}

LEMMA SumOfParts ==
    ASSUME NEW parts, NEW f, AreParts(parts, f)
    PROVE  LET all == UNION {parts[i] : i \in DOMAIN parts}
           IN  /\ IsFiniteSet(all)
               /\ SumFunctionOnSet(f, all)
                      = SumFunctionOnSet([i \in DOMAIN parts |-> SumFunctionOnSet(f, parts[i])],
                                         DOMAIN parts)
<1> DEFINE D == DOMAIN parts
           each == [i \in D |-> SumFunctionOnSet(f, parts[i])]
           some(T) == UNION {parts[i] : i \in T}
           P(T) == IsFiniteSet(some(T)) /\ SumFunctionOnSet(f, some(T)) = SumFunctionOnSet(each, T)
           bad == {T \in SUBSET D : ~P(T)}
<1>1. /\ IsFiniteSet(D)
      /\ \A i \in D : IsFiniteSet(parts[i]) /\ \A x \in parts[i] : f[x] \in Nat
      /\ \A i, j \in D : i # j => parts[i] \cap parts[j] = {}
  BY DEF AreParts
<1>2. \A i \in D : each[i] \in Nat /\ each[i] = SumFunctionOnSet(f, parts[i])
  BY <1>1, SumOfNat
<1> HIDE DEF D, each
<1>3. bad = {}
  <2>1. SUFFICES ASSUME bad # {} PROVE FALSE OBVIOUS
  <2>2. PICK T \in bad : \A U \in SUBSET T : U # T => U \notin bad
    <3>1. bad \in SUBSET (SUBSET D) OBVIOUS
    <3> HIDE DEF bad
    <3> QED BY <1>1, <2>1, <3>1, MinimalSet
  <2>3. T \in SUBSET D /\ ~P(T) BY <2>2
  <2>4. CASE T = {}
    <3>1. some(T) = {} BY <2>4
    <3>2. SumFunctionOnSet(f, some(T)) = 0 /\ SumFunctionOnSet(each, T) = 0
      <4> HIDE DEF some
      <4> QED BY <2>4, <3>1, SumEmpty
    <3>3. IsFiniteSet(some(T)) BY <3>1, FS_EmptySet
    <3> HIDE DEF some
    <3> QED BY <2>3, <3>2, <3>3
  <2>5. CASE T # {}
    <3>1. PICK x \in T : TRUE BY <2>5
    <3> DEFINE U == T \ {x}
    <3>2. U \in SUBSET D /\ U \in SUBSET T /\ U # T /\ x \notin U /\ x \in D /\ T = U \cup {x}
      BY <2>3, <3>1
    <3> HIDE DEF U
    <3>3. P(U)
      <4> HIDE DEF P
      <4> QED BY <2>2, <3>2
    <3>4. some(T) = some(U) \cup parts[x] /\ some(U) \cap parts[x] = {}
      <4>1. some(T) = some(U) \cup parts[x] BY <3>2
      <4>2. ASSUME NEW y \in some(U), y \in parts[x] PROVE FALSE
        <5>1. PICK i \in U : y \in parts[i] OBVIOUS
        <5> QED BY <1>1, <3>2, <4>2, <5>1
      <4> HIDE DEF some
      <4> QED BY <4>1, <4>2
    <3>5. \A y \in some(U) \cup parts[x] : f[y] \in Int
      <4>1. \A y \in some(U) : f[y] \in Nat BY <1>1, <3>2
      <4>2. \A y \in parts[x] : f[y] \in Nat BY <1>1, <3>2
      <4> HIDE DEF some
      <4> QED BY <4>1, <4>2
    <3> DEFINE A == some(U)
               B == parts[x]
    <3>6. IsFiniteSet(A) /\ IsFiniteSet(B) BY <1>1, <3>2, <3>3
    <3> HIDE DEF some
    <3>7. SumFunctionOnSet(f, A \cup B) = SumFunctionOnSet(f, A) + SumFunctionOnSet(f, B)
      <4> HIDE DEF A, B
      <4> QED BY <3>4, <3>5, <3>6, SumSplit DEF A, B
    <3>8. IsFiniteSet(some(T)) /\ SumFunctionOnSet(f, some(T)) = SumFunctionOnSet(f, A \cup B)
      <4>1. IsFiniteSet(A \cup B) BY <3>6, FS_Union
      <4> QED BY <3>4, <4>1
    <3>9. SumFunctionOnSet(each, T) = each[x] + SumFunctionOnSet(each, U)
      <4>1. IsFiniteSet(U) BY <1>1, <3>2, FS_Subset
      <4>2. \A y \in U \cup {x} : each[y] \in Int BY <1>2, <3>2
      <4>3. SumFunctionOnSet(each, U \cup {x}) = each[x] + SumFunctionOnSet(each, U)
        BY <3>2, <4>1, <4>2, SumIn
      <4> QED BY <3>2, <4>3
    <3>10. each[x] = SumFunctionOnSet(f, B) /\ each[x] \in Nat BY <1>2, <3>2
    <3>11. SumFunctionOnSet(f, A) = SumFunctionOnSet(each, U)
           /\ SumFunctionOnSet(f, A) \in Int
      <4>1. SumFunctionOnSet(f, A) = SumFunctionOnSet(each, U) BY <3>3
      <4>2. \A y \in A : f[y] \in Int BY <3>5
      <4> HIDE DEF A
      <4> QED BY <3>6, <4>1, <4>2, SumIsInt
    <3> QED BY <2>3, <3>7, <3>8, <3>9, <3>10, <3>11
  <2> QED BY <2>4, <2>5
<1>4. P(D) BY <1>3
<1> QED BY <1>4 DEF D, each

(* What one person does is all there is.                                   *)
LEMMA OneDoesAll ==
    ASSUME NEW load, NEW hours, KeepsHours(load, hours, 1)
    PROVE  SumFunction(load) = hours
<1> DEFINE people == PeopleOf(load)
<1>1. IsLoad(load) /\ Cardinality(people) = 1 /\ \A p \in people : HoursBy(load, p) = hours
  BY DEF KeepsHours
<1>2. IsFiniteSet(people)
  <2> DEFINE D == DOMAIN load
             f == [k \in D |-> k[1]]
  <2>1. {f[k] : k \in D} = people BY DEF PeopleOf
  <2>2. IsFiniteSet({f[k] : k \in D})
    <3>1. IsFiniteSet(D) BY <1>1 DEF IsLoad
    <3> HIDE DEF f, D
    <3> QED BY <3>1, ImageIsFinite
  <2> QED BY <2>1, <2>2
<1>3. PICK p : people = {p}
  <2> HIDE DEF people
  <2> QED BY <1>1, <1>2, FS_Singleton
<1>4. HoursBy(load, p) = hours BY <1>1, <1>3
<1>5. \A k \in DOMAIN load : k[1] = p BY <1>3 DEF PeopleOf
<1>6. {l \in DOMAIN load : l[1] = p} = DOMAIN load BY <1>5
<1>7. load = [k \in DOMAIN load |-> load[k]] BY <1>1 DEF IsLoad, IsABag
<1> DEFINE his == [k \in {l \in DOMAIN load : l[1] = p} |-> load[k]]
<1>8. his = load BY <1>6, <1>7
<1>9. HoursBy(load, p) = SumFunction(his) BY DEF HoursBy
<1> HIDE DEF his
<1>10. SumFunction(his) = SumFunction(load) BY <1>8, Zenon
<1> QED BY <1>4, <1>9, <1>10

-----------------------------------------------------------------------------
(* Rounding up                                                             *)

LEMMA CeilIsLeast ==
    ASSUME NEW h \in Nat, NEW c \in Nat \ {0}, NEW n \in Nat, h <= c * n
    PROVE  CeilDiv(h, c) <= n
<1>1. (h + c - 1) \div c <= n OBVIOUS
<1> QED BY <1>1 DEF CeilDiv

LEMMA CeilHolds ==
    ASSUME NEW h \in Nat, NEW c \in Nat \ {0}
    PROVE  CeilDiv(h, c) \in Nat /\ h <= c * CeilDiv(h, c)
<1> DEFINE q == (h + c - 1) \div c
<1>1. q \in Int /\ h + c - 1 < c * q + c OBVIOUS
<1>2. q \in Nat OBVIOUS
<1>3. c * q \in Int BY <1>1
<1> QED BY <1>1, <1>2, <1>3 DEF CeilDiv

(* The more hours a day, the fewer days.                                   *)
LEMMA CeilShrinks ==
    ASSUME NEW h \in Nat, NEW a \in Nat \ {0}, NEW c \in Nat \ {0}, a <= c
    PROVE  CeilDiv(h, c) <= CeilDiv(h, a)
<1> DEFINE n == CeilDiv(h, a)
<1>1. n \in Nat /\ h <= a * n BY CeilHolds
<1> HIDE DEF n
<1>2. a * n <= c * n BY <1>1
<1>3. a * n \in Int /\ c * n \in Int BY <1>1
<1>4. h <= c * n BY <1>1, <1>2, <1>3
<1>5. CeilDiv(h, c) <= n BY <1>1, <1>4, CeilIsLeast
<1> QED BY <1>5 DEF n

-----------------------------------------------------------------------------
(* A task lasts as many working days as its hours take, at so many a day.  *)
Lasts(place, days) == days <= BusinessDaysBetween(place.start, place.end + 1)

LEMMA AssumedIsPositive ==
    ASSUME NEW r, IsRequest(r), NEW t \in DOMAIN r.tasks
    PROVE  AssumedHours(r, t) \in Nat \ {0}
<1> DEFINE caps == {Capacity[p] : p \in Range(r.tasks[t].allowed) \cap Members(r)}
<1>1. caps \in SUBSET Nat
  <2>1. Members(r) \subseteq DOMAIN Capacity BY MembersAreAble
  <2> QED BY <2>1, GreedyAssumption
<1>2. caps # {} => Least(caps) \in Nat
  <2> HIDE DEF caps
  <2> QED BY <1>1, LeastOf
<1>3. (IF caps = {} THEN DayHours ELSE Least(caps)) \in Nat BY <1>2, GreedyAssumption
<1>4. AssumedHours(r, t) = AtLeast(IF caps = {} THEN DayHours ELSE Least(caps), 1)
  BY DEF AssumedHours
<1> HIDE DEF caps
<1> QED BY <1>3, <1>4 DEF AtLeast

LEMMA WindowLasts ==
    ASSUME NEW hours \in Nat \ {0}, NEW from \in Nat
    PROVE  Lasts(PlaceWindow(hours, from), AtLeast(CeilDiv(hours, DayHours), 1))
<1> DEFINE place == PlaceWindow(hours, from)
           first == FirstWorkingDay(from)
           span  == AtLeast(CeilDiv(hours, DayHours), 1)
           end   == NthWorkingDay(first, span)
<1>1. place.start = first /\ place.end = end BY DEF PlaceWindow
<1>2. first \in Nat BY FirstIsWorking
<1>3. span \in Nat \ {0}
  <2>1. CeilDiv(hours, DayHours) \in Nat BY GreedyAssumption, CeilHolds
  <2> QED BY <2>1 DEF AtLeast
<1> HIDE DEF first, span, place
<1>4. end \in Nat /\ first <= end /\ IsWorkingDay(end) BY <1>2, <1>3, NthIsWorking
<1>5. BusinessDaysBetween(first, end) = span - 1 BY <1>2, <1>3, NthIsWorking
<1> HIDE DEF end
<1>6. BusinessDaysBetween(end, end + 1) = 1 BY <1>4, OneBetween
<1>7. BusinessDaysBetween(first, end + 1)
          = BusinessDaysBetween(first, end) + BusinessDaysBetween(end, end + 1)
  BY <1>2, <1>4, BetweenAdds
<1>8. span <= BusinessDaysBetween(first, end + 1) BY <1>3, <1>5, <1>6, <1>7
<1> QED BY <1>1, <1>8 DEF Lasts, place, span

(* Whoever does at most so many hours on each working day of a place needs *)
(* that many days for them.                                                *)
LEMMA WorkLasts ==
    ASSUME NEW place, NEW hours \in Nat \ {0}, NEW from, NEW n, n # 0,
           InWork(place, from), KeepsHours(place.load, hours, n),
           NEW c \in Nat \ {0}, \A k \in DOMAIN place.load : place.load[k] <= c
    PROVE  Lasts(place, AtLeast(CeilDiv(hours, c), 1))
<1> DEFINE load == place.load
           days == {e \in place.start..((place.end + 1) - 1) : IsWorkingDay(e)}
<1>1. /\ place.start \in Nat /\ place.end \in Nat
      /\ \A k \in DOMAIN load : IsWorkingDay(k[2]) /\ k[2] \in place.start..place.end
  BY DEF InWork
<1>2. IsLoad(load) /\ PeopleOf(load) # {} /\ \A p \in PeopleOf(load) : HoursBy(load, p) = hours
  BY FS_EmptySet DEF KeepsHours
<1>3. PICK p \in PeopleOf(load) : TRUE BY <1>2
<1> DEFINE K == {k \in DOMAIN load : k[1] = p}
           f == [k \in K |-> load[k]]
<1>4. IsFiniteSet(K) /\ K # {}
  <2>1. IsFiniteSet(DOMAIN load) BY <1>2 DEF IsLoad
  <2>2. PICK k \in DOMAIN load : p = k[1] BY <1>3 DEF PeopleOf
  <2>3. k \in K BY <2>2
  <2> QED BY <2>1, <2>3, FS_Subset
<1>5. SumFunctionOnSet(f, K) = hours
  <2>1. HoursBy(load, p) = SumFunction(f) BY DEF HoursBy
  <2>2. DOMAIN f = K OBVIOUS
  <2> HIDE DEF f, K
  <2>3. SumFunction(f) = SumFunctionOnSet(f, K) BY <2>2, Zenon DEF SumFunction
  <2> QED BY <1>2, <1>3, <2>1, <2>3
<1>6. \A k \in K : f[k] \in Int /\ f[k] <= c
  <2> TAKE k \in K
  <2>1. k \in DOMAIN load /\ f[k] = load[k] OBVIOUS
  <2>2. load[k] \in Nat
    <3> HIDE DEF load, K, f
    <3> QED BY <1>2, <2>1, LoadIsNat DEF IsLoad
  <2> QED BY <2>1, <2>2
<1>7. IsFiniteSet(days)
  <2>1. IsFiniteSet(place.start..((place.end + 1) - 1))
    <3>1. place.start \in Int /\ (place.end + 1) - 1 \in Int BY <1>1
    <3> QED BY <3>1, FS_Interval
  <2> QED BY <2>1, FS_Subset
<1>8. Cardinality(K) <= Cardinality(days)
  <2> DEFINE day == [k \in K |-> k[2]]
  <2>1. day \in [K -> days]
    <3> SUFFICES ASSUME NEW k \in K PROVE day[k] \in days OBVIOUS
    <3>1. IsWorkingDay(k[2]) /\ k[2] \in place.start..place.end BY <1>1
    <3>2. k[2] \in place.start..((place.end + 1) - 1) BY <1>1, <3>1
    <3> QED BY <3>1, <3>2
  <2>2. \A j, k \in K : day[j] = day[k] => j = k
    <3> SUFFICES ASSUME NEW j \in K, NEW k \in K, day[j] = day[k] PROVE j = k OBVIOUS
    <3>1. j[1] = p /\ k[1] = p /\ j[2] = k[2] OBVIOUS
    <3>2. j \in (DOMAIN Capacity) \X Nat /\ k \in (DOMAIN Capacity) \X Nat
      BY <1>2 DEF IsLoad
    <3> QED BY <3>1, <3>2
  <2> HIDE DEF day, K, days
  <2>3. day \in Injection(K, days) BY <2>1, <2>2 DEF Injection, IsInjective
  <2> QED BY <1>7, <2>3, FS_Injection
<1> HIDE DEF f, K, days
<1>9. Cardinality(K) \in Nat /\ Cardinality(K) # 0 /\ Cardinality(days) \in Nat
  BY <1>4, <1>7, FS_CardinalityType, FS_EmptySet
<1>10. hours <= c * Cardinality(K) BY <1>4, <1>5, <1>6, SumAtMost
<1>11. CeilDiv(hours, c) <= Cardinality(K) /\ CeilDiv(hours, c) \in Nat
  BY <1>9, <1>10, CeilIsLeast, CeilHolds
<1>12. AtLeast(CeilDiv(hours, c), 1) <= Cardinality(days) BY <1>8, <1>9, <1>11 DEF AtLeast
<1> QED BY <1>12 DEF Lasts, BusinessDaysBetween, days

-----------------------------------------------------------------------------
(* The longest chain                                                       *)

Finishes(r, T, f) ==
    f = [t \in T |-> DurationDays(r, t) + Greatest({0} \cup {f[u] : u \in Before(r, t)})]

(* In a finished plan whose links are all finish-to-start what a task waits*)
(* for ends before it, and tasks have the days they are assumed to take.   *)
InTurn(r, done) ==
    /\ IsRequest(r)
    /\ DOMAIN done = DOMAIN r.tasks
    /\ \A t \in DOMAIN done :
           /\ done[t].start \in Nat /\ done[t].end \in Nat
           /\ r.start <= done[t].start /\ done[t].start <= done[t].end
           /\ \A u \in Before(r, t) : u \in DOMAIN done /\ done[u].end < done[t].start
           /\ DurationDays(r, t) \in Nat \ {0}
           /\ Lasts(done[t], DurationDays(r, t))

EndingBy(done, m) == {t \in DOMAIN done : done[t].end < m}

LEMMA FinishesBy ==
    ASSUME NEW r, NEW done, InTurn(r, done), NEW m \in Nat
    PROVE  \E f : Finishes(r, EndingBy(done, m), f)
<1> DEFINE bad == {n \in Nat : ~\E f : Finishes(r, EndingBy(done, n), f)}
<1>1. SUFFICES ASSUME bad # {} PROVE FALSE OBVIOUS
<1>2. PICK n \in bad : \A k \in bad : n <= k
  <2>1. bad \in SUBSET Nat OBVIOUS
  <2> HIDE DEF bad
  <2> QED BY <1>1, <2>1, NatHasLeast
<1>3. n \in Nat /\ ~\E f : Finishes(r, EndingBy(done, n), f) BY <1>2
<1>4. CASE n = 0
  <2>1. EndingBy(done, 0) = {} BY DEF InTurn, EndingBy
  <2> DEFINE g == [t \in {} |-> DurationDays(r, t) + Greatest({0})]
  <2>2. g = [t \in {} |-> DurationDays(r, t) + Greatest({0} \cup {g[u] : u \in Before(r, t)})]
    OBVIOUS
  <2> HIDE DEF g
  <2>3. Finishes(r, {}, g) BY <2>2 DEF Finishes
  <2> QED BY <1>3, <1>4, <2>1, <2>3
<1>5. CASE n # 0
  <2>1. n - 1 \in Nat /\ n - 1 < n BY <1>3, <1>5
  <2>2. n - 1 \notin bad
    <3> HIDE DEF bad
    <3> QED BY <1>2, <1>3, <2>1
  <2> DEFINE S == EndingBy(done, n - 1)
             T == EndingBy(done, n)
  <2>3. PICK f : Finishes(r, S, f) BY <2>1, <2>2
  <2>4. \A t \in T : t \in DOMAIN done /\ \A u \in Before(r, t) : u \in S /\ u \in T
    <3> SUFFICES ASSUME NEW t \in T, NEW u \in Before(r, t)
                 PROVE  t \in DOMAIN done /\ u \in S /\ u \in T
      BY DEF EndingBy
    <3>1. t \in DOMAIN done /\ done[t].end < n BY DEF EndingBy
    <3>2. /\ u \in DOMAIN done /\ done[u].end < done[t].start
          /\ done[t].start <= done[t].end
      BY <3>1 DEF InTurn
    <3>3. done[u].end \in Nat /\ done[t].start \in Nat /\ done[t].end \in Nat
      BY <3>1, <3>2 DEF InTurn
    <3>4. done[u].end < n - 1 /\ done[u].end < n BY <1>3, <3>1, <3>2, <3>3
    <3> QED BY <3>1, <3>2, <3>4 DEF EndingBy
  <2> HIDE DEF S, T
  <2> DEFINE last(h, t) == DurationDays(r, t) + Greatest({0} \cup {h[u] : u \in Before(r, t)})
             g == [t \in T |-> IF t \in S THEN f[t] ELSE last(f, t)]
             v == [t \in T |-> last(g, t)]
  <2>5. \A t \in S : f[t] = last(f, t) BY <2>3 DEF Finishes
  <2>6. ASSUME NEW t \in T PROVE g[t] = v[t]
    <3>1. \A u \in Before(r, t) : g[u] = f[u] BY <2>4, <2>6
    <3>2. {g[u] : u \in Before(r, t)} = {f[u] : u \in Before(r, t)}
      <4> HIDE DEF g
      <4> QED BY <3>1
    <3>3. v[t] = last(g, t)
      <4> HIDE DEF g
      <4> QED OBVIOUS
    <3>4. last(g, t) = last(f, t)
      <4> HIDE DEF g
      <4> QED BY <3>2
    <3>5. g[t] = last(f, t)
      <4> HIDE DEF last
      <4> QED BY <2>5
    <3> HIDE DEF g, v, last
    <3> QED BY <3>3, <3>4, <3>5
  <2>7. g = v
    <3>1. g = [t \in T |-> g[t]] /\ v = [t \in T |-> v[t]] OBVIOUS
    <3> HIDE DEF g, v
    <3> QED BY <2>6, <3>1
  <2>8. v = [t \in T |-> last(g, t)] OBVIOUS
  <2> HIDE DEF g, v
  <2>9. Finishes(r, T, g) BY <2>7, <2>8 DEF Finishes
  <2> QED BY <1>3, <2>9 DEF T
<1> QED BY <1>4, <1>5

(* The chain that ends with a task fits the working days up to its end.    *)
LEMMA ChainFits ==
    ASSUME NEW r, NEW done, InTurn(r, done), NEW f, Finishes(r, DOMAIN done, f)
    PROVE  \A t \in DOMAIN done :
               /\ f[t] \in Nat \ {0}
               /\ f[t] <= BusinessDaysBetween(r.start, done[t].end + 1)
<1> DEFINE P(t) == /\ f[t] \in Nat \ {0}
                   /\ f[t] <= BusinessDaysBetween(r.start, done[t].end + 1)
           ends == {done[t].end : t \in {u \in DOMAIN done : ~P(u)}}
<1>1. SUFFICES ASSUME ends # {} PROVE FALSE OBVIOUS
<1>2. PICK e \in ends : \A m \in ends : e <= m
  <2>1. ends \in SUBSET Nat BY DEF InTurn
  <2> HIDE DEF ends
  <2> QED BY <1>1, <2>1, NatHasLeast
<1>3. PICK t \in DOMAIN done : ~P(t) /\ e = done[t].end BY <1>2
<1>4. /\ done[t].start \in Nat /\ done[t].end \in Nat
      /\ r.start <= done[t].start /\ done[t].start <= done[t].end
      /\ DurationDays(r, t) \in Nat \ {0}
      /\ DurationDays(r, t) <= BusinessDaysBetween(done[t].start, done[t].end + 1)
      /\ r.start \in Nat
  BY <1>3 DEF InTurn, Lasts, IsRequest
<1>5. ASSUME NEW u \in Before(r, t)
      PROVE  u \in DOMAIN done /\ P(u) /\ done[u].end \in Nat /\ done[u].end < done[t].start
  <2>1. u \in DOMAIN done /\ done[u].end < done[t].start BY <1>3 DEF InTurn
  <2>2. done[u].end \in Nat BY <2>1 DEF InTurn
  <2>3. done[u].end < e BY <1>3, <1>4, <2>1, <2>2
  <2>4. done[u].end \notin ends
    <3> HIDE DEF ends
    <3>1. e \in Int BY <1>3, <1>4
    <3> QED BY <1>2, <2>2, <2>3, <3>1
  <2>5. P(u)
    <3> HIDE DEF P
    <3> QED BY <2>1, <2>4
  <2> QED BY <2>1, <2>2, <2>5
<1> DEFINE S == {0} \cup {f[u] : u \in Before(r, t)}
           room(a, b) == BusinessDaysBetween(a, b)
<1>6. f[t] = DurationDays(r, t) + Greatest(S) BY <1>3 DEF Finishes
<1>7. Greatest(S) \in S
  <2>1. S \in SUBSET Int BY <1>5
  <2>2. IsFiniteSet(S)
    <3>1. IsFiniteSet(Before(r, t))
      <4>1. IsFiniteSet(DOMAIN r.tasks) BY DEF InTurn, IsRequest
      <4> QED BY <4>1, FS_Subset DEF Before
    <3>2. IsFiniteSet({f[u] : u \in Before(r, t)}) BY <3>1, ImageIsFinite
    <3>3. IsFiniteSet({0}) BY FS_Singleton
    <3> QED BY <3>2, <3>3, FS_Union
  <2>3. S # {} OBVIOUS
  <2> HIDE DEF S
  <2> QED BY <2>1, <2>2, <2>3, GreatestOf
<1>8. /\ BusinessDaysBetween(r.start, done[t].end + 1) \in Nat
      /\ BusinessDaysBetween(done[t].start, done[t].end + 1) \in Nat
  <2>1. r.start \in Int /\ done[t].start \in Int /\ done[t].end + 1 \in Int BY <1>4
  <2> QED BY <2>1, BetweenIsNat
<1>9. CASE Greatest(S) = 0
  <2>1. BusinessDaysBetween(done[t].start, done[t].end + 1)
            <= BusinessDaysBetween(r.start, done[t].end + 1)
    <3>1. /\ r.start \in Int /\ done[t].start \in Int /\ done[t].end + 1 \in Int
          /\ done[t].end + 1 <= done[t].end + 1
      BY <1>4
    <3> QED BY <1>4, <3>1, BetweenGrows
  <2>2. f[t] = DurationDays(r, t) BY <1>4, <1>6, <1>9
  <2> HIDE DEF S
  <2>3. P(t) BY <1>4, <1>8, <2>1, <2>2
  <2> QED BY <1>3, <2>3
<1>10. CASE Greatest(S) # 0
  <2>1. PICK u \in Before(r, t) : Greatest(S) = f[u] BY <1>7, <1>10
  <2>2. P(u) /\ done[u].end \in Nat /\ done[u].end < done[t].start BY <1>5
  <2> DEFINE a == r.start
             b == done[u].end + 1
             s == done[t].start
             c == done[t].end + 1
  <2>3. a \in Nat /\ b \in Nat /\ s \in Nat /\ c \in Nat /\ b <= s /\ s <= c
    BY <1>4, <2>2
  <2>4. /\ f[u] \in Nat \ {0} /\ f[u] <= BusinessDaysBetween(a, b) BY <2>2
  <2>5. a <= b
    <3>1. u \in DOMAIN done BY <1>5
    <3>2. r.start <= done[u].start /\ done[u].start <= done[u].end /\ done[u].start \in Nat
      BY <3>1 DEF InTurn
    <3> QED BY <1>4, <2>2, <3>2
  <2>6. DurationDays(r, t) <= BusinessDaysBetween(s, c) BY <1>4
  <2>7. f[t] = DurationDays(r, t) + f[u] BY <1>6, <2>1
  <2> HIDE DEF a, b, s, c, S
  <2>8. BusinessDaysBetween(s, c) <= BusinessDaysBetween(b, c) BY <2>3, BetweenGrows
  <2>9. BusinessDaysBetween(a, c) = BusinessDaysBetween(a, b) + BusinessDaysBetween(b, c)
    BY <2>3, <2>5, BetweenAdds
  <2>10. /\ BusinessDaysBetween(a, b) \in Nat /\ BusinessDaysBetween(b, c) \in Nat
         /\ BusinessDaysBetween(s, c) \in Nat
    <3>1. a \in Int /\ b \in Int /\ c \in Int /\ s \in Int BY <2>3
    <3> QED BY <3>1, BetweenIsNat
  <2>11. f[t] \in Nat \ {0} /\ f[t] <= BusinessDaysBetween(a, c)
    BY <1>4, <2>4, <2>6, <2>7, <2>8, <2>9, <2>10
  <2> QED BY <1>3, <2>11 DEF a, c
<1> QED BY <1>9, <1>10

(* CriticalPathEnd by a function that counts the days of every chain.      *)
LEMMA ChainCounts ==
    ASSUME NEW r, \E f : Finishes(r, DOMAIN r.tasks, f)
    PROVE  \E f : /\ Finishes(r, DOMAIN r.tasks, f)
                  /\ LET longest == Greatest({0} \cup {f[t] : t \in DOMAIN r.tasks})
                     IN  CriticalPathEnd(r) = IF longest = 0 THEN FirstWorkingDay(r.start)
                                              ELSE NthWorkingDay(r.start, longest)
BY DEF CriticalPathEnd, Finishes

LEMMA ChainEndsInTime ==
    ASSUME NEW r, NEW done, InTurn(r, done), DOMAIN done # {}
    PROVE  EndOf(done) >= CriticalPathEnd(r)
<1> DEFINE T == DOMAIN done
           ends == {done[t].end : t \in T}
<1>1. /\ IsFiniteSet(T) /\ T = DOMAIN r.tasks /\ r.start \in Nat
      /\ \A t \in T : done[t].end \in Nat
  BY DEF InTurn, IsRequest
<1>2. \A t \in T : done[t].end <= EndOf(done) /\ EndOf(done) \in Int
  <2>1. IsFiniteSet(ends)
    <3> DEFINE end == [t \in T |-> done[t].end]
    <3>1. ends = {end[t] : t \in T} OBVIOUS
    <3> HIDE DEF end, ends, T
    <3> QED BY <1>1, <3>1, ImageIsFinite
  <2>2. ends \in SUBSET Int /\ ends # {} BY <1>1
  <2>3. EndOf(done) = Greatest(ends) BY DEF EndOf
  <2>4. Greatest(ends) \in ends /\ \A m \in ends : m <= Greatest(ends)
    <3> HIDE DEF ends
    <3> QED BY <2>1, <2>2, GreatestOf
  <2>5. Greatest(ends) \in Int BY <2>2, <2>4
  <2> HIDE DEF T
  <2> QED BY <2>3, <2>4, <2>5
<1>3. \E f : Finishes(r, DOMAIN r.tasks, f)
  <2>1. PICK t \in T : TRUE OBVIOUS
  <2>2. EndOf(done) + 1 \in Nat
    <3>1. done[t].end \in Nat /\ done[t].end <= EndOf(done) /\ EndOf(done) \in Int BY <1>1, <1>2
    <3> QED BY <3>1
  <2>3. EndingBy(done, EndOf(done) + 1) = T
    <3>1. \A u \in T : done[u].end < EndOf(done) + 1
      <4> TAKE u \in T
      <4>1. done[u].end \in Nat /\ done[u].end <= EndOf(done) /\ EndOf(done) \in Int BY <1>1, <1>2
      <4> QED BY <4>1
    <3> QED BY <3>1 DEF EndingBy
  <2>4. \E f : Finishes(r, EndingBy(done, EndOf(done) + 1), f) BY <2>2, FinishesBy
  <2> QED BY <1>1, <2>3, <2>4
<1>4. PICK f : /\ Finishes(r, DOMAIN r.tasks, f)
               /\ LET longest == Greatest({0} \cup {f[t] : t \in DOMAIN r.tasks})
                  IN  CriticalPathEnd(r) = IF longest = 0 THEN FirstWorkingDay(r.start)
                                           ELSE NthWorkingDay(r.start, longest)
  BY <1>3, ChainCounts
<1>5. \A t \in T : f[t] \in Nat \ {0} /\ f[t] <= BusinessDaysBetween(r.start, done[t].end + 1)
  BY <1>1, <1>4, ChainFits
<1> DEFINE S == {0} \cup {f[t] : t \in T}
           longest == Greatest(S)
<1>6. longest \in S /\ \A m \in S : m <= longest
  <2>1. S \in SUBSET Int BY <1>5
  <2>2. IsFiniteSet(S)
    <3>1. IsFiniteSet({f[t] : t \in T}) BY <1>1, ImageIsFinite
    <3>2. IsFiniteSet({0}) BY FS_Singleton
    <3> QED BY <3>1, <3>2, FS_Union
  <2>3. S # {} OBVIOUS
  <2> HIDE DEF S
  <2> QED BY <2>1, <2>2, <2>3, GreatestOf
<1>7. longest # 0
  <2>1. PICK t \in T : TRUE OBVIOUS
  <2>2. f[t] \in S /\ f[t] \in Nat \ {0} BY <1>5, <2>1
  <2>3. f[t] <= longest
    <3> HIDE DEF S, longest
    <3> QED BY <1>6, <2>2
  <2> HIDE DEF longest
  <2> QED BY <2>2, <2>3
<1>8. PICK t \in T : longest = f[t]
  <2> HIDE DEF longest
  <2> QED BY <1>6, <1>7
<1>9. CriticalPathEnd(r) = NthWorkingDay(r.start, f[t]) BY <1>1, <1>4, <1>7, <1>8
<1>10. NthWorkingDay(r.start, f[t]) <= done[t].end /\ NthWorkingDay(r.start, f[t]) \in Nat
  BY <1>1, <1>5, NthComesBy, NthIsWorking
<1>11. done[t].end \in Nat /\ done[t].end <= EndOf(done) /\ EndOf(done) \in Int BY <1>1, <1>2
<1> QED BY <1>9, <1>10, <1>11

-----------------------------------------------------------------------------
(* Sums and their order, over images, and by rows and columns              *)

LEMMA SumOrder ==
    ASSUME NEW f, NEW g, NEW S, IsFiniteSet(S),
           \A x \in S : f[x] \in Int /\ g[x] \in Int /\ f[x] <= g[x]
    PROVE  /\ SumFunctionOnSet(f, S) <= SumFunctionOnSet(g, S)
           /\ SumFunctionOnSet(f, S) \in Int /\ SumFunctionOnSet(g, S) \in Int
<1> DEFINE more == [x \in S |-> g[x] - f[x]]
<1>1. \A x \in S : more[x] \in Nat /\ g[x] = f[x] + more[x] OBVIOUS
<1> HIDE DEF more
<1>2. Adds(g, f, more, S) BY <1>1 DEF Adds
<1>3. SumFunctionOnSet(g, S) = SumFunctionOnSet(f, S) + SumFunctionOnSet(more, S)
  BY <1>2, SumOfSums
<1>4. SumFunctionOnSet(more, S) \in Nat BY <1>1, SumOfNat
<1>5. SumFunctionOnSet(f, S) \in Int /\ SumFunctionOnSet(g, S) \in Int BY SumIsInt
<1> QED BY <1>3, <1>4, <1>5

LEMMA SumScaled ==
    ASSUME NEW f, NEW g, NEW S, IsFiniteSet(S), NEW c \in Int,
           \A x \in S : f[x] \in Int /\ g[x] = c * f[x]
    PROVE  SumFunctionOnSet(g, S) = c * SumFunctionOnSet(f, S)
<1> DEFINE P(T) == SumFunctionOnSet(g, T) = c * SumFunctionOnSet(f, T)
           bad == {T \in SUBSET S : ~P(T)}
<1>0. \A x \in S : f[x] \in Int /\ g[x] \in Int OBVIOUS
<1>1. bad = {}
  <2>1. SUFFICES ASSUME bad # {} PROVE FALSE OBVIOUS
  <2>2. PICK T \in bad : \A U \in SUBSET T : U # T => U \notin bad
    <3>1. bad \in SUBSET (SUBSET S) OBVIOUS
    <3> HIDE DEF bad
    <3> QED BY <2>1, <3>1, MinimalSet
  <2>3. T \in SUBSET S /\ ~P(T) /\ IsFiniteSet(T) BY <2>2, FS_Subset
  <2>4. CASE T = {}
    <3>1. SumFunctionOnSet(f, T) = 0 /\ SumFunctionOnSet(g, T) = 0 BY <2>4, SumEmpty
    <3> QED BY <2>3, <3>1
  <2>5. CASE T # {}
    <3>1. PICK x \in T : TRUE BY <2>5
    <3> DEFINE U == T \ {x}
    <3>2. U \in SUBSET T /\ U # T /\ U \in SUBSET S /\ IsFiniteSet(U)
      BY <2>3, <3>1, FS_Subset
    <3>3. P(U) BY <2>2, <3>2
    <3>4. /\ SumFunctionOnSet(f, T) = f[x] + SumFunctionOnSet(f, U)
          /\ SumFunctionOnSet(g, T) = g[x] + SumFunctionOnSet(g, U)
      <4>1. \A y \in T : f[y] \in Int /\ g[y] \in Int BY <1>0, <2>3
      <4> QED BY <2>3, <3>1, <4>1, SumOut
    <3>5. SumFunctionOnSet(f, U) \in Int
      <4>1. \A y \in U : f[y] \in Int BY <1>0, <3>2
      <4> QED BY <3>2, <4>1, SumIsInt
    <3>6. x \in S /\ f[x] \in Int /\ g[x] = c * f[x] BY <2>3, <3>1
    <3>7. SumFunctionOnSet(g, U) = c * SumFunctionOnSet(f, U) BY <3>3
    <3> HIDE DEF U
    <3>8. c * (f[x] + SumFunctionOnSet(f, U)) = c * f[x] + c * SumFunctionOnSet(f, U)
      BY <3>5, <3>6
    <3> QED BY <2>3, <3>4, <3>6, <3>7, <3>8
  <2> QED BY <2>4, <2>5
<1> QED BY <1>1

(* A sum over an image.                                                    *)
LEMMA SumImage ==
    ASSUME NEW f, NEW g, NEW h, NEW S, IsFiniteSet(S),
           \A x \in S : f[x] \in Nat /\ h[g[x]] = f[x],
           \A x, y \in S : g[x] = g[y] => x = y
    PROVE  /\ IsFiniteSet({g[x] : x \in S})
           /\ SumFunctionOnSet(h, {g[x] : x \in S}) = SumFunctionOnSet(f, S)
<1> DEFINE parts == [x \in S |-> {g[x]}]
           each == [x \in S |-> SumFunctionOnSet(h, parts[x])]
<1>1. DOMAIN parts = S /\ \A x \in S : parts[x] = {g[x]} OBVIOUS
<1>2. \A x \in S : each[x] = f[x]
  <2> TAKE x \in S
  <2>1. IsFiniteSet({g[x]}) BY FS_Singleton
  <2>2. h[g[x]] = f[x] /\ f[x] \in Nat OBVIOUS
  <2>3. SumFunctionOnSet(h, {g[x]}) = h[g[x]] BY <2>1, <2>2, SumOfOne
  <2> QED BY <2>2, <2>3
<1>3. UNION {parts[x] : x \in DOMAIN parts} = {g[x] : x \in S} OBVIOUS
<1>4. [i \in DOMAIN parts |-> SumFunctionOnSet(h, parts[i])] = each OBVIOUS
<1> HIDE DEF parts, each
<1>5. AreParts(parts, h)
  <2>1. \A x \in S : IsFiniteSet(parts[x]) /\ \A y \in parts[x] : h[y] \in Nat
    <3> TAKE x \in S
    <3>1. h[g[x]] \in Nat OBVIOUS
    <3>2. parts[x] = {g[x]} BY <1>1
    <3>3. IsFiniteSet({g[x]}) BY FS_Singleton
    <3> QED BY <3>1, <3>2, <3>3
  <2>2. \A x, y \in S : x # y => parts[x] \cap parts[y] = {} BY <1>1
  <2> QED BY <1>1, <2>1, <2>2 DEF AreParts
<1>6. /\ IsFiniteSet(UNION {parts[x] : x \in DOMAIN parts})
      /\ SumFunctionOnSet(h, UNION {parts[x] : x \in DOMAIN parts})
             = SumFunctionOnSet([i \in DOMAIN parts |-> SumFunctionOnSet(h, parts[i])], DOMAIN parts)
  BY <1>5, SumOfParts
<1>7. SumFunctionOnSet(each, S) = SumFunctionOnSet(f, S)
  <2>1. \A x \in S : each[x] \in Int /\ each[x] = f[x] BY <1>2
  <2> QED BY <2>1, SumSame
<1> QED BY <1>1, <1>3, <1>4, <1>6, <1>7

(* Rows and columns.                                                       *)
Across(f, I, D) == [i \in I |-> SumFunctionOnSet(f[i], D)]
Down(f, I, D) == [d \in D |-> SumFunctionOnSet([i \in I |-> f[i][d]], I)]

LEMMA SumSwap ==
    ASSUME NEW f, NEW I, IsFiniteSet(I), NEW D, IsFiniteSet(D),
           \A i \in I, d \in D : f[i][d] \in Int
    PROVE  SumFunctionOnSet(Across(f, I, D), I) = SumFunctionOnSet(Down(f, I, D), D)
<1> DEFINE P(T) == SumFunctionOnSet(Across(f, T, D), T) = SumFunctionOnSet(Down(f, T, D), D)
           bad == {T \in SUBSET I : ~P(T)}
<1>1. bad = {}
  <2>1. SUFFICES ASSUME bad # {} PROVE FALSE OBVIOUS
  <2>2. PICK T \in bad : \A U \in SUBSET T : U # T => U \notin bad
    <3>1. bad \in SUBSET (SUBSET I) OBVIOUS
    <3> HIDE DEF bad
    <3> QED BY <2>1, <3>1, MinimalSet
  <2>3. T \in SUBSET I /\ ~P(T) /\ IsFiniteSet(T) BY <2>2, FS_Subset
  <2>4. CASE T = {}
    <3>1. SumFunctionOnSet(Across(f, T, D), T) = 0 BY <2>4, SumEmpty
    <3> DEFINE down == Down(f, T, D)
    <3>2. \A d \in D : down[d] = 0
      <4> TAKE d \in D
      <4>1. down[d] = SumFunctionOnSet([i \in T |-> f[i][d]], T) BY DEF Down
      <4>2. SumFunctionOnSet([i \in T |-> f[i][d]], T) = 0 BY <2>4, SumEmpty
      <4> QED BY <4>1, <4>2
    <3> HIDE DEF down
    <3>3. SumFunctionOnSet(down, D) = 0 BY <3>2, SumOfZeros
    <3> QED BY <2>3, <3>1, <3>3 DEF down
  <2>5. CASE T # {}
    <3>1. PICK x \in T : TRUE BY <2>5
    <3> DEFINE U == T \ {x}
               a == Across(f, T, D)
               b == Across(f, U, D)
               c == Down(f, T, D)
               e == Down(f, U, D)
               g == f[x]
    <3>2. U \in SUBSET T /\ U # T /\ U \in SUBSET I /\ IsFiniteSet(U) /\ x \in I
      BY <2>3, <3>1, FS_Subset
    <3>3. SumFunctionOnSet(b, U) = SumFunctionOnSet(e, D) BY <2>2, <3>2
    <3>4. \A i \in I : SumFunctionOnSet(f[i], D) \in Int
      <4> TAKE i \in I
      <4>1. \A d \in D : f[i][d] \in Int OBVIOUS
      <4> DEFINE fi == f[i]
      <4> HIDE DEF fi
      <4>2. SumFunctionOnSet(fi, D) \in Int BY <4>1, SumIsInt DEF fi
      <4> QED BY <4>2 DEF fi
    <3>5. /\ \A i \in T : a[i] = SumFunctionOnSet(f[i], D) /\ a[i] \in Int
          /\ \A i \in U : b[i] = a[i]
      BY <2>3, <3>2, <3>4 DEF Across
    <3>6. ASSUME NEW d \in D
          PROVE  /\ g[d] \in Int /\ e[d] \in Int /\ c[d] = g[d] + e[d]
      <4> DEFINE col == [i \in T |-> f[i][d]]
                 rest == [i \in U |-> f[i][d]]
      <4>1. c[d] = SumFunctionOnSet(col, T) /\ e[d] = SumFunctionOnSet(rest, U) BY DEF Down
      <4>2. \A i \in T : col[i] = f[i][d] /\ col[i] \in Int BY <2>3
      <4>3. \A i \in U : rest[i] = col[i] /\ rest[i] \in Int BY <3>2, <4>2
      <4>4. g[d] = col[x] /\ g[d] \in Int BY <3>1, <3>2, <4>2
      <4> HIDE DEF col, rest, U, g, c, e
      <4>5. SumFunctionOnSet(col, T) = col[x] + SumFunctionOnSet(col, T \ {x})
        BY <2>3, <3>1, <4>2, SumOut
      <4>6. SumFunctionOnSet(rest, U) = SumFunctionOnSet(col, U) BY <3>2, <4>3, SumSame
      <4>7. SumFunctionOnSet(rest, U) \in Int BY <3>2, <4>3, SumIsInt
      <4> QED BY <4>1, <4>4, <4>5, <4>6, <4>7 DEF U
    <3> HIDE DEF c, e, g
    <3>7. SumFunctionOnSet(c, D) = SumFunctionOnSet(g, D) + SumFunctionOnSet(e, D)
      <4>1. Adds(c, g, e, D) BY <3>6 DEF Adds
      <4> QED BY <4>1, SumOfSums
    <3>8. SumFunctionOnSet(a, T) = a[x] + SumFunctionOnSet(b, U)
      <4> HIDE DEF a, b
      <4>1. SumFunctionOnSet(a, T) = a[x] + SumFunctionOnSet(a, U)
        BY <2>3, <3>1, <3>5, SumOut
      <4>2. SumFunctionOnSet(b, U) = SumFunctionOnSet(a, U)
        <5>1. \A i \in U : b[i] \in Int /\ b[i] = a[i] BY <3>2, <3>5
        <5> HIDE DEF U
        <5> QED BY <3>2, <5>1, SumSame
      <4> QED BY <4>1, <4>2
    <3>9. a[x] = SumFunctionOnSet(g, D) BY <3>1, <3>5 DEF g
    <3>10. SumFunctionOnSet(a, T) = SumFunctionOnSet(c, D) BY <3>3, <3>7, <3>8, <3>9
    <3> QED BY <2>3, <3>10 DEF c
  <2> QED BY <2>4, <2>5
<1> QED BY <1>1

-----------------------------------------------------------------------------
(* Products over finite sets                                               *)

Multiplies(f, D, h) ==
    h = [s \in D |-> IF s = {} THEN 1
                     ELSE f[CHOOSE x \in s : TRUE] * h[s \ {CHOOSE x \in s : TRUE}]]

Product(f, S) == FoldFunctionOnSet(LAMBDA x, y : x * y, 1, f, S)

LEMMA ProductIs ==
    ASSUME NEW f, NEW S, \E h : Multiplies(f, SUBSET S, h)
    PROVE  \E h : Multiplies(f, SUBSET S, h) /\ Product(f, S) = h[S]
BY DEF Product, FoldFunctionOnSet, MapThenFoldSet, Multiplies

LEMMA MultipliesAt ==
    ASSUME NEW f, NEW S, NEW h, Multiplies(f, SUBSET S, h)
    PROVE  /\ h[{}] = 1
           /\ \A s \in SUBSET S : s # {} => h[s] = f[Pick(s)] * h[s \ {Pick(s)}]
BY DEF Multiplies, Pick

LEMMA MultipliesOnce ==
    ASSUME NEW f, NEW A, NEW B, NEW g, NEW h, NEW S, IsFiniteSet(S),
           S \subseteq A, S \subseteq B,
           Multiplies(f, SUBSET A, g), Multiplies(f, SUBSET B, h)
    PROVE  g[S] = h[S]
<1> DEFINE bad == {T \in SUBSET S : g[T] # h[T]}
<1>1. SUFFICES ASSUME bad # {} PROVE FALSE OBVIOUS
<1>2. PICK T \in bad : \A U \in SUBSET T : U # T => U \notin bad
  <2>1. bad \in SUBSET (SUBSET S) OBVIOUS
  <2> HIDE DEF bad
  <2> QED BY <1>1, <2>1, MinimalSet
<1>3. T # {} BY <1>2, MultipliesAt
<1>4. Pick(T) \in T BY <1>3, PickIsIn
<1>5. g[T \ {Pick(T)}] = h[T \ {Pick(T)}] BY <1>2, <1>4
<1> QED BY <1>2, <1>3, <1>5, MultipliesAt

LEMMA MultipliesExists ==
    ASSUME NEW f, NEW S, IsFiniteSet(S)
    PROVE  \E h : Multiplies(f, SUBSET S, h)
<1> DEFINE bad == {T \in SUBSET S : ~\E h : Multiplies(f, SUBSET T, h)}
<1>1. SUFFICES ASSUME bad # {} PROVE FALSE OBVIOUS
<1>2. PICK T \in bad : \A U \in SUBSET T : U # T => U \notin bad
  <2>1. bad \in SUBSET (SUBSET S) OBVIOUS
  <2> HIDE DEF bad
  <2> QED BY <1>1, <2>1, MinimalSet
<1> DEFINE val(s) == (CHOOSE h : Multiplies(f, SUBSET s, h))[s]
           H == [s \in SUBSET T |-> IF s = {} THEN 1 ELSE f[Pick(s)] * val(s \ {Pick(s)})]
<1>3. ASSUME NEW U \in SUBSET T, U # T
      PROVE  Multiplies(f, SUBSET U, CHOOSE h : Multiplies(f, SUBSET U, h))
  <2>1. U \in SUBSET S BY <1>2
  <2>2. \E h : Multiplies(f, SUBSET U, h) BY <1>2, <1>3, <2>1
  <2> QED BY <2>2
<1>4. ASSUME NEW U \in SUBSET T, U # T PROVE H[U] = val(U)
  <2> DEFINE hU == CHOOSE h : Multiplies(f, SUBSET U, h)
  <2>1. Multiplies(f, SUBSET U, hU) BY <1>3, <1>4
  <2>2. CASE U = {} BY <2>1, <2>2, MultipliesAt
  <2>3. CASE U # {}
    <3> DEFINE V == U \ {Pick(U)}
               hV == CHOOSE h : Multiplies(f, SUBSET V, h)
    <3>1. V \in SUBSET T /\ V # T /\ V \in SUBSET U /\ IsFiniteSet(V)
      <4>1. V \in SUBSET S BY <1>2
      <4> QED BY <2>3, PickIsIn, <1>4, <4>1, FS_Subset
    <3>2. Multiplies(f, SUBSET V, hV) BY <1>3, <3>1
    <3>3. hU[V] = hV[V]
      <4> HIDE DEF hU, hV, V
      <4> QED BY <2>1, <3>1, <3>2, MultipliesOnce
    <3>4. hU[U] = f[Pick(U)] * hU[V] BY <2>1, <2>3, MultipliesAt
    <3>5. H[U] = f[Pick(U)] * hV[V] BY <2>3
    <3>6. val(U) = hU[U] OBVIOUS
    <3> HIDE DEF H, hU, hV, V, val
    <3> QED BY <3>3, <3>4, <3>5, <3>6
  <2> QED BY <2>2, <2>3
<1>5. \A s \in SUBSET T : s # {} => H[s \ {Pick(s)}] = val(s \ {Pick(s)})
  <2> SUFFICES ASSUME NEW s \in SUBSET T, s # {}
               PROVE  H[s \ {Pick(s)}] = val(s \ {Pick(s)})
    OBVIOUS
  <2>1. s \ {Pick(s)} \in SUBSET T /\ s \ {Pick(s)} # T BY PickIsIn
  <2> HIDE DEF H, val
  <2> QED BY <1>4, <2>1
<1>6. Multiplies(f, SUBSET T, H)
  <2>1. H = [s \in SUBSET T |-> IF s = {} THEN 1 ELSE f[Pick(s)] * H[s \ {Pick(s)}]]
    <3> DEFINE G == [s \in SUBSET T |-> IF s = {} THEN 1 ELSE f[Pick(s)] * H[s \ {Pick(s)}]]
    <3>1. ASSUME NEW s \in SUBSET T PROVE H[s] = G[s]
      <4>1. H[s] = IF s = {} THEN 1 ELSE f[Pick(s)] * val(s \ {Pick(s)}) OBVIOUS
      <4>2. G[s] = IF s = {} THEN 1 ELSE f[Pick(s)] * H[s \ {Pick(s)}]
        <5> HIDE DEF H
        <5> QED OBVIOUS
      <4> HIDE DEF H, G, val
      <4> QED BY <4>1, <4>2, <1>5
    <3>2. H = [s \in SUBSET T |-> H[s]] OBVIOUS
    <3> HIDE DEF H
    <3> QED BY <3>1, <3>2
  <2> HIDE DEF H
  <2> QED BY <2>1 DEF Multiplies, Pick
<1> QED BY <1>2, <1>6

(* Every factor divides the product.                                       *)
LEMMA ProductHolds ==
    ASSUME NEW f, NEW S, IsFiniteSet(S), \A x \in S : f[x] \in Nat \ {0}
    PROVE  /\ Product(f, S) \in Nat \ {0}
           /\ \A x \in S : \E q \in Nat : Product(f, S) = f[x] * q
<1>1. PICK h : Multiplies(f, SUBSET S, h) /\ Product(f, S) = h[S]
  BY MultipliesExists, ProductIs
<1> DEFINE P(T) == h[T] \in Nat \ {0} /\ \A x \in T : \E q \in Nat : h[T] = f[x] * q
           bad == {T \in SUBSET S : ~P(T)}
<1>2. bad = {}
  <2>1. SUFFICES ASSUME bad # {} PROVE FALSE OBVIOUS
  <2>2. PICK T \in bad : \A U \in SUBSET T : U # T => U \notin bad
    <3>1. bad \in SUBSET (SUBSET S) OBVIOUS
    <3> HIDE DEF bad
    <3> QED BY <2>1, <3>1, MinimalSet
  <2>3. T \in SUBSET S /\ ~P(T) BY <2>2
  <2>4. CASE T = {} BY <1>1, <2>3, <2>4, MultipliesAt
  <2>5. CASE T # {}
    <3> DEFINE y == Pick(T)
               U == T \ {y}
    <3>1. y \in T BY <2>5, PickIsIn
    <3>2. U \in SUBSET T /\ U # T /\ U \in SUBSET S BY <2>3, <3>1
    <3>3. P(U) BY <2>2, <3>2
    <3>4. h[T] = f[y] * h[U] BY <1>1, <2>3, <2>5, MultipliesAt
    <3>5. h[U] \in Nat \ {0} /\ \A x \in U : \E q \in Nat : h[U] = f[x] * q BY <3>3
    <3>6. \A x \in T : f[x] \in Nat \ {0} BY <2>3
    <3>7. T = U \cup {y} BY <3>1
    <3> HIDE DEF y, U
    <3>8. f[y] \in Nat \ {0} BY <3>1, <3>6
    <3>9. h[T] \in Nat \ {0} BY <3>4, <3>5, <3>8
    <3>10. ASSUME NEW x \in T PROVE \E q \in Nat : h[T] = f[x] * q
      <4>1. CASE x = y BY <3>4, <3>5, <4>1
      <4>2. CASE x # y
        <5>1. x \in U BY <3>7, <4>2
        <5>2. PICK q \in Nat : h[U] = f[x] * q BY <3>5, <5>1
        <5>3. f[x] \in Nat BY <3>6
        <5>4. f[y] * (f[x] * q) = f[x] * (f[y] * q) BY <3>8, <5>3
        <5>5. f[y] * q \in Nat BY <3>8
        <5> QED BY <3>4, <5>2, <5>4, <5>5
      <4> QED BY <4>1, <4>2
    <3> QED BY <2>3, <3>9, <3>10
  <2> QED BY <2>4, <2>5
<1>3. P(S) BY <1>2
<1> QED BY <1>1, <1>3

(* The scale of the board makes the hours a day of every row whole.        *)
Dated(row) == row.start \in Nat /\ row.end \in Nat /\ row.start <= row.end

LEMMA SpanOfDated ==
    ASSUME NEW row, Dated(row)
    PROVE  /\ TaskSpan(row) = row.start..row.end /\ TaskSpan(row) \in SUBSET Nat
           /\ IsFiniteSet(TaskSpan(row))
           /\ Cardinality(TaskSpan(row)) \in Nat \ {0}
<1>1. row.start \in Nat /\ row.end \in Nat /\ row.start <= row.end BY DEF Dated
<1>2. TaskSpan(row) = row.start..row.end BY <1>1, GreedyAssumption DEF TaskSpan
<1>3. IsFiniteSet(row.start..row.end) BY <1>1, FS_Interval
<1>4. row.start..row.end # {} /\ row.start..row.end \in SUBSET Nat BY <1>1
<1>5. Cardinality(row.start..row.end) \in Nat /\ Cardinality(row.start..row.end) # 0
  BY <1>3, <1>4, FS_CardinalityType, FS_EmptySet
<1> QED BY <1>2, <1>3, <1>4, <1>5

LEMMA ScaleDivides ==
    ASSUME NEW rows, IsFiniteSet(rows), \A row \in rows : Dated(row)
    PROVE  /\ Scale(rows) \in Nat \ {0}
           /\ \A row \in rows :
                  LET days == Cardinality(TaskSpan(row))
                  IN  /\ Scale(rows) \div days \in Nat
                      /\ days * (Scale(rows) \div days) = Scale(rows)
<1> DEFINE f == [row \in rows |-> AtLeast(Cardinality(TaskSpan(row)), 1)]
<1>1. \A row \in rows : /\ f[row] = Cardinality(TaskSpan(row))
                        /\ Cardinality(TaskSpan(row)) \in Nat \ {0}
  BY SpanOfDated DEF AtLeast
<1>2. DOMAIN f = rows OBVIOUS
<1>3. Scale(rows) = Product(f, DOMAIN f) BY Zenon DEF Scale, Product, FoldFunction
<1> HIDE DEF f
<1>4. \A row \in rows : f[row] \in Nat \ {0} BY <1>1
<1>5. /\ Product(f, rows) \in Nat \ {0}
      /\ \A row \in rows : \E q \in Nat : Product(f, rows) = f[row] * q
  BY <1>4, ProductHolds
<1>6. Scale(rows) = Product(f, rows) BY <1>2, <1>3
<1>7. ASSUME NEW row \in rows
      PROVE  LET days == Cardinality(TaskSpan(row))
             IN  /\ Scale(rows) \div days \in Nat
                 /\ days * (Scale(rows) \div days) = Scale(rows)
  <2> DEFINE days == Cardinality(TaskSpan(row))
  <2>1. PICK q \in Nat : Scale(rows) = days * q BY <1>1, <1>5, <1>6
  <2>2. days \in Nat \ {0} BY <1>1
  <2> HIDE DEF days
  <2>3. (days * q) \div days = q BY <2>2
  <2> QED BY <2>1, <2>3 DEF days
<1> QED BY <1>5, <1>6, <1>7

LEMMA SumOfSame ==
    ASSUME NEW f, NEW S, IsFiniteSet(S), NEW c \in Int, \A x \in S : f[x] = c
    PROVE  SumFunctionOnSet(f, S) = c * Cardinality(S)
<1> DEFINE g == [x \in S |-> (-1) * f[x]]
           n == Cardinality(S)
<1>1. \A x \in S : f[x] \in Int /\ f[x] <= c OBVIOUS
<1>2. \A x \in S : g[x] \in Int /\ g[x] <= (-1) * c /\ g[x] = (-1) * f[x] OBVIOUS
<1>3. n \in Nat BY FS_CardinalityType
<1> HIDE DEF g, n
<1>4. SumFunctionOnSet(f, S) \in Int /\ SumFunctionOnSet(f, S) <= c * n
  BY <1>1, SumAtMost DEF n
<1>5. SumFunctionOnSet(g, S) <= ((-1) * c) * n
  <2>1. (-1) * c \in Int OBVIOUS
  <2>2. \A x \in S : g[x] \in Int /\ g[x] <= (-1) * c BY <1>2
  <2> DEFINE m == (-1) * c
  <2> HIDE DEF m
  <2>3. m \in Int /\ \A x \in S : g[x] \in Int /\ g[x] <= m BY <2>1, <2>2 DEF m
  <2>4. SumFunctionOnSet(g, S) <= m * n BY <2>3, SumAtMost DEF n
  <2> QED BY <2>4 DEF m
<1>6. SumFunctionOnSet(g, S) = (-1) * SumFunctionOnSet(f, S)
  <2>1. -1 \in Int /\ \A x \in S : f[x] \in Int /\ g[x] = (-1) * f[x] BY <1>1, <1>2
  <2> QED BY <2>1, SumScaled
<1>7. ((-1) * c) * n = (-1) * (c * n) BY <1>3
<1>8. c * n \in Int BY <1>3
<1>9. SumFunctionOnSet(f, S) = c * n BY <1>4, <1>5, <1>6, <1>7, <1>8
<1> QED BY <1>9 DEF n

-----------------------------------------------------------------------------
(* The board                                                               *)

AreRows(rows) == IsFiniteSet(rows) /\ \A row \in rows : Dated(row) /\ row.hours \in Nat

(* The hours of a row on each of its days, times the scale.                *)
Daily(rows, row) == row.hours * (Scale(rows) \div Cardinality(TaskSpan(row)))

OnDay(rows, p, d) == {row \in rows : row.person = p /\ d \in TaskSpan(row)}

LEMMA DailyIs ==
    ASSUME NEW rows, AreRows(rows), NEW row \in rows
    PROVE  /\ Daily(rows, row) \in Nat /\ row.hours \in Nat
           /\ Daily(rows, row) * Cardinality(TaskSpan(row)) = Scale(rows) * row.hours
<1> DEFINE s == Scale(rows)
           days == Cardinality(TaskSpan(row))
           q == s \div days
<1>1. IsFiniteSet(rows) /\ (\A x \in rows : Dated(x)) /\ row.hours \in Nat /\ Dated(row)
  BY DEF AreRows
<1>2. s \in Nat \ {0} /\ q \in Nat /\ days * q = s BY <1>1, ScaleDivides
<1>3. days \in Nat \ {0} BY <1>1, SpanOfDated
<1>4. Daily(rows, row) = row.hours * q BY DEF Daily
<1> HIDE DEF s, days, q
<1>5. (row.hours * q) * days = row.hours * (days * q)
  <2>1. row.hours \in Int /\ q \in Int /\ days \in Int BY <1>1, <1>2, <1>3
  <2> QED BY <2>1
<1>6. row.hours * (days * q) = s * row.hours BY <1>1, <1>2
<1>7. row.hours * q \in Nat BY <1>1, <1>2
<1> QED BY <1>1, <1>4, <1>5, <1>6, <1>7 DEF s, days

LEMMA DayIs ==
    ASSUME NEW rows, AreRows(rows), NEW p, NEW d
    PROVE  LET mine  == OnDay(rows, p, d)
               daily == [row \in mine |-> Daily(rows, row)]
           IN  /\ IsFiniteSet(mine) /\ mine \in SUBSET rows
               /\ \A row \in mine : daily[row] \in Nat
               /\ DayHoursScaled(rows, Scale(rows), p, d) = SumFunctionOnSet(daily, mine)
               /\ DayHoursScaled(rows, Scale(rows), p, d) \in Nat
<1> DEFINE mine == OnDay(rows, p, d)
           daily == [row \in mine |-> Daily(rows, row)]
<1>1. IsFiniteSet(mine) /\ mine \in SUBSET rows
  <2>1. mine \in SUBSET rows BY DEF OnDay
  <2>2. IsFiniteSet(rows) BY DEF AreRows
  <2> HIDE DEF mine
  <2> QED BY <2>1, <2>2, FS_Subset
<1>2. \A row \in mine : daily[row] \in Nat BY <1>1, DailyIs
<1>3. DayHoursScaled(rows, Scale(rows), p, d) = SumFunction(daily)
  BY DEF DayHoursScaled, OnDay, Daily
<1>4. DOMAIN daily = mine OBVIOUS
<1> HIDE DEF daily, mine
<1>5. SumFunction(daily) = SumFunctionOnSet(daily, mine) BY <1>4, Zenon DEF SumFunction
<1>6. SumFunctionOnSet(daily, mine) \in Nat BY <1>1, <1>2, SumOfNat
<1> QED BY <1>1, <1>2, <1>3, <1>5, <1>6 DEF daily, mine

(* The days of a window hold all the hours of the rows that lie within it. *)
LEMMA DaysHoldRows ==
    ASSUME NEW rows, AreRows(rows), NEW p, NEW W, IsFiniteSet(W),
           NEW C \in SUBSET rows,
           \A row \in C : row.person = p /\ TaskSpan(row) \in SUBSET W,
           NEW hours, \A row \in C : hours[row] = row.hours,
           NEW day, \A d \in W : day[d] = DayHoursScaled(rows, Scale(rows), p, d)
    PROVE  Scale(rows) * SumFunctionOnSet(hours, C) <= SumFunctionOnSet(day, W)
<1> DEFINE s == Scale(rows)
           f == [row \in C |-> [d \in W |-> IF d \in TaskSpan(row) THEN Daily(rows, row) ELSE 0]]
           a == Across(f, C, W)
           b == Down(f, C, W)
<1>1. IsFiniteSet(C) /\ s \in Nat \ {0}
  <2>1. IsFiniteSet(rows) /\ \A x \in rows : Dated(x) BY DEF AreRows
  <2> QED BY <2>1, FS_Subset, ScaleDivides
<1>2. \A row \in C, d \in W : f[row][d] \in Nat BY DailyIs
<1>3. ASSUME NEW row \in C PROVE a[row] = s * hours[row] /\ hours[row] \in Int
  <2> DEFINE g == f[row]
             span == TaskSpan(row)
             w == Daily(rows, row)
  <2>1. a[row] = SumFunctionOnSet(g, W) BY DEF Across
  <2>2. /\ \A d \in W : g[d] \in Nat
        /\ \A d \in span : d \in W /\ g[d] = w
        /\ \A d \in W \ span : g[d] = 0
    BY <1>2
  <2>3. IsFiniteSet(span) /\ span \in SUBSET W
    <3>1. Dated(row) BY DEF AreRows
    <3> QED BY <3>1, SpanOfDated
  <2>4. w \in Nat /\ w * Cardinality(span) = s * row.hours /\ row.hours \in Nat BY DailyIs
  <2> HIDE DEF g, span, w
  <2>5. SumFunctionOnSet(g, span) = SumFunctionOnSet(g, W) BY <2>2, <2>3, SumPart
  <2>6. SumFunctionOnSet(g, span) = w * Cardinality(span) BY <2>2, <2>3, <2>4, SumOfSame
  <2> QED BY <2>1, <2>4, <2>5, <2>6
<1>4. ASSUME NEW d \in W PROVE b[d] \in Int /\ day[d] \in Int /\ b[d] <= day[d]
  <2> DEFINE mine == OnDay(rows, p, d)
             daily == [row \in mine |-> Daily(rows, row)]
             col == [row \in C |-> f[row][d]]
             T == {row \in C : d \in TaskSpan(row)}
  <2>1. /\ IsFiniteSet(mine) /\ mine \in SUBSET rows
        /\ \A row \in mine : daily[row] \in Nat
        /\ day[d] = SumFunctionOnSet(daily, mine) /\ day[d] \in Nat
    BY DayIs
  <2>2. b[d] = SumFunctionOnSet(col, C) BY DEF Down
  <2>3. /\ \A row \in C : col[row] \in Nat
        /\ \A row \in C \ T : col[row] = 0
        /\ T \in SUBSET C /\ T \in SUBSET mine
        /\ \A row \in T : col[row] = daily[row]
    BY <1>2 DEF OnDay
  <2> HIDE DEF mine, daily, col, T, f, b
  <2>4. SumFunctionOnSet(col, T) = SumFunctionOnSet(col, C) BY <1>1, <2>3, SumPart
  <2>5. SumFunctionOnSet(col, T) = SumFunctionOnSet(daily, T)
    <3>1. IsFiniteSet(T) BY <1>1, <2>3, FS_Subset
    <3>2. \A row \in T : col[row] \in Int /\ col[row] = daily[row] BY <2>3
    <3> QED BY <3>1, <3>2, SumSame
  <2>6. SumFunctionOnSet(daily, T) <= SumFunctionOnSet(daily, mine) BY <2>1, <2>3, SumPart
  <2>7. SumFunctionOnSet(col, C) \in Nat BY <1>1, <2>3, SumOfNat
  <2> QED BY <2>1, <2>2, <2>4, <2>5, <2>6, <2>7
<1>5. SumFunctionOnSet(a, C) = SumFunctionOnSet(b, W)
  <2>1. \A row \in C, d \in W : f[row][d] \in Int BY <1>2
  <2> HIDE DEF f
  <2> QED BY <1>1, <2>1, SumSwap
<1> HIDE DEF a, b, f, s
<1>6. SumFunctionOnSet(a, C) = s * SumFunctionOnSet(hours, C)
  <2>1. s \in Int /\ \A row \in C : hours[row] \in Int /\ a[row] = s * hours[row] BY <1>1, <1>3
  <2> QED BY <1>1, <2>1, SumScaled
<1>7. SumFunctionOnSet(b, W) <= SumFunctionOnSet(day, W) BY <1>4, SumOrder
<1> QED BY <1>5, <1>6, <1>7 DEF s

LEMMA SlotsHold ==
    ASSUME NEW rows, AreRows(rows), NEW p, NEW W, NEW d \in W
    PROVE  LET slots == LoadRow(rows, p, W).slots
               hours == DayHoursScaled(rows, Scale(rows), p, d)
           IN  /\ slots[d] \in Nat /\ hours \in Nat
               /\ hours <= (SlotHours * Scale(rows)) * slots[d]
<1> DEFINE hours == DayHoursScaled(rows, Scale(rows), p, d)
           c == SlotHours * Scale(rows)
<1>1. hours \in Nat BY DayIs
<1>2. c \in Nat \ {0}
  <2>1. IsFiniteSet(rows) /\ \A x \in rows : Dated(x) BY DEF AreRows
  <2>2. Scale(rows) \in Nat \ {0} BY <2>1, ScaleDivides
  <2> QED BY <2>2, SlotAssumption
<1>3. LoadRow(rows, p, W).slots[d] = CeilDiv(hours, c) BY DEF LoadRow, HoursToSlots
<1> HIDE DEF hours, c
<1>4. CeilDiv(hours, c) \in Nat /\ hours <= c * CeilDiv(hours, c) BY <1>1, <1>2, CeilHolds
<1> QED BY <1>1, <1>3, <1>4 DEF hours, c

(* Nothing is lost by counting in slots.                                   *)
LEMMA BoardHoldsRows ==
    ASSUME NEW rows, AreRows(rows), NEW p, NEW W, IsFiniteSet(W),
           NEW C \in SUBSET rows,
           \A row \in C : row.person = p /\ TaskSpan(row) \in SUBSET W,
           NEW hours, \A row \in C : hours[row] = row.hours
    PROVE  /\ SumFunctionOnSet(hours, C) \in Nat
           /\ SumFunctionOnSet(hours, C) <= SlotHours * SumFunction(LoadRow(rows, p, W).slots)
<1> DEFINE s == Scale(rows)
           slots == LoadRow(rows, p, W).slots
           day == [d \in W |-> DayHoursScaled(rows, s, p, d)]
           full == [d \in W |-> (SlotHours * s) * slots[d]]
           H == SumFunctionOnSet(hours, C)
           N == SumFunctionOnSet(slots, W)
<1>1. IsFiniteSet(C) /\ s \in Nat \ {0} /\ H \in Nat
  <2>1. IsFiniteSet(rows) /\ \A x \in rows : Dated(x) BY DEF AreRows
  <2>2. IsFiniteSet(C) BY <2>1, FS_Subset
  <2>3. \A row \in C : hours[row] \in Nat BY DEF AreRows
  <2> QED BY <2>1, <2>2, <2>3, ScaleDivides, SumOfNat
<1>2. s * H <= SumFunctionOnSet(day, W)
  <2>1. \A d \in W : day[d] = DayHoursScaled(rows, Scale(rows), p, d) OBVIOUS
  <2> HIDE DEF day
  <2> QED BY <2>1, DaysHoldRows
<1>3. ASSUME NEW d \in W
      PROVE  /\ slots[d] \in Nat /\ full[d] \in Int /\ day[d] \in Int /\ day[d] <= full[d]
             /\ full[d] = (SlotHours * s) * slots[d]
  <2>1. slots[d] \in Nat /\ day[d] \in Nat /\ day[d] <= (SlotHours * s) * slots[d]
    BY SlotsHold
  <2>2. full[d] = (SlotHours * s) * slots[d] OBVIOUS
  <2> HIDE DEF full, slots, day, s
  <2>3. (SlotHours * s) * slots[d] \in Int BY <1>1, <2>1, SlotAssumption
  <2> QED BY <2>1, <2>2, <2>3
<1>4. SumFunction(slots) = N
  <2>1. DOMAIN slots = W BY DEF LoadRow
  <2> HIDE DEF slots
  <2> QED BY <2>1, Zenon DEF SumFunction
<1> HIDE DEF day, full, slots, s, H
<1>5. SumFunctionOnSet(day, W) <= SumFunctionOnSet(full, W)
      /\ SumFunctionOnSet(day, W) \in Int /\ SumFunctionOnSet(full, W) \in Int
  BY <1>3, SumOrder
<1>6. SumFunctionOnSet(full, W) = (SlotHours * s) * N
  <2> DEFINE c == SlotHours * s
  <2>1. c \in Int BY <1>1, SlotAssumption
  <2>2. \A d \in W : slots[d] \in Int /\ full[d] = c * slots[d] BY <1>3
  <2> HIDE DEF c
  <2>3. SumFunctionOnSet(full, W) = c * SumFunctionOnSet(slots, W) BY <2>1, <2>2, SumScaled
  <2> QED BY <2>3 DEF c
<1>7. N \in Nat BY <1>3, SumOfNat
<1> HIDE DEF N
<1>8. H <= SlotHours * N
  <2>1. (SlotHours * s) * N = s * (SlotHours * N) BY <1>1, <1>7, SlotAssumption
  <2>2. s * H \in Int /\ SlotHours * N \in Int BY <1>1, <1>7, SlotAssumption
  <2>3. s * H <= s * (SlotHours * N) BY <1>2, <1>5, <1>6, <2>1, <2>2
  <2> DEFINE m == SlotHours * N
  <2>4. s \in Nat \ {0} /\ H \in Int /\ m \in Int /\ s * H <= s * m BY <1>1, <2>2, <2>3
  <2> HIDE DEF m
  <2>5. H <= m BY <2>4
  <2> QED BY <2>5 DEF m
<1> QED BY <1>1, <1>4, <1>8 DEF H, slots

LEMMA WholeDiv ==
    ASSUME NEW a \in Nat, NEW b \in Nat \ {0}, a % b = 0
    PROVE  a \div b \in Nat /\ a = b * (a \div b)
OBVIOUS

(* A day that holds only rows of that day is overloaded on the board if    *)
(* they have more hours than the person.                                   *)
LEMMA BoardShowsDay ==
    ASSUME NEW rows, AreRows(rows), NEW p, NEW W, NEW d \in W,
           Capacity[p] \in Nat, Capacity[p] % SlotHours = 0,
           \A row \in rows :
               row.person = p /\ d \in TaskSpan(row) => row.start = d /\ row.end = d,
           NEW hours, \A row \in OnDay(rows, p, d) : hours[row] = row.hours,
           SumFunctionOnSet(hours, OnDay(rows, p, d)) > Capacity[p]
    PROVE  d \in LoadRow(rows, p, W).overloaded
<1> DEFINE s == Scale(rows)
           mine == OnDay(rows, p, d)
           daily == [row \in mine |-> Daily(rows, row)]
           n == LoadRow(rows, p, W).slots[d]
           H == SumFunctionOnSet(hours, mine)
           q == Capacity[p] \div SlotHours
<1>1. IsFiniteSet(rows) /\ (\A x \in rows : Dated(x) /\ x.hours \in Nat) /\ s \in Nat \ {0}
  BY ScaleDivides DEF AreRows
<1>2. /\ IsFiniteSet(mine) /\ mine \in SUBSET rows
      /\ DayHoursScaled(rows, s, p, d) = SumFunctionOnSet(daily, mine)
  BY DayIs
<1>3. ASSUME NEW row \in mine PROVE hours[row] \in Int /\ daily[row] = s * hours[row]
  <2>1. row \in rows /\ row.start = d /\ row.end = d /\ hours[row] = row.hours
    BY DEF OnDay
  <2>2. Dated(row) /\ row.hours \in Nat BY <1>1, <2>1
  <2>3. TaskSpan(row) = {d}
    <3>1. d \in Nat /\ d..d = {d} BY <2>1, <2>2 DEF Dated
    <3> QED BY <2>1, <2>2, <3>1, SpanOfDated
  <2>4. Cardinality(TaskSpan(row)) = 1 BY <2>3, FS_Singleton
  <2>5. Daily(rows, row) * Cardinality(TaskSpan(row)) = s * row.hours /\ Daily(rows, row) \in Nat
    BY <2>1, DailyIs
  <2>6. Daily(rows, row) = s * row.hours BY <2>4, <2>5
  <2> QED BY <2>1, <2>2, <2>6
<1>4. n \in Nat /\ DayHoursScaled(rows, s, p, d) <= (SlotHours * s) * n BY SlotsHold
<1>5. LoadRow(rows, p, W).overloaded = {e \in W : LoadRow(rows, p, W).slots[e] > CapacitySlots(p)}
  BY DEF LoadRow
<1>6. H \in Int /\ H > Capacity[p]
  <2>1. \A row \in mine : hours[row] \in Int BY <1>3
  <2> HIDE DEF mine
  <2>2. SumFunctionOnSet(hours, mine) \in Int BY <1>2, <2>1, SumIsInt
  <2> QED BY <2>2 DEF mine
<1> HIDE DEF daily, mine, n, s, H
<1>7. SumFunctionOnSet(daily, mine) = s * H
  <2>1. s \in Int BY <1>1
  <2> QED BY <1>2, <1>3, <2>1, SumScaled DEF H
<1>8. q \in Nat /\ Capacity[p] = SlotHours * q BY SlotAssumption, WholeDiv
<1>9. CapacitySlots(p) = q
  <2>1. CapacitySlots(p) = CeilDiv(Capacity[p], SlotHours * 1)
    BY DEF CapacitySlots, HoursToSlots
  <2>2. CapacitySlots(p) = (Capacity[p] + SlotHours - 1) \div SlotHours
    BY <2>1, SlotAssumption DEF CeilDiv
  <2> HIDE DEF q
  <2>3. (SlotHours * q + SlotHours - 1) \div SlotHours = q BY <1>8, SlotAssumption
  <2> QED BY <1>8, <2>2, <2>3
<1> HIDE DEF q
<1>10. s * H <= s * (SlotHours * n)
  <2>1. (SlotHours * s) * n = s * (SlotHours * n) BY <1>1, <1>4, SlotAssumption
  <2> QED BY <1>2, <1>4, <1>7, <2>1
<1>11. H <= SlotHours * n
  <2> DEFINE m == SlotHours * n
  <2>1. m \in Int BY <1>4, SlotAssumption
  <2>2. s * H <= s * m BY <1>10
  <2> HIDE DEF m
  <2>3. H <= m BY <1>1, <1>6, <2>1, <2>2
  <2> QED BY <2>3 DEF m
<1>12. n > q
  <2>1. SlotHours * q < SlotHours * n
    <3>1. SlotHours * q \in Int /\ SlotHours * n \in Int BY <1>4, <1>8, SlotAssumption
    <3> QED BY <1>6, <1>8, <1>11, <3>1
  <2> QED BY <1>4, <1>8, <2>1, SlotAssumption
<1> QED BY <1>5, <1>9, <1>12 DEF n

(* Some days of a person hold no more of a load than the person does of it.*)
LEMMA PersonDays ==
    ASSUME NEW load, IsLoad(load), NEW p, NEW D, IsFiniteSet(D),
           NEW g, \A d \in D : g[d] = HoursOn(<<p, d>>, load)
    PROVE  /\ SumFunctionOnSet(g, D) \in Nat /\ HoursBy(load, p) \in Nat
           /\ SumFunctionOnSet(g, D) <= HoursBy(load, p)
           /\ (\A d \in D : <<p, d>> \notin DOMAIN load) => SumFunctionOnSet(g, D) = 0
<1> DEFINE L == {k \in DOMAIN load : k[1] = p}
           K == {p} \X D
           f == [k \in K \cup L |-> HoursOn(k, load)]
           his == [k \in L |-> load[k]]
<1>1. /\ IsABag(load) /\ IsFiniteSet(DOMAIN load)
      /\ \A k \in DOMAIN load : k \in (DOMAIN Capacity) \X Nat
  BY DEF IsLoad
<1>2. \A k : HoursOn(k, load) \in Nat /\ (k \in DOMAIN load => HoursOn(k, load) = load[k])
  BY <1>1, LoadIsNat
<1>3. \A k : k \notin DOMAIN load => HoursOn(k, load) = 0 BY DEF HoursOn
<1>4. IsFiniteSet(L) BY <1>1, FS_Subset
<1>5. HoursBy(load, p) = SumFunctionOnSet(his, L)
  <2>1. HoursBy(load, p) = SumFunction(his) BY DEF HoursBy
  <2>2. DOMAIN his = L OBVIOUS
  <2> HIDE DEF his, L
  <2> QED BY <2>1, <2>2, Zenon DEF SumFunction
<1>6. IsFiniteSet(K) /\ SumFunctionOnSet(f, K) = SumFunctionOnSet(g, D)
  <2>1. ByDay(f, K, p, g, D) BY <1>2 DEF ByDay
  <2> HIDE DEF f, K
  <2> QED BY <2>1, SumOfPerson
<1>7. /\ \A k \in K : f[k] \in Nat
      /\ \A k \in L : f[k] \in Nat /\ his[k] = f[k]
      /\ \A k \in K \ L : f[k] = 0
  <2>1. \A k \in K \ L : k \notin DOMAIN load OBVIOUS
  <2>2. \A k \in K \ L : f[k] = 0 BY <1>3, <2>1
  <2> QED BY <1>2, <2>2
<1> DEFINE both == K \cap L
<1>8. both \in SUBSET K /\ both \in SUBSET L /\ \A k \in K \ both : k \in K \ L OBVIOUS
<1>9. \A d \in D : g[d] \in Nat BY <1>2
<1>10. (\A d \in D : <<p, d>> \notin DOMAIN load) => \A d \in D : g[d] = 0 BY <1>3
<1> HIDE DEF f, K, L, his, both
<1>11. SumFunctionOnSet(f, both) = SumFunctionOnSet(f, K) BY <1>6, <1>7, <1>8, SumPart
<1>12. SumFunctionOnSet(f, both) <= SumFunctionOnSet(f, L) BY <1>4, <1>7, <1>8, SumPart
<1>13. SumFunctionOnSet(his, L) = SumFunctionOnSet(f, L) /\ SumFunctionOnSet(f, L) \in Nat
  <2>1. \A k \in L : his[k] \in Int /\ his[k] = f[k] BY <1>7
  <2> QED BY <1>4, <1>7, <2>1, SumSame, SumOfNat
<1>14. SumFunctionOnSet(g, D) \in Nat BY <1>9, SumOfNat
<1> QED BY <1>5, <1>6, <1>10, <1>11, <1>12, <1>13, <1>14, SumOfZeros
=============================================================================
