-------------------------- MODULE CompletionProofs --------------------------
(***************************************************************************)
(* Proofs about a completion around its routing, for any number of slots,  *)
(* contents and providers, any caps, lifetimes and windows.                *)
(***************************************************************************)
EXTENDS Completion, SequenceTheorems, FiniteSetTheorems, TLAPS

-----------------------------------------------------------------------------
(* Sums over finite sets.  The sum of the community modules is a recursive *)
(* function on subsets; what it computes is shown by taking a least subset *)
(* at which it would fail.                                                 *)

Sum(w, S) == SumFunctionOnSet(w, S)

\* g sums w over the subsets of S, taking one element after the other.
Unfolds(w, S, g) ==
    g = [T \in SUBSET S |-> IF T = {} THEN 0
                            ELSE LET x == CHOOSE x \in T : TRUE IN w[x] + g[T \ {x}]]

Weights(w, S) == IsFiniteSet(S) /\ \A x \in S : w[x] \in Nat

LEMMA LeastSubset ==
    ASSUME NEW S, IsFiniteSet(S), NEW B, B \subseteq SUBSET S, B # {}
    PROVE  \E T \in B : \A U \in B : ~(U \subseteq T /\ U # T)
<1>1. IsWellFoundedOn(StrictSubsetOrdering(S), FiniteSubsetsOf(S))
  BY FS_StrictSubsetOrderingWellFounded
<1>2. B \subseteq FiniteSubsetsOf(S)
  BY FS_FiniteSubsetsOfFinite
<1>3. PICK T \in B : \A U \in B : ~ (<<U, T>> \in StrictSubsetOrdering(S))
  BY <1>1, <1>2, WFMin
<1>4. \A U \in B : ~(U \subseteq T /\ U # T)
  BY <1>3 DEF StrictSubsetOrdering
<1> QED
  BY <1>3, <1>4

LEMMA UnfoldsOnce ==
    ASSUME NEW w, NEW S, NEW g, Unfolds(w, S, g), NEW T \in SUBSET S
    PROVE  /\ T = {} => g[T] = 0
           /\ T # {} => /\ (CHOOSE x \in T : TRUE) \in T
                        /\ g[T] = w[CHOOSE x \in T : TRUE] + g[T \ {CHOOSE x \in T : TRUE}]
  BY DEF Unfolds

LEMMA UnfoldsSame ==
    ASSUME NEW w, NEW S, NEW g, Unfolds(w, S, g),
           NEW T \in SUBSET S, IsFiniteSet(T), NEW h, Unfolds(w, T, h)
    PROVE  \A U \in SUBSET T : g[U] = h[U]
<1> DEFINE B == {U \in SUBSET T : g[U] # h[U]}
<1>1. SUFFICES ASSUME B # {} PROVE FALSE
  OBVIOUS
<1>2. PICK U \in B : \A V \in B : ~(V \subseteq U /\ V # U)
  <2> HIDE DEF B
  <2>1. B \subseteq SUBSET T
    BY DEF B
  <2> QED
    BY <1>1, <2>1, LeastSubset
<1>3. U # {}
  BY <1>2, UnfoldsOnce
<1> DEFINE x == CHOOSE x \in U : TRUE
<1>4. x \in U /\ g[U] = w[x] + g[U \ {x}] /\ h[U] = w[x] + h[U \ {x}]
  BY <1>2, <1>3, UnfoldsOnce
<1> HIDE DEF x
<1>5. g[U \ {x}] = h[U \ {x}]
  BY <1>2, <1>4
<1> QED
  BY <1>2, <1>4, <1>5

LEMMA UnfoldsExists ==
    ASSUME NEW w, NEW S, IsFiniteSet(S)
    PROVE  \E g : Unfolds(w, S, g)
<1> DEFINE B == {T \in SUBSET S : ~ \E g : Unfolds(w, T, g)}
<1>1. SUFFICES ASSUME B # {} PROVE FALSE
  OBVIOUS
<1>2. PICK T \in B : \A V \in B : ~(V \subseteq T /\ V # T)
  <2> HIDE DEF B
  <2>1. B \subseteq SUBSET S
    BY DEF B
  <2> QED
    BY <1>1, <2>1, LeastSubset
<1>3. T \in SUBSET S /\ IsFiniteSet(T) /\ ~ \E g : Unfolds(w, T, g)
  BY <1>2, FS_Subset
<1> DEFINE F(U) == CHOOSE g : Unfolds(w, U, g)
           x(U) == CHOOSE x \in U : TRUE
           G == [U \in SUBSET T |-> IF U = {} THEN 0 ELSE w[x(U)] + F(U \ {x(U)})[U \ {x(U)}]]
<1>4. ASSUME NEW U \in SUBSET T, U # T PROVE Unfolds(w, U, F(U))
  <2>1. U \in SUBSET S /\ U \notin B
    BY <1>2, <1>3, <1>4
  <2>2. \E g : Unfolds(w, U, g)
    BY <2>1
  <2> QED
    BY <2>2
<1>5. \A U \in SUBSET T : U # {} => x(U) \in U
  OBVIOUS
<1>6. \A U \in SUBSET T : G[U] = IF U = {} THEN 0 ELSE w[x(U)] + F(U \ {x(U)})[U \ {x(U)}]
  OBVIOUS
<1> HIDE DEF B, F, x
<1>7. ASSUME NEW U \in SUBSET T, U # T PROVE G[U] = F(U)[U]
  <2>1. Unfolds(w, U, F(U))
    BY <1>4, <1>7
  <2>2. CASE U = {}
    <3>1. F(U)[U] = 0
      BY <2>1, <2>2, UnfoldsOnce
    <3> QED
      BY <1>6, <2>2, <3>1
  <2>3. CASE U # {}
    <3> DEFINE V == U \ {x(U)}
    <3>1. x(U) \in U /\ V \in SUBSET U /\ V \in SUBSET T /\ V # T
      BY <1>5, <1>7, <2>3
    <3>2. F(U)[U] = w[x(U)] + F(U)[V]
      BY <2>1, <2>3, UnfoldsOnce DEF x
    <3>3. Unfolds(w, V, F(V)) /\ IsFiniteSet(V)
      BY <1>3, <1>4, <3>1, FS_Subset
    <3>4. F(U)[V] = F(V)[V]
      BY <2>1, <3>1, <3>3, UnfoldsSame
    <3>5. G[U] = w[x(U)] + F(V)[V]
      BY <1>6, <2>3
    <3> QED
      BY <3>2, <3>4, <3>5
  <2> QED
    BY <2>2, <2>3
<1>8. \A U \in SUBSET T : G[U] = IF U = {} THEN 0 ELSE w[x(U)] + G[U \ {x(U)}]
  <2>1. ASSUME NEW U \in SUBSET T, U # {}
        PROVE  U \ {x(U)} \in SUBSET T /\ U \ {x(U)} # T
    BY <1>5, <2>1
  <2> HIDE DEF G
  <2> QED
    BY <1>6, <1>7, <2>1
<1>9. G = [U \in SUBSET T |-> IF U = {} THEN 0 ELSE w[x(U)] + G[U \ {x(U)}]]
  <2>1. G = [U \in SUBSET T |-> G[U]]
    OBVIOUS
  <2> HIDE DEF G
  <2> QED
    BY <1>8, <2>1
<1>10. Unfolds(w, T, G)
  <2> HIDE DEF G
  <2> QED
    BY <1>9 DEF Unfolds, x
<1> HIDE DEF G
<1> QED
  BY <1>3, <1>10

LEMMA SumUnfolds ==
    ASSUME NEW w, NEW S, IsFiniteSet(S), NEW g, Unfolds(w, S, g)
    PROVE  Sum(w, S) = g[S]
<1>1. Sum(w, S) = (CHOOSE h : Unfolds(w, S, h))[S]
  BY DEF Sum, SumFunctionOnSet, FoldFunctionOnSet, MapThenFoldSet, Unfolds
<1>2. Unfolds(w, S, CHOOSE h : Unfolds(w, S, h))
  OBVIOUS
<1> QED
  BY <1>1, <1>2, UnfoldsSame

LEMMA SumOnce ==
    ASSUME NEW w, NEW S, IsFiniteSet(S)
    PROVE  /\ Sum(w, {}) = 0
           /\ S # {} => \E x \in S : Sum(w, S) = w[x] + Sum(w, S \ {x})
<1>1. PICK g : Unfolds(w, S, g)
  BY UnfoldsExists
<1>2. ASSUME NEW T \in SUBSET S PROVE Sum(w, T) = g[T]
  <2>1. IsFiniteSet(T)
    BY FS_Subset
  <2>2. PICK h : Unfolds(w, T, h)
    BY <2>1, UnfoldsExists
  <2> QED
    BY <1>1, <2>1, <2>2, SumUnfolds, UnfoldsSame
<1>3. Sum(w, {}) = 0
  BY <1>1, <1>2, UnfoldsOnce
<1>4. ASSUME S # {} PROVE \E x \in S : Sum(w, S) = w[x] + Sum(w, S \ {x})
  <2> DEFINE x == CHOOSE x \in S : TRUE
  <2>1. x \in S /\ g[S] = w[x] + g[S \ {x}]
    BY <1>1, <1>4, UnfoldsOnce
  <2> HIDE DEF x
  <2>2. Sum(w, S) = g[S] /\ Sum(w, S \ {x}) = g[S \ {x}]
    BY <1>2
  <2> QED
    BY <2>1, <2>2
<1> QED
  BY <1>3, <1>4

LEMMA SumType ==
    ASSUME NEW w, NEW S, Weights(w, S)
    PROVE  Sum(w, S) \in Nat
<1> DEFINE B == {T \in SUBSET S : Sum(w, T) \notin Nat}
<1>1. SUFFICES ASSUME B # {} PROVE FALSE
  OBVIOUS
<1>2. PICK T \in B : \A V \in B : ~(V \subseteq T /\ V # T)
  <2> HIDE DEF B
  <2>1. B \subseteq SUBSET S
    BY DEF B
  <2> QED
    BY <1>1, <2>1, LeastSubset DEF Weights
<1>3. IsFiniteSet(T)
  BY FS_Subset DEF Weights
<1>4. T # {}
  <2>1. Sum(w, {}) = 0 /\ Sum(w, T) \notin Nat
    BY <1>2, <1>3, SumOnce
  <2> QED
    BY <2>1
<1>5. PICK x \in T : Sum(w, T) = w[x] + Sum(w, T \ {x})
  BY <1>3, <1>4, SumOnce
<1>6. Sum(w, T \ {x}) \in Nat
  BY <1>2, <1>5
<1> QED
  BY <1>2, <1>5, <1>6 DEF Weights

\* Any element may be taken first.
LEMMA SumRemove ==
    ASSUME NEW w, NEW S, Weights(w, S), NEW y \in S
    PROVE  Sum(w, S) = w[y] + Sum(w, S \ {y})
<1> DEFINE B == {T \in SUBSET S : \E z \in T : Sum(w, T) # w[z] + Sum(w, T \ {z})}
<1>1. SUFFICES ASSUME B # {} PROVE FALSE
  OBVIOUS
<1>2. PICK T \in B : \A V \in B : ~(V \subseteq T /\ V # T)
  <2> HIDE DEF B
  <2>1. B \subseteq SUBSET S
    BY DEF B
  <2> QED
    BY <1>1, <2>1, LeastSubset DEF Weights
<1>3. IsFiniteSet(T) /\ \A U \in SUBSET T : Sum(w, U) \in Nat
  BY <1>2, FS_Subset, SumType DEF Weights
<1>4. PICK z \in T : Sum(w, T) # w[z] + Sum(w, T \ {z})
  BY <1>2
<1>5. PICK x \in T : Sum(w, T) = w[x] + Sum(w, T \ {x})
  BY <1>3, <1>4, SumOnce
<1>6. z # x /\ w[z] \in Nat /\ w[x] \in Nat
  BY <1>4, <1>5 DEF Weights
<1>7. Sum(w, T \ {x}) = w[z] + Sum(w, (T \ {x}) \ {z})
  <2>1. T \ {x} \notin B /\ T \ {x} \in SUBSET S /\ z \in T \ {x}
    BY <1>2, <1>5, <1>6
  <2> QED
    BY <2>1
<1>8. Sum(w, T \ {z}) = w[x] + Sum(w, (T \ {z}) \ {x})
  <2>1. T \ {z} \notin B /\ T \ {z} \in SUBSET S /\ x \in T \ {z}
    BY <1>2, <1>4, <1>5, <1>6
  <2> QED
    BY <2>1
<1> DEFINE R == (T \ {x}) \ {z}
<1>9. (T \ {z}) \ {x} = R /\ Sum(w, R) \in Nat
  BY <1>3
<1> HIDE DEF R
<1>10. Sum(w, T) = w[x] + (w[z] + Sum(w, R)) /\ Sum(w, T \ {z}) = w[x] + Sum(w, R)
  BY <1>5, <1>7, <1>8, <1>9 DEF R
<1>11. w[x] + (w[z] + Sum(w, R)) = w[z] + (w[x] + Sum(w, R))
  BY <1>6, <1>9
<1> QED
  BY <1>4, <1>10, <1>11

LEMMA SumAdd ==
    ASSUME NEW w, NEW S, NEW y, y \notin S, Weights(w, S \cup {y})
    PROVE  Sum(w, S \cup {y}) = Sum(w, S) + w[y]
<1>1. (S \cup {y}) \ {y} = S /\ y \in S \cup {y}
  OBVIOUS
<1>2. Sum(w, S \cup {y}) = w[y] + Sum(w, S)
  BY <1>1, SumRemove
<1>3. Weights(w, S)
  BY FS_Subset DEF Weights
<1> QED
  BY <1>2, <1>3, SumType DEF Weights

\* The sum depends on the values on the set only.
LEMMA SumAgree ==
    ASSUME NEW w, NEW v, NEW S, IsFiniteSet(S), \A x \in S : w[x] = v[x]
    PROVE  Sum(w, S) = Sum(v, S)
<1>1. PICK g : Unfolds(w, S, g)
  BY UnfoldsExists
<1>2. \A T \in SUBSET S : T # {} => (CHOOSE x \in T : TRUE) \in S
  OBVIOUS
<1>3. Unfolds(v, S, g)
  <2>1. \A T \in SUBSET S :
           (IF T = {} THEN 0
            ELSE LET x == CHOOSE x \in T : TRUE IN w[x] + g[T \ {x}])
              = (IF T = {} THEN 0
                 ELSE LET x == CHOOSE x \in T : TRUE IN v[x] + g[T \ {x}])
    BY <1>2
  <2> QED
    BY <1>1, <2>1 DEF Unfolds
<1> QED
  BY <1>1, <1>3, SumUnfolds

\* The parts of a set add up.
LEMMA SumParts ==
    ASSUME NEW w, NEW S, NEW T, S \cap T = {}, Weights(w, S \cup T)
    PROVE  Sum(w, S \cup T) = Sum(w, S) + Sum(w, T)
<1> DEFINE B == {U \in SUBSET T : Sum(w, S \cup U) # Sum(w, S) + Sum(w, U)}
<1>1. SUFFICES ASSUME B # {} PROVE FALSE
  OBVIOUS
<1>2. IsFiniteSet(S \cup T) /\ IsFiniteSet(T)
  BY FS_Subset DEF Weights
<1>3. PICK U \in B : \A V \in B : ~(V \subseteq U /\ V # U)
  <2> HIDE DEF B
  <2>1. B \subseteq SUBSET T
    BY DEF B
  <2> QED
    BY <1>1, <1>2, <2>1, LeastSubset
<1>4. \A V \in SUBSET (S \cup T) : Weights(w, V) /\ Sum(w, V) \in Nat
  <2>1. \A V \in SUBSET (S \cup T) : Weights(w, V)
    BY <1>2, FS_Subset DEF Weights
  <2> QED
    BY <2>1, SumType
<1>5. U \in SUBSET T /\ Sum(w, S \cup U) # Sum(w, S) + Sum(w, U)
  BY <1>3
<1>6. CASE U = {}
  <2>1. Sum(w, U) = 0 /\ S \cup U = S /\ Sum(w, S) \in Nat
    BY <1>4, <1>6, <1>2, SumOnce
  <2> QED
    BY <1>5, <2>1
<1>7. CASE U # {}
  <2>1. PICK x \in U : TRUE
    BY <1>7
  <2>2. x \notin S /\ (S \cup U) \ {x} = S \cup (U \ {x}) /\ x \in S \cup U
    BY <1>5, <2>1
  <2>3. Sum(w, S \cup U) = w[x] + Sum(w, S \cup (U \ {x}))
    <3>1. S \cup U \in SUBSET (S \cup T)
      BY <1>5
    <3> QED
      BY <1>4, <2>2, <3>1, SumRemove
  <2>4. Sum(w, U) = w[x] + Sum(w, U \ {x})
    <3>1. U \in SUBSET (S \cup T)
      BY <1>5
    <3> QED
      BY <1>4, <2>1, <3>1, SumRemove
  <2>5. Sum(w, S \cup (U \ {x})) = Sum(w, S) + Sum(w, U \ {x})
    <3>1. U \ {x} \notin B /\ U \ {x} \in SUBSET T
      BY <1>3, <1>5, <2>1
    <3> QED
      BY <3>1
  <2>6. Sum(w, S) \in Nat /\ Sum(w, U \ {x}) \in Nat /\ w[x] \in Nat
    <3>1. S \in SUBSET (S \cup T) /\ U \ {x} \in SUBSET (S \cup T) /\ x \in S \cup T
      BY <1>5, <2>1
    <3> QED
      BY <1>4, <3>1 DEF Weights
  <2> HIDE DEF B
  <2> QED
    BY <1>5, <2>3, <2>4, <2>5, <2>6
<1> QED
  BY <1>6, <1>7

LEMMA SumPart ==
    ASSUME NEW w, NEW S, Weights(w, S), NEW T \in SUBSET S
    PROVE  Sum(w, T) <= Sum(w, S) /\ Weights(w, T)
<1>1. T \cup (S \ T) = S /\ T \cap (S \ T) = {} /\ S \ T \in SUBSET S
  OBVIOUS
<1>2. Weights(w, T) /\ Weights(w, S \ T)
  BY <1>1, FS_Subset DEF Weights
<1>3. Sum(w, S) = Sum(w, T) + Sum(w, S \ T)
  BY <1>1, SumParts
<1> QED
  BY <1>2, <1>3, SumType

LEMMA SumZero ==
    ASSUME NEW w, NEW S, IsFiniteSet(S), \A x \in S : w[x] = 0
    PROVE  Sum(w, S) = 0
<1> DEFINE B == {T \in SUBSET S : Sum(w, T) # 0}
<1>1. SUFFICES ASSUME B # {} PROVE FALSE
  OBVIOUS
<1>2. PICK T \in B : \A V \in B : ~(V \subseteq T /\ V # T)
  <2> HIDE DEF B
  <2>1. B \subseteq SUBSET S
    BY DEF B
  <2> QED
    BY <1>1, <2>1, LeastSubset
<1>3. IsFiniteSet(T)
  BY FS_Subset
<1>4. T # {}
  <2>1. Sum(w, {}) = 0 /\ Sum(w, T) # 0
    BY <1>2, <1>3, SumOnce
  <2> QED
    BY <2>1
<1>5. PICK x \in T : Sum(w, T) = w[x] + Sum(w, T \ {x})
  BY <1>3, <1>4, SumOnce
<1>6. Sum(w, T \ {x}) = 0 /\ w[x] = 0
  BY <1>2, <1>5
<1> QED
  BY <1>2, <1>5, <1>6

\* A sum taken under other names
LEMMA SumRenamed ==
    ASSUME NEW w, NEW S, Weights(w, S), NEW f, NEW v,
           \A x, y \in S : f[x] = f[y] => x = y,
           \A x \in S : v[f[x]] = w[x]
    PROVE  /\ Sum(v, {f[x] : x \in S}) = Sum(w, S)
           /\ IsFiniteSet({f[x] : x \in S})
           /\ Cardinality({f[x] : x \in S}) = Cardinality(S)
<1> DEFINE Image(T) == {f[x] : x \in T}
           B == {T \in SUBSET S : Sum(v, Image(T)) # Sum(w, T)}
<1>1. IsFiniteSet(Image(S)) /\ Cardinality(Image(S)) = Cardinality(S)
  <2> DEFINE g == [x \in S |-> f[x]]
  <2>1. g \in [S -> Image(S)]
    OBVIOUS
  <2>2. \A x, y \in S : g[x] = g[y] => x = y
    OBVIOUS
  <2>3. \A z \in Image(S) : \E x \in S : g[x] = z
    OBVIOUS
  <2> HIDE DEF g, Image
  <2>4. g \in Injection(S, Image(S)) /\ g \in Surjection(S, Image(S))
    BY <2>1, <2>2, <2>3 DEF Injection, IsInjective, Surjection
  <2> QED
    BY <2>4, FS_Bijection DEF ExistsBijection, Bijection, Weights
<1>2. Weights(v, Image(S))
  BY <1>1 DEF Weights
<1>3. SUFFICES ASSUME B # {} PROVE FALSE
  BY <1>1
<1>4. PICK T \in B : \A V \in B : ~(V \subseteq T /\ V # T)
  <2> HIDE DEF B
  <2>1. B \subseteq SUBSET S
    BY DEF B
  <2> QED
    BY <1>3, <2>1, LeastSubset DEF Weights
<1>5. T \in SUBSET S /\ Sum(v, Image(T)) # Sum(w, T)
  BY <1>4
<1>6. T # {}
  <2>1. Sum(v, {}) = 0 /\ Sum(w, {}) = 0
    BY FS_EmptySet, SumOnce
  <2>2. T = {} => Image(T) = {}
    OBVIOUS
  <2> QED
    BY <1>5, <2>1, <2>2
<1>7. PICK x \in T : TRUE
  BY <1>6
<1>8. Weights(w, T) /\ Weights(v, Image(T))
  <2>1. Image(T) \in SUBSET Image(S)
    BY <1>5
  <2> QED
    BY <1>2, <1>5, <2>1, SumPart
<1>9. Sum(w, T) = w[x] + Sum(w, T \ {x})
  BY <1>7, <1>8, SumRemove
<1>10. Sum(v, Image(T)) = w[x] + Sum(v, Image(T \ {x}))
  <2>1. f[x] \in Image(T) /\ v[f[x]] = w[x]
    BY <1>5, <1>7
  <2>2. Image(T) \ {f[x]} = Image(T \ {x})
    BY <1>5, <1>7
  <2>3. Sum(v, Image(T)) = v[f[x]] + Sum(v, Image(T) \ {f[x]})
    <3> HIDE DEF Image
    <3> QED
      BY <1>8, <2>1, SumRemove
  <2> HIDE DEF Image, B
  <2> QED
    BY <2>1, <2>2, <2>3
<1>11. Sum(v, Image(T \ {x})) = Sum(w, T \ {x})
  <2>1. T \ {x} \notin B /\ T \ {x} \in SUBSET S
    BY <1>4, <1>5, <1>7
  <2> QED
    BY <2>1
<1> QED
  BY <1>5, <1>9, <1>10, <1>11

\* Adding up bucket by bucket what falls in each.
LEMMA SumByBucket ==
    ASSUME NEW w, NEW J, Weights(w, J), NEW hour, NEW H, IsFiniteSet(H)
    PROVE  Sum([h \in H |-> Sum(w, {i \in J : hour[i] = h})], H)
              = Sum(w, {i \in J : hour[i] \in H})
<1> DEFINE In(h) == {i \in J : hour[i] = h}
           v == [h \in H |-> Sum(w, In(h))]
           B == {T \in SUBSET H : Sum(v, T) # Sum(w, {i \in J : hour[i] \in T})}
<1>1. SUFFICES ASSUME B # {} PROVE FALSE
  OBVIOUS
<1>2. PICK T \in B : \A V \in B : ~(V \subseteq T /\ V # T)
  <2> HIDE DEF B
  <2>1. B \subseteq SUBSET H
    BY DEF B
  <2> QED
    BY <1>1, <2>1, LeastSubset
<1>3. T \in SUBSET H /\ Sum(v, T) # Sum(w, {i \in J : hour[i] \in T})
  BY <1>2
<1>4. \A I \in SUBSET J : Weights(w, I) /\ Sum(w, I) \in Nat
  BY SumPart, SumType
<1>5. Weights(v, H)
  <2>1. \A h \in H : v[h] = Sum(w, In(h)) /\ In(h) \in SUBSET J
    OBVIOUS
  <2> HIDE DEF v
  <2> QED
    BY <1>4, <2>1 DEF Weights
<1>6. T # {}
  <2>1. Sum(v, {}) = 0 /\ Sum(w, {}) = 0
    BY FS_EmptySet, SumOnce
  <2>2. T = {} => {i \in J : hour[i] \in T} = {}
    OBVIOUS
  <2> QED
    BY <1>3, <2>1, <2>2
<1>7. PICK h \in T : TRUE
  BY <1>6
<1> DEFINE Rest == {i \in J : hour[i] \in T \ {h}}
<1>8. /\ {i \in J : hour[i] \in T} = Rest \cup In(h)
      /\ Rest \cap In(h) = {} /\ Rest \cup In(h) \in SUBSET J
  BY <1>7
<1>9. Sum(w, {i \in J : hour[i] \in T}) = Sum(w, Rest) + Sum(w, In(h))
  <2> HIDE DEF Rest, In
  <2> QED
    BY <1>4, <1>8, SumParts
<1>10. Sum(v, T) = v[h] + Sum(v, T \ {h})
  <2>1. Weights(v, T)
    BY <1>3, <1>5, SumPart
  <2> HIDE DEF v
  <2> QED
    BY <1>7, <2>1, SumRemove
<1>11. v[h] = Sum(w, In(h))
  BY <1>3, <1>7
<1>12. Sum(v, T \ {h}) = Sum(w, Rest)
  <2>1. T \ {h} \notin B /\ T \ {h} \in SUBSET H
    BY <1>2, <1>3, <1>7
  <2> QED
    BY <2>1
<1>13. Sum(w, Rest) \in Nat /\ Sum(w, In(h)) \in Nat
  BY <1>4
<1> HIDE DEF In, Rest, v, B
<1> QED
  BY <1>3, <1>9, <1>10, <1>11, <1>12, <1>13

-----------------------------------------------------------------------------
(* The history of answers.                                                 *)

AnswerRecord == [kind : {"served", "failed", "refused"}, ask : Asks,
                 response : Response \cup {None}, cached : BOOLEAN, at : Nat]

\* A response answers its own request, which does not stream, and any request
\* that was served and does not stream has one.
Answers(r) ==
    /\ r.kind = "served" /\ ~r.ask.stream => r.response # None
    /\ r.response # None =>
          r.kind = "served" /\ ~r.ask.stream /\ r.response.content = r.ask.content

History(hist, t) ==
    /\ hist \in Seq(AnswerRecord)
    /\ \A i \in DOMAIN hist : hist[i].at <= t /\ Answers(hist[i])

ServedIn(hist) == {i \in DOMAIN hist : hist[i].kind = "served"}
FailedIn(hist) == {i \in DOMAIN hist : hist[i].kind = "failed"}

TokensIn(r) == IF r.response = None THEN 0 ELSE r.response.tokens
Weight(hist) == [i \in DOMAIN hist |-> TokensIn(hist[i])]

LEMMA HistoryFacts ==
    ASSUME NEW hist \in Seq(AnswerRecord)
    PROVE  /\ DOMAIN hist = 1 .. Len(hist) /\ Len(hist) \in Nat /\ IsFiniteSet(DOMAIN hist)
           /\ \A i \in DOMAIN hist : hist[i] \in AnswerRecord
           /\ \A I \in SUBSET (DOMAIN hist) : IsFiniteSet(I) /\ Weights(Weight(hist), I)
           /\ \A i \in DOMAIN hist : Weight(hist)[i] \in TokenCounts \cup {0}
<1>1. DOMAIN hist = 1 .. Len(hist) /\ Len(hist) \in Nat /\ IsFiniteSet(1 .. Len(hist))
  BY FS_Interval
<1>2. \A i \in DOMAIN hist : hist[i] \in AnswerRecord
  BY <1>1, ElementOfSeq
<1>3. \A i \in DOMAIN hist : Weight(hist)[i] \in TokenCounts \cup {0}
  <2>1. \A r \in AnswerRecord : TokensIn(r) \in TokenCounts \cup {0}
    BY DEF AnswerRecord, Response, TokensIn
  <2> QED
    BY <1>2, <2>1 DEF Weight
<1>4. \A I \in SUBSET (DOMAIN hist) : IsFiniteSet(I) /\ Weights(Weight(hist), I)
  <2>1. \A I \in SUBSET (DOMAIN hist) : IsFiniteSet(I)
    BY <1>1, FS_Subset
  <2>2. \A i \in DOMAIN hist : Weight(hist)[i] \in Nat
    <3>1. TokenCounts \cup {0} \subseteq Nat
      BY CompletionAssumption
    <3> HIDE DEF Weight
    <3> QED
      BY <1>3, <3>1
  <2> QED
    BY <2>1, <2>2 DEF Weights
<1> QED
  BY <1>1, <1>2, <1>3, <1>4

\* What one more answer changes.
LEMMA AddedFacts ==
    ASSUME NEW hist \in Seq(AnswerRecord), NEW r \in AnswerRecord
    PROVE  LET bs == Append(hist, r)
               n  == Len(hist) + 1
           IN  /\ bs \in Seq(AnswerRecord) /\ Len(bs) = n
               /\ DOMAIN bs = DOMAIN hist \cup {n} /\ n \notin DOMAIN hist
               /\ \A i \in DOMAIN hist : bs[i] = hist[i] /\ i < n
               /\ bs[n] = r
               /\ \A i \in DOMAIN hist : Weight(bs)[i] = Weight(hist)[i]
               /\ Weight(bs)[n] = TokensIn(r)
<1> DEFINE bs == Append(hist, r)
           n == Len(hist) + 1
<1>1. /\ bs \in Seq(AnswerRecord) /\ Len(bs) = n /\ n \in Nat
      /\ \A i \in 1 .. Len(hist) : bs[i] = hist[i]
      /\ bs[n] = r
  BY AppendProperties
<1>2. DOMAIN hist = 1 .. Len(hist) /\ Len(hist) \in Nat
  OBVIOUS
<1> HIDE DEF bs
<1>3. DOMAIN bs = DOMAIN hist \cup {n} /\ n \notin DOMAIN hist /\ \A i \in DOMAIN hist : i < n
  BY <1>1, <1>2
<1>4. /\ \A i \in DOMAIN hist : Weight(bs)[i] = Weight(hist)[i]
      /\ Weight(bs)[n] = TokensIn(r)
  BY <1>1, <1>2, <1>3 DEF Weight
<1> QED
  BY <1>1, <1>2, <1>3, <1>4 DEF bs

\* The sum over what was there does not change, and the new answer's tokens are
\* added when it counts.
LEMMA SumAdded ==
    ASSUME NEW hist \in Seq(AnswerRecord), NEW r \in AnswerRecord,
           NEW I \in SUBSET (DOMAIN hist)
    PROVE  LET bs == Append(hist, r)
               n  == Len(hist) + 1
           IN  /\ Sum(Weight(bs), I) = Sum(Weight(hist), I)
               /\ Sum(Weight(bs), I \cup {n}) = Sum(Weight(hist), I) + TokensIn(r)
               /\ IsFiniteSet(I) /\ Cardinality(I \cup {n}) = Cardinality(I) + 1
<1> DEFINE bs == Append(hist, r)
           n == Len(hist) + 1
<1>1. /\ bs \in Seq(AnswerRecord) /\ DOMAIN bs = DOMAIN hist \cup {n} /\ n \notin DOMAIN hist
      /\ \A i \in DOMAIN hist : Weight(bs)[i] = Weight(hist)[i]
      /\ Weight(bs)[n] = TokensIn(r)
  BY AddedFacts
<1> HIDE DEF bs, n
<1>2. IsFiniteSet(I) /\ n \notin I /\ Weights(Weight(bs), I \cup {n})
  <2>1. I \cup {n} \in SUBSET (DOMAIN bs)
    BY <1>1
  <2> QED
    BY <1>1, <2>1, HistoryFacts
<1>3. Sum(Weight(bs), I) = Sum(Weight(hist), I)
  BY <1>1, <1>2, SumAgree
<1>4. Sum(Weight(bs), I \cup {n}) = Sum(Weight(bs), I) + Weight(bs)[n]
  BY <1>2, SumAdd
<1>5. Cardinality(I \cup {n}) = Cardinality(I) + 1
  BY <1>2, FS_AddElement
<1> QED
  BY <1>1, <1>2, <1>3, <1>4, <1>5 DEF bs, n

\* TokenSum is that sum.
LEMMA TokenSumIs ==
    ASSUME answers \in Seq(AnswerRecord), NEW I \in SUBSET (DOMAIN answers)
    PROVE  TokenSum(I) = Sum(Weight(answers), I)
<1> DEFINE w == [i \in I |-> Tokens(i)]
<1>1. TokenSum(I) = Sum(w, I)
  BY DEF TokenSum, SumFunction, Sum
<1>2. \A i \in I : w[i] = Weight(answers)[i]
  BY DEF Tokens, Weight, TokensIn
<1>3. IsFiniteSet(I)
  BY HistoryFacts
<1> HIDE DEF w
<1> QED
  BY <1>1, <1>2, <1>3, SumAgree

-----------------------------------------------------------------------------
(* The virtual key's counter.                                              *)

KeyedIn(hist) == {i \in ServedIn(hist) : hist[i].ask.keyed}
ChargedIn(hist, t) == {i \in KeyedIn(hist) : hist[i].at > t - CapWindow}

EventOf(hist, i) == [at |-> hist[i].at, tokens |-> TokensIn(hist[i]), nr |-> i]

\* The counter holds answers that were charged, and all of those in the window.
Counts(c, hist, t) ==
    /\ \A e \in c : \E i \in KeyedIn(hist) : e = EventOf(hist, i)
    /\ \A i \in ChargedIn(hist, t) : EventOf(hist, i) \in c

\* Pruned, it holds just those in the window.
LEMMA PruneFacts ==
    ASSUME NEW hist \in Seq(AnswerRecord), NEW t \in Nat, NEW c, Counts(c, hist, t)
    PROVE  /\ Counts(Prune(c, t), hist, t)
           /\ Cardinality(Prune(c, t)) = Cardinality(ChargedIn(hist, t))
           /\ TokensOf(Prune(c, t)) = Sum(Weight(hist), ChargedIn(hist, t))
<1> DEFINE I == ChargedIn(hist, t)
           f == [i \in I |-> EventOf(hist, i)]
           P == Prune(c, t)
           v == [e \in P |-> e.tokens]
<1>1. I \in SUBSET (DOMAIN hist)
  BY DEF ChargedIn, KeyedIn, ServedIn
<1>2. P = {f[i] : i \in I}
  <2>1. \A e \in P : \E i \in I : e = f[i]
    BY DEF Counts, Prune, ChargedIn, EventOf
  <2>2. \A i \in I : f[i] \in P
    BY DEF Counts, Prune, ChargedIn, EventOf
  <2> QED
    BY <2>1, <2>2
<1>3. Counts(P, hist, t)
  BY DEF Counts, Prune, ChargedIn, EventOf
<1>4. \A i, j \in I : f[i] = f[j] => i = j
  BY DEF EventOf
<1>5. \A i \in I : f[i].tokens = Weight(hist)[i]
  BY <1>1 DEF EventOf, Weight
<1> HIDE DEF f, P
<1>6. \A i \in I : v[f[i]] = Weight(hist)[i]
  BY <1>2, <1>5
<1>7. TokensOf(P) = Sum(v, P)
  BY DEF TokensOf, SumFunction, Sum
<1> HIDE DEF v, I
<1>8. Weights(Weight(hist), I)
  BY <1>1, HistoryFacts
<1>9. Sum(v, P) = Sum(Weight(hist), I) /\ Cardinality(P) = Cardinality(I)
  BY <1>2, <1>4, <1>6, <1>8, SumRenamed
<1> QED
  BY <1>3, <1>7, <1>9 DEF P, I

\* An answer that is charged is recorded, one that is not changes nothing.
LEMMA CountsAdded ==
    ASSUME NEW hist \in Seq(AnswerRecord), NEW r \in AnswerRecord, NEW t \in Nat, r.at = t,
           NEW c, Counts(c, hist, t), NEW d
    PROVE  LET bs == Append(hist, r)
               n  == Len(hist) + 1
               charged == r.kind = "served" /\ r.ask.keyed
           IN  /\ charged /\ d = Record(c, TokensIn(r), t, n) => Counts(d, bs, t)
               /\ ~charged /\ d \in {c, Prune(c, t)} => Counts(d, bs, t)
               /\ ChargedIn(bs, t) = ChargedIn(hist, t) \cup (IF charged THEN {n} ELSE {})
               /\ ChargedIn(hist, t) \in SUBSET (DOMAIN hist)
<1> DEFINE bs == Append(hist, r)
           n == Len(hist) + 1
           charged == r.kind = "served" /\ r.ask.keyed
<1>1. /\ DOMAIN bs = DOMAIN hist \cup {n} /\ n \notin DOMAIN hist /\ bs[n] = r
      /\ \A i \in DOMAIN hist : bs[i] = hist[i]
  BY AddedFacts
<1>2. n \in Nat /\ t > t - CapWindow
  BY VirtualKeyAssumption
<1> HIDE DEF bs, n
<1>3. KeyedIn(bs) = KeyedIn(hist) \cup (IF charged THEN {n} ELSE {})
  BY <1>1 DEF KeyedIn, ServedIn
<1>4. ChargedIn(bs, t) = ChargedIn(hist, t) \cup (IF charged THEN {n} ELSE {})
  BY <1>1, <1>2, <1>3 DEF ChargedIn, KeyedIn, ServedIn
<1>5. \A i \in KeyedIn(hist) : EventOf(bs, i) = EventOf(hist, i)
  BY <1>1 DEF KeyedIn, ServedIn, EventOf
<1>6. ChargedIn(hist, t) \in SUBSET (DOMAIN hist) /\ ChargedIn(hist, t) \in SUBSET KeyedIn(hist)
  BY DEF ChargedIn, KeyedIn, ServedIn
<1>7. Counts(Prune(c, t), hist, t)
  BY PruneFacts
<1>8. ASSUME charged, d = Record(c, TokensIn(r), t, n) PROVE Counts(d, bs, t)
  <2>1. EventOf(bs, n) = [at |-> t, tokens |-> TokensIn(r), nr |-> n]
    BY <1>1 DEF EventOf
  <2>2. d = Prune(c, t) \cup {EventOf(bs, n)}
    BY <1>8, <2>1 DEF Record
  <2>3. KeyedIn(bs) = KeyedIn(hist) \cup {n} /\ ChargedIn(bs, t) = ChargedIn(hist, t) \cup {n}
    BY <1>3, <1>4, <1>8
  <2> QED
    BY <1>5, <1>6, <1>7, <2>2, <2>3 DEF Counts
<1>9. ASSUME ~charged, NEW x, Counts(x, hist, t) PROVE Counts(x, bs, t)
  <2>1. KeyedIn(bs) = KeyedIn(hist) /\ ChargedIn(bs, t) = ChargedIn(hist, t)
    BY <1>3, <1>4, <1>9
  <2> QED
    BY <1>5, <1>6, <1>9, <2>1 DEF Counts
<1> QED
  BY <1>4, <1>6, <1>7, <1>8, <1>9 DEF bs, n

-----------------------------------------------------------------------------
(* The caps.                                                               *)

\* The tokens of the largest response
Most == CHOOSE n \in TokenCounts : \A m \in TokenCounts : m <= n

LEMMA MostFacts == Most \in Nat /\ \A m \in TokenCounts \cup {0} : m <= Most
<1> DEFINE Above(n) == {m \in TokenCounts : m > n}
           B == {Above(n) : n \in TokenCounts}
<1>1. IsFiniteSet(TokenCounts) /\ TokenCounts # {} /\ TokenCounts \subseteq Nat
  BY CompletionAssumption
<1>2. B \subseteq SUBSET TokenCounts /\ B # {}
  <2>1. \A x \in B : x \in SUBSET TokenCounts
    OBVIOUS
  <2>2. PICK n : n \in TokenCounts
    BY <1>1
  <2>3. Above(n) \in B
    BY <2>2
  <2> QED
    BY <2>1, <2>3
<1>3. PICK T \in B : \A U \in B : ~(U \subseteq T /\ U # T)
  <2> HIDE DEF B, Above
  <2>1. IsFiniteSet(TokenCounts) /\ B \subseteq SUBSET TokenCounts /\ B # {}
    BY <1>1, <1>2
  <2> QED
    BY ONLY <2>1, LeastSubset
<1>4. PICK n \in TokenCounts : T = Above(n)
  BY <1>3
<1>5. ASSUME NEW k \in TokenCounts, ~(k <= n) PROVE FALSE
  <2>1. k \in Above(n) /\ k \notin Above(k) /\ Above(k) \subseteq Above(n)
    <3>1. k \in Nat /\ n \in Nat /\ \A m \in TokenCounts : m \in Nat
      BY <1>1
    <3>2. n < k
      BY <1>5, <3>1
    <3>3. \A m \in TokenCounts : m > k => m > n
      BY <3>1, <3>2
    <3>4. k \in Above(n) /\ Above(k) \subseteq Above(n)
      BY <3>2, <3>3
    <3>5. k \notin Above(k)
      BY <3>1
    <3> QED
      BY <3>4, <3>5
  <2>2. Above(k) \in B
    OBVIOUS
  <2> HIDE DEF B, Above
  <2> QED
    BY <1>3, <1>4, <2>1, <2>2
<1>6. Most \in TokenCounts /\ \A m \in TokenCounts : m <= Most
  BY <1>5 DEF Most
<1> QED
  BY <1>1, <1>6

\* The slots that no request with the virtual key holds
KeyedSlots(f) == {s \in Slots : f[s] # None /\ f[s].keyed}
Spare(f) == Cardinality(Slots) - Cardinality(KeyedSlots(f))

Flights == [Slots -> Asks \cup {None}]

LEMMA SpareFacts ==
    ASSUME NEW f \in Flights
    PROVE  /\ Spare(f) \in Nat
           /\ \A s \in Slots, a \in Asks :
                 f[s] = None =>
                    /\ Spare(f) >= 1
                    /\ Spare([f EXCEPT ![s] = a]) = IF a.keyed THEN Spare(f) - 1 ELSE Spare(f)
           /\ \A s \in Slots :
                 f[s] # None =>
                    Spare([f EXCEPT ![s] = None]) =
                       IF f[s].keyed THEN Spare(f) + 1 ELSE Spare(f)
<1>1. IsFiniteSet(Slots) /\ None \notin Asks
  BY CompletionAssumption
<1>2. ASSUME NEW S \in SUBSET Slots
      PROVE  /\ IsFiniteSet(S) /\ Cardinality(S) \in Nat /\ Cardinality(Slots) \in Nat
             /\ Cardinality(S) <= Cardinality(Slots)
  BY <1>1, FS_Subset, FS_CardinalityType
<1>3. KeyedSlots(f) \in SUBSET Slots
  BY DEF KeyedSlots
<1>4. Spare(f) \in Nat
  BY <1>2, <1>3 DEF Spare
<1>5. ASSUME NEW s \in Slots, NEW a \in Asks, f[s] = None
      PROVE  /\ Spare(f) >= 1
             /\ Spare([f EXCEPT ![s] = a]) = IF a.keyed THEN Spare(f) - 1 ELSE Spare(f)
  <2> DEFINE g == [f EXCEPT ![s] = a]
  <2>1. s \notin KeyedSlots(f) /\ KeyedSlots(f) \cup {s} \in SUBSET Slots
    BY <1>3, <1>5 DEF KeyedSlots
  <2>2. Cardinality(KeyedSlots(f) \cup {s}) = Cardinality(KeyedSlots(f)) + 1
    BY <1>2, <1>3, <2>1, FS_AddElement
  <2>3. Cardinality(KeyedSlots(f)) + 1 <= Cardinality(Slots)
    BY <1>2, <2>1, <2>2
  <2>4. g[s] = a /\ \A u \in Slots : u # s => g[u] = f[u]
    BY DEF Flights
  <2> HIDE DEF g
  <2>5. Cardinality(KeyedSlots(f)) \in Nat /\ Cardinality(Slots) \in Nat
    BY <1>2, <1>3
  <2>6. CASE a.keyed
    <3>1. KeyedSlots(g) = KeyedSlots(f) \cup {s}
      BY <1>1, <2>4, <2>6 DEF KeyedSlots
    <3>2. Spare(f) >= 1 /\ Spare(g) = Spare(f) - 1
      BY <2>2, <2>3, <2>5, <3>1 DEF Spare
    <3> QED
      BY <2>6, <3>2 DEF g
  <2>7. CASE ~a.keyed
    <3>1. KeyedSlots(g) = KeyedSlots(f)
      BY <1>5, <2>4, <2>7 DEF KeyedSlots
    <3>2. Spare(f) >= 1 /\ Spare(g) = Spare(f)
      BY <2>3, <2>5, <3>1 DEF Spare
    <3> QED
      BY <2>7, <3>2 DEF g
  <2> QED
    BY <2>6, <2>7
<1>6. ASSUME NEW s \in Slots, f[s] # None
      PROVE  Spare([f EXCEPT ![s] = None]) = IF f[s].keyed THEN Spare(f) + 1 ELSE Spare(f)
  <2> DEFINE g == [f EXCEPT ![s] = None]
  <2>1. g[s] = None /\ \A u \in Slots : u # s => g[u] = f[u]
    BY DEF Flights
  <2> HIDE DEF g
  <2>2. Cardinality(KeyedSlots(f)) \in Nat /\ Cardinality(Slots) \in Nat
    BY <1>2, <1>3
  <2>3. CASE f[s].keyed
    <3>1. KeyedSlots(g) = KeyedSlots(f) \ {s} /\ s \in KeyedSlots(f)
      BY <1>6, <2>1, <2>3 DEF KeyedSlots
    <3>2. Cardinality(KeyedSlots(g)) = Cardinality(KeyedSlots(f)) - 1
      BY <1>2, <1>3, <3>1, FS_RemoveElement
    <3> QED
      BY <2>2, <2>3, <3>2 DEF Spare, g
  <2>4. CASE ~f[s].keyed
    <3>1. KeyedSlots(g) = KeyedSlots(f)
      BY <2>1, <2>4 DEF KeyedSlots
    <3> QED
      BY <2>4, <3>1 DEF Spare, g
  <2> QED
    BY <2>3, <2>4
<1> QED
  BY <1>4, <1>5, <1>6

\* The caps are overrun by no more than spare slots could still have let through.
CapsHeld(hist, t, spare) ==
    /\ RequestCap # None => Cardinality(ChargedIn(hist, t)) <= RequestCap - 1 + spare
    /\ TokenCap # None => Sum(Weight(hist), ChargedIn(hist, t)) <= TokenCap - 1 + spare * Most

\* What the guard leaves room for.
CapsOpen(hist, t) ==
    /\ RequestCap # None => Cardinality(ChargedIn(hist, t)) <= RequestCap - 1
    /\ TokenCap # None => Sum(Weight(hist), ChargedIn(hist, t)) <= TokenCap - 1

LEMMA ChargedTypes ==
    ASSUME NEW hist \in Seq(AnswerRecord), NEW t
    PROVE  /\ Cardinality(ChargedIn(hist, t)) \in Nat
           /\ Sum(Weight(hist), ChargedIn(hist, t)) \in Nat
           /\ IsFiniteSet(ChargedIn(hist, t)) /\ Weights(Weight(hist), ChargedIn(hist, t))
<1>1. ChargedIn(hist, t) \in SUBSET (DOMAIN hist)
  BY DEF ChargedIn, KeyedIn, ServedIn
<1> QED
  BY <1>1, HistoryFacts, SumType, FS_CardinalityType

LEMMA CapTypes ==
    /\ RequestCap # None => RequestCap \in Nat
    /\ TokenCap # None => TokenCap \in Nat
  BY VirtualKeyAssumption

LEMMA OpenIsHeld ==
    ASSUME NEW hist \in Seq(AnswerRecord), NEW t, CapsOpen(hist, t), NEW k \in Nat
    PROVE  CapsHeld(hist, t, k)
<1>1. k * Most \in Nat
  BY MostFacts
<1> QED
  BY <1>1, ChargedTypes, CapTypes DEF CapsOpen, CapsHeld

\* Time only takes answers out of the window.
LEMMA WindowMoves ==
    ASSUME NEW hist \in Seq(AnswerRecord), NEW t \in Nat, NEW k \in Nat, CapsHeld(hist, t, k)
    PROVE  /\ CapsHeld(hist, t + 1, k)
           /\ \A c : Counts(c, hist, t) => Counts(c, hist, t + 1)
<1>1. ChargedIn(hist, t + 1) \in SUBSET ChargedIn(hist, t)
  <2>1. \A i \in DOMAIN hist : hist[i].at \in Nat
    BY HistoryFacts DEF AnswerRecord
  <2> QED
    BY <2>1, VirtualKeyAssumption DEF ChargedIn, KeyedIn, ServedIn
<1>2. /\ Cardinality(ChargedIn(hist, t + 1)) <= Cardinality(ChargedIn(hist, t))
      /\ Sum(Weight(hist), ChargedIn(hist, t + 1)) <= Sum(Weight(hist), ChargedIn(hist, t))
  BY <1>1, ChargedTypes, FS_Subset, SumPart
<1>3. k * Most \in Nat
  BY MostFacts
<1>4. CapsHeld(hist, t + 1, k)
  BY <1>2, <1>3, ChargedTypes, CapTypes DEF CapsHeld
<1> QED
  BY <1>1, <1>4 DEF Counts

\* An answer that takes the place of what it was in flight, or that the guard let
\* through, keeps to the caps.
LEMMA ChargeKeepsCaps ==
    ASSUME NEW hist \in Seq(AnswerRecord), NEW r \in AnswerRecord, NEW t \in Nat, r.at = t,
           NEW k \in Nat, NEW m \in Nat,
           \/ CapsHeld(hist, t, k) /\ m = k /\ ~(r.kind = "served" /\ r.ask.keyed)
           \/ CapsHeld(hist, t, k) /\ m = k + 1
           \/ CapsOpen(hist, t) /\ m >= 1
    PROVE  CapsHeld(Append(hist, r), t, m)
<1> DEFINE bs == Append(hist, r)
           n == Len(hist) + 1
           I == ChargedIn(hist, t)
           J == ChargedIn(bs, t)
<1>1. I \in SUBSET (DOMAIN hist)
  BY DEF ChargedIn, KeyedIn, ServedIn
<1>2. /\ Sum(Weight(bs), I) = Sum(Weight(hist), I)
      /\ Sum(Weight(bs), I \cup {n}) = Sum(Weight(hist), I) + TokensIn(r)
      /\ Cardinality(I \cup {n}) = Cardinality(I) + 1
  BY <1>1, SumAdded
<1>3. J = I \cup (IF r.kind = "served" /\ r.ask.keyed THEN {n} ELSE {})
  <2>1. Counts({EventOf(hist, i) : i \in I}, hist, t)
    BY DEF Counts, ChargedIn
  <2> QED
    BY <2>1, CountsAdded
<1>4. TokensIn(r) \in Nat /\ TokensIn(r) <= Most /\ Most \in Nat
  <2>1. TokensIn(r) \in TokenCounts \cup {0}
    BY DEF TokensIn, AnswerRecord, Response
  <2>2. TokenCounts \cup {0} \subseteq Nat
    BY CompletionAssumption
  <2> QED
    BY <2>1, <2>2, MostFacts
<1>5. Cardinality(I) \in Nat /\ Sum(Weight(hist), I) \in Nat
  BY ChargedTypes
<1> HIDE DEF I, J, bs, n
<1>6. /\ Cardinality(J) \in Nat /\ Cardinality(J) <= Cardinality(I) + 1
      /\ Sum(Weight(bs), J) \in Nat /\ Sum(Weight(bs), J) <= Sum(Weight(hist), I) + Most
      /\ ~(r.kind = "served" /\ r.ask.keyed) =>
            Cardinality(J) = Cardinality(I) /\ Sum(Weight(bs), J) = Sum(Weight(hist), I)
  <2>1. CASE r.kind = "served" /\ r.ask.keyed
    <3>1. J = I \cup {n}
      BY <1>3, <2>1
    <3> QED
      BY <1>2, <1>4, <1>5, <2>1, <3>1
  <2>2. CASE ~(r.kind = "served" /\ r.ask.keyed)
    <3>1. J = I
      BY <1>3, <2>2
    <3> QED
      BY <1>2, <1>4, <1>5, <3>1
  <2> QED
    BY <2>1, <2>2
<1>7. k * Most \in Nat /\ m * Most \in Nat /\ (k + 1) * Most = k * Most + Most
  BY <1>4
<1>8. m >= 1 => m * Most >= Most
  BY <1>4
<1>9. CASE CapsHeld(hist, t, k) /\ m = k /\ ~(r.kind = "served" /\ r.ask.keyed)
  BY <1>6, <1>9 DEF CapsHeld, I, J, bs
<1>10. CASE CapsHeld(hist, t, k) /\ m = k + 1
  <2>1. RequestCap # None => Cardinality(J) <= RequestCap - 1 + m
    BY <1>5, <1>6, <1>10, CapTypes DEF CapsHeld, I
  <2>2. m * Most = k * Most + Most
    BY <1>7, <1>10
  <2>3. TokenCap # None => Sum(Weight(bs), J) <= TokenCap - 1 + m * Most
    <3> DEFINE km == k * Most
    <3>1. km \in Nat /\ m * Most = km + Most
      BY <1>7, <2>2
    <3>2. TokenCap # None => Sum(Weight(hist), I) <= TokenCap - 1 + km
      BY <1>10 DEF CapsHeld, I
    <3> HIDE DEF km
    <3> DEFINE have == Sum(Weight(hist), I)
               new == Sum(Weight(bs), J)
    <3>3. have \in Nat /\ new \in Nat /\ new <= have + Most /\ Most \in Nat
      BY <1>4, <1>5, <1>6
    <3> HIDE DEF have, new
    <3>4. TokenCap # None => new <= TokenCap - 1 + (km + Most)
      BY <3>1, <3>2, <3>3, CapTypes DEF have
    <3> QED
      BY <3>1, <3>4 DEF new
  <2> QED
    BY <2>1, <2>3 DEF CapsHeld, J, bs
<1>11. CASE CapsOpen(hist, t) /\ m >= 1
  <2>1. RequestCap # None => Cardinality(J) <= RequestCap - 1 + m
    BY <1>5, <1>6, <1>11, CapTypes DEF CapsOpen, I
  <2>2. TokenCap # None => Sum(Weight(bs), J) <= TokenCap - 1 + m * Most
    <3> DEFINE mm == m * Most
    <3>1. mm \in Nat /\ mm >= Most
      BY <1>7, <1>8, <1>11
    <3>2. TokenCap # None => Sum(Weight(hist), I) <= TokenCap - 1
      BY <1>11 DEF CapsOpen, I
    <3> HIDE DEF mm
    <3> QED
      BY <1>4, <1>5, <1>6, <3>1, <3>2, CapTypes
  <2> QED
    BY <2>1, <2>2 DEF CapsHeld, J, bs
<1> QED
  BY <1>9, <1>10, <1>11

-----------------------------------------------------------------------------
(* The buckets of one provider.                                            *)

\* The answers a provider gave, and those of one hour
TookIn(hist, p) == {i \in ServedIn(hist) : /\ hist[i].response # None
                                           /\ hist[i].response.provider = p
                                           /\ ~hist[i].cached}
HourIn(hist) == [i \in DOMAIN hist |-> CurrentHour(hist[i].at)]
TookAt(hist, p, h) == {i \in TookIn(hist, p) : HourIn(hist)[i] = h}
Lately(hist, p, t) == {i \in TookIn(hist, p) : HourIn(hist)[i] > CurrentHour(t) - WindowHours}

\* A bucket of the window holds the tokens of its hour, and an hour of the window
\* that took any has a bucket.
BucketsOf(b, hist, p, t) ==
    /\ IsFiniteSet(DOMAIN b)
    /\ \A h \in DOMAIN b : h \in Nat
    /\ \A h \in FreshHours(b, t) : b[h].tokens = Sum(Weight(hist), TookAt(hist, p, h))
    /\ \A i \in Lately(hist, p, t) : Weight(hist)[i] # 0 => HourIn(hist)[i] \in DOMAIN b

LEMMA HourFacts ==
    ASSUME NEW t \in Nat
    PROVE  /\ CurrentHour(t) \in Nat /\ CurrentHour(t) <= CurrentHour(t + 1)
           /\ CurrentHour(t) > CurrentHour(t) - WindowHours
<1>1. HourTicks \in Nat /\ HourTicks > 0 /\ WindowHours \in Nat /\ WindowHours > 0
  BY UsageAssumption
<1>2. CurrentHour(t) \in Nat /\ CurrentHour(t + 1) \in Nat
  BY <1>1 DEF CurrentHour
<1>3. CurrentHour(t) <= CurrentHour(t + 1)
  BY <1>1 DEF CurrentHour
<1> QED
  BY <1>1, <1>2, <1>3

LEMMA TookFacts ==
    ASSUME NEW hist \in Seq(AnswerRecord), NEW p, NEW t \in Nat
    PROVE  /\ Lately(hist, p, t) \in SUBSET TookIn(hist, p)
           /\ TookIn(hist, p) \in SUBSET (DOMAIN hist)
           /\ \A h : /\ TookAt(hist, p, h) \in SUBSET (DOMAIN hist)
                     /\ Sum(Weight(hist), TookAt(hist, p, h)) \in Nat
           /\ \A i \in DOMAIN hist : HourIn(hist)[i] \in Nat
<1>1. TookIn(hist, p) \in SUBSET (DOMAIN hist)
  BY DEF TookIn, ServedIn
<1>2. \A h : TookAt(hist, p, h) \in SUBSET (DOMAIN hist)
  BY <1>1 DEF TookAt
<1>3. \A h : Sum(Weight(hist), TookAt(hist, p, h)) \in Nat
  BY <1>2, HistoryFacts, SumType
<1>4. ASSUME NEW i \in DOMAIN hist PROVE HourIn(hist)[i] \in Nat
  <2>1. hist[i].at \in Nat
    BY HistoryFacts DEF AnswerRecord
  <2> QED
    BY <2>1, HourFacts DEF HourIn
<1> QED
  BY <1>1, <1>2, <1>3, <1>4 DEF Lately

\* What the tracker reports is what the provider took in the hours of the window.
LEMMA TotalIs ==
    ASSUME NEW hist \in Seq(AnswerRecord), NEW p, NEW t \in Nat, NEW b, BucketsOf(b, hist, p, t)
    PROVE  UsageTotal(b, t) = Sum(Weight(hist), Lately(hist, p, t))
<1> DEFINE F == FreshHours(b, t)
           J == TookIn(hist, p)
           w == Weight(hist)
           v == [h \in DOMAIN b |-> b[h].tokens]
           u == [h \in F |-> Sum(w, {i \in J : HourIn(hist)[i] = h})]
           K == {i \in J : HourIn(hist)[i] \in F}
           L == Lately(hist, p, t)
<1>1. F \in SUBSET (DOMAIN b) /\ IsFiniteSet(F)
  <2>1. F \in SUBSET (DOMAIN b)
    BY DEF FreshHours
  <2> QED
    BY <2>1, FS_Subset DEF BucketsOf
<1>2. UsageTotal(b, t) = Sum(v, F)
  BY DEF UsageTotal, Sum
<1>3. Sum(v, F) = Sum(u, F)
  <2>1. \A h \in F : v[h] = u[h]
    BY <1>1 DEF BucketsOf, TookAt
  <2> HIDE DEF v, u, F
  <2> QED
    BY <1>1, <2>1, SumAgree
<1>4. \A I \in SUBSET (DOMAIN hist) : IsFiniteSet(I) /\ Weights(w, I)
  BY HistoryFacts
<1>5. J \in SUBSET (DOMAIN hist) /\ L \in SUBSET J /\ K \in SUBSET J
  BY TookFacts
<1>6. Sum(u, F) = Sum(w, K)
  <2>1. Weights(w, J)
    BY <1>4, <1>5
  <2> HIDE DEF F, J, w
  <2> QED
    BY <1>1, <2>1, SumByBucket
<1>7. K \in SUBSET L /\ \A i \in L \ K : w[i] = 0
  BY DEF BucketsOf, Lately, FreshHours
<1>8. Sum(w, L) = Sum(w, K) + Sum(w, L \ K)
  <2>1. Weights(w, K \cup (L \ K)) /\ K \cup (L \ K) = L /\ K \cap (L \ K) = {}
    <3> HIDE DEF K, L, J, w
    <3> QED
      BY <1>4, <1>5, <1>7
  <2> HIDE DEF K, L, w
  <2>2. Sum(w, K \cup (L \ K)) = Sum(w, K) + Sum(w, L \ K)
    BY <2>1, SumParts
  <2> QED
    BY <2>1, <2>2
<1>9. Sum(w, L \ K) = 0 /\ Sum(w, K) \in Nat
  <2> HIDE DEF K, L, J, w
  <2>1. L \ K \in SUBSET (DOMAIN hist) /\ K \in SUBSET (DOMAIN hist)
    BY <1>5
  <2>2. Sum(w, L \ K) = 0
    BY <1>4, <1>7, <2>1, SumZero
  <2> QED
    BY <1>4, <2>1, <2>2, SumType
<1> HIDE DEF F, J, w, v, u, K
<1> QED
  BY <1>2, <1>3, <1>6, <1>8, <1>9 DEF w

\* An answer of another provider, or without tokens, leaves the buckets right.
LEMMA BucketsKept ==
    ASSUME NEW hist \in Seq(AnswerRecord), NEW r \in AnswerRecord, NEW t \in Nat, r.at = t,
           NEW p, NEW b, BucketsOf(b, hist, p, t),
           \/ TokensIn(r) = 0
           \/ ~(r.kind = "served" /\ r.response # None /\ r.response.provider = p /\ ~r.cached)
    PROVE  BucketsOf(b, Append(hist, r), p, t)
<1> DEFINE bs == Append(hist, r)
           n == Len(hist) + 1
<1>1. /\ DOMAIN bs = DOMAIN hist \cup {n} /\ n \notin DOMAIN hist /\ bs[n] = r
      /\ \A i \in DOMAIN hist : bs[i] = hist[i] /\ Weight(bs)[i] = Weight(hist)[i]
      /\ Weight(bs)[n] = TokensIn(r)
  BY AddedFacts
<1>2. \A I \in SUBSET (DOMAIN hist) :
         /\ Sum(Weight(bs), I) = Sum(Weight(hist), I)
         /\ Sum(Weight(bs), I \cup {n}) = Sum(Weight(hist), I) + TokensIn(r)
  BY SumAdded
<1> HIDE DEF bs, n
<1>3. \A i \in DOMAIN hist : HourIn(bs)[i] = HourIn(hist)[i]
  BY <1>1 DEF HourIn
<1>4. \/ TookIn(bs, p) = TookIn(hist, p)
      \/ TookIn(bs, p) = TookIn(hist, p) \cup {n} /\ TokensIn(r) = 0
  BY <1>1 DEF TookIn, ServedIn
<1>5. ASSUME NEW h
      PROVE  \/ TookAt(bs, p, h) = TookAt(hist, p, h)
             \/ TookAt(bs, p, h) = TookAt(hist, p, h) \cup {n} /\ TokensIn(r) = 0
  <2>1. TookIn(hist, p) \in SUBSET (DOMAIN hist)
    BY TookFacts
  <2>2. CASE TookIn(bs, p) = TookIn(hist, p)
    BY <1>3, <2>1, <2>2 DEF TookAt
  <2>3. CASE TookIn(bs, p) = TookIn(hist, p) \cup {n} /\ TokensIn(r) = 0
    BY <1>3, <2>1, <2>3 DEF TookAt
  <2> QED
    BY <1>4, <2>2, <2>3
<1>6. ASSUME NEW h PROVE Sum(Weight(bs), TookAt(bs, p, h)) = Sum(Weight(hist), TookAt(hist, p, h))
  <2> DEFINE I == TookAt(hist, p, h)
             J == TookAt(bs, p, h)
  <2>1. I \in SUBSET (DOMAIN hist) /\ Sum(Weight(hist), I) \in Nat
    BY TookFacts
  <2>2. J = I \/ (J = I \cup {n} /\ TokensIn(r) = 0)
    BY <1>5
  <2> HIDE DEF I, J
  <2>3. CASE J = I
    BY <1>2, <2>1, <2>3 DEF I, J
  <2>4. CASE J = I \cup {n} /\ TokensIn(r) = 0
    BY <1>2, <2>1, <2>4 DEF I, J
  <2> QED
    BY <2>2, <2>3, <2>4
<1>7. \A i \in Lately(bs, p, t) : i \in Lately(hist, p, t) \/ Weight(bs)[i] = 0
  BY <1>1, <1>3, <1>4, TookFacts DEF Lately
<1>8. \A i \in Lately(hist, p, t) : i \in DOMAIN hist
  BY TookFacts
<1> QED
  BY <1>1, <1>3, <1>6, <1>7, <1>8 DEF BucketsOf, bs

\* record() counts an answer with tokens.
LEMMA BucketsAdded ==
    ASSUME NEW hist \in Seq(AnswerRecord), NEW r \in AnswerRecord, NEW t \in Nat, r.at = t,
           NEW p, NEW b, BucketsOf(b, hist, p, t),
           r.kind = "served", r.response # None, r.response.provider = p, ~r.cached,
           TokensIn(r) # 0
    PROVE  BucketsOf(RecordUsage(b, TokensIn(r), t), Append(hist, r), p, t)
<1> DEFINE bs == Append(hist, r)
           n == Len(hist) + 1
           cur == CurrentHour(t)
           fresh == FreshHours(b, t)
           d == RecordUsage(b, TokensIn(r), t)
           had == IF cur \in fresh THEN b[cur].tokens ELSE 0
<1>1. /\ DOMAIN bs = DOMAIN hist \cup {n} /\ n \notin DOMAIN hist /\ bs[n] = r
      /\ \A i \in DOMAIN hist : bs[i] = hist[i] /\ Weight(bs)[i] = Weight(hist)[i]
      /\ Weight(bs)[n] = TokensIn(r)
  BY AddedFacts
<1>2. \A I \in SUBSET (DOMAIN hist) :
         /\ Sum(Weight(bs), I) = Sum(Weight(hist), I)
         /\ Sum(Weight(bs), I \cup {n}) = Sum(Weight(hist), I) + TokensIn(r)
  BY SumAdded
<1>3. cur \in Nat /\ cur > cur - WindowHours
  BY HourFacts
<1>4. fresh \in SUBSET (DOMAIN b) /\ \A h \in DOMAIN b : h \in Nat
  BY DEF FreshHours, BucketsOf
<1>5. /\ DOMAIN d = fresh \cup {cur}
      /\ \A h \in fresh : h # cur => d[h] = b[h]
      /\ d[cur].tokens = had + TokensIn(r)
  BY DEF RecordUsage
<1>6. had = Sum(Weight(hist), TookAt(hist, p, cur))
  <2>1. CASE cur \in fresh
    BY <2>1 DEF BucketsOf
  <2>2. CASE cur \notin fresh
    <3>1. cur \notin DOMAIN b
      BY <1>3, <2>2 DEF FreshHours
    <3>2. \A i \in TookAt(hist, p, cur) : Weight(hist)[i] = 0
      BY <1>3, <3>1 DEF BucketsOf, TookAt, Lately
    <3>3. IsFiniteSet(TookAt(hist, p, cur))
      BY TookFacts, HistoryFacts
    <3>4. Sum(Weight(hist), TookAt(hist, p, cur)) = 0
      BY <3>2, <3>3, SumZero
    <3> QED
      BY <2>2, <3>4
  <2> QED
    BY <2>1, <2>2
<1> HIDE DEF bs, n, d, fresh, had
<1>7. \A i \in DOMAIN hist : HourIn(bs)[i] = HourIn(hist)[i]
  BY <1>1 DEF HourIn
<1>8. HourIn(bs)[n] = cur
  BY <1>1 DEF HourIn
<1> HIDE DEF cur
<1>9. TookIn(bs, p) = TookIn(hist, p) \cup {n} /\ TookIn(hist, p) \in SUBSET (DOMAIN hist)
  <2>1. TookIn(bs, p) = TookIn(hist, p) \cup {n}
    BY <1>1 DEF TookIn, ServedIn
  <2> QED
    BY <2>1, TookFacts
<1>10. \A h : TookAt(bs, p, h) = IF h = cur THEN TookAt(hist, p, h) \cup {n} ELSE TookAt(hist, p, h)
  BY <1>7, <1>8, <1>9 DEF TookAt
<1>11. \A h : Sum(Weight(bs), TookAt(bs, p, h)) =
                IF h = cur THEN Sum(Weight(hist), TookAt(hist, p, h)) + TokensIn(r)
                ELSE Sum(Weight(hist), TookAt(hist, p, h))
  <2> SUFFICES ASSUME NEW h
               PROVE  Sum(Weight(bs), TookAt(bs, p, h)) =
                         IF h = cur THEN Sum(Weight(hist), TookAt(hist, p, h)) + TokensIn(r)
                         ELSE Sum(Weight(hist), TookAt(hist, p, h))
    OBVIOUS
  <2>1. TookAt(hist, p, h) \in SUBSET (DOMAIN hist)
    BY TookFacts
  <2>2. CASE h = cur
    <3>1. TookAt(bs, p, h) = TookAt(hist, p, h) \cup {n}
      BY <1>10, <2>2
    <3>2. Sum(Weight(bs), TookAt(hist, p, h) \cup {n}) = Sum(Weight(hist), TookAt(hist, p, h)) + TokensIn(r)
      BY <1>2, <2>1
    <3> QED
      BY <2>2, <3>1, <3>2
  <2>3. CASE h # cur
    <3>1. TookAt(bs, p, h) = TookAt(hist, p, h)
      BY <1>10, <2>3
    <3> QED
      BY <1>2, <2>1, <2>3, <3>1
  <2> QED
    BY <2>2, <2>3
<1>12. IsFiniteSet(DOMAIN d) /\ \A h \in DOMAIN d : h \in Nat
  <2>1. IsFiniteSet(fresh)
    BY <1>4, FS_Subset DEF BucketsOf
  <2> QED
    BY <1>3, <1>4, <1>5, <2>1, FS_AddElement
<1>13. \A h \in FreshHours(d, t) : d[h].tokens = Sum(Weight(bs), TookAt(bs, p, h))
  <2>1. \A h \in fresh : b[h].tokens = Sum(Weight(hist), TookAt(hist, p, h))
    BY DEF BucketsOf, fresh
  <2>2. FreshHours(d, t) \in SUBSET (DOMAIN d)
    BY DEF FreshHours
  <2> QED
    BY <1>5, <1>6, <1>11, <2>1, <2>2
<1>14. \A i \in Lately(bs, p, t) : Weight(bs)[i] # 0 => HourIn(bs)[i] \in DOMAIN d
  <2>1. SUFFICES ASSUME NEW i \in Lately(bs, p, t), Weight(bs)[i] # 0, i # n
                 PROVE  HourIn(bs)[i] \in DOMAIN d
    BY <1>5, <1>8
  <2>2. i \in Lately(hist, p, t) /\ i \in DOMAIN hist /\ Weight(hist)[i] # 0
    BY <1>1, <1>7, <1>9, <2>1 DEF Lately
  <2>3. HourIn(hist)[i] \in fresh
    BY <2>2 DEF BucketsOf, fresh, FreshHours, Lately
  <2> QED
    BY <1>5, <1>7, <2>2, <2>3
<1> QED
  BY <1>12, <1>13, <1>14 DEF BucketsOf, bs, d

\* Time only takes hours out of the window.
LEMMA BucketsAge ==
    ASSUME NEW hist \in Seq(AnswerRecord), NEW t \in Nat, NEW p, NEW b, BucketsOf(b, hist, p, t)
    PROVE  BucketsOf(b, hist, p, t + 1)
<1> DEFINE c == CurrentHour(t)
           e == CurrentHour(t + 1)
<1>1. c \in Nat /\ e \in Nat /\ c <= e /\ WindowHours \in Nat
  BY HourFacts, UsageAssumption
<1>2. \A h \in DOMAIN b : h \in Nat
  BY DEF BucketsOf
<1> HIDE DEF c, e
<1>3. \A h \in Nat : h > e - WindowHours => h > c - WindowHours
  BY <1>1
<1>4. FreshHours(b, t + 1) \in SUBSET FreshHours(b, t)
  BY <1>2, <1>3 DEF FreshHours, c, e
<1>5. Lately(hist, p, t + 1) \in SUBSET Lately(hist, p, t)
  BY <1>3, TookFacts DEF Lately, c, e
<1> QED
  BY <1>4, <1>5 DEF BucketsOf

-----------------------------------------------------------------------------
(* The cache.                                                              *)

\* A map of at most MaxEntries contents
IsCache(q) ==
    /\ q \in Seq(Entries)
    /\ Len(q) <= MaxEntries
    /\ \A i, j \in DOMAIN q : q[i].key = q[j].key => i = j

\* Every entry of q is one of r's
From(q, r) == \A i \in DOMAIN q : \E j \in DOMAIN r : q[i] = r[j]

LEMMA KeysCount ==
    ASSUME NEW q, IsCache(q)
    PROVE  Cardinality(Stored(q)) = Len(q)
<1> DEFINE D == DOMAIN q
           w == [x \in D |-> 0]
           v == [x \in Stored(q) |-> 0]
           f == [i \in D |-> q[i].key]
<1>1. D = 1 .. Len(q) /\ Len(q) \in Nat /\ IsFiniteSet(D) /\ Cardinality(D) = Len(q)
  BY FS_Interval DEF IsCache
<1>2. Weights(w, D)
  BY <1>1 DEF Weights
<1>3. /\ \A x, y \in D : f[x] = f[y] => x = y
      /\ \A x \in D : v[f[x]] = w[x]
  BY DEF IsCache, Stored
<1>4. Stored(q) = {f[x] : x \in D}
  BY DEF Stored
<1> HIDE DEF D, w, v, f
<1>5. Cardinality(Stored(q)) = Cardinality(D)
  BY ONLY <1>2, <1>3, <1>4, SumRenamed
<1> QED
  BY <1>1, <1>5

LEMMA RemoveFacts ==
    ASSUME NEW S, NEW s \in Seq(S), NEW p \in DOMAIN s
    PROVE  LET r == RemoveAt(s, p)
           IN  /\ r \in Seq(S) /\ Len(r) = Len(s) - 1
               /\ \A k \in 1 .. Len(s) - 1 : r[k] = IF k < p THEN s[k] ELSE s[k + 1]
<1> DEFINE a == SubSeq(s, 1, p - 1)
           c == SubSeq(s, p + 1, Len(s))
<1>1. p \in 1 .. Len(s) /\ Len(s) \in Nat /\ \A i \in 1 .. Len(s) : s[i] \in S
  BY ElementOfSeq
<1>2. a \in Seq(S) /\ Len(a) = p - 1 /\ \A i \in 1 .. p - 1 : a[i] = s[i]
  <2>1. 1 \in Int /\ p - 1 \in Int /\ \A i \in 1 .. p - 1 : s[i] \in S
    BY <1>1
  <2>2. /\ a \in Seq(S) /\ Len(a) = (IF 1 <= p - 1 THEN p - 1 - 1 + 1 ELSE 0)
        /\ \A i \in 1 .. p - 1 - 1 + 1 : a[i] = s[1 + i - 1]
    BY <2>1, SubSeqProperties
  <2> HIDE DEF a
  <2> QED
    BY <1>1, <2>2
<1>3. c \in Seq(S) /\ Len(c) = Len(s) - p /\ \A i \in 1 .. Len(s) - p : c[i] = s[p + i]
  <2>1. p + 1 \in Int /\ Len(s) \in Int /\ \A i \in p + 1 .. Len(s) : s[i] \in S
    BY <1>1
  <2>2. /\ c \in Seq(S) /\ Len(c) = (IF p + 1 <= Len(s) THEN Len(s) - (p + 1) + 1 ELSE 0)
        /\ \A i \in 1 .. Len(s) - (p + 1) + 1 : c[i] = s[p + 1 + i - 1]
    BY <2>1, SubSeqProperties
  <2> HIDE DEF c
  <2> QED
    BY <1>1, <2>2
<1>4. RemoveAt(s, p) = a \o c
  BY DEF RemoveAt
<1> HIDE DEF a, c
<1>5. /\ a \o c \in Seq(S) /\ Len(a \o c) = Len(a) + Len(c)
      /\ \A i \in 1 .. Len(a) + Len(c) : (a \o c)[i] = IF i <= Len(a) THEN a[i] ELSE c[i - Len(a)]
  BY <1>2, <1>3, ConcatProperties
<1> DEFINE r == a \o c
<1> HIDE DEF r
<1>6. ASSUME NEW k \in 1 .. Len(s) - 1 PROVE r[k] = IF k < p THEN s[k] ELSE s[k + 1]
  <2>1. k \in 1 .. Len(a) + Len(c)
    BY <1>1, <1>2, <1>3
  <2>2. CASE k < p
    <3>1. k <= Len(a) /\ k \in 1 .. p - 1
      BY <1>1, <1>2, <2>2
    <3> QED
      BY <1>2, <1>5, <2>1, <2>2, <3>1 DEF r
  <2>3. CASE ~(k < p)
    <3>1. ~(k <= Len(a)) /\ k - Len(a) \in 1 .. Len(s) - p /\ p + (k - Len(a)) = k + 1
      BY <1>1, <1>2, <2>3
    <3> QED
      BY <1>3, <1>5, <2>1, <2>3, <3>1 DEF r
  <2> QED
    BY <2>2, <2>3
<1>7. r \in Seq(S) /\ Len(r) = Len(s) - 1
  BY <1>1, <1>2, <1>3, <1>5 DEF r
<1> QED
  BY <1>4, <1>6, <1>7 DEF r

LEMMA PlaceFacts ==
    ASSUME NEW q, NEW key \in Stored(q)
    PROVE  /\ PlaceOf(q, key) \in DOMAIN q /\ q[PlaceOf(q, key)].key = key
           /\ Entry(q, key) = q[PlaceOf(q, key)]
  BY DEF Stored, PlaceOf, Entry

LEMMA WithoutFacts ==
    ASSUME NEW q, IsCache(q), NEW key
    PROVE  LET r == Without(q, key)
           IN  /\ IsCache(r) /\ From(r, q)
               /\ \A i \in DOMAIN r : r[i].key # key
               /\ key \in Stored(q) => Len(r) = Len(q) - 1
<1>1. q \in Seq(Entries) /\ DOMAIN q = 1 .. Len(q) /\ Len(q) \in Nat
  BY DEF IsCache
<1>2. CASE key \notin Stored(q)
  <2>1. Without(q, key) = q /\ \A i \in DOMAIN q : q[i].key # key
    BY <1>2 DEF Without, Stored
  <2> QED
    BY <1>2, <2>1 DEF From
<1>3. CASE key \in Stored(q)
  <2> DEFINE p == PlaceOf(q, key)
             r == RemoveAt(q, p)
             n == Len(q)
  <2>1. p \in 1 .. n /\ q[p].key = key
    BY <1>1, <1>3, PlaceFacts
  <2>2. Without(q, key) = r
    BY <1>3 DEF Without
  <2> HIDE DEF p
  <2>3. /\ r \in Seq(Entries) /\ Len(r) = n - 1
        /\ \A k \in 1 .. n - 1 : r[k] = IF k < p THEN q[k] ELSE q[k + 1]
    BY <1>1, <2>1, RemoveFacts
  <2> HIDE DEF r
  <2>4. DOMAIN r = 1 .. n - 1
    BY <1>1, <2>3
  <2> DEFINE at(k) == IF k < p THEN k ELSE k + 1
  <2>5. \A k \in DOMAIN r : at(k) \in 1 .. n /\ at(k) # p /\ r[k] = q[at(k)]
    BY <1>1, <2>1, <2>3, <2>4
  <2>6. \A k, m \in DOMAIN r : at(k) = at(m) => k = m
    BY <1>1, <2>1, <2>4
  <2> HIDE DEF at
  <2>7. \A i, j \in 1 .. n : q[i].key = q[j].key => i = j
    BY <1>1 DEF IsCache
  <2>8. \A k \in DOMAIN r : r[k].key # key
    BY <2>1, <2>5, <2>7
  <2>9. \A k, m \in DOMAIN r : r[k].key = r[m].key => k = m
    BY <2>5, <2>6, <2>7
  <2>10. From(r, q)
    BY <1>1, <2>5 DEF From
  <2>11. IsCache(r)
    <3>1. MaxEntries \in Nat /\ n <= MaxEntries
      BY CacheAssumption DEF IsCache
    <3> QED
      BY <1>1, <2>3, <2>9, <3>1 DEF IsCache
  <2> QED
    BY <2>2, <2>3, <2>8, <2>10, <2>11
<1> QED
  BY <1>2, <1>3

\* What is appended is the newest entry.
LEMMA AppendFacts ==
    ASSUME NEW q, IsCache(q), Len(q) < MaxEntries, NEW e \in Entries,
           \A i \in DOMAIN q : q[i].key # e.key
    PROVE  LET r == Append(q, e)
           IN  IsCache(r) /\ \A i \in DOMAIN r : r[i] = e \/ \E j \in DOMAIN q : r[i] = q[j]
<1> DEFINE r == Append(q, e)
<1>1. q \in Seq(Entries) /\ DOMAIN q = 1 .. Len(q) /\ Len(q) \in Nat
  BY DEF IsCache
<1>2. /\ r \in Seq(Entries) /\ Len(r) = Len(q) + 1
      /\ \A i \in 1 .. Len(q) : r[i] = q[i]
      /\ r[Len(q) + 1] = e
  BY <1>1, AppendProperties
<1> HIDE DEF r
<1>3. DOMAIN r = 1 .. Len(q) + 1
  BY <1>1, <1>2
<1>4. \A i \in DOMAIN r : i \in 1 .. Len(q) \/ i = Len(q) + 1
  BY <1>1, <1>3
<1>5. \A i, j \in DOMAIN r : r[i].key = r[j].key => i = j
  BY <1>1, <1>2, <1>4 DEF IsCache
<1>6. \A i \in DOMAIN r : r[i] = e \/ \E j \in DOMAIN q : r[i] = q[j]
  BY <1>1, <1>2, <1>4
<1>7. Len(r) <= MaxEntries
  BY <1>1, <1>2, CacheAssumption
<1> QED
  BY <1>2, <1>5, <1>6, <1>7 DEF IsCache, r

\* get() reorders or drops entries.
LEMMA GetFacts ==
    ASSUME NEW q, IsCache(q), NEW key, NEW t
    PROVE  IsCache(AfterGet(q, key, t)) /\ From(AfterGet(q, key, t), q)
<1> DEFINE r == Without(q, key)
<1>1. /\ IsCache(r) /\ From(r, q)
      /\ \A i \in DOMAIN r : r[i].key # key
      /\ key \in Stored(q) => Len(r) = Len(q) - 1
  BY WithoutFacts
<1> HIDE DEF r
<1>2. CASE ~Hit(q, key, t)
  BY <1>1, <1>2 DEF AfterGet, r
<1>3. CASE Hit(q, key, t)
  <2> DEFINE e == Entry(q, key)
  <2>1. key \in Stored(q)
    BY <1>3 DEF Hit
  <2>2. /\ \E j \in DOMAIN q : e = q[j]
        /\ e.key = key
    BY <2>1, PlaceFacts
  <2>3. e \in Entries
    <3>1. q \in Seq(Entries) /\ DOMAIN q = 1 .. Len(q)
      BY DEF IsCache
    <3> QED
      BY <2>2, <3>1, ElementOfSeq
  <2>4. Len(r) < MaxEntries
    <3>1. Len(q) \in Nat /\ Len(q) <= MaxEntries /\ MaxEntries \in Nat
      BY CacheAssumption DEF IsCache
    <3> QED
      BY <1>1, <2>1, <3>1
  <2>5. AfterGet(q, key, t) = Append(r, e)
    BY <1>3 DEF AfterGet, r
  <2> HIDE DEF e
  <2>6. /\ IsCache(Append(r, e))
        /\ \A i \in DOMAIN Append(r, e) : Append(r, e)[i] = e \/ \E j \in DOMAIN r : Append(r, e)[i] = r[j]
    BY <1>1, <2>2, <2>3, <2>4, AppendFacts
  <2> QED
    BY <1>1, <2>2, <2>5, <2>6 DEF From
<1> QED
  BY <1>2, <1>3

\* set() leaves the new entry and entries of other contents.
LEMMA SetFacts ==
    ASSUME NEW q, IsCache(q), NEW key \in Contents, NEW value \in Response, NEW t \in Nat
    PROVE  LET r == AfterSet(q, key, value, t)
               e == [key |-> key, value |-> value, expiresAt |-> t + Ttl]
           IN  /\ IsCache(r)
               /\ \A i \in DOMAIN r :
                     \/ r[i] = e
                     \/ r[i].key # key /\ \E j \in DOMAIN q : r[i] = q[j]
<1> DEFINE r == AfterSet(q, key, value, t)
           e == [key |-> key, value |-> value, expiresAt |-> t + Ttl]
<1>1. q \in Seq(Entries) /\ DOMAIN q = 1 .. Len(q) /\ Len(q) \in Nat
  BY DEF IsCache
<1>2. e \in Entries /\ e.key = key
  BY CacheAssumption DEF Entries
<1>3. CASE key \in Stored(q)
  <2>1. r = [i \in 1 .. Len(q) |-> IF q[i].key = key THEN e ELSE q[i]]
    BY <1>1, <1>3 DEF AfterSet
  <2> HIDE DEF e
  <2>2. DOMAIN r = 1 .. Len(q) /\ \A i \in 1 .. Len(q) : r[i] = IF q[i].key = key THEN e ELSE q[i]
    BY <2>1
  <2>3. r \in Seq(Entries) /\ Len(r) = Len(q)
    <3>1. \A i \in 1 .. Len(q) : r[i] \in Entries
      BY <1>1, <1>2, <2>2, ElementOfSeq
    <3>2. r \in [1 .. Len(q) -> Entries]
      BY <2>1, <2>2, <3>1
    <3> HIDE DEF r
    <3> QED
      BY <1>1, <3>2
  <2>4. \A i \in DOMAIN r : r[i].key = q[i].key
    BY <1>2, <2>2
  <2> HIDE DEF r
  <2>5. IsCache(r)
    BY <1>1, <2>2, <2>3, <2>4 DEF IsCache
  <2>6. \A i \in DOMAIN r : r[i] = e \/ (r[i].key # key /\ \E j \in DOMAIN q : r[i] = q[j])
    BY <1>1, <2>2
  <2> QED
    BY <2>5, <2>6 DEF r, e
<1>4. CASE key \notin Stored(q)
  <2> DEFINE rest == IF Len(q) >= MaxEntries THEN Tail(q) ELSE q
  <2>1. r = Append(rest, e)
    BY <1>4 DEF AfterSet
  <2>2. IsCache(rest) /\ From(rest, q) /\ Len(rest) < MaxEntries
    <3>1. MaxEntries \in Nat /\ MaxEntries >= 1 /\ Len(q) <= MaxEntries
      BY CacheAssumption DEF IsCache
    <3>2. CASE Len(q) >= MaxEntries
      <4> DEFINE tl == Tail(q)
      <4>1. q # <<>>
        BY <1>1, <3>1, <3>2
      <4>2. tl \in Seq(Entries) /\ Len(tl) = Len(q) - 1 /\ \A i \in 1 .. Len(tl) : tl[i] = q[i + 1]
        BY <1>1, <4>1, HeadTailProperties
      <4>3. rest = tl
        BY <3>2
      <4> HIDE DEF tl, rest
      <4>4. DOMAIN tl = 1 .. Len(q) - 1
        BY <1>1, <4>2
      <4>5. \A i \in DOMAIN tl : i + 1 \in DOMAIN q /\ tl[i] = q[i + 1]
        BY <1>1, <4>2, <4>4
      <4>6. \A i, j \in DOMAIN tl : tl[i].key = tl[j].key => i = j
        <5>1. \A i, j \in DOMAIN tl : i + 1 = j + 1 => i = j
          BY <1>1, <4>4
        <5> QED
          BY <4>5, <5>1 DEF IsCache
      <4>7. Len(tl) < MaxEntries
        BY <1>1, <3>1, <4>2
      <4>8. Len(tl) <= MaxEntries
        BY <1>1, <3>1, <4>2
      <4> QED
        BY <4>2, <4>3, <4>5, <4>6, <4>7, <4>8 DEF IsCache, From
    <3>3. CASE ~(Len(q) >= MaxEntries)
      BY <1>1, <3>1, <3>3 DEF From
    <3> QED
      BY <3>2, <3>3
  <2> HIDE DEF rest, e
  <2>3. \A i \in DOMAIN q : q[i].key # key
    BY <1>4 DEF Stored
  <2>4. \A i \in DOMAIN rest : rest[i].key # e.key
    BY <1>2, <2>2, <2>3 DEF From
  <2>5. IsCache(r) /\ \A i \in DOMAIN r : r[i] = e \/ \E j \in DOMAIN rest : r[i] = rest[j]
    BY <1>2, <2>1, <2>2, <2>4, AppendFacts
  <2> HIDE DEF r
  <2>6. \A i \in DOMAIN r : r[i] = e \/ (r[i].key # key /\ \E j \in DOMAIN q : r[i] = q[j])
    BY <1>2, <2>2, <2>4, <2>5 DEF From
  <2> QED
    BY <2>5, <2>6 DEF r, e
<1> QED
  BY <1>3, <1>4

-----------------------------------------------------------------------------
(* What was stored, and what was served from it.                           *)

\* The answers to a content that were stored, or served again
UsesIn(hist, c) == {i \in ServedIn(hist) : /\ hist[i].ask.content = c
                                           /\ ~hist[i].ask.stream
                                           /\ ~hist[i].response.truncated}

\* j is the answer stored last for c before the n-th.
LastUse(hist, j, n, c) ==
    /\ j \in UsesIn(hist, c) /\ j < n /\ ~hist[j].cached
    /\ \A k \in UsesIn(hist, c) : j < k /\ k < n => hist[k].cached

\* Every entry is the answer stored last for its content.
EntryOf(e, hist) ==
    /\ e.expiresAt = e.value.at + Ttl
    /\ \E j \in DOMAIN hist : /\ LastUse(hist, j, Len(hist) + 1, e.key)
                              /\ hist[j].response = e.value

CacheOf(q, hist) == IsCache(q) /\ \A i \in DOMAIN q : EntryOf(q[i], hist)

\* So is every cached answer, for the time it was given.
FromCache(hist, i) ==
    /\ \E j \in DOMAIN hist : /\ LastUse(hist, j, i, hist[i].ask.content)
                              /\ hist[j].response = hist[i].response
    /\ hist[i].at - hist[i].response.at <= Ttl
    /\ ~hist[i].ask.strict /\ ~hist[i].ask.stream

CachedOf(hist) == \A i \in DOMAIN hist : hist[i].cached => FromCache(hist, i)

LEMMA UsesAdded ==
    ASSUME NEW hist \in Seq(AnswerRecord), NEW r \in AnswerRecord, NEW c
    PROVE  LET bs == Append(hist, r)
               n  == Len(hist) + 1
               stores == /\ r.kind = "served" /\ r.ask.content = c
                         /\ ~r.ask.stream /\ ~r.response.truncated
           IN  /\ \A j, m \in DOMAIN bs : LastUse(hist, j, m, c) => LastUse(bs, j, m, c)
               /\ \A j \in DOMAIN hist :
                     LastUse(hist, j, n, c) /\ (stores => r.cached) => LastUse(bs, j, n + 1, c)
               /\ stores /\ ~r.cached => LastUse(bs, n, n + 1, c)
<1> DEFINE bs == Append(hist, r)
           n == Len(hist) + 1
           stores == /\ r.kind = "served" /\ r.ask.content = c
                     /\ ~r.ask.stream /\ ~r.response.truncated
<1>1. /\ Len(bs) = n /\ DOMAIN bs = DOMAIN hist \cup {n} /\ bs[n] = r
      /\ \A i \in DOMAIN hist : bs[i] = hist[i] /\ i < n
  BY AddedFacts
<1>2. DOMAIN hist = 1 .. Len(hist) /\ n \in Nat /\ \A i \in DOMAIN bs : i \in Nat /\ i <= n
  BY <1>1
<1> HIDE DEF bs, n
<1>3. UsesIn(bs, c) = UsesIn(hist, c) \cup (IF stores THEN {n} ELSE {})
  BY <1>1 DEF UsesIn, ServedIn
<1>4. UsesIn(hist, c) \in SUBSET (DOMAIN hist)
  BY DEF UsesIn, ServedIn
<1> HIDE DEF stores
<1>5. ASSUME NEW j \in DOMAIN bs, NEW m \in DOMAIN bs, LastUse(hist, j, m, c)
      PROVE  LastUse(bs, j, m, c)
  <2>1. j \in UsesIn(hist, c) /\ j < m /\ ~hist[j].cached /\ j \in DOMAIN hist
    BY <1>4, <1>5 DEF LastUse
  <2>2. ASSUME NEW k \in UsesIn(bs, c), j < k, k < m PROVE bs[k].cached
    <3>1. k # n
      BY <1>2, <2>2
    <3>2. k \in UsesIn(hist, c)
      BY <1>3, <3>1
    <3> QED
      BY <1>1, <1>4, <1>5, <2>2, <3>2 DEF LastUse
  <2> QED
    BY <1>1, <1>3, <2>1, <2>2 DEF LastUse
<1>6. ASSUME NEW j \in DOMAIN hist, LastUse(hist, j, n, c), stores => r.cached
      PROVE  LastUse(bs, j, n + 1, c)
  <2>1. j \in UsesIn(hist, c) /\ ~hist[j].cached
    BY <1>6 DEF LastUse
  <2>2. j < n + 1
    BY <1>1, <1>2
  <2>3. ASSUME NEW k \in UsesIn(bs, c), j < k PROVE bs[k].cached
    <3>1. CASE k = n
      BY <1>1, <1>3, <1>4, <1>6, <3>1
    <3>2. CASE k # n
      <4>1. k \in UsesIn(hist, c) /\ k < n
        BY <1>1, <1>3, <1>4, <3>2
      <4> QED
        BY <1>1, <1>4, <1>6, <2>3, <4>1 DEF LastUse
    <3> QED
      BY <3>1, <3>2
  <2> QED
    BY <1>1, <1>3, <2>1, <2>2, <2>3 DEF LastUse
<1>7. ASSUME stores, ~r.cached PROVE LastUse(bs, n, n + 1, c)
  <2>1. n \in UsesIn(bs, c) /\ ~bs[n].cached /\ n < n + 1
    BY <1>1, <1>2, <1>3, <1>7
  <2>2. \A k \in UsesIn(bs, c) : ~(n < k)
    BY <1>1, <1>2, <1>3, <1>4
  <2> QED
    BY <2>1, <2>2 DEF LastUse
<1> QED
  BY <1>5, <1>6, <1>7 DEF bs, n, stores

\* An entry stays right unless its content is stored again.
LEMMA EntryKept ==
    ASSUME NEW hist \in Seq(AnswerRecord), NEW r \in AnswerRecord,
           NEW e, EntryOf(e, hist),
           (r.kind = "served" /\ r.ask.content = e.key /\ ~r.ask.stream
               /\ ~r.response.truncated) => r.cached
    PROVE  EntryOf(e, Append(hist, r))
<1> DEFINE bs == Append(hist, r)
           n == Len(hist) + 1
<1>1. /\ Len(bs) = n /\ DOMAIN bs = DOMAIN hist \cup {n}
      /\ \A i \in DOMAIN hist : bs[i] = hist[i]
  BY AddedFacts
<1>2. PICK j \in DOMAIN hist : LastUse(hist, j, n, e.key) /\ hist[j].response = e.value
  BY DEF EntryOf
<1>3. LastUse(bs, j, n + 1, e.key)
  BY <1>2, UsesAdded
<1>4. bs[j].response = e.value /\ j \in DOMAIN bs
  BY <1>1, <1>2
<1>5. e.expiresAt = e.value.at + Ttl
  BY DEF EntryOf
<1> HIDE DEF bs, n
<1> QED
  BY <1>1, <1>3, <1>4, <1>5 DEF EntryOf, bs

\* What was served from the cache stays so, and what get() finds may be served.
LEMMA CachedAdded ==
    ASSUME NEW hist \in Seq(AnswerRecord), NEW r \in AnswerRecord, CachedOf(hist),
           r.cached =>
              /\ \E j \in DOMAIN hist : /\ LastUse(hist, j, Len(hist) + 1, r.ask.content)
                                        /\ hist[j].response = r.response
              /\ r.at - r.response.at <= Ttl
              /\ ~r.ask.strict /\ ~r.ask.stream
    PROVE  CachedOf(Append(hist, r))
<1> DEFINE bs == Append(hist, r)
           n == Len(hist) + 1
<1>1. /\ Len(bs) = n /\ DOMAIN bs = DOMAIN hist \cup {n} /\ bs[n] = r
      /\ \A i \in DOMAIN hist : bs[i] = hist[i]
  BY AddedFacts
<1>2. \A c : \A j, m \in DOMAIN bs : LastUse(hist, j, m, c) => LastUse(bs, j, m, c)
  BY UsesAdded
<1> HIDE DEF bs
<1>3. ASSUME NEW i \in DOMAIN hist, bs[i].cached PROVE FromCache(bs, i)
  <2>1. FromCache(hist, i) /\ bs[i] = hist[i]
    BY <1>1, <1>3 DEF CachedOf
  <2>2. PICK j \in DOMAIN hist : /\ LastUse(hist, j, i, hist[i].ask.content)
                                 /\ hist[j].response = hist[i].response
    BY <2>1 DEF FromCache
  <2>3. LastUse(bs, j, i, bs[i].ask.content) /\ bs[j].response = bs[i].response
    BY <1>1, <1>2, <2>1, <2>2
  <2> QED
    BY <1>1, <2>1, <2>3 DEF FromCache
<1>4. ASSUME r.cached PROVE FromCache(bs, n)
  <2>1. PICK j \in DOMAIN hist : /\ LastUse(hist, j, n, r.ask.content)
                                 /\ hist[j].response = r.response
    BY <1>4
  <2>2. LastUse(bs, j, n, bs[n].ask.content) /\ bs[j].response = bs[n].response
    BY <1>1, <1>2, <2>1
  <2> QED
    BY <1>1, <1>4, <2>2 DEF FromCache
<1> QED
  BY <1>1, <1>3, <1>4 DEF CachedOf, bs

\* An entry that get() finds is the answer stored last for the content, and no
\* older than Ttl.
LEMMA HitFacts ==
    ASSUME NEW hist \in Seq(AnswerRecord), NEW q, CacheOf(q, hist), NEW key, NEW t \in Nat,
           Hit(q, key, t)
    PROVE  LET value == Entry(q, key).value
           IN  /\ value \in Response /\ value # None
               /\ \E j \in DOMAIN hist : /\ LastUse(hist, j, Len(hist) + 1, key)
                                         /\ hist[j].response = value
               /\ t - value.at <= Ttl
<1> DEFINE e == Entry(q, key)
<1>1. key \in Stored(q) /\ t <= e.expiresAt
  BY DEF Hit
<1>2. PICK i \in DOMAIN q : e = q[i] /\ e.key = key
  BY <1>1, PlaceFacts
<1>3. e \in Entries
  <2>1. q \in Seq(Entries) /\ DOMAIN q = 1 .. Len(q)
    BY DEF CacheOf, IsCache
  <2> QED
    BY <1>2, <2>1, ElementOfSeq
<1>4. EntryOf(e, hist)
  BY <1>2 DEF CacheOf
<1> HIDE DEF e
<1>5. e.value \in Response /\ e.value # None /\ e.value.at \in Nat
  BY <1>3, CompletionAssumption DEF Entries, Response
<1>6. t - e.value.at <= Ttl
  <2>1. t <= e.value.at + Ttl /\ Ttl \in Nat
    BY <1>1, <1>4, CacheAssumption DEF EntryOf
  <2> QED
    BY <1>5, <2>1
<1> QED
  BY <1>2, <1>4, <1>5, <1>6 DEF EntryOf, e

\* The last use of a content before i is the only answer that uses of it between
\* i and an earlier use can repeat.
LEMMA LastOnly ==
    ASSUME NEW hist \in Seq(AnswerRecord), CachedOf(hist),
           NEW i \in DOMAIN hist, hist[i].cached,
           NEW j \in UsesIn(hist, hist[i].ask.content), j < i,
           \A k \in UsesIn(hist, hist[i].ask.content) : j < k /\ k < i => hist[k].cached
    PROVE  hist[i].response = hist[j].response
<1> DEFINE c == hist[i].ask.content
<1>1. \A k \in UsesIn(hist, c) : k \in DOMAIN hist /\ k \in Nat /\ hist[k].ask.content = c
  BY HistoryFacts DEF UsesIn, ServedIn
<1>2. PICK l \in DOMAIN hist : LastUse(hist, l, i, c) /\ hist[l].response = hist[i].response
  BY DEF CachedOf, FromCache
<1> HIDE DEF c
<1>3. l \in UsesIn(hist, c) /\ l < i /\ ~hist[l].cached
  BY <1>2 DEF LastUse
<1>4. ~(j < l)
  BY <1>3 DEF c
<1>5. CASE l = j
  BY <1>2, <1>5
<1>6. CASE l < j
  <2>1. j \in UsesIn(hist, c) /\ hist[j].ask.content = c
    BY <1>1 DEF c
  <2>2. hist[j].cached
    BY <1>2, <1>6, <2>1 DEF LastUse
  <2>3. PICK m \in DOMAIN hist : LastUse(hist, m, j, c) /\ hist[m].response = hist[j].response
    BY <1>1, <2>1, <2>2 DEF CachedOf, FromCache
  <2>4. m \in UsesIn(hist, c) /\ m < j /\ ~hist[m].cached
    BY <2>3 DEF LastUse
  <2>5. ~(l < m)
    <3>1. m < i
      BY <1>1, <2>1, <2>4, HistoryFacts
    <3> QED
      BY <1>2, <2>4, <3>1 DEF LastUse
  <2>6. ~(m < l)
    BY <1>3, <1>6, <2>3 DEF LastUse
  <2>7. l = m
    BY <1>1, <1>3, <2>4, <2>5, <2>6
  <2> QED
    BY <1>2, <2>3, <2>7
<1> QED
  BY <1>1, <1>3, <1>4, <1>5, <1>6 DEF c

-----------------------------------------------------------------------------
(* The inductive invariant.                                                *)

\* The log counts what was answered.
LogOf(l, hist) == l = [success |-> Cardinality(ServedIn(hist)),
                       failed  |-> Cardinality(FailedIn(hist))]

CompletionIInv ==
    /\ now \in 0 .. MaxTime
    /\ flight \in Flights
    /\ History(answers, now)
    /\ Counts(counter, answers, now)
    /\ CapsHeld(answers, now, Spare(flight))
    /\ DOMAIN usage = Providers
    /\ \A p \in Providers : BucketsOf(usage[p], answers, p, now)
    /\ CacheOf(cache, answers)
    /\ CachedOf(answers)
    /\ LogOf(log, answers)

LEMMA LogAdded ==
    ASSUME NEW hist \in Seq(AnswerRecord), NEW r \in AnswerRecord, NEW l, LogOf(l, hist)
    PROVE  /\ r.kind = "served" => LogOf([l EXCEPT !.success = @ + 1], Append(hist, r))
           /\ r.kind = "failed" => LogOf([l EXCEPT !.failed = @ + 1], Append(hist, r))
           /\ r.kind = "refused" => LogOf(l, Append(hist, r))
<1> DEFINE bs == Append(hist, r)
           n == Len(hist) + 1
<1>1. /\ DOMAIN bs = DOMAIN hist \cup {n} /\ n \notin DOMAIN hist /\ bs[n] = r
      /\ \A i \in DOMAIN hist : bs[i] = hist[i]
  BY AddedFacts
<1>2. ServedIn(hist) \in SUBSET (DOMAIN hist) /\ FailedIn(hist) \in SUBSET (DOMAIN hist)
  BY DEF ServedIn, FailedIn
<1>3. \A I \in SUBSET (DOMAIN hist) : Cardinality(I \cup {n}) = Cardinality(I) + 1
  BY SumAdded
<1> HIDE DEF bs, n
<1>4. CASE r.kind = "served"
  <2>1. ServedIn(bs) = ServedIn(hist) \cup {n} /\ FailedIn(bs) = FailedIn(hist)
    BY <1>1, <1>4 DEF ServedIn, FailedIn
  <2>2. Cardinality(ServedIn(bs)) = Cardinality(ServedIn(hist)) + 1
    BY <1>2, <1>3, <2>1
  <2> QED
    BY <1>4, <2>1, <2>2 DEF LogOf, bs
<1>5. CASE r.kind = "failed"
  <2>1. FailedIn(bs) = FailedIn(hist) \cup {n} /\ ServedIn(bs) = ServedIn(hist)
    BY <1>1, <1>5 DEF ServedIn, FailedIn
  <2>2. Cardinality(FailedIn(bs)) = Cardinality(FailedIn(hist)) + 1
    BY <1>2, <1>3, <2>1
  <2> QED
    BY <1>5, <2>1, <2>2 DEF LogOf, bs
<1>6. CASE r.kind = "refused"
  <2>1. FailedIn(bs) = FailedIn(hist) /\ ServedIn(bs) = ServedIn(hist)
    BY <1>1, <1>6 DEF ServedIn, FailedIn
  <2> QED
    BY <1>6, <2>1 DEF LogOf, bs
<1> QED
  BY <1>4, <1>5, <1>6 DEF AnswerRecord

\* What every answer has to see to.
LEMMA Answered ==
    ASSUME CompletionIInv, UNCHANGED now,
           NEW r \in AnswerRecord, r.at = now, Answers(r), answers' = Append(answers, r),
           /\ r.kind = "served" => LogSuccess
           /\ r.kind = "failed" => LogFailure
           /\ r.kind = "refused" => UNCHANGED log,
           IF r.kind = "served" /\ r.ask.keyed
           THEN counter' = Record(counter, TokensIn(r), now, Len(answers) + 1)
           ELSE counter' \in {counter, Prune(counter, now)},
           flight' \in Flights, CapsHeld(Append(answers, r), now, Spare(flight')),
           DOMAIN usage' = Providers,
           \A p \in Providers : BucketsOf(usage'[p], Append(answers, r), p, now),
           CacheOf(cache', Append(answers, r)),
           r.cached =>
              /\ \E j \in DOMAIN answers : /\ LastUse(answers, j, Len(answers) + 1, r.ask.content)
                                           /\ answers[j].response = r.response
              /\ r.at - r.response.at <= Ttl
              /\ ~r.ask.strict /\ ~r.ask.stream
    PROVE  CompletionIInv'
<1>1. /\ answers \in Seq(AnswerRecord) /\ now \in Nat
      /\ \A i \in DOMAIN answers : answers[i].at <= now /\ Answers(answers[i])
  BY CompletionAssumption DEF CompletionIInv, History
<1>2. History(Append(answers, r), now)
  <2> DEFINE bs == Append(answers, r)
             n == Len(answers) + 1
  <2>1. /\ bs \in Seq(AnswerRecord) /\ DOMAIN bs = DOMAIN answers \cup {n}
        /\ \A i \in DOMAIN answers : bs[i] = answers[i]
        /\ bs[n] = r
    BY <1>1, AddedFacts
  <2>2. r.at <= now
    BY <1>1
  <2> HIDE DEF bs, n
  <2>3. History(bs, now)
    BY <1>1, <2>1, <2>2 DEF History
  <2> QED
    BY <2>3 DEF bs
<1>3. Counts(counter', Append(answers, r), now)
  <2>1. Counts(counter, answers, now)
    BY DEF CompletionIInv
  <2>2. CASE r.kind = "served" /\ r.ask.keyed
    BY <1>1, <2>1, <2>2, CountsAdded
  <2>3. CASE ~(r.kind = "served" /\ r.ask.keyed)
    <3>1. counter' \in {counter, Prune(counter, now)}
      BY <2>3
    <3> QED
      BY <1>1, <2>1, <2>3, <3>1, CountsAdded
  <2> QED
    BY <2>2, <2>3
<1>4. CachedOf(Append(answers, r))
  <2>1. CachedOf(answers)
    BY DEF CompletionIInv
  <2> QED
    BY <1>1, <2>1, CachedAdded
<1>5. LogOf(log', Append(answers, r))
  <2>1. LogOf(log, answers)
    BY DEF CompletionIInv
  <2>2. r.kind \in {"served", "failed", "refused"}
    BY DEF AnswerRecord
  <2> QED
    BY <1>1, <2>1, <2>2, LogAdded DEF LogSuccess, LogFailure
<1> QED
  BY <1>2, <1>3, <1>4, <1>5 DEF CompletionIInv

\* The guard lets a keyed request through only below the caps.
LEMMA GuardedFacts ==
    ASSUME CompletionIInv, NEW a, a.keyed
    PROVE  /\ Guarded(a) => CapsOpen(answers, now)
           /\ ~Guarded(a) =>
                 \/ Expired(now) \/ a.content \notin Allowed
                 \/ RequestCap # None /\ Cardinality(ChargedIn(answers, now)) >= RequestCap
                 \/ TokenCap # None /\ Sum(Weight(answers), ChargedIn(answers, now)) >= TokenCap
<1>1. answers \in Seq(AnswerRecord) /\ now \in Nat /\ Counts(counter, answers, now)
  BY CompletionAssumption DEF CompletionIInv, History
<1>2. /\ Cardinality(Prune(counter, now)) = Cardinality(ChargedIn(answers, now))
      /\ TokensOf(Prune(counter, now)) = Sum(Weight(answers), ChargedIn(answers, now))
  BY <1>1, PruneFacts
<1>3. /\ Cardinality(ChargedIn(answers, now)) \in Nat
      /\ Sum(Weight(answers), ChargedIn(answers, now)) \in Nat
  BY <1>1, ChargedTypes
<1>4. CanServe(counter, now) <=>
         /\ RequestCap # None => Cardinality(ChargedIn(answers, now)) < RequestCap
         /\ TokenCap # None => Sum(Weight(answers), ChargedIn(answers, now)) < TokenCap
  BY <1>2 DEF CanServe
<1>5. CanServe(counter, now) => CapsOpen(answers, now)
  BY <1>3, <1>4, CapTypes DEF CapsOpen
<1>6. ~CanServe(counter, now) =>
         \/ RequestCap # None /\ Cardinality(ChargedIn(answers, now)) >= RequestCap
         \/ TokenCap # None /\ Sum(Weight(answers), ChargedIn(answers, now)) >= TokenCap
  BY <1>3, <1>4, CapTypes
<1> QED
  BY <1>5, <1>6 DEF Guarded

LEMMA InvInit == Init => CompletionIInv
<1> SUFFICES ASSUME Init PROVE CompletionIInv
  OBVIOUS
<1>1. answers = <<>> /\ answers \in Seq(AnswerRecord) /\ DOMAIN answers = {} /\ Len(answers) = 0
  BY DEF Init
<1>2. now = 0 /\ now \in 0 .. MaxTime
  BY CompletionAssumption DEF Init
<1>3. flight \in Flights
  BY DEF Init, Flights
<1>4. /\ ChargedIn(answers, now) = {} /\ ServedIn(answers) = {} /\ FailedIn(answers) = {}
      /\ \A p : TookIn(answers, p) = {}
  BY <1>1 DEF ChargedIn, KeyedIn, ServedIn, FailedIn, TookIn
<1>5. Cardinality({}) = 0 /\ IsFiniteSet({}) /\ Sum(Weight(answers), {}) = 0
  BY FS_EmptySet, SumOnce
<1>6. CapsHeld(answers, now, Spare(flight))
  <2>1. CapsOpen(answers, now)
    BY <1>4, <1>5, VirtualKeyAssumption DEF CapsOpen
  <2> QED
    BY <1>1, <1>3, <2>1, SpareFacts, OpenIsHeld
<1>7. Counts(counter, answers, now)
  BY <1>4 DEF Init, Counts
<1>8. DOMAIN usage = Providers /\ \A p \in Providers : BucketsOf(usage[p], answers, p, now)
  <2>1. DOMAIN usage = Providers /\ \A p \in Providers : DOMAIN usage[p] = {}
    BY DEF Init, NewBuckets
  <2> QED
    BY <1>4, <1>5, <2>1 DEF BucketsOf, FreshHours, Lately
<1>9. CacheOf(cache, answers)
  <2>1. cache = <<>> /\ cache \in Seq(Entries) /\ DOMAIN cache = {} /\ Len(cache) = 0
    BY DEF Init
  <2> QED
    BY <2>1, CacheAssumption DEF CacheOf, IsCache
<1>10. CachedOf(answers) /\ History(answers, now)
  BY <1>1 DEF CachedOf, History
<1>11. LogOf(log, answers)
  BY <1>4, <1>5 DEF Init, LogOf
<1> QED
  BY <1>2, <1>3, <1>6, <1>7, <1>8, <1>9, <1>10, <1>11 DEF CompletionIInv

-----------------------------------------------------------------------------
(* Every step keeps it.                                                    *)

LEMMA InvTypes ==
    ASSUME CompletionIInv
    PROVE  /\ answers \in Seq(AnswerRecord) /\ now \in Nat /\ flight \in Flights
           /\ Spare(flight) \in Nat /\ CapsHeld(answers, now, Spare(flight))
           /\ DOMAIN usage = Providers /\ CacheOf(cache, answers) /\ IsCache(cache)
           /\ None \notin Asks \cup Response
<1>1. now \in Nat
  BY CompletionAssumption DEF CompletionIInv
<1>2. flight \in Flights /\ CapsHeld(answers, now, Spare(flight)) /\ DOMAIN usage = Providers
  BY DEF CompletionIInv
<1>3. Spare(flight) \in Nat
  BY <1>2, SpareFacts
<1>4. answers \in Seq(AnswerRecord)
  BY DEF CompletionIInv, History
<1>5. CacheOf(cache, answers) /\ IsCache(cache)
  BY DEF CompletionIInv, CacheOf
<1> QED
  BY <1>1, <1>2, <1>3, <1>4, <1>5, CompletionAssumption

\* An answer that no provider gave with tokens leaves the usage right, and one
\* that stores nothing leaves the cache right.
LEMMA Untouched ==
    ASSUME CompletionIInv, NEW r \in AnswerRecord, r.at = now
    PROVE  /\ TokensIn(r) = 0 \/ r.cached =>
                 \A p \in Providers : BucketsOf(usage[p], Append(answers, r), p, now)
           /\ (r.kind = "served" /\ ~r.ask.stream /\ ~r.response.truncated => r.cached) =>
                 \A q : IsCache(q) /\ From(q, cache) => CacheOf(q, Append(answers, r))
<1>1. answers \in Seq(AnswerRecord) /\ now \in Nat
  BY InvTypes
<1>2. ASSUME TokensIn(r) = 0 \/ r.cached, NEW p \in Providers
      PROVE  BucketsOf(usage[p], Append(answers, r), p, now)
  <2>1. BucketsOf(usage[p], answers, p, now)
    BY DEF CompletionIInv
  <2> QED
    BY <1>1, <1>2, <2>1, BucketsKept
<1>3. ASSUME r.kind = "served" /\ ~r.ask.stream /\ ~r.response.truncated => r.cached,
             NEW q, IsCache(q), From(q, cache)
      PROVE  CacheOf(q, Append(answers, r))
  <2>1. \A i \in DOMAIN cache : EntryOf(cache[i], answers)
    BY DEF CompletionIInv, CacheOf
  <2>2. ASSUME NEW i \in DOMAIN cache PROVE EntryOf(cache[i], Append(answers, r))
    <3>1. (r.kind = "served" /\ r.ask.content = cache[i].key /\ ~r.ask.stream
              /\ ~r.response.truncated) => r.cached
      BY <1>3
    <3> QED
      BY <1>1, <2>1, <3>1, EntryKept
  <2> QED
    BY <1>3, <2>2 DEF CacheOf, From
<1> QED
  BY <1>2, <1>3

LEMMA RefuseKeeps ==
    ASSUME CompletionIInv, UNCHANGED now, NEW a \in Asks, Refuse(a)
    PROVE  CompletionIInv'
<1> DEFINE r == [kind |-> "refused", ask |-> a, response |-> None, cached |-> FALSE, at |-> now]
<1>1. answers' = Append(answers, r) /\ UNCHANGED <<cache, usage, log, flight>>
  BY DEF Refuse, Answer
<1>2. r \in AnswerRecord /\ r.at = now /\ r.kind = "refused" /\ TokensIn(r) = 0 /\ ~r.cached
  BY InvTypes DEF AnswerRecord, TokensIn
<1>3. Answers(r)
  BY DEF Answers
<1> HIDE DEF r
<1>4. counter' \in {counter, Prune(counter, now)}
  BY DEF Refuse, PrunedByGuard
<1>5. CapsHeld(Append(answers, r), now, Spare(flight))
  BY <1>2, InvTypes, ChargeKeepsCaps
<1>6. /\ \A p \in Providers : BucketsOf(usage[p], Append(answers, r), p, now)
      /\ CacheOf(cache, Append(answers, r))
  BY <1>2, InvTypes, Untouched DEF From
<1> QED
  BY <1>1, <1>2, <1>3, <1>4, <1>5, <1>6, InvTypes, Answered

LEMMA ServeCachedKeeps ==
    ASSUME CompletionIInv, UNCHANGED now, NEW a \in Asks, ServeCached(a),
           NEW s \in Slots, flight[s] = None
    PROVE  CompletionIInv'
<1> DEFINE value == Entry(cache, a.content).value
           r == [kind |-> "served", ask |-> a, response |-> value, cached |-> TRUE, at |-> now]
<1>1. /\ Guarded(a) /\ AsksCache(a) /\ Hit(cache, a.content, now)
      /\ answers' = Append(answers, r) /\ LogSuccess /\ UNCHANGED <<usage, flight>>
      /\ counter' = IF a.keyed THEN Record(counter, value.tokens, now, Len(answers) + 1) ELSE counter
  BY DEF ServeCached, Answer, Charge
<1>2. cache' = AfterGet(cache, a.content, now)
  BY DEF ServeCached
<1>3. /\ value \in Response /\ value # None
      /\ \E j \in DOMAIN answers : /\ LastUse(answers, j, Len(answers) + 1, a.content)
                                   /\ answers[j].response = value
      /\ now - value.at <= Ttl
  BY <1>1, InvTypes, HitFacts
<1> HIDE DEF value
<1>4. /\ r \in AnswerRecord /\ r.at = now /\ r.kind = "served" /\ r.cached /\ r.ask = a
      /\ r.response = value /\ TokensIn(r) = value.tokens
  <2>1. r \in AnswerRecord
    BY <1>3, InvTypes DEF AnswerRecord
  <2> QED
    BY <1>3, <2>1 DEF TokensIn
<1> HIDE DEF r
<1>5. ~a.strict /\ ~a.stream
  BY <1>1 DEF AsksCache
<1>6. Answers(r)
  <2>1. PICK j \in DOMAIN answers : j \in UsesIn(answers, a.content) /\ answers[j].response = value
    BY <1>3 DEF LastUse
  <2>2. Answers(answers[j])
    BY DEF CompletionIInv, History
  <2>3. answers[j].ask.content = a.content
    BY <2>1 DEF UsesIn
  <2> QED
    BY <1>3, <1>4, <1>5, <2>1, <2>2, <2>3 DEF Answers
<1>7. CapsHeld(Append(answers, r), now, Spare(flight))
  <2>1. CASE a.keyed
    <3>1. CapsOpen(answers, now)
      BY <1>1, <2>1, GuardedFacts
    <3>2. Spare(flight) >= 1
      BY InvTypes, SpareFacts
    <3> QED
      BY <1>4, <3>1, <3>2, InvTypes, ChargeKeepsCaps
  <2>2. CASE ~a.keyed
    BY <1>4, <2>2, InvTypes, ChargeKeepsCaps
  <2> QED
    BY <2>1, <2>2
<1>8. \A p \in Providers : BucketsOf(usage[p], Append(answers, r), p, now)
  BY <1>4, Untouched
<1>9. CacheOf(cache', Append(answers, r))
  BY <1>2, <1>4, InvTypes, GetFacts, Untouched
<1>10. IF r.kind = "served" /\ r.ask.keyed
       THEN counter' = Record(counter, TokensIn(r), now, Len(answers) + 1)
       ELSE counter' \in {counter, Prune(counter, now)}
  BY <1>1, <1>4
<1>11. r.at - r.response.at <= Ttl /\ ~r.ask.strict /\ ~r.ask.stream
  BY <1>3, <1>4, <1>5
<1>12. /\ r.kind = "failed" => LogFailure
       /\ r.kind = "refused" => UNCHANGED log
  BY <1>4
<1>13. /\ flight' \in Flights /\ CapsHeld(Append(answers, r), now, Spare(flight'))
       /\ DOMAIN usage' = Providers
       /\ \A p \in Providers : BucketsOf(usage'[p], Append(answers, r), p, now)
  BY <1>1, <1>7, <1>8, InvTypes
<1> QED
  BY <1>1, <1>3, <1>4, <1>6, <1>9, <1>10, <1>11, <1>12, <1>13, Answered

LEMMA StartRoutingKeeps ==
    ASSUME CompletionIInv, UNCHANGED now, NEW a \in Asks, NEW s \in Slots, flight[s] = None,
           StartRouting(s, a)
    PROVE  CompletionIInv'
<1>1. /\ answers \in Seq(AnswerRecord) /\ now \in Nat /\ flight \in Flights
      /\ Counts(counter, answers, now)
  BY InvTypes DEF CompletionIInv
<1>2. /\ flight' = [flight EXCEPT ![s] = a] /\ UNCHANGED <<usage, log, answers>>
      /\ counter' \in {counter, Prune(counter, now)}
      /\ cache' \in {cache, AfterGet(cache, a.content, now)}
      /\ Guarded(a)
  BY DEF StartRouting, PrunedByGuard
<1>3. flight' \in Flights
  BY <1>1, <1>2 DEF Flights
<1>4. Counts(counter', answers, now)
  BY <1>1, <1>2, PruneFacts
<1>5. CapsHeld(answers, now, Spare(flight'))
  <2>1. Spare(flight') \in Nat
    BY <1>3, SpareFacts
  <2>2. CASE a.keyed
    <3>1. CapsOpen(answers, now)
      BY <1>2, <2>2, GuardedFacts
    <3> QED
      BY <1>1, <2>1, <3>1, OpenIsHeld
  <2>3. CASE ~a.keyed
    <3>1. Spare([flight EXCEPT ![s] = a]) = IF a.keyed THEN Spare(flight) - 1 ELSE Spare(flight)
      BY <1>1, SpareFacts
    <3>2. Spare(flight') = Spare(flight)
      BY <1>2, <2>3, <3>1
    <3> QED
      BY <3>2, InvTypes
  <2> QED
    BY <2>2, <2>3
<1>6. CacheOf(cache', answers)
  <2>1. IsCache(cache') /\ From(cache', cache)
    BY <1>2, InvTypes, GetFacts DEF From
  <2> QED
    BY <2>1, InvTypes DEF CacheOf, From
<1> QED
  BY <1>2, <1>3, <1>4, <1>5, <1>6 DEF CompletionIInv

LEMMA FailKeeps ==
    ASSUME CompletionIInv, NEW s \in Slots, Fail(s)
    PROVE  CompletionIInv'
<1> DEFINE a == flight[s]
           r == [kind |-> "failed", ask |-> a, response |-> None, cached |-> FALSE, at |-> now]
<1>1. /\ a # None /\ answers' = Append(answers, r) /\ LogFailure
      /\ flight' = [flight EXCEPT ![s] = None] /\ UNCHANGED <<now, cache, counter, usage>>
  BY DEF Fail, Answer
<1>2. a \in Asks
  BY <1>1, InvTypes DEF Flights
<1> HIDE DEF a
<1>3. r \in AnswerRecord /\ r.at = now /\ r.kind = "failed" /\ TokensIn(r) = 0 /\ ~r.cached
  <2>1. r \in AnswerRecord
    BY <1>2, InvTypes DEF AnswerRecord
  <2> QED
    BY <2>1 DEF TokensIn
<1>4. Answers(r)
  BY DEF Answers
<1> HIDE DEF r
<1>5. flight' \in Flights /\ Spare(flight') \in {Spare(flight), Spare(flight) + 1}
  <2>1. flight' \in Flights
    BY <1>1, InvTypes DEF Flights
  <2> QED
    BY <1>1, <2>1, InvTypes, SpareFacts DEF a
<1>6. CapsHeld(Append(answers, r), now, Spare(flight'))
  <2>1. CASE Spare(flight') = Spare(flight)
    BY <1>3, <2>1, InvTypes, ChargeKeepsCaps
  <2>2. CASE Spare(flight') = Spare(flight) + 1
    BY <1>3, <2>2, InvTypes, ChargeKeepsCaps
  <2> QED
    BY <1>5, <2>1, <2>2
<1>7. /\ \A p \in Providers : BucketsOf(usage[p], Append(answers, r), p, now)
      /\ CacheOf(cache, Append(answers, r))
  BY <1>3, InvTypes, Untouched DEF From
<1> QED
  BY <1>1, <1>3, <1>4, <1>5, <1>6, <1>7, InvTypes, Answered

\* A request that was served frees its slot, and is charged instead.
LEMMA FreedForCharge ==
    ASSUME CompletionIInv, NEW s \in Slots, flight[s] # None, NEW r \in AnswerRecord,
           r.at = now, r.kind = "served", r.ask = flight[s],
           flight' = [flight EXCEPT ![s] = None]
    PROVE  flight' \in Flights /\ CapsHeld(Append(answers, r), now, Spare(flight'))
<1>1. flight' \in Flights
  BY InvTypes DEF Flights
<1>2. Spare(flight') = IF flight[s].keyed THEN Spare(flight) + 1 ELSE Spare(flight)
  BY InvTypes, SpareFacts
<1>3. CASE flight[s].keyed
  BY <1>1, <1>2, <1>3, InvTypes, ChargeKeepsCaps
<1>4. CASE ~flight[s].keyed
  BY <1>1, <1>2, <1>4, InvTypes, ChargeKeepsCaps
<1> QED
  BY <1>1, <1>3, <1>4

LEMMA StreamEndsKeeps ==
    ASSUME CompletionIInv, NEW s \in Slots, StreamEnds(s)
    PROVE  CompletionIInv'
<1> DEFINE a == flight[s]
           r == [kind |-> "served", ask |-> a, response |-> None, cached |-> FALSE, at |-> now]
<1>1. /\ a # None /\ a.stream /\ answers' = Append(answers, r) /\ LogSuccess
      /\ flight' = [flight EXCEPT ![s] = None] /\ UNCHANGED <<now, cache, usage>>
      /\ counter' = IF a.keyed THEN Record(counter, 0, now, Len(answers) + 1) ELSE counter
  BY DEF StreamEnds, Answer, Charge
<1>2. a \in Asks
  BY <1>1, InvTypes DEF Flights
<1> HIDE DEF a
<1>3. /\ r \in AnswerRecord /\ r.at = now /\ r.kind = "served" /\ TokensIn(r) = 0 /\ ~r.cached
      /\ r.ask = a /\ r.ask.stream
  <2>1. r \in AnswerRecord
    BY <1>2, InvTypes DEF AnswerRecord
  <2> QED
    BY <1>1, <2>1 DEF TokensIn
<1>4. Answers(r)
  BY <1>1 DEF Answers
<1> HIDE DEF r
<1>5. flight' \in Flights /\ CapsHeld(Append(answers, r), now, Spare(flight'))
  BY <1>1, <1>3, FreedForCharge DEF a
<1>6. /\ \A p \in Providers : BucketsOf(usage[p], Append(answers, r), p, now)
      /\ CacheOf(cache, Append(answers, r))
  BY <1>3, InvTypes, Untouched DEF From
<1>7. IF r.kind = "served" /\ r.ask.keyed
      THEN counter' = Record(counter, TokensIn(r), now, Len(answers) + 1)
      ELSE counter' \in {counter, Prune(counter, now)}
  BY <1>1, <1>3
<1> QED
  BY <1>1, <1>3, <1>4, <1>5, <1>6, <1>7, InvTypes, Answered

LEMMA CompleteKeeps ==
    ASSUME CompletionIInv, NEW s \in Slots, NEW p \in Providers, NEW tokens \in TokenCounts,
           NEW truncated \in BOOLEAN, Complete(s, p, tokens, truncated)
    PROVE  CompletionIInv'
<1> DEFINE a == flight[s]
           value == [content |-> a.content, provider |-> p, tokens |-> tokens,
                     truncated |-> truncated, at |-> now]
           r == [kind |-> "served", ask |-> a, response |-> value, cached |-> FALSE, at |-> now]
           bs == Append(answers, r)
<1>1. /\ a # None /\ ~a.stream /\ answers' = bs /\ LogSuccess
      /\ flight' = [flight EXCEPT ![s] = None] /\ UNCHANGED now
      /\ counter' = IF a.keyed THEN Record(counter, tokens, now, Len(answers) + 1) ELSE counter
      /\ usage' = IF tokens = 0 THEN usage
                  ELSE [usage EXCEPT ![p] = RecordUsage(@, tokens, now)]
      /\ cache' = IF truncated THEN cache ELSE AfterSet(cache, a.content, value, now)
  BY DEF Complete, Answer, Charge
<1>2. a \in Asks /\ a.content \in Contents
  <2>1. a \in Asks
    BY <1>1, InvTypes DEF Flights
  <2> QED
    BY <2>1, CompletionAssumption DEF Ask
<1> HIDE DEF a
<1>3. value \in Response /\ value # None
  <2>1. value \in Response
    BY <1>2, InvTypes DEF Response
  <2> QED
    BY <2>1, InvTypes
<1>4. /\ value.content = a.content /\ value.provider = p /\ value.tokens = tokens
      /\ value.truncated = truncated /\ value.at = now
  OBVIOUS
<1> HIDE DEF value
<1>5. /\ r \in AnswerRecord /\ r.at = now /\ r.kind = "served" /\ TokensIn(r) = tokens
      /\ ~r.cached /\ r.ask = a /\ r.response = value
  <2>1. r \in AnswerRecord
    BY <1>2, <1>3, InvTypes DEF AnswerRecord
  <2> QED
    BY <1>3, <1>4, <2>1 DEF TokensIn
<1> HIDE DEF r
<1>6. Answers(r)
  BY <1>1, <1>3, <1>4, <1>5 DEF Answers
<1>7. flight' \in Flights /\ CapsHeld(bs, now, Spare(flight'))
  BY <1>1, <1>5, FreedForCharge DEF a
<1>8. DOMAIN usage' = Providers /\ \A q \in Providers : BucketsOf(usage'[q], bs, q, now)
  <2>1. \A q \in Providers : BucketsOf(usage[q], answers, q, now)
    BY DEF CompletionIInv
  <2>2. CASE tokens = 0
    BY <1>1, <1>5, <2>2, InvTypes, Untouched
  <2>3. CASE tokens # 0
    <3>1. /\ DOMAIN usage' = Providers /\ usage'[p] = RecordUsage(usage[p], tokens, now)
          /\ \A q \in Providers : q # p => usage'[q] = usage[q]
      BY <1>1, <2>3, InvTypes
    <3>2. BucketsOf(usage'[p], bs, p, now)
      BY <1>3, <1>4, <1>5, <2>1, <2>3, <3>1, InvTypes, BucketsAdded
    <3>3. \A q \in Providers : q # p => BucketsOf(usage'[q], bs, q, now)
      BY <1>4, <1>5, <2>1, <3>1, InvTypes, BucketsKept
    <3> QED
      BY <3>1, <3>2, <3>3
  <2> QED
    BY <2>2, <2>3
<1>9. CacheOf(cache', bs)
  <2>1. CASE truncated
    <3>1. cache' = cache
      BY <1>1, <2>1
    <3> QED
      BY <1>4, <1>5, <2>1, <3>1, InvTypes, Untouched DEF From
  <2>2. CASE ~truncated
    <3> DEFINE e == [key |-> a.content, value |-> value, expiresAt |-> now + Ttl]
    <3>1. cache' = AfterSet(cache, a.content, value, now)
      BY <1>1, <2>2
    <3>2. /\ IsCache(cache')
          /\ \A i \in DOMAIN cache' :
                \/ cache'[i] = e
                \/ cache'[i].key # a.content /\ \E j \in DOMAIN cache : cache'[i] = cache[j]
      BY <1>2, <1>3, <3>1, InvTypes, SetFacts
    <3>3. EntryOf(e, bs)
      <4>1. LastUse(bs, Len(answers) + 1, Len(answers) + 1 + 1, a.content)
        BY <1>1, <1>4, <1>5, <2>2, InvTypes, UsesAdded
      <4>2. /\ Len(bs) = Len(answers) + 1 /\ Len(answers) + 1 \in DOMAIN bs
            /\ bs[Len(answers) + 1] = r
        BY <1>5, InvTypes, AddedFacts
      <4>3. e.expiresAt = e.value.at + Ttl /\ e.key = a.content /\ e.value = value
        BY <1>4
      <4> HIDE DEF e, bs
      <4> QED
        BY <1>5, <4>1, <4>2, <4>3 DEF EntryOf
    <3>4. ASSUME NEW j \in DOMAIN cache, cache[j].key # a.content PROVE EntryOf(cache[j], bs)
      <4>1. EntryOf(cache[j], answers)
        BY InvTypes DEF CacheOf
      <4>2. ~(r.ask.content = cache[j].key)
        BY <1>5, <3>4
      <4> QED
        BY <1>5, <4>1, <4>2, InvTypes, EntryKept
    <3> HIDE DEF e, bs
    <3> QED
      BY <3>2, <3>3, <3>4 DEF CacheOf
  <2> QED
    BY <2>1, <2>2
<1>10. IF r.kind = "served" /\ r.ask.keyed
       THEN counter' = Record(counter, TokensIn(r), now, Len(answers) + 1)
       ELSE counter' \in {counter, Prune(counter, now)}
  BY <1>1, <1>5
<1>11. /\ r.kind = "failed" => LogFailure
       /\ r.kind = "refused" => UNCHANGED log
  BY <1>5
<1> QED
  BY <1>1, <1>5, <1>6, <1>7, <1>8, <1>9, <1>10, <1>11, Answered

LEMMA ReadVirtualKeysKeeps ==
    ASSUME CompletionIInv, ReadVirtualKeys
    PROVE  CompletionIInv'
<1>1. counter' = Prune(counter, now) /\ UNCHANGED <<now, cache, usage, log, flight, answers>>
  BY DEF ReadVirtualKeys
<1>2. Counts(counter', answers, now)
  BY <1>1, InvTypes, PruneFacts DEF CompletionIInv
<1> QED
  BY <1>1, <1>2 DEF CompletionIInv

LEMMA TickKeeps ==
    ASSUME CompletionIInv, Tick
    PROVE  CompletionIInv'
<1>1. now' = now + 1 /\ now' \in 0 .. MaxTime /\ UNCHANGED <<cache, counter, usage, log, flight, answers>>
  BY CompletionAssumption DEF Tick, CompletionIInv
<1>2. History(answers, now + 1)
  <2>1. \A i \in DOMAIN answers : answers[i].at \in Nat /\ answers[i].at <= now /\ Answers(answers[i])
    BY InvTypes, HistoryFacts DEF CompletionIInv, History, AnswerRecord
  <2> QED
    BY <2>1, InvTypes DEF History
<1>3. CapsHeld(answers, now + 1, Spare(flight)) /\ Counts(counter, answers, now + 1)
  BY InvTypes, WindowMoves DEF CompletionIInv
<1>4. \A p \in Providers : BucketsOf(usage[p], answers, p, now + 1)
  BY InvTypes, BucketsAge DEF CompletionIInv
<1> QED
  BY <1>1, <1>2, <1>3, <1>4 DEF CompletionIInv

LEMMA InvNext == CompletionIInv /\ [Next]_vars => CompletionIInv'
<1> SUFFICES ASSUME CompletionIInv, [Next]_vars PROVE CompletionIInv'
  OBVIOUS
<1>1. ASSUME NEW s \in Slots, Arrive(s) PROVE CompletionIInv'
  <2>1. /\ flight[s] = None /\ UNCHANGED now
        /\ \E a \in Asks : Refuse(a) \/ ServeCached(a) \/ StartRouting(s, a)
    BY <1>1 DEF Arrive
  <2> QED
    BY <2>1, RefuseKeeps, ServeCachedKeeps, StartRoutingKeeps
<1>2. ASSUME NEW s \in Slots, NEW p \in Providers, NEW n \in TokenCounts, NEW truncated \in BOOLEAN,
             Complete(s, p, n, truncated)
      PROVE  CompletionIInv'
  BY <1>2, CompleteKeeps
<1>3. ASSUME NEW s \in Slots, StreamEnds(s) \/ Fail(s) PROVE CompletionIInv'
  BY <1>3, StreamEndsKeeps, FailKeeps
<1>4. CASE ReadVirtualKeys \/ Tick
  BY <1>4, ReadVirtualKeysKeeps, TickKeeps
<1>5. CASE UNCHANGED vars
  BY <1>5 DEF vars, CompletionIInv
<1> QED
  BY <1>1, <1>2, <1>3, <1>4, <1>5 DEF Next

-----------------------------------------------------------------------------
(* What the invariant says of the model's own words.                       *)

LEMMA ModelWords ==
    ASSUME CompletionIInv
    PROVE  /\ Served = ServedIn(answers) /\ Charged = ChargedIn(answers, now)
           /\ Cardinality(Slots) - Cardinality({s \in InFlight : flight[s].keyed}) = Spare(flight)
           /\ \A I \in SUBSET (DOMAIN answers) : TokenSum(I) = Sum(Weight(answers), I)
           /\ TokenSum(Charged) = Sum(Weight(answers), ChargedIn(answers, now))
           /\ \A c : UsesOf(c) = UsesIn(answers, c)
<1>1. Served = ServedIn(answers)
  BY DEF Served, ServedIn
<1>2. Charged = ChargedIn(answers, now)
  BY <1>1 DEF Charged, ChargedIn, KeyedIn
<1>3. Cardinality(Slots) - Cardinality({s \in InFlight : flight[s].keyed}) = Spare(flight)
  <2>1. {s \in InFlight : flight[s].keyed} = KeyedSlots(flight)
    BY DEF InFlight, KeyedSlots
  <2> QED
    BY <2>1 DEF Spare
<1>4. \A I \in SUBSET (DOMAIN answers) : TokenSum(I) = Sum(Weight(answers), I)
  BY InvTypes, TokenSumIs
<1>5. ChargedIn(answers, now) \in SUBSET (DOMAIN answers)
  BY DEF ChargedIn, KeyedIn, ServedIn
<1>6. \A c : UsesOf(c) = UsesIn(answers, c)
  BY <1>1 DEF UsesOf, UsesIn
<1> QED
  BY <1>1, <1>2, <1>3, <1>4, <1>5, <1>6

LEMMA InvSoftCap == CompletionIInv => SoftCap
<1> SUFFICES ASSUME CompletionIInv PROVE SoftCap
  OBVIOUS
<1>1. CapsHeld(answers, now, Spare(flight))
  BY InvTypes
<1>2. (CHOOSE n \in TokenCounts : \A m \in TokenCounts : m <= n) = Most
  BY DEF Most
<1> QED
  BY <1>1, <1>2, ModelWords DEF SoftCap, CapsHeld

LEMMA InvBooks == CompletionIInv => BooksInv
<1> SUFFICES ASSUME CompletionIInv PROVE BooksInv
  OBVIOUS
<1>1. TypeOK
  <2>1. now \in 0 .. MaxTime /\ flight \in [Slots -> Asks \cup {None}]
    BY DEF CompletionIInv, Flights
  <2>2. cache \in Seq(Entries) /\ Len(cache) <= MaxEntries
    BY InvTypes DEF IsCache
  <2>3. Cardinality(Stored(cache)) = Len(cache)
    BY InvTypes, KeysCount
  <2>4. counter \subseteq [at : Nat, tokens : Nat, nr : Nat]
    <3>1. \A i \in KeyedIn(answers) : EventOf(answers, i) \in [at : Nat, tokens : Nat, nr : Nat]
      <4>1. \A i \in KeyedIn(answers) : i \in DOMAIN answers /\ i \in Nat
        BY InvTypes DEF KeyedIn, ServedIn
      <4>2. \A i \in DOMAIN answers : answers[i].at \in Nat
        BY InvTypes, HistoryFacts DEF AnswerRecord
      <4>3. \A i \in DOMAIN answers : TokensIn(answers[i]) \in Nat
        BY InvTypes, HistoryFacts DEF Weight, Weights
      <4> QED
        BY <4>1, <4>2, <4>3 DEF EventOf
    <3> QED
      BY <3>1 DEF CompletionIInv, Counts
  <2>5. log \in [success : Nat, failed : Nat]
    <3>1. IsFiniteSet(ServedIn(answers)) /\ IsFiniteSet(FailedIn(answers))
      BY InvTypes, HistoryFacts DEF ServedIn, FailedIn
    <3>2. Cardinality(ServedIn(answers)) \in Nat /\ Cardinality(FailedIn(answers)) \in Nat
      BY <3>1, FS_CardinalityType
    <3> QED
      BY <3>2 DEF CompletionIInv, LogOf
  <2> QED
    BY <2>1, <2>2, <2>3, <2>4, <2>5 DEF TypeOK
<1>2. ASSUME NEW p \in Providers
      PROVE  UsageTotal(usage[p], now) =
                TokenSum({i \in Served :
                            /\ answers[i].response # None
                            /\ answers[i].response.provider = p
                            /\ ~answers[i].cached
                            /\ CurrentHour(answers[i].at) > CurrentHour(now) - WindowHours})
  <2> DEFINE L == {i \in Served :
                     /\ answers[i].response # None
                     /\ answers[i].response.provider = p
                     /\ ~answers[i].cached
                     /\ CurrentHour(answers[i].at) > CurrentHour(now) - WindowHours}
  <2>1. L = Lately(answers, p, now) /\ L \in SUBSET (DOMAIN answers)
    BY ModelWords DEF Lately, TookIn, HourIn, ServedIn
  <2>2. BucketsOf(usage[p], answers, p, now)
    BY DEF CompletionIInv
  <2>3. UsageTotal(usage[p], now) = Sum(Weight(answers), Lately(answers, p, now))
    BY <2>2, InvTypes, TotalIs
  <2> HIDE DEF L
  <2>4. UsageTotal(usage[p], now) = TokenSum(L)
    BY <2>1, <2>3, ModelWords
  <2> QED
    BY <2>4 DEF L
<1>3. /\ log.success = Cardinality(Served)
      /\ log.failed = Cardinality({i \in DOMAIN answers : answers[i].kind = "failed"})
  BY ModelWords DEF CompletionIInv, LogOf, FailedIn
<1> QED
  BY <1>1, <1>2, <1>3 DEF BooksInv, BooksAgree

LEMMA InvCachedAnswers == CompletionIInv => CachedAnswers
<1> SUFFICES ASSUME CompletionIInv, NEW i \in DOMAIN answers, answers[i].cached
             PROVE  /\ answers[i].response.content = answers[i].ask.content
                    /\ ~answers[i].response.truncated
                    /\ answers[i].at - answers[i].response.at <= Ttl
                    /\ ~answers[i].ask.strict /\ ~answers[i].ask.stream
  BY DEF CachedAnswers
<1>1. FromCache(answers, i)
  BY DEF CompletionIInv, CachedOf
<1>2. PICK j \in DOMAIN answers : /\ j \in UsesIn(answers, answers[i].ask.content)
                                  /\ answers[j].response = answers[i].response
  BY <1>1 DEF FromCache, LastUse
<1>3. Answers(answers[j])
  BY DEF CompletionIInv, History
<1>4. /\ answers[j].kind = "served" /\ ~answers[j].ask.stream
      /\ answers[j].ask.content = answers[i].ask.content
      /\ ~answers[j].response.truncated
  BY <1>2 DEF UsesIn, ServedIn
<1>5. answers[j].response.content = answers[j].ask.content
  BY <1>3, <1>4 DEF Answers
<1> QED
  BY <1>1, <1>2, <1>4, <1>5 DEF FromCache

LEMMA InvLatestAnswer == CompletionIInv => LatestAnswer
<1> SUFFICES ASSUME CompletionIInv, NEW i \in DOMAIN answers, answers[i].cached,
                    NEW j \in UsesOf(answers[i].ask.content), j < i,
                    \A k \in UsesOf(answers[i].ask.content) : j < k /\ k < i => answers[k].cached
             PROVE  answers[i].response = answers[j].response
  BY DEF LatestAnswer
<1>1. UsesOf(answers[i].ask.content) = UsesIn(answers, answers[i].ask.content)
  BY ModelWords
<1>2. CachedOf(answers)
  BY DEF CompletionIInv
<1> QED
  BY <1>1, <1>2, InvTypes, LastOnly

\* A step that answers with a refusal has a cause.
LEMMA RefusalHasCause ==
    ASSUME CompletionIInv, [Next]_vars, Len(answers') > Len(answers),
           answers'[Len(answers')].kind = "refused"
    PROVE  \/ Expired(now)
           \/ answers'[Len(answers')].ask.content \notin Allowed
           \/ RequestCap # None /\ Cardinality(Charged) >= RequestCap
           \/ TokenCap # None /\ TokenSum(Charged) >= TokenCap
<1>1. answers \in Seq(AnswerRecord) /\ Len(answers) \in Nat
  BY InvTypes
<1>2. answers' # answers
  BY <1>1
<1>3. \A kind, ask, response, cached : Answer(kind, ask, response, cached) =>
         /\ answers'[Len(answers')].kind = kind
         /\ answers'[Len(answers')].ask = ask
  <2> TAKE kind, ask, response, cached
  <2> HAVE Answer(kind, ask, response, cached)
  <2> DEFINE r == [kind |-> kind, ask |-> ask, response |-> response, cached |-> cached, at |-> now]
  <2>1. answers' = Append(answers, r)
    BY DEF Answer
  <2>2. Len(Append(answers, r)) = Len(answers) + 1 /\ Append(answers, r)[Len(answers) + 1] = r
    <3> HIDE DEF r
    <3> QED
      BY <1>1
  <2> QED
    BY <2>1, <2>2
<1>4. PICK s \in Slots, a \in Asks : Arrive(s) /\ (Refuse(a) \/ ServeCached(a) \/ StartRouting(s, a))
  <2>1. ASSUME NEW s \in Slots, NEW p \in Providers, NEW n \in TokenCounts,
               NEW truncated \in BOOLEAN, Complete(s, p, n, truncated)
        PROVE  FALSE
    BY <1>3, <2>1 DEF Complete
  <2>2. ASSUME NEW s \in Slots, StreamEnds(s) PROVE FALSE
    BY <1>3, <2>2 DEF StreamEnds
  <2>3. ASSUME NEW s \in Slots, Fail(s) PROVE FALSE
    BY <1>3, <2>3 DEF Fail
  <2>4. ~ReadVirtualKeys /\ ~Tick /\ ~UNCHANGED vars
    BY <1>2 DEF ReadVirtualKeys, Tick, vars
  <2>5. \E s \in Slots : Arrive(s)
    BY <2>1, <2>2, <2>3, <2>4 DEF Next
  <2> QED
    BY <2>5 DEF Arrive
<1>5. Refuse(a)
  <2>1. ~ServeCached(a)
    BY <1>3 DEF ServeCached
  <2>2. ~StartRouting(s, a)
    BY <1>2 DEF StartRouting
  <2> QED
    BY <1>4, <2>1, <2>2
<1>6. ~Guarded(a) /\ a.keyed /\ answers'[Len(answers')].ask = a
  BY <1>3, <1>5 DEF Refuse, Guarded
<1> QED
  BY <1>6, GuardedFacts, ModelWords

-----------------------------------------------------------------------------
(* The theorems.                                                           *)

\* The inductive invariant holds of every state a completion can reach.
THEOREM CompletionHolds == Spec => []CompletionIInv
<1>1. Init => CompletionIInv
  BY InvInit
<1>2. CompletionIInv /\ [Next]_vars => CompletionIInv'
  BY InvNext
<1> QED
  BY <1>1, <1>2, PTL DEF Spec

\* The usage a provider is shown with and the log's counts are what was answered,
\* whatever requests were in flight together (usage-tracker.ts, request-log.ts).
THEOREM BooksHold == Spec => []BooksInv
  BY CompletionHolds, InvBooks, PTL

\* A virtual key is overrun by no more than what was in flight at once, whatever
\* the caps and however many slots (assertCanServe, recordRequest).
THEOREM SoftCapHolds == Spec => []SoftCap
  BY CompletionHolds, InvSoftCap, PTL

\* A cached answer answers its request, is complete and is in time
\* (ResponseCache.get, set; complete()).
THEOREM CachedAnswersHold == Spec => []CachedAnswers
  BY CompletionHolds, InvCachedAnswers, PTL

\* The cache answers with what was stored last, however the requests for one
\* content overlap (ResponseCache.set).
THEOREM LatestAnswerHolds == Spec => []LatestAnswer
  BY CompletionHolds, InvLatestAnswer, PTL

\* A refusal has one of the causes assertCanServe names, counted over the answers
\* of the last 24 hours.
THEOREM RefusalsHaveCauses == Spec => RefusedForCause
<1>1. CompletionIInv /\ [Next]_vars =>
         [Len(answers') > Len(answers) /\ answers'[Len(answers')].kind = "refused" =>
             \/ Expired(now)
             \/ answers'[Len(answers')].ask.content \notin Allowed
             \/ RequestCap # None /\ Cardinality(Charged) >= RequestCap
             \/ TokenCap # None /\ TokenSum(Charged) >= TokenCap]_vars
  BY RefusalHasCause
<1> QED
  BY <1>1, CompletionHolds, PTL DEF Spec, RefusedForCause

=============================================================================
