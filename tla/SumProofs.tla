------------------------------ MODULE SumProofs ------------------------------
(***************************************************************************)
(* Sums over finite sets, and induction over the subsets of a finite set,  *)
(* which follows from the least elements of a well-founded relation.       *)
(***************************************************************************)
EXTENDS Sums, FiniteSetTheorems, WellFoundedInduction, TLAPS

\* Among the sets of a collection there is one without a proper subset in it.
LEMMA SmallestSet ==
    ASSUME NEW S, IsFiniteSet(S), NEW D \in SUBSET SUBSET S, D # {}
    PROVE  \E T \in D : \A U \in D : U \subseteq T => U = T
<1>1. IsWellFoundedOn(StrictSubsetOrdering(S), SUBSET S)
  BY FS_StrictSubsetOrderingWellFounded, FS_FiniteSubsetsOfFinite, Zenon
<1>2. \E T \in D : \A U \in D : ~(<<U, T>> \in StrictSubsetOrdering(S))
  BY <1>1, WFMin, Zenon
<1> QED
  BY <1>2 DEF StrictSubsetOrdering

\* Induction over the subsets of a finite set, one element at a time ...
LEMMA SubsetInduction ==
    ASSUME NEW S, IsFiniteSet(S), NEW D, {} \in D,
           \A T \in SUBSET S : \A x \in S \ T : T \in D => T \cup {x} \in D
    PROVE  \A T \in SUBSET S : T \in D
<1> DEFINE B == {T \in SUBSET S : T \notin D}
<1> SUFFICES ASSUME B # {} PROVE FALSE
  OBVIOUS
<1>1. PICK T \in B : \A U \in B : U \subseteq T => U = T
  <2>1. B \in SUBSET SUBSET S
    OBVIOUS
  <2> HIDE DEF B
  <2> QED
    BY <2>1, SmallestSet
<1>2. PICK x \in T : TRUE
  OBVIOUS
<1>3. /\ T \ {x} \in SUBSET S /\ x \in S \ (T \ {x})
      /\ (T \ {x}) \cup {x} = T
  OBVIOUS
<1>4. T \ {x} \in D
  BY <1>1, <1>3
<1> QED
  BY <1>3, <1>4

\* ... and with the hypothesis for all smaller subsets.
LEMMA StrongSubsetInduction ==
    ASSUME NEW S, IsFiniteSet(S), NEW D,
           \A T \in SUBSET S : (\A U \in SUBSET T : U # T => U \in D) => T \in D
    PROVE  \A T \in SUBSET S : T \in D
<1> DEFINE B == {T \in SUBSET S : T \notin D}
<1> SUFFICES ASSUME B # {} PROVE FALSE
  OBVIOUS
<1>1. PICK T \in B : \A U \in B : U \subseteq T => U = T
  <2>1. B \in SUBSET SUBSET S
    OBVIOUS
  <2> HIDE DEF B
  <2> QED
    BY <2>1, SmallestSet
<1> QED
  BY <1>1

-----------------------------------------------------------------------------
(* The recursive function behind SumOver exists and is unique *)

Pick(T) == CHOOSE x \in T : TRUE

Rest(T) == T \ {Pick(T)}

\* g[T] is the sum of f over T, for each part T of S.
IsSum(g, f, S) ==
    g = [T \in SUBSET S |-> IF T = {} THEN 0 ELSE f[Pick(T)] + g[Rest(T)]]

LEMMA PickRest ==
    ASSUME NEW T, T # {}
    PROVE  /\ Pick(T) \in T /\ Rest(T) \subseteq T /\ Rest(T) # T
           /\ Pick(T) \notin Rest(T)
  BY DEF Pick, Rest

LEMMA SumUnfold ==
    ASSUME NEW f, NEW S
    PROVE  SumOver(f, S) = (CHOOSE g : IsSum(g, f, S))[S]
  BY DEF SumOver, MapThenSumSet, MapThenFoldSet, IsSum, Pick, Rest

LEMMA IsSumAt ==
    ASSUME NEW g, NEW f, NEW S, IsSum(g, f, S), NEW T \in SUBSET S
    PROVE  g[T] = IF T = {} THEN 0 ELSE f[Pick(T)] + g[Rest(T)]
  BY DEF IsSum

LEMMA SumsAgree ==
    ASSUME NEW f, NEW S, NEW R, IsFiniteSet(S),
           NEW g, NEW h, IsSum(g, f, S), IsSum(h, f, R),
           NEW T \in SUBSET S, T \in SUBSET R
    PROVE  g[T] = h[T]
<1> DEFINE D == {U \in SUBSET (S \cap R) : g[U] = h[U]}
<1>1. ASSUME NEW U \in SUBSET (S \cap R), \A V \in SUBSET U : V # U => V \in D
      PROVE  U \in D
  <2>1. /\ g[U] = IF U = {} THEN 0 ELSE f[Pick(U)] + g[Rest(U)]
        /\ h[U] = IF U = {} THEN 0 ELSE f[Pick(U)] + h[Rest(U)]
    BY IsSumAt
  <2>2. U # {} => g[Rest(U)] = h[Rest(U)]
    BY <1>1, PickRest
  <2> QED
    BY <2>1, <2>2
<1>2. IsFiniteSet(S \cap R)
  BY FS_Subset
<1>3. \A U \in SUBSET (S \cap R) : U \in D
  <2> HIDE DEF D
  <2> QED
    BY <1>1, <1>2, StrongSubsetInduction, ZenonT(60)
<1> QED
  BY <1>3

LEMMA SumExists ==
    ASSUME NEW S, IsFiniteSet(S), NEW f \in [S -> Int]
    PROVE  \E g \in [SUBSET S -> Int] : IsSum(g, f, S)
<1> DEFINE D == {T \in SUBSET S : \E g \in [SUBSET T -> Int] : IsSum(g, f, T)}
<1>1. ASSUME NEW T \in SUBSET S, \A U \in SUBSET T : U # T => U \in D
      PROVE  T \in D
  <2> DEFINE G(U) == CHOOSE g \in [SUBSET U -> Int] : IsSum(g, f, U)
             s == [U \in SUBSET T |->
                      IF U = {} THEN 0 ELSE f[Pick(U)] + G(Rest(U))[Rest(U)]]
  <2>1. ASSUME NEW U \in SUBSET T, U # T
        PROVE  G(U) \in [SUBSET U -> Int] /\ IsSum(G(U), f, U)
    BY <1>1, <2>1
  <2> HIDE DEF G, D
  <2>2. ASSUME NEW U \in SUBSET T, U # {}
        PROVE  /\ Rest(U) \in SUBSET T /\ Rest(U) # T
               /\ f[Pick(U)] \in Int /\ G(Rest(U))[Rest(U)] \in Int
    <3>1. /\ Pick(U) \in U /\ Rest(U) \subseteq U /\ Pick(U) \notin Rest(U)
      BY <2>2, PickRest
    <3>2. Pick(U) \in T /\ Rest(U) \in SUBSET T /\ Rest(U) # T
      BY <3>1
    <3>3. G(Rest(U)) \in [SUBSET Rest(U) -> Int]
      BY <2>1, <3>2
    <3> QED
      BY <3>2, <3>3
  <2>3. s \in [SUBSET T -> Int]
    BY <2>2
  <2>4. ASSUME NEW U \in SUBSET T, U # {}
        PROVE  s[Rest(U)] = G(Rest(U))[Rest(U)]
    <3> DEFINE V == Rest(U)
    <3>1. V \in SUBSET T /\ V # T /\ IsSum(G(V), f, V) /\ IsFiniteSet(V)
      BY <2>1, <2>2, <2>4, FS_Subset
    <3>2. G(V)[V] = IF V = {} THEN 0 ELSE f[Pick(V)] + G(V)[Rest(V)]
      BY <3>1, IsSumAt
    <3>3. V # {} => G(V)[Rest(V)] = G(Rest(V))[Rest(V)]
      <4> SUFFICES ASSUME V # {} PROVE G(V)[Rest(V)] = G(Rest(V))[Rest(V)]
        OBVIOUS
      <4>1. Rest(V) \in SUBSET V /\ Rest(V) \in SUBSET T /\ Rest(V) # T
        BY <3>1, PickRest
      <4>2. IsSum(G(Rest(V)), f, Rest(V))
        BY <2>1, <4>1
      <4>3. Rest(V) \in SUBSET Rest(V)
        BY Zenon
      <4>4. PICK a, b, W : a = G(V) /\ b = G(Rest(V)) /\ W = Rest(V)
        OBVIOUS
      <4>5. IsSum(a, f, V) /\ IsSum(b, f, W) /\ W \in SUBSET V /\ W \in SUBSET W
        BY <3>1, <4>1, <4>2, <4>4
      <4>6. a[W] = b[W]
        BY <3>1, <4>5, SumsAgree
      <4> QED
        BY <4>4, <4>6
    <3>4. s[V] = IF V = {} THEN 0 ELSE f[Pick(V)] + G(Rest(V))[Rest(V)]
      BY <3>1
    <3> QED
      BY <3>2, <3>3, <3>4
  <2>5. s = [U \in SUBSET T |-> IF U = {} THEN 0 ELSE f[Pick(U)] + s[Rest(U)]]
    BY <2>4
  <2>6. IsSum(s, f, T)
    BY <2>5 DEF IsSum
  <2> QED
    BY <2>3, <2>6 DEF D
<1>2. \A T \in SUBSET S : T \in D
  <2> HIDE DEF D
  <2> QED
    BY <1>1, StrongSubsetInduction
<1> QED
  BY <1>2

LEMMA SumIs ==
    ASSUME NEW S, IsFiniteSet(S), NEW f, NEW g, IsSum(g, f, S), NEW T \in SUBSET S
    PROVE  SumOver(f, T) = g[T]
<1> DEFINE e == [U \in SUBSET T |-> g[U]]
           h == CHOOSE d : IsSum(d, f, T)
<1>1. IsFiniteSet(T)
  BY FS_Subset
<1>2. IsSum(e, f, T)
  <2>1. ASSUME NEW U \in SUBSET T, U # {} PROVE e[Rest(U)] = g[Rest(U)]
    BY <2>1, PickRest
  <2>2. ASSUME NEW U \in SUBSET T
        PROVE  g[U] = IF U = {} THEN 0 ELSE f[Pick(U)] + g[Rest(U)]
    BY IsSumAt
  <2>3. e = [U \in SUBSET T |-> IF U = {} THEN 0 ELSE f[Pick(U)] + e[Rest(U)]]
    BY <2>1, <2>2
  <2> HIDE DEF e
  <2> QED
    BY <2>3 DEF IsSum
<1> HIDE DEF e
<1>3. IsSum(h, f, T)
  BY <1>2
<1> HIDE DEF h
<1>4. h[T] = g[T]
  BY <1>1, <1>3, SumsAgree
<1> QED
  BY <1>4, SumUnfold DEF h

LEMMA SumByParts ==
    ASSUME NEW S, IsFiniteSet(S), NEW f \in [S -> Int]
    PROVE  \E g \in [SUBSET S -> Int] :
               IsSum(g, f, S) /\ \A T \in SUBSET S : SumOver(f, T) = g[T]
<1>1. PICK g \in [SUBSET S -> Int] : IsSum(g, f, S)
  BY SumExists
<1>2. \A T \in SUBSET S : SumOver(f, T) = g[T]
  BY <1>1, SumIs
<1> QED
  BY <1>1, <1>2

-----------------------------------------------------------------------------
(* The sum of f over a part T of the finite set S *)

LEMMA SumType ==
    ASSUME NEW S, IsFiniteSet(S), NEW f \in [S -> Int], NEW T \in SUBSET S
    PROVE  SumOver(f, T) \in Int
<1>1. PICK g \in [SUBSET S -> Int] : \A U \in SUBSET S : SumOver(f, U) = g[U]
  BY SumByParts
<1> QED
  BY <1>1

LEMMA SumEmpty ==
    ASSUME NEW f
    PROVE  SumOver(f, {}) = 0
<1> DEFINE g == [T \in SUBSET {} |-> 0]
<1>1. \A T \in SUBSET {} : T = {}
  OBVIOUS
<1>2. g = [T \in SUBSET {} |-> IF T = {} THEN 0 ELSE f[Pick(T)] + g[Rest(T)]]
  BY <1>1
<1>3. IsSum(g, f, {}) /\ g[{}] = 0
  BY <1>2 DEF IsSum
<1> HIDE DEF g
<1> QED
  BY <1>3, SumIs, FS_EmptySet

LEMMA SumRest ==
    ASSUME NEW S, IsFiniteSet(S), NEW f \in [S -> Int], NEW T \in SUBSET S, T # {}
    PROVE  SumOver(f, T) = f[Pick(T)] + SumOver(f, Rest(T))
<1>1. PICK g \in [SUBSET S -> Int] :
          IsSum(g, f, S) /\ \A U \in SUBSET S : SumOver(f, U) = g[U]
  BY SumByParts, ZenonT(60)
<1>2. Rest(T) \in SUBSET S
  BY PickRest
<1> QED
  BY <1>1, <1>2, IsSumAt

\* Any element may be taken out first.
LEMMA SumRemove ==
    ASSUME NEW S, IsFiniteSet(S), NEW f \in [S -> Int], NEW T \in SUBSET S, NEW x \in T
    PROVE  SumOver(f, T) = f[x] + SumOver(f, T \ {x})
<1> DEFINE D == {U \in SUBSET S : \A y \in U : SumOver(f, U) = f[y] + SumOver(f, U \ {y})}
<1>1. ASSUME NEW U \in SUBSET S, \A V \in SUBSET U : V # U => V \in D
      PROVE  U \in D
  <2> SUFFICES ASSUME NEW y \in U PROVE SumOver(f, U) = f[y] + SumOver(f, U \ {y})
    OBVIOUS
  <2> DEFINE p == Pick(U)
  <2>1. /\ p \in U /\ Rest(U) = U \ {p} /\ U # {}
    BY PickRest DEF Rest
  <2>2. SumOver(f, U) = f[p] + SumOver(f, U \ {p})
    <3>1. SumOver(f, U) = f[Pick(U)] + SumOver(f, Rest(U))
      BY <2>1, SumRest, Zenon
    <3> QED
      BY <2>1, <3>1, Zenon
  <2> HIDE DEF p
  <2>3. CASE y # p
    <3>1. (U \ {p}) \ {y} = (U \ {y}) \ {p}
      OBVIOUS
    <3>2. U \ {p} \in D /\ U \ {y} \in D
      BY <1>1, <2>1
    <3>3. SumOver(f, U \ {p}) = f[y] + SumOver(f, (U \ {p}) \ {y})
      BY <2>3, <3>2
    <3>4. SumOver(f, U \ {y}) = f[p] + SumOver(f, (U \ {y}) \ {p})
      BY <2>1, <2>3, <3>2
    <3>5. SumOver(f, (U \ {p}) \ {y}) = SumOver(f, (U \ {y}) \ {p})
      BY <3>1, Zenon
    <3>6. f[p] \in Int /\ f[y] \in Int /\ SumOver(f, (U \ {y}) \ {p}) \in Int
      BY <2>1, SumType
    <3> HIDE DEF D
    <3> QED
      BY <2>2, <3>3, <3>4, <3>5, <3>6
  <2> QED
    BY <2>2, <2>3
<1>2. \A U \in SUBSET S : U \in D
  <2> HIDE DEF D
  <2> QED
    BY <1>1, StrongSubsetInduction
<1> QED
  BY <1>2

LEMMA SumAdd ==
    ASSUME NEW S, IsFiniteSet(S), NEW f \in [S -> Int],
           NEW T \in SUBSET S, NEW x \in S \ T
    PROVE  SumOver(f, T \cup {x}) = SumOver(f, T) + f[x]
<1>1. (T \cup {x}) \ {x} = T /\ T \cup {x} \in SUBSET S
  OBVIOUS
<1>2. SumOver(f, T \cup {x}) = f[x] + SumOver(f, (T \cup {x}) \ {x})
  BY <1>1, SumRemove
<1>3. SumOver(f, (T \cup {x}) \ {x}) = SumOver(f, T)
  BY <1>1, Zenon
<1>4. SumOver(f, T) \in Int /\ f[x] \in Int
  BY SumType
<1> QED
  BY <1>2, <1>3, <1>4

-----------------------------------------------------------------------------
(* Sums of two functions compared *)

LEMMA SumGrow ==
    ASSUME NEW S, IsFiniteSet(S), NEW f \in [S -> Int],
           NEW T \in SUBSET S, NEW x \in S \ T,
           NEW U, \A y : y \in U <=> y \in T \/ y = x
    PROVE  SumOver(f, U) = SumOver(f, T) + f[x]
<1>1. U = T \cup {x}
  OBVIOUS
<1>2. SumOver(f, T \cup {x}) = SumOver(f, T) + f[x]
  BY SumAdd
<1> QED
  BY <1>1, <1>2, Zenon

LEMMA SumEqual ==
    ASSUME NEW f, NEW g, NEW T, \A x \in T : f[x] = g[x]
    PROVE  SumOver(f, T) = SumOver(g, T)
<1>1. ASSUME NEW h PROVE IsSum(h, f, T) <=> IsSum(h, g, T)
  <2>1. ASSUME NEW U \in SUBSET T, U # {} PROVE f[Pick(U)] = g[Pick(U)]
    BY <2>1, PickRest
  <2>2. [U \in SUBSET T |-> IF U = {} THEN 0 ELSE f[Pick(U)] + h[Rest(U)]]
            = [U \in SUBSET T |-> IF U = {} THEN 0 ELSE g[Pick(U)] + h[Rest(U)]]
    BY <2>1
  <2> QED
    BY <2>2 DEF IsSum
<1>2. (CHOOSE h : IsSum(h, f, T)) = (CHOOSE h : IsSum(h, g, T))
  BY <1>1
<1> QED
  BY <1>2, SumUnfold

LEMMA SumPlus ==
    ASSUME NEW S, IsFiniteSet(S), NEW f \in [S -> Int], NEW g \in [S -> Int],
           NEW h \in [S -> Int], NEW T \in SUBSET S, \A x \in T : h[x] = f[x] + g[x]
    PROVE  SumOver(h, T) = SumOver(f, T) + SumOver(g, T)
<1> DEFINE D == {U \in SUBSET T : SumOver(h, U) = SumOver(f, U) + SumOver(g, U)}
<1>1. {} \in D
  BY SumEmpty
<1>2. ASSUME NEW U \in SUBSET T, NEW x \in T \ U, U \in D PROVE U \cup {x} \in D
  <2>1. /\ SumOver(f, U \cup {x}) = SumOver(f, U) + f[x]
        /\ SumOver(g, U \cup {x}) = SumOver(g, U) + g[x]
        /\ SumOver(h, U \cup {x}) = SumOver(h, U) + h[x]
    BY SumAdd
  <2>2. /\ SumOver(f, U) \in Int /\ SumOver(g, U) \in Int
        /\ f[x] \in Int /\ g[x] \in Int /\ h[x] = f[x] + g[x]
    BY SumType
  <2> QED
    BY <1>2, <2>1, <2>2
<1>3. \A U \in SUBSET T : U \in D
  <2> HIDE DEF D
  <2> QED
    BY <1>1, <1>2, FS_Subset, SubsetInduction
<1> QED
  BY <1>3

\* A common factor.
LEMMA SumScale ==
    ASSUME NEW S, IsFiniteSet(S), NEW f \in [S -> Int], NEW g \in [S -> Int],
           NEW c \in Int, \A x \in S : g[x] = c * f[x]
    PROVE  SumOver(g, S) = c * SumOver(f, S)
<1> DEFINE D == {U \in SUBSET S : SumOver(g, U) = c * SumOver(f, U)}
<1>1. {} \in D
  <2>1. SumOver(f, {}) = 0 /\ SumOver(g, {}) = 0 /\ c * 0 = 0
    BY SumEmpty
  <2> QED
    BY <2>1
<1>2. ASSUME NEW U \in SUBSET S, NEW x \in S \ U, U \in D PROVE U \cup {x} \in D
  <2>1. /\ SumOver(f, U \cup {x}) = SumOver(f, U) + f[x]
        /\ SumOver(g, U \cup {x}) = SumOver(g, U) + g[x]
    BY SumAdd
  <2>2. SumOver(f, U) \in Int /\ f[x] \in Int /\ g[x] = c * f[x]
    BY SumType
  <2>3. c * (SumOver(f, U) + f[x]) = c * SumOver(f, U) + c * f[x]
    BY <2>2
  <2>4. SumOver(g, U) = c * SumOver(f, U)
    BY <1>2
  <2> QED
    BY <1>2, <2>1, <2>2, <2>3, <2>4
<1>3. \A U \in SUBSET S : U \in D
  <2> HIDE DEF D
  <2> QED
    BY <1>1, <1>2, FS_Subset, SubsetInduction
<1> QED
  BY <1>3

LEMMA SumAtMost ==
    ASSUME NEW S, IsFiniteSet(S), NEW f \in [S -> Int], NEW g \in [S -> Int],
           NEW T \in SUBSET S, \A x \in T : f[x] <= g[x]
    PROVE  SumOver(f, T) <= SumOver(g, T)
<1> DEFINE D == {U \in SUBSET T : SumOver(f, U) <= SumOver(g, U)}
<1>1. {} \in D
  BY SumEmpty
<1>2. ASSUME NEW U \in SUBSET T, NEW x \in T \ U, U \in D PROVE U \cup {x} \in D
  <2>1. /\ SumOver(f, U \cup {x}) = SumOver(f, U) + f[x]
        /\ SumOver(g, U \cup {x}) = SumOver(g, U) + g[x]
    BY SumAdd
  <2>2. /\ SumOver(f, U) \in Int /\ SumOver(g, U) \in Int
        /\ f[x] \in Int /\ g[x] \in Int /\ f[x] <= g[x]
    BY SumType
  <2> QED
    BY <1>2, <2>1, <2>2
<1>3. \A U \in SUBSET T : U \in D
  <2> HIDE DEF D
  <2> QED
    BY <1>1, <1>2, FS_Subset, SubsetInduction
<1> QED
  BY <1>3

\* What is zero does not count.
LEMMA SumSupport ==
    ASSUME NEW S, IsFiniteSet(S), NEW f \in [S -> Int],
           NEW T \in SUBSET S, NEW R \in SUBSET T, \A x \in T \ R : f[x] = 0
    PROVE  SumOver(f, T) = SumOver(f, R)
<1> DEFINE D == {U \in SUBSET (T \ R) : SumOver(f, R \cup U) = SumOver(f, R)}
<1>1. {} \in D
  OBVIOUS
<1>2. ASSUME NEW U \in SUBSET (T \ R), NEW x \in (T \ R) \ U, U \in D
      PROVE  U \cup {x} \in D
  <2>1. PICK V : V = R \cup U
    OBVIOUS
  <2>2. V \in SUBSET S /\ x \in S \ V /\ V \cup {x} = R \cup (U \cup {x})
    BY <2>1
  <2>3. SumOver(f, V \cup {x}) = SumOver(f, V) + f[x]
    BY <2>2, SumAdd
  <2>4. SumOver(f, V) \in Int /\ f[x] = 0
    BY <2>2, SumType
  <2>5. SumOver(f, V) = SumOver(f, R)
    BY <1>2, <2>1, Zenon
  <2>6. SumOver(f, V \cup {x}) = SumOver(f, R)
    BY <2>3, <2>4, <2>5
  <2> QED
    BY <2>2, <2>6, Zenon
<1>3. \A U \in SUBSET (T \ R) : U \in D
  <2>1. IsFiniteSet(T \ R)
    BY FS_Subset
  <2> HIDE DEF D
  <2> QED
    BY <1>1, <1>2, <2>1, SubsetInduction
<1>4. T \ R \in D /\ R \cup (T \ R) = T
  BY <1>3
<1> QED
  BY <1>4

LEMMA SumZero ==
    ASSUME NEW S, IsFiniteSet(S), NEW f \in [S -> Int],
           NEW T \in SUBSET S, \A x \in T : f[x] = 0
    PROVE  SumOver(f, T) = 0
<1>1. {} \in SUBSET T
  OBVIOUS
<1>2. SumOver(f, T) = SumOver(f, {})
  BY <1>1, SumSupport
<1> QED
  BY <1>2, SumEmpty

LEMMA SumOne ==
    ASSUME NEW S, IsFiniteSet(S), NEW f \in [S -> Int], NEW x \in S
    PROVE  SumOver(f, {x}) = f[x]
<1>1. SumOver(f, {x}) = f[x] + SumOver(f, {x} \ {x})
  BY SumRemove
<1>2. {x} \ {x} = {}
  OBVIOUS
<1>3. SumOver(f, {x} \ {x}) = 0
  BY <1>2, SumEmpty, Zenon
<1> QED
  BY <1>1, <1>3

\* No term of a sum of natural numbers exceeds the sum.
LEMMA SumTerm ==
    ASSUME NEW S, IsFiniteSet(S), NEW f \in [S -> Int],
           NEW T \in SUBSET S, \A x \in T : f[x] >= 0
    PROVE  /\ SumOver(f, T) >= 0
           /\ \A x \in T : f[x] <= SumOver(f, T)
<1> DEFINE z == [x \in S |-> 0]
<1>1. ASSUME NEW R \in SUBSET T PROVE SumOver(f, R) >= 0
  <2>1. z \in [S -> Int] /\ R \in SUBSET S /\ \A x \in R : z[x] <= f[x] /\ z[x] = 0
    OBVIOUS
  <2> HIDE DEF z
  <2>2. SumOver(z, R) <= SumOver(f, R) /\ SumOver(z, R) = 0
    BY <2>1, SumAtMost, SumZero
  <2>3. SumOver(f, R) \in Int
    BY <2>1, SumType
  <2> QED
    BY <2>2, <2>3
<1>2. ASSUME NEW x \in T PROVE f[x] <= SumOver(f, T)
  <2>1. SumOver(f, T) = f[x] + SumOver(f, T \ {x})
    BY SumRemove
  <2>2. SumOver(f, T \ {x}) >= 0 /\ f[x] \in Int /\ SumOver(f, T \ {x}) \in Int
    BY <1>1, SumType
  <2> QED
    BY <2>1, <2>2
<1> QED
  BY <1>1, <1>2

\* A sum over a finite set is the sum over a part of it and over the rest.
LEMMA SumSplit ==
    ASSUME NEW S, IsFiniteSet(S), NEW f \in [S -> Int],
           NEW T \in SUBSET S, NEW R \in SUBSET T
    PROVE  SumOver(f, T) = SumOver(f, R) + SumOver(f, T \ R)
<1> DEFINE g == [x \in S |-> IF x \in R THEN f[x] ELSE 0]
           h == [x \in S |-> IF x \in R THEN 0 ELSE f[x]]
<1>1. /\ g \in [S -> Int] /\ h \in [S -> Int]
      /\ \A x \in T : f[x] = g[x] + h[x]
      /\ \A x \in T \ R : g[x] = 0
      /\ \A x \in T \ (T \ R) : h[x] = 0
      /\ \A x \in R : g[x] = f[x]
      /\ \A x \in T \ R : h[x] = f[x]
      /\ T \ R \in SUBSET T
  OBVIOUS
<1> HIDE DEF g, h
<1>2. SumOver(f, T) = SumOver(g, T) + SumOver(h, T)
  BY <1>1, SumPlus
<1>3. SumOver(g, T) = SumOver(g, R)
  BY <1>1, SumSupport
<1>4. SumOver(h, T) = SumOver(h, T \ R)
  BY <1>1, SumSupport
<1>5. SumOver(g, R) = SumOver(f, R)
  BY <1>1, SumEqual
<1>6. SumOver(h, T \ R) = SumOver(f, T \ R)
  BY <1>1, SumEqual
<1> QED
  BY <1>2, <1>3, <1>4, <1>5, <1>6

\* Changing every sign changes the sign of the sum.
LEMMA SumNegate ==
    ASSUME NEW S, IsFiniteSet(S), NEW f \in [S -> Int], NEW g \in [S -> Int],
           NEW T \in SUBSET S, \A x \in T : g[x] = -f[x]
    PROVE  SumOver(g, T) = -SumOver(f, T)
<1> DEFINE z == [x \in S |-> 0]
<1>1. z \in [S -> Int] /\ \A x \in T : z[x] = 0 /\ z[x] = f[x] + g[x]
  OBVIOUS
<1> HIDE DEF z
<1>2. SumOver(z, T) = 0
  BY <1>1, SumZero
<1>3. SumOver(z, T) = SumOver(f, T) + SumOver(g, T)
  BY <1>1, SumPlus
<1>4. SumOver(f, T) \in Int /\ SumOver(g, T) \in Int
  BY SumType
<1> QED
  BY <1>2, <1>3, <1>4

\* Terms that are not negative: a part is worth no more than the whole.
LEMMA SumPart ==
    ASSUME NEW S, IsFiniteSet(S), NEW f \in [S -> Int], \A x \in S : f[x] >= 0,
           NEW T \in SUBSET S
    PROVE  SumOver(f, T) >= 0 /\ SumOver(f, T) <= SumOver(f, S)
<1>1. S \in SUBSET S /\ S \ T \in SUBSET S
  OBVIOUS
<1>2. SumOver(f, S) = SumOver(f, T) + SumOver(f, S \ T)
  BY <1>1, SumSplit
<1>3. SumOver(f, T) >= 0
  BY SumTerm
<1>4. SumOver(f, S \ T) >= 0
  BY <1>1, SumTerm
<1>5. SumOver(f, T) \in Int /\ SumOver(f, S \ T) \in Int
  BY <1>1, SumType
<1> QED
  BY <1>2, <1>3, <1>4, <1>5

\* Terms that are no larger and add up to the same are the same.
LEMMA SumTight ==
    ASSUME NEW S, IsFiniteSet(S), NEW f \in [S -> Int], NEW g \in [S -> Int],
           \A x \in S : f[x] <= g[x], SumOver(f, S) = SumOver(g, S)
    PROVE  \A x \in S : f[x] = g[x]
<1> DEFINE h == [x \in S |-> g[x] - f[x]]
<1>1. /\ h \in [S -> Int] /\ S \in SUBSET S
      /\ \A x \in S : g[x] = f[x] + h[x]
      /\ \A x \in S : h[x] >= 0
      /\ \A x \in S : f[x] \in Int /\ h[x] \in Int
  OBVIOUS
<1> HIDE DEF h
<1>2. SumOver(g, S) = SumOver(f, S) + SumOver(h, S)
  BY <1>1, SumPlus
<1>3. SumOver(f, S) \in Int /\ SumOver(h, S) \in Int
  BY <1>1, SumType
<1>4. SumOver(h, S) = 0
  BY <1>2, <1>3
<1>5. \A x \in S : h[x] <= SumOver(h, S)
  BY <1>1, SumTerm
<1>6. \A x \in S : h[x] = 0
  BY <1>1, <1>4, <1>5
<1> QED
  BY <1>1, <1>6

\* Only one term differs.
LEMMA SumUpdate ==
    ASSUME NEW S, IsFiniteSet(S), NEW f \in [S -> Int], NEW g \in [S -> Int],
           NEW T \in SUBSET S, NEW x \in T, \A y \in T \ {x} : g[y] = f[y]
    PROVE  SumOver(g, T) = SumOver(f, T) - f[x] + g[x]
<1>1. /\ SumOver(f, T) = f[x] + SumOver(f, T \ {x})
      /\ SumOver(g, T) = g[x] + SumOver(g, T \ {x})
  BY SumRemove
<1>2. SumOver(f, T \ {x}) = SumOver(g, T \ {x})
  BY SumEqual
<1>3. f[x] \in Int /\ g[x] \in Int /\ SumOver(f, T \ {x}) \in Int
  BY SumType
<1> QED
  BY <1>1, <1>2, <1>3

\* A sum over places is one over the people in them, when all are different.
LEMMA SumRenamed ==
    ASSUME NEW S, IsFiniteSet(S), NEW R, IsFiniteSet(R), NEW p \in [S -> R],
           \A x, y \in S : p[x] = p[y] => x = y,
           NEW f \in [S -> Int], NEW g \in [R -> Int], \A x \in S : g[p[x]] = f[x]
    PROVE  SumOver(g, {p[x] : x \in S}) = SumOver(f, S)
<1> DEFINE At(T) == {p[x] : x \in T}
           D == {T \in SUBSET S : SumOver(g, At(T)) = SumOver(f, T)}
<1>1. {} \in D
  <2>1. At({}) = {}
    OBVIOUS
  <2>2. SumOver(g, At({})) = SumOver(g, {})
    BY <2>1, Zenon
  <2> HIDE DEF At
  <2> QED
    BY <2>2, SumEmpty
<1>2. ASSUME NEW T \in SUBSET S, NEW x \in S \ T, T \in D PROVE T \cup {x} \in D
  <2>1. At(T) \in SUBSET R /\ p[x] \in R \ At(T)
    OBVIOUS
  <2>2. \A y : y \in At(T \cup {x}) <=> y \in At(T) \/ y = p[x]
    OBVIOUS
  <2>3. SumOver(g, At(T)) = SumOver(f, T)
    BY <1>2
  <2> HIDE DEF At, D
  <2>4. SumOver(g, At(T \cup {x})) = SumOver(g, At(T)) + g[p[x]]
    <3>1. PICK U, V, y : U = At(T) /\ V = At(T \cup {x}) /\ y = p[x]
      OBVIOUS
    <3>2. U \in SUBSET R /\ y \in R \ U /\ \A z : z \in V <=> z \in U \/ z = y
      BY <2>1, <2>2, <3>1
    <3>3. SumOver(g, V) = SumOver(g, U) + g[y]
      BY <3>2, SumGrow
    <3> QED
      BY <3>1, <3>3
  <2>5. SumOver(f, T \cup {x}) = SumOver(f, T) + f[x]
    BY SumAdd
  <2>6. T \cup {x} \in SUBSET S /\ g[p[x]] = f[x]
    OBVIOUS
  <2> QED
    BY <2>3, <2>4, <2>5, <2>6 DEF D
<1>3. \A T \in SUBSET S : T \in D
  <2> HIDE DEF D
  <2> QED
    BY <1>1, <1>2, SubsetInduction
<1> QED
  BY <1>3

\* The same table by rows and by columns, with the sum of every column.
IsTable(S, R, row, column, sums) ==
    /\ row \in [S -> [R -> Int]] /\ column \in [R -> [S -> Int]]
    /\ \A x \in S : \A y \in R : row[x][y] = column[y][x]
    /\ sums \in [R -> Int] /\ \A y \in R : sums[y] = SumOver(column[y], S)

\* When its rows all sum to zero, so do the sums of its columns.
LEMMA ColumnsCancel ==
    ASSUME NEW S, IsFiniteSet(S), NEW R, IsFiniteSet(R), NEW row, NEW column, NEW sums,
           IsTable(S, R, row, column, sums), \A x \in S : SumOver(row[x], R) = 0
    PROVE  SumOver(sums, R) = 0
<1> DEFINE Partial(U) == [y \in R |-> SumOver(column[y], U)]
           D == {U \in SUBSET S : SumOver(Partial(U), R) = 0}
<1>1. ASSUME NEW U \in SUBSET S
      PROVE  Partial(U) \in [R -> Int] /\ \A y \in R : Partial(U)[y] = SumOver(column[y], U)
  <2>1. ASSUME NEW y \in R PROVE SumOver(column[y], U) \in Int
    BY SumType DEF IsTable
  <2> QED
    BY <2>1
<1> HIDE DEF Partial
<1>2. {} \in D
  <2>1. Partial({}) \in [R -> Int] /\ \A y \in R : Partial({})[y] = 0
    BY <1>1, SumEmpty
  <2>2. R \in SUBSET R
    OBVIOUS
  <2> QED
    BY <2>1, <2>2, SumZero
<1>3. ASSUME NEW U \in SUBSET S, NEW x \in S \ U, U \in D PROVE U \cup {x} \in D
  <2>1. PICK V : V = U \cup {x}
    OBVIOUS
  <2>2. V \in SUBSET S
    BY <2>1
  <2>3. PICK p, q, r : p = Partial(U) /\ q = Partial(V) /\ r = row[x]
    OBVIOUS
  <2>4. p \in [R -> Int] /\ q \in [R -> Int] /\ r \in [R -> Int]
    BY <1>1, <2>2, <2>3 DEF IsTable
  <2>5. ASSUME NEW y \in R PROVE q[y] = p[y] + r[y]
    <3>1. PICK c \in [S -> Int] : c = column[y] /\ c[x] = r[y]
      BY <2>3 DEF IsTable
    <3>2. SumOver(c, U \cup {x}) = SumOver(c, U) + c[x]
      BY SumAdd
    <3>3. p[y] = SumOver(c, U) /\ q[y] = SumOver(c, V)
      BY <1>1, <2>2, <2>3, <3>1
    <3>4. SumOver(c, V) = SumOver(c, U \cup {x})
      BY <2>1, Zenon
    <3> QED
      BY <3>1, <3>2, <3>3, <3>4
  <2>6. R \in SUBSET R
    OBVIOUS
  <2>7. SumOver(q, R) = SumOver(p, R) + SumOver(r, R)
    BY <2>4, <2>5, <2>6, SumPlus
  <2>8. SumOver(p, R) = 0 /\ SumOver(r, R) = 0
    BY <1>3, <2>3
  <2> QED
    BY <2>1, <2>2, <2>3, <2>7, <2>8
<1>4. \A U \in SUBSET S : U \in D
  <2> HIDE DEF D
  <2> QED
    BY <1>2, <1>3, SubsetInduction
<1>5. SumOver(Partial(S), R) = 0 /\ \A y \in R : Partial(S)[y] = sums[y]
  BY <1>1, <1>4 DEF IsTable
<1> QED
  BY <1>5, SumEqual
=============================================================================
