------------------------------ MODULE FoldFacts ------------------------------
(***************************************************************************)
(* Induction over finite sets and over the positions of a sequence, and    *)
(* what follows for the folds of the community modules: sums over sets,    *)
(* and the steps of FoldLeft.                                              *)
(*                                                                         *)
(* The library states induction for an operator P(_), which the provers    *)
(* cannot instantiate.  Here the property is a set, that of the values     *)
(* that have it, so that a lemma can be cited as it stands.                *)
(***************************************************************************)
EXTENDS Integers, FiniteSetsExt, FiniteSetTheorems, WellFoundedInduction, TLAPS

-----------------------------------------------------------------------------
(* Induction over finite sets *)

\* A property of the finite sets that a set inherits from the set without one of
\* its elements holds of all; the property is given as the set P of those that have it.
LEMMA FiniteSetInduction ==
  ASSUME NEW S, IsFiniteSet(S), NEW P,
         {} \in P,
         \A T \in SUBSET S : T # {} /\ (\A x \in T : T \ {x} \in P) => T \in P
  PROVE  SUBSET S \subseteq P
<1> DEFINE Bad == (SUBSET S) \ P
<1>1. SUFFICES ASSUME Bad # {} PROVE FALSE
  OBVIOUS
<1>2. Bad \subseteq FiniteSubsetsOf(S)
  BY FS_Subset DEF FiniteSubsetsOf
<1>3. PICK T \in Bad : \A U \in Bad : ~(<<U, T>> \in StrictSubsetOrdering(S))
  <2> HIDE DEF Bad
  <2>1. QED BY <1>1, <1>2, FS_StrictSubsetOrderingWellFounded, WFMin
<1>4. \A x \in T : T \ {x} \in P
  <2>1. SUFFICES ASSUME NEW x \in T, T \ {x} \notin P PROVE FALSE
    OBVIOUS
  <2>2. T \ {x} \in Bad /\ <<T \ {x}, T>> \in StrictSubsetOrdering(S)
    BY <2>1 DEF StrictSubsetOrdering
  <2>3. QED BY <1>3, <2>2
<1>5. QED BY <1>4

\* The values of a recursion over the subsets of S that takes c[T] out of T first.
Recurs(g, S, base, c, F) ==
  \A T \in SUBSET S : g[T] = IF T = {} THEN base ELSE F[<<T, g[T \ {c[T]}]>>]

LEMMA RecursionUnique ==
  ASSUME NEW S, IsFiniteSet(S), NEW base, NEW c, NEW F, NEW g, NEW h,
         \A T \in SUBSET S : T # {} => c[T] \in T,
         Recurs(g, S, base, c, F), Recurs(h, S, base, c, F)
  PROVE  \A T \in SUBSET S : g[T] = h[T]
<1> DEFINE P == {T \in SUBSET S : g[T] = h[T]}
<1>1. {} \in P
  BY DEF Recurs
<1>2. ASSUME NEW T \in SUBSET S, T # {}, \A x \in T : T \ {x} \in P
      PROVE  T \in P
  <2>1. c[T] \in T /\ g[T \ {c[T]}] = h[T \ {c[T]}]
    BY <1>2
  <2>2. g[T] = F[<<T, g[T \ {c[T]}]>>] /\ h[T] = F[<<T, h[T \ {c[T]}]>>]
    BY <1>2 DEF Recurs
  <2>3. QED BY <2>1, <2>2
<1> HIDE DEF P
<1>3. SUBSET S \subseteq P
  BY <1>1, <1>2, FiniteSetInduction
<1>4. QED BY <1>3 DEF P

LEMMA RecursionExists ==
  ASSUME NEW S, IsFiniteSet(S), NEW V, NEW base \in V, NEW c, NEW F,
         \A T \in SUBSET S : T # {} => c[T] \in T,
         \A T \in SUBSET S, v \in V : T # {} => F[<<T, v>>] \in V
  PROVE  \E g \in [SUBSET S -> V] : Recurs(g, S, base, c, F)
<1> DEFINE Sat(g, T) == g \in [SUBSET T -> V] /\ Recurs(g, T, base, c, F)
           P == {T \in SUBSET S : \E g : Sat(g, T)}
           G(T) == CHOOSE g : Sat(g, T)
<1>1. ASSUME NEW T \in P, NEW U \in SUBSET T PROVE U \in P
  <2>1. PICK g : Sat(g, T)
    OBVIOUS
  <2>2. Sat([W \in SUBSET U |-> g[W]], U)
    BY <2>1 DEF Recurs
  <2>3. QED BY <2>2
<1>2. {} \in P
  <2>1. Sat([W \in SUBSET {} |-> base], {})
    BY DEF Recurs
  <2>2. QED BY <2>1
<1>3. ASSUME NEW T \in SUBSET S, T # {}, \A x \in T : T \ {x} \in P
      PROVE  T \in P
  <2> DEFINE Rest(U) == U \ {c[U]}
             h == [U \in SUBSET T |-> IF U = {} THEN base ELSE F[<<U, G(Rest(U))[Rest(U)]>>]]
  <2>1. ASSUME NEW U \in SUBSET T, U # {} PROVE Rest(U) \in P /\ Sat(G(Rest(U)), Rest(U))
    <3>1. c[U] \in T /\ Rest(U) \in SUBSET (T \ {c[U]})
      BY <2>1
    <3>2. T \ {c[U]} \in P
      BY <3>1, <1>3
    <3>3. Rest(U) \in P
      <4> HIDE DEF P
      <4>1. QED BY <3>1, <3>2, <1>1
    <3>4. QED BY <3>3
  <2>2. h \in [SUBSET T -> V]
    <3>1. SUFFICES ASSUME NEW U \in SUBSET T, U # {} PROVE F[<<U, G(Rest(U))[Rest(U)]>>] \in V
      OBVIOUS
    <3>2. G(Rest(U)) \in [SUBSET Rest(U) -> V] /\ Rest(U) \in SUBSET Rest(U)
      BY <2>1, <3>1
    <3> HIDE DEF G, Rest
    <3>3. QED BY <3>1, <3>2
  <2>3. ASSUME NEW U \in SUBSET T, U # {} PROVE h[Rest(U)] = G(Rest(U))[Rest(U)]
    <3> DEFINE W == Rest(U)
    <3>1. W \in SUBSET T /\ Sat(G(W), W) /\ IsFiniteSet(W)
      BY <2>1, <2>3, FS_Subset
    <3>2. CASE W = {}
      <4>1. G(W)[W] = base
        BY <3>1, <3>2 DEF Recurs
      <4>2. h[W] = base
        BY <3>1, <3>2
      <4> HIDE DEF G, h, W
      <4>3. QED BY <4>1, <4>2 DEF W
    <3>3. CASE W # {}
      <4> DEFINE X == Rest(W)
      <4>1. h[W] = F[<<W, G(X)[X]>>]
        BY <3>1, <3>3
      <4>2. G(W)[W] = F[<<W, G(W)[X]>>]
        BY <3>1, <3>3 DEF Recurs
      <4>3. Sat(G(X), X) /\ X \in SUBSET W /\ X \in SUBSET S /\ IsFiniteSet(X)
        BY <2>1, <3>1, <3>3, FS_Subset
      <4>4. Recurs(G(X), X, base, c, F)
        BY <4>3
      <4>5. Recurs(G(W), X, base, c, F)
        BY <3>1, <4>3 DEF Recurs
      <4>6. \A Y \in SUBSET X : Y # {} => c[Y] \in Y
        BY <4>3
      <4> HIDE DEF G, X
      <4>7. G(X)[X] = G(W)[X]
        BY <4>3, <4>4, <4>5, <4>6, RecursionUnique
      <4> HIDE DEF h, W
      <4>8. QED BY <4>1, <4>2, <4>7 DEF W
    <3>4. QED BY <3>2, <3>3
  <2>4. Recurs(h, T, base, c, F)
    <3>1. SUFFICES ASSUME NEW U \in SUBSET T
                   PROVE  h[U] = IF U = {} THEN base ELSE F[<<U, h[Rest(U)]>>]
      BY DEF Recurs
    <3>2. CASE U = {}
      BY <3>2
    <3>3. CASE U # {}
      <4>1. h[U] = F[<<U, G(Rest(U))[Rest(U)]>>]
        BY <3>3
      <4> HIDE DEF h, G, Rest
      <4>2. QED BY <3>3, <4>1, <2>3
    <3>4. QED BY <3>2, <3>3
  <2> HIDE DEF h
  <2>5. QED BY <2>2, <2>4
<1> HIDE DEF P
<1>4. S \in P
  BY <1>2, <1>3, FiniteSetInduction
<1>5. QED BY <1>4 DEF P

-----------------------------------------------------------------------------
(* Sums *)

\* The sum of the values of f over S.
SumOf(f, S) == MapThenSumSet(LAMBDA x : f[x], S)

\* The element that a sum takes first.
First(T) == CHOOSE x \in T : TRUE

SumsUp(g, f, S) == \A T \in SUBSET S : g[T] = IF T = {} THEN 0 ELSE f[First(T)] + g[T \ {First(T)}]

LEMMA SumExists ==
  ASSUME NEW S, IsFiniteSet(S), NEW f, \A x \in S : f[x] \in Int
  PROVE  \E g \in [SUBSET S -> Int] : SumsUp(g, f, S)
<1> DEFINE c == [T \in SUBSET S |-> First(T)]
           F == [p \in (SUBSET S) \X Int |-> f[First(p[1])] + p[2]]
<1>1. \A T \in SUBSET S : T # {} => First(T) \in T
  BY DEF First
<1>2. \A T \in SUBSET S : T # {} => c[T] \in T
  BY <1>1
<1>3. \A T \in SUBSET S, v \in Int : T # {} => F[<<T, v>>] \in Int
  BY <1>1
<1>4. 0 \in Int
  OBVIOUS
<1>5. \A T \in SUBSET S, v \in Int : c[T] = First(T) /\ F[<<T, v>>] = f[First(T)] + v
  OBVIOUS
<1> HIDE DEF c, F
<1>6. PICK g \in [SUBSET S -> Int] : Recurs(g, S, 0, c, F)
  BY <1>2, <1>3, <1>4, RecursionExists
<1>7. SumsUp(g, f, S)
  <2>1. SUFFICES ASSUME NEW T \in SUBSET S, T # {}
                 PROVE  g[T] = f[First(T)] + g[T \ {First(T)}]
    BY <1>6 DEF SumsUp, Recurs
  <2>2. g[T] = F[<<T, g[T \ {c[T]}]>>]
    BY <1>6, <2>1 DEF Recurs
  <2>3. g[T \ {First(T)}] \in Int
    BY <1>6
  <2>4. QED BY <2>2, <2>3, <1>5
<1>8. QED BY <1>6, <1>7

LEMMA SumUnique ==
  ASSUME NEW S, IsFiniteSet(S), NEW f, NEW g, NEW h, NEW e,
         \A x \in S : f[x] = e[x],
         SumsUp(g, f, S), SumsUp(h, e, S)
  PROVE  \A T \in SUBSET S : g[T] = h[T]
<1> DEFINE P == {T \in SUBSET S : g[T] = h[T]}
<1>1. {} \in P
  BY DEF SumsUp
<1>2. ASSUME NEW T \in SUBSET S, T # {}, \A x \in T : T \ {x} \in P
      PROVE  T \in P
  <2>1. First(T) \in T /\ g[T \ {First(T)}] = h[T \ {First(T)}]
    BY <1>2 DEF First
  <2>2. /\ g[T] = f[First(T)] + g[T \ {First(T)}]
        /\ h[T] = e[First(T)] + h[T \ {First(T)}]
    BY <1>2 DEF SumsUp
  <2>3. QED BY <2>1, <2>2
<1> HIDE DEF P
<1>3. SUBSET S \subseteq P
  BY <1>1, <1>2, FiniteSetInduction
<1>4. QED BY <1>3 DEF P

\* The sum is the last value of its recursion.
LEMMA SumIs ==
  ASSUME NEW S, IsFiniteSet(S), NEW f, \A x \in S : f[x] \in Int,
         NEW g, SumsUp(g, f, S)
  PROVE  SumOf(f, S) = g[S]
<1> DEFINE h == CHOOSE h : h = [T \in SUBSET S |-> IF T = {} THEN 0 ELSE f[First(T)] + h[T \ {First(T)}]]
<1>1. SumOf(f, S) = h[S]
  BY DEF SumOf, MapThenSumSet, MapThenFoldSet, First
<1>2. PICK k \in [SUBSET S -> Int] : SumsUp(k, f, S)
  BY SumExists
<1>3. k = [T \in SUBSET S |-> IF T = {} THEN 0 ELSE f[First(T)] + k[T \ {First(T)}]]
  BY <1>2 DEF SumsUp
<1>4. h = [T \in SUBSET S |-> IF T = {} THEN 0 ELSE f[First(T)] + h[T \ {First(T)}]]
  BY <1>3
<1> HIDE DEF h
<1>5. SumsUp(h, f, S)
  BY <1>4 DEF SumsUp
<1>6. h[S] = g[S]
  BY <1>5, SumUnique
<1>7. QED BY <1>1, <1>6

LEMMA SumType ==
  ASSUME NEW S, IsFiniteSet(S), NEW f, \A x \in S : f[x] \in Int
  PROVE  /\ SumOf(f, S) \in Int
         /\ S = {} => SumOf(f, S) = 0
         /\ S # {} => SumOf(f, S) = f[First(S)] + SumOf(f, S \ {First(S)})
<1>1. PICK g \in [SUBSET S -> Int] : SumsUp(g, f, S)
  BY SumExists
<1>2. SumOf(f, S) = g[S]
  BY <1>1, SumIs
<1>3. ASSUME S # {} PROVE SumOf(f, S \ {First(S)}) = g[S \ {First(S)}]
  <2> DEFINE R == S \ {First(S)}
  <2>1. SumsUp(g, f, R) /\ IsFiniteSet(R) /\ \A x \in R : f[x] \in Int
    BY <1>1, FS_Subset DEF SumsUp
  <2> HIDE DEF R
  <2>2. SumOf(f, R) = g[R]
    BY <2>1, SumIs
  <2>3. QED BY <2>2 DEF R
<1>4. QED BY <1>1, <1>2, <1>3 DEF SumsUp

\* Any element may be taken first.
LEMMA SumRemove ==
  ASSUME NEW S, IsFiniteSet(S), NEW f, \A x \in S : f[x] \in Int, NEW y \in S
  PROVE  SumOf(f, S) = f[y] + SumOf(f, S \ {y})
<1> DEFINE P == {T \in SUBSET S : \A x \in T : SumOf(f, T) = f[x] + SumOf(f, T \ {x})}
<1>1. {} \in P
  OBVIOUS
<1>2. ASSUME NEW T \in SUBSET S, T # {}, \A x \in T : T \ {x} \in P
      PROVE  T \in P
  <2>1. \A U \in SUBSET T : IsFiniteSet(U) /\ (\A x \in U : f[x] \in Int)
    BY FS_Subset
  <2> DEFINE z == First(T)
  <2>2. z \in T
    BY <1>2 DEF First
  <2>3. SumOf(f, T) = f[z] + SumOf(f, T \ {z})
    BY <2>1, <1>2, SumType
  <2> HIDE DEF z
  <2>4. ASSUME NEW x \in T PROVE SumOf(f, T) = f[x] + SumOf(f, T \ {x})
    <3>1. CASE x = z
      BY <2>3, <3>1
    <3>2. CASE x # z
      <4>1. SumOf(f, T \ {z}) = f[x] + SumOf(f, (T \ {z}) \ {x})
        BY <1>2, <2>2, <3>2
      <4>2. SumOf(f, T \ {x}) = f[z] + SumOf(f, (T \ {x}) \ {z})
        BY <1>2, <2>2, <3>2
      <4> DEFINE U == (T \ {x}) \ {z}
      <4>3. U = (T \ {z}) \ {x} /\ U \in SUBSET T
        OBVIOUS
      <4>4. SumOf(f, U) \in Int /\ f[x] \in Int /\ f[z] \in Int
        <5> HIDE DEF U
        <5>1. QED BY <2>1, <2>2, <4>3, SumType
      <4>5. SumOf(f, T \ {z}) = f[x] + SumOf(f, U) /\ SumOf(f, T \ {x}) = f[z] + SumOf(f, U)
        BY <4>1, <4>2, <4>3
      <4> HIDE DEF U
      <4>6. QED BY <2>3, <4>4, <4>5
    <3>3. QED BY <3>1, <3>2
  <2>5. QED BY <2>4
<1> HIDE DEF P
<1>3. S \in P
  BY <1>1, <1>2, FiniteSetInduction
<1>4. QED BY <1>3 DEF P

LEMMA SumAdd ==
  ASSUME NEW S, IsFiniteSet(S), NEW f, NEW y, y \notin S, \A x \in S \cup {y} : f[x] \in Int
  PROVE  SumOf(f, S \cup {y}) = SumOf(f, S) + f[y]
<1>1. IsFiniteSet(S \cup {y}) /\ (S \cup {y}) \ {y} = S /\ f[y] \in Int
  BY FS_AddElement
<1>2. SumOf(f, S \cup {y}) = f[y] + SumOf(f, S)
  BY <1>1, SumRemove
<1>3. SumOf(f, S) \in Int
  BY SumType
<1>4. QED BY <1>1, <1>2, <1>3

\* Equal values in sets that correspond to each other have equal sums.
LEMMA SumBijection ==
  ASSUME NEW S, IsFiniteSet(S), NEW R, NEW b \in Bijection(S, R), NEW f, NEW e,
         \A x \in S : f[x] \in Int, \A x \in S : e[b[x]] = f[x]
  PROVE  SumOf(e, R) = SumOf(f, S)
<1> DEFINE img(T) == {b[x] : x \in T}
           P == {T \in SUBSET S : SumOf(e, img(T)) = SumOf(f, T)}
<1>1. {} \in P
  <2>1. img({}) = {}
    OBVIOUS
  <2>2. SumOf(e, {}) = 0 /\ SumOf(f, {}) = 0
    BY FS_EmptySet, SumType
  <2>3. QED BY <2>1, <2>2
<1>2. ASSUME NEW T \in SUBSET S, T # {}, \A x \in T : T \ {x} \in P
      PROVE  T \in P
  <2>1. PICK y \in T : TRUE
    BY <1>2
  <2>2. SumOf(e, img(T \ {y})) = SumOf(f, T \ {y})
    BY <1>2
  <2>3. IsFiniteSet(T) /\ IsFiniteSet(T \ {y})
    BY FS_Subset
  <2>4. b[y] \notin img(T \ {y}) /\ img(T) = img(T \ {y}) \cup {b[y]}
    BY DEF Bijection, Injection, IsInjective
  <2>5. \A z \in img(T \ {y}) \cup {b[y]} : e[z] \in Int
    OBVIOUS
  <2>6. IsFiniteSet(img(T \ {y}))
    <3>1. [x \in T \ {y} |-> b[x]] \in Surjection(T \ {y}, img(T \ {y}))
      BY DEF Surjection
    <3> HIDE DEF img
    <3>2. QED BY <3>1, <2>3, FS_Surjection
  <2> HIDE DEF img, P
  <2>7. SumOf(e, img(T)) = e[b[y]] + SumOf(e, img(T \ {y}))
    <3>1. IsFiniteSet(img(T)) /\ b[y] \in img(T) /\ img(T) \ {b[y]} = img(T \ {y})
      <4>1. IsFiniteSet(img(T \ {y}) \cup {b[y]})
        BY <2>6, FS_AddElement
      <4>2. QED BY <2>4, <4>1
    <3>2. \A x \in img(T) : e[x] \in Int
      BY <2>4, <2>5
    <3>3. SumOf(e, img(T)) = e[b[y]] + SumOf(e, img(T) \ {b[y]})
      BY <3>1, <3>2, SumRemove
    <3>4. QED BY <3>1, <3>3
  <2>8. SumOf(f, T) = f[y] + SumOf(f, T \ {y})
    BY <2>3, SumRemove
  <2>9. SumOf(f, T \ {y}) \in Int /\ f[y] \in Int /\ e[b[y]] = f[y]
    BY <2>3, SumType
  <2>10. QED BY <2>2, <2>7, <2>8, <2>9 DEF P
<1> HIDE DEF P
<1>3. S \in P
  BY <1>1, <1>2, FiniteSetInduction
<1>4. img(S) = R
  BY DEF Bijection, Surjection
<1>5. QED BY <1>3, <1>4 DEF P

LEMMA SumUnion ==
  ASSUME NEW S, IsFiniteSet(S), NEW R, IsFiniteSet(R), S \cap R = {}, NEW f,
         \A x \in S \cup R : f[x] \in Int
  PROVE  SumOf(f, S \cup R) = SumOf(f, S) + SumOf(f, R)
<1> DEFINE P == {T \in SUBSET R : SumOf(f, S \cup T) = SumOf(f, S) + SumOf(f, T)}
<1>1. {} \in P
  <2>1. SumOf(f, {}) = 0 /\ SumOf(f, S) \in Int
    BY FS_EmptySet, SumType
  <2>2. S \cup {} = S
    OBVIOUS
  <2>3. QED BY <2>1, <2>2
<1>2. ASSUME NEW T \in SUBSET R, T # {}, \A x \in T : T \ {x} \in P
      PROVE  T \in P
  <2>1. PICK y \in T : TRUE
    BY <1>2
  <2> DEFINE U == T \ {y}
  <2>2. SumOf(f, S \cup U) = SumOf(f, S) + SumOf(f, U)
    BY <1>2
  <2>3. IsFiniteSet(T) /\ IsFiniteSet(U) /\ IsFiniteSet(S \cup U)
    BY FS_Subset, FS_Union
  <2>4. y \notin S \cup U /\ S \cup T = (S \cup U) \cup {y} /\ T = U \cup {y} /\ y \notin U
    OBVIOUS
  <2>5. \A x \in (S \cup U) \cup {y} : f[x] \in Int
    OBVIOUS
  <2> HIDE DEF P, U
  <2>6. SumOf(f, (S \cup U) \cup {y}) = SumOf(f, S \cup U) + f[y]
    BY <2>3, <2>4, <2>5, SumAdd
  <2>7. SumOf(f, U \cup {y}) = SumOf(f, U) + f[y]
    BY <2>3, <2>4, <2>5, SumAdd
  <2>8. SumOf(f, S) \in Int /\ SumOf(f, U) \in Int /\ f[y] \in Int
    BY <2>3, <2>5, SumType
  <2>9. SumOf(f, S \cup T) = SumOf(f, S) + SumOf(f, T)
    <3>1. SumOf(f, S \cup T) = SumOf(f, S \cup U) + f[y]
      BY <2>4, <2>6
    <3>2. SumOf(f, T) = SumOf(f, U) + f[y]
      BY <2>4, <2>7
    <3>3. QED BY <2>2, <2>8, <3>1, <3>2
  <2>10. QED BY <2>9 DEF P
<1> HIDE DEF P
<1>3. R \in P
  BY <1>1, <1>2, FiniteSetInduction
<1>4. QED BY <1>3 DEF P

-----------------------------------------------------------------------------
(* Folds over sequences *)

LEMMA NatSetInduction ==
  ASSUME NEW n \in Nat, NEW P, 0 \in P, \A i \in 1 .. n : i - 1 \in P => i \in P
  PROVE  0 .. n \subseteq P
<1> DEFINE D == 1 .. n
           Q == {T \in SUBSET D : \A i \in 0 .. n : T = 1 .. i => i \in P}
<1>1. \A i, j \in 0 .. n : 1 .. i = 1 .. j => i = j
  <2>1. SUFFICES ASSUME NEW i \in 0 .. n, NEW j \in 0 .. n, 1 .. i = 1 .. j, i < j PROVE FALSE
    OBVIOUS
  <2>2. j \in 1 .. j /\ j \notin 1 .. i
    BY <2>1
  <2>3. QED BY <2>1, <2>2
<1>2. {} \in Q
  <2>1. \A i \in 0 .. n : {} = 1 .. i => i = 0
    OBVIOUS
  <2>2. QED BY <2>1
<1>3. ASSUME NEW T \in SUBSET D, T # {}, \A x \in T : T \ {x} \in Q
      PROVE  T \in Q
  <2>1. SUFFICES ASSUME NEW i \in 0 .. n, T = 1 .. i PROVE i \in P
    OBVIOUS
  <2>2. i \in 1 .. n /\ i \in T /\ i - 1 \in 0 .. n /\ T \ {i} = 1 .. i - 1
    BY <1>3, <2>1
  <2>3. i - 1 \in P
    BY <1>3, <2>2
  <2>4. QED BY <2>2, <2>3
<1>4. IsFiniteSet(D)
  BY FS_Interval
<1> HIDE DEF D, Q
<1>5. SUBSET D \subseteq Q
  BY <1>2, <1>3, <1>4, FiniteSetInduction
<1>6. ASSUME NEW i \in 0 .. n PROVE i \in P
  <2>1. 1 .. i \in SUBSET D
    BY DEF D
  <2>2. 1 .. i \in Q
    BY <2>1, <1>5
  <2>3. QED BY <2>2 DEF Q
<1>7. QED BY <1>6

LEMMA MaxOf ==
  ASSUME NEW n \in Nat
  PROVE  /\ \A T \in SUBSET (1 .. n) : T # {} => Max(T) \in T
         /\ \A i \in 1 .. n : Max(1 .. i) = i
<1> DEFINE D == 1 .. n
           Q == {T \in SUBSET D : T # {} => \E x \in T : \A y \in T : x >= y}
<1>1. {} \in Q
  OBVIOUS
<1>2. ASSUME NEW T \in SUBSET D, T # {}, \A x \in T : T \ {x} \in Q
      PROVE  T \in Q
  <2>1. PICK z \in T : TRUE
    BY <1>2
  <2>2. CASE T \ {z} = {}
    <3>1. \A y \in T : z >= y
      BY <2>2
    <3>2. QED BY <3>1
  <2>3. CASE T \ {z} # {}
    <3>1. PICK x \in T \ {z} : \A y \in T \ {z} : x >= y
      BY <1>2, <2>3
    <3>2. CASE x >= z
      BY <3>1, <3>2
    <3>3. CASE z > x
      <4>1. \A y \in T : z >= y
        BY <3>1, <3>3
      <4>2. QED BY <4>1
    <3>4. QED BY <3>2, <3>3
  <2>4. QED BY <2>2, <2>3
<1>3. IsFiniteSet(D)
  BY FS_Interval
<1> HIDE DEF D, Q
<1>4. SUBSET D \subseteq Q
  BY <1>1, <1>2, <1>3, FiniteSetInduction
<1>5. \A T \in SUBSET D : T # {} => Max(T) \in T /\ \A y \in T : Max(T) >= y
  BY <1>4 DEF Q, Max
<1>6. ASSUME NEW i \in 1 .. n PROVE Max(1 .. i) = i
  <2>1. 1 .. i \in SUBSET D /\ i \in 1 .. i
    BY DEF D
  <2>2. Max(1 .. i) \in 1 .. i /\ Max(1 .. i) >= i
    BY <1>5, <2>1
  <2>3. QED BY <2>2
<1>7. QED BY <1>5, <1>6 DEF D

\* The recursion of FoldLeft over s, which takes the last position out first.
Folds(g, n, s, base, F) ==
  \A T \in SUBSET (1 .. n) :
    g[T] = IF T = {} THEN base ELSE F[<<g[T \ {Max(T)}], s[Max(T)]>>]

\* The recursion of FoldLeft has a solution, of values in V, for every step function
\* F that stays in V.
LEMMA FoldExists ==
  ASSUME NEW n \in Nat, NEW s, NEW V, NEW base \in V, NEW F,
         \A i \in 1 .. n, v \in V : F[<<v, s[i]>>] \in V
  PROVE  \E g \in [SUBSET (1 .. n) -> V] : Folds(g, n, s, base, F)
<1> DEFINE c == [T \in SUBSET (1 .. n) |-> Max(T)]
           E == [p \in (SUBSET (1 .. n)) \X V |-> F[<<p[2], s[Max(p[1])]>>]]
<1>1. \A T \in SUBSET (1 .. n) : T # {} => Max(T) \in T
  BY MaxOf
<1>2. \A T \in SUBSET (1 .. n) : T # {} => c[T] \in T
  BY <1>1
<1>3. \A T \in SUBSET (1 .. n), v \in V : E[<<T, v>>] = F[<<v, s[Max(T)]>>]
  OBVIOUS
<1>4. \A T \in SUBSET (1 .. n), v \in V : T # {} => E[<<T, v>>] \in V
  BY <1>1, <1>3
<1>5. IsFiniteSet(1 .. n)
  BY FS_Interval
<1>6. \A T \in SUBSET (1 .. n) : c[T] = Max(T)
  OBVIOUS
<1> HIDE DEF c, E
<1>7. PICK g \in [SUBSET (1 .. n) -> V] : Recurs(g, 1 .. n, base, c, E)
  BY <1>2, <1>4, <1>5, RecursionExists
<1>8. ASSUME NEW T \in SUBSET (1 .. n)
      PROVE  g[T] = IF T = {} THEN base ELSE F[<<g[T \ {Max(T)}], s[Max(T)]>>]
  <2>1. CASE T = {}
    BY <1>7, <2>1 DEF Recurs
  <2>2. CASE T # {}
    <3>1. g[T] = E[<<T, g[T \ {Max(T)}]>>]
      BY <1>6, <1>7, <2>2 DEF Recurs
    <3>2. T \ {Max(T)} \in SUBSET (1 .. n)
      OBVIOUS
    <3>3. g[T \ {Max(T)}] \in V
      BY <1>7, <3>2
    <3>4. QED BY <1>3, <2>2, <3>1, <3>3
  <2>3. QED BY <2>1, <2>2
<1>9. QED BY <1>7, <1>8 DEF Folds

\* What a recursion over sets of positions says about the initial segments.
LEMMA FoldSteps ==
  ASSUME NEW n \in Nat, NEW i \in 1 .. n
  PROVE  /\ 1 .. i \in SUBSET (1 .. n) /\ 1 .. i # {} /\ Max(1 .. i) = i
         /\ (1 .. i) \ {Max(1 .. i)} = 1 .. i - 1
<1>1. Max(1 .. i) = i
  BY MaxOf
<1>2. (1 .. i) \ {i} = 1 .. i - 1 /\ i \in 1 .. i
  OBVIOUS
<1>3. QED BY <1>1, <1>2
=============================================================================
