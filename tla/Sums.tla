-------------------------------- MODULE Sums --------------------------------
(***************************************************************************)
(* Sums over finite sets, as MapThenSumSet of the community modules folds   *)
(* them: a sum does not depend on the order in which the fold picks the     *)
(* elements.  The induction over finite sets is on a smallest               *)
(* counterexample.  At the end, three more facts about finite sets.         *)
(***************************************************************************)
EXTENDS Integers, FiniteSets, FiniteSetsExt, FiniteSetTheorems, TLAPS

\* The sum of f over S.
SumOver(f, S) == MapThenSumSet(LAMBDA x : f[x], S)

\* The function the fold computes it with: it takes away one element after the other.
AnyOf(S) == CHOOSE x \in S : TRUE
IsFold(g, f, S) == g = [s \in SUBSET S |-> IF s = {} THEN 0 ELSE f[AnyOf(s)] + g[s \ {AnyOf(s)}]]
FoldOf(f, S) == CHOOSE g : IsFold(g, f, S)

\* The sum is the fold's value at the whole set (MapThenFoldSet).
LEMMA SumIsFold == ASSUME NEW f, NEW S PROVE SumOver(f, S) = FoldOf(f, S)[S]
  BY DEF SumOver, MapThenSumSet, MapThenFoldSet, FoldOf, IsFold, AnyOf

\* Every non-empty collection of finite sets has a smallest member.
LEMMA SmallestSet ==
  ASSUME NEW C, C # {}, \A T \in C : IsFiniteSet(T)
  PROVE  \E T \in C : \A U \in C : ~(U \subseteq T /\ U # T)
<1> DEFINE D == UNION C
<1>1. C \subseteq FiniteSubsetsOf(D)
  BY DEF FiniteSubsetsOf
<1>2. IsWellFoundedOn(StrictSubsetOrdering(D), FiniteSubsetsOf(D))
  BY FS_StrictSubsetOrderingWellFounded
<1>3. \E T \in C : \A U \in C : ~(<<U, T>> \in StrictSubsetOrdering(D))
  BY <1>1, <1>2, WFMin
<1> QED
  BY <1>3 DEF StrictSubsetOrdering

\* The element that is taken away is one of the set.
LEMMA AnyOfIn == ASSUME NEW S, S # {} PROVE AnyOf(S) \in S
  BY DEF AnyOf

\* What a fold has at a set.
LEMMA FoldStep ==
  ASSUME NEW g, NEW f, NEW S, IsFold(g, f, S), NEW T \in SUBSET S
  PROVE  g[T] = IF T = {} THEN 0 ELSE f[AnyOf(T)] + g[T \ {AnyOf(T)}]
<1> DEFINE G(s) == IF s = {} THEN 0 ELSE f[AnyOf(s)] + g[s \ {AnyOf(s)}]
<1>1. g = [s \in SUBSET S |-> G(s)]
  BY DEF IsFold
<1> HIDE DEF G
<1>2. g[T] = G(T)
  BY <1>1
<1> QED
  BY <1>2 DEF G

\* Two folds agree where both are defined.
LEMMA FoldsAgree ==
  ASSUME NEW f, NEW A, NEW B, NEW g, NEW h, IsFold(g, f, A), IsFold(h, f, B),
         NEW W, W \subseteq A, W \subseteq B, IsFiniteSet(W)
  PROVE  g[W] = h[W]
<1> DEFINE C == {U \in SUBSET W : g[U] # h[U]}
<1> SUFFICES ASSUME C # {} PROVE FALSE
  OBVIOUS
<1>1. \A U \in C : IsFiniteSet(U)
  BY FS_Subset
<1>2. PICK T \in C : \A U \in C : ~(U \subseteq T /\ U # T)
  <2> HIDE DEF C
  <2> QED
    BY <1>1, SmallestSet
<1>3. T \in SUBSET A /\ T \in SUBSET B /\ g[T] # h[T]
  OBVIOUS
<1>4. T # {}
  <2> SUFFICES ASSUME T = {} PROVE FALSE
    OBVIOUS
  <2>1. g[T] = 0 /\ h[T] = 0
    BY <1>3, FoldStep
  <2> QED
    BY <1>3, <2>1
<1> DEFINE R == T \ {AnyOf(T)}
<1>5. R \subseteq T /\ R # T
  BY <1>4, AnyOfIn
<1>6. g[R] = h[R]
  BY <1>2, <1>5
<1>7. g[T] = f[AnyOf(T)] + g[R] /\ h[T] = f[AnyOf(T)] + h[R]
  BY <1>3, <1>4, FoldStep
<1> QED
  BY <1>3, <1>6, <1>7

\* Every finite set has its fold.
LEMMA FoldExists ==
  ASSUME NEW f, NEW S, IsFiniteSet(S)
  PROVE  IsFold(FoldOf(f, S), f, S)
<1> DEFINE C == {U \in SUBSET S : ~\E g : IsFold(g, f, U)}
<1>1. C = {}
  <2> SUFFICES ASSUME C # {} PROVE FALSE
    OBVIOUS
  <2>1. \A U \in C : IsFiniteSet(U)
    BY FS_Subset
  <2>2. PICK T \in C : \A U \in C : ~(U \subseteq T /\ U # T)
    <3> HIDE DEF C
    <3> QED
      BY <2>1, SmallestSet
  <2>3. \A U : U \subseteq T /\ U # T => IsFold(FoldOf(f, U), f, U) /\ IsFiniteSet(U)
    <3> TAKE U
    <3> HAVE U \subseteq T /\ U # T
    <3>1. U \in SUBSET S /\ U \notin C
      BY <2>2
    <3>2. \E g : IsFold(g, f, U)
      BY <3>1
    <3> QED
      BY <3>1, <3>2, FS_Subset DEF FoldOf
  <2> DEFINE Val(U) == FoldOf(f, U)[U]
             G(s) == IF s = {} THEN 0 ELSE f[AnyOf(s)] + Val(s \ {AnyOf(s)})
             g == [s \in SUBSET T |-> G(s)]
  <2>4. \A U : U \subseteq T /\ U # T => Val(U) = G(U)
    <3> TAKE U
    <3> HAVE U \subseteq T /\ U # T
    <3> DEFINE h == FoldOf(f, U)
               W == U \ {AnyOf(U)}
    <3>1. IsFold(h, f, U)
      BY <2>3
    <3>2. h[U] = IF U = {} THEN 0 ELSE f[AnyOf(U)] + h[W]
      BY <3>1, FoldStep
    <3>3. CASE U = {}
      BY <3>2, <3>3
    <3>4. CASE U # {}
      <4>1. W \subseteq U /\ W \subseteq T /\ W # T
        BY <3>4, AnyOfIn
      <4>2. IsFold(FoldOf(f, W), f, W) /\ IsFiniteSet(W)
        BY <2>3, <4>1
      <4>3. h[W] = Val(W)
        <5> HIDE DEF h, W
        <5> QED
          BY <3>1, <4>1, <4>2, FoldsAgree
      <4> QED
        BY <3>2, <3>4, <4>3
    <3> QED
      BY <3>3, <3>4
  <2>5. \A s \in SUBSET T : g[s] = IF s = {} THEN 0 ELSE f[AnyOf(s)] + g[s \ {AnyOf(s)}]
    <3> TAKE s \in SUBSET T
    <3>1. CASE s = {}
      BY <3>1
    <3>2. CASE s # {}
      <4> DEFINE W == s \ {AnyOf(s)}
      <4>1. W \subseteq T /\ W # T
        BY <3>2, AnyOfIn
      <4>2. g[W] = G(W) /\ Val(W) = G(W)
        <5>1. Val(W) = G(W)
          <6> HIDE DEF W, Val, G
          <6> QED
            BY <2>4, <4>1
        <5>2. g[W] = G(W)
          <6> HIDE DEF W, G
          <6> QED
            BY <4>1
        <5> QED
          BY <5>1, <5>2
      <4>3. g[s] = f[AnyOf(s)] + Val(W)
        BY <3>2
      <4> QED
        BY <3>2, <4>2, <4>3
    <3> QED
      BY <3>1, <3>2
  <2>6. IsFold(g, f, T)
    <3> HIDE DEF G
    <3>1. g = [s \in SUBSET T |-> g[s]]
      OBVIOUS
    <3> HIDE DEF g
    <3> QED
      BY <2>5, <3>1 DEF IsFold
  <2> QED
    BY <2>2, <2>6
<1>2. \E g : IsFold(g, f, S)
  BY <1>1
<1> QED
  BY <1>2 DEF FoldOf

\* The sum of nothing is zero.
LEMMA SumEmpty == ASSUME NEW f PROVE SumOver(f, {}) = 0
<1>1. IsFold(FoldOf(f, {}), f, {})
  BY FoldExists, FS_EmptySet
<1> QED
  BY <1>1, FoldStep, SumIsFold

\* What the fold adds up: the element it takes away and the sum of the others.
LEMMA SumStep ==
  ASSUME NEW f, NEW S, IsFiniteSet(S), S # {}
  PROVE  SumOver(f, S) = f[AnyOf(S)] + SumOver(f, S \ {AnyOf(S)})
<1> DEFINE g == FoldOf(f, S)
           R == S \ {AnyOf(S)}
           h == FoldOf(f, R)
<1>1. IsFiniteSet(R) /\ R \subseteq S
  BY FS_Subset
<1>2. IsFold(g, f, S) /\ IsFold(h, f, R)
  BY <1>1, FoldExists
<1>3. g[S] = f[AnyOf(S)] + g[R]
  BY <1>2, FoldStep
<1>4. g[R] = h[R]
  <2> HIDE DEF g, h, R
  <2> QED
    BY <1>1, <1>2, FoldsAgree
<1> QED
  BY <1>3, <1>4, SumIsFold

\* A sum of integers is an integer.
LEMMA SumType ==
  ASSUME NEW f, NEW S, IsFiniteSet(S), \A x \in S : f[x] \in Int
  PROVE  SumOver(f, S) \in Int
<1> DEFINE C == {U \in SUBSET S : SumOver(f, U) \notin Int}
<1> SUFFICES ASSUME C # {} PROVE FALSE
  OBVIOUS
<1>1. \A U \in C : IsFiniteSet(U)
  BY FS_Subset
<1>2. PICK T \in C : \A U \in C : ~(U \subseteq T /\ U # T)
  <2> HIDE DEF C
  <2> QED
    BY <1>1, SmallestSet
<1>3. T # {}
  <2>1. SumOver(f, {}) \in Int
    BY SumEmpty
  <2> QED
    BY <2>1
<1> DEFINE R == T \ {AnyOf(T)}
<1>4. AnyOf(T) \in T /\ R \subseteq T /\ R # T
  BY <1>3, AnyOfIn
<1>5. SumOver(f, R) \in Int
  BY <1>2, <1>4
<1>6. SumOver(f, T) = f[AnyOf(T)] + SumOver(f, R)
  BY <1>1, <1>3, SumStep
<1> QED
  BY <1>4, <1>5, <1>6

\* A sum is any of its terms and the sum of the others, in whatever order it is taken.
LEMMA SumSplit ==
  ASSUME NEW f, NEW S, IsFiniteSet(S), \A x \in S : f[x] \in Int, NEW e \in S
  PROVE  SumOver(f, S) = f[e] + SumOver(f, S \ {e})
<1> DEFINE C == {U \in SUBSET S : \E x \in U : SumOver(f, U) # f[x] + SumOver(f, U \ {x})}
<1>1. C = {}
  <2> SUFFICES ASSUME C # {} PROVE FALSE
    OBVIOUS
  <2>1. \A U \in C : IsFiniteSet(U)
    BY FS_Subset
  <2>2. PICK T \in C : \A U \in C : ~(U \subseteq T /\ U # T)
    <3> HIDE DEF C
    <3> QED
      BY <2>1, SmallestSet
  <2>3. PICK x \in T : SumOver(f, T) # f[x] + SumOver(f, T \ {x})
    BY <2>2
  <2> DEFINE y == AnyOf(T)
             R == T \ {x, y}
  <2>4. y \in T /\ T \subseteq S /\ IsFiniteSet(T)
    BY <2>1, <2>3, AnyOfIn
  <2>5. SumOver(f, T) = f[y] + SumOver(f, T \ {y})
    BY <2>3, <2>4, SumStep
  <2>6. x # y
    BY <2>3, <2>5
  <2> DEFINE A == T \ {y}
             B == T \ {x}
  <2>7. /\ A \in SUBSET S /\ x \in A /\ A \notin C /\ A \ {x} = R
        /\ B \in SUBSET S /\ y \in B /\ B \notin C /\ B \ {y} = R
    BY <2>2, <2>3, <2>4, <2>6
  <2>8. SumOver(f, A) = f[x] + SumOver(f, R)
    <3>1. SumOver(f, A) = f[x] + SumOver(f, A \ {x})
      <4> HIDE DEF A
      <4> QED
        BY <2>7
    <3> HIDE DEF A, R
    <3> QED
      BY <2>7, <3>1
  <2>9. SumOver(f, B) = f[y] + SumOver(f, R)
    <3>1. SumOver(f, B) = f[y] + SumOver(f, B \ {y})
      <4> HIDE DEF B
      <4> QED
        BY <2>7
    <3> HIDE DEF B, R
    <3> QED
      BY <2>7, <3>1
  <2>10. SumOver(f, R) \in Int /\ f[x] \in Int /\ f[y] \in Int
    <3>1. IsFiniteSet(R)
      BY <2>4, FS_Subset
    <3> QED
      BY <2>3, <2>4, <3>1, SumType
  <2> HIDE DEF A, B, R, y
  <2>11. SumOver(f, T) # f[x] + SumOver(f, B) /\ SumOver(f, T) = f[y] + SumOver(f, A)
    BY <2>3, <2>5 DEF A, B
  <2> QED
    BY <2>8, <2>9, <2>10, <2>11
<1> QED
  BY <1>1

\* A new term is added to the sum.
LEMMA SumAdd ==
  ASSUME NEW f, NEW S, IsFiniteSet(S), \A x \in S : f[x] \in Int, NEW e, e \notin S, f[e] \in Int
  PROVE  SumOver(f, S \cup {e}) = SumOver(f, S) + f[e]
<1> DEFINE A == S \cup {e}
           R == A \ {e}
<1>1. IsFiniteSet(A) /\ e \in A /\ (\A x \in A : f[x] \in Int) /\ R = S
  BY FS_AddElement
<1> HIDE DEF A
<1>2. SumOver(f, A) = f[e] + SumOver(f, R)
  BY <1>1, SumSplit
<1>3. SumOver(f, S) \in Int
  BY SumType
<1>4. SumOver(f, A) = SumOver(f, S) + f[e]
  <2> HIDE DEF R
  <2> QED
    BY <1>1, <1>2, <1>3
<1> QED
  BY <1>4 DEF A

\* Only the terms matter.
LEMMA SumSame ==
  ASSUME NEW f, NEW g, NEW S, IsFiniteSet(S), \A x \in S : f[x] = g[x]
  PROVE  SumOver(f, S) = SumOver(g, S)
<1> DEFINE C == {U \in SUBSET S : SumOver(f, U) # SumOver(g, U)}
<1> SUFFICES ASSUME C # {} PROVE FALSE
  OBVIOUS
<1>1. \A U \in C : IsFiniteSet(U)
  BY FS_Subset
<1>2. PICK T \in C : \A U \in C : ~(U \subseteq T /\ U # T)
  <2> HIDE DEF C
  <2> QED
    BY <1>1, SmallestSet
<1>3. T # {}
  <2>1. SumOver(f, {}) = 0 /\ SumOver(g, {}) = 0
    BY SumEmpty
  <2> QED
    BY <2>1
<1> DEFINE R == T \ {AnyOf(T)}
<1>4. AnyOf(T) \in T /\ R \subseteq T /\ R # T
  BY <1>3, AnyOfIn
<1>5. SumOver(f, R) = SumOver(g, R)
  BY <1>2, <1>4
<1>6. SumOver(f, T) = f[AnyOf(T)] + SumOver(f, R) /\ SumOver(g, T) = g[AnyOf(T)] + SumOver(g, R)
  BY <1>1, <1>3, SumStep
<1> QED
  BY <1>4, <1>5, <1>6

\* A sum of terms that are not negative is not, and a part of it is not more than the whole.
LEMMA SumPart ==
  ASSUME NEW f, NEW S, IsFiniteSet(S), \A x \in S : f[x] \in Nat, NEW P \in SUBSET S
  PROVE  SumOver(f, P) \in Nat /\ SumOver(f, S) \in Nat /\ SumOver(f, P) <= SumOver(f, S)
<1> DEFINE C == {U \in SUBSET S : P \subseteq U /\ ~(SumOver(f, P) <= SumOver(f, U))}
           N == {U \in SUBSET S : SumOver(f, U) \notin Nat}
<1>1. \A U \in SUBSET S : IsFiniteSet(U) /\ SumOver(f, U) \in Int
  <2> TAKE U \in SUBSET S
  <2>1. IsFiniteSet(U)
    BY FS_Subset
  <2> QED
    BY <2>1, SumType
<1>2. \A U \in SUBSET S : \A x \in U : SumOver(f, U) = f[x] + SumOver(f, U \ {x})
  <2> TAKE U \in SUBSET S
  <2> TAKE x \in U
  <2>1. IsFiniteSet(U) /\ \A y \in U : f[y] \in Int
    BY <1>1
  <2> QED
    BY <2>1, SumSplit
<1>3. N = {}
  <2> SUFFICES ASSUME N # {} PROVE FALSE
    OBVIOUS
  <2>1. PICK T \in N : \A U \in N : ~(U \subseteq T /\ U # T)
    <3>1. \A U \in N : IsFiniteSet(U)
      BY <1>1
    <3> HIDE DEF N
    <3> QED
      BY <3>1, SmallestSet
  <2>2. T # {}
    <3>1. SumOver(f, {}) \in Nat
      BY SumEmpty
    <3> QED
      BY <3>1
  <2>3. PICK x \in T : TRUE
    BY <2>2
  <2>4. SumOver(f, T \ {x}) \in Nat /\ f[x] \in Nat
    BY <2>1, <2>3
  <2> QED
    BY <1>2, <2>3, <2>4
<1>4. C = {}
  <2> SUFFICES ASSUME C # {} PROVE FALSE
    OBVIOUS
  <2>1. PICK T \in C : \A U \in C : ~(U \subseteq T /\ U # T)
    <3>1. \A U \in C : IsFiniteSet(U)
      BY <1>1
    <3> HIDE DEF C
    <3> QED
      BY <3>1, SmallestSet
  <2>2. T # P
    BY <1>1
  <2>3. PICK x \in T : x \notin P
    BY <2>1, <2>2
  <2>4. T \ {x} \in SUBSET S /\ P \subseteq T \ {x} /\ T \ {x} # T
    BY <2>1, <2>3
  <2>5. SumOver(f, P) <= SumOver(f, T \ {x}) /\ f[x] \in Nat
    BY <2>1, <2>3, <2>4
  <2>6. SumOver(f, T) = f[x] + SumOver(f, T \ {x})
    BY <1>2, <2>3
  <2> QED
    BY <1>1, <2>1, <2>4, <2>5, <2>6
<1> QED
  BY <1>3, <1>4

\* The sum over two sets that share no element is the sum of both sums.
LEMMA SumUnion ==
  ASSUME NEW f, NEW A, NEW B, IsFiniteSet(A), IsFiniteSet(B), A \cap B = {},
         \A x \in A \cup B : f[x] \in Int
  PROVE  SumOver(f, A \cup B) = SumOver(f, A) + SumOver(f, B)
<1> DEFINE C == {U \in SUBSET B : SumOver(f, A \cup U) # SumOver(f, A) + SumOver(f, U)}
<1> SUFFICES ASSUME C # {} PROVE FALSE
  OBVIOUS
<1>1. \A U \in C : IsFiniteSet(U)
  BY FS_Subset
<1>2. PICK T \in C : \A U \in C : ~(U \subseteq T /\ U # T)
  <2> HIDE DEF C
  <2> QED
    BY <1>1, SmallestSet
<1>3. IsFiniteSet(T) /\ T \subseteq B /\ SumOver(f, A \cup T) # SumOver(f, A) + SumOver(f, T)
  BY <1>1
<1>4. T # {}
  <2> SUFFICES ASSUME T = {} PROVE FALSE
    OBVIOUS
  <2>1. A \cup T = A /\ SumOver(f, T) = 0 /\ SumOver(f, A) \in Int
    BY SumEmpty, SumType
  <2> DEFINE V == A \cup T
  <2>2. V = A /\ SumOver(f, V) # SumOver(f, A) + SumOver(f, T)
    BY <1>3, <2>1
  <2> HIDE DEF V
  <2> QED
    BY <2>1, <2>2
<1>5. PICK e \in T : TRUE
  BY <1>4
<1> DEFINE R == T \ {e}
           V == A \cup R
           W == A \cup T
<1>6. R \subseteq T /\ R # T /\ e \notin V /\ V \cup {e} = W /\ R \in SUBSET B /\ f[e] \in Int
  BY <1>3, <1>5
<1>7. IsFiniteSet(R) /\ IsFiniteSet(V) /\ \A x \in V : f[x] \in Int
  BY <1>3, <1>6, FS_Subset, FS_Union
<1>8. SumOver(f, V) = SumOver(f, A) + SumOver(f, R)
  BY <1>2, <1>6
<1>9. SumOver(f, T) = f[e] + SumOver(f, R)
  <2>1. \A x \in T : f[x] \in Int
    BY <1>3
  <2> QED
    BY <1>3, <1>5, <2>1, SumSplit
<1>10. SumOver(f, W) = SumOver(f, V) + f[e]
  <2> DEFINE X == V \cup {e}
  <2>1. SumOver(f, X) = SumOver(f, V) + f[e]
    <3> HIDE DEF V
    <3> QED
      BY <1>6, <1>7, SumAdd
  <2>2. X = W
    BY <1>6
  <2> HIDE DEF X, W, V
  <2> QED
    BY <2>1, <2>2
<1>11. SumOver(f, A) \in Int /\ SumOver(f, R) \in Int
  <2>1. \A x \in R : f[x] \in Int
    BY <1>6
  <2> QED
    BY <1>7, <2>1, SumType
<1>12. SumOver(f, W) # SumOver(f, A) + SumOver(f, T)
  BY <1>3
<1> HIDE DEF V, W, R
<1> QED
  BY <1>6, <1>8, <1>9, <1>10, <1>11, <1>12

\* A function that changes at one element changes the sum by as much.
LEMMA SumChange ==
  ASSUME NEW f, NEW g, NEW S, IsFiniteSet(S), \A x \in S : f[x] \in Int, NEW e \in S, g[e] \in Int,
         \A x \in S \ {e} : g[x] = f[x]
  PROVE  /\ SumOver(g, S) = (SumOver(f, S) - f[e]) + g[e]
         /\ \A A \in SUBSET S : e \notin A => SumOver(g, A) = SumOver(f, A)
<1>1. ASSUME NEW A \in SUBSET S, e \notin A PROVE SumOver(g, A) = SumOver(f, A)
  <2>1. IsFiniteSet(A) /\ \A x \in A : g[x] = f[x]
    BY <1>1, FS_Subset
  <2> QED
    BY <2>1, SumSame
<1> DEFINE R == S \ {e}
<1>2. IsFiniteSet(R) /\ \A x \in S : g[x] \in Int
  BY FS_Subset
<1>3. SumOver(f, S) = f[e] + SumOver(f, R) /\ SumOver(g, S) = g[e] + SumOver(g, R)
  BY <1>2, SumSplit
<1>4. SumOver(g, R) = SumOver(f, R) /\ SumOver(f, R) \in Int
  BY <1>1, <1>2, SumType
<1>5. SumOver(g, S) = (SumOver(f, S) - f[e]) + g[e]
  <2> HIDE DEF R
  <2> QED
    BY <1>3, <1>4
<1> QED
  BY <1>1, <1>5

\* Nothing adds up to nothing.
LEMMA SumZero ==
  ASSUME NEW f, NEW S, IsFiniteSet(S), \A x \in S : f[x] = 0
  PROVE  SumOver(f, S) = 0
<1> DEFINE C == {U \in SUBSET S : SumOver(f, U) # 0}
<1> SUFFICES ASSUME C # {} PROVE FALSE
  OBVIOUS
<1>1. \A U \in C : IsFiniteSet(U)
  BY FS_Subset
<1>2. PICK T \in C : \A U \in C : ~(U \subseteq T /\ U # T)
  <2> HIDE DEF C
  <2> QED
    BY <1>1, SmallestSet
<1>3. T # {}
  BY SumEmpty
<1> DEFINE e == AnyOf(T)
           R == T \ {e}
<1>4. e \in T /\ SumOver(f, T) = f[e] + SumOver(f, R)
  BY <1>1, <1>3, AnyOfIn, SumStep
<1>5. R \subseteq T /\ R # T /\ R \in SUBSET S
  BY <1>4
<1>6. SumOver(f, R) = 0
  BY <1>2, <1>5
<1> HIDE DEF e, R
<1>7. f[e] = 0
  BY <1>4
<1> QED
  BY <1>4, <1>6, <1>7

\* The sum of the sums of two functions is the sum of what they have together.
LEMMA SumPlus ==
  ASSUME NEW f, NEW g, NEW h, NEW S, IsFiniteSet(S),
         \A x \in S : f[x] \in Int /\ g[x] \in Int /\ h[x] = f[x] + g[x]
  PROVE  SumOver(h, S) = SumOver(f, S) + SumOver(g, S)
<1> DEFINE C == {U \in SUBSET S : SumOver(h, U) # SumOver(f, U) + SumOver(g, U)}
<1> SUFFICES ASSUME C # {} PROVE FALSE
  OBVIOUS
<1>1. \A U \in C : IsFiniteSet(U)
  BY FS_Subset
<1>2. PICK T \in C : \A U \in C : ~(U \subseteq T /\ U # T)
  <2> HIDE DEF C
  <2> QED
    BY <1>1, SmallestSet
<1>3. T # {}
  <2>1. SumOver(f, {}) = 0 /\ SumOver(g, {}) = 0 /\ SumOver(h, {}) = 0
    BY SumEmpty
  <2>2. SumOver(h, {}) = SumOver(f, {}) + SumOver(g, {})
    BY <2>1
  <2> QED
    BY <2>2
<1> DEFINE e == AnyOf(T)
           R == T \ {e}
<1>4. e \in S /\ R \subseteq T /\ R # T /\ R \subseteq S /\ IsFiniteSet(R)
  BY <1>1, <1>3, AnyOfIn, FS_Subset
<1>5. SumOver(h, R) = SumOver(f, R) + SumOver(g, R)
  BY <1>2, <1>4
<1>6. /\ SumOver(f, T) = f[e] + SumOver(f, R) /\ SumOver(g, T) = g[e] + SumOver(g, R)
      /\ SumOver(h, T) = h[e] + SumOver(h, R)
  BY <1>1, <1>3, SumStep
<1>7. SumOver(f, R) \in Int /\ SumOver(g, R) \in Int /\ f[e] \in Int /\ g[e] \in Int /\ h[e] = f[e] + g[e]
  BY <1>4, SumType
<1>8. SumOver(h, T) = SumOver(f, T) + SumOver(g, T)
  <2> HIDE DEF e, R
  <2> QED
    BY <1>5, <1>6, <1>7
<1> QED
  BY <1>8

-----------------------------------------------------------------------------
\* A finite set of integers that is not empty has a least element.
LEMMA LeastExists ==
  ASSUME NEW S, IsFiniteSet(S), S \subseteq Int, S # {}
  PROVE  \E x \in S : \A y \in S : x <= y
<1> DEFINE Least(T) == \E x \in T : \A y \in T : x <= y
           C == {T \in SUBSET S : T # {} /\ ~Least(T)}
<1>1. C = {}
  <2> SUFFICES ASSUME C # {} PROVE FALSE
    OBVIOUS
  <2>1. \A T \in C : IsFiniteSet(T)
    BY FS_Subset
  <2>2. PICK T \in C : \A U \in C : ~(U \subseteq T /\ U # T)
    <3> HIDE DEF C
    <3> QED
      BY <2>1, SmallestSet
  <2>3. PICK x \in T : TRUE
    OBVIOUS
  <2>4. T \ {x} \notin C
    BY <2>2, <2>3
  <2>5. CASE T \ {x} = {}
    BY <2>3, <2>5
  <2>6. CASE T \ {x} # {}
    <3>1. PICK z \in T \ {x} : \A y \in T \ {x} : z <= y
      BY <2>4, <2>6
    <3>2. x \in Int /\ z \in Int /\ \A y \in T : y \in Int
      BY <2>3, <3>1
    <3>3. CASE x <= z
      BY <2>3, <3>1, <3>2, <3>3
    <3>4. CASE ~(x <= z)
      BY <2>3, <3>1, <3>2, <3>4
    <3> QED
      BY <3>3, <3>4
  <2> QED
    BY <2>5, <2>6
<1>2. Least(S)
  BY <1>1
<1> QED
  BY <1>2

\* It is the one Min chooses.
LEMMA LeastOf ==
  ASSUME NEW S, IsFiniteSet(S), S \subseteq Int, S # {}
  PROVE  Min(S) \in S
BY LeastExists DEF Min

\* The images of a finite set are finitely many.
LEMMA FiniteImage ==
  ASSUME NEW S, IsFiniteSet(S), NEW g
  PROVE  IsFiniteSet({g[s] : s \in S})
<1> DEFINE T == {g[s] : s \in S}
           h == [s \in S |-> g[s]]
<1>1. h \in Surjection(S, T)
  BY DEF Surjection
<1> QED
  BY <1>1, FS_Surjection

\* A finite set of integers that is not empty has a greatest element.
LEMMA GreatestOf ==
  ASSUME NEW S, IsFiniteSet(S), S \subseteq Int, S # {}
  PROVE  Max(S) \in S
<1> DEFINE minus == [x \in S |-> -x]
           T == {minus[x] : x \in S}
<1>1. IsFiniteSet(T)
  <2> HIDE DEF minus
  <2> QED
    BY FiniteImage
<1>2. T \subseteq Int /\ T # {}
  <2>1. \A x \in S : minus[x] \in Int /\ minus[x] \in T
    OBVIOUS
  <2> HIDE DEF minus
  <2> QED
    BY <2>1
<1>3. Min(T) \in T /\ \A y \in T : Min(T) <= y
  <2>1. Min(T) \in T
    BY <1>1, <1>2, LeastOf
  <2>2. \E x \in T : \A y \in T : x <= y
    BY <1>1, <1>2, LeastExists
  <2> QED
    BY <2>1, <2>2 DEF Min
<1>4. PICK x \in S : Min(T) = -x
  BY <1>3
<1>5. \A y \in S : x >= y
  <2> TAKE y \in S
  <2>1. minus[y] \in T /\ minus[y] = -y
    OBVIOUS
  <2>2. -x <= -y /\ x \in Int /\ y \in Int
    BY <1>3, <1>4, <2>1
  <2> QED
    BY <2>2
<1> QED
  BY <1>4, <1>5 DEF Max

=============================================================================
