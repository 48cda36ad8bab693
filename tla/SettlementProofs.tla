-------------------------- MODULE SettlementProofs --------------------------
(***************************************************************************)
(* Theorems about Settlement, for any sales, prices, servers and days, and *)
(* any VAT and fee that leave half of a price: the amounts of a purchase   *)
(* add up to the cent, settlements cover their days, and the four reports  *)
(* tell the same story.                                                    *)
(*                                                                         *)
(* The first part is about sums over finite sets in general, which the     *)
(* second needs.  Neither TLA+ nor its library has theorems about them.    *)
(***************************************************************************)
EXTENDS Settlement, FiniteSetTheorems, TLAPS

-----------------------------------------------------------------------------
\* Sums over finite sets.

\* Induction on finite sets, for a set G of sets in place of a predicate.
\* Among subsets of a finite set there is one with none below it.
LEMMA LeastSubset ==
  ASSUME NEW S, IsFiniteSet(S), NEW W \in SUBSET (SUBSET S), W # {}
  PROVE  \E T \in W : \A U \in W : U \subseteq T => U = T
<1>1. IsWellFoundedOn(StrictSubsetOrdering(S), FiniteSubsetsOf(S))
  BY FS_StrictSubsetOrderingWellFounded
<1>2. FiniteSubsetsOf(S) = SUBSET S
  BY FS_FiniteSubsetsOfFinite
<1> DEFINE R == StrictSubsetOrdering(S)
<1> HIDE DEF R
<1>3. \E T \in W : \A U \in W : ~ (<<U, T>> \in R)
  BY <1>1, <1>2, WFMin DEF R
<1>4. \A T, U \in SUBSET S : U \subseteq T /\ U # T => <<U, T>> \in R
  BY DEF R, StrictSubsetOrdering
<1>5. QED
  BY <1>3, <1>4

\* A set G that has {}, and each set it has all predecessors of, has S.
LEMMA FiniteInduction ==
  ASSUME NEW S, IsFiniteSet(S), NEW G,
         {} \in G,
         \A T \in SUBSET S : T # {} /\ (\A x \in T : T \ {x} \in G) => T \in G
  PROVE  S \in G
<1> DEFINE W == {T \in SUBSET S : T \notin G}
<1> SUFFICES ASSUME S \notin G PROVE FALSE
  OBVIOUS
<1>1. W # {} /\ W \in SUBSET (SUBSET S)
  OBVIOUS
<1> HIDE DEF W
<1>2. PICK T \in W : \A U \in W : U \subseteq T => U = T
  BY <1>1, LeastSubset
<1>3. T \in SUBSET S /\ T \notin G
  BY <1>2 DEF W
<1>4. \A x \in T : T \ {x} \in G
  BY <1>2, <1>3 DEF W
<1>5. QED
  BY <1>3, <1>4

\* How MapThenFoldSet defines a sum: the entries of a table of all subsets.
Pick(s) == CHOOSE x \in s : TRUE
Solves(g, f, S) ==
  g = [s \in SUBSET S |-> IF s = {} THEN 0 ELSE f[Pick(s)] + g[s \ {Pick(s)}]]
Solution(f, S) == CHOOSE g : Solves(g, f, S)

\* The sum is the last entry of the table.
LEMMA SumIsSolution ==
  ASSUME NEW f, NEW S
  PROVE  SumFunctionOnSet(f, S) = Solution(f, S)[S]
  BY DEF Solution, Solves, Pick, SumFunctionOnSet, FoldFunctionOnSet, MapThenFoldSet

\* Which element the fold takes first does not matter, only that it is one.
LEMMA PickIn ==
  ASSUME NEW s, s # {}
  PROVE  Pick(s) \in s
  BY DEF Pick

\* Two tables agree wherever both are defined.
LEMMA SolutionsAgree ==
  ASSUME NEW f, NEW S, IsFiniteSet(S), NEW T, S \subseteq T,
         NEW g, Solves(g, f, S), NEW h, Solves(h, f, T)
  PROVE  g[S] = h[S]
<1> DEFINE G == {U \in SUBSET S : g[U] = h[U]}
<1>1. {} \in G
  BY DEF Solves
<1>2. ASSUME NEW U \in SUBSET S, U # {}, \A x \in U : U \ {x} \in G
      PROVE  U \in G
  <2>1. Pick(U) \in U
    BY <1>2, PickIn
  <2>2. g[U \ {Pick(U)}] = h[U \ {Pick(U)}]
    BY <1>2, <2>1
  <2>3. g[U] = f[Pick(U)] + g[U \ {Pick(U)}]
    BY <1>2 DEF Solves
  <2>4. h[U] = f[Pick(U)] + h[U \ {Pick(U)}]
    BY <1>2 DEF Solves
  <2>5. QED
    BY <2>2, <2>3, <2>4
<1> HIDE DEF G
<1>3. S \in G
  BY <1>1, <1>2, FiniteInduction
<1>4. QED
  BY <1>3 DEF G

\* A table of S is one of each subset.
LEMMA SolutionRestricts ==
  ASSUME NEW f, NEW T, NEW S \in SUBSET T, NEW g, Solves(g, f, T)
  PROVE  Solves([s \in SUBSET S |-> g[s]], f, S)
<1> DEFINE h == [s \in SUBSET S |-> g[s]]
<1>1. \A s \in SUBSET S : s \ {Pick(s)} \in SUBSET S
  OBVIOUS
<1>2. \A s \in SUBSET S : h[s] = IF s = {} THEN 0 ELSE f[Pick(s)] + h[s \ {Pick(s)}]
  BY <1>1 DEF Solves
<1>3. QED
  BY <1>2 DEF Solves

\* If there is a table, the sum takes one element and goes on with the rest.
LEMMA SolutionStep ==
  ASSUME NEW f, NEW S, IsFiniteSet(S), S # {}, \E g : Solves(g, f, S)
  PROVE  SumFunctionOnSet(f, S) = f[Pick(S)] + SumFunctionOnSet(f, S \ {Pick(S)})
<1> DEFINE R == S \ {Pick(S)}
           g == Solution(f, S)
           h == [s \in SUBSET R |-> g[s]]
<1>1. Solves(g, f, S)
  BY DEF Solution
<1> HIDE DEF g
<1>2. Solves(h, f, R)
  BY <1>1, SolutionRestricts
<1>3. Solves(Solution(f, R), f, R)
  <2> HIDE DEF h
  <2>1. QED
    BY <1>2 DEF Solution
<1>4. IsFiniteSet(R)
  BY FS_Subset
<1>5. Solution(f, R)[R] = g[R]
  BY <1>1, <1>3, <1>4, SolutionsAgree
<1>6. g[S] = f[Pick(S)] + g[R]
  BY <1>1 DEF Solves
<1>7. QED
  BY <1>5, <1>6, SumIsSolution DEF g

\* There is a table for every finite set.
LEMMA SolutionExists ==
  ASSUME NEW f, NEW S, IsFiniteSet(S)
  PROVE  \E g : Solves(g, f, S)
<1> DEFINE G == {T \in SUBSET S : \A U \in SUBSET T : \E g : Solves(g, f, U)}
<1>1. {} \in G
  <2>1. Solves([s \in SUBSET {} |-> 0], f, {})
    BY DEF Solves
  <2>2. QED
    BY <2>1
<1>2. ASSUME NEW T \in SUBSET S, T # {}, \A x \in T : T \ {x} \in G
      PROVE  T \in G
  <2>1. \A U \in SUBSET T : U # T => \E g : Solves(g, f, U)
    <3>1. \A U \in SUBSET T : U # T => \E x \in T : U \subseteq T \ {x}
      OBVIOUS
    <3>2. QED
      BY <1>2, <3>1
  <2>2. IsFiniteSet(T)
    BY FS_Subset
  <2> DEFINE V(U) == SumFunctionOnSet(f, U)
             g == [U \in SUBSET T |-> IF U = T THEN f[Pick(T)] + V(T \ {Pick(T)}) ELSE V(U)]
  <2>3. \A U \in SUBSET T : U # T /\ U # {} => V(U) = f[Pick(U)] + V(U \ {Pick(U)})
    BY <2>1, <2>2, FS_Subset, SolutionStep
  <2>4. V({}) = 0
    <3>1. Solves(Solution(f, {}), f, {})
      BY <1>2, <2>1 DEF Solution
    <3>2. Solution(f, {})[{}] = 0
      BY <3>1 DEF Solves
    <3>3. QED
      BY <3>2, SumIsSolution
  <2>5. \A U \in SUBSET T : U # {} => U \ {Pick(U)} \in SUBSET T /\ U \ {Pick(U)} # T
    BY PickIn
  <2> HIDE DEF V
  <2>6. \A U \in SUBSET T : g[U] = IF U = {} THEN 0 ELSE f[Pick(U)] + g[U \ {Pick(U)}]
    <3> TAKE U \in SUBSET T
    <3>1. CASE U = {}
      BY <1>2, <2>4, <3>1
    <3>2. CASE U # {}
      <4> DEFINE R == U \ {Pick(U)}
      <4>1. R \in SUBSET T /\ R # T
        BY <2>5, <3>2
      <4> HIDE DEF R
      <4>2. g[R] = V(R)
        BY <4>1
      <4>3. g[U] = f[Pick(U)] + V(R)
        BY <2>3, <3>2 DEF R
      <4>4. QED
        BY <3>2, <4>2, <4>3 DEF R
    <3>3. QED
      BY <3>1, <3>2
  <2>7. g = [U \in SUBSET T |-> IF U = {} THEN 0 ELSE f[Pick(U)] + g[U \ {Pick(U)}]]
    BY <2>6
  <2>8. Solves(g, f, T)
    BY <2>7 DEF Solves
  <2> HIDE DEF g
  <2>9. QED
    BY <2>1, <2>8
<1> HIDE DEF G
<1>3. S \in G
  BY <1>1, <1>2, FiniteInduction
<1>4. QED
  BY <1>3 DEF G

\* So the sum is what one expects it to be.
LEMMA SumEmpty ==
  ASSUME NEW f
  PROVE  SumFunctionOnSet(f, {}) = 0
<1>1. Solves(Solution(f, {}), f, {})
  BY SolutionExists, FS_EmptySet DEF Solution
<1>2. QED
  BY <1>1, SumIsSolution DEF Solves

\* It adds one element after the other.
LEMMA SumPick ==
  ASSUME NEW f, NEW S, IsFiniteSet(S), S # {}
  PROVE  SumFunctionOnSet(f, S) = f[Pick(S)] + SumFunctionOnSet(f, S \ {Pick(S)})
  BY SolutionStep, SolutionExists

\* Integers add up to an integer.
LEMMA SumTyped ==
  ASSUME NEW f, NEW S, IsFiniteSet(S), \A x \in S : f[x] \in Int
  PROVE  SumFunctionOnSet(f, S) \in Int
<1> DEFINE G == {T \in SUBSET S : SumFunctionOnSet(f, T) \in Int}
<1>1. {} \in G
  BY SumEmpty
<1>2. ASSUME NEW T \in SUBSET S, T # {}, \A x \in T : T \ {x} \in G
      PROVE  T \in G
  <2>1. IsFiniteSet(T) /\ Pick(T) \in T
    BY <1>2, FS_Subset, PickIn
  <2>2. SumFunctionOnSet(f, T) = f[Pick(T)] + SumFunctionOnSet(f, T \ {Pick(T)})
    BY <1>2, <2>1, SumPick
  <2>3. QED
    BY <1>2, <2>1, <2>2
<1> HIDE DEF G
<1>3. S \in G
  BY <1>1, <1>2, FiniteInduction
<1>4. QED
  BY <1>3 DEF G

\* In whatever order the elements are added.
LEMMA SumRemove ==
  ASSUME NEW f, NEW S, IsFiniteSet(S), \A x \in S : f[x] \in Int, NEW y \in S
  PROVE  SumFunctionOnSet(f, S) = f[y] + SumFunctionOnSet(f, S \ {y})
<1> DEFINE Sum(T) == SumFunctionOnSet(f, T)
           G == {T \in SUBSET S : \A x \in T : Sum(T) = f[x] + Sum(T \ {x})}
<1>1. {} \in G
  OBVIOUS
<1>2. ASSUME NEW T \in SUBSET S, T # {}, \A x \in T : T \ {x} \in G
      PROVE  T \in G
  <2> DEFINE p == Pick(T)
  <2>1. IsFiniteSet(T) /\ p \in T
    BY <1>2, FS_Subset, PickIn
  <2>2. Sum(T) = f[p] + Sum(T \ {p})
    BY <1>2, <2>1, SumPick
  <2>3. \A U \in SUBSET T : Sum(U) \in Int
    BY <2>1, FS_Subset, SumTyped
  <2> SUFFICES ASSUME NEW x \in T PROVE Sum(T) = f[x] + Sum(T \ {x})
    OBVIOUS
  <2> HIDE DEF p
  <2>3a. f[x] \in Int /\ f[p] \in Int
    BY <2>1
  <2>4. CASE x = p
    BY <2>2, <2>4
  <2>5. CASE x # p
    <3> DEFINE R == (T \ {p}) \ {x}
    <3>1. R = (T \ {x}) \ {p} /\ R \in SUBSET T
      OBVIOUS
    <3>2. Sum(T \ {p}) = f[x] + Sum(R)
      BY <1>2, <2>1, <2>5
    <3>3. Sum(T \ {x}) = f[p] + Sum((T \ {x}) \ {p})
      BY <1>2, <2>1, <2>5
    <3> HIDE DEF R
    <3>4. Sum(R) \in Int
      BY <2>3, <3>1
    <3>5. Sum(T \ {x}) = f[p] + Sum(R)
      BY <3>1, <3>3
    <3> HIDE DEF Sum
    <3>6. QED
      BY <2>2, <2>3a, <3>2, <3>4, <3>5
  <2>6. QED
    BY <2>4, <2>5
<1> HIDE DEF G
<1>3. S \in G
  BY <1>1, <1>2, FiniteInduction
<1>4. QED
  BY <1>3 DEF G

\* Only the values on the set count.
LEMMA SumSame ==
  ASSUME NEW f, NEW g, NEW S, IsFiniteSet(S), \A x \in S : f[x] = g[x]
  PROVE  SumFunctionOnSet(f, S) = SumFunctionOnSet(g, S)
<1> DEFINE G == {T \in SUBSET S : SumFunctionOnSet(f, T) = SumFunctionOnSet(g, T)}
<1>1. {} \in G
  BY SumEmpty
<1>2. ASSUME NEW T \in SUBSET S, T # {}, \A x \in T : T \ {x} \in G
      PROVE  T \in G
  <2>1. IsFiniteSet(T) /\ Pick(T) \in T
    BY <1>2, FS_Subset, PickIn
  <2>2. \A h : SumFunctionOnSet(h, T) = h[Pick(T)] + SumFunctionOnSet(h, T \ {Pick(T)})
    BY <1>2, <2>1, SumPick
  <2>3. QED
    BY <1>2, <2>1, <2>2
<1> HIDE DEF G
<1>3. S \in G
  BY <1>1, <1>2, FiniteInduction
<1>4. QED
  BY <1>3 DEF G

\* If the terms of two sums differ by a bound at most, k times one of them,
\* so do the sums, by as many times the bound.
LEMMA SumClose ==
  ASSUME NEW f, NEW g, NEW S, IsFiniteSet(S), NEW a \in Int, NEW b \in Int, NEW c \in Nat,
         \A x \in S : /\ f[x] \in Int
                      /\ g[x] \in Int
                      /\ -c <= a * f[x] - b * g[x]
                      /\ a * f[x] - b * g[x] <= c
  PROVE  /\ -(c * Cardinality(S)) <= a * SumFunctionOnSet(f, S) - b * SumFunctionOnSet(g, S)
         /\ a * SumFunctionOnSet(f, S) - b * SumFunctionOnSet(g, S) <= c * Cardinality(S)
<1> DEFINE F(T) == SumFunctionOnSet(f, T)
           H(T) == SumFunctionOnSet(g, T)
           N(T) == Cardinality(T)
           G == {T \in SUBSET S : /\ -(c * N(T)) <= a * F(T) - b * H(T)
                                  /\ a * F(T) - b * H(T) <= c * N(T)}
<1>1. {} \in G
  <2>1. F({}) = 0 /\ H({}) = 0 /\ N({}) = 0
    BY SumEmpty, FS_EmptySet
  <2>2. QED
    BY <2>1
<1>2. ASSUME NEW T \in SUBSET S, T # {}, \A x \in T : T \ {x} \in G
      PROVE  T \in G
  <2> DEFINE p == Pick(T)
             R == T \ {p}
  <2>1. IsFiniteSet(T) /\ p \in T /\ IsFiniteSet(R)
    BY <1>2, FS_Subset, PickIn
  <2>2. F(T) = f[p] + F(R) /\ H(T) = g[p] + H(R)
    BY <1>2, <2>1, SumPick
  <2>3. N(R) = N(T) - 1 /\ N(T) \in Nat /\ N(R) \in Nat
    BY <2>1, FS_RemoveElement, FS_CardinalityType
  <2>4. F(R) \in Int /\ H(R) \in Int /\ f[p] \in Int /\ g[p] \in Int
    BY <2>1, SumTyped
  <2>5. /\ -c <= a * f[p] - b * g[p]
        /\ a * f[p] - b * g[p] <= c
    BY <2>1
  <2>6. /\ -(c * N(R)) <= a * F(R) - b * H(R)
        /\ a * F(R) - b * H(R) <= c * N(R)
    BY <1>2, <2>1
  <2> HIDE DEF F, H, N, p, R
  <2>7. /\ a * F(T) = a * f[p] + a * F(R)
        /\ b * H(T) = b * g[p] + b * H(R)
        /\ c * N(T) = c + c * N(R)
    BY <2>2, <2>3, <2>4
  <2>8. /\ a * f[p] \in Int /\ b * g[p] \in Int /\ a * F(R) \in Int /\ b * H(R) \in Int
        /\ c * N(R) \in Int
    BY <2>3, <2>4
  <2>9. /\ -(c * N(T)) <= a * F(T) - b * H(T)
        /\ a * F(T) - b * H(T) <= c * N(T)
    BY <2>5, <2>6, <2>7, <2>8
  <2>10. QED
    BY <2>9
<1> HIDE DEF G
<1>3. S \in G
  BY <1>1, <1>2, FiniteInduction
<1>4. QED
  BY <1>3 DEF G

\* The sums over disjoint sets add up.
LEMMA SumDisjoint ==
  ASSUME NEW f, NEW A, NEW S, IsFiniteSet(A), IsFiniteSet(S), A \cap S = {},
         \A x \in A \cup S : f[x] \in Int
  PROVE  SumFunctionOnSet(f, A \cup S) = SumFunctionOnSet(f, A) + SumFunctionOnSet(f, S)
<1> DEFINE Sum(T) == SumFunctionOnSet(f, T)
           G == {T \in SUBSET S : Sum(A \cup T) = Sum(A) + Sum(T)}
<1>0. Sum(A) \in Int
  BY SumTyped
<1>1. {} \in G
  <2>1. Sum({}) = 0 /\ A \cup {} = A
    BY SumEmpty
  <2> HIDE DEF Sum
  <2>2. QED
    BY <1>0, <2>1
<1>2. ASSUME NEW T \in SUBSET S, T # {}, \A x \in T : T \ {x} \in G
      PROVE  T \in G
  <2> DEFINE p == Pick(T)
             R == T \ {p}
  <2>1. p \in T /\ IsFiniteSet(T) /\ IsFiniteSet(R) /\ IsFiniteSet(A \cup T)
    BY <1>2, FS_Subset, FS_Union, PickIn
  <2>2. Sum(T) = f[p] + Sum(R)
    BY <1>2, <2>1, SumPick
  <2>3. Sum(A \cup T) = f[p] + Sum((A \cup T) \ {p})
    BY <2>1, SumRemove
  <2>4. (A \cup T) \ {p} = A \cup R
    BY <2>1
  <2>5. Sum(A \cup R) = Sum(A) + Sum(R)
    BY <1>2, <2>1
  <2>6. f[p] \in Int /\ Sum(R) \in Int
    BY <2>1, SumTyped
  <2> HIDE DEF Sum, p, R
  <2>7. Sum(A \cup T) = f[p] + (Sum(A) + Sum(R))
    BY <2>3, <2>4, <2>5
  <2>8. Sum(A \cup T) = Sum(A) + Sum(T)
    BY <1>0, <2>2, <2>6, <2>7
  <2>9. QED
    BY <2>8
<1> HIDE DEF G
<1>3. S \in G
  BY <1>1, <1>2, FiniteInduction
<1>4. QED
  BY <1>3 DEF G

\* The sum over what is in the sets of a family is the sum of their sums.
LEMMA SumOfSums ==
  ASSUME NEW f, NEW D, IsFiniteSet(D), NEW s, NEW t,
         \A d \in D : IsFiniteSet(s[d]) /\ t[d] = SumFunctionOnSet(f, s[d]),
         \A d \in D : \A x \in s[d] : f[x] \in Int,
         \A d, e \in D : d # e => s[d] \cap s[e] = {},
         NEW N, \A x : x \in N <=> \E d \in D : x \in s[d]
  PROVE  IsFiniteSet(N) /\ SumFunctionOnSet(f, N) = SumFunctionOnSet(t, D)
<1> DEFINE All(T) == UNION {s[d] : d \in T}
           G == {T \in SUBSET D : /\ IsFiniteSet(All(T))
                                  /\ SumFunctionOnSet(f, All(T)) = SumFunctionOnSet(t, T)}
<1>1. {} \in G
  <2>1. All({}) = {}
    OBVIOUS
  <2> HIDE DEF All
  <2>2. QED
    BY <2>1, FS_EmptySet, SumEmpty
<1>2. ASSUME NEW T \in SUBSET D, T # {}, \A x \in T : T \ {x} \in G
      PROVE  T \in G
  <2> DEFINE p == Pick(T)
             R == T \ {p}
  <2>1. p \in T /\ IsFiniteSet(T) /\ IsFiniteSet(R)
    BY <1>2, FS_Subset, PickIn
  <2>2. SumFunctionOnSet(t, T) = t[p] + SumFunctionOnSet(t, R)
    BY <1>2, <2>1, SumPick
  <2>3. IsFiniteSet(All(R)) /\ SumFunctionOnSet(f, All(R)) = SumFunctionOnSet(t, R)
    BY <1>2, <2>1
  <2>4. IsFiniteSet(s[p]) /\ t[p] = SumFunctionOnSet(f, s[p])
    BY <2>1
  <2>5. s[p] \cap All(R) = {} /\ All(T) = s[p] \cup All(R)
    BY <2>1
  <2>6. \A x \in s[p] \cup All(R) : f[x] \in Int
    BY <2>1
  <2> HIDE DEF All, p, R
  <2>7. SumFunctionOnSet(f, All(T)) = SumFunctionOnSet(f, s[p]) + SumFunctionOnSet(f, All(R))
    BY <2>3, <2>4, <2>5, <2>6, SumDisjoint
  <2>8. IsFiniteSet(All(T))
    <3>1. IsFiniteSet(s[p] \cup All(R))
      BY <2>3, <2>4, FS_Union
    <3>2. QED
      BY <2>5, <3>1
  <2>9. QED
    BY <2>2, <2>3, <2>4, <2>7, <2>8
<1> HIDE DEF G
<1>3. D \in G
  BY <1>1, <1>2, FiniteInduction
<1>4. N = All(D)
  OBVIOUS
<1>5. QED
  BY <1>3, <1>4 DEF G

\* Naturals add up to a natural.
LEMMA SumNat ==
  ASSUME NEW f, NEW S, IsFiniteSet(S), \A x \in S : f[x] \in Nat
  PROVE  SumFunctionOnSet(f, S) \in Nat
<1> DEFINE G == {T \in SUBSET S : SumFunctionOnSet(f, T) \in Nat}
<1>1. {} \in G
  BY SumEmpty
<1>2. ASSUME NEW T \in SUBSET S, T # {}, \A x \in T : T \ {x} \in G
      PROVE  T \in G
  <2>1. IsFiniteSet(T) /\ Pick(T) \in T
    BY <1>2, FS_Subset, PickIn
  <2>2. SumFunctionOnSet(f, T) = f[Pick(T)] + SumFunctionOnSet(f, T \ {Pick(T)})
    BY <1>2, <2>1, SumPick
  <2>3. QED
    BY <1>2, <2>1, <2>2
<1> HIDE DEF G
<1>3. S \in G
  BY <1>1, <1>2, FiniteInduction
<1>4. QED
  BY <1>3 DEF G

\* The sum of a function that is the sum of two.
LEMMA SumAdd ==
  ASSUME NEW f, NEW g, NEW h, NEW S, IsFiniteSet(S),
         \A x \in S : f[x] \in Int /\ g[x] \in Int /\ h[x] = f[x] + g[x]
  PROVE  SumFunctionOnSet(h, S) = SumFunctionOnSet(f, S) + SumFunctionOnSet(g, S)
<1> DEFINE F(T) == SumFunctionOnSet(f, T)
           K(T) == SumFunctionOnSet(g, T)
           H(T) == SumFunctionOnSet(h, T)
           G == {T \in SUBSET S : H(T) = F(T) + K(T)}
<1>1. {} \in G
  BY SumEmpty
<1>2. ASSUME NEW T \in SUBSET S, T # {}, \A x \in T : T \ {x} \in G
      PROVE  T \in G
  <2> DEFINE p == Pick(T)
             R == T \ {p}
  <2>1. IsFiniteSet(T) /\ IsFiniteSet(R) /\ p \in T
    BY <1>2, FS_Subset, PickIn
  <2>2. H(T) = h[p] + H(R) /\ F(T) = f[p] + F(R) /\ K(T) = g[p] + K(R)
    BY <1>2, <2>1, SumPick
  <2>3. F(R) \in Int /\ K(R) \in Int
    BY <2>1, SumTyped
  <2>4. f[p] \in Int /\ g[p] \in Int /\ h[p] = f[p] + g[p]
    BY <2>1
  <2>5. H(R) = F(R) + K(R)
    BY <1>2, <2>1
  <2> HIDE DEF F, K, H, p, R
  <2>6. H(T) = F(T) + K(T)
    BY <2>2, <2>3, <2>4, <2>5
  <2>7. QED
    BY <2>6
<1> HIDE DEF G
<1>3. S \in G
  BY <1>1, <1>2, FiniteInduction
<1>4. QED
  BY <1>3 DEF G

-----------------------------------------------------------------------------
\* Rounding.

\* A rounded number is off by half of what it is rounded to, at most.
LEMMA RoundedNear ==
  ASSUME NEW n \in Int, NEW d \in Nat \ {0}, NEW k \in Rounded(n, d)
  PROVE  /\ k \in Int
         /\ -d <= 2 * (k * d - n)
         /\ 2 * (k * d - n) <= d
<1>1. k \in Int
  BY DEF Rounded
<1>2. 2 * Abs(k * d - n) <= d
  BY DEF Rounded
<1>3. k * d - n \in Int
  BY <1>1
<1> DEFINE x == k * d - n
<1> HIDE DEF x
<1>4. 2 * Abs(x) <= d /\ x \in Int
  BY <1>2, <1>3 DEF x
<1>5. -d <= 2 * x /\ 2 * x <= d
  BY <1>4 DEF Abs
<1>6. QED
  BY <1>1, <1>5 DEF x

\* What rounds to more than minus a half is not negative.
LEMMA NotNegative ==
  ASSUME NEW d \in Nat \ {0}, NEW k \in Int, -d <= 2 * (k * d)
  PROVE  k >= 0
<1> SUFFICES ASSUME k <= -1 PROVE FALSE
  OBVIOUS
<1>1. k * d <= -d
  <2>1. (k + 1) * d <= 0
    BY k + 1 <= 0
  <2>2. (k + 1) * d = k * d + d
    OBVIOUS
  <2>3. k * d \in Int
    OBVIOUS
  <2>4. QED
    BY <2>1, <2>2, <2>3
<1>2. k * d \in Int
  OBVIOUS
<1>3. QED
  BY <1>1, <1>2

\* A price that is rounded is one.
LEMMA RoundedNat ==
  ASSUME NEW n \in Nat, NEW d \in Nat \ {0}, NEW k \in Rounded(n, d)
  PROVE  k \in Nat
<1>1. k \in Int /\ -d <= 2 * (k * d - n)
  BY RoundedNear
<1>2. k * d \in Int
  BY <1>1
<1>3. -d <= 2 * (k * d)
  BY <1>1, <1>2
<1>4. QED
  BY <1>1, <1>3, NotNegative

\* Z3 multiplies only when told to.
LEMMA TimesBound ==
  ASSUME NEW a \in Nat, NEW e \in Int, NEW b \in Int, e <= b
  PROVE  a * e <= a * b
<1>1. a * (b - e) >= 0
  <2>1. b - e \in Nat
    OBVIOUS
  <2>2. a * (b - e) \in Nat
    BY <2>1
  <2>3. QED
    BY <2>2
<1>2. a * (b - e) = a * b - a * e /\ a * b \in Int /\ a * e \in Int
  OBVIOUS
<1>3. QED
  BY <1>1, <1>2

\* What a purchase stores of a price.
LEMMA NetAdded ==
  ASSUME NEW base \in Nat, NEW vat \in Rounded(base * Vat, 100),
         NEW gross \in Rounded(base * (100 + Vat), 100)
  PROVE  /\ vat \in Nat /\ gross \in Nat
         /\ -1 <= base + vat - gross
         /\ base + vat - gross <= 1
         /\ (gross - vat) * 1000 - gross * Fee > -500
<1>1. Vat \in Nat /\ Fee \in Nat /\ base * Vat \in Nat /\ base * (100 + Vat) \in Nat
  BY SettlementAssumption DEF SettlementConstants
<1>3. vat \in Nat /\ gross \in Nat
  BY <1>1, RoundedNat
<1> DEFINE f == vat * 100 - base * Vat
           e == base * (100 + Vat) - gross * 100
<1>4. f \in Int /\ e \in Int
  BY <1>1, <1>3
<1>5. -100 <= 2 * f /\ 2 * f <= 100
  BY <1>1, RoundedNear
<1>6. -100 <= 2 * (gross * 100 - base * (100 + Vat)) /\ 2 * (gross * 100 - base * (100 + Vat)) <= 100
  BY <1>1, RoundedNear
<1>7. 2 * (gross * 100 - base * (100 + Vat)) = -(2 * e)
  BY <1>1, <1>3
<1>8. -50 <= e /\ e <= 50 /\ -50 <= f /\ f <= 50
  BY <1>4, <1>5, <1>6, <1>7
<1>9. 100 * (gross - vat) = 100 * base - e - f
  <2>1. base * (100 + Vat) = 100 * base + base * Vat
    BY <1>1
  <2>2. QED
    BY <1>1, <1>3, <2>1
<1>10. 100 * (gross * Fee) = base * (Fee * (100 + Vat)) - Fee * e
  BY <1>1, <1>3
<1> HIDE DEF e, f
<1>11. -1 <= base + vat - gross /\ base + vat - gross <= 1
  BY <1>3, <1>4, <1>8, <1>9
<1>12. base * (Fee * (100 + Vat)) <= base * 50000
  <2>1. Fee * (100 + Vat) <= 50000 /\ Fee * (100 + Vat) \in Int
    BY <1>1, SettlementAssumption DEF SettlementConstants
  <2>2. QED
    BY <2>1, TimesBound
<1>13. Fee <= 500
  <2>1. Fee * (100 + Vat) = 100 * Fee + Fee * Vat /\ Fee * Vat \in Nat
    BY <1>1
  <2>2. QED
    BY <1>1, <2>1, SettlementAssumption DEF SettlementConstants
<1>14. (1000 - Fee) * e <= (1000 - Fee) * 50
  BY <1>1, <1>4, <1>8, <1>13, TimesBound
<1>15. (1000 - Fee) * e = 1000 * e - Fee * e /\ Fee * e \in Int
  BY <1>1, <1>4
<1>16. CASE base = 0
  <2>1. vat = 0 /\ gross = 0
    <3>1. base * Vat = 0 /\ base * (100 + Vat) = 0
      BY <1>1, <1>16
    <3>2. -100 <= 2 * (gross * 100) /\ 2 * (gross * 100) <= 100
      BY <1>6, <1>3, <3>1
    <3>3. -100 <= 2 * (vat * 100) /\ 2 * (vat * 100) <= 100
      BY <1>5, <1>3, <3>1 DEF f
    <3>4. QED
      BY <1>3, <3>2, <3>3
  <2>2. QED
    BY <1>1, <1>3, <1>11, <2>1
<1>17. CASE base >= 1
  <2>1. base * (Fee * (100 + Vat)) \in Int /\ gross * Fee \in Int
    BY <1>1, <1>3
  <2>2. 100 * ((gross - vat) * 1000) = 100000 * base - 1000 * e - 1000 * f
    BY <1>3, <1>4, <1>9
  <2>3. 100 * ((gross - vat) * 1000) - 100 * (gross * Fee)
          >= 50000 * base - 1000 * e + Fee * e - 1000 * f
    BY <1>4, <1>10, <1>12, <1>15, <2>1, <2>2
  <2>4. 50000 * base - 1000 * e + Fee * e - 1000 * f >= 50 * Fee - 50000
    BY <1>1, <1>4, <1>8, <1>14, <1>15, <1>17
  <2>5. CASE Fee = 0
    <3>1. gross * Fee = 0 /\ gross - vat >= 0
      BY <1>3, <1>4, <1>8, <1>9, <1>17, <2>5
    <3>2. QED
      BY <1>3, <1>11, <3>1
  <2>6. CASE Fee > 0
    BY <1>1, <1>3, <1>4, <1>11, <1>15, <2>1, <2>3, <2>4, <2>6
  <2>7. QED
    BY <1>1, <2>5, <2>6
<1>18. QED
  BY <1>16, <1>17

\* What a purchase stores of a price that the VAT is part of.
LEMMA NetWithin ==
  ASSUME NEW base \in Nat, NEW vat \in Rounded(base * Vat, 100 + Vat)
  PROVE  /\ vat \in Nat
         /\ (base - vat) * 1000 - base * Fee > -500
<1>1. Vat \in Nat /\ Fee \in Nat /\ base * Vat \in Nat /\ 100 + Vat \in Nat \ {0}
  BY SettlementAssumption DEF SettlementConstants
<1>2. vat \in Nat
  BY <1>1, RoundedNat
<1> DEFINE W == 100 + Vat
           f == vat * W - base * Vat
           n == (base - vat) * 1000 - base * Fee
<1>3. -W <= 2 * f /\ 2 * f <= W
  BY <1>1, RoundedNear
<1>4. W \in Nat \ {0} /\ f \in Int /\ n \in Int
  BY <1>1, <1>2
<1>5. n * W = 100000 * base - 1000 * f - base * (Fee * W)
  BY <1>1, <1>2
<1>6. base * (Fee * W) <= base * 50000
  <2>1. Fee * W <= 50000 /\ Fee * W \in Int
    BY <1>1, SettlementAssumption DEF SettlementConstants
  <2>2. QED
    BY <2>1, TimesBound
<1>7. base * (Fee * W) \in Int /\ n * W \in Int
  BY <1>1, <1>4
<1>8. CASE base = 0
  <2>1. f = vat * W
    BY <1>1, <1>2, <1>8
  <2>2. vat = 0
    <3> SUFFICES ASSUME vat >= 1 PROVE FALSE
      BY <1>2
    <3>1. W * 1 <= W * vat
      BY <1>2, <1>4, TimesBound
    <3>2. W * vat = vat * W
      BY <1>2, <1>4
    <3> HIDE DEF W, f
    <3>3. QED
      BY <1>3, <1>4, <2>1, <3>1, <3>2
  <2>3. QED
    BY <1>1, <1>8, <2>2
<1>9. CASE base >= 1
  <2> HIDE DEF W, f, n
  <2>1. n * W > -(500 * W)
    BY <1>3, <1>4, <1>5, <1>6, <1>7, <1>9
  <2>2. n > -500
    <3> SUFFICES ASSUME n <= -500 PROVE FALSE
      BY <1>4
    <3>1. W * n <= W * (-500)
      BY <1>4, TimesBound
    <3>2. W * n = n * W /\ W * (-500) = -(500 * W)
      BY <1>4
    <3>3. QED
      BY <1>4, <1>7, <2>1, <3>1, <3>2
  <2>3. QED
    BY <1>2, <2>2 DEF n
<1>10. QED
  BY <1>8, <1>9

\* The amounts are cents, none of them negative, and add up to a cent.
LEMMA AmountsRight ==
  ASSUME NEW base \in Nat, NEW added \in BOOLEAN,
         NEW vat \in VatAmounts(base, added), NEW gross \in GrossAmounts(base, added),
         NEW fee \in TransactionFees(gross), NEW net \in NetAmounts(gross, vat)
  PROVE  /\ vat \in Nat /\ gross \in Nat /\ fee \in Nat /\ net \in Nat
         /\ Abs(fee + vat + net - gross) <= 1
         /\ added => Abs(base + vat - gross) <= 1
<1>1. /\ vat \in Nat /\ gross \in Nat
      /\ (gross - vat) * 1000 - gross * Fee > -500
  <2>1. CASE added
    <3>1. vat \in Rounded(base * Vat, 100) /\ gross \in Rounded(base * (100 + Vat), 100)
      BY <2>1 DEF VatAmounts, GrossAmounts
    <3>2. QED
      BY <3>1, NetAdded
  <2>2. CASE ~added
    <3>1. vat \in Rounded(base * Vat, 100 + Vat) /\ gross = base
      BY <2>2 DEF VatAmounts, GrossAmounts
    <3>2. QED
      BY <3>1, NetWithin
  <2>3. QED
    BY <2>1, <2>2
<1>2. added => Abs(base + vat - gross) <= 1
  <2>1. CASE added
    <3>1. vat \in Rounded(base * Vat, 100) /\ gross \in Rounded(base * (100 + Vat), 100)
      BY <2>1 DEF VatAmounts, GrossAmounts
    <3>2. -1 <= base + vat - gross /\ base + vat - gross <= 1
      BY <3>1, NetAdded
    <3>3. QED
      BY <1>1, <3>2 DEF Abs
  <2>2. QED
    BY <2>1
<1>3. Fee \in Nat /\ gross * Fee \in Nat
  BY <1>1, SettlementAssumption DEF SettlementConstants
<1> DEFINE n == (gross - vat) * 1000 - gross * Fee
<1>4. n \in Int
  BY <1>1, <1>3
<1>5. fee \in Nat /\ -1000 <= 2 * (fee * 1000 - gross * Fee) /\ 2 * (fee * 1000 - gross * Fee) <= 1000
  BY <1>3, RoundedNat, RoundedNear DEF TransactionFees
<1>6. net \in Int /\ -1000 <= 2 * (net * 1000 - n) /\ 2 * (net * 1000 - n) <= 1000
  BY <1>4, RoundedNear DEF NetAmounts
<1>7. net \in Nat
  <2>1. n > -500
    BY <1>1
  <2> HIDE DEF n
  <2>2. net * 1000 >= -1000
    BY <1>4, <1>6, <2>1
  <2>3. net >= -1
    BY <1>6, <2>2
  <2>4. net # -1
    BY <1>6, <1>4, <2>1
  <2>5. QED
    BY <1>6, <2>3, <2>4
<1>8. Abs(fee + vat + net - gross) <= 1
  BY <1>1, <1>3, <1>5, <1>6 DEF Abs
<1>9. QED
  BY <1>1, <1>2, <1>5, <1>7, <1>8

-----------------------------------------------------------------------------
\* The invariant.

\* row is what the sales of day d come to.
RowRight(row, d) ==
  LET S == SalesOf(d)
  IN  /\ row.transactions = Cardinality(S)
      /\ row.revenue = Gross(S)
      /\ -5 <= 10 * row.alFaruq - 7 * Net(S)
      /\ 10 * row.alFaruq - 7 * Net(S) <= 5
      /\ -5 <= 10 * row.skylink - 3 * Net(S)
      /\ 10 * row.skylink - 3 * Net(S) <= 5

\* A job works on the day before, which is over.
JobsAgree ==
  \A s \in Servers :
    /\ jobDay[s] <= today
    /\ jobStep[s] # "idle" => jobDay[s] = today /\ today >= 1
    /\ jobRow[s] # NoSettlement => jobRow[s].transactions > 0
    /\ jobStep[s] = "save" /\ Yesterday(s) \in Whole(Days) => RowRight(jobRow[s], Yesterday(s))

SettledRight ==
  \A d \in Whole(Days) : settlement[d] # NoSettlement => RowRight(settlement[d], d)

DaysPast ==
  /\ \A p \in Sales : sale[p] # NoSale => sale[p].day <= today
  /\ \A d \in settledOk : d < today

SettlementInv ==
  /\ TypeOK
  /\ DaysPast
  /\ PartsAddUp
  /\ JobsAgree
  /\ SettledRight
  /\ NoDayForgotten

\* The sales of a day, and their sums.
LEMMA SalesFinite ==
  ASSUME NEW d
  PROVE  IsFiniteSet(SalesOf(d)) /\ SalesOf(d) \subseteq Sales
<1>1. SalesOf(d) \subseteq Sales
  BY DEF SalesOf
<1>2. QED
  BY <1>1, FS_Subset, SettlementAssumption DEF SettlementConstants

\* Each has a row.
LEMMA SalesTyped ==
  ASSUME TypeOK, NEW d, NEW p \in SalesOf(d)
  PROVE  p \in Sales /\ sale[p] # NoSale /\ sale[p] \in SaleRows /\ sale[p].day = d
  BY DEF TypeOK, SalesOf

\* Gross and Net, unfolded.
LEMMA GrossIsSum ==
  ASSUME NEW S
  PROVE  /\ Gross(S) = SumFunctionOnSet([p \in S |-> sale[p].gross], S)
         /\ Net(S) = SumFunctionOnSet([p \in S |-> sale[p].net], S)
  BY DEF Gross, Net, SumFunction

\* The sums of a day are cents, and its sales are counted.
LEMMA DayTyped ==
  ASSUME TypeOK, NEW d
  PROVE  /\ Gross(SalesOf(d)) \in Nat
         /\ Net(SalesOf(d)) \in Int
         /\ Cardinality(SalesOf(d)) \in Nat
         /\ SalesOf(d) # {} => Cardinality(SalesOf(d)) > 0
<1> DEFINE S == SalesOf(d)
<1>1. IsFiniteSet(S)
  BY SalesFinite
<1>2. \A p \in S : sale[p].gross \in Nat /\ sale[p].net \in Int
  BY SalesTyped DEF SaleRows
<1> DEFINE g == [p \in S |-> sale[p].gross]
           n == [p \in S |-> sale[p].net]
<1>3. Gross(S) = SumFunctionOnSet(g, S) /\ Net(S) = SumFunctionOnSet(n, S)
  BY GrossIsSum
<1>4. \A p \in S : g[p] \in Nat /\ n[p] \in Int
  BY <1>2
<1> HIDE DEF S, g, n
<1>5. Gross(S) \in Nat /\ Net(S) \in Int
  BY <1>1, <1>3, <1>4, SumNat, SumTyped
<1>6. Cardinality(S) \in Nat /\ (S # {} => Cardinality(S) > 0)
  BY <1>1, FS_CardinalityType, FS_EmptySet
<1>7. QED
  BY <1>5, <1>6 DEF S

\* A day keeps its sums as long as its sales stay the same.
LEMMA DayStays ==
  ASSUME NEW d, SalesOf(d)' = SalesOf(d), \A p \in SalesOf(d) : sale'[p] = sale[p],
         NEW row, RowRight(row, d)
  PROVE  RowRight(row, d)'
<1>1. [p \in SalesOf(d)' |-> sale'[p].gross] = [p \in SalesOf(d) |-> sale[p].gross]
  OBVIOUS
<1>2. [p \in SalesOf(d)' |-> sale'[p].net] = [p \in SalesOf(d) |-> sale[p].net]
  OBVIOUS
<1>3. Gross(SalesOf(d))' = Gross(SalesOf(d))
  BY <1>1 DEF Gross
<1>4. Net(SalesOf(d))' = Net(SalesOf(d))
  BY <1>2 DEF Net
<1>5. QED
  BY <1>3, <1>4 DEF RowRight

\* The same sales give the same settlement.
LEMMA SalesStay ==
  ASSUME NEW d, sale' = sale
  PROVE  /\ SalesOf(d)' = SalesOf(d)
         /\ \A row : RowRight(row, d) => RowRight(row, d)'
<1>1. SalesOf(d)' = SalesOf(d)
  BY DEF SalesOf
<1>2. QED
  BY <1>1, DayStays

\* A day that has lost no purchase has not lost one before.
LEMMA WholeStays ==
  ASSUME unmade' = unmade, NEW d
  PROVE  \A D : d \in Whole(D)' <=> d \in Whole(D)
  BY DEF Whole

\* At first there is neither a sale nor a settlement.
LEMMA InvInit ==
  ASSUME Init
  PROVE  SettlementInv
<1>1. TypeOK
  BY SettlementAssumption DEF Init, TypeOK, SettlementConstants, Days
<1>2. DaysPast /\ PartsAddUp /\ JobsAgree /\ SettledRight /\ NoDayForgotten
  BY SettlementAssumption DEF Init, DaysPast, PartsAddUp, JobsAgree, SettledRight,
     NoDayForgotten, Whole, Days, SettlementConstants
<1>3. QED
  BY <1>1, <1>2 DEF SettlementInv

\* The jobs of the old day are over when the new one begins.
LEMMA NextDayKeeps ==
  ASSUME SettlementInv, NextDay
  PROVE  SettlementInv'
<1> USE DEF NextDay, jobs
<1>1. today \in Nat /\ LastDay \in Nat /\ today' = today + 1 /\ today' \in Days
  BY SettlementAssumption DEF SettlementInv, TypeOK, Days, SettlementConstants
<1>2. TypeOK'
  BY <1>1 DEF SettlementInv, TypeOK, SaleRows, Days
<1>3. DaysPast'
  BY <1>1 DEF SettlementInv, DaysPast, TypeOK, SaleRows, Days
<1>4. PartsAddUp'
  BY DEF SettlementInv, PartsAddUp
<1>5. JobsAgree'
  BY <1>1 DEF SettlementInv, JobsAgree, TypeOK, Days
<1>6. SettledRight'
  BY SalesStay, WholeStays DEF SettlementInv, SettledRight, Days
<1>7. NoDayForgotten'
  BY SalesStay, WholeStays, <1>2 DEF SettlementInv, NoDayForgotten
<1>8. QED
  BY <1>2, <1>3, <1>4, <1>5, <1>6, <1>7 DEF SettlementInv

\* A stored purchase is one row, of today.
LEMMA Stores ==
  ASSUME SettlementInv, NEW p \in Sales, StorePurchase(p)
  PROVE  /\ sale[p] = NoSale
         /\ \E r \in SaleRows :
              /\ sale' = [sale EXCEPT ![p] = r]
              /\ r.day = today
              /\ Abs(r.fee + r.vat + r.net - r.gross) <= 1
              /\ r.added => Abs(r.base + r.vat - r.gross) <= 1
              /\ r.net >= 0
<1>1. PICK base \in Bases[p], added \in BOOLEAN, late \in BOOLEAN :
        \E vat \in VatAmounts(base, added), gross \in GrossAmounts(base, added) :
          \E fee \in TransactionFees(gross), net \in NetAmounts(gross, vat) :
            sale' = [sale EXCEPT ![p] =
              [day |-> today, late |-> late, base |-> base, added |-> added, vat |-> vat,
               gross |-> gross, fee |-> fee, net |-> net]]
  BY Zenon DEF StorePurchase
<1>2. PICK vat \in VatAmounts(base, added), gross \in GrossAmounts(base, added) :
        \E fee \in TransactionFees(gross), net \in NetAmounts(gross, vat) :
          sale' = [sale EXCEPT ![p] =
            [day |-> today, late |-> late, base |-> base, added |-> added, vat |-> vat,
             gross |-> gross, fee |-> fee, net |-> net]]
  BY <1>1, Zenon
<1>3. PICK fee \in TransactionFees(gross), net \in NetAmounts(gross, vat) :
        sale' = [sale EXCEPT ![p] =
          [day |-> today, late |-> late, base |-> base, added |-> added, vat |-> vat,
           gross |-> gross, fee |-> fee, net |-> net]]
  BY <1>2, Zenon
<1> DEFINE r == [day |-> today, late |-> late, base |-> base, added |-> added, vat |-> vat,
                 gross |-> gross, fee |-> fee, net |-> net]
<1>4. base \in Nat
  BY SettlementAssumption DEF SettlementConstants
<1>5. /\ vat \in Nat /\ gross \in Nat /\ fee \in Nat /\ net \in Nat
      /\ Abs(fee + vat + net - gross) <= 1
      /\ added => Abs(base + vat - gross) <= 1
  BY <1>4, AmountsRight
<1>6. r \in SaleRows
  BY <1>4, <1>5 DEF SaleRows, SettlementInv, TypeOK
<1>7. /\ sale' = [sale EXCEPT ![p] = r]
      /\ r.day = today
      /\ Abs(r.fee + r.vat + r.net - r.gross) <= 1
      /\ r.added => Abs(r.base + r.vat - r.gross) <= 1
      /\ r.net >= 0
  BY <1>3, <1>5
<1>8. sale[p] = NoSale
  BY DEF StorePurchase
<1> HIDE DEF r
<1>9. QED
  BY <1>6, <1>7, <1>8

\* A sale is of today, and a purchase that is deleted leaves its day not whole.
LEMMA PastDays ==
  ASSUME SettlementInv, NEW p \in Sales, StorePurchase(p) \/ RemovePurchase(p),
         NEW D \in SUBSET Days, NEW d \in Whole(D)', d < today
  PROVE  /\ d \in Whole(D)
         /\ SalesOf(d)' = SalesOf(d)
         /\ \A row : RowRight(row, d) => RowRight(row, d)'
<1>1. d \in D /\ d \in Days /\ \A q \in Sales : <<q, d>> \notin unmade'
  BY DEF Whole
<1>2. /\ d \in Whole(D)
      /\ SalesOf(d)' = SalesOf(d)
      /\ \A q \in SalesOf(d) : sale'[q] = sale[q]
  <2>1. CASE StorePurchase(p)
    <3>1. PICK r \in SaleRows : sale' = [sale EXCEPT ![p] = r] /\ r.day = today
      BY <2>1, Stores
    <3>2. sale[p] = NoSale /\ unmade' = unmade
      BY <2>1 DEF StorePurchase
    <3>3. QED
      BY <1>1, <3>1, <3>2 DEF SalesOf, Whole, SettlementInv, TypeOK, Days
  <2>2. CASE RemovePurchase(p)
    <3>1. QED
      BY <1>1, <2>2 DEF RemovePurchase, SalesOf, Whole, SettlementInv, TypeOK
  <2>3. QED
    BY <2>1, <2>2
<1>3. QED
  BY <1>2, DayStays

\* What a new or a deleted sale leaves alone: the settlements, and the jobs,
\* which are about days that are over.
LEMMA SalesMove ==
  ASSUME SettlementInv, NEW p \in Sales, StorePurchase(p) \/ RemovePurchase(p),
         TypeOK'
  PROVE  JobsAgree' /\ SettledRight' /\ NoDayForgotten'
<1>1. UNCHANGED <<today, settlement, jobStep, jobDay, jobRow, settledOk>>
  BY DEF StorePurchase, RemovePurchase, jobs
<1>2. TypeOK /\ DaysPast /\ JobsAgree /\ SettledRight /\ NoDayForgotten
  BY DEF SettlementInv
<1>3. Days \in SUBSET Days /\ settledOk \in SUBSET Days
  BY <1>2 DEF TypeOK
<1>4. JobsAgree'
  <2> SUFFICES ASSUME NEW s \in Servers, jobStep[s] = "save", Yesterday(s) \in Whole(Days)'
               PROVE  RowRight(jobRow[s], Yesterday(s))'
    BY <1>1, <1>2 DEF JobsAgree, Yesterday
  <2>1. jobDay[s] = today /\ today \in Nat
    BY <1>2 DEF JobsAgree, TypeOK, Days
  <2>2. Yesterday(s) < today
    BY <2>1 DEF Yesterday
  <2> PICK y : y = Yesterday(s)
    OBVIOUS
  <2>3. y \in Whole(Days) /\ \A row : RowRight(row, y) => RowRight(row, y)'
    BY <1>3, <2>2, PastDays
  <2>4. Yesterday(s)' = y
    BY <1>1 DEF Yesterday
  <2>5. RowRight(jobRow[s], y)
    BY <1>2, <2>3 DEF JobsAgree
  <2>6. PICK row : row = jobRow[s]
    OBVIOUS
  <2>7. RowRight(row, y)' /\ jobRow'[s] = row
    BY <1>1, <2>3, <2>5, <2>6
  <2>8. QED
    BY <2>4, <2>7
<1>5. SettledRight'
  <2> SUFFICES ASSUME NEW d \in Whole(Days)', settlement[d] # NoSettlement
               PROVE  RowRight(settlement[d], d)'
    BY <1>1 DEF SettledRight, Days
  <2>1. d < today
    BY <1>2 DEF TypeOK, Whole
  <2>2. d \in Whole(Days) /\ \A row : RowRight(row, d) => RowRight(row, d)'
    BY <1>3, <2>1, PastDays
  <2>3. QED
    BY <1>1, <1>2, <2>2 DEF SettledRight
<1>6. NoDayForgotten'
  <2> SUFFICES ASSUME NEW d \in Whole(settledOk)', SalesOf(d)' # {}
               PROVE  settlement[d] # NoSettlement
    BY <1>1 DEF NoDayForgotten
  <2>1. d \in settledOk /\ d < today
    BY <1>1, <1>2 DEF Whole, DaysPast
  <2>2. d \in Whole(settledOk) /\ SalesOf(d)' = SalesOf(d)
    BY <1>1, <1>3, <2>1, PastDays DEF Whole
  <2>3. QED
    BY <1>2, <2>2 DEF NoDayForgotten
<1>7. QED
  BY <1>4, <1>5, <1>6

\* So a purchase that is stored keeps the invariant
LEMMA StoreKeeps ==
  ASSUME SettlementInv, NEW p \in Sales, StorePurchase(p)
  PROVE  SettlementInv'
<1>1. UNCHANGED <<today, settlement, jobStep, jobDay, jobRow, settledOk, unmade>>
  BY DEF StorePurchase, jobs
<1>2. PICK r \in SaleRows :
        /\ sale' = [sale EXCEPT ![p] = r]
        /\ r.day = today
        /\ Abs(r.fee + r.vat + r.net - r.gross) <= 1
        /\ r.added => Abs(r.base + r.vat - r.gross) <= 1
        /\ r.net >= 0
  BY Stores
<1>3. TypeOK /\ DaysPast /\ PartsAddUp
  BY DEF SettlementInv
<1>4. TypeOK'
  BY <1>1, <1>2, <1>3 DEF TypeOK
<1>5. today \in Int
  BY <1>3 DEF TypeOK, Days
<1>6. DaysPast'
  BY <1>1, <1>2, <1>3, <1>5 DEF DaysPast, TypeOK
<1>7. PartsAddUp'
  BY <1>2, <1>3 DEF PartsAddUp, TypeOK
<1>8. QED
  BY <1>4, <1>6, <1>7, SalesMove DEF SettlementInv

\* and so does one that is deleted: its day is whole no more.
LEMMA RemoveKeeps ==
  ASSUME SettlementInv, NEW p \in Sales, RemovePurchase(p)
  PROVE  SettlementInv'
<1>1. UNCHANGED <<today, settlement, jobStep, jobDay, jobRow, settledOk>>
  BY DEF RemovePurchase, jobs
<1>2. TypeOK /\ DaysPast /\ PartsAddUp
  BY DEF SettlementInv
<1>3. sale' = [sale EXCEPT ![p] = NoSale] /\ sale[p] \in SaleRows
  BY <1>2 DEF RemovePurchase, TypeOK
<1>4. TypeOK'
  <2>1. <<p, sale[p].day>> \in Sales \X Days
    BY <1>3 DEF SaleRows
  <2>2. unmade' \subseteq Sales \X Days
    BY <1>2, <2>1 DEF RemovePurchase, TypeOK
  <2>3. QED
    BY <1>1, <1>2, <1>3, <2>2 DEF TypeOK
<1>5. DaysPast'
  BY <1>1, <1>2, <1>3 DEF DaysPast, TypeOK
<1>6. PartsAddUp'
  BY <1>2, <1>3 DEF PartsAddUp, TypeOK
<1>7. QED
  BY <1>4, <1>5, <1>6, SalesMove DEF SettlementInv

\* A step of a job leaves the sales alone.
LEMMA JobMoves ==
  ASSUME SettlementInv, NEW s \in Servers,
         UNCHANGED <<today, sale, unmade>>,
         jobDay' = jobDay, jobStep[s] # "idle",
         jobStep' = [jobStep EXCEPT ![s] = "idle"],
         jobRow' = [jobRow EXCEPT ![s] = NoSettlement],
         settledOk' = settledOk \cup {Yesterday(s)},
         \/ settlement' = settlement
         \/ jobStep[s] = "save" /\ settlement' = [settlement EXCEPT ![Yesterday(s)] = jobRow[s]],
         settlement'[Yesterday(s)] # NoSettlement \/ SalesOf(Yesterday(s)) = {}
  PROVE  SettlementInv'
<1>1. TypeOK /\ DaysPast /\ PartsAddUp /\ JobsAgree /\ SettledRight /\ NoDayForgotten
  BY DEF SettlementInv
<1>2. jobDay[s] = today /\ today \in Nat \ {0} /\ today <= LastDay /\ LastDay \in Nat
  BY <1>1, SettlementAssumption DEF JobsAgree, TypeOK, Days, SettlementConstants
<1> PICK y : y = Yesterday(s)
  OBVIOUS
<1>3. y = today - 1 /\ y \in Days /\ y < today
  BY <1>2 DEF Yesterday, Days
<1>4. PICK row : row = jobRow[s]
  OBVIOUS
<1>5. jobStep[s] = "save" => row \in SettlementRows /\ row.transactions > 0
  BY <1>1, <1>4 DEF TypeOK, JobsAgree
<1>6. \/ settlement' = settlement
      \/ jobStep[s] = "save" /\ settlement' = [settlement EXCEPT ![y] = row]
  BY <1>4
<1>7. TypeOK'
  <2>1. settlement' \in [Days -> SettlementRows \cup {NoSettlement}]
    BY <1>1, <1>5, <1>6 DEF TypeOK
  <2>2. \A d \in Days : settlement'[d] # NoSettlement => d < today /\ settlement'[d].transactions > 0
    BY <1>1, <1>3, <1>5, <1>6 DEF TypeOK
  <2>3. settledOk' \subseteq Days
    BY <1>1, <1>3 DEF TypeOK
  <2>4. QED
    BY <1>1, <2>1, <2>2, <2>3 DEF TypeOK
<1>8. DaysPast'
  BY <1>1, <1>3 DEF DaysPast
<1>9. PartsAddUp'
  BY <1>1 DEF PartsAddUp
<1>10. JobsAgree'
  <2> SUFFICES ASSUME NEW r \in Servers
      PROVE  /\ jobDay'[r] <= today
             /\ jobStep'[r] # "idle" => jobDay'[r] = today /\ today >= 1
             /\ jobRow'[r] # NoSettlement => jobRow'[r].transactions > 0
             /\ jobStep'[r] = "save" /\ Yesterday(r)' \in Whole(Days)'
                   => RowRight(jobRow[r], Yesterday(r))'
    BY DEF JobsAgree
  <2>1. CASE r = s
    BY <1>1, <2>1 DEF JobsAgree, TypeOK
  <2>2. CASE r # s
    <3> PICK z : z = Yesterday(r)
      OBVIOUS
    <3>1. Yesterday(r)' = z /\ jobStep'[r] = jobStep[r] /\ jobRow'[r] = jobRow[r]
      BY <1>1, <2>2 DEF Yesterday, TypeOK
    <3>2. PICK w : w = jobRow[r]
      OBVIOUS
    <3>3. RowRight(w, z) => RowRight(w, z)'
      BY SalesStay
    <3>4. z \in Whole(Days)' <=> z \in Whole(Days)
      BY WholeStays
    <3>5. jobStep'[r] = "save" /\ Yesterday(r)' \in Whole(Days)' => RowRight(w, z)'
      BY <1>1, <3>1, <3>2, <3>3, <3>4 DEF JobsAgree
    <3>6. QED
      BY <1>1, <3>1, <3>2, <3>5 DEF JobsAgree
  <2>3. QED
    BY <2>1, <2>2
<1>11. SettledRight'
  <2> SUFFICES ASSUME NEW d \in Whole(Days)', settlement'[d] # NoSettlement
               PROVE  RowRight(settlement[d], d)'
    BY DEF SettledRight, Days
  <2>1. d \in Whole(Days) /\ d \in Days
    BY WholeStays DEF Whole
  <2>2. PICK w : w = settlement'[d]
    OBVIOUS
  <2>3. RowRight(w, d)
    <3>1. CASE settlement'[d] = settlement[d]
      BY <1>1, <2>1, <2>2, <3>1 DEF SettledRight
    <3>2. CASE settlement'[d] # settlement[d]
      <4>1. d = y /\ w = row /\ jobStep[s] = "save"
        BY <1>1, <1>6, <2>1, <2>2, <3>2 DEF TypeOK
      <4>2. QED
        BY <1>1, <1>4, <2>1, <4>1 DEF JobsAgree
    <3>3. QED
      BY <3>1, <3>2
  <2>4. QED
    BY <2>2, <2>3, SalesStay
<1>12. NoDayForgotten'
  <2> SUFFICES ASSUME NEW d \in Whole(settledOk)', SalesOf(d)' # {}
               PROVE  settlement'[d] # NoSettlement
    BY DEF NoDayForgotten
  <2>1. d \in settledOk' /\ d \in Days /\ SalesOf(d) # {}
    BY <1>7, SalesStay DEF Whole, TypeOK
  <2>2. CASE d = y
    BY <2>1, <2>2
  <2>3. CASE d # y
    <3>1. d \in Whole(settledOk)
      BY <2>1, <2>3 DEF Whole
    <3>2. settlement[d] # NoSettlement
      BY <1>1, <2>1, <3>1 DEF NoDayForgotten
    <3>3. QED
      BY <1>1, <1>6, <2>1, <2>3, <3>2 DEF TypeOK
  <2>4. QED
    BY <2>2, <2>3
<1>13. QED
  BY <1>7, <1>8, <1>9, <1>10, <1>11, <1>12 DEF SettlementInv

\* A step of a job that writes nothing but its own variables.
LEMMA JobGoesOn ==
  ASSUME SettlementInv, NEW s \in Servers,
         UNCHANGED <<today, sale, settlement, settledOk, unmade>>,
         NEW step \in {"idle", "check", "find", "save"}, NEW day \in Days,
         NEW row \in SettlementRows \cup {NoSettlement},
         jobStep' = [jobStep EXCEPT ![s] = step],
         jobDay' = [jobDay EXCEPT ![s] = day],
         jobRow' = [jobRow EXCEPT ![s] = row],
         day <= today,
         step # "idle" => day = today /\ today >= 1,
         (step = "save") = (row # NoSettlement),
         step = "save" => RowRight(row, day - 1) /\ row.transactions > 0
  PROVE  SettlementInv'
<1>1. TypeOK /\ DaysPast /\ PartsAddUp /\ JobsAgree /\ SettledRight /\ NoDayForgotten
  BY DEF SettlementInv
<1>2. TypeOK'
  BY <1>1 DEF TypeOK
<1>3. DaysPast' /\ PartsAddUp'
  BY <1>1 DEF DaysPast, PartsAddUp
<1>4. SettledRight'
  BY <1>1, SalesStay, WholeStays DEF SettledRight, Days
<1>5. NoDayForgotten'
  BY <1>1, <1>2, SalesStay, WholeStays DEF NoDayForgotten
<1>6. JobsAgree'
  <2> SUFFICES ASSUME NEW r \in Servers
      PROVE  /\ jobDay'[r] <= today
             /\ jobStep'[r] # "idle" => jobDay'[r] = today /\ today >= 1
             /\ jobRow'[r] # NoSettlement => jobRow'[r].transactions > 0
             /\ jobStep'[r] = "save" /\ Yesterday(r)' \in Whole(Days)'
                   => RowRight(jobRow[r], Yesterday(r))'
    BY DEF JobsAgree
  <2>1. CASE r = s
    <3>1. jobStep'[r] = step /\ jobRow'[r] = row /\ jobDay'[r] = day /\ Yesterday(r)' = day - 1
      BY <1>1, <2>1 DEF TypeOK, Yesterday
    <3>2. step = "save" => RowRight(row, day - 1)'
      BY SalesStay
    <3>3. QED
      BY <3>1, <3>2
  <2>2. CASE r # s
    <3> PICK z : z = Yesterday(r)
      OBVIOUS
    <3>1. /\ Yesterday(r)' = z /\ jobStep'[r] = jobStep[r] /\ jobRow'[r] = jobRow[r]
          /\ jobDay'[r] = jobDay[r]
      BY <1>1, <2>2 DEF Yesterday, TypeOK
    <3>2. PICK w : w = jobRow[r]
      OBVIOUS
    <3>3. RowRight(w, z) => RowRight(w, z)'
      BY SalesStay
    <3>4. z \in Whole(Days)' <=> z \in Whole(Days)
      BY WholeStays
    <3>5. jobStep'[r] = "save" /\ Yesterday(r)' \in Whole(Days)' => RowRight(w, z)'
      BY <1>1, <3>1, <3>2, <3>3, <3>4 DEF JobsAgree
    <3>6. QED
      BY <1>1, <3>1, <3>2, <3>5 DEF JobsAgree
  <2>3. QED
    BY <2>1, <2>2
<1>7. QED
  BY <1>2, <1>3, <1>4, <1>5, <1>6 DEF SettlementInv

\* The steps of a job.  It starts on the day that was over,
LEMMA JobFiresKeeps ==
  ASSUME SettlementInv, NEW s \in Servers, JobFires(s)
  PROVE  SettlementInv'
<1>1. TypeOK
  BY DEF SettlementInv
<1>2. today \in Days /\ today \in Nat /\ jobDay[s] \in Nat /\ today >= 1
  BY <1>1 DEF TypeOK, Days, JobFires
<1>3. jobRow[s] = NoSettlement /\ jobRow' = [jobRow EXCEPT ![s] = NoSettlement]
  BY <1>1 DEF TypeOK, JobFires
<1> PICK day : day = today
  OBVIOUS
<1>4. jobDay' = [jobDay EXCEPT ![s] = day] /\ jobStep' = [jobStep EXCEPT ![s] = "check"]
  BY DEF JobFires
<1>5. day \in Days /\ day <= today /\ day = today /\ today >= 1
  BY <1>2
<1>6. UNCHANGED <<today, sale, settlement, settledOk, unmade>>
  BY DEF JobFires
<1>7. QED
  BY <1>3, <1>4, <1>5, <1>6, JobGoesOn

\* leaves a day alone that is settled,
LEMMA CheckKeeps ==
  ASSUME SettlementInv, NEW s \in Servers, CheckExisting(s)
  PROVE  SettlementInv'
<1>1. TypeOK /\ JobsAgree
  BY DEF SettlementInv
<1>2. CASE settlement[Yesterday(s)] # NoSettlement
  BY <1>2, JobMoves DEF CheckExisting, JobEnds
<1>3. CASE settlement[Yesterday(s)] = NoSettlement
  <2>1. jobRow[s] = NoSettlement /\ jobRow' = [jobRow EXCEPT ![s] = NoSettlement]
    BY <1>1, <1>3 DEF CheckExisting, TypeOK
  <2> PICK day : day = jobDay[s]
    OBVIOUS
  <2>2. jobDay' = [jobDay EXCEPT ![s] = day] /\ day \in Days /\ day = today /\ today >= 1
    BY <1>1 DEF CheckExisting, TypeOK, JobsAgree
  <2>3. jobStep' = [jobStep EXCEPT ![s] = "find"] /\ UNCHANGED <<settlement, settledOk>>
    BY <1>3 DEF CheckExisting
  <2>4. day <= today
    BY <2>2 DEF Days
  <2>5. QED
    BY <2>1, <2>2, <2>3, <2>4, JobGoesOn DEF CheckExisting
<1>4. QED
  BY <1>2, <1>3

\* adds up the sales of the day,
LEMMA FindKeeps ==
  ASSUME SettlementInv, NEW s \in Servers, FindPurchases(s)
  PROVE  SettlementInv'
<1>1. TypeOK /\ JobsAgree
  BY DEF SettlementInv
<1> DEFINE S == SalesOf(Yesterday(s))
<1>2. CASE S = {}
  BY <1>2, JobMoves DEF FindPurchases, JobEnds
<1>3. CASE S # {}
  <2>1. PICK alFaruq \in Shares(S, 7), skylink \in Shares(S, 3) :
          jobRow' = [jobRow EXCEPT ![s] =
            [revenue |-> Gross(S), transactions |-> Cardinality(S),
             alFaruq |-> alFaruq, skylink |-> skylink]]
    BY <1>3 DEF FindPurchases
  <2>2. PICK row : row = [revenue |-> Gross(S), transactions |-> Cardinality(S),
                          alFaruq |-> alFaruq, skylink |-> skylink]
    OBVIOUS
  <2>3. /\ Gross(S) \in Nat /\ Net(S) \in Int /\ Cardinality(S) \in Nat
        /\ Cardinality(S) > 0
    BY <1>1, <1>3, DayTyped
  <2>4. /\ alFaruq \in Int /\ skylink \in Int
        /\ -5 <= 10 * alFaruq - 7 * Net(S) /\ 10 * alFaruq - 7 * Net(S) <= 5
        /\ -5 <= 10 * skylink - 3 * Net(S) /\ 10 * skylink - 3 * Net(S) <= 5
    <3>1. alFaruq \in Rounded(Net(S) * 7, 10) /\ skylink \in Rounded(Net(S) * 3, 10)
      BY DEF Shares
    <3> DEFINE n == Net(S)
    <3> HIDE DEF n
    <3>2. n \in Int /\ n * 7 \in Int /\ n * 3 \in Int
      BY <2>3 DEF n
    <3>3. /\ alFaruq \in Int /\ -10 <= 2 * (alFaruq * 10 - n * 7)
          /\ 2 * (alFaruq * 10 - n * 7) <= 10
      BY <3>1, <3>2, RoundedNear DEF n
    <3>4. /\ skylink \in Int /\ -10 <= 2 * (skylink * 10 - n * 3)
          /\ 2 * (skylink * 10 - n * 3) <= 10
      BY <3>1, <3>2, RoundedNear DEF n
    <3>5. /\ -5 <= 10 * alFaruq - 7 * n /\ 10 * alFaruq - 7 * n <= 5
          /\ -5 <= 10 * skylink - 3 * n /\ 10 * skylink - 3 * n <= 5
      BY <3>2, <3>3, <3>4
    <3>6. QED
      BY <3>3, <3>4, <3>5 DEF n
  <2>5. row \in SettlementRows /\ row.transactions > 0
    <3> HIDE DEF S
    <3>1. QED
      BY <2>2, <2>3, <2>4 DEF SettlementRows
  <2>6. RowRight(row, Yesterday(s))
    <3>1. /\ row.transactions = Cardinality(S) /\ row.revenue = Gross(S)
          /\ row.alFaruq = alFaruq /\ row.skylink = skylink
      BY <2>2
    <3>2. QED
      BY <2>4, <3>1 DEF RowRight
  <2> PICK day : day = jobDay[s]
    OBVIOUS
  <2>7. jobDay' = [jobDay EXCEPT ![s] = day] /\ day \in Days /\ day = today /\ today >= 1
    BY <1>1 DEF FindPurchases, TypeOK, JobsAgree
  <2>8. day <= today /\ RowRight(row, day - 1)
    BY <2>6, <2>7 DEF Days, Yesterday
  <2>9. /\ jobStep' = [jobStep EXCEPT ![s] = "save"]
        /\ UNCHANGED <<today, sale, settlement, settledOk, unmade>>
    BY <1>3 DEF FindPurchases
  <2>10. jobRow' = [jobRow EXCEPT ![s] = row] /\ row # NoSettlement
    BY <2>1, <2>2, <2>5, SettlementAssumption DEF SettlementConstants
  <2>11. QED
    BY <2>5, <2>7, <2>8, <2>9, <2>10, JobGoesOn
<1>4. QED
  BY <1>2, <1>3

\* and stores the sums, unless another server has.
LEMMA SaveKeeps ==
  ASSUME SettlementInv, NEW s \in Servers, SaveSettlement(s)
  PROVE  SettlementInv'
<1>1. TypeOK /\ JobsAgree
  BY DEF SettlementInv
<1>2. jobRow[s] # NoSettlement /\ Yesterday(s) \in Days
  BY <1>1, SettlementAssumption DEF TypeOK, JobsAgree, SaveSettlement, Yesterday, Days,
     SettlementConstants
<1>3. settlement'[Yesterday(s)] # NoSettlement
  BY <1>1, <1>2 DEF SaveSettlement, TypeOK
<1>4. QED
  BY <1>3, JobMoves DEF SaveSettlement

\* A job that fails settles nothing and is not counted.
LEMMA JobFailsKeeps ==
  ASSUME SettlementInv, NEW s \in Servers, JobFails(s)
  PROVE  SettlementInv'
<1>1. TypeOK /\ JobsAgree
  BY DEF SettlementInv
<1> PICK day : day = jobDay[s]
  OBVIOUS
<1>2. jobDay' = [jobDay EXCEPT ![s] = day] /\ day \in Days /\ day <= today
  BY <1>1 DEF JobFails, TypeOK, JobsAgree
<1>3. QED
  BY <1>2, JobGoesOn DEF JobFails

\* Every step keeps the invariant.
LEMMA InvStep ==
  ASSUME SettlementInv, [Next]_vars
  PROVE  SettlementInv'
<1>1. CASE NextDay
  BY <1>1, NextDayKeeps
<1>2. ASSUME NEW p \in Sales, StorePurchase(p) PROVE SettlementInv'
  BY <1>2, StoreKeeps
<1>3. ASSUME NEW p \in Sales, RemovePurchase(p) PROVE SettlementInv'
  BY <1>3, RemoveKeeps
<1>4. ASSUME NEW s \in Servers, JobFires(s) PROVE SettlementInv'
  BY <1>4, JobFiresKeeps
<1>5. ASSUME NEW s \in Servers, CheckExisting(s) PROVE SettlementInv'
  BY <1>5, CheckKeeps
<1>6. ASSUME NEW s \in Servers, FindPurchases(s) PROVE SettlementInv'
  BY <1>6, FindKeeps
<1>7. ASSUME NEW s \in Servers, SaveSettlement(s) PROVE SettlementInv'
  BY <1>7, SaveKeeps
<1>8. ASSUME NEW s \in Servers, JobFails(s) PROVE SettlementInv'
  BY <1>8, JobFailsKeeps
<1>9. CASE UNCHANGED vars
  <2> USE <1>9 DEF vars
  <2>1. TypeOK' /\ DaysPast' /\ PartsAddUp'
    BY DEF SettlementInv, TypeOK, DaysPast, PartsAddUp
  <2>2. JobsAgree'
    <3> SUFFICES ASSUME NEW r \in Servers, jobStep[r] = "save", Yesterday(r)' \in Whole(Days)'
                 PROVE  RowRight(jobRow[r], Yesterday(r))'
      BY DEF SettlementInv, JobsAgree
    <3> PICK z, w : z = Yesterday(r) /\ w = jobRow[r]
      OBVIOUS
    <3>1. Yesterday(r)' = z /\ jobRow'[r] = w
      BY DEF Yesterday
    <3>2. RowRight(w, z)
      BY <3>1, WholeStays DEF SettlementInv, JobsAgree
    <3>3. QED
      BY <3>1, <3>2, SalesStay
  <2>3. SettledRight' /\ NoDayForgotten'
    BY SalesStay, WholeStays DEF SettlementInv, SettledRight, NoDayForgotten, Days
  <2>4. QED
    BY <2>1, <2>2, <2>3 DEF SettlementInv
<1>10. QED
  BY <1>1, <1>2, <1>3, <1>4, <1>5, <1>6, <1>7, <1>8, <1>9 DEF Next

-----------------------------------------------------------------------------
\* The reports.

\* What the invariant says of settlements is SettledDayIsWhole.
LEMMA WholeDays ==
  ASSUME SettlementInv
  PROVE  SettledDayIsWhole
  BY DEF SettlementInv, SettledRight, SettledDayIsWhole, RowRight

\* Whatever is added up over the sales of D is added up over its days, each
\* sale once.
LEMMA SumByDays ==
  ASSUME NEW D \in SUBSET Days, NEW f, \A p \in SoldIn(D) : f[p] \in Int,
         NEW t, \A d \in D : t[d] = SumFunctionOnSet(f, SalesOf(d))
  PROVE  /\ IsFiniteSet(D) /\ IsFiniteSet(SoldIn(D))
         /\ SumFunctionOnSet(f, SoldIn(D)) = SumFunctionOnSet(t, D)
<1>1. IsFiniteSet(D)
  <2>1. IsFiniteSet(Days)
    BY FS_Interval, SettlementAssumption DEF Days, SettlementConstants
  <2>2. QED
    BY <2>1, FS_Subset
<1> DEFINE N == SoldIn(D)
           s == [d \in D |-> SalesOf(d)]
<1>2. \A x : x \in N <=> \E d \in D : x \in s[d]
  BY DEF SoldIn
<1>3. \A d, e \in D : d # e => s[d] \cap s[e] = {}
  BY DEF SalesOf
<1>4. \A d \in D : IsFiniteSet(s[d]) /\ t[d] = SumFunctionOnSet(f, s[d])
  BY SalesFinite
<1>5. \A d \in D : \A x \in s[d] : f[x] \in Int
  BY <1>2
<1> HIDE DEF N, s
<1>6. IsFiniteSet(N) /\ SumFunctionOnSet(f, N) = SumFunctionOnSet(t, D)
  BY <1>1, <1>2, <1>3, <1>4, <1>5, SumOfSums, SMTT(90)
<1>7. QED
  BY <1>1, <1>6 DEF N

\* The rows a report is over.
LEMMA SoldRows ==
  ASSUME TypeOK, NEW D \in SUBSET Days
  PROVE  /\ IsFiniteSet(D) /\ IsFiniteSet(SoldIn(D))
         /\ \A p \in SoldIn(D) : p \in Sales /\ sale[p] # NoSale /\ sale[p] \in SaleRows
<1>1. \A p \in SoldIn(D) : p \in Sales /\ sale[p] # NoSale /\ sale[p] \in SaleRows
  BY DEF SoldIn, SalesOf, TypeOK
<1>2. IsFiniteSet(D)
  <2>1. IsFiniteSet(Days)
    BY FS_Interval, SettlementAssumption DEF Days, SettlementConstants
  <2>2. QED
    BY <2>1, FS_Subset
<1>3. IsFiniteSet(Sales) /\ SoldIn(D) \subseteq Sales
  BY <1>1, SettlementAssumption DEF SettlementConstants
<1>4. QED
  BY <1>1, <1>2, <1>3, FS_Subset

\* Total, unfolded.
LEMMA TotalIsSum ==
  ASSUME NEW D, NEW column
  PROVE  Total(D, column) = SumFunctionOnSet([p \in SoldIn(D) |-> sale[p][column]], SoldIn(D))
  BY DEF Total, SumFunction

\* Adding one for each element counts them.
LEMMA OnesCount ==
  ASSUME NEW f, NEW S, IsFiniteSet(S), \A x \in S : f[x] = 1
  PROVE  SumFunctionOnSet(f, S) = Cardinality(S)
<1> DEFINE G == {T \in SUBSET S : SumFunctionOnSet(f, T) = Cardinality(T)}
<1>1. {} \in G
  BY SumEmpty, FS_EmptySet
<1>2. ASSUME NEW T \in SUBSET S, T # {}, \A x \in T : T \ {x} \in G
      PROVE  T \in G
  <2> PICK y \in T : TRUE
    BY <1>2
  <2>1. IsFiniteSet(T)
    BY FS_Subset
  <2>2. SumFunctionOnSet(f, T) = f[y] + SumFunctionOnSet(f, T \ {y})
    <3>1. \A x \in T : f[x] \in Int
      OBVIOUS
    <3>2. QED
      BY <2>1, <3>1, SumRemove
  <2>3. Cardinality(T \ {y}) = Cardinality(T) - 1 /\ Cardinality(T) \in Nat
    BY <2>1, FS_RemoveElement, FS_CardinalityType
  <2>4. SumFunctionOnSet(f, T \ {y}) = Cardinality(T \ {y}) /\ f[y] = 1
    BY <1>2
  <2>5. QED
    BY <2>2, <2>3, <2>4
<1> HIDE DEF G
<1>3. S \in G
  BY <1>1, <1>2, FiniteInduction
<1>4. QED
  BY <1>3 DEF G

\* A report over D adds up, and counts, the sales of its days, each once.
LEMMA ReportSums ==
  ASSUME TypeOK, NEW D \in SUBSET Days
  PROVE  /\ Total(D, "net") = SumFunctionOnSet([d \in D |-> Net(SalesOf(d))], D)
         /\ Total(D, "gross") = SumFunctionOnSet([d \in D |-> Gross(SalesOf(d))], D)
         /\ Cardinality(SoldIn(D))
              = SumFunctionOnSet([d \in D |-> Cardinality(SalesOf(d))], D)
<1> DEFINE N == SoldIn(D)
           n == [p \in N |-> sale[p]["net"]]
           g == [p \in N |-> sale[p]["gross"]]
           o == [p \in N |-> 1]
           tn == [d \in D |-> Net(SalesOf(d))]
           tg == [d \in D |-> Gross(SalesOf(d))]
           to == [d \in D |-> Cardinality(SalesOf(d))]
<1>1. \A p \in N : n[p] \in Int /\ g[p] \in Int /\ o[p] \in Int /\ o[p] = 1
  BY SoldRows DEF SaleRows
<1>2. ASSUME NEW d \in D
      PROVE  /\ tn[d] = SumFunctionOnSet(n, SalesOf(d))
             /\ tg[d] = SumFunctionOnSet(g, SalesOf(d))
             /\ to[d] = SumFunctionOnSet(o, SalesOf(d))
  <2> DEFINE nd == [p \in SalesOf(d) |-> sale[p].net]
             gd == [p \in SalesOf(d) |-> sale[p].gross]
  <2>1. tn[d] = SumFunctionOnSet(nd, SalesOf(d)) /\ tg[d] = SumFunctionOnSet(gd, SalesOf(d))
    BY GrossIsSum
  <2>2. SalesOf(d) \subseteq N /\ IsFiniteSet(SalesOf(d))
    BY SalesFinite DEF SoldIn
  <2>3. \A p \in SalesOf(d) : nd[p] = n[p] /\ gd[p] = g[p] /\ o[p] = 1
    BY <2>2
  <2>4. to[d] = Cardinality(SalesOf(d))
    OBVIOUS
  <2> HIDE DEF n, g, o, tn, tg, to, nd, gd, N
  <2>5. /\ SumFunctionOnSet(nd, SalesOf(d)) = SumFunctionOnSet(n, SalesOf(d))
        /\ SumFunctionOnSet(gd, SalesOf(d)) = SumFunctionOnSet(g, SalesOf(d))
    BY <2>2, <2>3, SumSame
  <2>6. SumFunctionOnSet(o, SalesOf(d)) = Cardinality(SalesOf(d))
    BY <2>2, <2>3, OnesCount
  <2>7. QED
    BY <2>1, <2>4, <2>5, <2>6
<1>3. Total(D, "net") = SumFunctionOnSet(n, N) /\ Total(D, "gross") = SumFunctionOnSet(g, N)
  BY TotalIsSum
<1> HIDE DEF n, g, o, tn, tg, to
<1>4. /\ SumFunctionOnSet(n, N) = SumFunctionOnSet(tn, D)
      /\ SumFunctionOnSet(g, N) = SumFunctionOnSet(tg, D)
      /\ SumFunctionOnSet(o, N) = SumFunctionOnSet(to, D)
  BY <1>1, <1>2, SumByDays
<1>5. SumFunctionOnSet(o, N) = Cardinality(N)
  BY <1>1, SoldRows, OnesCount
<1>6. QED
  BY <1>3, <1>4, <1>5 DEF tn, tg, to

\* A ledger adds the shares of the sales, which is a share of their sum.
LEMMA LedgerIsShare ==
  ASSUME TypeOK, NEW D \in SUBSET Days, NEW h
  PROVE  /\ StakeholderLedger(D, h) = TenthsOf(h) * Total(D, "net")
         /\ Total(D, "net") \in Int
<1> DEFINE N == SoldIn(D)
           f == [p \in N |-> sale[p].net]
           g == [p \in N |-> sale[p].net * TenthsOf(h)]
           k == TenthsOf(h)
<1>1. IsFiniteSet(N) /\ \A p \in N : sale[p].net \in Int
  BY SoldRows DEF SaleRows
<1>2. k \in Nat
  BY DEF TenthsOf
<1>3. StakeholderLedger(D, h) = SumFunctionOnSet(g, N)
  BY DEF StakeholderLedger, SumFunction
<1>4. Total(D, "net") = SumFunctionOnSet(f, N)
  BY DEF Total, SumFunction
<1>5. \A p \in N : /\ g[p] \in Int /\ f[p] \in Int
                   /\ 1 * g[p] - k * f[p] = 0
  <2> HIDE DEF k
  <2> TAKE p \in N
  <2>1. sale[p].net \in Int
    BY <1>1
  <2>2. g[p] = sale[p].net * k /\ f[p] = sale[p].net
    BY DEF k
  <2>3. QED
    BY <1>2, <2>1, <2>2
<1> HIDE DEF f, g, N, k
<1>6. SumFunctionOnSet(f, N) \in Int /\ SumFunctionOnSet(g, N) \in Int
  BY <1>1, <1>5, SumTyped
<1>7. Cardinality(N) \in Nat
  BY <1>1, FS_CardinalityType
<1> DEFINE A == SumFunctionOnSet(f, N)
           B == SumFunctionOnSet(g, N)
<1>8. /\ -(0 * Cardinality(N)) <= 1 * B - k * A
      /\ 1 * B - k * A <= 0 * Cardinality(N)
  <2>1. \A p \in N : /\ g[p] \in Int /\ f[p] \in Int
                     /\ -0 <= 1 * g[p] - k * f[p] /\ 1 * g[p] - k * f[p] <= 0
    BY <1>5
  <2>2. 1 \in Int /\ k \in Int /\ 0 \in Nat
    BY <1>2
  <2>3. QED
    BY <1>1, <2>1, <2>2, SumClose, Zenon
<1>9. B = k * A
  <2> HIDE DEF A, B
  <2>1. A \in Int /\ B \in Int /\ k * A \in Int
    BY <1>2, <1>6 DEF A, B
  <2>2. QED
    BY <1>7, <1>8, <2>1
<1>10. QED
  BY <1>3, <1>4, <1>6, <1>9 DEF k

\* The settlements of a stakeholder and his ledger.
LEMMA SettledShares ==
  ASSUME TypeOK, NEW D \in SUBSET Days, NEW f, NEW k \in Nat,
         \A d \in D : /\ f[d] \in Int
                      /\ -5 <= 10 * f[d] - k * Net(SalesOf(d))
                      /\ 10 * f[d] - k * Net(SalesOf(d)) <= 5
  PROVE  Abs(10 * SumFunctionOnSet(f, D) - k * Total(D, "net")) <= 5 * Cardinality(D)
<1> DEFINE t == [d \in D |-> Net(SalesOf(d))]
<1>1. IsFiniteSet(D) /\ Total(D, "net") = SumFunctionOnSet(t, D)
  BY ReportSums, SoldRows
<1>2. \A d \in D : /\ f[d] \in Int /\ t[d] \in Int
                   /\ -5 <= 10 * f[d] - k * t[d] /\ 10 * f[d] - k * t[d] <= 5
  BY DayTyped
<1> HIDE DEF t
<1> DEFINE A == SumFunctionOnSet(f, D)
           B == SumFunctionOnSet(t, D)
<1>3. A \in Int /\ B \in Int
  BY <1>1, <1>2, SumTyped
<1>4. -(5 * Cardinality(D)) <= 10 * A - k * B /\ 10 * A - k * B <= 5 * Cardinality(D)
  <2>1. 10 \in Int /\ k \in Int /\ 5 \in Nat
    OBVIOUS
  <2>2. QED
    BY <1>1, <1>2, <2>1, SumClose, Zenon
<1>5. Cardinality(D) \in Nat
  BY <1>1, FS_CardinalityType
<1> HIDE DEF A, B
<1>6. k * B \in Int
  BY <1>3
<1>7. Abs(10 * A - k * B) <= 5 * Cardinality(D)
  BY <1>3, <1>4, <1>5, <1>6 DEF Abs
<1>8. QED
  BY <1>1, <1>7 DEF A, B

\* A cent a sale at most is lost when gross, VAT, fees and net are added up.
LEMMA PartsOfReport ==
  ASSUME TypeOK, PartsAddUp, NEW D \in SUBSET Days
  PROVE  Abs(Total(D, "gross") - Total(D, "vat") - Total(D, "fee") - Total(D, "net"))
           <= Cardinality(SoldIn(D))
<1> DEFINE N == SoldIn(D)
           g == [p \in N |-> sale[p]["gross"]]
           v == [p \in N |-> sale[p]["vat"]]
           f == [p \in N |-> sale[p]["fee"]]
           n == [p \in N |-> sale[p]["net"]]
           vf == [p \in N |-> sale[p]["vat"] + sale[p]["fee"]]
           vfn == [p \in N |-> sale[p]["vat"] + sale[p]["fee"] + sale[p]["net"]]
<1>1. IsFiniteSet(N)
  BY SoldRows
<1>2. \A p \in N :
        /\ sale[p]["gross"] \in Int /\ sale[p]["vat"] \in Int
        /\ sale[p]["fee"] \in Int /\ sale[p]["net"] \in Int
        /\ Abs(sale[p]["fee"] + sale[p]["vat"] + sale[p]["net"] - sale[p]["gross"]) <= 1
  <2> TAKE p \in N
  <2>1. p \in Sales /\ sale[p] # NoSale /\ sale[p] \in SaleRows
    BY SoldRows
  <2>2. Abs(sale[p].fee + sale[p].vat + sale[p].net - sale[p].gross) <= 1
    BY <2>1 DEF PartsAddUp
  <2>3. QED
    BY <2>1, <2>2 DEF SaleRows
<1>3. \A p \in N : /\ g[p] \in Int /\ v[p] \in Int /\ f[p] \in Int /\ n[p] \in Int
                   /\ vf[p] \in Int /\ vfn[p] \in Int
                   /\ vf[p] = v[p] + f[p] /\ vfn[p] = vf[p] + n[p]
  BY <1>2
<1>4. \A p \in N : -1 <= 1 * g[p] - 1 * vfn[p] /\ 1 * g[p] - 1 * vfn[p] <= 1
  BY <1>2 DEF Abs
<1>5. /\ Total(D, "gross") = SumFunctionOnSet(g, N) /\ Total(D, "vat") = SumFunctionOnSet(v, N)
      /\ Total(D, "fee") = SumFunctionOnSet(f, N) /\ Total(D, "net") = SumFunctionOnSet(n, N)
  BY TotalIsSum
<1> HIDE DEF N, g, v, f, n, vf, vfn
<1>6. /\ SumFunctionOnSet(vf, N) = SumFunctionOnSet(v, N) + SumFunctionOnSet(f, N)
      /\ SumFunctionOnSet(vfn, N) = SumFunctionOnSet(vf, N) + SumFunctionOnSet(n, N)
  BY <1>1, <1>3, SumAdd
<1>7. /\ SumFunctionOnSet(g, N) \in Int /\ SumFunctionOnSet(v, N) \in Int
      /\ SumFunctionOnSet(f, N) \in Int /\ SumFunctionOnSet(n, N) \in Int
  BY <1>1, <1>3, SumTyped
<1>8. /\ -(1 * Cardinality(N)) <= 1 * SumFunctionOnSet(g, N) - 1 * SumFunctionOnSet(vfn, N)
      /\ 1 * SumFunctionOnSet(g, N) - 1 * SumFunctionOnSet(vfn, N) <= 1 * Cardinality(N)
  <2>1. 1 \in Int /\ 1 \in Nat
    OBVIOUS
  <2>2. \A p \in N : /\ g[p] \in Int /\ vfn[p] \in Int
                     /\ -1 <= 1 * g[p] - 1 * vfn[p] /\ 1 * g[p] - 1 * vfn[p] <= 1
    BY <1>3, <1>4
  <2>3. QED
    BY <1>1, <2>1, <2>2, SumClose, Zenon
<1>9. Cardinality(N) \in Nat
  BY <1>1, FS_CardinalityType
<1>10. QED
  BY <1>5, <1>6, <1>7, <1>8, <1>9 DEF Abs, N

\* So the reports agree.
LEMMA ReportsRight ==
  ASSUME SettlementInv
  PROVE  ReportsAgree
<1> DEFINE D == Whole(Settled(Days))
<1>1. TypeOK /\ PartsAddUp /\ D \in SUBSET Days
  BY DEF SettlementInv, Whole, Settled
<1>2. Settled(D) = D
  BY DEF Whole, Settled
<1>3. \A d \in D : settlement[d] \in SettlementRows /\ RowRight(settlement[d], d)
  BY <1>1 DEF SettlementInv, SettledRight, Whole, Settled, TypeOK
<1> HIDE DEF D
<1>4. /\ TransactionReport(D).transactions = Cardinality(SoldIn(D))
      /\ TransactionReport(D).revenue = Total(D, "gross")
      /\ TransactionReport(D).net = Total(D, "net")
      /\ ReconciliationReport(D).vat = Total(D, "vat")
      /\ ReconciliationReport(D).fees = Total(D, "fee")
      /\ ReconciliationReport(D).net = Total(D, "net")
  BY DEF TransactionReport, ReconciliationReport
<1> DEFINE a == [d \in D |-> settlement[d]["alFaruq"]]
           k == [d \in D |-> settlement[d]["skylink"]]
           r == [d \in D |-> settlement[d]["revenue"]]
           n == [d \in D |-> settlement[d]["transactions"]]
<1>5. /\ SettlementsReport(D).alFaruq = SumFunctionOnSet(a, D)
      /\ SettlementsReport(D).skylink = SumFunctionOnSet(k, D)
      /\ SettlementsReport(D).revenue = SumFunctionOnSet(r, D)
      /\ SettlementsReport(D).transactions = SumFunctionOnSet(n, D)
  BY <1>2 DEF SettlementsReport, Stored, SumFunction
<1>6. /\ StakeholderLedger(D, "ALFARUQ") = 7 * Total(D, "net")
      /\ StakeholderLedger(D, "SKYLINK") = 3 * Total(D, "net")
      /\ Total(D, "net") \in Int
  BY <1>1, LedgerIsShare DEF TenthsOf
<1>7. \A d \in D : /\ a[d] \in Int
                   /\ -5 <= 10 * a[d] - 7 * Net(SalesOf(d))
                   /\ 10 * a[d] - 7 * Net(SalesOf(d)) <= 5
  BY <1>3 DEF RowRight, SettlementRows
<1>8. \A d \in D : /\ k[d] \in Int
                   /\ -5 <= 10 * k[d] - 3 * Net(SalesOf(d))
                   /\ 10 * k[d] - 3 * Net(SalesOf(d)) <= 5
  BY <1>3 DEF RowRight, SettlementRows
<1> DEFINE tg == [d \in D |-> Gross(SalesOf(d))]
           to == [d \in D |-> Cardinality(SalesOf(d))]
<1>9. \A d \in D : r[d] = tg[d] /\ n[d] = to[d]
  BY <1>3 DEF RowRight
<1>10. /\ Total(D, "gross") = SumFunctionOnSet(tg, D)
       /\ Cardinality(SoldIn(D)) = SumFunctionOnSet(to, D)
  BY <1>1, ReportSums
<1> HIDE DEF a, k, r, n, tg, to
<1>11. /\ SumFunctionOnSet(r, D) = Total(D, "gross")
       /\ SumFunctionOnSet(n, D) = Cardinality(SoldIn(D))
  BY <1>1, <1>9, <1>10, SoldRows, SumSame
<1>12. Abs(10 * SumFunctionOnSet(a, D) - 7 * Total(D, "net")) <= 5 * Cardinality(D)
  BY <1>1, <1>7, SettledShares
<1>13. Abs(10 * SumFunctionOnSet(k, D) - 3 * Total(D, "net")) <= 5 * Cardinality(D)
  BY <1>1, <1>8, SettledShares
<1>14. Abs(Total(D, "gross") - Total(D, "vat") - Total(D, "fee") - Total(D, "net"))
         <= Cardinality(SoldIn(D))
  BY <1>1, PartsOfReport
<1>15. QED
  BY <1>4, <1>5, <1>6, <1>11, <1>12, <1>13, <1>14 DEF ReportsAgree, D

\* Whatever happens, settlements are right.
LEMMA InvCorrect == Spec => []SettlementInv
<1>1. SettlementInv /\ [Next]_vars => SettlementInv'
  BY InvStep
<1>2. QED
  BY <1>1, InvInit, PTL DEF Spec
=============================================================================
