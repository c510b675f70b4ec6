----------------------------- MODULE FiniteSums -----------------------------
(***************************************************************************)
(* What SumFunctionOnSet of the module Functions computes on every finite  *)
(* set.  The fees, balances and sample counts of RetrievalSessionV3 are    *)
(* such sums.  SumFunctionOnSet is defined by a recursive function over    *)
(* the subsets of its index set; each lemma is an induction over them, in  *)
(* the form of a least counterexample: a non-empty set of subsets of a     *)
(* finite set has a smallest member.                                       *)
(*                                                                         *)
(* Summable, DifferAt, AddsUp, Renames and Grouped name the hypotheses of  *)
(* lemmas, so that a lemma can be cited without its quantifiers.           *)
(***************************************************************************)
EXTENDS Functions, FiniteSetTheorems, TLAPS

\* A non-empty set of subsets of a finite set has a member that contains no other.
LEMMA MinimalSet ==
    ASSUME NEW S, IsFiniteSet(S), NEW T \in SUBSET (SUBSET S), T # {}
    PROVE  \E A \in T : \A B \in T : B \subseteq A => B = A
<1>1. IsWellFoundedOn(StrictSubsetOrdering(S), SUBSET S)
  BY FS_StrictSubsetOrderingWellFounded, FS_FiniteSubsetsOfFinite, Zenon
<1>2. PICK A \in T : \A B \in T : ~ (<<B, A>> \in StrictSubsetOrdering(S))
  <2> DEFINE R == StrictSubsetOrdering(S)
  <2>1. \E x \in T : \A y \in T : ~ (<<y, x>> \in R)
    <3> HIDE DEF R
    <3>1. IsWellFoundedOn(R, SUBSET S)
      BY <1>1 DEF R
    <3> QED BY <3>1, WFMin, Zenon
  <2> QED BY <2>1
<1> QED BY <1>2 DEF StrictSubsetOrdering

\* Induction over a finite set, for a property given as the set of sets that have it.
LEMMA SetInduction ==
    ASSUME NEW S, IsFiniteSet(S), NEW T, {} \in T,
           \A A \in SUBSET S : \A x \in A : A \ {x} \in T => A \in T
    PROVE  S \in T
<1> DEFINE U == {A \in SUBSET S : A \notin T}
<1> SUFFICES ASSUME U # {} PROVE FALSE
  BY Zenon
<1>1. PICK A \in U : \A B \in U : B \subseteq A => B = A
  <2>1. U \in SUBSET (SUBSET S)
    BY Zenon
  <2> HIDE DEF U
  <2> QED BY <2>1, MinimalSet
<1>2. PICK x \in A : TRUE
  BY Zenon
<1>3. A \ {x} \notin U
  BY <1>1, <1>2, Zenon
<1> QED BY <1>1, <1>2, <1>3, Zenon

\* The recursion of FoldFunctionOnSet: an element is taken off the index set and its
\* summand added to the sum over the rest.
Pick(s) == CHOOSE x \in s : TRUE
SumStep(f, g, s) == IF s = {} THEN 0 ELSE f[Pick(s)] + g[s \ {Pick(s)}]
Solves(f, g, S) == \A s \in SUBSET S : g[s] = SumStep(f, g, s)
IsSum(f, g, S) == g = [s \in SUBSET S |-> SumStep(f, g, s)]

\* SumFunctionOnSet is the value of the function that satisfies the recursion.
LEMMA SumUnfolds ==
    ASSUME NEW f, NEW S
    PROVE  SumFunctionOnSet(f, S) = (CHOOSE g : IsSum(f, g, S))[S]
BY Zenon DEF SumFunctionOnSet, FoldFunctionOnSet, MapThenFoldSet, IsSum, SumStep, Pick

\* The element taken off is in the set.
LEMMA PickIn == ASSUME NEW s, s # {} PROVE Pick(s) \in s
BY Zenon DEF Pick

\* Two functions that satisfy the recursion agree.
LEMMA SumUnique ==
    ASSUME NEW S, IsFiniteSet(S), NEW f, NEW g, NEW h,
           Solves(f, g, S), Solves(f, h, S)
    PROVE  \A s \in SUBSET S : g[s] = h[s]
<1> DEFINE T == {s \in SUBSET S : g[s] # h[s]}
<1> SUFFICES ASSUME T # {} PROVE FALSE
  BY Zenon
<1>1. PICK A \in T : \A B \in T : B \subseteq A => B = A
  <2>1. T \in SUBSET (SUBSET S)
    BY Zenon
  <2> HIDE DEF T
  <2> QED BY <2>1, MinimalSet
<1>2. A # {}
  BY Zenon DEF Solves, SumStep
<1>3. Pick(A) \in A
  BY <1>2, PickIn, Zenon
<1>4. A \ {Pick(A)} \in SUBSET S /\ A \ {Pick(A)} \notin T
  BY <1>1, <1>3, Zenon
<1>5. g[A \ {Pick(A)}] = h[A \ {Pick(A)}]
  BY <1>4, Zenon
<1> QED BY <1>2, <1>5, Zenon DEF Solves, SumStep

\* The recursion has a solution.
LEMMA SumExists ==
    ASSUME NEW S, IsFiniteSet(S), NEW f
    PROVE  \E g : IsSum(f, g, S)
<1> DEFINE Has(A) == \E g : IsSum(f, g, A)
           T == {A \in SUBSET S : ~Has(A)}
<1> SUFFICES ASSUME T # {} PROVE FALSE
  BY Zenon
<1>1. PICK A \in T : \A B \in T : B \subseteq A => B = A
  <2>1. T \in SUBSET (SUBSET S)
    BY Zenon
  <2> HIDE DEF T
  <2> QED BY <2>1, MinimalSet
<1> DEFINE G(s) == CHOOSE g : IsSum(f, g, s)
           H == [s \in SUBSET A |-> G(s)[s]]
           K == [s \in SUBSET A |-> IF s = A THEN SumStep(f, H, A) ELSE H[s]]
<1>2. ASSUME NEW s \in SUBSET A, s # A PROVE IsSum(f, G(s), s)
  <2>1. s \notin T /\ s \in SUBSET S
    BY <1>1, <1>2, Zenon
  <2>2. Has(s)
    BY <2>1, Zenon
  <2> QED BY <2>2, Zenon
<1>3. ASSUME NEW s \in SUBSET A, s # A PROVE H[s] = SumStep(f, H, s)
  <2>1. IsSum(f, G(s), s)
    BY <1>2, <1>3
  <2> DEFINE t == s \ {Pick(s)}
  <2> HIDE DEF G
  <2>2. \A u \in SUBSET s : G(s)[u] = SumStep(f, G(s), u)
    BY <2>1, Zenon DEF IsSum
  <2>3. CASE s = {}
    BY <2>2, <2>3, Zenon DEF SumStep
  <2>4. CASE s # {}
    <3>1. Pick(s) \in s
      BY <2>4, PickIn, Zenon
    <3>2. t \in SUBSET A /\ t # A /\ t \in SUBSET s
      BY <3>1, Zenon
    <3> HIDE DEF t
    <3>3. IsSum(f, G(t), t)
      BY <3>2, <1>2
    <3>4. \A u \in SUBSET t : G(t)[u] = SumStep(f, G(t), u)
      BY <3>3, Zenon DEF IsSum
    <3>5. IsFiniteSet(t)
      BY <3>2, FS_Subset, Zenon
    <3>6. \A u \in SUBSET t : G(s)[u] = G(t)[u]
      <4>1. Solves(f, G(t), t) /\ Solves(f, G(s), t)
        BY <3>4, <2>2, <3>2, Zenon DEF Solves
      <4> QED BY <4>1, <3>5, SumUnique
    <3>7. G(s)[t] = H[t]
      BY <3>6, <3>2, Zenon
    <3>8. H[s] = f[Pick(s)] + G(s)[t]
      BY <2>2, <2>4, Zenon DEF SumStep, t
    <3> QED BY <3>7, <3>8, <2>4, Zenon DEF SumStep, t
  <2> QED BY <2>3, <2>4
<1>4. ASSUME NEW s \in SUBSET A PROVE SumStep(f, K, s) = SumStep(f, H, s)
  <2>1. CASE s = {}
    BY <2>1, Zenon DEF SumStep
  <2>2. CASE s # {}
    <3>1. Pick(s) \in s
      BY <2>2, PickIn, Zenon
    <3>2. s \ {Pick(s)} \in SUBSET A /\ s \ {Pick(s)} # A
      BY <3>1, Zenon
    <3>3. K[s \ {Pick(s)}] = H[s \ {Pick(s)}]
      <4> HIDE DEF H
      <4> QED BY <3>2, Zenon
    <3> HIDE DEF K, H
    <3> QED BY <3>3, <2>2, Zenon DEF SumStep
  <2> QED BY <2>1, <2>2
<1>5. IsSum(f, K, A)
  <2>1. ASSUME NEW s \in SUBSET A PROVE K[s] = SumStep(f, K, s)
    <3> HIDE DEF H
    <3>1. K[s] = IF s = A THEN SumStep(f, H, A) ELSE H[s]
      BY Zenon
    <3> HIDE DEF K
    <3> QED BY <3>1, <1>3, <1>4, Zenon
  <2>2. DOMAIN K = SUBSET A /\ K = [s \in DOMAIN K |-> K[s]]
    BY SMT
  <2> HIDE DEF K
  <2> QED BY <2>1, <2>2, Zenon DEF IsSum
<1> QED BY <1>5, Zenon

\* What SumFunctionOnSet computes.
LEMMA SumRec ==
    ASSUME NEW S, IsFiniteSet(S), NEW f
    PROVE  /\ SumFunctionOnSet(f, {}) = 0
           /\ S # {} => SumFunctionOnSet(f, S) = f[Pick(S)] + SumFunctionOnSet(f, S \ {Pick(S)})
<1> DEFINE G(s) == CHOOSE g : IsSum(f, g, s)
<1>1. ASSUME NEW s, IsFiniteSet(s)
      PROVE  /\ SumFunctionOnSet(f, s) = G(s)[s]
             /\ \A u \in SUBSET s : G(s)[u] = SumStep(f, G(s), u)
  <2>1. IsSum(f, G(s), s)
    BY <1>1, SumExists, Zenon
  <2>2. SumFunctionOnSet(f, s) = G(s)[s]
    BY SumUnfolds, Zenon
  <2> HIDE DEF G
  <2> QED BY <2>1, <2>2, Zenon DEF IsSum
<1> HIDE DEF G
<1>2. SumFunctionOnSet(f, {}) = 0
  BY <1>1, FS_EmptySet, Zenon DEF SumStep
<1>3. ASSUME S # {} PROVE SumFunctionOnSet(f, S) = f[Pick(S)] + SumFunctionOnSet(f, S \ {Pick(S)})
  <2> DEFINE t == S \ {Pick(S)}
  <2>1. IsFiniteSet(t)
    BY FS_Subset, Zenon
  <2>2. t \in SUBSET S
    BY Zenon
  <2>3. SumFunctionOnSet(f, S) = f[Pick(S)] + G(S)[t]
    BY <1>1, <1>3, Zenon DEF SumStep
  <2> HIDE DEF t
  <2>4. Solves(f, G(t), t) /\ Solves(f, G(S), t)
    BY <1>1, <2>1, <2>2, Zenon DEF Solves
  <2>5. G(S)[t] = G(t)[t]
    BY <2>4, <2>1, SumUnique
  <2>6. SumFunctionOnSet(f, t) = G(t)[t]
    BY <1>1, <2>1, Zenon
  <2> QED BY <2>3, <2>5, <2>6, Zenon DEF t
<1> QED BY <1>2, <1>3, Zenon

-----------------------------------------------------------------------------
\* A sum of integers is an integer, of naturals a natural.
LEMMA SumType ==
    ASSUME NEW S, IsFiniteSet(S), NEW f, NEW N, N \in {Int, Nat}, \A x \in S : f[x] \in N
    PROVE  SumFunctionOnSet(f, S) \in N
<1> DEFINE T == {A \in SUBSET S : SumFunctionOnSet(f, A) \notin N}
<1> SUFFICES ASSUME T # {} PROVE FALSE
  BY Zenon
<1>1. PICK A \in T : \A B \in T : B \subseteq A => B = A
  <2>1. T \in SUBSET (SUBSET S)
    BY Zenon
  <2> HIDE DEF T
  <2> QED BY <2>1, MinimalSet
<1>2. A \in SUBSET S /\ IsFiniteSet(A) /\ SumFunctionOnSet(f, A) \notin N
  BY FS_Subset, Zenon
<1> DEFINE B == A \ {Pick(A)}
<1>3. A # {}
  BY <1>2, SumRec, SMT
<1>4. Pick(A) \in A
  BY <1>3, PickIn, Zenon
<1>5. SumFunctionOnSet(f, A) = f[Pick(A)] + SumFunctionOnSet(f, B)
  BY <1>2, <1>3, SumRec, Zenon
<1>6. SumFunctionOnSet(f, B) \in N
  <2>1. B \notin T /\ B \in SUBSET S
    BY <1>1, <1>2, <1>4, Zenon
  <2> HIDE DEF B
  <2> QED BY <2>1, Zenon
<1> HIDE DEF T, B
<1> QED BY <1>2, <1>4, <1>5, <1>6, SMT

\* Any element may be added last.
LEMMA SumAny ==
    ASSUME NEW S, IsFiniteSet(S), NEW f, \A x \in S : f[x] \in Int, NEW x \in S
    PROVE  SumFunctionOnSet(f, S) = f[x] + SumFunctionOnSet(f, S \ {x})
<1> DEFINE Any(A) == \A y \in A : SumFunctionOnSet(f, A) = f[y] + SumFunctionOnSet(f, A \ {y})
           T == {A \in SUBSET S : ~Any(A)}
<1> SUFFICES ASSUME T # {} PROVE FALSE
  BY Zenon
<1>1. PICK A \in T : \A B \in T : B \subseteq A => B = A
  <2>1. T \in SUBSET (SUBSET S)
    BY Zenon
  <2> HIDE DEF T
  <2> QED BY <2>1, MinimalSet
<1>2. A \in SUBSET S /\ IsFiniteSet(A)
  BY FS_Subset, Zenon
<1>3. PICK y \in A : SumFunctionOnSet(f, A) # f[y] + SumFunctionOnSet(f, A \ {y})
  BY Zenon
<1> DEFINE c == Pick(A)
           U == SumFunctionOnSet(f, A \ {c})
           V == SumFunctionOnSet(f, A \ {y})
           W == SumFunctionOnSet(f, (A \ {c}) \ {y})
<1>4. c \in A /\ SumFunctionOnSet(f, A) = f[c] + U
  BY <1>2, <1>3, SumRec, PickIn, Zenon
<1> HIDE DEF c
<1>5. c # y
  BY <1>3, <1>4, Zenon
<1>6. Any(A \ {c}) /\ Any(A \ {y})
  <2>1. A \ {c} \notin T /\ A \ {y} \notin T
    BY <1>1, <1>3, <1>4, Zenon
  <2> HIDE DEF Any
  <2> QED BY <2>1, <1>2, Zenon
<1>7. y \in A \ {c} /\ c \in A \ {y} /\ (A \ {c}) \ {y} = (A \ {y}) \ {c}
  BY <1>3, <1>4, <1>5, Zenon
<1>8. U = f[y] + W /\ V = f[c] + W
  BY <1>6, <1>7, Zenon
<1>9. W \in Int
  <2>1. IsFiniteSet((A \ {c}) \ {y}) /\ \A z \in (A \ {c}) \ {y} : f[z] \in Int
    BY <1>2, FS_Subset, Zenon
  <2> HIDE DEF c
  <2> QED BY <2>1, SumType
<1>10. f[c] \in Int /\ f[y] \in Int
  BY <1>2, <1>3, <1>4, Zenon
<1> HIDE DEF U, V, W, T
<1>11. SumFunctionOnSet(f, A) # f[y] + V
  BY <1>3, Zenon DEF V
<1> QED BY <1>4, <1>8, <1>9, <1>10, <1>11, SMT

\* A sum depends on the summands only.
LEMMA SumSame ==
    ASSUME NEW S, IsFiniteSet(S), NEW f, NEW g, \A x \in S : f[x] = g[x]
    PROVE  SumFunctionOnSet(f, S) = SumFunctionOnSet(g, S)
<1> DEFINE T == {A \in SUBSET S : SumFunctionOnSet(f, A) # SumFunctionOnSet(g, A)}
<1> SUFFICES ASSUME T # {} PROVE FALSE
  BY Zenon
<1>1. PICK A \in T : \A B \in T : B \subseteq A => B = A
  <2>1. T \in SUBSET (SUBSET S)
    BY Zenon
  <2> HIDE DEF T
  <2> QED BY <2>1, MinimalSet
<1>2. A \in SUBSET S /\ IsFiniteSet(A)
  BY FS_Subset, Zenon
<1>3. A # {}
  BY <1>2, SumRec, Zenon
<1>4. Pick(A) \in A
  BY <1>3, PickIn, Zenon
<1>5. /\ SumFunctionOnSet(f, A) = f[Pick(A)] + SumFunctionOnSet(f, A \ {Pick(A)})
      /\ SumFunctionOnSet(g, A) = g[Pick(A)] + SumFunctionOnSet(g, A \ {Pick(A)})
  BY <1>2, <1>3, SumRec, Zenon
<1>6. A \ {Pick(A)} \notin T /\ f[Pick(A)] = g[Pick(A)]
  BY <1>1, <1>4, Zenon
<1> QED BY <1>2, <1>5, <1>6, Zenon

Summable(f, S) == \A x \in S : f[x] \in Int
DifferAt(f, g, S, x) == \A y \in S : y # x => f[y] = g[y]

\* One summand changes.
LEMMA SumChange ==
    ASSUME NEW S, IsFiniteSet(S), NEW f, NEW g, NEW x \in S,
           Summable(f, S), Summable(g, S), DifferAt(f, g, S, x)
    PROVE  SumFunctionOnSet(g, S) = SumFunctionOnSet(f, S) + (g[x] - f[x])
<1> USE DEF Summable, DifferAt
<1> DEFINE A == S \ {x}
<1>1. IsFiniteSet(A) /\ \A y \in A : f[y] \in Int
  BY FS_Subset, Zenon
<1>2. /\ SumFunctionOnSet(f, S) = f[x] + SumFunctionOnSet(f, A)
      /\ SumFunctionOnSet(g, S) = g[x] + SumFunctionOnSet(g, A)
  BY SumAny
<1>3. SumFunctionOnSet(f, A) = SumFunctionOnSet(g, A)
  <2>1. \A y \in A : f[y] = g[y]
    BY Zenon
  <2> HIDE DEF A
  <2> QED BY <1>1, <2>1, SumSame
<1>4. SumFunctionOnSet(f, A) \in Int
  <2> HIDE DEF A
  <2> QED BY <1>1, SumType
<1> HIDE DEF A
<1> QED BY <1>2, <1>3, <1>4, SMT

\* The sum over two disjoint sets.
LEMMA SumDisjoint ==
    ASSUME NEW A, NEW B, IsFiniteSet(A), IsFiniteSet(B), A \cap B = {}, NEW f,
           \A x \in A \cup B : f[x] \in Int
    PROVE  SumFunctionOnSet(f, A \cup B) = SumFunctionOnSet(f, A) + SumFunctionOnSet(f, B)
<1> DEFINE T == {C \in SUBSET B : SumFunctionOnSet(f, A \cup C) = SumFunctionOnSet(f, A) + SumFunctionOnSet(f, C)}
<1>0. SumFunctionOnSet(f, A) \in Int
  BY SumType
<1>1. {} \in T
  <2>1. SumFunctionOnSet(f, {}) = 0
    BY SumRec
  <2>2. A \cup {} = A
    BY Zenon
  <2>3. SumFunctionOnSet(f, A \cup {}) = SumFunctionOnSet(f, A) + SumFunctionOnSet(f, {})
    BY <1>0, <2>1, <2>2, SMT
  <2> QED BY <2>3, Zenon
<1>2. ASSUME NEW C \in SUBSET B, NEW x \in C, C \ {x} \in T PROVE C \in T
  <2>1. IsFiniteSet(C) /\ IsFiniteSet(A \cup C) /\ IsFiniteSet(C \ {x})
    BY FS_Subset, FS_Union, Zenon
  <2>2. (A \cup C) \ {x} = A \cup (C \ {x})
    BY Zenon
  <2>3. \A y \in A \cup C : f[y] \in Int
    BY Zenon
  <2>4. SumFunctionOnSet(f, A \cup C) = f[x] + SumFunctionOnSet(f, A \cup (C \ {x}))
    <3> DEFINE D == A \cup C
    <3>1. IsFiniteSet(D) /\ (\A y \in D : f[y] \in Int) /\ x \in D
      BY <2>1, <2>3, Zenon
    <3> HIDE DEF D
    <3>2. SumFunctionOnSet(f, D) = f[x] + SumFunctionOnSet(f, D \ {x})
      BY <3>1, SumAny
    <3> QED BY <3>2, <2>2, Zenon DEF D
  <2>5. SumFunctionOnSet(f, C) = f[x] + SumFunctionOnSet(f, C \ {x})
    <3>1. \A y \in C : f[y] \in Int
      BY Zenon
    <3> QED BY <3>1, <2>1, SumAny
  <2>6. f[x] \in Int /\ SumFunctionOnSet(f, C \ {x}) \in Int
    <3>1. \A y \in C \ {x} : f[y] \in Int
      BY Zenon
    <3>2. SumFunctionOnSet(f, C \ {x}) \in Int
      <4> DEFINE D == C \ {x}
      <4> HIDE DEF D
      <4>1. SumFunctionOnSet(f, D) \in Int
        BY <3>1, <2>1, SumType DEF D
      <4> QED BY <4>1 DEF D
    <3> QED BY <3>2, Zenon
  <2>7. SumFunctionOnSet(f, A \cup (C \ {x})) = SumFunctionOnSet(f, A) + SumFunctionOnSet(f, C \ {x})
    BY <1>2, Zenon
  <2>8. SumFunctionOnSet(f, A \cup C) = SumFunctionOnSet(f, A) + SumFunctionOnSet(f, C)
    BY <2>4, <2>5, <2>6, <2>7, <1>0, SMT
  <2> QED BY <2>8, Zenon
<1>3. B \in T
  <2>1. \A C \in SUBSET B : \A x \in C : C \ {x} \in T => C \in T
    BY <1>2, Zenon
  <2> HIDE DEF T
  <2> QED BY <1>1, <2>1, SetInduction
<1> QED BY <1>3, Zenon

AddsUp(f, g, h, S) == \A x \in S : f[x] \in Int /\ g[x] \in Int /\ h[x] = f[x] + g[x]

\* Summing term by term.
LEMMA SumPlus ==
    ASSUME NEW S, IsFiniteSet(S), NEW f, NEW g, NEW h, AddsUp(f, g, h, S)
    PROVE  SumFunctionOnSet(h, S) = SumFunctionOnSet(f, S) + SumFunctionOnSet(g, S)
<1> USE DEF AddsUp
<1> DEFINE T == {C \in SUBSET S : SumFunctionOnSet(h, C) = SumFunctionOnSet(f, C) + SumFunctionOnSet(g, C)}
<1>1. {} \in T
  <2>1. SumFunctionOnSet(h, {}) = 0 /\ SumFunctionOnSet(f, {}) = 0 /\ SumFunctionOnSet(g, {}) = 0
    BY SumRec
  <2> QED BY <2>1, SMT
<1>2. ASSUME NEW C \in SUBSET S, NEW x \in C, C \ {x} \in T PROVE C \in T
  <2> DEFINE B == C \ {x}
  <2>1. IsFiniteSet(C) /\ IsFiniteSet(B)
    BY FS_Subset, Zenon
  <2>2. \A y \in C : f[y] \in Int /\ g[y] \in Int /\ h[y] = f[y] + g[y]
    BY Zenon
  <2>3. \A y \in C : h[y] \in Int
    BY <2>2, SMT
  <2>4. /\ SumFunctionOnSet(f, C) = f[x] + SumFunctionOnSet(f, B)
        /\ SumFunctionOnSet(g, C) = g[x] + SumFunctionOnSet(g, B)
        /\ SumFunctionOnSet(h, C) = h[x] + SumFunctionOnSet(h, B)
    BY <2>1, <2>2, <2>3, SumAny
  <2>5. SumFunctionOnSet(h, B) = SumFunctionOnSet(f, B) + SumFunctionOnSet(g, B)
    BY <1>2, Zenon
  <2>6. SumFunctionOnSet(f, B) \in Int /\ SumFunctionOnSet(g, B) \in Int
    <3>1. \A y \in B : f[y] \in Int /\ g[y] \in Int
      BY Zenon
    <3> HIDE DEF B
    <3> QED BY <2>1, <3>1, SumType
  <2> HIDE DEF B
  <2>7. SumFunctionOnSet(h, C) = SumFunctionOnSet(f, C) + SumFunctionOnSet(g, C)
    BY <2>2, <2>4, <2>5, <2>6, SMT
  <2> QED BY <2>7, Zenon
<1>3. \A C \in SUBSET S : \A x \in C : C \ {x} \in T => C \in T
  BY <1>2, Zenon
<1>4. S \in T
  <2> HIDE DEF T
  <2> QED BY <1>1, <1>3, SetInduction
<1> QED BY <1>4, Zenon

\* Equal summands.
LEMMA SumConstant ==
    ASSUME NEW S, IsFiniteSet(S), NEW f, NEW n \in Int, \A x \in S : f[x] = n
    PROVE  SumFunctionOnSet(f, S) = n * Cardinality(S)
<1> DEFINE T == {C \in SUBSET S : SumFunctionOnSet(f, C) = n * Cardinality(C)}
<1>1. {} \in T
  <2>1. SumFunctionOnSet(f, {}) = 0 /\ Cardinality({}) = 0
    BY SumRec, FS_EmptySet
  <2>2. n * 0 = 0
    BY SMT
  <2> QED BY <2>1, <2>2, Zenon
<1>2. ASSUME NEW C \in SUBSET S, NEW x \in C, C \ {x} \in T PROVE C \in T
  <2> DEFINE B == C \ {x}
  <2>1. IsFiniteSet(C) /\ IsFiniteSet(B)
    BY FS_Subset, Zenon
  <2>2. \A y \in C : f[y] \in Int
    BY Zenon
  <2>3. SumFunctionOnSet(f, C) = n + SumFunctionOnSet(f, B)
    BY <2>1, <2>2, SumAny
  <2>4. SumFunctionOnSet(f, B) = n * Cardinality(B)
    BY <1>2, Zenon
  <2>5. Cardinality(B) = Cardinality(C) - 1 /\ Cardinality(C) \in Nat
    BY <2>1, FS_RemoveElement, FS_CardinalityType
  <2> HIDE DEF B
  <2>6. SumFunctionOnSet(f, C) = n * Cardinality(C)
    BY <2>3, <2>4, <2>5, SMT
  <2> QED BY <2>6, Zenon
<1>3. \A C \in SUBSET S : \A x \in C : C \ {x} \in T => C \in T
  BY <1>2, Zenon
<1>4. S \in T
  <2> HIDE DEF T
  <2> QED BY <1>1, <1>3, SetInduction
<1> QED BY <1>4, Zenon

Renames(f, h, g, S) ==
    /\ \A x \in S : g[x] \in Int /\ f[h[x]] = g[x]
    /\ \A x, y \in S : h[x] = h[y] => x = y

\* Renaming the indices by an injective function.
LEMMA SumRenamed ==
    ASSUME NEW S, IsFiniteSet(S), NEW f, NEW h, NEW g, Renames(f, h, g, S)
    PROVE  SumFunctionOnSet(f, {h[x] : x \in S}) = SumFunctionOnSet(g, S)
<1> USE DEF Renames
<1> DEFINE Im(C) == {h[x] : x \in C}
           T == {C \in SUBSET S : SumFunctionOnSet(f, Im(C)) = SumFunctionOnSet(g, C)}
<1>1. {} \in T
  <2>1. Im({}) = {}
    BY Zenon
  <2>2. SumFunctionOnSet(f, {}) = 0 /\ SumFunctionOnSet(g, {}) = 0
    BY SumRec
  <2> HIDE DEF Im
  <2> QED BY <2>1, <2>2, Zenon
<1>2. ASSUME NEW C \in SUBSET S, NEW x \in C, C \ {x} \in T PROVE C \in T
  <2> DEFINE B == C \ {x}
  <2>1. IsFiniteSet(C)
    BY FS_Subset, Zenon
  <2>2. Im(C) \ {h[x]} = Im(B) /\ h[x] \in Im(C)
    BY SMT
  <2>3. IsFiniteSet(Im(C))
    <3> DEFINE e == [y \in C |-> h[y]]
    <3>1. e \in Surjection(C, Im(C))
      BY SMT DEF Surjection
    <3> HIDE DEF e, Im
    <3> QED BY <3>1, <2>1, FS_Surjection
  <2>4. \A y \in Im(C) : f[y] \in Int
    BY SMT
  <2>5. SumFunctionOnSet(f, Im(C)) = g[x] + SumFunctionOnSet(f, Im(B))
    <3> HIDE DEF Im, B
    <3> QED BY <2>2, <2>3, <2>4, SumAny
  <2>6. SumFunctionOnSet(g, C) = g[x] + SumFunctionOnSet(g, B)
    <3>1. \A y \in C : g[y] \in Int
      BY Zenon
    <3> QED BY <2>1, <3>1, SumAny
  <2>7. SumFunctionOnSet(f, Im(B)) = SumFunctionOnSet(g, B)
    BY <1>2, Zenon
  <2>8. SumFunctionOnSet(f, Im(C)) = SumFunctionOnSet(g, C)
    BY <2>5, <2>6, <2>7, Zenon
  <2> QED BY <2>8, Zenon
<1>3. \A C \in SUBSET S : \A x \in C : C \ {x} \in T => C \in T
  BY <1>2, Zenon
<1>4. S \in T
  <2> HIDE DEF T
  <2> QED BY <1>1, <1>3, SetInduction
<1> QED BY <1>4, Zenon

Grouped(f, k, g, S, A) ==
    /\ \A x \in S : f[x] \in Int /\ k[x] \in A
    /\ \A a \in A : g[a] = SumFunctionOnSet(f, {x \in S : k[x] = a})

\* Summing class by class.
LEMMA SumByKey ==
    ASSUME NEW S, IsFiniteSet(S), NEW A, IsFiniteSet(A), NEW f, NEW k, NEW g, Grouped(f, k, g, S, A)
    PROVE  SumFunctionOnSet(g, A) = SumFunctionOnSet(f, S)
<1> USE DEF Grouped
<1> DEFINE Of(C, a) == {x \in C : k[x] = a}
           By(C) == [a \in A |-> SumFunctionOnSet(f, Of(C, a))]
           T == {C \in SUBSET S : SumFunctionOnSet(By(C), A) = SumFunctionOnSet(f, C)}
<1>1. {} \in T
  <2>1. SumFunctionOnSet(f, {}) = 0
    BY SumRec
  <2>2. \A a \in A : By({})[a] = 0
    <3>1. \A a \in A : Of({}, a) = {}
      BY Zenon
    <3> HIDE DEF Of
    <3> QED BY <2>1, <3>1, Zenon
  <2>3. SumFunctionOnSet(By({}), A) = 0
    <3> HIDE DEF By
    <3>1. SumFunctionOnSet(By({}), A) = 0 * Cardinality(A)
      BY <2>2, SumConstant
    <3>2. Cardinality(A) \in Nat
      BY FS_CardinalityType
    <3> QED BY <3>1, <3>2, SMT
  <2> HIDE DEF By
  <2> QED BY <2>1, <2>3, Zenon
<1>2. ASSUME NEW C \in SUBSET S, NEW x \in C, C \ {x} \in T PROVE C \in T
  <2> DEFINE B == C \ {x}
  <2>1. IsFiniteSet(C) /\ IsFiniteSet(B)
    BY FS_Subset, Zenon
  <2>2. ASSUME NEW a \in A, NEW D \in SUBSET C
        PROVE  IsFiniteSet(Of(D, a)) /\ (\A y \in Of(D, a) : f[y] \in Int) /\ By(D)[a] = SumFunctionOnSet(f, Of(D, a))
    <3>1. Of(D, a) \subseteq C
      BY Zenon
    <3> QED BY <3>1, <2>1, FS_Subset, Zenon
  <2>3. ASSUME NEW a \in A, NEW D \in SUBSET C PROVE By(D)[a] \in Int
    <3> HIDE DEF By, Of
    <3> QED BY <2>2, SumType
  <2>4. ASSUME NEW a \in A \ {k[x]} PROVE By(C)[a] = By(B)[a]
    <3>1. Of(C, a) = Of(B, a)
      BY Zenon
    <3> HIDE DEF Of
    <3> QED BY <3>1, Zenon
  <2>5. k[x] \in A /\ f[x] \in Int
    BY Zenon
  <2>6. By(C)[k[x]] = f[x] + By(B)[k[x]]
    <3>1. x \in Of(C, k[x]) /\ Of(C, k[x]) \ {x} = Of(B, k[x]) /\ B \in SUBSET C
      BY Zenon
    <3> HIDE DEF Of, By
    <3>2. SumFunctionOnSet(f, Of(C, k[x])) = f[x] + SumFunctionOnSet(f, Of(C, k[x]) \ {x})
      BY <3>1, <2>2, <2>5, SumAny
    <3>3. By(C)[k[x]] = SumFunctionOnSet(f, Of(C, k[x])) /\ By(B)[k[x]] = SumFunctionOnSet(f, Of(B, k[x]))
      BY <2>2, <2>5, <3>1
    <3> QED BY <3>1, <3>2, <3>3, Zenon
  <2>7. B \in SUBSET C
    BY Zenon
  <2> DEFINE p == By(B)
             q == By(C)
  <2>8. SumFunctionOnSet(q, A) = SumFunctionOnSet(p, A) + (q[k[x]] - p[k[x]])
    <3>1. Summable(p, A) /\ Summable(q, A)
      BY <2>3, <2>7 DEF Summable
    <3>2. DifferAt(p, q, A, k[x])
      BY <2>4 DEF DifferAt
    <3>3. k[x] \in A
      BY <2>5
    <3> HIDE DEF p, q, By, T, B
    <3> QED BY <3>1, <3>2, <3>3, SumChange
  <2>9. SumFunctionOnSet(p, A) = SumFunctionOnSet(f, B)
    BY <1>2, Zenon
  <2>10. SumFunctionOnSet(f, C) = f[x] + SumFunctionOnSet(f, B)
    <3>1. \A y \in C : f[y] \in Int
      BY Zenon
    <3> QED BY <3>1, <2>1, SumAny
  <2>11. SumFunctionOnSet(f, B) \in Int /\ p[k[x]] \in Int
    <3>1. \A y \in B : f[y] \in Int
      BY Zenon
    <3>2. p[k[x]] \in Int
      BY <2>3, <2>5, <2>7
    <3>3. SumFunctionOnSet(f, B) \in Int
      <4> HIDE DEF B
      <4> QED BY <2>1, <3>1, SumType
    <3> QED BY <3>2, <3>3
  <2>12. q[k[x]] = f[x] + p[k[x]]
    BY <2>6
  <2>13. SumFunctionOnSet(q, A) = SumFunctionOnSet(f, C)
    <3> HIDE DEF p, q, B
    <3> QED BY <2>5, <2>8, <2>9, <2>10, <2>11, <2>12, SMT
  <2> QED BY <2>13, Zenon
<1>3. \A C \in SUBSET S : \A x \in C : C \ {x} \in T => C \in T
  BY <1>2, Zenon
<1>4. S \in T
  <2> HIDE DEF T
  <2> QED BY <1>1, <1>3, SetInduction
<1>5. \A a \in A : By(S)[a] = g[a]
  BY Zenon
<1>6. SumFunctionOnSet(By(S), A) = SumFunctionOnSet(g, A)
  <2> HIDE DEF By
  <2> QED BY <1>5, SumSame
<1> QED BY <1>4, <1>6, Zenon

\* A part of a sum of naturals is at most the whole.
LEMMA SumPart ==
    ASSUME NEW S, IsFiniteSet(S), NEW A \in SUBSET S, NEW f, \A x \in S : f[x] \in Nat
    PROVE  /\ SumFunctionOnSet(f, A) \in Nat /\ SumFunctionOnSet(f, S) \in Nat
           /\ SumFunctionOnSet(f, S \ A) = SumFunctionOnSet(f, S) - SumFunctionOnSet(f, A)
           /\ SumFunctionOnSet(f, A) <= SumFunctionOnSet(f, S)
<1> DEFINE B == S \ A
<1>1. IsFiniteSet(A) /\ IsFiniteSet(B) /\ A \cap B = {} /\ A \cup B = S
  BY FS_Subset, Zenon
<1>2. (\A x \in A : f[x] \in Nat) /\ (\A x \in B : f[x] \in Nat) /\ (\A x \in A \cup B : f[x] \in Int)
  <2>1. (\A x \in A : f[x] \in Nat) /\ (\A x \in B : f[x] \in Nat)
    BY Zenon
  <2> QED BY <2>1, SMT
<1> HIDE DEF B
<1>3. SumFunctionOnSet(f, S) = SumFunctionOnSet(f, A) + SumFunctionOnSet(f, B)
  <2>1. SumFunctionOnSet(f, A \cup B) = SumFunctionOnSet(f, A) + SumFunctionOnSet(f, B)
    BY <1>1, <1>2, SumDisjoint
  <2> QED BY <2>1, <1>1
<1>4. SumFunctionOnSet(f, A) \in Nat /\ SumFunctionOnSet(f, B) \in Nat
  BY <1>1, <1>2, SumType
<1>5. SumFunctionOnSet(f, B) = SumFunctionOnSet(f, S) - SumFunctionOnSet(f, A)
  BY <1>3, <1>4, SMT
<1> QED BY <1>3, <1>4, <1>5, SMT DEF B
=============================================================================
