-------------------------------- MODULE Sums --------------------------------
(***************************************************************************)
(* What MapThenSumSet of the community modules computes, for any finite    *)
(* set: every member counts once, whichever is taken first.  Facts about   *)
(* all finite sets follow from their smallest counterexample.              *)
(***************************************************************************)
EXTENDS Naturals, FiniteSetsExt, FiniteSetTheorems, WellFoundedInduction, TLAPS

LEMMA SmallestSet ==
  ASSUME NEW S, NEW F \in SUBSET FiniteSubsetsOf(S), F # {}
  PROVE  \E X \in F : \A Y \in F : Y \subseteq X => Y = X
<1>1. PICK X \in F : \A Y \in F : <<Y, X>> \notin StrictSubsetOrdering(S)
  BY FS_StrictSubsetOrderingWellFounded, WFMin
<1>2. ASSUME NEW Y \in F, Y \subseteq X, Y # X PROVE FALSE
  <2>1. <<Y, X>> \in (SUBSET S) \X (SUBSET S)
    BY <1>2 DEF FiniteSubsetsOf
  <2>2. <<Y, X>> \in StrictSubsetOrdering(S)
    BY <1>2, <2>1 DEF StrictSubsetOrdering
  <2> QED BY <1>1, <2>2
<1> QED BY <1>2

-----------------------------------------------------------------------------
(* Sums.  MapThenSumSet is a recursive function on the subsets of its set. *)
Sum(w, S) == MapThenSumSet(LAMBDA t : w[t], S)

AnyOf(s) == CHOOSE x \in s : TRUE
Rest(s) == s \ {AnyOf(s)}
IsSum(g, D, w) ==
  g = [s \in SUBSET D |-> IF s = {} THEN 0 ELSE w[AnyOf(s)] + g[Rest(s)]]

LEMMA RestIs ==
  ASSUME NEW s, s # {}
  PROVE  AnyOf(s) \in s /\ Rest(s) \subseteq s /\ Rest(s) # s
BY DEF AnyOf, Rest

LEMMA SumAt ==
  ASSUME NEW w, NEW D, NEW g, IsSum(g, D, w), NEW s \in SUBSET D
  PROVE  g[s] = IF s = {} THEN 0 ELSE w[AnyOf(s)] + g[Rest(s)]
BY DEF IsSum

(* There is one such function at most, and for a finite set there is one.  *)
LEMMA SumUnique ==
  ASSUME NEW w, NEW D, NEW E, NEW g, NEW h, IsSum(g, D, w), IsSum(h, E, w),
         NEW S \in SUBSET (D \cap E), IsFiniteSet(S)
  PROVE  g[S] = h[S]
<1>t. PICK Bad : Bad = {X \in FiniteSubsetsOf(D \cap E) : g[X] # h[X]}
  OBVIOUS
<1> SUFFICES ASSUME S \in Bad PROVE FALSE
  BY <1>t DEF FiniteSubsetsOf
<1>s. Bad \in SUBSET FiniteSubsetsOf(D \cap E) /\ Bad # {}
  BY <1>t
<1>1. PICK X \in Bad : \A Y \in Bad : Y \subseteq X => Y = X
  BY <1>s, SmallestSet
<1>2. X \in SUBSET D /\ X \in SUBSET E /\ IsFiniteSet(X) /\ g[X] # h[X]
  BY <1>t DEF FiniteSubsetsOf
<1>3. X # {}
  BY <1>2, SumAt
<1>4. Rest(X) \subseteq X /\ Rest(X) # X /\ IsFiniteSet(Rest(X))
  BY <1>2, <1>3, RestIs, FS_Subset
<1>5. g[Rest(X)] = h[Rest(X)]
  BY <1>1, <1>2, <1>4, <1>t DEF FiniteSubsetsOf
<1>6. g[X] = w[AnyOf(X)] + g[Rest(X)]
  BY <1>2, <1>3, SumAt
<1>7. h[X] = w[AnyOf(X)] + h[Rest(X)]
  BY <1>2, <1>3, SumAt
<1> QED BY <1>2, <1>5, <1>6, <1>7

LEMMA SumExists ==
  ASSUME NEW w, NEW D, IsFiniteSet(D)
  PROVE  \E g : IsSum(g, D, w)
<1>t. PICK Bad : Bad = {X \in FiniteSubsetsOf(D) : ~\E g : IsSum(g, X, w)}
  OBVIOUS
<1> SUFFICES ASSUME D \in Bad PROVE FALSE
  BY <1>t DEF FiniteSubsetsOf
<1>1. PICK X \in Bad : \A Y \in Bad : Y \subseteq X => Y = X
  BY <1>t, SmallestSet
<1>2. X \in SUBSET D /\ IsFiniteSet(X) /\ ~\E g : IsSum(g, X, w)
  BY <1>t DEF FiniteSubsetsOf
<1> DEFINE G(Y) == CHOOSE g : IsSum(g, Y, w)
           f == [s \in SUBSET X |-> IF s = {} THEN 0 ELSE w[AnyOf(s)] + G(Rest(s))[Rest(s)]]
<1>3. ASSUME NEW Y \in SUBSET X, Y # X PROVE IsSum(G(Y), Y, w) /\ IsFiniteSet(Y)
  <2>1. IsFiniteSet(Y) /\ Y \notin Bad
    BY <1>1, <1>2, <1>3, FS_Subset
  <2>2. \E g : IsSum(g, Y, w)
    BY <1>2, <1>t, <2>1 DEF FiniteSubsetsOf
  <2> QED BY <2>1, <2>2
<1>4. ASSUME NEW s \in SUBSET X, s # {} PROVE G(Rest(s))[Rest(s)] = f[Rest(s)]
  <2> DEFINE r == Rest(s)
  <2>0. r \in SUBSET X /\ r # X
    BY <1>4, RestIs
  <2>1. r \in SUBSET X /\ r # X /\ IsSum(G(r), r, w) /\ IsFiniteSet(r)
    BY <1>3, <2>0
  <2>2. CASE r = {}
    <3>1. G(r)[r] = 0
      BY <2>1, <2>2, SumAt
    <3> QED BY <2>2, <3>1
  <2>3. CASE r # {}
    <3>1. Rest(r) \in SUBSET r /\ Rest(r) \in SUBSET X /\ Rest(r) # X
      BY <2>1, <2>3, RestIs
    <3>2. IsSum(G(Rest(r)), Rest(r), w) /\ IsFiniteSet(Rest(r))
      BY <1>3, <3>1
    <3> HIDE DEF G
    <3>3. G(r)[r] = w[AnyOf(r)] + G(r)[Rest(r)]
      BY <2>1, <2>3, SumAt
    <3>4. G(r)[Rest(r)] = G(Rest(r))[Rest(r)]
      BY <2>1, <3>1, <3>2, SumUnique
    <3> QED BY <2>1, <2>3, <3>3, <3>4
  <2> QED BY <2>2, <2>3
<1>5. f = [s \in SUBSET X |-> IF s = {} THEN 0 ELSE w[AnyOf(s)] + f[Rest(s)]]
  <2> HIDE DEF G
  <2> QED BY <1>4
<1> QED BY <1>2, <1>5 DEF IsSum

LEMMA SumMeans ==
  ASSUME NEW w, NEW D
  PROVE  Sum(w, D) = (CHOOSE h : IsSum(h, D, w))[D]
BY DEF Sum, MapThenSumSet, MapThenFoldSet, IsSum, AnyOf, Rest

LEMMA SumIs ==
  ASSUME NEW w, NEW D, IsFiniteSet(D), NEW g, IsSum(g, D, w), NEW S \in SUBSET D
  PROVE  Sum(w, S) = g[S]
<1>1. IsFiniteSet(S)
  BY FS_Subset
<1>2. PICK h : h = (CHOOSE k : IsSum(k, S, w))
  OBVIOUS
<1>3. IsSum(h, S, w)
  BY <1>1, <1>2, SumExists
<1>4. h[S] = g[S]
  BY <1>1, <1>3, SumUnique
<1> QED BY <1>2, <1>4, SumMeans

LEMMA SumEmpty ==
  ASSUME NEW w
  PROVE  Sum(w, {}) = 0
<1>1. IsFiniteSet({}) /\ {} \in SUBSET {}
  BY FS_EmptySet
<1>2. PICK g : IsSum(g, {}, w)
  BY <1>1, SumExists
<1> QED BY <1>1, <1>2, SumIs, SumAt

(* A sum of natural numbers, and what any member adds to it.               *)
AllNat(w, D) == \A x \in D : w[x] \in Nat

LEMMA SumNat ==
  ASSUME NEW w, NEW D, IsFiniteSet(D), AllNat(w, D)
  PROVE  Sum(w, D) \in Nat
<1>0. PICK g : IsSum(g, D, w)
  BY SumExists
<1>t. PICK Bad : Bad = {X \in FiniteSubsetsOf(D) : g[X] \notin Nat}
  OBVIOUS
<1>f. g[D] = Sum(w, D)
  BY <1>0, SumIs
<1> SUFFICES ASSUME D \in Bad PROVE FALSE
  BY <1>t, <1>f DEF FiniteSubsetsOf
<1>1. PICK X \in Bad : \A Y \in Bad : Y \subseteq X => Y = X
  BY <1>t, SmallestSet
<1>2. X \in SUBSET D /\ IsFiniteSet(X) /\ g[X] \notin Nat
  BY <1>t DEF FiniteSubsetsOf
<1>3. X # {}
  BY <1>0, <1>2, SumAt
<1>4. Rest(X) \in SUBSET D /\ Rest(X) \subseteq X /\ Rest(X) # X /\ IsFiniteSet(Rest(X)) /\ AnyOf(X) \in D
  BY <1>2, <1>3, RestIs, FS_Subset
<1>5. g[Rest(X)] \in Nat
  BY <1>1, <1>4, <1>t DEF FiniteSubsetsOf
<1>6. g[X] = w[AnyOf(X)] + g[Rest(X)]
  BY <1>0, <1>2, <1>3, SumAt
<1>7. w[AnyOf(X)] \in Nat
  BY <1>4 DEF AllNat
<1> QED BY <1>2, <1>5, <1>6, <1>7

LEMMA SumPick ==
  ASSUME NEW w, NEW D, IsFiniteSet(D), D # {}
  PROVE  Sum(w, D) = w[AnyOf(D)] + Sum(w, Rest(D))
<1>0. PICK g : IsSum(g, D, w)
  BY SumExists
<1>1. Rest(D) \in SUBSET D /\ D \in SUBSET D
  BY RestIs
<1>2. Sum(w, D) = g[D] /\ Sum(w, Rest(D)) = g[Rest(D)]
  BY <1>0, <1>1, SumIs
<1> QED BY <1>0, <1>1, <1>2, SumAt

LEMMA SumStep ==
  ASSUME NEW w, NEW D, IsFiniteSet(D), AllNat(w, D), NEW x \in D
  PROVE  /\ Sum(w, D \ {x}) \in Nat /\ w[x] \in Nat
         /\ Sum(w, D) = w[x] + Sum(w, D \ {x})
<1> DEFINE Same(X) == \A y \in X : Sum(w, X) = w[y] + Sum(w, X \ {y})
<1>t. PICK Bad : Bad = {X \in FiniteSubsetsOf(D) : ~Same(X)}
  OBVIOUS
<1>f. ASSUME NEW X \in SUBSET D PROVE IsFiniteSet(X) /\ Sum(w, X) \in Nat
  BY FS_Subset, SumNat DEF AllNat
<1>a. ASSUME D \in Bad PROVE FALSE
  <2>s. Bad \in SUBSET FiniteSubsetsOf(D) /\ Bad # {}
    BY <1>a, <1>t
  <2>1. PICK X \in Bad : \A Y \in Bad : Y \subseteq X => Y = X
    BY <2>s, SmallestSet
  <2>2. X \in SUBSET D /\ IsFiniteSet(X) /\ ~Same(X)
    BY <1>t DEF FiniteSubsetsOf
  <2>3. ASSUME NEW Y \in SUBSET X, Y # X PROVE Same(Y)
    <3>1. Y \in FiniteSubsetsOf(D) /\ Y \notin Bad
      BY <2>1, <2>2, <2>3, <1>f DEF FiniteSubsetsOf
    <3> QED BY <1>t, <3>1
  <2>4. PICK y \in X : Sum(w, X) # w[y] + Sum(w, X \ {y})
    BY <2>2
  <2>5. PICK p : p = AnyOf(X)
    OBVIOUS
  <2>6. p \in X /\ Sum(w, X) = w[p] + Sum(w, X \ {p})
    BY <2>2, <2>4, <2>5, RestIs, SumPick DEF Rest
  <2>7. p # y
    BY <2>4, <2>6
  <2>8. Sum(w, X \ {p}) = w[y] + Sum(w, (X \ {p}) \ {y})
    BY <2>3, <2>4, <2>6, <2>7
  <2>9. Sum(w, X \ {y}) = w[p] + Sum(w, (X \ {y}) \ {p})
    BY <2>3, <2>4, <2>6, <2>7
  <2>10. (X \ {p}) \ {y} = (X \ {y}) \ {p}
    OBVIOUS
  <2>11. w[p] \in Nat /\ w[y] \in Nat /\ Sum(w, (X \ {p}) \ {y}) \in Nat
    BY <1>f, <2>2, <2>4, <2>6 DEF AllNat
  <2>12. PICK r, a, b : r = Sum(w, (X \ {p}) \ {y}) /\ a = w[p] /\ b = w[y]
    OBVIOUS
  <2>13. Sum(w, X \ {p}) = b + r /\ Sum(w, X \ {y}) = a + r
    BY <2>8, <2>9, <2>10, <2>12
  <2>14. Sum(w, X) = a + (b + r) /\ Sum(w, X) # b + (a + r)
    BY <2>4, <2>6, <2>12, <2>13
  <2>15. a \in Nat /\ b \in Nat /\ r \in Nat
    BY <2>11, <2>12
  <2>16. a + (b + r) = b + (a + r)
    BY <2>15
  <2> QED BY <2>14, <2>16
<1>b. Same(D)
  BY <1>a, <1>t DEF FiniteSubsetsOf
<1> QED BY <1>b, <1>f DEF AllNat

(* A sum is at most another that has a summand as large for every one of   *)
(* its own that is not zero.                                               *)
Covers(w, v, S, T) == \A t \in S : /\ t \in T => w[t] <= v[t]
                                   /\ t \notin T => w[t] = 0

LEMMA SumAtMost ==
  ASSUME NEW w, NEW v, NEW S, NEW T, IsFiniteSet(S), IsFiniteSet(T),
         AllNat(w, S), AllNat(v, T), Covers(w, v, S, T)
  PROVE  Sum(w, S) <= Sum(v, T)
<1> DEFINE Below(X) == \A Y \in SUBSET T : Covers(w, v, X, Y) => Sum(w, X) <= Sum(v, Y)
<1>t. PICK Bad : Bad = {X \in FiniteSubsetsOf(S) : ~Below(X)}
  OBVIOUS
<1>v. ASSUME NEW Y \in SUBSET T PROVE IsFiniteSet(Y) /\ AllNat(v, Y) /\ Sum(v, Y) \in Nat
  BY FS_Subset, SumNat DEF AllNat
<1>w. ASSUME NEW X \in SUBSET S PROVE IsFiniteSet(X) /\ AllNat(w, X) /\ Sum(w, X) \in Nat
  BY FS_Subset, SumNat DEF AllNat
<1>a. ASSUME S \in Bad PROVE FALSE
  <2>s. Bad \in SUBSET FiniteSubsetsOf(S) /\ Bad # {}
    BY <1>a, <1>t
  <2>1. PICK X \in Bad : \A Y \in Bad : Y \subseteq X => Y = X
    BY <2>s, SmallestSet
  <2>2. X \in SUBSET S /\ IsFiniteSet(X) /\ ~Below(X)
    BY <1>t DEF FiniteSubsetsOf
  <2>3. PICK Y \in SUBSET T : Covers(w, v, X, Y) /\ ~(Sum(w, X) <= Sum(v, Y))
    BY <2>2
  <2>4. PICK m, n : m = Sum(w, X) /\ n = Sum(v, Y)
    OBVIOUS
  <2>5. m \in Nat /\ n \in Nat /\ ~(m <= n)
    BY <1>v, <1>w, <2>2, <2>3, <2>4
  <2>6. X # {}
    <3>1. CASE X = {}
      <4>1. m = 0
        BY <2>4, <3>1, SumEmpty
      <4> QED BY <2>5, <4>1
    <3> QED BY <3>1
  <2>7. PICK x \in X : TRUE
    BY <2>6
  <2>8. Below(X \ {x})
    <3>1. X \ {x} \in FiniteSubsetsOf(S) /\ X \ {x} \notin Bad
      BY <2>1, <2>2, <2>7, <1>w DEF FiniteSubsetsOf
    <3> QED BY <1>t, <3>1
  <2>9. PICK a, r : a = w[x] /\ r = Sum(w, X \ {x})
    OBVIOUS
  <2>10. a \in Nat /\ r \in Nat /\ m = a + r
    BY <1>w, <2>2, <2>4, <2>7, <2>9, SumStep
  <2>11. CASE x \in Y
    <3>1. PICK b, q : b = v[x] /\ q = Sum(v, Y \ {x})
      OBVIOUS
    <3>2. b \in Nat /\ q \in Nat /\ n = b + q
      BY <1>v, <2>3, <2>4, <2>11, <3>1, SumStep
    <3>3. a <= b
      BY <2>3, <2>7, <2>9, <2>11, <3>1 DEF Covers
    <3>4. Covers(w, v, X \ {x}, Y \ {x}) /\ Y \ {x} \in SUBSET T
      BY <2>3 DEF Covers
    <3>5. r <= q
      BY <2>8, <2>9, <3>1, <3>4
    <3> QED BY <2>5, <2>10, <3>2, <3>3, <3>5
  <2>12. CASE x \notin Y
    <3>1. a = 0
      BY <2>3, <2>7, <2>9, <2>12 DEF Covers
    <3>2. Covers(w, v, X \ {x}, Y)
      BY <2>3 DEF Covers
    <3>3. r <= n
      BY <2>4, <2>8, <2>9, <3>2
    <3> QED BY <2>5, <2>10, <3>1, <3>3
  <2> QED BY <2>11, <2>12
<1>b. Below(S)
  BY <1>a, <1>t DEF FiniteSubsetsOf
<1> QED BY <1>b

LEMMA SumSame ==
  ASSUME NEW w, NEW v, NEW S, IsFiniteSet(S), AllNat(w, S), \A x \in S : w[x] = v[x]
  PROVE  Sum(w, S) = Sum(v, S)
<1>1. AllNat(v, S) /\ Covers(w, v, S, S) /\ Covers(v, w, S, S)
  BY DEF AllNat, Covers
<1>2. PICK m, n : m = Sum(w, S) /\ n = Sum(v, S)
  OBVIOUS
<1>3. m \in Nat /\ n \in Nat
  BY <1>1, <1>2, SumNat
<1>4. m <= n
  BY <1>1, <1>2, SumAtMost
<1>5. n <= m
  BY <1>1, <1>2, SumAtMost
<1> QED BY <1>2, <1>3, <1>4, <1>5

LEMMA SumChange ==
  ASSUME NEW w, NEW v, NEW S, IsFiniteSet(S), AllNat(w, S), AllNat(v, S),
         NEW i \in S, \A j \in S : j # i => v[j] = w[j]
  PROVE  /\ Sum(w, S) \in Nat /\ Sum(v, S) \in Nat /\ w[i] \in Nat /\ v[i] \in Nat
         /\ w[i] <= Sum(w, S)
         /\ Sum(v, S) = (Sum(w, S) - w[i]) + v[i]
<1>1. IsFiniteSet(S \ {i}) /\ AllNat(w, S \ {i}) /\ \A j \in S \ {i} : w[j] = v[j]
  BY FS_Subset DEF AllNat
<1>2. PICK r, m, n, a, b : /\ r = Sum(w, S \ {i}) /\ m = Sum(w, S) /\ n = Sum(v, S)
                           /\ a = w[i] /\ b = v[i]
  OBVIOUS
<1>3. Sum(v, S \ {i}) = r
  BY <1>1, <1>2, SumSame
<1>4. r \in Nat /\ a \in Nat /\ m = a + r
  BY <1>2, SumStep
<1>5. b \in Nat /\ n = b + r
  BY <1>2, <1>3, SumStep
<1>6. m \in Nat /\ n \in Nat /\ a <= m /\ n = (m - a) + b
  BY <1>4, <1>5
<1> QED BY <1>2, <1>4, <1>5, <1>6

LEMMA SumZero ==
  ASSUME NEW w, NEW S, IsFiniteSet(S), \A x \in S : w[x] = 0
  PROVE  Sum(w, S) = 0
<1>1. AllNat(w, S) /\ AllNat(w, {}) /\ Covers(w, w, S, {}) /\ IsFiniteSet({})
  BY FS_EmptySet DEF AllNat, Covers
<1>2. PICK m : m = Sum(w, S)
  OBVIOUS
<1>3. m \in Nat
  BY <1>1, <1>2, SumNat
<1>4. m <= 0
  BY <1>1, <1>2, SumAtMost, SumEmpty
<1> QED BY <1>2, <1>3, <1>4

-----------------------------------------------------------------------------
(* Folds.  The last of a set steps on what the others come to; last says   *)
(* of every set which that is.                                             *)
Picks(last, D) == \A T \in SUBSET D : T # {} => last[T] \in T

But(T, last) == T \ {last[T]}

IsFold(g, D, last, base, step) ==
  g = [T \in SUBSET D |-> IF T = {} THEN base ELSE step[last[T]][g[But(T, last)]]]

LEMMA ButIs ==
  ASSUME NEW D, NEW last, Picks(last, D), NEW T \in SUBSET D, T # {}
  PROVE  /\ last[T] \in T /\ last[T] \in D
         /\ But(T, last) \in SUBSET D /\ But(T, last) \subseteq T /\ But(T, last) # T
BY DEF Picks, But

LEMMA FoldAt ==
  ASSUME NEW D, NEW last, NEW base, NEW step, NEW g, IsFold(g, D, last, base, step), NEW T \in SUBSET D
  PROVE  g[T] = IF T = {} THEN base ELSE step[last[T]][g[But(T, last)]]
BY DEF IsFold

LEMMA FoldUnique ==
  ASSUME NEW last, NEW base, NEW step, NEW D, NEW E, Picks(last, D), Picks(last, E),
         NEW g, NEW h, IsFold(g, D, last, base, step), IsFold(h, E, last, base, step),
         NEW S \in SUBSET (D \cap E), IsFiniteSet(S)
  PROVE  g[S] = h[S]
<1>t. PICK Bad : Bad = {X \in FiniteSubsetsOf(D \cap E) : g[X] # h[X]}
  OBVIOUS
<1> SUFFICES ASSUME S \in Bad PROVE FALSE
  BY <1>t DEF FiniteSubsetsOf
<1>s. Bad \in SUBSET FiniteSubsetsOf(D \cap E) /\ Bad # {}
  BY <1>t
<1>1. PICK X \in Bad : \A Y \in Bad : Y \subseteq X => Y = X
  BY <1>s, SmallestSet
<1>2. X \in SUBSET D /\ X \in SUBSET E /\ IsFiniteSet(X) /\ g[X] # h[X]
  BY <1>t DEF FiniteSubsetsOf
<1>3. X # {}
  BY <1>2, FoldAt
<1>4. /\ But(X, last) \subseteq X /\ But(X, last) # X /\ But(X, last) \in SUBSET (D \cap E)
      /\ IsFiniteSet(But(X, last))
  BY <1>2, <1>3, ButIs, FS_Subset
<1>5. g[But(X, last)] = h[But(X, last)]
  BY <1>1, <1>4, <1>t DEF FiniteSubsetsOf
<1>6. g[X] = step[last[X]][g[But(X, last)]]
  BY <1>2, <1>3, FoldAt
<1>7. h[X] = step[last[X]][h[But(X, last)]]
  BY <1>2, <1>3, FoldAt
<1> QED BY <1>2, <1>5, <1>6, <1>7

LEMMA FoldExists ==
  ASSUME NEW last, NEW base, NEW step, NEW D, IsFiniteSet(D), Picks(last, D)
  PROVE  \E g : IsFold(g, D, last, base, step)
<1>t. PICK Bad : Bad = {X \in FiniteSubsetsOf(D) : ~\E g : IsFold(g, X, last, base, step)}
  OBVIOUS
<1> SUFFICES ASSUME D \in Bad PROVE FALSE
  BY <1>t DEF FiniteSubsetsOf
<1>1. PICK X \in Bad : \A Y \in Bad : Y \subseteq X => Y = X
  BY <1>t, SmallestSet
<1>2. X \in SUBSET D /\ IsFiniteSet(X) /\ ~\E g : IsFold(g, X, last, base, step)
  BY <1>t DEF FiniteSubsetsOf
<1>p. ASSUME NEW Y \in SUBSET X PROVE Picks(last, Y) /\ IsFiniteSet(Y) /\ Y \in SUBSET Y
  BY <1>2, FS_Subset DEF Picks
<1> DEFINE G(Y) == CHOOSE g : IsFold(g, Y, last, base, step)
           f == [T \in SUBSET X |-> IF T = {} THEN base
                                    ELSE step[last[T]][G(But(T, last))[But(T, last)]]]
<1>3. ASSUME NEW Y \in SUBSET X, Y # X PROVE IsFold(G(Y), Y, last, base, step)
  <2>1. IsFiniteSet(Y) /\ Y \notin Bad
    BY <1>1, <1>3, <1>p
  <2>2. \E g : IsFold(g, Y, last, base, step)
    BY <1>2, <1>t, <2>1 DEF FiniteSubsetsOf
  <2> QED BY <2>2
<1>4. ASSUME NEW T \in SUBSET X, T # {} PROVE G(But(T, last))[But(T, last)] = f[But(T, last)]
  <2> DEFINE r == But(T, last)
  <2>p. Picks(last, X)
    BY <1>p
  <2>q. r \subseteq T /\ r # T
    BY <1>4, <2>p, ButIs
  <2>0. r \in SUBSET X /\ r # X
    BY <2>q
  <2>1. r \in SUBSET X /\ r # X /\ IsFold(G(r), r, last, base, step) /\ Picks(last, r) /\ r \in SUBSET r
    BY <1>3, <1>p, <2>0
  <2> HIDE DEF r
  <2>2. CASE r = {}
    <3> HIDE DEF G
    <3>1. G(r)[r] = base
      BY <2>1, <2>2, FoldAt
    <3> QED BY <2>1, <2>2, <3>1 DEF r
  <2>3. CASE r # {}
    <3>1. But(r, last) \in SUBSET r /\ But(r, last) \in SUBSET X /\ But(r, last) # X
      BY <2>1, <2>3, ButIs
    <3>2. IsFold(G(But(r, last)), But(r, last), last, base, step)
      BY <1>3, <3>1
    <3>5. But(r, last) \in SUBSET (r \cap But(r, last)) /\ IsFiniteSet(But(r, last)) /\ Picks(last, But(r, last))
      BY <1>p, <3>1
    <3> HIDE DEF G
    <3>3. G(r)[r] = step[last[r]][G(r)[But(r, last)]]
      BY <2>1, <2>3, FoldAt
    <3>4. G(r)[But(r, last)] = G(But(r, last))[But(r, last)]
      BY <2>1, <3>2, <3>5, FoldUnique
    <3> QED BY <2>1, <2>3, <3>3, <3>4 DEF r
  <2> QED BY <2>2, <2>3 DEF r
<1>5. f = [T \in SUBSET X |-> IF T = {} THEN base ELSE step[last[T]][f[But(T, last)]]]
  <2> HIDE DEF G
  <2> QED BY <1>4
<1> QED BY <1>2, <1>5 DEF IsFold

(* What every step keeps, as long as it is taken from a state of its kind, *)
(* holds of what a set comes to: h may do anything with other states.      *)
StepKeeps(last, step, D, Good) ==
  \A T \in SUBSET D : T # {} =>
    \A a \in Good[But(T, last)] : step[last[T]][a] \in Good[T]

Follows(h, last, base, step, D, Good) ==
  /\ h[{}] = base
  /\ \A T \in SUBSET D : T # {} /\ h[But(T, last)] \in Good[But(T, last)]
       => h[T] = step[last[T]][h[But(T, last)]]

LEMMA FoldKeeps ==
  ASSUME NEW last, NEW base, NEW step, NEW D, IsFiniteSet(D), Picks(last, D),
         NEW Good, base \in Good[{}], StepKeeps(last, step, D, Good),
         NEW h, Follows(h, last, base, step, D, Good)
  PROVE  \A T \in SUBSET D : h[T] \in Good[T]
<1>t. PICK Bad : Bad = {X \in FiniteSubsetsOf(D) : h[X] \notin Good[X]}
  OBVIOUS
<1> SUFFICES ASSUME Bad # {} PROVE FALSE
  BY <1>t, FS_Subset DEF FiniteSubsetsOf
<1>s. Bad \in SUBSET FiniteSubsetsOf(D) /\ Bad # {}
  BY <1>t
<1>1. PICK X \in Bad : \A Y \in Bad : Y \subseteq X => Y = X
  BY <1>s, SmallestSet
<1>2. X \in SUBSET D /\ IsFiniteSet(X) /\ h[X] \notin Good[X]
  BY <1>t DEF FiniteSubsetsOf
<1>3. X # {}
  BY <1>2 DEF Follows
<1>4. But(X, last) \in SUBSET D /\ But(X, last) \subseteq X /\ But(X, last) # X /\ IsFiniteSet(But(X, last))
  BY <1>2, <1>3, ButIs, FS_Subset
<1>5. h[But(X, last)] \in Good[But(X, last)]
  BY <1>1, <1>4, <1>t DEF FiniteSubsetsOf
<1>6. h[X] = step[last[X]][h[But(X, last)]]
  BY <1>2, <1>3, <1>5 DEF Follows
<1> QED BY <1>2, <1>3, <1>5, <1>6 DEF StepKeeps

LEMMA FoldGood ==
  ASSUME NEW last, NEW base, NEW step, NEW D, IsFiniteSet(D), Picks(last, D),
         NEW Good, base \in Good[{}], StepKeeps(last, step, D, Good)
  PROVE  \E g : IsFold(g, D, last, base, step) /\ \A T \in SUBSET D : g[T] \in Good[T]
<1>1. PICK g : IsFold(g, D, last, base, step)
  BY FoldExists
<1>2. Follows(g, last, base, step, D, Good)
  BY <1>1, FoldAt DEF Follows
<1>3. \A T \in SUBSET D : g[T] \in Good[T]
  BY <1>2, FoldKeeps
<1> QED BY <1>1, <1>3
=============================================================================
