---------------------------- MODULE SumTheorems ----------------------------
(***************************************************************************)
(* MapThenSumSet of the community modules over a finite set, for proofs.   *)
(* It folds with a recursive function; its facts are proved here by        *)
(* looking at a smallest subset on which they would fail.                  *)
(***************************************************************************)
EXTENDS Integers, FiniteSets, FiniteSetsExt, FiniteSetTheorems,
        WellFoundedInduction, TLAPS

\* The fold's choice of a next element.
Chosen(s) == CHOOSE x \in s : TRUE

\* g sums w over every subset of S.
Sums(g, S, w) ==
  g = [s \in SUBSET S |-> IF s = {} THEN 0 ELSE w[Chosen(s)] + g[s \ {Chosen(s)}]]

\* The sum of the function w over S.
Total(w, S) == (CHOOSE g : Sums(g, S, w))[S]

LEMMA ChosenIn == ASSUME NEW s, s # {} PROVE Chosen(s) \in s
  BY DEF Chosen

\* A family of subsets of a finite set has a smallest member.
LEMMA SmallestSubset ==
  ASSUME NEW S, IsFiniteSet(S), NEW F \in SUBSET SUBSET S, F # {}
  PROVE  \E s \in F : \A t \in SUBSET s : t # s => t \notin F
<1>1. IsWellFoundedOn(StrictSubsetOrdering(S), FiniteSubsetsOf(S))
  BY FS_StrictSubsetOrderingWellFounded
<1>2. FiniteSubsetsOf(S) = SUBSET S
  BY FS_FiniteSubsetsOfFinite
<1>3. PICK s \in F : \A t \in F : ~ (<<t, s>> \in StrictSubsetOrdering(S))
  BY <1>1, <1>2, WFMin
<1>4. ASSUME NEW t \in SUBSET s, t # s, t \in F PROVE FALSE
  <2>1. <<t, s>> \in StrictSubsetOrdering(S)
    BY <1>4 DEF StrictSubsetOrdering
  <2> QED
    BY <1>3, <1>4, <2>1
<1> QED
  BY <1>4

LEMMA SumsStep ==
  ASSUME NEW S, NEW w, NEW g, Sums(g, S, w), NEW s \in SUBSET S
  PROVE  /\ s = {} => g[s] = 0
         /\ s # {} => /\ Chosen(s) \in s
                      /\ g[s] = w[Chosen(s)] + g[s \ {Chosen(s)}]
  BY ChosenIn DEF Sums

\* A sum depends on what is summed only.
LEMMA SumsAgree ==
  ASSUME NEW S, NEW T, NEW w, NEW v, NEW g, NEW h, Sums(g, S, w), Sums(h, T, v),
         NEW u \in SUBSET S, u \in SUBSET T, IsFiniteSet(u),
         \A x \in u : w[x] = v[x]
  PROVE  g[u] = h[u]
<1> SUFFICES ASSUME g[u] # h[u] PROVE FALSE
  OBVIOUS
<1> DEFINE F == {s \in SUBSET u : g[s] # h[s]}
<1>1. PICK s \in F : \A t \in SUBSET s : t # s => t \notin F
  <2>1. F \in SUBSET SUBSET u /\ F # {}
    OBVIOUS
  <2> HIDE DEF F
  <2> QED
    BY <2>1, SmallestSubset
<1>2. s # {} /\ Chosen(s) \in s
  BY SumsStep
<1>3. g[s \ {Chosen(s)}] = h[s \ {Chosen(s)}]
  BY <1>1, <1>2
<1>4. w[Chosen(s)] = v[Chosen(s)]
  BY <1>2
<1> QED
  BY <1>2, <1>3, <1>4, SumsStep

LEMMA SumsExist ==
  ASSUME NEW S, IsFiniteSet(S), NEW w PROVE \E g : Sums(g, S, w)
<1> SUFFICES ASSUME ~ \E g : Sums(g, S, w) PROVE FALSE
  OBVIOUS
<1> DEFINE F == {s \in SUBSET S : ~ \E g : Sums(g, s, w)}
<1>1. PICK s \in F : \A t \in SUBSET s : t # s => t \notin F
  <2>1. F \in SUBSET SUBSET S /\ F # {}
    OBVIOUS
  <2> HIDE DEF F
  <2> QED
    BY <2>1, SmallestSubset
<1> DEFINE G(t) == CHOOSE g : Sums(g, t, w)
           h == [t \in SUBSET s |->
                   IF t = {} THEN 0
                   ELSE w[Chosen(t)] + G(t \ {Chosen(t)})[t \ {Chosen(t)}]]
<1>2. ASSUME NEW t \in SUBSET s, t # s PROVE Sums(G(t), t, w)
  BY <1>1, <1>2
<1>3. ASSUME NEW t \in SUBSET s, t # {}
      PROVE  h[t \ {Chosen(t)}] = G(t \ {Chosen(t)})[t \ {Chosen(t)}]
  <2> DEFINE r == t \ {Chosen(t)}
  <2>1. r \in SUBSET s /\ r # s
    BY <1>3, ChosenIn
  <2>2. Sums(G(r), r, w)
    BY <1>2, <2>1
  <2>3. CASE r = {}
    BY <2>1, <2>2, <2>3, SumsStep
  <2>4. CASE r # {}
    <3> DEFINE q == r \ {Chosen(r)}
    <3>1. q \in SUBSET s /\ q # s /\ q \in SUBSET r /\ IsFiniteSet(q)
      BY <2>1, FS_Subset
    <3>2. Sums(G(q), q, w)
      BY <1>2, <3>1
    <3>3. G(r)[r] = w[Chosen(r)] + G(r)[q]
      <4> HIDE DEF G, r
      <4> QED
        BY <2>2, <2>4, SumsStep
    <3>4. G(r)[q] = G(q)[q]
      <4> HIDE DEF G, q, r
      <4> QED
        BY <2>2, <3>1, <3>2, SumsAgree
    <3>5. h[r] = w[Chosen(r)] + G(q)[q]
      BY <2>1, <2>4
    <3> QED
      BY <3>3, <3>4, <3>5
  <2> QED
    BY <2>3, <2>4
<1>4. Sums(h, s, w)
  <2>1. \A t \in SUBSET s : h[t] = IF t = {} THEN 0 ELSE w[Chosen(t)] + h[t \ {Chosen(t)}]
    <3> SUFFICES ASSUME NEW t \in SUBSET s
                 PROVE  h[t] = IF t = {} THEN 0 ELSE w[Chosen(t)] + h[t \ {Chosen(t)}]
      OBVIOUS
    <3>1. CASE t = {}
      BY <3>1
    <3>2. CASE t # {}
      <4>1. h[t] = w[Chosen(t)] + G(t \ {Chosen(t)})[t \ {Chosen(t)}]
        BY <3>2
      <4>2. h[t \ {Chosen(t)}] = G(t \ {Chosen(t)})[t \ {Chosen(t)}]
        BY <1>3, <3>2
      <4> HIDE DEF h, G
      <4> QED
        BY <3>2, <4>1, <4>2
    <3> QED
      BY <3>1, <3>2
  <2>2. h = [t \in SUBSET s |-> h[t]]
    OBVIOUS
  <2> HIDE DEF h
  <2> QED
    BY <2>1, <2>2 DEF Sums
<1> QED
  BY <1>4

LEMMA SumsInt ==
  ASSUME NEW S, IsFiniteSet(S), NEW w, NEW g, Sums(g, S, w),
         \A x \in S : w[x] \in Int, NEW u \in SUBSET S
  PROVE  g[u] \in Int
<1> SUFFICES ASSUME g[u] \notin Int PROVE FALSE
  OBVIOUS
<1> DEFINE F == {s \in SUBSET S : g[s] \notin Int}
<1>1. PICK s \in F : \A t \in SUBSET s : t # s => t \notin F
  <2>1. F \in SUBSET SUBSET S /\ F # {}
    OBVIOUS
  <2> HIDE DEF F
  <2> QED
    BY <2>1, SmallestSubset
<1>2. s # {} /\ Chosen(s) \in s
  BY SumsStep
<1>3. g[s \ {Chosen(s)}] \in Int
  BY <1>1, <1>2
<1>4. w[Chosen(s)] \in Int
  BY <1>2
<1>5. g[s] = w[Chosen(s)] + g[s \ {Chosen(s)}]
  BY <1>2, SumsStep
<1>6. g[s] \in Int
  <2> HIDE DEF F
  <2> QED
    BY <1>3, <1>4, <1>5
<1> QED
  BY <1>6

\* It does not matter which element is taken out first.
LEMMA SumsTake ==
  ASSUME NEW S, IsFiniteSet(S), NEW w, NEW g, Sums(g, S, w),
         \A x \in S : w[x] \in Int, NEW u \in SUBSET S, NEW e \in u
  PROVE  g[u] = w[e] + g[u \ {e}]
<1> SUFFICES ASSUME g[u] # w[e] + g[u \ {e}] PROVE FALSE
  OBVIOUS
<1> DEFINE F == {s \in SUBSET S : \E x \in s : g[s] # w[x] + g[s \ {x}]}
<1>1. PICK s \in F : \A t \in SUBSET s : t # s => t \notin F
  <2>1. F \in SUBSET SUBSET S /\ F # {}
    OBVIOUS
  <2> HIDE DEF F
  <2> QED
    BY <2>1, SmallestSubset
<1>2. PICK x \in s : g[s] # w[x] + g[s \ {x}]
  OBVIOUS
<1> DEFINE p == Chosen(s)
<1>3. p \in s /\ g[s] = w[p] + g[s \ {p}]
  BY SumsStep
<1>4. p # x
  BY <1>2, <1>3
<1>5. g[s \ {p}] = w[x] + g[(s \ {p}) \ {x}]
  BY <1>1, <1>3, <1>4
<1>6. g[s \ {x}] = w[p] + g[(s \ {x}) \ {p}]
  BY <1>1, <1>3, <1>4
<1>7. (s \ {x}) \ {p} = (s \ {p}) \ {x}
  OBVIOUS
<1>8. w[x] \in Int /\ w[p] \in Int /\ g[(s \ {p}) \ {x}] \in Int
  BY <1>2, <1>3, SumsInt
<1>9. g[s \ {x}] = w[p] + g[(s \ {p}) \ {x}]
  BY <1>6, <1>7
<1>10. g[s] = w[p] + (w[x] + g[(s \ {p}) \ {x}])
  BY <1>3, <1>5
<1>11. g[s] = w[x] + (w[p] + g[(s \ {p}) \ {x}])
  <2> HIDE DEF p, F
  <2> QED
    BY <1>8, <1>10
<1> QED
  BY <1>2, <1>9, <1>11

-----------------------------------------------------------------------------
\* The facts about Total that the proofs about sums use.
LEMMA TotalSums ==
  ASSUME NEW S, IsFiniteSet(S), NEW w
  PROVE  \E g : Sums(g, S, w) /\ Total(w, S) = g[S]
  BY SumsExist DEF Total

LEMMA TotalEmpty == ASSUME NEW w PROVE Total(w, {}) = 0
<1>1. PICK g : Sums(g, {}, w) /\ Total(w, {}) = g[{}]
  BY TotalSums, FS_EmptySet
<1> QED
  BY <1>1, SumsStep

LEMMA TotalInt ==
  ASSUME NEW S, IsFiniteSet(S), NEW w, \A x \in S : w[x] \in Int
  PROVE  Total(w, S) \in Int
<1>1. PICK g : Sums(g, S, w) /\ Total(w, S) = g[S]
  BY TotalSums
<1> QED
  BY <1>1, SumsInt

LEMMA TotalAgree ==
  ASSUME NEW S, IsFiniteSet(S), NEW w, NEW v, \A x \in S : w[x] = v[x]
  PROVE  Total(w, S) = Total(v, S)
<1>1. PICK g : Sums(g, S, w) /\ Total(w, S) = g[S]
  BY TotalSums
<1>2. PICK h : Sums(h, S, v) /\ Total(v, S) = h[S]
  BY TotalSums
<1> QED
  BY <1>1, <1>2, SumsAgree

LEMMA TotalTake ==
  ASSUME NEW S, IsFiniteSet(S), NEW w, \A x \in S : w[x] \in Int, NEW e \in S
  PROVE  Total(w, S) = w[e] + Total(w, S \ {e})
<1>1. PICK g : Sums(g, S, w) /\ Total(w, S) = g[S]
  BY TotalSums
<1>2. IsFiniteSet(S \ {e})
  BY FS_RemoveElement
<1>3. PICK h : Sums(h, S \ {e}, w) /\ Total(w, S \ {e}) = h[S \ {e}]
  BY <1>2, TotalSums
<1>4. g[S \ {e}] = h[S \ {e}]
  BY <1>1, <1>2, <1>3, SumsAgree
<1> QED
  BY <1>1, <1>3, <1>4, SumsTake

LEMMA TotalZero ==
  ASSUME NEW S, IsFiniteSet(S), NEW w, \A x \in S : w[x] = 0
  PROVE  Total(w, S) = 0
<1>1. PICK g : Sums(g, S, w) /\ Total(w, S) = g[S]
  BY TotalSums
<1> SUFFICES ASSUME g[S] # 0 PROVE FALSE
  BY <1>1
<1> DEFINE F == {s \in SUBSET S : g[s] # 0}
<1>2. PICK s \in F : \A t \in SUBSET s : t # s => t \notin F
  <2>1. F \in SUBSET SUBSET S /\ F # {}
    OBVIOUS
  <2> HIDE DEF F
  <2> QED
    BY <2>1, SmallestSubset
<1>3. s # {} /\ Chosen(s) \in s /\ g[s] = w[Chosen(s)] + g[s \ {Chosen(s)}]
  BY <1>1, SumsStep
<1>4. g[s \ {Chosen(s)}] = 0 /\ w[Chosen(s)] = 0
  BY <1>2, <1>3
<1>5. g[s] = 0
  BY <1>3, <1>4
<1> QED
  BY <1>5

\* A sum moves by what the one entry, or the two, that differ moved by.
LEMMA TotalOneMoved ==
  ASSUME NEW S, IsFiniteSet(S), NEW w, NEW v, NEW e \in S,
         \A x \in S : w[x] \in Int /\ v[x] \in Int,
         \A x \in S : x # e => w[x] = v[x]
  PROVE  Total(v, S) = Total(w, S) + (v[e] - w[e])
<1> DEFINE R == S \ {e}
<1>1. IsFiniteSet(R) /\ \A x \in R : w[x] \in Int /\ v[x] \in Int /\ w[x] = v[x]
  BY FS_RemoveElement
<1>2. Total(w, S) = w[e] + Total(w, R) /\ Total(v, S) = v[e] + Total(v, R)
  BY TotalTake
<1> HIDE DEF R
<1>3. Total(w, R) = Total(v, R) /\ Total(w, R) \in Int
  BY <1>1, TotalAgree, TotalInt
<1> QED
  BY <1>2, <1>3

LEMMA TotalTwoMoved ==
  ASSUME NEW S, IsFiniteSet(S), NEW w, NEW v, NEW e \in S, NEW d \in S, e # d,
         \A x \in S : w[x] \in Int /\ v[x] \in Int,
         \A x \in S : x # e /\ x # d => w[x] = v[x]
  PROVE  Total(v, S) = Total(w, S) + (v[e] - w[e]) + (v[d] - w[d])
<1> DEFINE R == S \ {e}
<1>1. /\ IsFiniteSet(R) /\ d \in R
      /\ \A x \in R : w[x] \in Int /\ v[x] \in Int /\ (x # d => w[x] = v[x])
  BY FS_RemoveElement
<1>2. Total(w, S) = w[e] + Total(w, R) /\ Total(v, S) = v[e] + Total(v, R)
  BY TotalTake
<1> HIDE DEF R
<1>3. Total(v, R) = Total(w, R) + (v[d] - w[d])
  BY <1>1, TotalOneMoved
<1>4. Total(w, R) \in Int
  BY <1>1, TotalInt
<1> QED
  BY <1>1, <1>2, <1>3, <1>4

LEMMA TotalOfOne ==
  ASSUME NEW w, NEW e, w[e] \in Int PROVE Total(w, {e}) = w[e]
<1>1. IsFiniteSet({e}) /\ {e} \ {e} = {}
  BY FS_Singleton
<1>2. Total(w, {e}) = w[e] + Total(w, {e} \ {e})
  BY <1>1, TotalTake
<1> QED
  BY <1>1, <1>2, TotalEmpty

\* A sum over a subset, a difference of sums and the sign of a sum.
LEMMA TotalWithin ==
  ASSUME NEW T, IsFiniteSet(T), NEW S \in SUBSET T, NEW w, NEW v,
         \A x \in T : v[x] \in Int,
         \A x \in S : v[x] = w[x], \A x \in T \ S : v[x] = 0
  PROVE  Total(w, S) = Total(v, T)
<1> SUFFICES ASSUME Total(w, S) # Total(v, T) PROVE FALSE
  OBVIOUS
<1> DEFINE F == {u \in SUBSET T : Total(w, u \cap S) # Total(v, u)}
<1>1. PICK u \in F : \A t \in SUBSET u : t # u => t \notin F
  <2>1. T \cap S = S
    OBVIOUS
  <2>2. F \in SUBSET SUBSET T /\ F # {}
    BY <2>1
  <2> HIDE DEF F
  <2> QED
    BY <2>2, SmallestSubset
<1>2. u \in SUBSET T /\ Total(w, u \cap S) # Total(v, u)
  BY <1>1
<1>3. u # {}
  BY <1>2, TotalEmpty
<1>4. PICK e \in u : TRUE
  BY <1>3
<1> DEFINE r == u \ {e}
<1>5. Total(w, r \cap S) = Total(v, r)
  BY <1>1, <1>4
<1>6. IsFiniteSet(u) /\ IsFiniteSet(u \cap S) /\ IsFiniteSet(r)
  BY <1>2, FS_Subset
<1>7. Total(v, u) = v[e] + Total(v, r) /\ Total(v, r) \in Int
  BY <1>2, <1>4, <1>6, TotalTake, TotalInt
<1>8. CASE e \in S
  <2>1. (u \cap S) \ {e} = r \cap S
    OBVIOUS
  <2>2. \A x \in u \cap S : w[x] \in Int
    BY <1>2
  <2>3. Total(w, u \cap S) = w[e] + Total(w, r \cap S)
    BY <1>4, <1>6, <1>8, <2>1, <2>2, TotalTake
  <2> QED
    BY <1>2, <1>5, <1>7, <1>8, <2>3
<1>9. CASE e \notin S
  <2>1. u \cap S = r \cap S /\ v[e] = 0
    BY <1>2, <1>4, <1>9
  <2> QED
    BY <1>2, <1>5, <1>7, <2>1
<1> QED
  BY <1>8, <1>9

LEMMA TotalDifference ==
  ASSUME NEW S, IsFiniteSet(S), NEW w, NEW v, NEW d,
         \A x \in S : w[x] \in Int /\ v[x] \in Int /\ d[x] = w[x] - v[x]
  PROVE  Total(w, S) - Total(v, S) = Total(d, S)
<1> SUFFICES ASSUME Total(w, S) - Total(v, S) # Total(d, S) PROVE FALSE
  OBVIOUS
<1> DEFINE F == {u \in SUBSET S : Total(w, u) - Total(v, u) # Total(d, u)}
<1>1. PICK u \in F : \A t \in SUBSET u : t # u => t \notin F
  <2>1. F \in SUBSET SUBSET S /\ F # {}
    OBVIOUS
  <2> HIDE DEF F
  <2> QED
    BY <2>1, SmallestSubset
<1>2. u \in SUBSET S /\ Total(w, u) - Total(v, u) # Total(d, u)
  BY <1>1
<1>3. u # {}
  BY <1>2, TotalEmpty
<1>4. PICK e \in u : TRUE
  BY <1>3
<1> DEFINE r == u \ {e}
<1>5. Total(w, r) - Total(v, r) = Total(d, r)
  BY <1>1, <1>4
<1>6. IsFiniteSet(u) /\ IsFiniteSet(r)
  BY <1>2, FS_Subset
<1>7. \A x \in u : w[x] \in Int /\ v[x] \in Int /\ d[x] \in Int
  BY <1>2
<1>8. /\ Total(w, u) = w[e] + Total(w, r) /\ Total(v, u) = v[e] + Total(v, r)
      /\ Total(d, u) = d[e] + Total(d, r)
  BY <1>4, <1>6, <1>7, TotalTake
<1>9. Total(w, r) \in Int /\ Total(v, r) \in Int
  BY <1>6, <1>7, TotalInt
<1>10. d[e] = w[e] - v[e] /\ w[e] \in Int /\ v[e] \in Int
  BY <1>2, <1>4
<1> HIDE DEF r
<1> QED
  BY <1>2, <1>5, <1>8, <1>9, <1>10

LEMMA TotalNotPositive ==
  ASSUME NEW S, IsFiniteSet(S), NEW w, \A x \in S : w[x] \in Int /\ w[x] <= 0
  PROVE  Total(w, S) <= 0
<1> SUFFICES ASSUME ~(Total(w, S) <= 0) PROVE FALSE
  OBVIOUS
<1> DEFINE F == {u \in SUBSET S : ~(Total(w, u) <= 0)}
<1>1. PICK u \in F : \A t \in SUBSET u : t # u => t \notin F
  <2>1. F \in SUBSET SUBSET S /\ F # {}
    OBVIOUS
  <2> HIDE DEF F
  <2> QED
    BY <2>1, SmallestSubset
<1>2. u \in SUBSET S /\ ~(Total(w, u) <= 0)
  BY <1>1
<1>3. u # {}
  BY <1>2, TotalEmpty
<1>4. PICK e \in u : TRUE
  BY <1>3
<1>5. Total(w, u \ {e}) <= 0
  BY <1>1, <1>4
<1>6. IsFiniteSet(u) /\ IsFiniteSet(u \ {e})
  BY <1>2, FS_Subset
<1>7. Total(w, u) = w[e] + Total(w, u \ {e})
  BY <1>2, <1>4, <1>6, TotalTake
<1>8. Total(w, u \ {e}) \in Int /\ w[e] \in Int /\ w[e] <= 0
  BY <1>2, <1>4, <1>6, TotalInt
<1> QED
  BY <1>2, <1>5, <1>7, <1>8

\* A sum of steps of one at most is no larger than there are steps.
LEMMA TotalOfSteps ==
  ASSUME NEW S, IsFiniteSet(S), NEW w, \A x \in S : w[x] \in -1 .. 1
  PROVE  Total(w, S) \in -Cardinality(S) .. Cardinality(S)
<1> SUFFICES ASSUME Total(w, S) \notin -Cardinality(S) .. Cardinality(S) PROVE FALSE
  OBVIOUS
<1> DEFINE F == {u \in SUBSET S : Total(w, u) \notin -Cardinality(u) .. Cardinality(u)}
<1>1. PICK u \in F : \A t \in SUBSET u : t # u => t \notin F
  <2>1. F \in SUBSET SUBSET S /\ F # {}
    OBVIOUS
  <2> HIDE DEF F
  <2> QED
    BY <2>1, SmallestSubset
<1>2. u \in SUBSET S /\ Total(w, u) \notin -Cardinality(u) .. Cardinality(u)
  BY <1>1
<1>3. u # {}
  BY <1>2, TotalEmpty, FS_EmptySet
<1>4. PICK e \in u : TRUE
  BY <1>3
<1>5. Total(w, u \ {e}) \in -Cardinality(u \ {e}) .. Cardinality(u \ {e})
  BY <1>1, <1>4
<1>6. IsFiniteSet(u) /\ IsFiniteSet(u \ {e})
  BY <1>2, FS_Subset
<1>7. \A x \in u : w[x] \in Int /\ w[x] \in -1 .. 1
  BY <1>2
<1>8. Total(w, u) = w[e] + Total(w, u \ {e})
  BY <1>4, <1>6, <1>7, TotalTake
<1>9. Cardinality(u \ {e}) = Cardinality(u) - 1 /\ Cardinality(u) \in Nat
  BY <1>4, <1>6, FS_RemoveElement, FS_CardinalityType
<1>10. Total(w, u \ {e}) \in Int /\ w[e] \in -1 .. 1
  BY <1>4, <1>6, <1>7, TotalInt
<1> QED
  BY <1>2, <1>5, <1>8, <1>9, <1>10
=============================================================================
