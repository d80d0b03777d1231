--------------------------------- MODULE Sums ---------------------------------
(***************************************************************************)
(* Sums over finite sets, for the proofs: the total of a function over a   *)
(* set, what the folds of the community modules have to do with it, and    *)
(* its laws.  An induction over the subsets of a finite set is put as      *)
(* "the set of the subsets it is true of", so that no operator has to be   *)
(* a parameter of a lemma.                                                 *)
(***************************************************************************)
EXTENDS Integers, FiniteSets, FiniteSetTheorems, WellFoundedInduction, TLAPS

Pick(s) == CHOOSE x \in s : TRUE

IsFold(g, f, S) ==
  g = [s \in SUBSET S |-> IF s = {} THEN 0 ELSE f[Pick(s)] + g[s \ {Pick(s)}]]

(* The sum of f[x] for x in S.                                             *)
Total(f, S) == (CHOOSE g : IsFold(g, f, S))[S]

(* Any set of numbers has its least.                                       *)
LEMMA Least ==
  ASSUME NEW B \in SUBSET Nat, B # {}
  PROVE  \E n \in B : \A m \in B : n <= m
<1>1. PICK n \in B : \A m \in B : ~(<<m, n>> \in OpToRel(<, Nat))
  BY NatLessThanWellFounded, WFMin
<1>2. \A m \in B : ~(m < n)
  BY <1>1 DEF OpToRel
<1> QED BY <1>2

(* What is true of a set whenever it is true of all sets of one element    *)
(* less, is true of every finite set.                                      *)
LEMMA SubsetInduction ==
  ASSUME NEW S, IsFiniteSet(S), NEW C,
         \A T \in SUBSET S : (\A x \in T : T \ {x} \in C) => T \in C
  PROVE  \A T \in SUBSET S : T \in C
<1> DEFINE Bad == {T \in SUBSET S : T \notin C}
           Sizes == {Cardinality(T) : T \in Bad}
<1> SUFFICES ASSUME Bad # {} PROVE FALSE
  OBVIOUS
<1>1. \A T \in SUBSET S : IsFiniteSet(T) /\ Cardinality(T) \in Nat
  BY FS_Subset, FS_CardinalityType
<1>2. Sizes \in SUBSET Nat /\ Sizes # {}
  BY <1>1
<1>3. PICK n \in Sizes : \A m \in Sizes : n <= m
  BY <1>2, Least
<1>4. PICK T \in Bad : n = Cardinality(T)
  BY <1>3
<1>5. ASSUME NEW x \in T PROVE T \ {x} \in C
  <2>1. T \ {x} \in SUBSET S /\ IsFiniteSet(T)
    BY <1>1
  <2>2. Cardinality(T \ {x}) = Cardinality(T) - 1
    BY <2>1, FS_RemoveElement
  <2>3. Cardinality(T) \in Nat
    BY <1>1
  <2>4. ~(n <= Cardinality(T \ {x}))
    BY <2>2, <2>3, <1>4
  <2> QED BY <2>1, <2>4, <1>3
<1> QED BY <1>4, <1>5

(* The image of a finite set is finite.                                    *)
LEMMA FiniteImage ==
  ASSUME NEW S, IsFiniteSet(S), NEW n
  PROVE  IsFiniteSet({n[x] : x \in S})
<1> DEFINE T == {n[x] : x \in S}
           f == [x \in S |-> n[x]]
<1>1. f \in [S -> T] /\ \A y \in T : \E x \in S : f[x] = y
  OBVIOUS
<1>2. f \in Surjection(S, T)
  BY <1>1, Zenon DEF Surjection
<1> HIDE DEF f, T
<1>3. IsFiniteSet(T)
  BY <1>2, FS_Surjection
<1> QED BY <1>3 DEF T

(* Two folds of functions that agree on a set say the same of it.          *)
LEMMA FoldsAgree ==
  ASSUME NEW U, NEW V, NEW g, NEW h, NEW f, NEW e, IsFold(g, f, U), IsFold(h, e, V),
         NEW S \in SUBSET (U \cap V), IsFiniteSet(S), \A x \in S : f[x] = e[x]
  PROVE  g[S] = h[S]
<1> DEFINE C == {T \in SUBSET S : g[T] = h[T]}
<1>1. ASSUME NEW T \in SUBSET S, \A x \in T : T \ {x} \in C PROVE T \in C
  <2>1. CASE T = {}
    BY <2>1 DEF IsFold
  <2>2. CASE T # {}
    <3>1. Pick(T) \in T
      BY <2>2 DEF Pick
    <3>2. g[T] = f[Pick(T)] + g[T \ {Pick(T)}] /\ h[T] = e[Pick(T)] + h[T \ {Pick(T)}]
      BY <2>2 DEF IsFold
    <3>3. g[T \ {Pick(T)}] = h[T \ {Pick(T)}] /\ f[Pick(T)] = e[Pick(T)]
      BY <1>1, <3>1
    <3> QED BY <3>2, <3>3
  <2> QED BY <2>1, <2>2
<1>2. \A T \in SUBSET S : T \in C
  <2> HIDE DEF C
  <2> QED BY <1>1, SubsetInduction
<1> QED BY <1>2

(* Every function has a fold over a finite set.                            *)
LEMMA FoldExists ==
  ASSUME NEW S, IsFiniteSet(S), NEW f
  PROVE  \E g : IsFold(g, f, S)
<1> DEFINE C == {T \in SUBSET S : \E g : IsFold(g, f, T)}
<1>1. ASSUME NEW T \in SUBSET S, \A x \in T : T \ {x} \in C PROVE T \in C
  <2>0. \A t \in SUBSET S : IsFiniteSet(t)
    BY FS_Subset
  <2>1. CASE T = {}
    <3> DEFINE g == [s \in SUBSET T |-> 0]
    <3>1. IsFold(g, f, T)
      BY <2>1 DEF IsFold
    <3> QED BY <3>1
  <2>2. CASE T # {}
    <3> DEFINE of(t) == CHOOSE g : IsFold(g, f, t)
               g == [s \in SUBSET T |-> IF s = {} THEN 0
                                        ELSE f[Pick(s)] + of(s \ {Pick(s)})[s \ {Pick(s)}]]
    <3>1. \A t \in SUBSET T : t # T => IsFold(of(t), f, t)
      <4> SUFFICES ASSUME NEW t \in SUBSET T, t # T PROVE \E h : IsFold(h, f, t)
        OBVIOUS
      <4>1. PICK x \in T : x \notin t
        OBVIOUS
      <4>2. PICK h : IsFold(h, f, T \ {x})
        BY <1>1
      <4> DEFINE k == [s \in SUBSET t |-> h[s]]
      <4>3. IsFold(k, f, t)
        BY <4>1, <4>2 DEF IsFold
      <4> QED BY <4>3
    <3>2. \A s \in SUBSET T : s # {} => g[s \ {Pick(s)}] = of(s \ {Pick(s)})[s \ {Pick(s)}]
      <4> SUFFICES ASSUME NEW s \in SUBSET T, s # {}
                   PROVE  g[s \ {Pick(s)}] = of(s \ {Pick(s)})[s \ {Pick(s)}]
        OBVIOUS
      <4> DEFINE t == s \ {Pick(s)}
      <4>1. t \in SUBSET T /\ t # T
        BY DEF Pick
      <4>2. IsFold(of(t), f, t)
        BY <3>1, <4>1
      <4>3. CASE t = {}
        BY <4>2, <4>3 DEF IsFold
      <4>4. CASE t # {}
        <5> DEFINE r == t \ {Pick(t)}
        <5>1. Pick(t) \in t
          BY <4>4 DEF Pick
        <5>2. r \in SUBSET T /\ r # T /\ r \in SUBSET t
          BY <4>1
        <5>3. IsFold(of(r), f, r) /\ IsFiniteSet(r)
          BY <3>1, <5>2, <2>0
        <5>4. of(r)[r] = of(t)[r]
          <6> HIDE DEF of
          <6>1. r \in SUBSET (r \cap t)
            BY <5>2
          <6> QED BY <5>3, <4>2, <6>1, FoldsAgree
        <5>5. of(t)[t] = f[Pick(t)] + of(t)[r]
          BY <4>2, <4>4 DEF IsFold
        <5>6. g[t] = f[Pick(t)] + of(r)[r]
          BY <4>1, <4>4
        <5> QED BY <5>4, <5>5, <5>6
      <4> QED BY <4>3, <4>4
    <3>3. \A s \in SUBSET T : g[s] = IF s = {} THEN 0 ELSE f[Pick(s)] + g[s \ {Pick(s)}]
      <4> SUFFICES ASSUME NEW s \in SUBSET T
                   PROVE  g[s] = IF s = {} THEN 0 ELSE f[Pick(s)] + g[s \ {Pick(s)}]
        OBVIOUS
      <4>1. s # {} => g[s \ {Pick(s)}] = of(s \ {Pick(s)})[s \ {Pick(s)}]
        BY <3>2
      <4>2. g[s] = IF s = {} THEN 0 ELSE f[Pick(s)] + of(s \ {Pick(s)})[s \ {Pick(s)}]
        OBVIOUS
      <4> HIDE DEF g, of
      <4> QED BY <4>1, <4>2
    <3>4. g = [s \in SUBSET T |-> g[s]]
      OBVIOUS
    <3> HIDE DEF g
    <3>5. IsFold(g, f, T)
      BY <3>3, <3>4 DEF IsFold
    <3> QED BY <3>5
  <2> QED BY <2>1, <2>2
<1>2. \A T \in SUBSET S : T \in C
  <2> HIDE DEF C
  <2> QED BY <1>1, SubsetInduction
<1> QED BY <1>2

-----------------------------------------------------------------------------
(* The total is what any fold says.                                        *)
LEMMA TotalFold ==
  ASSUME NEW S, IsFiniteSet(S), NEW f
  PROVE  \E g : IsFold(g, f, S) /\ Total(f, S) = g[S]
<1> DEFINE g == CHOOSE g : IsFold(g, f, S)
<1>1. IsFold(g, f, S)
  BY FoldExists
<1> QED BY <1>1 DEF Total

(* It depends on the values over the set only.                             *)
LEMMA TotalAgrees ==
  ASSUME NEW S, IsFiniteSet(S), NEW f, NEW e, \A x \in S : f[x] = e[x]
  PROVE  Total(f, S) = Total(e, S)
<1>1. PICK g : IsFold(g, f, S) /\ Total(f, S) = g[S]
  BY TotalFold
<1>2. PICK h : IsFold(h, e, S) /\ Total(e, S) = h[S]
  BY TotalFold
<1>3. S \in SUBSET (S \cap S)
  OBVIOUS
<1>4. g[S] = h[S]
  BY <1>1, <1>2, <1>3, FoldsAgree
<1> QED BY <1>1, <1>2, <1>4

LEMMA TotalEmpty == \A f : Total(f, {}) = 0
<1> TAKE f
<1>1. IsFiniteSet({})
  BY FS_EmptySet
<1>2. PICK g : IsFold(g, f, {}) /\ Total(f, {}) = g[{}]
  BY <1>1, TotalFold
<1> QED BY <1>2 DEF IsFold

(* One step of the fold.                                                   *)
LEMMA TotalStep ==
  ASSUME NEW S, IsFiniteSet(S), S # {}, NEW f
  PROVE  Total(f, S) = f[Pick(S)] + Total(f, S \ {Pick(S)})
<1> DEFINE R == S \ {Pick(S)}
<1>1. PICK g : IsFold(g, f, S) /\ Total(f, S) = g[S]
  BY TotalFold
<1>2. IsFiniteSet(R)
  BY FS_Subset
<1>3. PICK h : IsFold(h, f, R) /\ Total(f, R) = h[R]
  BY <1>2, TotalFold
<1>4. R \in SUBSET (S \cap R) /\ \A x \in R : f[x] = f[x]
  OBVIOUS
<1>5. g[R] = h[R]
  <2> HIDE DEF R
  <2> QED BY <1>1, <1>2, <1>3, <1>4, FoldsAgree
<1>6. g[S] = f[Pick(S)] + g[R]
  BY <1>1 DEF IsFold
<1> QED BY <1>1, <1>3, <1>5, <1>6

(* A sum of numbers is a number.                                           *)
LEMMA TotalType ==
  ASSUME NEW S, IsFiniteSet(S), NEW f, \A x \in S : f[x] \in Int
  PROVE  Total(f, S) \in Int
<1> DEFINE C == {T \in SUBSET S : Total(f, T) \in Int}
<1>1. ASSUME NEW T \in SUBSET S, \A x \in T : T \ {x} \in C PROVE T \in C
  <2>1. CASE T = {}
    BY <2>1, TotalEmpty
  <2>2. CASE T # {}
    <3>1. Pick(T) \in T
      BY <2>2 DEF Pick
    <3>2. Total(f, T) = f[Pick(T)] + Total(f, T \ {Pick(T)})
      BY FS_Subset, <2>2, TotalStep
    <3> QED BY <1>1, <3>1, <3>2
  <2> QED BY <2>1, <2>2
<1>2. \A T \in SUBSET S : T \in C
  <2> HIDE DEF C
  <2> QED BY <1>1, SubsetInduction
<1> QED BY <1>2

(* Any element may be taken out of a sum.                                  *)
LEMMA TotalRemove ==
  ASSUME NEW S, IsFiniteSet(S), NEW f, \A x \in S : f[x] \in Int
  PROVE  \A x \in S : Total(f, S) = f[x] + Total(f, S \ {x})
<1> DEFINE C == {T \in SUBSET S : \A x \in T : Total(f, T) = f[x] + Total(f, T \ {x})}
<1>0. \A T \in SUBSET S : IsFiniteSet(T) /\ Total(f, T) \in Int
  <2> SUFFICES ASSUME NEW T \in SUBSET S PROVE IsFiniteSet(T) /\ Total(f, T) \in Int
    OBVIOUS
  <2>1. IsFiniteSet(T)
    BY FS_Subset
  <2> QED BY <2>1, TotalType
<1>1. ASSUME NEW T \in SUBSET S, \A x \in T : T \ {x} \in C,
             NEW x \in T
      PROVE  Total(f, T) = f[x] + Total(f, T \ {x})
  <2> DEFINE p == Pick(T)
             r == T \ {x, p}
  <2>1. p \in T
    BY DEF Pick
  <2>2. Total(f, T) = f[p] + Total(f, T \ {p})
    BY <1>0, TotalStep
  <2> HIDE DEF p
  <2>3. CASE x = p
    BY <2>2, <2>3
  <2>4. CASE x # p
    <3>1. r = (T \ {x}) \ {p} /\ r = (T \ {p}) \ {x} /\ r \in SUBSET S
      OBVIOUS
    <3> HIDE DEF r
    <3>2. Total(f, T \ {x}) = f[p] + Total(f, r)
      BY <1>1, <2>1, <2>4, <3>1
    <3>3. Total(f, T \ {p}) = f[x] + Total(f, r)
      BY <1>1, <2>1, <2>4, <3>1
    <3>4. f[x] \in Int /\ f[p] \in Int /\ Total(f, r) \in Int
      BY <1>0, <2>1, <3>1
    <3> QED BY <2>2, <3>2, <3>3, <3>4
  <2> QED BY <2>3, <2>4
<1>2. \A T \in SUBSET S : T \in C
  <2>1. ASSUME NEW T \in SUBSET S, \A x \in T : T \ {x} \in C PROVE T \in C
    BY <1>1, <2>1
  <2> HIDE DEF C
  <2> QED BY <2>1, SubsetInduction
<1> QED BY <1>2

LEMMA TotalAdd ==
  ASSUME NEW S, IsFiniteSet(S), NEW y, y \notin S, NEW f, \A x \in S \cup {y} : f[x] \in Int
  PROVE  Total(f, S \cup {y}) = f[y] + Total(f, S)
<1>1. IsFiniteSet(S \cup {y}) /\ (S \cup {y}) \ {y} = S
  BY FS_AddElement
<1>2. \A x \in S \cup {y} : Total(f, S \cup {y}) = f[x] + Total(f, (S \cup {y}) \ {x})
  BY <1>1, TotalRemove
<1> QED BY <1>1, <1>2

LEMMA TotalOne ==
  ASSUME NEW y, NEW f, f[y] \in Int
  PROVE  Total(f, {y}) = f[y]
<1>1. IsFiniteSet({}) /\ {} \cup {y} = {y}
  BY FS_EmptySet
<1>2. Total(f, {} \cup {y}) = f[y] + Total(f, {})
  BY <1>1, TotalAdd
<1> QED BY <1>1, <1>2, TotalEmpty

(* A sum splits over the parts of its set.                                 *)
LEMMA TotalSplit ==
  ASSUME NEW S, IsFiniteSet(S), NEW R, R \subseteq S, NEW f, \A x \in S : f[x] \in Int
  PROVE  Total(f, S) = Total(f, R) + Total(f, S \ R)
<1> DEFINE C == {T \in SUBSET S : Total(f, T) = Total(f, T \cap R) + Total(f, T \ R)}
<1>0. \A T \in SUBSET S : IsFiniteSet(T) /\ Total(f, T) \in Int
  <2> SUFFICES ASSUME NEW T \in SUBSET S PROVE IsFiniteSet(T) /\ Total(f, T) \in Int
    OBVIOUS
  <2>1. IsFiniteSet(T)
    BY FS_Subset
  <2> QED BY <2>1, TotalType
<1>00. \A T \in SUBSET S : \A x \in T : Total(f, T) = f[x] + Total(f, T \ {x})
  <2> SUFFICES ASSUME NEW T \in SUBSET S
               PROVE  \A x \in T : Total(f, T) = f[x] + Total(f, T \ {x})
    OBVIOUS
  <2> QED BY <1>0, TotalRemove
<1>1. ASSUME NEW T \in SUBSET S, \A x \in T : T \ {x} \in C PROVE T \in C
  <2>1. CASE T = {}
    <3>1. T \cap R = {} /\ T \ R = {}
      BY <2>1
    <3> QED BY <2>1, <3>1, TotalEmpty
  <2>2. CASE T # {}
    <3>1. PICK x \in T : TRUE
      BY <2>2
    <3> DEFINE T1 == T \ {x}
    <3>2. /\ Total(f, T) = f[x] + Total(f, T1)
          /\ Total(f, T1) = Total(f, T1 \cap R) + Total(f, T1 \ R)
          /\ f[x] \in Int
      BY <1>00, <1>1
    <3>3. Total(f, T1 \cap R) \in Int /\ Total(f, T1 \ R) \in Int
      <4>1. T1 \cap R \in SUBSET S /\ T1 \ R \in SUBSET S
        OBVIOUS
      <4> QED BY <1>0, <4>1
    <3>4. CASE x \in R
      <4>1. (T \cap R) \ {x} = T1 \cap R /\ T \ R = T1 \ R /\ x \in T \cap R /\ T \cap R \in SUBSET S
        BY <3>4
      <4>2. Total(f, T \cap R) = f[x] + Total(f, T1 \cap R)
        BY <1>00, <4>1
      <4>3. Total(f, T \ R) = Total(f, T1 \ R)
        BY <4>1
      <4> HIDE DEF T1
      <4>4. Total(f, T) = Total(f, T \cap R) + Total(f, T \ R)
        BY <3>2, <3>3, <4>2, <4>3
      <4> QED BY <4>4
    <3>5. CASE x \notin R
      <4>1. (T \ R) \ {x} = T1 \ R /\ T \cap R = T1 \cap R /\ x \in T \ R /\ T \ R \in SUBSET S
        BY <3>5
      <4>2. Total(f, T \ R) = f[x] + Total(f, T1 \ R)
        BY <1>00, <4>1
      <4>3. Total(f, T \cap R) = Total(f, T1 \cap R)
        BY <4>1
      <4> HIDE DEF T1
      <4>4. Total(f, T) = Total(f, T \cap R) + Total(f, T \ R)
        BY <3>2, <3>3, <4>2, <4>3
      <4> QED BY <4>4
    <3> QED BY <3>4, <3>5
  <2> QED BY <2>1, <2>2
<1>2. \A T \in SUBSET S : T \in C
  <2> HIDE DEF C
  <2> QED BY <1>1, SubsetInduction
<1>3. S \cap R = R
  OBVIOUS
<1> QED BY <1>2, <1>3

(* Summands one by one no greater, a sum no greater.                       *)
LEMMA TotalMonotone ==
  ASSUME NEW S, IsFiniteSet(S), NEW f, NEW e,
         \A x \in S : f[x] \in Int /\ e[x] \in Int /\ f[x] <= e[x]
  PROVE  Total(f, S) <= Total(e, S)
<1> DEFINE C == {T \in SUBSET S : Total(f, T) <= Total(e, T)}
<1>1. ASSUME NEW T \in SUBSET S, \A x \in T : T \ {x} \in C PROVE T \in C
  <2>1. CASE T = {}
    BY <2>1, TotalEmpty
  <2>2. CASE T # {}
    <3>1. PICK x \in T : TRUE
      BY <2>2
    <3>2. IsFiniteSet(T) /\ IsFiniteSet(T \ {x}) /\ \A y \in T : f[y] \in Int /\ e[y] \in Int
      BY FS_Subset
    <3>3. Total(f, T) = f[x] + Total(f, T \ {x}) /\ Total(e, T) = e[x] + Total(e, T \ {x})
      BY <3>2, TotalRemove
    <3>4. Total(f, T \ {x}) \in Int /\ Total(e, T \ {x}) \in Int
      BY <3>2, TotalType
    <3>5. Total(f, T \ {x}) <= Total(e, T \ {x})
      BY <1>1
    <3> QED BY <3>3, <3>4, <3>5
  <2> QED BY <2>1, <2>2
<1>2. \A T \in SUBSET S : T \in C
  <2> HIDE DEF C
  <2> QED BY <1>1, SubsetInduction
<1> QED BY <1>2

(* A sum over renamed elements, no two of which get one name.              *)
LEMMA TotalRenamed ==
  ASSUME NEW S, IsFiniteSet(S), NEW n, NEW f, NEW e,
         \A x \in S : f[x] \in Int /\ e[n[x]] = f[x],
         \A x, y \in S : n[x] = n[y] => x = y
  PROVE  /\ IsFiniteSet({n[x] : x \in S})
         /\ Total(e, {n[x] : x \in S}) = Total(f, S)
<1> DEFINE Image(T) == {n[x] : x \in T}
           C == {T \in SUBSET S : IsFiniteSet(Image(T)) /\ Total(e, Image(T)) = Total(f, T)}
<1>1. ASSUME NEW T \in SUBSET S, \A x \in T : T \ {x} \in C PROVE T \in C
  <2>1. CASE T = {}
    <3>1. Image(T) = {}
      BY <2>1
    <3> QED BY <2>1, <3>1, TotalEmpty, FS_EmptySet
  <2>2. CASE T # {}
    <3>1. PICK x \in T : TRUE
      BY <2>2
    <3> DEFINE R == T \ {x}
               I == Image(R)
    <3>2. /\ Image(T) = I \cup {n[x]} /\ n[x] \notin I
          /\ \A y \in I \cup {n[x]} : e[y] \in Int
      OBVIOUS
    <3>3. IsFiniteSet(I) /\ Total(e, I) = Total(f, R)
      BY <1>1
    <3>4. IsFiniteSet(T) /\ \A y \in T : f[y] \in Int
      BY FS_Subset
    <3>5. Total(f, T) = f[x] + Total(f, R)
      BY <3>4, TotalRemove
    <3>6. e[n[x]] = f[x]
      OBVIOUS
    <3> HIDE DEF I, R
    <3>7. Total(e, I \cup {n[x]}) = e[n[x]] + Total(e, I) /\ IsFiniteSet(I \cup {n[x]})
      BY <3>2, <3>3, TotalAdd, FS_AddElement
    <3>8. Total(e, Image(T)) = Total(f, T) /\ IsFiniteSet(Image(T))
      BY <3>2, <3>3, <3>5, <3>6, <3>7
    <3> QED BY <3>8
  <2> QED BY <2>1, <2>2
<1>2. \A T \in SUBSET S : T \in C
  <2> HIDE DEF C
  <2> QED BY <1>1, SubsetInduction
<1> QED BY <1>2

(* A sum in which one summand changes.                                     *)
LEMMA TotalChange ==
  ASSUME NEW S, IsFiniteSet(S), NEW f, NEW e, NEW y \in S,
         \A x \in S : f[x] \in Int /\ e[x] \in Int,
         \A x \in S : x # y => e[x] = f[x]
  PROVE  Total(e, S) = Total(f, S) - f[y] + e[y]
<1> DEFINE R == S \ {y}
<1>1. IsFiniteSet(R)
  BY FS_Subset
<1>2. Total(f, S) = f[y] + Total(f, R) /\ Total(e, S) = e[y] + Total(e, R)
  BY TotalRemove
<1>3. Total(f, R) = Total(e, R)
  BY <1>1, TotalAgrees
<1>4. Total(f, R) \in Int
  BY <1>1, TotalType
<1> QED BY <1>2, <1>3, <1>4

LEMMA TotalZero ==
  ASSUME NEW S, IsFiniteSet(S), NEW f, \A x \in S : f[x] = 0
  PROVE  Total(f, S) = 0
<1> DEFINE C == {T \in SUBSET S : Total(f, T) = 0}
<1>1. ASSUME NEW T \in SUBSET S, \A x \in T : T \ {x} \in C PROVE T \in C
  <2>1. CASE T = {}
    BY <2>1, TotalEmpty
  <2>2. CASE T # {}
    <3>1. Pick(T) \in T
      BY <2>2 DEF Pick
    <3>2. Total(f, T) = f[Pick(T)] + Total(f, T \ {Pick(T)})
      BY FS_Subset, <2>2, TotalStep
    <3> QED BY <1>1, <3>1, <3>2
  <2> QED BY <2>1, <2>2
<1>2. \A T \in SUBSET S : T \in C
  <2> HIDE DEF C
  <2> QED BY <1>1, SubsetInduction
<1> QED BY <1>2

(* A sum of natural numbers is one, and no smaller than that of a part.    *)
LEMMA TotalNat ==
  ASSUME NEW S, IsFiniteSet(S), NEW f, \A x \in S : f[x] \in Nat
  PROVE  /\ Total(f, S) \in Nat
         /\ \A R \in SUBSET S : Total(f, R) \in Nat /\ Total(f, R) <= Total(f, S)
<1>1. ASSUME NEW R \in SUBSET S PROVE Total(f, R) \in Nat
  <2> DEFINE zero == [x \in R |-> 0]
  <2>1. IsFiniteSet(R)
    BY FS_Subset
  <2>2. Total(zero, R) <= Total(f, R)
    BY <2>1, TotalMonotone
  <2>3. Total(zero, R) = 0
    BY <2>1, TotalZero
  <2>4. Total(f, R) \in Int
    BY <2>1, TotalType
  <2> QED BY <2>2, <2>3, <2>4
<1>2. ASSUME NEW R \in SUBSET S PROVE Total(f, R) <= Total(f, S)
  <2>1. Total(f, S) = Total(f, R) + Total(f, S \ R)
    BY TotalSplit
  <2>2. Total(f, R) \in Nat /\ Total(f, S \ R) \in Nat
    BY <1>1
  <2> QED BY <2>1, <2>2
<1> QED BY <1>1, <1>2

(* The sum of a sum.                                                       *)
LEMMA TotalPlus ==
  ASSUME NEW S, IsFiniteSet(S), NEW f, NEW e, NEW h,
         \A x \in S : f[x] \in Int /\ e[x] \in Int /\ h[x] = f[x] + e[x]
  PROVE  Total(h, S) = Total(f, S) + Total(e, S)
<1> DEFINE C == {T \in SUBSET S : Total(h, T) = Total(f, T) + Total(e, T)}
<1>1. ASSUME NEW T \in SUBSET S, \A x \in T : T \ {x} \in C PROVE T \in C
  <2>1. CASE T = {}
    BY <2>1, TotalEmpty
  <2>2. CASE T # {}
    <3>1. PICK x \in T : TRUE
      BY <2>2
    <3>2. PICK R : R = T \ {x}
      OBVIOUS
    <3>3. IsFiniteSet(T) /\ IsFiniteSet(R) /\ R \in SUBSET S
      BY <3>2, FS_Subset
    <3>4. /\ Total(f, T) = f[x] + Total(f, R) /\ Total(e, T) = e[x] + Total(e, R)
          /\ Total(h, T) = h[x] + Total(h, R)
      BY <3>2, <3>3, TotalRemove
    <3>5. Total(f, R) \in Int /\ Total(e, R) \in Int
      BY <3>3, TotalType
    <3>6. Total(h, R) = Total(f, R) + Total(e, R)
      BY <1>1, <3>2
    <3>7. Total(h, T) = Total(f, T) + Total(e, T)
      BY <3>4, <3>5, <3>6
    <3> QED BY <3>7
  <2> QED BY <2>1, <2>2
<1>2. \A T \in SUBSET S : T \in C
  <2> HIDE DEF C
  <2> QED BY <1>1, SubsetInduction
<1> QED BY <1>2

LEMMA TotalNegated ==
  ASSUME NEW S, IsFiniteSet(S), NEW f, NEW h,
         \A x \in S : f[x] \in Int /\ h[x] = -f[x]
  PROVE  Total(h, S) = -Total(f, S)
<1> DEFINE zero == [x \in S |-> 0]
<1>1. Total(zero, S) = 0
  BY TotalZero
<1>2. \A x \in S : h[x] \in Int /\ f[x] \in Int /\ zero[x] = f[x] + h[x]
  OBVIOUS
<1>3. Total(zero, S) = Total(f, S) + Total(h, S)
  BY <1>2, TotalPlus
<1>4. Total(f, S) \in Int /\ Total(h, S) \in Int
  BY <1>2, TotalType
<1> QED BY <1>1, <1>3, <1>4

(* A set falls into parts, and its sum into theirs.                        *)
SumsOfParts(part, f, S, key, K) ==
  \A k \in K : part[k] = Total(f, {x \in S : key[x] = k})

LEMMA TotalParts ==
  ASSUME NEW S, IsFiniteSet(S), NEW K, IsFiniteSet(K), NEW f, NEW key, NEW part,
         \A x \in S : f[x] \in Int /\ key[x] \in K,
         SumsOfParts(part, f, S, key, K)
  PROVE  Total(f, S) = Total(part, K)
<1> DEFINE Of(T) == {x \in S : key[x] \in T}
           C == {T \in SUBSET K : Total(f, Of(T)) = Total(part, T)}
<1>1. ASSUME NEW T \in SUBSET K, \A k \in T : T \ {k} \in C PROVE T \in C
  <2>1. CASE T = {}
    <3>1. Of(T) = {}
      BY <2>1
    <3> QED BY <2>1, <3>1, TotalEmpty
  <2>2. CASE T # {}
    <3>1. PICK k \in T : TRUE
      BY <2>2
    <3>2. PICK R : R = T \ {k}
      OBVIOUS
    <3>3. PICK all, rest, one : all = Of(T) /\ rest = Of(R) /\ one = {x \in S : key[x] = k}
      OBVIOUS
    <3>4. all \subseteq S /\ one \subseteq all /\ all \ one = rest
      BY <3>1, <3>2, <3>3
    <3>5. IsFiniteSet(all) /\ IsFiniteSet(T) /\ IsFiniteSet(one)
      BY <3>4, FS_Subset
    <3>6. Total(f, all) = Total(f, one) + Total(f, rest)
      BY <3>4, <3>5, TotalSplit
    <3>7. Total(f, one) = part[k] /\ Total(f, one) \in Int
      BY <3>1, <3>3, <3>4, <3>5, TotalType DEF SumsOfParts
    <3>8. \A j \in T : part[j] \in Int
      <4> SUFFICES ASSUME NEW j \in T PROVE part[j] \in Int
        OBVIOUS
      <4>1. PICK P : P = {x \in S : key[x] = j}
        OBVIOUS
      <4>2. IsFiniteSet(P) /\ P \subseteq S
        BY <4>1, FS_Subset
      <4>3. part[j] = Total(f, P)
        BY <4>1 DEF SumsOfParts
      <4> QED BY <4>2, <4>3, TotalType
    <3>9. Total(part, T) = part[k] + Total(part, R)
      BY <3>1, <3>2, <3>5, <3>8, TotalRemove
    <3>10. Total(f, rest) = Total(part, R)
      BY <1>1, <3>1, <3>2, <3>3
    <3> QED BY <3>3, <3>6, <3>7, <3>9, <3>10
  <2> QED BY <2>1, <2>2
<1>2. \A T \in SUBSET K : T \in C
  <2> HIDE DEF C
  <2> QED BY <1>1, SubsetInduction
<1>3. Of(K) = S
  OBVIOUS
<1> QED BY <1>2, <1>3

(***************************************************************************)
(* Lists of the elements of a finite set, one ahead of the other.          *)
(***************************************************************************)
IsOrder(less, S) ==
  /\ \A x \in S : <<x, x>> \notin less
  /\ \A x, y \in S : x # y => <<x, y>> \in less \/ <<y, x>> \in less
  /\ \A x, y, z \in S : <<x, y>> \in less /\ <<y, z>> \in less => <<x, z>> \in less

Before(less, S, x) == {y \in S : <<y, x>> \in less}

(* How many are ahead of an element says which one it is, and there is one *)
(* for every number up to the last.                                        *)
LEMMA RanksAreOnesOwn ==
  ASSUME NEW S, IsFiniteSet(S), NEW less, IsOrder(less, S)
  PROVE  /\ \A x \in S : Cardinality(Before(less, S, x)) \in 0..(Cardinality(S) - 1)
         /\ \A x, y \in S : Cardinality(Before(less, S, x)) = Cardinality(Before(less, S, y))
                              => x = y
         /\ \A i \in 1..Cardinality(S) : \E x \in S : Cardinality(Before(less, S, x)) = i - 1
<1> DEFINE n == Cardinality(S)
           rank == [x \in S |-> Cardinality(Before(less, S, x))]
<1>0. n \in Nat
  BY FS_CardinalityType
<1>1. ASSUME NEW x \in S
      PROVE  /\ IsFiniteSet(Before(less, S, x)) /\ x \notin Before(less, S, x)
             /\ Before(less, S, x) \in SUBSET S
             /\ rank[x] \in 0..(n - 1)
  <2> DEFINE B == Before(less, S, x)
  <2>1. B \in SUBSET S /\ x \notin B
    BY DEF Before, IsOrder
  <2> HIDE DEF B
  <2>2. IsFiniteSet(B) /\ Cardinality(B) <= Cardinality(S)
        /\ (Cardinality(S) = Cardinality(B) => S = B)
    BY <2>1, FS_Subset
  <2>3. Cardinality(B) \in Nat
    BY <2>2, FS_CardinalityType
  <2>4. Cardinality(B) # n
    BY <2>1, <2>2
  <2>5. Cardinality(B) \in 0..(n - 1)
    BY <1>0, <2>2, <2>3, <2>4
  <2> QED BY <2>1, <2>2, <2>5 DEF B
<1>2. ASSUME NEW x \in S, NEW y \in S, <<x, y>> \in less
      PROVE  rank[x] < rank[y]
  <2> DEFINE A == Before(less, S, x)
             B == Before(less, S, y)
  <2>1. A \in SUBSET B /\ x \in B /\ x \notin A
    BY <1>1, <1>2 DEF Before, IsOrder
  <2>2. IsFiniteSet(B)
    BY <1>1
  <2>3. rank[x] = Cardinality(A) /\ rank[y] = Cardinality(B)
    OBVIOUS
  <2> HIDE DEF A, B, rank
  <2>4. Cardinality(A) <= Cardinality(B) /\ Cardinality(A) # Cardinality(B)
    BY <2>1, <2>2, FS_Subset
  <2>5. rank[x] \in Int /\ rank[y] \in Int
    BY <1>1, <1>0
  <2> QED BY <2>3, <2>4, <2>5
<1>3. \A x, y \in S : rank[x] = rank[y] => x = y
  <2> SUFFICES ASSUME NEW x \in S, NEW y \in S, x # y PROVE rank[x] # rank[y]
    OBVIOUS
  <2>1. rank[x] \in Int /\ rank[y] \in Int
    BY <1>1, <1>0
  <2>2. <<x, y>> \in less \/ <<y, x>> \in less
    BY DEF IsOrder
  <2>3. rank[x] < rank[y] \/ rank[y] < rank[x]
    BY <1>2, <2>2
  <2> HIDE DEF rank
  <2> QED BY <2>1, <2>3
<1>4. rank \in Injection(S, 0..(n - 1))
  BY <1>1, <1>3 DEF Injection, IsInjective
<1>5. IsFiniteSet(0..(n - 1)) /\ Cardinality(0..(n - 1)) = n
  <2>1. 0 \in Int /\ n - 1 \in Int
    BY <1>0
  <2>2. Cardinality(0..(n - 1)) = IF 0 > n - 1 THEN 0 ELSE (n - 1) - 0 + 1
    BY <2>1, FS_Interval
  <2> HIDE DEF n
  <2> QED BY <1>0, <2>1, <2>2, FS_Interval
<1>6. rank \in Surjection(S, 0..(n - 1))
  <2> HIDE DEF rank
  <2> QED BY <1>4, <1>5, FS_Injection
<1>7. ASSUME NEW i \in 1..n PROVE \E x \in S : rank[x] = i - 1
  <2>1. i - 1 \in 0..(n - 1)
    BY <1>0
  <2> HIDE DEF rank
  <2> QED BY <1>6, <2>1 DEF Surjection
<1> QED BY <1>1, <1>3, <1>7
=============================================================================
