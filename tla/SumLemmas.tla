------------------------------ MODULE SumLemmas ------------------------------
(****************************************************************************)
(* What SumFunctionOnSet of the community modules computes: the facts about  *)
(* the sum of a function over a finite set that the proofs about quotas need.*)
(*                                                                          *)
(* The sum is a recursive function over the subsets of the set, so each fact *)
(* is proved by induction over these.  The induction principle is stated     *)
(* with a set in the place of a predicate (FiniteInduction).                 *)
(****************************************************************************)
EXTENDS Integers, FiniteSets, Functions, FiniteSetTheorems, TLAPS

(* What holds of a subset of S whenever it holds of all that are smaller     *)
(* holds of every subset of S.                                              *)
LEMMA FiniteInduction ==
    ASSUME NEW S, IsFiniteSet(S), NEW P,
           \A U \in SUBSET S :
               (\A V \in SUBSET U : V # U => V \in P) => U \in P
    PROVE  \A U \in SUBSET S : U \in P
<1> DEFINE T == {U \in SUBSET S : U \notin P}
<1> SUFFICES ASSUME T # {}
             PROVE  FALSE
  OBVIOUS
<1>1. IsWellFoundedOn(StrictSubsetOrdering(S), FiniteSubsetsOf(S))
  BY FS_StrictSubsetOrderingWellFounded
<1>2. T \subseteq FiniteSubsetsOf(S)
  BY FS_FiniteSubsetsOfFinite
<1>3. PICK U \in T : \A V \in T : <<V, U>> \notin StrictSubsetOrdering(S)
  <2> HIDE DEF T
  <2> QED BY <1>1, <1>2, WFMin
<1>4. \A V \in SUBSET U : V # U => V \in P
  <2> SUFFICES ASSUME NEW V \in SUBSET U, V # U, V \notin P
               PROVE  FALSE
    OBVIOUS
  <2>1. V \in T
    BY <1>3
  <2>2. <<V, U>> \in StrictSubsetOrdering(S)
    BY <1>3 DEF StrictSubsetOrdering
  <2> QED BY <1>3, <2>1, <2>2
<1> QED BY <1>3, <1>4

-----------------------------------------------------------------------------
(* The recursive function behind the sum: there is exactly one. *)

Pick(S) == CHOOSE x \in S : TRUE

IsSum(f, w, S) ==
    f = [s \in SUBSET S |->
           IF s = {} THEN 0 ELSE w[Pick(s)] + f[s \ {Pick(s)}]]

LEMMA PickIn == ASSUME NEW S, S # {} PROVE Pick(S) \in S
BY DEF Pick

LEMMA SumUnfold ==
    ASSUME NEW w, NEW S
    PROVE  SumFunctionOnSet(w, S) = (CHOOSE f : IsSum(f, w, S))[S]
BY DEF SumFunctionOnSet, FoldFunctionOnSet, MapThenFoldSet, IsSum, Pick

LEMMA SumUnique ==
    ASSUME NEW S, IsFiniteSet(S), NEW w, NEW f, NEW g,
           IsSum(f, w, S), IsSum(g, w, S)
    PROVE  f = g
<1> DEFINE P == {U \in SUBSET S : f[U] = g[U]}
<1>1. ASSUME NEW U \in SUBSET S, \A V \in SUBSET U : V # U => V \in P
      PROVE  U \in P
  <2>1. CASE U = {}
    BY <2>1 DEF IsSum
  <2>2. CASE U # {}
    <3>1. Pick(U) \in U
      BY <2>2, PickIn
    <3>2. f[U \ {Pick(U)}] = g[U \ {Pick(U)}]
      BY <1>1, <3>1
    <3> QED BY <2>2, <3>2 DEF IsSum
  <2> QED BY <2>1, <2>2
<1>2. \A U \in SUBSET S : U \in P
  <2> HIDE DEF P
  <2> QED BY <1>1, FiniteInduction
<1>3. f = [s \in SUBSET S |-> f[s]] /\ g = [s \in SUBSET S |-> g[s]]
  BY DEF IsSum
<1> QED BY <1>2, <1>3

LEMMA SumRestrict ==
    ASSUME NEW S, NEW w, NEW f, IsSum(f, w, S), NEW U \in SUBSET S
    PROVE  IsSum([s \in SUBSET U |-> f[s]], w, U)
<1> DEFINE g == [s \in SUBSET U |-> f[s]]
<1>1. ASSUME NEW s \in SUBSET U
      PROVE  g[s] = IF s = {} THEN 0 ELSE w[Pick(s)] + g[s \ {Pick(s)}]
  BY DEF IsSum
<1> QED BY <1>1 DEF IsSum

LEMMA SumExists ==
    ASSUME NEW S, IsFiniteSet(S), NEW w
    PROVE  \E f : IsSum(f, w, S)
<1> DEFINE P == {U \in SUBSET S : \E f : IsSum(f, w, U)}
           F(U) == CHOOSE f : IsSum(f, w, U)
<1>1. ASSUME NEW U \in SUBSET S, \A V \in SUBSET U : V # U => V \in P
      PROVE  U \in P
  <2> DEFINE R == U \ {Pick(U)}
             g == [s \in SUBSET U |->
                     IF s = {} THEN 0
                     ELSE IF s = U THEN w[Pick(U)] + F(R)[R] ELSE F(s)[s]]
  <2>1. ASSUME NEW s \in SUBSET U, s # U
        PROVE  IsSum(F(s), w, s)
    BY <1>1, <2>1
  <2>2. ASSUME NEW s \in SUBSET U, s # {}
        PROVE  g[s] = w[Pick(s)] + g[s \ {Pick(s)}]
    <3> DEFINE r == s \ {Pick(s)}
    <3>1. /\ Pick(s) \in s
          /\ r \in SUBSET U
          /\ r # U
          /\ r \in SUBSET s
      BY <2>2, PickIn
    <3>2. IsSum(F(r), w, r) /\ IsFiniteSet(r)
      BY <2>1, <3>1, FS_Subset
    <3>3. g[r] = F(r)[r]
      <4>1. CASE r = {}
        BY <3>2, <4>1 DEF IsSum
      <4>2. CASE r # {}
        BY <3>1, <4>2
      <4> QED BY <4>1, <4>2
    <3>4. CASE s = U
      <4>1. g[s] = w[Pick(s)] + F(r)[r]
        BY <2>2, <3>4
      <4> QED BY <3>3, <4>1
    <3>5. CASE s # U
      <4>1. IsSum(F(s), w, s)
        BY <2>1, <3>5
      <4>2. IsSum([v \in SUBSET r |-> F(s)[v]], w, r)
        BY <3>1, <4>1, SumRestrict
      <4>3. F(r) = [v \in SUBSET r |-> F(s)[v]]
        <5> HIDE DEF F
        <5> QED BY <3>2, <4>2, SumUnique
      <4>4. F(r)[r] = F(s)[r]
        <5> HIDE DEF F
        <5> QED BY <4>3
      <4>5. F(s)[s] = w[Pick(s)] + F(s)[r]
        <5> HIDE DEF F
        <5> QED BY <2>2, <4>1 DEF IsSum
      <4>6. g[s] = F(s)[s]
        BY <2>2, <3>5
      <4> QED BY <3>3, <4>4, <4>5, <4>6
    <3> QED BY <3>4, <3>5
  <2>3. g[{}] = 0
    OBVIOUS
  <2>4. IsSum(g, w, U)
    <3>1. g = [s \in SUBSET U |-> g[s]]
      OBVIOUS
    <3> HIDE DEF g
    <3>2. \A s \in SUBSET U :
            g[s] = IF s = {} THEN 0 ELSE w[Pick(s)] + g[s \ {Pick(s)}]
      BY <2>2, <2>3
    <3> QED BY <3>1, <3>2 DEF IsSum
  <2> QED BY <2>4
<1>2. \A U \in SUBSET S : U \in P
  <2> HIDE DEF P
  <2> QED BY <1>1, FiniteInduction
<1> QED BY <1>2

(* Hence the sum is the value of that function. *)
LEMMA SumIs ==
    ASSUME NEW S, IsFiniteSet(S), NEW w, NEW f, IsSum(f, w, S),
           NEW U \in SUBSET S
    PROVE  SumFunctionOnSet(w, U) = f[U]
<1> DEFINE g == [s \in SUBSET U |-> f[s]]
           h == CHOOSE e : IsSum(e, w, U)
<1>1. IsFiniteSet(U) /\ IsSum(g, w, U)
  BY FS_Subset, SumRestrict
<1>2. IsSum(h, w, U)
  BY <1>1
<1>3. h = g
  <2> HIDE DEF h, g
  <2> QED BY <1>1, <1>2, SumUnique
<1>4. g[U] = f[U]
  OBVIOUS
<1> QED BY <1>3, <1>4, SumUnfold

-----------------------------------------------------------------------------
(* The sum over a finite set. *)

LEMMA SumEmpty ==
    ASSUME NEW w
    PROVE  SumFunctionOnSet(w, {}) = 0
<1>1. IsFiniteSet({})
  BY FS_EmptySet
<1>2. PICK f : IsSum(f, w, {})
  BY <1>1, SumExists
<1>3. f[{}] = 0
  BY <1>2 DEF IsSum
<1> QED BY <1>1, <1>2, <1>3, SumIs

LEMMA SumPick ==
    ASSUME NEW S, IsFiniteSet(S), S # {}, NEW w
    PROVE  SumFunctionOnSet(w, S)
             = w[Pick(S)] + SumFunctionOnSet(w, S \ {Pick(S)})
<1>1. PICK f : IsSum(f, w, S)
  BY SumExists
<1>2. f[S] = w[Pick(S)] + f[S \ {Pick(S)}]
  BY <1>1 DEF IsSum
<1> QED BY <1>1, <1>2, SumIs

LEMMA SumType ==
    ASSUME NEW S, IsFiniteSet(S), NEW w, \A x \in S : w[x] \in Nat
    PROVE  SumFunctionOnSet(w, S) \in Nat
<1> DEFINE P == {U \in SUBSET S : SumFunctionOnSet(w, U) \in Nat}
<1>1. ASSUME NEW U \in SUBSET S, \A V \in SUBSET U : V # U => V \in P
      PROVE  U \in P
  <2>1. CASE U = {}
    BY <2>1, SumEmpty
  <2>2. CASE U # {}
    <3>1. Pick(U) \in U /\ IsFiniteSet(U)
      BY <2>2, PickIn, FS_Subset
    <3>2. SumFunctionOnSet(w, U \ {Pick(U)}) \in Nat
      BY <1>1, <3>1
    <3>3. w[Pick(U)] \in Nat
      BY <3>1
    <3>4. SumFunctionOnSet(w, U)
            = w[Pick(U)] + SumFunctionOnSet(w, U \ {Pick(U)})
      BY <2>2, <3>1, SumPick
    <3> QED BY <3>2, <3>3, <3>4
  <2> QED BY <2>1, <2>2
<1>2. \A U \in SUBSET S : U \in P
  <2> HIDE DEF P
  <2> QED BY <1>1, FiniteInduction
<1> QED BY <1>2

(* Whichever element is taken out first. *)
LEMMA SumRemove ==
    ASSUME NEW S, IsFiniteSet(S), NEW w, \A x \in S : w[x] \in Nat, NEW x \in S
    PROVE  SumFunctionOnSet(w, S) = w[x] + SumFunctionOnSet(w, S \ {x})
<1> DEFINE P == {U \in SUBSET S :
                   \A y \in U : SumFunctionOnSet(w, U)
                                  = w[y] + SumFunctionOnSet(w, U \ {y})}
<1>1. ASSUME NEW U \in SUBSET S, \A V \in SUBSET U : V # U => V \in P
      PROVE  U \in P
  <2> SUFFICES ASSUME NEW y \in U
               PROVE  SumFunctionOnSet(w, U)
                        = w[y] + SumFunctionOnSet(w, U \ {y})
    OBVIOUS
  <2> DEFINE p == Pick(U)
             R == U \ {y}
  <2>1. /\ p \in U
        /\ IsFiniteSet(U)
        /\ SumFunctionOnSet(w, U) = w[p] + SumFunctionOnSet(w, U \ {p})
    BY PickIn, FS_Subset, SumPick
  <2>2. CASE p = y
    BY <2>1, <2>2
  <2>3. CASE p # y
    <3> DEFINE T == U \ {p}
               N == U \ {p, y}
    <3>1. /\ N = T \ {y} /\ N = R \ {p}
          /\ T \in SUBSET U /\ T # U /\ y \in T
          /\ R \in SUBSET U /\ R # U /\ p \in R
      BY <2>1, <2>3
    <3>2. SumFunctionOnSet(w, T) = w[y] + SumFunctionOnSet(w, N)
      BY <1>1, <3>1
    <3>3. SumFunctionOnSet(w, R) = w[p] + SumFunctionOnSet(w, N)
      BY <1>1, <3>1
    <3>4. IsFiniteSet(N) /\ \A z \in N : w[z] \in Nat
      BY <2>1, FS_Subset
    <3>5. SumFunctionOnSet(w, N) \in Nat
      BY <3>4, SumType
    <3>6. w[p] \in Nat /\ w[y] \in Nat
      BY <2>1
    <3> HIDE DEF p, T, N, R
    <3>7. SumFunctionOnSet(w, U) = w[p] + (w[y] + SumFunctionOnSet(w, N))
      BY <2>1, <3>2 DEF T
    <3>8. SumFunctionOnSet(w, U) = w[y] + SumFunctionOnSet(w, R)
      BY <3>3, <3>5, <3>6, <3>7
    <3> QED BY <3>8 DEF R
  <2> QED BY <2>2, <2>3
<1>2. \A U \in SUBSET S : U \in P
  <2> HIDE DEF P
  <2> QED BY <1>1, FiniteInduction
<1>3. S \in P
  <2> HIDE DEF P
  <2> QED BY <1>2
<1> QED BY <1>3

(* The sum depends on the summands only. *)
LEMMA SumSame ==
    ASSUME NEW S, IsFiniteSet(S), NEW w, NEW v, \A x \in S : w[x] = v[x]
    PROVE  SumFunctionOnSet(w, S) = SumFunctionOnSet(v, S)
<1> DEFINE P == {U \in SUBSET S :
                   SumFunctionOnSet(w, U) = SumFunctionOnSet(v, U)}
<1>1. ASSUME NEW U \in SUBSET S, \A V \in SUBSET U : V # U => V \in P
      PROVE  U \in P
  <2>1. CASE U = {}
    BY <2>1, SumEmpty
  <2>2. CASE U # {}
    <3>1. Pick(U) \in U /\ IsFiniteSet(U)
      BY <2>2, PickIn, FS_Subset
    <3>2. SumFunctionOnSet(w, U \ {Pick(U)}) = SumFunctionOnSet(v, U \ {Pick(U)})
      BY <1>1, <3>1
    <3> QED BY <2>2, <3>1, <3>2, SumPick
  <2> QED BY <2>1, <2>2
<1>2. \A U \in SUBSET S : U \in P
  <2> HIDE DEF P
  <2> QED BY <1>1, FiniteInduction
<1>3. S \in P
  <2> HIDE DEF P
  <2> QED BY <1>2
<1> QED BY <1>3

(* More summands, and larger ones, make no smaller sum. *)
LEMMA SumMonotone ==
    ASSUME NEW S, IsFiniteSet(S), NEW R \in SUBSET S, NEW w, NEW v,
           \A x \in S : w[x] \in Nat /\ v[x] \in Nat,
           \A x \in R : w[x] <= v[x]
    PROVE  SumFunctionOnSet(w, R) <= SumFunctionOnSet(v, S)
<1> DEFINE P == {U \in SUBSET S :
                   SumFunctionOnSet(w, R \cap U) <= SumFunctionOnSet(v, U)}
<1>1. ASSUME NEW U \in SUBSET S, \A V \in SUBSET U : V # U => V \in P
      PROVE  U \in P
  <2>1. CASE U = {}
    <3>1. R \cap U = {}
      BY <2>1
    <3> QED BY <2>1, <3>1, SumEmpty
  <2>2. CASE U # {}
    <3> DEFINE p == Pick(U)
               T == U \ {p}
    <3>1. p \in U /\ IsFiniteSet(U) /\ p \in S
      BY <2>2, PickIn, FS_Subset
    <3>2. /\ IsFiniteSet(R \cap U) /\ IsFiniteSet(R \cap T) /\ IsFiniteSet(T)
          /\ \A x \in R \cap U : w[x] \in Nat
          /\ \A x \in R \cap T : w[x] \in Nat
          /\ \A x \in U : v[x] \in Nat
          /\ \A x \in T : v[x] \in Nat
      BY <3>1, FS_Subset
    <3>3. SumFunctionOnSet(w, R \cap T) <= SumFunctionOnSet(v, T)
      BY <1>1, <3>1
    <3>4. SumFunctionOnSet(v, U) = v[p] + SumFunctionOnSet(v, T)
      BY <2>2, <3>1, SumPick
    <3>5. /\ SumFunctionOnSet(w, R \cap T) \in Nat
          /\ SumFunctionOnSet(v, T) \in Nat
          /\ v[p] \in Nat /\ w[p] \in Nat
      BY <3>1, <3>2, SumType
    <3>6. CASE p \in R
      <4>1. p \in R \cap U /\ (R \cap U) \ {p} = R \cap T
        BY <3>1, <3>6
      <4>2. SumFunctionOnSet(w, R \cap U) = w[p] + SumFunctionOnSet(w, R \cap T)
        <5> HIDE DEF p, T
        <5> QED BY <3>2, <4>1, SumRemove
      <4>3. w[p] <= v[p]
        BY <3>6
      <4> HIDE DEF p, T
      <4> QED BY <3>3, <3>4, <3>5, <4>2, <4>3
    <3>7. CASE p \notin R
      <4>1. R \cap U = R \cap T
        BY <3>1, <3>7
      <4>2. SumFunctionOnSet(w, R \cap U) = SumFunctionOnSet(w, R \cap T)
        BY <4>1, Zenon
      <4>3. SumFunctionOnSet(w, R \cap U) <= SumFunctionOnSet(v, U)
        <5> HIDE DEF p, T
        <5> QED BY <3>3, <3>4, <3>5, <4>2
      <4> QED BY <4>3
    <3> QED BY <3>6, <3>7
  <2> QED BY <2>1, <2>2
<1>2. \A U \in SUBSET S : U \in P
  <2> HIDE DEF P
  <2> QED BY <1>1, FiniteInduction
<1>3. S \in P
  <2> HIDE DEF P
  <2> QED BY <1>2
<1>4. R \cap S = R
  OBVIOUS
<1> QED BY <1>3, <1>4

(* No summand above b, no sum above the number of summands times b. *)
LEMMA SumBound ==
    ASSUME NEW S, IsFiniteSet(S), NEW w, NEW b \in Nat,
           \A x \in S : w[x] \in Nat /\ w[x] <= b
    PROVE  SumFunctionOnSet(w, S) <= Cardinality(S) * b
<1> DEFINE P == {U \in SUBSET S :
                   SumFunctionOnSet(w, U) <= Cardinality(U) * b}
<1>1. ASSUME NEW U \in SUBSET S, \A V \in SUBSET U : V # U => V \in P
      PROVE  U \in P
  <2>1. CASE U = {}
    BY <2>1, SumEmpty, FS_EmptySet
  <2>2. CASE U # {}
    <3> DEFINE p == Pick(U)
               T == U \ {p}
               n == Cardinality(T)
    <3>1. p \in U /\ IsFiniteSet(U)
      BY <2>2, PickIn, FS_Subset
    <3>2. /\ IsFiniteSet(T) /\ n \in Nat /\ Cardinality(U) = n + 1
      <4>1. IsFiniteSet(T) /\ Cardinality(T) = Cardinality(U) - 1
        BY <3>1, FS_RemoveElement
      <4>2. Cardinality(U) \in Nat /\ Cardinality(T) \in Nat
        BY <3>1, <4>1, FS_CardinalityType
      <4> QED BY <4>1, <4>2
    <3>3. SumFunctionOnSet(w, T) <= n * b
      BY <1>1, <3>1
    <3>4. SumFunctionOnSet(w, U) = w[p] + SumFunctionOnSet(w, T)
      BY <2>2, <3>1, SumPick
    <3>5. /\ SumFunctionOnSet(w, T) \in Nat
          /\ w[p] \in Nat /\ w[p] <= b
      BY <3>1, <3>2, SumType
    <3> HIDE DEF p, T, n
    <3>6. (n + 1) * b = n * b + b /\ n * b \in Nat
      BY <3>2
    <3> QED BY <3>2, <3>3, <3>4, <3>5, <3>6
  <2> QED BY <2>1, <2>2
<1>2. \A U \in SUBSET S : U \in P
  <2> HIDE DEF P
  <2> QED BY <1>1, FiniteInduction
<1>3. S \in P
  <2> HIDE DEF P
  <2> QED BY <1>2
<1> QED BY <1>3

(* The summands may be taken in two parts. *)
LEMMA SumSplit ==
    ASSUME NEW S, IsFiniteSet(S), NEW w, \A x \in S : w[x] \in Nat,
           NEW R \in SUBSET S
    PROVE  SumFunctionOnSet(w, S)
             = SumFunctionOnSet(w, S \ R) + SumFunctionOnSet(w, R)
<1> DEFINE P == {U \in SUBSET S :
                   SumFunctionOnSet(w, U)
                     = SumFunctionOnSet(w, U \ R) + SumFunctionOnSet(w, U \cap R)}
<1>1. ASSUME NEW U \in SUBSET S, \A V \in SUBSET U : V # U => V \in P
      PROVE  U \in P
  <2>1. CASE U = {}
    <3>1. U \ R = {} /\ U \cap R = {}
      BY <2>1
    <3> QED BY <2>1, <3>1, SumEmpty
  <2>2. CASE U # {}
    <3> DEFINE p == Pick(U)
               T == U \ {p}
    <3>1. p \in U /\ IsFiniteSet(U)
      BY <2>2, PickIn, FS_Subset
    <3>2. SumFunctionOnSet(w, U) = w[p] + SumFunctionOnSet(w, T)
      BY <2>2, <3>1, SumPick
    <3>3. SumFunctionOnSet(w, T)
            = SumFunctionOnSet(w, T \ R) + SumFunctionOnSet(w, T \cap R)
      <4>1. T \in P
        BY <1>1, <3>1
      <4> QED BY <4>1
    <3>4. /\ IsFiniteSet(U \ R) /\ IsFiniteSet(U \cap R)
          /\ IsFiniteSet(T \ R) /\ IsFiniteSet(T \cap R)
          /\ \A x \in U \cup T : w[x] \in Nat
      BY <3>1, FS_Subset
    <3>5. /\ SumFunctionOnSet(w, T \ R) \in Nat
          /\ SumFunctionOnSet(w, T \cap R) \in Nat
          /\ w[p] \in Nat
      BY <3>1, <3>4, SumType
    <3>6. CASE p \in R
      <4>1. p \in U \cap R /\ (U \cap R) \ {p} = T \cap R /\ U \ R = T \ R
        BY <3>1, <3>6
      <4>2. SumFunctionOnSet(w, U \cap R) = w[p] + SumFunctionOnSet(w, T \cap R)
        <5> HIDE DEF p, T
        <5> QED BY <3>4, <4>1, SumRemove
      <4>3. SumFunctionOnSet(w, U \ R) = SumFunctionOnSet(w, T \ R)
        BY <4>1, Zenon
      <4>4. SumFunctionOnSet(w, U)
              = SumFunctionOnSet(w, U \ R) + SumFunctionOnSet(w, U \cap R)
        <5> HIDE DEF p, T
        <5> QED BY <3>2, <3>3, <3>5, <4>2, <4>3
      <4> QED BY <4>4
    <3>7. CASE p \notin R
      <4>1. p \in U \ R /\ (U \ R) \ {p} = T \ R /\ U \cap R = T \cap R
        BY <3>1, <3>7
      <4>2. SumFunctionOnSet(w, U \ R) = w[p] + SumFunctionOnSet(w, T \ R)
        <5> HIDE DEF p, T
        <5> QED BY <3>4, <4>1, SumRemove
      <4>3. SumFunctionOnSet(w, U \cap R) = SumFunctionOnSet(w, T \cap R)
        BY <4>1, Zenon
      <4>4. SumFunctionOnSet(w, U)
              = SumFunctionOnSet(w, U \ R) + SumFunctionOnSet(w, U \cap R)
        <5> HIDE DEF p, T
        <5> QED BY <3>2, <3>3, <3>5, <4>2, <4>3
      <4> QED BY <4>4
    <3> QED BY <3>6, <3>7
  <2> QED BY <2>1, <2>2
<1>2. \A U \in SUBSET S : U \in P
  <2> HIDE DEF P
  <2> QED BY <1>1, FiniteInduction
<1>3. S \in P
  <2> HIDE DEF P
  <2> QED BY <1>2
<1>4. S \cap R = R
  OBVIOUS
<1>5. SumFunctionOnSet(w, S \cap R) = SumFunctionOnSet(w, R)
  BY <1>4, Zenon
<1> QED BY <1>3, <1>5

LEMMA SumZero ==
    ASSUME NEW S, IsFiniteSet(S), NEW w, \A x \in S : w[x] = 0
    PROVE  SumFunctionOnSet(w, S) = 0
<1>1. SumFunctionOnSet(w, S) <= Cardinality(S) * 0
  BY SumBound
<1>2. SumFunctionOnSet(w, S) \in Nat
  BY SumType
<1>3. Cardinality(S) * 0 = 0
  BY FS_CardinalityType
<1> QED BY <1>1, <1>2, <1>3

(* Or class by class. *)
Class(by, S, k) == {x \in S : by[x] = k}

LEMMA SumByClass ==
    ASSUME NEW S, IsFiniteSet(S), NEW w, \A x \in S : w[x] \in Nat,
           NEW K, IsFiniteSet(K), NEW by, \A x \in S : by[x] \in K
    PROVE  SumFunctionOnSet(w, S)
             = SumFunctionOnSet(
                 [k \in K |-> SumFunctionOnSet(w, Class(by, S, k))], K)
<1> DEFINE G(U) == [k \in K |-> SumFunctionOnSet(w, Class(by, U, k))]
           P == {U \in SUBSET S :
                   SumFunctionOnSet(w, U) = SumFunctionOnSet(G(U), K)}
<1>1. ASSUME NEW U \in SUBSET S, \A V \in SUBSET U : V # U => V \in P
      PROVE  U \in P
  <2>0. \A V \in SUBSET S, k \in K :
          /\ IsFiniteSet(Class(by, V, k))
          /\ \A x \in Class(by, V, k) : w[x] \in Nat
    BY FS_Subset DEF Class
  <2>1. \A V \in SUBSET S : \A k \in K : G(V)[k] \in Nat
    <3> SUFFICES ASSUME NEW V \in SUBSET S, NEW k \in K
                 PROVE  SumFunctionOnSet(w, Class(by, V, k)) \in Nat
      OBVIOUS
    <3> QED BY <2>0, SumType
  <2>2. CASE U = {}
    <3>1. \A k \in K : Class(by, U, k) = {}
      BY <2>2 DEF Class
    <3>2. \A k \in K : G(U)[k] = 0
      BY <3>1, SumEmpty
    <3>3. SumFunctionOnSet(G(U), K) = 0
      <4> HIDE DEF G
      <4> QED BY <3>2, SumZero
    <3> QED BY <2>2, <3>3, SumEmpty
  <2>3. CASE U # {}
    <3> DEFINE p == Pick(U)
               T == U \ {p}
               k == by[p]
    <3>1. p \in U /\ IsFiniteSet(U) /\ p \in S /\ k \in K
      BY <2>3, PickIn, FS_Subset
    <3>2. SumFunctionOnSet(w, U) = w[p] + SumFunctionOnSet(w, T)
      BY <2>3, <3>1, SumPick
    <3>3. SumFunctionOnSet(w, T) = SumFunctionOnSet(G(T), K)
      <4>1. T \in P
        BY <1>1, <3>1
      <4> QED BY <4>1
    <3>4. G(U)[k] = w[p] + G(T)[k]
      <4>1. p \in Class(by, U, k) /\ Class(by, U, k) \ {p} = Class(by, T, k)
        BY <3>1 DEF Class
      <4>2. SumFunctionOnSet(w, Class(by, U, k))
              = w[p] + SumFunctionOnSet(w, Class(by, T, k))
        <5> HIDE DEF p, T, k
        <5> QED BY <2>0, <3>1, <4>1, SumRemove
      <4> QED BY <3>1, <4>2
    <3>5. \A j \in K \ {k} : G(U)[j] = G(T)[j]
      <4>1. \A j \in K \ {k} : Class(by, U, j) = Class(by, T, j)
        BY DEF Class
      <4> QED BY <4>1
    <3>6. T \in SUBSET S /\ IsFiniteSet(K \ {k})
      BY FS_Subset
    <3>7. w[p] \in Nat
      BY <3>1
    <3> HIDE DEF p, T, k, G
    <3>8. SumFunctionOnSet(G(U), K \ {k}) = SumFunctionOnSet(G(T), K \ {k})
      BY <3>5, <3>6, SumSame
    <3>9. /\ SumFunctionOnSet(G(U), K)
               = G(U)[k] + SumFunctionOnSet(G(U), K \ {k})
          /\ SumFunctionOnSet(G(T), K)
               = G(T)[k] + SumFunctionOnSet(G(T), K \ {k})
      BY <2>1, <3>1, <3>6, SumRemove
    <3>10. G(T)[k] \in Nat /\ SumFunctionOnSet(G(T), K \ {k}) \in Nat
      BY <2>1, <3>1, <3>6, SumType
    <3> QED BY <3>2, <3>3, <3>4, <3>7, <3>8, <3>9, <3>10
  <2> QED BY <2>2, <2>3
<1>2. \A U \in SUBSET S : U \in P
  <2> HIDE DEF P
  <2> QED BY <1>1, FiniteInduction
<1>3. S \in P
  <2> HIDE DEF P
  <2> QED BY <1>2
<1> QED BY <1>3
=============================================================================
