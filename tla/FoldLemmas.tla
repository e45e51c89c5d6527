----------------------------- MODULE FoldLemmas -----------------------------
(* Induction over data.  The folds of the models (FoldLeft of SequencesExt)  *)
(* choose a function on the sets of positions; these lemmas show that there   *)
(* is such a function, and what it makes of one position after the other, and  *)
(* what picking and adding up do to a sequence.                               *)
EXTENDS Lists, SequencesExt, WellFoundedInduction, FiniteSetTheorems, TLAPS

\* A set of numbers has a least one.
LEMMA LeastOf ==
  ASSUME NEW T \in SUBSET Nat, T # {}
  PROVE  \E m \in T : \A n \in T : m <= n
  <1>1. \E m \in T : \A n \in T : ~ (<<n, m>> \in OpToRel(<, Nat))
    BY NatLessThanWellFounded, WFMin
  <1>2. PICK m \in T : \A n \in T : ~ (<<n, m>> \in OpToRel(<, Nat))
    BY <1>1
  <1>3. \A n \in T : ~ (n < m)
    BY <1>2 DEF OpToRel
  <1> QED
    BY <1>3

\* What holds of 0 and is passed on holds up to n: T is the set of those it holds of.
LEMMA Induction ==
  ASSUME NEW T, 0 \in T, NEW n \in Nat, \A k \in 0..(n-1) : k \in T => k + 1 \in T
  PROVE  0..n \subseteq T
  <1> SUFFICES ASSUME NEW b \in (0..n) \ T PROVE FALSE
    OBVIOUS
  <1>0. (0..n) \ T \in SUBSET Nat /\ (0..n) \ T # {}
    OBVIOUS
  <1>1. PICK m \in (0..n) \ T : \A k \in (0..n) \ T : m <= k
    BY <1>0, LeastOf
  <1>2. m # 0 /\ m - 1 \in 0..(n-1)
    BY <1>1
  <1>3. m - 1 \in T
    BY <1>1, <1>2
  <1> QED
    BY <1>1, <1>2, <1>3

\* A bounded set of numbers has a greatest one.
LEMMA GreatestOf ==
  ASSUME NEW n \in Nat, NEW s \in SUBSET (0..n), s # {}
  PROVE  Max(s) \in s /\ \A x \in s : x <= Max(s)
  <1> DEFINE T == {n - x : x \in s}
  <1>1. T \in SUBSET Nat /\ T # {}
    <2>1. \A x \in s : n - x \in Nat
      OBVIOUS
    <2> QED
      BY <2>1
  <1>2. PICK m \in T : \A k \in T : m <= k
    BY <1>1, LeastOf
  <1>3. PICK x \in s : m = n - x
    BY <1>2
  <1>4. \A y \in s : x >= y
    <2> TAKE y \in s
    <2>1. n - y \in T /\ x \in 0..n /\ y \in 0..n
      OBVIOUS
    <2>2. n - x <= n - y
      BY <1>2, <1>3, <2>1
    <2> QED
      BY <2>1, <2>2
  <1>5. \E z \in s : \A y \in s : z >= y
    BY <1>4
  <1>6. Max(s) \in s /\ \A y \in s : Max(s) >= y
    BY <1>5 DEF Max
  <1> QED
    BY <1>6

\* A set of positions has a greatest one.
LEMMA MaxOf ==
  ASSUME NEW n \in Nat, NEW s \in SUBSET (1..n), s # {}
  PROVE  Max(s) \in s /\ \A x \in s : x <= Max(s)
  <1>1. s \in SUBSET (0..n)
    OBVIOUS
  <1> QED
    BY <1>1, GreatestOf

\* g folds every set of positions up to k, the greatest position last.
Folds(g, k, base, G) ==
  \A s \in SUBSET (1..k) :
    g[s] = IF s = {} THEN base ELSE G[<<g[s \ {Max(s)}], Max(s)>>]

\* A step that stays among the states can be folded over n positions.
LEMMA FoldExists ==
  ASSUME NEW State, NEW base \in State, NEW n \in Nat,
         NEW G \in [State \X (1..n) -> State]
  PROVE  \E g \in [SUBSET (1..n) -> State] : Folds(g, n, base, G)
  <1> DEFINE T == {k \in 0..n : \E g \in [SUBSET (1..k) -> State] : Folds(g, k, base, G)}
  <1>1. 0 \in T
    <2> DEFINE g == [s \in SUBSET (1..0) |-> base]
    <2>1. g \in [SUBSET (1..0) -> State] /\ Folds(g, 0, base, G)
      BY DEF Folds
    <2> QED
      BY <2>1
  <1>2. ASSUME NEW k \in 0..(n-1), k \in T PROVE k + 1 \in T
    <2>1. PICK g \in [SUBSET (1..k) -> State] : Folds(g, k, base, G)
      BY <1>2
    <2> DEFINE h == [s \in SUBSET (1..(k+1)) |->
                       IF s = {} THEN base ELSE G[<<g[s \ {Max(s)}], Max(s)>>]]
    <2>2. \A s \in SUBSET (1..(k+1)) : s # {} => Max(s) \in 1..(k+1) /\ s \ {Max(s)} \in SUBSET (1..k)
      <3> SUFFICES ASSUME NEW s \in SUBSET (1..(k+1)), s # {}
                   PROVE Max(s) \in 1..(k+1) /\ s \ {Max(s)} \in SUBSET (1..k)
        OBVIOUS
      <3>1. Max(s) \in s /\ \A x \in s : x <= Max(s)
        <4>1. k + 1 \in Nat
          OBVIOUS
        <4> QED
          BY <4>1, MaxOf
      <3>2. ASSUME NEW x \in s \ {Max(s)} PROVE x \in 1..k
        <4>1. x \in 1..(k+1) /\ Max(s) \in 1..(k+1) /\ x <= Max(s) /\ x # Max(s)
          BY <3>1
        <4> QED
          BY <4>1
      <3> QED
        BY <3>1, <3>2
    <2>3. h \in [SUBSET (1..(k+1)) -> State]
      <3>1. \A s \in SUBSET (1..(k+1)) :
              s # {} => G[<<g[s \ {Max(s)}], Max(s)>>] \in State
        <4>1. \A i \in 1..(k+1) : i \in 1..n
          OBVIOUS
        <4> QED
          BY <2>2, <4>1
      <3> QED
        BY <3>1
    <2>4. \A s \in SUBSET (1..k) : h[s] = g[s]
      <3>1. \A s \in SUBSET (1..k) : s \in SUBSET (1..(k+1))
        OBVIOUS
      <3> QED
        BY <2>1, <3>1 DEF Folds
    <2>5. Folds(h, k + 1, base, G)
      BY <2>2, <2>4 DEF Folds
    <2>6. k + 1 \in 0..n
      OBVIOUS
    <2> QED
      BY <2>3, <2>5, <2>6
  <1>3. 0..n \subseteq T
    <2> HIDE DEF T
    <2> QED
      BY <1>1, <1>2, Induction
  <1>4. n \in T
    <2> HIDE DEF T
    <2> QED
      BY <1>3
  <1> QED
    BY <1>4

\* The positions up to k and the next one.
LEMMA NextPosition ==
  ASSUME NEW k \in Nat
  PROVE  /\ 1..(k+1) # {} /\ Max(1..(k+1)) = k + 1
         /\ (1..(k+1)) \ {Max(1..(k+1))} = 1..k
  <1>1. Max(1..(k+1)) \in 1..(k+1) /\ \A x \in 1..(k+1) : x <= Max(1..(k+1))
    <2>1. k + 1 \in Nat /\ 1..(k+1) \in SUBSET (1..(k+1)) /\ 1..(k+1) # {}
      OBVIOUS
    <2> QED
      BY <2>1, MaxOf
  <1>2. Max(1..(k+1)) = k + 1
    <2>1. k + 1 \in 1..(k+1)
      OBVIOUS
    <2> QED
      BY <1>1, <2>1
  <1> QED
    BY <1>2

\* iter goes the way of G for as long as it stays among the states.
Follows(iter, n, base, G, State) ==
  /\ iter[{}] = base
  /\ \A s \in SUBSET (1..n) : s # {} /\ iter[s \ {Max(s)}] \in State
                                => iter[s] = G[<<iter[s \ {Max(s)}], Max(s)>>]

\* T is a set of states, each with the number of the steps that led to it.
PassedOn(T, n, base, G, State) ==
  /\ <<base, 0>> \in T
  /\ \A k \in 0..(n-1), st \in State : <<st, k>> \in T => <<G[<<st, k+1>>], k+1>> \in T

\* What every step of a fold passes on holds of what it ends in.
LEMMA FoldKeeps ==
  ASSUME NEW State, NEW base \in State, NEW n \in Nat, NEW G \in [State \X (1..n) -> State],
         NEW iter, Follows(iter, n, base, G, State),
         NEW T, PassedOn(T, n, base, G, State)
  PROVE  iter[1..n] \in State /\ <<iter[1..n], n>> \in T
  <1> DEFINE K == {k \in 0..n : iter[1..k] \in State /\ <<iter[1..k], k>> \in T}
  <1>1. 0 \in K
    <2>1. 1..0 = {} /\ 0 \in 0..n
      OBVIOUS
    <2> QED
      BY <2>1 DEF Follows, PassedOn
  <1>2. ASSUME NEW k \in 0..(n-1), k \in K PROVE k + 1 \in K
    <2>1. k \in Nat /\ k + 1 \in 1..n /\ k + 1 \in 0..n /\ 1..(k+1) \in SUBSET (1..n)
      OBVIOUS
    <2>2. 1..(k+1) # {} /\ Max(1..(k+1)) = k + 1 /\ (1..(k+1)) \ {Max(1..(k+1))} = 1..k
      BY <2>1, NextPosition
    <2>3. iter[1..k] \in State /\ <<iter[1..k], k>> \in T
      BY <1>2
    <2>4. iter[1..(k+1)] = G[<<iter[1..k], k + 1>>]
      BY <2>1, <2>2, <2>3 DEF Follows
    <2>5. iter[1..(k+1)] \in State
      BY <2>1, <2>3, <2>4
    <2>6. <<G[<<iter[1..k], k + 1>>], k + 1>> \in T
      BY <2>3 DEF PassedOn
    <2> QED
      BY <2>1, <2>4, <2>5, <2>6
  <1>3. 0..n \subseteq K
    <2> HIDE DEF K
    <2> QED
      BY <1>1, <1>2, Induction
  <1>4. n \in K
    <2> HIDE DEF K
    <2> QED
      BY <1>3
  <1> QED
    BY <1>4

\* The positions up to n are n of them.
LEMMA HowManyPositions ==
  ASSUME NEW n \in Nat
  PROVE  IsFiniteSet(1..n) /\ Cardinality(1..n) = n
  BY FS_Interval

\* R puts the members of U in a line, each before the ones that come after it.
InLine(U, R) ==
  /\ \A i \in U : <<i, i>> \notin R
  /\ \A i, j \in U : i # j => <<i, j>> \in R \/ <<j, i>> \in R
  /\ \A i, j, k \in U : <<i, j>> \in R /\ <<j, k>> \in R => <<i, k>> \in R

Before(U, R, i) == {j \in U : <<j, i>> \in R}

\* Every place in the line is taken, by one member.
LEMMA PlacesInLine ==
  ASSUME NEW U, IsFiniteSet(U), NEW R, InLine(U, R)
  PROVE  /\ Cardinality(U) \in Nat
         /\ \A i \in U : /\ Cardinality(Before(U, R, i)) \in Nat
                         /\ Cardinality(Before(U, R, i)) < Cardinality(U)
         /\ \A i, j \in U : /\ <<i, j>> \in R
                                 <=> Cardinality(Before(U, R, i)) < Cardinality(Before(U, R, j))
                            /\ Cardinality(Before(U, R, i)) = Cardinality(Before(U, R, j)) => i = j
         /\ \A k \in 1..Cardinality(U) : \E i \in U : Cardinality(Before(U, R, i)) = k - 1
  <1> DEFINE c(i) == Cardinality(Before(U, R, i))
             f == [i \in U |-> c(i) + 1]
             n == Cardinality(U)
  <1>1. n \in Nat
    BY FS_CardinalityType
  <1>2. ASSUME NEW i \in U
        PROVE  IsFiniteSet(Before(U, R, i)) /\ c(i) \in Nat /\ c(i) < n
    <2>1. Before(U, R, i) \in SUBSET U /\ i \notin Before(U, R, i)
      BY DEF Before, InLine
    <2>2. /\ IsFiniteSet(Before(U, R, i)) /\ c(i) <= n /\ c(i) # n
      BY <2>1, FS_Subset
    <2>3. c(i) \in Nat
      BY <2>2, FS_CardinalityType
    <2> QED
      BY <1>1, <2>2, <2>3
  <1>3. ASSUME NEW i \in U, NEW j \in U, <<i, j>> \in R PROVE c(i) < c(j)
    <2>1. Before(U, R, i) \in SUBSET Before(U, R, j)
          /\ i \in Before(U, R, j) /\ i \notin Before(U, R, i)
      BY <1>3 DEF Before, InLine
    <2>2. c(i) <= c(j) /\ c(i) # c(j)
      BY <1>2, <2>1, FS_Subset
    <2> QED
      BY <1>2, <2>2
  <1>4. ASSUME NEW i \in U, NEW j \in U
        PROVE  (<<i, j>> \in R <=> c(i) < c(j)) /\ (c(i) = c(j) => i = j)
    <2>1. i = j \/ <<i, j>> \in R \/ <<j, i>> \in R
      BY DEF InLine
    <2>2. c(i) \in Nat /\ c(j) \in Nat
      BY <1>2
    <2>3. <<j, i>> \in R => c(j) < c(i)
      BY <1>3
    <2>4. i = j => <<i, j>> \notin R
      BY DEF InLine
    <2> HIDE DEF c
    <2> QED
      BY <1>3, <2>1, <2>2, <2>3, <2>4
  <1>5. f \in Injection(U, 1..n)
    <2>1. \A i \in U : c(i) + 1 \in 1..n
      BY <1>1, <1>2
    <2>2. f \in [U -> 1..n]
      BY <2>1
    <2>3. ASSUME NEW i \in U, NEW j \in U, f[i] = f[j] PROVE i = j
      <3>1. c(i) + 1 = c(j) + 1
        BY <2>3
      <3>2. c(i) = c(j)
        <4>1. c(i) \in Nat /\ c(j) \in Nat
          BY <1>2
        <4> HIDE DEF c
        <4> QED
          BY <3>1, <4>1
      <3> QED
        BY <1>4, <3>2
    <2> QED
      BY <2>2, <2>3 DEF Injection, IsInjective
  <1>6. IsFiniteSet(1..n) /\ Cardinality(1..n) = n
    BY <1>1, FS_Interval
  <1>7. f \in Surjection(U, 1..n)
    <2> HIDE DEF f
    <2> QED
      BY <1>5, <1>6, FS_Injection
  <1>8. ASSUME NEW k \in 1..n PROVE \E i \in U : c(i) = k - 1
    <2>1. PICK i \in U : f[i] = k
      BY <1>7, <1>8 DEF Surjection
    <2>2. c(i) + 1 = k /\ c(i) \in Nat
      BY <1>2, <2>1
    <2> HIDE DEF c
    <2> QED
      BY <1>8, <2>2
  <1> QED
    BY <1>1, <1>2, <1>4, <1>8

\* The same for numbers in their order, which is how a model picks the k-th position.
LEMMA Ranks ==
  ASSUME NEW n \in Nat, NEW U \in SUBSET (1..n)
  PROVE  /\ IsFiniteSet(U) /\ Cardinality(U) \in Nat
         /\ \A i \in U : /\ Cardinality({j \in U : j < i}) \in Nat
                         /\ Cardinality({j \in U : j < i}) < Cardinality(U)
         /\ \A i, k \in U : /\ i < k
                                 <=> Cardinality({j \in U : j < i}) < Cardinality({j \in U : j < k})
                            /\ Cardinality({j \in U : j < i}) = Cardinality({j \in U : j < k}) => i = k
         /\ \A k \in 1..Cardinality(U) :
              \E i \in U : Cardinality({j \in U : j < i}) = k - 1
  <1> DEFINE R == {p \in U \X U : p[1] < p[2]}
  <1>1. IsFiniteSet(U)
    <2>1. IsFiniteSet(1..n)
      BY FS_Interval
    <2> QED
      BY <2>1, FS_Subset
  <1>2. \A i, j \in U : <<i, j>> \in R <=> i < j
    OBVIOUS
  <1>3. InLine(U, R)
    <2>1. \A i \in U : i \in Int
      OBVIOUS
    <2> HIDE DEF R
    <2> QED
      BY <1>2, <2>1 DEF InLine
  <1>4. ASSUME NEW i \in U PROVE Before(U, R, i) = {j \in U : j < i}
    <2> HIDE DEF R
    <2> QED
      BY <1>2 DEF Before
  <1> HIDE DEF R
  <1>5. /\ Cardinality(U) \in Nat
        /\ \A i \in U : /\ Cardinality(Before(U, R, i)) \in Nat
                        /\ Cardinality(Before(U, R, i)) < Cardinality(U)
        /\ \A i, j \in U : /\ <<i, j>> \in R
                                <=> Cardinality(Before(U, R, i)) < Cardinality(Before(U, R, j))
                           /\ Cardinality(Before(U, R, i)) = Cardinality(Before(U, R, j)) => i = j
        /\ \A k \in 1..Cardinality(U) : \E i \in U : Cardinality(Before(U, R, i)) = k - 1
    BY <1>1, <1>3, PlacesInLine
  <1> QED
    BY ZenonT(40), <1>1, <1>2, <1>4, <1>5

(********************* picking positions of a sequence ********************)
Nth(positions, k) == CHOOSE i \in positions : Cardinality({j \in positions : j < i}) = k - 1

\* At takes every member of positions once, and in order.
Picked(s, P) ==
  /\ Cardinality(P) \in Nat /\ IsFiniteSet(P)
  /\ DOMAIN At(s, P) = 1..Cardinality(P)
  /\ \A k \in 1..Cardinality(P) : Nth(P, k) \in P /\ At(s, P)[k] = s[Nth(P, k)]
  /\ \A i \in P : \E k \in 1..Cardinality(P) : Nth(P, k) = i
  /\ \A k, m \in 1..Cardinality(P) : k < m => Nth(P, k) < Nth(P, m)

LEMMA AtPositions ==
  ASSUME NEW n \in Nat, NEW s, NEW P \in SUBSET (1..n)
  PROVE  Picked(s, P)
  <1> DEFINE c(i) == Cardinality({j \in P : j < i})
  <1>1. /\ IsFiniteSet(P) /\ Cardinality(P) \in Nat
        /\ \A i \in P : c(i) \in Nat /\ c(i) < Cardinality(P)
        /\ \A i, k \in P : (i < k <=> c(i) < c(k)) /\ (c(i) = c(k) => i = k)
        /\ \A k \in 1..Cardinality(P) : \E i \in P : c(i) = k - 1
    BY Ranks
  <1>2. \A k \in 1..Cardinality(P) : Nth(P, k) \in P /\ c(Nth(P, k)) = k - 1
    BY <1>1 DEF Nth
  <1>3. DOMAIN At(s, P) = 1..Cardinality(P)
        /\ \A k \in 1..Cardinality(P) : At(s, P)[k] = s[Nth(P, k)]
    BY DEF At, InOrder, Nth
  <1>4. ASSUME NEW i \in P PROVE \E k \in 1..Cardinality(P) : Nth(P, k) = i
    <2> HIDE DEF c
    <2>1. c(i) \in Nat /\ c(i) < Cardinality(P)
      BY <1>1
    <2>2. c(i) + 1 \in 1..Cardinality(P) /\ (c(i) + 1) - 1 = c(i)
      BY <1>1, <2>1
    <2>3. Nth(P, c(i) + 1) \in P /\ c(Nth(P, c(i) + 1)) = c(i)
      BY <1>2, <2>2
    <2> QED
      BY <1>1, <2>2, <2>3
  <1>5. ASSUME NEW k \in 1..Cardinality(P), NEW m \in 1..Cardinality(P), k < m
        PROVE  Nth(P, k) < Nth(P, m)
    <2> HIDE DEF c
    <2>1. c(Nth(P, k)) < c(Nth(P, m))
      <3>1. k \in Int /\ m \in Int
        OBVIOUS
      <3>2. c(Nth(P, k)) = k - 1 /\ c(Nth(P, m)) = m - 1
        BY <1>2
      <3> QED
        BY <1>5, <3>1, <3>2
    <2> QED
      BY <1>1, <1>2, <2>1
  <1> QED
    BY <1>1, <1>2, <1>3, <1>4, <1>5 DEF Picked

LEMMA ArrayIsSeq ==
  ASSUME NEW S, NEW n \in Nat, NEW s \in [1..n -> S]
  PROVE  s \in Seq(S) /\ Len(s) = n
  OBVIOUS

\* What is picked from a sequence of S is a sequence of S.
LEMMA AtTyped ==
  ASSUME NEW S, NEW s \in Seq(S), NEW P \in SUBSET (DOMAIN s)
  PROVE  At(s, P) \in Seq(S) /\ Len(At(s, P)) = Cardinality(P)
  <1>1. Len(s) \in Nat /\ DOMAIN s = 1..Len(s) /\ \A i \in DOMAIN s : s[i] \in S
    OBVIOUS
  <1>2. /\ Cardinality(P) \in Nat /\ DOMAIN At(s, P) = 1..Cardinality(P)
        /\ \A k \in 1..Cardinality(P) : Nth(P, k) \in P /\ At(s, P)[k] = s[Nth(P, k)]
    <2>1. P \in SUBSET (1..Len(s))
      BY <1>1
    <2>2. Picked(s, P)
      BY <1>1, <2>1, AtPositions
    <2> QED
      BY <2>2 DEF Picked
  <1>3. At(s, P) = [k \in 1..Cardinality(P) |-> At(s, P)[k]]
    BY DEF At, InOrder
  <1>4. \A k \in 1..Cardinality(P) : At(s, P)[k] \in S
    BY <1>1, <1>2
  <1> HIDE DEF At
  <1> QED
    BY <1>2, <1>3, <1>4

(******************************** sums ************************************)
\* SumOf adds the numbers up from the first to the last.
LEMMA SumSteps ==
  ASSUME NEW s \in Seq(Int)
  PROVE  \E f \in [0..Len(s) -> Int] :
           /\ f[0] = 0 /\ \A i \in 1..Len(s) : f[i] = f[i-1] + s[i]
           /\ SumOf(s) = f[Len(s)]
  <1> DEFINE n == Len(s)
             G == [x \in Int \X (1..n) |-> x[1] + s[x[2]]]
             rec == CHOOSE rec : rec = [i \in 0..n |-> IF i = 0 THEN 0 ELSE rec[i-1] + s[i]]
  <1>1. n \in Nat /\ 0 \in Int /\ \A i \in 1..n : s[i] \in Int
    OBVIOUS
  <1>2. G \in [Int \X (1..n) -> Int]
    BY <1>1
  <1>3. PICK g \in [SUBSET (1..n) -> Int] : Folds(g, n, 0, G)
    <2> HIDE DEF G, n
    <2> QED
      BY <1>1, <1>2, FoldExists
  <1> DEFINE f == [i \in 0..n |-> g[1..i]]
  <1>4. f \in [0..n -> Int] /\ f[0] = 0 /\ \A i \in 1..n : f[i] = f[i-1] + s[i]
    <2>1. f[0] = 0
      <3>1. {} \in SUBSET (1..n) /\ 1..0 = {} /\ 0 \in 0..n
        BY <1>1
      <3>2. g[{}] = 0
        BY <1>3, <3>1 DEF Folds
      <3> QED
        BY <3>1, <3>2
    <2>2. f \in [0..n -> Int]
      BY <1>1
    <2>3. ASSUME NEW i \in 1..n PROVE f[i] = f[i-1] + s[i]
      <3>1. /\ 1..i # {} /\ Max(1..i) = i /\ (1..i) \ {Max(1..i)} = 1..(i-1)
        <4>1. i - 1 \in Nat /\ (i - 1) + 1 = i
          BY <1>1
        <4> QED
          BY <4>1, NextPosition
      <3>2. 1..i \in SUBSET (1..n) /\ i \in 0..n /\ i - 1 \in 0..n
        BY <1>1
      <3>3. g[1..i] = G[<<g[1..(i-1)], i>>]
        BY <1>3, <3>1, <3>2 DEF Folds
      <3>4. g[1..(i-1)] \in Int
        <4>1. 1..(i-1) \in SUBSET (1..n)
          BY <1>1
        <4> QED
          BY <4>1
      <3> QED
        BY <3>2, <3>3, <3>4
    <2> QED
      BY <2>1, <2>2, <2>3
  <1>5. f = [i \in 0..n |-> IF i = 0 THEN 0 ELSE f[i-1] + s[i]]
    <2> HIDE DEF f
    <2>1. \A i \in 0..n : i = 0 \/ i \in 1..n
      BY <1>1
    <2> QED
      BY <1>4, <2>1
  <1>6. rec = [i \in 0..n |-> IF i = 0 THEN 0 ELSE rec[i-1] + s[i]]
    BY <1>5
  <1>7. /\ rec \in [0..n -> Int] /\ rec[0] = 0
        /\ \A i \in 1..n : rec[i] = rec[i-1] + s[i]
    <2> HIDE DEF rec
    <2> DEFINE T == {i \in 0..n : rec[i] \in Int}
    <2>1. 0 \in T
      BY <1>1, <1>6
    <2>2. ASSUME NEW k \in 0..(n-1), k \in T PROVE k + 1 \in T
      <3>1. k + 1 \in 1..n /\ k + 1 \in 0..n /\ k + 1 # 0 /\ (k + 1) - 1 = k
        BY <1>1
      <3>2. rec[k+1] = rec[k] + s[k+1]
        BY <1>6, <3>1
      <3> QED
        BY <1>1, <2>2, <3>1, <3>2
    <2>3. 0..n \subseteq T
      <3> HIDE DEF T, n
      <3> QED
        BY <1>1, <2>1, <2>2, Induction
    <2>4. \A i \in 1..n : i \in 0..n /\ i # 0
      BY <1>1
    <2>5. rec[0] = 0
      BY <1>1, <1>6
    <2>6. \A i \in 1..n : rec[i] = rec[i-1] + s[i]
      BY <1>6, <2>4
    <2>7. rec \in [0..n -> Int]
      <3>1. \A i \in 0..n : rec[i] \in Int
        BY <2>3
      <3>2. rec = [i \in 0..n |-> rec[i]]
        BY <1>6
      <3> QED
        BY <3>1, <3>2
    <2> QED
      BY <2>5, <2>6, <2>7
  <1>8. SumOf(s) = rec[n]
    BY DEF SumOf, With
  <1> HIDE DEF rec
  <1> QED
    BY <1>7, <1>8

\* A sum of counts is a count, and no less than the last of them.
LEMMA SumNat ==
  ASSUME NEW s \in Seq(Nat)
  PROVE  SumOf(s) \in Nat /\ (Len(s) > 0 => SumOf(s) >= s[Len(s)])
  <1>1. s \in Seq(Int) /\ Len(s) \in Nat /\ \A i \in 1..Len(s) : s[i] \in Nat
    <2>1. Len(s) \in Nat /\ s \in [1..Len(s) -> Nat] /\ \A i \in 1..Len(s) : s[i] \in Nat
      OBVIOUS
    <2>2. s \in [1..Len(s) -> Int]
      BY <2>1
    <2> QED
      BY <2>1, <2>2
  <1> DEFINE n == Len(s)
  <1>2. PICK f \in [0..n -> Int] : /\ f[0] = 0 /\ \A i \in 1..n : f[i] = f[i-1] + s[i]
                                   /\ SumOf(s) = f[n]
    BY <1>1, SumSteps
  <1> HIDE DEF n
  <1> DEFINE T == {i \in 0..n : f[i] \in Nat}
  <1>3. n \in Nat /\ n = Len(s)
    BY <1>1 DEF n
  <1>4. 0 \in T
    BY <1>2, <1>3
  <1>5. ASSUME NEW k \in 0..(n-1), k \in T PROVE k + 1 \in T
    <2>1. k + 1 \in 1..n /\ k + 1 \in 0..n /\ (k + 1) - 1 = k
      BY <1>3
    <2>2. f[k+1] = f[k] + s[k+1] /\ s[k+1] \in Nat
      BY <1>1, <1>2, <1>3, <2>1
    <2> QED
      BY <1>5, <2>1, <2>2
  <1>6. 0..n \subseteq T
    <2> HIDE DEF T
    <2> QED
      BY <1>3, <1>4, <1>5, Induction
  <1>7. f[n] \in Nat
    BY <1>3, <1>6
  <1>8. n > 0 => f[n] >= s[n]
    <2> SUFFICES ASSUME n > 0 PROVE f[n] >= s[n]
      OBVIOUS
    <2>1. n \in 1..n /\ n - 1 \in 0..n
      BY <1>3
    <2>2. f[n] = f[n-1] + s[n] /\ f[n-1] \in Nat /\ s[n] \in Nat
      BY <1>1, <1>2, <1>3, <1>6, <2>1
    <2> QED
      BY <2>2
  <1> QED
    BY <1>2, <1>3, <1>7, <1>8
=============================================================================
