----------------------------- MODULE InductionLemmas -----------------------------
(***************************************************************************)
(* Minima, induction and recursion, with sets and functions where the      *)
(* theorems of the library have operators as parameters.  All rest on one  *)
(* fact: a chain of ever smaller finite sets ends.                         *)
(***************************************************************************)
EXTENDS Integers, FiniteSetTheorems, WellFoundedInduction, TLAPS

(***************************************************************************)
(* Every nonempty set of finite sets has a member with no other below it.  *)
(***************************************************************************)
LEMMA MinimalSet ==
  ASSUME NEW U, U # {}, \A x \in U : IsFiniteSet(x)
  PROVE  \E x \in U : \A y \in U : y \subseteq x => y = x
<1> DEFINE S == UNION U
<1>1. U \subseteq FiniteSubsetsOf(S)
  BY DEF FiniteSubsetsOf
<1>2. PICK x \in U : \A y \in U : ~(<<y, x>> \in StrictSubsetOrdering(S))
  BY <1>1, WFMin, FS_StrictSubsetOrderingWellFounded
<1>3. ASSUME NEW y \in U, y \subseteq x, y # x PROVE FALSE
  <2>1. <<y, x>> \in StrictSubsetOrdering(S)
    BY <1>3 DEF StrictSubsetOrdering
  <2> QED
    BY <1>2, <2>1
<1> QED
  BY <1>3

(***************************************************************************)
(* Every nonempty set of natural numbers has a least member.               *)
(***************************************************************************)
LEMMA LeastNumber ==
  ASSUME NEW T \in SUBSET Nat, T # {}
  PROVE  \E m \in T : \A k \in T : m <= k
<1> DEFINE U == {0 .. n : n \in T}
<1>1. \A x \in U : IsFiniteSet(x)
  <2> SUFFICES ASSUME NEW n \in T PROVE IsFiniteSet(0 .. n)
    OBVIOUS
  <2> QED
    BY FS_Interval
<1>2. U # {}
  OBVIOUS
<1>3. PICK x \in U : \A y \in U : y \subseteq x => y = x
  <2> HIDE DEF U
  <2> QED
    BY <1>1, <1>2, MinimalSet
<1>4. PICK m \in T : x = 0 .. m
  BY <1>3
<1>5. ASSUME NEW k \in T, k < m PROVE FALSE
  <2>1. 0 .. k \in U /\ 0 .. k \subseteq 0 .. m
    BY <1>5
  <2>2. m \in 0 .. m /\ m \notin 0 .. k
    BY <1>5
  <2> QED
    BY <1>3, <1>4, <2>1, <2>2
<1> QED
  BY <1>5

--------------------------------------------------------------------------------
(* Induction.                                                              *)

(***************************************************************************)
(* A set with 0 and the successors of its members has all natural numbers. *)
(***************************************************************************)
LEMMA NatSetInduction ==
  ASSUME NEW T, 0 \in T, \A n \in Nat : n \in T => n + 1 \in T
  PROVE  Nat \subseteq T
<1> SUFFICES ASSUME Nat \ T # {} PROVE FALSE
  OBVIOUS
<1>1. PICK m \in Nat \ T : \A k \in Nat \ T : m <= k
  BY LeastNumber
<1>2. m - 1 \in Nat /\ m - 1 \in T
  BY <1>1
<1> QED
  BY <1>1, <1>2

(***************************************************************************)
(* A set that has whatever all of lower rank than it are in has all.       *)
(***************************************************************************)
LEMMA RankInduction ==
  ASSUME NEW D, NEW rank \in [D -> Nat], NEW T,
         \A d \in D : (\A e \in D : rank[e] < rank[d] => e \in T) => d \in T
  PROVE  D \subseteq T
<1> SUFFICES ASSUME D \ T # {} PROVE FALSE
  OBVIOUS
<1> DEFINE Ranks == {rank[d] : d \in D \ T}
<1>1. Ranks \subseteq Nat /\ Ranks # {}
  OBVIOUS
<1>2. PICK m \in Ranks : \A k \in Ranks : m <= k
  <2> HIDE DEF Ranks
  <2> QED
    BY <1>1, LeastNumber
<1>3. PICK d \in D \ T : rank[d] = m
  OBVIOUS
<1>4. ASSUME NEW e \in D, rank[e] < rank[d], e \notin T PROVE FALSE
  <2>1. rank[e] \in Ranks
    BY <1>4
  <2>2. m <= rank[e] /\ m \in Nat /\ rank[e] \in Nat
    BY <1>1, <1>2, <2>1
  <2> QED
    BY <1>3, <1>4, <2>2
<1> QED
  BY <1>3, <1>4

--------------------------------------------------------------------------------
(* Recursion.                                                              *)

(***************************************************************************)
(* A step can be repeated from a base.                                     *)
(***************************************************************************)
Repeats(f, W, base, step) ==
  f \in [Nat -> W] /\ f[0] = base /\ \A n \in Nat : f[n + 1] = step[f[n]]

\* A recursion over the natural numbers has a solution.
LEMMA NatRecursion ==
  ASSUME NEW W, NEW base \in W, NEW step \in [W -> W]
  PROVE  \E f : Repeats(f, W, base, step)
<1> DEFINE Upto(n, g) == /\ g \in [0 .. n -> W] /\ g[0] = base
                         /\ \A k \in 0 .. n - 1 : g[k + 1] = step[g[k]]
           T == {n \in Nat : \E g : Upto(n, g)}
<1>1. Nat \subseteq T
  <2>1. 0 \in T
    <3>1. Upto(0, [k \in 0 .. 0 |-> base])
      OBVIOUS
    <3> QED
      BY <3>1
  <2>2. ASSUME NEW n \in Nat, n \in T PROVE n + 1 \in T
    <3>1. PICK g : Upto(n, g)
      BY <2>2
    <3> DEFINE h == [k \in 0 .. n + 1 |-> IF k = n + 1 THEN step[g[n]] ELSE g[k]]
    <3>2. Upto(n + 1, h)
      BY <3>1
    <3> HIDE DEF Upto, h
    <3> QED
      BY <3>2
  <2> QED
    <3> HIDE DEF T
    <3> QED
      BY <2>1, <2>2, NatSetInduction
<1> DEFINE G(n) == CHOOSE g : Upto(n, g)
<1>2. \A n \in Nat : Upto(n, G(n))
  BY <1>1
<1>3. ASSUME NEW n \in Nat PROVE \A k \in 0 .. n : G(n)[k] = G(k)[k]
  <2> DEFINE S == {k \in Nat : \A m \in Nat : k <= m => G(m)[k] = G(k)[k]}
  <2>1. 0 \in S
    <3>1. \A m \in Nat : G(m)[0] = base
      BY <1>2
    <3> HIDE DEF G
    <3> QED
      BY <3>1
  <2>2. ASSUME NEW k \in Nat, k \in S PROVE k + 1 \in S
    <3> HIDE DEF G
    <3>1. ASSUME NEW m \in Nat, k + 1 <= m PROVE G(m)[k + 1] = step[G(m)[k]]
      <4>1. Upto(m, G(m)) /\ k \in 0 .. m - 1
        BY <1>2, <3>1
      <4> QED
        BY <4>1
    <3> QED
      BY <2>2, <3>1
  <2>3. Nat \subseteq S
    <3> HIDE DEF S
    <3> QED
      BY <2>1, <2>2, NatSetInduction
  <2> HIDE DEF G
  <2> QED
    BY <2>3
<1> DEFINE f == [n \in Nat |-> G(n)[n]]
<1>4. f \in [Nat -> W] /\ f[0] = base
  <2>1. ASSUME NEW n \in Nat PROVE G(n)[n] \in W
    <3>1. Upto(n, G(n)) /\ n \in 0 .. n
      <4> HIDE DEF Upto, G
      <4> QED
        BY <1>2
    <3> QED
      BY <3>1
  <2>2. G(0)[0] = base
    <3>1. Upto(0, G(0))
      BY <1>2
    <3> QED
      BY <3>1
  <2> HIDE DEF G
  <2> QED
    BY <2>1, <2>2
<1>5. ASSUME NEW n \in Nat PROVE f[n + 1] = step[f[n]]
  <2>1. G(n + 1)[n + 1] = step[G(n + 1)[n]]
    <3>1. Upto(n + 1, G(n + 1)) /\ n \in 0 .. (n + 1) - 1
      <4> HIDE DEF Upto, G
      <4> QED
        BY <1>2
    <3> QED
      BY <3>1
  <2>2. G(n + 1)[n] = G(n)[n]
    <3> HIDE DEF G
    <3> QED
      BY <1>3
  <2> HIDE DEF G
  <2> QED
    BY <2>1, <2>2
<1> QED
  <2> HIDE DEF f
  <2>1. Repeats(f, W, base, step)
    BY <1>4, <1>5 DEF Repeats
  <2> QED
    BY <2>1

(***************************************************************************)
(* A step whose result at a point depends only on what lies lower has a    *)
(* fixed point: what a recursive function is defined to be.                *)
(***************************************************************************)
Recursive(f, D, R, step) == f \in [D -> R] /\ f = step[f]

LowerOnly(step, D, R, rank) ==
  \A d \in D : \A g, h \in [D -> R] :
    (\A e \in D : rank[e] < rank[d] => g[e] = h[e]) => step[g][d] = step[h][d]

\* A recursion that asks for values of a lower rank only has a solution.
LEMMA RankRecursion ==
  ASSUME NEW D, NEW R, NEW rank \in [D -> Nat], NEW start \in [D -> R],
         NEW step \in [[D -> R] -> [D -> R]], LowerOnly(step, D, R, rank)
  PROVE  \E f : Recursive(f, D, R, step)
<1>1. PICK it \in [Nat -> [D -> R]] : it[0] = start /\ \A n \in Nat : it[n + 1] = step[it[n]]
  <2>1. \E f : Repeats(f, [D -> R], start, step)
    BY NatRecursion
  <2> QED
    BY <2>1 DEF Repeats
<1> DEFINE T == {n \in Nat : \A d \in D : rank[d] < n => it[n + 1][d] = it[n][d]}
<1>2. Nat \subseteq T
  <2>1. 0 \in T
    OBVIOUS
  <2>2. ASSUME NEW n \in Nat, n \in T PROVE n + 1 \in T
    <3> SUFFICES ASSUME NEW d \in D, rank[d] < n + 1
                 PROVE  it[n + 2][d] = it[n + 1][d]
      OBVIOUS
    <3>1. \A e \in D : rank[e] < rank[d] => it[n + 1][e] = it[n][e]
      BY <2>2
    <3>2. it[n + 1] \in [D -> R] /\ it[n] \in [D -> R]
      OBVIOUS
    <3>3. step[it[n + 1]][d] = step[it[n]][d]
      BY <3>1, <3>2 DEF LowerOnly
    <3>4. it[n + 2] = step[it[n + 1]] /\ it[n + 1] = step[it[n]]
      BY <1>1
    <3> QED
      BY <3>3, <3>4
  <2> QED
    <3> HIDE DEF T
    <3> QED
      BY <2>1, <2>2, NatSetInduction
<1>3. ASSUME NEW n \in Nat, NEW d \in D, rank[d] < n
      PROVE  it[n][d] = it[rank[d] + 1][d]
  <2> DEFINE S == {k \in Nat : it[rank[d] + 1 + k][d] = it[rank[d] + 1][d]}
  <2>1. 0 \in S
    OBVIOUS
  <2>2. ASSUME NEW k \in Nat, k \in S PROVE k + 1 \in S
    <3>1. rank[d] + 1 + k \in T
      <4>1. rank[d] + 1 + k \in Nat
        OBVIOUS
      <4> HIDE DEF T
      <4> QED
        BY <1>2, <4>1
    <3>2. rank[d] + 1 + (k + 1) = (rank[d] + 1 + k) + 1
      <4>1. rank[d] \in Nat
        OBVIOUS
      <4> HIDE DEF S, T
      <4> QED
        BY <4>1
    <3>3. it[(rank[d] + 1 + k) + 1][d] = it[rank[d] + 1 + k][d]
      BY <3>1
    <3> QED
      BY <2>2, <3>2, <3>3
  <2>3. Nat \subseteq S
    <3> HIDE DEF S
    <3> QED
      BY <2>1, <2>2, NatSetInduction
  <2>4. n - (rank[d] + 1) \in Nat /\ rank[d] + 1 + (n - (rank[d] + 1)) = n
    BY <1>3
  <2>5. n - (rank[d] + 1) \in S
    BY <2>3, <2>4
  <2> QED
    BY <2>4, <2>5
<1> DEFINE f == [d \in D |-> it[rank[d] + 1][d]]
<1>4. f \in [D -> R]
  OBVIOUS
<1>5. ASSUME NEW d \in D PROVE f[d] = step[f][d]
  <2>1. \A e \in D : rank[e] < rank[d] => f[e] = it[rank[d]][e]
    BY <1>3
  <2>2. step[f][d] = step[it[rank[d]]][d]
    <3>1. it[rank[d]] \in [D -> R]
      OBVIOUS
    <3> HIDE DEF f
    <3> QED
      BY <1>4, <2>1, <3>1 DEF LowerOnly
  <2>3. it[rank[d] + 1] = step[it[rank[d]]]
    BY <1>1
  <2> QED
    BY <2>2, <2>3
<1>6. step[f] \in [D -> R]
  BY <1>4
<1> QED
  <2> HIDE DEF f
  <2>1. Recursive(f, D, R, step)
    BY <1>4, <1>5, <1>6 DEF Recursive
  <2> QED
    BY <2>1

================================================================================
