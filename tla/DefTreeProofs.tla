----------------------------- MODULE DefTreeProofs -----------------------------
(***************************************************************************)
(* What the functions of DefTree do to every definition, of any texts and  *)
(* any depth.                                                              *)
(*                                                                         *)
(* A definition is nested in definitions of a greater depth only, so       *)
(* induction over depth reaches all of them, and a recursive function      *)
(* satisfies its equation because the equation has a solution, which is    *)
(* built level by level.  A fold is treated the same way: the function     *)
(* that MapThenFoldSet chooses exists, and its values at the sets of the   *)
(* first i indices are a sequence of states, one step of the fold apart.   *)
(***************************************************************************)
EXTENDS DefTree, InductionLemmas

--------------------------------------------------------------------------------
(* Folds.                                                                  *)

(***************************************************************************)
(* A nonempty set of indices has a maximum.                                *)
(***************************************************************************)
LEMMA MaxIndex ==
  ASSUME NEW n \in Nat, NEW t \in SUBSET (1 .. n), t # {}
  PROVE  /\ Max(t) \in t
         /\ \A y \in t : y <= Max(t)
<1> DEFINE T == {n - y : y \in t}
<1>1. T \in SUBSET Nat /\ T # {}
  <2>1. PICK y : y \in t
    OBVIOUS
  <2>2. n - y \in T
    BY <2>1
  <2> QED
    BY <2>2
<1>2. PICK m \in T : \A k \in T : m <= k
  <2> HIDE DEF T
  <2> QED
    BY <1>1, LeastNumber
<1>3. PICK x \in t : m = n - x
  OBVIOUS
<1>4. \A y \in t : x >= y
  <2> SUFFICES ASSUME NEW y \in t PROVE x >= y
    OBVIOUS
  <2>1. m <= n - y
    BY <1>2
  <2> QED
    BY <1>3, <2>1
<1>5. \E z \in t : \A y \in t : z >= y
  BY <1>4
<1>6. Max(t) \in t /\ \A y \in t : Max(t) >= y
  BY <1>5 DEF Max
<1> QED
  BY <1>6

\* The indices up to i have the maximum i.
LEMMA MaxPrefix ==
  ASSUME NEW n \in Nat, NEW i \in 1 .. n
  PROVE  /\ 1 .. i \in SUBSET (1 .. n) /\ 1 .. i - 1 \in SUBSET (1 .. n)
         /\ 1 .. i # {} /\ Max(1 .. i) = i /\ (1 .. i) \ {i} = 1 .. i - 1
<1>1. 1 .. i \in SUBSET (1 .. n) /\ 1 .. i # {} /\ i \in 1 .. i
  OBVIOUS
<1>2. Max(1 .. i) \in 1 .. i /\ i <= Max(1 .. i)
  BY <1>1, MaxIndex
<1>3. Max(1 .. i) = i
  BY <1>2
<1> QED
  BY <1>1, <1>3

(***************************************************************************)
(* What the function of a fold has at the set of the first i indices is    *)
(* what there is after i steps.                                            *)
(***************************************************************************)
FoldsBy(iter, n, W, base, step) ==
  /\ iter[{}] = base
  /\ \A i \in 1 .. n : iter[1 .. i - 1] \in W =>
                         iter[1 .. i] = step[i][iter[1 .. i - 1]]

\* Such a function takes one step of the fold per index.
LEMMA FoldSteps ==
  ASSUME NEW n \in Nat, NEW W, NEW base \in W, NEW step \in [1 .. n -> [W -> W]],
         NEW iter, FoldsBy(iter, n, W, base, step)
  PROVE  /\ iter[1 .. 0] = base
         /\ \A i \in 0 .. n : iter[1 .. i] \in W
         /\ \A i \in 1 .. n : iter[1 .. i] = step[i][iter[1 .. i - 1]]
<1>1. iter[1 .. 0] = base
  <2>1. 1 .. 0 = {}
    OBVIOUS
  <2> QED
    BY <2>1 DEF FoldsBy
<1> DEFINE T == {i \in Nat : i <= n => iter[1 .. i] \in W}
<1>2. Nat \subseteq T
  <2>1. 0 \in T
    BY <1>1
  <2>2. ASSUME NEW i \in Nat, i \in T PROVE i + 1 \in T
    <3> SUFFICES ASSUME i + 1 <= n PROVE iter[1 .. i + 1] \in W
      OBVIOUS
    <3>1. i + 1 \in 1 .. n /\ (i + 1) - 1 = i /\ iter[1 .. i] \in W
      BY <2>2
    <3>2. iter[1 .. i + 1] = step[i + 1][iter[1 .. i]]
      BY <3>1 DEF FoldsBy
    <3>3. step[i + 1] \in [W -> W]
      BY <3>1
    <3> QED
      BY <3>1, <3>2, <3>3
  <2> QED
    <3> HIDE DEF T
    <3> QED
      BY <2>1, <2>2, NatSetInduction
<1>3. \A i \in 0 .. n : iter[1 .. i] \in W
  BY <1>2
<1>4. \A i \in 1 .. n : iter[1 .. i - 1] \in W
  <2> SUFFICES ASSUME NEW i \in 1 .. n PROVE iter[1 .. i - 1] \in W
    OBVIOUS
  <2>1. i - 1 \in 0 .. n
    OBVIOUS
  <2> QED
    BY <1>3, <2>1
<1> QED
  BY <1>1, <1>3, <1>4 DEF FoldsBy

(***************************************************************************)
(* There is such a function: the recursion of a fold is well founded.      *)
(***************************************************************************)
FoldEquation(iter, n, W, base, step) ==
  /\ iter \in [SUBSET (1 .. n) -> W]
  /\ iter = [t \in SUBSET (1 .. n) |->
               IF t = {} THEN base ELSE step[Max(t)][iter[t \ {Max(t)}]]]

\* The equation that CHOOSE names in MapThenFoldSet has a solution.
LEMMA FoldExists ==
  ASSUME NEW n \in Nat, NEW W, NEW base \in W, NEW step \in [1 .. n -> [W -> W]]
  PROVE  \E iter : FoldEquation(iter, n, W, base, step)
<1> DEFINE D == SUBSET (1 .. n)
           rank == [t \in D |-> IF t = {} THEN 0 ELSE Max(t)]
           start == [t \in D |-> base]
           next(g) == [t \in D |-> IF t = {} THEN base
                                   ELSE step[Max(t)][g[t \ {Max(t)}]]]
           recur == [g \in [D -> W] |-> next(g)]
<1>1. rank \in [D -> Nat]
  <2>1. \A t \in D : t # {} => Max(t) \in 1 .. n
    BY MaxIndex
  <2> QED
    BY <2>1
<1>2. start \in [D -> W]
  OBVIOUS
<1>3. \A t \in D : t # {} => /\ t \ {Max(t)} \in D /\ Max(t) \in 1 .. n
                             /\ rank[t \ {Max(t)}] < rank[t]
  <2> SUFFICES ASSUME NEW t \in D, t # {}
               PROVE  /\ t \ {Max(t)} \in D /\ Max(t) \in 1 .. n
                      /\ rank[t \ {Max(t)}] < rank[t]
    OBVIOUS
  <2>1. Max(t) \in t /\ \A y \in t : y <= Max(t)
    BY MaxIndex
  <2> DEFINE u == t \ {Max(t)}
  <2>2. u \in D /\ Max(t) \in 1 .. n
    BY <2>1
  <2>3. u # {} => Max(u) \in u
    BY <2>2, MaxIndex
  <2>4. u # {} => Max(u) < Max(t)
    <3> HIDE DEF u
    <3>1. u # {} => Max(u) \in t /\ Max(u) # Max(t)
      BY <2>3 DEF u
    <3>2. Max(t) \in Nat /\ (u # {} => Max(u) \in Nat)
      <4>1. \A y \in t : y \in Nat
        OBVIOUS
      <4> HIDE DEF D
      <4> QED
        BY <2>1, <3>1, <4>1
    <3> HIDE DEF D
    <3> QED
      BY <2>1, <3>1, <3>2
  <2>5. rank[u] = (IF u = {} THEN 0 ELSE Max(u)) /\ rank[t] = Max(t)
    BY <2>2
  <2> QED
    <3> HIDE DEF u, rank
    <3>1. rank[u] < rank[t]
      BY <2>2, <2>4, <2>5
    <3> QED
      BY <2>2, <3>1 DEF u
<1>4. recur \in [[D -> W] -> [D -> W]]
  <2> SUFFICES ASSUME NEW g \in [D -> W], NEW t \in D
               PROVE  (IF t = {} THEN base ELSE step[Max(t)][g[t \ {Max(t)}]]) \in W
    OBVIOUS
  <2>1. CASE t # {}
    <3>1. t \ {Max(t)} \in D /\ Max(t) \in 1 .. n
      BY <1>3, <2>1
    <3>2. g[t \ {Max(t)}] \in W /\ step[Max(t)] \in [W -> W]
      <4> HIDE DEF D
      <4> QED
        BY <3>1
    <3> QED
      BY <3>2
  <2> QED
    BY <2>1
<1>5. LowerOnly(recur, D, W, rank)
  <2> SUFFICES ASSUME NEW t \in D, NEW g \in [D -> W], NEW h \in [D -> W],
                      \A e \in D : rank[e] < rank[t] => g[e] = h[e]
               PROVE  recur[g][t] = recur[h][t]
    BY DEF LowerOnly
  <2>1. recur[g] = next(g) /\ recur[h] = next(h)
    OBVIOUS
  <2>2. t # {} => g[t \ {Max(t)}] = h[t \ {Max(t)}]
    <3> HIDE DEF D, rank
    <3> QED
      BY <1>3
  <2>3. next(g)[t] = next(h)[t]
    BY <2>2
  <2> HIDE DEF next, recur
  <2> QED
    BY <2>1, <2>3
<1>6. PICK f : Recursive(f, D, W, recur)
  <2> HIDE DEF D, rank, start, recur
  <2> QED
    BY <1>1, <1>2, <1>4, <1>5, RankRecursion
<1>7. recur[f] = next(f) /\ f = recur[f] /\ f \in [D -> W]
  <2> HIDE DEF next
  <2> QED
    BY <1>6 DEF Recursive
<1>8. FoldEquation(f, n, W, base, step)
  BY <1>7 DEF FoldEquation
<1> QED
  BY <1>8

(***************************************************************************)
(* The values between the steps of a fold.                                 *)
(***************************************************************************)
FoldRun(at, n, W, base, step, result) ==
  /\ at \in [0 .. n -> W] /\ at[0] = base /\ at[n] = result
  /\ \A i \in 1 .. n : at[i] = step[i][at[i - 1]]

\* The values at the prefixes are a sequence of states, from the base to the
\* result.
LEMMA FoldRuns ==
  ASSUME NEW n \in Nat, NEW W, NEW base \in W, NEW step \in [1 .. n -> [W -> W]],
         NEW iter, FoldsBy(iter, n, W, base, step)
  PROVE  \E at : FoldRun(at, n, W, base, step, iter[1 .. n])
<1> DEFINE at == [i \in 0 .. n |-> iter[1 .. i]]
<1>1. /\ iter[1 .. 0] = base /\ \A i \in 0 .. n : iter[1 .. i] \in W
      /\ \A i \in 1 .. n : iter[1 .. i] = step[i][iter[1 .. i - 1]]
  BY FoldSteps
<1>2. at \in [0 .. n -> W] /\ at[0] = base /\ at[n] = iter[1 .. n]
  BY <1>1
<1>3. \A i \in 1 .. n : at[i] = step[i][at[i - 1]]
  BY <1>1
<1> HIDE DEF at
<1>4. FoldRun(at, n, W, base, step, iter[1 .. n])
  BY <1>2, <1>3 DEF FoldRun
<1> QED
  BY <1>4

--------------------------------------------------------------------------------
(* Options and trees.                                                      *)

LEMMA OptionValues ==
  ASSUME NEW S
  PROVE  /\ None \in Option(S)
         /\ \A v \in S : Some(v) \in Option(S) /\ IsSome(Some(v)) /\ Some(v)[1] = v
         /\ \A o \in Option(S) : o = None \/ (IsSome(o) /\ o[1] \in S /\ o = Some(o[1]))
<1>1. ASSUME NEW v \in S
      PROVE  Some(v) \in Option(S) /\ IsSome(Some(v)) /\ Some(v)[1] = v
  <2>1. <<v>> \in Seq(S) /\ Len(<<v>>) = 1 /\ <<v>>[1] = v /\ Len(<<>>) = 0
    OBVIOUS
  <2>2. <<v>> # <<>>
    BY <2>1
  <2> QED
    BY <2>1, <2>2 DEF Option, Some, IsSome, None
<1>2. ASSUME NEW o \in Option(S), o # None
      PROVE  IsSome(o) /\ o[1] \in S /\ o = Some(o[1])
  <2>1. o \in Seq(S) /\ Len(o) = 1
    <3>1. o \in Seq(S) /\ Len(o) <= 1 /\ o # <<>>
      BY <1>2 DEF Option, None
    <3>2. Len(o) # 0
      BY <3>1
    <3> QED
      BY <3>1, <3>2
  <2> QED
    BY <1>2, <2>1 DEF IsSome, Some, None
<1>3. None \in Option(S)
  BY DEF None, Option
<1> QED
  BY <1>1, <1>2, <1>3

\* The members of an optional list are of the list's kind.
LEMMA ItemsOf ==
  ASSUME NEW S, NEW o \in Option(Seq(S))
  PROVE  Items(o) \in Seq(S)
<1>1. <<>> \in Seq(S)
  OBVIOUS
<1> HIDE DEF Items
<1> QED
  BY <1>1, OptionValues DEF Items, IsSome

(***************************************************************************)
(* The recursion that defines Trees.                                       *)
(***************************************************************************)
LEMMA TreesUnfold ==
  \A n \in Nat : Trees[n] = Over(IF n = 0 THEN {} ELSE Trees[n - 1])
<1> DEFINE Upto(n, g) == g = [k \in 0 .. n |-> Over(IF k = 0 THEN {} ELSE g[k - 1])]
           T == {n \in Nat : \E g : Upto(n, g)}
<1>1. Nat \subseteq T
  <2>1. 0 \in T
    <3>1. Upto(0, [k \in 0 .. 0 |-> Over({})])
      OBVIOUS
    <3> HIDE DEF Upto
    <3> QED
      BY <3>1
  <2>2. ASSUME NEW n \in Nat, n \in T PROVE n + 1 \in T
    <3>1. PICK g : Upto(n, g)
      BY <2>2
    <3> DEFINE h == [k \in 0 .. n + 1 |-> IF k = n + 1 THEN Over(g[n]) ELSE g[k]]
    <3>2. \A k \in 0 .. n + 1 : h[k] = Over(IF k = 0 THEN {} ELSE h[k - 1])
      <4> SUFFICES ASSUME NEW k \in 0 .. n + 1
                   PROVE  h[k] = Over(IF k = 0 THEN {} ELSE h[k - 1])
        OBVIOUS
      <4>1. CASE k = n + 1
        BY <4>1
      <4>2. CASE k \in 0 .. n
        BY <3>1, <4>2
      <4> QED
        BY <4>1, <4>2
    <3>3. Upto(n + 1, h)
      BY <3>2
    <3> HIDE DEF Upto, h
    <3> QED
      BY <3>3
  <2> QED
    <3> HIDE DEF T
    <3> QED
      BY <2>1, <2>2, NatSetInduction
<1> DEFINE G(n) == CHOOSE g : Upto(n, g)
<1>2. \A n \in Nat : Upto(n, G(n))
  <2> HIDE DEF Upto
  <2> QED
    BY <1>1
<1>3. ASSUME NEW n \in Nat, NEW k \in 0 .. n
      PROVE  G(n)[k] = Over(IF k = 0 THEN {} ELSE G(n)[k - 1])
  <2>1. Upto(n, G(n))
    BY <1>2
  <2> HIDE DEF G
  <2> QED
    BY <2>1
<1> HIDE DEF G
<1>4. ASSUME NEW n \in Nat, NEW k \in 0 .. n PROVE G(n)[k] = G(k)[k]
  <2> DEFINE S == {m \in Nat : \A i \in Nat : m <= i => G(i)[m] = G(m)[m]}
  <2>1. 0 \in S
    <3>1. \A i \in Nat : G(i)[0] = Over({})
      BY <1>3
    <3> QED
      BY <3>1
  <2>2. ASSUME NEW m \in Nat, m \in S PROVE m + 1 \in S
    <3>1. ASSUME NEW i \in Nat, m + 1 <= i PROVE G(i)[m + 1] = Over(G(i)[m])
      BY <1>3, <3>1
    <3>2. G(m + 1)[m] = G(m)[m]
      BY <2>2
    <3> QED
      BY <2>2, <3>1, <3>2
  <2>3. Nat \subseteq S
    <3> HIDE DEF S
    <3> QED
      BY <2>1, <2>2, NatSetInduction
  <2> QED
    BY <2>3
<1> DEFINE f == [n \in Nat |-> G(n)[n]]
           Def(g) == g = [n \in Nat |-> Over(IF n = 0 THEN {} ELSE g[n - 1])]
<1>5. Def(f)
  <2>1. ASSUME NEW n \in Nat PROVE f[n] = Over(IF n = 0 THEN {} ELSE f[n - 1])
    <3>1. n # 0 => n - 1 \in Nat /\ G(n)[n - 1] = G(n - 1)[n - 1]
      BY <1>4
    <3> QED
      BY <1>3, <3>1
  <2> QED
    BY <2>1
<1>6. Def(CHOOSE g : Def(g))
  <2> HIDE DEF Def, f
  <2> QED
    BY <1>5
<1>7. Trees = CHOOSE g : Def(g)
  BY DEF Trees
<1>8. Def(Trees)
  <2> HIDE DEF Def
  <2> QED
    BY <1>6, <1>7
<1> QED
  BY <1>8

\* More definitions to nest, more definitions.
LEMMA OverMonotone ==
  ASSUME NEW S, NEW T, S \subseteq T
  PROVE  Over(S) \subseteq Over(T)
<1>1. Option(Seq(S)) \subseteq Option(Seq(T))
  BY DEF Option
<1> QED
  BY <1>1 DEF Over

(***************************************************************************)
(* The fields of a definition.                                             *)
(***************************************************************************)
LEMMA OverFields ==
  ASSUME NEW S, NEW d \in Over(S)
  PROVE  /\ d.word \in Option(Texts) /\ d.CN \in Option(Texts)
         /\ d.EN \in Option(Texts) /\ d.info \in Option(Texts)
         /\ d.type \in Option(Texts) /\ d.etymology \in Option(Seq(Texts))
         /\ d.examples \in Option(Seq(Examples))
         /\ d.pronunciation \in Option(Pronunciations)
         /\ d.definitions \in Option(Seq(S)) /\ d.groups \in Option(Seq(S))
  BY DEF Over

\* A tree of depth n is one of any greater depth.
LEMMA TreesMonotone ==
  ASSUME NEW n \in Nat, NEW m \in Nat, n <= m
  PROVE  Trees[n] \subseteq Trees[m]
<1> DEFINE T == {k \in Nat : Trees[k] \subseteq Trees[k + 1]}
<1>1. Nat \subseteq T
  <2>1. 0 \in T
    <3>1. Trees[0] = Over({}) /\ Trees[1] = Over(Trees[0])
      BY TreesUnfold
    <3> QED
      BY <3>1, OverMonotone
  <2>2. ASSUME NEW k \in Nat, k \in T PROVE k + 1 \in T
    <3>1. Trees[k + 1] = Over(Trees[k]) /\ Trees[k + 2] = Over(Trees[k + 1])
      <4>1. /\ k + 1 \in Nat /\ k + 1 # 0 /\ (k + 1) - 1 = k
            /\ k + 2 \in Nat /\ k + 2 # 0 /\ (k + 2) - 1 = k + 1
        OBVIOUS
      <4>2. \A n0 \in Nat : n0 # 0 => Trees[n0] = Over(Trees[n0 - 1])
        BY TreesUnfold
      <4> HIDE DEF T
      <4> QED
        BY <4>1, <4>2
    <3>2. (k + 1) + 1 = k + 2
      OBVIOUS
    <3> QED
      BY <2>2, <3>1, <3>2, OverMonotone
  <2> QED
    <3> HIDE DEF T
    <3> QED
      BY <2>1, <2>2, NatSetInduction
<1> DEFINE U == {k \in Nat : Trees[n] \subseteq Trees[n + k]}
<1>2. Nat \subseteq U
  <2>1. 0 \in U
    OBVIOUS
  <2>2. ASSUME NEW k \in Nat, k \in U PROVE k + 1 \in U
    <3>1. Trees[n + k] \subseteq Trees[(n + k) + 1]
      BY <1>1
    <3>2. (n + k) + 1 = n + (k + 1)
      OBVIOUS
    <3> QED
      BY <2>2, <3>1, <3>2
  <2> QED
    <3> HIDE DEF U
    <3> QED
      BY <2>1, <2>2, NatSetInduction
<1>3. m - n \in Nat /\ n + (m - n) = m
  OBVIOUS
<1>4. m - n \in U
  BY <1>2, <1>3
<1> QED
  BY <1>3, <1>4

(***************************************************************************)
(* What is nested in a definition, in either field, is less deep.          *)
(***************************************************************************)
Kids(d) == Below(d, "either")

\* The members of an optional list as a set.
LEMMA ChildrenIn ==
  ASSUME NEW S, NEW o \in Option(Seq(S))
  PROVE  Children(o) \subseteq S
<1>1. Items(o) \in Seq(S)
  BY ItemsOf
<1> QED
  BY <1>1 DEF Children

\* The definitions directly nested in one, by either field.
LEMMA KidsOf ==
  ASSUME NEW d
  PROVE  Kids(d) = Children(d.definitions) \cup Children(d.groups)
  BY DEF Kids, Below

\* What is nested in a tree is of a smaller depth.
LEMMA KidsLower ==
  ASSUME NEW n \in Nat, NEW d \in Trees[n], NEW e \in Kids(d)
  PROVE  n # 0 /\ e \in Trees[n - 1]
<1> DEFINE S == IF n = 0 THEN {} ELSE Trees[n - 1]
<1>1. d \in Over(S)
  BY TreesUnfold
<1>2. e \in S
  <2> HIDE DEF S
  <2>1. d.definitions \in Option(Seq(S)) /\ d.groups \in Option(Seq(S))
    BY <1>1, OverFields
  <2> QED
    BY <2>1, ChildrenIn, KidsOf
<1> QED
  BY <1>2

Depth == [d \in Defs |-> CHOOSE n \in Nat : /\ d \in Trees[n]
                                           /\ \A k \in Nat : d \in Trees[k] => n <= k]

\* The depth of a definition is the least that admits it.
LEMMA DepthLeast ==
  ASSUME NEW d \in Defs
  PROVE  /\ Depth[d] \in Nat
         /\ d \in Trees[Depth[d]]
         /\ \A k \in Nat : d \in Trees[k] => Depth[d] <= k
<1> DEFINE T == {n \in Nat : d \in Trees[n]}
<1>1. T \in SUBSET Nat /\ MaxDepth \in T
  BY DepthAssumption DEF Defs
<1>2. PICK m \in T : \A k \in T : m <= k
  <2> HIDE DEF T
  <2> QED
    BY <1>1, LeastNumber
<1>3. \E n \in Nat : d \in Trees[n] /\ \A k \in Nat : d \in Trees[k] => n <= k
  BY <1>2
<1> QED
  BY <1>3 DEF Depth

\* Nested definitions are definitions, and less deep.
LEMMA DepthOfKids ==
  ASSUME NEW d \in Defs, NEW e \in Kids(d)
  PROVE  e \in Defs /\ Depth[e] < Depth[d]
<1>1. Depth[d] \in Nat /\ d \in Trees[Depth[d]]
  BY DepthLeast
<1>2. Depth[d] # 0 /\ e \in Trees[Depth[d] - 1]
  BY <1>1, KidsLower
<1>3. MaxDepth \in Nat /\ Depth[d] <= MaxDepth
  BY DepthLeast, DepthAssumption DEF Defs
<1>4. e \in Defs
  <2>1. Depth[d] - 1 \in Nat /\ Depth[d] - 1 <= MaxDepth
    BY <1>1, <1>2, <1>3
  <2> QED
    BY <1>2, <1>3, <2>1, TreesMonotone DEF Defs
<1>5. Depth[e] <= Depth[d] - 1 /\ Depth[e] \in Nat
  BY <1>1, <1>2, <1>4, DepthLeast
<1> QED
  BY <1>1, <1>4, <1>5

(***************************************************************************)
(* Induction over the trees: a set that has each tree whose children it    *)
(* has, has all.                                                           *)
(***************************************************************************)
LEMMA TreeInduction ==
  ASSUME NEW T, \A d \in Defs : Kids(d) \subseteq T => d \in T
  PROVE  Defs \subseteq T
<1>1. Depth \in [Defs -> Nat]
  <2>1. \A d \in Defs : Depth[d] \in Nat
    BY DepthLeast
  <2> QED
    BY <2>1 DEF Depth
<1>2. ASSUME NEW d \in Defs, \A e \in Defs : Depth[e] < Depth[d] => e \in T
      PROVE  d \in T
  <2>1. Kids(d) \subseteq T
    BY <1>2, DepthOfKids
  <2> QED
    BY <2>1
<1> QED
  BY <1>1, <1>2, RankInduction

(***************************************************************************)
(* Recursion over the trees: a step that looks only at the children has a  *)
(* fixed point.                                                            *)
(***************************************************************************)
KidsOnly(step, R) ==
  \A d \in Defs : \A g, h \in [Defs -> R] :
    (\A e \in Kids(d) : g[e] = h[e]) => step[g][d] = step[h][d]

\* A recursion that descends into nested definitions only has a solution.
LEMMA TreeRecursion ==
  ASSUME NEW R, NEW value \in R, NEW step \in [[Defs -> R] -> [Defs -> R]],
         KidsOnly(step, R)
  PROVE  \E f : Recursive(f, Defs, R, step)
<1>1. Depth \in [Defs -> Nat]
  <2>1. \A d \in Defs : Depth[d] \in Nat
    BY DepthLeast
  <2> QED
    BY <2>1 DEF Depth
<1>2. [d \in Defs |-> value] \in [Defs -> R]
  OBVIOUS
<1>3. LowerOnly(step, Defs, R, Depth)
  <2> SUFFICES ASSUME NEW d \in Defs, NEW g \in [Defs -> R], NEW h \in [Defs -> R],
                      \A e \in Defs : Depth[e] < Depth[d] => g[e] = h[e]
               PROVE  step[g][d] = step[h][d]
    BY DEF LowerOnly
  <2>1. \A e \in Kids(d) : g[e] = h[e]
    BY DepthOfKids
  <2> QED
    BY <2>1 DEF KidsOnly
<1> QED
  BY <1>1, <1>2, <1>3, RankRecursion

\* A definition has definitions nested in it.
LEMMA DefIsOver == Defs \subseteq Over(Defs)
<1>1. MaxDepth \in Nat /\ MaxDepth + 1 \in Nat /\ MaxDepth + 1 # 0
      /\ (MaxDepth + 1) - 1 = MaxDepth /\ MaxDepth <= MaxDepth + 1
  BY DepthAssumption
<1>2. Trees[MaxDepth] \subseteq Trees[MaxDepth + 1]
  BY <1>1, TreesMonotone
<1>3. Trees[MaxDepth + 1] = Over(Trees[MaxDepth])
  BY <1>1, TreesUnfold
<1> QED
  BY <1>2, <1>3 DEF Defs

\* The kinds of a definition's fields.
LEMMA DefFields ==
  ASSUME NEW d \in Defs
  PROVE  /\ d.word \in Option(Texts) /\ d.CN \in Option(Texts)
         /\ d.EN \in Option(Texts) /\ d.info \in Option(Texts)
         /\ d.type \in Option(Texts) /\ d.etymology \in Option(Seq(Texts))
         /\ d.examples \in Option(Seq(Examples))
         /\ d.pronunciation \in Option(Pronunciations)
         /\ d.definitions \in Option(Seq(Defs)) /\ d.groups \in Option(Seq(Defs))
  BY DefIsOver, OverFields

\* The nested definitions, as lists and as a set.
LEMMA Nested ==
  ASSUME NEW d \in Defs
  PROVE  /\ Items(d.definitions) \in Seq(Defs) /\ Items(d.groups) \in Seq(Defs)
         /\ \A i \in 1 .. Len(Items(d.definitions)) : Items(d.definitions)[i] \in Kids(d)
         /\ \A i \in 1 .. Len(Items(d.groups)) : Items(d.groups)[i] \in Kids(d)
         /\ Kids(d) \subseteq Defs
<1>1. Items(d.definitions) \in Seq(Defs) /\ Items(d.groups) \in Seq(Defs)
  BY DefFields, ItemsOf
<1>2. /\ \A i \in 1 .. Len(Items(d.definitions)) :
           Items(d.definitions)[i] \in Children(d.definitions)
      /\ \A i \in 1 .. Len(Items(d.groups)) : Items(d.groups)[i] \in Children(d.groups)
  BY DEF Children
<1>3. Kids(d) \subseteq Defs
  BY DepthOfKids
<1> QED
  BY <1>1, <1>2, <1>3, KidsOf

--------------------------------------------------------------------------------
(* What the recursive functions are.                                       *)

LEMMA CleanupPanicsUnfold ==
  ASSUME NEW d \in Defs
  PROVE  CleanupPanics[d] <=>
           \/ ~All(LAMBDA t : IsSome(CleanText(t)), Items(d.etymology))
           \/ \E ds \in {Items(d.definitions), Items(d.groups)} :
                ~All(LAMBDA e : ~CleanupPanics[e], ds)
<1> DEFINE Body(g, c) ==
             \/ ~All(LAMBDA t : IsSome(CleanText(t)), Items(c.etymology))
             \/ \E ds \in {Items(c.definitions), Items(c.groups)} :
                  ~All(LAMBDA e : ~g[e], ds)
           Def(g) == g = [c \in Defs |-> Body(g, c)]
           step == [g \in [Defs -> BOOLEAN] |-> [c \in Defs |-> Body(g, c)]]
<1>1. step \in [[Defs -> BOOLEAN] -> [Defs -> BOOLEAN]]
  <2> SUFFICES ASSUME NEW g \in [Defs -> BOOLEAN], NEW c \in Defs
               PROVE  Body(g, c) \in BOOLEAN
    OBVIOUS
  <2> QED
    OBVIOUS
<1>2. KidsOnly(step, BOOLEAN)
  <2> SUFFICES ASSUME NEW c \in Defs, NEW g \in [Defs -> BOOLEAN],
                      NEW h \in [Defs -> BOOLEAN], \A e \in Kids(c) : g[e] = h[e]
               PROVE  step[g][c] = step[h][c]
    BY DEF KidsOnly
  <2>1. Body(g, c) = Body(h, c)
    BY Nested DEF All
  <2> QED
    BY <2>1
<1>3. PICK f : Recursive(f, Defs, BOOLEAN, step)
  <2> HIDE DEF step
  <2> QED
    BY <1>1, <1>2, TreeRecursion
<1>4. Def(f)
  BY <1>3 DEF Recursive
<1>5. Def(CHOOSE g : Def(g))
  <2> HIDE DEF Def
  <2> QED
    BY <1>4
<1>6. CleanupPanics = CHOOSE g : Def(g)
  BY DEF CleanupPanics
<1>7. Def(CleanupPanics)
  <2> HIDE DEF Def
  <2> QED
    BY <1>5, <1>6
<1>8. CleanupPanics[d] = Body(CleanupPanics, d)
  <2> HIDE DEF Body
  <2> QED
    BY <1>7
<1> QED
  BY <1>8

\* Nodes satisfies its equation.
LEMMA NodesUnfold ==
  /\ Nodes \in [Defs -> [Ways -> SUBSET Defs]]
  /\ \A d \in Defs : \A by \in Ways :
       Nodes[d][by] = {d} \cup UNION {Nodes[e][by] : e \in Below(d, by)}
<1> DEFINE R == [Ways -> SUBSET Defs]
           Body(g, d) == [by \in Ways |-> {d} \cup UNION {g[e][by] : e \in Below(d, by)}]
           Def(g) == g = [d \in Defs |-> Body(g, d)]
           step == [g \in [Defs -> R] |-> [d \in Defs |-> Body(g, d)]]
<1>1. \A d \in Defs : \A by \in Ways : Below(d, by) \subseteq Kids(d)
  <2> SUFFICES ASSUME NEW d \in Defs, NEW by \in Ways PROVE Below(d, by) \subseteq Kids(d)
    OBVIOUS
  <2> QED
    BY KidsOf DEF Below, Ways
<1>2. \A d \in Defs : \A by \in Ways : \A e \in Below(d, by) : e \in Kids(d) /\ e \in Defs
  BY <1>1, Nested
<1>3. ASSUME NEW g \in [Defs -> R], NEW d \in Defs PROVE Body(g, d) \in R
  <2> SUFFICES ASSUME NEW by \in Ways, NEW e \in Below(d, by) PROVE g[e][by] \subseteq Defs
    OBVIOUS
  <2> QED
    BY <1>2
<1>4. step \in [[Defs -> R] -> [Defs -> R]]
  <2> HIDE DEF Body, R
  <2> QED
    BY <1>3
<1>5. KidsOnly(step, R)
  <2> SUFFICES ASSUME NEW d \in Defs, NEW g \in [Defs -> R],
                      NEW h \in [Defs -> R], \A e \in Kids(d) : g[e] = h[e]
               PROVE  step[g][d] = step[h][d]
    BY DEF KidsOnly
  <2>1. \A by \in Ways : {g[e][by] : e \in Below(d, by)} = {h[e][by] : e \in Below(d, by)}
    BY <1>2
  <2>2. Body(g, d) = Body(h, d)
    BY <2>1
  <2> HIDE DEF Body, R
  <2> QED
    BY <2>2
<1>6. PICK f : Recursive(f, Defs, R, step)
  <2>1. [by \in Ways |-> {}] \in R
    OBVIOUS
  <2> HIDE DEF step, R
  <2> QED
    BY <1>4, <1>5, <2>1, TreeRecursion
<1>7. Def(f)
  <2> HIDE DEF Body, R
  <2> QED
    BY <1>6 DEF Recursive
<1>8. Def(CHOOSE g : Def(g))
  <2> HIDE DEF Def
  <2> QED
    BY <1>7
<1>9. Nodes = CHOOSE g : Def(g)
  BY DEF Nodes
<1>10. Def(Nodes)
  <2> HIDE DEF Def
  <2> QED
    BY <1>8, <1>9
<1>11. \A d \in Defs : Nodes[d] = Body(Nodes, d)
  <2> HIDE DEF Body
  <2> QED
    BY <1>10
<1> DEFINE T == {d \in Defs : Nodes[d] \in R}
<1>12. Defs \subseteq T
  <2>1. ASSUME NEW d \in Defs, Kids(d) \subseteq T PROVE d \in T
    <3>1. \A by \in Ways : \A e \in Below(d, by) : Nodes[e][by] \subseteq Defs
      BY <1>2, <2>1
    <3>2. Body(Nodes, d) \in R
      BY <3>1
    <3> HIDE DEF Body, R
    <3> QED
      BY <1>11, <3>2
  <2> HIDE DEF T
  <2> QED
    BY <2>1, TreeInduction
<1>13. Nodes \in [Defs -> R]
  <2> HIDE DEF Body, R
  <2> QED
    BY <1>10, <1>12
<1> QED
  BY <1>11, <1>13

(***************************************************************************)
(* A word type in lower case is a text, where there is one.                *)
(***************************************************************************)
LEMMA KindIs ==
  ASSUME NEW d \in Defs
  PROVE  Kind(d) \in Option(Texts) /\ (IsSome(Kind(d)) <=> IsSome(d.type))
<1>1. d.type \in Option(Texts)
  BY DefFields
<1>2. CASE d.type = None
  BY <1>1, <1>2, OptionValues DEF Kind, MapOption, IsSome
<1>3. CASE IsSome(d.type)
  <2>1. d.type[1] \in Texts
    BY <1>1, <1>3, OptionValues DEF IsSome
  <2>2. Lower(d.type[1]) \in Texts
    BY <2>1, TextsAssumption DEF Lower
  <2>3. Kind(d) = Some(Lower(d.type[1]))
    BY <1>3 DEF Kind, MapOption
  <2> QED
    BY <1>3, <2>2, <2>3, OptionValues
<1> QED
  BY <1>2, <1>3 DEF IsSome

(***************************************************************************)
(* What LastGiven has in a field: that of the last nested definition that  *)
(* gives one, or else the definition's own.                                *)
(***************************************************************************)
Fields == {"type", "pronunciation"}
Values == Option(Texts) \cup Option(Pronunciations)

\* LastGiven satisfies its equation.
LEMMA LastGivenUnfold ==
  /\ LastGiven \in [Defs -> [Fields -> Values]]
  /\ \A d \in Defs : \A field \in Fields :
       LastGiven[d][field] =
         LET nested == Items(d.definitions)
             giving == {i \in 1 .. Len(nested) : IsSome(LastGiven[nested[i]][field])}
         IN  IF giving = {} THEN DrawnAs(d, field) ELSE LastGiven[nested[Max(giving)]][field]
<1> DEFINE R == [Fields -> Values]
           Giving(g, d, field) ==
             {i \in 1 .. Len(Items(d.definitions)) :
                IsSome(g[Items(d.definitions)[i]][field])}
           Value(g, d, field) ==
             IF Giving(g, d, field) = {} THEN DrawnAs(d, field)
             ELSE g[Items(d.definitions)[Max(Giving(g, d, field))]][field]
           Body(g, d) == [field \in Fields |-> Value(g, d, field)]
           Def(g) == g = [d \in Defs |-> Body(g, d)]
           step == [g \in [Defs -> R] |-> [d \in Defs |-> Body(g, d)]]
<1>1. ASSUME NEW d \in Defs, NEW field \in Fields PROVE DrawnAs(d, field) \in Values
  <2>1. Kind(d) \in Values /\ d.pronunciation \in Values
    BY KindIs, DefFields DEF Values
  <2> QED
    BY <2>1 DEF DrawnAs
<1>2. ASSUME NEW g, NEW d \in Defs, NEW field \in Fields, Giving(g, d, field) # {}
      PROVE  /\ Max(Giving(g, d, field)) \in 1 .. Len(Items(d.definitions))
             /\ Items(d.definitions)[Max(Giving(g, d, field))] \in Kids(d)
  <2>1. Giving(g, d, field) \in SUBSET (1 .. Len(Items(d.definitions)))
    OBVIOUS
  <2>2. Len(Items(d.definitions)) \in Nat
    BY Nested
  <2> HIDE DEF Giving
  <2>3. Max(Giving(g, d, field)) \in Giving(g, d, field)
    BY <1>2, <2>1, <2>2, MaxIndex
  <2> QED
    BY <2>1, <2>3, Nested
<1>3. ASSUME NEW g, NEW d \in Defs, \A e \in Kids(d) : g[e] \in R
      PROVE  Body(g, d) \in R
  <2> SUFFICES ASSUME NEW field \in Fields PROVE Value(g, d, field) \in Values
    OBVIOUS
  <2> HIDE DEF Giving, Values
  <2> QED
    BY <1>1, <1>2, <1>3
<1>4. step \in [[Defs -> R] -> [Defs -> R]]
  <2>1. ASSUME NEW g \in [Defs -> R], NEW d \in Defs PROVE Body(g, d) \in R
    <3>1. \A e \in Kids(d) : g[e] \in R
      <4> HIDE DEF R
      <4> QED
        BY Nested
    <3> HIDE DEF Body, R
    <3> QED
      BY <1>3, <3>1
  <2> HIDE DEF Body, R
  <2> QED
    BY <2>1
<1>5. KidsOnly(step, R)
  <2> SUFFICES ASSUME NEW d \in Defs, NEW g \in [Defs -> R],
                      NEW h \in [Defs -> R], \A e \in Kids(d) : g[e] = h[e]
               PROVE  step[g][d] = step[h][d]
    BY DEF KidsOnly
  <2>1. \A field \in Fields : Giving(g, d, field) = Giving(h, d, field)
    BY Nested
  <2>2. \A field \in Fields : Value(g, d, field) = Value(h, d, field)
    <3> HIDE DEF Giving, R
    <3> QED
      BY <1>2, <2>1
  <2>3. Body(g, d) = Body(h, d)
    <3> HIDE DEF Value
    <3> QED
      BY <2>2
  <2> HIDE DEF Body, R
  <2> QED
    BY <2>3
<1>6. PICK f : Recursive(f, Defs, R, step)
  <2>1. [field \in Fields |-> None] \in R
    BY OptionValues DEF Values
  <2> HIDE DEF step, R
  <2> QED
    BY <1>4, <1>5, <2>1, TreeRecursion
<1>7. Def(f)
  <2> HIDE DEF Body, R
  <2> QED
    BY <1>6 DEF Recursive
<1>8. Def(CHOOSE g : Def(g))
  <2> HIDE DEF Def
  <2> QED
    BY <1>7
<1>9. LastGiven = CHOOSE g : Def(g)
  BY DEF LastGiven, Fields
<1>10. Def(LastGiven)
  <2> HIDE DEF Def
  <2> QED
    BY <1>8, <1>9
<1>11. \A d \in Defs : LastGiven[d] = Body(LastGiven, d)
  <2> HIDE DEF Body
  <2> QED
    BY <1>10
<1> DEFINE T == {d \in Defs : LastGiven[d] \in R}
<1>12. Defs \subseteq T
  <2>1. ASSUME NEW d \in Defs, Kids(d) \subseteq T PROVE d \in T
    <3>1. \A e \in Kids(d) : LastGiven[e] \in R
      BY <2>1
    <3> HIDE DEF Body, R
    <3> QED
      BY <1>3, <1>11, <3>1
  <2> HIDE DEF T
  <2> QED
    BY <2>1, TreeInduction
<1>13. LastGiven \in [Defs -> R]
  <2> HIDE DEF Body, R
  <2> QED
    BY <1>10, <1>12
<1>14. \A d \in Defs : \A field \in Fields : LastGiven[d][field] = Value(LastGiven, d, field)
  <2> HIDE DEF Value
  <2> QED
    BY <1>11
<1> QED
  BY <1>13, <1>14

(***************************************************************************)
(* A recursion whose value is a definition no deeper than its argument has *)
(* a solution.                                                             *)
(***************************************************************************)
LEMMA DefRecursion ==
  ASSUME NEW step, KidsOnly(step, Defs),
         \A g \in [Defs -> Defs] : \A d \in Defs :
           (\A e \in Kids(d) : g[e] \in Trees[Depth[e]]) => step[g][d] \in Trees[Depth[d]]
  PROVE  \E f \in [Defs -> Defs] : \A d \in Defs : f[d] = step[f][d]
<1> DEFINE Keeps(g, d) == \A e \in Kids(d) : g[e] \in Trees[Depth[e]]
           clipped == [g \in [Defs -> Defs] |->
                         [d \in Defs |-> IF Keeps(g, d) THEN step[g][d] ELSE d]]
<1>1. \A d \in Defs : Trees[Depth[d]] \subseteq Defs
  BY DepthLeast, TreesMonotone, DepthAssumption DEF Defs
<1>2. clipped \in [[Defs -> Defs] -> [Defs -> Defs]]
  <2> SUFFICES ASSUME NEW g \in [Defs -> Defs], NEW d \in Defs
               PROVE  (IF Keeps(g, d) THEN step[g][d] ELSE d) \in Defs
    OBVIOUS
  <2> QED
    BY <1>1
<1>3. KidsOnly(clipped, Defs)
  <2> SUFFICES ASSUME NEW d \in Defs, NEW g \in [Defs -> Defs],
                      NEW h \in [Defs -> Defs], \A e \in Kids(d) : g[e] = h[e]
               PROVE  clipped[g][d] = clipped[h][d]
    BY DEF KidsOnly
  <2>1. Keeps(g, d) = Keeps(h, d)
    OBVIOUS
  <2>2. step[g][d] = step[h][d]
    BY DEF KidsOnly
  <2> HIDE DEF Keeps
  <2> QED
    BY <2>1, <2>2
<1>4. PICK f : Recursive(f, Defs, Defs, clipped)
  <2>1. CASE Defs = {}
    <3>1. [d \in Defs |-> d] = clipped[[d \in Defs |-> d]]
      BY <2>1
    <3>2. [d \in Defs |-> d] \in [Defs -> Defs]
      OBVIOUS
    <3> HIDE DEF clipped
    <3> QED
      BY <3>1, <3>2 DEF Recursive
  <2>2. CASE Defs # {}
    <3>1. PICK v : v \in Defs
      BY <2>2
    <3> HIDE DEF clipped
    <3> QED
      BY <1>2, <1>3, <3>1, TreeRecursion
  <2> QED
    BY <2>1, <2>2
<1>5. f \in [Defs -> Defs] /\ \A d \in Defs : f[d] = IF Keeps(f, d) THEN step[f][d] ELSE d
  <2> HIDE DEF Keeps
  <2> QED
    BY <1>4 DEF Recursive
<1> DEFINE T == {d \in Defs : f[d] \in Trees[Depth[d]]}
<1>6. Defs \subseteq T
  <2>1. ASSUME NEW d \in Defs, Kids(d) \subseteq T PROVE d \in T
    <3>1. Keeps(f, d)
      BY <2>1
    <3>2. f[d] = step[f][d]
      BY <1>5, <3>1
    <3> QED
      BY <1>5, <3>1, <3>2
  <2> HIDE DEF T
  <2> QED
    BY <2>1, TreeInduction
<1>7. \A d \in Defs : Keeps(f, d)
  BY <1>6, Nested
<1> HIDE DEF Keeps
<1> QED
  BY <1>5, <1>7

--------------------------------------------------------------------------------
(* Cleaning.                                                               *)

LEMMA MapSeqOf ==
  ASSUME NEW S, NEW n \in Nat, NEW f, \A i \in 1 .. n : f[i] \in S
  PROVE  /\ [i \in 1 .. n |-> f[i]] \in Seq(S)
         /\ Len([i \in 1 .. n |-> f[i]]) = n
  OBVIOUS

\* A text is cleaned to nothing, or to what a pass leaves of it.
LEMMA TextsClean ==
  ASSUME NEW t \in Texts
  PROVE  /\ Strip[t] \in Texts /\ CleanText(t) \in Option(Texts)
         /\ IsSome(CleanText(t)) <=> Strip[t] # ""
         /\ IsSome(CleanText(t)) => CleanText(t) = Some(Strip[t])
         /\ ~IsSome(CleanText(t)) => CleanText(t) = None
<1>1. Strip[t] \in Texts
  BY StripAssumption
<1>2. CASE Strip[t] = ""
  <2>1. CleanText(t) = None
    BY <1>2 DEF CleanText
  <2>2. ~IsSome(CleanText(t))
    BY <2>1 DEF IsSome
  <2> QED
    BY <1>1, <1>2, <2>1, <2>2, OptionValues
<1>3. CASE Strip[t] # ""
  <2>1. CleanText(t) = Some(Strip[t])
    BY <1>3 DEF CleanText
  <2> QED
    BY <1>1, <1>3, <2>1, OptionValues
<1> QED
  BY <1>2, <1>3

(***************************************************************************)
(* What a pass leaves of the texts of a set, and what cleaning leaves of   *)
(* them: all of that but "".                                               *)
(***************************************************************************)
StripAll(X) == {Strip[t] : t \in X}
Rest(X) == StripAll(X) \ {""}

\* A text of X is cleaned to the rest of X.
LEMMA TextOfRest ==
  ASSUME NEW X \in SUBSET Texts, NEW t \in X
  PROVE  /\ CleanText(t) \in Option(Rest(X))
         /\ IsSome(CleanText(t)) => CleanText(t)[1] \in Rest(X)
<1>1. Strip[t] \in StripAll(X)
  BY DEF StripAll
<1>2. CASE Strip[t] = ""
  <2>1. CleanText(t) = None /\ ~IsSome(None)
    BY <1>2 DEF CleanText, IsSome
  <2> QED
    BY <2>1, OptionValues
<1>3. CASE Strip[t] # ""
  <2>1. CleanText(t) = Some(Strip[t]) /\ Strip[t] \in Rest(X)
    BY <1>1, <1>3 DEF CleanText, Rest
  <2> QED
    BY <2>1, OptionValues
<1> QED
  BY <1>2, <1>3

\* So is an optional text.
LEMMA StrsOfRest ==
  ASSUME NEW X \in SUBSET Texts, NEW o \in Option(X)
  PROVE  CleanStr(o) \in Option(Rest(X))
<1>1. CASE o = None
  BY <1>1, OptionValues DEF CleanStr, IsSome
<1>2. CASE IsSome(o) /\ o[1] \in X
  BY <1>2, TextOfRest DEF CleanStr
<1> QED
  BY <1>1, <1>2, OptionValues

\* More values, more options of them and more lists.
LEMMA OptionMonotone ==
  ASSUME NEW S, NEW T, S \subseteq T
  PROVE  /\ Option(S) \subseteq Option(T) /\ Seq(S) \subseteq Seq(T)
         /\ Option(Seq(S)) \subseteq Option(Seq(T))
<1>1. Seq(S) \subseteq Seq(T)
  OBVIOUS
<1>2. Seq(Seq(S)) \subseteq Seq(Seq(T))
  BY <1>1
<1> QED
  BY <1>1, <1>2 DEF Option

\* The rest of some texts are texts.
LEMMA RestIsTexts ==
  ASSUME NEW X \in SUBSET Texts
  PROVE  StripAll(X) \in SUBSET Texts /\ Rest(X) \in SUBSET Texts
  BY TextsClean DEF StripAll, Rest

\* A cleaned optional text is one.
LEMMA StrsClean ==
  ASSUME NEW o \in Option(Texts)
  PROVE  CleanStr(o) \in Option(Texts)
<1>1. CleanStr(o) \in Option(Rest(Texts))
  BY StrsOfRest
<1>2. Option(Rest(Texts)) \subseteq Option(Texts)
  BY RestIsTexts, OptionMonotone
<1> QED
  BY <1>1, <1>2

\* An optional text with nothing to strip stays.
LEMMA StrsFixed ==
  ASSUME NEW X \in SUBSET Texts, \A t \in X : Strip[t] = t, NEW o \in Option(X \ {""})
  PROVE  CleanStr(o) = o
<1>1. CASE o = None
  BY <1>1 DEF CleanStr, IsSome
<1>2. CASE IsSome(o) /\ o[1] \in X \ {""} /\ o = Some(o[1])
  <2>1. CleanStr(o) = CleanText(o[1])
    BY <1>2 DEF CleanStr
  <2>2. CleanText(o[1]) = Some(o[1])
    BY <1>2 DEF CleanText
  <2> QED
    BY <1>2, <2>1, <2>2
<1> QED
  BY <1>1, <1>2, OptionValues

(***************************************************************************)
(* The shorthands with texts of a set.  An example and a pronunciation are *)
(* shorthands with any text.                                               *)
(***************************************************************************)
ShorthandsOf(X) ==
  {Nothing} \cup {Str(t) : t \in X} \cup {Vec(ts) : ts \in Seq(Option(X))}
    \cup {Obj(en, cn) : en \in Option(X), cn \in Option(X)}
Shorthands == ShorthandsOf(Texts)

\* More texts, more shorthands.
LEMMA ShorthandsMonotone ==
  ASSUME NEW X, NEW Z, Z \subseteq X
  PROVE  ShorthandsOf(Z) \subseteq ShorthandsOf(X)
<1>1. Option(Z) \subseteq Option(X)
  BY OptionMonotone
<1>2. Seq(Option(Z)) \subseteq Seq(Option(X))
  <2> HIDE DEF Option
  <2> QED
    BY <1>1, OptionMonotone
<1> QED
  BY <1>1, <1>2 DEF ShorthandsOf

\* The forms of a shorthand.
LEMMA ShorthandForms ==
  ASSUME NEW X, NEW ex \in ShorthandsOf(X)
  PROVE  \/ ex = Nothing
         \/ ex.tag = "str" /\ ex.text \in X /\ ex = Str(ex.text)
         \/ ex.tag = "vec" /\ ex.texts \in Seq(Option(X)) /\ ex = Vec(ex.texts)
         \/ /\ ex.tag = "obj" /\ ex.EN \in Option(X) /\ ex.CN \in Option(X)
            /\ ex = Obj(ex.EN, ex.CN)
<1>1. CASE ex \in {Str(t) : t \in X}
  BY <1>1 DEF Str
<1>2. CASE ex \in {Vec(ts) : ts \in Seq(Option(X))}
  <2>1. PICK ts \in Seq(Option(X)) : ex = Vec(ts)
    BY <1>2
  <2>2. ex.tag = "vec" /\ ex.texts = ts
    BY <2>1 DEF Vec
  <2> QED
    BY <2>1, <2>2
<1>3. CASE ex \in {Obj(en, cn) : en \in Option(X), cn \in Option(X)}
  <2>1. PICK en \in Option(X), cn \in Option(X) : ex = Obj(en, cn)
    BY <1>3
  <2>2. ex.tag = "obj" /\ ex.EN = en /\ ex.CN = cn
    BY <2>1 DEF Obj
  <2> QED
    BY <2>1, <2>2
<1> QED
  BY <1>1, <1>2, <1>3 DEF ShorthandsOf

\* The pronunciations and the examples by their forms.
LEMMA KindForms ==
  /\ Pronunciations = {Nothing} \cup {Str(t) : t \in Texts}
                        \cup {Vec(ts) : ts \in Seq(Option(Texts))}
  /\ Examples = {Nothing} \cup {Str(t) : t \in Texts}
                  \cup {Vec(ts) : ts \in {us \in Seq(Option(Texts)) : Len(us) # 2}}
                  \cup {Obj(en, cn) : en \in Option(Texts), cn \in Option(Texts)}
<1> DEFINE O == Option(Texts)
<1>1. [tag : {"str"}, text : Texts] = {Str(t) : t \in Texts}
  <2>1. \A t \in Texts : Str(t) \in [tag : {"str"}, text : Texts]
    BY DEF Str
  <2>2. \A r \in [tag : {"str"}, text : Texts] : r.text \in Texts /\ r = Str(r.text)
    BY DEF Str
  <2> QED
    BY <2>1, <2>2
<1>2. [tag : {"vec"}, texts : Seq(Option(Texts))] = {Vec(ts) : ts \in Seq(Option(Texts))}
  <2> HIDE DEF O
  <2> SUFFICES ASSUME NEW Q PROVE [tag : {"vec"}, texts : Q] = {Vec(ts) : ts \in Q}
    OBVIOUS
  <2>1. \A ts \in Q : Vec(ts) \in [tag : {"vec"}, texts : Q]
    BY DEF Vec
  <2>2. \A r \in [tag : {"vec"}, texts : Q] : r.texts \in Q /\ r = Vec(r.texts)
    BY DEF Vec
  <2> QED
    BY <2>1, <2>2
<1>3. \A r : r \in [tag : {"obj"}, EN : O, CN : O] <=> \E en, cn \in O : r = Obj(en, cn)
  <2> HIDE DEF O
  <2>1. \A en, cn \in O : Obj(en, cn) \in [tag : {"obj"}, EN : O, CN : O]
    BY DEF Obj
  <2>2. \A r \in [tag : {"obj"}, EN : O, CN : O] : r.EN \in O /\ r.CN \in O /\ r = Obj(r.EN, r.CN)
    BY DEF Obj
  <2> QED
    BY <2>1, <2>2
<1>4. Pronunciations = {Nothing} \cup {Str(t) : t \in Texts}
                         \cup {Vec(ts) : ts \in Seq(Option(Texts))}
  BY <1>1, <1>2 DEF Pronunciations
<1>5. Nothing.tag # "vec" /\ \A t : Str(t).tag # "vec"
  BY DEF Nothing, Str
<1>6. \A ts : Vec(ts).tag = "vec" /\ Vec(ts).texts = ts
  BY DEF Vec
<1>7. \A ex : ex \in {e \in Pronunciations : e.tag = "vec" => Len(e.texts) # 2}
                <=> \/ ex = Nothing \/ \E t \in Texts : ex = Str(t)
                    \/ \E ts \in Seq(Option(Texts)) : Len(ts) # 2 /\ ex = Vec(ts)
  <2> SUFFICES ASSUME NEW ex
               PROVE  ex \in Pronunciations /\ (ex.tag = "vec" => Len(ex.texts) # 2)
                        <=> \/ ex = Nothing \/ \E t \in Texts : ex = Str(t)
                            \/ \E ts \in Seq(Option(Texts)) : Len(ts) # 2 /\ ex = Vec(ts)
    OBVIOUS
  <2>1. ex \in Pronunciations <=> \/ ex = Nothing \/ \E t \in Texts : ex = Str(t)
                                  \/ \E ts \in Seq(Option(Texts)) : ex = Vec(ts)
    BY <1>4
  <2> QED
    BY <1>5, <1>6, <2>1
<1>8. \A ex : ex \in Examples
                <=> \/ ex = Nothing \/ \E t \in Texts : ex = Str(t)
                    \/ \E ts \in Seq(Option(Texts)) : Len(ts) # 2 /\ ex = Vec(ts)
                    \/ \E en, cn \in Option(Texts) : ex = Obj(en, cn)
  <2>1. \A ex : ex \in Examples
                  <=> \/ ex \in {e \in Pronunciations : e.tag = "vec" => Len(e.texts) # 2}
                      \/ ex \in [tag : {"obj"}, EN : O, CN : O]
    BY DEF Examples
  <2> HIDE DEF O
  <2>3. \A ex : ex \in Examples
                  <=> \/ ex = Nothing \/ \E t \in Texts : ex = Str(t)
                      \/ \E ts \in Seq(Option(Texts)) : Len(ts) # 2 /\ ex = Vec(ts)
                      \/ \E en, cn \in O : ex = Obj(en, cn)
    BY <1>3, <1>7, <2>1
  <2> QED
    BY <2>3 DEF O
<1>9. Examples = {Nothing} \cup {Str(t) : t \in Texts}
                   \cup {Vec(ts) : ts \in {us \in Seq(Option(Texts)) : Len(us) # 2}}
                   \cup {Obj(en, cn) : en \in Option(Texts), cn \in Option(Texts)}
  BY <1>8
<1> QED
  BY <1>4, <1>9

\* They are shorthands.
LEMMA KindsAreShorthands ==
  Examples \subseteq Shorthands /\ Pronunciations \subseteq Shorthands
  BY KindForms DEF Shorthands, ShorthandsOf

\* What cleaning does to each of the four forms.
LEMMA CleanShorthandIs ==
  /\ CleanShorthand(Nothing) = Nothing
  /\ \A t : CleanShorthand(Str(t)) =
              IF IsSome(CleanText(t)) THEN Str(CleanText(t)[1]) ELSE Nothing
  /\ \A ts : CleanShorthand(Vec(ts)) =
               IF ts = <<>> THEN Nothing ELSE Vec(MapSeq(CleanStr, ts))
  /\ \A en, cn : CleanShorthand(Obj(en, cn)) = Obj(CleanStr(en), CleanStr(cn))
<1>1. CleanShorthand(Nothing) = Nothing
  BY DEF CleanShorthand, Nothing
<1>2. ASSUME NEW t
      PROVE  CleanShorthand(Str(t)) =
               IF IsSome(CleanText(t)) THEN Str(CleanText(t)[1]) ELSE Nothing
  <2>1. Str(t).tag = "str" /\ Str(t).text = t
    BY DEF Str
  <2> HIDE DEF Str
  <2> QED
    BY <2>1 DEF CleanShorthand
<1>3. ASSUME NEW ts
      PROVE  CleanShorthand(Vec(ts)) =
               IF ts = <<>> THEN Nothing ELSE Vec(MapSeq(CleanStr, ts))
  <2>1. Vec(ts).tag = "vec" /\ Vec(ts).texts = ts
    BY DEF Vec
  <2> QED
    BY <2>1 DEF CleanShorthand
<1>4. ASSUME NEW en, NEW cn
      PROVE  CleanShorthand(Obj(en, cn)) = Obj(CleanStr(en), CleanStr(cn))
  <2>1. Obj(en, cn).tag = "obj" /\ Obj(en, cn).EN = en /\ Obj(en, cn).CN = cn
    BY DEF Obj
  <2> QED
    BY <2>1 DEF CleanShorthand
<1> QED
  BY <1>1, <1>2, <1>3, <1>4

\* A list of optional texts keeps its length.
LEMMA StrSeqsClean ==
  ASSUME NEW X \in SUBSET Texts, NEW ts \in Seq(Option(X))
  PROVE  /\ MapSeq(CleanStr, ts) \in Seq(Option(Rest(X)))
         /\ Len(MapSeq(CleanStr, ts)) = Len(ts)
         /\ \A i \in 1 .. Len(ts) : MapSeq(CleanStr, ts)[i] = CleanStr(ts[i])
         /\ (MapSeq(CleanStr, ts) = <<>>) = (ts = <<>>)
<1> DEFINE us == MapSeq(CleanStr, ts)
<1>1. \A i \in 1 .. Len(ts) : CleanStr(ts[i]) \in Option(Rest(X))
  BY StrsOfRest
<1>2. us \in Seq(Option(Rest(X))) /\ Len(us) = Len(ts)
      /\ \A i \in 1 .. Len(ts) : us[i] = CleanStr(ts[i])
  BY <1>1 DEF MapSeq
<1> HIDE DEF us
<1>3. (us = <<>>) = (ts = <<>>)
  BY <1>2
<1> QED
  BY <1>2, <1>3 DEF us

\* A sequence by its members.
LEMMA SeqIs ==
  ASSUME NEW S, NEW s \in Seq(S)
  PROVE  s = [i \in 1 .. Len(s) |-> s[i]] /\ \A i \in 1 .. Len(s) : s[i] \in S
  OBVIOUS

\* With nothing to strip it stays.
LEMMA StrSeqsFixed ==
  ASSUME NEW X \in SUBSET Texts, \A t \in X : Strip[t] = t,
         NEW ts \in Seq(Option(X \ {""}))
  PROVE  MapSeq(CleanStr, ts) = ts
<1>1. MapSeq(CleanStr, ts) = [i \in 1 .. Len(ts) |-> CleanStr(ts[i])]
  BY DEF MapSeq
<1>2. \A i \in 1 .. Len(ts) : ts[i] \in Option(X \ {""})
  BY SeqIs
<1>3. \A i \in 1 .. Len(ts) : CleanStr(ts[i]) = ts[i]
  BY <1>2, StrsFixed
<1>4. ts = [i \in 1 .. Len(ts) |-> ts[i]]
  BY SeqIs
<1> QED
  BY <1>1, <1>3, <1>4

(***************************************************************************)
(* A shorthand is cleaned to one of the rest of its texts, which is no     *)
(* empty list; an example to an example, a pronunciation to a              *)
(* pronunciation.                                                          *)
(***************************************************************************)
LEMMA ShorthandsClean ==
  ASSUME NEW X \in SUBSET Texts, NEW ex \in ShorthandsOf(X)
  PROVE  /\ CleanShorthand(ex) \in ShorthandsOf(Rest(X))
         /\ CleanShorthand(ex) # Vec(<<>>)
<1>1. /\ Nothing # Vec(<<>>) /\ \A t : Str(t) # Vec(<<>>)
      /\ \A en, cn : Obj(en, cn) # Vec(<<>>)
  <2>1. Nothing.tag = "none" /\ Vec(<<>>).tag = "vec" /\ \A t : Str(t).tag = "str"
        /\ \A en, cn : Obj(en, cn).tag = "obj"
    BY DEF Nothing, Vec, Str, Obj
  <2> QED
    BY <2>1
<1>2. ASSUME NEW us, Vec(us) = Vec(<<>>) PROVE us = <<>>
  <2>1. Vec(us).texts = us /\ Vec(<<>>).texts = <<>>
    BY DEF Vec
  <2> QED
    BY <1>2, <2>1
<1>3. CASE ex = Nothing
  BY <1>1, <1>3, CleanShorthandIs DEF ShorthandsOf
<1>4. ASSUME NEW t \in X, ex = Str(t)
      PROVE  CleanShorthand(ex) \in ShorthandsOf(Rest(X)) /\ CleanShorthand(ex) # Vec(<<>>)
  <2>1. CASE IsSome(CleanText(t))
    <3>1. CleanShorthand(ex) = Str(CleanText(t)[1]) /\ CleanText(t)[1] \in Rest(X)
      BY <1>4, <2>1, TextOfRest, CleanShorthandIs
    <3> QED
      BY <1>1, <3>1 DEF ShorthandsOf
  <2>2. CASE ~IsSome(CleanText(t))
    <3>1. CleanShorthand(ex) = Nothing
      BY <1>4, <2>2, CleanShorthandIs
    <3> QED
      BY <1>1, <3>1 DEF ShorthandsOf
  <2> QED
    BY <2>1, <2>2
<1>5. ASSUME NEW ts \in Seq(Option(X)), ex = Vec(ts)
      PROVE  CleanShorthand(ex) \in ShorthandsOf(Rest(X)) /\ CleanShorthand(ex) # Vec(<<>>)
  <2>1. CASE ts = <<>>
    <3>1. CleanShorthand(ex) = Nothing
      BY <1>5, <2>1, CleanShorthandIs
    <3> QED
      BY <1>1, <3>1 DEF ShorthandsOf
  <2>2. CASE ts # <<>>
    <3> DEFINE us == MapSeq(CleanStr, ts)
    <3>1. CleanShorthand(ex) = Vec(us)
      BY <1>5, <2>2, CleanShorthandIs
    <3>2. us \in Seq(Option(Rest(X))) /\ us # <<>>
      BY <2>2, StrSeqsClean
    <3> HIDE DEF us
    <3> QED
      BY <1>2, <3>1, <3>2 DEF ShorthandsOf
  <2> QED
    BY <2>1, <2>2
<1>6. ASSUME NEW en \in Option(X), NEW cn \in Option(X), ex = Obj(en, cn)
      PROVE  CleanShorthand(ex) \in ShorthandsOf(Rest(X)) /\ CleanShorthand(ex) # Vec(<<>>)
  <2>1. CleanShorthand(ex) = Obj(CleanStr(en), CleanStr(cn))
    BY <1>6, CleanShorthandIs
  <2>2. CleanStr(en) \in Option(Rest(X)) /\ CleanStr(cn) \in Option(Rest(X))
    BY StrsOfRest
  <2> QED
    BY <1>1, <2>1, <2>2 DEF ShorthandsOf
<1> QED
  BY <1>3, <1>4, <1>5, <1>6, ShorthandForms

\* A cleaned example is one, as is a cleaned pronunciation.
LEMMA KindsClean ==
  /\ \A ex \in Examples : CleanShorthand(ex) \in Examples
  /\ \A ex \in Pronunciations : CleanShorthand(ex) \in Pronunciations
<1>1. ASSUME NEW t \in Texts
      PROVE  CleanShorthand(Str(t)) \in {Nothing} \cup {Str(u) : u \in Texts}
  BY CleanShorthandIs, TextsClean, OptionValues
<1>2. ASSUME NEW ts \in Seq(Option(Texts))
      PROVE  \/ CleanShorthand(Vec(ts)) = Nothing
             \/ \E us \in Seq(Option(Texts)) : /\ Len(us) = Len(ts)
                                               /\ CleanShorthand(Vec(ts)) = Vec(us)
  <2> DEFINE us == MapSeq(CleanStr, ts)
  <2>1. us \in Seq(Option(Rest(Texts))) /\ Len(us) = Len(ts)
    BY StrSeqsClean
  <2>2. us \in Seq(Option(Texts))
    <3>1. Option(Rest(Texts)) \subseteq Option(Texts)
      BY RestIsTexts, OptionMonotone
    <3>2. Seq(Option(Rest(Texts))) \subseteq Seq(Option(Texts))
      <4> HIDE DEF Rest, Option
      <4> QED
        BY <3>1, OptionMonotone
    <3> QED
      BY <2>1, <3>2
  <2>3. ts # <<>> => CleanShorthand(Vec(ts)) = Vec(us)
    BY CleanShorthandIs
  <2>4. ts = <<>> => CleanShorthand(Vec(ts)) = Nothing
    BY CleanShorthandIs
  <2> HIDE DEF us
  <2> QED
    BY <2>1, <2>2, <2>3, <2>4
<1>3. \A en, cn \in Option(Texts) :
        CleanShorthand(Obj(en, cn)) \in {Obj(a, b) : a \in Option(Texts), b \in Option(Texts)}
  BY CleanShorthandIs, StrsClean
<1>4. CleanShorthand(Nothing) = Nothing
  BY CleanShorthandIs
<1>5. ASSUME NEW ex \in Examples PROVE CleanShorthand(ex) \in Examples
  <2>1. CASE ex = Nothing \/ \E t \in Texts : ex = Str(t)
    BY <1>1, <1>4, <2>1, KindForms
  <2>2. CASE \E ts \in Seq(Option(Texts)) : Len(ts) # 2 /\ ex = Vec(ts)
    <3>1. PICK ts \in Seq(Option(Texts)) : Len(ts) # 2 /\ ex = Vec(ts)
      BY <2>2
    <3> QED
      BY <1>2, <3>1, KindForms
  <2>3. CASE \E en, cn \in Option(Texts) : ex = Obj(en, cn)
    BY <1>3, <2>3, KindForms
  <2> QED
    BY <2>1, <2>2, <2>3, KindForms
<1>6. ASSUME NEW ex \in Pronunciations PROVE CleanShorthand(ex) \in Pronunciations
  <2>1. CASE ex = Nothing \/ \E t \in Texts : ex = Str(t)
    BY <1>1, <1>4, <2>1, KindForms
  <2>2. CASE \E ts \in Seq(Option(Texts)) : ex = Vec(ts)
    BY <1>2, <2>2, KindForms
  <2> QED
    BY <2>1, <2>2, KindForms
<1> QED
  BY <1>5, <1>6

\* With nothing to strip a shorthand that is no empty list stays.
LEMMA ShorthandsFixed ==
  ASSUME NEW X \in SUBSET Texts, \A t \in X : Strip[t] = t,
         NEW ex \in ShorthandsOf(X \ {""}), ex # Vec(<<>>)
  PROVE  CleanShorthand(ex) = ex
<1>1. CASE ex = Nothing
  BY <1>1, CleanShorthandIs
<1>2. ASSUME NEW t \in X \ {""}, ex = Str(t) PROVE CleanShorthand(ex) = ex
  <2>1. CleanText(t) = Some(t)
    BY <1>2 DEF CleanText
  <2>2. IsSome(Some(t)) /\ Some(t)[1] = t
    BY DEF IsSome, Some, None
  <2>3. CleanShorthand(Str(t)) = Str(t)
    BY <2>1, <2>2, CleanShorthandIs
  <2> QED
    BY <1>2, <2>3
<1>3. ASSUME NEW ts \in Seq(Option(X \ {""})), ex = Vec(ts) PROVE CleanShorthand(ex) = ex
  <2>1. ts # <<>>
    BY <1>3
  <2>2. CleanShorthand(ex) = Vec(MapSeq(CleanStr, ts))
    BY <1>3, <2>1, CleanShorthandIs
  <2> QED
    BY <1>3, <2>2, StrSeqsFixed
<1>4. ASSUME NEW en \in Option(X \ {""}), NEW cn \in Option(X \ {""}), ex = Obj(en, cn)
      PROVE  CleanShorthand(ex) = ex
  BY <1>4, CleanShorthandIs, StrsFixed
<1> QED
  BY <1>1, <1>2, <1>3, <1>4, ShorthandForms

(***************************************************************************)
(* CleanSeq with a function, and what the optional lists it makes have.    *)
(***************************************************************************)
CleanSeqBy(f, o) == CleanSeq(LAMBDA e : f[e], o)

\* What CleanSeq does to the members of a list, and that only an empty list
\* becomes nothing.
LEMMA CleanSeqMakes ==
  ASSUME NEW S, NEW T, NEW o \in Option(Seq(S)), NEW f,
         \A i \in 1 .. Len(Items(o)) : f[Items(o)[i]] \in T
  PROVE  /\ CleanSeqBy(f, o) \in Option(Seq(T))
         /\ Items(CleanSeqBy(f, o)) \in Seq(T)
         /\ Len(Items(CleanSeqBy(f, o))) = Len(Items(o))
         /\ \A i \in 1 .. Len(Items(o)) : Items(CleanSeqBy(f, o))[i] = f[Items(o)[i]]
         /\ IsSome(CleanSeqBy(f, o)) <=> Items(o) # <<>>
<1>1. CASE IsSome(o) /\ o[1] # <<>>
  <2> DEFINE s == [i \in 1 .. Len(o[1]) |-> f[o[1][i]]]
  <2>1. Items(o) = o[1] /\ o[1] \in Seq(S) /\ Len(o[1]) \in Nat /\ Len(o[1]) # 0
    BY <1>1, ItemsOf DEF Items
  <2>2. s \in Seq(T) /\ Len(s) = Len(o[1]) /\ \A i \in 1 .. Len(o[1]) : s[i] = f[o[1][i]]
    BY <2>1
  <2>3. CleanSeqBy(f, o) = Some(s)
    BY <1>1 DEF CleanSeqBy, CleanSeq, MapSeq
  <2> HIDE DEF s
  <2>4. CleanSeqBy(f, o) \in Option(Seq(T)) /\ IsSome(CleanSeqBy(f, o))
        /\ Items(CleanSeqBy(f, o)) = s
    BY <2>2, <2>3, OptionValues DEF Items
  <2> QED
    BY <1>1, <2>1, <2>2, <2>4
<1>2. CASE ~(IsSome(o) /\ o[1] # <<>>)
  <2>1. CleanSeqBy(f, o) = None
    BY <1>2 DEF CleanSeqBy, CleanSeq
  <2>2. Items(o) = <<>> /\ Items(None) = <<>>
    BY <1>2 DEF Items, IsSome
  <2>3. ~IsSome(None) /\ None \in Option(Seq(T)) /\ <<>> \in Seq(T) /\ Len(<<>>) = 0
    BY OptionValues DEF IsSome
  <2> QED
    BY <2>1, <2>2, <2>3
<1> QED
  BY <1>1, <1>2

\* A list of clean members that is not empty is left as it is.
LEMMA CleanSeqFixed ==
  ASSUME NEW S, NEW o \in Option(Seq(S)), NEW f,
         IsSome(o) => Items(o) # <<>>,
         \A i \in 1 .. Len(Items(o)) : f[Items(o)[i]] = Items(o)[i]
  PROVE  CleanSeqBy(f, o) = o
<1>1. CASE o = None
  BY <1>1 DEF CleanSeqBy, CleanSeq, IsSome
<1>2. CASE IsSome(o) /\ o[1] \in Seq(S) /\ o = Some(o[1])
  <2>1. Items(o) = o[1] /\ o[1] # <<>>
    BY <1>2 DEF Items
  <2>2. [i \in 1 .. Len(o[1]) |-> f[o[1][i]]] = o[1]
    <3>1. o[1] = [i \in 1 .. Len(o[1]) |-> o[1][i]]
      BY <1>2
    <3>2. \A i \in 1 .. Len(o[1]) : f[o[1][i]] = o[1][i]
      BY <2>1
    <3> QED
      BY <3>1, <3>2
  <2>3. CleanSeqBy(f, o) = Some([i \in 1 .. Len(o[1]) |-> f[o[1][i]]])
    BY <1>2, <2>1 DEF CleanSeqBy, CleanSeq, MapSeq
  <2> QED
    BY <1>2, <2>2, <2>3
<1> QED
  BY <1>1, <1>2, OptionValues

ShorthandOf == [ex \in Shorthands |-> CleanShorthand(ex)]

\* The members of cleaned examples.
LEMMA ExamplesClean ==
  ASSUME NEW o \in Option(Seq(Shorthands))
  PROVE  /\ CleanSeq(CleanShorthand, o) = CleanSeqBy(ShorthandOf, o)
         /\ \A i \in 1 .. Len(Items(o)) : ShorthandOf[Items(o)[i]] = CleanShorthand(Items(o)[i])
<1>1. CASE IsSome(o)
  <2>1. o[1] \in Seq(Shorthands)
    BY <1>1, OptionValues DEF IsSome
  <2>2. \A i \in 1 .. Len(o[1]) : CleanShorthand(o[1][i]) = ShorthandOf[o[1][i]]
    BY <2>1 DEF ShorthandOf
  <2> QED
    BY <1>1, <2>2 DEF CleanSeqBy, CleanSeq, MapSeq, Items
<1>2. CASE ~IsSome(o)
  BY <1>2 DEF CleanSeqBy, CleanSeq, Items
<1> QED
  BY <1>1, <1>2

\* Examples and pronunciations, cleaned, are examples and pronunciations.
LEMMA OwnKindsClean ==
  /\ \A o \in Option(Seq(Examples)) : CleanSeq(CleanShorthand, o) \in Option(Seq(Examples))
  /\ \A o \in Option(Pronunciations) : CleanOption(o) \in Option(Pronunciations)
<1>1. ASSUME NEW o \in Option(Seq(Examples))
      PROVE  CleanSeq(CleanShorthand, o) \in Option(Seq(Examples))
  <2>1. o \in Option(Seq(Shorthands))
    BY KindsAreShorthands, OptionMonotone
  <2>2. \A i \in 1 .. Len(Items(o)) : ShorthandOf[Items(o)[i]] \in Examples
    <3>1. Items(o) \in Seq(Examples)
      BY ItemsOf
    <3>2. \A i \in 1 .. Len(Items(o)) : CleanShorthand(Items(o)[i]) \in Examples
      BY <3>1, KindsClean
    <3> QED
      BY <2>1, <3>2, ExamplesClean
  <2>3. CleanSeqBy(ShorthandOf, o) \in Option(Seq(Examples))
    BY <2>2, CleanSeqMakes
  <2> QED
    BY <2>1, <2>3, ExamplesClean
<1>2. ASSUME NEW o \in Option(Pronunciations)
      PROVE  CleanOption(o) \in Option(Pronunciations)
  <2>1. CASE IsSome(o) /\ CleanShorthand(o[1]) # Nothing
    <3>1. CleanOption(o) = Some(CleanShorthand(o[1])) /\ o[1] \in Pronunciations
      BY <2>1, OptionValues DEF CleanOption, IsSome
    <3> QED
      BY <3>1, KindsClean, OptionValues
  <2>2. CASE ~(IsSome(o) /\ CleanShorthand(o[1]) # Nothing)
    BY <2>2, OptionValues DEF CleanOption
  <2> QED
    BY <2>1, <2>2
<1> QED
  BY <1>1, <1>2

(***************************************************************************)
(* The fields of a cleaned definition, given what is nested in it.         *)
(***************************************************************************)
Cleaned(d, defs, groups) ==
  [d EXCEPT !.word = CleanStr(@), !.CN = CleanStr(@), !.EN = CleanStr(@),
            !.info = CleanStr(@), !.type = CleanStr(@),
            !.etymology = CleanSeqBy(Strip, @),
            !.examples = CleanSeq(CleanShorthand, @),
            !.pronunciation = CleanOption(@),
            !.definitions = defs, !.groups = groups]

\* The fields of a cleaned definition.
LEMMA CleanedFields ==
  ASSUME NEW S, NEW d \in Over(S), NEW defs, NEW groups
  PROVE  LET c == Cleaned(d, defs, groups) IN
         /\ c.word = CleanStr(d.word) /\ c.CN = CleanStr(d.CN) /\ c.EN = CleanStr(d.EN)
         /\ c.info = CleanStr(d.info) /\ c.type = CleanStr(d.type)
         /\ c.etymology = CleanSeqBy(Strip, d.etymology)
         /\ c.examples = CleanSeq(CleanShorthand, d.examples)
         /\ c.pronunciation = CleanOption(d.pronunciation)
         /\ c.definitions = defs /\ c.groups = groups
  BY DEF Over, Cleaned

\* A cleaned definition is one over what is nested in it.
LEMMA CleanedIsOver ==
  ASSUME NEW S, NEW d \in Over(S), NEW T,
         NEW defs \in Option(Seq(T)), NEW groups \in Option(Seq(T))
  PROVE  Cleaned(d, defs, groups) \in Over(T)
<1>1. /\ CleanStr(d.word) \in Option(Texts) /\ CleanStr(d.CN) \in Option(Texts)
      /\ CleanStr(d.EN) \in Option(Texts) /\ CleanStr(d.info) \in Option(Texts)
      /\ CleanStr(d.type) \in Option(Texts)
  BY OverFields, StrsClean
<1>2. CleanSeqBy(Strip, d.etymology) \in Option(Seq(Texts))
  <2>1. Items(d.etymology) \in Seq(Texts) /\ d.etymology \in Option(Seq(Texts))
    BY OverFields, ItemsOf
  <2>2. \A i \in 1 .. Len(Items(d.etymology)) : Items(d.etymology)[i] \in Texts
    BY <2>1
  <2>3. \A i \in 1 .. Len(Items(d.etymology)) : Strip[Items(d.etymology)[i]] \in Texts
    BY <2>2, TextsClean
  <2> QED
    BY <2>1, <2>3, CleanSeqMakes
<1>3. /\ CleanSeq(CleanShorthand, d.examples) \in Option(Seq(Examples))
      /\ CleanOption(d.pronunciation) \in Option(Pronunciations)
  BY OverFields, OwnKindsClean
<1> QED
  BY <1>1, <1>2, <1>3 DEF Cleaned, Over

\* The level right below a definition's own has all that is nested in it.
LEMMA NestedAtLevel ==
  ASSUME NEW d \in Defs
  PROVE  \E S : /\ d \in Over(S) /\ Trees[Depth[d]] = Over(S)
                /\ Items(d.definitions) \in Seq(S) /\ Items(d.groups) \in Seq(S)
                /\ \A e \in Kids(d) : Trees[Depth[e]] \subseteq S
<1>1. Depth[d] \in Nat /\ d \in Trees[Depth[d]]
  BY DepthLeast
<1> DEFINE S == IF Depth[d] = 0 THEN {} ELSE Trees[Depth[d] - 1]
<1>2. Trees[Depth[d]] = Over(S)
  BY <1>1, TreesUnfold
<1>3. ASSUME NEW e \in Kids(d) PROVE Trees[Depth[e]] \subseteq S
  <2>1. Depth[e] < Depth[d] /\ Depth[e] \in Nat
    BY DepthOfKids, DepthLeast
  <2>2. Depth[d] # 0 /\ Depth[e] <= Depth[d] - 1 /\ Depth[d] - 1 \in Nat
    BY <1>1, <2>1
  <2> QED
    BY <2>1, <2>2, TreesMonotone
<1> HIDE DEF S
<1>4. d \in Over(S)
  BY <1>1, <1>2
<1>5. Items(d.definitions) \in Seq(S) /\ Items(d.groups) \in Seq(S)
  BY <1>4, OverFields, ItemsOf
<1> QED
  BY <1>2, <1>3, <1>4, <1>5

\* Cleanup satisfies its equation, and its values are definitions.
LEMMA CleanupUnfold ==
  /\ Cleanup \in [Defs -> Defs]
  /\ \A d \in Defs : Cleanup[d] = Cleaned(d, CleanSeqBy(Cleanup, d.definitions),
                                             CleanSeqBy(Cleanup, d.groups))
<1> DEFINE Body(g, d) == Cleaned(d, CleanSeqBy(g, d.definitions), CleanSeqBy(g, d.groups))
           Def(g) == g = [d \in Defs |-> Body(g, d)]
           step == [g \in [Defs -> Defs] |-> [d \in Defs |-> Body(g, d)]]
<1>1. ASSUME NEW d \in Defs, NEW g, NEW h, \A e \in Kids(d) : g[e] = h[e]
      PROVE  Body(g, d) = Body(h, d)
  <2>1. ASSUME NEW o \in {d.definitions, d.groups} PROVE CleanSeqBy(g, o) = CleanSeqBy(h, o)
    <3>1. \A i \in 1 .. Len(Items(o)) : g[Items(o)[i]] = h[Items(o)[i]]
      BY <1>1, Nested
    <3>2. IsSome(o) => Items(o) = o[1]
      BY DEF Items
    <3> QED
      BY <3>1, <3>2 DEF CleanSeqBy, CleanSeq, MapSeq
  <2> QED
    BY <2>1
<1>2. KidsOnly(step, Defs)
  <2> SUFFICES ASSUME NEW d \in Defs, NEW g \in [Defs -> Defs],
                      NEW h \in [Defs -> Defs], \A e \in Kids(d) : g[e] = h[e]
               PROVE  step[g][d] = step[h][d]
    BY DEF KidsOnly
  <2> HIDE DEF Body
  <2>1. Body(g, d) = Body(h, d)
    BY <1>1
  <2> QED
    BY <2>1
<1>3. ASSUME NEW g, NEW d \in Defs, \A e \in Kids(d) : g[e] \in Trees[Depth[e]]
      PROVE  Body(g, d) \in Trees[Depth[d]]
  <2>1. PICK S : /\ d \in Over(S) /\ Trees[Depth[d]] = Over(S)
                 /\ Items(d.definitions) \in Seq(S) /\ Items(d.groups) \in Seq(S)
                 /\ \A e \in Kids(d) : Trees[Depth[e]] \subseteq S
    BY NestedAtLevel
  <2>2. \A e \in Kids(d) : g[e] \in S
    BY <1>3, <2>1
  <2>3. d.definitions \in Option(Seq(S)) /\ d.groups \in Option(Seq(S))
    BY <2>1, OverFields
  <2>4. /\ \A i \in 1 .. Len(Items(d.definitions)) : g[Items(d.definitions)[i]] \in S
        /\ \A i \in 1 .. Len(Items(d.groups)) : g[Items(d.groups)[i]] \in S
    BY <2>2, Nested
  <2>5. /\ CleanSeqBy(g, d.definitions) \in Option(Seq(S))
        /\ CleanSeqBy(g, d.groups) \in Option(Seq(S))
    BY <2>3, <2>4, CleanSeqMakes
  <2> QED
    BY <2>1, <2>5, CleanedIsOver
<1>4. PICK f \in [Defs -> Defs] : \A d \in Defs : f[d] = step[f][d]
  <2>1. ASSUME NEW g \in [Defs -> Defs], NEW d \in Defs,
               \A e \in Kids(d) : g[e] \in Trees[Depth[e]]
        PROVE  step[g][d] \in Trees[Depth[d]]
    <3> HIDE DEF Body
    <3> QED
      BY <1>3, <2>1
  <2> HIDE DEF step
  <2> QED
    BY <1>2, <2>1, DefRecursion
<1>5. Def(f)
  <2> HIDE DEF Body
  <2> QED
    BY <1>4
<1>6. Def(CHOOSE g : Def(g))
  <2> HIDE DEF Def
  <2> QED
    BY <1>5
<1>7. Cleanup = CHOOSE g : Def(g)
  BY DEF Cleanup, Cleaned, CleanSeqBy
<1>8. Def(Cleanup)
  <2> HIDE DEF Def
  <2> QED
    BY <1>6, <1>7
<1>9. \A d \in Defs : Cleanup[d] = Body(Cleanup, d)
  <2> HIDE DEF Body
  <2> QED
    BY <1>8
<1> DEFINE T == {d \in Defs : Cleanup[d] \in Trees[Depth[d]]}
<1>10. Defs \subseteq T
  <2>1. ASSUME NEW d \in Defs, Kids(d) \subseteq T PROVE d \in T
    <3>1. \A e \in Kids(d) : Cleanup[e] \in Trees[Depth[e]]
      BY <2>1
    <3> HIDE DEF Body
    <3> QED
      BY <1>3, <1>9, <3>1
  <2> HIDE DEF T
  <2> QED
    BY <2>1, TreeInduction
<1>11. \A d \in Defs : Trees[Depth[d]] \subseteq Defs
  BY DepthLeast, TreesMonotone, DepthAssumption DEF Defs
<1>12. Cleanup \in [Defs -> Defs]
  <2> HIDE DEF Body
  <2> QED
    BY <1>8, <1>10, <1>11
<1> QED
  BY <1>9, <1>12

(***************************************************************************)
(* Again and again.  A recursion over Nat, each of whose values comes from *)
(* the one before, has a solution.                                         *)
(***************************************************************************)
LEMMA NatSteps ==
  ASSUME NEW W, NEW base \in W, NEW step \in [Nat -> [W -> W]]
  PROVE  \E f \in [Nat -> W] :
           \A n \in Nat : f[n] = IF n = 0 THEN base ELSE step[n - 1][f[n - 1]]
<1> DEFINE rank == [n \in Nat |-> n]
           start == [n \in Nat |-> base]
           next(g) == [n \in Nat |-> IF n = 0 THEN base ELSE step[n - 1][g[n - 1]]]
           recur == [g \in [Nat -> W] |-> next(g)]
<1>1. rank \in [Nat -> Nat] /\ start \in [Nat -> W]
  OBVIOUS
<1>2. recur \in [[Nat -> W] -> [Nat -> W]]
  <2> SUFFICES ASSUME NEW g \in [Nat -> W], NEW n \in Nat
               PROVE  (IF n = 0 THEN base ELSE step[n - 1][g[n - 1]]) \in W
    OBVIOUS
  <2>1. CASE n # 0
    <3>1. n - 1 \in Nat
      BY <2>1
    <3>2. g[n - 1] \in W /\ step[n - 1] \in [W -> W]
      BY <3>1
    <3> QED
      BY <3>2
  <2> QED
    BY <2>1
<1>3. LowerOnly(recur, Nat, W, rank)
  <2> SUFFICES ASSUME NEW n \in Nat, NEW g \in [Nat -> W], NEW h \in [Nat -> W],
                      \A k \in Nat : rank[k] < rank[n] => g[k] = h[k]
               PROVE  recur[g][n] = recur[h][n]
    BY DEF LowerOnly
  <2>1. n # 0 => n - 1 \in Nat /\ n - 1 < n
    OBVIOUS
  <2>2. n # 0 => g[n - 1] = h[n - 1]
    BY <2>1
  <2>3. next(g)[n] = next(h)[n]
    BY <2>2
  <2>4. recur[g] = next(g) /\ recur[h] = next(h)
    OBVIOUS
  <2> HIDE DEF next, recur
  <2> QED
    BY <2>3, <2>4
<1>4. PICK f : Recursive(f, Nat, W, recur)
  <2> HIDE DEF rank, start, recur
  <2> QED
    BY <1>1, <1>2, <1>3, RankRecursion
<1>5. f \in [Nat -> W] /\ f = next(f)
  <2>1. f \in [Nat -> W] /\ f = recur[f]
    BY <1>4 DEF Recursive
  <2>2. recur[f] = next(f)
    BY <2>1
  <2> QED
    BY <2>1, <2>2
<1>6. \A n \in Nat : f[n] = next(f)[n]
  BY <1>5
<1> QED
  BY <1>5, <1>6

\* The texts after n passes.
LEMMA StrippedUnfold ==
  /\ Stripped[0] = Texts
  /\ \A n \in Nat : Stripped[n] \in SUBSET Texts /\ Stripped[n + 1] = StripAll(Stripped[n])
<1> DEFINE W == SUBSET Texts
           step == [n \in Nat |-> [X \in W |-> StripAll(X)]]
           Def(g) == g = [n \in Nat |-> IF n = 0 THEN Texts ELSE {Strip[t] : t \in g[n - 1]}]
<1>1. step \in [Nat -> [W -> W]] /\ Texts \in W
  BY RestIsTexts
<1>2. PICK f \in [Nat -> W] : \A n \in Nat : f[n] = IF n = 0 THEN Texts ELSE step[n - 1][f[n - 1]]
  <2> HIDE DEF W, step
  <2> QED
    BY <1>1, NatSteps
<1>3. Def(f)
  <2> SUFFICES ASSUME NEW n \in Nat
               PROVE  f[n] = IF n = 0 THEN Texts ELSE {Strip[t] : t \in f[n - 1]}
    OBVIOUS
  <2>1. CASE n # 0
    <3>1. n - 1 \in Nat /\ f[n - 1] \in W
      BY <2>1
    <3>2. step[n - 1][f[n - 1]] = StripAll(f[n - 1])
      BY <3>1
    <3> QED
      BY <1>2, <2>1, <3>2 DEF StripAll
  <2> QED
    BY <1>2, <2>1
<1>4. Def(CHOOSE g : Def(g))
  <2> HIDE DEF Def
  <2> QED
    BY <1>3
<1>5. Stripped = CHOOSE g : Def(g)
  BY DEF Stripped
<1>6. Def(Stripped)
  <2> HIDE DEF Def
  <2> QED
    BY <1>4, <1>5
<1>7. \A n \in Nat : Stripped[n] = IF n = 0 THEN Texts ELSE {Strip[t] : t \in Stripped[n - 1]}
  BY <1>6
<1>8. Stripped[0] = Texts
  BY <1>7
<1>9. ASSUME NEW n \in Nat PROVE Stripped[n + 1] = StripAll(Stripped[n])
  <2>1. n + 1 \in Nat /\ n + 1 # 0 /\ (n + 1) - 1 = n
    OBVIOUS
  <2> HIDE DEF Def
  <2> QED
    BY <1>7, <2>1 DEF StripAll
<1> DEFINE T == {n \in Nat : Stripped[n] \in SUBSET Texts}
<1>10. Nat \subseteq T
  <2>1. 0 \in T
    BY <1>8
  <2>2. ASSUME NEW n \in Nat, n \in T PROVE n + 1 \in T
    BY <1>9, <2>2, RestIsTexts
  <2> HIDE DEF T
  <2> QED
    BY <2>1, <2>2, NatSetInduction
<1> QED
  BY <1>8, <1>9, <1>10

\* After Passes passes nothing is left to strip.
LEMMA StrippedSettles ==
  ASSUME NEW n \in Nat, n >= Passes
  PROVE  \A t \in Stripped[n] : Strip[t] = t
<1> DEFINE T == {k \in Nat : \A t \in Stripped[Passes + k] : Strip[t] = t}
<1>1. Nat \subseteq T
  <2>1. 0 \in T
    BY PassesAssumption
  <2>2. ASSUME NEW k \in Nat, k \in T PROVE k + 1 \in T
    <3>1. Passes + k \in Nat /\ Passes + (k + 1) = (Passes + k) + 1
      BY PassesAssumption
    <3>2. Stripped[Passes + (k + 1)] = {Strip[t] : t \in Stripped[Passes + k]}
      BY <3>1, StrippedUnfold DEF StripAll
    <3> QED
      BY <2>2, <3>2
  <2> HIDE DEF T
  <2> QED
    BY <2>1, <2>2, NatSetInduction
<1>2. n - Passes \in Nat /\ Passes + (n - Passes) = n
  BY PassesAssumption
<1> QED
  BY <1>1, <1>2

\* The definitions after n cleanups.
LEMMA CleaningsUnfold ==
  /\ \A n \in Nat : Cleanings[n] \in [Defs -> Defs]
  /\ \A d \in Defs : Cleanings[0][d] = d
  /\ \A n \in Nat : \A d \in Defs : Cleanings[n + 1][d] = Cleanup[Cleanings[n][d]]
<1> DEFINE W == [Defs -> Defs]
           id == [d \in Defs |-> d]
           step == [n \in Nat |-> [c \in W |-> [d \in Defs |-> Cleanup[c[d]]]]]
           Def(g) == g = [n \in Nat |->
                            [d \in Defs |-> IF n = 0 THEN d ELSE Cleanup[g[n - 1][d]]]]
<1>1. step \in [Nat -> [W -> W]] /\ id \in W
  BY CleanupUnfold
<1>2. PICK f \in [Nat -> W] : \A n \in Nat : f[n] = IF n = 0 THEN id ELSE step[n - 1][f[n - 1]]
  <2> HIDE DEF W, step, id
  <2> QED
    BY <1>1, NatSteps
<1>3. Def(f)
  <2> SUFFICES ASSUME NEW n \in Nat
               PROVE  f[n] = [d \in Defs |-> IF n = 0 THEN d ELSE Cleanup[f[n - 1][d]]]
    OBVIOUS
  <2>1. CASE n # 0
    <3>1. n - 1 \in Nat /\ f[n - 1] \in W
      BY <2>1
    <3>2. step[n - 1][f[n - 1]] = [d \in Defs |-> Cleanup[f[n - 1][d]]]
      BY <3>1
    <3> QED
      BY <1>2, <2>1, <3>2
  <2>2. CASE n = 0
    BY <1>2, <2>2
  <2> QED
    BY <2>1, <2>2
<1>4. Def(CHOOSE g : Def(g))
  <2> HIDE DEF Def
  <2> QED
    BY <1>3
<1>5. Cleanings = CHOOSE g : Def(g)
  BY DEF Cleanings
<1>6. Def(Cleanings)
  <2> HIDE DEF Def
  <2> QED
    BY <1>4, <1>5
<1>7. \A n \in Nat : Cleanings[n]
                       = [d \in Defs |-> IF n = 0 THEN d ELSE Cleanup[Cleanings[n - 1][d]]]
  BY <1>6
<1>8. Cleanings[0] = [d \in Defs |-> d]
  BY <1>7
<1>9. ASSUME NEW n \in Nat PROVE Cleanings[n + 1] = [d \in Defs |-> Cleanup[Cleanings[n][d]]]
  <2>1. n + 1 \in Nat /\ n + 1 # 0 /\ (n + 1) - 1 = n
    OBVIOUS
  <2>2. Cleanings[n + 1] = [d \in Defs |-> IF n + 1 = 0 THEN d
                                           ELSE Cleanup[Cleanings[(n + 1) - 1][d]]]
    <3> HIDE DEF Def
    <3> QED
      BY <1>7, <2>1
  <2> QED
    BY <2>1, <2>2
<1> DEFINE T == {n \in Nat : Cleanings[n] \in [Defs -> Defs]}
<1>10. Nat \subseteq T
  <2>1. 0 \in T
    BY <1>8
  <2>2. ASSUME NEW n \in Nat, n \in T PROVE n + 1 \in T
    <3>1. Cleanings[n] \in [Defs -> Defs]
      BY <2>2
    <3>2. \A d \in Defs : Cleanup[Cleanings[n][d]] \in Defs
      BY <3>1, CleanupUnfold
    <3>3. Cleanings[n + 1] = [d \in Defs |-> Cleanup[Cleanings[n][d]]]
      BY <1>9
    <3> QED
      BY <3>2, <3>3
  <2> HIDE DEF T
  <2> QED
    BY <2>1, <2>2, NatSetInduction
<1>11. \A n \in Nat : Cleanings[n] \in [Defs -> Defs]
  BY <1>10
<1>12. \A d \in Defs : Cleanings[0][d] = d
  BY <1>8
<1>13. ASSUME NEW n \in Nat, NEW d \in Defs
       PROVE  Cleanings[n + 1][d] = Cleanup[Cleanings[n][d]]
  BY <1>9
<1> QED
  BY <1>11, <1>12, <1>13

(***************************************************************************)
(* The texts a definition has by itself, and a definition that cleaning    *)
(* has tidied: its texts are not "", except that one of the etymology,     *)
(* which then cannot be read back, and none of its lists is empty.         *)
(***************************************************************************)
TextsFrom(d, X) ==
  /\ d.word \in Option(X) /\ d.CN \in Option(X) /\ d.EN \in Option(X)
  /\ d.info \in Option(X) /\ d.type \in Option(X)
  /\ d.etymology \in Option(Seq(X))
  /\ d.examples \in Option(Seq(ShorthandsOf(X)))
  /\ d.pronunciation \in Option(ShorthandsOf(X))

Tight(Y) == {ex \in ShorthandsOf(Y) : ex # Vec(<<>>)}

Tidy(d, X) ==
  /\ d.word \in Option(X \ {""}) /\ d.CN \in Option(X \ {""}) /\ d.EN \in Option(X \ {""})
  /\ d.info \in Option(X \ {""}) /\ d.type \in Option(X \ {""})
  /\ d.etymology \in Option(Seq(X))
  /\ d.examples \in Option(Seq(Tight(X \ {""})))
  /\ d.pronunciation \in Option(Tight(X \ {""}) \ {Nothing})
  /\ \A o \in {d.etymology, d.examples, d.definitions, d.groups} :
       IsSome(o) => Items(o) # <<>>

\* Any definition has texts of Texts.
LEMMA TextsFromTexts ==
  ASSUME NEW d \in Defs
  PROVE  TextsFrom(d, Texts)
<1>1. /\ d.examples \in Option(Seq(Shorthands)) /\ d.pronunciation \in Option(Shorthands)
  BY DefFields, KindsAreShorthands, OptionMonotone
<1> QED
  BY <1>1, DefFields DEF TextsFrom, Shorthands

\* A tidy definition has its texts of the same set.
LEMMA TidyTexts ==
  ASSUME NEW d, NEW X, Tidy(d, X)
  PROVE  TextsFrom(d, X)
<1>1. Option(X \ {""}) \subseteq Option(X)
  BY OptionMonotone
<1>2. ShorthandsOf(X \ {""}) \subseteq ShorthandsOf(X)
  BY ShorthandsMonotone
<1>3. Tight(X \ {""}) \subseteq ShorthandsOf(X)
  BY <1>2 DEF Tight
<1>4. /\ Option(Seq(Tight(X \ {""}))) \subseteq Option(Seq(ShorthandsOf(X)))
      /\ Option(Tight(X \ {""}) \ {Nothing}) \subseteq Option(ShorthandsOf(X))
  BY <1>3, OptionMonotone
<1> QED
  BY <1>1, <1>4 DEF Tidy, TextsFrom

\* A list that is not empty stays so, and an empty one goes.
LEMMA CleanSeqTight ==
  ASSUME NEW S, NEW T, NEW o \in Option(Seq(S)), NEW f,
         \A i \in 1 .. Len(Items(o)) : f[Items(o)[i]] \in T
  PROVE  IsSome(CleanSeqBy(f, o)) => Items(CleanSeqBy(f, o)) # <<>>
<1> DEFINE p == CleanSeqBy(f, o)
<1>1. Len(Items(p)) = Len(Items(o)) /\ (IsSome(p) <=> Items(o) # <<>>)
      /\ Items(o) \in Seq(S) /\ Items(p) \in Seq(T)
  BY CleanSeqMakes, ItemsOf
<1> HIDE DEF p
<1>2. IsSome(p) => Items(p) # <<>>
  BY <1>1
<1> QED
  BY <1>2 DEF p

(***************************************************************************)
(* Cleanup tidies a definition.                                            *)
(***************************************************************************)
LEMMA CleanupTidies ==
  ASSUME NEW d \in Defs, NEW X \in SUBSET Texts, TextsFrom(d, X)
  PROVE  Tidy(Cleanup[d], StripAll(X))
<1> DEFINE c == Cleanup[d]
           Y == StripAll(X) \ {""}
           ety == CleanSeqBy(Strip, d.etymology)
           exs == CleanSeqBy(ShorthandOf, d.examples)
<1>1. /\ c.word = CleanStr(d.word) /\ c.CN = CleanStr(d.CN) /\ c.EN = CleanStr(d.EN)
      /\ c.info = CleanStr(d.info) /\ c.type = CleanStr(d.type)
      /\ c.etymology = ety
      /\ c.examples = CleanSeq(CleanShorthand, d.examples)
      /\ c.pronunciation = CleanOption(d.pronunciation)
      /\ c.definitions = CleanSeqBy(Cleanup, d.definitions)
      /\ c.groups = CleanSeqBy(Cleanup, d.groups)
  BY CleanupUnfold, CleanedFields, DefIsOver
<1>2. /\ c.word \in Option(Y) /\ c.CN \in Option(Y) /\ c.EN \in Option(Y)
      /\ c.info \in Option(Y) /\ c.type \in Option(Y)
  BY <1>1, StrsOfRest DEF TextsFrom, Rest
<1>3. ety \in Option(Seq(StripAll(X))) /\ (IsSome(ety) => Items(ety) # <<>>)
  <2>1. d.etymology \in Option(Seq(X))
    BY DEF TextsFrom
  <2>2. \A i \in 1 .. Len(Items(d.etymology)) : Strip[Items(d.etymology)[i]] \in StripAll(X)
    BY <2>1, ItemsOf DEF StripAll
  <2> QED
    BY <2>1, <2>2, CleanSeqMakes, CleanSeqTight
<1>4. ASSUME NEW ex \in ShorthandsOf(X) PROVE CleanShorthand(ex) \in Tight(Y)
  BY ShorthandsClean DEF Tight, Rest
<1>5. c.examples = exs /\ exs \in Option(Seq(Tight(Y))) /\ (IsSome(exs) => Items(exs) # <<>>)
  <2>1. d.examples \in Option(Seq(ShorthandsOf(X))) /\ Items(d.examples) \in Seq(ShorthandsOf(X))
    BY ItemsOf DEF TextsFrom
  <2>2. d.examples \in Option(Seq(Shorthands))
    BY DefFields, KindsAreShorthands, OptionMonotone
  <2>3. \A i \in 1 .. Len(Items(d.examples)) : ShorthandOf[Items(d.examples)[i]] \in Tight(Y)
    <3>1. \A i \in 1 .. Len(Items(d.examples)) : Items(d.examples)[i] \in ShorthandsOf(X)
      BY <2>1
    <3>2. \A i \in 1 .. Len(Items(d.examples)) :
            ShorthandOf[Items(d.examples)[i]] = CleanShorthand(Items(d.examples)[i])
      BY <2>2, ExamplesClean
    <3> HIDE DEF Y
    <3> QED
      BY <1>4, <3>1, <3>2
  <2>4. c.examples = exs
    BY <1>1, <2>2, ExamplesClean
  <2> HIDE DEF c, Y
  <2>5. exs \in Option(Seq(Tight(Y)))
    BY <2>1, <2>3, CleanSeqMakes
  <2>6. IsSome(exs) => Items(exs) # <<>>
    BY <2>1, <2>3, CleanSeqTight
  <2> QED
    BY <2>4, <2>5, <2>6
<1>6. c.pronunciation \in Option(Tight(Y) \ {Nothing})
  <2> DEFINE o == d.pronunciation
  <2>1. o \in Option(ShorthandsOf(X))
    BY DEF TextsFrom
  <2> HIDE DEF o, Y
  <2>2. CASE IsSome(o) /\ CleanShorthand(o[1]) # Nothing
    <3>1. CleanOption(o) = Some(CleanShorthand(o[1])) /\ o[1] \in ShorthandsOf(X)
      BY <2>1, <2>2, OptionValues DEF CleanOption, IsSome
    <3>2. CleanShorthand(o[1]) \in Tight(Y) \ {Nothing}
      BY <1>4, <2>2, <3>1
    <3>3. CleanOption(o) \in Option(Tight(Y) \ {Nothing})
      BY <3>1, <3>2, OptionValues
    <3> QED
      BY <1>1, <3>3 DEF o
  <2>3. CASE ~(IsSome(o) /\ CleanShorthand(o[1]) # Nothing)
    <3>1. CleanOption(o) = None
      BY <2>3 DEF CleanOption
    <3>2. None \in Option(Tight(Y) \ {Nothing})
      BY OptionValues
    <3> QED
      BY <1>1, <3>1, <3>2 DEF o
  <2> QED
    BY <2>2, <2>3
<1>7. /\ IsSome(c.definitions) => Items(c.definitions) # <<>>
      /\ IsSome(c.groups) => Items(c.groups) # <<>>
  <2>1. d.definitions \in Option(Seq(Defs)) /\ d.groups \in Option(Seq(Defs))
    BY DefFields
  <2>2. /\ \A i \in 1 .. Len(Items(d.definitions)) : Cleanup[Items(d.definitions)[i]] \in Defs
        /\ \A i \in 1 .. Len(Items(d.groups)) : Cleanup[Items(d.groups)[i]] \in Defs
    BY Nested, CleanupUnfold
  <2>3. /\ IsSome(CleanSeqBy(Cleanup, d.definitions)) =>
             Items(CleanSeqBy(Cleanup, d.definitions)) # <<>>
        /\ IsSome(CleanSeqBy(Cleanup, d.groups)) => Items(CleanSeqBy(Cleanup, d.groups)) # <<>>
    BY <2>1, <2>2, CleanSeqTight
  <2> QED
    BY <1>1, <2>3
<1> HIDE DEF c, ety, exs
<1>8. \A o \in {c.etymology, c.examples, c.definitions, c.groups} :
        IsSome(o) => Items(o) # <<>>
  BY <1>1, <1>3, <1>5, <1>7
<1>9. Tidy(c, StripAll(X))
  BY <1>1, <1>2, <1>3, <1>5, <1>6, <1>8 DEF Tidy
<1> QED
  BY <1>9 DEF c

\* With nothing to strip in it, and nothing to clean below it, a tidy
\* definition stays.
LEMMA TidyFixed ==
  ASSUME NEW d \in Defs, NEW X \in SUBSET Texts, \A t \in X : Strip[t] = t, Tidy(d, X),
         \A e \in Kids(d) : Cleanup[e] = e
  PROVE  Cleanup[d] = d
<1> DEFINE defs == CleanSeqBy(Cleanup, d.definitions)
           groups == CleanSeqBy(Cleanup, d.groups)
<1>1. /\ CleanStr(d.word) = d.word /\ CleanStr(d.CN) = d.CN /\ CleanStr(d.EN) = d.EN
      /\ CleanStr(d.info) = d.info /\ CleanStr(d.type) = d.type
  BY StrsFixed DEF Tidy
<1>2. CleanSeqBy(Strip, d.etymology) = d.etymology
  <2>1. d.etymology \in Option(Seq(X)) /\ (IsSome(d.etymology) => Items(d.etymology) # <<>>)
    BY DEF Tidy
  <2>2. \A i \in 1 .. Len(Items(d.etymology)) : Strip[Items(d.etymology)[i]] = Items(d.etymology)[i]
    BY <2>1, ItemsOf
  <2> QED
    BY <2>1, <2>2, CleanSeqFixed
<1>3. ASSUME NEW ex \in Tight(X \ {""}) PROVE CleanShorthand(ex) = ex
  BY ShorthandsFixed DEF Tight
<1>4. CleanSeq(CleanShorthand, d.examples) = d.examples
  <2>1. /\ d.examples \in Option(Seq(Tight(X \ {""})))
        /\ IsSome(d.examples) => Items(d.examples) # <<>>
    BY DEF Tidy
  <2>2. d.examples \in Option(Seq(Shorthands))
    BY DefFields, KindsAreShorthands, OptionMonotone
  <2>3. \A i \in 1 .. Len(Items(d.examples)) : ShorthandOf[Items(d.examples)[i]] = Items(d.examples)[i]
    <3>1. Items(d.examples) \in Seq(Tight(X \ {""}))
      BY <2>1, ItemsOf
    <3>2. \A i \in 1 .. Len(Items(d.examples)) : Items(d.examples)[i] \in Tight(X \ {""})
      BY <3>1, SeqIs
    <3>3. \A i \in 1 .. Len(Items(d.examples)) :
            ShorthandOf[Items(d.examples)[i]] = CleanShorthand(Items(d.examples)[i])
      BY <2>2, ExamplesClean
    <3> QED
      BY <1>3, <3>2, <3>3
  <2>4. CleanSeqBy(ShorthandOf, d.examples) = d.examples
    BY <2>1, <2>3, CleanSeqFixed
  <2> QED
    BY <2>2, <2>4, ExamplesClean
<1>5. CleanOption(d.pronunciation) = d.pronunciation
  <2> DEFINE o == d.pronunciation
  <2>1. o \in Option(Tight(X \ {""}) \ {Nothing})
    BY DEF Tidy
  <2> HIDE DEF o
  <2>2. CASE o = None
    BY <2>2 DEF CleanOption, IsSome, o
  <2>3. CASE IsSome(o) /\ o[1] \in Tight(X \ {""}) \ {Nothing} /\ o = Some(o[1])
    <3>1. CleanShorthand(o[1]) = o[1] /\ o[1] # Nothing
      BY <1>3, <2>3
    <3>2. CleanOption(o) = Some(o[1])
      BY <2>3, <3>1 DEF CleanOption
    <3> QED
      BY <2>3, <3>2 DEF o
  <2> QED
    BY <2>1, <2>2, <2>3, OptionValues
<1>6. defs = d.definitions /\ groups = d.groups
  <2>1. /\ d.definitions \in Option(Seq(Defs)) /\ d.groups \in Option(Seq(Defs))
        /\ IsSome(d.definitions) => Items(d.definitions) # <<>>
        /\ IsSome(d.groups) => Items(d.groups) # <<>>
    BY DefFields DEF Tidy
  <2>2. /\ \A i \in 1 .. Len(Items(d.definitions)) :
             Cleanup[Items(d.definitions)[i]] = Items(d.definitions)[i]
        /\ \A i \in 1 .. Len(Items(d.groups)) : Cleanup[Items(d.groups)[i]] = Items(d.groups)[i]
    BY Nested
  <2> QED
    BY <2>1, <2>2, CleanSeqFixed
<1>7. PICK S : d \in Over(S)
  BY DefIsOver
<1> DEFINE c == Cleaned(d, d.definitions, d.groups)
<1>8. Cleanup[d] = c
  BY <1>6, CleanupUnfold
<1>9. d.definitions \in Option(Seq(S)) /\ d.groups \in Option(Seq(S))
  BY <1>7, OverFields
<1>10. c \in Over(S)
  BY <1>7, <1>9, CleanedIsOver
<1>11. /\ c.word = CleanStr(d.word) /\ c.CN = CleanStr(d.CN) /\ c.EN = CleanStr(d.EN)
       /\ c.info = CleanStr(d.info) /\ c.type = CleanStr(d.type)
       /\ c.etymology = CleanSeqBy(Strip, d.etymology)
       /\ c.examples = CleanSeq(CleanShorthand, d.examples)
       /\ c.pronunciation = CleanOption(d.pronunciation)
       /\ c.definitions = d.definitions /\ c.groups = d.groups
  BY <1>7, CleanedFields
<1> HIDE DEF c
<1>12. /\ c.word = d.word /\ c.CN = d.CN /\ c.EN = d.EN /\ c.info = d.info
       /\ c.type = d.type /\ c.etymology = d.etymology /\ c.examples = d.examples
       /\ c.pronunciation = d.pronunciation
       /\ c.definitions = d.definitions /\ c.groups = d.groups
  BY <1>1, <1>2, <1>4, <1>5, <1>11
<1>13. c = d
  BY <1>7, <1>10, <1>12 DEF Over
<1> QED
  BY <1>8, <1>13

(***************************************************************************)
(* What can be left after k cleanups.                                      *)
(***************************************************************************)
Image(k) == {Cleanings[k][d] : d \in Defs}

\* At first everything, then what one more cleanup makes of it.
LEMMA ImageIs ==
  /\ Image(0) = Defs
  /\ \A k \in Nat : Image(k) \subseteq Defs /\ Image(k + 1) = {Cleanup[d] : d \in Image(k)}
<1>1. Image(0) = Defs
  <2>1. \A d \in Defs : Cleanings[0][d] = d
    BY CleaningsUnfold
  <2> QED
    BY <2>1 DEF Image
<1>2. ASSUME NEW k \in Nat PROVE Image(k) \subseteq Defs
  <2>1. Cleanings[k] \in [Defs -> Defs]
    BY CleaningsUnfold
  <2> QED
    BY <2>1 DEF Image
<1>3. ASSUME NEW k \in Nat PROVE Image(k + 1) = {Cleanup[d] : d \in Image(k)}
  <2>1. \A d \in Defs : Cleanings[k + 1][d] = Cleanup[Cleanings[k][d]]
    BY CleaningsUnfold
  <2> QED
    BY <2>1 DEF Image
<1> QED
  BY <1>1, <1>2, <1>3

\* What is nested in it is so, too.
LEMMA ImageKids ==
  ASSUME NEW k \in Nat
  PROVE  \A d \in Image(k) : Kids(d) \subseteq Image(k)
<1> DEFINE T == {n \in Nat : \A d \in Image(n) : Kids(d) \subseteq Image(n)}
<1>1. 0 \in T
  BY ImageIs, Nested
<1>2. ASSUME NEW n \in Nat, n \in T PROVE n + 1 \in T
  <2> SUFFICES ASSUME NEW c \in Image(n), NEW e \in Kids(Cleanup[c])
               PROVE  e \in Image(n + 1)
    BY ImageIs
  <2>1. c \in Defs /\ Kids(c) \subseteq Image(n)
    BY <1>2, ImageIs
  <2>2. /\ Cleanup[c].definitions = CleanSeqBy(Cleanup, c.definitions)
        /\ Cleanup[c].groups = CleanSeqBy(Cleanup, c.groups)
    BY <2>1, CleanupUnfold, CleanedFields, DefIsOver
  <2>3. ASSUME NEW o \in {c.definitions, c.groups}
        PROVE  Children(CleanSeqBy(Cleanup, o)) \subseteq Image(n + 1)
    <3> DEFINE p == CleanSeqBy(Cleanup, o)
    <3>1. \A i \in 1 .. Len(Items(o)) : Items(o)[i] \in Kids(c) /\ Cleanup[Items(o)[i]] \in Defs
      BY <2>1, Nested, CleanupUnfold
    <3>2. o \in Option(Seq(Defs))
      BY <2>1, DefFields
    <3>3. Len(Items(p)) = Len(Items(o)) /\ \A i \in 1 .. Len(Items(o)) : Items(p)[i] = Cleanup[Items(o)[i]]
      BY <3>1, <3>2, CleanSeqMakes
    <3>4. \A i \in 1 .. Len(Items(o)) : Cleanup[Items(o)[i]] \in Image(n + 1)
      BY <2>1, <3>1, ImageIs
    <3> HIDE DEF p
    <3>5. Children(p) \subseteq Image(n + 1)
      BY <3>3, <3>4 DEF Children
    <3> QED
      BY <3>5 DEF p
  <2> QED
    BY <2>2, <2>3, KidsOf
<1>3. Nat \subseteq T
  <2> HIDE DEF T
  <2> QED
    BY <1>1, <1>2, NatSetInduction
<1> QED
  BY <1>3

\* It is tidy, of stripped texts.
LEMMA ImageTidy ==
  ASSUME NEW k \in Nat, NEW d \in Image(k + 1)
  PROVE  Tidy(d, Stripped[k + 1])
<1> DEFINE T == {n \in Nat : \A c \in Image(n) : TextsFrom(c, Stripped[n])}
<1>1. ASSUME NEW n \in Nat, n \in T, NEW c \in Image(n + 1) PROVE Tidy(c, Stripped[n + 1])
  <2>1. PICK b \in Image(n) : c = Cleanup[b]
    BY ImageIs
  <2>2. b \in Defs /\ TextsFrom(b, Stripped[n])
    BY <1>1, <2>1, ImageIs
  <2> QED
    BY <2>1, <2>2, CleanupTidies, StrippedUnfold
<1>2. Nat \subseteq T
  <2>1. 0 \in T
    BY ImageIs, StrippedUnfold, TextsFromTexts
  <2>2. ASSUME NEW n \in Nat, n \in T PROVE n + 1 \in T
    BY <1>1, <2>2, TidyTexts
  <2> HIDE DEF T
  <2> QED
    BY <2>1, <2>2, NatSetInduction
<1> QED
  BY <1>1, <1>2

(***************************************************************************)
(* Cleaning settles: what is left of a definition after as many cleanups   *)
(* as it takes passes to strip its texts is left as it is by another.      *)
(***************************************************************************)
THEOREM CleanupSettles ==
  ASSUME NEW k \in Nat, k >= Passes, NEW d \in Defs
  PROVE  Cleanup[Cleanings[k][d]] = Cleanings[k][d]
<1> DEFINE T == {c \in Defs : c \in Image(k) => Cleanup[c] = c}
<1>1. ASSUME NEW c \in Defs, Kids(c) \subseteq T PROVE c \in T
  <2> SUFFICES ASSUME c \in Image(k) PROVE Cleanup[c] = c
    OBVIOUS
  <2>1. \A e \in Kids(c) : Cleanup[e] = e
    BY <1>1, ImageKids
  <2>2. k - 1 \in Nat /\ (k - 1) + 1 = k
    BY PassesAssumption
  <2>3. Tidy(c, Stripped[k])
    BY <2>2, ImageTidy
  <2>4. Stripped[k] \in SUBSET Texts /\ \A t \in Stripped[k] : Strip[t] = t
    BY StrippedUnfold, StrippedSettles
  <2> QED
    BY <2>1, <2>3, <2>4, TidyFixed
<1>2. Defs \subseteq T
  <2> HIDE DEF T
  <2> QED
    BY <1>1, TreeInduction
<1>3. Cleanings[k][d] \in Image(k) /\ Cleanings[k][d] \in Defs
  BY CleaningsUnfold DEF Image
<1> QED
  BY <1>2, <1>3

--------------------------------------------------------------------------------
(* Normalizing.                                                            *)

MapItems(g, o) == MapOption(LAMBDA ds : MapSeq(LAMBDA e : g[e], ds), o)
Normalized(d, defs) == [d EXCEPT !.definitions = defs, !.groups = None]

\* What MapOption of MapSeq does to the members of a list.
LEMMA MapItemsMakes ==
  ASSUME NEW S, NEW T, NEW o \in Option(Seq(S)), NEW g,
         \A i \in 1 .. Len(Items(o)) : g[Items(o)[i]] \in T
  PROVE  /\ MapItems(g, o) \in Option(Seq(T))
         /\ Len(Items(MapItems(g, o))) = Len(Items(o))
         /\ \A i \in 1 .. Len(Items(o)) : Items(MapItems(g, o))[i] = g[Items(o)[i]]
<1>1. CASE IsSome(o)
  <2> DEFINE s == [i \in 1 .. Len(o[1]) |-> g[o[1][i]]]
  <2>1. Items(o) = o[1] /\ o[1] \in Seq(S)
    BY <1>1, ItemsOf DEF Items
  <2>2. s \in Seq(T) /\ Len(s) = Len(o[1]) /\ \A i \in 1 .. Len(o[1]) : s[i] = g[o[1][i]]
    BY <2>1
  <2>3. MapItems(g, o) = Some(s)
    BY <1>1 DEF MapItems, MapOption, MapSeq
  <2> HIDE DEF s
  <2>4. MapItems(g, o) \in Option(Seq(T)) /\ Items(MapItems(g, o)) = s
    BY <2>2, <2>3, OptionValues DEF Items
  <2> QED
    BY <2>1, <2>2, <2>4
<1>2. CASE ~IsSome(o)
  <2>1. MapItems(g, o) = None /\ o = None
    BY <1>2 DEF MapItems, MapOption, IsSome
  <2>2. Items(None) = <<>> /\ Len(<<>>) = 0
    BY DEF Items, IsSome
  <2> QED
    BY <2>1, <2>2, OptionValues
<1> QED
  BY <1>1, <1>2

\* The fields of a normalized definition.
LEMMA NormalizedFields ==
  ASSUME NEW S, NEW d \in Over(S), NEW T, NEW defs \in Option(Seq(T))
  PROVE  LET c == Normalized(d, defs) IN
         /\ c \in Over(T)
         /\ c.CN = d.CN /\ c.EN = d.EN /\ c.info = d.info /\ c.type = d.type
         /\ c.etymology = d.etymology /\ c.examples = d.examples
         /\ c.definitions = defs /\ c.groups = None
<1>1. None \in Option(Seq(T))
  BY OptionValues
<1> QED
  BY <1>1 DEF Over, Normalized

\* What takes the place of definitions is one of the two lists.
LEMMA AliasedIs ==
  ASSUME NEW d \in Defs
  PROVE  /\ Aliased(d) \in {d.definitions, d.groups}
         /\ Below(d, "alias") = Children(Aliased(d))
         /\ \A i \in 1 .. Len(Items(Aliased(d))) : Items(Aliased(d))[i] \in Kids(d)
<1>1. Aliased(d) \in {d.definitions, d.groups}
  BY DEF Aliased
<1>2. Below(d, "alias") = Children(Aliased(d))
  BY DEF Below, Aliased
<1> QED
  BY <1>1, <1>2, Nested

\* Normalize satisfies its equation, and its values are definitions.
LEMMA NormalizeUnfold ==
  /\ Normalize \in [Defs -> Defs]
  /\ \A d \in Defs : Normalize[d] = Normalized(d, MapItems(Normalize, Aliased(d)))
<1> DEFINE Body(g, d) == Normalized(d, MapItems(g, Aliased(d)))
           Def(g) == g = [d \in Defs |-> Body(g, d)]
           step == [g \in [Defs -> Defs] |-> [d \in Defs |-> Body(g, d)]]
<1>1. ASSUME NEW d \in Defs, NEW g, NEW h, \A e \in Kids(d) : g[e] = h[e]
      PROVE  Body(g, d) = Body(h, d)
  <2>1. MapItems(g, Aliased(d)) = MapItems(h, Aliased(d))
    <3>1. \A i \in 1 .. Len(Items(Aliased(d))) :
            g[Items(Aliased(d))[i]] = h[Items(Aliased(d))[i]]
      BY <1>1, AliasedIs
    <3>2. IsSome(Aliased(d)) => Items(Aliased(d)) = Aliased(d)[1]
      BY DEF Items
    <3> QED
      BY <3>1, <3>2 DEF MapItems, MapOption, MapSeq
  <2> QED
    BY <2>1
<1>2. KidsOnly(step, Defs)
  <2> SUFFICES ASSUME NEW d \in Defs, NEW g \in [Defs -> Defs],
                      NEW h \in [Defs -> Defs], \A e \in Kids(d) : g[e] = h[e]
               PROVE  step[g][d] = step[h][d]
    BY DEF KidsOnly
  <2> HIDE DEF Body
  <2>1. Body(g, d) = Body(h, d)
    BY <1>1
  <2> QED
    BY <2>1
<1>3. ASSUME NEW g, NEW d \in Defs, \A e \in Kids(d) : g[e] \in Trees[Depth[e]]
      PROVE  Body(g, d) \in Trees[Depth[d]]
  <2>1. PICK S : /\ d \in Over(S) /\ Trees[Depth[d]] = Over(S)
                 /\ Items(d.definitions) \in Seq(S) /\ Items(d.groups) \in Seq(S)
                 /\ \A e \in Kids(d) : Trees[Depth[e]] \subseteq S
    BY NestedAtLevel
  <2>2. \A e \in Kids(d) : g[e] \in S
    BY <1>3, <2>1
  <2>3. Aliased(d) \in Option(Seq(S))
    BY <2>1, OverFields, AliasedIs
  <2>4. \A i \in 1 .. Len(Items(Aliased(d))) : g[Items(Aliased(d))[i]] \in S
    BY <2>2, AliasedIs
  <2>5. MapItems(g, Aliased(d)) \in Option(Seq(S))
    BY <2>3, <2>4, MapItemsMakes
  <2> QED
    BY <2>1, <2>5, NormalizedFields
<1>4. PICK f \in [Defs -> Defs] : \A d \in Defs : f[d] = step[f][d]
  <2>1. ASSUME NEW g \in [Defs -> Defs], NEW d \in Defs,
               \A e \in Kids(d) : g[e] \in Trees[Depth[e]]
        PROVE  step[g][d] \in Trees[Depth[d]]
    <3> HIDE DEF Body
    <3> QED
      BY <1>3, <2>1
  <2> HIDE DEF step
  <2> QED
    BY <1>2, <2>1, DefRecursion
<1>5. Def(f)
  <2> HIDE DEF Body
  <2> QED
    BY <1>4
<1>6. Def(CHOOSE g : Def(g))
  <2> HIDE DEF Def
  <2> QED
    BY <1>5
<1>7. Normalize = CHOOSE g : Def(g)
  BY DEF Normalize, Normalized, MapItems
<1>8. Def(Normalize)
  <2> HIDE DEF Def
  <2> QED
    BY <1>6, <1>7
<1>9. \A d \in Defs : Normalize[d] = Body(Normalize, d)
  <2> HIDE DEF Body
  <2> QED
    BY <1>8
<1> DEFINE T == {d \in Defs : Normalize[d] \in Trees[Depth[d]]}
<1>10. Defs \subseteq T
  <2>1. ASSUME NEW d \in Defs, Kids(d) \subseteq T PROVE d \in T
    <3>1. \A e \in Kids(d) : Normalize[e] \in Trees[Depth[e]]
      BY <2>1
    <3> HIDE DEF Body
    <3> QED
      BY <1>3, <1>9, <3>1
  <2> HIDE DEF T
  <2> QED
    BY <2>1, TreeInduction
<1>11. \A d \in Defs : Trees[Depth[d]] \subseteq Defs
  BY DepthLeast, TreesMonotone, DepthAssumption DEF Defs
<1>12. Normalize \in [Defs -> Defs]
  <2> HIDE DEF Body
  <2> QED
    BY <1>8, <1>10, <1>11
<1> QED
  BY <1>9, <1>12

\* A normalized definition has the texts of its original, and below it, by
\* either field, the normalized ones of those the original has by the alias.
LEMMA NormalizeFields ==
  ASSUME NEW d \in Defs
  PROVE  /\ Normalize[d] \in Defs
         /\ Normalize[d].CN = d.CN /\ Normalize[d].EN = d.EN
         /\ Normalize[d].info = d.info /\ Normalize[d].type = d.type
         /\ Normalize[d].etymology = d.etymology
         /\ Normalize[d].examples = d.examples
         /\ Normalize[d].groups = None
         /\ Below(Normalize[d], "either") = {Normalize[e] : e \in Below(d, "alias")}
<1> DEFINE defs == MapItems(Normalize, Aliased(d))
<1>1. Normalize[d] \in Defs /\ Normalize[d] = Normalized(d, defs)
  BY NormalizeUnfold
<1>2. Aliased(d) \in Option(Seq(Defs))
  BY DefFields, AliasedIs
<1>3. \A i \in 1 .. Len(Items(Aliased(d))) : Normalize[Items(Aliased(d))[i]] \in Defs
  BY AliasedIs, Nested, NormalizeUnfold
<1>4. /\ defs \in Option(Seq(Defs)) /\ Len(Items(defs)) = Len(Items(Aliased(d)))
      /\ \A i \in 1 .. Len(Items(Aliased(d))) :
           Items(defs)[i] = Normalize[Items(Aliased(d))[i]]
  BY <1>2, <1>3, MapItemsMakes
<1>5. d \in Over(Defs)
  BY DefIsOver
<1> HIDE DEF defs
<1>6. /\ Normalize[d].CN = d.CN /\ Normalize[d].EN = d.EN
      /\ Normalize[d].info = d.info /\ Normalize[d].type = d.type
      /\ Normalize[d].etymology = d.etymology
      /\ Normalize[d].examples = d.examples
      /\ Normalize[d].definitions = defs /\ Normalize[d].groups = None
  BY <1>1, <1>4, <1>5, NormalizedFields
<1>7. Below(Normalize[d], "either") = Children(defs)
  <2>1. Children(None) = {}
    BY DEF Children, Items, IsSome
  <2> QED
    BY <1>6, <2>1 DEF Below
<1>8. Children(defs) = {Normalize[e] : e \in Children(Aliased(d))}
  BY <1>4 DEF Children
<1> QED
  BY <1>1, <1>6, <1>7, <1>8, AliasedIs

(***************************************************************************)
(* The definitions in a normalized one are the normalized definitions that *)
(* are reached by the aliases.                                             *)
(***************************************************************************)
LEMMA NodesOfNormalize ==
  ASSUME NEW d \in Defs
  PROVE  Nodes[Normalize[d]]["either"] = {Normalize[e] : e \in Nodes[d]["alias"]}
<1> DEFINE T == {c \in Defs : Nodes[Normalize[c]]["either"]
                                = {Normalize[e] : e \in Nodes[c]["alias"]}}
<1>1. ASSUME NEW c \in Defs, Kids(c) \subseteq T PROVE c \in T
  <2>1. \A e \in Below(c, "alias") : e \in Kids(c)
    <3>1. Children(Aliased(c)) \subseteq Kids(c)
      BY AliasedIs, KidsOf
    <3> QED
      BY <3>1, AliasedIs
  <2>2. \A e \in Below(c, "alias") :
          Nodes[Normalize[e]]["either"] = {Normalize[x] : x \in Nodes[e]["alias"]}
    BY <1>1, <2>1
  <2>3. Nodes[Normalize[c]]["either"]
          = {Normalize[c]} \cup UNION {Nodes[x]["either"] : x \in Below(Normalize[c], "either")}
    BY NodesUnfold, NormalizeFields DEF Ways
  <2>4. Nodes[c]["alias"] = {c} \cup UNION {Nodes[e]["alias"] : e \in Below(c, "alias")}
    BY NodesUnfold DEF Ways
  <2>5. {Nodes[x]["either"] : x \in Below(Normalize[c], "either")}
          = {Nodes[Normalize[e]]["either"] : e \in Below(c, "alias")}
    BY NormalizeFields
  <2>6. UNION {Nodes[Normalize[e]]["either"] : e \in Below(c, "alias")}
          = {Normalize[x] : x \in UNION {Nodes[e]["alias"] : e \in Below(c, "alias")}}
    BY <2>2
  <2> DEFINE U == UNION {Nodes[e]["alias"] : e \in Below(c, "alias")}
  <2>7. Nodes[Normalize[c]]["either"] = {Normalize[c]} \cup {Normalize[x] : x \in U}
    BY <2>3, <2>5, <2>6
  <2>8. Nodes[c]["alias"] = {c} \cup U
    BY <2>4
  <2> HIDE DEF U
  <2>9. Nodes[Normalize[c]]["either"] = {Normalize[e] : e \in Nodes[c]["alias"]}
    BY <2>7, <2>8
  <2> QED
    BY <2>9
<1>2. Defs \subseteq T
  <2> HIDE DEF T
  <2> QED
    BY <1>1, TreeInduction
<1> QED
  BY <1>2

(***************************************************************************)
(* What ApiNormal says of every definition.                                *)
(***************************************************************************)
LEMMA NormalizeKeepsTexts ==
  ASSUME NEW d \in Defs
  PROVE  /\ \A e \in Nodes[Normalize[d]]["either"] : e.groups = None
         /\ TextsIn(Nodes[Normalize[d]]["either"]) = TextsIn(Nodes[d]["alias"])
<1>1. Nodes[d]["alias"] \subseteq Defs
  BY NodesUnfold DEF Ways
<1>2. Nodes[Normalize[d]]["either"] = {Normalize[e] : e \in Nodes[d]["alias"]}
  BY NodesOfNormalize
<1>3. \A e \in Nodes[d]["alias"] :
        ShownTexts(Normalize[e]) \cup TextsOf(Normalize[e].info) \cup TextsOf(Normalize[e].type)
          = ShownTexts(e) \cup TextsOf(e.info) \cup TextsOf(e.type)
  BY <1>1, NormalizeFields DEF ShownTexts, ExampleSet
<1>4. \A e \in Nodes[Normalize[d]]["either"] : e.groups = None
  BY <1>1, <1>2, NormalizeFields
<1>5. {ShownTexts(e) \cup TextsOf(e.info) \cup TextsOf(e.type) : e \in Nodes[Normalize[d]]["either"]}
        = {ShownTexts(e) \cup TextsOf(e.info) \cup TextsOf(e.type) : e \in Nodes[d]["alias"]}
  BY <1>2, <1>3
<1> QED
  BY <1>4, <1>5 DEF TextsIn

--------------------------------------------------------------------------------
(* Rendering.                                                              *)

Members(s) == {s[i] : i \in 1 .. Len(s)}

(***************************************************************************)
(* What there is in one sequence after another.                            *)
(***************************************************************************)
LEMMA MembersOfBoth ==
  ASSUME NEW T, NEW s \in Seq(T), NEW t \in Seq(T)
  PROVE  Members(s \o t) = Members(s) \cup Members(t)
<1>1. Len(s \o t) = Len(s) + Len(t)
  OBVIOUS
<1>2. \A i \in 1 .. Len(s) : (s \o t)[i] = s[i] /\ i \in 1 .. Len(s \o t)
  OBVIOUS
<1>3. ASSUME NEW i \in 1 .. Len(t)
      PROVE  (s \o t)[Len(s) + i] = t[i] /\ Len(s) + i \in 1 .. Len(s \o t)
  OBVIOUS
<1>4. ASSUME NEW i \in 1 .. Len(s \o t), ~(i \in 1 .. Len(s))
      PROVE  (s \o t)[i] = t[i - Len(s)] /\ i - Len(s) \in 1 .. Len(t)
  BY <1>1, <1>4
<1>5. ASSUME NEW x \in Members(s \o t) PROVE x \in Members(s) \cup Members(t)
  <2>1. PICK i \in 1 .. Len(s \o t) : x = (s \o t)[i]
    BY DEF Members
  <2> QED
    BY <1>2, <1>4, <2>1 DEF Members
<1>6. ASSUME NEW x \in Members(s) PROVE x \in Members(s \o t)
  BY <1>2 DEF Members
<1>7. ASSUME NEW x \in Members(t) PROVE x \in Members(s \o t)
  <2>1. PICK i \in 1 .. Len(t) : x = t[i]
    BY DEF Members
  <2> QED
    BY <1>3, <2>1 DEF Members
<1> QED
  BY <1>5, <1>6, <1>7

MembersUpTo(ss, n) == UNION {Members(ss[j]) : j \in 1 .. n}

\* One list more, its members more.
LEMMA MembersUpToNext ==
  ASSUME NEW ss, NEW k \in Nat, k # 0
  PROVE  MembersUpTo(ss, k) = MembersUpTo(ss, k - 1) \cup Members(ss[k])
<1>1. \A j : j \in 1 .. k <=> j \in 1 .. k - 1 \/ j = k
  OBVIOUS
<1>2. \A x : x \in MembersUpTo(ss, k) <=> \E j \in 1 .. k : x \in Members(ss[j])
  BY DEF MembersUpTo
<1>3. \A x : x \in MembersUpTo(ss, k - 1) <=> \E j \in 1 .. k - 1 : x \in Members(ss[j])
  BY DEF MembersUpTo
<1>4. \A x : x \in MembersUpTo(ss, k)
               <=> x \in MembersUpTo(ss, k - 1) \/ x \in Members(ss[k])
  BY <1>1, <1>2, <1>3
<1> QED
  BY <1>4

(***************************************************************************)
(* A flattened sequence has the members of the sequences in it.            *)
(***************************************************************************)
LEMMA FlattenMembers ==
  ASSUME NEW T, NEW ss \in Seq(Seq(T))
  PROVE  /\ FlattenSeq(ss) \in Seq(T)
         /\ Members(FlattenSeq(ss)) = MembersUpTo(ss, Len(ss))
<1>1. CASE Len(ss) = 0
  <2>1. FlattenSeq(ss) = ss /\ ss = <<>>
    BY <1>1 DEF FlattenSeq
  <2> QED
    BY <2>1 DEF Members, MembersUpTo
<1>2. CASE Len(ss) # 0
  <2> DEFINE n == Len(ss)
             Body(g, i) == IF i = 1 THEN ss[i] ELSE g[i - 1] \o ss[i]
             Def(g) == g = [i \in 1 .. n |-> Body(g, i)]
             step == [g \in [1 .. n -> Seq(T)] |-> [i \in 1 .. n |-> Body(g, i)]]
             rank == [i \in 1 .. n |-> i]
  <2>1. n \in Nat /\ n # 0 /\ \A i \in 1 .. n : ss[i] \in Seq(T)
    BY <1>2
  <2> HIDE DEF n
  <2>2. \A i \in 1 .. n : i # 1 => i - 1 \in 1 .. n /\ rank[i - 1] < rank[i]
    BY <2>1
  <2>3. step \in [[1 .. n -> Seq(T)] -> [1 .. n -> Seq(T)]]
    <3> SUFFICES ASSUME NEW g \in [1 .. n -> Seq(T)], NEW i \in 1 .. n
                 PROVE  Body(g, i) \in Seq(T)
      OBVIOUS
    <3>1. CASE i = 1
      BY <2>1, <3>1
    <3>2. CASE i # 1
      <4>1. g[i - 1] \in Seq(T) /\ ss[i] \in Seq(T)
        BY <2>1, <2>2, <3>2
      <4>2. g[i - 1] \o ss[i] \in Seq(T)
        BY <4>1
      <4> QED
        BY <3>2, <4>2
    <3> QED
      BY <3>1, <3>2
  <2>4. LowerOnly(step, 1 .. n, Seq(T), rank)
    <3> SUFFICES ASSUME NEW i \in 1 .. n, NEW g \in [1 .. n -> Seq(T)],
                        NEW h \in [1 .. n -> Seq(T)],
                        \A e \in 1 .. n : rank[e] < rank[i] => g[e] = h[e]
                 PROVE  step[g][i] = step[h][i]
      BY DEF LowerOnly
    <3>1. i # 1 => g[i - 1] = h[i - 1]
      BY <2>2
    <3>2. Body(g, i) = Body(h, i)
      BY <3>1
    <3> HIDE DEF Body
    <3> QED
      BY <3>2
  <2>5. PICK f : Recursive(f, 1 .. n, Seq(T), step)
    <3>1. [i \in 1 .. n |-> <<>>] \in [1 .. n -> Seq(T)] /\ rank \in [1 .. n -> Nat]
      OBVIOUS
    <3> HIDE DEF step, rank
    <3> QED
      BY <2>3, <2>4, <3>1, RankRecursion
  <2>6. Def(f)
    <3> HIDE DEF Body
    <3> QED
      BY <2>5 DEF Recursive
  <2> DEFINE flat == CHOOSE g : Def(g)
  <2>7. Def(flat)
    <3> HIDE DEF Def
    <3> QED
      BY <2>6
  <2>8. FlattenSeq(ss) = flat[n]
    BY <1>2 DEF FlattenSeq, n
  <2>9. \A i \in 1 .. n : flat[i] = IF i = 1 THEN ss[i] ELSE flat[i - 1] \o ss[i]
    <3> HIDE DEF flat
    <3> QED
      BY <2>7
  <2> HIDE DEF flat
  <2> DEFINE Q(i) == /\ flat[i] \in Seq(T)
                     /\ Members(flat[i]) = MembersUpTo(ss, i)
             U == {i \in Nat : i + 1 <= n => Q(i + 1)}
  <2>10. Nat \subseteq U
    <3>1. 0 \in U
      <4>1. 0 + 1 = 1 /\ 1 \in 1 .. n /\ 1 .. 1 = {1}
        BY <2>1
      <4>2. Q(1)
        BY <2>1, <2>9, <4>1 DEF MembersUpTo
      <4> QED
        BY <4>1, <4>2
    <3>2. ASSUME NEW i \in Nat, i \in U PROVE i + 1 \in U
      <4> SUFFICES ASSUME (i + 1) + 1 <= n PROVE Q((i + 1) + 1)
        OBVIOUS
      <4> DEFINE k == (i + 1) + 1
      <4>1. k \in 1 .. n /\ k # 1 /\ k - 1 = i + 1 /\ i + 1 <= n
        BY <2>1
      <4>2. Q(i + 1)
        BY <3>2, <4>1
      <4> HIDE DEF k
      <4>3. flat[k] = flat[k - 1] \o ss[k]
        BY <2>9, <4>1
      <4>4. flat[k - 1] \in Seq(T) /\ ss[k] \in Seq(T)
        BY <2>1, <4>1, <4>2
      <4>5. Members(flat[k - 1] \o ss[k]) = Members(flat[k - 1]) \cup Members(ss[k])
        BY <4>4, MembersOfBoth
      <4>7. MembersUpTo(ss, k) = MembersUpTo(ss, k - 1) \cup Members(ss[k])
        BY <4>1, MembersUpToNext
      <4>8. flat[k] \in Seq(T)
        BY <4>3, <4>4
      <4>9. Members(flat[k]) = MembersUpTo(ss, k)
        <5>1. Members(flat[k - 1]) = MembersUpTo(ss, k - 1)
          BY <4>1, <4>2
        <5> QED
          BY <4>3, <4>5, <4>7, <5>1
      <4>10. Q(k)
        BY <4>8, <4>9
      <4> QED
        BY <4>10 DEF k
    <3> QED
      <4> HIDE DEF U
      <4> QED
        BY <3>1, <3>2, NatSetInduction
  <2>11. n - 1 \in U /\ (n - 1) + 1 = n
    <3>1. n - 1 \in Nat /\ (n - 1) + 1 = n
      BY <2>1
    <3> HIDE DEF U
    <3> QED
      BY <2>10, <3>1
  <2>12. Q(n)
    BY <2>1, <2>11
  <2> QED
    BY <2>8, <2>12 DEF n
<1> QED
  BY <1>1, <1>2

(***************************************************************************)
(* The fold of a curried function, step by step.                           *)
(***************************************************************************)
FoldOf(g, base, s) == FoldLeft(LAMBDA l, e : g[e][l], base, s)

\* The fold of functions over a list takes one step per member.
LEMMA FoldOfSteps ==
  ASSUME NEW S, NEW W, NEW base \in W, NEW s \in Seq(S), NEW g,
         \A i \in 1 .. Len(s) : g[s[i]] \in [W -> W]
  PROVE  \E at : FoldRun(at, Len(s), W, base, [i \in 1 .. Len(s) |-> g[s[i]]],
                         FoldOf(g, base, s))
<1> DEFINE n == Len(s)
           step == [i \in 1 .. n |-> g[s[i]]]
           Def(it) == it = [t \in SUBSET (1 .. n) |->
                              IF t = {} THEN base ELSE g[s[Max(t)]][it[t \ {Max(t)}]]]
           iter == CHOOSE it : Def(it)
<1>1. n \in Nat /\ DOMAIN s = 1 .. n
  OBVIOUS
<1>2. step \in [1 .. n -> [W -> W]]
  OBVIOUS
<1>3. FoldOf(g, base, s) = iter[1 .. n]
  BY <1>1 DEF FoldOf, FoldLeft, MapThenFoldSet
<1> HIDE DEF n
<1>4. \E it : Def(it)
  <2>1. PICK it : FoldEquation(it, n, W, base, step)
    <3> HIDE DEF step
    <3> QED
      BY <1>1, <1>2, FoldExists
  <2>2. \A t \in SUBSET (1 .. n) : t # {} => Max(t) \in 1 .. n
    BY <1>1, MaxIndex
  <2>3. \A t \in SUBSET (1 .. n) : t # {} => step[Max(t)] = g[s[Max(t)]]
    BY <2>2
  <2> HIDE DEF step
  <2>4. Def(it)
    BY <2>1, <2>3 DEF FoldEquation
  <2> HIDE DEF Def
  <2> QED
    BY <2>4
<1>5. Def(iter)
  <2> HIDE DEF Def
  <2> QED
    BY <1>4
<1> HIDE DEF iter
<1>6. FoldsBy(iter, n, W, base, step)
  <2>1. iter[{}] = base
    BY <1>5
  <2>2. ASSUME NEW i \in 1 .. n PROVE iter[1 .. i] = step[i][iter[1 .. i - 1]]
    <3>1. /\ 1 .. i \in SUBSET (1 .. n) /\ 1 .. i # {} /\ Max(1 .. i) = i
          /\ (1 .. i) \ {i} = 1 .. i - 1
      BY <1>1, MaxPrefix
    <3> QED
      BY <1>5, <3>1
  <2> HIDE DEF step
  <2> QED
    BY <2>1, <2>2 DEF FoldsBy
<1>7. \E at : FoldRun(at, n, W, base, step, iter[1 .. n])
  <2> HIDE DEF step
  <2> QED
    BY <1>1, <1>2, <1>6, FoldRuns
<1> QED
  BY <1>3, <1>7 DEF n

(***************************************************************************)
(* Sections added to others, without repeated neighbours, are all there.   *)
(***************************************************************************)
LEMMA PushMembers ==
  ASSUME NEW c \in Seq(Sections), NEW v \in Sections
  PROVE  /\ PushDedup(c, v) \in Seq(Sections)
         /\ Members(PushDedup(c, v)) = Members(c) \cup {v}
<1>1. CASE c # <<>> /\ Last(c) = v
  <2>1. Len(c) \in 1 .. Len(c) /\ c[Len(c)] = v
    BY <1>1 DEF Last
  <2>2. v \in Members(c)
    BY <2>1 DEF Members
  <2> QED
    BY <1>1, <2>2 DEF PushDedup
<1>2. CASE ~(c # <<>> /\ Last(c) = v)
  <2>1. PushDedup(c, v) = Append(c, v)
    BY <1>2 DEF PushDedup
  <2>2. Members(Append(c, v)) = Members(c) \cup {v}
    <3> DEFINE one == <<v>>
    <3>1. one \in Seq(Sections) /\ Append(c, v) = c \o one
      OBVIOUS
    <3>2. Members(one) = {v}
      BY DEF Members
    <3> HIDE DEF one
    <3> QED
      BY <3>1, <3>2, MembersOfBoth
  <2> QED
    BY <2>1, <2>2
<1> QED
  BY <1>1, <1>2

\* Adding sections one by one adds the set of them to the set that is there.
LEMMA FoldOfPushes ==
  ASSUME NEW c \in Seq(Sections), NEW s \in Seq(Sections)
  PROVE  /\ FoldLeft(PushDedup, c, s) \in Seq(Sections)
         /\ Members(FoldLeft(PushDedup, c, s)) = Members(c) \cup Members(s)
<1> DEFINE n == Len(s)
           W == Seq(Sections)
           step == [i \in 1 .. n |-> [l \in W |-> PushDedup(l, s[i])]]
           Def(it) == it = [t \in SUBSET (1 .. n) |->
                              IF t = {} THEN c ELSE PushDedup(it[t \ {Max(t)}], s[Max(t)])]
           iter == CHOOSE it : Def(it)
<1>1. n \in Nat /\ DOMAIN s = 1 .. n /\ \A i \in 1 .. n : s[i] \in Sections
  OBVIOUS
<1>2. step \in [1 .. n -> [W -> W]]
  <2>1. \A i \in 1 .. n : \A l \in W : PushDedup(l, s[i]) \in W
    BY <1>1, PushMembers
  <2> QED
    BY <2>1
<1>3. FoldLeft(PushDedup, c, s) = iter[1 .. n]
  BY <1>1 DEF FoldLeft, MapThenFoldSet
<1> HIDE DEF n
<1>4. \E it : Def(it)
  <2>1. PICK it : FoldEquation(it, n, W, c, step)
    <3> HIDE DEF step, W
    <3> QED
      BY <1>1, <1>2, FoldExists DEF W
  <2>2. \A t \in SUBSET (1 .. n) : t # {} => /\ Max(t) \in 1 .. n
                                            /\ t \ {Max(t)} \in SUBSET (1 .. n)
    BY <1>1, MaxIndex
  <2>3. \A t \in SUBSET (1 .. n) : t # {} =>
          step[Max(t)][it[t \ {Max(t)}]] = PushDedup(it[t \ {Max(t)}], s[Max(t)])
    <3>1. \A t \in SUBSET (1 .. n) : t # {} => it[t \ {Max(t)}] \in W
      <4> HIDE DEF W
      <4> QED
        BY <2>1, <2>2 DEF FoldEquation
    <3> QED
      BY <2>2, <3>1
  <2> HIDE DEF step
  <2>4. Def(it)
    BY <2>1, <2>3 DEF FoldEquation
  <2> HIDE DEF Def
  <2> QED
    BY <2>4
<1>5. Def(iter)
  <2> HIDE DEF Def
  <2> QED
    BY <1>4
<1> HIDE DEF iter
<1>6. FoldsBy(iter, n, W, c, step)
  <2>1. iter[{}] = c
    BY <1>5
  <2>2. ASSUME NEW i \in 1 .. n, iter[1 .. i - 1] \in W
        PROVE  iter[1 .. i] = step[i][iter[1 .. i - 1]]
    <3>1. /\ 1 .. i \in SUBSET (1 .. n) /\ 1 .. i # {} /\ Max(1 .. i) = i
          /\ (1 .. i) \ {i} = 1 .. i - 1
      BY <1>1, MaxPrefix
    <3>2. iter[1 .. i] = PushDedup(iter[1 .. i - 1], s[i])
      BY <1>5, <3>1
    <3> QED
      BY <2>2, <3>2
  <2> HIDE DEF step, W
  <2> QED
    BY <2>1, <2>2 DEF FoldsBy
<1>7. PICK at : FoldRun(at, n, W, c, step, iter[1 .. n])
  <2> HIDE DEF step, W
  <2> QED
    BY <1>1, <1>2, <1>6, FoldRuns DEF W
<1>8. at \in [0 .. n -> W] /\ at[0] = c /\ at[n] = iter[1 .. n]
      /\ \A i \in 1 .. n : at[i] = PushDedup(at[i - 1], s[i])
  <2>1. \A i \in 1 .. n : i - 1 \in 0 .. n
    BY <1>1
  <2>2. at \in [0 .. n -> W] /\ \A i \in 1 .. n : at[i - 1] \in W
    <3> HIDE DEF W
    <3> QED
      BY <1>7, <2>1 DEF FoldRun
  <2> QED
    BY <1>7, <2>2 DEF FoldRun
<1> DEFINE Among(i) == {s[j] : j \in 1 .. i}
           U == {i \in Nat : i <= n => Members(at[i]) = Members(c) \cup Among(i)}
<1>9. Nat \subseteq U
  <2>1. 0 \in U
    BY <1>8
  <2>2. ASSUME NEW i \in Nat, i \in U PROVE i + 1 \in U
    <3> SUFFICES ASSUME i + 1 <= n
                 PROVE  Members(at[i + 1]) = Members(c) \cup Among(i + 1)
      OBVIOUS
    <3>1. i + 1 \in 1 .. n /\ (i + 1) - 1 = i /\ i \in 0 .. n /\ i <= n
      BY <1>1
    <3>2. Members(at[i]) = Members(c) \cup Among(i)
      BY <2>2, <3>1
    <3>3. at[i + 1] = PushDedup(at[i], s[i + 1]) /\ at[i] \in W /\ s[i + 1] \in Sections
      BY <1>1, <1>8, <3>1
    <3>4. Members(at[i + 1]) = Members(at[i]) \cup {s[i + 1]}
      BY <3>3, PushMembers
    <3>5. Among(i + 1) = Among(i) \cup {s[i + 1]}
      <4>1. \A j : j \in 1 .. i + 1 <=> j \in 1 .. i \/ j = i + 1
        OBVIOUS
      <4> QED
        BY <4>1
    <3> HIDE DEF Among
    <3> QED
      BY <3>2, <3>4, <3>5
  <2> QED
    <3> HIDE DEF U
    <3> QED
      BY <2>1, <2>2, NatSetInduction
<1>10. Members(at[n]) = Members(c) \cup Among(n)
  <2>1. n \in U
    BY <1>1, <1>9
  <2> HIDE DEF Among
  <2> QED
    BY <1>1, <2>1
<1>11. at[n] \in Seq(Sections)
  BY <1>1, <1>8
<1> QED
  BY <1>3, <1>8, <1>10, <1>11 DEF n, Members

(***************************************************************************)
(* The labels drawn for a section are texts.                               *)
(***************************************************************************)
LEMMA OptionIsSeq ==
  ASSUME NEW S
  PROVE  Option(S) \subseteq Seq(S)
  BY DEF Option

\* The texts of each of the four forms.
LEMMA ExampleTextsAre ==
  ASSUME NEW ex \in Examples
  PROVE  ExampleTexts(ex) \in Seq(Texts)
<1>1. CASE ex = Nothing
  BY <1>1 DEF ExampleTexts, Nothing
<1>2. CASE ex.tag = "str" /\ ex.text \in Texts
  BY <1>2 DEF ExampleTexts
<1>3. CASE ex.tag = "vec" /\ ex.texts \in Seq(Option(Texts))
  <2>1. ex.texts \in Seq(Seq(Texts))
    <3>1. ASSUME NEW S, NEW T, S \subseteq T PROVE Seq(S) \subseteq Seq(T)
      BY <3>1
    <3> HIDE DEF Option
    <3> QED
      BY <1>3, <3>1, OptionIsSeq
  <2>2. ExampleTexts(ex) = FlattenSeq(ex.texts)
    BY <1>3 DEF ExampleTexts
  <2> QED
    BY <2>1, <2>2, FlattenMembers
<1>4. CASE ex.tag = "obj" /\ ex.EN \in Option(Texts) /\ ex.CN \in Option(Texts)
  <2>1. ex.EN \in Seq(Texts) /\ ex.CN \in Seq(Texts)
    BY <1>4, OptionIsSeq
  <2>2. ExampleTexts(ex) = ex.EN \o ex.CN
    BY <1>4 DEF ExampleTexts
  <2> QED
    BY <2>1, <2>2
<1> QED
  BY <1>1, <1>2, <1>3, <1>4, KindsAreShorthands, ShorthandForms DEF Shorthands

(***************************************************************************)
(* The sections, by their kinds, and what is drawn for each.               *)
(***************************************************************************)
LEMMA SectionsMade ==
  /\ \A ts \in Seq(Texts) : [kind |-> "Etymology", texts |-> ts] \in Sections
  /\ \A t \in Texts : [kind |-> "Info", text |-> t] \in Sections
  /\ \A en, cn \in Option(Texts) : [kind |-> "Explain", en |-> en, cn |-> cn] \in Sections
  /\ \A ex \in Examples : [kind |-> "Example", example |-> ex] \in Sections
  BY DEF Sections

\* The labels of a section are texts.
LEMMA LabelsAre ==
  ASSUME NEW sec \in Sections
  PROVE  Labels(sec) \in Seq(Texts)
<1>1. CASE sec \in [kind : {"Etymology"}, texts : Seq(Texts)]
  BY <1>1 DEF Labels
<1>2. CASE sec \in [kind : {"Info"}, text : Texts]
  BY <1>2 DEF Labels
<1>3. CASE sec \in [kind : {"Explain"}, en : Option(Texts), cn : Option(Texts)]
  <2>1. sec.en \in Seq(Texts) /\ sec.cn \in Seq(Texts) /\ sec.kind = "Explain"
    BY <1>3, OptionIsSeq
  <2> QED
    BY <2>1 DEF Labels
<1>4. CASE sec \in [kind : {"Example"}, example : Examples]
  <2>1. sec.example \in Examples /\ sec.kind = "Example"
    BY <1>4
  <2> QED
    BY <2>1, ExampleTextsAre DEF Labels
<1> QED
  BY <1>1, <1>2, <1>3, <1>4 DEF Sections

(***************************************************************************)
(* What is drawn is what is drawn for the sections, one by one.            *)
(***************************************************************************)
LabelTexts(X) == UNION {TextsOf(Labels(x)) : x \in X}

\* The texts of two sets of sections.
LEMMA LabelTextsOfBoth ==
  ASSUME NEW X, NEW Y
  PROVE  LabelTexts(X \cup Y) = LabelTexts(X) \cup LabelTexts(Y)
<1>1. ASSUME NEW Z PROVE \A t : t \in LabelTexts(Z) <=> \E x \in Z : t \in TextsOf(Labels(x))
  BY DEF LabelTexts
<1>2. \A t : t \in LabelTexts(X \cup Y) <=> t \in LabelTexts(X) \/ t \in LabelTexts(Y)
  BY <1>1
<1> QED
  BY <1>2

\* What is drawn are the texts of the sections.
LEMMA DrawnTexts ==
  ASSUME NEW l2 \in L2
  PROVE  TextsOf(Drawn(l2)) = LabelTexts(Members(l2.content))
<1> DEFINE ss == MapSeq(Labels, l2.content)
           n == Len(l2.content)
<1>1. l2.content \in Seq(Sections)
  BY DEF L2
<1>2. n \in Nat /\ \A i \in 1 .. n : l2.content[i] \in Sections /\ ss[i] = Labels(l2.content[i])
  BY <1>1 DEF MapSeq
<1>3. ss \in Seq(Seq(Texts)) /\ Len(ss) = n
  <2>1. \A i \in 1 .. n : Labels(l2.content[i]) \in Seq(Texts)
    BY <1>2, LabelsAre
  <2> QED
    BY <1>2, <2>1 DEF MapSeq
<1>4. Members(FlattenSeq(ss)) = MembersUpTo(ss, n)
  <2> HIDE DEF ss
  <2> QED
    BY <1>3, FlattenMembers
<1> HIDE DEF n
<1>5. \A t : t \in MembersUpTo(ss, n) <=> \E i \in 1 .. n : t \in TextsOf(Labels(l2.content[i]))
  <2> HIDE DEF ss
  <2>1. \A t : t \in MembersUpTo(ss, n) <=> \E i \in 1 .. n : t \in Members(ss[i])
    BY DEF MembersUpTo
  <2>2. \A s : Members(s) = TextsOf(s)
    BY DEF Members, TextsOf
  <2> QED
    BY <1>2, <2>1, <2>2
<1>6. \A t : t \in LabelTexts(Members(l2.content))
               <=> \E i \in 1 .. n : t \in TextsOf(Labels(l2.content[i]))
  <2>1. \A t : t \in LabelTexts(Members(l2.content))
                 <=> \E x \in Members(l2.content) : t \in TextsOf(Labels(x))
    BY DEF LabelTexts
  <2>2. \A x : x \in Members(l2.content) <=> \E i \in 1 .. n : x = l2.content[i]
    BY DEF Members, n
  <2> QED
    BY <2>1, <2>2
<1>7. TextsOf(Drawn(l2)) = Members(FlattenSeq(ss))
  BY DEF TextsOf, Members, Drawn
<1> HIDE DEF ss
<1> QED
  BY <1>4, <1>5, <1>6, <1>7

(***************************************************************************)
(* The sections a definition adds by itself draw the texts it shows by     *)
(* itself: those of its four parts.                                        *)
(***************************************************************************)
LEMMA OneSection ==
  ASSUME NEW v \in Sections
  PROVE  /\ <<v>> \in Seq(Sections)
         /\ LabelTexts(Members(<<v>>)) = TextsOf(Labels(v))
<1>1. Members(<<v>>) = {v}
  BY DEF Members
<1>2. LabelTexts({v}) = TextsOf(Labels(v))
  BY DEF LabelTexts
<1> QED
  BY <1>1, <1>2

\* No section has no text.
LEMMA NoSection ==
  /\ <<>> \in Seq(Sections)
  /\ LabelTexts(Members(<<>>)) = {}
<1>1. Members(<<>>) = {}
  BY DEF Members
<1>2. LabelTexts({}) = {}
  BY DEF LabelTexts
<1>3. <<>> \in Seq(Sections)
  OBVIOUS
<1>4. LabelTexts(Members(<<>>)) = {}
  BY <1>1, <1>2, Zenon
<1> QED
  BY <1>3, <1>4

EtymologySections(d) ==
  IF IsSome(d.etymology) THEN <<[kind |-> "Etymology", texts |-> d.etymology[1]]>>
                         ELSE <<>>
InfoSections(d) ==
  IF IsSome(d.info) THEN <<[kind |-> "Info", text |-> d.info[1]]>> ELSE <<>>
ExplainSections(d) ==
  IF IsSome(d.CN) \/ IsSome(d.EN)
  THEN <<[kind |-> "Explain", en |-> d.EN, cn |-> d.CN]>> ELSE <<>>
ExampleSections(d) ==
  IF IsSome(d.examples)
  THEN LET Example(ex) == [kind |-> "Example", example |-> ex]
       IN  MapSeq(Example, d.examples[1])
  ELSE <<>>

\* The etymology's section, if there is one, has its texts.
LEMMA EtymologyShown ==
  ASSUME NEW d \in Defs
  PROVE  /\ EtymologySections(d) \in Seq(Sections)
         /\ LabelTexts(Members(EtymologySections(d))) = Children(d.etymology)
<1>1. CASE IsSome(d.etymology)
  <2> DEFINE v == [kind |-> "Etymology", texts |-> d.etymology[1]]
  <2>1. d.etymology[1] \in Seq(Texts)
    BY <1>1, DefFields, OptionValues DEF IsSome
  <2>2. v \in Sections
    BY <2>1, SectionsMade
  <2>3. TextsOf(Labels(v)) = Children(d.etymology)
    BY <1>1 DEF TextsOf, Labels, Children, Items
  <2>4. EtymologySections(d) = <<v>>
    BY <1>1 DEF EtymologySections
  <2> HIDE DEF v
  <2> QED
    BY <2>2, <2>3, <2>4, OneSection
<1>2. CASE ~IsSome(d.etymology)
  <2>1. EtymologySections(d) = <<>> /\ Children(d.etymology) = {}
    BY <1>2 DEF EtymologySections, Children, Items
  <2> QED
    BY <2>1, NoSection
<1> QED
  BY <1>1, <1>2

\* The info's section has no text.
LEMMA InfoShown ==
  ASSUME NEW d \in Defs
  PROVE  /\ InfoSections(d) \in Seq(Sections)
         /\ LabelTexts(Members(InfoSections(d))) = {}
<1>1. CASE IsSome(d.info)
  <2> DEFINE v == [kind |-> "Info", text |-> d.info[1]]
  <2>1. d.info[1] \in Texts
    BY <1>1, DefFields, OptionValues DEF IsSome
  <2>2. v \in Sections
    BY <2>1, SectionsMade
  <2>3. TextsOf(Labels(v)) = {}
    BY DEF TextsOf, Labels
  <2>4. InfoSections(d) = <<v>>
    BY <1>1 DEF InfoSections
  <2> HIDE DEF v
  <2> QED
    BY <2>2, <2>3, <2>4, OneSection
<1>2. CASE ~IsSome(d.info)
  <2>1. InfoSections(d) = <<>>
    BY <1>2 DEF InfoSections
  <2> QED
    BY <2>1, NoSection
<1> QED
  BY <1>1, <1>2

\* The translations' section has both of them.
LEMMA ExplainShown ==
  ASSUME NEW d \in Defs
  PROVE  /\ ExplainSections(d) \in Seq(Sections)
         /\ LabelTexts(Members(ExplainSections(d))) = TextsOf(d.EN) \cup TextsOf(d.CN)
<1>1. CASE IsSome(d.CN) \/ IsSome(d.EN)
  <2> DEFINE v == [kind |-> "Explain", en |-> d.EN, cn |-> d.CN]
  <2>1. v \in Sections
    BY DefFields, SectionsMade
  <2>2. Labels(v) = d.EN \o d.CN
    BY DEF Labels
  <2>3. d.EN \in Seq(Texts) /\ d.CN \in Seq(Texts)
    BY DefFields, OptionIsSeq
  <2>4. TextsOf(Labels(v)) = TextsOf(d.EN) \cup TextsOf(d.CN)
    <3>1. \A s : Members(s) = TextsOf(s)
      BY DEF Members, TextsOf
    <3> HIDE DEF v
    <3> QED
      BY <2>2, <2>3, <3>1, MembersOfBoth
  <2>5. ExplainSections(d) = <<v>>
    BY <1>1 DEF ExplainSections
  <2> HIDE DEF v
  <2> QED
    BY <2>1, <2>4, <2>5, OneSection
<1>2. CASE ~(IsSome(d.CN) \/ IsSome(d.EN))
  <2>1. ExplainSections(d) = <<>> /\ d.EN = <<>> /\ d.CN = <<>>
    BY <1>2 DEF ExplainSections, IsSome, None
  <2>2. TextsOf(<<>>) = {}
    BY DEF TextsOf
  <2> QED
    BY <2>1, <2>2, NoSection
<1> QED
  BY <1>1, <1>2

\* The sections of the examples have their texts.
LEMMA ExamplesShown ==
  ASSUME NEW d \in Defs
  PROVE  /\ ExampleSections(d) \in Seq(Sections)
         /\ LabelTexts(Members(ExampleSections(d))) = ExampleSet(d)
<1>1. CASE IsSome(d.examples)
  <2> DEFINE exs == d.examples[1]
             v(ex) == [kind |-> "Example", example |-> ex]
             ss == ExampleSections(d)
  <2>1. exs \in Seq(Examples) /\ Items(d.examples) = exs
    BY <1>1, DefFields, OptionValues DEF IsSome, Items
  <2>2. \A ex \in Examples : v(ex) \in Sections /\ Labels(v(ex)) = ExampleTexts(ex)
    BY SectionsMade DEF Labels
  <2>3. ss = [i \in 1 .. Len(exs) |-> v(exs[i])]
    BY <1>1 DEF ExampleSections, MapSeq
  <2> HIDE DEF exs, v, ss
  <2>4. \A i \in 1 .. Len(exs) : exs[i] \in Examples
    BY <2>1
  <2>5. Len(exs) \in Nat /\ \A i \in 1 .. Len(exs) : v(exs[i]) \in Sections
    BY <2>1, <2>2, <2>4
  <2>6. ss \in Seq(Sections) /\ Len(ss) = Len(exs)
    BY <2>3, <2>5
  <2>7. \A t : t \in LabelTexts(Members(ss))
                 <=> \E i \in 1 .. Len(exs) : t \in TextsOf(ExampleTexts(exs[i]))
    <3>1. \A t : t \in LabelTexts(Members(ss)) <=> \E x \in Members(ss) : t \in TextsOf(Labels(x))
      BY DEF LabelTexts
    <3>2. \A x : x \in Members(ss) <=> \E i \in 1 .. Len(exs) : x = v(exs[i])
      BY <2>3, <2>6 DEF Members
    <3>3. \A i \in 1 .. Len(exs) : Labels(v(exs[i])) = ExampleTexts(exs[i])
      BY <2>2, <2>4
    <3> QED
      BY <3>1, <3>2, <3>3
  <2>8. \A t : t \in ExampleSet(d)
                 <=> \E i \in 1 .. Len(exs) : t \in TextsOf(ExampleTexts(exs[i]))
    <3>1. \A t : t \in ExampleSet(d)
                   <=> \E x \in Children(d.examples) : t \in TextsOf(ExampleTexts(x))
      BY DEF ExampleSet
    <3>2. \A x : x \in Children(d.examples) <=> \E i \in 1 .. Len(exs) : x = exs[i]
      BY <2>1 DEF Children
    <3> QED
      BY <3>1, <3>2
  <2>9. LabelTexts(Members(ss)) = ExampleSet(d)
    BY <2>7, <2>8
  <2> QED
    BY <2>6, <2>9 DEF ss
<1>2. CASE ~IsSome(d.examples)
  <2>1. ExampleSections(d) = <<>> /\ Children(d.examples) = {}
    <3>1. Items(d.examples) = <<>> /\ ExampleSections(d) = <<>>
      BY <1>2 DEF ExampleSections, Items
    <3> QED
      BY <3>1 DEF Children
  <2>2. ExampleSet(d) = {}
    BY <2>1 DEF ExampleSet
  <2> QED
    BY <2>1, <2>2, NoSection
<1> QED
  BY <1>1, <1>2

\* The sections a definition adds by itself have the texts it shows.
LEMMA OwnShown ==
  ASSUME NEW d \in Defs
  PROVE  /\ OwnSections(d) \in Seq(Sections)
         /\ LabelTexts(Members(OwnSections(d))) = ShownTexts(d)
<1> DEFINE a == EtymologySections(d)
           b == InfoSections(d)
           c == ExplainSections(d)
           e == ExampleSections(d)
<1>1. OwnSections(d) = ((a \o b) \o c) \o e
  BY DEF OwnSections, EtymologySections, InfoSections, ExplainSections, ExampleSections
<1>2. /\ a \in Seq(Sections) /\ LabelTexts(Members(a)) = Children(d.etymology)
      /\ b \in Seq(Sections) /\ LabelTexts(Members(b)) = {}
      /\ c \in Seq(Sections) /\ LabelTexts(Members(c)) = TextsOf(d.EN) \cup TextsOf(d.CN)
      /\ e \in Seq(Sections) /\ LabelTexts(Members(e)) = ExampleSet(d)
  BY EtymologyShown, InfoShown, ExplainShown, ExamplesShown
<1> HIDE DEF a, b, c, e
<1>3. ASSUME NEW s \in Seq(Sections), NEW t \in Seq(Sections)
      PROVE  /\ s \o t \in Seq(Sections)
             /\ LabelTexts(Members(s \o t)) = LabelTexts(Members(s)) \cup LabelTexts(Members(t))
  <2>1. Members(s \o t) = Members(s) \cup Members(t)
    BY MembersOfBoth
  <2> QED
    BY <2>1, LabelTextsOfBoth
<1>4. /\ a \o b \in Seq(Sections)
      /\ LabelTexts(Members(a \o b)) = Children(d.etymology)
  <2>1. LabelTexts(Members(a \o b)) = LabelTexts(Members(a)) \cup LabelTexts(Members(b))
    BY <1>2, <1>3
  <2>2. a \o b \in Seq(Sections)
    BY <1>2
  <2> QED
    BY <1>2, <2>1, <2>2
<1>5. /\ (a \o b) \o c \in Seq(Sections)
      /\ LabelTexts(Members((a \o b) \o c))
           = Children(d.etymology) \cup (TextsOf(d.EN) \cup TextsOf(d.CN))
  <2> DEFINE s == a \o b
  <2>1. s \in Seq(Sections) /\ LabelTexts(Members(s)) = Children(d.etymology)
    BY <1>4
  <2> HIDE DEF s
  <2>2. s \o c \in Seq(Sections) /\ LabelTexts(Members(s \o c))
           = Children(d.etymology) \cup (TextsOf(d.EN) \cup TextsOf(d.CN))
    BY <1>2, <1>3, <2>1
  <2> QED
    BY <2>2 DEF s
<1> DEFINE s == (a \o b) \o c
<1>6. s \in Seq(Sections) /\ LabelTexts(Members(s))
                               = Children(d.etymology) \cup (TextsOf(d.EN) \cup TextsOf(d.CN))
  BY <1>5
<1> HIDE DEF s
<1>7. s \o e \in Seq(Sections) /\ LabelTexts(Members(s \o e)) = ShownTexts(d)
  BY <1>2, <1>3, <1>6 DEF ShownTexts
<1> QED
  BY <1>1, <1>7 DEF s

(***************************************************************************)
(* What a definition adds by itself to the section of its dictionary.      *)
(***************************************************************************)
LEMMA AddOwnAdds ==
  ASSUME NEW d \in Defs, NEW l2 \in L2
  PROVE  /\ AddOwn(l2, d) \in L2
         /\ TextsOf(Drawn(AddOwn(l2, d))) = TextsOf(Drawn(l2)) \cup ShownTexts(d)
         /\ AddOwn(l2, d).ipa = IF IsSome(d.pronunciation) THEN d.pronunciation ELSE l2.ipa
         /\ AddOwn(l2, d).kind = IF IsSome(d.type) THEN Kind(d) ELSE l2.kind
<1> DEFINE own == OwnSections(d)
           pushed == FoldLeft(PushDedup, l2.content, own)
           ipa == IF IsSome(d.pronunciation) THEN d.pronunciation ELSE l2.ipa
           kind == IF IsSome(d.type) THEN Kind(d) ELSE l2.kind
<1>1. /\ l2.content \in Seq(Sections) /\ l2.ipa \in Option(Pronunciations)
      /\ l2.kind \in Option(Texts)
  BY DEF L2
<1>2. own \in Seq(Sections) /\ LabelTexts(Members(own)) = ShownTexts(d)
  BY OwnShown
<1>3. pushed \in Seq(Sections) /\ Members(pushed) = Members(l2.content) \cup Members(own)
  <2> HIDE DEF own
  <2> QED
    BY <1>1, <1>2, FoldOfPushes
<1>4. AddOwn(l2, d) = [ipa |-> ipa, kind |-> kind, content |-> pushed]
  BY DEF AddOwn
<1>5. ipa \in Option(Pronunciations) /\ kind \in Option(Texts)
  BY <1>1, DefFields, KindIs
<1> HIDE DEF pushed
<1>6. AddOwn(l2, d) \in L2 /\ AddOwn(l2, d).content = pushed
  <2> HIDE DEF ipa, kind
  <2> QED
    BY <1>3, <1>4, <1>5 DEF L2
<1>7. LabelTexts(Members(pushed)) = LabelTexts(Members(l2.content)) \cup ShownTexts(d)
  <2> HIDE DEF own
  <2> QED
    BY <1>2, <1>3, LabelTextsOfBoth
<1>8. TextsOf(Drawn(AddOwn(l2, d))) = TextsOf(Drawn(l2)) \cup ShownTexts(d)
  BY <1>6, <1>7, DrawnTexts
<1> QED
  BY <1>4, <1>6, <1>8

(***************************************************************************)
(* A fold goes one way only, whose end is a value; it depends on what the  *)
(* function has for the members of the sequence.                           *)
(***************************************************************************)
LEMMA RunsAgree ==
  ASSUME NEW n \in Nat, NEW W, NEW base, NEW step, NEW at1, NEW at2, NEW r1, NEW r2,
         FoldRun(at1, n, W, base, step, r1), FoldRun(at2, n, W, base, step, r2)
  PROVE  r1 = r2 /\ r1 \in W
<1> DEFINE T == {i \in Nat : i <= n => at1[i] = at2[i]}
<1>1. Nat \subseteq T
  <2>1. 0 \in T
    BY DEF FoldRun
  <2>2. ASSUME NEW i \in Nat, i \in T PROVE i + 1 \in T
    <3> SUFFICES ASSUME i + 1 <= n PROVE at1[i + 1] = at2[i + 1]
      OBVIOUS
    <3>1. i + 1 \in 1 .. n /\ (i + 1) - 1 = i /\ at1[i] = at2[i]
      BY <2>2
    <3> QED
      BY <3>1 DEF FoldRun
  <2> QED
    <3> HIDE DEF T
    <3> QED
      BY <2>1, <2>2, NatSetInduction
<1>2. at1[n] = at2[n]
  BY <1>1
<1>3. at1[n] \in W
  BY DEF FoldRun
<1> QED
  BY <1>2, <1>3 DEF FoldRun

Alike(g, h, s, W) == \A i \in 1 .. Len(s) : g[s[i]] \in [W -> W] /\ g[s[i]] = h[s[i]]

\* Functions that agree on the members of a list fold to the same.
LEMMA FoldOfAgrees ==
  ASSUME NEW S, NEW W, NEW base \in W, NEW s \in Seq(S), NEW g, NEW h,
         Alike(g, h, s, W)
  PROVE  FoldOf(g, base, s) = FoldOf(h, base, s) /\ FoldOf(g, base, s) \in W
<1> DEFINE n == Len(s)
           gs == [i \in 1 .. n |-> g[s[i]]]
           hs == [i \in 1 .. n |-> h[s[i]]]
           rg == FoldOf(g, base, s)
           rh == FoldOf(h, base, s)
<1>1. n \in Nat
  OBVIOUS
<1>2. PICK at1 : FoldRun(at1, n, W, base, gs, rg)
  BY FoldOfSteps DEF Alike
<1>3. \A i \in 1 .. n : h[s[i]] \in [W -> W]
  BY DEF Alike
<1>4. PICK at2 : FoldRun(at2, n, W, base, hs, rh)
  BY <1>3, FoldOfSteps
<1>5. gs = hs
  BY DEF Alike
<1> HIDE DEF n, gs, hs, rg, rh
<1>6. rg = rh /\ rg \in W
  BY <1>1, <1>2, <1>4, <1>5, RunsAgree
<1> QED
  BY <1>6 DEF rg, rh

(***************************************************************************)
(* The recursion of render_def: what a definition adds by itself, and then *)
(* what those nested in it by definitions add, one after the other.        *)
(***************************************************************************)
LEMMA RenderIntoUnfold ==
  /\ RenderInto \in [Defs -> [L2 -> L2]]
  /\ \A d \in Defs : \A l2 \in L2 :
       RenderInto[d][l2] = FoldOf(RenderInto, AddOwn(l2, d), Items(d.definitions))
<1> DEFINE R == [L2 -> L2]
           Body(g, d) == [l2 \in L2 |-> FoldOf(g, AddOwn(l2, d), Items(d.definitions))]
           Def(g) == g = [d \in Defs |-> Body(g, d)]
           step == [g \in [Defs -> R] |-> [d \in Defs |-> Body(g, d)]]
<1>1. ASSUME NEW d \in Defs, NEW g \in [Defs -> R], NEW h \in [Defs -> R],
             \A e \in Kids(d) : g[e] = h[e]
      PROVE  Body(g, d) = Body(h, d) /\ Body(g, d) \in R
  <2> DEFINE s == Items(d.definitions)
  <2>1. s \in Seq(Defs) /\ \A i \in 1 .. Len(s) : s[i] \in Kids(d) /\ s[i] \in Defs
    BY Nested
  <2>2. Alike(g, h, s, L2)
    <3> HIDE DEF s
    <3> QED
      BY <1>1, <2>1 DEF Alike
  <2>3. \A l2 \in L2 : /\ FoldOf(g, AddOwn(l2, d), s) = FoldOf(h, AddOwn(l2, d), s)
                       /\ FoldOf(g, AddOwn(l2, d), s) \in L2
    <3> SUFFICES ASSUME NEW l2 \in L2
                 PROVE  /\ FoldOf(g, AddOwn(l2, d), s) = FoldOf(h, AddOwn(l2, d), s)
                        /\ FoldOf(g, AddOwn(l2, d), s) \in L2
      OBVIOUS
    <3> DEFINE base == AddOwn(l2, d)
    <3>1. base \in L2
      BY AddOwnAdds
    <3>2. s \in Seq(Defs)
      BY <2>1
    <3> HIDE DEF s, base, R
    <3>3. FoldOf(g, base, s) = FoldOf(h, base, s) /\ FoldOf(g, base, s) \in L2
      BY <2>2, <3>1, <3>2, FoldOfAgrees
    <3> QED
      BY <3>3 DEF base
  <2> QED
    BY <2>3
<1>2. KidsOnly(step, R)
  <2> SUFFICES ASSUME NEW d \in Defs, NEW g \in [Defs -> R], NEW h \in [Defs -> R],
                      \A e \in Kids(d) : g[e] = h[e]
               PROVE  step[g][d] = step[h][d]
    BY DEF KidsOnly
  <2>1. Body(g, d) = Body(h, d)
    BY <1>1
  <2> HIDE DEF Body, R
  <2> QED
    BY <2>1
<1>3. step \in [[Defs -> R] -> [Defs -> R]]
  <2>1. \A g \in [Defs -> R] : \A d \in Defs : Body(g, d) \in R
    BY <1>1
  <2> HIDE DEF Body, R
  <2> QED
    BY <2>1
<1>4. [l \in L2 |-> l] \in R
  OBVIOUS
<1>5. PICK f : Recursive(f, Defs, R, step)
  <2> HIDE DEF step, R
  <2> QED
    BY <1>2, <1>3, <1>4, TreeRecursion
<1>6. Def(f)
  <2> HIDE DEF Body, R
  <2> QED
    BY <1>5 DEF Recursive
<1>7. Def(CHOOSE g : Def(g))
  <2> HIDE DEF Def
  <2> QED
    BY <1>6
<1>8. RenderInto = CHOOSE g : Def(g)
  BY DEF RenderInto, FoldOf
<1>9. Def(RenderInto)
  <2> HIDE DEF Def
  <2> QED
    BY <1>7, <1>8
<1>10. \A d \in Defs : RenderInto[d] = Body(RenderInto, d)
  <2> HIDE DEF Body
  <2> QED
    BY <1>9
<1> DEFINE T == {d \in Defs : RenderInto[d] \in R}
<1>11. Defs \subseteq T
  <2>1. ASSUME NEW d \in Defs, Kids(d) \subseteq T PROVE d \in T
    <3> DEFINE s == Items(d.definitions)
               g == RenderInto
    <3>1. s \in Seq(Defs) /\ \A i \in 1 .. Len(s) : s[i] \in Kids(d)
      BY Nested
    <3>2. Alike(g, g, s, L2)
      BY <2>1, <3>1 DEF Alike
    <3>3. \A l2 \in L2 : FoldOf(g, AddOwn(l2, d), s) \in L2
      <4> SUFFICES ASSUME NEW l2 \in L2 PROVE FoldOf(g, AddOwn(l2, d), s) \in L2
        OBVIOUS
      <4>1. AddOwn(l2, d) \in L2
        BY AddOwnAdds
      <4> HIDE DEF s, g
      <4> QED
        BY <3>1, <3>2, <4>1, FoldOfAgrees
    <3>4. Body(g, d) \in R
      BY <3>3
    <3> HIDE DEF Body, R
    <3> QED
      BY <1>10, <3>4
  <2> HIDE DEF T
  <2> QED
    BY <2>1, TreeInduction
<1>12. RenderInto \in [Defs -> R]
  <2> HIDE DEF Body, R
  <2> QED
    BY <1>9, <1>11
<1> QED
  BY <1>10, <1>12

(***************************************************************************)
(* The steps of render_def: the section it starts from, with what the      *)
(* definition adds by itself, and then after each definition nested in it. *)
(***************************************************************************)
Rendering(at, d, l2) ==
  LET nested == Items(d.definitions) IN
  /\ at \in [0 .. Len(nested) -> L2] /\ at[0] = AddOwn(l2, d)
  /\ at[Len(nested)] = RenderInto[d][l2]
  /\ \A i \in 1 .. Len(nested) : at[i] = RenderInto[nested[i]][at[i - 1]]

\* RenderInto satisfies its equation: after the own sections it takes one step
\* per nested definition.
LEMMA RenderSteps ==
  ASSUME NEW d \in Defs, NEW l2 \in L2
  PROVE  \E at : Rendering(at, d, l2)
<1> DEFINE s == Items(d.definitions)
           base == AddOwn(l2, d)
           g == RenderInto
           r == FoldOf(g, base, s)
           step == [i \in 1 .. Len(s) |-> g[s[i]]]
<1>1. s \in Seq(Defs) /\ \A i \in 1 .. Len(s) : s[i] \in Defs
  BY Nested
<1>2. base \in L2
  BY AddOwnAdds
<1>3. \A i \in 1 .. Len(s) : g[s[i]] \in [L2 -> L2]
  <2> HIDE DEF s
  <2> QED
    BY <1>1, RenderIntoUnfold
<1>4. PICK at : FoldRun(at, Len(s), L2, base, step, r)
  <2> HIDE DEF s, base, g
  <2> QED
    BY <1>1, <1>2, <1>3, FoldOfSteps
<1>5. r = RenderInto[d][l2]
  BY RenderIntoUnfold
<1>6. /\ at \in [0 .. Len(s) -> L2] /\ at[0] = base /\ at[Len(s)] = r
      /\ \A i \in 1 .. Len(s) : at[i] = g[s[i]][at[i - 1]]
  <2> HIDE DEF s, base, g, r
  <2> QED
    BY <1>4 DEF FoldRun
<1> HIDE DEF r
<1>7. Rendering(at, d, l2)
  BY <1>5, <1>6 DEF Rendering
<1> QED
  BY <1>7

(***************************************************************************)
(* What render_def draws: the texts shown in the definition and in all     *)
(* that are nested in it by definitions, beside what was drawn before.     *)
(***************************************************************************)
ShownIn(nodes) == UNION {ShownTexts(e) : e \in nodes}
Shown(d) == ShownIn(Nodes[d]["definitions"])
ShownUpTo(s, n) == UNION {Shown(s[j]) : j \in 1 .. n}

\* The texts shown of a definition: its own and those of the nested ones.
LEMMA ShownUnfold ==
  ASSUME NEW d \in Defs
  PROVE  Shown(d) = ShownTexts(d) \cup ShownUpTo(Items(d.definitions), Len(Items(d.definitions)))
<1> DEFINE s == Items(d.definitions)
           below == Below(d, "definitions")
<1>1. Nodes[d]["definitions"] = {d} \cup UNION {Nodes[e]["definitions"] : e \in below}
  BY NodesUnfold DEF Ways
<1>2. below = {s[i] : i \in 1 .. Len(s)}
  BY DEF Below, Children
<1> HIDE DEF s, below
<1>3. \A t : t \in Shown(d) <=> t \in ShownTexts(d) \/ \E e \in below : t \in Shown(e)
  <2>1. ASSUME NEW X PROVE \A t : t \in ShownIn(X) <=> \E x \in X : t \in ShownTexts(x)
    BY DEF ShownIn
  <2>2. \A x : x \in Nodes[d]["definitions"]
                 <=> x = d \/ \E e \in below : x \in Nodes[e]["definitions"]
    BY <1>1
  <2> QED
    BY <2>1, <2>2 DEF Shown
<1>4. \A t : t \in ShownUpTo(s, Len(s)) <=> \E i \in 1 .. Len(s) : t \in Shown(s[i])
  BY DEF ShownUpTo
<1>5. \A t : t \in Shown(d) <=> t \in ShownTexts(d) \/ t \in ShownUpTo(s, Len(s))
  <2>1. \A e : e \in below <=> \E i \in 1 .. Len(s) : e = s[i]
    BY <1>2
  <2> HIDE DEF Shown
  <2> QED
    BY <1>3, <1>4, <2>1
<1> HIDE DEF Shown, ShownUpTo
<1> QED
  BY <1>5 DEF s

\* Rendering a definition into a section adds exactly its texts.
LEMMA RenderIntoDraws ==
  ASSUME NEW d \in Defs
  PROVE  \A l2 \in L2 : TextsOf(Drawn(RenderInto[d][l2])) = TextsOf(Drawn(l2)) \cup Shown(d)
<1> DEFINE Draws(c) ==
             \A l2 \in L2 : TextsOf(Drawn(RenderInto[c][l2])) = TextsOf(Drawn(l2)) \cup Shown(c)
           T == {c \in Defs : Draws(c)}
<1>1. ASSUME NEW c \in Defs, Kids(c) \subseteq T PROVE c \in T
  <2> SUFFICES ASSUME NEW l2 \in L2
               PROVE  TextsOf(Drawn(RenderInto[c][l2])) = TextsOf(Drawn(l2)) \cup Shown(c)
    OBVIOUS
  <2> DEFINE s == Items(c.definitions)
             n == Len(s)
             before == TextsOf(Drawn(l2)) \cup ShownTexts(c)
  <2>1. n \in Nat /\ \A i \in 1 .. n : s[i] \in Defs /\ Draws(s[i])
    <3>1. s \in Seq(Defs) /\ \A i \in 1 .. n : s[i] \in Kids(c)
      BY Nested
    <3> HIDE DEF Draws
    <3> QED
      BY <1>1, <3>1
  <2>2. PICK at : Rendering(at, c, l2)
    BY RenderSteps
  <2>3. /\ at \in [0 .. n -> L2] /\ at[0] = AddOwn(l2, c) /\ at[n] = RenderInto[c][l2]
        /\ \A i \in 1 .. n : at[i] = RenderInto[s[i]][at[i - 1]]
    BY <2>2 DEF Rendering
  <2> HIDE DEF s, n
  <2> DEFINE U == {i \in Nat : i <= n => TextsOf(Drawn(at[i])) = before \cup ShownUpTo(s, i)}
  <2>4. Nat \subseteq U
    <3>1. 0 \in U
      <4>1. ShownUpTo(s, 0) = {}
        BY DEF ShownUpTo
      <4>2. TextsOf(Drawn(at[0])) = before
        BY <2>3, AddOwnAdds
      <4> HIDE DEF before
      <4> QED
        BY <4>1, <4>2
    <3>2. ASSUME NEW i \in Nat, i \in U PROVE i + 1 \in U
      <4> SUFFICES ASSUME i + 1 <= n
                   PROVE  TextsOf(Drawn(at[i + 1])) = before \cup ShownUpTo(s, i + 1)
        OBVIOUS
      <4>1. i + 1 \in 1 .. n /\ (i + 1) - 1 = i /\ i \in 0 .. n
        BY <2>1
      <4>2. TextsOf(Drawn(at[i])) = before \cup ShownUpTo(s, i)
        <5>1. i <= n
          BY <2>1
        <5> HIDE DEF before
        <5> QED
          BY <3>2, <5>1
      <4>3. at[i] \in L2 /\ at[i + 1] = RenderInto[s[i + 1]][at[i]]
        BY <2>3, <4>1
      <4>4. TextsOf(Drawn(at[i + 1])) = TextsOf(Drawn(at[i])) \cup Shown(s[i + 1])
        BY <2>1, <4>1, <4>3
      <4>5. ShownUpTo(s, i + 1) = ShownUpTo(s, i) \cup Shown(s[i + 1])
        <5>1. \A j : j \in 1 .. i + 1 <=> j \in 1 .. i \/ j = i + 1
          OBVIOUS
        <5>2. ASSUME NEW m PROVE \A t : t \in ShownUpTo(s, m) <=> \E j \in 1 .. m : t \in Shown(s[j])
          BY DEF ShownUpTo
        <5>3. \A t : t \in ShownUpTo(s, i + 1) <=> t \in ShownUpTo(s, i) \/ t \in Shown(s[i + 1])
          <6> HIDE DEF Shown, ShownUpTo
          <6> QED
            BY <5>1, <5>2
        <5> HIDE DEF Shown, ShownUpTo
        <5> QED
          BY <5>3
      <4> HIDE DEF before
      <4> QED
        BY <4>2, <4>4, <4>5
    <3> QED
      <4> HIDE DEF U
      <4> QED
        BY <3>1, <3>2, NatSetInduction
  <2>5. TextsOf(Drawn(at[n])) = before \cup ShownUpTo(s, n)
    BY <2>1, <2>4
  <2>6. Shown(c) = ShownTexts(c) \cup ShownUpTo(s, n)
    BY ShownUnfold DEF s, n
  <2> QED
    BY <2>3, <2>5, <2>6
<1>2. Defs \subseteq T
  <2> HIDE DEF T
  <2> QED
    BY <1>1, TreeInduction
<1> QED
  BY <1>2

(***************************************************************************)
(* What EntryDrawn says of every definition.                               *)
(***************************************************************************)
LEMMA RenderDraws ==
  ASSUME NEW d \in Defs
  PROVE  TextsOf(Drawn(Render(d))) = UNION {ShownTexts(e) : e \in Nodes[d]["definitions"]}
<1> DEFINE none == [ipa |-> None, kind |-> None, content |-> <<>>]
<1>1. none \in L2 /\ none.content = <<>>
  BY OptionValues DEF L2
<1>2. TextsOf(Drawn(none)) = {}
  BY <1>1, DrawnTexts, NoSection
<1>3. Render(d) = RenderInto[d][none]
  BY DEF Render
<1> HIDE DEF none
<1>4. TextsOf(Drawn(Render(d))) = Shown(d)
  BY <1>1, <1>2, <1>3, RenderIntoDraws
<1> QED
  BY <1>4 DEF Shown, ShownIn

(***************************************************************************)
(* The heading render_def leaves: what the last definition to have the     *)
(* field has in it, or what there was before.                              *)
(***************************************************************************)
Heading(l2, field) == IF field = "type" THEN l2.kind ELSE l2.ipa
HeadingAfter(d, l2, field) ==
  IF IsSome(LastGiven[d][field]) THEN LastGiven[d][field] ELSE Heading(l2, field)
GivingUpTo(s, i, field) == {j \in 1 .. i : IsSome(LastGiven[s[j]][field])}

\* What a definition alone does to the heading.
LEMMA OwnHeading ==
  ASSUME NEW d \in Defs, NEW l2 \in L2, NEW field \in Fields
  PROVE  Heading(AddOwn(l2, d), field) =
           IF IsSome(DrawnAs(d, field)) THEN DrawnAs(d, field) ELSE Heading(l2, field)
<1>1. CASE field = "type"
  BY <1>1, AddOwnAdds, KindIs DEF Heading, DrawnAs
<1>2. CASE field = "pronunciation"
  BY <1>2, AddOwnAdds DEF Heading, DrawnAs
<1> QED
  BY <1>1, <1>2 DEF Fields

\* Rendering a definition into a section replaces the heading if it, or what is
\* nested in it, has one.
LEMMA RenderIntoHeads ==
  ASSUME NEW d \in Defs, NEW field \in Fields
  PROVE  \A l2 \in L2 : Heading(RenderInto[d][l2], field) = HeadingAfter(d, l2, field)
<1> DEFINE Heads(c) ==
             \A l2 \in L2 : Heading(RenderInto[c][l2], field) = HeadingAfter(c, l2, field)
           T == {c \in Defs : Heads(c)}
<1>1. ASSUME NEW c \in Defs, Kids(c) \subseteq T PROVE c \in T
  <2> SUFFICES ASSUME NEW l2 \in L2
               PROVE  Heading(RenderInto[c][l2], field) = HeadingAfter(c, l2, field)
    OBVIOUS
  <2> DEFINE s == Items(c.definitions)
             n == Len(s)
             own == Heading(AddOwn(l2, c), field)
             Given(j) == LastGiven[s[j]][field]
             G(i) == GivingUpTo(s, i, field)
             Q(at, i) == \/ G(i) = {} /\ Heading(at[i], field) = own
                         \/ \E m \in G(i) : /\ \A j \in G(i) : j <= m
                                            /\ Heading(at[i], field) = Given(m)
  <2>1. n \in Nat /\ \A i \in 1 .. n : s[i] \in Defs /\ Heads(s[i])
    <3>1. s \in Seq(Defs) /\ \A i \in 1 .. n : s[i] \in Kids(c)
      BY Nested
    <3> HIDE DEF Heads
    <3> QED
      BY <1>1, <3>1
  <2>2. PICK at : Rendering(at, c, l2)
    BY RenderSteps
  <2>3. /\ at \in [0 .. n -> L2] /\ at[0] = AddOwn(l2, c) /\ at[n] = RenderInto[c][l2]
        /\ \A i \in 1 .. n : at[i] = RenderInto[s[i]][at[i - 1]]
    BY <2>2 DEF Rendering
  <2>4. LastGiven[c][field] = IF G(n) = {} THEN DrawnAs(c, field) ELSE Given(Max(G(n)))
    BY LastGivenUnfold DEF GivingUpTo
  <2>5. own = IF IsSome(DrawnAs(c, field)) THEN DrawnAs(c, field) ELSE Heading(l2, field)
    BY OwnHeading
  <2> HIDE DEF s, n, own
  <2> DEFINE U == {i \in Nat : i <= n => Q(at, i)}
  <2>6. Nat \subseteq U
    <3>1. 0 \in U
      <4>1. G(0) = {}
        BY DEF GivingUpTo
      <4>2. Heading(at[0], field) = own
        BY <2>3 DEF own
      <4> HIDE DEF G
      <4> QED
        BY <4>1, <4>2
    <3>2. ASSUME NEW i \in Nat, i \in U PROVE i + 1 \in U
      <4> SUFFICES ASSUME i + 1 <= n PROVE Q(at, i + 1)
        OBVIOUS
      <4>1. i + 1 \in 1 .. n /\ (i + 1) - 1 = i /\ i \in 0 .. n
        BY <2>1
      <4>2. Q(at, i)
        <5>1. i <= n
          BY <2>1
        <5> HIDE DEF Q
        <5> QED
          BY <3>2, <5>1
      <4>3. at[i] \in L2 /\ at[i + 1] = RenderInto[s[i + 1]][at[i]]
        BY <2>3, <4>1
      <4>4. Heading(at[i + 1], field) = IF IsSome(Given(i + 1)) THEN Given(i + 1)
                                                                ELSE Heading(at[i], field)
        BY <2>1, <4>1, <4>3 DEF HeadingAfter
      <4>5. G(i + 1) = IF IsSome(Given(i + 1)) THEN G(i) \cup {i + 1} ELSE G(i)
        <5>1. \A j : j \in 1 .. i + 1 <=> j \in 1 .. i \/ j = i + 1
          OBVIOUS
        <5>2. \A k : \A j : j \in G(k) <=> j \in 1 .. k /\ IsSome(Given(j))
          BY DEF GivingUpTo
        <5>3. \A j : j \in G(i + 1) <=> j \in G(i) \/ (j = i + 1 /\ IsSome(Given(i + 1)))
          <6> HIDE DEF G, Given
          <6> QED
            BY <5>1, <5>2
        <5> HIDE DEF G, Given
        <5> QED
          BY <5>3
      <4>6. G(i) \subseteq 1 .. i
        BY DEF GivingUpTo
      <4>7. CASE IsSome(Given(i + 1))
        <5>1. i + 1 \in G(i + 1) /\ \A j \in G(i + 1) : j <= i + 1
          <6> HIDE DEF G, Given
          <6> QED
            BY <4>5, <4>6, <4>7
        <5> HIDE DEF G, Given
        <5> QED
          BY <4>4, <4>7, <5>1
      <4>8. CASE ~IsSome(Given(i + 1))
        <5> HIDE DEF G, Given
        <5> QED
          BY <4>2, <4>4, <4>5, <4>8
      <4> QED
        BY <4>7, <4>8
    <3> QED
      <4> HIDE DEF U
      <4> QED
        BY <3>1, <3>2, NatSetInduction
  <2>7. Q(at, n)
    <3> HIDE DEF Q
    <3> QED
      BY <2>1, <2>6
  <2>8. \A j \in G(n) : IsSome(Given(j))
    BY DEF GivingUpTo
  <2>9. CASE G(n) = {}
    <3> HIDE DEF G
    <3> QED
      BY <2>3, <2>4, <2>5, <2>7, <2>9 DEF HeadingAfter
  <2>10. CASE G(n) # {}
    <3>1. PICK m \in G(n) : /\ \A j \in G(n) : j <= m
                            /\ Heading(at[n], field) = Given(m)
      <4> HIDE DEF G
      <4> QED
        BY <2>7, <2>10
    <3>2. G(n) \in SUBSET (1 .. n)
      BY DEF GivingUpTo
    <3>3. Max(G(n)) \in G(n) /\ \A j \in G(n) : j <= Max(G(n))
      <4> HIDE DEF G
      <4> QED
        BY <2>1, <2>10, <3>2, MaxIndex
    <3>4. Max(G(n)) = m
      <4>1. m \in Nat /\ Max(G(n)) \in Nat
        <5> HIDE DEF G
        <5> QED
          BY <2>1, <3>1, <3>2, <3>3
      <4>2. m <= Max(G(n)) /\ Max(G(n)) <= m
        <5> HIDE DEF G
        <5> QED
          BY <3>1, <3>3
      <4> HIDE DEF G
      <4> QED
        BY <4>1, <4>2
    <3> HIDE DEF G, Given
    <3> QED
      BY <2>3, <2>4, <2>8, <2>10, <3>1, <3>4 DEF HeadingAfter, Given
  <2> QED
    BY <2>9, <2>10
<1>2. Defs \subseteq T
  <2> HIDE DEF T
  <2> QED
    BY <1>1, TreeInduction
<1> QED
  BY <1>2

(***************************************************************************)
(* What HeadingOfLast says of every definition.                            *)
(***************************************************************************)
LEMMA RenderHeads ==
  ASSUME NEW d \in Defs
  PROVE  /\ Render(d).kind = LastGiven[d]["type"]
         /\ Render(d).ipa = LastGiven[d]["pronunciation"]
<1> DEFINE none == [ipa |-> None, kind |-> None, content |-> <<>>]
<1>1. none \in L2 /\ none.ipa = None /\ none.kind = None
  BY OptionValues DEF L2
<1>2. Render(d) = RenderInto[d][none]
  BY DEF Render
<1> HIDE DEF none
<1>3. \A field \in Fields : Heading(Render(d), field) = LastGiven[d][field]
  <2> SUFFICES ASSUME NEW field \in Fields
               PROVE  Heading(Render(d), field) = LastGiven[d][field]
    OBVIOUS
  <2>1. Heading(Render(d), field) = HeadingAfter(d, none, field)
    BY <1>1, <1>2, RenderIntoHeads
  <2>2. Heading(none, field) = None
    BY <1>1 DEF Heading
  <2> QED
    BY <2>1, <2>2 DEF HeadingAfter, IsSome
<1> QED
  BY <1>3 DEF Fields, Heading

--------------------------------------------------------------------------------
(* What is drawn of a cleaned definition.                                  *)

CleanTexts(X) == UNION {TextsOf(CleanText(t)) : t \in X}

\* The members of CleanTexts.
LEMMA InCleanTexts ==
  ASSUME NEW X
  PROVE  \A u : u \in CleanTexts(X) <=> \E t \in X : u \in TextsOf(CleanText(t))
  BY DEF CleanTexts

\* Two sets of texts are cleaned one by one.
LEMMA CleanTextsOfBoth ==
  ASSUME NEW X, NEW Y
  PROVE  CleanTexts(X \cup Y) = CleanTexts(X) \cup CleanTexts(Y)
<1>1. \A u : u \in CleanTexts(X \cup Y) <=> u \in CleanTexts(X) \/ u \in CleanTexts(Y)
  BY InCleanTexts
<1> QED
  BY <1>1

\* No text, and one.
LEMMA NoneAndOne ==
  /\ TextsOf(None) = {} /\ CleanTexts({}) = {}
  /\ \A t : TextsOf(Some(t)) = {t} /\ CleanTexts({t}) = TextsOf(CleanText(t))
<1>1. TextsOf(None) = {}
  BY DEF TextsOf, None
<1>2. CleanTexts({}) = {}
  BY DEF CleanTexts
<1>3. \A t : TextsOf(Some(t)) = {t}
  BY DEF TextsOf, Some
<1>4. \A t : CleanTexts({t}) = TextsOf(CleanText(t))
  BY DEF CleanTexts
<1> QED
  BY <1>1, <1>2, <1>3, <1>4

(***************************************************************************)
(* An optional text, the etymology, and an example: the texts of the       *)
(* cleaned one are the cleaned texts.                                      *)
(***************************************************************************)
LEMMA StrKept ==
  ASSUME NEW o \in Option(Texts)
  PROVE  TextsOf(CleanStr(o)) = CleanTexts(TextsOf(o))
<1>1. CASE o = None
  BY <1>1, NoneAndOne DEF CleanStr, IsSome
<1>2. CASE IsSome(o) /\ o = Some(o[1])
  <2>1. TextsOf(o) = {o[1]} /\ CleanStr(o) = CleanText(o[1])
    BY <1>2, NoneAndOne DEF CleanStr
  <2> QED
    BY <2>1, NoneAndOne
<1> QED
  BY <1>1, <1>2, OptionValues

\* The texts of a cleaned etymology, of which none is cleaned to nothing.
LEMMA EtymologyKept ==
  ASSUME NEW o \in Option(Seq(Texts)),
         \A i \in 1 .. Len(Items(o)) : IsSome(CleanText(Items(o)[i]))
  PROVE  Children(CleanSeqBy(Strip, o)) = CleanTexts(Children(o))
<1> DEFINE s == Items(o)
           c == CleanSeqBy(Strip, o)
<1>1. s \in Seq(Texts)
  BY ItemsOf
<1>2. \A i \in 1 .. Len(s) : s[i] \in Texts /\ Strip[s[i]] \in Texts
  <2>1. \A i \in 1 .. Len(s) : s[i] \in Texts
    BY <1>1
  <2> HIDE DEF s
  <2> QED
    BY <2>1, TextsClean
<1>3. Len(Items(c)) = Len(s) /\ \A i \in 1 .. Len(s) : Items(c)[i] = Strip[s[i]]
  <2>1. \A i \in 1 .. Len(Items(o)) : Strip[Items(o)[i]] \in Texts
    BY <1>2
  <2> QED
    BY <2>1, CleanSeqMakes
<1>4. \A i \in 1 .. Len(s) : TextsOf(CleanText(s[i])) = {Strip[s[i]]}
  BY <1>2, TextsClean, NoneAndOne
<1> HIDE DEF s, c
<1>5. \A u : u \in Children(c) <=> \E i \in 1 .. Len(s) : u = Strip[s[i]]
  BY <1>3 DEF Children
<1>6. \A u : u \in CleanTexts(Children(o)) <=> \E i \in 1 .. Len(s) : u = Strip[s[i]]
  <2>1. \A t : t \in Children(o) <=> \E i \in 1 .. Len(s) : t = s[i]
    BY DEF Children, s
  <2>2. \A u : u \in CleanTexts(Children(o))
                 <=> \E i \in 1 .. Len(s) : u \in TextsOf(CleanText(s[i]))
    BY <2>1, InCleanTexts
  <2>3. \A u : \A i \in 1 .. Len(s) : u \in TextsOf(CleanText(s[i])) <=> u = Strip[s[i]]
    BY <1>4
  <2> QED
    BY <2>2, <2>3
<1> QED
  BY <1>5, <1>6 DEF c

\* The texts of a cleaned list of optional texts.
LEMMA VecKept ==
  ASSUME NEW ts \in Seq(Option(Texts))
  PROVE  TextsOf(FlattenSeq(MapSeq(CleanStr, ts))) = CleanTexts(TextsOf(FlattenSeq(ts)))
<1> DEFINE n == Len(ts)
           cs == MapSeq(CleanStr, ts)
<1>1. n \in Nat /\ \A i \in 1 .. n : ts[i] \in Option(Texts)
  OBVIOUS
<1>2. cs \in Seq(Option(Texts)) /\ Len(cs) = n /\ \A i \in 1 .. n : cs[i] = CleanStr(ts[i])
  <2>1. \A i \in 1 .. n : CleanStr(ts[i]) \in Option(Texts)
    BY <1>1, StrsClean
  <2>2. cs = [i \in 1 .. n |-> CleanStr(ts[i])]
    BY DEF MapSeq
  <2> HIDE DEF cs, n
  <2> QED
    BY <1>1, <2>1, <2>2
<1>3. ASSUME NEW s \in Seq(Option(Texts))
      PROVE  \A u : u \in TextsOf(FlattenSeq(s)) <=> \E i \in 1 .. Len(s) : u \in TextsOf(s[i])
  <2>1. s \in Seq(Seq(Texts))
    <3>1. ASSUME NEW S, NEW T, S \subseteq T PROVE Seq(S) \subseteq Seq(T)
      BY <3>1
    <3> HIDE DEF Option
    <3> QED
      BY <3>1, OptionIsSeq
  <2>2. Members(FlattenSeq(s)) = MembersUpTo(s, Len(s))
    BY <2>1, FlattenMembers
  <2>3. \A x : Members(x) = TextsOf(x)
    BY DEF Members, TextsOf
  <2>4. \A u : u \in MembersUpTo(s, Len(s)) <=> \E i \in 1 .. Len(s) : u \in Members(s[i])
    BY DEF MembersUpTo
  <2> QED
    BY <2>2, <2>3, <2>4
<1> HIDE DEF n, cs
<1>4. \A i \in 1 .. n : TextsOf(cs[i]) = CleanTexts(TextsOf(ts[i]))
  BY <1>1, <1>2, StrKept
<1>5. \A u : u \in TextsOf(FlattenSeq(cs)) <=> \E i \in 1 .. n : u \in CleanTexts(TextsOf(ts[i]))
  BY <1>2, <1>3, <1>4
<1>6. \A u : u \in CleanTexts(TextsOf(FlattenSeq(ts)))
               <=> \E i \in 1 .. n : u \in CleanTexts(TextsOf(ts[i]))
  <2>1. \A t : t \in TextsOf(FlattenSeq(ts)) <=> \E i \in 1 .. n : t \in TextsOf(ts[i])
    BY <1>3 DEF n
  <2> QED
    BY <2>1, InCleanTexts
<1> QED
  BY <1>5, <1>6 DEF cs

\* The texts of a cleaned example, whatever its form.
LEMMA ExampleKept ==
  ASSUME NEW ex \in Shorthands
  PROVE  TextsOf(ExampleTexts(CleanShorthand(ex))) = CleanTexts(TextsOf(ExampleTexts(ex)))
<1>1. ExampleTexts(Nothing) = None /\ \A t : ExampleTexts(Str(t)) = Some(t)
  BY DEF ExampleTexts, Nothing, Str, None, Some
<1>2. \A ts : ExampleTexts(Vec(ts)) = FlattenSeq(ts)
  BY DEF ExampleTexts, Vec
<1>3. \A en, cn : ExampleTexts(Obj(en, cn)) = en \o cn
  BY DEF ExampleTexts, Obj
<1>4. CASE ex = Nothing
  BY <1>1, <1>4, CleanShorthandIs, NoneAndOne
<1>5. CASE ex.text \in Texts /\ ex = Str(ex.text)
  <2> DEFINE t == ex.text
  <2>1. TextsOf(ExampleTexts(ex)) = {t}
    BY <1>1, <1>5, NoneAndOne
  <2>2. CASE IsSome(CleanText(t))
    <3>1. CleanShorthand(ex) = Str(CleanText(t)[1])
      BY <1>5, <2>2, CleanShorthandIs
    <3>2. CleanText(t) = Some(CleanText(t)[1])
      BY <1>5, <2>2, TextsClean, OptionValues DEF IsSome
    <3> QED
      BY <1>1, <2>1, <3>1, <3>2, NoneAndOne
  <2>3. CASE ~IsSome(CleanText(t))
    <3>1. CleanShorthand(ex) = Nothing
      BY <1>5, <2>3, CleanShorthandIs
    <3>2. CleanText(t) = None
      BY <2>3 DEF IsSome
    <3> QED
      BY <1>1, <2>1, <3>1, <3>2, NoneAndOne
  <2> QED
    BY <2>2, <2>3
<1>6. CASE ex.texts \in Seq(Option(Texts)) /\ ex = Vec(ex.texts)
  <2> DEFINE ts == ex.texts
  <2>1. CASE ts = <<>>
    <3>1. CleanShorthand(ex) = Nothing
      BY <1>6, <2>1, CleanShorthandIs
    <3>2. ExampleTexts(ex) = None
      <4>1. FlattenSeq(<<>>) = <<>>
        BY DEF FlattenSeq
      <4> QED
        BY <1>2, <1>6, <2>1, <4>1 DEF None
    <3> QED
      BY <1>1, <3>1, <3>2, NoneAndOne
  <2>2. CASE ts # <<>>
    <3>1. CleanShorthand(ex) = Vec(MapSeq(CleanStr, ts))
      BY <1>6, <2>2, CleanShorthandIs
    <3>2. ExampleTexts(CleanShorthand(ex)) = FlattenSeq(MapSeq(CleanStr, ts))
      BY <1>2, <3>1
    <3>3. ExampleTexts(ex) = FlattenSeq(ts)
      BY <1>2, <1>6
    <3> QED
      BY <1>6, <3>2, <3>3, VecKept
  <2> QED
    BY <2>1, <2>2
<1>7. CASE /\ ex.EN \in Option(Texts) /\ ex.CN \in Option(Texts)
           /\ ex = Obj(ex.EN, ex.CN)
  <2> DEFINE en == ex.EN
             cn == ex.CN
  <2>1. CleanShorthand(ex) = Obj(CleanStr(en), CleanStr(cn))
    BY <1>7, CleanShorthandIs
  <2>2. ASSUME NEW a \in Option(Texts), NEW b \in Option(Texts)
        PROVE  TextsOf(a \o b) = TextsOf(a) \cup TextsOf(b)
    <3>1. a \in Seq(Texts) /\ b \in Seq(Texts)
      BY OptionIsSeq
    <3>2. \A x : Members(x) = TextsOf(x)
      BY DEF Members, TextsOf
    <3> QED
      BY <3>1, <3>2, MembersOfBoth
  <2> HIDE DEF en, cn
  <2>3. en \in Option(Texts) /\ cn \in Option(Texts) /\ ex = Obj(en, cn)
    BY <1>7 DEF en, cn
  <2>4. CleanStr(en) \in Option(Texts) /\ CleanStr(cn) \in Option(Texts)
    BY <2>3, StrsClean
  <2>5. TextsOf(ExampleTexts(ex)) = TextsOf(en) \cup TextsOf(cn)
    <3>1. ExampleTexts(ex) = en \o cn
      BY <1>3, <2>3
    <3> QED
      BY <2>2, <2>3, <3>1
  <2>6. TextsOf(ExampleTexts(CleanShorthand(ex))) = TextsOf(CleanStr(en)) \cup TextsOf(CleanStr(cn))
    <3>1. ExampleTexts(CleanShorthand(ex)) = CleanStr(en) \o CleanStr(cn)
      BY <1>3, <2>1
    <3> QED
      BY <2>2, <2>4, <3>1
  <2>7. /\ TextsOf(CleanStr(en)) = CleanTexts(TextsOf(en))
        /\ TextsOf(CleanStr(cn)) = CleanTexts(TextsOf(cn))
    BY <2>3, StrKept
  <2> QED
    BY <2>5, <2>6, <2>7, CleanTextsOfBoth
<1> QED
  BY <1>4, <1>5, <1>6, <1>7, ShorthandForms DEF Shorthands

\* The texts of cleaned examples.
LEMMA ExamplesKept ==
  ASSUME NEW d \in Defs, NEW c, c.examples = CleanSeq(CleanShorthand, d.examples)
  PROVE  ExampleSet(c) = CleanTexts(ExampleSet(d))
<1> DEFINE o == d.examples
           s == Items(o)
           co == CleanSeqBy(ShorthandOf, o)
<1>1. o \in Option(Seq(Shorthands)) /\ s \in Seq(Shorthands)
  <2>1. o \in Option(Seq(Shorthands))
    BY DefFields, KindsAreShorthands, OptionMonotone
  <2> QED
    BY <2>1, ItemsOf
<1>2. \A i \in 1 .. Len(s) : s[i] \in Shorthands /\ ShorthandOf[s[i]] = CleanShorthand(s[i])
  BY <1>1 DEF ShorthandOf
<1>3. Len(Items(co)) = Len(s) /\ \A i \in 1 .. Len(s) : Items(co)[i] = ShorthandOf[s[i]]
  <2>1. \A i \in 1 .. Len(Items(o)) : ShorthandOf[Items(o)[i]] \in ShorthandsOf(Rest(Texts))
    BY <1>2, ShorthandsClean DEF Shorthands
  <2> DEFINE T == ShorthandsOf(Rest(Texts))
  <2>2. \A i \in 1 .. Len(Items(o)) : ShorthandOf[Items(o)[i]] \in T
    BY <2>1
  <2>3. /\ CleanSeqBy(ShorthandOf, o) \in Option(Seq(T))
        /\ Len(Items(CleanSeqBy(ShorthandOf, o))) = Len(Items(o))
        /\ \A i \in 1 .. Len(Items(o)) :
             Items(CleanSeqBy(ShorthandOf, o))[i] = ShorthandOf[Items(o)[i]]
    <3> HIDE DEF o, T
    <3> QED
      BY <1>1, <2>2, CleanSeqMakes
  <2> QED
    BY <2>3
<1>4. c.examples = co
  BY <1>1, ExamplesClean
<1> HIDE DEF o, s, co
<1>5. ASSUME NEW x
      PROVE  \A u : u \in ExampleSet(x) <=> \E i \in 1 .. Len(Items(x.examples)) :
                                              u \in TextsOf(ExampleTexts(Items(x.examples)[i]))
  <2>1. \A u : u \in ExampleSet(x)
                 <=> \E ex \in Children(x.examples) : u \in TextsOf(ExampleTexts(ex))
    BY DEF ExampleSet
  <2>2. \A ex : ex \in Children(x.examples)
                  <=> \E i \in 1 .. Len(Items(x.examples)) : ex = Items(x.examples)[i]
    BY DEF Children
  <2> QED
    BY <2>1, <2>2
<1>6. \A u : u \in ExampleSet(c)
               <=> \E i \in 1 .. Len(s) : u \in TextsOf(ExampleTexts(CleanShorthand(s[i])))
  <2>1. \A u : u \in ExampleSet(c) <=> \E i \in 1 .. Len(Items(co)) :
                                         u \in TextsOf(ExampleTexts(Items(co)[i]))
    BY <1>4, <1>5
  <2>2. \A i \in 1 .. Len(s) : Items(co)[i] = CleanShorthand(s[i])
    BY <1>2, <1>3
  <2> QED
    BY <1>3, <2>1, <2>2
<1>7. \A i \in 1 .. Len(s) : TextsOf(ExampleTexts(CleanShorthand(s[i])))
                               = CleanTexts(TextsOf(ExampleTexts(s[i])))
  BY <1>2, ExampleKept
<1>8. \A u : u \in ExampleSet(d) <=> \E i \in 1 .. Len(s) : u \in TextsOf(ExampleTexts(s[i]))
  BY <1>5 DEF s, o
<1>9. \A u : u \in ExampleSet(c) <=> u \in CleanTexts(ExampleSet(d))
  BY <1>6, <1>7, <1>8, InCleanTexts
<1> QED
  BY <1>9

(***************************************************************************)
(* What a cleaned definition shows by itself is what the definition shows, *)
(* cleaned.                                                                *)
(***************************************************************************)
LEMMA OwnKept ==
  ASSUME NEW d \in Defs, ~CleanupPanics[d]
  PROVE  ShownTexts(Cleanup[d]) = CleanTexts(ShownTexts(d))
<1> DEFINE c == Cleanup[d]
<1>1. /\ c.CN = CleanStr(d.CN) /\ c.EN = CleanStr(d.EN)
      /\ c.etymology = CleanSeqBy(Strip, d.etymology)
      /\ c.examples = CleanSeq(CleanShorthand, d.examples)
  BY CleanupUnfold, CleanedFields, DefIsOver
<1>2. \A i \in 1 .. Len(Items(d.etymology)) : IsSome(CleanText(Items(d.etymology)[i]))
  BY CleanupPanicsUnfold DEF All
<1> HIDE DEF c
<1>3. Children(c.etymology) = CleanTexts(Children(d.etymology))
  BY <1>1, <1>2, DefFields, EtymologyKept
<1>4. TextsOf(c.CN) = CleanTexts(TextsOf(d.CN)) /\ TextsOf(c.EN) = CleanTexts(TextsOf(d.EN))
  BY <1>1, DefFields, StrKept
<1>5. ExampleSet(c) = CleanTexts(ExampleSet(d))
  BY <1>1, ExamplesKept
<1>6. CleanTexts(ShownTexts(d))
        = ((CleanTexts(TextsOf(d.EN)) \cup CleanTexts(TextsOf(d.CN)))
             \cup CleanTexts(Children(d.etymology))) \cup CleanTexts(ExampleSet(d))
  <2> DEFINE ab == TextsOf(d.EN) \cup TextsOf(d.CN)
             abc == ab \cup Children(d.etymology)
  <2>1. CleanTexts(ab) = CleanTexts(TextsOf(d.EN)) \cup CleanTexts(TextsOf(d.CN))
    BY CleanTextsOfBoth
  <2>2. CleanTexts(abc) = CleanTexts(ab) \cup CleanTexts(Children(d.etymology))
    <3> HIDE DEF ab
    <3> QED
      BY CleanTextsOfBoth
  <2>3. ShownTexts(d) = abc \cup ExampleSet(d)
    BY DEF ShownTexts
  <2> HIDE DEF ab, abc
  <2>4. CleanTexts(ShownTexts(d)) = CleanTexts(abc) \cup CleanTexts(ExampleSet(d))
    BY <2>3, CleanTextsOfBoth
  <2> QED
    BY <2>1, <2>2, <2>4
<1> QED
  BY <1>3, <1>4, <1>5, <1>6 DEF ShownTexts, c

(***************************************************************************)
(* And so is what it shows with the definitions nested in it, for each of  *)
(* them can be read back.                                                  *)
(***************************************************************************)
LEMMA ShownKept ==
  ASSUME NEW d \in Defs, ~CleanupPanics[d]
  PROVE  Shown(Cleanup[d]) = CleanTexts(Shown(d))
<1> DEFINE T == {c \in Defs : ~CleanupPanics[c] => Shown(Cleanup[c]) = CleanTexts(Shown(c))}
<1>1. ASSUME NEW c \in Defs, Kids(c) \subseteq T PROVE c \in T
  <2> SUFFICES ASSUME ~CleanupPanics[c] PROVE Shown(Cleanup[c]) = CleanTexts(Shown(c))
    OBVIOUS
  <2> DEFINE s == Items(c.definitions)
             n == Len(s)
             cs == Items(Cleanup[c].definitions)
  <2>1. Cleanup[c] \in Defs /\ Cleanup[c].definitions = CleanSeqBy(Cleanup, c.definitions)
    BY CleanupUnfold, CleanedFields, DefIsOver
  <2>2. s \in Seq(Defs) /\ \A i \in 1 .. n : s[i] \in Kids(c) /\ s[i] \in Defs
    BY Nested
  <2>3. \A i \in 1 .. n : ~CleanupPanics[s[i]]
    BY CleanupPanicsUnfold DEF All
  <2>4. Len(cs) = n /\ \A i \in 1 .. n : cs[i] = Cleanup[s[i]]
    <3>1. c.definitions \in Option(Seq(Defs))
      BY DefFields
    <3>2. \A i \in 1 .. Len(Items(c.definitions)) : Cleanup[Items(c.definitions)[i]] \in Defs
      BY <2>2, CleanupUnfold
    <3> QED
      BY <2>1, <3>1, <3>2, CleanSeqMakes
  <2> HIDE DEF Shown
  <2>5. \A i \in 1 .. n : Shown(cs[i]) = CleanTexts(Shown(s[i]))
    <3> HIDE DEF s, cs, n
    <3> QED
      BY <1>1, <2>2, <2>3, <2>4
  <2>6. ShownTexts(Cleanup[c]) = CleanTexts(ShownTexts(c))
    BY OwnKept
  <2>7. Shown(c) = ShownTexts(c) \cup ShownUpTo(s, n)
    BY ShownUnfold
  <2>8. Shown(Cleanup[c]) = ShownTexts(Cleanup[c]) \cup ShownUpTo(cs, Len(cs))
    BY <2>1, ShownUnfold
  <2> HIDE DEF s, cs, n
  <2>9. ShownUpTo(cs, n) = CleanTexts(ShownUpTo(s, n))
    <3>1. ASSUME NEW x PROVE \A t : t \in ShownUpTo(x, n) <=> \E j \in 1 .. n : t \in Shown(x[j])
      BY DEF ShownUpTo
    <3>2. \A u : u \in ShownUpTo(cs, n) <=> \E j \in 1 .. n : u \in CleanTexts(Shown(s[j]))
      BY <2>5, <3>1
    <3>3. \A u : u \in CleanTexts(ShownUpTo(s, n))
                   <=> \E j \in 1 .. n : u \in CleanTexts(Shown(s[j]))
      BY <3>1, InCleanTexts
    <3> QED
      BY <3>2, <3>3
  <2> QED
    BY <2>4, <2>6, <2>7, <2>8, <2>9, CleanTextsOfBoth
<1>2. Defs \subseteq T
  <2> HIDE DEF T
  <2> QED
    BY <1>1, TreeInduction
<1> QED
  BY <1>2

(***************************************************************************)
(* What CheckKeepsDrawn says of every definition that can be read back.    *)
(***************************************************************************)
LEMMA CleanupKeepsDrawn ==
  ASSUME NEW d \in Defs, ~CleanupPanics[d]
  PROVE  TextsOf(Drawn(Render(Cleanup[d])))
           = UNION {TextsOf(CleanText(t)) : t \in TextsOf(Drawn(Render(d)))}
<1>1. Cleanup[d] \in Defs
  BY CleanupUnfold
<1>2. \A c \in Defs : TextsOf(Drawn(Render(c))) = Shown(c)
  BY RenderDraws DEF Shown, ShownIn
<1>3. TextsOf(Drawn(Render(Cleanup[d]))) = CleanTexts(TextsOf(Drawn(Render(d))))
  BY <1>1, <1>2, ShownKept
<1> QED
  BY <1>3 DEF CleanTexts

================================================================================
