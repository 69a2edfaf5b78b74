----------------------------- MODULE SourceCheckProofs -----------------------------
(***************************************************************************)
(* That the invariants of SourceCheck hold of every source file, and of    *)
(* any number of checks.                                                   *)
(*                                                                         *)
(* The filters of a check are folds; each of them selects the definitions  *)
(* at an increasing sequence of positions.                                 *)
(***************************************************************************)
EXTENDS SourceCheck, DefTreeProofs

--------------------------------------------------------------------------------
(* Selecting definitions of a sequence.                                    *)

(***************************************************************************)
(* r has, in their order, the members of s at the positions I.             *)
(***************************************************************************)
Selects(at, r, s, I) ==
  /\ r \in Seq(Defs)
  /\ at \in [1 .. Len(r) -> I]
  /\ \A i, j \in 1 .. Len(r) : i < j => at[i] < at[j]
  /\ \A i \in I : \E k \in 1 .. Len(r) : at[k] = i
  /\ \A k \in 1 .. Len(r) : r[k] = s[at[k]]

Selected(r, s, I) == \E at : Selects(at, r, s, I)

(***************************************************************************)
(* Going on to the next position, a selection takes it or leaves it.       *)
(***************************************************************************)
LEMMA SelectNone ==
  ASSUME NEW s
  PROVE  Selected(<<>>, s, {})
<1>1. Selects([k \in 1 .. 0 |-> 0], <<>>, s, {})
  BY DEF Selects
<1> QED
  BY <1>1 DEF Selected

\* The position is taken.
LEMMA SelectNext ==
  ASSUME NEW s \in Seq(Defs), NEW i \in Nat, i + 1 <= Len(s),
         NEW I \in SUBSET (1 .. i), NEW r, Selected(r, s, I)
  PROVE  Selected(Append(r, s[i + 1]), s, I \cup {i + 1})
<1>1. PICK at : Selects(at, r, s, I)
  BY DEF Selected
<1> DEFINE n == Len(r)
           q == Append(r, s[i + 1])
           J == I \cup {i + 1}
           to == [k \in 1 .. n + 1 |-> IF k = n + 1 THEN i + 1 ELSE at[k]]
<1>2. /\ r \in Seq(Defs) /\ n \in Nat /\ at \in [1 .. n -> I]
      /\ \A k \in 1 .. n : \A m \in 1 .. n : k < m => at[k] < at[m]
      /\ \A j \in I : \E k \in 1 .. n : at[k] = j
      /\ \A k \in 1 .. n : r[k] = s[at[k]]
  BY <1>1 DEF Selects
<1>3. s[i + 1] \in Defs
  OBVIOUS
<1>4. /\ q \in Seq(Defs) /\ Len(q) = n + 1 /\ q[n + 1] = s[i + 1]
      /\ \A k \in 1 .. n : q[k] = r[k]
  BY <1>2, <1>3
<1> HIDE DEF n, q
<1>5. \A k \in 1 .. n + 1 : k = n + 1 \/ k \in 1 .. n
  BY <1>2
<1>6. to \in [1 .. n + 1 -> J]
  BY <1>2, <1>5
<1>7. \A k \in 1 .. n + 1 : \A m \in 1 .. n + 1 : k < m => to[k] < to[m]
  <2> SUFFICES ASSUME NEW k \in 1 .. n + 1, NEW m \in 1 .. n + 1, k < m
               PROVE  to[k] < to[m]
    OBVIOUS
  <2>1. k \in 1 .. n /\ k # n + 1 /\ at[k] \in I
    BY <1>2, <1>5
  <2>2. CASE m = n + 1
    <3>1. at[k] \in 1 .. i
      BY <2>1
    <3> QED
      BY <2>1, <2>2, <3>1
  <2>3. CASE m \in 1 .. n
    BY <1>2, <2>1, <2>3
  <2> QED
    BY <1>5, <2>2, <2>3
<1>8. \A j \in J : \E k \in 1 .. n + 1 : to[k] = j
  <2>1. to[n + 1] = i + 1 /\ n + 1 \in 1 .. n + 1
    BY <1>2
  <2>2. \A k \in 1 .. n : to[k] = at[k] /\ k \in 1 .. n + 1
    BY <1>2
  <2> HIDE DEF to
  <2> QED
    BY <1>2, <2>1, <2>2
<1>9. \A k \in 1 .. n + 1 : q[k] = s[to[k]]
  <2>1. \A k \in 1 .. n : to[k] = at[k]
    BY <1>2
  <2> QED
    BY <1>2, <1>4, <1>5, <2>1
<1> HIDE DEF to, J
<1>10. Selects(to, q, s, J)
  BY <1>4, <1>6, <1>7, <1>8, <1>9 DEF Selects
<1> QED
  BY <1>10 DEF Selected, q, J

\* A sequence is selected from itself.
LEMMA SelectSelf ==
  ASSUME NEW s \in Seq(Defs)
  PROVE  Selected(s, s, 1 .. Len(s))
<1> DEFINE at == [k \in 1 .. Len(s) |-> k]
<1>1. Selects(at, s, s, 1 .. Len(s))
  BY DEF Selects
<1> QED
  BY <1>1 DEF Selected

(***************************************************************************)
(* A selection of all positions is the sequence itself.                    *)
(***************************************************************************)
LEMMA SelectAll ==
  ASSUME NEW s \in Seq(Defs), NEW r, Selected(r, s, 1 .. Len(s))
  PROVE  r = s
<1>1. PICK at : Selects(at, r, s, 1 .. Len(s))
  BY DEF Selected
<1> DEFINE n == Len(s)
           m == Len(r)
<1>2. /\ r \in Seq(Defs) /\ m \in Nat /\ n \in Nat /\ at \in [1 .. m -> 1 .. n]
      /\ \A k \in 1 .. m : \A j \in 1 .. m : k < j => at[k] < at[j]
      /\ \A j \in 1 .. n : \E k \in 1 .. m : at[k] = j
      /\ \A k \in 1 .. m : r[k] = s[at[k]]
  BY <1>1 DEF Selects
<1> HIDE DEF n, m
<1> DEFINE T == {k \in Nat : \A j \in 1 .. k : j <= m => at[j] = j}
<1>3. Nat \subseteq T
  <2>1. 0 \in T
    OBVIOUS
  <2>2. ASSUME NEW k \in Nat, k \in T PROVE k + 1 \in T
    <3> SUFFICES ASSUME k + 1 <= m PROVE at[k + 1] = k + 1
      BY <2>2
    <3>1. \A j \in 1 .. k : at[j] = j /\ j \in 1 .. m
      BY <1>2, <2>2
    <3>2. k + 1 \in 1 .. m /\ at[k + 1] \in 1 .. n
      BY <1>2
    <3>3. at[k + 1] >= k + 1
      <4>1. CASE k = 0
        BY <3>2, <4>1
      <4>2. CASE k # 0
        <5>1. k \in 1 .. k /\ at[k] = k /\ k \in 1 .. m
          BY <3>1, <4>2
        <5> QED
          BY <1>2, <3>2, <5>1
      <4> QED
        BY <4>1, <4>2
    <3>4. k + 1 \in 1 .. n
      BY <1>2, <3>2, <3>3
    <3>5. PICK j \in 1 .. m : at[j] = k + 1
      BY <1>2, <3>4
    <3>6. ~(j \in 1 .. k)
      BY <3>1, <3>5
    <3>7. ~(j > k + 1)
      BY <1>2, <3>2, <3>3, <3>5
    <3> QED
      BY <3>5, <3>6, <3>7
  <2> QED
    <3> HIDE DEF T
    <3> QED
      BY <2>1, <2>2, NatSetInduction
<1>4. \A j \in 1 .. m : at[j] = j
  <2>1. m \in T
    BY <1>2, <1>3
  <2> QED
    BY <2>1
<1>5. m = n
  <2>1. m <= n
    <3>1. CASE m # 0
      <4>1. m \in 1 .. m /\ at[m] \in 1 .. n
        BY <1>2, <3>1
      <4> QED
        BY <1>4, <4>1
    <3> QED
      BY <1>2, <3>1
  <2>2. n <= m
    <3>1. CASE n # 0
      <4>1. PICK k \in 1 .. m : at[k] = n
        BY <1>2, <3>1
      <4> QED
        BY <1>4, <4>1
    <3> QED
      BY <1>2, <3>1
  <2> QED
    BY <1>2, <2>1, <2>2
<1>6. Len(r) = Len(s) /\ \A k \in 1 .. Len(s) : r[k] = s[k]
  BY <1>2, <1>4, <1>5 DEF n, m
<1>7. s = [k \in 1 .. Len(s) |-> s[k]] /\ r = [k \in 1 .. Len(r) |-> r[k]]
  BY <1>2
<1> QED
  BY <1>6, <1>7

(***************************************************************************)
(* The empty definitions, or those that are not, are selected.             *)
(***************************************************************************)
IsEmpty(d) == Empty[d]
OfSort(s, n, empty) == {i \in 1 .. n : IsEmpty(s[i]) <=> empty}

\* The filter by emptiness selects the positions of its sort.
LEMMA ThoseSelects ==
  ASSUME NEW s \in Seq(Defs), NEW empty \in BOOLEAN
  PROVE  Selected(Those(empty, s), s, OfSort(s, Len(s), empty))
<1> DEFINE n == Len(s)
           W == Seq(Defs)
           Next1(l, d) == IF IsEmpty(d) <=> empty THEN Append(l, d) ELSE l
           step == [i \in 1 .. n |-> [l \in W |-> Next1(l, s[i])]]
           Def(it) == it = [t \in SUBSET (1 .. n) |->
                              IF t = {} THEN <<>> ELSE Next1(it[t \ {Max(t)}], s[Max(t)])]
           iter == CHOOSE it : Def(it)
<1>1. n \in Nat /\ DOMAIN s = 1 .. n /\ \A i \in 1 .. n : s[i] \in Defs
  OBVIOUS
<1>2. <<>> \in W /\ step \in [1 .. n -> [W -> W]]
  <2>1. \A i \in 1 .. n : \A l \in W : Next1(l, s[i]) \in W
    BY <1>1
  <2> QED
    BY <2>1
<1>3. Those(empty, s) = iter[1 .. n]
  BY <1>1 DEF Those, IsEmpty, FoldLeft, MapThenFoldSet
<1> HIDE DEF n
<1>4. \E it : Def(it)
  <2>1. PICK it : FoldEquation(it, n, W, <<>>, step)
    <3> HIDE DEF step, W
    <3> QED
      BY <1>1, <1>2, FoldExists
  <2>2. \A t \in SUBSET (1 .. n) : t # {} => /\ Max(t) \in 1 .. n
                                            /\ t \ {Max(t)} \in SUBSET (1 .. n)
    BY <1>1, MaxIndex
  <2> HIDE DEF Next1
  <2>3. \A t \in SUBSET (1 .. n) : t # {} =>
          step[Max(t)][it[t \ {Max(t)}]] = Next1(it[t \ {Max(t)}], s[Max(t)])
    <3>1. \A t \in SUBSET (1 .. n) : t # {} => it[t \ {Max(t)}] \in W
      <4> HIDE DEF W
      <4> QED
        BY <2>1, <2>2 DEF FoldEquation
    <3> QED
      BY <2>2, <3>1
  <2> HIDE DEF step
  <2>4. Def(it)
    BY <2>1, <2>3 DEF FoldEquation
  <2> HIDE DEF Def
  <2> QED
    BY <2>4
<1>5. Def(iter)
  <2> HIDE DEF Def
  <2> QED
    BY <1>4
<1> HIDE DEF iter
<1>6. FoldsBy(iter, n, W, <<>>, step)
  <2> HIDE DEF Next1
  <2>1. iter[{}] = <<>>
    BY <1>5
  <2>2. ASSUME NEW i \in 1 .. n, iter[1 .. i - 1] \in W
        PROVE  iter[1 .. i] = step[i][iter[1 .. i - 1]]
    <3>1. /\ 1 .. i \in SUBSET (1 .. n) /\ 1 .. i # {} /\ Max(1 .. i) = i
          /\ (1 .. i) \ {i} = 1 .. i - 1
      BY <1>1, MaxPrefix
    <3>2. iter[1 .. i] = Next1(iter[1 .. i - 1], s[i])
      BY <1>5, <3>1
    <3> QED
      BY <2>2, <3>2
  <2> HIDE DEF step, W
  <2> QED
    BY <2>1, <2>2 DEF FoldsBy
<1>7. PICK at : FoldRun(at, n, W, <<>>, step, iter[1 .. n])
  <2> HIDE DEF step, W
  <2> QED
    BY <1>1, <1>2, <1>6, FoldRuns
<1>8. at \in [0 .. n -> W] /\ at[0] = <<>> /\ at[n] = iter[1 .. n]
      /\ \A i \in 1 .. n : at[i] = Next1(at[i - 1], s[i])
  <2>1. \A i \in 1 .. n : i - 1 \in 0 .. n
    BY <1>1
  <2> HIDE DEF Next1
  <2>2. at \in [0 .. n -> W] /\ \A i \in 1 .. n : at[i - 1] \in W
    <3> HIDE DEF W
    <3> QED
      BY <1>7, <2>1 DEF FoldRun
  <2> QED
    BY <1>7, <2>2 DEF FoldRun
<1> DEFINE U == {i \in Nat : i <= n => Selected(at[i], s, OfSort(s, i, empty))}
<1>9. Nat \subseteq U
  <2>1. 0 \in U
    <3>1. OfSort(s, 0, empty) = {}
      BY DEF OfSort
    <3> QED
      BY <1>8, <3>1, SelectNone
  <2>2. ASSUME NEW i \in Nat, i \in U PROVE i + 1 \in U
    <3> SUFFICES ASSUME i + 1 <= n
                 PROVE  Selected(at[i + 1], s, OfSort(s, i + 1, empty))
      OBVIOUS
    <3>1. i + 1 \in 1 .. n /\ (i + 1) - 1 = i /\ i <= n
      BY <1>1
    <3>2. Selected(at[i], s, OfSort(s, i, empty))
      BY <2>2, <3>1
    <3>3. at[i + 1] = Next1(at[i], s[i + 1])
      BY <1>8, <3>1
    <3>4. OfSort(s, i, empty) \in SUBSET (1 .. i)
      BY DEF OfSort
    <3>5. OfSort(s, i + 1, empty) = IF IsEmpty(s[i + 1]) <=> empty
                                    THEN OfSort(s, i, empty) \cup {i + 1}
                                    ELSE OfSort(s, i, empty)
      <4>1. \A j : j \in 1 .. i + 1 <=> j \in 1 .. i \/ j = i + 1
        OBVIOUS
      <4> QED
        BY <4>1 DEF OfSort
    <3>6. CASE IsEmpty(s[i + 1]) <=> empty
      <4>1. Selected(Append(at[i], s[i + 1]), s, OfSort(s, i, empty) \cup {i + 1})
        BY <1>1, <3>1, <3>2, <3>4, SelectNext DEF n
      <4> QED
        BY <3>3, <3>5, <3>6, <4>1
    <3>7. CASE ~(IsEmpty(s[i + 1]) <=> empty)
      BY <3>2, <3>3, <3>5, <3>7
    <3> QED
      BY <3>6, <3>7
  <2> QED
    <3> HIDE DEF U
    <3> QED
      BY <2>1, <2>2, NatSetInduction
<1>10. Selected(at[n], s, OfSort(s, n, empty))
  BY <1>1, <1>9
<1> QED
  BY <1>3, <1>8, <1>10 DEF n

(***************************************************************************)
(* The first definition of every word is selected.                         *)
(***************************************************************************)
WordOf(d) == d.word[1]
FirstOfWord(s, n) ==
  {i \in 1 .. n : \A j \in 1 .. i - 1 : WordOf(s[j]) # WordOf(s[i])}
WordsUpTo(s, n) == {WordOf(s[j]) : j \in 1 .. n}

\* One definition more, its word more.
LEMMA WordsOfNext ==
  ASSUME NEW c \in Seq(Defs), NEW d \in Defs
  PROVE  Words(Append(c, d)) = Words(c) \cup {WordOf(d)}
<1> DEFINE n == Len(c)
           q == Append(c, d)
<1>1. /\ n \in Nat /\ Len(q) = n + 1 /\ q[n + 1] = d
      /\ \A i \in 1 .. n : q[i] = c[i]
  OBVIOUS
<1> HIDE DEF n, q
<1>3. \A i : i \in 1 .. n + 1 <=> i \in 1 .. n \/ i = n + 1
  BY <1>1
<1>4. \A w : w \in Words(q) <=> \E i \in 1 .. n + 1 : w = WordOf(q[i])
  BY <1>1 DEF Words, WordOf
<1>5. \A w : w \in Words(c) <=> \E i \in 1 .. n : w = WordOf(c[i])
  BY DEF Words, WordOf, n
<1>6. \A w : w \in Words(q) <=> w \in Words(c) \/ w = WordOf(d)
  BY <1>1, <1>3, <1>4, <1>5
<1> QED
  BY <1>6 DEF q

\* dedup selects the first position of every word.
LEMMA UniqueSelects ==
  ASSUME NEW s \in Seq(Defs)
  PROVE  Selected(Unique(s), s, FirstOfWord(s, Len(s)))
<1> DEFINE n == Len(s)
           W == Seq(Defs)
           Next1(l, d) == IF WordOf(d) \in Words(l) THEN l ELSE Append(l, d)
           step == [i \in 1 .. n |-> [l \in W |-> Next1(l, s[i])]]
           Def(it) == it = [t \in SUBSET (1 .. n) |->
                              IF t = {} THEN <<>> ELSE Next1(it[t \ {Max(t)}], s[Max(t)])]
           iter == CHOOSE it : Def(it)
<1>1. n \in Nat /\ DOMAIN s = 1 .. n /\ \A i \in 1 .. n : s[i] \in Defs
  OBVIOUS
<1>2. <<>> \in W /\ step \in [1 .. n -> [W -> W]]
  <2>1. \A i \in 1 .. n : \A l \in W : Next1(l, s[i]) \in W
    BY <1>1
  <2> QED
    BY <2>1
<1>3. Unique(s) = iter[1 .. n]
  BY <1>1 DEF Unique, WordOf, FoldLeft, MapThenFoldSet
<1> HIDE DEF n
<1>4. \E it : Def(it)
  <2>1. PICK it : FoldEquation(it, n, W, <<>>, step)
    <3> HIDE DEF step, W
    <3> QED
      BY <1>1, <1>2, FoldExists
  <2>2. \A t \in SUBSET (1 .. n) : t # {} => /\ Max(t) \in 1 .. n
                                            /\ t \ {Max(t)} \in SUBSET (1 .. n)
    BY <1>1, MaxIndex
  <2> HIDE DEF Next1
  <2>3. \A t \in SUBSET (1 .. n) : t # {} =>
          step[Max(t)][it[t \ {Max(t)}]] = Next1(it[t \ {Max(t)}], s[Max(t)])
    <3>1. \A t \in SUBSET (1 .. n) : t # {} => it[t \ {Max(t)}] \in W
      <4> HIDE DEF W
      <4> QED
        BY <2>1, <2>2 DEF FoldEquation
    <3> QED
      BY <2>2, <3>1
  <2> HIDE DEF step
  <2>4. Def(it)
    BY <2>1, <2>3 DEF FoldEquation
  <2> HIDE DEF Def
  <2> QED
    BY <2>4
<1>5. Def(iter)
  <2> HIDE DEF Def
  <2> QED
    BY <1>4
<1> HIDE DEF iter
<1>6. FoldsBy(iter, n, W, <<>>, step)
  <2> HIDE DEF Next1
  <2>1. iter[{}] = <<>>
    BY <1>5
  <2>2. ASSUME NEW i \in 1 .. n, iter[1 .. i - 1] \in W
        PROVE  iter[1 .. i] = step[i][iter[1 .. i - 1]]
    <3>1. /\ 1 .. i \in SUBSET (1 .. n) /\ 1 .. i # {} /\ Max(1 .. i) = i
          /\ (1 .. i) \ {i} = 1 .. i - 1
      BY <1>1, MaxPrefix
    <3>2. iter[1 .. i] = Next1(iter[1 .. i - 1], s[i])
      BY <1>5, <3>1
    <3> QED
      BY <2>2, <3>2
  <2> HIDE DEF step, W
  <2> QED
    BY <2>1, <2>2 DEF FoldsBy
<1>7. PICK at : FoldRun(at, n, W, <<>>, step, iter[1 .. n])
  <2> HIDE DEF step, W
  <2> QED
    BY <1>1, <1>2, <1>6, FoldRuns
<1>8. at \in [0 .. n -> W] /\ at[0] = <<>> /\ at[n] = iter[1 .. n]
      /\ \A i \in 1 .. n : at[i] = Next1(at[i - 1], s[i])
  <2>1. \A i \in 1 .. n : i - 1 \in 0 .. n
    BY <1>1
  <2> HIDE DEF Next1
  <2>2. at \in [0 .. n -> W] /\ \A i \in 1 .. n : at[i - 1] \in W
    <3> HIDE DEF W
    <3> QED
      BY <1>7, <2>1 DEF FoldRun
  <2> QED
    BY <1>7, <2>2 DEF FoldRun
<1> DEFINE Q(i) == /\ Selected(at[i], s, FirstOfWord(s, i))
                   /\ Words(at[i]) = WordsUpTo(s, i)
           U == {i \in Nat : i <= n => Q(i)}
<1>9. Nat \subseteq U
  <2>1. 0 \in U
    <3>1. FirstOfWord(s, 0) = {} /\ WordsUpTo(s, 0) = {}
      BY DEF FirstOfWord, WordsUpTo
    <3>2. Words(<<>>) = {}
      BY DEF Words
    <3> QED
      BY <1>8, <3>1, <3>2, SelectNone
  <2>2. ASSUME NEW i \in Nat, i \in U PROVE i + 1 \in U
    <3> SUFFICES ASSUME i + 1 <= n PROVE Q(i + 1)
      OBVIOUS
    <3>1. i + 1 \in 1 .. n /\ (i + 1) - 1 = i /\ i <= n /\ i \in 0 .. n
      BY <1>1
    <3>2. Selected(at[i], s, FirstOfWord(s, i)) /\ Words(at[i]) = WordsUpTo(s, i)
      BY <2>2, <3>1
    <3>3. at[i + 1] = Next1(at[i], s[i + 1]) /\ at[i] \in Seq(Defs) /\ s[i + 1] \in Defs
      BY <1>1, <1>8, <3>1
    <3>4. FirstOfWord(s, i) \in SUBSET (1 .. i)
      BY DEF FirstOfWord
    <3> DEFINE seen == WordOf(s[i + 1]) \in Words(at[i])
    <3>5. \A j : j \in 1 .. i + 1 <=> j \in 1 .. i \/ j = i + 1
      OBVIOUS
    <3>6. FirstOfWord(s, i + 1) = IF seen THEN FirstOfWord(s, i)
                                          ELSE FirstOfWord(s, i) \cup {i + 1}
      <4>1. seen <=> \E j \in 1 .. i : WordOf(s[j]) = WordOf(s[i + 1])
        BY <3>2 DEF WordsUpTo
      <4> HIDE DEF seen
      <4>2. i + 1 \in FirstOfWord(s, i + 1) <=> ~seen
        BY <3>1, <4>1 DEF FirstOfWord
      <4>3. \A j \in 1 .. i : j \in FirstOfWord(s, i + 1) <=> j \in FirstOfWord(s, i)
        BY DEF FirstOfWord
      <4>4. FirstOfWord(s, i + 1) \in SUBSET (1 .. i + 1)
        BY DEF FirstOfWord
      <4>5. \A j : j \in FirstOfWord(s, i + 1)
                     <=> j \in FirstOfWord(s, i) \/ (j = i + 1 /\ ~seen)
        BY <3>4, <3>5, <4>2, <4>3, <4>4
      <4> QED
        BY <4>5
    <3>7. WordsUpTo(s, i + 1) = WordsUpTo(s, i) \cup {WordOf(s[i + 1])}
      BY <3>5 DEF WordsUpTo
    <3>8. CASE seen
      <4>1. WordsUpTo(s, i + 1) = WordsUpTo(s, i)
        BY <3>2, <3>7, <3>8
      <4> QED
        BY <3>2, <3>3, <3>6, <3>8, <4>1
    <3>9. CASE ~seen
      <4>1. Selected(Append(at[i], s[i + 1]), s, FirstOfWord(s, i) \cup {i + 1})
        BY <1>1, <3>1, <3>2, <3>4, SelectNext DEF n
      <4>2. Words(Append(at[i], s[i + 1])) = Words(at[i]) \cup {WordOf(s[i + 1])}
        BY <3>3, WordsOfNext
      <4>3. at[i + 1] = Append(at[i], s[i + 1])
        BY <3>3, <3>9
      <4> QED
        BY <3>2, <3>6, <3>7, <3>9, <4>1, <4>2, <4>3
    <3> QED
      BY <3>8, <3>9
  <2> QED
    <3> HIDE DEF U
    <3> QED
      BY <2>1, <2>2, NatSetInduction
<1>10. Selected(at[n], s, FirstOfWord(s, n))
  BY <1>1, <1>9
<1> QED
  BY <1>3, <1>8, <1>10 DEF n

--------------------------------------------------------------------------------
(* What a check computes.                                                  *)

(***************************************************************************)
(* Words that are there are the same when what is in them is.              *)
(***************************************************************************)
LEMMA WordIs ==
  ASSUME NEW s \in Seq(Defs), ~Wordless(s)
  PROVE  \A i \in 1 .. Len(s) : s[i] \in Defs /\ s[i].word = Some(WordOf(s[i]))
<1> SUFFICES ASSUME NEW i \in 1 .. Len(s)
             PROVE  s[i] \in Defs /\ s[i].word = Some(WordOf(s[i]))
  OBVIOUS
<1>1. s[i] \in Defs /\ s[i].word # None
  BY DEF Wordless
<1>2. s[i].word \in Option(Texts)
  BY <1>1, DefFields
<1> QED
  BY <1>1, <1>2, OptionValues DEF WordOf

\* The positions of the first non-empty definitions.
LEMMA FirstOnesAre ==
  ASSUME NEW defs \in Seq(Defs)
  PROVE  /\ FirstOnes(defs) \in SUBSET (1 .. Len(defs))
         /\ \A i : i \in FirstOnes(defs)
                    <=> /\ i \in 1 .. Len(defs) /\ ~Empty[defs[i]]
                        /\ \A j \in 1 .. i - 1 : defs[j].word = defs[i].word => Empty[defs[j]]
<1> DEFINE n == Len(defs)
<1>1. n \in Nat
  OBVIOUS
<1>2. \A i \in 1 .. n : \A j : j \in 1 .. i - 1 <=> j \in 1 .. n /\ j < i
  BY <1>1
<1>3. \A i : i \in FirstOnes(defs)
               <=> /\ i \in 1 .. n /\ ~Empty[defs[i]]
                   /\ \A j \in 1 .. n : j < i /\ defs[j].word = defs[i].word => Empty[defs[j]]
  BY DEF FirstOnes, FirstAmong
<1> HIDE DEF n
<1>4. \A i : i \in FirstOnes(defs)
               <=> /\ i \in 1 .. n /\ ~Empty[defs[i]]
                   /\ \A j \in 1 .. i - 1 : defs[j].word = defs[i].word => Empty[defs[j]]
  BY <1>2, <1>3
<1> QED
  BY <1>4 DEF n

(***************************************************************************)
(* The two filters of a check select the first non-empty definition of     *)
(* every word that has one.                                                *)
(***************************************************************************)
LEMMA KeepsFirst ==
  ASSUME NEW defs \in Seq(Defs), ~Wordless(defs)
  PROVE  Selected(NonEmptyUnique(defs), defs, FirstOnes(defs))
<1> DEFINE n == Len(defs)
           e == NonEmpty(defs)
           u == Unique(e)
           I == OfSort(defs, n, FALSE)
           J == FirstOfWord(e, Len(e))
           F == FirstOnes(defs)
<1>1. PICK to : Selects(to, e, defs, I)
  BY ThoseSelects DEF NonEmpty, Selected
<1>2. e \in Seq(Defs)
  BY <1>1 DEF Selects
<1>3. PICK at : Selects(at, u, e, J)
  <2> HIDE DEF e
  <2> QED
    BY <1>2, UniqueSelects DEF Selected
<1>4. /\ to \in [1 .. Len(e) -> I]
      /\ \A i, j \in 1 .. Len(e) : i < j => to[i] < to[j]
      /\ \A i \in I : \E k \in 1 .. Len(e) : to[k] = i
      /\ \A k \in 1 .. Len(e) : e[k] = defs[to[k]]
  BY <1>1 DEF Selects
<1>5. /\ u \in Seq(Defs) /\ at \in [1 .. Len(u) -> J]
      /\ \A i, j \in 1 .. Len(u) : i < j => at[i] < at[j]
      /\ \A i \in J : \E k \in 1 .. Len(u) : at[k] = i
      /\ \A k \in 1 .. Len(u) : u[k] = e[at[k]]
  BY <1>3 DEF Selects
<1>6. \A i : i \in I <=> i \in 1 .. n /\ ~Empty[defs[i]]
  BY DEF OfSort, IsEmpty
<1>7. \A m : m \in J <=> m \in 1 .. Len(e) /\ \A k \in 1 .. m - 1 : WordOf(e[k]) # WordOf(e[m])
  BY DEF FirstOfWord
<1>8. \A i : i \in F <=> /\ i \in 1 .. n /\ ~Empty[defs[i]]
                         /\ \A j \in 1 .. i - 1 : defs[j].word = defs[i].word => Empty[defs[j]]
  BY FirstOnesAre
<1>9. \A i, j \in 1 .. n : defs[i].word = defs[j].word <=> WordOf(defs[i]) = WordOf(defs[j])
  <2>1. \A i \in 1 .. n : defs[i].word = Some(WordOf(defs[i]))
    BY WordIs
  <2> QED
    BY <2>1 DEF WordOf
<1>10. n \in Nat /\ Len(e) \in Nat /\ Len(u) \in Nat
  BY <1>2, <1>5
<1> HIDE DEF n, e, u, I, J, F
<1>11. \A m \in 1 .. Len(e) : to[m] \in 1 .. n /\ ~Empty[defs[to[m]]]
  BY <1>4, <1>6
<1>12. \A k, m \in 1 .. Len(e) : to[k] < to[m] => k < m
  <2> SUFFICES ASSUME NEW k \in 1 .. Len(e), NEW m \in 1 .. Len(e), to[k] < to[m], ~(k < m)
               PROVE  FALSE
    OBVIOUS
  <2>1. to[k] \in 1 .. n /\ to[m] \in 1 .. n
    BY <1>11
  <2>2. k = m \/ m < k
    BY <1>10
  <2>3. CASE k = m
    BY <1>10, <2>1, <2>3
  <2>4. CASE m < k
    <3>1. to[m] < to[k]
      BY <1>4, <2>4
    <3> QED
      BY <1>10, <2>1, <3>1
  <2> QED
    BY <2>2, <2>3, <2>4
<1>13. ASSUME NEW m \in J PROVE to[m] \in F
  <2>1. m \in 1 .. Len(e) /\ \A k \in 1 .. m - 1 : WordOf(e[k]) # WordOf(e[m])
    BY <1>7
  <2>2. ASSUME NEW j \in 1 .. to[m] - 1, defs[j].word = defs[to[m]].word, ~Empty[defs[j]]
        PROVE  FALSE
    <3>1. to[m] \in 1 .. n /\ j \in 1 .. n
      BY <1>10, <1>11, <2>1
    <3>2. PICK k \in 1 .. Len(e) : to[k] = j
      BY <1>4, <1>6, <2>2, <3>1
    <3>3. to[k] < to[m]
      BY <3>1, <3>2
    <3>4. k < m
      BY <1>12, <2>1, <3>3
    <3>5. k \in 1 .. m - 1
      BY <2>1, <3>4
    <3>6. WordOf(e[k]) = WordOf(e[m])
      BY <1>4, <1>9, <2>1, <2>2, <3>1, <3>2
    <3> QED
      BY <2>1, <3>5, <3>6
  <2> QED
    BY <1>8, <1>11, <2>1, <2>2
<1>14. ASSUME NEW i \in F PROVE \E m \in J : to[m] = i
  <2>1. i \in 1 .. n /\ ~Empty[defs[i]]
        /\ \A j \in 1 .. i - 1 : defs[j].word = defs[i].word => Empty[defs[j]]
    BY <1>8
  <2>2. PICK m \in 1 .. Len(e) : to[m] = i
    BY <1>4, <1>6, <2>1
  <2>3. ASSUME NEW k \in 1 .. m - 1, WordOf(e[k]) = WordOf(e[m]) PROVE FALSE
    <3>1. k \in 1 .. Len(e) /\ k < m
      BY <1>10
    <3>2. to[k] < i /\ to[k] \in 1 .. n /\ ~Empty[defs[to[k]]]
      BY <1>4, <1>11, <2>2, <3>1
    <3>3. to[k] \in 1 .. i - 1
      BY <1>10, <2>1, <3>2
    <3>4. defs[to[k]].word = defs[i].word
      BY <1>4, <1>9, <2>1, <2>2, <2>3, <3>1, <3>2
    <3> QED
      BY <2>1, <3>2, <3>3, <3>4
  <2> QED
    BY <1>7, <2>2, <2>3
<1> DEFINE first == [k \in 1 .. Len(u) |-> to[at[k]]]
<1>15. \A k \in 1 .. Len(u) : at[k] \in J /\ at[k] \in 1 .. Len(e) /\ first[k] = to[at[k]]
  BY <1>5, <1>7
<1>16. first \in [1 .. Len(u) -> F]
  BY <1>13, <1>15
<1>17. \A i, j \in 1 .. Len(u) : i < j => first[i] < first[j]
  BY <1>4, <1>5, <1>15
<1>18. \A i \in F : \E k \in 1 .. Len(u) : first[k] = i
  <2> SUFFICES ASSUME NEW i \in F PROVE \E k \in 1 .. Len(u) : first[k] = i
    OBVIOUS
  <2>1. PICK m \in J : to[m] = i
    BY <1>14
  <2>2. PICK k \in 1 .. Len(u) : at[k] = m
    BY <1>5
  <2> QED
    BY <1>15, <2>1, <2>2
<1>19. \A k \in 1 .. Len(u) : u[k] = defs[first[k]]
  BY <1>4, <1>5, <1>15
<1> HIDE DEF first
<1>20. Selects(first, u, defs, F)
  BY <1>5, <1>16, <1>17, <1>18, <1>19 DEF Selects
<1>21. NonEmptyUnique(defs) = u
  BY DEF NonEmptyUnique, u, e
<1> QED
  BY <1>20, <1>21 DEF Selected, F

(***************************************************************************)
(* What the filters keep, they would keep again: all of it has a word, is  *)
(* not empty, and has its word alone.                                      *)
(***************************************************************************)
LEMMA KeptAgain ==
  ASSUME NEW defs \in Seq(Defs), ~Wordless(defs)
  PROVE  /\ NonEmptyUnique(defs) \in Seq(Defs)
         /\ ~Wordless(NonEmptyUnique(defs))
         /\ NonEmptyUnique(NonEmptyUnique(defs)) = NonEmptyUnique(defs)
<1> DEFINE u == NonEmptyUnique(defs)
           n == Len(u)
<1>1. PICK at : Selects(at, u, defs, FirstOnes(defs))
  BY KeepsFirst DEF Selected
<1>2. /\ u \in Seq(Defs) /\ n \in Nat /\ at \in [1 .. n -> FirstOnes(defs)]
      /\ \A i, j \in 1 .. n : i < j => at[i] < at[j]
      /\ \A k \in 1 .. n : u[k] = defs[at[k]]
  BY <1>1 DEF Selects
<1>3. \A i : i \in FirstOnes(defs) =>
               /\ i \in 1 .. Len(defs) /\ ~Empty[defs[i]]
               /\ \A j \in 1 .. i - 1 : defs[j].word = defs[i].word => Empty[defs[j]]
  BY FirstOnesAre
<1> HIDE DEF u, n
<1>4. \A k \in 1 .. n : at[k] \in 1 .. Len(defs) /\ ~Empty[u[k]]
  BY <1>2, <1>3
<1>5. ~Wordless(u)
  BY <1>2, <1>4 DEF Wordless, n
<1>6. FirstOnes(u) = 1 .. n
  <2>1. ASSUME NEW k \in 1 .. n, NEW j \in 1 .. k - 1, u[j].word = u[k].word PROVE FALSE
    <3>1. j \in 1 .. n /\ j < k
      BY <1>2
    <3>2. at[j] < at[k] /\ at[j] \in 1 .. Len(defs) /\ at[k] \in 1 .. Len(defs)
      BY <1>2, <1>4, <3>1
    <3>3. at[j] \in 1 .. at[k] - 1
      BY <3>2
    <3>4. defs[at[j]].word = defs[at[k]].word /\ ~Empty[defs[at[j]]]
      BY <1>2, <1>4, <2>1, <3>1
    <3> QED
      BY <1>2, <1>3, <3>3, <3>4
  <2>2. \A k \in 1 .. n : k \in FirstOnes(u)
    BY <1>2, <1>4, <2>1, FirstOnesAre DEF n
  <2>3. FirstOnes(u) \subseteq 1 .. n
    BY <1>2, FirstOnesAre DEF n
  <2> QED
    BY <2>2, <2>3
<1>7. NonEmptyUnique(u) = u
  <2>1. Selected(NonEmptyUnique(u), u, 1 .. Len(u))
    BY <1>2, <1>5, <1>6, KeepsFirst DEF n
  <2> QED
    BY <1>2, <2>1, SelectAll
<1> QED
  BY <1>2, <1>5, <1>7 DEF u

(***************************************************************************)
(* A file of definitions that n cleanups may have left, and one that       *)
(* another cleanup leaves as it is.                                        *)
(***************************************************************************)
InImage(s, n) == \A i \in 1 .. Len(s) : s[i] \in Image(n)
Fixed(s) == \A i \in 1 .. Len(s) : Cleanup[s[i]] = s[i]

\* At first any definitions will do; after enough cleanups they are settled.
LEMMA ImagesSettle ==
  ASSUME NEW s \in Seq(Defs)
  PROVE  /\ InImage(s, 0)
         /\ \A n \in Nat : n >= Passes /\ InImage(s, n) => Fixed(s)
<1>1. InImage(s, 0)
  BY ImageIs DEF InImage
<1>2. ASSUME NEW n \in Nat, n >= Passes, NEW d \in Image(n) PROVE Cleanup[d] = d
  <2>1. PICK c \in Defs : d = Cleanings[n][c]
    BY DEF Image
  <2> QED
    BY <1>2, <2>1, CleanupSettles
<1> QED
  BY <1>1, <1>2 DEF InImage, Fixed

\* Cleaning goes definition by definition.
LEMMA CleanAllIs ==
  ASSUME NEW s \in Seq(Defs)
  PROVE  /\ CleanAll(s) \in Seq(Defs) /\ Len(CleanAll(s)) = Len(s)
         /\ \A i \in 1 .. Len(s) : CleanAll(s)[i] = Cleanup[s[i]]
         /\ \A n \in Nat : InImage(s, n) => InImage(CleanAll(s), n + 1)
         /\ Fixed(s) => CleanAll(s) = s
<1> DEFINE c == CleanAll(s)
<1>1. c = [i \in 1 .. Len(s) |-> Cleanup[s[i]]]
  BY DEF CleanAll, MapSeq
<1>2. Len(s) \in Nat /\ \A i \in 1 .. Len(s) : s[i] \in Defs /\ Cleanup[s[i]] \in Defs
  BY CleanupUnfold
<1> HIDE DEF c
<1>3. c \in Seq(Defs) /\ Len(c) = Len(s) /\ \A i \in 1 .. Len(s) : c[i] = Cleanup[s[i]]
  BY <1>1, <1>2
<1>4. ASSUME NEW n \in Nat, InImage(s, n) PROVE InImage(c, n + 1)
  <2>1. \A i \in 1 .. Len(s) : s[i] \in Image(n)
    BY <1>4 DEF InImage
  <2>2. Image(n + 1) = {Cleanup[d] : d \in Image(n)}
    BY ImageIs
  <2>3. \A i \in 1 .. Len(s) : c[i] \in Image(n + 1)
    BY <1>3, <2>1, <2>2
  <2> QED
    BY <1>3, <2>3 DEF InImage
<1>5. Fixed(s) => c = s
  <2>1. s = [i \in 1 .. Len(s) |-> s[i]]
    OBVIOUS
  <2> QED
    BY <1>1, <2>1 DEF Fixed
<1> QED
  BY <1>3, <1>4, <1>5 DEF c

\* A selection of definitions that are clean, so far or for ever, is so, too.
LEMMA CleanKept ==
  ASSUME NEW s \in Seq(Defs), NEW r, NEW I \in SUBSET (1 .. Len(s)), Selected(r, s, I)
  PROVE  /\ Fixed(s) => Fixed(r)
         /\ \A n \in Nat : InImage(s, n) => InImage(r, n)
<1>1. PICK at : Selects(at, r, s, I)
  BY DEF Selected
<1>2. \A k \in 1 .. Len(r) : at[k] \in 1 .. Len(s) /\ r[k] = s[at[k]]
  BY <1>1 DEF Selects
<1> QED
  BY <1>2 DEF Fixed, InImage

(***************************************************************************)
(* One check of a file, as a function of its definitions.                  *)
(***************************************************************************)
Once(defs) == CleanAll(NonEmptyUnique(defs))

\* The output of a check has been cleaned once more.
LEMMA OnceIs ==
  ASSUME NEW defs \in Seq(Defs), ~Wordless(defs)
  PROVE  /\ Once(defs) \in Seq(Defs)
         /\ \A n \in Nat : InImage(defs, n) => InImage(Once(defs), n + 1)
<1>1. NonEmptyUnique(defs) \in Seq(Defs)
  BY KeptAgain
<1>2. \A n \in Nat : InImage(defs, n) => InImage(NonEmptyUnique(defs), n)
  BY KeepsFirst, FirstOnesAre, CleanKept
<1> QED
  BY <1>1, <1>2, CleanAllIs DEF Once

\* Of a file that cleaning leaves as it is only definitions are left out, and
\* what is left of it stays.
LEMMA OnceSettles ==
  ASSUME NEW defs \in Seq(Defs), ~Wordless(defs), Fixed(defs)
  PROVE  /\ ~Wordless(Once(defs))
         /\ NonEmptyUnique(Once(defs)) = Once(defs)
         /\ CleanAll(Once(defs)) = Once(defs)
<1> DEFINE u == NonEmptyUnique(defs)
<1>1. u \in Seq(Defs) /\ ~Wordless(u) /\ NonEmptyUnique(u) = u
  BY KeptAgain
<1>2. Fixed(u)
  BY KeepsFirst, FirstOnesAre, CleanKept
<1> HIDE DEF u
<1>3. CleanAll(u) = u
  BY <1>1, <1>2, CleanAllIs
<1>4. Once(defs) = u
  BY <1>3 DEF Once, u
<1> QED
  BY <1>1, <1>3, <1>4

--------------------------------------------------------------------------------
(* What a killed check leaves.                                             *)

LEMMA DefsAreOver == \E S : Defs = Over(S)
  BY TreesUnfold, DepthAssumption DEF Defs

\* A definition that has lost what is written after its word, and one that has
\* lost the end of its word, too.
Short(d) == [d EXCEPT !.CN = None, !.examples = None]
Cut(d) == [Short(d) EXCEPT !.word = Some("cut")]

\* e is d, but for what was lost and with w for a word.
IsCut(e, d, w) ==
  /\ e \in Defs /\ e.word = w /\ e.CN = None /\ e.examples = None
  /\ e.EN = d.EN /\ e.info = d.info /\ e.type = d.type
  /\ e.etymology = d.etymology /\ e.pronunciation = d.pronunciation
  /\ e.definitions = d.definitions /\ e.groups = d.groups

\* This says all of it.
LEMMA CutIs ==
  ASSUME NEW d \in Defs
  PROVE  /\ IsCut(Short(d), d, d.word) /\ IsCut(Cut(d), d, Some("cut"))
         /\ \A w, a, b : IsCut(a, d, w) /\ IsCut(b, d, w) => a = b
<1>1. PICK S : Defs = Over(S)
  BY DefsAreOver
<1>2. /\ None \in Option(Texts) /\ None \in Option(Seq(Examples))
      /\ Some("cut") \in Option(Texts)
  BY TextsAssumption, OptionValues
<1>3. IsCut(Short(d), d, d.word)
  BY <1>1, <1>2 DEF Over, Short, IsCut
<1>4. IsCut(Cut(d), d, Some("cut"))
  <2> DEFINE b == Short(d)
  <2>1. IsCut(b, d, d.word)
    BY <1>3
  <2> HIDE DEF b
  <2>2. IsCut([b EXCEPT !.word = Some("cut")], d, Some("cut"))
    BY <1>1, <1>2, <2>1 DEF Over, IsCut
  <2> QED
    BY <2>2 DEF Cut, b
<1>5. ASSUME NEW w, NEW a, NEW b, IsCut(a, d, w), IsCut(b, d, w) PROVE a = b
  BY <1>1, <1>5 DEF Over, IsCut
<1> QED
  BY <1>3, <1>4, <1>5

\* Cleaning goes on with what is left.
LEMMA CutCleaned ==
  ASSUME NEW d \in Defs
  PROVE  Cleanup[Short(d)] = Short(Cleanup[d]) /\ Cleanup[Cut(d)] = Cut(Cleanup[d])
<1> DEFINE c == Cleanup[d]
<1>1. /\ CleanStr(None) = None /\ CleanSeq(CleanShorthand, None) = None
      /\ CleanStr(Some("cut")) = Some("cut")
  <2>1. CleanStr(None) = None /\ CleanSeq(CleanShorthand, None) = None
    BY DEF CleanStr, CleanSeq, IsSome
  <2>2. IsSome(Some("cut")) /\ Some("cut")[1] = "cut"
    BY DEF IsSome, Some, None
  <2>3. CleanText("cut") = Some("cut")
    BY StripAssumption DEF CleanText
  <2> QED
    BY <2>1, <2>2, <2>3 DEF CleanStr
<1>2. ASSUME NEW x \in Defs
      PROVE  /\ Cleanup[x] \in Defs
             /\ Cleanup[x].word = CleanStr(x.word)
             /\ Cleanup[x].CN = CleanStr(x.CN) /\ Cleanup[x].EN = CleanStr(x.EN)
             /\ Cleanup[x].info = CleanStr(x.info) /\ Cleanup[x].type = CleanStr(x.type)
             /\ Cleanup[x].etymology = CleanSeqBy(Strip, x.etymology)
             /\ Cleanup[x].examples = CleanSeq(CleanShorthand, x.examples)
             /\ Cleanup[x].pronunciation = CleanOption(x.pronunciation)
             /\ Cleanup[x].definitions = CleanSeqBy(Cleanup, x.definitions)
             /\ Cleanup[x].groups = CleanSeqBy(Cleanup, x.groups)
  BY DefIsOver, CleanupUnfold, CleanedFields
<1>3. ASSUME NEW e, NEW w, IsCut(e, d, w) PROVE IsCut(Cleanup[e], c, CleanStr(w))
  <2>1. e \in Defs
    BY <1>3 DEF IsCut
  <2> QED
    BY <1>1, <1>2, <1>3, <2>1 DEF IsCut
<1>4. c \in Defs /\ c.word = CleanStr(d.word)
  BY <1>2
<1>5. /\ IsCut(Cleanup[Short(d)], c, c.word) /\ IsCut(Cleanup[Cut(d)], c, Some("cut"))
  BY <1>1, <1>3, <1>4, CutIs
<1> HIDE DEF c
<1>6. Cleanup[Short(d)] = Short(c) /\ Cleanup[Cut(d)] = Cut(c)
  BY <1>4, <1>5, CutIs
<1> QED
  BY <1>6 DEF c

\* What n cleanups may have left of a definition is so also when it is cut.
LEMMA CutImages ==
  ASSUME NEW n \in Nat
  PROVE  \A d \in Image(n) : Short(d) \in Image(n) /\ Cut(d) \in Image(n)
<1> DEFINE T == {k \in Nat : \A d \in Image(k) : Short(d) \in Image(k) /\ Cut(d) \in Image(k)}
<1>1. 0 \in T
  BY ImageIs, CutIs DEF IsCut
<1>2. ASSUME NEW k \in Nat, k \in T PROVE k + 1 \in T
  <2> SUFFICES ASSUME NEW d \in Image(k + 1)
               PROVE  Short(d) \in Image(k + 1) /\ Cut(d) \in Image(k + 1)
    OBVIOUS
  <2>1. Image(k) \subseteq Defs /\ Image(k + 1) = {Cleanup[c] : c \in Image(k)}
    BY ImageIs
  <2>2. PICK c \in Image(k) : d = Cleanup[c]
    BY <2>1
  <2>3. Short(c) \in Image(k) /\ Cut(c) \in Image(k)
    BY <1>2
  <2>4. Short(d) = Cleanup[Short(c)] /\ Cut(d) = Cleanup[Cut(c)]
    BY <2>1, <2>2, CutCleaned
  <2> QED
    BY <2>1, <2>3, <2>4
<1>3. Nat \subseteq T
  <2> HIDE DEF T
  <2> QED
    BY <1>1, <1>2, NatSetInduction
<1> QED
  BY <1>3

\* A definition that is cut is one.
LEMMA CutShortIs ==
  ASSUME NEW d \in Defs, NEW e \in CutShort(d)
  PROVE  e \in Defs /\ \A n \in Nat : d \in Image(n) => e \in Image(n)
<1>1. e \in {d, Short(d), Cut(d)}
  BY DEF CutShort, Short, Cut
<1>2. e \in Defs
  BY <1>1, CutIs DEF IsCut
<1>3. ASSUME NEW n \in Nat, d \in Image(n) PROVE e \in Image(n)
  BY <1>1, <1>3, CutImages
<1> QED
  BY <1>2, <1>3

\* What is left of a file, if it decodes, is a file, cleaned as often.
LEMMA TornIs ==
  ASSUME NEW s \in Seq(Defs), NEW c \in Torn(s), NEW n \in Nat
  PROVE  /\ c \in Option(Seq(Defs))
         /\ IsSome(c) /\ InImage(s, n) => InImage(c[1], n)
<1>1. CASE c = None
  BY <1>1, OptionValues DEF IsSome
<1>2. CASE c = Some(<<>>)
  <2>1. <<>> \in Seq(Defs)
    OBVIOUS
  <2>2. InImage(<<>>, n)
    BY DEF InImage
  <2>3. c \in Option(Seq(Defs)) /\ c[1] = <<>>
    <3> DEFINE none == <<>>
    <3>1. none \in Seq(Defs) /\ c = Some(none)
      BY <1>2
    <3> HIDE DEF none
    <3>2. c \in Option(Seq(Defs)) /\ c[1] = none
      BY <3>1, OptionValues
    <3> QED
      BY <3>2 DEF none
  <2> QED
    BY <2>2, <2>3
<1>3. ASSUME NEW i \in 1 .. Len(s), NEW e \in CutShort(s[i]),
             c = Some(Append(SubSeq(s, 1, i - 1), e))
      PROVE  c \in Option(Seq(Defs)) /\ (InImage(s, n) => InImage(c[1], n))
  <2> DEFINE a == SubSeq(s, 1, i - 1)
             b == Append(a, e)
  <2>1. s[i] \in Defs /\ e \in Defs /\ (s[i] \in Image(n) => e \in Image(n))
    BY CutShortIs
  <2>2. a \in Seq(Defs) /\ Len(a) = i - 1 /\ \A k \in 1 .. i - 1 : a[k] = s[k]
    OBVIOUS
  <2> HIDE DEF a
  <2>3. b \in Seq(Defs) /\ Len(b) = i /\ b[i] = e /\ \A k \in 1 .. i - 1 : b[k] = a[k]
    BY <2>1, <2>2
  <2>4. c = Some(b)
    BY <1>3 DEF a
  <2> HIDE DEF b
  <2>5. c \in Option(Seq(Defs)) /\ c[1] = b
    BY <2>3, <2>4, OptionValues
  <2>6. \A k \in 1 .. i : k = i \/ (k \in 1 .. i - 1 /\ k \in 1 .. Len(s))
    OBVIOUS
  <2>7. InImage(s, n) => InImage(b, n)
    <3> SUFFICES ASSUME InImage(s, n), NEW k \in 1 .. Len(b) PROVE b[k] \in Image(n)
      BY DEF InImage
    <3>1. CASE k = i
      <4>1. s[i] \in Image(n)
        BY DEF InImage
      <4> QED
        BY <2>1, <2>3, <3>1, <4>1
    <3>2. CASE k # i
      <4>1. k \in 1 .. i - 1 /\ k \in 1 .. Len(s)
        BY <2>3, <2>6, <3>2
      <4> QED
        BY <2>2, <2>3, <4>1 DEF InImage
    <3> QED
      BY <3>1, <3>2
  <2> QED
    BY <2>5, <2>7
<1> QED
  BY <1>1, <1>2, <1>3 DEF Torn

\* Of a file without definitions there is nothing, or no definition, left.
LEMMA TornOfNothing == Torn(<<>>) = {None, Some(<<>>)}
<1>1. 1 .. Len(<<>>) = {}
  OBVIOUS
<1> QED
  BY <1>1 DEF Torn

--------------------------------------------------------------------------------
(* What an import stores.                                                  *)

NothingStored == [w \in {} |-> Blank]
Tables == {t \in UNION {[D -> Defs] : D \in SUBSET Texts} :
             \A w \in DOMAIN t : t[w].word = Some(w)}

\* Storing a definition changes the entry of its word, and no other.
LEMMA StoreIs ==
  ASSUME NEW t \in Tables, NEW d \in Defs, d.word = Some(WordOf(d))
  PROVE  /\ Store(t, d) \in Tables
         /\ DOMAIN Store(t, d) = DOMAIN t \cup {WordOf(d)}
         /\ \A w \in DOMAIN Store(t, d) :
              Store(t, d)[w] = IF w = WordOf(d) THEN d ELSE t[w]
<1>1. PICK D \in SUBSET Texts : t \in [D -> Defs]
  BY DEF Tables
<1>2. WordOf(d) \in Texts
  <2>1. d.word \in Option(Texts) /\ d.word # None
    BY DefFields DEF Some, None
  <2> QED
    BY <2>1, OptionValues DEF WordOf
<1> DEFINE E == D \cup {WordOf(d)}
<1>3. Store(t, d) = [w \in E |-> IF w = WordOf(d) THEN d ELSE t[w]]
  BY <1>1 DEF Store, WordOf
<1>4. E \in SUBSET Texts
  BY <1>2
<1>5. Store(t, d) \in [E -> Defs]
  BY <1>1, <1>3
<1>6. \A w \in E : Store(t, d)[w].word = Some(w)
  <2>1. \A w \in D : t[w].word = Some(w)
    BY <1>1 DEF Tables
  <2> QED
    BY <1>3, <2>1
<1>7. Store(t, d) \in Tables
  <2> HIDE DEF E
  <2> QED
    BY <1>4, <1>5, <1>6 DEF Tables
<1> QED
  BY <1>1, <1>3, <1>7

(***************************************************************************)
(* Into an empty database an import stores the last definition of each     *)
(* word of the file, and nothing else.                                     *)
(***************************************************************************)

LEMMA StoredIs ==
  ASSUME NEW s \in Seq(Defs), ~Wordless(s)
  PROVE  LET t == FoldLeft(Store, NothingStored, s) IN
         /\ t \in Tables
         /\ DOMAIN t = {WordOf(s[i]) : i \in 1 .. Len(s)}
         /\ \A i \in 1 .. Len(s) :
              (\A j \in 1 .. Len(s) : j > i => WordOf(s[j]) # WordOf(s[i])) => t[WordOf(s[i])] = s[i]
<1> DEFINE n == Len(s)
           W == Tables
           step == [i \in 1 .. n |-> [l \in W |-> Store(l, s[i])]]
           Def(it) == it = [t \in SUBSET (1 .. n) |->
                              IF t = {} THEN NothingStored ELSE Store(it[t \ {Max(t)}], s[Max(t)])]
           iter == CHOOSE it : Def(it)
<1>1. n \in Nat /\ DOMAIN s = 1 .. n /\ \A i \in 1 .. n : s[i] \in Defs /\ s[i].word = Some(WordOf(s[i]))
  BY WordIs
<1>2. NothingStored \in W /\ step \in [1 .. n -> [W -> W]]
  <2>1. \A i \in 1 .. n : \A l \in W : Store(l, s[i]) \in W
    BY <1>1, StoreIs
  <2>2. NothingStored \in W
    <3>1. NothingStored \in [{} -> Defs] /\ {} \in SUBSET Texts
      BY DEF NothingStored
    <3> QED
      BY <3>1 DEF Tables
  <2> QED
    BY <2>1, <2>2
<1>3. FoldLeft(Store, NothingStored, s) = iter[1 .. n]
  BY <1>1 DEF FoldLeft, MapThenFoldSet
<1> HIDE DEF n
<1>4. \E it : Def(it)
  <2>1. PICK it : FoldEquation(it, n, W, NothingStored, step)
    <3> HIDE DEF step, W
    <3> QED
      BY <1>1, <1>2, FoldExists
  <2>2. \A t \in SUBSET (1 .. n) : t # {} => /\ Max(t) \in 1 .. n
                                            /\ t \ {Max(t)} \in SUBSET (1 .. n)
    BY <1>1, MaxIndex
  <2>3. \A t \in SUBSET (1 .. n) : t # {} =>
          step[Max(t)][it[t \ {Max(t)}]] = Store(it[t \ {Max(t)}], s[Max(t)])
    <3>1. \A t \in SUBSET (1 .. n) : t # {} => it[t \ {Max(t)}] \in W
      <4> HIDE DEF W
      <4> QED
        BY <2>1, <2>2 DEF FoldEquation
    <3> QED
      BY <2>2, <3>1
  <2> HIDE DEF step
  <2>4. Def(it)
    BY <2>1, <2>3 DEF FoldEquation
  <2> HIDE DEF Def
  <2> QED
    BY <2>4
<1>5. Def(iter)
  <2> HIDE DEF Def
  <2> QED
    BY <1>4
<1> HIDE DEF iter
<1>6. FoldsBy(iter, n, W, NothingStored, step)
  <2>1. iter[{}] = NothingStored
    BY <1>5
  <2>2. ASSUME NEW i \in 1 .. n, iter[1 .. i - 1] \in W
        PROVE  iter[1 .. i] = step[i][iter[1 .. i - 1]]
    <3>1. /\ 1 .. i \in SUBSET (1 .. n) /\ 1 .. i # {} /\ Max(1 .. i) = i
          /\ (1 .. i) \ {i} = 1 .. i - 1
      BY <1>1, MaxPrefix
    <3>2. iter[1 .. i] = Store(iter[1 .. i - 1], s[i])
      BY <1>5, <3>1
    <3> QED
      BY <2>2, <3>2
  <2> HIDE DEF step, W
  <2> QED
    BY <2>1, <2>2 DEF FoldsBy
<1>7. PICK at : FoldRun(at, n, W, NothingStored, step, iter[1 .. n])
  <2> HIDE DEF step, W
  <2> QED
    BY <1>1, <1>2, <1>6, FoldRuns
<1>8. at \in [0 .. n -> W] /\ at[0] = NothingStored /\ at[n] = iter[1 .. n]
      /\ \A i \in 1 .. n : at[i] = Store(at[i - 1], s[i])
  <2>1. \A i \in 1 .. n : i - 1 \in 0 .. n
    BY <1>1
  <2>2. at \in [0 .. n -> W] /\ \A i \in 1 .. n : at[i - 1] \in W
    <3> HIDE DEF W
    <3> QED
      BY <1>7, <2>1 DEF FoldRun
  <2> QED
    BY <1>7, <2>2 DEF FoldRun
<1> DEFINE LastOf(m, i) == \A j \in 1 .. i : j > m => WordOf(s[j]) # WordOf(s[m])
           Q(i) == /\ DOMAIN at[i] = WordsUpTo(s, i)
                   /\ \A m \in 1 .. i : LastOf(m, i) => at[i][WordOf(s[m])] = s[m]
           U == {i \in Nat : i <= n => Q(i)}
<1>9. Nat \subseteq U
  <2>1. 0 \in U
    <3>1. DOMAIN NothingStored = {} /\ WordsUpTo(s, 0) = {}
      BY DEF NothingStored, WordsUpTo
    <3> QED
      BY <1>8, <3>1
  <2>2. ASSUME NEW i \in Nat, i \in U PROVE i + 1 \in U
    <3> SUFFICES ASSUME i + 1 <= n PROVE Q(i + 1)
      OBVIOUS
    <3>1. i + 1 \in 1 .. n /\ (i + 1) - 1 = i /\ i <= n /\ i \in 0 .. n
      BY <1>1
    <3>2. Q(i)
      BY <2>2, <3>1
    <3> DEFINE d == s[i + 1]
    <3>3. at[i + 1] = Store(at[i], d) /\ at[i] \in Tables
      BY <1>8, <3>1
    <3>4. /\ DOMAIN at[i + 1] = DOMAIN at[i] \cup {WordOf(d)}
          /\ \A w \in DOMAIN at[i + 1] : at[i + 1][w] = IF w = WordOf(d) THEN d ELSE at[i][w]
      <4>1. d \in Defs /\ d.word = Some(WordOf(d))
        BY <1>1, <3>1
      <4> DEFINE before == at[i]
      <4>2. before \in Tables
        BY <3>3
      <4> HIDE DEF d, before
      <4>3. /\ DOMAIN Store(before, d) = DOMAIN before \cup {WordOf(d)}
            /\ \A w \in DOMAIN Store(before, d) :
                 Store(before, d)[w] = IF w = WordOf(d) THEN d ELSE before[w]
        BY <4>1, <4>2, StoreIs
      <4> QED
        BY <3>3, <4>3 DEF before
    <3>5. \A j : j \in 1 .. i + 1 <=> j \in 1 .. i \/ j = i + 1
      OBVIOUS
    <3>6. WordsUpTo(s, i + 1) = WordsUpTo(s, i) \cup {WordOf(d)}
      BY <3>5 DEF WordsUpTo
    <3>7. \A m \in 1 .. i + 1 : LastOf(m, i + 1) => at[i + 1][WordOf(s[m])] = s[m]
      <4> SUFFICES ASSUME NEW m \in 1 .. i + 1, LastOf(m, i + 1)
                   PROVE  at[i + 1][WordOf(s[m])] = s[m]
        OBVIOUS
      <4>1. CASE m = i + 1
        <5>1. WordOf(d) \in DOMAIN at[i + 1]
          BY <3>4
        <5> QED
          BY <3>4, <4>1, <5>1
      <4>2. CASE m \in 1 .. i
        <5>1. LastOf(m, i)
          BY <3>5
        <5>2. WordOf(s[m]) # WordOf(d)
          BY <3>5, <4>2
        <5>3. WordOf(s[m]) \in DOMAIN at[i]
          BY <3>2, <4>2 DEF WordsUpTo
        <5>4. at[i][WordOf(s[m])] = s[m]
          <6> HIDE DEF LastOf
          <6> QED
            BY <3>2, <4>2, <5>1
        <5> HIDE DEF d
        <5>5. at[i + 1][WordOf(s[m])] = at[i][WordOf(s[m])]
          BY <3>4, <5>2, <5>3
        <5> QED
          BY <5>4, <5>5
      <4> QED
        BY <3>5, <4>1, <4>2
    <3> QED
      BY <3>2, <3>4, <3>6, <3>7
  <2> QED
    <3> HIDE DEF U
    <3> QED
      BY <2>1, <2>2, NatSetInduction
<1>10. Q(n) /\ at[n] \in Tables
  <2>1. n \in U
    BY <1>1, <1>9
  <2>2. Q(n)
    <3> HIDE DEF LastOf
    <3> QED
      BY <1>1, <2>1
  <2>3. at[n] \in Tables
    BY <1>1, <1>8
  <2> QED
    BY <2>2, <2>3
<1> QED
  BY <1>3, <1>8, <1>10 DEF n, WordsUpTo

--------------------------------------------------------------------------------
(* What the checks keep of the file there was at first.                    *)

\* The definitions of a file, cleaned n times.
After(defs, n) == [i \in 1 .. Len(defs) |-> Cleanings[n][defs[i]]]

\* After n checks s has, in their order, what they keep of the file.
Follows(s, defs, n) == Selected(s, After(defs, n), Kept[n][defs])

\* They are definitions; before any check they are the file.
LEMMA AfterIs ==
  ASSUME NEW defs \in Seq(Defs)
  PROVE  /\ \A n \in Nat : After(defs, n) \in Seq(Defs) /\ Len(After(defs, n)) = Len(defs)
         /\ After(defs, 0) = defs
         /\ \A n \in Nat : \A i \in 1 .. Len(defs) :
              /\ After(defs, n)[i] = Cleanings[n][defs[i]]
              /\ After(defs, n + 1)[i] = Cleanup[After(defs, n)[i]]
<1>1. \A i \in 1 .. Len(defs) : defs[i] \in Defs
  OBVIOUS
<1>2. ASSUME NEW n \in Nat
      PROVE  /\ After(defs, n) \in Seq(Defs) /\ Len(After(defs, n)) = Len(defs)
             /\ \A i \in 1 .. Len(defs) : After(defs, n)[i] = Cleanings[n][defs[i]]
  <2>1. \A i \in 1 .. Len(defs) : Cleanings[n][defs[i]] \in Defs
    BY <1>1, CleaningsUnfold
  <2> QED
    BY <2>1 DEF After
<1>3. After(defs, 0) = defs
  <2>1. \A i \in 1 .. Len(defs) : Cleanings[0][defs[i]] = defs[i]
    BY <1>1, CleaningsUnfold
  <2>2. After(defs, 0) = [i \in 1 .. Len(defs) |-> defs[i]]
    BY <2>1 DEF After
  <2> QED
    BY <2>2
<1>4. ASSUME NEW n \in Nat, NEW i \in 1 .. Len(defs)
      PROVE  After(defs, n + 1)[i] = Cleanup[After(defs, n)[i]]
  <2>1. Cleanings[n + 1][defs[i]] = Cleanup[Cleanings[n][defs[i]]]
    BY <1>1, CleaningsUnfold
  <2> QED
    BY <1>2, <2>1
<1> QED
  BY <1>2, <1>3, <1>4

\* The recursion that defines what the checks keep.
LEMMA KeptUnfold ==
  \A defs \in Seq(Defs) :
    /\ Kept[0][defs] = 1 .. Len(defs)
    /\ \A n \in Nat : /\ Kept[n][defs] \in SUBSET (1 .. Len(defs))
                      /\ Kept[n + 1][defs] = FirstAmong(Kept[n][defs], After(defs, n))
<1> DEFINE S == Seq(Defs)
           W == [S -> SUBSET Nat]
           start == [d \in S |-> 1 .. Len(d)]
           step == [n \in Nat |-> [K \in W |-> [d \in S |-> FirstAmong(K[d], After(d, n))]]]
           Value(g, n, d) == IF n = 0 THEN 1 .. Len(d) ELSE FirstAmong(g[n - 1][d], After(d, n - 1))
           Def(g) == g = [n \in Nat |-> [d \in S |-> Value(g, n, d)]]
<1>1. start \in W /\ step \in [Nat -> [W -> W]]
  <2>1. \A d \in S : 1 .. Len(d) \in SUBSET Nat
    OBVIOUS
  <2>2. \A I \in SUBSET Nat : \A x : FirstAmong(I, x) \in SUBSET Nat
    BY DEF FirstAmong
  <2>3. \A n \in Nat : \A K \in W : \A d \in S : FirstAmong(K[d], After(d, n)) \in SUBSET Nat
    BY <2>2
  <2> HIDE DEF S
  <2> QED
    BY <2>1, <2>3
<1>2. PICK f \in [Nat -> W] : \A n \in Nat : f[n] = IF n = 0 THEN start ELSE step[n - 1][f[n - 1]]
  <2> HIDE DEF W, step, start
  <2> QED
    BY <1>1, NatSteps
<1>3. Def(f)
  <2> SUFFICES ASSUME NEW n \in Nat PROVE f[n] = [d \in S |-> Value(f, n, d)]
    OBVIOUS
  <2>1. CASE n # 0
    <3>1. n - 1 \in Nat /\ f[n - 1] \in W
      BY <2>1
    <3> HIDE DEF S
    <3>2. step[n - 1][f[n - 1]] = [d \in S |-> FirstAmong(f[n - 1][d], After(d, n - 1))]
      BY <3>1
    <3>3. f[n] = step[n - 1][f[n - 1]]
      <4> HIDE DEF step, start, W
      <4> QED
        BY <1>2, <2>1
    <3> HIDE DEF step
    <3> QED
      BY <2>1, <3>2, <3>3
  <2>2. CASE n = 0
    BY <1>2, <2>2
  <2> QED
    BY <2>1, <2>2
<1>4. Def(CHOOSE g : Def(g))
  <2> HIDE DEF Def
  <2> QED
    BY <1>3
<1>5. Kept = CHOOSE g : Def(g)
  BY DEF Kept, MapSeq, After
<1>6. Def(Kept)
  <2> HIDE DEF Def
  <2> QED
    BY <1>4, <1>5
<1> SUFFICES ASSUME NEW defs \in Seq(Defs)
             PROVE  /\ Kept[0][defs] = 1 .. Len(defs)
                    /\ \A n \in Nat :
                         /\ Kept[n][defs] \in SUBSET (1 .. Len(defs))
                         /\ Kept[n + 1][defs] = FirstAmong(Kept[n][defs], After(defs, n))
  OBVIOUS
<1>7. ASSUME NEW n \in Nat PROVE Kept[n][defs] = Value(Kept, n, defs)
  <2> HIDE DEF Value
  <2>1. Kept[n] = [d \in S |-> Value(Kept, n, d)]
    BY <1>6
  <2>2. defs \in S
    OBVIOUS
  <2> HIDE DEF S, Def
  <2> QED
    BY <2>1, <2>2
<1>8. Kept[0][defs] = 1 .. Len(defs)
  BY <1>7
<1>9. ASSUME NEW n \in Nat PROVE Kept[n + 1][defs] = FirstAmong(Kept[n][defs], After(defs, n))
  <2>1. n + 1 \in Nat /\ n + 1 # 0 /\ (n + 1) - 1 = n
    OBVIOUS
  <2> HIDE DEF Def
  <2> QED
    BY <1>7, <2>1
<1> DEFINE T == {n \in Nat : Kept[n][defs] \in SUBSET (1 .. Len(defs))}
<1>10. Nat \subseteq T
  <2>1. 0 \in T
    BY <1>8
  <2>2. ASSUME NEW n \in Nat, n \in T PROVE n + 1 \in T
    <3>1. FirstAmong(Kept[n][defs], After(defs, n)) \subseteq Kept[n][defs]
      BY DEF FirstAmong
    <3>2. Kept[n][defs] \in SUBSET (1 .. Len(defs))
      BY <2>2
    <3>3. Kept[n + 1][defs] \in SUBSET (1 .. Len(defs))
      <4> HIDE DEF Def, T
      <4> QED
        BY <1>9, <3>1, <3>2
    <3> QED
      BY <3>3
  <2> HIDE DEF T
  <2> QED
    BY <2>1, <2>2, NatSetInduction
<1> QED
  BY <1>8, <1>9, <1>10

\* A file before any check follows from itself.
LEMMA FollowsItself ==
  ASSUME NEW defs \in Seq(Defs)
  PROVE  Follows(defs, defs, 0)
  BY AfterIs, KeptUnfold, SelectSelf DEF Follows

(***************************************************************************)
(* One check more.  What it finds first among what is left is first among  *)
(* the positions that are left of the file.                                *)
(***************************************************************************)
LEMMA FollowsNext ==
  ASSUME NEW defs \in Seq(Defs), NEW n \in Nat, NEW s \in Seq(Defs), ~Wordless(s),
         Follows(s, defs, n)
  PROVE  Follows(Once(s), defs, n + 1)
<1> DEFINE a == After(defs, n)
           K == Kept[n][defs]
           L == Kept[n + 1][defs]
           b == After(defs, n + 1)
           u == NonEmptyUnique(s)
           c == Once(s)
           F == FirstOnes(s)
<1>1. PICK to : Selects(to, s, a, K)
  BY DEF Follows, Selected
<1>2. PICK at : Selects(at, u, s, F)
  BY KeepsFirst DEF Selected
<1>3. /\ to \in [1 .. Len(s) -> K]
      /\ \A i, j \in 1 .. Len(s) : i < j => to[i] < to[j]
      /\ \A i \in K : \E k \in 1 .. Len(s) : to[k] = i
      /\ \A k \in 1 .. Len(s) : s[k] = a[to[k]]
  BY <1>1 DEF Selects
<1>4. /\ u \in Seq(Defs) /\ at \in [1 .. Len(u) -> F]
      /\ \A i, j \in 1 .. Len(u) : i < j => at[i] < at[j]
      /\ \A i \in F : \E k \in 1 .. Len(u) : at[k] = i
      /\ \A k \in 1 .. Len(u) : u[k] = s[at[k]]
  BY <1>2 DEF Selects
<1>5. \A i : i \in F <=> /\ i \in 1 .. Len(s) /\ ~Empty[s[i]]
                         /\ \A j \in 1 .. Len(s) : j < i /\ s[j].word = s[i].word => Empty[s[j]]
  BY DEF FirstOnes, FirstAmong
<1>6. /\ K \in SUBSET Nat /\ K \subseteq 1 .. Len(defs) /\ Len(s) \in Nat
      /\ \A i : i \in L <=> /\ i \in K /\ ~Empty[a[i]]
                             /\ \A j \in K : j < i /\ a[j].word = a[i].word => Empty[a[j]]
  <2>1. K \in SUBSET (1 .. Len(defs)) /\ L = FirstAmong(K, a)
    BY KeptUnfold
  <2> HIDE DEF K, L, a
  <2> QED
    BY <2>1 DEF FirstAmong
<1>7. /\ c \in Seq(Defs) /\ Len(c) = Len(u)
      /\ \A k \in 1 .. Len(u) : c[k] = Cleanup[u[k]]
  <2> HIDE DEF u
  <2> QED
    BY <1>4, CleanAllIs DEF Once, u
<1>8. \A i \in 1 .. Len(defs) : b[i] = Cleanup[a[i]]
  BY AfterIs
<1> HIDE DEF a, K, L, b, u, c, F
<1>9. \A i, j \in 1 .. Len(s) : to[i] < to[j] => i < j
  <2> SUFFICES ASSUME NEW i \in 1 .. Len(s), NEW j \in 1 .. Len(s), to[i] < to[j], ~(i < j)
               PROVE  FALSE
    OBVIOUS
  <2>1. to[i] \in Nat /\ to[j] \in Nat
    BY <1>3, <1>6
  <2>2. i = j \/ j < i
    BY <1>6
  <2>3. j < i => to[j] < to[i]
    BY <1>3
  <2> QED
    BY <2>1, <2>2, <2>3
<1>10. ASSUME NEW m \in F PROVE to[m] \in L
  <2>1. m \in 1 .. Len(s) /\ ~Empty[s[m]]
        /\ \A j \in 1 .. Len(s) : j < m /\ s[j].word = s[m].word => Empty[s[j]]
    BY <1>5
  <2>2. to[m] \in K /\ ~Empty[a[to[m]]]
    BY <1>3, <2>1
  <2>3. ASSUME NEW j \in K, j < to[m], a[j].word = a[to[m]].word PROVE Empty[a[j]]
    <3>1. PICK k \in 1 .. Len(s) : to[k] = j
      BY <1>3
    <3>2. k < m
      BY <1>9, <2>1, <2>3, <3>1
    <3>3. s[k] = a[j] /\ s[m] = a[to[m]]
      BY <1>3, <2>1, <3>1
    <3> QED
      BY <2>1, <2>3, <3>2, <3>3
  <2> QED
    BY <1>6, <2>2, <2>3
<1>11. ASSUME NEW i \in L PROVE \E m \in F : to[m] = i
  <2>1. i \in K /\ ~Empty[a[i]]
        /\ \A j \in K : j < i /\ a[j].word = a[i].word => Empty[a[j]]
    BY <1>6
  <2>2. PICK m \in 1 .. Len(s) : to[m] = i
    BY <1>3, <2>1
  <2>3. ASSUME NEW j \in 1 .. Len(s), j < m, s[j].word = s[m].word PROVE Empty[s[j]]
    <3>1. to[j] \in K /\ to[j] < i
      BY <1>3, <2>2, <2>3
    <3>2. s[j] = a[to[j]] /\ s[m] = a[i]
      BY <1>3, <2>2
    <3> QED
      BY <2>1, <2>3, <3>1, <3>2
  <2>4. ~Empty[s[m]]
    BY <1>3, <2>1, <2>2
  <2> QED
    BY <1>5, <2>2, <2>3, <2>4
<1> DEFINE by == [k \in 1 .. Len(c) |-> to[at[k]]]
<1>12. \A k \in 1 .. Len(c) : at[k] \in F /\ at[k] \in 1 .. Len(s) /\ by[k] = to[at[k]]
  BY <1>4, <1>5, <1>7
<1>13. by \in [1 .. Len(c) -> L]
  BY <1>10, <1>12
<1>14. \A i, j \in 1 .. Len(c) : i < j => by[i] < by[j]
  BY <1>3, <1>4, <1>7, <1>12
<1>15. \A i \in L : \E k \in 1 .. Len(c) : by[k] = i
  <2> SUFFICES ASSUME NEW i \in L PROVE \E k \in 1 .. Len(c) : by[k] = i
    OBVIOUS
  <2>1. PICK m \in F : to[m] = i
    BY <1>11
  <2>2. PICK k \in 1 .. Len(u) : at[k] = m
    BY <1>4
  <2> QED
    BY <1>7, <1>12, <2>1, <2>2
<1>16. \A k \in 1 .. Len(c) : c[k] = b[by[k]]
  <2> SUFFICES ASSUME NEW k \in 1 .. Len(c) PROVE c[k] = b[by[k]]
    OBVIOUS
  <2>1. c[k] = Cleanup[s[at[k]]]
    BY <1>4, <1>7
  <2>2. s[at[k]] = a[by[k]] /\ by[k] \in K
    BY <1>3, <1>12
  <2> QED
    BY <1>6, <1>8, <2>1, <2>2
<1> HIDE DEF by
<1>17. Selects(by, c, b, L)
  BY <1>7, <1>13, <1>14, <1>15, <1>16 DEF Selects
<1> QED
  BY <1>17 DEF Follows, Selected, c, b, L

(***************************************************************************)
(* What WordsReachDb says of a file and the number of its checks.          *)
(***************************************************************************)
Reached(t, defs, n) ==
  LET kept == Kept[n][defs]
      Word(i) == Cleanings[n][defs[i]].word[1]
  IN  /\ DOMAIN t = {Word(i) : i \in kept}
      /\ \A i \in kept : (\A j \in kept : j > i => Word(j) # Word(i)) =>
                           t[Word(i)] = Cleanings[n][defs[i]]

\* The import of what follows from a file stores this.
LEMMA ReachedIs ==
  ASSUME NEW defs \in Seq(Defs), NEW n \in Nat, NEW s \in Seq(Defs), ~Wordless(s),
         Follows(s, defs, n)
  PROVE  Reached(FoldLeft(Store, NothingStored, s), defs, n)
<1> DEFINE a == After(defs, n)
           K == Kept[n][defs]
           t == FoldLeft(Store, NothingStored, s)
<1>1. PICK to : Selects(to, s, a, K)
  BY DEF Follows, Selected
<1>2. /\ to \in [1 .. Len(s) -> K]
      /\ \A i, j \in 1 .. Len(s) : i < j => to[i] < to[j]
      /\ \A i \in K : \E k \in 1 .. Len(s) : to[k] = i
      /\ \A k \in 1 .. Len(s) : s[k] = a[to[k]]
  BY <1>1 DEF Selects
<1>3. K \in SUBSET (1 .. Len(defs))
  BY KeptUnfold
<1>4. \A i \in K : a[i] = Cleanings[n][defs[i]]
  BY <1>3, AfterIs
<1>5. /\ DOMAIN t = {WordOf(s[k]) : k \in 1 .. Len(s)}
      /\ \A k \in 1 .. Len(s) :
           (\A m \in 1 .. Len(s) : m > k => WordOf(s[m]) # WordOf(s[k])) => t[WordOf(s[k])] = s[k]
  BY StoredIs
<1> HIDE DEF a, K, t
<1>6. DOMAIN t = {WordOf(a[i]) : i \in K}
  <2>1. \A w : w \in DOMAIN t <=> \E k \in 1 .. Len(s) : w = WordOf(s[k])
    BY <1>5
  <2>2. \A w : w \in DOMAIN t <=> \E i \in K : w = WordOf(a[i])
    BY <1>2, <2>1
  <2> QED
    BY <2>2
<1>7. ASSUME NEW i \in K, \A j \in K : j > i => WordOf(a[j]) # WordOf(a[i])
      PROVE  t[WordOf(a[i])] = a[i]
  <2>1. PICK k \in 1 .. Len(s) : to[k] = i
    BY <1>2
  <2>2. ASSUME NEW m \in 1 .. Len(s), m > k PROVE WordOf(s[m]) # WordOf(s[k])
    <3>1. to[m] \in K /\ to[m] > i
      BY <1>2, <1>3, <2>1, <2>2
    <3> QED
      BY <1>2, <1>7, <2>1, <3>1
  <2>3. t[WordOf(s[k])] = s[k]
    BY <1>5, <2>2
  <2> QED
    BY <1>2, <2>1, <2>3
<1>8. DOMAIN t = {WordOf(Cleanings[n][defs[i]]) : i \in K}
  BY <1>4, <1>6
<1>9. \A i \in K : (\A j \in K : j > i => WordOf(Cleanings[n][defs[j]]) # WordOf(Cleanings[n][defs[i]]))
                    => t[WordOf(Cleanings[n][defs[i]])] = Cleanings[n][defs[i]]
  BY <1>4, <1>7
<1> QED
  BY <1>8, <1>9 DEF Reached, WordOf, t, K

--------------------------------------------------------------------------------
(* The invariant.                                                          *)

\* What CheckPanics says of the source.
Panics(defs) ==
  Wordless(defs) \/ ~All(LAMBDA d : ~CleanupPanics[d], NonEmptyUnique(defs))

\* Where a check is, it had what it needs.
Underway ==
  /\ pc \in {"created", "reported", "checked"} => ~Panics(source)
  /\ pc \in {"created", "reported", "checked", "killed"} => checks < MaxChecks
  /\ pc = "checked" => cleaned = Some(Once(source))

\* Every check has cleaned what it wrote.
Clean ==
  /\ pc # "imported" => InImage(source, checks)
  /\ pc \in {"created", "reported", "checked", "killed"} /\ IsSome(cleaned) =>
       InImage(cleaned[1], checks + 1)

\* Of the file that there was at first, the source has what the checks left,
\* and so has the database.
Followed ==
  /\ pc # "imported" => db = NothingStored
  /\ pc # "imported" /\ ~torn => Follows(source, origin, checks)
  /\ pc = "imported" /\ ~torn => Reached(db, origin, checks)

IInv == TypeOK /\ Underway /\ Clean /\ Followed

(***************************************************************************)
(* The types of what is written and stored.                                *)
(***************************************************************************)
LEMMA NothingStoredTyped ==
  /\ NothingStored = [w \in DOMAIN NothingStored |-> NothingStored[w]]
  /\ DOMAIN NothingStored = {}
  BY DEF NothingStored

\* What is stored under a word is a definition of that word.
LEMMA TableTyped ==
  ASSUME NEW t \in Tables
  PROVE  /\ t = [w \in DOMAIN t |-> t[w]]
         /\ \A w \in DOMAIN t : t[w] \in Defs /\ t[w].word = Some(w)
<1>1. PICK D \in SUBSET Texts : t \in [D -> Defs]
  BY DEF Tables
<1>2. t = [w \in DOMAIN t |-> t[w]] /\ \A w \in DOMAIN t : t[w] \in Defs
  BY <1>1
<1>3. \A w \in DOMAIN t : t[w].word = Some(w)
  BY DEF Tables
<1> QED
  BY <1>2, <1>3

\* The kind of a report.
LEMMA ReportTyped ==
  ASSUME NEW s \in Seq(Defs)
  PROVE  LET Reported(d) == [def |-> d, alternative |-> d.word[1] \in Words(s)]
         IN  Some(MapSeq(Reported, Those(TRUE, s)))
               \in Option(Seq([def : Defs, alternative : BOOLEAN]))
<1> DEFINE R(d) == [def |-> d, alternative |-> d.word[1] \in Words(s)]
           T == [def : Defs, alternative : BOOLEAN]
           e == Those(TRUE, s)
           m == MapSeq(R, e)
<1>1. e \in Seq(Defs)
  BY ThoseSelects DEF Selected, Selects
<1>2. \A d \in Defs : R(d) \in T
  OBVIOUS
<1>3. m = [i \in 1 .. Len(e) |-> R(e[i])]
  BY DEF MapSeq
<1> HIDE DEF e, R, T, m
<1>4. \A i \in 1 .. Len(e) : R(e[i]) \in T
  BY <1>1, <1>2
<1>5. m \in Seq(T)
  BY <1>1, <1>3, <1>4
<1>6. Some(m) \in Option(Seq(T))
  BY <1>5, OptionValues
<1> QED
  BY <1>6 DEF m, R, T, e

\* Of a file that does not panic, the output is cleaned once more.
LEMMA OutputIs ==
  ASSUME source \in Seq(Defs), ~Panics(source)
  PROVE  /\ ~Wordless(source) /\ Output = Once(source) /\ Output \in Seq(Defs)
         /\ \A n \in Nat : InImage(source, n) => InImage(Output, n + 1)
<1>1. ~Wordless(source) /\ Output = Once(source)
  BY DEF Panics, Output, Once
<1> QED
  BY <1>1, OnceIs

\* A file before any check.
LEMMA InitInvariant == Init => IInv
<1> SUFFICES ASSUME Init PROVE IInv
  OBVIOUS
<1>1. source \in Seq(Defs) /\ origin = source /\ checks = 0 /\ pc = "source"
      /\ cleaned = None /\ report = None /\ torn = FALSE /\ db = NothingStored
  BY SourcesAssumption DEF Init, NothingStored
<1>2. TypeOK
  <2>1. None \in Option(Seq(Defs)) /\ None \in Option(Seq([def : Defs, alternative : BOOLEAN]))
    BY OptionValues
  <2>2. db = [w \in DOMAIN db |-> db[w]] /\ \A w \in DOMAIN db : db[w] \in Defs /\ db[w].word = Some(w)
    BY <1>1, NothingStoredTyped
  <2>3. checks \in 0 .. MaxChecks
    BY <1>1, ChecksAssumption
  <2> QED
    BY <1>1, <2>1, <2>2, <2>3 DEF TypeOK
<1>3. Underway /\ Clean
  BY <1>1, ImagesSettle DEF Underway, Clean, IsSome
<1>4. Followed
  BY <1>1, FollowsItself DEF Followed
<1> QED
  BY <1>2, <1>3, <1>4 DEF IInv

(***************************************************************************)
(* Every step preserves the invariant.                                     *)
(***************************************************************************)
LEMMA CheckStep == IInv /\ Check => IInv'
<1> SUFFICES ASSUME IInv, Check PROVE IInv'
  OBVIOUS
<1> USE DEF IInv
<1>1. UNCHANGED <<source, checks, db, origin, torn>> /\ checks < MaxChecks
  BY DEF Check
<1>2. CheckPanics <=> Panics(source)
  BY DEF CheckPanics, Panics
<1>3. CASE CheckPanics
  <2>1. pc' = "panicked" /\ pc \in {"source", "killed"} /\ UNCHANGED files
    BY <1>3 DEF Check
  <2>2. TypeOK'
    BY <1>1, <2>1 DEF TypeOK, files
  <2>3. Underway' /\ Clean'
    BY <1>1, <2>1 DEF Underway, Clean, files
  <2>4. Followed'
    BY <1>1, <2>1 DEF Followed
  <2> QED
    BY <2>2, <2>3, <2>4
<1>4. CASE ~CheckPanics
  <2>1. pc' = "created" /\ pc \in {"source", "killed"} /\ cleaned' = None /\ report' = None
    BY <1>4 DEF Check
  <2>2. TypeOK'
    <3>1. None \in Option(Seq(Defs)) /\ None \in Option(Seq([def : Defs, alternative : BOOLEAN]))
      BY OptionValues
    <3> QED
      BY <1>1, <2>1, <3>1 DEF TypeOK
  <2>3. Underway' /\ Clean'
    BY <1>1, <1>2, <1>4, <2>1 DEF Underway, Clean, IsSome
  <2>4. Followed'
    BY <1>1, <2>1 DEF Followed
  <2> QED
    BY <2>2, <2>3, <2>4
<1> QED
  BY <1>3, <1>4

\* Writing the report.
LEMMA WriteReportStep == IInv /\ WriteReport => IInv'
<1> SUFFICES ASSUME IInv, WriteReport PROVE IInv'
  OBVIOUS
<1> USE DEF IInv
<1>1. /\ UNCHANGED <<source, cleaned, checks, db, origin, torn>>
      /\ pc = "created" /\ pc' = "reported"
  BY DEF WriteReport
<1>3. report' \in Option(Seq([def : Defs, alternative : BOOLEAN]))
  BY ReportTyped DEF WriteReport, TypeOK
<1>4. TypeOK'
  BY <1>1, <1>3 DEF TypeOK
<1>5. Underway' /\ Clean'
  BY <1>1 DEF Underway, Clean
<1>6. Followed'
  BY <1>1 DEF Followed
<1> QED
  BY <1>4, <1>5, <1>6

\* Writing the cleaned source, which is what Underway says of it.
LEMMA WriteCleanedStep == IInv /\ WriteCleaned => IInv'
<1> SUFFICES ASSUME IInv, WriteCleaned PROVE IInv'
  OBVIOUS
<1> USE DEF IInv
<1>1. /\ UNCHANGED <<source, report, checks, db, origin, torn>>
      /\ pc = "reported" /\ pc' = "checked" /\ cleaned' = Some(Output)
  BY DEF WriteCleaned
<1>3. Output = Once(source) /\ Output \in Seq(Defs) /\ InImage(Output, checks + 1)
  <2>1. checks \in Nat /\ InImage(source, checks)
    BY <1>1, ChecksAssumption DEF TypeOK, Clean
  <2> QED
    BY <1>1, <2>1, OutputIs DEF TypeOK, Underway
<1>4. cleaned' \in Option(Seq(Defs)) /\ cleaned'[1] = Output
  BY <1>1, <1>3, OptionValues
<1>5. TypeOK'
  BY <1>1, <1>4 DEF TypeOK
<1>6. Underway'
  BY <1>1, <1>3 DEF Underway
<1>7. Clean'
  BY <1>1, <1>3, <1>4 DEF Clean
<1>8. Followed'
  BY <1>1 DEF Followed
<1> QED
  BY <1>5, <1>6, <1>7, <1>8

\* A check that is killed leaves definitions as it has cleaned them, if any.
LEMMA KillStep == IInv /\ Kill => IInv'
<1> SUFFICES ASSUME IInv, Kill PROVE IInv'
  OBVIOUS
<1> USE DEF IInv
<1>1. /\ UNCHANGED <<source, checks, db, origin, torn>>
      /\ pc \in {"created", "reported"} /\ pc' = "killed"
  BY DEF Kill
<1> DEFINE n == checks + 1
<1>9. checks \in Nat /\ n \in Nat /\ InImage(source, checks)
  BY <1>1, ChecksAssumption DEF TypeOK, Clean
<1>2. \E s \in Seq(Defs) : InImage(s, n) /\ cleaned' \in Torn(s)
  <2>1. CASE pc = "created"
    <3> DEFINE none == <<>>
    <3>1. none \in Seq(Defs) /\ InImage(none, n)
      BY DEF InImage
    <3>2. cleaned' \in Torn(none)
      BY <2>1 DEF Kill
    <3> HIDE DEF none
    <3> QED
      BY <3>1, <3>2
  <2>2. CASE pc = "reported"
    <3>1. Output \in Seq(Defs) /\ InImage(Output, n)
      BY <1>9, <2>2, OutputIs DEF TypeOK, Underway
    <3>2. cleaned' \in Torn(Output)
      BY <2>2 DEF Kill
    <3> QED
      BY <3>1, <3>2
  <2> QED
    BY <1>1, <2>1, <2>2
<1>3. cleaned' \in Option(Seq(Defs)) /\ (IsSome(cleaned') => InImage(cleaned'[1], n))
  <2> HIDE DEF n
  <2> QED
    BY <1>2, <1>9, TornIs
<1>4. report' \in Option(Seq([def : Defs, alternative : BOOLEAN]))
  <2>1. CASE pc = "created"
    <3> DEFINE none == <<>>
               T == [def : Defs, alternative : BOOLEAN]
    <3>1. none \in Seq(T)
      OBVIOUS
    <3>2. report' \in {None, Some(none)}
      BY <2>1, TornOfNothing DEF Kill
    <3> HIDE DEF none, T
    <3>3. report' \in Option(Seq(T))
      BY <3>1, <3>2, OptionValues
    <3> QED
      BY <3>3 DEF T
  <2>2. CASE pc = "reported"
    <3>1. report' = report
      BY <2>2 DEF Kill
    <3> QED
      BY <3>1 DEF TypeOK
  <2> QED
    BY <1>1, <2>1, <2>2
<1>5. TypeOK'
  BY <1>1, <1>3, <1>4 DEF TypeOK
<1>6. Underway'
  BY <1>1 DEF Underway
<1>7. Clean'
  BY <1>1, <1>3 DEF Clean
<1>8. Followed'
  BY <1>1 DEF Followed
<1> QED
  BY <1>5, <1>6, <1>7, <1>8

\* The cleaned source of a check that was not killed follows from the file.
LEMMA CheckedNext ==
  ASSUME IInv, pc = "checked", ~torn
  PROVE  Follows(cleaned[1], origin, checks + 1)
<1>1. /\ ~Panics(source) /\ source \in Seq(Defs) /\ origin \in Seq(Defs)
      /\ checks \in Nat /\ Follows(source, origin, checks)
      /\ cleaned = Some(Once(source))
  BY ChecksAssumption DEF IInv, TypeOK, Underway, Followed
<1>2. ~Wordless(source)
  BY <1>1 DEF Panics
<1>3. cleaned[1] = Once(source)
  BY <1>1 DEF Some
<1> QED
  BY <1>1, <1>2, <1>3, FollowsNext

\* The database after an import.
LEMMA StoredTyped ==
  ASSUME NEW s \in Seq(Defs), ~Wordless(s), db = NothingStored
  PROVE  LET t == Stored(s) IN
         /\ t = FoldLeft(Store, NothingStored, s)
         /\ t = [w \in DOMAIN t |-> t[w]]
         /\ \A w \in DOMAIN t : t[w] \in Defs /\ t[w].word = Some(w)
<1> DEFINE t == FoldLeft(Store, NothingStored, s)
<1>1. Stored(s) = t
  BY DEF Stored
<1>2. t \in Tables
  BY StoredIs
<1> HIDE DEF t
<1>3. /\ t = [w \in DOMAIN t |-> t[w]]
      /\ \A w \in DOMAIN t : t[w] \in Defs /\ t[w].word = Some(w)
  BY <1>2, TableTyped
<1> QED
  BY <1>1, <1>3 DEF t

\* The output, of a whole check or of a killed one, is the next source.
LEMMA AdoptStep == IInv /\ Adopt => IInv'
<1> SUFFICES ASSUME IInv, Adopt PROVE IInv'
  OBVIOUS
<1> USE DEF IInv
<1>1. UNCHANGED <<files, db, origin>> /\ pc \in {"checked", "killed"}
  BY DEF Adopt
<1>2. CASE cleaned = None
  <2>1. pc' = "panicked" /\ UNCHANGED <<source, checks, torn>>
    BY <1>2 DEF Adopt
  <2> QED
    BY <1>1, <2>1 DEF TypeOK, Underway, Clean, Followed, files
<1>3. CASE cleaned # None
  <2>1. /\ pc' = "source" /\ source' = cleaned[1] /\ checks' = checks + 1
        /\ torn' = (torn \/ pc = "killed")
    BY <1>3 DEF Adopt
  <2>2. cleaned[1] \in Seq(Defs) /\ InImage(cleaned[1], checks + 1)
    BY <1>1, <1>3, OptionValues DEF TypeOK, Clean, IsSome
  <2>3. TypeOK'
    <3>1. checks + 1 \in 0 .. MaxChecks
      BY <1>1, ChecksAssumption DEF TypeOK, Underway
    <3> QED
      BY <1>1, <2>1, <2>2, <3>1 DEF TypeOK, files
  <2>4. Underway' /\ Clean'
    BY <1>1, <2>1, <2>2 DEF Underway, Clean, files
  <2>5. Followed'
    <3>1. ~torn' => Follows(source', origin', checks')
      BY <1>1, <2>1, CheckedNext
    <3> QED
      BY <1>1, <2>1, <3>1 DEF Followed
  <2> QED
    BY <2>3, <2>4, <2>5
<1> QED
  BY <1>2, <1>3

\* The import of a source.
LEMMA ImportStep == IInv /\ Import => IInv'
<1> SUFFICES ASSUME IInv, Import PROVE IInv'
  OBVIOUS
<1> USE DEF IInv
<1>1. UNCHANGED <<source, files, checks, origin, torn>> /\ pc = "source"
  BY DEF Import
<1>2. CASE Wordless(source)
  <2>1. pc' = "panicked" /\ UNCHANGED db
    BY <1>2 DEF Import
  <2> QED
    BY <1>1, <2>1 DEF TypeOK, Underway, Clean, Followed, files
<1>3. CASE ~Wordless(source)
  <2>1. pc' = "imported" /\ db' = Stored(source)
    BY <1>3 DEF Import
  <2>2. source \in Seq(Defs) /\ db = NothingStored
    BY <1>1 DEF TypeOK, Followed
  <2>3. /\ db' = FoldLeft(Store, NothingStored, source)
        /\ db' = [w \in DOMAIN db' |-> db'[w]]
        /\ \A w \in DOMAIN db' : db'[w] \in Defs /\ db'[w].word = Some(w)
    BY <1>3, <2>1, <2>2, StoredTyped
  <2>4. TypeOK'
    BY <1>1, <2>1, <2>3 DEF TypeOK, files
  <2>5. Underway' /\ Clean'
    BY <1>1, <2>1 DEF Underway, Clean, files
  <2>6. ~torn => Reached(db', origin, checks)
    <3>1. ~torn => Follows(source, origin, checks)
      BY <1>1 DEF Followed
    <3>2. origin \in Seq(Defs) /\ checks \in Nat
      BY ChecksAssumption DEF TypeOK
    <3> QED
      BY <1>3, <2>2, <2>3, <3>1, <3>2, ReachedIs
  <2>7. Followed'
    BY <1>1, <2>1, <2>6 DEF Followed
  <2> QED
    BY <2>4, <2>5, <2>7
<1> QED
  BY <1>2, <1>3

\* The import of all files of the directory, of which the output is the next
\* source.
LEMMA ImportDirectoryStep == IInv /\ ImportDirectory => IInv'
<1> SUFFICES ASSUME IInv, ImportDirectory PROVE IInv'
  OBVIOUS
<1> USE DEF IInv
<1>1. UNCHANGED <<source, files, origin>> /\ pc \in {"checked", "killed"}
  BY DEF ImportDirectory
<1>2. CASE report # Some(<<>>) \/ cleaned = None \/ Wordless(cleaned[1])
  <2>1. pc' = "panicked" /\ UNCHANGED <<db, checks, torn>>
    BY <1>2 DEF ImportDirectory
  <2> QED
    BY <1>1, <2>1 DEF TypeOK, Underway, Clean, Followed, files
<1>3. CASE ~(report # Some(<<>>) \/ cleaned = None \/ Wordless(cleaned[1]))
  <2>1. /\ pc' = "imported" /\ db' = Stored(cleaned[1]) /\ checks' = checks + 1
        /\ torn' = (torn \/ pc = "killed")
    BY <1>3 DEF ImportDirectory
  <2>2. cleaned[1] \in Seq(Defs) /\ ~Wordless(cleaned[1]) /\ db = NothingStored
    BY <1>1, <1>3, OptionValues DEF TypeOK, Followed, IsSome
  <2>3. /\ db' = FoldLeft(Store, NothingStored, cleaned[1])
        /\ db' = [w \in DOMAIN db' |-> db'[w]]
        /\ \A w \in DOMAIN db' : db'[w] \in Defs /\ db'[w].word = Some(w)
    BY <2>1, <2>2, StoredTyped
  <2>4. TypeOK'
    <3>1. checks + 1 \in 0 .. MaxChecks
      BY <1>1, ChecksAssumption DEF TypeOK, Underway
    <3> QED
      BY <1>1, <2>1, <2>3, <3>1 DEF TypeOK, files
  <2>5. Underway' /\ Clean'
    BY <1>1, <2>1 DEF Underway, Clean, files
  <2>6. ~torn' => Reached(db', origin, checks + 1)
    <3> SUFFICES ASSUME ~torn' PROVE Reached(db', origin, checks + 1)
      OBVIOUS
    <3>1. ~torn /\ pc = "checked"
      BY <1>1, <2>1
    <3>2. Follows(cleaned[1], origin, checks + 1)
      BY <3>1, CheckedNext
    <3>3. origin \in Seq(Defs) /\ checks + 1 \in Nat
      BY ChecksAssumption DEF TypeOK
    <3> QED
      BY <2>2, <2>3, <3>2, <3>3, ReachedIs
  <2>7. Followed'
    BY <1>1, <2>1, <2>6 DEF Followed
  <2> QED
    BY <2>4, <2>5, <2>7
<1> QED
  BY <1>2, <1>3

\* Nothing happens.
LEMMA StutterStep == IInv /\ UNCHANGED vars => IInv'
  BY DEF IInv, TypeOK, Underway, Clean, Followed, vars

(***************************************************************************)
(* The invariant holds of every file, however it is checked and imported.  *)
(***************************************************************************)
THEOREM SourceInvariant == Spec => []IInv
<1>1. IInv /\ [Next]_vars => IInv'
  <2> SUFFICES ASSUME IInv, [Next]_vars PROVE IInv'
    OBVIOUS
  <2>1. CASE Check
    BY <2>1, CheckStep
  <2>2. CASE WriteReport
    BY <2>2, WriteReportStep
  <2>3. CASE WriteCleaned
    BY <2>3, WriteCleanedStep
  <2>4. CASE Kill
    BY <2>4, KillStep
  <2>5. CASE Adopt
    BY <2>5, AdoptStep
  <2>6. CASE Import
    BY <2>6, ImportStep
  <2>7. CASE ImportDirectory
    BY <2>7, ImportDirectoryStep
  <2>8. CASE UNCHANGED vars
    BY <2>8, StutterStep
  <2> QED
    BY <2>1, <2>2, <2>3, <2>4, <2>5, <2>6, <2>7, <2>8 DEF Next
<1> QED
  BY <1>1, InitInvariant, PTL DEF Spec

--------------------------------------------------------------------------------
(* The properties, of every file.                                          *)

(***************************************************************************)
(* The types: in particular every entry of the database is a definition    *)
(* with a word, and is stored under it.                                    *)
(***************************************************************************)
THEOREM SourceTypeOK == Spec => []TypeOK
<1>1. IInv => TypeOK
  BY DEF IInv
<1> QED
  BY <1>1, SourceInvariant, PTL

(***************************************************************************)
(* A check writes, cleaned, exactly the first non-empty definition of      *)
(* every word, in the order of the source, of however many definitions.    *)
(***************************************************************************)
THEOREM SourceCheckKeepsFirst == Spec => []CheckKeepsFirst
<1>1. IInv => CheckKeepsFirst
  <2> SUFFICES ASSUME IInv, pc = "checked"
               PROVE  \E first \in [1 .. Len(cleaned[1]) -> FirstOnes(source)] :
                        /\ \A i, j \in DOMAIN first : i < j => first[i] < first[j]
                        /\ FirstOnes(source) = {first[i] : i \in DOMAIN first}
                        /\ \A i \in DOMAIN first :
                             cleaned[1][i] = Cleanup[source[first[i]]]
    BY DEF CheckKeepsFirst
  <2> DEFINE kept == NonEmptyUnique(source)
             out == cleaned[1]
  <2>1. source \in Seq(Defs) /\ ~Wordless(source) /\ out = CleanAll(kept)
    BY DEF IInv, TypeOK, Underway, Panics, Some, Once
  <2>2. Selected(kept, source, FirstOnes(source))
    BY <2>1, KeepsFirst
  <2>3. PICK at : Selects(at, kept, source, FirstOnes(source))
    BY <2>2 DEF Selected
  <2>4. /\ kept \in Seq(Defs) /\ Len(out) = Len(kept)
        /\ \A i \in 1 .. Len(kept) : out[i] = Cleanup[kept[i]]
    <3>1. kept \in Seq(Defs)
      BY <2>1, KeptAgain
    <3> HIDE DEF kept
    <3> QED
      BY <2>1, <3>1, CleanAllIs
  <2> HIDE DEF kept, out
  <2>5. at \in [1 .. Len(out) -> FirstOnes(source)] /\ DOMAIN at = 1 .. Len(out)
    BY <2>3, <2>4 DEF Selects
  <2>6. \A i, j \in DOMAIN at : i < j => at[i] < at[j]
    BY <2>3, <2>4, <2>5 DEF Selects
  <2>7. FirstOnes(source) = {at[i] : i \in DOMAIN at}
    BY <2>3, <2>4, <2>5 DEF Selects
  <2>8. \A i \in DOMAIN at : out[i] = Cleanup[source[at[i]]]
    BY <2>3, <2>4, <2>5 DEF Selects
  <2> QED
    BY <2>5, <2>6, <2>7, <2>8 DEF out
<1> QED
  BY <1>1, SourceInvariant, PTL

(***************************************************************************)
(* What a check writes of a file that was checked as often as it takes to  *)
(* strip its texts has no empty definition and no word twice, and another  *)
(* check would leave it as it is, whatever the texts and however often     *)
(* checks were killed before.                                              *)
(***************************************************************************)
THEOREM SourceCheckSettles == Spec => []CheckSettles
<1>1. IInv => CheckSettles
  <2> SUFFICES ASSUME IInv, pc = "checked", checks >= Passes
               PROVE  LET defs == cleaned[1] IN
                      /\ ~Wordless(defs)
                      /\ NonEmptyUnique(defs) = defs
                      /\ CleanAll(defs) = defs
    BY DEF CheckSettles
  <2>1. source \in Seq(Defs) /\ ~Wordless(source) /\ cleaned[1] = Once(source)
    BY DEF IInv, TypeOK, Underway, Panics, Some
  <2>2. Fixed(source)
    <3>1. checks \in Nat /\ InImage(source, checks)
      BY ChecksAssumption DEF IInv, TypeOK, Clean
    <3> QED
      BY <2>1, <3>1, ImagesSettle
  <2> QED
    BY <2>1, <2>2, OnceSettles
<1> QED
  BY <1>1, SourceInvariant, PTL

(***************************************************************************)
(* The database has the words of what the checks have kept of the original *)
(* file, cleaned as often, and of every word what was kept last, after any *)
(* number of checks and by whichever way the last output is imported.      *)
(***************************************************************************)
THEOREM SourceWordsReachDb == Spec => []WordsReachDb
<1>1. IInv => WordsReachDb
  <2> SUFFICES ASSUME IInv, pc = "imported", ~torn
               PROVE  WordsReachDb
    BY DEF WordsReachDb
  <2>1. Reached(db, origin, checks)
    BY DEF IInv, Followed
  <2> QED
    BY <2>1 DEF Reached, WordsReachDb
<1> QED
  BY <1>1, SourceInvariant, PTL

(***************************************************************************)
(* The panel draws every text nested in a stored entry by definitions, and *)
(* nothing else, however deep and however repetitive the entry is.         *)
(***************************************************************************)
THEOREM SourceEntryDrawn == Spec => []EntryDrawn
<1>1. IInv => EntryDrawn
  BY RenderDraws DEF IInv, TypeOK, EntryDrawn
<1> QED
  BY <1>1, SourceInvariant, PTL

(***************************************************************************)
(* The heading of an entry is of the last definition to have one.          *)
(***************************************************************************)
THEOREM SourceHeadingOfLast == Spec => []HeadingOfLast
<1>1. IInv => HeadingOfLast
  BY RenderHeads DEF IInv, TypeOK, HeadingOfLast
<1> QED
  BY <1>1, SourceInvariant, PTL

(***************************************************************************)
(* The API's answer has no groups, and the texts of the entry that are     *)
(* reachable by groups where there are any, by definitions elsewhere.      *)
(***************************************************************************)
THEOREM SourceApiNormal == Spec => []ApiNormal
<1>1. IInv => ApiNormal
  BY NormalizeKeepsTexts DEF IInv, TypeOK, ApiNormal
<1> QED
  BY <1>1, SourceInvariant, PTL

(***************************************************************************)
(* A check keeps what the panel would draw of every definition it keeps.   *)
(***************************************************************************)
THEOREM SourceCheckKeepsDrawn == Spec => []CheckKeepsDrawn
<1>1. IInv => CheckKeepsDrawn
  <2> DEFINE kept == NonEmptyUnique(source)
             DrawnOf(d) == TextsOf(Drawn(Render(d)))
  <2> SUFFICES ASSUME IInv, pc = "checked", NEW i \in 1 .. Len(kept)
               PROVE  DrawnOf(cleaned[1][i])
                        = UNION {TextsOf(CleanText(t)) : t \in DrawnOf(kept[i])}
    BY DEF CheckKeepsDrawn
  <2>1. source \in Seq(Defs) /\ ~Panics(source) /\ cleaned[1] = CleanAll(kept)
    BY DEF IInv, TypeOK, Underway, Some, Once
  <2>2. kept \in Seq(Defs)
    BY <2>1, KeptAgain DEF Panics
  <2>3. ~CleanupPanics[kept[i]]
    BY <2>1 DEF Panics, All
  <2> HIDE DEF kept
  <2>4. cleaned[1][i] = Cleanup[kept[i]] /\ kept[i] \in Defs
    BY <2>1, <2>2, CleanAllIs
  <2> QED
    BY <2>3, <2>4, CleanupKeepsDrawn
<1> QED
  BY <1>1, SourceInvariant, PTL

================================================================================
