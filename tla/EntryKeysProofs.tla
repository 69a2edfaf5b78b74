---------------------------- MODULE EntryKeysProofs ----------------------------
(***************************************************************************)
(* The keys of DBKey for every word and name: slice undoes from, so that   *)
(* different entries never share a key; and the order of keys puts the     *)
(* keys of one word side by side, so that a scan that stands on the first  *)
(* key not yet collected ends with exactly the entries of its word.        *)
(***************************************************************************)
EXTENDS EntryKeys, SequenceTheorems, InductionLemmas

(***************************************************************************)
(* Division by 256 leaves a byte and a smaller number.                     *)
(***************************************************************************)
LEMMA DivByte ==
  ASSUME NEW n \in Nat
  PROVE  /\ n \div 256 \in Nat
         /\ n % 256 \in Byte
         /\ n = (n \div 256) * 256 + (n % 256)
  BY SMT DEF Byte

(***************************************************************************)
(* to_be_bytes gives four bytes, which from_be_bytes turns back into the   *)
(* length, for every length of 32 bits.                                    *)
(***************************************************************************)
LEMMA BytesOfLength ==
  ASSUME NEW n \in Nat, Fits(n)
  PROVE  /\ BigEndian(n) \in Seq(Byte)
         /\ Len(BigEndian(n)) = 4
         /\ FromBigEndian(BigEndian(n)) = n
<1> DEFINE t == n \div 256
           r == t \div 256
           q == r \div 256
<1>1. t \in Nat /\ n % 256 \in Byte /\ n = t * 256 + (n % 256)
  BY DivByte
<1>2. r \in Nat /\ t % 256 \in Byte /\ t = r * 256 + (t % 256)
  BY <1>1, DivByte
<1>3. q \in Nat /\ r % 256 \in Byte /\ r = q * 256 + (r % 256)
  BY <1>2, DivByte
<1>4. q % 256 \in Byte /\ q % 256 = q
  <2>1. q < 256
    BY DEF Fits
  <2>2. QED
    BY <1>3, <2>1, SMT DEF Byte
<1>5. BigEndian(n) = <<q % 256, r % 256, t % 256, n % 256>>
  BY DEF BigEndian, Byte1, Byte2, Byte3, Byte4
<1>6. BigEndian(n) \in Seq(Byte) /\ Len(BigEndian(n)) = 4
  <2> HIDE DEF q, r, t
  <2>1. QED
    BY <1>1, <1>2, <1>3, <1>4, <1>5
<1>7. FromBigEndian(BigEndian(n))
        = (((q % 256) * 256 + (r % 256)) * 256 + (t % 256)) * 256 + (n % 256)
  <2> HIDE DEF q, r, t
  <2>1. QED
    BY <1>5 DEF FromBigEndian
<1>8. FromBigEndian(BigEndian(n)) = n
  <2> HIDE DEF q, r, t
  <2>1. r = (q % 256) * 256 + (r % 256)
    BY <1>3, <1>4
  <2>2. t = r * 256 + (t % 256) /\ n = t * 256 + (n % 256)
    BY <1>1, <1>2
  <2>3. QED
    BY <1>7, <2>1, <2>2
<1>9. QED
  BY <1>6, <1>8

(***************************************************************************)
(* A key is the four bytes of the length, the word and the name.           *)
(***************************************************************************)
LEMMA KeyBytes ==
  ASSUME NEW w \in Seq(Byte), NEW d \in Seq(Byte), Fits(Len(w))
  PROVE  LET k == From(w, d) IN
         /\ k \in Seq(Byte) /\ Len(k) = 4 + Len(w) + Len(d)
         /\ \A i \in 1 .. 4 : k[i] = BigEndian(Len(w))[i]
         /\ \A i \in 1 .. Len(w) : k[4 + i] = w[i]
         /\ \A i \in 1 .. Len(d) : k[4 + Len(w) + i] = d[i]
<1> DEFINE b == BigEndian(Len(w))
           k == From(w, d)
<1>1. b \in Seq(Byte) /\ Len(b) = 4 /\ FromBigEndian(b) = Len(w)
  BY BytesOfLength
<1>2. k = b \o w \o d
  BY DEF From
<1> HIDE DEF b, k
<1>3. /\ k \in Seq(Byte) /\ Len(k) = 4 + Len(w) + Len(d)
      /\ \A i \in 1 .. 4 : k[i] = b[i]
      /\ \A i \in 1 .. Len(w) : k[4 + i] = w[i]
      /\ \A i \in 1 .. Len(d) : k[4 + Len(w) + i] = d[i]
  <2> DEFINE bw == b \o w
  <2>1. /\ bw \in Seq(Byte) /\ Len(bw) = Len(b) + Len(w)
        /\ \A i \in 1 .. Len(b) + Len(w) :
             bw[i] = IF i <= Len(b) THEN b[i] ELSE w[i - Len(b)]
    BY <1>1, ConcatProperties
  <2>2. k = bw \o d
    BY <1>2
  <2> HIDE DEF bw
  <2>3. /\ k \in Seq(Byte) /\ Len(k) = Len(bw) + Len(d)
        /\ \A i \in 1 .. Len(bw) + Len(d) :
             k[i] = IF i <= Len(bw) THEN bw[i] ELSE d[i - Len(bw)]
    BY <2>1, <2>2, ConcatProperties
  <2>4. Len(w) \in Nat /\ Len(d) \in Nat /\ Len(bw) = 4 + Len(w)
    BY <1>1, <2>1, LenProperties
  <2>5. ASSUME NEW i \in 1 .. 4 PROVE k[i] = b[i]
    <3>1. i \in 1 .. Len(b) + Len(w) /\ i \in 1 .. Len(bw) + Len(d)
      BY <1>1, <2>4
    <3>2. k[i] = bw[i] /\ bw[i] = b[i]
      BY <1>1, <2>1, <2>3, <2>4, <3>1
    <3>3. QED
      BY <3>2
  <2>6. ASSUME NEW i \in 1 .. Len(w) PROVE k[4 + i] = w[i]
    <3>1. /\ 4 + i \in 1 .. Len(b) + Len(w) /\ 4 + i \in 1 .. Len(bw) + Len(d)
          /\ ~(4 + i <= 4) /\ 4 + i <= Len(bw) /\ 4 + i - 4 = i
      BY <1>1, <2>4
    <3>2. k[4 + i] = bw[4 + i] /\ bw[4 + i] = w[4 + i - 4]
      BY <1>1, <2>1, <2>3, <3>1
    <3>3. QED
      BY <3>1, <3>2
  <2>7. ASSUME NEW i \in 1 .. Len(d) PROVE k[4 + Len(w) + i] = d[i]
    <3> DEFINE n == 4 + Len(w) + i
    <3>1. /\ n \in 1 .. Len(bw) + Len(d)
          /\ ~(n <= Len(bw)) /\ n - Len(bw) = i
      BY <2>4
    <3> HIDE DEF n
    <3>2. k[n] = d[n - Len(bw)]
      BY <2>3, <3>1
    <3>3. QED
      BY <3>1, <3>2 DEF n
  <2>8. QED
    BY <2>3, <2>4, <2>5, <2>6, <2>7
<1>4. QED
  BY <1>3 DEF b, k

(***************************************************************************)
(* DBKey::slice undoes DBKey::from.                                        *)
(***************************************************************************)
LEMMA SliceOfFrom ==
  ASSUME NEW w \in Seq(Byte), NEW d \in Seq(Byte), Fits(Len(w))
  PROVE  WordOf(From(w, d)) = w /\ DictOf(From(w, d)) = d
<1> DEFINE b == BigEndian(Len(w))
           k == From(w, d)
<1>1. b \in Seq(Byte) /\ Len(b) = 4 /\ FromBigEndian(b) = Len(w)
  BY BytesOfLength
<1>2. /\ k \in Seq(Byte) /\ Len(k) = 4 + Len(w) + Len(d)
      /\ \A i \in 1 .. 4 : k[i] = b[i]
      /\ \A i \in 1 .. Len(w) : k[4 + i] = w[i]
      /\ \A i \in 1 .. Len(d) : k[4 + Len(w) + i] = d[i]
  BY KeyBytes
<1> HIDE DEF b, k
<1>3. FromBigEndian(k) = Len(w)
  BY <1>1, <1>2 DEF FromBigEndian
<1>4. Len(w) \in Nat /\ Len(d) \in Nat
  BY LenProperties
<1>5. SubSeq(k, 5, 4 + Len(w)) = w
  <2> DEFINE u == SubSeq(k, 5, 4 + Len(w))
  <2>1. \A i \in 5 .. 4 + Len(w) : k[i] \in Byte
    BY <1>2, <1>4, ElementOfSeq
  <2>2. /\ u \in Seq(Byte)
        /\ Len(u) = IF 5 <= 4 + Len(w) THEN 4 + Len(w) - 5 + 1 ELSE 0
        /\ \A i \in 1 .. 4 + Len(w) - 5 + 1 : u[i] = k[5 + i - 1]
    BY <1>4, <2>1, SubSeqProperties
  <2> HIDE DEF u
  <2>3. Len(u) = Len(w) /\ \A i \in 1 .. Len(u) : u[i] = w[i]
    BY <1>2, <1>4, <2>2
  <2>4. QED
    BY <2>2, <2>3, SeqEqual DEF u
<1>6. SubSeq(k, 5 + Len(w), Len(k)) = d
  <2> DEFINE u == SubSeq(k, 5 + Len(w), Len(k))
  <2>1. \A i \in 5 + Len(w) .. Len(k) : k[i] \in Byte
    BY <1>2, <1>4, ElementOfSeq
  <2>2. /\ u \in Seq(Byte)
        /\ Len(u) = IF 5 + Len(w) <= Len(k) THEN Len(k) - (5 + Len(w)) + 1 ELSE 0
        /\ \A i \in 1 .. Len(k) - (5 + Len(w)) + 1 : u[i] = k[5 + Len(w) + i - 1]
    BY <1>2, <1>4, <2>1, SubSeqProperties
  <2> HIDE DEF u
  <2>3. Len(u) = Len(d)
    BY <1>2, <1>4, <2>2
  <2>4. ASSUME NEW i \in 1 .. Len(d) PROVE u[i] = d[i]
    <3>1. /\ i \in 1 .. Len(k) - (5 + Len(w)) + 1
          /\ 5 + Len(w) + i - 1 = 4 + Len(w) + i
      BY <1>2, <1>4
    <3>2. u[i] = k[4 + Len(w) + i]
      BY <2>2, <3>1
    <3>3. QED
      BY <1>2, <3>2
  <2>5. QED
    BY <2>2, <2>3, <2>4, SeqEqual DEF u
<1>7. QED
  BY <1>3, <1>5, <1>6 DEF k, WordOf, DictOf

(***************************************************************************)
(* Bytes can be compared.                                                  *)
(***************************************************************************)
LEMMA BytesAreNumbers ==
  ASSUME NEW s \in Seq(Byte)
  PROVE  Len(s) \in Nat /\ \A i \in 1 .. Len(s) : s[i] \in Nat
<1>1. \A i \in 1 .. Len(s) : s[i] \in Byte
  BY ElementOfSeq
<1>2. Byte \subseteq Nat
  BY DEF Byte
<1>3. QED
  BY <1>1, <1>2, LenProperties

(***************************************************************************)
(* The bytewise order of keys is a strict total order.                     *)
(***************************************************************************)
LEMMA Irreflexive ==
  ASSUME NEW s \in Seq(Byte)
  PROVE  ~Precedes(s, s)
<1>1. Len(s) \in Nat
  BY LenProperties
<1>2. \A i \in 1 .. Len(s) : s[i] \in Nat
  BY BytesAreNumbers
<1>3. QED
  BY <1>1, <1>2 DEF Precedes

\* The order of keys is transitive.
LEMMA Transitive ==
  ASSUME NEW s \in Seq(Byte), NEW t \in Seq(Byte), NEW u \in Seq(Byte),
         Precedes(s, t), Precedes(t, u)
  PROVE  Precedes(s, u)
<1>1. Len(s) \in Nat /\ Len(t) \in Nat /\ Len(u) \in Nat
  BY LenProperties
<1>2. /\ \A i \in 1 .. Len(s) : s[i] \in Nat
      /\ \A i \in 1 .. Len(t) : t[i] \in Nat
      /\ \A i \in 1 .. Len(u) : u[i] \in Nat
  BY BytesAreNumbers
<1>3. PICK n \in 0 .. Len(s) : /\ n < Len(t)
                               /\ \A i \in 1 .. n : s[i] = t[i]
                               /\ n = Len(s) \/ s[n + 1] < t[n + 1]
  BY DEF Precedes
<1>4. PICK m \in 0 .. Len(t) : /\ m < Len(u)
                               /\ \A i \in 1 .. m : t[i] = u[i]
                               /\ m = Len(t) \/ t[m + 1] < u[m + 1]
  BY DEF Precedes
<1>5. CASE n < m
  <2>1. n < Len(u) /\ \A i \in 1 .. n : s[i] = u[i]
    BY <1>1, <1>3, <1>4, <1>5
  <2>2. t[n + 1] = u[n + 1]
    BY <1>1, <1>3, <1>4, <1>5
  <2>3. QED
    BY <1>3, <2>1, <2>2 DEF Precedes
<1>6. CASE n = m
  <2>1. n < Len(u) /\ \A i \in 1 .. n : s[i] = u[i]
    BY <1>1, <1>3, <1>4, <1>6
  <2>2. n = Len(s) \/ s[n + 1] < u[n + 1]
    <3>1. SUFFICES ASSUME n # Len(s) PROVE s[n + 1] < u[n + 1]
      OBVIOUS
    <3>2. s[n + 1] < t[n + 1] /\ t[n + 1] < u[n + 1]
      BY <1>1, <1>3, <1>4, <1>6, <3>1
    <3>3. /\ n + 1 \in 1 .. Len(s) /\ n + 1 \in 1 .. Len(t) /\ n + 1 \in 1 .. Len(u)
      BY <1>1, <1>3, <2>1, <3>1
    <3>4. QED
      BY <1>2, <3>2, <3>3
  <2>3. QED
    BY <2>1, <2>2 DEF Precedes
<1>7. CASE m < n
  <2>1. m \in 0 .. Len(s) /\ m < Len(t)
    BY <1>1, <1>3, <1>4, <1>7
  <2>2. m < Len(u) /\ \A i \in 1 .. m : s[i] = u[i]
    BY <1>1, <1>3, <1>4, <1>7
  <2>3. s[m + 1] = t[m + 1] /\ t[m + 1] < u[m + 1]
    BY <1>1, <1>3, <1>4, <1>7, <2>1
  <2>4. QED
    BY <2>1, <2>2, <2>3 DEF Precedes
<1>8. QED
  BY <1>1, <1>3, <1>4, <1>5, <1>6, <1>7

\* Of two different keys one precedes the other.
LEMMA Total ==
  ASSUME NEW s \in Seq(Byte), NEW t \in Seq(Byte), s # t
  PROVE  Precedes(s, t) \/ Precedes(t, s)
<1>1. Len(s) \in Nat /\ Len(t) \in Nat
  BY LenProperties
<1>2. /\ \A i \in 1 .. Len(s) : s[i] \in Nat
      /\ \A i \in 1 .. Len(t) : t[i] \in Nat
  BY BytesAreNumbers
<1> DEFINE D == {i \in Nat : i \in 1 .. Len(s) /\ i \in 1 .. Len(t) /\ s[i] # t[i]}
<1>3. CASE D = {}
  <2>1. \A i \in Nat : i \in 1 .. Len(s) /\ i \in 1 .. Len(t) => s[i] = t[i]
    BY <1>3
  <2>2. Len(s) # Len(t)
    <3>1. SUFFICES ASSUME Len(s) = Len(t) PROVE FALSE
      OBVIOUS
    <3>2. \A i \in 1 .. Len(s) : s[i] = t[i]
      BY <1>1, <2>1, <3>1
    <3>3. QED
      BY <3>1, <3>2, SeqEqual
  <2>3. CASE Len(s) < Len(t)
    <3>1. Len(s) \in 0 .. Len(s) /\ \A i \in 1 .. Len(s) : s[i] = t[i]
      BY <1>1, <2>1, <2>3
    <3>2. QED
      BY <2>3, <3>1 DEF Precedes
  <2>4. CASE Len(t) < Len(s)
    <3>1. Len(t) \in 0 .. Len(t) /\ \A i \in 1 .. Len(t) : t[i] = s[i]
      BY <1>1, <2>1, <2>4
    <3>2. QED
      BY <2>4, <3>1 DEF Precedes
  <2>5. QED
    BY <1>1, <2>2, <2>3, <2>4
<1>4. CASE D # {}
  <2>1. PICK m \in D : \A k \in D : m <= k
    BY <1>4, LeastNumber
  <2>2. /\ m \in Nat /\ m \in 1 .. Len(s) /\ m \in 1 .. Len(t) /\ s[m] # t[m]
    BY <2>1
  <2>3. \A i \in 1 .. m - 1 : s[i] = t[i]
    BY <1>1, <2>1, <2>2
  <2>4. /\ m - 1 \in 0 .. Len(s) /\ m - 1 < Len(t)
        /\ m - 1 \in 0 .. Len(t) /\ m - 1 < Len(s) /\ m - 1 + 1 = m
    BY <1>1, <2>2
  <2>5. s[m] < t[m] \/ t[m] < s[m]
    BY <1>2, <2>2
  <2>6. s[m] < t[m] => Precedes(s, t)
    BY <2>3, <2>4 DEF Precedes
  <2>7. t[m] < s[m] => Precedes(t, s)
    BY <2>3, <2>4 DEF Precedes
  <2>8. QED
    BY <2>5, <2>6, <2>7
<1>5. QED
  BY <1>3, <1>4

(***************************************************************************)
(* The iterator's First finds the first of a finite set of keys.           *)
(***************************************************************************)
LEMMA FirstOf ==
  ASSUME NEW K \in SUBSET Seq(Byte), IsFiniteSet(K), K # {}
  PROVE  First(K) \in K /\ \A m \in K : m = First(K) \/ Precedes(First(K), m)
<1> DEFINE Upto(k) == {m \in K : m = k \/ Precedes(m, k)}
           U == {Upto(k) : k \in K}
<1>1. U # {}
  OBVIOUS
<1>2. \A x \in U : IsFiniteSet(x)
  <2>1. \A x \in U : x \in SUBSET K
    OBVIOUS
  <2> HIDE DEF U
  <2>2. QED
    BY <2>1, FS_Subset
<1>3. \E x \in U : \A y \in U : y \subseteq x => y = x
  <2> HIDE DEF U
  <2>1. QED
    BY <1>1, <1>2, MinimalSet
<1>4. PICK k \in K : \A y \in U : y \subseteq Upto(k) => y = Upto(k)
  BY <1>3
<1>5. ASSUME NEW j \in K, Precedes(j, k) PROVE FALSE
  <2>1. Upto(j) \subseteq Upto(k)
    BY <1>5, Transitive
  <2>2. Upto(j) = Upto(k)
    BY <1>4, <2>1
  <2>3. k = j \/ Precedes(k, j)
    BY <2>2
  <2>4. QED
    BY <1>5, <2>3, Irreflexive, Transitive
<1>6. \A m \in K : m = k \/ Precedes(k, m)
  BY <1>5, Total
<1>7. QED
  BY <1>6 DEF First

(***************************************************************************)
(* Stored keys are finitely many sequences of bytes, none of them empty.   *)
(***************************************************************************)
Typed == TypeOK /\ IsFiniteSet(entries)

\* The stored keys are finitely many, and each belongs to an entry.
LEMMA StoredKeys ==
  ASSUME Typed
  PROVE  /\ IsFiniteSet(Stored) /\ Stored \subseteq Seq(Byte) \ {<<>>}
         /\ \A k \in Stored :
              \E w \in Words, d \in Dicts : <<w, d>> \in entries /\ k = From(w, d)
<1>1. \A e \in entries : e = <<e[1], e[2]>> /\ e[1] \in Words /\ e[2] \in Dicts
  BY DEF Typed, TypeOK
<1>2. \A k \in Stored :
        \E w \in Words, d \in Dicts : <<w, d>> \in entries /\ k = From(w, d)
  BY <1>1 DEF Stored
<1>3. ASSUME NEW w \in Words, NEW d \in Dicts
      PROVE  From(w, d) \in Seq(Byte) \ {<<>>}
  <2>1. w \in Seq(Byte) /\ d \in Seq(Byte) /\ Fits(Len(w))
    BY KeysAssumption
  <2>2. From(w, d) \in Seq(Byte) /\ Len(From(w, d)) = 4 + Len(w) + Len(d)
    BY <2>1, KeyBytes
  <2>3. Len(w) \in Nat /\ Len(d) \in Nat
    BY <2>1, LenProperties
  <2>4. Len(From(w, d)) # 0
    BY <2>2, <2>3
  <2>5. QED
    BY <2>2, <2>4, EmptySeq
<1>4. IsFiniteSet(Stored)
  <2> DEFINE f == [e \in entries |-> From(e[1], e[2])]
  <2>1. f \in Surjection(entries, Stored)
    BY DEF Stored, Surjection
  <2>2. QED
    BY <2>1, FS_Surjection DEF Typed
<1>5. QED
  BY <1>2, <1>3, <1>4

(***************************************************************************)
(* Wherever it stands, the iterator finds a stored key or is at the end.   *)
(***************************************************************************)
LEMMA FirstStored ==
  ASSUME Typed, NEW K \in SUBSET Stored
  PROVE  /\ First(K) \in Stored \cup {<<>>}
         /\ K = {} => First(K) = <<>>
         /\ K # {} => First(K) \in K /\ \A m \in K : m = First(K) \/ Precedes(First(K), m)
<1>1. IsFiniteSet(K) /\ K \in SUBSET Seq(Byte)
  BY StoredKeys, FS_Subset
<1>2. CASE K = {}
  BY <1>2 DEF First
<1>3. CASE K # {}
  BY <1>1, <1>3, FirstOf
<1>4. QED
  BY <1>2, <1>3

\* Every step keeps the types, and the entries finite.
LEMMA TypedStep == Typed /\ [Next]_vars => Typed'
<1> SUFFICES ASSUME Typed, [Next]_vars PROVE Typed'
  OBVIOUS
<1>1. ASSUME NEW w \in Words, NEW d \in Dicts, PutEntry(w, d) PROVE Typed'
  <2>1. entries' = entries \/ entries' = entries \cup {<<w, d>>}
    BY <1>1 DEF PutEntry
  <2>2. IsFiniteSet(entries') /\ Stored \subseteq Stored' /\ entries' \subseteq Words \X Dicts
    <3>1. IsFiniteSet(entries')
      BY <2>1, FS_AddElement DEF Typed
    <3>2. Stored \subseteq Stored' /\ entries' \subseteq Words \X Dicts
      BY <2>1 DEF Typed, TypeOK, Stored
    <3>3. QED
      BY <3>1, <3>2
  <2>3. pc' \in {"idle", "scanning", "done", "panicked"}
    BY <1>1 DEF PutEntry, Typed, TypeOK
  <2>4. QED
    BY <1>1, <2>2, <2>3 DEF PutEntry, Typed, TypeOK
<1>2. ASSUME NEW w \in Words, Retrieve(w) PROVE Typed'
  <2> DEFINE K == {k \in Stored : k = From(w, <<>>) \/ Precedes(From(w, <<>>), k)}
  <2>1. cursor' = cursor \/ cursor' = First(K)
    BY <1>2 DEF Retrieve
  <2>2. K \in SUBSET Stored
    OBVIOUS
  <2> HIDE DEF K
  <2>3. First(K) \in Stored \cup {<<>>}
    BY <2>2, FirstStored
  <2>4. cursor' \in Stored \cup {<<>>}
    BY <2>1, <2>3 DEF Typed, TypeOK
  <2>5. Stored' = Stored /\ entries' = entries /\ debug' = debug
        /\ asked' = w /\ items' = {} /\ pc' \in {"panicked", "scanning"}
    BY <1>2 DEF Retrieve, Stored
  <2>6. QED
    BY <2>4, <2>5 DEF Typed, TypeOK
<1>3. CASE Take
  <2> DEFINE K == {k \in Stored : Precedes(cursor, k)}
  <2>1. /\ cursor' = First(K) /\ items' = items \cup {DictOf(cursor)} /\ cursor # <<>>
        /\ UNCHANGED <<debug, entries, pc, asked>>
    BY <1>3 DEF Take, Valid
  <2>2. K \in SUBSET Stored
    OBVIOUS
  <2> HIDE DEF K
  <2>3. First(K) \in Stored \cup {<<>>}
    BY <2>2, FirstStored
  <2>4. PICK w \in Words, d \in Dicts : cursor = From(w, d)
    BY <2>1, StoredKeys DEF Typed, TypeOK
  <2>5. DictOf(cursor) \in Dicts
    BY <2>4, SliceOfFrom, KeysAssumption
  <2>6. Stored' = Stored
    BY <2>1 DEF Stored
  <2>7. QED
    BY <2>1, <2>3, <2>5, <2>6 DEF Typed, TypeOK
<1>4. CASE EndScan
  BY <1>4 DEF EndScan, Typed, TypeOK, Stored
<1>5. CASE Return
  BY <1>5 DEF Return, Typed, TypeOK, Stored
<1>6. CASE UNCHANGED vars
  BY <1>6 DEF vars, Typed, TypeOK, Stored
<1>7. QED
  BY <1>1, <1>2, <1>3, <1>4, <1>5, <1>6 DEF Next

(***************************************************************************)
(* The entries and the iterator keep their types, for all words and names. *)
(***************************************************************************)
THEOREM TypeCorrect == Spec => []TypeOK
<1>1. Init => Typed
  BY FS_EmptySet DEF Init, Typed, TypeOK
<1>2. Typed => TypeOK
  BY DEF Typed
<1>3. QED
  BY <1>1, <1>2, TypedStep, PTL DEF Spec

(***************************************************************************)
(* Where a scan stands: past the word's own prefix, with the dictionaries  *)
(* of the keys it has passed.                                              *)
(***************************************************************************)
Passed(k) == cursor = <<>> \/ Precedes(k, cursor)

Scanning ==
  /\ pc \in {"scanning", "done"} => asked \in Words
  /\ pc = "scanning" =>
       /\ cursor # <<>> => \/ cursor = From(asked, <<>>)
                           \/ Precedes(From(asked, <<>>), cursor)
       /\ items = {d \in Dicts : <<asked, d>> \in entries /\ Passed(From(asked, d))}

(***************************************************************************)
(* The keys of a word follow its prefix.                                   *)
(***************************************************************************)
LEMMA PrefixFirst ==
  ASSUME NEW w \in Words, NEW d \in Dicts
  PROVE  From(w, d) = From(w, <<>>) \/ Precedes(From(w, <<>>), From(w, d))
<1> DEFINE P == From(w, <<>>)
           k == From(w, d)
<1>1. w \in Seq(Byte) /\ d \in Seq(Byte) /\ <<>> \in Seq(Byte) /\ Fits(Len(w))
  BY KeysAssumption
<1>2. Len(w) \in Nat /\ Len(d) \in Nat /\ Len(<<>>) = 0
  BY <1>1, LenProperties
<1>3. /\ P \in Seq(Byte) /\ Len(P) = 4 + Len(w)
      /\ \A i \in 1 .. 4 : P[i] = BigEndian(Len(w))[i]
      /\ \A i \in 1 .. Len(w) : P[4 + i] = w[i]
  <2>1. /\ P \in Seq(Byte) /\ Len(P) = 4 + Len(w) + Len(<<>>)
        /\ \A i \in 1 .. 4 : P[i] = BigEndian(Len(w))[i]
        /\ \A i \in 1 .. Len(w) : P[4 + i] = w[i]
    BY <1>1, KeyBytes
  <2> HIDE DEF P
  <2>2. QED
    BY <1>2, <2>1
<1>4. /\ k \in Seq(Byte) /\ Len(k) = 4 + Len(w) + Len(d)
      /\ \A i \in 1 .. 4 : k[i] = BigEndian(Len(w))[i]
      /\ \A i \in 1 .. Len(w) : k[4 + i] = w[i]
  BY <1>1, KeyBytes
<1> HIDE DEF P, k
<1>5. \A i \in 1 .. Len(P) : P[i] = k[i]
  <2> SUFFICES ASSUME NEW i \in 1 .. Len(P) PROVE P[i] = k[i]
    OBVIOUS
  <2>1. CASE i \in 1 .. 4
    BY <1>3, <1>4, <2>1
  <2>2. CASE i \notin 1 .. 4
    <3>1. i - 4 \in 1 .. Len(w) /\ 4 + (i - 4) = i
      BY <1>2, <1>3, <2>2
    <3>2. QED
      BY <1>3, <1>4, <3>1, ZenonT(60)
  <2>3. QED
    BY <2>1, <2>2
<1>6. CASE Len(d) = 0
  BY <1>2, <1>3, <1>4, <1>5, <1>6, SeqEqual DEF P, k
<1>7. CASE Len(d) # 0
  <2>1. Len(P) < Len(k) /\ Len(P) \in 0 .. Len(P)
    BY <1>2, <1>3, <1>4, <1>7
  <2>2. QED
    BY <1>5, <2>1 DEF Precedes, P, k
<1>8. QED
  BY <1>6, <1>7

(***************************************************************************)
(* Another word's key that follows a word's prefix follows all its keys.   *)
(***************************************************************************)
LEMMA OthersLater ==
  ASSUME NEW w \in Words, NEW d \in Dicts, NEW v \in Words, NEW e \in Dicts,
         v # w, Precedes(From(w, <<>>), From(v, e))
  PROVE  Precedes(From(w, d), From(v, e))
<1> DEFINE P == From(w, <<>>)
           k == From(w, d)
           c == From(v, e)
<1>1. /\ w \in Seq(Byte) /\ d \in Seq(Byte) /\ <<>> \in Seq(Byte) /\ Fits(Len(w))
      /\ v \in Seq(Byte) /\ e \in Seq(Byte) /\ Fits(Len(v))
  BY KeysAssumption
<1>2. Len(w) \in Nat /\ Len(d) \in Nat /\ Len(<<>>) = 0 /\ Len(v) \in Nat /\ Len(e) \in Nat
  BY <1>1, LenProperties
<1>3. /\ P \in Seq(Byte) /\ Len(P) = 4 + Len(w) + Len(<<>>)
      /\ \A i \in 1 .. 4 : P[i] = BigEndian(Len(w))[i]
      /\ \A i \in 1 .. Len(w) : P[4 + i] = w[i]
  BY <1>1, KeyBytes
<1>4. /\ k \in Seq(Byte) /\ Len(k) = 4 + Len(w) + Len(d)
      /\ \A i \in 1 .. 4 : k[i] = BigEndian(Len(w))[i]
      /\ \A i \in 1 .. Len(w) : k[4 + i] = w[i]
  BY <1>1, KeyBytes
<1>5. /\ c \in Seq(Byte) /\ Len(c) = 4 + Len(v) + Len(e)
      /\ \A i \in 1 .. 4 : c[i] = BigEndian(Len(v))[i]
      /\ \A i \in 1 .. Len(v) : c[4 + i] = v[i]
  BY <1>1, KeyBytes
<1>6. PICK n \in 0 .. Len(P) : /\ n < Len(c)
                               /\ \A i \in 1 .. n : P[i] = c[i]
                               /\ n = Len(P) \/ P[n + 1] < c[n + 1]
  BY DEF Precedes
<1> HIDE DEF P, k, c
<1>7. ASSUME NEW i \in 1 .. 4 + Len(w) PROVE P[i] = k[i]
  <2>1. CASE i \in 1 .. 4
    BY <1>3, <1>4, <2>1
  <2>2. CASE i \notin 1 .. 4
    <3>1. i - 4 \in 1 .. Len(w) /\ 4 + (i - 4) = i
      BY <1>2, <2>2
    <3>2. QED
      BY <1>3, <1>4, <3>1, ZenonT(60)
  <2>3. QED
    BY <2>1, <2>2
<1>8. n # Len(P)
  <2>1. SUFFICES ASSUME n = Len(P) PROVE FALSE
    OBVIOUS
  <2>2. n = 4 + Len(w)
    BY <1>2, <1>3, <2>1
  <2>3. ASSUME NEW i \in 1 .. 4 PROVE BigEndian(Len(w))[i] = BigEndian(Len(v))[i]
    <3>1. i \in 1 .. n
      BY <1>2, <2>2
    <3>2. QED
      BY <1>3, <1>5, <1>6, <3>1
  <2>4. FromBigEndian(BigEndian(Len(w))) = FromBigEndian(BigEndian(Len(v)))
    <3> DEFINE bw == BigEndian(Len(w))
               bv == BigEndian(Len(v))
    <3>1. bw[1] = bv[1] /\ bw[2] = bv[2] /\ bw[3] = bv[3] /\ bw[4] = bv[4]
      BY <2>3
    <3> HIDE DEF bw, bv
    <3>2. FromBigEndian(bw) = FromBigEndian(bv)
      BY <3>1 DEF FromBigEndian
    <3>3. QED
      BY <3>2 DEF bw, bv
  <2>5. Len(w) = Len(v)
    BY <1>1, <1>2, <2>4, BytesOfLength
  <2>6. \A i \in 1 .. Len(w) : w[i] = v[i]
    <3>1. SUFFICES ASSUME NEW i \in 1 .. Len(w) PROVE w[i] = v[i]
      OBVIOUS
    <3>2. 4 + i \in 1 .. n
      BY <1>2, <2>2
    <3>3. P[4 + i] = c[4 + i] /\ P[4 + i] = w[i] /\ c[4 + i] = v[i]
      BY <1>3, <1>5, <1>6, <2>5, <3>2
    <3>4. QED
      BY <3>3
  <2>7. QED
    BY <1>1, <2>5, <2>6, SeqEqual
<1>9. /\ n \in 0 .. Len(k) /\ n + 1 \in 1 .. 4 + Len(w)
      /\ \A i \in 1 .. n : i \in 1 .. 4 + Len(w)
  BY <1>2, <1>3, <1>4, <1>6, <1>8
<1>10. (\A i \in 1 .. n : k[i] = c[i]) /\ k[n + 1] < c[n + 1]
  BY <1>6, <1>7, <1>8, <1>9
<1>11. QED
  BY <1>6, <1>9, <1>10 DEF Precedes, k, c

(***************************************************************************)
(* A scan keeps to what it has passed.                                     *)
(***************************************************************************)
LEMMA ScanningStep ==
  Typed /\ Scanning /\ ScanExact /\ [Next]_vars => (Scanning /\ ScanExact)'
<1> SUFFICES ASSUME Typed, Scanning, ScanExact, [Next]_vars
             PROVE  Scanning' /\ ScanExact'
  OBVIOUS
<1>1. ASSUME NEW w \in Words, NEW d \in Dicts, PutEntry(w, d)
      PROVE  Scanning' /\ ScanExact'
  BY <1>1 DEF PutEntry, Scanning, ScanExact
<1>2. ASSUME NEW w \in Words, Retrieve(w) PROVE Scanning' /\ ScanExact'
  <2> DEFINE P == From(w, <<>>)
             K == {k \in Stored : k = P \/ Precedes(P, k)}
  <2>1. CASE pc' = "panicked"
    BY <1>2, <2>1 DEF Scanning, ScanExact
  <2>2. CASE pc' # "panicked"
    <3>1. /\ pc' = "scanning" /\ asked' = w /\ items' = {} /\ entries' = entries
          /\ cursor' = First(K)
      BY <1>2, <2>2 DEF Retrieve
    <3>2. K \in SUBSET Stored
      OBVIOUS
    <3>3. \A d \in Dicts : <<w, d>> \in entries => From(w, d) \in K
      BY PrefixFirst DEF Stored
    <3>4. \A k \in K : k = P \/ Precedes(P, k)
      OBVIOUS
    <3> HIDE DEF K
    <3>5. /\ K = {} => First(K) = <<>>
          /\ K # {} => First(K) \in K /\ \A m \in K : m = First(K) \/ Precedes(First(K), m)
      BY <3>2, FirstStored
    <3>6. cursor' # <<>> => cursor' = P \/ Precedes(P, cursor')
      BY <3>1, <3>4, <3>5
    <3>7. ASSUME NEW d \in Dicts, <<w, d>> \in entries
          PROVE  cursor' # <<>> /\ ~Precedes(From(w, d), cursor')
      <4>1. From(w, d) \in K
        BY <3>3, <3>7
      <4>2. cursor' \in K /\ (From(w, d) = cursor' \/ Precedes(cursor', From(w, d)))
        BY <3>1, <3>5, <4>1
      <4>3. cursor' \in Seq(Byte) \ {<<>>} /\ From(w, d) \in Seq(Byte)
        BY <3>2, <4>1, <4>2, StoredKeys
      <4>4. QED
        BY <4>2, <4>3, Irreflexive, Transitive
    <3>8. items' = {d \in Dicts : <<w, d>> \in entries /\ Passed(From(w, d))'}
      BY <3>1, <3>7 DEF Passed
    <3>9. Scanning'
      BY <3>1, <3>6, <3>8 DEF Scanning, Passed
    <3>10. QED
      BY <3>1, <3>9 DEF ScanExact
  <2>3. QED
    BY <2>1, <2>2
<1>3. CASE Take
  <2> DEFINE K == {k \in Stored : Precedes(cursor, k)}
  <2>1. /\ pc = "scanning" /\ cursor # <<>> /\ WordOf(cursor) = asked
        /\ cursor' = First(K) /\ items' = items \cup {DictOf(cursor)}
        /\ UNCHANGED <<debug, entries, pc, asked>>
    BY <1>3 DEF Take, Valid, SamePrefix
  <2>2. K \in SUBSET Stored /\ \A k \in Stored : k \in K <=> Precedes(cursor, k)
    OBVIOUS
  <2> HIDE DEF K
  <2>3. /\ K = {} => First(K) = <<>>
        /\ K # {} => First(K) \in K /\ \A m \in K : m = First(K) \/ Precedes(First(K), m)
    BY <2>2, FirstStored
  <2>4. cursor \in Stored /\ asked \in Words
    BY <2>1 DEF Typed, TypeOK, Scanning
  <2>5. PICK v \in Words, e \in Dicts : <<v, e>> \in entries /\ cursor = From(v, e)
    BY <2>4, StoredKeys
  <2>6. v = asked /\ DictOf(cursor) = e
    BY <2>1, <2>5, SliceOfFrom, KeysAssumption
  <2>7. cursor' # <<>> => cursor' \in Stored /\ Precedes(cursor, cursor')
    BY <2>1, <2>2, <2>3
  <2>8. ASSUME NEW k \in Stored
        PROVE  (cursor' = <<>> \/ Precedes(k, cursor')) <=> k = cursor \/ Precedes(k, cursor)
    <3>1. k \in Seq(Byte) /\ cursor \in Seq(Byte)
      BY <2>4, StoredKeys
    <3>2. CASE Precedes(cursor, k)
      <4>1. k \in K
        BY <2>2, <3>2
      <4>2. cursor' \in K /\ (k = cursor' \/ Precedes(cursor', k))
        BY <2>1, <2>3, <4>1
      <4>3. cursor' \in Seq(Byte) \ {<<>>}
        BY <2>2, <4>2, StoredKeys
      <4>4. ~(cursor' = <<>> \/ Precedes(k, cursor'))
        BY <3>1, <4>2, <4>3, Irreflexive, Transitive
      <4>5. ~(k = cursor \/ Precedes(k, cursor))
        BY <3>1, <3>2, Irreflexive, Transitive
      <4>6. QED
        BY <4>4, <4>5
    <3>3. CASE ~Precedes(cursor, k)
      <4>1. k = cursor \/ Precedes(k, cursor)
        BY <3>1, <3>3, Total
      <4>2. cursor' # <<>> => Precedes(k, cursor')
        <5>1. SUFFICES ASSUME cursor' # <<>> PROVE Precedes(k, cursor')
          OBVIOUS
        <5>2. cursor' \in Seq(Byte) /\ Precedes(cursor, cursor')
          BY <2>7, <5>1, StoredKeys
        <5>3. QED
          BY <3>1, <4>1, <5>2, Transitive
      <4>3. QED
        BY <4>1, <4>2
    <3>4. QED
      BY <3>2, <3>3
  <2>9. ASSUME NEW d \in Dicts, <<asked, d>> \in entries
        PROVE  /\ From(asked, d) \in Stored
               /\ From(asked, d) = cursor <=> d = e
    <3>1. From(asked, d) \in Stored
      BY <2>9 DEF Stored
    <3>2. DictOf(From(asked, d)) = d
      BY <2>4, SliceOfFrom, KeysAssumption
    <3>3. QED
      BY <2>5, <2>6, <3>1, <3>2
  <2>10. items = {d \in Dicts : <<asked, d>> \in entries /\ Passed(From(asked, d))}
    BY <2>1 DEF Scanning
  <2>11. \A d \in Dicts :
           d \in items' <=> <<asked, d>> \in entries
                            /\ (cursor' = <<>> \/ Precedes(From(asked, d), cursor'))
    BY <2>1, <2>5, <2>6, <2>8, <2>9, <2>10 DEF Passed
  <2>12. items' \subseteq Dicts
    BY TypedStep DEF Typed, TypeOK
  <2>13. items' = {d \in Dicts : <<asked, d>> \in entries /\ Passed(From(asked, d))'}
    BY <2>1, <2>11, <2>12 DEF Passed
  <2>14. cursor' # <<>> => \/ cursor' = From(asked, <<>>)
                           \/ Precedes(From(asked, <<>>), cursor')
    <3>1. SUFFICES ASSUME cursor' # <<>> PROVE Precedes(From(asked, <<>>), cursor')
      OBVIOUS
    <3>2. cursor = From(asked, <<>>) \/ Precedes(From(asked, <<>>), cursor)
      BY <2>1 DEF Scanning
    <3>3. /\ cursor' \in Seq(Byte) /\ cursor \in Seq(Byte) /\ From(asked, <<>>) \in Seq(Byte)
      <4>1. asked \in Seq(Byte) /\ <<>> \in Seq(Byte) /\ Fits(Len(asked))
        BY <2>4, KeysAssumption
      <4>2. From(asked, <<>>) \in Seq(Byte)
        BY <4>1, KeyBytes
      <4>3. QED
        BY <2>4, <2>7, <3>1, <4>2, StoredKeys
    <3>4. QED
      BY <2>7, <3>1, <3>2, <3>3, Transitive
  <2>15. Scanning'
    BY <2>1, <2>4, <2>13, <2>14 DEF Scanning, Passed
  <2>16. QED
    BY <2>1, <2>15 DEF ScanExact
<1>4. CASE EndScan
  <2>1. /\ pc = "scanning" /\ pc' = "done" /\ (cursor = <<>> \/ WordOf(cursor) # asked)
        /\ UNCHANGED <<debug, entries, asked, cursor, items>>
    BY <1>4 DEF EndScan, Valid, SamePrefix
  <2>2. asked \in Words /\ items = {d \in Dicts : <<asked, d>> \in entries /\ Passed(From(asked, d))}
    BY <2>1 DEF Scanning
  <2>3. ASSUME NEW d \in Dicts, cursor # <<>> PROVE Precedes(From(asked, d), cursor)
    <3>1. PICK v \in Words, e \in Dicts : cursor = From(v, e)
      BY <2>3, StoredKeys DEF Typed, TypeOK
    <3>2. v # asked
      BY <2>1, <2>3, <3>1, SliceOfFrom, KeysAssumption
    <3>3. cursor # From(asked, <<>>)
      <4>1. asked \in Seq(Byte) /\ <<>> \in Seq(Byte) /\ Fits(Len(asked))
        BY <2>2, KeysAssumption
      <4>2. WordOf(From(asked, <<>>)) = asked
        BY <4>1, SliceOfFrom
      <4>3. QED
        BY <2>1, <2>3, <4>2
    <3>4. Precedes(From(asked, <<>>), cursor)
      BY <2>1, <2>3, <3>3 DEF Scanning
    <3>5. QED
      BY <2>2, <3>1, <3>2, <3>4, OthersLater
  <2>4. items = {d \in Dicts : <<asked, d>> \in entries}
    BY <2>2, <2>3 DEF Passed
  <2>5. QED
    BY <2>1, <2>2, <2>4 DEF Scanning, ScanExact
<1>5. CASE Return
  BY <1>5 DEF Return, Scanning, ScanExact
<1>6. CASE UNCHANGED vars
  BY <1>6 DEF vars, Scanning, ScanExact, Passed
<1>7. QED
  BY <1>1, <1>2, <1>3, <1>4, <1>5, <1>6 DEF Next

(***************************************************************************)
(* A scan is exact whatever the words, the names and the entries: it finds *)
(* every dictionary that defines the word and nothing of another word.     *)
(***************************************************************************)
THEOREM ScansAreExact == Spec => []ScanExact
<1>1. Init => Typed /\ Scanning /\ ScanExact
  BY FS_EmptySet DEF Init, Typed, TypeOK, Scanning, ScanExact
<1>2. QED
  BY <1>1, TypedStep, ScanningStep, PTL DEF Spec

(***************************************************************************)
(* No two entries share a key, whatever bytes their words and names have.  *)
(***************************************************************************)
THEOREM EntriesKeepApart == Spec => []KeysDiffer
<1>1. entries \subseteq Words \X Dicts => KeysDiffer
  <2> SUFFICES ASSUME entries \subseteq Words \X Dicts,
                      NEW e \in entries, NEW f \in entries,
                      From(e[1], e[2]) = From(f[1], f[2])
               PROVE  e = f
    BY DEF KeysDiffer
  <2>1. /\ e = <<e[1], e[2]>> /\ e[1] \in Words /\ e[2] \in Dicts
        /\ f = <<f[1], f[2]>> /\ f[1] \in Words /\ f[2] \in Dicts
    OBVIOUS
  <2>2. WordOf(From(e[1], e[2])) = e[1] /\ DictOf(From(e[1], e[2])) = e[2]
    BY <2>1, SliceOfFrom, KeysAssumption
  <2>3. WordOf(From(f[1], f[2])) = f[1] /\ DictOf(From(f[1], f[2])) = f[2]
    BY <2>1, SliceOfFrom, KeysAssumption
  <2>4. QED
    BY <2>1, <2>2, <2>3
<1>2. TypeOK => entries \subseteq Words \X Dicts
  BY DEF TypeOK
<1>3. QED
  BY <1>1, <1>2, TypeCorrect, PTL
================================================================================
