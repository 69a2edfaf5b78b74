------------------------------- MODULE EntryKeys -------------------------------
(***************************************************************************)
(* The database key of an entry and the scan that reads the entries of a   *)
(* word: DBKey (offdictd/src/def_bin.rs), retrieve and the prefix extractor *)
(* of open_db (offdictd/src/lib.rs).  A key is the length of the word in   *)
(* four bytes, big end first, the word and the dictionary's name.  RocksDB *)
(* is external: it orders keys by their bytes, and the iterator of         *)
(* retrieve seeks its argument and stops where the prefix changes.         *)
(***************************************************************************)
EXTENDS Integers, Sequences, FiniteSets

CONSTANTS
  Words, Dicts,   \* sequences of bytes
  MaxEntries      \* bound: entries stored in a behaviour

Byte == 0 .. 255

\* The bytes of a number, the last one first.
Byte1(n) == n % 256
Byte2(n) == (n \div 256) % 256
Byte3(n) == ((n \div 256) \div 256) % 256
Byte4(n) == (((n \div 256) \div 256) \div 256) % 256

\* The length of a word is cast to 32 bits.
Fits(n) == ((n \div 256) \div 256) \div 256 < 256

ASSUME KeysAssumption ==
  /\ Words \subseteq Seq(Byte) /\ Dicts \subseteq Seq(Byte)
  /\ \A w \in Words : Fits(Len(w))
  /\ MaxEntries \in Nat

VARIABLES
  debug,      \* whether debug_assert is compiled in
  entries,    \* the <<word, dictionary>> pairs stored
  pc,         \* "idle", "scanning", "done" or "panicked"
  asked,      \* the word being retrieved
  cursor,     \* the key the iterator stands on, or <<>> past the last one
  items       \* the dictionaries collected

vars == <<debug, entries, pc, asked, cursor, items>>

--------------------------------------------------------------------------------
(* DBKey.                                                                  *)

\* to_be_bytes and from_be_bytes of a length.
BigEndian(n) == <<Byte4(n), Byte3(n), Byte2(n), Byte1(n)>>
FromBigEndian(b) == ((b[1] * 256 + b[2]) * 256 + b[3]) * 256 + b[4]

\* Mutant: the word is not delimited.
From_NoLength(word, dict) == BigEndian(0) \o word \o dict

From(word, dict) == BigEndian(Len(word)) \o word \o dict

WordOf(key) == SubSeq(key, 5, 4 + FromBigEndian(key))
\* Mutant: the name is cut by a byte.
DictOf_Cut(key) == SubSeq(key, 6 + FromBigEndian(key), Len(key))

DictOf(key) == SubSeq(key, 5 + FromBigEndian(key), Len(key))

\* debug_assert!(v.len() > 4)
AssertFails(key) == debug /\ Len(key) <= 4

--------------------------------------------------------------------------------
(* RocksDB: the order of keys and the iterator.                            *)

Precedes(s, t) ==
  \E n \in 0 .. Len(s) :
    /\ n < Len(t)
    /\ \A i \in 1 .. n : s[i] = t[i]
    /\ n = Len(s) \/ s[n + 1] < t[n + 1]

Stored == {From(e[1], e[2]) : e \in entries}

\* The first of a set of keys, <<>> if there is none.
First(keys) ==
  IF keys = {} THEN <<>>
  ELSE CHOOSE k \in keys : \A m \in keys : m = k \/ Precedes(k, m)

\* Mutant: the iterator runs to the end of the database.
SamePrefix_Total(key) == TRUE

\* The extractor gives the word of a key.
SamePrefix(key) == WordOf(key) = asked

--------------------------------------------------------------------------------
Init == /\ debug \in BOOLEAN
        /\ entries = {}
        /\ pc = "idle"
        /\ asked = <<>> /\ cursor = <<>> /\ items = {}

\* The put of an import.
PutEntry(w, d) ==
  /\ pc = "idle"
  /\ Cardinality(entries) < MaxEntries
  /\ IF AssertFails(From(w, d))
       THEN /\ pc' = "panicked"
            /\ UNCHANGED entries
       ELSE /\ entries' = entries \cup {<<w, d>>}
            /\ UNCHANGED pc
  /\ UNCHANGED <<debug, asked, cursor, items>>

\* The iterator is valid on a key of the prefix it was made for.
Valid(key) == key # <<>> /\ SamePrefix(key)

Retrieve(w) ==
  /\ pc = "idle"
  /\ asked' = w /\ items' = {}
  /\ LET from == From(w, <<>>) IN
       IF AssertFails(from)
         THEN /\ pc' = "panicked"
              /\ UNCHANGED cursor
         ELSE /\ pc' = "scanning"
              /\ cursor' = First({k \in Stored : k = from \/ Precedes(from, k)})
  /\ UNCHANGED <<debug, entries>>

Take ==
  /\ pc = "scanning" /\ Valid(cursor)
  /\ items' = items \cup {DictOf(cursor)}
  /\ cursor' = First({k \in Stored : Precedes(cursor, k)})
  /\ UNCHANGED <<debug, entries, pc, asked>>

EndScan ==
  /\ pc = "scanning" /\ ~Valid(cursor)
  /\ pc' = "done"
  /\ UNCHANGED <<debug, entries, asked, cursor, items>>

\* The caller has its result; the next import or retrieval may begin.
Return == /\ pc = "done"
          /\ pc' = "idle"
          /\ UNCHANGED <<debug, entries, asked, cursor, items>>

Next == \/ \E w \in Words, d \in Dicts : PutEntry(w, d)
        \/ \E w \in Words : Retrieve(w)
        \/ Take \/ EndScan \/ Return

Spec == Init /\ [][Next]_vars

--------------------------------------------------------------------------------
TypeOK ==
  /\ debug \in BOOLEAN
  /\ entries \subseteq Words \X Dicts
  /\ pc \in {"idle", "scanning", "done", "panicked"}
  /\ asked \in Words \cup {<<>>}
  /\ cursor \in Stored \cup {<<>>}
  /\ items \subseteq Dicts

(***************************************************************************)
(* A finished scan has collected the dictionaries that define the word,    *)
(* all of them and no other: no word's entries run into those of a longer  *)
(* word or of another split of the same bytes (lib.rs:241, def_bin.rs:28). *)
(***************************************************************************)
ScanExact ==
  pc = "done" => items = {d \in Dicts : <<asked, d>> \in entries}

(***************************************************************************)
(* Different entries have different keys, so that no put replaces another  *)
(* word's or dictionary's definition (lib.rs:330).                         *)
(***************************************************************************)
KeysDiffer ==
  \A e, f \in entries : From(e[1], e[2]) = From(f[1], f[2]) => e = f
================================================================================
