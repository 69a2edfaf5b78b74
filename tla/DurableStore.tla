----------------------------- MODULE DurableStore ------------------------------
(***************************************************************************)
(* What the data directory promises of its entries, whoever imports and    *)
(* whatever fails: the keys it knows, and those it will not lose.  The     *)
(* contract behind the flush of import_glob and behind rmdata              *)
(* (offdictd/src/lib.rs), without processes, files or locks.               *)
(***************************************************************************)
CONSTANT Keys   \* the (word, dictionary) pairs
VARIABLES
  known,        \* the keys that have an entry
  sure          \* those that only a reset removes

Init == known = {} /\ sure = {}

\* An import stores an entry; for a known key that is a stutter.
Learn == \E k \in Keys : known' = known \cup {k} /\ UNCHANGED sure

\* An import has finished.
Promise == sure' = known /\ UNCHANGED known

\* Entries that no finished import has seen are lost.
Lose == /\ known' \in SUBSET known
        /\ sure \subseteq known'
        /\ UNCHANGED sure

\* The data directory is removed.
Clear == known' = {} /\ sure' = {}

Next == Learn \/ Promise \/ Lose \/ Clear

Spec == Init /\ [][Next]_<<known, sure>>
================================================================================
