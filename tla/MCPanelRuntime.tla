---------------------------- MODULE MCPanelRuntime -----------------------------
(***************************************************************************)
(* Instances of PanelRuntime small enough for TLC.  w1 and w2 are ordinary *)
(* words, w3 is one whose search panics.  The safety instance lets two     *)
(* words repeat and alternate within three texts; the others only need two *)
(* texts, since they are about one text overtaken by something else.       *)
(***************************************************************************)
EXTENDS PanelRuntime, TLC

CONSTANTS w1, w2, w3

AllWords  == {w1, w2, w3}
TwoWords  == {w1, w2}
OneStale  == {w3}
NoneStale == {}

MixedSelections == {w1, w2, "tooLong", "readError", "neverCloses"}

\* One pipe of each kind that the reader treats on its own way.
EachSelection == {w1, w2, "notUtf8", "readError", "neverCloses"}

\* w1 and w2 play the same part in every constant of the safety instance.
WordSymmetry == Permutations(TwoWords)
================================================================================
