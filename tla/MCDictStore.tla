------------------------------ MODULE MCDictStore ------------------------------
(***************************************************************************)
(* Two words, one dictionary whose source is split over two files that     *)
(* define a word twice, a file that does not parse and one without a name. *)
(***************************************************************************)
EXTENDS DictStore, TLC

CONSTANTS a, b, d, p1, p2

TwoWords == {a, b}
OneDict  == {d}
AllFiles == {"d.1.yaml", "d.2.yaml", "bad.1.yaml", "plain.yaml"}

Names == [f \in AllFiles |-> IF f = "plain.yaml" THEN NoName ELSE d]

Defs == [f \in AllFiles |->
           CASE f = "d.1.yaml" -> <<<<a, 1>>, <<b, 1>>>>
             [] f = "d.2.yaml" -> <<<<a, 2>>>>
             [] f = "plain.yaml" -> <<<<b, 2>>>>
             [] OTHER -> <<>>]

Bad == {"bad.1.yaml"}

ThreeGlobs == {<<"d.1.yaml", "d.2.yaml">>, <<"d.2.yaml", "bad.1.yaml">>,
               <<"d.2.yaml", "plain.yaml">>}

TwoProcs == {p1, p2}
ProcSymmetry == Permutations(TwoProcs)
================================================================================
