------------------------------ MODULE MCEntryKeys ------------------------------
(***************************************************************************)
(* Words and names whose bytes can be split in several ways, among them    *)
(* the empty word and bytes that look like a length.                       *)
(***************************************************************************)
EXTENDS EntryKeys

SomeWords == {<<>>, <<97>>, <<97, 98>>, <<98>>, <<0, 0, 0, 1, 97>>}
SomeDicts == {<<97>>, <<98>>, <<98, 97>>}
================================================================================
