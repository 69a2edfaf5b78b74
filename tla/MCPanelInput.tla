------------------------------ MODULE MCPanelInput -----------------------------
(***************************************************************************)
(* Two letters, so that several keys may be held and a stale letter may    *)
(* come back.  The text an input method commits and the one the user edits *)
(* or pastes may be a letter too; another edit empties the box.            *)
(***************************************************************************)
EXTENDS PanelInput

TwoLetters == {"a", "b"}
TwoCommits == {"ni", "a"}
SomeEdits  == {"", "a", "ab"}
================================================================================
