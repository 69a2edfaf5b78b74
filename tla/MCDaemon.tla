-------------------------------- MODULE MCDaemon -------------------------------
(***************************************************************************)
(* Lines that a chunk holds two of and that a chunk cuts: "a", an empty    *)
(* line, "ab" and an unfinished "c".  The text "b", the end of "ab", finds *)
(* a stale word, and "c" panics the index.                                 *)
(***************************************************************************)
EXTENDS Daemon

CONSTANTS a, b, c, nl, r1, r2, r3, NotUtf8

ThreeLetters == {a, b, c}
Lines == <<a, nl, nl, a, b, nl, c>>
ThreeRequests == {r1, r2, r3}
Routes == [r \in ThreeRequests |-> IF r = r3 THEN "set" ELSE "q"]
Queries == [r \in ThreeRequests |-> CASE r = r1 -> <<b>> [] r = r2 -> <<a>>
                                      [] OTHER -> NotUtf8]
StaleTexts == {<<b>>}
CrashTexts == {<<c>>}
================================================================================
