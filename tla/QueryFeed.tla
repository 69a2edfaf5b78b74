------------------------------- MODULE QueryFeed -------------------------------
(***************************************************************************)
(* What the panel promises about the texts it is asked to look up, without *)
(* tasks, channels, gestures or windows.  Texts form a log.  A reader of   *)
(* the log disposes of them strictly in order: it either publishes the     *)
(* answer to the next text, or passes over it, which it may do only while  *)
(* no dictionary is open or when the published answer is already the       *)
(* answer to the same text.  So an answer is never replaced by the answer  *)
(* to an older text, and nothing asked of an open dictionary is forgotten. *)
(***************************************************************************)
EXTENDS Naturals, Sequences

CONSTANT Words          \* the texts that can be asked

VARIABLES log,          \* every text asked so far, oldest first
          done,         \* how many of them have been disposed of
          answer,       \* the position whose answer is published, 0 for none
          open          \* whether a dictionary is open

feedVars == <<log, done, answer, open>>

Init == /\ log = <<>>
        /\ done = 0
        /\ answer = 0
        /\ open = FALSE

Open == /\ ~open
        /\ open' = TRUE
        /\ UNCHANGED <<log, done, answer>>

Ask(w) == /\ log' = Append(log, w)
          /\ UNCHANGED <<done, answer, open>>

Answered(w) == answer # 0 /\ log[answer] = w

PassOver == /\ done < Len(log)
            /\ ~open \/ Answered(log[done + 1])
            /\ done' = done + 1
            /\ UNCHANGED <<log, answer, open>>

Publish == /\ open
           /\ done < Len(log)
           /\ done' = done + 1
           /\ answer' = done + 1
           /\ UNCHANGED <<log, open>>

Next == Open \/ PassOver \/ Publish \/ \E w \in Words : Ask(w)

Spec == Init /\ [][Next]_feedVars
================================================================================
