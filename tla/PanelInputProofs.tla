---------------------------- MODULE PanelInputProofs ---------------------------
(***************************************************************************)
(* Proofs about the text box of the panel.  That a text the user entered   *)
(* stays needs to be known of the frames in which a request is pending     *)
(* (Pending): then either nothing was entered since, or IME events have    *)
(* put the request off.                                                    *)
(***************************************************************************)
EXTENDS PanelInput, InductionLemmas

Pending == did_focus /\ entered # NoText => overdue

(***************************************************************************)
(* Of the events of a frame there is a last one of any kind it has.        *)
(***************************************************************************)
LEMMA LastEvent ==
  ASSUME NEW n \in Nat, NEW S \in SUBSET (1 .. n), S # {}
  PROVE  Max(S) \in S /\ \A j \in S : j <= Max(S)
<1> DEFINE D == {n - i : i \in S}
<1>1. D \in SUBSET Nat /\ D # {}
  <2>1. \A i \in S : n - i \in Nat
    OBVIOUS
  <2>2. QED
    BY <2>1
<1>2. PICK m \in D : \A k \in D : m <= k
  <2> HIDE DEF D
  <2> QED
    BY <1>1, LeastNumber
<1>3. PICK i \in S : m = n - i
  BY <1>2
<1>4. \A j \in S : i >= j
  BY <1>2, <1>3
<1>5. QED
  BY <1>3, <1>4 DEF Max

(***************************************************************************)
(* What the events of a frame write.                                       *)
(***************************************************************************)
LEMMA WrittenByIme ==
  ASSUME NEW ime \in BoundedSeq(Ime, MaxEvents)
  PROVE  LET writes  == Of(ime, {"Commit", "Enabled"})
             commits == Of(ime, {"Commit"})
             box     == AfterIme(ime)
         IN  \/ /\ writes = {} /\ commits = {}
                /\ box = [text |-> text, sent |-> sent, entered |-> entered]
             \/ /\ writes # {}
                /\ box.text = "" /\ box.entered = NoText
                /\ box.sent \in Commits \cup {sent}
             \/ /\ commits # {}
                /\ \E t \in Commits : box = [text |-> t, sent |-> t, entered |-> t]
<1> DEFINE W == Of(ime, {"Commit", "Enabled"})
           C == Of(ime, {"Commit"})
<1>1. PICK n \in Nat : ime \in [1 .. n -> Ime]
  <2>1. PICK m \in 0 .. MaxEvents : ime \in [1 .. m -> Ime]
    <3>1. PICK f \in {[1 .. m -> Ime] : m \in 0 .. MaxEvents} : ime \in f
      BY DEF BoundedSeq, SeqOf
    <3>2. QED
      BY <3>1
  <2>2. m \in Nat
    OBVIOUS
  <2>3. QED
    BY <2>1, <2>2
<1>2. Len(ime) = n
  BY <1>1
<1>3. /\ W \in SUBSET (1 .. n) /\ C \in SUBSET (1 .. n) /\ C \subseteq W
      /\ \A i \in W : ime[i].kind = "Commit" => i \in C
      /\ \A i \in W : ime[i].kind \in {"Commit", "Enabled"}
      /\ \A i \in C : ime[i].kind = "Commit"
  BY <1>2 DEF Of
<1>4. \A i \in 1 .. n : ime[i].kind = "Commit" => ime[i].text \in Commits
  BY <1>1 DEF Ime
<1>5. /\ W # {} => Max(W) \in W /\ \A j \in W : j <= Max(W)
      /\ C # {} => Max(C) \in C /\ \A j \in C : j <= Max(C)
  BY <1>3, LastEvent
<1>6. /\ AfterIme(ime).text = Written(ime, {"Commit", "Enabled"}, "", text)
      /\ AfterIme(ime).sent = Written(ime, {"Commit"}, "", sent)
      /\ AfterIme(ime).entered = Written(ime, {"Commit", "Enabled"}, NoText, entered)
      /\ AfterIme(ime) = [text |-> AfterIme(ime).text, sent |-> AfterIme(ime).sent,
                          entered |-> AfterIme(ime).entered]
  BY DEF AfterIme
<1> HIDE DEF W, C
<1>7. CASE W = {}
  BY <1>3, <1>6, <1>7 DEF Written, W, C
<1>8. CASE W # {} /\ ime[Max(W)].kind # "Commit"
  <2>1. AfterIme(ime).text = "" /\ AfterIme(ime).entered = NoText
    BY <1>6, <1>8 DEF Written, W
  <2>2. AfterIme(ime).sent \in Commits \cup {sent}
    BY <1>3, <1>4, <1>5, <1>6 DEF Written, C
  <2>3. QED
    BY <1>8, <2>1, <2>2 DEF W
<1>9. CASE W # {} /\ ime[Max(W)].kind = "Commit"
  <2>1. Max(W) \in C /\ Max(C) = Max(W)
    <3>1. Max(W) \in C /\ C # {}
      BY <1>3, <1>5, <1>9
    <3>2. Max(C) \in W /\ Max(C) \in Nat /\ Max(W) \in Nat
      <4>1. Max(C) \in W /\ Max(W) \in W
        BY <1>3, <1>5, <1>9, <3>1
      <4>2. \A i \in W : i \in Nat
        BY <1>3
      <4>3. QED
        BY <4>1, <4>2
    <3>3. QED
      BY <1>5, <1>9, <3>1, <3>2
  <2>2. ime[Max(W)].text \in Commits
    BY <1>3, <1>4, <1>9, <2>1
  <2>3. /\ AfterIme(ime).text = ime[Max(W)].text
        /\ AfterIme(ime).entered = ime[Max(W)].text
    BY <1>6, <1>9 DEF Written, W
  <2>4. AfterIme(ime).sent = ime[Max(W)].text
    BY <1>6, <1>9, <2>1 DEF Written, C
  <2>5. QED
    BY <1>6, <2>1, <2>2, <2>3, <2>4 DEF C
<1>10. QED
  BY <1>7, <1>8, <1>9

Safe == TypeOK /\ UnsentIsLetter /\ EnteredStays /\ Pending

(***************************************************************************)
(* A frame keeps the text of the box accounted for.                        *)
(***************************************************************************)
LEMMA FrameStep ==
  ASSUME Safe,
         NEW keys \in SUBSET Letters, NEW plain \in BOOLEAN, NEW focused \in BOOLEAN,
         NEW ime \in BoundedSeq(Ime, MaxEvents), NEW edit \in Edits \cup {NoText},
         Frame(keys, plain, focused, ime, edit)
  PROVE  Safe'
<1> DEFINE asks   == keys # {} /\ plain
           typed  == IF asks THEN keys ELSE last_keys
           box    == AfterIme(ime)
           insert == did_focus /\ ~Has(ime, "Commit") /\ ~Has(ime, "Preedit")
           focus  == ~focused /\ (asks \/ Has(ime, "Enabled"))
           first  == IF insert /\ typed # {} THEN typed ELSE {box.text}
<1>1. /\ last_keys' = typed /\ UNCHANGED opacity
      /\ did_focus' = (focus \/ (did_focus /\ ~insert))
      /\ overdue' = (~focus /\ ((did_focus /\ ~insert)
                                \/ (overdue /\ edit = NoText /\ ~Has(ime, "Commit"))))
  BY DEF Frame, StillAsked
<1>2. PICK t \in first :
        \/ /\ edit = NoText
           /\ text' = t /\ sent' = box.sent
           /\ entered' = IF focus THEN NoText ELSE box.entered
        \/ /\ edit \notin {NoText, t}
           /\ text' = edit /\ sent' = edit
           /\ entered' = IF focus THEN NoText ELSE edit
  BY DEF Frame
<1>3. \/ ~Has(ime, "Commit") /\ ~Has(ime, "Enabled")
         /\ box = [text |-> text, sent |-> sent, entered |-> entered]
      \/ /\ box.text = "" /\ box.entered = NoText
         /\ box.sent \in Commits \cup {sent}
      \/ /\ Has(ime, "Commit")
         /\ \E c \in Commits : box = [text |-> c, sent |-> c, entered |-> c]
  <2>1. Of(ime, {"Commit"}) # {} <=> Has(ime, "Commit")
    BY DEF Has
  <2>2. Of(ime, {"Commit", "Enabled"}) = {} => ~Has(ime, "Commit") /\ ~Has(ime, "Enabled")
    BY DEF Has, Of
  <2>3. QED
    BY <2>1, <2>2, WrittenByIme
<1>4. typed \subseteq Letters
  BY DEF Safe, TypeOK
<1>5. (t \in Letters /\ insert) \/ t = box.text
  BY <1>2, <1>4
<1>6. insert => did_focus /\ ~Has(ime, "Commit")
  OBVIOUS
<1> HIDE DEF asks, typed, box, insert, focus, first
<1>7. /\ text \in Texts /\ sent \in Texts /\ entered \in Texts \cup {NoText}
      /\ Commits \subseteq Texts /\ Edits \subseteq Texts /\ Letters \subseteq Texts
      /\ "" \in Texts /\ NoText \notin Texts
  BY InputAssumption DEF Safe, TypeOK, Texts
<1>8. /\ box.text \in Texts /\ box.sent \in Texts /\ box.entered \in Texts \cup {NoText}
      /\ box.text # box.sent => box.text \in Letters \cup {""}
      /\ box.entered # NoText =>
           (box.text = box.entered \/ (overdue /\ ~Has(ime, "Commit")))
      /\ box.entered # NoText /\ ~Has(ime, "Commit") => entered # NoText
  <2>1. /\ text # sent => text \in Letters \cup {""}
        /\ entered # NoText => text = entered \/ overdue
    BY DEF Safe, UnsentIsLetter, EnteredStays
  <2>2. CASE /\ ~Has(ime, "Commit") /\ ~Has(ime, "Enabled")
             /\ box = [text |-> text, sent |-> sent, entered |-> entered]
    <3>1. box.text = text /\ box.sent = sent /\ box.entered = entered
      BY <2>2
    <3>2. QED
      BY <1>7, <2>1, <2>2, <3>1
  <2>3. CASE /\ box.text = "" /\ box.entered = NoText
             /\ box.sent \in Commits \cup {sent}
    BY <1>7, <2>3
  <2>4. CASE /\ Has(ime, "Commit")
             /\ \E c \in Commits : box = [text |-> c, sent |-> c, entered |-> c]
    <3>1. PICK c \in Commits : box.text = c /\ box.sent = c /\ box.entered = c
      BY <2>4
    <3>2. c \in Texts
      BY <1>7
    <3>3. QED
      BY <2>4, <3>1, <3>2
  <2>5. QED
    BY <1>3, <2>2, <2>3, <2>4
<1>9. t \in Texts
  BY <1>5, <1>7, <1>8
<1>10. TypeOK'
  <2>1. opacity' \in BOOLEAN /\ did_focus' \in BOOLEAN /\ overdue' \in BOOLEAN
    <3>1. opacity' = opacity /\ opacity \in BOOLEAN
      BY <1>1 DEF Safe, TypeOK
    <3>2. QED
      BY <1>1, <3>1, Zenon
  <2>2. last_keys' \subseteq Letters
    BY <1>1, <1>4
  <2>3. text' \in Texts /\ sent' \in Texts /\ entered' \in Texts \cup {NoText}
    BY <1>2, <1>7, <1>8, <1>9
  <2>4. QED
    BY <2>1, <2>2, <2>3 DEF TypeOK
<1>11. UnsentIsLetter'
  BY <1>2, <1>5, <1>8 DEF UnsentIsLetter
<1>12. EnteredStays'
  <2>1. SUFFICES ASSUME entered' # NoText, text' # entered' PROVE overdue'
    BY DEF EnteredStays
  <2>2. /\ ~focus /\ edit = NoText /\ text' = t /\ entered' = box.entered
    BY <1>2, <2>1
  <2>3. CASE t = box.text
    BY <1>1, <1>8, <2>1, <2>2, <2>3
  <2>4. CASE insert
    <3>1. overdue
      BY <1>6, <1>8, <2>1, <2>2, <2>4 DEF Safe, Pending
    <3>2. QED
      BY <1>1, <1>6, <2>2, <2>4, <3>1
  <2>5. QED
    BY <1>5, <2>3, <2>4
<1>13. Pending'
  BY <1>1, <1>2 DEF Pending
<1>14. QED
  BY <1>10, <1>11, <1>12, <1>13 DEF Safe

(***************************************************************************)
(* The text box is safe in every reachable state, for all keys, commits    *)
(* and edits, one-letter texts and "" among them, and for any number of    *)
(* events in a frame.                                                      *)
(***************************************************************************)
THEOREM Invariance == Spec => []Safe
<1>1. Init => Safe
  BY InputAssumption
     DEF Init, Safe, TypeOK, Texts, UnsentIsLetter, EnteredStays, Pending
<1>2. Safe /\ [Next]_vars => Safe'
  <2> SUFFICES ASSUME Safe, [Next]_vars PROVE Safe'
    OBVIOUS
  <2>1. ASSUME NEW keys \in SUBSET Letters, NEW plain \in BOOLEAN, NEW focused \in BOOLEAN,
               NEW ime \in BoundedSeq(Ime, MaxEvents), NEW edit \in Edits \cup {NoText},
               Frame(keys, plain, focused, ime, edit)
        PROVE  Safe'
    BY <2>1, FrameStep
  <2>2. CASE Layer
    BY <2>2 DEF Layer, Safe, TypeOK, UnsentIsLetter, EnteredStays, Pending
  <2>3. CASE UNCHANGED vars
    BY <2>3 DEF vars, Safe, TypeOK, UnsentIsLetter, EnteredStays, Pending
  <2>4. QED
    BY <2>1, <2>2, <2>3 DEF Next
<1>3. QED
  BY <1>1, <1>2, PTL DEF Spec

(***************************************************************************)
(* The type invariant of the text box.                                     *)
(***************************************************************************)
THEOREM TypeCorrect == Spec => []TypeOK
<1>1. Safe => TypeOK
  BY DEF Safe
<1>2. QED
  BY <1>1, Invariance, PTL

(***************************************************************************)
(* A text that was not looked up is a focus letter or nothing.             *)
(***************************************************************************)
THEOREM UnsentTextIsLetter == Spec => []UnsentIsLetter
<1>1. Safe => UnsentIsLetter
  BY DEF Safe
<1>2. QED
  BY <1>1, Invariance, PTL

(***************************************************************************)
(* A text the user entered stays, but for the letters put off.             *)
(***************************************************************************)
THEOREM EnteredTextStays == Spec => []EnteredStays
<1>1. Safe => EnteredStays
  BY DEF Safe
<1>2. QED
  BY <1>1, Invariance, PTL
================================================================================
