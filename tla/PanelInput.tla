------------------------------- MODULE PanelInput ------------------------------
(***************************************************************************)
(* The text box of the panel: render in src/src/main.rs, one step per      *)
(* frame.  A letter pressed while the box lacks the focus asks for the     *)
(* focus, and a later frame puts the letter in the box; an input method    *)
(* (IME) commits whole texts; the box itself (egui, external) edits its    *)
(* text.  What is sent is looked up (Type in PanelRuntime).                *)
(***************************************************************************)
EXTENDS Naturals, Sequences, SequencesExt

CONSTANTS
  Letters,    \* the keys whose name is one character, as texts in lower case
  Commits,    \* texts an input method may commit
  Edits,      \* texts the user may edit the box to
  NoText,     \* no edit in a frame, nothing entered yet
  MaxEvents   \* bound: IME events in a frame

Texts == Letters \cup Commits \cup Edits \cup {""}

ASSUME InputAssumption ==
  /\ MaxEvents \in Nat
  /\ NoText \notin Texts

VARIABLES
  opacity,      \* whether the layer is in front (bg_opacity > 0)
  did_focus,    \* us.did_focus
  last_keys,    \* us.last_keys
  text,         \* the text of the box
  sent,         \* the last text sent to the lookup task
  entered,      \* history: the text last committed or edited, NoText once
                \* the box is cleared or asks for the focus
  overdue       \* history: since then a request was kept over a frame with
                \* IME events

vars == <<opacity, did_focus, last_keys, text, sent, entered, overdue>>

Ime == [kind : {"Preedit", "Enabled"}] \cup [kind : {"Commit"}, text : Commits]

Init == /\ opacity \in BOOLEAN
        /\ did_focus = FALSE /\ last_keys = {}
        /\ text = "" /\ sent = ""
        /\ entered = NoText /\ overdue = FALSE

--------------------------------------------------------------------------------
Of(ime, kinds) == {i \in 1 .. Len(ime) : ime[i].kind \in kinds}
Has(ime, kind) == Of(ime, {kind}) # {}

\* The events are handled in their order.  A commit replaces the text and is
\* sent, enabling clears the text: the last of these is what the box shows.
Written(ime, kinds, cleared, old) ==
  IF Of(ime, kinds) = {} THEN old
  ELSE LET ev == ime[Max(Of(ime, kinds))] IN
       IF ev.kind = "Commit" THEN ev.text ELSE cleared

\* Mutant: a committed text is shown but not looked up.
AfterIme_Unsent(ime) ==
  [text    |-> Written(ime, {"Commit", "Enabled"}, "", text),
   sent    |-> sent,
   entered |-> Written(ime, {"Commit", "Enabled"}, NoText, entered)]

\* Mutant: what is still being composed is the text.
AfterIme_Composing(ime) ==
  [text    |-> Written(ime, {"Commit", "Enabled", "Preedit"}, NoText, text),
   sent    |-> Written(ime, {"Commit"}, "", sent),
   entered |-> Written(ime, {"Commit", "Enabled"}, NoText, entered)]

AfterIme(ime) ==
  [text    |-> Written(ime, {"Commit", "Enabled"}, "", text),
   sent    |-> Written(ime, {"Commit"}, "", sent),
   entered |-> Written(ime, {"Commit", "Enabled"}, NoText, entered)]

\* Mutant: the letter is put in by every frame from then on.
StillAsked_Always(insert) == did_focus

\* The letter is put in once.
StillAsked(insert) == did_focus /\ ~insert

\* One frame: plain, the keys held down are all letters and no modifier is;
\* focused, the box has the focus after it took its events; edit, what it
\* made of its text.
Frame(keys, plain, focused, ime, edit) ==
  /\ opacity
  /\ LET asks   == keys # {} /\ plain
         typed  == IF asks THEN keys ELSE last_keys
         box    == AfterIme(ime)
         insert == did_focus /\ ~Has(ime, "Commit") /\ ~Has(ime, "Preedit")
         focus  == ~focused /\ (asks \/ Has(ime, "Enabled"))
         Known(t) == IF focus THEN NoText ELSE t
     IN  /\ last_keys' = typed
         /\ \E shown \in (IF insert /\ typed # {} THEN typed ELSE {box.text}) :
              \/ /\ edit = NoText
                 /\ text' = shown /\ sent' = box.sent
                 /\ entered' = Known(box.entered)
              \/ /\ edit \notin {NoText, shown}
                 /\ text' = edit /\ sent' = edit
                 /\ entered' = Known(edit)
         /\ did_focus' = (focus \/ StillAsked(insert))
         /\ overdue' = /\ ~focus
                       /\ \/ did_focus /\ ~insert
                          \/ overdue /\ edit = NoText /\ ~Has(ime, "Commit")
  /\ UNCHANGED opacity

\* sync: the layer comes to the front or goes to the back, where a frame
\* does nothing.
Layer == /\ opacity' = ~opacity
         /\ UNCHANGED <<did_focus, last_keys, text, sent, entered, overdue>>

Next ==
  \/ \E keys \in SUBSET Letters, plain, focused \in BOOLEAN,
        ime \in BoundedSeq(Ime, MaxEvents), edit \in Edits \cup {NoText} :
       Frame(keys, plain, focused, ime, edit)
  \/ Layer

Spec == Init /\ [][Next]_vars

--------------------------------------------------------------------------------
TypeOK ==
  /\ opacity \in BOOLEAN /\ did_focus \in BOOLEAN
  /\ last_keys \subseteq Letters
  /\ text \in Texts /\ sent \in Texts
  /\ entered \in Texts \cup {NoText} /\ overdue \in BOOLEAN

(***************************************************************************)
(* The box shows a text that was never looked up only while it shows a     *)
(* letter that asked for the focus, or nothing (main.rs:647, 674, 684).    *)
(***************************************************************************)
UnsentIsLetter == text # sent => text \in Letters \cup {""}

(***************************************************************************)
(* The text of the box is the "current input" (main.rs:312): what the user *)
(* committed or edited stays until the box is cleared, asks for the focus  *)
(* or is given another text.  The exception is the code's own: IME events  *)
(* put off a pending letter (main.rs:648, 653, 665), which then replaces a *)
(* text entered after the request.                                         *)
(***************************************************************************)
EnteredStays == entered # NoText => text = entered \/ overdue
================================================================================
