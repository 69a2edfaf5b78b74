----------------------------- MODULE PanelRuntime ------------------------------
(***************************************************************************)
(* The running panel: src/src/main.rs, from the construction of the        *)
(* channels to wayland.run_forever().  Two threads share the state below:  *)
(*                                                                         *)
(*   - the main thread, which runs the wayland event loop (an external     *)
(*     crate): it builds the app, draws frames and handles Msg values;     *)
(*   - a thread that owns a tokio runtime with three tasks: the selection  *)
(*     reader, the lookup task and, in block_on, the gesture loop.         *)
(*                                                                         *)
(* The channel of texts (wsx/wrx) is an immutable log with a read cursor:  *)
(* asked is everything sent, taken is how much the lookup task received.   *)
(* A query is named by its position in asked, so RECENT_QUERY's instant    *)
(* and the published results are positions (0 is None / the empty list).   *)
(* Elapsed time is one bit: fresh says that RECENT_QUERY is at most        *)
(* app_conf.dither old; Expire clears it at any moment.                    *)
(***************************************************************************)
EXTENDS Naturals, Sequences

CONSTANTS
  Words,        \* texts short enough to be looked up
  Stale,        \* the words whose search panics: a candidate has no entry
  Selectable,   \* what a selection pipe may deliver
  MaxAsked,     \* bound: texts sent or selected in a behaviour
  MaxMsgs       \* bound: Msg values the user and the gestures may queue

Junk == {"tooLong", "notUtf8", "readError", "neverCloses"}

ASSUME ConstantsAssumption ==
  /\ Words \cap Junk = {}
  /\ Stale \subseteq Words
  /\ Selectable \subseteq Words \cup Junk
  /\ MaxAsked \in Nat
  /\ MaxMsgs \in Nat

VARIABLES
  ui,           \* "booting", "running" or "exited" (the process has ended)
  dict,         \* the shared cell holds a dictionary
  visible,      \* the layer is in front (bg_opacity > 0)
  shown,        \* the results drawn by the last frame of the visible panel
  msgs,         \* Msg values sent to the wayland loop, not yet handled
  events,       \* selections offered to the reader
  reader,       \* the selection reader: "up" or "dead"
  asked,        \* every text sent to the lookup task
  taken,        \* how many of them it has received
  lookup,       \* the lookup task: "idle", "search", "repaint" or "dead"
  last,         \* position of last_string
  results,      \* position whose results are published in query_rx
  recent,       \* RECENT_QUERY
  fresh,        \* RECENT_QUERY is within the dither time
  gesture,      \* "connecting", "listening", "spinning" or "down"
  used,         \* the gesture loop's used
  taps,         \* the parity of tap_count
  grants,       \* history: the query behind each Toggle sent for a tap
  missed        \* history: last text received before the dictionary was open

uiVars      == <<ui, visible, shown>>
channelVars == <<asked, events>>
lookupVars  == <<taken, lookup, last, results, missed>>
queryVars   == <<recent, fresh>>
gestureVars == <<gesture, used, taps, grants>>
vars == <<uiVars, channelVars, lookupVars, queryVars, gestureVars,
          dict, msgs, reader>>

Msg == {"Repaint", "Toggle", "Hide", "Exit"}

(***************************************************************************)
(* A ProtoGesture, reduced to what the loop tests: whether its key is      *)
(* KEY_LEFTCTRL, its kind, and whether it is the unordered LEFTCTRL +      *)
(* LEFTMETA chord.  A gesture that is neither has no effect.               *)
(***************************************************************************)
Gestures ==
  [ctrl : {TRUE}, kind : {"first", "seq", "other"}, chord : {FALSE}]
    \cup [ctrl : BOOLEAN, kind : {"other"}, chord : {TRUE}]

Alive == ui # "exited"

Init == /\ ui = "booting"
        /\ dict = FALSE
        /\ visible \in BOOLEAN
        /\ shown = 0
        /\ msgs = <<>>
        /\ events = <<>>
        /\ reader = "up"
        /\ asked = <<>>
        /\ taken = 0
        /\ lookup = "idle"
        /\ last = 0
        /\ results = 0
        /\ recent = 0
        /\ fresh = FALSE
        /\ gesture = "connecting"
        /\ used = 0
        /\ taps = 0
        /\ grants = <<>>
        /\ missed = 0

--------------------------------------------------------------------------------
(* The main thread: the app's creator closure and the wayland loop.        *)

\* The creator loads the dictionary, stores it and returns the app.
Boot == /\ ui = "booting"
        /\ ui' = "running"
        /\ dict' = TRUE
        /\ UNCHANGED <<visible, shown, channelVars, lookupVars, queryVars,
                       gestureVars, msgs, reader>>

\* A missing fixture, a locked database or an unreadable index ends it.
BootFail == /\ ui = "booting"
            /\ ui' = "exited"
            /\ UNCHANGED <<visible, shown, channelVars, lookupVars, queryVars,
                           gestureVars, dict, msgs, reader>>

\* A frame draws the published results if the panel is in front.
Frame(v, r) == shown' = IF v THEN r ELSE shown

HandleMsg ==
  /\ ui = "running"
  /\ msgs # <<>>
  /\ LET m == Head(msgs) IN
       /\ ui' = IF m = "Exit" THEN "exited" ELSE ui
       /\ visible' = CASE m = "Toggle" -> ~visible
                       [] m = "Hide"   -> FALSE
                       [] OTHER        -> visible
       /\ Frame(visible', results)
  /\ msgs' = Tail(msgs)
  /\ UNCHANGED <<channelVars, lookupVars, queryVars, gestureVars, dict, reader>>

\* egui draws a frame of its own accord, after input for instance.
Draw == /\ ui = "running" /\ visible
        /\ Frame(visible, results)
        /\ UNCHANGED <<ui, visible, channelVars, lookupVars, queryVars,
                       gestureVars, dict, msgs, reader>>

\* The exit and hide buttons of a visible panel.
Button(m) ==
  /\ ui = "running" /\ visible
  /\ Len(msgs) < MaxMsgs
  /\ msgs' = Append(msgs, m)
  /\ UNCHANGED <<uiVars, channelVars, lookupVars, queryVars, gestureVars,
                 dict, reader>>

\* Every text on its way to the log counts against the bound.
HasRoom == Len(asked) + Len(events) < MaxAsked

\* The text box changed: the send's error is ignored, so a text typed when
\* the receiver is gone disappears (no step of this module).
Type(w) ==
  /\ ui = "running" /\ visible
  /\ HasRoom
  /\ lookup # "dead"
  /\ asked' = Append(asked, w)
  /\ UNCHANGED <<uiVars, events, lookupVars, queryVars, gestureVars,
                 dict, msgs, reader>>

\* Another client sets the primary selection: the wayland side offers its pipe.
Select(s) ==
  /\ Alive
  /\ HasRoom
  /\ events' = Append(events, s)
  /\ UNCHANGED <<uiVars, asked, lookupVars, queryVars, gestureVars,
                 dict, msgs, reader>>

--------------------------------------------------------------------------------
(* The selection reader.  The head of events is the pipe being read.       *)

\* Mutant: text that is not UTF-8 leaves the task through `?` as well.
ReadSelection_Strict ==
  /\ Alive
  /\ reader = "up"
  /\ events # <<>> /\ Head(events) # "neverCloses"
  /\ events' = Tail(events)
  /\ LET s == Head(events) IN
       \/ /\ s \in Words /\ lookup # "dead"
          /\ asked' = Append(asked, s)
          /\ UNCHANGED reader
       \/ /\ s \in {"readError", "notUtf8"} \/ (s \in Words /\ lookup = "dead")
          /\ reader' = "dead"
          /\ UNCHANGED asked
       \/ /\ s = "tooLong"
          /\ UNCHANGED <<asked, reader>>
  /\ UNCHANGED <<uiVars, lookupVars, queryVars, gestureVars, dict, msgs>>

\* Reads the pipe to its end.  A read error leaves the task through `?`;
\* text that is not UTF-8 or too long is ignored; a word is sent to the
\* lookup task, and the unwrap of a failed send panics.
ReadSelection ==
  /\ Alive
  /\ reader = "up"
  /\ events # <<>> /\ Head(events) # "neverCloses"
  /\ events' = Tail(events)
  /\ LET s == Head(events) IN
       \/ /\ s \in Words /\ lookup # "dead"
          /\ asked' = Append(asked, s)
          /\ UNCHANGED reader
       \/ /\ s = "readError" \/ (s \in Words /\ lookup = "dead")
          /\ reader' = "dead"
          /\ UNCHANGED asked
       \/ /\ s \in {"notUtf8", "tooLong"}
          /\ UNCHANGED <<asked, reader>>
  /\ UNCHANGED <<uiVars, lookupVars, queryVars, gestureVars, dict, msgs>>

--------------------------------------------------------------------------------
(* The lookup task.  It does not await between a receive and the next one, *)
(* but the other threads run between its accesses to the shared cells.     *)

\* Mutant: the last text of the channel is never received.
Received_OffByOne == taken + 1 < Len(asked)
Received == taken < Len(asked)

\* Mutant: compares with the last text received instead of the last answered.
IsRepeat_LastReceived == taken # 0 /\ asked[taken] = asked[taken + 1]
IsRepeat == last # 0 /\ asked[last] = asked[taken + 1]

\* The same text as the last one answered: nothing is done.
SkipRepeat ==
  /\ Alive
  /\ lookup = "idle" /\ Received /\ IsRepeat
  /\ taken' = taken + 1
  /\ UNCHANGED <<uiVars, channelVars, lookup, last, results, missed, queryVars,
                 gestureVars, dict, msgs, reader>>

\* Mutant: RECENT_QUERY is stored before the cell is looked at.
DropUnloaded_StoresRecent ==
  /\ Alive
  /\ lookup = "idle" /\ Received /\ ~IsRepeat
  /\ ~dict
  /\ taken' = taken + 1
  /\ missed' = taken + 1
  /\ recent' = taken + 1
  /\ UNCHANGED <<uiVars, channelVars, lookup, last, results, fresh,
                 gestureVars, dict, msgs, reader>>

\* The cell holds no dictionary yet: the text is dropped.
DropUnloaded ==
  /\ Alive
  /\ lookup = "idle" /\ Received /\ ~IsRepeat
  /\ ~dict
  /\ taken' = taken + 1
  /\ missed' = taken + 1
  /\ UNCHANGED <<uiVars, channelVars, lookup, last, results, queryVars,
                 gestureVars, dict, msgs, reader>>

\* Mutant: the instant is that of the newest text sent, not of the one received.
StartSearch_NewestSent ==
  /\ Alive
  /\ lookup = "idle" /\ Received /\ ~IsRepeat
  /\ dict
  /\ taken' = taken + 1
  /\ recent' = Len(asked)
  /\ fresh' = TRUE
  /\ lookup' = "search"
  /\ UNCHANGED <<uiVars, channelVars, last, results, missed, gestureVars,
                 dict, msgs, reader>>

\* RECENT_QUERY is set before the search starts.
StartSearch ==
  /\ Alive
  /\ lookup = "idle" /\ Received /\ ~IsRepeat
  /\ dict
  /\ taken' = taken + 1
  /\ recent' = taken + 1
  /\ fresh' = TRUE
  /\ lookup' = "search"
  /\ UNCHANGED <<uiVars, channelVars, last, results, missed, gestureVars,
                 dict, msgs, reader>>

\* retrieve(candidate).unwrap() on a word the database does not have.
SearchPanics ==
  /\ Alive
  /\ lookup = "search" /\ asked[taken] \in Stale
  /\ lookup' = "dead"
  /\ UNCHANGED <<uiVars, channelVars, taken, last, results, missed, queryVars,
                 gestureVars, dict, msgs, reader>>

PublishResults ==
  /\ Alive
  /\ lookup = "search" /\ asked[taken] \notin Stale
  /\ results' = taken
  /\ lookup' = "repaint"
  /\ UNCHANGED <<uiVars, channelVars, taken, last, missed, queryVars,
                 gestureVars, dict, msgs, reader>>

\* Mutant: the new results are stored without asking for a frame.
RequestRepaint_Silent ==
  /\ Alive
  /\ lookup = "repaint"
  /\ last' = taken
  /\ lookup' = "idle"
  /\ UNCHANGED <<uiVars, channelVars, taken, results, missed, queryVars,
                 gestureVars, dict, msgs, reader>>

RequestRepaint ==
  /\ Alive
  /\ lookup = "repaint"
  /\ msgs' = Append(msgs, "Repaint")
  /\ last' = taken
  /\ lookup' = "idle"
  /\ UNCHANGED <<uiVars, channelVars, taken, results, missed, queryVars,
                 gestureVars, dict, reader>>

\* The dither time elapses.
Expire == /\ Alive
          /\ fresh
          /\ fresh' = FALSE
          /\ UNCHANGED <<uiVars, channelVars, lookupVars, recent, gestureVars,
                         dict, msgs, reader>>

--------------------------------------------------------------------------------
(* The gesture loop, in block_on on the runtime's own thread.              *)

Connect == /\ Alive
           /\ gesture = "connecting"
           /\ gesture' = "listening"
           /\ UNCHANGED <<uiVars, channelVars, lookupVars, queryVars, used, taps,
                          grants, dict, msgs, reader>>

\* Mutant: a query that was used still lets the panel be shown.
AllowShow_Reusable == recent # 0 /\ fresh

\* allow_show: the query is recent and no earlier gesture used it.
AllowShow == recent # 0 /\ fresh /\ used # recent

\* The gesture is one on which the panel acts: the first tap distance, or
\* every second one of a sequence.
Acts(g) == g.ctrl /\ (g.kind = "first" \/ (g.kind = "seq" /\ taps = 1))

TapMsgs(g) == IF ~Acts(g) THEN <<>>
              ELSE IF AllowShow THEN <<"Toggle">> ELSE <<"Hide">>

Gesture(g) ==
  /\ Alive
  /\ gesture = "listening"
  /\ Len(msgs) < MaxMsgs
  /\ used' = IF g.ctrl /\ AllowShow THEN recent ELSE used
  /\ taps' = CASE g.kind = "first" -> 0
               [] g.kind = "seq"   -> 1 - taps
               [] OTHER            -> taps
  /\ msgs' = msgs \o TapMsgs(g) \o (IF g.chord THEN <<"Toggle">> ELSE <<>>)
  /\ grants' = IF Acts(g) /\ AllowShow THEN Append(grants, recent) ELSE grants
  /\ UNCHANGED <<uiVars, channelVars, lookupVars, queryVars, gesture, dict, reader>>

\* The server closes the stream: next() returns None for ever, and the
\* inner loop has no exit to the reconnection below it.
StreamEnds ==
  /\ Alive
  /\ gesture = "listening"
  /\ gesture' = "spinning"
  /\ UNCHANGED <<uiVars, channelVars, lookupVars, queryVars, used, taps, grants,
                 dict, msgs, reader>>

\* A refused connection or an undecodable gesture leaves block_on through
\* `?`: the runtime is dropped with the tasks spawned on it.
RuntimeEnds ==
  /\ Alive
  /\ gesture \in {"connecting", "listening"}
  /\ gesture' = "down"
  /\ UNCHANGED <<uiVars, channelVars, lookupVars, queryVars, used, taps, grants,
                 dict, msgs, reader>>

\* Dropping the runtime cancels a task where it awaits.
CancelLookup ==
  /\ Alive
  /\ gesture = "down" /\ lookup = "idle"
  /\ lookup' = "dead"
  /\ UNCHANGED <<uiVars, channelVars, taken, last, results, missed, queryVars,
                 gestureVars, dict, msgs, reader>>

CancelReader ==
  /\ Alive
  /\ gesture = "down" /\ reader = "up"
  /\ reader' = "dead"
  /\ UNCHANGED <<uiVars, channelVars, lookupVars, queryVars, gestureVars,
                 dict, msgs>>

--------------------------------------------------------------------------------
Lookup == \/ SkipRepeat \/ DropUnloaded \/ StartSearch
          \/ SearchPanics \/ PublishResults \/ RequestRepaint

Next == \/ Boot \/ BootFail \/ HandleMsg \/ Draw
        \/ \E m \in {"Hide", "Exit"} : Button(m)
        \/ \E w \in Words : Type(w)
        \/ \E s \in Selectable : Select(s)
        \/ ReadSelection
        \/ Lookup
        \/ Expire
        \/ Connect \/ StreamEnds \/ RuntimeEnds
        \/ \E g \in Gestures : Gesture(g)
        \/ CancelLookup \/ CancelReader

Spec == Init /\ [][Next]_vars

(***************************************************************************)
(* The wayland loop and the runtime's workers keep running; users, clients *)
(* of the compositor, the gesture server and the clock promise nothing.    *)
(***************************************************************************)
Fairness == /\ WF_vars(HandleMsg)
            /\ WF_vars(ReadSelection)
            /\ WF_vars(Lookup)
            /\ WF_vars(CancelLookup)
            /\ WF_vars(CancelReader)

FairSpec == Spec /\ Fairness

--------------------------------------------------------------------------------
TypeOK ==
  /\ ui \in {"booting", "running", "exited"}
  /\ dict \in BOOLEAN
  /\ visible \in BOOLEAN
  /\ shown \in Nat
  /\ msgs \in Seq(Msg)
  /\ events \in Seq(Selectable)
  /\ reader \in {"up", "dead"}
  /\ asked \in Seq(Words)
  /\ taken \in 0 .. Len(asked)
  /\ lookup \in {"idle", "search", "repaint", "dead"}
  /\ last \in 0 .. taken
  /\ results \in 0 .. taken
  /\ recent \in 0 .. taken
  /\ fresh \in BOOLEAN
  /\ gesture \in {"connecting", "listening", "spinning", "down"}
  /\ used \in 0 .. recent
  /\ taps \in {0, 1}
  /\ grants \in Seq(1 .. recent)
  /\ missed \in 0 .. taken

(***************************************************************************)
(* A dictionary, once open, answers everything it is asked: when the       *)
(* lookup task has caught up with a text received after the dictionary was *)
(* opened, the published results are those of that text.  It is what the   *)
(* skip of repeated texts (main.rs:190) and the late assignment of         *)
(* last_string (main.rs:227) have to preserve.                             *)
(***************************************************************************)
LatestAnswered ==
  lookup = "idle" /\ missed < taken =>
    results # 0 /\ asked[results] = asked[taken]

(***************************************************************************)
(* A visible panel that shows old results has a repaint on its way: the    *)
(* store into query_rx comes before the Repaint message (main.rs:225), so  *)
(* no frame can consume the message and miss the results.                  *)
(***************************************************************************)
RepaintPending ==
  ui = "running" /\ visible /\ shown # results =>
    lookup = "repaint" \/ \E i \in 1 .. Len(msgs) : msgs[i] = "Repaint"

(***************************************************************************)
(* RECENT_QUERY names the published results, or the query whose search is  *)
(* under way or has panicked (main.rs:200): a tap never brings up the      *)
(* panel for a query that was dropped, skipped or superseded.              *)
(***************************************************************************)
RecentIsCurrent ==
  /\ results <= recent
  /\ recent # results => recent = taken /\ lookup \in {"search", "dead"}

(***************************************************************************)
(* One query lets the taps toggle the panel at most once: the queries for  *)
(* which a Toggle was sent never repeat (main.rs:256).                     *)
(***************************************************************************)
OneTogglePerQuery ==
  \A i, j \in 1 .. Len(grants) : i < j => grants[i] < grants[j]

(***************************************************************************)
(* The panel implements the feed of queries: shutting down, panicking,     *)
(* toggling and repainting never reorder or forget an answer.              *)
(***************************************************************************)
Disposed == IF recent > results THEN taken - 1 ELSE taken

Feed == INSTANCE QueryFeed
          WITH log <- asked, done <- Disposed, answer <- results, open <- dict

ImplementsFeed == Feed!Spec

(***************************************************************************)
(* Every text sent to the lookup task is disposed of, unless the task or   *)
(* the process ends.                                                       *)
(***************************************************************************)
EveryTextDisposed ==
  \A k \in 1 .. MaxAsked :
    Len(asked) >= k ~> Disposed >= k \/ lookup = "dead" \/ ~Alive

(***************************************************************************)
(* A selected word is sent to the lookup task, whatever other clients      *)
(* select before and after it (main.rs:171), unless a pipe before it       *)
(* fails or is never closed, the tasks are cancelled, the lookup task has  *)
(* panicked or the process ends.                                           *)
(***************************************************************************)
Waits(w) ==
  /\ reader = "up"
  /\ \E i \in 1 .. Len(events) :
       /\ events[i] = w
       /\ \A j \in 1 .. i - 1 : events[j] \in Words \cup {"notUtf8", "tooLong"}

SelectionsRead ==
  \A w \in Words :
    Waits(w)
      ~> \/ \E k \in 1 .. Len(asked) : asked[k] = w
         \/ gesture = "down" \/ lookup = "dead" \/ ~Alive

(***************************************************************************)
(* Published results reach a panel that stays in front.                    *)
(***************************************************************************)
ResultsReachPanel ==
  (ui = "running" /\ visible /\ shown # results)
    ~> (ui # "running" \/ ~visible \/ shown = results)
================================================================================
