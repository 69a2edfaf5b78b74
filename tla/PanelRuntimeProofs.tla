-------------------------- MODULE PanelRuntimeProofs ---------------------------
(***************************************************************************)
(* Proofs about PanelRuntime, for all words, all stale words, all kinds of *)
(* selection and every bound.  IInv is the inductive invariant: what the   *)
(* lookup task's control state says of its variables (Pipeline), that a    *)
(* panel that is still booting has nothing to show (Unopened), and that    *)
(* every toggle was for a query no newer than the last one used (Granted). *)
(***************************************************************************)
EXTENDS PanelRuntime, SequenceTheorems, TLAPS

Pipeline ==
  /\ lookup = "idle" => last = results /\ recent = results
  /\ lookup = "search" => last = results /\ recent = taken /\ results < taken
  /\ lookup = "repaint" => results = taken /\ recent = taken /\ results # 0
  /\ lookup = "dead" => \/ recent = results
                        \/ recent = taken /\ results < taken

Unopened ==
  /\ ui = "booting" => ~dict /\ shown = 0
  /\ ~dict => recent = 0 /\ results = 0 /\ lookup \in {"idle", "dead"}

Granted == \A i \in 1 .. Len(grants) : grants[i] <= used

IInv == /\ TypeOK
        /\ Pipeline
        /\ Unopened
        /\ Granted
        /\ LatestAnswered
        /\ RepaintPending
        /\ OneTogglePerQuery

\* What a gesture sends, if anything, is a sequence of messages.
LEMMA SentIsSeq ==
  <<>> \in Seq(Msg) /\ <<"Toggle">> \in Seq(Msg) /\ <<"Hide">> \in Seq(Msg)
<1>1. ASSUME NEW m \in Msg PROVE <<m>> \in Seq(Msg)
  OBVIOUS
<1>2. "Toggle" \in Msg /\ "Hide" \in Msg
  BY DEF Msg
<1> QED
  BY <1>1, <1>2

\* What a gesture sends in two parts is one sequence.
LEMMA TwoSends ==
  \A a, b, c \in Seq(Msg) : (a \o b) \o c = a \o (b \o c)
<1> SUFFICES ASSUME NEW a \in Seq(Msg), NEW b \in Seq(Msg), NEW c \in Seq(Msg)
             PROVE  (a \o b) \o c = a \o (b \o c)
  OBVIOUS
<1> QED
  BY ConcatAssociative

\* The invariant holds initially.
LEMMA InitIInv == Init => IInv
<1> SUFFICES ASSUME Init PROVE IInv
  OBVIOUS
<1>1. TypeOK
  <2>1. /\ msgs \in Seq(Msg) /\ events \in Seq(Selectable)
        /\ asked \in Seq(Words) /\ grants \in Seq(1 .. recent)
    BY DEF Init
  <2>2. visible \in BOOLEAN /\ dict \in BOOLEAN /\ fresh \in BOOLEAN
    BY DEF Init
  <2> QED
    BY <2>1, <2>2 DEF Init, TypeOK
<1>2. Pipeline /\ Unopened /\ Granted
  BY DEF Init, Pipeline, Unopened, Granted
<1>3. LatestAnswered /\ RepaintPending /\ OneTogglePerQuery
  BY DEF Init, LatestAnswered, RepaintPending, OneTogglePerQuery
<1> QED
  BY <1>1, <1>2, <1>3 DEF IInv

\* Every step keeps the types.
LEMMA TypeStep ==
  ASSUME TypeOK, [Next]_vars
  PROVE  TypeOK'
<1> USE DEF TypeOK, uiVars, channelVars, lookupVars, queryVars, gestureVars
<1>1. CASE Boot
  BY <1>1 DEF Boot
<1>2. CASE BootFail
  BY <1>2 DEF BootFail
<1>3. CASE HandleMsg
  <2>1. Tail(msgs) \in Seq(Msg)
    BY <1>3 DEF HandleMsg
  <2>2. visible' \in BOOLEAN
    BY <1>3 DEF HandleMsg
  <2>3. shown' \in Nat
    BY <1>3 DEF HandleMsg, Frame
  <2>4. ui' \in {"booting", "running", "exited"}
    BY <1>3 DEF HandleMsg
  <2> QED
    BY <1>3, <2>1, <2>2, <2>3, <2>4 DEF HandleMsg
<1>4. ASSUME NEW m \in {"Hide", "Exit"}, Button(m) PROVE TypeOK'
  <2>1. Append(msgs, m) \in Seq(Msg)
    BY <1>4 DEF Msg
  <2> QED
    BY <1>4, <2>1 DEF Button
<1>5. ASSUME NEW w \in Words, Type(w) PROVE TypeOK'
  BY <1>5 DEF Type
<1>6. ASSUME NEW s \in Selectable, Select(s) PROVE TypeOK'
  BY <1>6 DEF Select
<1>7. CASE ReadSelection
  <2>1. events' \in Seq(Selectable)
    BY <1>7 DEF ReadSelection
  <2>2. /\ reader' \in {"up", "dead"}
        /\ asked' \in Seq(Words) /\ Len(asked') >= Len(asked)
    <3>1. CASE Head(events) \in Words /\ lookup # "dead"
               /\ asked' = Append(asked, Head(events)) /\ UNCHANGED reader
      BY <3>1
    <3>2. CASE reader' = "dead" /\ UNCHANGED asked
      BY <3>2
    <3>3. CASE UNCHANGED <<asked, reader>>
      BY <3>3
    <3> QED
      BY <1>7, <3>1, <3>2, <3>3 DEF ReadSelection
  <2> QED
    BY <1>7, <2>1, <2>2 DEF ReadSelection
<1>8. CASE SkipRepeat
  BY <1>8 DEF SkipRepeat, Received
<1>9. CASE DropUnloaded
  BY <1>9 DEF DropUnloaded, Received
<1>10. CASE StartSearch
  <2>1. grants \in Seq(1 .. recent')
    <3>1. 1 .. recent \subseteq 1 .. recent'
      BY <1>10 DEF StartSearch, Received
    <3> QED
      BY <3>1, SeqMonotonic DEF TypeOK
  <2> QED
    BY <1>10, <2>1 DEF StartSearch, Received
<1>11. CASE SearchPanics
  BY <1>11 DEF SearchPanics
<1>12. CASE PublishResults
  BY <1>12 DEF PublishResults
<1>13. CASE RequestRepaint
  <2>1. Append(msgs, "Repaint") \in Seq(Msg)
    BY DEF Msg
  <2> QED
    BY <1>13, <2>1 DEF RequestRepaint
<1>14. CASE Expire
  BY <1>14 DEF Expire
<1>15. CASE Connect \/ StreamEnds \/ RuntimeEnds
  BY <1>15 DEF Connect, StreamEnds, RuntimeEnds
<1>16. ASSUME NEW g \in Gestures, Gesture(g) PROVE TypeOK'
  <2>1. msgs' \in Seq(Msg)
    <3>1. TapMsgs(g) \in Seq(Msg)
      BY SentIsSeq DEF TapMsgs
    <3>2. (IF g.chord THEN <<"Toggle">> ELSE <<>>) \in Seq(Msg)
      BY SentIsSeq
    <3> QED
      BY <1>16, <3>1, <3>2 DEF Gesture
  <2>2. grants' \in Seq(1 .. recent)
    <3>1. CASE Acts(g) /\ AllowShow
      <4>1. recent \in 1 .. recent
        BY <3>1 DEF AllowShow
      <4> QED
        BY <1>16, <3>1, <4>1 DEF Gesture
    <3>2. CASE ~(Acts(g) /\ AllowShow)
      BY <1>16, <3>2 DEF Gesture
    <3> QED
      BY <3>1, <3>2
  <2>3. used' \in 0 .. recent /\ taps' \in {0, 1}
    BY <1>16 DEF Gesture
  <2> QED
    BY <1>16, <2>1, <2>2, <2>3 DEF Gesture
<1>17. CASE CancelLookup \/ CancelReader
  BY <1>17 DEF CancelLookup, CancelReader
<1>18. CASE UNCHANGED vars
  BY <1>18 DEF vars
<1>19. CASE Draw
  BY <1>19 DEF Draw, Frame
<1> QED
  BY <1>1, <1>2, <1>3, <1>4, <1>5, <1>6, <1>7, <1>8, <1>9, <1>10, <1>11, <1>12,
     <1>13, <1>14, <1>15, <1>16, <1>17, <1>18, <1>19 DEF Next, Lookup

(***************************************************************************)
(* The actions that leave the lookup task and its variables alone.         *)
(***************************************************************************)
Aside == UNCHANGED <<lookupVars, recent, dict>>

\* The steps that change what the lookup task and its queries are.
LEMMA StepCases ==
  ASSUME [Next]_vars
  PROVE  \/ Boot \/ SkipRepeat \/ DropUnloaded \/ StartSearch
         \/ SearchPanics \/ PublishResults \/ RequestRepaint
         \/ CancelLookup \/ Aside
<1> USE DEF Aside, lookupVars, queryVars
<1>1. ASSUME NEW m, Button(m) PROVE Aside
  BY <1>1 DEF Button
<1>2. ASSUME NEW w, Type(w) PROVE Aside
  BY <1>2 DEF Type
<1>3. ASSUME NEW s, Select(s) PROVE Aside
  BY <1>3 DEF Select
<1>4. ASSUME NEW g, Gesture(g) PROVE Aside
  BY <1>4 DEF Gesture
<1>5. BootFail \/ HandleMsg \/ Draw \/ ReadSelection \/ Expire => Aside
  BY DEF BootFail, HandleMsg, Draw, ReadSelection, Expire
<1>6. Connect \/ StreamEnds \/ RuntimeEnds \/ CancelReader => Aside
  BY DEF Connect, StreamEnds, RuntimeEnds, CancelReader
<1>7. UNCHANGED vars => Aside
  BY DEF vars
<1> QED
  BY <1>1, <1>2, <1>3, <1>4, <1>5, <1>6, <1>7 DEF Next, Lookup

\* Every step keeps what the control state of the lookup task means.
LEMMA PipelineStep ==
  ASSUME TypeOK, Pipeline, Unopened, [Next]_vars
  PROVE  Pipeline'
<1> USE DEF TypeOK, Pipeline, lookupVars, queryVars
<1>1. CASE Boot
  BY <1>1 DEF Boot
<1>2. CASE SkipRepeat
  BY <1>2 DEF SkipRepeat
<1>3. CASE DropUnloaded
  BY <1>3 DEF DropUnloaded
<1>4. CASE StartSearch
  BY <1>4 DEF StartSearch
<1>5. CASE SearchPanics
  BY <1>5 DEF SearchPanics
<1>6. CASE PublishResults
  BY <1>6 DEF PublishResults
<1>7. CASE RequestRepaint
  BY <1>7 DEF RequestRepaint
<1>8. CASE CancelLookup
  BY <1>8 DEF CancelLookup
<1>9. CASE Aside
  BY <1>9 DEF Aside
<1> QED
  BY StepCases, <1>1, <1>2, <1>3, <1>4, <1>5, <1>6, <1>7, <1>8, <1>9

\* Every step keeps a panel without a dictionary without results.
LEMMA UnopenedStep ==
  ASSUME TypeOK, Pipeline, Unopened, [Next]_vars
  PROVE  Unopened'
<1> USE DEF TypeOK, Pipeline, Unopened, lookupVars, queryVars, uiVars
<1>1. ~dict' => recent' = 0 /\ results' = 0 /\ lookup' \in {"idle", "dead"}
  <2>1. CASE Boot
    BY <2>1 DEF Boot
  <2>2. CASE SkipRepeat \/ DropUnloaded \/ CancelLookup
    BY <2>2 DEF SkipRepeat, DropUnloaded, CancelLookup
  <2>3. CASE StartSearch
    BY <2>3 DEF StartSearch
  <2>4. CASE SearchPanics \/ PublishResults \/ RequestRepaint
    BY <2>4 DEF SearchPanics, PublishResults, RequestRepaint
  <2>5. CASE Aside
    BY <2>5 DEF Aside
  <2> QED
    BY StepCases, <2>1, <2>2, <2>3, <2>4, <2>5
<1>2. ui' = "booting" => ui = "booting" /\ ~dict' /\ shown' = 0
  <2>1. ASSUME NEW m, Button(m) PROVE UNCHANGED <<uiVars, dict>>
    BY <2>1 DEF Button
  <2>2. ASSUME NEW w, Type(w) PROVE UNCHANGED <<uiVars, dict>>
    BY <2>2 DEF Type
  <2>3. ASSUME NEW s, Select(s) PROVE UNCHANGED <<uiVars, dict>>
    BY <2>3 DEF Select
  <2>4. ASSUME NEW g, Gesture(g) PROVE UNCHANGED <<uiVars, dict>>
    BY <2>4 DEF Gesture
  <2>5. Lookup => UNCHANGED <<uiVars, dict>>
    BY DEF Lookup, SkipRepeat, DropUnloaded, StartSearch, SearchPanics,
           PublishResults, RequestRepaint
  <2>6. ReadSelection \/ Expire \/ CancelLookup \/ CancelReader
          => UNCHANGED <<uiVars, dict>>
    BY DEF ReadSelection, Expire, CancelLookup, CancelReader
  <2>7. Connect \/ StreamEnds \/ RuntimeEnds \/ UNCHANGED vars
          => UNCHANGED <<uiVars, dict>>
    BY DEF Connect, StreamEnds, RuntimeEnds, vars
  <2>8. Boot \/ BootFail \/ HandleMsg \/ Draw => ui' # "booting"
    BY DEF Boot, BootFail, HandleMsg, Draw
  <2> QED
    BY <2>1, <2>2, <2>3, <2>4, <2>5, <2>6, <2>7, <2>8 DEF Next
<1> QED
  BY <1>1, <1>2

\* Only gestures change what was used and granted.
LEMMA GrantsAside ==
  ASSUME [Next]_vars
  PROVE  (\E g \in Gestures : Gesture(g)) \/ UNCHANGED <<used, grants>>
<1> USE DEF gestureVars
<1>1. ASSUME NEW m, Button(m) PROVE UNCHANGED <<used, grants>>
  BY <1>1 DEF Button
<1>2. ASSUME NEW w, Type(w) PROVE UNCHANGED <<used, grants>>
  BY <1>2 DEF Type
<1>3. ASSUME NEW s, Select(s) PROVE UNCHANGED <<used, grants>>
  BY <1>3 DEF Select
<1>4. Boot \/ BootFail \/ HandleMsg \/ Draw \/ ReadSelection \/ Lookup \/ Expire
        => UNCHANGED <<used, grants>>
  BY DEF Boot, BootFail, HandleMsg, Draw, ReadSelection, Expire, Lookup, SkipRepeat,
         DropUnloaded, StartSearch, SearchPanics, PublishResults, RequestRepaint
<1>5. Connect \/ StreamEnds \/ RuntimeEnds => UNCHANGED <<used, grants>>
  BY DEF Connect, StreamEnds, RuntimeEnds
<1>6. CancelLookup \/ CancelReader \/ UNCHANGED vars
        => UNCHANGED <<used, grants>>
  BY DEF CancelLookup, CancelReader, vars
<1> QED
  BY <1>1, <1>2, <1>3, <1>4, <1>5, <1>6 DEF Next

\* A toggle is granted only for a query newer than every one used before.
LEMMA GrantStep ==
  ASSUME TypeOK, Granted, OneTogglePerQuery, [Next]_vars
  PROVE  Granted' /\ OneTogglePerQuery'
<1>1. ASSUME NEW g \in Gestures, Gesture(g)
      PROVE  Granted' /\ OneTogglePerQuery'
  <2>1. CASE Acts(g) /\ AllowShow
    <3>1. used < recent
      BY <2>1 DEF AllowShow, TypeOK
    <3>2. grants' = Append(grants, recent)
      BY <1>1, <2>1 DEF Gesture
    <3>3. used' = recent
      BY <1>1, <2>1 DEF Gesture, Acts
    <3>4. /\ Len(grants') = Len(grants) + 1
          /\ \A i \in 1 .. Len(grants) : grants'[i] = grants[i]
          /\ grants'[Len(grants) + 1] = recent
          /\ \A i \in 1 .. Len(grants) : grants[i] \in Nat
          /\ Len(grants) \in Nat /\ recent \in Nat /\ used \in Nat
      BY <3>2 DEF TypeOK
    <3>5. Granted'
      BY <3>1, <3>3, <3>4 DEF Granted
    <3>6. OneTogglePerQuery'
      BY <3>1, <3>4 DEF Granted, OneTogglePerQuery
    <3> QED
      BY <3>5, <3>6
  <2>2. CASE ~(Acts(g) /\ AllowShow)
    <3>1. grants' = grants
      BY <1>1, <2>2 DEF Gesture
    <3>2. used' \in {used, recent}
      BY <1>1 DEF Gesture
    <3>3. \A i \in 1 .. Len(grants) : grants[i] \in Nat /\ grants[i] <= used'
      BY <3>2 DEF TypeOK, Granted
    <3> QED
      BY <3>1, <3>3 DEF Granted, OneTogglePerQuery
  <2> QED
    BY <2>1, <2>2
<1>2. CASE UNCHANGED <<used, grants>>
  BY <1>2 DEF Granted, OneTogglePerQuery
<1> QED
  BY GrantsAside, <1>1, <1>2

\* The log of texts only grows at its end.
LEMMA AskedGrows ==
  ASSUME TypeOK, [Next]_vars
  PROVE  /\ \/ \E w \in Words : asked' = Append(asked, w)
            \/ UNCHANGED asked
         /\ Len(asked') >= Len(asked)
         /\ \A k \in 1 .. Len(asked) : asked'[k] = asked[k]
<1> USE DEF channelVars
<1>1. (\E w \in Words : asked' = Append(asked, w)) \/ UNCHANGED asked
  <2>1. ASSUME NEW m, Button(m) PROVE UNCHANGED asked
    BY <2>1 DEF Button
  <2>2. ASSUME NEW w \in Words, Type(w) PROVE asked' = Append(asked, w)
    BY <2>2 DEF Type
  <2>3. ASSUME NEW s, Select(s) PROVE UNCHANGED asked
    BY <2>3 DEF Select
  <2>4. ASSUME NEW g, Gesture(g) PROVE UNCHANGED asked
    BY <2>4 DEF Gesture
  <2>5. Lookup \/ Expire \/ CancelLookup \/ CancelReader => UNCHANGED asked
    BY DEF Lookup, SkipRepeat, DropUnloaded, StartSearch, SearchPanics,
           PublishResults, RequestRepaint, Expire, CancelLookup, CancelReader
  <2>6. CASE ReadSelection
    BY <2>6 DEF ReadSelection
  <2>7. Boot \/ BootFail \/ HandleMsg \/ Draw \/ Connect \/ StreamEnds \/ RuntimeEnds
        \/ UNCHANGED vars
          => UNCHANGED asked
    BY DEF Boot, BootFail, HandleMsg, Draw, Connect, StreamEnds, RuntimeEnds, vars
  <2> QED
    BY <2>1, <2>2, <2>3, <2>4, <2>5, <2>6, <2>7 DEF Next
<1>2. ASSUME NEW w \in Words, asked' = Append(asked, w)
      PROVE  /\ Len(asked') >= Len(asked)
             /\ \A k \in 1 .. Len(asked) : asked'[k] = asked[k]
  BY <1>2 DEF TypeOK
<1>3. ASSUME UNCHANGED asked
      PROVE  /\ Len(asked') >= Len(asked)
             /\ \A k \in 1 .. Len(asked) : asked'[k] = asked[k]
  BY <1>3 DEF TypeOK
<1> QED
  BY <1>1, <1>2, <1>3

\* An answered text stays answered, and a skipped one has its answer.
LEMMA LatestStep ==
  ASSUME TypeOK, Pipeline, LatestAnswered, [Next]_vars
  PROVE  LatestAnswered'
<1> USE DEF TypeOK, LatestAnswered, lookupVars, queryVars, channelVars
<1>1. CASE Aside
  BY <1>1, AskedGrows DEF Aside
<1>2. CASE SkipRepeat
  BY <1>2 DEF SkipRepeat, IsRepeat, Pipeline
<1>3. CASE DropUnloaded
  BY <1>3 DEF DropUnloaded
<1>4. CASE StartSearch \/ SearchPanics \/ PublishResults \/ CancelLookup
  BY <1>4 DEF StartSearch, SearchPanics, PublishResults, CancelLookup
<1>5. CASE RequestRepaint
  BY <1>5 DEF RequestRepaint, Pipeline
<1>6. CASE Boot
  BY <1>6 DEF Boot
<1> QED
  BY StepCases, <1>1, <1>2, <1>3, <1>4, <1>5, <1>6

RepaintQueued == \E i \in 1 .. Len(msgs) : msgs[i] = "Repaint"

\* A message that is sent does not displace a repaint.
LEMMA QueueKept ==
  ASSUME TypeOK, RepaintQueued, NEW s \in Seq(Msg), msgs' = msgs \o s
  PROVE  RepaintQueued'
<1>1. PICK i \in 1 .. Len(msgs) : msgs[i] = "Repaint"
  BY DEF RepaintQueued
<1>2. i \in 1 .. Len(msgs \o s) /\ (msgs \o s)[i] = msgs[i]
  BY DEF TypeOK
<1> QED
  BY <1>1, <1>2 DEF RepaintQueued

\* The results a visible panel lacks keep their repaint on its way.
LEMMA RepaintStep ==
  ASSUME TypeOK, Unopened, RepaintPending, [Next]_vars
  PROVE  RepaintPending'
<1> USE DEF RepaintPending, uiVars, lookupVars
<1> DEFINE Calm == UNCHANGED <<ui, visible, shown, results>>
           Kept == RepaintQueued => RepaintQueued'
<1>1. ASSUME Calm, Kept, lookup = "repaint" => lookup' = "repaint"
      PROVE  RepaintPending'
  BY <1>1 DEF RepaintQueued
<1>2. ASSUME UNCHANGED msgs PROVE Kept
  BY <1>2 DEF RepaintQueued
<1>3. CASE Boot
  BY <1>3 DEF Boot, Unopened
<1>4. CASE BootFail
  BY <1>4 DEF BootFail
<1>5. CASE HandleMsg
  BY <1>5 DEF HandleMsg, Frame
<1>6. ASSUME NEW m \in {"Hide", "Exit"}, Button(m) PROVE RepaintPending'
  <2>1. msgs' = msgs \o <<m>> /\ <<m>> \in Seq(Msg)
    <3>1. m \in Msg
      BY DEF Msg
    <3> QED
      BY <1>6, <3>1 DEF Button, TypeOK
  <2> QED
    BY <1>1, <1>6, <2>1, QueueKept DEF Button
<1>7. ASSUME NEW w, Type(w) PROVE RepaintPending'
  BY <1>1, <1>2, <1>7 DEF Type
<1>8. ASSUME NEW s, Select(s) PROVE RepaintPending'
  BY <1>1, <1>2, <1>8 DEF Select
<1>9. CASE ReadSelection \/ Expire
  BY <1>1, <1>2, <1>9 DEF ReadSelection, Expire
<1>10. CASE SkipRepeat \/ DropUnloaded \/ StartSearch \/ SearchPanics
  BY <1>1, <1>2, <1>10 DEF SkipRepeat, DropUnloaded, StartSearch, SearchPanics
<1>11. CASE PublishResults
  BY <1>11 DEF PublishResults
<1>12. CASE RequestRepaint
  <2>1. /\ Len(msgs) + 1 \in 1 .. Len(msgs')
        /\ msgs'[Len(msgs) + 1] = "Repaint"
    BY <1>12 DEF RequestRepaint, TypeOK
  <2> QED
    BY <2>1
<1>13. CASE Connect \/ StreamEnds \/ RuntimeEnds
  BY <1>1, <1>2, <1>13 DEF Connect, StreamEnds, RuntimeEnds
<1>14. ASSUME NEW g \in Gestures, Gesture(g) PROVE RepaintPending'
  <2>1. PICK s \in Seq(Msg) : msgs' = msgs \o s
    <3>1. TapMsgs(g) \in Seq(Msg)
      BY SentIsSeq DEF TapMsgs
    <3> DEFINE chord == IF g.chord THEN <<"Toggle">> ELSE <<>>
    <3>2. chord \in Seq(Msg)
      BY SentIsSeq
    <3>3. msgs' = (msgs \o TapMsgs(g)) \o chord
      BY <1>14 DEF Gesture
    <3> HIDE DEF chord
    <3>4. TapMsgs(g) \o chord \in Seq(Msg)
      BY <3>1, <3>2, ConcatProperties
    <3>5. (msgs \o TapMsgs(g)) \o chord = msgs \o (TapMsgs(g) \o chord)
      <4> HIDE DEF chord
      <4> QED
        BY <3>1, <3>2, TwoSends DEF TypeOK
    <3> QED
      BY <3>3, <3>4, <3>5
  <2>2. Kept
    BY <2>1, QueueKept
  <2> QED
    BY <1>1, <1>14, <2>2 DEF Gesture
<1>15. CASE CancelLookup \/ CancelReader
  BY <1>1, <1>2, <1>15 DEF CancelLookup, CancelReader
<1>16. CASE UNCHANGED vars
  BY <1>1, <1>2, <1>16 DEF vars
<1>17. CASE Draw
  BY <1>17 DEF Draw, Frame
<1> QED
  BY <1>3, <1>4, <1>5, <1>6, <1>7, <1>8, <1>9, <1>10, <1>11, <1>12, <1>13,
     <1>14, <1>15, <1>16, <1>17 DEF Next, Lookup

(***************************************************************************)
(* The strengthened invariant holds in every behaviour of the panel,       *)
(* whatever the tasks, gestures, selections and failures interleave.       *)
(***************************************************************************)
THEOREM Invariance == Spec => []IInv
<1>1. IInv /\ [Next]_vars => IInv'
  <2> SUFFICES ASSUME IInv, [Next]_vars PROVE IInv'
    OBVIOUS
  <2> USE DEF IInv
  <2>1. TypeOK'
    BY TypeStep
  <2>2. Pipeline' /\ Unopened'
    BY PipelineStep, UnopenedStep
  <2>3. Granted' /\ OneTogglePerQuery'
    BY GrantStep
  <2>4. LatestAnswered' /\ RepaintPending'
    BY LatestStep, RepaintStep
  <2> QED
    BY <2>1, <2>2, <2>3, <2>4
<1> QED
  BY InitIInv, <1>1, PTL DEF Spec

(***************************************************************************)
(* The positions by which the tasks name queries stay within the log of    *)
(* texts (main.rs:59, 108, 186, 246), for every number of texts.           *)
(***************************************************************************)
THEOREM TypeCorrect == Spec => []TypeOK
<1>1. IInv => TypeOK
  BY DEF IInv
<1> QED
  BY Invariance, <1>1, PTL

(***************************************************************************)
(* An idle lookup task that had a dictionary has published the answer to   *)
(* the last text it received (main.rs:188-227).                            *)
(***************************************************************************)
THEOREM LatestIsAnswered == Spec => []LatestAnswered
<1>1. IInv => LatestAnswered
  BY DEF IInv
<1> QED
  BY Invariance, <1>1, PTL

(***************************************************************************)
(* New results never miss their repaint (main.rs:225-226).                 *)
(***************************************************************************)
THEOREM RepaintIsPending == Spec => []RepaintPending
<1>1. IInv => RepaintPending
  BY DEF IInv
<1> QED
  BY Invariance, <1>1, PTL

(***************************************************************************)
(* RECENT_QUERY is the query of the published results, or the one whose    *)
(* search runs or has panicked (main.rs:200).                              *)
(***************************************************************************)
THEOREM RecentNamesCurrent == Spec => []RecentIsCurrent
<1>1. IInv => RecentIsCurrent
  BY DEF IInv, TypeOK, Pipeline, RecentIsCurrent
<1> QED
  BY Invariance, <1>1, PTL

(***************************************************************************)
(* The taps toggle the panel at most once for a query (main.rs:252-261).   *)
(***************************************************************************)
THEOREM TogglesAreDistinct == Spec => []OneTogglePerQuery
<1>1. IInv => OneTogglePerQuery
  BY DEF IInv
<1> QED
  BY Invariance, <1>1, PTL

(***************************************************************************)
(* The panel implements the feed of queries: the tasks, their failures and *)
(* the shutdown never publish answers out of order nor pass over a text    *)
(* that an open dictionary has not answered.                               *)
(***************************************************************************)
THEOREM PanelImplementsFeed == Spec => ImplementsFeed
<1> USE DEF Disposed, Feed!feedVars
<1>1. Init => Feed!Init
  BY DEF Init, Feed!Init
<1>2. ASSUME IInv, [Next]_vars PROVE [Feed!Next]_(Feed!feedVars)
  <2> USE DEF lookupVars, queryVars, channelVars
  <2>1. TypeOK /\ Pipeline /\ Unopened
    BY <1>2 DEF IInv
  <2>2. CASE Boot
    <3>1. Feed!Open
      BY <2>2, <2>1, <1>2 DEF Boot, Unopened, Feed!Open
    <3> QED
      BY <3>1 DEF Feed!Next
  <2>3. CASE SkipRepeat
    <3>1. Feed!PassOver
      BY <2>3, <2>1 DEF SkipRepeat, Received, IsRepeat, TypeOK, Pipeline,
                        Feed!PassOver, Feed!Answered
    <3> QED
      BY <3>1 DEF Feed!Next
  <2>4. CASE DropUnloaded
    <3>1. Feed!PassOver
      BY <2>4, <2>1 DEF DropUnloaded, Received, TypeOK, Pipeline, Feed!PassOver
    <3> QED
      BY <3>1 DEF Feed!Next
  <2>5. CASE StartSearch
    BY <2>5, <2>1 DEF StartSearch, TypeOK, Pipeline
  <2>6. CASE PublishResults
    <3>1. Feed!Publish
      BY <2>6, <2>1 DEF PublishResults, TypeOK, Pipeline, Unopened, Feed!Publish
    <3> QED
      BY <3>1 DEF Feed!Next
  <2>7. CASE SearchPanics \/ RequestRepaint \/ CancelLookup
    BY <2>7 DEF SearchPanics, RequestRepaint, CancelLookup
  <2>8. CASE Aside
    <3>1. UNCHANGED <<Disposed, results, dict>>
      BY <2>8 DEF Aside
    <3>2. ASSUME NEW w \in Words, asked' = Append(asked, w)
          PROVE  Feed!Ask(w)
      BY <3>1, <3>2 DEF Feed!Ask
    <3> QED
      BY <1>2, <2>1, <3>1, <3>2, AskedGrows DEF Feed!Next
  <2> QED
    BY <1>2, StepCases, <2>2, <2>3, <2>4, <2>5, <2>6, <2>7, <2>8
<1> QED
  BY <1>1, <1>2, Invariance, PTL DEF Spec, ImplementsFeed, Feed!Spec

================================================================================
