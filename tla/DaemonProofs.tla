------------------------------ MODULE DaemonProofs -----------------------------
(***************************************************************************)
(* Proofs about the daemon.  What the prompt has dealt with follows from   *)
(* where its readers' intervals lie among the newlines (Held, Past, and    *)
(* AtTerminal, where a read never passes a newline); that requests fail    *)
(* for themselves follows from who can have poisoned the lock (Poisoning). *)
(***************************************************************************)
EXTENDS Daemon, SequenceTheorems, InductionLemmas

(***************************************************************************)
(* A nonempty set of numbers has the least member that Least chooses.      *)
(***************************************************************************)
LEMMA LeastOf ==
  ASSUME NEW S \in SUBSET Nat, S # {}
  PROVE  Least(S) \in S /\ \A m \in S : Least(S) <= m
<1>1. \E n \in S : \A m \in S : n <= m
  BY LeastNumber
<1>2. QED
  BY <1>1 DEF Least

(***************************************************************************)
(* One read(2) stays within what was written, and at a terminal it does    *)
(* not pass a newline.                                                     *)
(***************************************************************************)
LEMMA ReadStops ==
  ASSUME TypeOK
  PROVE  /\ ReadEnd \in fetched .. written
         /\ terminal => \A p \in LineEnds : p > fetched => p >= ReadEnd
<1> DEFINE S == {written, fetched + Chunk} \cup
                IF terminal THEN LineEnds \cap (fetched + 1 .. written) ELSE {}
<1>1. /\ Len(Script) \in Nat /\ Chunk \in Nat
      /\ written \in 0 .. Len(Script) /\ fetched \in 0 .. written
      /\ LineEnds \subseteq 1 .. Len(Script)
  BY DaemonAssumption DEF TypeOK, LineEnds
<1>2. S \in SUBSET Nat /\ written \in S /\ \A n \in S : n >= fetched
  BY <1>1
<1>3. \A p \in LineEnds : terminal /\ p > fetched /\ p <= written => p \in S
  BY <1>1
<1>4. ReadEnd = Least(S)
  BY DEF ReadEnd
<1> HIDE DEF S
<1>5. ReadEnd \in S /\ \A m \in S : ReadEnd <= m
  BY <1>2, <1>4, LeastOf
<1>6. QED
  BY <1>1, <1>2, <1>3, <1>5

(* Where everybody is, and who holds the cache.                            *)
Places == /\ at \in [Actors -> Stages \cup RequestStages]
          /\ at[Prompt] \in Stages /\ \A r \in Requests : at[r] \in RequestStages
          /\ poisoned \in BOOLEAN /\ cache \in Actors \cup {Free}
          /\ \A x \in Actors : cache = x <=> at[x] = "query"

(***************************************************************************)
(* A panic keeps the stages and the cache in order.                        *)
(***************************************************************************)
LEMMA PanicPlaces ==
  ASSUME Places, NEW x \in Actors, Panic(x)
  PROVE  Places'
<1>1. CASE x = Prompt
  BY <1>1, DaemonAssumption DEF Places, Panic, Goto, Actors, Stages, RequestStages
<1>2. CASE x # Prompt
  BY <1>2, DaemonAssumption DEF Places, Panic, Goto, Actors, Stages, RequestStages
<1>3. QED
  BY <1>1, <1>2

\* A move that takes or gives back the lock keeps everyone in place.
LEMMA GotoPlaces ==
  ASSUME Places, NEW x \in Actors, NEW there,
         Goto(x, there), UNCHANGED poisoned,
         there \in IF x = Prompt THEN Stages ELSE RequestStages,
         cache' = IF there = "query" THEN x ELSE IF cache = x THEN Free ELSE cache,
         there = "query" => cache = Free
  PROVE  Places'
  BY DaemonAssumption DEF Places, Goto, Actors, Stages, RequestStages

(* The intervals of the input, and of the lines taken from it.             *)
Intervals ==
  /\ terminal \in BOOLEAN /\ ended \in BOOLEAN
  /\ written \in 0 .. Len(Script) /\ fetched \in 0 .. written
  /\ taken \in 0 .. fetched /\ from \in 1 .. taken + 1
  /\ line \in (1 .. Len(Script) + 1) \X (0 .. Len(Script))
  /\ done \in Seq((1 .. Len(Script) + 1) \X (0 .. Len(Script)))

\* The type invariant, taken apart: who is where, and the input.
LEMMA TypeParts == TypeOK <=> Places /\ Intervals
  BY DEF TypeOK, Places, Intervals

(***************************************************************************)
(* The least newline between two places.                                   *)
(***************************************************************************)
LEMMA NewlineFound ==
  ASSUME Intervals, Newlines # {}
  PROVE  /\ Least(Newlines) \in LineEnds /\ Least(Newlines) \in from .. taken
         /\ \A p \in LineEnds : p >= from => p >= Least(Newlines)
<1>1. Newlines \in SUBSET Nat
  BY DEF Newlines, LineEnds
<1>2. Least(Newlines) \in Newlines /\ \A m \in Newlines : Least(Newlines) <= m
  BY <1>1, LeastOf
<1>3. ASSUME NEW p \in LineEnds, p >= from PROVE p >= Least(Newlines)
  <2>1. p \in Nat /\ from \in Nat /\ taken \in Nat
    BY DEF LineEnds, Intervals
  <2>2. Least(Newlines) \in from .. taken
    BY <1>2 DEF Newlines
  <2>3. p <= taken => p \in Newlines
    BY <1>3, <2>1 DEF Newlines
  <2>4. QED
    BY <1>2, <2>1, <2>2, <2>3
<1>4. QED
  BY <1>2, <1>3 DEF Newlines

(***************************************************************************)
(* Every step keeps everybody at a stage of his own, and the cache with    *)
(* who is in its query.                                                    *)
(***************************************************************************)
LEMMA PlacesStep == TypeOK /\ [Next]_vars => Places'
<1> SUFFICES ASSUME TypeOK, [Next]_vars PROVE Places'
  OBVIOUS
<1>0. Places /\ Prompt \in Actors /\ Free \notin Actors
  BY TypeParts, DaemonAssumption DEF Actors
<1>1. CASE UNCHANGED <<at, lockVars>>
  BY <1>0, <1>1 DEF Places, lockVars
<1>2. ASSUME NEW x \in Actors, Panic(x) PROVE Places'
  BY <1>0, <1>2, PanicPlaces
<1>3. ASSUME NEW x \in Actors, NEW there, Goto(x, there), UNCHANGED lockVars,
             at[x] # "query", there # "query",
             there \in IF x = Prompt THEN Stages ELSE RequestStages
      PROVE  Places'
  <2>1. cache # x
    BY <1>0, <1>3 DEF Places
  <2>2. QED
    BY <1>0, <1>3, <2>1, GotoPlaces DEF lockVars
<1>4. CASE Write \/ EndInput \/ Take
  BY <1>1, <1>4 DEF Write, EndInput, Take
<1>5. CASE Fill \/ NextLine
  BY <1>0, <1>3, <1>5 DEF Fill, NextLine, Stages
<1>6. CASE LastLine
  BY <1>0, <1>2, <1>3, <1>6 DEF LastLine, Stages
<1>7. CASE Trim
  BY <1>0, <1>3, <1>7 DEF Trim, Stages
<1>8. ASSUME NEW r \in Requests, Send(r) \/ Accept(r) PROVE Places'
  <2>1. r \in Actors /\ r # Prompt
    BY DaemonAssumption DEF Actors
  <2>2. QED
    BY <1>3, <1>8, <2>1 DEF Send, Accept, RequestStages
<1>9. ASSUME NEW r \in Requests, Handle(r) PROVE Places'
  <2>1. r \in Actors /\ r # Prompt
    BY DaemonAssumption DEF Actors
  <2>2. QED
    BY <1>2, <1>3, <1>9, <2>1 DEF Handle, RequestStages
<1>10. ASSUME NEW x \in Actors, Lock(x) PROVE Places'
  <2>1. CASE ~poisoned
    BY <1>0, <1>10, <2>1, GotoPlaces DEF Lock, Stages, RequestStages
  <2>2. QED
    BY <1>2, <1>10, <2>1 DEF Lock
<1>11. ASSUME NEW x \in Actors, Query(x) PROVE Places'
  <2>1. CASE ~(Text(x) \in Crashing)
    <3>1. cache = x
      BY <1>0, <1>11 DEF Query, Places
    <3>2. QED
      BY <1>0, <1>11, <2>1, <3>1, GotoPlaces DEF Query, Stages, RequestStages
  <2>2. QED
    BY <1>2, <1>11, <2>1 DEF Query
<1>12. ASSUME NEW x \in Actors, Retrieve(x) PROVE Places'
  <2>1. CASE ~(Text(x) \in Stale)
    BY <1>0, <1>12, <2>1, GotoPlaces DEF Retrieve, Stages, RequestStages
  <2>2. QED
    BY <1>2, <1>12, <2>1 DEF Retrieve
<1>13. CASE UNCHANGED vars
  BY <1>1, <1>13 DEF vars, lockVars
<1>14. QED
  BY <1>0, <1>4, <1>5, <1>6, <1>7, <1>8, <1>9, <1>10, <1>11, <1>12, <1>13
     DEF Next, ReadLine, Serve, Search, Actors

(***************************************************************************)
(* The intervals stay in order: dealt with, read, fetched, written.        *)
(***************************************************************************)
LEMMA IntervalsStep == TypeOK /\ [Next]_vars => Intervals'
<1> SUFFICES ASSUME TypeOK, [Next]_vars PROVE Intervals'
  OBVIOUS
<1>0. Intervals /\ Len(Script) \in Nat
  BY TypeParts, DaemonAssumption
<1>1. CASE UNCHANGED <<inputVars, done>>
  BY <1>0, <1>1 DEF Intervals, inputVars
<1>2. CASE Write
  BY <1>0, <1>2 DEF Intervals, Write
<1>3. CASE EndInput
  BY <1>0, <1>3 DEF Intervals, EndInput
<1>4. CASE Fill
  <2>1. fetched' \in fetched .. written /\ ended' \in BOOLEAN
    <3>1. CASE taken < fetched
      BY <1>0, <1>4, <3>1 DEF Intervals, Fill
    <3>2. CASE ~(taken < fetched)
      <4>1. fetched' = ReadEnd /\ EndSeen
        BY <1>4, <3>2 DEF Fill
      <4>2. ended' \in BOOLEAN
        BY <4>1 DEF EndSeen
      <4>3. QED
        BY <4>1, <4>2, ReadStops
    <3>3. QED
      BY <3>1, <3>2
  <2>2. UNCHANGED <<terminal, written, taken, line, done>> /\ from' = taken + 1
    BY <1>4 DEF Fill
  <2>3. QED
    BY <1>0, <2>1, <2>2 DEF Intervals
<1>5. CASE Take
  BY <1>0, <1>5, ReadStops DEF Intervals, Take
<1>6. CASE NextLine
  <2>1. Least(Newlines) \in from .. taken
    BY <1>0, <1>6, NewlineFound DEF NextLine
  <2>2. QED
    BY <1>0, <1>6, <2>1 DEF Intervals, NextLine
<1>7. CASE LastLine
  <2>1. UNCHANGED <<terminal, written, fetched, taken, from, done>> /\ ended' \in BOOLEAN
    BY <1>0, <1>7 DEF LastLine, EndSeen, Intervals
  <2>2. line' \in (1 .. Len(Script) + 1) \X (0 .. Len(Script))
    BY <1>0, <1>7 DEF LastLine, Intervals
  <2>3. QED
    BY <1>0, <2>1, <2>2 DEF Intervals
<1>8. ASSUME UNCHANGED inputVars, done' = done \/ done' = Append(done, line)
      PROVE  Intervals'
  <2> DEFINE I == (1 .. Len(Script) + 1) \X (0 .. Len(Script))
  <2>1. done' \in Seq(I)
    <3>1. done \in Seq(I) /\ line \in I
      BY <1>0 DEF Intervals
    <3> HIDE DEF I
    <3>2. QED
      BY <1>8, <3>1, AppendProperties
  <2>2. QED
    BY <1>0, <1>8, <2>1 DEF Intervals, inputVars
<1>9. CASE Trim
  BY <1>8, <1>9 DEF Trim
<1>10. ASSUME NEW x \in Actors, Search(x) PROVE Intervals'
  BY <1>8, <1>10 DEF Search, Lock, Query, Retrieve
<1>11. ASSUME NEW r \in Requests, Send(r) \/ Accept(r) \/ Handle(r) PROVE Intervals'
  BY <1>1, <1>11 DEF Send, Accept, Handle
<1>12. CASE UNCHANGED vars
  BY <1>1, <1>12 DEF vars, inputVars
<1>13. Prompt \in Actors /\ Requests \subseteq Actors
  BY DEF Actors
<1>14. QED
  BY <1>2, <1>3, <1>4, <1>5, <1>6, <1>7, <1>9, <1>10, <1>11, <1>12, <1>13
     DEF Next, ReadLine, Serve

(***************************************************************************)
(* The type invariant holds for every script, every buffer size and every  *)
(* set of requests.                                                        *)
(***************************************************************************)
THEOREM TypeCorrect == Spec => []TypeOK
<1>1. Init => TypeOK
  <2>1. Init => Places
    BY DaemonAssumption DEF Init, Places, Actors, Stages, RequestStages
  <2>2. Init => Intervals
    <3> SUFFICES ASSUME Init PROVE Intervals
      OBVIOUS
    <3>1. Len(Script) \in Nat
      BY DaemonAssumption
    <3>2. line \in (1 .. Len(Script) + 1) \X (0 .. Len(Script))
      BY <3>1 DEF Init
    <3>3. done \in Seq((1 .. Len(Script) + 1) \X (0 .. Len(Script)))
      BY DEF Init
    <3>4. /\ written \in 0 .. Len(Script) /\ fetched \in 0 .. written
          /\ taken \in 0 .. fetched /\ from \in 1 .. taken + 1
      BY <3>1 DEF Init
    <3>5. terminal \in BOOLEAN /\ ended \in BOOLEAN
      BY DEF Init
    <3>6. QED
      BY <3>2, <3>3, <3>4, <3>5 DEF Intervals
  <2>3. QED
    BY <2>1, <2>2, TypeParts
<1>2. TypeOK /\ [Next]_vars => TypeOK'
  <2>1. Places' /\ Intervals' => TypeOK'
    BY DEF TypeOK, Places, Intervals
  <2>2. QED
    BY <2>1, PlacesStep, IntervalsStep
<1>3. QED
  BY <1>1, <1>2, PTL DEF Spec
(* Whose panic poisoned the cache's lock.                                  *)
Poisoning ==
  poisoned => \E x \in Actors : at[x] \in {"failed", "gone"} /\ Text(x) \in Crashing

(***************************************************************************)
(* Whoever has panicked stays so, with his text.                           *)
(***************************************************************************)
LEMMA DeadStay ==
  ASSUME TypeOK, [Next]_vars, NEW x \in Actors, at[x] \in {"failed", "gone"}
  PROVE  at'[x] = at[x] /\ Text(x)' = Text(x)
<1>0. Places /\ Prompt \in Actors /\ Requests \subseteq Actors
  BY TypeParts DEF Actors
<1>1. x = Prompt => at[x] = "gone"
  BY <1>0 DEF Places, Stages
<1>2. x # Prompt => at[x] = "failed" /\ x \in Requests
  BY <1>0 DEF Places, RequestStages, Actors
<1>3. ASSUME NEW y \in Actors, Panic(y), at[y] \notin {"failed", "gone"}
      PROVE  at'[x] = at[x]
  BY <1>0, <1>1, <1>2, <1>3 DEF Panic, Goto, Places
<1>4. ASSUME NEW y \in Actors, NEW there, Goto(y, there),
             at[y] \notin {"failed", "gone"}
      PROVE  at'[x] = at[x]
  BY <1>0, <1>4 DEF Goto, Places
<1>5. line' = line \/ x # Prompt
  BY <1>1 DEF Next, ReadLine, Search, Serve, vars, inputVars, Write, EndInput,
     Fill, Take, NextLine, LastLine, Trim, Lock, Query, Retrieve, Send, Accept, Handle
<1>6. Text(x)' = Text(x)
  <2>1. CASE x = Prompt
    BY <1>5, <2>1 DEF Text
  <2>2. CASE x # Prompt
    BY <2>2 DEF Text
  <2>3. QED
    BY <2>1, <2>2
<1>7. CASE UNCHANGED at
  BY <1>6, <1>7
<1>8. CASE ReadLine
  <2>1. CASE Fill \/ Take \/ NextLine
    BY <1>0, <1>4, <1>6, <1>7, <2>1 DEF Fill, Take, NextLine
  <2>2. CASE LastLine
    BY <1>0, <1>3, <1>4, <1>6, <2>2 DEF LastLine
  <2>3. CASE Trim
    BY <1>0, <1>4, <1>6, <2>3 DEF Trim
  <2>4. QED
    BY <1>8, <2>1, <2>2, <2>3 DEF ReadLine
<1>9. ASSUME NEW y \in Actors, Search(y) PROVE at'[x] = at[x]
  BY <1>3, <1>4, <1>9 DEF Search, Lock, Query, Retrieve
<1>10. ASSUME NEW r \in Requests, Send(r) \/ Accept(r) \/ Handle(r)
       PROVE  at'[x] = at[x]
  BY <1>0, <1>3, <1>4, <1>10 DEF Send, Accept, Handle
<1>11. QED
  BY <1>0, <1>6, <1>7, <1>8, <1>9, <1>10
     DEF Next, Serve, Write, EndInput, vars

Blamed == \E x \in Actors : at[x] \in {"failed", "gone"} /\ Text(x) \in Crashing

(***************************************************************************)
(* A step of the daemon keeps a poisoned lock and every failed request     *)
(* accounted for: a panic under the lock is the index's own.               *)
(***************************************************************************)
LEMMA BlameStep ==
  ASSUME TypeOK, Poisoning, FailsForItself, [Next]_vars
  PROVE  Poisoning' /\ FailsForItself'
<1>0. Places /\ Prompt \in Actors /\ Requests \subseteq Actors /\ Prompt \notin Requests
  BY TypeParts, DaemonAssumption DEF Actors
<1>1. Blamed => Blamed'
  BY DeadStay DEF Blamed
<1>2. Blamed' => Poisoning' /\ FailsForItself'
  BY DEF Blamed, Poisoning, FailsForItself
<1>3. poisoned => Blamed
  BY DEF Poisoning, Blamed
<1>4. \A r \in Requests : at[r] = "failed" => Blamed \/ QueryOf[r] \in Stale \cup {Undecodable}
  BY DEF FailsForItself, Blamed
<1>5. ASSUME poisoned' => poisoned,
             \A r \in Requests : at'[r] = "failed" =>
                at[r] = "failed" \/ QueryOf[r] \in Stale \cup {Undecodable}
      PROVE  Poisoning' /\ FailsForItself'
  <2>1. poisoned' => Blamed'
    BY <1>1, <1>3, <1>5
  <2>2. \A r \in Requests : at'[r] = "failed" =>
           Blamed' \/ QueryOf[r] \in Stale \cup {Undecodable}
    BY <1>1, <1>4, <1>5
  <2>3. QED
    BY <2>1, <2>2 DEF Poisoning, FailsForItself, Blamed
<1>6. ASSUME NEW x \in Actors, Panic(x), at[x] # "query",
             x = Prompt \/ QueryOf[x] \in Stale \cup {Undecodable}
      PROVE  Poisoning' /\ FailsForItself'
  <2>1. poisoned' => poisoned
    BY <1>0, <1>6 DEF Panic, Places
  <2>2. ASSUME NEW r \in Requests, at'[r] = "failed"
        PROVE  at[r] = "failed" \/ QueryOf[r] \in Stale \cup {Undecodable}
    <3>1. CASE x = Prompt
      BY <1>0, <1>6, <2>2, <3>1 DEF Panic
    <3>2. CASE x # Prompt
      BY <1>0, <1>6, <2>2, <3>2 DEF Panic, Goto, Places
    <3>3. QED
      BY <3>1, <3>2
  <2>3. QED
    BY <1>5, <2>1, <2>2
<1>7. ASSUME NEW x \in Actors, NEW there, Goto(x, there), there # "failed", UNCHANGED poisoned
      PROVE  Poisoning' /\ FailsForItself'
  BY <1>0, <1>5, <1>7 DEF Goto, Places
<1>8. CASE UNCHANGED <<at, poisoned>>
  BY <1>5, <1>8
<1>9. CASE ReadLine
  <2>1. CASE Fill \/ NextLine
    BY <1>0, <1>7, <2>1 DEF Fill, NextLine, lockVars
  <2>2. CASE Take
    BY <1>8, <2>2 DEF Take, lockVars
  <2>3. CASE LastLine
    BY <1>0, <1>6, <1>7, <2>3 DEF LastLine, lockVars
  <2>4. CASE Trim
    BY <1>0, <1>7, <2>4 DEF Trim, lockVars
  <2>5. QED
    BY <1>9, <2>1, <2>2, <2>3, <2>4 DEF ReadLine
<1>10. ASSUME NEW x \in Actors, Lock(x) PROVE Poisoning' /\ FailsForItself'
  <2>1. CASE poisoned
    BY <1>1, <1>2, <1>3, <2>1
  <2>2. CASE ~poisoned
    BY <1>7, <1>10, <2>2 DEF Lock
  <2>3. QED
    BY <2>1, <2>2
<1>11. ASSUME NEW x \in Actors, Query(x) PROVE Poisoning' /\ FailsForItself'
  <2>1. CASE Text(x) \in Crashing
    <3>1. Panic(x) /\ Text(x)' = Text(x)
      BY <1>11, <2>1 DEF Query, inputVars, Text
    <3>2. at'[x] \in {"failed", "gone"}
      BY <1>0, <3>1 DEF Panic, Goto, Places
    <3>3. QED
      BY <1>2, <2>1, <3>1, <3>2 DEF Blamed
  <2>2. CASE Text(x) \notin Crashing
    BY <1>7, <1>11, <2>2 DEF Query
  <2>3. QED
    BY <2>1, <2>2
<1>12. ASSUME NEW x \in Actors, Retrieve(x) PROVE Poisoning' /\ FailsForItself'
  <2>1. CASE Text(x) \in Stale
    <3>1. Panic(x) /\ at[x] # "query"
      BY <1>12, <2>1 DEF Retrieve
    <3>2. x = Prompt \/ QueryOf[x] \in Stale
      BY <2>1 DEF Text
    <3>3. QED
      BY <1>6, <3>1, <3>2
  <2>2. CASE Text(x) \notin Stale
    BY <1>7, <1>12, <2>2 DEF Retrieve
  <2>3. QED
    BY <2>1, <2>2
<1>13. ASSUME NEW r \in Requests, Send(r) \/ Accept(r) \/ Handle(r)
       PROVE  Poisoning' /\ FailsForItself'
  <2>1. CASE Send(r) \/ Accept(r)
    BY <1>0, <1>7, <2>1 DEF Send, Accept, lockVars
  <2>2. CASE Handle(r)
    BY <1>0, <1>6, <1>7, <2>2 DEF Handle, lockVars
  <2>3. QED
    BY <1>13, <2>1, <2>2
<1>14. QED
  BY <1>0, <1>8, <1>9, <1>10, <1>11, <1>12, <1>13
     DEF Next, Serve, Search, Write, EndInput, vars, lockVars

(***************************************************************************)
(* Requests fail for themselves, whatever they ask and in whatever order   *)
(* the searches take the lock.                                             *)
(***************************************************************************)
THEOREM RequestsFailForThemselves == Spec => []FailsForItself
<1>2. Init => Poisoning /\ FailsForItself
  BY DaemonAssumption DEF Init, Poisoning, FailsForItself, Actors
<1>3. TypeOK /\ Poisoning /\ FailsForItself /\ [Next]_vars
        => (Poisoning /\ FailsForItself)'
  BY BlameStep
<1>4. QED
  BY <1>2, <1>3, TypeCorrect, PTL DEF Spec

--------------------------------------------------------------------------------
(* The lines of the prompt.                                                *)

Answering == {"got", "search", "query", "retrieve"}
Reading == Answering \cup {"line"}
Starts == {0} \cup LineEnds
Dealt == {done[i] : i \in 1 .. Len(done)}

(* What may be answered: no newline in it, and a newline or the end of a   *)
(* closed pipe after it.                                                   *)
Answerable(l) ==
  /\ \A p \in l[1] .. l[2] : p \notin LineEnds
  /\ \/ l[2] + 1 \in LineEnds /\ l[2] < written
     \/ l[2] = written /\ ended /\ ~terminal

Held == at[Prompt] \in Answering =>
          Answerable(line) /\ line[1] = from /\ line[2] <= taken

Past ==
  /\ \A i \in 1 .. Len(done) :
       /\ Answerable(done[i]) /\ done[i][2] <= taken
       /\ at[Prompt] \in Reading => done[i][2] < from
  /\ \A i \in 1 .. Len(done) - 1 : done[i][2] < done[i + 1][1]

(* At a terminal the readers never pass the newline that ends the line, so *)
(* that nothing is buffered when the prompt waits.                         *)
AtTerminal ==
  terminal =>
    /\ ended => written \in Starts
    /\ at[Prompt] = "fill" =>
         taken = fetched /\ taken \in Starts /\ Dealt = LinesUpTo(taken)
    /\ at[Prompt] \in Reading =>
         /\ from - 1 \in Starts /\ Dealt = LinesUpTo(from - 1)
         /\ \A p \in LineEnds : p >= from => p >= fetched
    /\ at[Prompt] \in Answering =>
         /\ taken = fetched /\ taken \in LineEnds
         /\ from <= taken /\ line = <<from, taken - 1>>

Lines == Held /\ Past /\ AtTerminal

(***************************************************************************)
(* Between two newlines, or the beginning and a newline, lies one line.    *)
(***************************************************************************)
LEMMA OneMoreLine ==
  ASSUME NEW s \in Starts, NEW e \in LineEnds, s < e,
         \A p \in LineEnds : p > s => p >= e
  PROVE  LinesUpTo(e) = LinesUpTo(s) \cup {<<s + 1, e - 1>>}
<1>0. LineEnds \subseteq Nat \ {0} /\ s \in Nat /\ e \in Nat
  BY DEF LineEnds, Starts
<1>1. \A p : p \in LineEnds <=> p \in 1 .. Len(Script) /\ Script[p] = Newline
  BY DEF LineEnds
<1>2. Len(Script) \in Nat
  BY DaemonAssumption
<1> DEFINE IsLine(l, n) ==
             /\ l \in (1 .. n) \X (0 .. n)
             /\ l[1] <= l[2] + 1 /\ l[2] < n /\ l[2] + 1 \in LineEnds
             /\ l[1] = 1 \/ l[1] - 1 \in LineEnds
             /\ \A p \in l[1] .. l[2] : p \notin LineEnds
<1>3. ASSUME NEW n \in Nat, n <= Len(Script), NEW l
      PROVE  l \in LinesUpTo(n) <=> IsLine(l, n)
  <2>1. CASE l \in (1 .. n) \X (0 .. n) /\ l[1] <= l[2] + 1 /\ l[2] < n
    <3>1. /\ l[2] + 1 \in 1 .. Len(Script)
          /\ l[1] # 1 => l[1] - 1 \in 1 .. Len(Script)
          /\ \A p \in l[1] .. l[2] : p \in 1 .. Len(Script)
      BY <1>2, <1>3, <2>1
    <3>2. QED
      BY <1>1, <2>1, <3>1 DEF LinesUpTo
  <2>2. QED
    BY <2>1 DEF LinesUpTo
<1>4. s <= Len(Script) /\ e <= Len(Script)
  BY <1>0, <1>2 DEF LineEnds, Starts
<1>5. ASSUME NEW l, IsLine(l, e) PROVE IsLine(l, s) \/ l = <<s + 1, e - 1>>
  <2>1. l = <<l[1], l[2]>> /\ l[1] \in 1 .. e /\ l[2] \in 0 .. e
    BY <1>5
  <2>2. CASE l[2] + 1 = e
    <3>1. ~(l[1] - 1 > s)
      BY <1>0, <1>5, <2>1, <2>2
    <3>2. ~(l[1] - 1 < s)
      <4>1. SUFFICES ASSUME l[1] - 1 < s PROVE FALSE
        OBVIOUS
      <4>2. s \in l[1] .. l[2] /\ s \in LineEnds
        BY <1>0, <2>1, <2>2, <4>1 DEF Starts
      <4>3. QED
        BY <1>5, <4>2
    <3>3. QED
      BY <1>0, <2>1, <2>2, <3>1, <3>2
  <2>3. CASE l[2] + 1 # e
    <3>1. l[2] < s
      BY <1>0, <1>5, <2>1, <2>3
    <3>2. QED
      BY <1>0, <1>5, <2>1, <3>1
  <2>4. QED
    BY <2>2, <2>3
<1>6. ASSUME NEW l, IsLine(l, s) PROVE IsLine(l, e)
  BY <1>0, <1>6
<1>7. IsLine(<<s + 1, e - 1>>, e)
  <2>1. <<s + 1, e - 1>> \in (1 .. e) \X (0 .. e)
    BY <1>0
  <2>2. s + 1 = 1 \/ s + 1 - 1 \in LineEnds
    BY <1>0 DEF Starts
  <2>3. \A p \in s + 1 .. e - 1 : p \notin LineEnds
    BY <1>0
  <2>4. QED
    BY <1>0, <2>1, <2>2, <2>3
<1> HIDE DEF IsLine
<1>8. QED
  BY <1>0, <1>3, <1>4, <1>5, <1>6, <1>7

(***************************************************************************)
(* The input only grows, not after the end of a pipe, and a terminal's     *)
(* input ends at a line's end.                                             *)
(***************************************************************************)
LEMMA InputGrows ==
  ASSUME TypeOK, AtTerminal, [Next]_vars
  PROVE  /\ terminal' = terminal /\ written' >= written
         /\ ended /\ ~terminal => ended' /\ written' = written
         /\ terminal /\ ended' => written' \in Starts
<1>0. Intervals
  BY TypeParts
<1>1. CASE UNCHANGED <<terminal, written>> /\ (ended' = ended \/ EndSeen)
  BY <1>0, <1>1 DEF Intervals, EndSeen, AtTerminal
<1>2. CASE Write
  BY <1>0, <1>2 DEF Intervals, Write
<1>3. CASE EndInput
  BY <1>0, <1>3 DEF Intervals, EndInput, Starts
<1>4. CASE ReadLine
  BY <1>1, <1>4 DEF ReadLine, Fill, Take, NextLine, LastLine, Trim, inputVars
<1>5. ASSUME NEW x, Search(x) PROVE UNCHANGED inputVars
  BY <1>5 DEF Search, Lock, Query, Retrieve
<1>6. ASSUME NEW r, Send(r) \/ Accept(r) \/ Handle(r) PROVE UNCHANGED inputVars
  BY <1>6 DEF Send, Accept, Handle
<1>7. QED
  BY <1>1, <1>2, <1>3, <1>4, <1>5, <1>6 DEF Next, Serve, inputVars, vars

\* More input does not make a line end elsewhere.
LEMMA AnswerableStays ==
  ASSUME TypeOK, AtTerminal, [Next]_vars, NEW l, l[2] \in Nat, Answerable(l)
  PROVE  Answerable(l)'
<1>1. written \in Nat /\ written' \in Nat
  BY TypeParts, IntervalsStep DEF Intervals
<1>2. QED
  BY <1>1, InputGrows DEF Answerable, LineEnds

(***************************************************************************)
(* The lines dealt with are intervals of the script.                       *)
(***************************************************************************)
LEMMA DealtTyped ==
  ASSUME TypeOK
  PROVE  \A i \in 1 .. Len(done) : done[i][1] \in Nat /\ done[i][2] \in Nat
<1> DEFINE I == (1 .. Len(Script) + 1) \X (0 .. Len(Script))
<1>1. done \in Seq(I)
  BY TypeParts DEF Intervals
<1>2. \A l \in I : l[1] \in Nat /\ l[2] \in Nat
  OBVIOUS
<1> HIDE DEF I
<1>3. \A i \in 1 .. Len(done) : done[i] \in I
  BY <1>1, ElementOfSeq
<1>4. QED
  BY <1>2, <1>3

(***************************************************************************)
(* What the rest of the process does leaves the prompt's lines alone.      *)
(***************************************************************************)
LEMMA LinesElsewhere ==
  ASSUME TypeOK, Lines, [Next]_vars,
         UNCHANGED <<fetched, taken, from, line, done>>,
         at'[Prompt] = at[Prompt] \/ at'[Prompt] = "gone"
  PROVE  Lines'
<1>0. Intervals /\ Prompt \in Actors
  BY TypeParts DEF Actors
<1>1. at'[Prompt] \in Reading => at'[Prompt] = at[Prompt]
  BY DEF Reading, Answering
<1>2. at'[Prompt] \in Answering => at'[Prompt] = at[Prompt]
  BY DEF Answering
<1>3. line[2] \in Nat /\ \A i \in 1 .. Len(done) : done[i][2] \in Nat
  BY <1>0, DealtTyped DEF Intervals
<1>4. Held'
  BY <1>2, <1>3, AnswerableStays DEF Held, Lines
<1>5. Past'
  <2>1. \A i \in 1 .. Len(done) : Answerable(done[i])'
    BY <1>3, AnswerableStays DEF Past, Lines
  <2>2. QED
    BY <1>1, <2>1 DEF Past, Lines, Answerable
<1>6. AtTerminal'
  <2>1. AtTerminal
    BY DEF Lines
  <2>2. Dealt' = Dealt /\ LinesUpTo(taken)' = LinesUpTo(taken)
        /\ LinesUpTo(from - 1)' = LinesUpTo(from - 1)
    BY DEF Dealt, LinesUpTo
  <2>3. terminal' = terminal /\ (terminal /\ ended' => written' \in Starts)
    BY <2>1, InputGrows
  <2>4. at'[Prompt] = "fill" => at[Prompt] = "fill"
    OBVIOUS
  <2>5. Starts' = Starts /\ LineEnds' = LineEnds
    BY DEF Starts, LineEnds
  <2>6. QED
    BY <1>1, <1>2, <2>1, <2>2, <2>3, <2>4, <2>5 DEF AtTerminal
<1>7. QED
  BY <1>4, <1>5, <1>6 DEF Lines

(***************************************************************************)
(* The first read of a readline begins the next line.                      *)
(***************************************************************************)
LEMMA LinesFill ==
  ASSUME TypeOK, Lines, Fill
  PROVE  Lines'
<1>0. Intervals /\ Places /\ Prompt \in Actors
  BY TypeParts DEF Actors
<1>1. at'[Prompt] = "line" /\ at[Prompt] = "fill"
  BY <1>0 DEF Fill, Goto, Places
<1>2. /\ UNCHANGED <<terminal, written, taken, line, done>> /\ from' = taken + 1
      /\ ended /\ ~terminal => ended'
      /\ ended' => ended
      /\ fetched' = fetched \/ (taken = fetched /\ fetched' = ReadEnd)
  <2>1. UNCHANGED <<terminal, written, taken, line, done>> /\ from' = taken + 1
    BY DEF Fill
  <2>2. CASE taken < fetched
    <3>1. fetched' = fetched /\ ended' = ended
      BY <2>2 DEF Fill
    <3>2. QED
      BY <2>1, <3>1
  <2>3. CASE ~(taken < fetched)
    <3>1. fetched' = ReadEnd /\ EndSeen
      BY <2>3 DEF Fill
    <3>2. taken = fetched
      BY <1>0, <2>3 DEF Intervals
    <3>3. QED
      BY <2>1, <3>1, <3>2 DEF EndSeen
  <2>4. QED
    BY <2>2, <2>3
<1>3. Held'
  BY <1>1 DEF Held, Answering
<1>4. Past'
  <2>1. \A i \in 1 .. Len(done) : Answerable(done[i])' /\ done[i][2] < taken + 1
    <3>1. taken \in Nat /\ \A i \in 1 .. Len(done) : done[i][2] \in Nat
      BY <1>0, DealtTyped DEF Intervals
    <3>2. QED
      BY <1>2, <3>1 DEF Lines, Past, Answerable, LineEnds
  <2>2. QED
    BY <1>1, <1>2, <2>1 DEF Lines, Past
<1>5. AtTerminal'
  <2>1. SUFFICES ASSUME terminal PROVE AtTerminal'
    BY <1>2 DEF AtTerminal
  <2>2. taken = fetched /\ taken \in Starts /\ Dealt = LinesUpTo(taken)
    BY <1>1, <2>1 DEF Lines, AtTerminal
  <2>3. from' - 1 = taken
    BY <1>0, <1>2 DEF Intervals
  <2>4. \A p \in LineEnds : p >= taken + 1 => p >= fetched'
    BY <1>0, <1>2, <2>1, <2>2, ReadStops DEF Intervals, LineEnds
  <2>5. Dealt' = Dealt /\ LinesUpTo(from - 1)' = LinesUpTo(taken)
        /\ Starts' = Starts /\ LineEnds' = LineEnds
    BY <1>2, <2>3 DEF Dealt, LinesUpTo, Starts, LineEnds
  <2>6. ended' => written' \in Starts
    BY <1>2, <2>1 DEF Lines, AtTerminal
  <2>7. QED
    BY <1>1, <1>2, <2>2, <2>3, <2>4, <2>5, <2>6 DEF AtTerminal, Answering
<1>6. QED
  BY <1>3, <1>4, <1>5 DEF Lines

(***************************************************************************)
(* What the reader takes at a terminal stops at the next newline.          *)
(***************************************************************************)
LEMMA LinesTake ==
  ASSUME TypeOK, Lines, Take
  PROVE  Lines'
<1>0. Intervals
  BY TypeParts
<1>1. /\ at[Prompt] = "line" /\ Newlines = {}
      /\ UNCHANGED <<terminal, written, ended, from, line, done, at>>
  BY DEF Take
<1>2. /\ taken' >= taken /\ taken' \in Nat
      /\ fetched' = fetched \/ (taken = fetched /\ fetched' = ReadEnd)
  <2>0. taken \in Nat /\ fetched \in Nat
    BY <1>0 DEF Intervals
  <2>1. CASE taken < fetched /\ taken' = fetched /\ fetched' = fetched
    BY <2>0, <2>1
  <2>2. CASE taken = fetched /\ fetched' = ReadEnd /\ taken' = ReadEnd
    BY <1>0, <2>2, ReadStops DEF Intervals
  <2>3. QED
    BY <2>1, <2>2 DEF Take
<1>3. Held'
  BY <1>1 DEF Held, Answering
<1>4. Past'
  <2>1. \A i \in 1 .. Len(done) : Answerable(done[i]) /\ done[i][2] <= taken
    BY DEF Lines, Past
  <2>2. \A i \in 1 .. Len(done) : done[i][2] <= taken'
    <3>1. taken \in Nat /\ \A i \in 1 .. Len(done) : done[i][2] \in Nat
      BY <1>0, DealtTyped DEF Intervals
    <3>2. QED
      BY <1>2, <2>1, <3>1
  <2>3. \A i \in 1 .. Len(done) : Answerable(done[i])'
    BY <1>1, <2>1 DEF Answerable, LineEnds
  <2>4. QED
    BY <1>1, <2>2, <2>3 DEF Lines, Past
<1>5. AtTerminal'
  <2>1. SUFFICES ASSUME terminal PROVE AtTerminal'
    BY <1>1 DEF AtTerminal
  <2>2. /\ from - 1 \in Starts /\ Dealt = LinesUpTo(from - 1)
        /\ \A p \in LineEnds : p >= from => p >= fetched
        /\ ended => written \in Starts
    BY <1>1, <2>1 DEF Lines, AtTerminal, Reading
  <2>3. \A p \in LineEnds : p >= from => p >= fetched'
    <3>1. CASE fetched' = fetched
      BY <2>2, <3>1
    <3>2. CASE taken = fetched /\ fetched' = ReadEnd
      <4>1. ASSUME NEW p \in LineEnds, p >= from PROVE p > fetched
        <5>1. p \notin from .. taken
          BY <1>1, <4>1 DEF Newlines
        <5>2. QED
          BY <1>0, <3>2, <4>1, <5>1 DEF Intervals, LineEnds
      <4>2. QED
        BY <2>1, <3>2, <4>1, ReadStops
    <3>3. QED
      BY <1>2, <3>1, <3>2
  <2>4. Dealt' = Dealt /\ LinesUpTo(from - 1)' = LinesUpTo(from - 1)
        /\ Starts' = Starts /\ LineEnds' = LineEnds
    BY <1>1 DEF Dealt, LinesUpTo, Starts, LineEnds
  <2>5. QED
    BY <1>1, <2>2, <2>3, <2>4 DEF AtTerminal, Answering
<1>6. QED
  BY <1>3, <1>4, <1>5 DEF Lines

(***************************************************************************)
(* A line that readline returns runs to the next newline.                  *)
(***************************************************************************)
LEMMA LinesNextLine ==
  ASSUME TypeOK, Lines, NextLine
  PROVE  Lines'
<1>0. Intervals /\ Places /\ Prompt \in Actors
  BY TypeParts DEF Actors
<1> DEFINE m == Least(Newlines)
<1>1. m \in LineEnds /\ m \in from .. taken /\ \A p \in LineEnds : p >= from => p >= m
  BY <1>0, NewlineFound DEF NextLine
<1>2. /\ at[Prompt] = "line" /\ at'[Prompt] = "got" /\ line' = <<from, m - 1>>
      /\ UNCHANGED <<terminal, written, ended, fetched, taken, from, done>>
  BY <1>0 DEF NextLine, Goto, Places
<1> HIDE DEF m
<1>3. Held'
  <2>1. Answerable(<<from, m - 1>>)
    BY <1>0, <1>1 DEF Answerable, LineEnds, Intervals
  <2>2. QED
    BY <1>0, <1>1, <1>2, <2>1 DEF Held, Answerable, LineEnds, Intervals
<1>4. Past'
  BY <1>2 DEF Lines, Past, Answerable, Reading, LineEnds
<1>5. AtTerminal'
  <2>1. SUFFICES ASSUME terminal PROVE AtTerminal'
    BY <1>2 DEF AtTerminal
  <2>2. /\ from - 1 \in Starts /\ Dealt = LinesUpTo(from - 1)
        /\ \A p \in LineEnds : p >= from => p >= fetched
        /\ ended => written \in Starts
    BY <1>2, <2>1 DEF Lines, AtTerminal, Reading
  <2>3. m = taken /\ taken = fetched /\ from <= taken
    BY <1>0, <1>1, <2>2 DEF Intervals
  <2>4. Dealt' = Dealt /\ LinesUpTo(from - 1)' = LinesUpTo(from - 1)
        /\ Starts' = Starts /\ LineEnds' = LineEnds
    BY <1>2 DEF Dealt, LinesUpTo, Starts, LineEnds
  <2>5. QED
    BY <1>1, <1>2, <2>2, <2>3, <2>4 DEF AtTerminal
<1>6. QED
  BY <1>3, <1>4, <1>5 DEF Lines

(***************************************************************************)
(* The rest of a closed pipe is its last line; a terminal's input has no   *)
(* such rest.                                                              *)
(***************************************************************************)
LEMMA LinesLastLine ==
  ASSUME TypeOK, Lines, LastLine, [Next]_vars
  PROVE  Lines'
<1>0. Intervals /\ Places /\ Prompt \in Actors
  BY TypeParts DEF Actors
<1>1. /\ at[Prompt] = "line" /\ Newlines = {} /\ taken = fetched /\ AtEnd /\ EndSeen
      /\ UNCHANGED <<terminal, written, fetched, taken, from, done>>
  BY DEF LastLine
<1>2. CASE from <= taken
  <2>1. at'[Prompt] = "got" /\ line' = <<from, taken>>
    BY <1>0, <1>2 DEF LastLine, Goto, Places
  <2>2. \A p \in from .. taken : p \notin LineEnds
    BY <1>1 DEF Newlines
  <2>3. ~terminal
    <3>1. SUFFICES ASSUME terminal PROVE FALSE
      OBVIOUS
    <3>2. taken \in Starts
      BY <1>1, <3>1 DEF Lines, AtTerminal, AtEnd
    <3>3. taken \in LineEnds /\ taken \in from .. taken
      BY <1>0, <1>2, <3>2 DEF Starts, Intervals
    <3>4. QED
      BY <2>2, <3>3
  <2>4. ended' /\ ended /\ taken = written
    BY <1>1, <2>3 DEF EndSeen, AtEnd
  <2>5. Held'
    BY <1>0, <1>1, <2>1, <2>2, <2>3, <2>4 DEF Held, Answerable, LineEnds, Intervals
  <2>6. Past'
    <3>1. \A i \in 1 .. Len(done) : Answerable(done[i])'
      BY <1>1, DealtTyped, AnswerableStays DEF Lines, Past
    <3>2. QED
      BY <1>1, <3>1 DEF Lines, Past, Reading
  <2>7. AtTerminal'
    BY <1>1, <2>3 DEF AtTerminal
  <2>8. QED
    BY <2>5, <2>6, <2>7 DEF Lines
<1>3. CASE ~(from <= taken)
  <2>1. UNCHANGED line /\ at'[Prompt] = "gone"
    BY <1>0, <1>3 DEF LastLine, Panic, Places
  <2>2. QED
    BY <1>1, <2>1, LinesElsewhere
<1>4. QED
  BY <1>2, <1>3

(***************************************************************************)
(* A line goes on to its search.                                           *)
(***************************************************************************)
LEMMA LinesOnward ==
  ASSUME TypeOK, Lines, UNCHANGED <<inputVars, done>>,
         at[Prompt] \in Answering, at'[Prompt] \in Answering
  PROVE  Lines'
<1>1. Held'
  BY DEF Lines, Held, Answerable, inputVars, LineEnds
<1>2. Past'
  BY DEF Lines, Past, Answerable, inputVars, LineEnds, Reading
<1>3. AtTerminal'
  <2>1. Dealt' = Dealt /\ LinesUpTo(from - 1)' = LinesUpTo(from - 1)
        /\ Starts' = Starts /\ LineEnds' = LineEnds
    BY DEF Dealt, LinesUpTo, Starts, LineEnds, inputVars
  <2>2. at'[Prompt] # "fill"
    BY DEF Answering
  <2>3. QED
    BY <2>1, <2>2 DEF Lines, AtTerminal, inputVars, Reading
<1>4. QED
  BY <1>1, <1>2, <1>3 DEF Lines

(***************************************************************************)
(* A line that was dealt with adds one line to those that were, and the    *)
(* prompt reads on from its newline.                                       *)
(***************************************************************************)
LEMMA LinesDealt ==
  ASSUME TypeOK, Lines, UNCHANGED inputVars, done' = Append(done, line),
         at[Prompt] \in Answering, at'[Prompt] = "fill"
  PROVE  Lines'
<1>0. Intervals
  BY TypeParts
<1> DEFINE I == (1 .. Len(Script) + 1) \X (0 .. Len(Script))
<1>1. /\ Len(done) \in Nat /\ Len(done') = Len(done) + 1
      /\ done'[Len(done) + 1] = line
      /\ \A i \in 1 .. Len(done) : done'[i] = done[i]
  <2>1. done \in Seq(I) /\ line \in I
    BY <1>0 DEF Intervals
  <2> HIDE DEF I
  <2>2. QED
    BY <2>1, AppendProperties, LenProperties
<1>2. Answerable(line) /\ line[1] = from /\ line[2] <= taken /\ line[2] \in Nat
  BY <1>0 DEF Lines, Held, Intervals
<1>3. \A i \in 1 .. Len(done) :
        Answerable(done[i]) /\ done[i][2] <= taken /\ done[i][2] < from
  BY DEF Lines, Past, Reading
<1>4. \A i \in 1 .. Len(done') : i \in 1 .. Len(done) \/ i = Len(done) + 1
  BY <1>1
<1>6. Held'
  BY DEF Held, Answering
<1>7. Past'
  <2>1. \A i \in 1 .. Len(done') : Answerable(done'[i]) /\ done'[i][2] <= taken
    BY <1>1, <1>2, <1>3, <1>4
  <2>2. ASSUME NEW i \in 1 .. Len(done') - 1 PROVE done'[i][2] < done'[i + 1][1]
    <3>1. CASE i = Len(done)
      BY <1>1, <1>2, <1>3, <2>2, <3>1
    <3>2. CASE i # Len(done)
      <4>1. i \in 1 .. Len(done) - 1 /\ i \in 1 .. Len(done) /\ i + 1 \in 1 .. Len(done)
        BY <1>1, <2>2, <3>2
      <4>2. QED
        BY <1>1, <4>1 DEF Lines, Past
    <3>3. QED
      BY <3>1, <3>2
  <2>3. \A i \in 1 .. Len(done') : Answerable(done[i])'
    BY <2>1 DEF Answerable, inputVars, LineEnds
  <2>4. at'[Prompt] \notin Reading /\ taken' = taken
    BY DEF Reading, Answering, inputVars
  <2>5. QED
    BY <2>1, <2>2, <2>3, <2>4 DEF Past
<1>8. AtTerminal'
  <2>1. SUFFICES ASSUME terminal PROVE AtTerminal'
    BY DEF AtTerminal, inputVars
  <2>2. /\ taken = fetched /\ taken \in LineEnds
        /\ from <= taken /\ line = <<from, taken - 1>>
        /\ from - 1 \in Starts /\ Dealt = LinesUpTo(from - 1)
        /\ \A p \in LineEnds : p >= from => p >= fetched
        /\ ended => written \in Starts
    BY <2>1 DEF Lines, AtTerminal, Reading
  <2>3. LinesUpTo(taken) = LinesUpTo(from - 1) \cup {line}
    <3>1. from \in Nat /\ taken \in Nat /\ LineEnds \subseteq Nat
      BY <1>0 DEF Intervals, LineEnds
    <3>2. from - 1 < taken /\ \A p \in LineEnds : p > from - 1 => p >= taken
      BY <2>2, <3>1
    <3>3. LinesUpTo(taken) = LinesUpTo(from - 1) \cup {<<from - 1 + 1, taken - 1>>}
      BY <2>2, <3>2, OneMoreLine
    <3>4. from - 1 + 1 = from
      BY <3>1
    <3>5. QED
      BY <2>2, <3>3, <3>4
  <2>4. Dealt' = Dealt \cup {line}
    BY <1>1, <1>4 DEF Dealt
  <2>5. LinesUpTo(taken)' = LinesUpTo(taken) /\ Starts' = Starts
    BY DEF LinesUpTo, Starts, LineEnds, inputVars
  <2>6. taken \in Starts /\ at'[Prompt] \notin Reading /\ at'[Prompt] \notin Answering
    BY <2>2 DEF Starts, Reading, Answering
  <2>7. QED
    BY <2>2, <2>3, <2>4, <2>5, <2>6 DEF AtTerminal, inputVars
<1>9. QED
  BY <1>6, <1>7, <1>8 DEF Lines

(***************************************************************************)
(* Every step keeps what the prompt's lines are.                           *)
(***************************************************************************)
LEMMA LinesStep == TypeOK /\ Lines /\ [Next]_vars => Lines'
<1> SUFFICES ASSUME TypeOK, Lines, [Next]_vars PROVE Lines'
  OBVIOUS
<1>0. Places /\ Prompt \in Actors /\ Requests \subseteq Actors /\ Prompt \notin Requests
  BY TypeParts, DaemonAssumption DEF Actors
<1>1. ASSUME UNCHANGED <<fetched, taken, from, line, done>>,
             at'[Prompt] = at[Prompt] \/ at'[Prompt] = "gone"
      PROVE  Lines'
  BY <1>1, LinesElsewhere
<1>2. CASE Write \/ EndInput \/ UNCHANGED vars
  BY <1>1, <1>2 DEF Write, EndInput, vars
<1>3. CASE Fill \/ Take \/ NextLine \/ LastLine
  BY <1>3, LinesFill, LinesTake, LinesNextLine, LinesLastLine
<1>4. CASE Trim
  <2>1. at[Prompt] \in Answering /\ UNCHANGED inputVars
    BY <1>4 DEF Trim, Answering
  <2>2. CASE line[1] > line[2]
    <3>1. at'[Prompt] = "fill" /\ done' = Append(done, line)
      BY <1>0, <1>4, <2>2 DEF Trim, Goto, Places
    <3>2. QED
      BY <2>1, <3>1, LinesDealt
  <2>3. CASE ~(line[1] > line[2])
    <3>1. at'[Prompt] \in Answering /\ UNCHANGED done
      BY <1>0, <1>4, <2>3 DEF Trim, Goto, Places, Answering
    <3>2. QED
      BY <2>1, <3>1, LinesOnward
  <2>4. QED
    BY <2>2, <2>3
<1>5. ASSUME NEW x \in Actors, Panic(x), UNCHANGED <<inputVars, done>> PROVE Lines'
  <2>1. at'[Prompt] = at[Prompt] \/ at'[Prompt] = "gone"
    BY <1>0, <1>5 DEF Panic, Goto, Places
  <2>2. QED
    BY <1>1, <1>5, <2>1 DEF inputVars
<1>6. ASSUME NEW r \in Requests, NEW there, Goto(r, there), UNCHANGED <<inputVars, done>>
      PROVE  Lines'
  <2>1. at'[Prompt] = at[Prompt]
    BY <1>0, <1>6 DEF Goto, Places
  <2>2. QED
    BY <1>1, <1>6, <2>1 DEF inputVars
<1>7. ASSUME NEW there \in Answering, Goto(Prompt, there), at[Prompt] \in Answering,
             UNCHANGED <<inputVars, done>>
      PROVE  Lines'
  <2>1. at'[Prompt] \in Answering
    BY <1>0, <1>7 DEF Goto, Places
  <2>2. QED
    BY <1>7, <2>1, LinesOnward
<1>8. ASSUME NEW r \in Requests, Send(r) \/ Accept(r) \/ Handle(r) PROVE Lines'
  BY <1>0, <1>5, <1>6, <1>8 DEF Send, Accept, Handle
<1>9. ASSUME NEW r \in Requests, Search(r) PROVE Lines'
  <2>1. UNCHANGED <<inputVars, done>>
    BY <1>0, <1>9 DEF Search, Lock, Query, Retrieve
  <2>2. Panic(r) \/ \E there : Goto(r, there)
    BY <1>9 DEF Search, Lock, Query, Retrieve
  <2>3. QED
    BY <1>0, <1>5, <1>6, <2>1, <2>2
<1>10. CASE Lock(Prompt) \/ Query(Prompt)
  BY <1>0, <1>5, <1>7, <1>10 DEF Lock, Query, Answering
<1>11. CASE Retrieve(Prompt)
  <2>1. at[Prompt] \in Answering /\ UNCHANGED inputVars
    BY <1>11 DEF Retrieve, Answering
  <2>2. CASE Text(Prompt) \in Stale
    BY <1>0, <1>5, <1>11, <2>2 DEF Retrieve
  <2>3. CASE Text(Prompt) \notin Stale
    <3>1. at'[Prompt] = "fill" /\ done' = Append(done, line)
      BY <1>0, <1>11, <2>3 DEF Retrieve, Goto, Places
    <3>2. QED
      BY <2>1, <3>1, LinesDealt
  <2>4. QED
    BY <2>2, <2>3
<1>12. QED
  BY <1>2, <1>3, <1>4, <1>8, <1>9, <1>10, <1>11
     DEF Next, ReadLine, Serve, Search

(***************************************************************************)
(* The lines of the prompt are as described in every reachable state.      *)
(***************************************************************************)
THEOREM LinesInvariant == Spec => []Lines
<1>1. Init => Lines
  <2> SUFFICES ASSUME Init PROVE Lines
    OBVIOUS
  <2>1. at[Prompt] = "fill" /\ done = <<>> /\ taken = 0 /\ fetched = 0 /\ ~ended
    BY DEF Init, Actors
  <2>2. Len(done) = 0
    BY <2>1
  <2>3. Dealt = {} /\ LinesUpTo(0) = {}
    BY <2>2 DEF Dealt, LinesUpTo
  <2>4. Held
    BY <2>1 DEF Held, Answering
  <2>5. Past
    BY <2>2 DEF Past
  <2>6. AtTerminal
    BY <2>1, <2>3 DEF AtTerminal, Starts, Reading, Answering
  <2>7. QED
    BY <2>4, <2>5, <2>6 DEF Lines
<1>2. QED
  BY <1>1, LinesStep, TypeCorrect, PTL DEF Spec

(***************************************************************************)
(* At a terminal no line is lost, for every script and buffer size.        *)
(***************************************************************************)
THEOREM NothingLostAtTerminal == Spec => []TerminalLosesNothing
<1>1. Lines => TerminalLosesNothing
  BY DEF Lines, Past, AtTerminal, TerminalLosesNothing, Dealt
<1>2. QED
  BY <1>1, LinesInvariant, PTL

(***************************************************************************)
(* What is answered runs to the end of a line, from a pipe also.           *)
(***************************************************************************)
THEOREM AnswersEndLines == Spec => []AnswersRunToLineEnd
<1>1. TypeOK /\ Lines => AnswersRunToLineEnd
  <2> SUFFICES ASSUME TypeOK, Lines, NEW i \in 1 .. Len(done)
               PROVE  /\ \A p \in done[i][1] .. done[i][2] : Script[p] # Newline
                      /\ IF done[i][2] < written
                           THEN Script[done[i][2] + 1] = Newline ELSE ended
    BY DEF AnswersRunToLineEnd
  <2>1. Intervals /\ Len(Script) \in Nat
    BY TypeParts, DaemonAssumption
  <2>2. Answerable(done[i]) /\ done[i][2] <= taken /\ done[i][1] \in Nat /\ done[i][2] \in Nat
    BY DealtTyped DEF Lines, Past
  <2>3. ASSUME NEW p \in done[i][1] .. done[i][2] PROVE Script[p] # Newline
    <3>1. CASE p = 0
      <4>1. done[i][1] >= 1
        <5> DEFINE I == (1 .. Len(Script) + 1) \X (0 .. Len(Script))
        <5>1. done \in Seq(I) /\ \A l \in I : l[1] >= 1
          BY <2>1 DEF Intervals
        <5> HIDE DEF I
        <5>2. QED
          BY <5>1, ElementOfSeq
      <4>2. QED
        BY <2>2, <2>3, <3>1, <4>1
    <3>2. CASE p # 0
      <4>1. p \in 1 .. Len(Script)
        <5>1. done[i][2] <= Len(Script) /\ p \in Nat
          BY <2>1, <2>2, <2>3, SMTT(30) DEF Intervals
        <5>2. QED
          BY <2>1, <2>2, <2>3, <3>2, <5>1
      <4>2. p \notin LineEnds
        BY <2>2, <2>3 DEF Answerable
      <4>3. QED
        BY <4>1, <4>2 DEF LineEnds
    <3>3. QED
      BY <3>1, <3>2
  <2>4. \/ done[i][2] + 1 \in LineEnds /\ done[i][2] < written
        \/ done[i][2] = written /\ ended
    BY <2>2 DEF Answerable
  <2>5. IF done[i][2] < written THEN Script[done[i][2] + 1] = Newline ELSE ended
    BY <2>2, <2>4 DEF LineEnds
  <2>6. QED
    BY <2>3, <2>5
<1>2. QED
  BY <1>1, LinesInvariant, TypeCorrect, PTL
================================================================================
