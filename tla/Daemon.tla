-------------------------------- MODULE Daemon ---------------------------------
(***************************************************************************)
(* offdictd serving: the prompt (repl, readline, respond) and the HTTP API *)
(* (serve, api_q) of offdictd/src/lib.rs, run by one block_on, and the     *)
(* index with its locked cache (topk.rs).                                  *)
(*                                                                         *)
(* The prompt's input is a script of letters and newlines, and the         *)
(* buffers between the kernel and the prompt are intervals of it:          *)
(*                                                                         *)
(*   1 .. from - 1          lines dealt with, and what readers dropped     *)
(*   from .. taken          in the BufReader of the current readline       *)
(*   taken + 1 .. fetched   in the process-wide buffer of std::io::Stdin   *)
(*   fetched + 1 .. written in the kernel: a pipe, or a terminal's lines   *)
(***************************************************************************)
EXTENDS Naturals, Sequences

CONSTANTS
  Letters, Newline,
  Script,       \* what is typed at the prompt, in order
  Chunk,        \* bound of one read(2): the size of the readers' buffers
  Requests,     \* requests to the API, each sent once on its own connection
  RouteOf,      \* request -> "q", "set" or "stat"
  QueryOf,      \* request -> the text asked for, or Undecodable
  Undecodable,  \* a path that is not UTF-8 once decoded
  Stale,        \* texts that find a word without an entry in the database
  Crashing,     \* texts on which the index's own search panics
  Prompt,       \* the actor that is not a request
  Free          \* the cache's lock is held by nobody

Texts == Seq(Letters)

ASSUME DaemonAssumption ==
  /\ Newline \notin Letters
  /\ Script \in Seq(Letters \cup {Newline})
  /\ Chunk \in Nat \ {0}
  /\ RouteOf \in [Requests -> {"q", "set", "stat"}]
  /\ QueryOf \in [Requests -> Texts \cup {Undecodable}]
  /\ Undecodable \notin Texts
  /\ Prompt \notin Requests /\ Free \notin Requests \cup {Prompt}

VARIABLES
  terminal,   \* whether the input is a terminal, or a pipe
  written,    \* how much of the script has been written
  ended,      \* an end of input is pending: for good, if it is a pipe
  fetched, taken, from,
  line,       \* the interval of the line that readline returned
  done,       \* history: the intervals of the lines dealt with
  at,         \* where the prompt and each request are
  cache,      \* who holds the lock of the index's cache
  poisoned    \* a holder of that lock has panicked

vars == <<terminal, written, ended, fetched, taken, from, line, done, at, cache,
          poisoned>>
inputVars == <<terminal, written, ended, fetched, taken, from, line>>
lockVars  == <<cache, poisoned>>

Actors == Requests \cup {Prompt}
Alive == at[Prompt] # "gone"

Init == /\ terminal \in BOOLEAN
        /\ written = 0 /\ ended = FALSE
        /\ fetched = 0 /\ taken = 0 /\ from = 1
        /\ line = <<1, 0>> /\ done = <<>>
        /\ at = [x \in Actors |-> IF x = Prompt THEN "fill" ELSE "unsent"]
        /\ cache = Free /\ poisoned = FALSE

Goto(x, there) == at' = [at EXCEPT ![x] = there]

\* The prompt runs on the thread of main, whose panic ends the process and
\* with it the API; a request runs on a worker, and costs its connection.
\* The lock is poisoned if the panic unwinds through its guard.
Panic(x) ==
  /\ IF x # Prompt
       THEN Goto(x, "failed")
       ELSE at' = [y \in Actors |->
                     IF y = Prompt THEN "gone"
                     ELSE IF at[y] \in {"unsent", "answered", "failed"} THEN at[y]
                     ELSE "lost"]
  /\ cache' = IF x = Prompt \/ cache = x THEN Free ELSE cache
  /\ poisoned' = (poisoned \/ cache = x)

LineEnds == {p \in 1 .. Len(Script) : Script[p] = Newline}

--------------------------------------------------------------------------------
(* The writer of the input.                                                *)

Write == /\ ~ended /\ written < Len(Script)
         /\ written' = written + 1
         /\ UNCHANGED <<terminal, ended, fetched, taken, from, line, done, at, lockVars>>

\* The pipe is closed, or ^D is typed on an empty line.
EndInput == /\ ~ended
            /\ terminal => written \in {0} \cup LineEnds
            /\ ended' = TRUE
            /\ UNCHANGED <<terminal, written, fetched, taken, from, line, done, at, lockVars>>

Least(S) == CHOOSE n \in S : \A m \in S : n <= m

\* How far one read(2) gets: a terminal gives a line at a time.
ReadEnd ==
  Least({written, fetched + Chunk} \cup
        IF terminal THEN LineEnds \cap (fetched + 1 .. written) ELSE {})

\* Whether a read(2) returns: a terminal holds back an unfinished line.
Readable == \/ fetched + 1 .. written # {} /\ ~terminal
            \/ LineEnds \cap (fetched + 1 .. written) # {}
            \/ ended

AtEnd == fetched = written /\ ended

\* A terminal's ^D ends one read(2), a closed pipe all of them.
EndSeen == ended' = (ended /\ ~(terminal /\ AtEnd))

--------------------------------------------------------------------------------
(* readline.                                                               *)

\* Mutant: the first read is given room for a byte, and takes it.
Fill_OneByte ==
  /\ at[Prompt] = "fill"
  /\ taken < fetched \/ Readable
  /\ IF taken < fetched THEN UNCHANGED <<fetched, ended>>
     ELSE fetched' = ReadEnd /\ EndSeen
  /\ taken' = IF taken < fetched' THEN taken + 1 ELSE taken
  /\ from' = taken' + 1
  /\ Goto(Prompt, "line")
  /\ UNCHANGED <<terminal, written, line, done, lockVars>>

\* The read into an empty vector: it waits for input, which stays in the
\* buffer of std::io::Stdin.
Fill ==
  /\ at[Prompt] = "fill"
  /\ taken < fetched \/ Readable
  /\ IF taken < fetched THEN UNCHANGED <<fetched, ended>>
     ELSE fetched' = ReadEnd /\ EndSeen
  /\ from' = taken + 1
  /\ Goto(Prompt, "line")
  /\ UNCHANGED <<terminal, written, taken, line, done, lockVars>>

Newlines == LineEnds \cap (from .. taken)

\* The new BufReader takes all that is buffered, or reads by itself.
Take ==
  /\ at[Prompt] = "line" /\ Newlines = {}
  /\ \/ /\ taken < fetched
        /\ taken' = fetched
        /\ UNCHANGED <<fetched, ended>>
     \/ /\ taken = fetched /\ Readable /\ ~AtEnd
        /\ fetched' = ReadEnd /\ taken' = ReadEnd
        /\ UNCHANGED ended
  /\ UNCHANGED <<terminal, written, from, line, done, at, lockVars>>

\* Mutant: what has been read so far is a line.
NextLine_Eager ==
  /\ at[Prompt] = "line" /\ from <= taken
  /\ line' = <<from, Least(Newlines \cup {taken + 1}) - 1>>
  /\ Goto(Prompt, "got")
  /\ UNCHANGED <<terminal, written, ended, fetched, taken, from, done, lockVars>>

NextLine ==
  /\ at[Prompt] = "line" /\ Newlines # {}
  /\ line' = <<from, Least(Newlines) - 1>>
  /\ Goto(Prompt, "got")
  /\ UNCHANGED <<terminal, written, ended, fetched, taken, from, done, lockVars>>

\* At the end of the input the rest is a line; no rest, and readline panics.
LastLine ==
  /\ at[Prompt] = "line" /\ Newlines = {}
  /\ taken = fetched /\ AtEnd
  /\ EndSeen
  /\ IF from <= taken
       THEN line' = <<from, taken>> /\ Goto(Prompt, "got") /\ UNCHANGED lockVars
       ELSE UNCHANGED line /\ Panic(Prompt)
  /\ UNCHANGED <<terminal, written, fetched, taken, from, done>>

\* Mutant: an empty line ends the prompt's loop.
Trim_Quits ==
  /\ at[Prompt] = "got"
  /\ IF line[1] > line[2]
       THEN Goto(Prompt, "quit") /\ done' = Append(done, line)
       ELSE Goto(Prompt, "search") /\ UNCHANGED done
  /\ UNCHANGED <<inputVars, lockVars>>

\* An empty line is passed over.  With the line goes the BufReader, and what
\* it holds after the line.
Trim ==
  /\ at[Prompt] = "got"
  /\ IF line[1] > line[2]
       THEN Goto(Prompt, "fill") /\ done' = Append(done, line)
       ELSE Goto(Prompt, "search") /\ UNCHANGED done
  /\ UNCHANGED <<inputVars, lockVars>>

--------------------------------------------------------------------------------
(* The API.                                                                *)

Send(r) == /\ at[r] = "unsent" /\ Alive
           /\ Goto(r, "sent")
           /\ UNCHANGED <<inputVars, done, lockVars>>

\* Mutant: readline blocks the thread that accepts connections.
Accept_Behind(r) ==
  /\ at[r] = "sent"
  /\ at[Prompt] \notin {"fill", "line", "search", "query", "retrieve"}
  /\ Goto(r, "accepted")
  /\ UNCHANGED <<inputVars, done, lockVars>>

\* Connections are accepted by the thread that runs the prompt, while it
\* waits for input; a search of the prompt holds it up.
Accept(r) ==
  /\ at[r] = "sent"
  /\ at[Prompt] \notin {"search", "query", "retrieve", "gone"}
  /\ Goto(r, "accepted")
  /\ UNCHANGED <<inputVars, done, lockVars>>

\* set has no input to set, and stat decodes nothing.
Handle(r) ==
  /\ at[r] = "accepted"
  /\ IF RouteOf[r] # "stat" /\ QueryOf[r] = Undecodable
       THEN Panic(r)
       ELSE /\ Goto(r, IF RouteOf[r] = "q" THEN "search" ELSE "answered")
            /\ UNCHANGED lockVars
  /\ UNCHANGED <<inputVars, done>>

--------------------------------------------------------------------------------
(* Diverge::search, for the prompt and for requests.                       *)

Text(x) == IF x = Prompt THEN SubSeq(Script, line[1], line[2]) ELSE QueryOf[x]

Lock(x) ==
  /\ at[x] = "search" /\ cache = Free
  /\ IF poisoned
       THEN Panic(x)
       ELSE cache' = x /\ Goto(x, "query") /\ UNCHANGED poisoned
  /\ UNCHANGED <<inputVars, done>>

\* Mutant: the guard lives as long as the candidates.
Query_KeepsGuard(x) ==
  /\ at[x] = "query"
  /\ IF Text(x) \in Crashing
       THEN Panic(x)
       ELSE Goto(x, "retrieve") /\ UNCHANGED lockVars
  /\ UNCHANGED <<inputVars, done>>

\* The guard is dropped with the scope of query, before any retrieve.
Query(x) ==
  /\ at[x] = "query"
  /\ IF Text(x) \in Crashing
       THEN Panic(x)
       ELSE Goto(x, "retrieve") /\ cache' = Free /\ UNCHANGED poisoned
  /\ UNCHANGED <<inputVars, done>>

\* A word without an entry is unwrapped.
Retrieve(x) ==
  /\ at[x] = "retrieve"
  /\ IF Text(x) \in Stale
       THEN Panic(x) /\ UNCHANGED done
       ELSE /\ Goto(x, IF x = Prompt THEN "fill" ELSE "answered")
            /\ done' = IF x = Prompt THEN Append(done, line) ELSE done
            /\ cache' = IF cache = x THEN Free ELSE cache
            /\ UNCHANGED poisoned
  /\ UNCHANGED inputVars

--------------------------------------------------------------------------------
Search(x) == Lock(x) \/ Query(x) \/ Retrieve(x)
ReadLine  == Fill \/ Take \/ NextLine \/ LastLine \/ Trim
Serve(r)  == Accept(r) \/ Handle(r) \/ Search(r)

Next == \/ Write \/ EndInput
        \/ ReadLine \/ Search(Prompt)
        \/ \E r \in Requests : Send(r) \/ Serve(r)

Spec == Init /\ [][Next]_vars

\* The runtime polls the prompt and the accept loop, and its workers the
\* requests; whoever waits for the cache gets it in the end.
Fairness == /\ WF_vars(ReadLine) /\ WF_vars(Search(Prompt))
            /\ \A r \in Requests : WF_vars(Serve(r))

FairSpec == Spec /\ Fairness

--------------------------------------------------------------------------------
Stages == {"fill", "line", "got", "search", "query", "retrieve", "gone"}
RequestStages == {"unsent", "sent", "accepted", "search", "query", "retrieve",
                  "answered", "failed", "lost"}

TypeOK ==
  /\ terminal \in BOOLEAN /\ ended \in BOOLEAN /\ poisoned \in BOOLEAN
  /\ written \in 0 .. Len(Script) /\ fetched \in 0 .. written
  /\ taken \in 0 .. fetched /\ from \in 1 .. taken + 1
  /\ line \in (1 .. Len(Script) + 1) \X (0 .. Len(Script))
  /\ done \in Seq((1 .. Len(Script) + 1) \X (0 .. Len(Script)))
  /\ at \in [Actors -> Stages \cup RequestStages]
  /\ at[Prompt] \in Stages /\ \A r \in Requests : at[r] \in RequestStages
  /\ cache \in Actors \cup {Free} /\ \A x \in Actors : cache = x <=> at[x] = "query"

\* The complete lines of the first n tokens.
LinesUpTo(n) ==
  {l \in (1 .. n) \X (0 .. n) :
     /\ l[1] <= l[2] + 1 /\ l[2] < n /\ Script[l[2] + 1] = Newline
     /\ l[1] = 1 \/ Script[l[1] - 1] = Newline
     /\ \A p \in l[1] .. l[2] : Script[p] # Newline}

(***************************************************************************)
(* At a terminal no line is lost, repeated or taken out of order: whenever *)
(* the prompt waits, it has dealt with exactly the lines taken from the    *)
(* input, though each readline drops its own buffer (lib.rs:814-824).      *)
(***************************************************************************)
TerminalLosesNothing ==
  /\ terminal /\ at[Prompt] = "fill" =>
       {done[i] : i \in 1 .. Len(done)} = LinesUpTo(taken)
  /\ \A i \in 1 .. Len(done) - 1 : done[i][2] < done[i + 1][1]

(***************************************************************************)
(* From a pipe, where lines written together are lost (lib.rs:821), no     *)
(* line is made up: what is answered has no newline in it and runs to a    *)
(* newline or to the end of the input.  It may lack its beginning.         *)
(***************************************************************************)
AnswersRunToLineEnd ==
  \A i \in 1 .. Len(done) :
    /\ \A p \in done[i][1] .. done[i][2] : Script[p] # Newline
    /\ IF done[i][2] < written THEN Script[done[i][2] + 1] = Newline ELSE ended

(***************************************************************************)
(* Requests do not fail for one another's words (topk.rs:47, lib.rs:140):  *)
(* unless the index itself panicked on some text, a request fails only for *)
(* its own, although all searches share the locked cache.                  *)
(***************************************************************************)
FailsForItself ==
  \A r \in Requests : at[r] = "failed" =>
    \/ QueryOf[r] \in Stale \cup {Undecodable}
    \/ \E x \in Actors : at[x] \in {"failed", "gone"} /\ Text(x) \in Crashing

(***************************************************************************)
(* Every request that was sent is answered or fails, also while the prompt *)
(* waits for a line that nobody types (lib.rs:779, 789).                   *)
(***************************************************************************)
RequestsEnd ==
  \A r \in Requests : at[r] = "sent" ~> at[r] \in {"answered", "failed", "lost"}

(***************************************************************************)
(* Every line completed at a terminal is dealt with, unless the process    *)
(* has ended.                                                              *)
(***************************************************************************)
TerminalLinesEnd ==
  \A p \in LineEnds :
    terminal /\ p <= written
      ~> ~Alive \/ \E i \in 1 .. Len(done) : done[i][2] = p - 1
================================================================================
