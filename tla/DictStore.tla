------------------------------- MODULE DictStore -------------------------------
(***************************************************************************)
(* The data directory and the processes that use it: offdictd/src/lib.rs   *)
(* (open_db, load_index, import_glob, build_index_from_db, search, rmdata, *)
(* process_cmd, init_db), topk.rs (build_all, load_file), the two mains.   *)
(*                                                                         *)
(* The directory holds a RocksDB database, with one definition per (word,  *)
(* dictionary), and the index file with the words known when it was built. *)
(* A process is the panel's binary or the offdictd one, run with a command *)
(* or without ("none").  RocksDB is external: one process at a time holds  *)
(* the lock file, puts reach the log of the operating system at once, so a *)
(* process may die without losing them, but only a flush makes them        *)
(* survive a power loss.                                                   *)
(***************************************************************************)
EXTENDS Naturals, Sequences

CONSTANTS
  Words,      \* the headwords
  Dicts,      \* dictionary names
  Files,      \* source files
  NameOf,     \* file -> the name get_dictname_from_path finds, or NoName
  DefsIn,     \* file -> its <<word, definition>> pairs, or <<>> if unreadable
  Unreadable, \* files that load_yaml rejects
  Globs,      \* the sequences of files a pattern may stand for
  Procs,      \* processes that may run at the same time
  MaxRuns,    \* bound: commands started in a behaviour
  NoName, NoProc

ASSUME StoreAssumption ==
  /\ NoName \notin Dicts /\ NoProc \notin Procs
  /\ NameOf \in [Files -> Dicts \cup {NoName}]
  /\ DefsIn \in [Files -> Seq(Words \X (Nat \ {0}))]
  /\ Unreadable \subseteq Files
  /\ Globs \subseteq Seq(Files)
  /\ MaxRuns \in Nat

VARIABLES
  db,         \* (word, dictionary) -> definition, 0 for none
  survivors,  \* the databases a power loss may come back to: the one last
              \* flushed and every one since, as RocksDB replays its log
  broken,     \* the database's directory was removed in part
  index,      \* the index file
  synced,     \* the index file has reached the disk
  lock,       \* the process that holds the lock file
  proc,       \* process -> its control state and locals
  runs,       \* how many commands were started
  built,      \* history: a build ended, and nothing was removed or lost since
  promised    \* history: the keys a finished import found in the database

vars == <<db, survivors, broken, index, synced, lock, proc, runs,
          built, promised>>
dbVars    == <<db, survivors, broken, promised>>
indexVars == <<index, synced, built>>

Keys == Words \X Dicts
Empty == [k \in Keys |-> 0]
KeysIn(d) == {k \in Keys : d[k] # 0}
WordsIn(d) == {k[1] : k \in KeysIn(d)}

Absent == [state |-> "absent", words |-> {}]
Partial == [state |-> "partial", words |-> {}]
Whole(S) == [state |-> "whole", words |-> S]

Binaries == {"panel", "offdictd"}
Ops == {"none", "import", "lookup", "report", "build", "reset"}

Off == [pc |-> "off", bin |-> "panel", op |-> "none", glob |-> <<>>,
        files |-> <<>>, name |-> NoName, defs |-> <<>>, set |-> Absent,
        words |-> {}, left |-> {}]

Init == /\ db = Empty /\ survivors = {Empty} /\ broken = FALSE
        /\ index = Absent /\ synced = TRUE
        /\ lock = NoProc
        /\ proc = [p \in Procs |-> Off]
        /\ runs = 0
        /\ built = FALSE /\ promised = {}

Put(d, k, v) == [d EXCEPT ![k] = v]

At(p, pc) == proc[p].pc = pc
Ended == {"off", "ok", "error", "panic", "killed"}
Alive(p) == proc[p].pc \notin Ended
Goto(p, pc) == proc' = [proc EXCEPT ![p].pc = pc]

\* A process ends: it no longer holds the lock file or maps the index.
End(p, how) ==
  /\ proc' = [proc EXCEPT ![p] = [Off EXCEPT !.pc = how, !.bin = proc[p].bin,
                                             !.op = proc[p].op]]
  /\ lock' = IF lock = p THEN NoProc ELSE lock

--------------------------------------------------------------------------------
(* Starting: the database first, then the index.                           *)

Start(p, bin, op, glob) ==
  /\ ~Alive(p)
  /\ runs < MaxRuns
  /\ runs' = runs + 1
  /\ proc' = [proc EXCEPT ![p] = [Off EXCEPT !.pc = "opening", !.bin = bin,
                                             !.op = op, !.glob = glob]]
  /\ UNCHANGED <<dbVars, indexVars, lock>>

\* Mutant: a database that another process has open opens all the same.
OpenDb_Unlocked(p) ==
  /\ At(p, "opening")
  /\ IF broken
       THEN End(p, "panic")
       ELSE /\ lock' = p
            /\ Goto(p, IF proc[p].bin = "panel" THEN "loading" ELSE "command")
  /\ UNCHANGED <<dbVars, indexVars, runs>>

\* The unwrap of a failed open panics.  Only the panel's binary loads the
\* index at its start.
OpenDb(p) ==
  /\ At(p, "opening")
  /\ IF lock # NoProc \/ broken
       THEN End(p, "panic")
       ELSE /\ lock' = p
            /\ Goto(p, IF proc[p].bin = "panel" THEN "loading" ELSE "command")
  /\ UNCHANGED <<dbVars, indexVars, runs>>

\* A missing index is no index; one that does not decode is an error.
LoadIndex(p) ==
  /\ At(p, "loading")
  /\ IF index.state = "partial"
       THEN End(p, "error")
       ELSE /\ proc' = [proc EXCEPT ![p].pc = "command", ![p].set = index]
            /\ UNCHANGED lock
  /\ UNCHANGED <<dbVars, indexVars, runs>>

--------------------------------------------------------------------------------
(* What follows the start depends on the command.                          *)

Running(p, op) == At(p, "command") /\ proc[p].op = op

\* The command is over: the panel's binary ends, offdictd serves if it has
\* an index by now, as the panel without a command does in any case.
Served(p) == IF proc[p].bin = "panel" THEN proc[p].op = "none"
             ELSE proc[p].set.state = "whole"

Finish(p) == IF Served(p) THEN Goto(p, "serving") /\ UNCHANGED lock
             ELSE End(p, "ok")

NoCommand(p) == /\ Running(p, "none")
                /\ Finish(p)
                /\ UNCHANGED <<dbVars, indexVars, runs>>

\* stat, bench and the export of the words only read the store; a bench
\* without an index panics, and the export ends the process by itself.
Report(p) == /\ Running(p, "report")
             /\ \/ Finish(p)
                \/ proc[p].set.state # "whole" /\ End(p, "panic")
                \/ End(p, "ok")
             /\ UNCHANGED <<dbVars, indexVars, runs>>

\* The words a query may find, without an index none.
Found(p, cands) == /\ cands \subseteq proc[p].set.words
                   /\ cands # {}

\* A candidate without an entry panics.  That ends a process whose main
\* thread searches, for a command or a line of the daemon's prompt, and the
\* panel's lookup task; a request to the daemon costs only its answer.
Search(p, cands) ==
  /\ Running(p, "lookup") \/ At(p, "serving")
  /\ Found(p, cands)
  /\ IF cands \subseteq WordsIn(db)
       THEN IF At(p, "serving") THEN UNCHANGED <<proc, lock>> ELSE Finish(p)
       ELSE \/ /\ At(p, "command") \/ proc[p].bin = "offdictd"
               /\ End(p, "panic")
            \/ /\ At(p, "serving")
               /\ Goto(p, IF proc[p].bin = "panel" THEN "deaf" ELSE "serving")
               /\ UNCHANGED lock
  /\ UNCHANGED <<dbVars, indexVars, runs>>

FindNothing(p) == /\ Running(p, "lookup")
                  /\ Finish(p)
                  /\ UNCHANGED <<dbVars, indexVars, runs>>

--------------------------------------------------------------------------------
(* Import.  Every file is named before any is read.                        *)

\* Mutant: a file without a dictionary's name is imported under none.
BeginImport_Unnamed(p) ==
  /\ Running(p, "import")
  /\ proc' = [proc EXCEPT ![p].pc = "import", ![p].files = proc[p].glob]
  /\ UNCHANGED <<dbVars, indexVars, lock, runs>>

BeginImport(p) ==
  /\ Running(p, "import")
  /\ IF \E i \in 1 .. Len(proc[p].glob) : NameOf[proc[p].glob[i]] = NoName
       THEN Finish(p)
       ELSE /\ proc' = [proc EXCEPT ![p].pc = "import", ![p].files = proc[p].glob]
            /\ UNCHANGED lock
  /\ UNCHANGED <<dbVars, indexVars, runs>>

\* Mutant: the files are taken from the last to the first.
LoadFile_Reversed(p) ==
  /\ At(p, "import")
  /\ proc[p].files # <<>> /\ proc[p].defs = <<>>
  /\ LET f == proc[p].files[Len(proc[p].files)] IN
       IF f \in Unreadable
         THEN End(p, "panic")
         ELSE /\ proc' = [proc EXCEPT ![p].files = SubSeq(@, 1, Len(@) - 1),
                                      ![p].name = NameOf[f],
                                      ![p].defs = DefsIn[f]]
              /\ UNCHANGED lock
  /\ UNCHANGED <<dbVars, indexVars, runs>>

\* The whole file is decoded before its first put.
LoadFile(p) ==
  /\ At(p, "import")
  /\ proc[p].files # <<>> /\ proc[p].defs = <<>>
  /\ LET f == Head(proc[p].files) IN
       IF f \in Unreadable
         THEN End(p, "panic")
         ELSE /\ proc' = [proc EXCEPT ![p].files = Tail(@),
                                      ![p].name = NameOf[f],
                                      ![p].defs = DefsIn[f]]
              /\ UNCHANGED lock
  /\ UNCHANGED <<dbVars, indexVars, runs>>

PutDef(p) ==
  /\ At(p, "import")
  /\ proc[p].defs # <<>>
  /\ LET def == Head(proc[p].defs)
         key == <<def[1], proc[p].name>> IN
       /\ db' = Put(db, key, def[2])
       /\ survivors' = survivors \cup {db'}
  /\ proc' = [proc EXCEPT ![p].defs = Tail(@)]
  /\ UNCHANGED <<broken, promised, indexVars, lock, runs>>

\* Mutant: the memory table is left to RocksDB.
EndImport_Unflushed(p) ==
  /\ At(p, "import")
  /\ proc[p].files = <<>> /\ proc[p].defs = <<>>
  /\ promised' = KeysIn(db)
  /\ Finish(p)
  /\ UNCHANGED <<db, survivors, broken, indexVars, runs>>

EndImport(p) ==
  /\ At(p, "import")
  /\ proc[p].files = <<>> /\ proc[p].defs = <<>>
  /\ survivors' = {db}
  /\ promised' = KeysIn(db)
  /\ Finish(p)
  /\ UNCHANGED <<db, broken, indexVars, runs>>

--------------------------------------------------------------------------------
(* Build.  The index file is written in place.                             *)

\* Mutant: the words of the index that was loaded are kept.
CollectWords_Incremental(p) ==
  /\ Running(p, "build")
  /\ proc' = [proc EXCEPT ![p].pc = "truncate",
                          ![p].words = WordsIn(db) \cup proc[p].set.words]
  /\ UNCHANGED <<dbVars, indexVars, lock, runs>>

CollectWords(p) ==
  /\ Running(p, "build")
  /\ proc' = [proc EXCEPT ![p].pc = "truncate", ![p].words = WordsIn(db)]
  /\ UNCHANGED <<dbVars, indexVars, lock, runs>>

\* File::create empties the file under every mapping of it.  (A file that a
\* reset has unlinked under a mapping is not told apart: its process only
\* resets, and ends.)
TruncateIndex(p) ==
  /\ At(p, "truncate")
  /\ index' = Partial /\ synced' = FALSE /\ built' = FALSE
  /\ proc' = [q \in Procs |->
                LET r == IF q = p THEN [proc[p] EXCEPT !.pc = "write"] ELSE proc[q]
                IN  IF r.set.state = "whole" THEN [r EXCEPT !.set = Partial] ELSE r]
  /\ UNCHANGED <<dbVars, lock, runs>>

WriteIndex(p) ==
  /\ At(p, "write")
  /\ index' = Whole(proc[p].words) /\ synced' = FALSE
  /\ built' = TRUE
  /\ Goto(p, "reload")
  /\ UNCHANGED <<dbVars, lock, runs>>

\* The index read back is the one that serves; a reset may have removed it.
ReloadIndex(p) ==
  /\ At(p, "reload")
  /\ IF index.state # "whole"
       THEN End(p, "error")
       ELSE IF proc[p].bin = "panel"
              THEN End(p, "ok")
              ELSE /\ proc' = [proc EXCEPT ![p].pc = "serving", ![p].set = index]
                   /\ UNCHANGED lock
  /\ UNCHANGED <<dbVars, indexVars, runs>>

--------------------------------------------------------------------------------
(* Reset.  remove_dir_all takes the entries in the order the file system   *)
(* lists them.  With the database goes its lock file: from then on another *)
(* process opens a new database beside the old index.                      *)

BeginReset(p) ==
  /\ Running(p, "reset")
  /\ proc' = [proc EXCEPT ![p].pc = "reset", ![p].left = {"db", "index"}]
  /\ UNCHANGED <<dbVars, indexVars, lock, runs>>

RemoveDb(p) ==
  /\ At(p, "reset") /\ "db" \in proc[p].left
  /\ db' = Empty /\ survivors' = {Empty} /\ promised' = {}
  /\ built' = FALSE
  /\ lock' = NoProc
  /\ proc' = [proc EXCEPT ![p].left = @ \ {"db"}]
  /\ UNCHANGED <<broken, index, synced, runs>>

RemoveIndex(p) ==
  /\ At(p, "reset") /\ "index" \in proc[p].left
  /\ index' = Absent /\ synced' = TRUE /\ built' = FALSE
  /\ proc' = [proc EXCEPT ![p].left = @ \ {"index"}]
  /\ UNCHANGED <<dbVars, lock, runs>>

EndReset(p) == /\ At(p, "reset") /\ proc[p].left = {}
               /\ Finish(p)
               /\ UNCHANGED <<dbVars, indexVars, runs>>

\* An entry that cannot be removed, such as the directory that a process
\* opened meanwhile is no longer empty.
FailReset(p) == /\ At(p, "reset")
                /\ End(p, "error")
                /\ UNCHANGED <<dbVars, indexVars, runs>>

--------------------------------------------------------------------------------
(* Failures.                                                               *)

\* The process is killed, or a serving one ends by itself.  A kill in the
\* middle of removing the database, otherwise one step, may leave a
\* directory that RocksDB refuses to open.
Kill(p) ==
  /\ Alive(p)
  /\ End(p, "killed")
  /\ \/ UNCHANGED <<dbVars, indexVars>>
     \/ /\ At(p, "reset") /\ "db" \in proc[p].left
        /\ db' = Empty /\ survivors' = {Empty} /\ promised' = {}
        /\ broken' = TRUE
        /\ built' = FALSE
        /\ UNCHANGED <<index, synced>>
  /\ UNCHANGED runs

\* The kernel writes the index file back; nothing in the code asks for it.
Writeback == /\ ~synced
             /\ synced' = TRUE
             /\ UNCHANGED <<dbVars, index, built, lock, proc, runs>>

\* The machine stops: the last of the unflushed puts are lost, and an index
\* file not written back may come back in part.
PowerLoss ==
  /\ db' \in survivors
  /\ survivors' = {db'}
  /\ index' \in IF synced THEN {index} ELSE {index, Partial}
  /\ synced' = TRUE
  /\ built' = (built /\ WordsIn(db') = WordsIn(db) /\ index' = index)
  /\ proc' = [p \in Procs |-> IF Alive(p) THEN [Off EXCEPT !.pc = "killed"]
                              ELSE proc[p]]
  /\ lock' = NoProc
  /\ UNCHANGED <<broken, promised, runs>>

--------------------------------------------------------------------------------
Step(p) ==
  \/ OpenDb(p) \/ LoadIndex(p)
  \/ NoCommand(p) \/ Report(p) \/ FindNothing(p)
  \/ \E cands \in SUBSET proc[p].set.words : Search(p, cands)
  \/ BeginImport(p) \/ LoadFile(p) \/ PutDef(p) \/ EndImport(p)
  \/ CollectWords(p) \/ TruncateIndex(p) \/ WriteIndex(p) \/ ReloadIndex(p)
  \/ BeginReset(p) \/ RemoveDb(p) \/ RemoveIndex(p) \/ EndReset(p) \/ FailReset(p)

Next ==
  \/ \E p \in Procs, bin \in Binaries :
       \/ \E op \in Ops \ {"import"} : Start(p, bin, op, <<>>)
       \/ \E glob \in Globs : Start(p, bin, "import", glob)
  \/ \E p \in Procs : Step(p) \/ Kill(p)
  \/ Writeback \/ PowerLoss

Spec == Init /\ [][Next]_vars

--------------------------------------------------------------------------------
IndexFile == [state : {"absent", "partial", "whole"}, words : SUBSET Words]

Points == {"opening", "loading", "command", "import", "truncate", "write",
           "reload", "reset", "serving", "deaf"}

Process == [pc : Ended \cup Points, bin : Binaries, op : Ops,
            glob : Seq(Files), files : Seq(Files), name : Dicts \cup {NoName},
            defs : Seq(Words \X (Nat \ {0})), set : IndexFile,
            words : SUBSET Words, left : SUBSET {"db", "index"}]

\* What an import has still to load and to put has a dictionary's name.
Named(p) ==
  /\ At(p, "import") => \A i \in 1 .. Len(proc[p].files) :
                          NameOf[proc[p].files[i]] \in Dicts
  /\ proc[p].defs # <<>> => proc[p].name \in Dicts

TypeOK ==
  /\ db \in [Keys -> Nat] /\ survivors \in SUBSET [Keys -> Nat]
  /\ broken \in BOOLEAN /\ synced \in BOOLEAN /\ built \in BOOLEAN
  /\ index \in IndexFile
  /\ lock \in Procs \cup {NoProc}
  /\ runs \in 0 .. MaxRuns
  /\ promised \in SUBSET Keys
  /\ proc \in [Procs -> Process]
  /\ \A p \in Procs : Named(p) /\ (lock = p => Alive(p))

(***************************************************************************)
(* After a build, until something is removed or lost, no search panics:    *)
(* every word of the index file and of every index a process searches has  *)
(* an entry in the database, whatever imports, panics and kills follow     *)
(* (the unwrap at lib.rs:140).                                             *)
(***************************************************************************)
SearchSafe ==
  built =>
    /\ index.state = "whole" /\ index.words \subseteq WordsIn(db)
    /\ \A p \in Procs : At(p, "command") \/ At(p, "serving")
                          => proc[p].set.words \subseteq WordsIn(db)

(***************************************************************************)
(* No process searches an index file that a build has truncated under its  *)
(* mapping (topk.rs:30, 38): only the database's lock keeps them apart.    *)
(***************************************************************************)
MappingIntact ==
  \A p \in Procs : At(p, "command") \/ At(p, "serving")
                      => proc[p].set.state # "partial"

(***************************************************************************)
(* What a finished import found in the database outlives kills, panics and *)
(* power losses, until a reset (the flush at lib.rs:304).                  *)
(***************************************************************************)
ImportStays == promised \subseteq KeysIn(db)

Def(glob, i, j) == DefsIn[glob[i]][j]
KeyOf(glob, i, j) == <<Def(glob, i, j)[1], NameOf[glob[i]]>>

\* No definition after the j-th of the i-th file is for the same key.
IsLast(glob, i, j) ==
  \A k \in i .. Len(glob) : \A l \in 1 .. Len(DefsIn[glob[k]]) :
    k > i \/ l > j => KeyOf(glob, k, l) # KeyOf(glob, i, j)

LastOnesStored(glob) ==
  \A i \in 1 .. Len(glob) : \A j \in 1 .. Len(DefsIn[glob[i]]) :
    IsLast(glob, i, j) => db[KeyOf(glob, i, j)] = Def(glob, i, j)[2]

(***************************************************************************)
(* A finished import leaves, for every word and dictionary its files       *)
(* define, the last definition they give, whatever earlier imports were    *)
(* cut short (lib.rs:298-333): two files may share a dictionary's name.    *)
(***************************************************************************)
ImportConverges ==
  [][\A p \in Procs : EndImport(p) => LastOnesStored(proc[p].glob)]_vars

Durable == INSTANCE DurableStore WITH known <- KeysIn(db), sure <- promised

(***************************************************************************)
(* The directory implements a durable store of entries: what a finished    *)
(* import saw is sure, a power loss takes entries imported since at most,  *)
(* and only a reset takes both (lib.rs:304, 175).                          *)
(***************************************************************************)
ImplementsDurable == Durable!Spec
================================================================================
