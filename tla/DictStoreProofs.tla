---------------------------- MODULE DictStoreProofs ----------------------------
(***************************************************************************)
(* Proofs about the data directory.  That what a build promises and what   *)
(* an import promises survive every interleaving of processes and failures *)
(* rests on who holds the lock file (Holder), on what each process knows   *)
(* of the index (Fresh, Mapped), on what a power loss may take (Survive)   *)
(* and on how far an import has come (Imported).                           *)
(***************************************************************************)
EXTENDS DictStore, SequenceTheorems, TLAPS

(* Whoever works on the directory holds the lock file; a reset holds it    *)
(* until the database, and the lock file in it, is gone.                   *)
Holds(p) == \/ proc[p].pc \in Points \ {"opening", "reset"}
            \/ At(p, "reset") /\ "db" \in proc[p].left

Holder == \A p \in Procs : Holds(p) => lock = p

(* A process has an index only once it has loaded it.                      *)
Unloaded(p) == \/ proc[p].pc \in {"opening", "loading"}
               \/ proc[p].bin = "offdictd" /\ ~At(p, "serving")

Fresh == \A p \in Procs : /\ Unloaded(p) => proc[p].set = Absent
                          /\ At(p, "loading") => proc[p].bin = "panel"

Erasing == \A p \in Procs : At(p, "reset") => proc[p].op = "reset"

(* The index that a process searches with, or will after its command.      *)
Searching(p) == proc[p].pc \in {"command", "import", "serving"}

Mapped == \A p \in Procs : Searching(p) => proc[p].set.state # "partial"

(* What a build is about to write.                                         *)
Collected == \A p \in Procs : proc[p].pc \in {"truncate", "write"}
                                => proc[p].words \subseteq WordsIn(db)

Covered ==
  built => /\ index.state = "whole" /\ index.words \subseteq WordsIn(db)
           /\ \A p \in Procs : Searching(p)
                                 => proc[p].set.words \subseteq WordsIn(db)

Survive == /\ db \in survivors
           /\ \A d \in survivors : /\ promised \subseteq KeysIn(d)
                                   /\ KeysIn(d) \subseteq KeysIn(db)

(* How far an import has come: the files it has begun, and the definitions *)
(* of the last of these that it has put.                                   *)
Begun(p) == Len(proc[p].glob) - Len(proc[p].files)
Done(p) == IF Begun(p) = 0 THEN 0
           ELSE Len(DefsIn[proc[p].glob[Begun(p)]]) - Len(proc[p].defs)

(* What is left of its files and definitions is the rest of them.          *)
Remaining(p) ==
  /\ Begun(p) \in Nat /\ Done(p) \in Nat
  /\ \A i \in 1 .. Len(proc[p].glob) : NameOf[proc[p].glob[i]] \in Dicts
  /\ \A i \in 1 .. Len(proc[p].files) :
       proc[p].files[i] = proc[p].glob[Begun(p) + i]
  /\ IF Begun(p) = 0 THEN proc[p].defs = <<>>
     ELSE /\ proc[p].name = NameOf[proc[p].glob[Begun(p)]]
          /\ \A j \in 1 .. Len(proc[p].defs) :
               proc[p].defs[j] = Def(proc[p].glob, Begun(p), Done(p) + j)

(* The definitions of the first n files, of the n-th the first m.          *)
Passed(glob, n, m, i, j) ==
  i \in 1 .. n /\ j \in 1 .. Len(DefsIn[glob[i]]) /\ (i < n \/ j <= m)

(* Each of them is in the database d, or a later one of them for its key.  *)
StoredUpTo(d, glob, n, m) ==
  \A i, j \in Nat : Passed(glob, n, m, i, j) =>
    \/ d[KeyOf(glob, i, j)] = Def(glob, i, j)[2]
    \/ \E k, l \in Nat : /\ Passed(glob, n, m, k, l)
                         /\ (k > i \/ (k = i /\ l > j))
                         /\ KeyOf(glob, k, l) = KeyOf(glob, i, j)

Imported ==
  \A p \in Procs :
    /\ proc[p].pc \in {"opening", "loading", "command"} => proc[p].defs = <<>>
    /\ At(p, "import") => /\ Remaining(p)
                          /\ StoredUpTo(db, proc[p].glob, Begun(p), Done(p))

IInv == TypeOK /\ Holder /\ Fresh /\ Erasing /\ Mapped /\ Collected /\ Covered /\ Survive /\ Imported
--------------------------------------------------------------------------------
\* A process that starts or ends is a process record.
LEMMA OffIsProcess ==
  ASSUME NEW bin \in Binaries, NEW op \in Ops, NEW pc \in Ended \cup Points
  PROVE  [Off EXCEPT !.pc = pc, !.bin = bin, !.op = op] \in Process
<1>1. <<>> \in Seq(Files) /\ <<>> \in Seq(Words \X (Nat \ {0}))
  OBVIOUS
<1> QED
  BY <1>1 DEF Off, Process, Absent, IndexFile

\* The record of each process is one, and a file being read has a name.
LEMMA RecordOf ==
  ASSUME TypeOK, NEW p \in Procs
  PROVE  proc[p] \in Process /\ (proc[p].defs # <<>> => proc[p].name \in Dicts)
BY DEF TypeOK, Named

\* The words of the database are words.
LEMMA WordsInType ==
  ASSUME TypeOK
  PROVE  WordsIn(db) \subseteq Words
BY DEF WordsIn, KeysIn, Keys

\* The empty database has no keys.
LEMMA EmptyType ==
  Empty \in [Keys -> Nat] /\ KeysIn(Empty) = {} /\ WordsIn(Empty) = {}
BY DEF Empty, KeysIn, WordsIn

\* Processes other than p keep what TypeOK says of them.
LEMMA OtherTypes ==
  ASSUME TypeOK, NEW p \in Procs, NEW q \in Procs \ {p},
         proc'[q] = proc[q], lock' \in {lock, NoProc, p}
  PROVE  Named(q)' /\ (lock' = q => Alive(q)')
<1>1. Named(q) /\ (lock = q => Alive(q)) /\ q # NoProc
  BY StoreAssumption DEF TypeOK
<1>2. Named(q)'
  BY <1>1 DEF Named, At
<1>3. lock' = q => Alive(q)'
  BY <1>1 DEF Alive
<1> QED
  BY <1>2, <1>3

\* A process that ends keeps the types.
LEMMA EndTypes ==
  ASSUME TypeOK, NEW p \in Procs, NEW how \in Ended, End(p, how)
  PROVE  /\ proc' \in [Procs -> Process]
         /\ lock' \in Procs \cup {NoProc}
         /\ \A q \in Procs : Named(q)' /\ (lock' = q => Alive(q)')
<1>1. proc[p].bin \in Binaries /\ proc[p].op \in Ops
  BY DEF TypeOK, Process
<1>2. [Off EXCEPT !.pc = how, !.bin = proc[p].bin, !.op = proc[p].op] \in Process
  BY <1>1, OffIsProcess
<1>3. p # NoProc
  BY StoreAssumption
<1>4. proc' \in [Procs -> Process]
  BY <1>2 DEF End, TypeOK
<1>5. /\ proc'[p].defs = <<>> /\ proc'[p].pc # "import"
      /\ \A q \in Procs \ {p} : proc'[q] = proc[q]
  BY DEF End, TypeOK, Off, Ended
<1>6. lock' # p /\ lock' \in {lock, NoProc}
  BY <1>3 DEF End
<1>7. lock' \in Procs \cup {NoProc}
  BY <1>6 DEF TypeOK
<1>8. Named(p)'
  BY <1>5 DEF Named, At
<1> QED
  BY <1>4, <1>5, <1>6, <1>7, <1>8, OtherTypes

\* A process whose record changes to another one of the type, and stays
\* alive, keeps the types.
LEMMA BecomeTypes ==
  ASSUME TypeOK, NEW p \in Procs, NEW r \in Process,
         r.pc \in Points, lock' \in {lock, NoProc, p},
         r.pc = "import" => \A i \in 1 .. Len(r.files) : NameOf[r.files[i]] \in Dicts,
         r.defs # <<>> => r.name \in Dicts,
         proc' = [proc EXCEPT ![p] = r]
  PROVE  /\ proc' \in [Procs -> Process]
         /\ lock' \in Procs \cup {NoProc}
         /\ \A q \in Procs : Named(q)' /\ (lock' = q => Alive(q)')
<1>1. r.pc \notin Ended
  BY DEF Points, Ended
<1>2. proc'[p] = r /\ \A q \in Procs \ {p} : proc'[q] = proc[q]
  BY DEF TypeOK
<1>3. Named(p)' /\ Alive(p)'
  BY <1>1, <1>2 DEF Named, Alive, At
<1>4. proc' \in [Procs -> Process] /\ lock' \in Procs \cup {NoProc}
  BY DEF TypeOK
<1> QED
  BY <1>2, <1>3, <1>4, OtherTypes

\* A process that only moves, but not to the import, keeps the types.
LEMMA GotoTypes ==
  ASSUME TypeOK, NEW p \in Procs, NEW pc \in Points \ {"import"}, Goto(p, pc),
         UNCHANGED lock
  PROVE  /\ proc' \in [Procs -> Process]
         /\ lock' \in Procs \cup {NoProc}
         /\ \A q \in Procs : Named(q)' /\ (lock' = q => Alive(q)')
<1> DEFINE r == [proc[p] EXCEPT !.pc = pc]
<1>1. r \in Process /\ r.pc = pc /\ r.defs = proc[p].defs /\ r.name = proc[p].name
  BY ZenonT(60) DEF TypeOK, Process
<1>2. r.defs # <<>> => r.name \in Dicts
  BY <1>1 DEF TypeOK, Named
<1>3. proc' = [proc EXCEPT ![p] = r]
  BY DEF Goto
<1> HIDE DEF r
<1> QED
  BY <1>1, <1>2, <1>3, BecomeTypes

\* A command that is finished keeps the types.
LEMMA FinishTypes ==
  ASSUME TypeOK, NEW p \in Procs, Finish(p)
  PROVE  /\ proc' \in [Procs -> Process]
         /\ lock' \in Procs \cup {NoProc}
         /\ \A q \in Procs : Named(q)' /\ (lock' = q => Alive(q)')
<1>1. CASE Served(p)
  BY <1>1, GotoTypes DEF Finish, Points
<1>2. CASE ~Served(p)
  BY <1>2, EndTypes DEF Finish, Ended
<1> QED
  BY <1>1, <1>2

\* The types hold initially.
LEMMA TypeInit == Init => TypeOK
<1> SUFFICES ASSUME Init PROVE TypeOK
  OBVIOUS
<1>1. Off \in Process
  <2>1. <<>> \in Seq(Files) /\ <<>> \in Seq(Words \X (Nat \ {0}))
    OBVIOUS
  <2> QED
    BY <2>1 DEF Off, Process, Absent, IndexFile, Ended, Binaries, Ops
<1>2. Empty \in [Keys -> Nat] /\ Absent \in IndexFile
  BY DEF Empty, Absent, IndexFile
<1>3. /\ broken \in BOOLEAN /\ synced \in BOOLEAN /\ built \in BOOLEAN
      /\ db \in [Keys -> Nat] /\ survivors \in SUBSET [Keys -> Nat]
      /\ index \in IndexFile /\ lock \in Procs \cup {NoProc}
      /\ promised \in SUBSET Keys
  BY <1>2, Zenon DEF Init
<1>4. runs \in 0 .. MaxRuns
  BY StoreAssumption DEF Init
<1>5. proc \in [Procs -> Process]
  BY <1>1 DEF Init
<1>6. \A p \in Procs : lock # p /\ proc[p].defs = <<>> /\ ~At(p, "import")
  BY StoreAssumption DEF Init, Off, At
<1> QED
  BY <1>3, <1>4, <1>5, <1>6 DEF TypeOK, Named

\* Every step of a process keeps the types.
LEMMA TypeStep ==
  ASSUME TypeOK, NEW p \in Procs, Step(p)
  PROVE  TypeOK'
<1> USE DEF dbVars, indexVars
<1>1. CASE OpenDb(p)
  <2>1. CASE lock # NoProc \/ broken
    BY <1>1, <2>1, EndTypes DEF OpenDb, TypeOK, Ended
  <2>2. CASE ~(lock # NoProc \/ broken)
    <3> DEFINE r == [proc[p] EXCEPT !.pc = IF proc[p].bin = "panel" THEN "loading"
                                           ELSE "command"]
    <3>1. /\ r \in Process /\ r.pc \in Points \ {"import"}
          /\ r.defs # <<>> => r.name \in Dicts
      BY RecordOf, ZenonT(60) DEF Process, Points
    <3>2. proc' = [proc EXCEPT ![p] = r] /\ lock' = p
      BY <1>1, <2>2 DEF OpenDb, Goto
    <3> HIDE DEF r
    <3> QED
      BY <1>1, <3>1, <3>2, BecomeTypes DEF OpenDb, TypeOK
  <2> QED
    BY <2>1, <2>2
<1>2. CASE LoadIndex(p)
  <2>1. CASE index.state = "partial"
    BY <1>2, <2>1, EndTypes DEF LoadIndex, TypeOK, Ended
  <2>2. CASE index.state # "partial"
    <3> DEFINE r == [proc[p] EXCEPT !.pc = "command", !.set = index]
    <3>0. index \in IndexFile
      BY DEF TypeOK
    <3>1. /\ r \in Process /\ r.pc \in Points \ {"import"}
          /\ r.defs # <<>> => r.name \in Dicts
      BY <3>0, RecordOf, ZenonT(60) DEF Process, Points
    <3>2. proc' = [proc EXCEPT ![p] = r] /\ lock' = lock
      BY <1>2, <2>2 DEF LoadIndex
    <3> HIDE DEF r
    <3> QED
      BY <1>2, <3>1, <3>2, BecomeTypes DEF LoadIndex, TypeOK
  <2> QED
    BY <2>1, <2>2
<1>3. CASE NoCommand(p) \/ Report(p) \/ FindNothing(p)
  BY <1>3, FinishTypes, EndTypes DEF NoCommand, Report, FindNothing, TypeOK, Ended
<1>4. ASSUME NEW cands \in SUBSET proc[p].set.words, Search(p, cands) PROVE TypeOK'
  <2>1. CASE UNCHANGED <<proc, lock>>
    BY <1>4, <2>1 DEF Search, TypeOK, Alive, Named, At
  <2>2. CASE Finish(p)
    BY <1>4, <2>2, FinishTypes DEF Search, TypeOK
  <2>3. CASE End(p, "panic")
    BY <1>4, <2>3, EndTypes DEF Search, TypeOK, Ended
  <2>4. ASSUME NEW pc \in {"deaf", "serving"}, Goto(p, pc), UNCHANGED lock
        PROVE  TypeOK'
    BY <1>4, <2>4, GotoTypes DEF Search, TypeOK, Points
  <2> QED
    BY <1>4, <2>1, <2>2, <2>3, <2>4 DEF Search
<1>5. CASE BeginImport(p)
  <2>1. CASE Finish(p)
    BY <1>5, <2>1, FinishTypes DEF BeginImport, TypeOK
  <2>2. CASE ~Finish(p)
    <3> DEFINE r == [proc[p] EXCEPT !.pc = "import", !.files = proc[p].glob]
    <3>1. /\ r \in Process /\ r.pc \in Points /\ r.files = proc[p].glob
          /\ r.defs # <<>> => r.name \in Dicts
      BY RecordOf, ZenonT(60) DEF Process, Points
    <3>2. proc' = [proc EXCEPT ![p] = r] /\ lock' = lock
      BY <1>5, <2>2 DEF BeginImport
    <3>3. \A i \in 1 .. Len(r.files) : NameOf[r.files[i]] \in Dicts
      <4>1. proc[p].glob \in Seq(Files)
        BY DEF TypeOK, Process
      <4>2. \A i \in 1 .. Len(proc[p].glob) : NameOf[proc[p].glob[i]] # NoName
        BY <1>5, <2>2 DEF BeginImport
      <4> QED
        BY <3>1, <4>1, <4>2, StoreAssumption
    <3> HIDE DEF r
    <3> QED
      BY <1>5, <3>1, <3>2, <3>3, BecomeTypes DEF BeginImport, TypeOK
  <2> QED
    BY <2>1, <2>2
<1>6. CASE LoadFile(p)
  <2> DEFINE f == Head(proc[p].files)
  <2>1. CASE f \in Unreadable
    BY <1>6, <2>1, EndTypes DEF LoadFile, TypeOK, Ended
  <2>2. CASE f \notin Unreadable
    <3> DEFINE r == [proc[p] EXCEPT !.files = Tail(@), !.name = NameOf[f],
                                    !.defs = DefsIn[f]]
    <3>1. /\ proc[p] \in Process /\ proc[p].files # <<>> /\ proc[p].pc = "import"
          /\ \A i \in 1 .. Len(proc[p].files) : NameOf[proc[p].files[i]] \in Dicts
      BY <1>6 DEF TypeOK, LoadFile, Named, At
    <3>2. /\ f \in Files /\ Tail(proc[p].files) \in Seq(Files) /\ NameOf[f] \in Dicts
          /\ \A i \in 1 .. Len(Tail(proc[p].files)) :
               NameOf[Tail(proc[p].files)[i]] \in Dicts
      <4>1. proc[p].files \in Seq(Files)
        BY <3>1 DEF Process
      <4> QED
        BY <3>1, <4>1
    <3>3. r \in Process /\ r.pc \in Points
      BY <3>1, <3>2, StoreAssumption DEF Process, Points
    <3>4. r.name \in Dicts /\ \A i \in 1 .. Len(r.files) : NameOf[r.files[i]] \in Dicts
      BY <3>1, <3>2 DEF Process
    <3>5. proc' = [proc EXCEPT ![p] = r] /\ lock' = lock
      BY <1>6, <2>2 DEF LoadFile
    <3> HIDE DEF r
    <3> QED
      BY <1>6, <3>3, <3>4, <3>5, BecomeTypes DEF LoadFile, TypeOK
  <2> QED
    BY <2>1, <2>2
<1>7. CASE PutDef(p)
  <2> DEFINE r == [proc[p] EXCEPT !.defs = Tail(@)]
             key == <<Head(proc[p].defs)[1], proc[p].name>>
             v == Head(proc[p].defs)[2]
  <2>1. /\ proc[p] \in Process /\ proc[p].defs # <<>> /\ proc[p].pc = "import"
        /\ \A i \in 1 .. Len(proc[p].files) : NameOf[proc[p].files[i]] \in Dicts
        /\ proc[p].name \in Dicts
    BY <1>7 DEF TypeOK, PutDef, Named, At
  <2>0. Tail(proc[p].defs) \in Seq(Words \X (Nat \ {0}))
    <3>1. proc[p].defs \in Seq(Words \X (Nat \ {0}))
      BY <2>1 DEF Process
    <3> QED
      BY <2>1, <3>1
  <2>2. r \in Process /\ r.pc \in Points /\ r.name \in Dicts /\ r.files = proc[p].files
    BY <2>0, <2>1 DEF Process, Points
  <2>3. proc' = [proc EXCEPT ![p] = r] /\ lock' = lock
    BY <1>7 DEF PutDef
  <2>4. v \in Nat
    BY <2>1 DEF Process
  <2>5. db' \in [Keys -> Nat] /\ survivors' = survivors \cup {db'}
    BY <1>7, <2>4 DEF PutDef, Put, TypeOK
  <2> HIDE DEF r, v, key
  <2> QED
    BY <1>7, <2>1, <2>2, <2>3, <2>5, BecomeTypes DEF PutDef, TypeOK
<1>8. CASE EndImport(p)
  BY <1>8, FinishTypes DEF EndImport, TypeOK, KeysIn
<1>9. CASE CollectWords(p)
  <2> DEFINE r == [proc[p] EXCEPT !.pc = "truncate", !.words = WordsIn(db)]
  <2>1. r \in Process /\ r.pc \in Points \ {"import"} /\ (r.defs # <<>> => r.name \in Dicts)
    BY <1>9, RecordOf, WordsInType, ZenonT(60) DEF CollectWords, Process, Points
  <2>2. proc' = [proc EXCEPT ![p] = r]
    BY <1>9 DEF CollectWords, Goto, At
  <2> HIDE DEF r
  <2>3. lock' \in {lock, NoProc, p}
    BY <1>9 DEF CollectWords
  <2> QED
    BY <1>9, <2>1, <2>2, <2>3, BecomeTypes DEF CollectWords, TypeOK
<1>10. CASE TruncateIndex(p)
  <2> DEFINE s(q) == IF q = p THEN [proc[p] EXCEPT !.pc = "write"] ELSE proc[q]
             r(q) == IF s(q).set.state = "whole" THEN [s(q) EXCEPT !.set = Partial]
                     ELSE s(q)
  <2>1. ASSUME NEW q \in Procs
        PROVE  /\ r(q) \in Process
               /\ r(q).pc = IF q = p THEN "write" ELSE proc[q].pc
               /\ r(q).files = proc[q].files /\ r(q).defs = proc[q].defs
               /\ r(q).name = proc[q].name
    <3>1. proc[q] \in Process /\ proc[p] \in Process
      BY DEF TypeOK
    <3>2. Partial \in IndexFile
      BY DEF Partial, IndexFile
    <3>3. /\ s(q) \in Process
          /\ s(q).pc = IF q = p THEN "write" ELSE proc[q].pc
          /\ s(q).files = proc[q].files /\ s(q).defs = proc[q].defs
          /\ s(q).name = proc[q].name
      BY <3>1 DEF Process, Points
    <3> HIDE DEF s
    <3> QED
      BY <3>2, <3>3 DEF Process
  <2>2. proc' = [q \in Procs |-> r(q)]
    BY <1>10 DEF TruncateIndex
  <2> HIDE DEF r
  <2>3. proc' \in [Procs -> Process]
    BY <2>1, <2>2
  <2>4. ASSUME NEW q \in Procs PROVE Named(q)' /\ (lock = q => Alive(q)')
    <3>1. Named(q) /\ (lock = q => Alive(q))
      BY DEF TypeOK
    <3>2. Named(q)'
      BY <2>1, <2>2, <3>1 DEF Named, At
    <3>3. lock = q => Alive(q)'
      BY <2>1, <2>2, <3>1 DEF Alive, Ended
    <3> QED
      BY <3>2, <3>3
  <2> QED
    BY <1>10, <2>3, <2>4 DEF TruncateIndex, TypeOK, Partial, IndexFile
<1>11. CASE WriteIndex(p)
  <2>1. Whole(proc[p].words) \in IndexFile
    BY DEF TypeOK, Process, Whole, IndexFile
  <2> QED
    BY <1>11, <2>1, GotoTypes DEF WriteIndex, TypeOK, Points
<1>12. CASE ReloadIndex(p)
  <2>1. CASE ~(proc[p].bin # "panel" /\ index.state = "whole")
    BY <1>12, <2>1, EndTypes DEF ReloadIndex, TypeOK, Ended
  <2>2. CASE proc[p].bin # "panel" /\ index.state = "whole"
    <3> DEFINE r == [proc[p] EXCEPT !.pc = "serving", !.set = index]
    <3>0. index \in IndexFile
      BY DEF TypeOK
    <3>1. /\ r \in Process /\ r.pc \in Points \ {"import"}
          /\ r.defs # <<>> => r.name \in Dicts
      BY <3>0, RecordOf, ZenonT(60) DEF Process, Points
    <3>2. proc' = [proc EXCEPT ![p] = r] /\ lock' = lock
      BY <1>12, <2>2 DEF ReloadIndex
    <3> HIDE DEF r
    <3> QED
      BY <1>12, <3>1, <3>2, BecomeTypes DEF ReloadIndex, TypeOK
  <2> QED
    BY <2>1, <2>2
<1>13. CASE BeginReset(p)
  <2> DEFINE r == [proc[p] EXCEPT !.pc = "reset", !.left = {"db", "index"}]
  <2>1. r \in Process /\ r.pc \in Points \ {"import"} /\ (r.defs # <<>> => r.name \in Dicts)
    BY <1>13, RecordOf, ZenonT(60) DEF BeginReset, Process, Points
  <2>2. proc' = [proc EXCEPT ![p] = r]
    BY <1>13 DEF BeginReset, Goto, At
  <2> HIDE DEF r
  <2>3. lock' \in {lock, NoProc, p}
    BY <1>13 DEF BeginReset
  <2> QED
    BY <1>13, <2>1, <2>2, <2>3, BecomeTypes DEF BeginReset, TypeOK
<1>14. CASE RemoveDb(p)
  <2> DEFINE r == [proc[p] EXCEPT !.left = @ \ {"db"}]
  <2>1. r \in Process /\ r.pc \in Points \ {"import"} /\ (r.defs # <<>> => r.name \in Dicts)
    BY <1>14, RecordOf, ZenonT(60) DEF RemoveDb, Process, Points, At
  <2>2. proc' = [proc EXCEPT ![p] = r]
    BY <1>14 DEF RemoveDb, Goto, At
  <2> HIDE DEF r
  <2>3. lock' \in {lock, NoProc, p}
    BY <1>14 DEF RemoveDb
  <2> QED
    BY <1>14, <2>1, <2>2, <2>3, BecomeTypes, EmptyType DEF RemoveDb, TypeOK
<1>15. CASE RemoveIndex(p)
  <2> DEFINE r == [proc[p] EXCEPT !.left = @ \ {"index"}]
  <2>1. r \in Process /\ r.pc \in Points \ {"import"} /\ (r.defs # <<>> => r.name \in Dicts)
    BY <1>15, RecordOf, ZenonT(60) DEF RemoveIndex, Process, Points, At
  <2>2. proc' = [proc EXCEPT ![p] = r]
    BY <1>15 DEF RemoveIndex, Goto, At
  <2> HIDE DEF r
  <2>3. lock' \in {lock, NoProc, p}
    BY <1>15 DEF RemoveIndex
  <2> QED
    BY <1>15, <2>1, <2>2, <2>3, BecomeTypes DEF RemoveIndex, TypeOK, Absent, IndexFile
<1>16. CASE EndReset(p) \/ FailReset(p)
  BY <1>16, FinishTypes, EndTypes DEF EndReset, FailReset, TypeOK, Ended
<1> QED
  BY <1>1, <1>2, <1>3, <1>4, <1>5, <1>6, <1>7, <1>8, <1>9, <1>10, <1>11, <1>12,
     <1>13, <1>14, <1>15, <1>16 DEF Step

\* So does every step of the specification.
LEMMA TypeNext ==
  ASSUME TypeOK, [Next]_vars
  PROVE  TypeOK'
<1> USE DEF dbVars, indexVars
<1>1. ASSUME NEW p \in Procs, NEW bin \in Binaries, NEW op \in Ops,
             NEW glob \in Seq(Files), Start(p, bin, op, glob)
      PROVE  TypeOK'
  <2> DEFINE r == [Off EXCEPT !.pc = "opening", !.bin = bin, !.op = op, !.glob = glob]
  <2>1. r \in Process /\ r.pc \in Points \ {"import"} /\ r.defs = <<>>
    <3>1. [Off EXCEPT !.pc = "opening", !.bin = bin, !.op = op] \in Process
      BY OffIsProcess DEF Points
    <3> QED
      BY <3>1 DEF Process, Points, Off
  <2>2. proc' = [proc EXCEPT ![p] = r] /\ lock' = lock /\ runs' = runs + 1 /\ runs < MaxRuns
    BY <1>1 DEF Start
  <2> HIDE DEF r
  <2>3. runs' \in 0 .. MaxRuns
    BY <2>2, StoreAssumption DEF TypeOK
  <2> QED
    BY <1>1, <2>1, <2>2, <2>3, BecomeTypes DEF Start, TypeOK
<1>2. ASSUME NEW p \in Procs, Step(p) PROVE TypeOK'
  BY <1>2, TypeStep
<1>3. ASSUME NEW p \in Procs, Kill(p) PROVE TypeOK'
  BY <1>3, EndTypes, EmptyType DEF Kill, TypeOK, Ended
<1>4. CASE Writeback
  BY <1>4 DEF Writeback, TypeOK, Named, Alive, At
<1>5. CASE PowerLoss
  <2>1. [Off EXCEPT !.pc = "killed"] \in Process
    <3>1. [Off EXCEPT !.pc = "killed", !.bin = "panel", !.op = "none"] \in Process
      BY OffIsProcess DEF Ended, Binaries, Ops
    <3> QED
      BY <3>1 DEF Process, Off, Ended
  <2>2. proc' \in [Procs -> Process]
    BY <1>5, <2>1 DEF PowerLoss, TypeOK
  <2>3. index' \in IndexFile
    BY <1>5 DEF PowerLoss, TypeOK, Partial, IndexFile
  <2>4. ASSUME NEW p \in Procs PROVE Named(p)' /\ lock' # p
    <3>1. proc'[p] = proc[p] \/ (proc'[p].defs = <<>> /\ proc'[p].pc = "killed")
      BY <1>5 DEF PowerLoss, Off
    <3> QED
      BY <1>5, <3>1, StoreAssumption DEF PowerLoss, TypeOK, Named, At
  <2>5. built' \in BOOLEAN /\ synced' \in BOOLEAN
    BY <1>5, Zenon DEF PowerLoss, TypeOK
  <2>6. db' \in [Keys -> Nat] /\ survivors' \in SUBSET [Keys -> Nat]
    BY <1>5 DEF PowerLoss, TypeOK
  <2> QED
    BY <1>5, <2>2, <2>3, <2>4, <2>5, <2>6 DEF PowerLoss, TypeOK
<1>6. CASE UNCHANGED vars
  BY <1>6 DEF vars, TypeOK, Named, Alive, At
<1>7. <<>> \in Seq(Files)
  OBVIOUS
<1> QED
  BY <1>1, <1>2, <1>3, <1>4, <1>5, <1>6, <1>7, StoreAssumption DEF Next, Ops

--------------------------------------------------------------------------------
(* A step of one process leaves the others what they hold; only a build    *)
(* touches their mappings of the index.                                    *)
LEMMA StepFrame ==
  ASSUME TypeOK, Holder, NEW p \in Procs, NEW q \in Procs \ {p}, Step(p)
  PROVE  /\ proc'[q] = proc[q] \/ TruncateIndex(p)
         /\ lock = q => lock' = q
         /\ proc'[q].pc = proc[q].pc /\ proc'[q].left = proc[q].left
         /\ proc'[q].bin = proc[q].bin /\ proc'[q].words = proc[q].words
         /\ proc'[q].glob = proc[q].glob /\ proc'[q].files = proc[q].files
         /\ proc'[q].defs = proc[q].defs /\ proc'[q].name = proc[q].name
<1>1. proc \in [Procs -> Process] /\ q # NoProc
  BY StoreAssumption DEF TypeOK
<1>2. ASSUME NEW how, End(p, how) PROVE proc'[q] = proc[q] /\ (lock = q => lock' = q)
  BY <1>1, <1>2 DEF End
<1>3. ASSUME NEW pc, Goto(p, pc) PROVE proc'[q] = proc[q]
  BY <1>1, <1>3 DEF Goto
<1>4. ASSUME Finish(p) PROVE proc'[q] = proc[q] /\ (lock = q => lock' = q)
  BY <1>2, <1>3, <1>4 DEF Finish
<1>5. ASSUME ~TruncateIndex(p)
      PROVE  proc'[q] = proc[q] /\ (lock = q => lock' = q)
  <2>1. CASE OpenDb(p)
    BY <1>1, <1>2, <1>3, <2>1 DEF OpenDb
  <2>2. CASE LoadIndex(p) \/ ReloadIndex(p) \/ LoadFile(p)
    BY <1>1, <1>2, <2>2 DEF LoadIndex, ReloadIndex, LoadFile
  <2>3. CASE NoCommand(p) \/ Report(p) \/ FindNothing(p) \/ EndImport(p)
             \/ EndReset(p) \/ FailReset(p)
    BY <1>2, <1>4, <2>3
       DEF NoCommand, Report, FindNothing, EndImport, EndReset, FailReset
  <2>4. ASSUME NEW cands, Search(p, cands)
        PROVE  proc'[q] = proc[q] /\ (lock = q => lock' = q)
    BY <1>2, <1>3, <1>4, <2>4 DEF Search
  <2>5. CASE BeginImport(p)
    BY <1>1, <1>4, <2>5 DEF BeginImport
  <2>6. CASE PutDef(p) \/ CollectWords(p) \/ BeginReset(p) \/ RemoveIndex(p)
    BY <1>1, <2>6 DEF PutDef, CollectWords, BeginReset, RemoveIndex
  <2>7. CASE WriteIndex(p)
    BY <1>3, <2>7 DEF WriteIndex
  <2>8. CASE RemoveDb(p)
    <3>1. lock = p
      BY <2>8 DEF RemoveDb, Holder, Holds
    <3> QED
      BY <1>1, <2>8, <3>1 DEF RemoveDb
  <2> QED
    BY <1>5, <2>1, <2>2, <2>3, <2>4, <2>5, <2>6, <2>7, <2>8 DEF Step
<1>6. CASE TruncateIndex(p)
  <2>1. proc[q] \in Process
    BY <1>1
  <2> QED
    BY <1>6, <2>1 DEF TruncateIndex, Process
<1> QED
  BY <1>5, <1>6

\* A process that resets does not serve afterwards: it has no index.
LEMMA ResetEnds ==
  ASSUME TypeOK, Fresh, Erasing, NEW p \in Procs, At(p, "reset")
  PROVE  ~Served(p)
<1>1. proc[p].bin \in Binaries /\ proc[p].op = "reset"
  BY DEF TypeOK, Process, Erasing
<1>2. proc[p].bin = "offdictd" => proc[p].set.state = "absent"
  BY DEF Fresh, Unloaded, At, Absent
<1> QED
  BY <1>1, <1>2 DEF Served, Binaries

(* The process that steps, if it goes on working on the directory, has the *)
(* lock file: it had it, or it has just opened the database.               *)
LEMMA StepHolds ==
  ASSUME TypeOK, Holder, Fresh, Erasing, NEW p \in Procs, Step(p), Holds(p)'
  PROVE  lock' = p
<1>1. proc \in [Procs -> Process] /\ (Holds(p) => lock = p)
  BY DEF TypeOK, Holder
<1>2. ASSUME NEW how \in Ended, End(p, how) PROVE FALSE
  <2>1. proc'[p].pc \in Ended
    BY <1>1, <1>2 DEF End, Off
  <2> QED
    BY <2>1 DEF Holds, Points, Ended, At
<1>3. ASSUME Finish(p), Holds(p) PROVE lock' = p
  BY <1>1, <1>2, <1>3 DEF Finish, Ended
<1>4. CASE OpenDb(p)
  BY <1>2, <1>4 DEF OpenDb, Ended
<1>5. CASE LoadIndex(p) \/ ReloadIndex(p) \/ LoadFile(p)
  BY <1>1, <1>2, <1>5 DEF LoadIndex, ReloadIndex, LoadFile, Ended, Holds, Points, At
<1>6. CASE NoCommand(p) \/ Report(p) \/ FindNothing(p) \/ EndImport(p)
  BY <1>2, <1>3, <1>6
     DEF NoCommand, Report, FindNothing, EndImport, Running, Holds, Points, At, Ended
<1>7. ASSUME NEW cands, Search(p, cands) PROVE lock' = p
  <2>1. Holds(p)
    BY <1>7 DEF Search, Running, Holds, Points, At
  <2> QED
    BY <1>1, <1>2, <1>3, <1>7, <2>1 DEF Search, Ended
<1>8. CASE BeginImport(p)
  BY <1>1, <1>3, <1>8 DEF BeginImport, Running, Holds, Points, At
<1>9. CASE PutDef(p) \/ CollectWords(p) \/ TruncateIndex(p) \/ WriteIndex(p) \/ BeginReset(p)
  BY <1>1, <1>9 DEF PutDef, CollectWords, TruncateIndex, WriteIndex, BeginReset,
                    Running, Holds, Points, At
<1>10. CASE RemoveDb(p)
  <2>1. proc'[p].pc = "reset" /\ "db" \notin proc'[p].left
    BY <1>1, <1>10 DEF RemoveDb, Process, At
  <2> QED
    BY <2>1 DEF Holds, Points, At
<1>11. CASE RemoveIndex(p)
  <2>1. /\ proc'[p].pc = "reset" /\ proc[p].pc = "reset"
        /\ proc'[p].left = proc[p].left \ {"index"}
    BY <1>1, <1>11 DEF RemoveIndex, Process, At
  <2> QED
    BY <1>1, <1>11, <2>1 DEF RemoveIndex, Holds, Points, At
<1>12. CASE EndReset(p) \/ FailReset(p)
  <2>1. CASE FailReset(p)
    BY <1>2, <2>1 DEF FailReset, Ended
  <2>2. CASE EndReset(p)
    <3>1. ~Served(p)
      BY <2>2, ResetEnds DEF EndReset
    <3> QED
      BY <1>2, <2>2, <3>1 DEF EndReset, Finish, Ended
  <2> QED
    BY <1>12, <2>1, <2>2
<1> QED
  BY <1>4, <1>5, <1>6, <1>7, <1>8, <1>9, <1>10, <1>11, <1>12 DEF Step

\* A start, a kill and a power loss leave a process as it was, or opening or
\* ended without an index.
LEMMA OtherFrame ==
  ASSUME TypeOK, NEW q \in Procs,
         \/ \E p \in Procs, bin \in Binaries, op \in Ops, glob \in Seq(Files) :
              Start(p, bin, op, glob)
         \/ \E p \in Procs : Kill(p)
         \/ Writeback \/ PowerLoss \/ UNCHANGED vars
  PROVE  \/ proc'[q] = proc[q] /\ (lock = q => lock' = q)
         \/ /\ proc'[q].pc \in Ended \cup {"opening"} /\ proc'[q].set = Absent
            /\ proc'[q].defs = <<>>
<1>1. proc \in [Procs -> Process] /\ q # NoProc /\ (lock = q => Alive(q))
  BY StoreAssumption DEF TypeOK
<1>2. ASSUME NEW p \in Procs, NEW bin \in Binaries, NEW op \in Ops,
             NEW glob \in Seq(Files), Start(p, bin, op, glob)
      PROVE  \/ proc'[q] = proc[q] /\ lock' = lock
             \/ /\ proc'[q].pc = "opening" /\ proc'[q].set = Absent
                /\ proc'[q].defs = <<>>
  BY <1>1, <1>2 DEF Start, Off
<1>3. ASSUME NEW p \in Procs, Kill(p)
      PROVE  \/ proc'[q] = proc[q] /\ (lock = q => lock' = q)
             \/ /\ proc'[q].pc = "killed" /\ proc'[q].set = Absent
                /\ proc'[q].defs = <<>>
  BY <1>1, <1>3 DEF Kill, End, Off
<1>4. CASE Writeback \/ UNCHANGED vars
  BY <1>4 DEF Writeback, vars
<1>5. CASE PowerLoss
  <2>1. CASE Alive(q)
    BY <2>1, <1>5 DEF PowerLoss, Off, Ended
  <2>2. CASE ~Alive(q)
    BY <2>2, <1>1, <1>5 DEF PowerLoss
  <2> QED
    BY <2>1, <2>2
<1> QED
  BY <1>2, <1>3, <1>4, <1>5 DEF Ended

\* Next, with the steps that are not a command's taken together.
Elsewhere ==
  \/ \E p \in Procs, bin \in Binaries, op \in Ops, glob \in Seq(Files) :
       Start(p, bin, op, glob)
  \/ \E p \in Procs : Kill(p)
  \/ Writeback \/ PowerLoss \/ UNCHANGED vars

\* Every step is one process's or the environment's.
LEMMA NextSplit ==
  ASSUME [Next]_vars
  PROVE  Elsewhere \/ \E p \in Procs : Step(p)
<1>1. <<>> \in Seq(Files)
  OBVIOUS
<1> QED
  BY <1>1, StoreAssumption DEF Next, Elsewhere, Ops

\* Whoever works on the directory still holds its lock after any step.
LEMMA HolderNext ==
  ASSUME TypeOK, Holder, Fresh, Erasing, [Next]_vars
  PROVE  Holder'
<1> SUFFICES ASSUME NEW q \in Procs, Holds(q)' PROVE lock' = q
  BY DEF Holder
<1>1. ASSUME NEW p \in Procs, Step(p) PROVE lock' = q
  <2>1. CASE q = p
    BY <1>1, <2>1, StepHolds
  <2>2. CASE q # p
    <3>1. /\ lock = q => lock' = q
          /\ proc'[q].pc = proc[q].pc /\ proc'[q].left = proc[q].left
      BY <1>1, <2>2, StepFrame
    <3> QED
      BY <3>1 DEF Holder, Holds, At
  <2> QED
    BY <2>1, <2>2
<1>2. CASE Elsewhere
  <2>1. CASE proc'[q] = proc[q] /\ (lock = q => lock' = q)
    BY <2>1 DEF Holder, Holds, At
  <2>2. CASE proc'[q].pc \in Ended \cup {"opening"}
    BY <2>2 DEF Holds, At, Points, Ended
  <2> QED
    BY <1>2, <2>1, <2>2, OtherFrame DEF Elsewhere
<1> QED
  BY <1>1, <1>2, NextSplit


(* How a process that goes on moves, and what index it then has.           *)
Moves(p) ==
  LET from == proc[p].pc
      to == proc'[p].pc
      kept == proc'[p].set = proc[p].set
  IN  /\ proc'[p].bin = proc[p].bin /\ proc'[p].op = proc[p].op
      /\ to \in {"loading", "command"} => proc'[p].defs = proc[p].defs
      /\ \/ /\ from = "opening" /\ to \in {"loading", "command"} /\ kept
            /\ to = "loading" => proc[p].bin = "panel"
         \/ /\ from = "loading" /\ to = "command"
            /\ proc'[p].set = index /\ index.state # "partial"
         \/ /\ from \in {"command", "import", "serving"} /\ kept
            /\ to \in {"import", "serving", "truncate", "reset"}
            /\ from = "serving" => to = "serving"
            /\ to = "reset" => proc[p].op = "reset"
            /\ to = "truncate" => CollectWords(p)
            /\ to = "import" => BeginImport(p) \/ LoadFile(p) \/ PutDef(p)
         \/ /\ from = "serving" /\ to = "deaf" /\ kept /\ proc[p].bin = "panel"
         \/ from = "truncate" /\ to = "write" /\ TruncateIndex(p)
         \/ from = "write" /\ to = "reload" /\ kept
         \/ /\ from = "reload" /\ to = "serving"
            /\ proc'[p].set = index /\ index.state = "whole"
         \/ from = "reset" /\ to = "reset" /\ kept

\* What a step makes of its own process: it moves on or ends.
LEMMA StepSelf ==
  ASSUME TypeOK, Fresh, Erasing, NEW p \in Procs, Step(p)
  PROVE  Moves(p) \/ (proc'[p].pc \in Ended /\ proc'[p].set = Absent)
<1> DEFINE Gone == proc'[p].pc \in Ended /\ proc'[p].set = Absent
<1>1. proc \in [Procs -> Process] /\ proc[p] \in Process
  BY DEF TypeOK
<1>2. ASSUME NEW how \in Ended, End(p, how) PROVE Gone
  BY <1>1, <1>2 DEF End, Off
<1>3. ASSUME NEW pc, Goto(p, pc)
      PROVE  /\ proc'[p].pc = pc /\ proc'[p].set = proc[p].set
             /\ proc'[p].defs = proc[p].defs
             /\ proc'[p].bin = proc[p].bin /\ proc'[p].op = proc[p].op
  BY <1>1, <1>3 DEF Goto, Process
<1>4. ASSUME Finish(p), proc[p].pc \in {"command", "import"} PROVE Moves(p) \/ Gone
  BY <1>2, <1>3, <1>4 DEF Finish, Moves, Ended
<1>5. CASE OpenDb(p)
  BY <1>2, <1>3, <1>5 DEF OpenDb, Moves, Ended, At
<1>6. CASE LoadIndex(p) \/ ReloadIndex(p)
  BY <1>1, <1>2, <1>6 DEF LoadIndex, ReloadIndex, Moves, Ended, At, Process
<1>7. CASE NoCommand(p) \/ Report(p) \/ FindNothing(p) \/ EndImport(p)
  BY <1>2, <1>4, <1>7
     DEF NoCommand, Report, FindNothing, EndImport, Running, At, Ended
<1>8. ASSUME NEW cands, Search(p, cands) PROVE Moves(p) \/ Gone
  <2>1. CASE UNCHANGED <<proc, lock>> /\ At(p, "serving")
    BY <2>1 DEF Moves, At
  <2>2. CASE Finish(p) /\ ~At(p, "serving")
    BY <1>4, <1>8, <2>2 DEF Search, Running, At
  <2>3. CASE End(p, "panic")
    BY <1>2, <2>3 DEF Ended
  <2>4. ASSUME At(p, "serving"), NEW pc, Goto(p, pc),
               pc = IF proc[p].bin = "panel" THEN "deaf" ELSE "serving"
        PROVE  Moves(p)
    BY <1>3, <2>4 DEF Moves, At
  <2> QED
    BY <1>8, <2>1, <2>2, <2>3, <2>4 DEF Search
<1>9. CASE LoadFile(p)
  <2>1. CASE End(p, "panic")
    BY <1>2, <2>1 DEF Ended
  <2>2. CASE ~End(p, "panic")
    <3>1. /\ proc[p].pc = "import" /\ proc'[p].pc = "import"
          /\ proc'[p].set = proc[p].set
          /\ proc'[p].bin = proc[p].bin /\ proc'[p].op = proc[p].op
      BY <1>1, <1>9, <2>2 DEF LoadFile, At, Process
    <3> QED
      BY <1>9, <3>1 DEF Moves
  <2> QED
    BY <2>1, <2>2
<1>10. CASE BeginImport(p)
  <2>1. CASE Finish(p)
    BY <1>4, <1>10, <2>1 DEF BeginImport, Running, At
  <2>2. CASE ~Finish(p)
    BY <1>1, <1>10, <2>2 DEF BeginImport, Running, Moves, At, Process
  <2> QED
    BY <2>1, <2>2
<1>11. CASE PutDef(p)
  BY <1>1, <1>11 DEF PutDef, Moves, At, Process
<1>12. CASE CollectWords(p)
  BY <1>1, <1>12 DEF CollectWords, Running, Moves, At, Process
<1>13. CASE TruncateIndex(p)
  BY <1>1, <1>13 DEF TruncateIndex, Moves, At, Process
<1>14. CASE WriteIndex(p)
  BY <1>3, <1>14 DEF WriteIndex, Moves, At
<1>15. CASE BeginReset(p)
  BY <1>1, <1>15 DEF BeginReset, Running, Moves, At, Process
<1>16. CASE RemoveDb(p) \/ RemoveIndex(p)
  BY <1>1, <1>16 DEF RemoveDb, RemoveIndex, Moves, At, Process
<1>17. CASE EndReset(p)
  <2>1. ~Served(p)
    BY <1>17, ResetEnds DEF EndReset
  <2> QED
    BY <1>2, <1>17, <2>1 DEF EndReset, Finish, Ended
<1>18. CASE FailReset(p)
  BY <1>2, <1>18 DEF FailReset, Ended
<1> QED
  BY <1>5, <1>6, <1>7, <1>8, <1>9, <1>10, <1>11, <1>12, <1>13, <1>14, <1>15,
     <1>16, <1>17, <1>18 DEF Step

\* Processes get an index only by loading or building it.
LEMMA FreshNext ==
  ASSUME TypeOK, Holder, Fresh, Erasing, [Next]_vars
  PROVE  Fresh' /\ Erasing'
<1> DEFINE Ok(q) == /\ Unloaded(q) => proc[q].set = Absent
                    /\ At(q, "loading") => proc[q].bin = "panel"
                    /\ At(q, "reset") => proc[q].op = "reset"
<1> SUFFICES ASSUME NEW q \in Procs PROVE Ok(q)'
  BY DEF Fresh, Erasing
<1>1. Ok(q) /\ proc[q] \in Process /\ proc \in [Procs -> Process]
  BY DEF Fresh, Erasing, TypeOK
<1>2. CASE proc'[q] = proc[q]
  BY <1>1, <1>2 DEF Unloaded, At
<1>3. ASSUME proc'[q].pc \in Ended \cup {"opening"}, proc'[q].set = Absent PROVE Ok(q)'
  BY <1>3 DEF At, Ended
<1>4. ASSUME TruncateIndex(q) \/ \E p \in Procs \ {q} : TruncateIndex(p)
      PROVE  Ok(q)'
  <2>1. /\ proc'[q].bin = proc[q].bin /\ proc'[q].op = proc[q].op
        /\ \/ proc'[q].pc = proc[q].pc
           \/ proc[q].pc = "truncate" /\ proc'[q].pc = "write"
        /\ proc[q].set = Absent => proc'[q].set = Absent
    <3>1. Absent.state # "whole"
      BY DEF Absent
    <3>2. CASE TruncateIndex(q)
      BY <1>1, <3>1, <3>2 DEF TruncateIndex, Process, At
    <3>3. ASSUME NEW p \in Procs \ {q}, TruncateIndex(p)
          PROVE  /\ proc'[q].bin = proc[q].bin /\ proc'[q].op = proc[q].op
                 /\ proc'[q].pc = proc[q].pc
                 /\ proc[q].set = Absent => proc'[q].set = Absent
      BY <1>1, <3>1, <3>3 DEF TruncateIndex, Process
    <3> QED
      BY <1>4, <3>2, <3>3
  <2> QED
    BY <1>1, <2>1 DEF Unloaded, At
<1>5. ASSUME Step(q), Moves(q), ~TruncateIndex(q) PROVE Ok(q)'
  <2>1. proc'[q].bin = proc[q].bin /\ proc'[q].op = proc[q].op
    BY <1>5 DEF Moves
  <2>2. At(q, "loading")' => proc'[q].bin = "panel"
    BY <1>5, <2>1 DEF Moves, At
  <2>3. At(q, "reset")' => proc'[q].op = "reset"
    BY <1>1, <1>5, <2>1 DEF Moves, At
  <2>4. Unloaded(q)' => proc'[q].set = Absent
    BY <1>1, <1>5, <2>1 DEF Moves, At, Unloaded, Binaries
  <2> QED
    BY <2>2, <2>3, <2>4
<1>6. ASSUME NEW p \in Procs, Step(p) PROVE Ok(q)'
  <2>1. CASE p = q
    BY <1>3, <1>4, <1>5, <1>6, <2>1, StepSelf
  <2>2. CASE p # q
    BY <1>2, <1>4, <1>6, <2>2, StepFrame
  <2> QED
    BY <2>1, <2>2
<1>7. CASE Elsewhere
  BY <1>2, <1>3, <1>7, OtherFrame DEF Elsewhere
<1> QED
  BY <1>6, <1>7, NextSplit

\* No process searches with an index file that was cut.
LEMMA MappedNext ==
  ASSUME TypeOK, Holder, Fresh, Erasing, Mapped, [Next]_vars
  PROVE  Mapped'
<1> SUFFICES ASSUME NEW q \in Procs, Searching(q)' PROVE proc'[q].set.state # "partial"
  BY DEF Mapped
<1>1. Searching(q) => Holds(q) /\ lock = q /\ proc[q].set.state # "partial"
  BY DEF Mapped, Holder, Holds, Searching, Points
<1>2. proc[q].set = Absent => proc[q].set.state # "partial"
  BY DEF Absent
<1>3. ASSUME NEW p \in Procs \ {q}, Step(p) PROVE proc'[q].set.state # "partial"
  <2>1. ~TruncateIndex(p)
    <3>1. TruncateIndex(p) => lock = p
      BY DEF TruncateIndex, Holder, Holds, Points, At
    <3>2. proc'[q].pc = proc[q].pc
      BY <1>3, StepFrame
    <3> QED
      BY <1>1, <3>1, <3>2 DEF Searching
  <2>2. proc'[q] = proc[q]
    BY <1>3, <2>1, StepFrame
  <2> QED
    BY <1>1, <2>2 DEF Searching
<1>4. ASSUME Step(q) PROVE proc'[q].set.state # "partial"
  <2>1. CASE proc'[q].pc \in Ended
    BY <2>1 DEF Searching, Ended
  <2>2. CASE Moves(q)
    <3>1. proc[q].pc = "opening" => proc[q].set = Absent
      BY DEF Fresh, Unloaded
    <3> QED
      BY <1>1, <1>2, <2>2, <3>1 DEF Moves, Searching
  <2> QED
    BY <1>4, <2>1, <2>2, StepSelf
<1>5. CASE Elsewhere
  BY <1>1, <1>5, OtherFrame DEF Elsewhere, Searching, Ended, Absent
<1> QED
  BY <1>3, <1>4, <1>5, NextSplit

--------------------------------------------------------------------------------
(* What the steps do to the database: an import adds keys, a reset empties *)
(* it and no longer vouches for the index, a power loss takes some keys.   *)
Grows == /\ KeysIn(db) \subseteq KeysIn(db')
         /\ \/ UNCHANGED <<survivors, promised>>
               /\ UNCHANGED db
            \/ survivors' = survivors \cup {db'} /\ UNCHANGED promised
            \/ survivors' = {db'} /\ promised' = KeysIn(db) /\ UNCHANGED db

Emptied == db' = Empty /\ survivors' = {Empty} /\ promised' = {} /\ ~built'

\* A put only adds to the keys of the database.
LEMMA PutGrows ==
  ASSUME TypeOK, NEW p \in Procs, PutDef(p)
  PROVE  KeysIn(db) \subseteq KeysIn(db')
<1> DEFINE key == <<Head(proc[p].defs)[1], proc[p].name>>
           v == Head(proc[p].defs)[2]
<1>1. proc[p].defs \in Seq(Words \X (Nat \ {0})) /\ proc[p].defs # <<>>
  BY DEF TypeOK, Process, PutDef
<1>2. v # 0
  BY <1>1
<1>3. db' = [db EXCEPT ![key] = v] /\ db \in [Keys -> Nat]
  BY DEF PutDef, Put, TypeOK
<1> HIDE DEF key, v
<1> QED
  BY <1>2, <1>3 DEF KeysIn

\* The database grows, is emptied or stays, and changes under its lock.
LEMMA StepDb ==
  ASSUME TypeOK, NEW p \in Procs, Step(p)
  PROVE  /\ Grows \/ Emptied
         /\ UNCHANGED db \/ Holds(p)
<1> USE DEF dbVars
<1>1. CASE PutDef(p)
  BY <1>1, PutGrows DEF PutDef, Grows, Holds, Points, At
<1>2. CASE EndImport(p)
  BY <1>2 DEF EndImport, Grows
<1>3. CASE RemoveDb(p)
  BY <1>3 DEF RemoveDb, Emptied, Holds
<1>4. CASE UNCHANGED dbVars
  BY <1>4 DEF Grows
<1>5. ASSUME NEW cands, Search(p, cands) PROVE UNCHANGED dbVars
  BY <1>5 DEF Search
<1> QED
  BY <1>1, <1>2, <1>3, <1>4, <1>5
     DEF Step, OpenDb, LoadIndex, NoCommand, Report, FindNothing, BeginImport,
         LoadFile, CollectWords, TruncateIndex, WriteIndex, ReloadIndex,
         BeginReset, RemoveIndex, EndReset, FailReset

\* With the keys grow the words.
LEMMA GrowsWords ==
  ASSUME KeysIn(db) \subseteq KeysIn(db')
  PROVE  WordsIn(db) \subseteq WordsIn(db')
BY DEF WordsIn

\* What was promised is in whatever survives, after any step.
LEMMA SurviveNext ==
  ASSUME TypeOK, Survive, [Next]_vars
  PROVE  Survive'
<1>1. CASE Grows
  BY <1>1 DEF Grows, Survive
<1>2. CASE Emptied
  BY <1>2, EmptyType DEF Emptied, Survive
<1>3. CASE UNCHANGED <<db, survivors, promised>>
  BY <1>3 DEF Survive
<1>4. CASE PowerLoss
  BY <1>4 DEF PowerLoss, Survive
<1>5. CASE Elsewhere
  BY <1>2, <1>3, <1>4, <1>5 DEF Elsewhere, Start, Kill, Writeback, dbVars, vars, Emptied
<1> QED
  BY <1>1, <1>2, <1>5, StepDb, NextSplit

(* What the other steps do to what a build has promised.                   *)
LEMMA ElsewhereDb ==
  ASSUME TypeOK, Elsewhere
  PROVE  \/ UNCHANGED <<db, index, built>>
         \/ ~built'
         \/ WordsIn(db') = WordsIn(db) /\ UNCHANGED index /\ (built' => built)
BY DEF Elsewhere, Start, Kill, Writeback, PowerLoss, dbVars, indexVars, vars

\* While a process that works on the database lives, no other step takes it.
LEMMA ElsewhereHeld ==
  ASSUME TypeOK, Holder, Elsewhere, NEW q \in Procs, Holds(q), ~At(q, "reset"),
         lock = q => lock' = q
  PROVE  UNCHANGED db
<1>1. lock = q /\ ~PowerLoss
  BY StoreAssumption DEF Holder, PowerLoss
<1>2. ASSUME NEW p \in Procs, Kill(p) PROVE UNCHANGED db
  BY <1>1, <1>2 DEF Kill, Holder, Holds, dbVars
<1> QED
  BY <1>1, <1>2 DEF Elsewhere, Start, Writeback, dbVars, vars

\* The words a build has collected stay in the database.
LEMMA CollectedNext ==
  ASSUME TypeOK, Holder, Fresh, Erasing, Collected, [Next]_vars
  PROVE  Collected'
<1> SUFFICES ASSUME NEW q \in Procs, proc'[q].pc \in {"truncate", "write"}
             PROVE  proc'[q].words \subseteq WordsIn(db')
  BY DEF Collected
<1>1. proc[q].pc \in {"truncate", "write"} =>
        Holds(q) /\ lock = q /\ proc[q].words \subseteq WordsIn(db)
  BY DEF Collected, Holder, Holds, Points
<1>2. ASSUME NEW p \in Procs \ {q}, Step(p)
      PROVE  proc'[q].words \subseteq WordsIn(db')
  <2>1. proc'[q].pc = proc[q].pc /\ proc'[q].words = proc[q].words
    BY <1>2, StepFrame
  <2>2. ~Holds(p)
    BY <1>1, <2>1 DEF Holder
  <2> QED
    BY <1>1, <1>2, <2>1, <2>2, StepDb, GrowsWords DEF Grows
<1>3. ASSUME Step(q) PROVE proc'[q].words \subseteq WordsIn(db')
  <2>1. CollectWords(q) \/ TruncateIndex(q)
    BY <1>3, StepSelf DEF Moves, Ended
  <2>2. proc \in [Procs -> Process] /\ proc[q] \in Process
    BY DEF TypeOK
  <2>3. CASE CollectWords(q)
    BY <2>2, <2>3 DEF CollectWords, Process, dbVars
  <2>4. CASE TruncateIndex(q)
    <3>1. proc'[q].words = proc[q].words
      BY <2>2, <2>4 DEF TruncateIndex, Process
    <3> QED
      BY <1>1, <2>4, <3>1 DEF TruncateIndex, dbVars, At
  <2> QED
    BY <2>1, <2>3, <2>4
<1>4. CASE Elsewhere
  <2>1. proc'[q] = proc[q] /\ (lock = q => lock' = q)
    BY <1>4, OtherFrame DEF Elsewhere, Ended
  <2>2. UNCHANGED db
    BY <1>1, <1>4, <2>1, ElsewhereHeld DEF At
  <2> QED
    BY <1>1, <2>1, <2>2
<1> QED
  BY <1>2, <1>3, <1>4, NextSplit

\* Only the end of a build makes an index a built one.
LEMMA StepIndex ==
  ASSUME NEW p \in Procs, Step(p)
  PROVE  WriteIndex(p) \/ ~built' \/ UNCHANGED <<index, built>>
<1> USE DEF indexVars
<1>1. ASSUME NEW cands, Search(p, cands) PROVE UNCHANGED <<index, built>>
  BY <1>1 DEF Search
<1> QED
  BY <1>1
     DEF Step, OpenDb, LoadIndex, NoCommand, Report, FindNothing, BeginImport,
         LoadFile, PutDef, EndImport, CollectWords, TruncateIndex, ReloadIndex,
         BeginReset, RemoveDb, RemoveIndex, EndReset, FailReset

\* The words of a built index stay in the database.
LEMMA CoveredNext ==
  ASSUME TypeOK, Holder, Fresh, Erasing, Collected, Covered, [Next]_vars
  PROVE  Covered'
<1> SUFFICES ASSUME built'
             PROVE  /\ index'.state = "whole" /\ index'.words \subseteq WordsIn(db')
                    /\ \A q \in Procs : Searching(q)' =>
                                         proc'[q].set.words \subseteq WordsIn(db')
  BY DEF Covered
<1>1. Absent.words = {}
  BY DEF Absent
<1>2. ASSUME NEW p \in Procs, WriteIndex(p)
      PROVE  /\ index'.state = "whole" /\ index'.words \subseteq WordsIn(db')
             /\ \A q \in Procs : ~Searching(q)'
  <2>1. lock = p /\ proc[p].words \subseteq WordsIn(db) /\ db' = db
    BY <1>2 DEF WriteIndex, Holder, Holds, Points, At, Collected, dbVars
  <2>2. ASSUME NEW q \in Procs PROVE ~Searching(q)'
    <3>1. CASE q = p
      BY <1>2, <3>1 DEF WriteIndex, Goto, TypeOK, Process, Searching
    <3>2. CASE q # p
      BY <1>2, <2>1, <3>2 DEF WriteIndex, Goto, TypeOK, Searching, Holder, Holds, Points
    <3> QED
      BY <3>1, <3>2
  <2> QED
    BY <1>2, <2>1, <2>2 DEF WriteIndex, Whole
<1>3. ASSUME NEW p \in Procs, Step(p), ~WriteIndex(p)
      PROVE  /\ index'.state = "whole" /\ index'.words \subseteq WordsIn(db')
             /\ \A q \in Procs : Searching(q)' =>
                                  proc'[q].set.words \subseteq WordsIn(db')
  <2>1. UNCHANGED <<index, built>> /\ WordsIn(db) \subseteq WordsIn(db')
    BY <1>3, StepIndex, StepDb, GrowsWords DEF Emptied, Grows
  <2>2. ~TruncateIndex(p)
    BY DEF TruncateIndex
  <2>3. ASSUME NEW q \in Procs \ {p}, Searching(q)'
        PROVE  proc'[q].set.words \subseteq WordsIn(db)
    BY <1>3, <2>1, <2>2, <2>3, StepFrame DEF Covered, Searching
  <2>4. ASSUME Searching(p)' PROVE proc'[p].set.words \subseteq WordsIn(db)
    <3>1. Moves(p)
      BY <1>3, <2>4, StepSelf DEF Searching, Ended
    <3>2. proc[p].pc = "opening" => proc[p].set = Absent
      BY DEF Fresh, Unloaded
    <3>3. \/ Searching(p) /\ proc'[p].set = proc[p].set
          \/ proc'[p].set = Absent \/ proc'[p].set = index
      BY <2>4, <3>1, <3>2 DEF Moves, Searching
    <3> QED
      BY <1>1, <2>1, <3>3 DEF Covered
  <2> QED
    BY <2>1, <2>3, <2>4 DEF Covered
<1>4. CASE Elsewhere
  <2>1. UNCHANGED index /\ built /\ WordsIn(db') = WordsIn(db)
    BY <1>4, ElsewhereDb
  <2>2. ASSUME NEW q \in Procs, Searching(q)'
        PROVE  proc'[q].set.words \subseteq WordsIn(db)
    <3>1. proc'[q] = proc[q]
      BY <1>4, <2>2, OtherFrame DEF Elsewhere, Searching, Ended
    <3> QED
      BY <2>1, <2>2, <3>1 DEF Covered, Searching
  <2> QED
    BY <2>1, <2>2 DEF Covered
<1> QED
  BY <1>2, <1>3, <1>4, NextSplit

\* The parts of the invariant hold initially.
LEMMA InitParts ==
  Init => Holder /\ Fresh /\ Erasing /\ Mapped /\ Collected /\ Covered /\ Survive /\ Imported
<1> SUFFICES ASSUME Init
             PROVE Holder /\ Fresh /\ Erasing /\ Mapped /\ Collected /\ Covered
                   /\ Survive /\ Imported
  OBVIOUS
<1>1. \A p \in Procs : proc[p].pc = "off" /\ proc[p].set = Absent
  BY DEF Init, Off
<1>2. Holder /\ Fresh /\ Erasing /\ Mapped /\ Collected /\ Imported
  BY <1>1 DEF Holder, Holds, Points, Fresh, Unloaded, Erasing, Mapped, Searching,
              Collected, Imported, At
<1>3. Covered /\ Survive
  BY DEF Init, Covered, Survive
<1> QED
  BY <1>2, <1>3
--------------------------------------------------------------------------------
(* The import.                                                             *)

\* The next file: what was put stays put.
LEMMA NextFile ==
  ASSUME NEW d, NEW glob, NEW n \in Nat, NEW m \in Nat,
         IF n = 0 THEN m = 0 ELSE m = Len(DefsIn[glob[n]]),
         StoredUpTo(d, glob, n, m)
  PROVE  StoredUpTo(d, glob, n + 1, 0)
<1>1. ASSUME NEW i \in Nat, NEW j \in Nat
      PROVE  Passed(glob, n + 1, 0, i, j) <=> Passed(glob, n, m, i, j)
  BY DEF Passed
<1> QED
  BY <1>1 DEF StoredUpTo

\* The next definition: it is stored, and overwrites those of its key.
LEMMA NextDef ==
  ASSUME NEW d \in [Keys -> Nat], NEW glob \in Seq(Files), NEW n \in 1 .. Len(glob),
         NEW m \in Nat, m < Len(DefsIn[glob[n]]),
         \A i \in 1 .. Len(glob) : NameOf[glob[i]] \in Dicts,
         StoredUpTo(d, glob, n, m)
  PROVE  StoredUpTo(Put(d, KeyOf(glob, n, m + 1), Def(glob, n, m + 1)[2]),
                    glob, n, m + 1)
<1> DEFINE key == KeyOf(glob, n, m + 1)
           e == Put(d, key, Def(glob, n, m + 1)[2])
<1>1. ASSUME NEW i \in Nat, NEW j \in Nat
      PROVE  Passed(glob, n, m + 1, i, j)
               <=> Passed(glob, n, m, i, j) \/ (i = n /\ j = m + 1)
  <2>1. DefsIn[glob[n]] \in Seq(Words \X (Nat \ {0}))
    BY StoreAssumption
  <2> QED
    BY <2>1 DEF Passed
<1>2. ASSUME NEW i \in Nat, NEW j \in Nat, Passed(glob, n, m + 1, i, j)
      PROVE  KeyOf(glob, i, j) \in Keys
  <2>1. i \in 1 .. Len(glob) /\ j \in 1 .. Len(DefsIn[glob[i]]) /\ glob[i] \in Files
    BY <1>2 DEF Passed
  <2>2. Def(glob, i, j) \in Words \X (Nat \ {0})
    BY <2>1, StoreAssumption DEF Def
  <2> QED
    BY <2>1, <2>2 DEF KeyOf, Keys
<1>3. key \in Keys
  BY <1>1, <1>2
<1>4. e[key] = Def(glob, n, m + 1)[2] /\ \A x \in Keys : x # key => e[x] = d[x]
  BY <1>3 DEF Put
<1> HIDE DEF e
<1>5. ASSUME NEW i \in Nat, NEW j \in Nat, Passed(glob, n, m, i, j)
      PROVE  \/ e[KeyOf(glob, i, j)] = Def(glob, i, j)[2]
             \/ \E k, l \in Nat : /\ Passed(glob, n, m + 1, k, l)
                                  /\ (k > i \/ (k = i /\ l > j))
                                  /\ KeyOf(glob, k, l) = KeyOf(glob, i, j)
  <2>1. CASE KeyOf(glob, i, j) = key
    <3>1. n > i \/ (n = i /\ m + 1 > j)
      BY <1>5 DEF Passed
    <3>2. n \in Nat /\ m + 1 \in Nat /\ Passed(glob, n, m + 1, n, m + 1)
      BY <1>1
    <3> QED
      BY <2>1, <3>1, <3>2
  <2>2. CASE KeyOf(glob, i, j) # key
    <3>1. e[KeyOf(glob, i, j)] = d[KeyOf(glob, i, j)]
      BY <1>1, <1>2, <1>4, <1>5, <2>2
    <3> QED
      BY <1>1, <1>5, <3>1 DEF StoredUpTo
  <2> QED
    BY <2>1, <2>2
<1>6. Def(glob, n, m + 1)[2] = e[KeyOf(glob, n, m + 1)]
  BY <1>4
<1>7. StoredUpTo(e, glob, n, m + 1)
  BY <1>1, <1>5, <1>6 DEF StoredUpTo
<1> QED
  BY <1>7 DEF e

\* An import that has come to its end.
LEMMA AllStored ==
  ASSUME NEW glob \in Seq(Files), NEW m \in Nat,
         Len(glob) # 0 => m = Len(DefsIn[glob[Len(glob)]]),
         StoredUpTo(db, glob, Len(glob), m)
  PROVE  LastOnesStored(glob)
<1> SUFFICES ASSUME NEW i \in 1 .. Len(glob), NEW j \in 1 .. Len(DefsIn[glob[i]]),
                    IsLast(glob, i, j)
             PROVE  db[KeyOf(glob, i, j)] = Def(glob, i, j)[2]
  BY DEF LastOnesStored
<1>1. DefsIn[glob[i]] \in Seq(Words \X (Nat \ {0})) /\ i \in Nat /\ j \in Nat
  BY StoreAssumption
<1>2. Passed(glob, Len(glob), m, i, j)
  BY <1>1 DEF Passed
<1>3. ASSUME NEW k \in Nat, NEW l \in Nat, Passed(glob, Len(glob), m, k, l),
             k > i \/ (k = i /\ l > j)
      PROVE  KeyOf(glob, k, l) # KeyOf(glob, i, j)
  <2>1. k \in i .. Len(glob) /\ l \in 1 .. Len(DefsIn[glob[k]]) /\ (k > i \/ l > j)
    BY <1>3 DEF Passed
  <2> QED
    BY <2>1 DEF IsLast
<1> QED
  BY <1>1, <1>2, <1>3 DEF StoredUpTo

\* What Imported says of one process.
ImportOk(p) ==
  /\ proc[p].pc \in {"opening", "loading", "command"} => proc[p].defs = <<>>
  /\ At(p, "import") => /\ Remaining(p)
                        /\ StoredUpTo(db, proc[p].glob, Begun(p), Done(p))

\* An import whose own state and database stay is as far as it was.
LEMMA ImportKept ==
  ASSUME NEW q \in Procs, ImportOk(q), At(q, "import")' => UNCHANGED db,
         proc'[q].pc = proc[q].pc, proc'[q].glob = proc[q].glob,
         proc'[q].files = proc[q].files, proc'[q].defs = proc[q].defs,
         proc'[q].name = proc[q].name
  PROVE  ImportOk(q)'
<1>1. Begun(q)' = Begun(q) /\ Done(q)' = Done(q)
  BY DEF Begun, Done
<1>2. Remaining(q) => Remaining(q)'
  BY <1>1 DEF Remaining, Def
<1>3. CASE At(q, "import")
  BY <1>1, <1>2, <1>3 DEF ImportOk, At
<1>4. CASE ~At(q, "import")
  BY <1>4 DEF ImportOk, At
<1> QED
  BY <1>3, <1>4

\* The step that begins the import.
LEMMA ImportBegins ==
  ASSUME TypeOK, NEW q \in Procs, ImportOk(q), BeginImport(q), At(q, "import")'
  PROVE  Remaining(q)' /\ StoredUpTo(db, proc[q].glob, Begun(q), Done(q))'
<1>1. proc \in [Procs -> Process] /\ proc[q] \in Process /\ proc[q].glob \in Seq(Files)
  BY DEF TypeOK, Process
<1>2. ~Finish(q)
  <2>1. proc[q].pc = "command"
    BY DEF BeginImport, Running, At
  <2> QED
    <3>1. CASE Goto(q, "serving")
      BY <1>1, <3>1 DEF Goto, At
    <3>2. CASE End(q, "ok")
      BY <1>1, <3>2 DEF End, Off, At
    <3> QED
      BY <3>1, <3>2 DEF Finish
<1>3. /\ proc'[q].glob = proc[q].glob /\ proc'[q].files = proc[q].glob
      /\ proc'[q].defs = <<>>
      /\ \A i \in 1 .. Len(proc[q].glob) : NameOf[proc[q].glob[i]] # NoName
  BY <1>1, <1>2 DEF BeginImport, Running, At, ImportOk, Process
<1>4. \A i \in 1 .. Len(proc[q].glob) : NameOf[proc[q].glob[i]] \in Dicts
  BY <1>1, <1>3, StoreAssumption
<1>5. Begun(q)' = 0 /\ Done(q)' = 0
  BY <1>1, <1>3 DEF Begun, Done
<1>6. Remaining(q)'
  BY <1>1, <1>3, <1>4, <1>5 DEF Remaining
<1> QED
  BY <1>5, <1>6 DEF StoredUpTo, Passed

\* The rest of a sequence, after one more of its elements.
LEMMA RestOf ==
  ASSUME NEW S, NEW rest \in Seq(S), NEW whole \in Seq(S), NEW n \in Nat,
         n = Len(whole) - Len(rest), rest # <<>>,
         \A i \in 1 .. Len(rest) : rest[i] = whole[n + i]
  PROVE  /\ n + 1 \in 1 .. Len(whole) /\ Head(rest) = whole[n + 1]
         /\ Tail(rest) \in Seq(S) /\ n + 1 = Len(whole) - Len(Tail(rest))
         /\ \A i \in 1 .. Len(Tail(rest)) : Tail(rest)[i] = whole[(n + 1) + i]
<1>1. Len(rest) \in Nat \ {0} /\ Len(whole) \in Nat
  BY EmptySeq, LenProperties
<1>2. /\ Tail(rest) \in Seq(S) /\ Len(Tail(rest)) = Len(rest) - 1
      /\ Head(rest) = rest[1]
      /\ \A i \in 1 .. Len(Tail(rest)) : Tail(rest)[i] = rest[i + 1]
  BY HeadTailProperties
<1>3. ASSUME NEW i \in 1 .. Len(Tail(rest))
      PROVE  Tail(rest)[i] = whole[(n + 1) + i]
  <2>1. i + 1 \in 1 .. Len(rest) /\ n + (i + 1) = (n + 1) + i
    BY <1>1, <1>2
  <2> QED
    BY <1>2, <2>1
<1> QED
  BY <1>1, <1>2, <1>3

\* The step that opens the next file.
LEMMA ImportLoads ==
  ASSUME TypeOK, NEW q \in Procs, ImportOk(q), LoadFile(q), At(q, "import")'
  PROVE  Remaining(q)' /\ StoredUpTo(db, proc[q].glob, Begun(q), Done(q))'
<1> DEFINE glob == proc[q].glob
           files == proc[q].files
           n == Begun(q)
           m == Done(q)
           f == Head(files)
<1>1. /\ proc \in [Procs -> Process] /\ proc[q] \in Process
      /\ glob \in Seq(Files) /\ files \in Seq(Files)
  BY DEF TypeOK, Process
<1>2. /\ files # <<>> /\ proc[q].defs = <<>>
      /\ Remaining(q) /\ StoredUpTo(db, glob, n, m) /\ UNCHANGED db
  BY DEF LoadFile, ImportOk, dbVars
<1>3. f \notin Unreadable
  BY <1>1 DEF LoadFile, End, At, Off
<1>4. /\ proc'[q].glob = glob /\ proc'[q].files = Tail(files)
      /\ proc'[q].defs = DefsIn[f] /\ proc'[q].name = NameOf[f]
  BY <1>1, <1>3 DEF LoadFile, Process
<1>5. /\ n \in Nat /\ m \in Nat /\ n = Len(glob) - Len(files)
      /\ \A i \in 1 .. Len(files) : files[i] = glob[n + i]
      /\ \A i \in 1 .. Len(glob) : NameOf[glob[i]] \in Dicts
      /\ m = IF n = 0 THEN 0 ELSE Len(DefsIn[glob[n]]) - Len(proc[q].defs)
  BY <1>2 DEF Remaining, Begun, Done
<1>6. Begun(q)' = Len(glob) - Len(Tail(files))
  BY <1>4 DEF Begun
<1>7. Done(q)' = IF Begun(q)' = 0 THEN 0 ELSE Len(DefsIn[glob[Begun(q)']]) - Len(DefsIn[f])
  BY <1>4 DEF Done
<1> HIDE DEF glob, files, n, m, f
<1>8. /\ n + 1 \in 1 .. Len(glob) /\ f = glob[n + 1]
      /\ n + 1 = Len(glob) - Len(Tail(files))
      /\ \A i \in 1 .. Len(Tail(files)) : Tail(files)[i] = glob[(n + 1) + i]
  BY <1>1, <1>2, <1>5, RestOf DEF f
<1>9. DefsIn[f] \in Seq(Words \X (Nat \ {0})) /\ Len(DefsIn[f]) \in Nat
  BY <1>1, <1>8, StoreAssumption
<1>10. Begun(q)' = n + 1
  BY <1>6, <1>8
<1>11. Done(q)' = 0
  BY <1>5, <1>7, <1>8, <1>9, <1>10
<1>12. Remaining(q)'
  <2>1. \A j \in 1 .. Len(DefsIn[f]) : DefsIn[f][j] = DefsIn[glob[n + 1]][0 + j]
    BY <1>8, <1>9
  <2>2. proc'[q].name = NameOf[glob[n + 1]] /\ n + 1 # 0 /\ n + 1 \in Nat
    BY <1>4, <1>5, <1>8
  <2> QED
    BY <1>4, <1>5, <1>8, <1>10, <1>11, <2>1, <2>2 DEF Remaining, Def, glob
<1>13. IF n = 0 THEN m = 0 ELSE m = Len(DefsIn[glob[n]])
  <2>1. n # 0 => Len(DefsIn[glob[n]]) \in Nat
    <3>1. n # 0 => n \in 1 .. Len(glob)
      BY <1>5, <1>8
    <3> QED
      BY <1>1, <3>1, StoreAssumption
  <2> QED
    BY <1>2, <1>5, <2>1
<1>14. StoredUpTo(db, glob, n + 1, 0)
  BY <1>2, <1>5, <1>13, NextFile DEF glob, n, m
<1> QED
  BY <1>2, <1>4, <1>10, <1>11, <1>12, <1>14

\* The step that puts the next definition.
LEMMA ImportPuts ==
  ASSUME TypeOK, NEW q \in Procs, ImportOk(q), PutDef(q)
  PROVE  Remaining(q)' /\ StoredUpTo(db, proc[q].glob, Begun(q), Done(q))'
<1> DEFINE glob == proc[q].glob
           files == proc[q].files
           defs == proc[q].defs
           n == Begun(q)
           m == Done(q)
<1>1. /\ proc \in [Procs -> Process] /\ proc[q] \in Process /\ db \in [Keys -> Nat]
      /\ glob \in Seq(Files) /\ files \in Seq(Files)
      /\ defs \in Seq(Words \X (Nat \ {0}))
  BY DEF TypeOK, Process
<1>2. defs # <<>> /\ Remaining(q) /\ StoredUpTo(db, glob, n, m)
  BY DEF PutDef, ImportOk
<1>3. /\ proc'[q].glob = glob /\ proc'[q].files = files
      /\ proc'[q].defs = Tail(defs) /\ proc'[q].name = proc[q].name
  BY <1>1 DEF PutDef, Process
<1>4. /\ n \in Nat /\ n # 0 /\ m \in Nat /\ n = Len(glob) - Len(files)
      /\ m = Len(DefsIn[glob[n]]) - Len(defs)
      /\ proc[q].name = NameOf[glob[n]]
      /\ \A i \in 1 .. Len(glob) : NameOf[glob[i]] \in Dicts
      /\ \A i \in 1 .. Len(files) : files[i] = glob[n + i]
      /\ \A j \in 1 .. Len(defs) : defs[j] = DefsIn[glob[n]][m + j]
  BY <1>2 DEF Remaining, Begun, Done, Def
<1>5. Begun(q)' = n
  BY <1>3 DEF Begun
<1>6. Done(q)' = Len(DefsIn[glob[n]]) - Len(Tail(defs))
  BY <1>3, <1>4, <1>5 DEF Done
<1>7. db' = Put(db, <<Head(defs)[1], proc[q].name>>, Head(defs)[2])
  BY DEF PutDef
<1> HIDE DEF glob, files, n, m, defs
<1>8. n \in 1 .. Len(glob) /\ DefsIn[glob[n]] \in Seq(Words \X (Nat \ {0}))
  <2>1. n \in 1 .. Len(glob)
    BY <1>1, <1>4
  <2> QED
    BY <1>1, <2>1, StoreAssumption
<1>9. /\ m + 1 \in 1 .. Len(DefsIn[glob[n]]) /\ Head(defs) = DefsIn[glob[n]][m + 1]
      /\ m + 1 = Len(DefsIn[glob[n]]) - Len(Tail(defs))
      /\ \A j \in 1 .. Len(Tail(defs)) : Tail(defs)[j] = DefsIn[glob[n]][(m + 1) + j]
  <2> DEFINE given == DefsIn[glob[n]]
             Pairs == Words \X (Nat \ {0})
  <2>1. /\ given \in Seq(Pairs) /\ defs \in Seq(Pairs) /\ m \in Nat /\ defs # <<>>
        /\ m = Len(given) - Len(defs)
        /\ \A j \in 1 .. Len(defs) : defs[j] = given[m + j]
    BY <1>1, <1>2, <1>4, <1>8
  <2> HIDE DEF given, Pairs
  <2>2. /\ m + 1 \in 1 .. Len(given) /\ Head(defs) = given[m + 1]
        /\ m + 1 = Len(given) - Len(Tail(defs))
        /\ \A j \in 1 .. Len(Tail(defs)) : Tail(defs)[j] = given[(m + 1) + j]
    BY <2>1, RestOf
  <2> QED
    BY <2>2 DEF given
<1>10. Done(q)' = m + 1
  BY <1>6, <1>9
<1>11. Remaining(q)'
  <2>1. m + 1 \in Nat
    BY <1>4
  <2> QED
    BY <1>3, <1>4, <1>5, <1>9, <1>10, <2>1 DEF Remaining, Def, glob
<1>12. db' = Put(db, KeyOf(glob, n, m + 1), Def(glob, n, m + 1)[2])
  BY <1>4, <1>7, <1>9 DEF KeyOf, Def
<1>13. StoredUpTo(db', glob, n, m + 1)
  <2>1. m < Len(DefsIn[glob[n]]) /\ StoredUpTo(db, glob, n, m)
    BY <1>2, <1>4, <1>8, <1>9
  <2> QED
    BY <1>1, <1>4, <1>8, <1>12, <2>1, NextDef
<1> QED
  BY <1>3, <1>5, <1>10, <1>11, <1>13

\* Every import has stored the definitions it has passed, after any step.
LEMMA ImportedNext ==
  ASSUME TypeOK, Holder, Fresh, Erasing, Imported, [Next]_vars
  PROVE  Imported'
<1> SUFFICES ASSUME NEW q \in Procs PROVE ImportOk(q)'
  BY DEF Imported, ImportOk
<1>1. ImportOk(q) /\ (Holds(q) => lock = q)
  BY DEF Imported, ImportOk, Holder
<1>2. At(q, "import") => Holds(q) /\ ~At(q, "reset")
  BY DEF Holds, Points, At
<1>3. ASSUME NEW p \in Procs \ {q}, Step(p) PROVE ImportOk(q)'
  <2>1. At(q, "import") => UNCHANGED db
    BY <1>1, <1>2, <1>3, StepDb DEF Holder
  <2>2. /\ proc'[q].pc = proc[q].pc /\ proc'[q].glob = proc[q].glob
        /\ proc'[q].files = proc[q].files /\ proc'[q].defs = proc[q].defs
        /\ proc'[q].name = proc[q].name
    BY <1>3, StepFrame
  <2> QED
    BY <1>1, <2>1, <2>2, ImportKept DEF At
<1>4. ASSUME Step(q) PROVE ImportOk(q)'
  <2>1. CASE proc'[q].pc \in Ended
    BY <2>1 DEF ImportOk, At, Ended
  <2>2. CASE Moves(q) /\ At(q, "import")'
    <3>1. BeginImport(q) \/ LoadFile(q) \/ PutDef(q)
      BY <2>2 DEF Moves, At
    <3>2. Remaining(q)' /\ StoredUpTo(db, proc[q].glob, Begun(q), Done(q))'
      BY <1>1, <2>2, <3>1, ImportBegins, ImportLoads, ImportPuts
    <3> QED
      BY <2>2, <3>2 DEF ImportOk, At
  <2>3. CASE Moves(q) /\ ~At(q, "import")'
    BY <1>1, <2>3 DEF Moves, ImportOk, At
  <2> QED
    BY <1>4, <2>1, <2>2, <2>3, StepSelf
<1>5. CASE Elsewhere
  <2>1. CASE proc'[q] = proc[q] /\ (lock = q => lock' = q)
    BY <1>1, <1>2, <1>5, <2>1, ElsewhereHeld, ImportKept DEF At
  <2>2. CASE proc'[q].pc \in Ended \cup {"opening"} /\ proc'[q].defs = <<>>
    BY <2>2 DEF ImportOk, At, Ended
  <2> QED
    BY <1>5, <2>1, <2>2, OtherFrame DEF Elsewhere
<1> QED
  BY <1>3, <1>4, <1>5, NextSplit

--------------------------------------------------------------------------------
(***************************************************************************)
(* The strengthened invariant holds in every reachable state.              *)
(***************************************************************************)
THEOREM Invariance == Spec => []IInv
<1>1. Init => IInv
  BY TypeInit, InitParts DEF IInv
<1>2. IInv /\ [Next]_vars => IInv'
  BY TypeNext, HolderNext, FreshNext, MappedNext, CollectedNext, CoveredNext,
     SurviveNext, ImportedNext DEF IInv
<1> QED
  BY <1>1, <1>2, PTL DEF Spec

(***************************************************************************)
(* The state of the directory and of its processes keeps its types.        *)
(***************************************************************************)
THEOREM TypeCorrect == Spec => []TypeOK
<1>1. IInv => TypeOK
  BY DEF IInv
<1> QED
  BY <1>1, Invariance, PTL

(***************************************************************************)
(* No process searches an index file truncated under it (topk.rs:30).      *)
(***************************************************************************)
THEOREM MappingStaysIntact == Spec => []MappingIntact
<1>1. IInv => MappingIntact
  BY DEF IInv, Mapped, MappingIntact, Searching, At
<1> QED
  BY <1>1, Invariance, PTL

(***************************************************************************)
(* From a build until something is removed or lost, no search panics at    *)
(* lib.rs:140, for any number of processes, commands and failures.         *)
(***************************************************************************)
THEOREM SearchIsSafe == Spec => []SearchSafe
<1>1. IInv => SearchSafe
  BY DEF IInv, Covered, SearchSafe, Searching, At
<1> QED
  BY <1>1, Invariance, PTL

(***************************************************************************)
(* What a finished import found stays until a reset (lib.rs:304).          *)
(***************************************************************************)
THEOREM ImportIsDurable == Spec => []ImportStays
<1>1. IInv => ImportStays
  BY DEF IInv, Survive, ImportStays
<1> QED
  BY <1>1, Invariance, PTL

(***************************************************************************)
(* A finished import leaves the last definition that its files give, for   *)
(* sources of any length and files in any order (lib.rs:298-333).          *)
(***************************************************************************)
THEOREM ImportsConverge == Spec => ImportConverges
<1>1. IInv /\ [Next]_vars
        => [\A p \in Procs : EndImport(p) => LastOnesStored(proc[p].glob)]_vars
  <2> SUFFICES ASSUME IInv, NEW p \in Procs, EndImport(p)
               PROVE  LastOnesStored(proc[p].glob)
    OBVIOUS
  <2>1. /\ proc[p].glob \in Seq(Files) /\ proc[p].files = <<>> /\ proc[p].defs = <<>>
        /\ Remaining(p) /\ StoredUpTo(db, proc[p].glob, Begun(p), Done(p))
    BY DEF IInv, TypeOK, Process, Imported, EndImport
  <2>2. Begun(p) = Len(proc[p].glob) /\ Done(p) \in Nat
    BY <2>1 DEF Begun, Remaining
  <2>3. Len(proc[p].glob) # 0 => Done(p) = Len(DefsIn[proc[p].glob[Len(proc[p].glob)]])
    <3>1. Len(proc[p].glob) # 0 =>
            DefsIn[proc[p].glob[Len(proc[p].glob)]] \in Seq(Words \X (Nat \ {0}))
      BY <2>1, StoreAssumption
    <3> QED
      BY <2>1, <2>2, <3>1 DEF Done
  <2> QED
    BY <2>1, <2>2, <2>3, AllStored
<1> QED
  BY <1>1, Invariance, PTL DEF Spec, ImportConverges

(***************************************************************************)
(* The data directory implements the durable store of entries: every step  *)
(* learns a key, promises the known ones, loses some that are not          *)
(* promised, clears both, or changes neither.                              *)
(***************************************************************************)
THEOREM StoreImplementsDurable == Spec => ImplementsDurable
<1>1. Init => Durable!Init
  BY EmptyType DEF Init, Durable!Init
<1>2. IInv /\ [Next]_vars => [Durable!Next]_<<KeysIn(db), promised>>
  <2> SUFFICES ASSUME IInv, [Next]_vars
               PROVE  Durable!Next \/ UNCHANGED <<KeysIn(db), promised>>
    OBVIOUS
  <2> USE DEF dbVars, Durable!Next
  <2>1. ASSUME NEW p \in Procs, PutDef(p) PROVE Durable!Learn
    <3> DEFINE key == <<Head(proc[p].defs)[1], proc[p].name>>
               v == Head(proc[p].defs)[2]
    <3>1. /\ proc[p].defs \in Seq(Words \X (Nat \ {0})) /\ proc[p].defs # <<>>
          /\ proc[p].name \in Dicts /\ db \in [Keys -> Nat]
      BY <2>1 DEF IInv, TypeOK, Named, Process, PutDef
    <3>2. key \in Keys /\ v # 0
      BY <3>1 DEF Keys
    <3>3. db' = [db EXCEPT ![key] = v] /\ UNCHANGED promised
      BY <2>1 DEF PutDef, Put
    <3> HIDE DEF key, v
    <3>4. KeysIn(db') = KeysIn(db) \cup {key}
      BY <3>1, <3>2, <3>3 DEF KeysIn
    <3> QED
      BY <3>2, <3>3, <3>4 DEF Durable!Learn
  <2>2. ASSUME NEW p \in Procs, EndImport(p) PROVE Durable!Promise
    BY <2>2 DEF EndImport, Durable!Promise
  <2>3. CASE Emptied
    BY <2>3, EmptyType DEF Emptied, Durable!Clear
  <2>4. CASE PowerLoss
    BY <2>4 DEF PowerLoss, IInv, Survive, Durable!Lose
  <2>5. CASE UNCHANGED <<db, promised>>
    BY <2>5
  <2>6. ASSUME NEW p \in Procs, Step(p)
        PROVE  PutDef(p) \/ EndImport(p) \/ Emptied \/ UNCHANGED <<db, promised>>
    <3>1. ASSUME NEW cands, Search(p, cands) PROVE UNCHANGED <<db, promised>>
      BY <3>1 DEF Search
    <3> QED
      BY <2>6, <3>1
         DEF Step, OpenDb, LoadIndex, NoCommand, Report, FindNothing, BeginImport,
             LoadFile, CollectWords, TruncateIndex, WriteIndex, ReloadIndex,
             BeginReset, RemoveDb, RemoveIndex, EndReset, FailReset, Emptied
  <2>7. CASE Elsewhere
    BY <2>3, <2>4, <2>5, <2>7 DEF Elsewhere, Start, Kill, Writeback, vars, Emptied
  <2> QED
    BY <2>1, <2>2, <2>3, <2>5, <2>6, <2>7, NextSplit
<1> QED
  BY <1>1, <1>2, Invariance, PTL DEF Spec, ImplementsDurable, Durable!Spec
================================================================================
