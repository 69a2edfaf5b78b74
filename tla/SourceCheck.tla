------------------------------ MODULE SourceCheck ------------------------------
(***************************************************************************)
(* The way of a source file of definitions: check_yaml_defs with save,     *)
(* which writes a report of the empty definitions and a cleaned source     *)
(* into the directory "checked" beside the source (offdictd/src/lib.rs)    *)
(* and may be killed while it does, possibly further checks of its output, *)
(* the import into the database under one dictionary's name, and the views *)
(* of an entry: the panel's sections and the API's normalized definition.  *)
(*                                                                         *)
(* A file of the directory is an Option: None is one that is not there or  *)
(* does not decode.                                                        *)
(***************************************************************************)
EXTENDS DefTree

CONSTANTS
  Sources,    \* the sequences of definitions a file may hold
  MaxChecks   \* bound: how often a source is checked

ASSUME SourcesAssumption == Sources \subseteq Seq(Defs)
ASSUME ChecksAssumption == MaxChecks \in Nat

VARIABLES
  pc,         \* "source", "created", "reported", "checked", "killed",
              \* "imported" or "panicked"
  source,     \* the definitions of the file
  cleaned,    \* the cleaned source
  report,     \* the empty definitions, each with has_non_empty_alternative
  checks,     \* how many checks led to source
  db,         \* word -> the stored definition
  origin,     \* history: the file before any check
  torn        \* history: a killed check left the file that was used

vars == <<pc, source, cleaned, report, checks, db, origin, torn>>
files == <<cleaned, report>>

Words(defs) == {defs[i].word[1] : i \in 1 .. Len(defs)}
Wordless(defs) == \E i \in 1 .. Len(defs) : defs[i].word = None

Init == /\ pc = "source"
        /\ source \in Sources
        /\ cleaned = None /\ report = None
        /\ checks = 0
        /\ db = [w \in {} |-> Blank]
        /\ origin = source /\ torn = FALSE

\* The empty definitions, or those that are not.
Those(empty, defs) ==
  FoldLeft(LAMBDA kept, d : IF Empty[d] <=> empty THEN Append(kept, d) ELSE kept,
           <<>>, defs)
NonEmpty(defs) == Those(FALSE, defs)

\* The first definition of every word.
Unique(defs) ==
  LET Insert(kept, d) == IF d.word[1] \in Words(kept) THEN kept ELSE Append(kept, d)
  IN  FoldLeft(Insert, <<>>, defs)

\* Mutant: duplicates go before the empty definitions do.
NonEmptyUnique_DedupFirst(defs) == NonEmpty(Unique(defs))

NonEmptyUnique(defs) == Unique(NonEmpty(defs))

\* A definition without a word, or one that cleanup cannot read back,
\* panics before a file is written.
CheckPanics ==
  \/ Wordless(source)
  \/ ~All(LAMBDA d : ~CleanupPanics[d], NonEmptyUnique(source))

\* Mutant: a file that has been cleaned before is not cleaned again.
Check_OnlyOnce ==
  /\ pc \in {"source", "killed"}
  /\ checks < MaxChecks
  /\ IF CheckPanics
       THEN pc' = "panicked" /\ UNCHANGED files
       ELSE IF pc = "killed" /\ IsSome(cleaned)
              THEN pc' = "checked" /\ UNCHANGED files
              ELSE pc' = "created" /\ cleaned' = None /\ report' = None
  /\ UNCHANGED <<source, checks, db, origin, torn>>

\* Everything is computed before the two files are created, or emptied.
Check ==
  /\ pc \in {"source", "killed"}
  /\ checks < MaxChecks
  /\ IF CheckPanics
       THEN pc' = "panicked" /\ UNCHANGED files
       ELSE pc' = "created" /\ cleaned' = None /\ report' = None
  /\ UNCHANGED <<source, checks, db, origin, torn>>

WriteReport ==
  /\ pc = "created"
  /\ LET Reported(d) == [def |-> d, alternative |-> d.word[1] \in Words(source)]
     IN  report' = Some(MapSeq(Reported, Those(TRUE, source)))
  /\ pc' = "reported"
  /\ UNCHANGED <<source, cleaned, checks, db, origin, torn>>

CleanAll(defs) == MapSeq(LAMBDA d : Cleanup[d], defs)
Output == CleanAll(NonEmptyUnique(source))

WriteCleaned ==
  /\ pc = "reported"
  /\ cleaned' = Some(Output)
  /\ pc' = "checked"
  /\ UNCHANGED <<source, report, checks, db, origin, torn>>

\* A definition that is cut after its word has lost what is written later,
\* and may have lost the word's end.  (Cut before its word, it makes the file
\* useless, as if it did not decode.)
CutShort(d) ==
  LET short == [d EXCEPT !.CN = None, !.examples = None] IN
  {d, short} \cup (IF IsSome(d.word) THEN {[short EXCEPT !.word = Some("cut")]} ELSE {})

\* What is left of a file of definitions whose writer is killed.  Whether an
\* empty file decodes, to no definitions, is serde_yaml's choice.
Torn(defs) ==
  {None, Some(<<>>)} \cup UNION {{Some(Append(SubSeq(defs, 1, i - 1), e)) : e \in CutShort(defs[i])} :
                        i \in 1 .. Len(defs)}

\* Of a report with records in it no more is told than that it cannot be
\* imported.
Kill ==
  /\ pc \in {"created", "reported"}
  /\ cleaned' \in Torn(IF pc = "created" THEN <<>> ELSE Output)
  /\ report' \in IF pc = "created" THEN Torn(<<>>) ELSE {report}
  /\ pc' = "killed"
  /\ UNCHANGED <<source, checks, db, origin, torn>>

\* The cleaned file is the next source.
Adopt ==
  /\ pc \in {"checked", "killed"}
  /\ IF cleaned = None
       THEN pc' = "panicked" /\ UNCHANGED <<source, checks, torn>>
       ELSE /\ pc' = "source"
            /\ source' = cleaned[1]
            /\ checks' = checks + 1
            /\ torn' = (torn \/ pc = "killed")
  /\ UNCHANGED <<files, db, origin>>

\* Mutant: the key is trimmed, the stored word is not.
Store_TrimmedKey(e, d) ==
  LET key == IF d.word[1] = " a" THEN "a" ELSE d.word[1]
  IN  [w \in DOMAIN e \cup {key} |-> IF w = key THEN d ELSE e[w]]

Store(e, d) == [w \in DOMAIN e \cup {d.word[1]} |->
                  IF w = d.word[1] THEN d ELSE e[w]]

Stored(defs) == FoldLeft(Store, db, defs)

\* Every definition is converted, which needs its word, before the first is
\* stored; a later one replaces an earlier one of the same word.
Import ==
  /\ pc = "source"
  /\ IF Wordless(source)
       THEN pc' = "panicked" /\ UNCHANGED db
       ELSE pc' = "imported" /\ db' = Stored(source)
  /\ UNCHANGED <<source, files, checks, origin, torn>>

\* The import of all files of the directory meets the report first, under the
\* dictionary's name: its records are definitions without a word.
ImportDirectory ==
  /\ pc \in {"checked", "killed"}
  /\ IF report # Some(<<>>) \/ cleaned = None \/ Wordless(cleaned[1])
       THEN pc' = "panicked" /\ UNCHANGED <<db, checks, torn>>
       ELSE /\ pc' = "imported"
            /\ db' = Stored(cleaned[1])
            /\ checks' = checks + 1
            /\ torn' = (torn \/ pc = "killed")
  /\ UNCHANGED <<source, files, origin>>

Next == \/ Check \/ WriteReport \/ WriteCleaned \/ Kill
        \/ Adopt \/ Import \/ ImportDirectory

Spec == Init /\ [][Next]_vars

--------------------------------------------------------------------------------
TypeOK ==
  /\ pc \in {"source", "created", "reported", "checked", "killed", "imported", "panicked"}
  /\ checks \in 0 .. MaxChecks /\ torn \in BOOLEAN
  /\ source \in Seq(Defs) /\ origin \in Seq(Defs)
  /\ cleaned \in Option(Seq(Defs))
  /\ report \in Option(Seq([def : Defs, alternative : BOOLEAN]))
  /\ db = [w \in DOMAIN db |-> db[w]]
  /\ \A w \in DOMAIN db : db[w] \in Defs /\ db[w].word = Some(w)

\* Of the definitions at the indices I, the first non-empty one of every word
\* that has one.
FirstAmong(I, defs) ==
  {i \in I : /\ ~Empty[defs[i]]
             /\ \A j \in I : j < i /\ defs[j].word = defs[i].word => Empty[defs[j]]}
FirstOnes(defs) == FirstAmong(1 .. Len(defs), defs)

\* What n checks keep: each looks at what the checks before it have kept and
\* cleaned.
Kept[n \in Nat] ==
  [defs \in Seq(Defs) |->
     IF n = 0 THEN 1 .. Len(defs)
     ELSE FirstAmong(Kept[n - 1][defs], MapSeq(LAMBDA d : Cleanings[n - 1][d], defs))]

(***************************************************************************)
(* The cleaned source holds exactly the first non-empty definition of      *)
(* every word that has one (lib.rs:435-471), also when it is written over  *)
(* what a killed check has left (lib.rs:488).                              *)
(***************************************************************************)
CheckKeepsFirst ==
  pc = "checked" =>
    \E first \in [1 .. Len(cleaned[1]) -> FirstOnes(source)] :
      /\ \A i, j \in DOMAIN first : i < j => first[i] < first[j]
      /\ FirstOnes(source) = {first[i] : i \in DOMAIN first}
      /\ \A i \in DOMAIN first : cleaned[1][i] = Cleanup[source[first[i]]]

(***************************************************************************)
(* One check is not enough, for it may turn texts into nothing and words   *)
(* into equal ones after it has looked for them (lib.rs:435-471).  Once    *)
(* the texts have nothing left to strip, which takes one check more for    *)
(* every "&nbsp;" that the removal of another puts together (def.rs:276),  *)
(* what a further check writes has no empty definition, no word twice, and *)
(* would be left as it is by any other.                                    *)
(***************************************************************************)
CheckSettles ==
  pc = "checked" /\ checks >= Passes =>
    LET defs == cleaned[1] IN
    /\ ~Wordless(defs)
    /\ NonEmptyUnique(defs) = defs
    /\ CleanAll(defs) = defs

(***************************************************************************)
(* What a file says of a word reaches the database: unless a check was     *)
(* killed, the words are those of the definitions that every check has     *)
(* kept, as the last check has cleaned them, and an entry is what was kept *)
(* last of its word.  A check judges what the one before it wrote, so that *)
(* a definition may go with its word after it had seemed to say something  *)
(* (lib.rs:435-493, 278-334).                                              *)
(***************************************************************************)
WordsReachDb ==
  pc = "imported" /\ ~torn =>
    LET kept == Kept[checks][origin]
        Final(i) == Cleanings[checks][origin[i]]
        Word(i) == Final(i).word[1]
    IN  /\ DOMAIN db = {Word(i) : i \in kept}
        /\ \A i \in kept : (\A j \in kept : j > i => Word(j) # Word(i)) =>
                             db[Word(i)] = Final(i)

(***************************************************************************)
(* The panel draws every translation, example and etymology nested in a    *)
(* stored entry by definitions, and nothing else: leaving out a repeated   *)
(* neighbour (main.rs:1064) never loses a text.                            *)
(***************************************************************************)
EntryDrawn ==
  \A w \in DOMAIN db :
    TextsOf(Drawn(Render(db[w])))
      = UNION {ShownTexts(e) : e \in Nodes[db[w]]["definitions"]}

(***************************************************************************)
(* The heading over the sections of an entry has the word type, in lower   *)
(* case, and the pronunciation of the last definition, of all that are     *)
(* nested in it, to have one (main.rs:1074, 1118), however deep the others *)
(* lie.                                                                    *)
(***************************************************************************)
HeadingOfLast ==
  \A w \in DOMAIN db :
    /\ Render(db[w]).kind = LastGiven[db[w]]["type"]
    /\ Render(db[w]).ipa = LastGiven[db[w]]["pronunciation"]

(***************************************************************************)
(* A check keeps what the panel would draw of a definition it keeps: of    *)
(* the cleaned definition exactly the same texts are drawn, trimmed, and   *)
(* without those that clean to nothing (def.rs:249, main.rs:1071), though  *)
(* cleanup goes by the shape of the data and render_def by its fields.     *)
(***************************************************************************)
CheckKeepsDrawn ==
  pc = "checked" =>
    LET kept == NonEmptyUnique(source)
        DrawnOf(d) == TextsOf(Drawn(Render(d)))
    IN  \A i \in 1 .. Len(kept) :
          DrawnOf(cleaned[1][i]) = UNION {TextsOf(CleanText(t)) : t \in DrawnOf(kept[i])}

(***************************************************************************)
(* The API answers with definitions only: no groups are left at any level, *)
(* and it has the texts that are reachable by groups where a definition    *)
(* has them, by definitions elsewhere (lib.rs:547, def_bin.rs:159).        *)
(***************************************************************************)
ApiNormal ==
  \A w \in DOMAIN db :
    LET answer == Normalize[db[w]] IN
      /\ \A e \in Nodes[answer]["either"] : e.groups = None
      /\ TextsIn(Nodes[answer]["either"]) = TextsIn(Nodes[db[w]]["alias"])

--------------------------------------------------------------------------------
(* What the repository says, and the code does not do.                     *)

(***************************************************************************)
(* lib.rs:396, has_non_empty_alternative, and 449, "Empty defs with an     *)
(* alternative can be removed without pity": a definition so reported has  *)
(* a non-empty one of the same word beside it.                             *)
(***************************************************************************)
AlternativeIsNonEmpty ==
  pc = "checked" =>
    \A i \in 1 .. Len(report[1]) :
      report[1][i].alternative =>
        \E j \in 1 .. Len(source) : /\ source[j].word = report[1][i].def.word
                                    /\ ~Empty[source[j]]

(***************************************************************************)
(* def_bin.rs:50, groups are an "Alias for definitions": the panel draws a *)
(* stored entry as it draws the normalized one.                            *)
(***************************************************************************)
GroupsDrawn ==
  \A w \in DOMAIN db : Drawn(Render(db[w])) = Drawn(Render(Normalize[db[w]]))
================================================================================
