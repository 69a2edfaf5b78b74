-------------------------------- MODULE DefTree --------------------------------
(***************************************************************************)
(* Definitions as trees and what is computed from them: empty_, cleanup    *)
(* and normalize_def (offdictd/src/def.rs, lib.rs) and render_def with the *)
(* drawing of its sections (src/main.rs).                                  *)
(*                                                                         *)
(* An Option is a sequence of at most one value.  Of the text fields, EN   *)
(* stands for those that are treated like it.  What cleanup does to a text *)
(* is a function of its characters: the CONSTANT Strip.  One pass leaves   *)
(* what may be stripped again, "&n&nbsp;bsp;" of which one removal makes a *)
(* new "&nbsp;".  Another text is "N.", drawn in lower case as a word      *)
(* type.  What descends into a definition is a recursive function over the *)
(* trees of bounded depth.                                                 *)
(***************************************************************************)
EXTENDS Naturals, Sequences, SequencesExt

CONSTANTS
  Texts,      \* the texts of the fields
  Strip,      \* text -> what one pass over it leaves: every "&nbsp" with its ";"
              \* is removed, then the white space around the rest
  Passes,     \* bound: how many passes leave nothing to strip in any text
  MaxDepth    \* bound: how deep definitions are nested

ASSUME TextsAssumption == {"", "cut", "n."} \subseteq Texts
ASSUME StripAssumption == /\ Strip \in [Texts -> Texts]
                          /\ Strip[""] = "" /\ Strip["cut"] = "cut"
ASSUME DepthAssumption == MaxDepth \in Nat

\* What n passes make of the texts.  A pass that changes a text makes it
\* shorter, so that there is a last one.
Stripped[n \in Nat] ==
  IF n = 0 THEN Texts ELSE {Strip[t] : t \in Stripped[n - 1]}

ASSUME PassesAssumption == /\ Passes \in Nat \ {0}
                           /\ \A t \in Stripped[Passes] : Strip[t] = t

None == <<>>
Some(v) == <<v>>
IsSome(o) == o # None

Blank == [word |-> None, CN |-> None, EN |-> None, info |-> None,
          type |-> None, etymology |-> None, examples |-> None,
          pronunciation |-> None, definitions |-> None, groups |-> None]

Str(t) == [tag |-> "str", text |-> t]
Vec(ts) == [tag |-> "vec", texts |-> ts]
Obj(en, cn) == [tag |-> "obj", EN |-> en, CN |-> cn]
Nothing == [tag |-> "none"]

Option(S) == {o \in Seq(S) : Len(o) <= 1}

\* shorthand<String>: nothing, a string or a list of optional strings.
Pronunciations ==
  {Nothing} \cup [tag : {"str"}, text : Texts]
    \cup [tag : {"vec"}, texts : Seq(Option(Texts))]

\* shorthand<example_obj>, which is also read from a list of its two fields:
\* no list of two stays a list.
Examples ==
  {ex \in Pronunciations : ex.tag = "vec" => Len(ex.texts) # 2}
    \cup [tag : {"obj"}, EN : Option(Texts), CN : Option(Texts)]

\* The definitions with those of S nested in them.
Over(S) ==
  [word : Option(Texts), CN : Option(Texts), EN : Option(Texts),
   info : Option(Texts), type : Option(Texts),
   etymology : Option(Seq(Texts)), examples : Option(Seq(Examples)),
   pronunciation : Option(Pronunciations),
   definitions : Option(Seq(S)), groups : Option(Seq(S))]

Trees[n \in Nat] == Over(IF n = 0 THEN {} ELSE Trees[n - 1])
Defs == Trees[MaxDepth]

All(P(_), s) == \A i \in 1 .. Len(s) : P(s[i])
MapSeq(F(_), s) == [i \in 1 .. Len(s) |-> F(s[i])]
MapOption(F(_), o) == IF IsSome(o) THEN Some(F(o[1])) ELSE None

\* The members of an optional list: for ... in o.into_iter().flatten().
Items(o) == IF IsSome(o) THEN o[1] ELSE <<>>

--------------------------------------------------------------------------------
(* Emptyable.                                                              *)

EmptyText(t) == t = ""
EmptyOption(E(_), o) == All(E, o)
EmptyStr(o) == EmptyOption(EmptyText, o)

\* A list is judged by its first text.
EmptyShorthand(ex) ==
  CASE ex.tag = "none" -> TRUE
    [] ex.tag = "obj"  -> EmptyStr(ex.CN) /\ EmptyStr(ex.EN)
    [] ex.tag = "str"  -> EmptyText(ex.text)
    [] ex.tag = "vec"  -> ex.texts = <<>> \/ EmptyStr(ex.texts[1])

EmptyTexts(ts) == All(EmptyText, ts)
EmptyExamples(exs) == All(EmptyShorthand, exs)

Empty[d \in Defs] ==
  LET defs == Items(IF IsSome(d.definitions) THEN d.definitions ELSE d.groups)
  IN  /\ d.CN = None
      /\ EmptyStr(d.EN) /\ EmptyStr(d.info)
      /\ EmptyOption(EmptyTexts, d.etymology)
      /\ EmptyOption(EmptyExamples, d.examples)
      /\ EmptyOption(EmptyShorthand, d.pronunciation)
      /\ All(LAMBDA e : Empty[e], defs)

--------------------------------------------------------------------------------
(* cleanup: to a value, cleanup_value, and back.                           *)

\* Mutant: a text is not looked at again after its "&nbsp;" is gone.
CleanText_NotAgain(t) == IF t = "" THEN None ELSE Some(Strip[t])

CleanText(t) == IF Strip[t] = "" THEN None ELSE Some(Strip[t])
CleanStr(o) == IF IsSome(o) THEN CleanText(o[1]) ELSE None

\* An empty sequence becomes null; the null of a field is its absence.
CleanSeq(F(_), o) ==
  IF IsSome(o) /\ o[1] # <<>> THEN Some(MapSeq(F, o[1])) ELSE None

\* Mutant: a list without a first text is nothing, as for empty_.
CleanShorthand_ByFirst(ex) ==
  CASE ex.tag = "none" -> Nothing
    [] ex.tag = "obj"  -> Obj(CleanStr(ex.EN), CleanStr(ex.CN))
    [] ex.tag = "str"  -> IF IsSome(CleanText(ex.text))
                          THEN Str(CleanText(ex.text)[1]) ELSE Nothing
    [] ex.tag = "vec"  -> IF ex.texts = <<>> \/ CleanStr(ex.texts[1]) = None
                          THEN Nothing ELSE Vec(MapSeq(CleanStr, ex.texts))

CleanShorthand(ex) ==
  CASE ex.tag = "none" -> Nothing
    [] ex.tag = "obj"  -> Obj(CleanStr(ex.EN), CleanStr(ex.CN))
    [] ex.tag = "str"  -> IF IsSome(CleanText(ex.text))
                          THEN Str(CleanText(ex.text)[1]) ELSE Nothing
    [] ex.tag = "vec"  -> IF ex.texts = <<>> THEN Nothing
                          ELSE Vec(MapSeq(CleanStr, ex.texts))

\* A field that holds null reads back as an absent Option.
CleanOption(o) ==
  IF IsSome(o) /\ CleanShorthand(o[1]) # Nothing
  THEN Some(CleanShorthand(o[1])) ELSE None

\* A null in a list of plain strings cannot be read back.
CleanupPanics[d \in Defs] ==
  \/ ~All(LAMBDA t : IsSome(CleanText(t)), Items(d.etymology))
  \/ \E ds \in {Items(d.definitions), Items(d.groups)} :
       ~All(LAMBDA e : ~CleanupPanics[e], ds)

\* Of a definition for which CleanupPanics is false: no text of its etymology
\* cleans to nothing.
Cleanup[d \in Defs] ==
  [d EXCEPT !.word = CleanStr(@), !.CN = CleanStr(@), !.EN = CleanStr(@),
            !.info = CleanStr(@), !.type = CleanStr(@),
            !.etymology = CleanSeq(LAMBDA t : Strip[t], @),
            !.examples = CleanSeq(CleanShorthand, @),
            !.pronunciation = CleanOption(@),
            !.definitions = CleanSeq(LAMBDA e : Cleanup[e], @),
            !.groups = CleanSeq(LAMBDA e : Cleanup[e], @)]

--------------------------------------------------------------------------------
\* Mutant: as for empty_, the alias only counts where there are no definitions.
Aliased_DefinitionsFirst(d) ==
  IF IsSome(d.definitions) THEN d.definitions ELSE d.groups

Aliased(d) == IF IsSome(d.groups) THEN d.groups ELSE d.definitions

\* groups take the place of definitions, at every level.
Normalize[d \in Defs] ==
  [d EXCEPT !.definitions =
              MapOption(LAMBDA ds : MapSeq(LAMBDA e : Normalize[e], ds), Aliased(d)),
            !.groups = None]

--------------------------------------------------------------------------------
(* render_def and show_section_t.                                          *)

\* Mutant: sections are the same when they are of one kind.
PushDedup_Kind(s, v) ==
  IF s # <<>> /\ Last(s).kind = v.kind THEN s ELSE Append(s, v)

PushDedup(s, v) == IF s # <<>> /\ Last(s) = v THEN s ELSE Append(s, v)

\* The sections a definition adds by itself, in order.
OwnSections(d) ==
  (IF IsSome(d.etymology) THEN <<[kind |-> "Etymology", texts |-> d.etymology[1]]>>
                          ELSE <<>>)
  \o (IF IsSome(d.info) THEN <<[kind |-> "Info", text |-> d.info[1]]>> ELSE <<>>)
  \o (IF IsSome(d.CN) \/ IsSome(d.EN)
      THEN <<[kind |-> "Explain", en |-> d.EN, cn |-> d.CN]>> ELSE <<>>)
  \o (IF IsSome(d.examples)
      THEN LET Example(ex) == [kind |-> "Example", example |-> ex]
           IN  MapSeq(Example, d.examples[1])
      ELSE <<>>)

\* to_lowercase.
Lower(t) == IF t = "N." THEN "n." ELSE t
Kind(d) == MapOption(Lower, d.type)

\* Mutant: a word type stays once there is one.
AddOwn_FirstType(l2, d) ==
  [ipa     |-> IF IsSome(d.pronunciation) THEN d.pronunciation ELSE l2.ipa,
   kind    |-> IF IsSome(l2.kind) THEN l2.kind ELSE Kind(d),
   content |-> FoldLeft(PushDedup, l2.content, OwnSections(d))]

\* The section l2 after what a definition adds by itself.  The word type and
\* the pronunciation replace those before.
AddOwn(l2, d) ==
  [ipa     |-> IF IsSome(d.pronunciation) THEN d.pronunciation ELSE l2.ipa,
   kind    |-> IF IsSome(d.type) THEN Kind(d) ELSE l2.kind,
   content |-> FoldLeft(PushDedup, l2.content, OwnSections(d))]

Sections ==
  [kind : {"Etymology"}, texts : Seq(Texts)] \cup [kind : {"Info"}, text : Texts]
    \cup [kind : {"Explain"}, en : Option(Texts), cn : Option(Texts)]
    \cup [kind : {"Example"}, example : Examples]

\* The section of a dictionary (SectionsR), which accumulates.
L2 == [ipa : Option(Pronunciations), kind : Option(Texts), content : Seq(Sections)]

RenderInto[d \in Defs] ==
  [l2 \in L2 |-> FoldLeft(LAMBDA l, e : RenderInto[e][l],
                          AddOwn(l2, d), Items(d.definitions))]

Render(d) == RenderInto[d][[ipa |-> None, kind |-> None, content |-> <<>>]]

ExampleTexts(ex) ==
  CASE ex.tag = "str"  -> <<ex.text>>
    [] ex.tag = "obj"  -> ex.EN \o ex.CN
    [] ex.tag = "vec"  -> FlattenSeq(ex.texts)
    [] ex.tag = "none" -> <<>>

\* The labels drawn for a section; Info has none.
Labels(sec) ==
  CASE sec.kind = "Explain"   -> sec.en \o sec.cn
    [] sec.kind = "Example"   -> ExampleTexts(sec.example)
    [] sec.kind = "Etymology" -> sec.texts
    [] OTHER -> <<>>

Drawn(l2) == FlattenSeq(MapSeq(Labels, l2.content))

--------------------------------------------------------------------------------
(* Reference definitions: what is left after n cleanups, and sets of nodes *)
(* and texts.                                                              *)

Cleanings[n \in Nat] ==
  [d \in Defs |-> IF n = 0 THEN d ELSE Cleanup[Cleanings[n - 1][d]]]

Children(o) == {Items(o)[i] : i \in 1 .. Len(Items(o))}

\* The definitions directly below one: by one field, by either, or by groups
\* where there are any and by definitions elsewhere.
Ways == {"definitions", "either", "alias"}
Below(d, by) ==
  CASE by = "definitions" -> Children(d.definitions)
    [] by = "either"      -> Children(d.definitions) \cup Children(d.groups)
    [] by = "alias"       -> Children(IF IsSome(d.groups) THEN d.groups
                                      ELSE d.definitions)

Nodes[d \in Defs] ==
  [by \in Ways |-> {d} \cup UNION {Nodes[e][by] : e \in Below(d, by)}]

TextsOf(o) == {o[i] : i \in 1 .. Len(o)}
ExampleSet(d) == UNION {TextsOf(ExampleTexts(ex)) : ex \in Children(d.examples)}
ShownTexts(d) == TextsOf(d.EN) \cup TextsOf(d.CN) \cup Children(d.etymology)
                   \cup ExampleSet(d)
TextsIn(nodes) == UNION {ShownTexts(e) \cup TextsOf(e.info) \cup TextsOf(e.type) :
                           e \in nodes}

\* What the last definition to have a field has in it, as it is drawn, of d and
\* those nested in it by definitions.
DrawnAs(d, field) == IF field = "type" THEN Kind(d) ELSE d.pronunciation
LastGiven[d \in Defs] ==
  [field \in {"type", "pronunciation"} |->
     LET nested == Items(d.definitions)
         giving == {i \in 1 .. Len(nested) : IsSome(LastGiven[nested[i]][field])}
     IN  IF giving = {} THEN DrawnAs(d, field) ELSE LastGiven[nested[Max(giving)]][field]]
================================================================================
