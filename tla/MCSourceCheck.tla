----------------------------- MODULE MCSourceCheck -----------------------------
(***************************************************************************)
(* Sources of at most two definitions.  A leaf has one field, in the forms *)
(* that emptiness, cleanup and drawing tell apart; a definition is a leaf  *)
(* with other leaves under definitions, groups or both, or with a tree one *)
(* level deeper.                                                           *)
(***************************************************************************)
EXTENDS SourceCheck

\* A removal makes a new "&nbsp;" of "&n&nbsp;bsp;": two passes strip it.
SomeTexts == {"", "&nbsp;", "&n&nbsp;bsp;", " a", "a", "b", "x", "y", "n.", "N.",
              "v.", "i", "p", "cut"}
SomeStrip == [t \in SomeTexts |-> CASE t = "&n&nbsp;bsp;" -> "&nbsp;"
                                   [] t = "&nbsp;"      -> ""
                                   [] t = " a"          -> "a"
                                   [] OTHER             -> t]

Leaves == {Blank,
           [Blank EXCEPT !.CN = Some("&n&nbsp;bsp;")],
           [Blank EXCEPT !.EN = Some("x"), !.type = Some("N.")],
           [Blank EXCEPT !.EN = Some("&nbsp;"), !.info = Some("i")],
           [Blank EXCEPT !.etymology = Some(<<"x", "y">>), !.type = Some("v."),
                         !.pronunciation = Some(Str("p"))],
           [Blank EXCEPT !.examples =
              Some(<<Vec(<<Some(""), Some("y"), None>>), Str("x"), Str("x")>>)],
           [Blank EXCEPT !.examples = Some(<<Obj(Some("x"), Some("")), Nothing>>),
                         !.pronunciation = Some(Vec(<<None>>))]}

\* The null this etymology cleans to cannot be read back.
Unreadable == [Blank EXCEPT !.EN = Some("x"), !.etymology = Some(<<"">>)]

Children1 == {Some(<<l>>) : l \in Leaves}
Children2 == {Some(<<l, [Blank EXCEPT !.EN = Some("x")]>>) : l \in Leaves}
Nested == {Some(<<[Blank EXCEPT !.definitions = c, !.groups = g]>>) :
             c \in {None} \cup Children1, g \in {None, Some(<<[Blank EXCEPT !.CN = Some("y")]>>)}}

Roots == Leaves \cup {Unreadable}
           \cup {[l EXCEPT !.definitions = c] : l \in Leaves, c \in Children1 \cup Children2}
           \cup {[Blank EXCEPT !.definitions = c, !.groups = g] :
                   c \in Nested \cup {None}, g \in Children1 \cup {None}}

WithWord(w, d) == [d EXCEPT !.word = w]

SecondDefs == {WithWord(w, d) : w \in {Some("a"), Some(" a"), Some("b"), None},
                                d \in Leaves \cup {Unreadable}}

SomeSources ==
  {<<WithWord(w, d)>> : w \in {Some("a"), Some("&n&nbsp;bsp;")}, d \in Roots}
    \cup {<<WithWord(Some("a"), d), e>> : d \in Roots, e \in SecondDefs}
================================================================================
