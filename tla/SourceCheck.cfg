CONSTANTS
  Texts <- SomeTexts
  Strip <- SomeStrip
  Passes = 2
  MaxDepth = 2
  Sources <- SomeSources
  MaxChecks = 3
SPECIFICATION Spec
INVARIANTS TypeOK CheckKeepsFirst CheckSettles EntryDrawn ApiNormal HeadingOfLast CheckKeepsDrawn WordsReachDb
\* An imported source is the end of its way, and so is a panic.
CHECK_DEADLOCK FALSE
