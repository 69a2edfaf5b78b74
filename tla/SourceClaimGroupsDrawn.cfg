CONSTANTS
  Texts <- SomeTexts
  Strip <- SomeStrip
  Passes = 2
  MaxDepth = 2
  Sources <- SomeSources
  MaxChecks = 3
SPECIFICATION Spec
INVARIANT GroupsDrawn
CHECK_DEADLOCK FALSE
