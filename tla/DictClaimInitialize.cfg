CONSTANTS
  a = a
  b = b
  d = d
  p1 = p1
  p2 = p2
  NoName = NoName
  NoProc = NoProc
  Words <- TwoWords
  Dicts <- OneDict
  Files <- AllFiles
  NameOf <- Names
  DefsIn <- Defs
  Unreadable <- Bad
  Globs <- ThreeGlobs
  Procs <- TwoProcs
  MaxRuns = 2
SPECIFICATION Spec
PROPERTY BuildInitializes
CHECK_DEADLOCK FALSE
