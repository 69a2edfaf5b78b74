CONSTANTS
  a = a
  b = b
  d = d
  p1 = p1
  p2 = p2
  NoName = NoName
  NoProc = NoProc
  Words <- TwoWords
  Dicts <- OneDict
  Files <- AllFiles
  NameOf <- Names
  DefsIn <- Defs
  Unreadable <- Bad
  Globs <- ThreeGlobs
  Procs <- TwoProcs
  MaxRuns = 4
SYMMETRY ProcSymmetry
SPECIFICATION Spec
INVARIANTS TypeOK SearchSafe MappingIntact ImportStays
PROPERTIES ImportConverges ImplementsDurable
CHECK_DEADLOCK FALSE
