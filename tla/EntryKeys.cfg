CONSTANTS
  Words <- SomeWords
  Dicts <- SomeDicts
  MaxEntries = 3
SPECIFICATION Spec
INVARIANTS TypeOK ScanExact KeysDiffer
\* A debug build panics on the key of the empty word.
CHECK_DEADLOCK FALSE
