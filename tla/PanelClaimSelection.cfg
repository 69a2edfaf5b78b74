CONSTANTS
  w1 = w1
  w2 = w2
  w3 = w3
  Words <- TwoWords
  Stale <- NoneStale
  Selectable <- TwoWords
  MaxAsked = 1
  MaxMsgs = 1
SPECIFICATION FairSpec
PROPERTY SelectionIsSearched
CHECK_DEADLOCK FALSE
