CONSTANTS
  w1 = w1
  w2 = w2
  w3 = w3
  Words <- AllWords
  Stale <- OneStale
  Selectable <- EachSelection
  MaxAsked = 2
  MaxMsgs = 1
SPECIFICATION FairSpec
PROPERTIES EveryTextDisposed ResultsReachPanel SelectionsRead
CHECK_DEADLOCK FALSE
