CONSTANTS
  w1 = w1
  w2 = w2
  w3 = w3
  Words <- AllWords
  Stale <- OneStale
  Selectable <- MixedSelections
  MaxAsked = 3
  MaxMsgs = 2
SYMMETRY WordSymmetry
SPECIFICATION Spec
INVARIANTS TypeOK LatestAnswered RepaintPending RecentIsCurrent OneTogglePerQuery
PROPERTY ImplementsFeed
\* The process may end, and every input of the bounded instance may be spent.
CHECK_DEADLOCK FALSE
