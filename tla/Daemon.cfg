CONSTANTS
  a = a
  b = b
  c = c
  nl = nl
  r1 = r1
  r2 = r2
  r3 = r3
  NotUtf8 = NotUtf8
  Letters <- ThreeLetters
  Newline = nl
  Script <- Lines
  Chunk = 2
  Requests <- ThreeRequests
  RouteOf <- Routes
  QueryOf <- Queries
  Undecodable = NotUtf8
  Stale <- StaleTexts
  Crashing <- CrashTexts
  Prompt = Prompt
  Free = Free
SPECIFICATION FairSpec
INVARIANTS TypeOK TerminalLosesNothing AnswersRunToLineEnd FailsForItself
PROPERTIES RequestsEnd TerminalLinesEnd
CHECK_DEADLOCK FALSE
