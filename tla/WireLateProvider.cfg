SPECIFICATION WholeSpec
CONSTANTS
  p1 = p1
  k1 = k1
  k2 = k2
  NoValue = NoValue
  NoKey = NoKey
  provider = p1
  Providers <- OneProvider
  Keys <- OneKey
  TimedValues <- NoValues
  MaxOwed = 8
  ReadyWhenReady = TRUE
  FailureAnswersPending = TRUE
  MaxStarts = 1
  MaxRequests = 1
  ServiceFirst = FALSE
  MainThreadOnly = TRUE
INVARIANT WantedAreSubscribed
CHECK_DEADLOCK FALSE
