SPECIFICATION WholeFairSpec
CONSTANTS
  p1 = p1
  k1 = k1
  k2 = k2
  NoValue = NoValue
  NoKey = NoKey
  provider = p1
  Providers <- OneProvider
  Keys <- TwoKeys
  TimedValues <- NoValues
  MaxOwed = 8
  ReadyWhenReady = TRUE
  FailureAnswersPending = TRUE
  MaxStarts = 1
  MaxRequests = 2
  ServiceFirst = TRUE
  MainThreadOnly = FALSE
INVARIANTS PluginTypeOK WatchersAwaitReplies WantedAreSubscribed
PROPERTY SubscriptionFinishes
CHECK_DEADLOCK FALSE
