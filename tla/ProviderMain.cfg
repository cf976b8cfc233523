SPECIFICATION FairSpec
CONSTANTS
  p1 = p1
  p2 = p2
  k1 = k1
  k2 = k2
  v1 = v1
  NoValue = NoValue
  Providers <- OneProvider
  Keys <- TwoKeys
  TimedValues <- OneValue
  MaxOwed = 2
  ReadyWhenReady = FALSE
  FailureAnswersPending = TRUE
INVARIANTS TypeOK IntentReachesPlugin NoLostWakeup UnfinishedIsOwed
PROPERTIES ImplementsReconciler EventuallyReconciled SubscriptionFinishes
