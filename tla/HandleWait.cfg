SPECIFICATION HandleFairSpec
CONSTANTS
  p1 = p1
  p2 = p2
  k1 = k1
  c1 = c1
  c2 = c2
  NoValue = 0
  Unset = Unset
  Keys <- OneKey
  key = k1
  Commander = p2
  Providers <- TwoProviders
  TimedValues <- NoValues
  IllTyped <- NoValues
  Properties <- OneProperty
  MainProperties <- OneProperty
  RegistrySets <- ListedFirst
  CommandingEnabled = TRUE
  RegistryChanges = FALSE
  MaxOwed = 1
  ReadyWhenReady = TRUE
  FailureAnswersPending = TRUE
PROPERTY WaitEnds
