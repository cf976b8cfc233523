SPECIFICATION HandleSpec
CONSTANTS
  p1 = p1
  p2 = p2
  k1 = k1
  c1 = c1
  c2 = c2
  NoValue = 0
  Unset = Unset
  Keys <- OneKey
  key = k1
  Commander = p2
  Providers <- TwoProviders
  TimedValues <- NoValues
  IllTyped <- NoValues
  Properties <- TwoProperties
  MainProperties <- TwoProperties
  RegistrySets <- ListedAny
  CommandingEnabled = TRUE
  RegistryChanges = TRUE
  MaxOwed = 1
  ReadyWhenReady = TRUE
  FailureAnswersPending = TRUE
SYMMETRY PropertySymmetry
INVARIANTS HandleTypeOK HandleIntent PendingIsUnfinished
PROPERTY KeepsProviderContract
