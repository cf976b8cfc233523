SPECIFICATION HandleSpec
CONSTANTS
  p1 = p1
  p2 = p2
  k1 = k1
  c1 = c1
  c2 = c2
  NoValue = 0
  Unset = Unset
  Keys <- OneKey
  key = k1
  Commander = Unset
  Providers <- TwoProviders
  TimedValues <- TwoValues
  IllTyped <- OldestValue
  Properties <- OneProperty
  MainProperties <- NoProperty
  RegistrySets <- ListedBoth
  CommandingEnabled = FALSE
  RegistryChanges = FALSE
  MaxOwed = 1
  ReadyWhenReady = TRUE
  FailureAnswersPending = TRUE
SYMMETRY ProviderSymmetry
INVARIANT ShowsLatest
