SPECIFICATION ProgramsSpec
CONSTANTS
  p1 = p1
  p2 = p2
  v1 = v1
  v2 = v2
  k1 = k1
  k2 = k2
  k3 = k3
  h1 = h1
  h2 = h2
  NoValue = NoValue
  Silence = Silence
  NoType = NoType
  IllTyped = IllTyped
  Refused = Refused
  Null = Null
  Values <- TwoValues
  Providers <- TwoProviders
  MaxTime = 0
  ApiKeys <- TwoKeys
  Handles <- NoHandles
  MaxListeners = 0
  ProvideKeys <- OneKey
  Types <- NamesOfTypes
  NewTypes <- NewNames
  LegacyTypes <- OldTypeNames
  RegistryBound = 2
  AskedTypes <- SomeTypes
  AskedValues <- SomeValues
INVARIANTS AllProxiedFollow
CHECK_DEADLOCK FALSE
