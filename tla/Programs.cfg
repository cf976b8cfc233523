SPECIFICATION ProgramsSpec
CONSTANTS
  p1 = p1
  p2 = p2
  v1 = v1
  v2 = v2
  k1 = k1
  k2 = k2
  k3 = k3
  h1 = h1
  h2 = h2
  NoValue = NoValue
  Silence = Silence
  NoType = NoType
  IllTyped = IllTyped
  Refused = Refused
  Null = Null
  Values <- TwoValues
  Providers <- TwoProviders
  MaxTime = 4
  ApiKeys <- TwoKeys
  Handles <- TwoHandles
  MaxListeners = 2
  ProvideKeys <- OneKey
  Types <- NamesOfTypes
  NewTypes <- NewNames
  LegacyTypes <- OldTypeNames
  RegistryBound = 2
  AskedTypes <- SomeTypes
  AskedValues <- SomeValues
INVARIANTS
  ProgramsTypeOK
  BookkeepingFollows ClientIsInformed
  CallbacksToldTruth FirstAnswerIsFresh HeapIsOwned
  DemandFollows ProxiedFollow
  ChecksAsDocumented DumpedTypeIsRead
PROPERTIES TimesAdvance OverridesHold
SYMMETRY Symmetry
CHECK_DEADLOCK FALSE
