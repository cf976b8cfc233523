SPECIFICATION RegistrySpec
CONSTANTS
  k1 = k1
  k2 = k2
  f1 = f1
  f2 = f2
  i1 = i1
  i2 = i2
  n1 = n1
  n2 = n2
  n3 = n3
  Keys <- OneKey
  CoreKeys <- NoKeys
  Files <- TwoFiles
  Inodes <- ThreeInodes
  Infos <- TwoInfos
  MainInfos <- MainInfo
  infoKey = k1
  Absent = Absent
  Undeclared = Undeclared
  Unopened = Unopened
  Torn = Torn
  Cache = Cache
  ChangesDuringReads = FALSE
  FileBound = 2
  RunBound = 2
INVARIANTS RegistryTypeOK AnswersAreCurrent CompiledIsSeen XmlInfosFollow XmlTrackedFollow
PROPERTY ImplementsReader
SYMMETRY RegistrySymmetry
CHECK_DEADLOCK FALSE
