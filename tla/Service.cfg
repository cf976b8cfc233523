SPECIFICATION Spec
CONSTANTS
  k1 = k1
  k2 = k2
  c1 = c1
  c2 = c2
  Keys <- TwoKeys
  Clients <- TwoClients
  MaxServices = 2
  MaxWire = 1
  RegistrationMayFail = TRUE
SYMMETRY ServiceSymmetry
INVARIANTS ServiceTypeOK SubscribedWhileClients GroupCounts SubscribersAreKnown
PROPERTY DeadAreForgotten
