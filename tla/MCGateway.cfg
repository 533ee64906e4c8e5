SPECIFICATION Spec
CONSTANTS
  admin = admin
  u2 = u2
  t1 = t1
  t2 = t2
  Users <- TwoUsers
  Admin = admin
  Threads <- TwoThreads
  MaxPort = 3
  CarefulAdmin = TRUE
INVARIANTS
  TypeOK
  OwnAccount
  OwnPort
PROPERTIES
  PortPermanent
  RegistrySpec
SYMMETRY Symmetry
