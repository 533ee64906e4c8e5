SPECIFICATION Spec
CONSTANTS
  n1 = n1
  n2 = n2
  t1 = t1
  t2 = t2
  Names <- TwoNames
  Threads <- TwoThreads
  MaxId = 3
  Engines = {2}
  MaxBusy = 2
INVARIANTS
  TypeOK
  NamesUnique
  SettingsFollowUsers
  EngineKeepsItsUser
  PauseIsPrompt
PROPERTIES
  DemotionIsPrompt
  LastAdminLost
SYMMETRY Symmetry
