SPECIFICATION Spec
CONSTANTS
  MinStopPct = 2500
  RMultiplier = 14000
  HardStopR = 25000
  TriggerR = 12000
  Portfolio = 1200
  MaxRiskPct = 500
  MaxPositionPct = 1000
  Prices <- FewPrices
  EntrySlots <- Window
  CloseSlot = 5
INVARIANTS
  TypeOK
  RetestNeedsFinishedBreak
  LossBounded
  TrailingEarned
  UnmanagedSoldAtOnce
PROPERTIES
  RaisedStopHadRoom
  DayLedgerSpec
