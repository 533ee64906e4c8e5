SPECIFICATION Spec
CONSTANTS
  Symbols <- TwoSymbols
  MaxConcurrent = 1
  MaxTrades = 2
  Lot = 2
  MaxLevel = 3
  MaxOrders = 4
  DateChange = 2
  Faults <- EveryFault
  MaxFaults = 1
INVARIANTS
  TypeOK
  AtMostMaxConcurrent
  DailyQuota
  PartialFillKeepsStop
  StopsAreOwned
PROPERTIES
  StopNeverLoosens
  LedgerSpec
  WholeRoundTrips
  ClosedMeansNotHeld
