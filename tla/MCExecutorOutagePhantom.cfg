SPECIFICATION Spec
CONSTANTS
  Symbols <- OneSymbol
  MaxConcurrent = 1
  MaxTrades = 2
  Lot = 1
  MaxLevel = 2
  MaxOrders = 4
  DateChange = 0
  Faults <- MissedHours
  MaxFaults = 1
INVARIANTS
  NoPhantomAfterStopOuts
