SPECIFICATION FairSpec
CONSTANTS
  Symbols <- OneSymbol
  MaxConcurrent = 1
  MaxTrades = 1
  Lot = 2
  MaxLevel = 2
  MaxOrders = 5
  DateChange = 0
  Faults <- EveryFault
  MaxFaults = 1
PROPERTIES
  ForceCloseFlattens
  StopOutsNoticed
