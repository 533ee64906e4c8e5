SPECIFICATION Spec
CONSTANTS
  Symbols <- TwoSymbols
  MaxConcurrent = 2
  MaxTrades = 2
  Lot = 2
  MaxLevel = 2
  MaxOrders = 4
  DateChange = 0
  Faults <- ToleratedFaults
  MaxFaults = 1
INVARIANTS
  RestConsistent
  NoPhantomUnlessMissed
  HeldSharesProtected
  RefusedStopKeepsRow
