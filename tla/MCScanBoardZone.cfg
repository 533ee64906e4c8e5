SPECIFICATION Spec
CONSTANTS
  s1 = s1
  s2 = s2
  Symbols <- TwoSymbols
  Interval = 2
  MinPause = 1
  MaxAge = 3
  ScanTime = 1
  EntryTime = 1
  MaxEntries = 1
  EarliestEntry = 2
  LatestEntry = 6
  ZoneLead = 5
  DayEnd = 7
  MaxFaults = 1
INVARIANTS
  DeadScannerIgnored
SYMMETRY Symmetry
