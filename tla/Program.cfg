SPECIFICATION FairSpec
CONSTANTS
  CommandLines <- MCCommandLines
  IntMax = 200
  Symbols <- MCSymbols
  Views <- MCViews
  Limit = 2
  MaxWorkers = 2
INVARIANTS TypeOK ScanPrintsReadable CloneNotOlder ReportsWhole
PROPERTIES FrozenWhileThreadsRun KeepsReading
