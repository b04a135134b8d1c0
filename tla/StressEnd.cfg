SPECIFICATION Spec
CONSTANTS
  CommandLines <- MCCommandLines
  IntMax = 200
  Symbols <- MCSymbols
  Views <- MCViews
  Limit = 2
  MaxWorkers = 2
INVARIANT DereferencesElement
