SPECIFICATION ResponseSpec
CONSTANTS
  Tokens <- MCTokens
  StreamPaths <- MCStreamPaths
  Uris <- MCUris
  Files <- MCFiles
  MaxRegistrations = 3
  MaxParts = 2
INVARIANTS
  RedirectReachesStream ListIsRegistered FilesBelowRoot OnePatternMatches
  ResponseFramed PartsFramed
CHECK_DEADLOCK FALSE
