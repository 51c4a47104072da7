SPECIFICATION MCSpec
CONSTANTS
  Tokens <- MCTokens
  MaxArguments = 3
  Numbers <- MCNumbers
  CoreCounts <- MCCoreCounts
  Videos <- MCVideos
  Second = 4
  Alignment = 2
  MaxFaults = 2
  NDEBUG = TRUE
INVARIANT ReaderHasItsStream
