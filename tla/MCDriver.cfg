\* Two files, two threads, and SIGINT at any moment and any number of times.
CONSTANTS
  FileCount = 2
  ThreadCount = 2
  Signals = {2}
  NDEBUG = TRUE
SPECIFICATION FairSpec
INVARIANT ThreadsAreJoined
INVARIANT SignalStopsThePool
INVARIANT ReportIsOfFinishedWork
INVARIANT FinishedWorkIsSaved
INVARIANT ExitStatusIsTruthful
INVARIANT BarIsHonest
PROPERTY ProcessEnds
PROPERTY ImplementsHashQueue
