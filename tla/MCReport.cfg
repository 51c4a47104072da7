CONSTANTS
  FileCount = 3
  segments = 2
  threshold = 1
  strategy = "SMALLEST"
  Bits = {b1, b2}
SPECIFICATION MCSpec
INVARIANT GroupsAreConnected
INVARIANT EveryFileReportedOnce
INVARIANT BestComesFirst
PROPERTY ReportEnds
