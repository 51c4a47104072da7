CONSTANTS
  FileCount = 1
  Runs = {r1}
  Segments = {2, 3}
  MaxVersion = 0
  MaxStarts = 2
SPECIFICATION Spec
INVARIANT HitHasItsSegments
CHECK_DEADLOCK FALSE
