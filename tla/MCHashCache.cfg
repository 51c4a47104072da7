\* Three runs, up to two of them at the same time, and one file that may change once.
CONSTANTS
  FileCount = 1
  Runs = {r1, r2}
  Segments = {2, 3}
  MaxVersion = 1
  MaxStarts = 3
SYMMETRY RunSymmetry
SPECIFICATION Spec
INVARIANT HitIsCurrent
INVARIANT HitIsOfOneSave
INVARIANT HitIsWhole
PROPERTY MissesAreJustified
CHECK_DEADLOCK FALSE
