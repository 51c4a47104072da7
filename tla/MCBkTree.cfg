CONSTANTS
  Bits = {b1, b2, b3}
  FileIds = {f1, f2}
  MaxEntries = 4
SYMMETRY TreeSymmetry
SPECIFICATION Spec
INVARIANT NothingPruned
PROPERTY ImplementsHashIndex
