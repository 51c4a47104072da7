CONSTANTS
  ItemCount = 5
SPECIFICATION Spec
INVARIANT RanksClimb
PROPERTY ImplementsPartition
