CONSTANTS
  Slash <- MCSlash
  VideoNames <- MCVideoNames
  Nodes <- MCNodes
  FileSystems <- MCFileSystems
  Inputs <- MCInputs
  MaxInputs = 3
SPECIFICATION Spec
INVARIANT NothingIsLost
PROPERTY ScanEnds
