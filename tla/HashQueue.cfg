\* Three files and three workers: every overlap of claims, checks and a poison.
CONSTANTS
  FileCount = 3
  Workers = {w1, w2, w3}
SPECIFICATION FairSpec
INVARIANT OneWorkerPerFile
INVARIANT HashedIsWhole
INVARIANT NoFileForgotten
INVARIANT CountIsExact
PROPERTY StatusSettlesOnce
PROPERTY WorkersLeave
PROPERTY ImplementsFairHashJobs
