SPECIFICATION Spec
CONSTANTS
  num_envs = 2
  Iterations = 3
  Starts <- SomeStarts
  MaxSegments = 4
INVARIANTS
  NoSeedReused
  IterationsOnce
  LogTellsCheckpoint
