SPECIFICATION Spec
CONSTANTS
  N = 4
  Chunks <- SomeChunks
  Fates <- SomeFates
  Astray <- Lost
INVARIANTS
  WidthHasNoEffect
