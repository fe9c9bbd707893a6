SPECIFICATION Spec
CONSTANTS
  num_envs = 2
  horizon = 2
  gamma = 3
  gae_lambda = 2
  shape = 1
  win = 5
  n_mixed = 1
  FullHp = 3
  Blows <- SomeBlows
  MaxTicks = 3
  MaxSteps = 5
  U = 8
CHECK_DEADLOCK FALSE
INVARIANTS
  ActsOnPresent
  ShapingTelescopes
  AdvantagesStayInMatch
  SeedsAreOwn
  SampledIsLegal
