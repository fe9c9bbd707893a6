SPECIFICATION Spec
CONSTANTS
  p1 = p1
  p2 = p2
  Process <- TwoProcesses
  Learned <- OnlySlot0
  Baseline <- OnlyBase
  N = 3
  Specs <- Slices
  MaxRuns = 3
  MaxRetrains = 1
  n_eval = 1204
  n_idle = 1204
  idle_lb_min = 45
  regress_tol = 2
  z = 98
  Duels <- FourDuels
  IdleGames <- FourIdle
SYMMETRY Symmetry
CHECK_DEADLOCK FALSE
INVARIANTS
  CriterionSound
  ReportIsOneShot
  ExactSeedCoverage
PROPERTIES
  FinishedSlicesAggregate
