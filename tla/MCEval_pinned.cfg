SPECIFICATION Spec
CONSTANTS
  p1 = p1
  p2 = p2
  Process <- TwoProcesses
  Learned <- OnlySlot0
  Baseline <- OnlyBase
  N = 3
  Specs <- Slices
  MaxRuns = 3
  MaxRetrains = 1
  n_eval = 10000
  n_idle = 2000
  idle_lb_min = 45
  regress_tol = 1
  z = 98
  Duels <- ReportedDuels
  IdleGames <- ReportedIdle
SYMMETRY Symmetry
CHECK_DEADLOCK FALSE
INVARIANTS
  BarsAreFeasible
