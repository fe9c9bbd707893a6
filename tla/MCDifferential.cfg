SPECIFICATION DiffSpec
CONSTANTS
  Scenarios <- MCScenarios
  n = 2
  TableRolls <- MCTableRolls
  ChanceRolls <- MCChanceRolls
  S = 32
  Cuts <- MCCuts
INVARIANTS
  DamageInHistogram
  UnblockedHitsHurt
  AbilitiesShareRolls
  TablesMatchOracle
  CoupledWithinTwo
  ReadsWhatWasWritten
  SelfTestAgrees
  FrontIsGeometric
