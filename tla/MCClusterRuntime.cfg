SPECIFICATION FairSpec
CONSTANTS
  MaxGens = 4
  Budget <- EventBudget
  Auth = 3
  Transport = 1
  Scope = 2
  Kubeconfig = 1
  Select = 2
  Permission = 1
  Tab = 2
  Fault = 2
  Any = 3
INVARIANTS
  ReplacementIsSeamless
  OneGeneration
  ScopeReachesTable
  FeedsAreReclaimable
PROPERTIES
  AuthLossTearsDown
  AuthRecoveryServes
CHECK_DEADLOCK FALSE
