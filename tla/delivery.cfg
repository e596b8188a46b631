SPECIFICATION Spec
CONSTANTS
  Sources <- MCSources
  Horizon <- MCHorizon
  Budgets <- MCBudgets
  None = None
INVARIANTS
  CoreServesOneCohort
  SuccessMeansCoherent
  RecoveryHonest
  OneMutationAfterLoss
PROPERTIES
  PairDeletedAsIntended
  HandoffActivatesProven
CHECK_DEADLOCK FALSE
