SPECIFICATION Spec
CONSTANTS
  a = a
  b = b
  Partition = {a, b}
  Specs <- MCSpecs
  Sources <- MCSources
  Budget <- MCBudget
  InitialRates <- MCRates
  SmallCopy = 1
  SmallLatency = 1
  LargeLatency = 2
  Second = 2
  Measurements <- MCMeasurements
  MaxU64 = 15
  MaxCopies = 4
  MaxMeasurements = 2
INVARIANTS
  BudgetHolds
  ReceiptAddsUp
  LandedAsDeclared
CHECK_DEADLOCK FALSE
