SPECIFICATION PolicySpec
CONSTANTS
  c1 = c1
  c2 = c2
  m1 = m1
  o1 = o1
  o2 = o2
  p1 = p1
  p2 = p2
  NoDevice = NoDevice
  NoPartition = NoPartition
  Device = {c1, c2, m1}
  Ordinal = {o1, o2}
  Backend <- MCBackend
  Machines <- MCMachines
  VirtualId = {v1}
  Ledgers <- MCLedgers
  Limits = {2}
  MaxBytes = 3
  Selections <- MCSelections
  Logical = {p1, p2}
  PlanRequests <- MCPlanRequests
  Order <- MCOrder
  Capabilities <- MCCapabilities
  Budgets <- MCBudgets
  TotalBudget = 2
  Topologies <- MCTopologies
  Candidates <- MCCandidates
  ObjectiveLists <- MCObjectiveLists
  MaxGeneration = 4
  MaxChanges = 2
  MaxProbes = 3
INVARIANTS
  SelectionIsCurrent
  PlanIsCurrent
  AdmittedWithinLimit
  NoPanic
  PlacedAsDeclared
  RankingSound
CHECK_DEADLOCK FALSE
