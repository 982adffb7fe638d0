SPECIFICATION FairSpec
CONSTANTS
  c1 = c1
  c2 = c2
  c3 = c3
  c4 = c4
  s1 = s1
  s2 = s2
  Free = Free
  None = None
  First = s1
  Consumer = {c1, c2, c3, c4}
  Roles <- MCRoles
  Sender = {s1, s2}
  Quitters = {s2}
  Starts = {"spawn"}
  Kinds <- MCKinds
  Types <- MCTypes
  Payloads <- MCPayloads
  MaxContent = 1
  MaxCalls <- MCCalls
INVARIANTS
  DrainedIsFinal
  SuccessIsComplete
  PendingIsRegistered
PROPERTIES
  ReceiveReturns
CHECK_DEADLOCK FALSE
