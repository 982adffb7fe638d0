SPECIFICATION FairSpec
CONSTANTS
  c1 = c1
  c2 = c2
  c3 = c3
  c4 = c4
  s1 = s1
  s2 = s2
  Free = Free
  None = None
  First = s1
  Consumer = {c3, c4}
  Roles <- RefusableRoles
  Sender = {s1, s2}
  Quitters = {s1, s2}
  Starts = {"spawn", "refuse"}
  Kinds <- MCKinds
  Types <- MCTypes
  Payloads <- MCPayloads
  MaxContent = 1
  MaxCalls <- MCCalls
INVARIANTS
  TerminalIsLast
  SendersSound
PROPERTIES
  OpenConversationEnds
CHECK_DEADLOCK FALSE
