SPECIFICATION Spec
CONSTANTS
  Txn = {t1, t2}
  NoTxn = NoTxn
  Partition <- MCPartition
  Ledger <- MCLedger
  EventBytes = 1
  ScratchBytes = 1
  MaxU64 = 15
  Plans <- MCOverlapPlans
  FaultPoints = {}
  MaxDispatch = 4
  MaxOrdinal = 2
INVARIANTS
  NewHoldsNothing
CHECK_DEADLOCK FALSE
