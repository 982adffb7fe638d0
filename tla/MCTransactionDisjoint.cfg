SPECIFICATION Spec
CONSTANTS
  Txn = {t1, t2}
  NoTxn = NoTxn
  Partition <- MCPartition
  Ledger <- MCLedger
  EventBytes = 1
  ScratchBytes = 1
  MaxU64 = 15
  Plans <- MCDisjointPlans
  FaultPoints = {}
  MaxDispatch = 1
  MaxOrdinal = 2
INVARIANTS
  OnlyCommittedPublished
CHECK_DEADLOCK FALSE
