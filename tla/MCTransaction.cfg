SPECIFICATION FairSpec
CONSTANTS
  Txn = {t1, t2}
  NoTxn = NoTxn
  Partition <- MCPartition
  Ledger <- MCLedger
  EventBytes = 1
  ScratchBytes = 1
  MaxU64 = 15
  Plans <- MCPlans
  FaultPoints = {"reserve", "run", "stage", "publish"}
  MaxDispatch = 4
  MaxOrdinal = 2
INVARIANTS
  ReservationsExclude
  TeardownComplete
  StagingAccounted
  CommittedRanItsPlan
PROPERTIES
  ImplementsAtomicPublication
  ExecutingEnds
CHECK_DEADLOCK FALSE
