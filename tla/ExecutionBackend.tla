-------------------------- MODULE ExecutionBackend --------------------------
(***************************************************************************)
(* The device-execution backend a transaction drives: FaultInjectingBackend *)
(* (src/src/fake_device.rs) over FakeExecutionBackend                      *)
(* (execution_transaction/backend.rs).  The operators below are what each  *)
(* trait method does to the backend's state; module ExecutionTransaction   *)
(* says who calls them and when.                                           *)
(*                                                                         *)
(* Two annotations are not in the code and nothing branches on them: the   *)
(* holder of a reservation and the `by' of a write name the transaction    *)
(* that made it.                                                           *)
(***************************************************************************)
EXTENDS TransactionMirror

CONSTANTS
  Txn,          \* transactions
  NoTxn,        \* the holder of an unreserved partition
  FaultPoints   \* the trait calls a device may fail: reserve, run, stage, publish

ASSUME TxnAssumption == NoTxn \notin Txn /\ IsFiniteSet(Txn)

VARIABLES
  holder,         \* reservations: partition -> the transaction holding it
  staged,         \* staged_writes
  stagedBytes,    \* staged_total_bytes
  publishedOnce,  \* published_once
  publishedBytes, \* published_total_bytes
  dispatched,     \* dispatched_events
  completed,      \* completed_events
  committed       \* committed_writes, kept from one transaction to the next

backendVars == <<holder, staged, stagedBytes, publishedOnce, publishedBytes,
                 dispatched, completed, committed>>

executionVars == <<staged, stagedBytes, publishedOnce, publishedBytes,
                   dispatched, completed>>

BackendInit ==
  /\ holder = [p \in Partition |-> NoTxn]
  /\ staged = {} /\ stagedBytes = 0
  /\ publishedOnce = FALSE /\ publishedBytes = 0
  /\ dispatched = {} /\ completed = {}
  /\ committed = {}

By(t, writes) == {[partition |-> w.partition, out |-> w.out, bytes |-> w.bytes,
                   by |-> t] : w \in writes}

----------------------------------------------------------------------------
(* begin_fresh_transaction_if_needed: the first reserve that finds no      *)
(* reservation held starts from an empty inner backend.                    *)
BeginFreshTransactionIfNeeded(reserveCalled) ==
  IF reserveCalled /\ \A p \in Partition : holder[p] = NoTxn
  THEN /\ staged' = {} /\ stagedBytes' = 0
       /\ publishedOnce' = FALSE /\ publishedBytes' = 0
       /\ dispatched' = {} /\ completed' = {}
  ELSE UNCHANGED executionVars

(* reserve for every partition of `granted', on behalf of t. *)
Reserve(t, granted) ==
  holder' = [p \in Partition |-> IF p \in granted THEN t ELSE holder[p]]

(* run_operation: the events are dispatched, and completed at once when    *)
(* the backend is set to auto-complete.                                    *)
RunOperation(op, autoComplete) ==
  /\ dispatched' = dispatched \cup CompletedEvents(op)
  /\ completed' = IF autoComplete THEN completed \cup CompletedEvents(op) ELSE completed

(* stage_write refuses an output that is already staged. *)
StagedTwice(w) == \E s \in staged : s.out = w.out

StageWrites(t, writes) ==
  /\ staged' = staged \cup By(t, writes)
  /\ stagedBytes' = Min({stagedBytes + WriteBytes(writes), MaxU64})    \* saturating_add

(* A publish that merges into what was committed before. *)
PublishMerges ==
  /\ committed' = committed \cup staged
  /\ publishedBytes' = stagedBytes
  /\ publishedOnce' = TRUE

(* publish: the whole staged write-set, once. *)
Publish ==
  /\ committed' = staged
  /\ publishedBytes' = stagedBytes
  /\ publishedOnce' = TRUE

(* A teardown that forgets to retire, and one that forgets the byte total. *)
ReleaseOnly(released, retired) ==
  /\ holder' = [p \in Partition |-> IF p \in released THEN NoTxn ELSE holder[p]]
  /\ UNCHANGED <<staged, stagedBytes>>

RetireKeepsBytes(released, retired) ==
  /\ holder' = [p \in Partition |->
                  IF p \in released \cup retired THEN NoTxn ELSE holder[p]]
  /\ staged' = {w \in staged : w.partition \notin retired}
  /\ UNCHANGED stagedBytes

(* The bytes each retired partition has staged, added up per partition. *)
RetiredBytes(retired) ==
  Total([p \in retired |-> Wrapped(WriteBytes({w \in staged : w.partition = p}))])

(* release and retire drop reservations; retire also drops what is staged  *)
(* and takes its bytes off the total, which stops at zero.                 *)
ReleaseAndRetire(released, retired) ==
  /\ holder' = [p \in Partition |->
                  IF p \in released \cup retired THEN NoTxn ELSE holder[p]]
  /\ staged' = {w \in staged : w.partition \notin retired}
  /\ stagedBytes' = Max({stagedBytes - RetiredBytes(retired), 0})    \* saturating_sub

(* A dispatched event completes on the device (asynchronous join). *)
CompleteEvent(e) ==
  /\ e \in dispatched \ completed
  /\ completed' = completed \cup {e}
  /\ UNCHANGED <<holder, staged, stagedBytes, publishedOnce, publishedBytes,
                 dispatched, committed>>

=============================================================================
