-------------------------- MODULE TransactionMirror --------------------------
(***************************************************************************)
(* The accepted plan of an execution transaction, as the runtime mirrors   *)
(* it (src/src/execution_transaction/mirror.rs), and what `prepare`        *)
(* derives from it (reservation.rs).  An operation is a record; which of   *)
(* its fields mean something depends on its kind, as in the Rust enum.     *)
(* Partitions are numbered: the code keeps them in BTreeMaps and BTreeSets *)
(* and visits them in ascending order.                                     *)
(***************************************************************************)
EXTENDS Integers, Sequences, FiniteSets, FiniteSetsExt

CONSTANTS
  Partition,      \* logical partitions, a finite set of naturals
  Ledger,         \* the admitted ledger behind each partition's binding
  EventBytes,     \* EVENT_OBJECT_BYTES
  ScratchBytes,   \* TRANSACTION_SCRATCH_BYTES_PER_PARTITION
  MaxU64          \* the largest byte count

ASSUME PartitionAssumption == Partition \subseteq Nat /\ IsFiniteSet(Partition)

ASSUME LedgerAssumption ==
  Ledger \in [Partition -> [admitted : BOOLEAN, staging : 0..MaxU64, scratch : 0..MaxU64]]

ASSUME BytesAssumption ==
  MaxU64 \in Nat /\ EventBytes \in 0..MaxU64 /\ ScratchBytes \in 0..MaxU64

----------------------------------------------------------------------------
(* The four operations of a plan. *)

Launch(id, p, bytes) ==
  [kind |-> "launch", id |-> id, source |-> p, parts |-> {p}, bytes |-> bytes]

Transfer(id, from, to, bytes) ==
  [kind |-> "transfer", id |-> id, source |-> from, parts |-> {to}, bytes |-> bytes]

Broadcast(id, from, participants, bytes) ==
  [kind |-> "broadcast", id |-> id, source |-> from, parts |-> participants,
   bytes |-> bytes]

Barrier(id, partitions) ==
  [kind |-> "barrier", id |-> id, source |-> 0, parts |-> partitions, bytes |-> 0]

OperationRef(op) == <<op.kind, op.id>>

(* The partitions an operation involves. *)
Partitions(op) ==
  IF op.kind = "transfer" THEN op.parts \cup {op.source} ELSE op.parts

(* One completion event per involved partition. *)
CompletedEvents(op) == {<<op.kind, op.id, p>> : p \in Partitions(op)}

(* The partitions an operation writes an output on: none for a barrier,    *)
(* all participants but the source for a broadcast.                        *)
WrittenPartitions(op) ==
  {p \in op.parts : op.kind # "barrier" /\ (op.kind = "broadcast" => p # op.source)}

(* Launches and transfers have one output, a broadcast one per receiver. *)
OutputRef(op, p) ==
  IF op.kind = "broadcast" THEN <<op.kind, op.id, p>> ELSE <<op.kind, op.id>>

StagedWrites(op) ==
  {[partition |-> p, out |-> OutputRef(op, p), bytes |-> op.bytes] :
     p \in WrittenPartitions(op)}

----------------------------------------------------------------------------
(* A plan: its operations in order, the declared partitions of the bound   *)
(* plan and the commit boundary.                                           *)

Operations(plan) == {plan.ops[i] : i \in DOMAIN plan.ops}

Referenced(plan) == UNION {Partitions(op) : op \in Operations(plan)}

DeclaredWriteSet(plan) == UNION {StagedWrites(op) : op \in Operations(plan)}

(* The sum of f over its domain, as the size of a disjoint union: one pair *)
(* for each unit of each value.                                            *)
Units(f) == UNION {{x} \X (1..f[x]) : x \in DOMAIN f}
Total(f) == Cardinality(Units(f))

WriteBytes(writes) == Total([w \in writes |-> w.bytes])

(* What a chain of plain u64 additions leaves of a sum.  (A build with     *)
(* overflow checks stops with a panic where this wraps.)                   *)
Wrapped(sum) == sum % (MaxU64 + 1)

(* The events the commit boundary waits for. *)
BoundaryEvents(plan) ==
  UNION {CompletedEvents(op) : op \in
    {o \in Operations(plan) : \/ o.kind = "barrier" /\ o.id \in plan.barriers
                              \/ o.kind = "launch" /\ o.id \in plan.launches}}

SnapshotEvents(plan) == UNION {CompletedEvents(op) : op \in Operations(plan)}

(* derive_reservation: full staging at both ends of a transfer and at      *)
(* every participant of a broadcast, outputs where they are written, one   *)
(* event object per operation and partition, and the scratch.              *)
StagingOf(op, p) ==
  CASE op.kind = "transfer"  -> (IF p = op.source THEN op.bytes ELSE 0)
                                 + (IF p \in op.parts THEN op.bytes ELSE 0)
    [] op.kind = "broadcast" -> IF p \in op.parts THEN op.bytes ELSE 0
    [] OTHER                 -> 0

OutputOf(op, p) == IF p \in WrittenPartitions(op) THEN op.bytes ELSE 0

EventsOf(op, p) == IF p \in Partitions(op) THEN EventBytes ELSE 0

ClassSixBytes(plan, p) ==
  Wrapped(Total([i \in DOMAIN plan.ops |-> StagingOf(plan.ops[i], p)]))

OutputBytes(plan, p) ==
  Total([i \in DOMAIN plan.ops |-> OutputOf(plan.ops[i], p)])

(* The outputs, the scratch and the events; and what u64 keeps of them. *)
ClassThreeSum(plan, p) ==
  OutputBytes(plan, p) + ScratchBytes
    + Total([i \in DOMAIN plan.ops |-> EventsOf(plan.ops[i], p)])

ClassThreeBytes(plan, p) == Wrapped(ClassThreeSum(plan, p))

(* The five validations of prepare. *)
TopologyDeclared(plan) == Referenced(plan) \subseteq plan.declared

NoDuplicateOperation(plan) ==
  \A i, j \in DOMAIN plan.ops :
    OperationRef(plan.ops[i]) = OperationRef(plan.ops[j]) => i = j

BoundaryDeclared(plan) ==
  /\ \A b \in plan.barriers : \E op \in Operations(plan) : OperationRef(op) = <<"barrier", b>>
  /\ \A l \in plan.launches : \E op \in Operations(plan) : OperationRef(op) = <<"launch", l>>

BudgetsAdmitted(plan) == \A p \in Referenced(plan) : Ledger[p].admitted

ReservationFits(plan) ==
  \A p \in Referenced(plan) : /\ ClassSixBytes(plan, p) <= Ledger[p].staging
                              /\ ClassThreeBytes(plan, p) <= Ledger[p].scratch

PlanAccepted(plan) ==
  /\ TopologyDeclared(plan)
  /\ NoDuplicateOperation(plan)
  /\ BoundaryDeclared(plan)
  /\ BudgetsAdmitted(plan)
  /\ ReservationFits(plan)

=============================================================================
