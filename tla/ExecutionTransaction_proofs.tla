--------------------- MODULE ExecutionTransaction_proofs ---------------------
(***************************************************************************)
(* Proofs about ExecutionTransaction, for any number of transactions and   *)
(* partitions, any plans and any faults.                                   *)
(***************************************************************************)
EXTENDS ExecutionTransaction, FiniteSetTheorems, TLAPS

(* What a transaction stages lies on partitions it reserved, and one that  *)
(* has not been prepared reserved and staged nothing.                      *)
StagedOnReserved ==
  \A t \in Txn : /\ \A w \in stagedSet[t] : w.partition \in reserved[t]
                 /\ state[t] \in {"Unborn", "New"} => reserved[t] = {}

(* In flight, the recorded reservation is what the plan refers to, and     *)
(* execute's loop stands at an operation of the plan.                      *)
ReservationRecorded ==
  \A t \in Txn : /\ state[t] \in InFlight => reserved[t] = Referenced(plan[t])
                 /\ next[t] # 0 => state[t] = "Executing" /\ next[t] \in DOMAIN plan[t].ops
                 /\ state[t] \in {"New", "Prepared"} => plan[t].ops # <<>>

(* A partition is held for a transaction that recorded it, or for one that *)
(* recorded nothing because its prepare was refused midway.                *)
HeldIsAccounted ==
  \A t \in Txn : \A p \in Partition : holder[p] = t =>
    \/ state[t] \in InFlight /\ p \in reserved[t]
    \/ reserved[t] = {} /\ state[t] = "Aborted"
    \/ reserved[t] = {} /\ state[t] = "New" /\ p \in Referenced(plan[t])

(* A failure is only recorded on the way to Failed or Aborted. *)
FailureIsFinal ==
  \A t \in Txn : failure[t] # "none" => state[t] \in {"Failed", "Aborted"}

IInv ==
  /\ TypeOK
  /\ ReservationsExclude
  /\ StagedOnReserved
  /\ ReservationRecorded
  /\ HeldIsAccounted
  /\ FailureIsFinal
----------------------------------------------------------------------------
(* An operation writes only on partitions it involves (staged_writes and   *)
(* partitions of TransactionOperation).                                    *)
LEMMA WrittenWithinPartitions ==
  ASSUME NEW op
  PROVE  WrittenPartitions(op) \subseteq Partitions(op)
  BY DEF WrittenPartitions, Partitions

(* The writes an operation of a plan declares are on partitions the plan   *)
(* refers to, which are the ones prepare reserves.                         *)
LEMMA StagedWithinReferenced ==
  ASSUME NEW p, NEW op \in Operations(p), NEW w \in StagedWrites(op)
  PROVE  w.partition \in Referenced(p)
<1>1. PICK q \in WrittenPartitions(op) : w.partition = q
  BY DEF StagedWrites
<1>2. w.partition \in Partitions(op)
  BY <1>1, WrittenWithinPartitions
<1>3. QED
  BY <1>2 DEF Referenced

(* Every accepted plan, and the placeholder before `new', is a list of     *)
(* operations over the partitions.                                         *)
LEMMA PlanShape ==
  ASSUME TypeOK, NEW t \in Txn
  PROVE  /\ plan[t].ops \in Seq(Operations(plan[t]))
         /\ Referenced(plan[t]) \subseteq Partition
<1>1. plan[t] \in Plans \cup {NoPlan}
  BY DEF TypeOK
<1>2. CASE plan[t] \in Plans
  BY <1>2, PlansAssumption
<1>3. CASE plan[t] = NoPlan
  <2>1. plan[t].ops = <<>>
    BY <1>3 DEF NoPlan
  <2>2. Operations(plan[t]) = {}
    BY <2>1 DEF Operations
  <2>3. Referenced(plan[t]) = {}
    BY <2>2 DEF Referenced
  <2>4. QED
    BY <2>1, <2>3
<1>4. QED
  BY <1>1, <1>2, <1>3

(* The invariant holds initially. *)
LEMMA InitIInv == Init => IInv
<1> SUFFICES ASSUME Init PROVE IInv
  OBVIOUS
<1> USE DEF Init, BackendInit
<1>1. TypeOK
  BY TxnAssumption DEF TypeOK, States, Failures
<1>2. ReservationsExclude /\ StagedOnReserved
  BY DEF ReservationsExclude, StagedOnReserved, InFlight
<1>3. ReservationRecorded /\ FailureIsFinal
  BY DEF ReservationRecorded, FailureIsFinal, InFlight
<1>4. HeldIsAccounted
  BY TxnAssumption DEF HeldIsAccounted
<1>5. QED
  BY <1>1, <1>2, <1>3, <1>4 DEF IInv

(* The steps that only touch one transaction's own record keep the rest    *)
(* of the invariant: what is reserved and held does not change.            *)
LEMMA NewKeepsIInv ==
  ASSUME IInv, NEW t \in Txn, New(t)
  PROVE  IInv'
<1> USE DEF IInv, New, backendVars
<1>1. PICK p \in Plans : p.ops # <<>> /\ plan' = [plan EXCEPT ![t] = p]
  OBVIOUS
<1>2. TypeOK'
  BY <1>1 DEF TypeOK, States
<1>3. ReservationsExclude' /\ StagedOnReserved'
  BY DEF TypeOK, ReservationsExclude, StagedOnReserved, InFlight
<1>4. ReservationRecorded'
  BY <1>1 DEF TypeOK, ReservationRecorded, InFlight
<1>5. HeldIsAccounted'
  BY <1>1 DEF TypeOK, HeldIsAccounted, StagedOnReserved, InFlight
<1>6. FailureIsFinal'
  BY DEF TypeOK, FailureIsFinal
<1>7. QED
  BY <1>2, <1>3, <1>4, <1>5, <1>6

(* prepare: the reservation is recorded only when no partition was         *)
(* refused, so none of them was held before.                               *)
LEMMA PrepareKeepsIInv ==
  ASSUME IInv, NEW t \in Txn, Prepare(t)
  PROVE  IInv'
<1> USE DEF IInv
<1>1. PICK injected \in SUBSET Referenced(plan[t]) :
        /\ BeginFreshTransactionIfNeeded(Referenced(plan[t]) # {})
        /\ IF Refused(t, injected) = {}
           THEN /\ Reserve(t, Referenced(plan[t]))
                /\ reserved' = [reserved EXCEPT ![t] = Referenced(plan[t])]
                /\ state' = [state EXCEPT ![t] = "Prepared"]
           ELSE /\ Reserve(t, {p \in Referenced(plan[t]) :
                                 \A q \in Refused(t, injected) : p < q})
                /\ UNCHANGED <<reserved, state>>
  BY DEF Prepare
<1>2. /\ state[t] = "New"
      /\ UNCHANGED <<committed, plan, next, stagedSet, executed, events, failure,
                     receipt, ordinal>>
  BY DEF Prepare
<1>3. Referenced(plan[t]) \subseteq Partition
  BY PlanShape
<1>4. completed' \subseteq dispatched' /\ publishedOnce' \in BOOLEAN
  BY <1>1 DEF BeginFreshTransactionIfNeeded, executionVars, TypeOK
<1>5. stagedSet[t] = {} /\ reserved[t] = {} /\ next[t] = 0
  BY <1>2 DEF StagedOnReserved, ReservationRecorded
<1>6. CASE Refused(t, injected) = {}
  <2>1. /\ holder' = [p \in Partition |-> IF p \in Referenced(plan[t]) THEN t ELSE holder[p]]
        /\ reserved' = [reserved EXCEPT ![t] = Referenced(plan[t])]
        /\ state' = [state EXCEPT ![t] = "Prepared"]
    BY <1>1, <1>6 DEF Reserve
  <2>2. \A p \in Referenced(plan[t]) : holder[p] = NoTxn
    BY <1>6 DEF Refused
  <2>3. TypeOK'
    BY <1>2, <1>3, <1>4, <2>1 DEF TypeOK, States
  <2>4. ReservationsExclude'
    BY <1>2, <1>3, <2>1, <2>2, TxnAssumption DEF TypeOK, ReservationsExclude, InFlight
  <2>5. StagedOnReserved'
    BY <1>2, <1>5, <2>1 DEF TypeOK, StagedOnReserved
  <2>6. ReservationRecorded'
    BY <1>2, <1>5, <2>1 DEF TypeOK, ReservationRecorded, InFlight
  <2>7. HeldIsAccounted'
    BY <1>2, <1>3, <1>5, <2>1, <2>2, TxnAssumption DEF TypeOK, HeldIsAccounted, InFlight
  <2>8. FailureIsFinal'
    BY <1>2, <2>1 DEF TypeOK, FailureIsFinal
  <2>9. QED
    BY <2>3, <2>4, <2>5, <2>6, <2>7, <2>8
<1>7. CASE Refused(t, injected) # {}
  <2> DEFINE granted == {p \in Referenced(plan[t]) : \A q \in Refused(t, injected) : p < q}
  <2>1. /\ holder' = [p \in Partition |-> IF p \in granted THEN t ELSE holder[p]]
        /\ UNCHANGED <<reserved, state>>
    BY <1>1, <1>7 DEF Reserve
  <2>2. \A p \in granted : p \in Referenced(plan[t]) /\ holder[p] = NoTxn
    <3> SUFFICES ASSUME NEW p \in granted, holder[p] # NoTxn PROVE FALSE
      OBVIOUS
    <3>1. p \in Refused(t, injected)
      BY DEF Refused
    <3>2. p < p /\ p \in Nat
      BY <3>1, <1>3, PartitionAssumption
    <3>3. QED
      BY <3>2
  <2> HIDE DEF granted
  <2>3. TypeOK'
    BY <1>2, <1>4, <2>1 DEF TypeOK
  <2>4. ReservationsExclude'
    BY <1>2, <2>1, <2>2, TxnAssumption DEF TypeOK, ReservationsExclude, InFlight
  <2>5. StagedOnReserved' /\ FailureIsFinal'
    BY <1>2, <2>1 DEF StagedOnReserved, FailureIsFinal
  <2>6. ReservationRecorded'
    BY <1>2, <2>1 DEF ReservationRecorded
  <2>7. HeldIsAccounted'
    BY <1>2, <1>5, <2>1, <2>2, TxnAssumption DEF TypeOK, HeldIsAccounted, InFlight
  <2>8. QED
    BY <2>3, <2>4, <2>5, <2>6, <2>7
<1>8. QED
  BY <1>6, <1>7

(* execute takes the backend at the first operation of a plan that has one. *)
LEMMA ExecuteKeepsIInv ==
  ASSUME IInv, NEW t \in Txn, Execute(t)
  PROVE  IInv'
<1> USE DEF IInv, Execute, backendVars
<1>1. 1 \in DOMAIN plan[t].ops
  <2>1. plan[t].ops \in Seq(Operations(plan[t])) /\ plan[t].ops # <<>>
    BY PlanShape DEF ReservationRecorded
  <2>2. QED
    BY <2>1
<1>2. TypeOK'
  BY DEF TypeOK, States
<1>3. ReservationsExclude' /\ StagedOnReserved'
  BY DEF TypeOK, ReservationsExclude, StagedOnReserved, InFlight
<1>4. ReservationRecorded'
  BY <1>1 DEF TypeOK, ReservationRecorded, InFlight
<1>5. HeldIsAccounted' /\ FailureIsFinal'
  BY DEF TypeOK, HeldIsAccounted, FailureIsFinal, InFlight
<1>6. QED
  BY <1>2, <1>3, <1>4, <1>5

(* What running one operation of the plan does to the variables of the     *)
(* invariant, whether it fails or not.                                     *)
OperationEffect(t) ==
  /\ holder' = holder /\ publishedOnce' = publishedOnce
  /\ completed' \subseteq dispatched'
  /\ \E more \in SUBSET DeclaredWriteSet(plan[t]) :
       stagedSet' = [stagedSet EXCEPT ![t] = @ \cup more]
  /\ \/ UNCHANGED <<state, failure>>
     \/ Fail(t, "Backend")

(* Each outcome of an operation has that effect. *)
LEMMA RunEffect ==
  ASSUME TypeOK, NEW t \in Txn, NEW op \in Operations(plan[t]),
         RunFails(t) \/ StageFails(t, op) \/ Succeeds(t, op)
  PROVE  OperationEffect(t)
<1> USE DEF OperationEffect
<1>1. StagedWrites(op) \subseteq DeclaredWriteSet(plan[t])
  BY DEF DeclaredWriteSet
<1>2. CASE RunFails(t)
  <2>1. stagedSet' = [stagedSet EXCEPT ![t] = @ \cup {}]
    BY <1>2 DEF RunFails, TypeOK
  <2>2. QED
    BY <1>2, <2>1 DEF RunFails, backendVars, TypeOK
<1>3. CASE StageFails(t, op)
  <2>1. PICK bad \in StagedWrites(op) :
          stagedSet' = [stagedSet EXCEPT ![t] = @ \cup
                          {w \in StagedWrites(op) : w.partition < bad.partition}]
    BY <1>3 DEF StageFails
  <2>2. completed' \subseteq dispatched'
    BY <1>3 DEF StageFails, RunOperation, TypeOK
  <2>3. QED
    BY <1>1, <1>3, <2>1, <2>2 DEF StageFails
<1>4. CASE Succeeds(t, op)
  <2>1. completed' \subseteq dispatched'
    BY <1>4 DEF Succeeds, RunOperation, TypeOK
  <2>2. QED
    BY <1>1, <1>4, <2>1 DEF Succeeds
<1>5. QED
  BY <1>2, <1>3, <1>4

(* Running an operation, from execute's loop or on the program's own call, *)
(* only happens while executing and stages on what was reserved.           *)
LEMMA OperationKeepsIInv ==
  ASSUME IInv, NEW t \in Txn, state[t] = "Executing", OperationEffect(t),
         UNCHANGED <<plan, reserved, receipt, ordinal>>,
         next' \in [Txn -> Nat],
         \A u \in Txn : u # t => next'[u] = next[u],
         next'[t] # 0 => next'[t] \in DOMAIN plan[t].ops /\ UNCHANGED <<state, failure>>
  PROVE  IInv'
<1> USE DEF IInv, OperationEffect
<1>1. PICK more \in SUBSET DeclaredWriteSet(plan[t]) :
        stagedSet' = [stagedSet EXCEPT ![t] = @ \cup more]
  OBVIOUS
<1>2. reserved[t] = Referenced(plan[t])
  BY DEF ReservationRecorded, InFlight
<1>3. \A w \in more : w.partition \in reserved[t]
  <2> TAKE w \in more
  <2>1. PICK op \in Operations(plan[t]) : w \in StagedWrites(op)
    BY DEF DeclaredWriteSet
  <2>2. QED
    BY <1>2, <2>1, StagedWithinReferenced
<1>4. /\ state' \in [Txn -> States] /\ failure' \in [Txn -> Failures]
      /\ \A u \in Txn : u # t => state'[u] = state[u] /\ failure'[u] = failure[u]
      /\ \/ state'[t] = "Executing" /\ failure'[t] = failure[t]
         \/ state'[t] = "Failed"
  BY DEF Fail, TypeOK, States, Failures
<1>5. TypeOK'
  <2>1. more \subseteq UNION {DeclaredWriteSet(p) : p \in Plans}
    <3>1. plan[t] \in Plans \/ DeclaredWriteSet(plan[t]) = {}
      BY DEF TypeOK, NoPlan, DeclaredWriteSet, Operations
    <3>2. QED
      BY <3>1
  <2>2. stagedSet' \in [Txn -> SUBSET UNION {DeclaredWriteSet(p) : p \in Plans}]
    BY <1>1, <2>1 DEF TypeOK
  <2>3. QED
    BY <1>4, <2>2 DEF TypeOK
<1>6. ReservationsExclude'
  BY <1>4 DEF ReservationsExclude, InFlight
<1>7. StagedOnReserved'
  <2> SUFFICES ASSUME NEW u \in Txn
               PROVE  /\ \A w \in stagedSet'[u] : w.partition \in reserved[u]
                      /\ state'[u] \in {"Unborn", "New"} => reserved[u] = {}
    BY DEF StagedOnReserved
  <2>1. stagedSet'[u] \subseteq stagedSet[u] \cup (IF u = t THEN more ELSE {})
    BY <1>1
  <2>2. QED
    BY <1>3, <1>4, <2>1 DEF StagedOnReserved
<1>8. ReservationRecorded'
  <2> SUFFICES ASSUME NEW u \in Txn
               PROVE  /\ state'[u] \in InFlight => reserved[u] = Referenced(plan[u])
                      /\ next'[u] # 0 => state'[u] = "Executing"
                                         /\ next'[u] \in DOMAIN plan[u].ops
                      /\ state'[u] \in {"New", "Prepared"} => plan[u].ops # <<>>
    BY DEF ReservationRecorded
  <2>1. CASE u = t
    BY <1>2, <1>4, <2>1 DEF InFlight
  <2>2. CASE u # t
    BY <1>4, <2>2 DEF ReservationRecorded
  <2>3. QED
    BY <2>1, <2>2
<1>9. HeldIsAccounted'
  BY <1>4 DEF HeldIsAccounted, InFlight
<1>10. FailureIsFinal'
  BY <1>4 DEF FailureIsFinal
<1>11. QED
  BY <1>5, <1>6, <1>7, <1>8, <1>9, <1>10

(* A turn of execute's loop moves to the next operation or ends it. *)
LEMMA ExecuteNextKeepsIInv ==
  ASSUME IInv, NEW t \in Txn, ExecuteNext(t)
  PROVE  IInv'
<1> USE DEF IInv
<1> DEFINE op == plan[t].ops[next[t]]
<1>1. next[t] # 0 /\ state[t] = "Executing" /\ next[t] \in DOMAIN plan[t].ops
  BY DEF ExecuteNext, ReservationRecorded
<1>2. op \in Operations(plan[t])
  BY <1>1 DEF Operations
<1>3. OperationEffect(t) /\ UNCHANGED <<plan, reserved, receipt, ordinal>>
  BY <1>2, RunEffect DEF ExecuteNext
<1>4. plan[t].ops \in Seq(Operations(plan[t])) /\ next \in [Txn -> Nat]
  BY PlanShape DEF TypeOK
<1>5. CASE /\ RunFails(t) \/ StageFails(t, op)
           /\ next' = [next EXCEPT ![t] = 0]
  BY <1>1, <1>3, <1>4, <1>5, OperationKeepsIInv
<1>6. CASE /\ Succeeds(t, op)
           /\ next' = [next EXCEPT ![t] =
                         IF next[t] < Len(plan[t].ops) THEN next[t] + 1 ELSE 0]
  <2>1. /\ next' \in [Txn -> Nat]
        /\ \A u \in Txn : u # t => next'[u] = next[u]
        /\ next'[t] # 0 => next'[t] \in DOMAIN plan[t].ops
    BY <1>1, <1>4, <1>6
  <2>2. UNCHANGED <<state, failure>>
    BY <1>6 DEF Succeeds
  <2>3. QED
    BY <1>1, <1>3, <2>1, <2>2, OperationKeepsIInv
<1>7. QED
  BY <1>5, <1>6 DEF ExecuteNext

(* The same for an operation run by hand, with no loop to move. *)
LEMMA ExecuteOperationKeepsIInv ==
  ASSUME IInv, NEW t \in Txn, ExecuteOperation(t)
  PROVE  IInv'
<1> USE DEF IInv
<1>1. OperationEffect(t)
  BY RunEffect DEF ExecuteOperation
<1>2. next' = next /\ next[t] = 0 /\ next \in [Txn -> Nat]
  BY DEF ExecuteOperation, InCall, TypeOK
<1>3. QED
  BY <1>1, <1>2, OperationKeepsIInv DEF ExecuteOperation

(* A commit call that publishes nothing keeps every reservation. *)
LEMMA CommitRefusedKeepsIInv ==
  ASSUME IInv, NEW t \in Txn, CommitNotReached(t) \/ CommitFails(t)
  PROVE  IInv'
<1> USE DEF IInv, backendVars
<1>1. CASE CommitNotReached(t)
  BY <1>1 DEF CommitNotReached, TypeOK, ReservationsExclude, StagedOnReserved,
              ReservationRecorded, HeldIsAccounted, FailureIsFinal
<1>2. CASE CommitFails(t)
  <2> USE <1>2 DEF CommitFails, Fail
  <2>1. next[t] = 0
    BY DEF InCall
  <2>2. TypeOK'
    BY DEF TypeOK, States, Failures
  <2>3. ReservationsExclude' /\ StagedOnReserved'
    BY DEF TypeOK, ReservationsExclude, StagedOnReserved, InFlight
  <2>4. ReservationRecorded'
    BY <2>1 DEF TypeOK, ReservationRecorded, InFlight
  <2>5. HeldIsAccounted' /\ FailureIsFinal'
    BY DEF TypeOK, HeldIsAccounted, FailureIsFinal, InFlight
  <2>6. QED
    BY <2>2, <2>3, <2>4, <2>5
<1>3. QED
  BY <1>1, <1>2

(* Giving back what a transaction reserved and staged, and nothing else,   *)
(* leaves every other transaction's reservations alone.                    *)
LEMMA FinishKeepsIInv ==
  ASSUME IInv, NEW t \in Txn, next[t] = 0,
         state[t] \in {"New"} \cup InFlight,
         NEW final \in {"Committed", "Aborted"},
         state' = [state EXCEPT ![t] = final],
         final = "Committed" => state[t] = "Executing",
         holder' = [p \in Partition |-> IF p \in reserved[t] THEN NoTxn ELSE holder[p]],
         failure' \in [Txn -> Failures],
         \A u \in Txn : u # t => failure'[u] = failure[u],
         final = "Committed" => failure' = failure,
         publishedOnce' \in BOOLEAN, ordinal' \in Nat,
         UNCHANGED <<dispatched, completed, plan, next, reserved, stagedSet>>
  PROVE  IInv'
<1> USE DEF IInv
<1>1. TypeOK'
  BY DEF TypeOK, States
<1>2. ReservationsExclude'
  <2> SUFFICES ASSUME NEW u \in Txn, state'[u] \in InFlight, NEW p \in reserved[u]
               PROVE  holder'[p] = u
    BY DEF ReservationsExclude
  <2>1. u # t /\ state[u] \in InFlight /\ p \in Partition
    BY DEF TypeOK, InFlight
  <2>2. holder[p] = u
    BY <2>1 DEF ReservationsExclude
  <2>3. p \notin reserved[t]
    BY <2>1, <2>2 DEF ReservationsExclude, StagedOnReserved, InFlight
  <2>4. QED
    BY <2>1, <2>2, <2>3
<1>3. StagedOnReserved'
  BY DEF TypeOK, StagedOnReserved
<1>4. ReservationRecorded'
  BY DEF TypeOK, ReservationRecorded, InFlight
<1>5. HeldIsAccounted'
  <2> SUFFICES ASSUME NEW u \in Txn, NEW p \in Partition, holder'[p] = u
               PROVE  \/ state'[u] \in InFlight /\ p \in reserved[u]
                      \/ reserved[u] = {} /\ state'[u] = "Aborted"
                      \/ reserved[u] = {} /\ state'[u] = "New" /\ p \in Referenced(plan[u])
    BY DEF HeldIsAccounted
  <2>1. holder[p] = u /\ p \notin reserved[t]
    BY TxnAssumption
  <2>2. CASE u # t
    BY <2>1, <2>2 DEF HeldIsAccounted, TypeOK
  <2>3. CASE u = t
    <3>1. reserved[t] = {} /\ state[t] = "New"
      BY <2>1, <2>3 DEF HeldIsAccounted, InFlight
    <3>2. QED
      BY <2>3, <3>1 DEF TypeOK
  <2>4. QED
    BY <2>2, <2>3
<1>6. FailureIsFinal'
  BY DEF TypeOK, FailureIsFinal
<1>7. QED
  BY <1>1, <1>2, <1>3, <1>4, <1>5, <1>6

(* commit releases what was reserved. *)
LEMMA CommitKeepsIInv ==
  ASSUME IInv, NEW t \in Txn, Commit(t)
  PROVE  IInv'
<1>1. holder' = [p \in Partition |-> IF p \in reserved[t] THEN NoTxn ELSE holder[p]]
  BY DEF Commit, ReleaseAndRetire
<1>2. next[t] = 0 /\ state[t] = "Executing" /\ state' = [state EXCEPT ![t] = "Committed"]
  BY DEF Commit, InCall
<1>3. publishedOnce' \in BOOLEAN /\ ordinal' \in Nat /\ failure' = failure
      /\ failure \in [Txn -> Failures]
  BY DEF Commit, Publish, IInv, TypeOK
<1>4. UNCHANGED <<dispatched, completed, plan, next, reserved, stagedSet>>
  BY DEF Commit
<1>5. QED
  BY <1>1, <1>2, <1>3, <1>4, FinishKeepsIInv DEF InFlight

(* abort releases or retires exactly what was reserved: what is staged     *)
(* lies on reserved partitions.                                            *)
LEMMA AbortKeepsIInv ==
  ASSUME IInv, NEW t \in Txn, Abort(t)
  PROVE  IInv'
<1> DEFINE retired == {w.partition : w \in stagedSet[t]}
<1>1. retired \subseteq reserved[t]
  BY DEF IInv, StagedOnReserved
<1>2. holder' = [p \in Partition |->
        IF p \in (reserved[t] \ retired) \cup retired THEN NoTxn ELSE holder[p]]
  BY DEF Abort, ReleaseAndRetire
<1>3. (reserved[t] \ retired) \cup retired = reserved[t]
  BY <1>1
<1>4. holder' = [p \in Partition |-> IF p \in reserved[t] THEN NoTxn ELSE holder[p]]
  BY <1>2, <1>3
<1>5. /\ next[t] = 0 /\ state[t] \in {"New"} \cup InFlight
      /\ state' = [state EXCEPT ![t] = "Aborted"]
  BY DEF Abort, InCall, InFlight
<1>6. /\ failure' \in [Txn -> Failures]
      /\ \A u \in Txn : u # t => failure'[u] = failure[u]
  BY DEF Abort, AbortReason, IInv, TypeOK, Failures
<1>7. publishedOnce' \in BOOLEAN /\ ordinal' \in Nat
  BY DEF Abort, IInv, TypeOK
<1>8. UNCHANGED <<dispatched, completed, plan, next, reserved, stagedSet>>
  BY DEF Abort
<1>9. QED
  BY <1>4, <1>5, <1>6, <1>7, <1>8, FinishKeepsIInv

(* A completion on a device, and a step of something else, keep it. *)
LEMMA CompletionKeepsIInv ==
  ASSUME IInv, DeviceCompletes \/ UNCHANGED vars
  PROVE  IInv'
<1> USE DEF IInv, TypeOK, ReservationsExclude, StagedOnReserved,
            ReservationRecorded, HeldIsAccounted, FailureIsFinal
<1>1. CASE DeviceCompletes
  BY <1>1 DEF DeviceCompletes, CompleteEvent, txnVars
<1>2. CASE UNCHANGED vars
  BY <1>2 DEF vars, backendVars, txnVars
<1>3. QED
  BY <1>1, <1>2

(* IInv is an invariant of the specification. *)
THEOREM IInvInvariant == Spec => []IInv
<1>1. IInv /\ [Next]_vars => IInv'
  <2> SUFFICES ASSUME IInv, [Next]_vars PROVE IInv'
    OBVIOUS
  <2>1. ASSUME NEW t \in Txn,
               \/ New(t) \/ Prepare(t) \/ Execute(t) \/ ExecuteNext(t)
               \/ ExecuteOperation(t) \/ CommitNotReached(t)
               \/ CommitFails(t) \/ Commit(t) \/ Abort(t)
        PROVE  IInv'
    BY <2>1, NewKeepsIInv, PrepareKeepsIInv, ExecuteKeepsIInv, ExecuteNextKeepsIInv,
       ExecuteOperationKeepsIInv, CommitRefusedKeepsIInv, CommitKeepsIInv, AbortKeepsIInv
  <2>2. QED
    BY <2>1, CompletionKeepsIInv DEF Next
<1>2. QED
  BY <1>1, InitIInv, PTL DEF Spec

(* Type correctness of the coordinator and its backend. *)
THEOREM TypeCorrect == Spec => []TypeOK
BY IInvInvariant, PTL DEF IInv

(* Mutual exclusion of reservations: from prepare to its own commit or     *)
(* abort a transaction keeps every partition it reserved.                  *)
THEOREM Exclusion == Spec => []ReservationsExclude
BY IInvInvariant, PTL DEF IInv

(* Complete teardown: whatever failed on the way, a transaction that was   *)
(* prepared holds nothing once it has committed or aborted.                *)
THEOREM Teardown == Spec => []TeardownComplete
<1>1. IInv => TeardownComplete
  BY DEF IInv, HeldIsAccounted, TeardownComplete, TypeOK
<1>2. QED
  BY <1>1, IInvInvariant, PTL

(* The recorded failure is the first one: no step, a later failure or      *)
(* abort's own reason included, replaces it.                               *)
THEOREM FailureIsFirst == Spec => FirstFailureWins
<1>1. IInv /\ [Next]_vars =>
        [\A t \in Txn : failure[t] # "none" => failure'[t] = failure[t]]_vars
  <2> SUFFICES ASSUME IInv, Next, NEW u \in Txn, failure[u] # "none"
               PROVE  failure'[u] = failure[u]
    OBVIOUS
  <2>1. state[u] \in {"Failed", "Aborted"} /\ next[u] = 0 /\ failure \in [Txn -> Failures]
    BY DEF IInv, FailureIsFinal, ReservationRecorded, TypeOK
  <2>2. ASSUME NEW t \in Txn, NEW op, RunFails(t) \/ StageFails(t, op) \/ Succeeds(t, op),
               state[t] = "Executing"
        PROVE  failure'[u] = failure[u]
    BY <2>1, <2>2 DEF RunFails, StageFails, Succeeds, Fail
  <2>3. ASSUME NEW t \in Txn, ExecuteNext(t)
        PROVE  failure'[u] = failure[u]
    BY <2>2, <2>3 DEF ExecuteNext, IInv, ReservationRecorded
  <2>4. ASSUME NEW t \in Txn, ExecuteOperation(t)
        PROVE  failure'[u] = failure[u]
    BY <2>2, <2>4 DEF ExecuteOperation
  <2>5. ASSUME NEW t \in Txn, CommitFails(t) \/ Abort(t)
        PROVE  failure'[u] = failure[u]
    BY <2>1, <2>5 DEF CommitFails, Abort, AbortReason, Fail
  <2>6. QED
    BY <2>3, <2>4, <2>5 DEF Next, New, Prepare, Execute, CommitNotReached, Commit,
       DeviceCompletes, txnVars
<1>2. QED
  BY <1>1, IInvInvariant, PTL DEF Spec, FirstFailureWins
----------------------------------------------------------------------------
(* Sums of sizes, as the number of units in a disjoint union. *)

(* A sum of finitely many sizes is finite. *)
LEMMA UnitsFinite ==
  ASSUME NEW S, IsFiniteSet(S), NEW f \in [S -> Nat]
  PROVE  IsFiniteSet(Units(f))
<1> DEFINE Of(x) == {x} \X (1..f[x])
           Parts == {Of(x) : x \in S}
           g == [x \in S |-> Of(x)]
<1>1. g \in Surjection(S, Parts)
  BY DEF Surjection
<1>2. IsFiniteSet(Parts)
  BY <1>1, FS_Surjection
<1>3. \A x \in S : IsFiniteSet(Of(x))
  <2> TAKE x \in S
  <2>1. IsFiniteSet({x})
    BY FS_Singleton
  <2>2. f[x] \in Int
    OBVIOUS
  <2>3. IsFiniteSet(1..f[x])
    BY <2>2, FS_Interval
  <2>4. QED
    BY <2>1, <2>3, FS_Product
<1>4. \A T \in Parts : IsFiniteSet(T)
  BY <1>3
<1>5. IsFiniteSet(UNION Parts)
  BY <1>2, <1>4, FS_UNION
<1>6. QED
  BY <1>5 DEF Units

(* Such a sum is a natural number. *)
LEMMA TotalType ==
  ASSUME NEW S, IsFiniteSet(S), NEW f \in [S -> Nat]
  PROVE  Total(f) \in Nat
BY UnitsFinite, FS_CardinalityType DEF Total

(* The units of f: one for each argument and each number up to its value. *)
LEMMA UnitsElement ==
  ASSUME NEW f, NEW u
  PROVE  u \in Units(f) <=> \E x \in DOMAIN f : \E k \in 1..f[x] : u = <<x, k>>
BY DEF Units

(* An injection into arguments with values as large gives a smaller total. *)
LEMMA TotalInjects ==
  ASSUME NEW S, NEW f \in [S -> Nat], NEW T, IsFiniteSet(T), NEW h \in [T -> Nat],
         NEW g \in Injection(S, T), \A x \in S : f[x] <= h[g[x]]
  PROVE  Total(f) <= Total(h)
<1> DEFINE j == [u \in Units(f) |-> <<g[u[1]], u[2]>>]
<1>1. \A u \in Units(f) : \E x \in S : \E k \in 1..f[x] : u = <<x, k>>
  BY UnitsElement
<1>2. \A x \in S : g[x] \in T
  BY DEF Injection
<1>3. \A u \in Units(f) : j[u] \in Units(h)
  <2> TAKE u \in Units(f)
  <2>1. PICK x \in S : \E k \in 1..f[x] : u = <<x, k>>
    BY <1>1
  <2>2. PICK k \in 1..f[x] : u = <<x, k>>
    BY <2>1
  <2>3. k \in 1..h[g[x]]
    BY <1>2, <2>2
  <2>4. QED
    BY <1>2, <2>2, <2>3, UnitsElement
<1>4. \A u, v \in Units(f) : j[u] = j[v] => u = v
  <2> SUFFICES ASSUME NEW u \in Units(f), NEW v \in Units(f), j[u] = j[v]
               PROVE  u = v
    OBVIOUS
  <2>1. PICK x \in S : \E k \in 1..f[x] : u = <<x, k>>
    BY <1>1
  <2>2. PICK y \in S : \E k \in 1..f[y] : v = <<y, k>>
    BY <1>1
  <2>3. g[x] = g[y]
    BY <2>1, <2>2
  <2>4. x = y
    BY <2>3 DEF Injection, IsInjective
  <2>5. QED
    BY <2>1, <2>2, <2>4
<1>5. j \in Injection(Units(f), Units(h))
  BY <1>3, <1>4 DEF Injection, IsInjective
<1>6. IsFiniteSet(Units(h))
  BY UnitsFinite
<1>7. QED
  BY <1>5, <1>6, FS_Injection DEF Total

(* The bytes of two disjoint sets of writes add up. *)
LEMMA WriteBytesAdd ==
  ASSUME NEW A, IsFiniteSet(A), NEW B, IsFiniteSet(B), A \cap B = {},
         \A w \in A \cup B : w.bytes \in Nat
  PROVE  WriteBytes(A \cup B) = WriteBytes(A) + WriteBytes(B)
<1> DEFINE b(W) == [w \in W |-> w.bytes]
<1>1. b(A) \in [A -> Nat] /\ b(B) \in [B -> Nat]
  OBVIOUS
<1>2. Units(b(A \cup B)) = Units(b(A)) \cup Units(b(B))
  <2>1. ASSUME NEW u
        PROVE  u \in Units(b(A \cup B)) <=> u \in Units(b(A)) \/ u \in Units(b(B))
    <3>1. \A W : u \in Units(b(W)) <=> \E w \in W : \E k \in 1..w.bytes : u = <<w, k>>
      BY UnitsElement
    <3>2. QED
      BY <3>1
  <2>2. QED
    BY <2>1
<1>3. Units(b(A)) \cap Units(b(B)) = {}
  <2> SUFFICES ASSUME NEW u, u \in Units(b(A)), u \in Units(b(B)) PROVE FALSE
    OBVIOUS
  <2>1. PICK v \in A : \E k \in 1..v.bytes : u = <<v, k>>
    BY UnitsElement
  <2>2. PICK w \in B : \E k \in 1..w.bytes : u = <<w, k>>
    BY UnitsElement
  <2>3. QED
    BY <2>1, <2>2
<1>4. IsFiniteSet(Units(b(A))) /\ IsFiniteSet(Units(b(B)))
  BY <1>1, UnitsFinite
<1> HIDE DEF b
<1>5. Cardinality(Units(b(A)) \cup Units(b(B)))
        = Cardinality(Units(b(A))) + Cardinality(Units(b(B)))
  <2>1. Cardinality(Units(b(A)) \cap Units(b(B))) = 0
    BY <1>3, FS_EmptySet
  <2>2. Cardinality(Units(b(A))) \in Nat /\ Cardinality(Units(b(B))) \in Nat
    BY <1>4, FS_CardinalityType
  <2>3. Cardinality(Units(b(A)) \cup Units(b(B)))
          = Cardinality(Units(b(A))) + Cardinality(Units(b(B)))
              - Cardinality(Units(b(A)) \cap Units(b(B)))
    BY <1>4, FS_Union
  <2>4. QED
    BY <2>1, <2>2, <2>3
<1>6. QED
  BY <1>2, <1>5 DEF WriteBytes, Total, b

(* Writes sent one to one to sizes as large have at most their total. *)
LEMMA WriteBytesInject ==
  ASSUME NEW A, NEW T, IsFiniteSet(T), NEW h \in [T -> Nat],
         NEW g \in Injection(A, T), \A w \in A : w.bytes \in Nat /\ w.bytes <= h[g[w]]
  PROVE  WriteBytes(A) <= Total(h)
<1> DEFINE f == [w \in A |-> w.bytes]
<1>1. f \in [A -> Nat] /\ \A w \in A : f[w] <= h[g[w]]
  OBVIOUS
<1> HIDE DEF f
<1>2. Total(f) <= Total(h)
  BY <1>1, TotalInjects
<1>3. QED
  BY <1>2 DEF WriteBytes, f

(* The bytes of finitely many writes are a natural number. *)
LEMMA WriteBytesType ==
  ASSUME NEW A, IsFiniteSet(A), \A w \in A : w.bytes \in Nat
  PROVE  WriteBytes(A) \in Nat
<1> DEFINE f == [w \in A |-> w.bytes]
<1>1. f \in [A -> Nat]
  OBVIOUS
<1> HIDE DEF f
<1>2. Total(f) \in Nat
  BY <1>1, TotalType
<1>3. QED
  BY <1>2 DEF WriteBytes, f

(* No write, no bytes. *)
LEMMA NoBytes == WriteBytes({}) = 0
<1>1. Units([w \in {} |-> w.bytes]) = {}
  BY DEF Units
<1>2. QED
  BY <1>1, FS_EmptySet DEF WriteBytes, Total

(* More writes are more bytes. *)
LEMMA WriteBytesGrow ==
  ASSUME NEW B, IsFiniteSet(B), \A w \in B : w.bytes \in Nat, NEW A \in SUBSET B
  PROVE  WriteBytes(A) <= WriteBytes(B)
<1> DEFINE C == B \ A
<1>1. IsFiniteSet(A) /\ IsFiniteSet(C)
  BY FS_Subset
<1>2. A \cup C = B /\ A \cap C = {}
  OBVIOUS
<1> HIDE DEF C
<1>3. WriteBytes(B) = WriteBytes(A) + WriteBytes(C)
  BY <1>1, <1>2, WriteBytesAdd
<1>4. WriteBytes(A) \in Nat /\ WriteBytes(C) \in Nat
  BY <1>1, <1>2, WriteBytesType
<1>5. QED
  BY <1>3, <1>4

(* Totals that are sums themselves: where the values of f count the units  *)
(* of disjoint parts of a set, they add up to its size.                    *)
LEMMA TotalOfParts ==
  ASSUME NEW P, IsFiniteSet(P), NEW f \in [P -> Nat], NEW part,
         \A p \in P : IsFiniteSet(part[p]) /\ f[p] = Cardinality(part[p]),
         \A p, q \in P : p # q => part[p] \cap part[q] = {}
  PROVE  Total(f) = Cardinality(UNION {part[p] : p \in P})
<1> DEFINE All == UNION {part[p] : p \in P}
           count == [p \in P |-> CHOOSE b : b \in Bijection(1..f[p], part[p])]
           g == [u \in Units(f) |-> count[u[1]][u[2]]]
<1>1. ASSUME NEW p \in P
      PROVE  count[p] \in Bijection(1..f[p], part[p])
  <2>1. ExistsBijection(1..f[p], part[p])
    BY FS_CardinalityType
  <2>2. QED
    BY <2>1 DEF ExistsBijection
<1> HIDE DEF count
<1>2. \A u \in Units(f) : \E p \in P : \E k \in 1..f[p] : u = <<p, k>> /\ g[u] = count[p][k]
  BY UnitsElement
<1>3. ASSUME NEW p \in P, NEW k \in 1..f[p]
      PROVE  count[p][k] \in part[p]
  BY <1>1 DEF Bijection, Surjection
<1>4. g \in [Units(f) -> All]
  BY <1>2, <1>3
<1>5. ASSUME NEW u \in Units(f), NEW v \in Units(f), g[u] = g[v]
      PROVE  u = v
  <2>1. PICK p \in P : \E k \in 1..f[p] : u = <<p, k>> /\ g[u] = count[p][k]
    BY <1>2
  <2>2. PICK k \in 1..f[p] : u = <<p, k>> /\ g[u] = count[p][k]
    BY <2>1
  <2>3. PICK q \in P : \E l \in 1..f[q] : v = <<q, l>> /\ g[v] = count[q][l]
    BY <1>2
  <2>4. PICK l \in 1..f[q] : v = <<q, l>> /\ g[v] = count[q][l]
    BY <2>3
  <2> HIDE DEF g
  <2>5. p = q
    BY <1>3, <1>5, <2>2, <2>4
  <2>6. k = l
    BY <1>1, <1>5, <2>2, <2>4, <2>5 DEF Bijection, Injection, IsInjective
  <2>7. QED
    BY <2>2, <2>4, <2>5, <2>6
<1>6. ASSUME NEW x \in All
      PROVE  \E u \in Units(f) : g[u] = x
  <2>1. PICK p \in P : x \in part[p]
    OBVIOUS
  <2>2. PICK k \in 1..f[p] : count[p][k] = x
    BY <1>1, <2>1 DEF Bijection, Surjection
  <2>3. <<p, k>> \in Units(f)
    BY UnitsElement
  <2>4. g[<<p, k>>] = x
    BY <2>2, <2>3
  <2>5. QED
    BY <2>3, <2>4
<1>7. g \in Bijection(Units(f), All)
  BY <1>4, <1>5, <1>6 DEF Bijection, Injection, Surjection, IsInjective
<1>8. IsFiniteSet(Units(f)) /\ ExistsBijection(Units(f), All)
  BY <1>7, UnitsFinite DEF ExistsBijection
<1>9. Cardinality(All) = Cardinality(Units(f))
  <2> HIDE DEF All
  <2>1. QED
    BY <1>8, FS_Bijection
<1>10. QED
  BY <1>9 DEF Total

(* The floor of a saturating subtraction that does not saturate. *)
LEMMA MaxWithZero ==
  ASSUME NEW n \in Nat
  PROVE  Max({n, 0}) = n
<1>1. n \in {n, 0} /\ \A y \in {n, 0} : n >= y
  OBVIOUS
<1>2. \A x \in {n, 0} : (\A y \in {n, 0} : x >= y) => x = n
  OBVIOUS
<1>3. QED
  BY <1>1, <1>2 DEF Max

(* A saturating subtraction of u64 stays a u64. *)
LEMMA FloorStays ==
  ASSUME NEW m \in Nat, NEW n \in 0..m, NEW k \in Nat
  PROVE  Max({n - k, 0}) \in 0..m
<1> DEFINE S == {n - k, 0}
<1>1. \E x \in S : \A y \in S : x >= y
  OBVIOUS
<1>2. Max(S) \in S /\ \A y \in S : Max(S) >= y
  BY <1>1 DEF Max
<1>3. QED
  BY <1>2

(* A saturating addition stays a u64, and is the sum if that is one. *)
LEMMA CeilingStays ==
  ASSUME NEW m \in Nat, NEW n \in Nat
  PROVE  /\ Min({n, m}) \in 0..m
         /\ n <= m => Min({n, m}) = n
<1> DEFINE S == {n, m}
<1>1. \E x \in S : \A y \in S : x <= y
  OBVIOUS
<1>2. Min(S) \in S /\ \A y \in S : Min(S) <= y
  BY <1>1 DEF Min
<1>3. QED
  BY <1>2

(* A sum that fits does not wrap; a wrapped one is a natural number. *)
LEMMA WrappedFits ==
  ASSUME NEW n \in Nat
  PROVE  /\ Wrapped(n) \in Nat
         /\ n <= MaxU64 => Wrapped(n) = n
<1>1. MaxU64 \in Nat
  BY BytesAssumption
<1>2. QED
  BY <1>1 DEF Wrapped

(* The bytes of a set of writes, partition by partition. *)
LEMMA BytesByPartition ==
  ASSUME NEW W, IsFiniteSet(W), \A w \in W : w.bytes \in Nat,
         NEW P, IsFiniteSet(P), \A w \in W : w.partition \in P
  PROVE  Total([p \in P |-> WriteBytes({w \in W : w.partition = p})]) = WriteBytes(W)
<1> DEFINE on(p) == {w \in W : w.partition = p}
           b(A) == [w \in A |-> w.bytes]
           f == [p \in P |-> WriteBytes(on(p))]
           part == [p \in P |-> Units(b(on(p)))]
<1>1. ASSUME NEW p \in P
      PROVE  IsFiniteSet(on(p)) /\ \A w \in on(p) : w.bytes \in Nat
  BY FS_Subset
<1>2. ASSUME NEW p \in P
      PROVE  /\ IsFiniteSet(part[p])
             /\ f[p] = Cardinality(part[p])
             /\ f[p] \in Nat
  <2>1. b(on(p)) \in [on(p) -> Nat]
    BY <1>1
  <2>2. IsFiniteSet(Units(b(on(p))))
    <3> HIDE DEF on, b
    <3>1. QED
      BY <1>1, <2>1, UnitsFinite
  <2>3. f[p] = Cardinality(Units(b(on(p))))
    BY DEF WriteBytes, Total
  <2> HIDE DEF b, on, f
  <2>4. QED
    BY <2>2, <2>3, FS_CardinalityType
<1>3. \A A : \A u : u \in Units(b(A)) <=> \E w \in A : \E k \in 1..w.bytes : u = <<w, k>>
  BY UnitsElement
<1>4. ASSUME NEW p \in P, NEW q \in P, p # q, NEW u, u \in part[p], u \in part[q]
      PROVE  FALSE
  <2>1. PICK v \in on(p) : \E k \in 1..v.bytes : u = <<v, k>>
    BY <1>3, <1>4
  <2>2. PICK w \in on(q) : \E k \in 1..w.bytes : u = <<w, k>>
    BY <1>3, <1>4
  <2>3. v = w
    BY <2>1, <2>2
  <2>4. QED
    BY <1>4, <2>3
<1>5. UNION {part[p] : p \in P} = Units(b(W))
  <2>1. ASSUME NEW u
        PROVE  u \in UNION {part[p] : p \in P} <=> u \in Units(b(W))
    <3>1. ASSUME NEW p \in P, u \in part[p]
          PROVE  u \in Units(b(W))
      <4>1. PICK w \in on(p) : \E k \in 1..w.bytes : u = <<w, k>>
        BY <1>3, <3>1
      <4>2. w \in W
        OBVIOUS
      <4> HIDE DEF b
      <4>3. QED
        BY <1>3, <4>1, <4>2
    <3>2. ASSUME u \in Units(b(W))
          PROVE  \E p \in P : u \in part[p]
      <4>1. PICK w \in W : \E k \in 1..w.bytes : u = <<w, k>>
        BY <1>3, <3>2
      <4>2. w \in on(w.partition) /\ w.partition \in P
        OBVIOUS
      <4>3. u \in Units(b(on(w.partition)))
        <5> HIDE DEF b, on
        <5>1. QED
          BY <1>3, <4>1, <4>2
      <4>4. QED
        BY <4>2, <4>3
    <3>3. QED
      BY <3>1, <3>2
  <2>2. QED
    BY <2>1
<1>6. f \in [P -> Nat]
  BY <1>2
<1>7. \A p, q \in P : p # q => part[p] \cap part[q] = {}
  BY <1>4
<1>8. \A p \in P : IsFiniteSet(part[p]) /\ f[p] = Cardinality(part[p])
  BY <1>2
<1>9. Total(f) = Cardinality(UNION {part[p] : p \in P})
  <2> HIDE DEF f, part
  <2>1. QED
    BY <1>6, <1>7, <1>8, TotalOfParts
<1>10. QED
  BY <1>5, <1>9 DEF WriteBytes, Total
----------------------------------------------------------------------------
(* What a transaction did of its plan: it stages what the plan declares,   *)
(* once prepared its plan was accepted, every operation that ran has its   *)
(* writes staged, and once its loop is over every operation has run.       *)
Members(s) == {s[i] : i \in DOMAIN s}
Ran(t) == Members(executed[t])

RecordSound(t) ==
  /\ IF state[t] = "Unborn" THEN plan[t] = NoPlan ELSE plan[t] \in Plans
  /\ stagedSet[t] \subseteq DeclaredWriteSet(plan[t])
  /\ state[t] \in {"Unborn", "New", "Prepared"} => executed[t] = <<>> /\ stagedSet[t] = {}
  /\ state[t] \in InFlight \/ stagedSet[t] # {} => PlanAccepted(plan[t])
  /\ executed[t] \in Seq(Operations(plan[t]))
  /\ \A op \in Ran(t) : StagedWrites(op) \subseteq stagedSet[t]
  /\ state[t] = "Executing" =>
       \A i \in DOMAIN plan[t].ops : next[t] = 0 \/ i < next[t] => plan[t].ops[i] \in Ran(t)
  /\ state[t] = "Committed" => /\ Operations(plan[t]) = Ran(t)
                               /\ BoundaryEvents(plan[t]) \subseteq events[t]
                               /\ receipt[t].released = Referenced(plan[t])

RecordsSound ==
  /\ executed = [t \in Txn |-> executed[t]]    \* the untyped ones are functions too
  /\ events = [t \in Txn |-> events[t]]
  /\ receipt = [t \in Txn |-> receipt[t]]
  /\ \A t \in Txn : RecordSound(t)

(* Whose the staged writes are: all of a transaction in flight are on the  *)
(* backend, and beside them only those of a committed one, until the next  *)
(* fresh start.                                                            *)
StagedBy ==
  /\ \A t \in Txn : state[t] \in InFlight => By(t, stagedSet[t]) \subseteq staged
  /\ \A w \in staged : \E t \in Txn :
       /\ w \in By(t, stagedSet[t])
       /\ state[t] \in InFlight \cup {"Committed"}
       /\ state[t] = "Committed" => publishedOnce

(* The byte total of the staging area is a u64, and its size as long as    *)
(* the sizes of all that was declared add up to one.                       *)
BytesExact ==
  /\ IsFiniteSet(staged)
  /\ stagedBytes \in 0..MaxU64
  /\ StagingFits => stagedBytes = WriteBytes(staged)

SInv == RecordsSound /\ StagedBy /\ BytesExact

(* Any two plans meet at a partition. *)
PlansMeet == \A p, q \in Plans : Referenced(p) \cap Referenced(q) # {}

(* What a commit receipt reports was published is what the plan declared. *)
PublishedExact ==
  StagingFits => \A t \in Txn : state[t] = "Committed" =>
    receipt[t].published = WriteBytes(DeclaredWriteSet(plan[t]))
----------------------------------------------------------------------------
(* A write under the name of its transaction. *)
Named(t, w) == [partition |-> w.partition, out |-> w.out, bytes |-> w.bytes, by |-> t]

(* The named writes are those, one for each write. *)
LEMMA ByElement ==
  ASSUME NEW t, NEW W, NEW v
  PROVE  v \in By(t, W) <=> \E w \in W : v = Named(t, w)
BY DEF By, Named

(* The writes of a plan are finitely many records with a size. *)
LEMMA DeclaredShape ==
  ASSUME NEW p \in Plans
  PROVE  /\ IsFiniteSet(DeclaredWriteSet(p))
         /\ \A w \in DeclaredWriteSet(p) :
              w.bytes \in Nat /\ w = [partition |-> w.partition, out |-> w.out, bytes |-> w.bytes]
<1>1. /\ p.ops \in Seq(Operations(p)) /\ Referenced(p) \subseteq Partition
      /\ \A op \in Operations(p) : op.bytes \in Nat
  BY PlansAssumption, BytesAssumption
<1> DEFINE S == DOMAIN p.ops
           Writes == {StagedWrites(op) : op \in Operations(p)}
           at == [i \in S |-> StagedWrites(p.ops[i])]
<1>2. IsFiniteSet(S)
  <2>1. S = 1..Len(p.ops) /\ Len(p.ops) \in Int
    BY <1>1
  <2>2. QED
    BY <2>1, FS_Interval
<1>3. IsFiniteSet(Writes)
  <2>1. at \in Surjection(S, Writes)
    BY DEF Surjection, Operations
  <2>2. QED
    BY <1>2, <2>1, FS_Surjection
<1>4. ASSUME NEW op \in Operations(p)
      PROVE  IsFiniteSet(StagedWrites(op))
  <2> DEFINE W == WrittenPartitions(op)
             g == [q \in W |-> [partition |-> q, out |-> OutputRef(op, q), bytes |-> op.bytes]]
  <2>1. W \subseteq Partition
    BY <1>1, WrittenWithinPartitions DEF Referenced
  <2>2. IsFiniteSet(W)
    BY <2>1, PartitionAssumption, FS_Subset
  <2>3. g \in Surjection(W, StagedWrites(op))
    BY DEF Surjection, StagedWrites
  <2>4. QED
    BY <2>2, <2>3, FS_Surjection
<1>5. IsFiniteSet(UNION Writes)
  BY <1>3, <1>4, FS_UNION
<1>6. UNION Writes = DeclaredWriteSet(p)
  BY DEF DeclaredWriteSet
<1>7. ASSUME NEW w \in DeclaredWriteSet(p)
      PROVE  w.bytes \in Nat /\ w = [partition |-> w.partition, out |-> w.out, bytes |-> w.bytes]
  <2>1. PICK op \in Operations(p) : w \in StagedWrites(op)
    BY DEF DeclaredWriteSet
  <2>2. PICK q : w = [partition |-> q, out |-> OutputRef(op, q), bytes |-> op.bytes]
    BY <2>1 DEF StagedWrites
  <2>3. QED
    BY <1>1, <2>2
<1>8. QED
  BY <1>5, <1>6, <1>7

(* Naming the writes changes neither their number nor their bytes. *)
LEMMA NamedBytes ==
  ASSUME NEW p \in Plans, NEW t, NEW W \in SUBSET DeclaredWriteSet(p)
  PROVE  /\ IsFiniteSet(W) /\ IsFiniteSet(By(t, W))
         /\ \A w \in By(t, W) : w.bytes \in Nat
         /\ WriteBytes(By(t, W)) = WriteBytes(W)
<1>1. /\ IsFiniteSet(W)
      /\ \A w \in W : w.bytes \in Nat
                      /\ w = [partition |-> w.partition, out |-> w.out, bytes |-> w.bytes]
  BY DeclaredShape, FS_Subset
<1> DEFINE g == [w \in W |-> Named(t, w)]
           B == By(t, W)
           back == [v \in B |-> [partition |-> v.partition, out |-> v.out, bytes |-> v.bytes]]
           fW == [w \in W |-> w.bytes]
           fB == [w \in B |-> w.bytes]
<1>2. \A w \in W : Named(t, w).bytes = w.bytes /\ Named(t, w) \in B
  BY ByElement DEF Named
<1>3. \A v \in B : \E w \in W : v = Named(t, w)
  BY ByElement
<1>4. g \in Injection(W, B) /\ g \in Surjection(W, B)
  <2>1. ASSUME NEW v \in W, NEW w \in W, Named(t, v) = Named(t, w)
        PROVE  v = w
    <3>1. v.partition = w.partition /\ v.out = w.out /\ v.bytes = w.bytes
      BY <2>1 DEF Named
    <3>2. QED
      BY <1>1, <3>1
  <2>2. g \in [W -> B]
    BY <1>2
  <2>3. QED
    BY <1>3, <2>1, <2>2 DEF Injection, Surjection, IsInjective
<1>5. IsFiniteSet(B)
  BY <1>1, <1>4, FS_Surjection
<1>6. ASSUME NEW v \in B
      PROVE  v.bytes \in Nat /\ back[v] \in W /\ Named(t, back[v]) = v /\ back[v].bytes = v.bytes
  <2>1. PICK w \in W : v = Named(t, w)
    BY <1>3
  <2>2. back[v] = w
    BY <1>1, <2>1 DEF Named
  <2>3. QED
    BY <1>1, <2>1, <2>2 DEF Named
<1>7. back \in Injection(B, W)
  <2>1. back \in [B -> W]
    BY <1>6
  <2>2. \A u, v \in B : back[u] = back[v] => u = v
    BY <1>6
  <2>3. QED
    BY <2>1, <2>2 DEF Injection, IsInjective
<1>8. fW \in [W -> Nat] /\ fB \in [B -> Nat]
  BY <1>1, <1>6
<1>9. Total(fW) <= Total(fB)
  <2>1. \A w \in W : fW[w] <= fB[g[w]]
    BY <1>1, <1>2
  <2> HIDE DEF fW, fB, g, B
  <2>2. QED
    BY <1>4, <1>5, <1>8, <2>1, TotalInjects
<1>10. Total(fB) <= Total(fW)
  <2>1. ASSUME NEW w \in B PROVE fB[w] <= fW[back[w]]
    <3>1. back[w] \in W /\ back[w].bytes = w.bytes /\ w.bytes \in Nat
      BY <1>6
    <3> HIDE DEF back, B
    <3>2. fW[back[w]] = w.bytes
      BY <3>1
    <3>3. fB[w] = w.bytes
      OBVIOUS
    <3>4. QED
      BY <3>1, <3>2, <3>3
  <2> HIDE DEF fW, fB, back, B
  <2>2. QED
    BY <1>1, <1>7, <1>8, <2>1, TotalInjects
<1>11. Total(fB) \in Nat /\ Total(fW) \in Nat
  <2> HIDE DEF fW, fB, B
  <2>1. QED
    BY <1>1, <1>5, <1>8, TotalType
<1>12. Total(fB) = Total(fW)
  BY <1>9, <1>10, <1>11
<1>13. QED
  BY <1>1, <1>5, <1>6, <1>12 DEF WriteBytes

----------------------------------------------------------------------------
(* The records of the other transactions are what they were. *)
OthersKept(t) ==
  /\ executed' = [u \in Txn |-> executed'[u]]
  /\ events' = [u \in Txn |-> events'[u]]
  /\ receipt' = [u \in Txn |-> receipt'[u]]
  /\ \A u \in Txn : u # t =>
       /\ state'[u] = state[u] /\ plan'[u] = plan[u] /\ next'[u] = next[u]
       /\ stagedSet'[u] = stagedSet[u] /\ executed'[u] = executed[u]
       /\ events'[u] = events[u] /\ receipt'[u] = receipt[u]

(* Where one record changes soundly, all stay sound. *)
LEMMA OneRecordChanges ==
  ASSUME RecordsSound, NEW t \in Txn, OthersKept(t), RecordSound(t)'
  PROVE  RecordsSound'
<1>1. ASSUME NEW u \in Txn, u # t
      PROVE  RecordSound(u)'
  <2>1. RecordSound(u)
    BY DEF RecordsSound
  <2>2. Ran(u)' = Ran(u)
    BY <1>1 DEF Ran, OthersKept
  <2>3. QED
    BY <1>1, <2>1, <2>2 DEF RecordSound, OthersKept
<1>2. QED
  BY <1>1 DEF RecordsSound, OthersKept

(* The members of a list with one more element. *)
LEMMA AppendedMembers ==
  ASSUME NEW S, NEW s \in Seq(S), NEW e \in S
  PROVE  Members(Append(s, e)) = Members(s) \cup {e}
<1> DEFINE a == Append(s, e)
<1>1. /\ Len(s) \in Nat /\ DOMAIN s = 1..Len(s) /\ DOMAIN a = 1..(Len(s) + 1)
      /\ a[Len(s) + 1] = e /\ \A i \in 1..Len(s) : a[i] = s[i]
  OBVIOUS
<1> HIDE DEF a
<1>2. \A i \in 1..(Len(s) + 1) : i \in 1..Len(s) \/ i = Len(s) + 1
  BY <1>1
<1>3. 1..Len(s) \subseteq 1..(Len(s) + 1) /\ Len(s) + 1 \in 1..(Len(s) + 1)
  BY <1>1
<1>4. Members(a) = Members(s) \cup {e}
  BY <1>1, <1>2, <1>3 DEF Members
<1>5. QED
  BY <1>4 DEF a

(* The placeholder before `new' has no operation and declares no write. *)
LEMMA NoOperations == Operations(NoPlan) = {} /\ DeclaredWriteSet(NoPlan) = {}
BY DEF NoPlan, Operations, DeclaredWriteSet

(* Nothing has run, is staged or published at first. *)
LEMMA InitRecords == Init => RecordsSound /\ StagedBy /\ BytesExact /\ PublishedExact
<1> SUFFICES ASSUME Init PROVE RecordsSound /\ StagedBy /\ BytesExact /\ PublishedExact
  OBVIOUS
<1>1. RecordsSound
  BY NoOperations DEF Init, RecordsSound, RecordSound, Ran, Members, InFlight
<1>2. StagedBy
  BY DEF Init, BackendInit, StagedBy, InFlight
<1>3. WriteBytes({}) = 0
  <2>1. Units([w \in {} |-> w.bytes]) = {}
    BY DEF Units
  <2>2. QED
    BY <2>1, FS_EmptySet DEF WriteBytes, Total
<1>4. BytesExact
  BY <1>3, FS_EmptySet, BytesAssumption DEF Init, BackendInit, BytesExact
<1>5. QED
  BY <1>1, <1>2, <1>4 DEF Init, PublishedExact

(* new adopts a plan and has run nothing of it. *)
LEMMA NewKeepsRecords ==
  ASSUME IInv, RecordsSound, NEW t \in Txn, New(t)
  PROVE  RecordsSound'
<1> USE DEF IInv, TypeOK, New
<1>1. PICK p \in Plans : plan' = [plan EXCEPT ![t] = p]
  OBVIOUS
<1>2. OthersKept(t)
  BY DEF OthersKept, RecordsSound
<1>3. RecordSound(t)
  BY DEF RecordsSound
<1>4. RecordSound(t)'
  <2>1. state'[t] = "New" /\ plan'[t] = p /\ executed'[t] = <<>> /\ stagedSet'[t] = {}
    BY <1>1, <1>3 DEF RecordSound
  <2>2. Ran(t)' = {}
    BY <2>1 DEF Ran, Members
  <2>3. QED
    BY <2>1, <2>2 DEF RecordSound, InFlight
<1>5. QED
  BY <1>2, <1>4, OneRecordChanges

(* prepare accepts the plan before it reserves. *)
LEMMA PrepareKeepsRecords ==
  ASSUME IInv, RecordsSound, NEW t \in Txn, Prepare(t)
  PROVE  RecordsSound'
<1> USE DEF IInv, TypeOK
<1>1. /\ state[t] = "New" /\ PlanAccepted(plan[t])
      /\ UNCHANGED <<plan, next, stagedSet, executed, events, receipt>>
      /\ state' = [state EXCEPT ![t] = "Prepared"] \/ state' = state
  BY DEF Prepare
<1>2. OthersKept(t)
  BY <1>1 DEF OthersKept, RecordsSound
<1>3. RecordSound(t)
  BY DEF RecordsSound
<1>4. /\ state'[t] \in {"New", "Prepared"}
      /\ Ran(t)' = Ran(t) /\ plan'[t] = plan[t] /\ stagedSet'[t] = stagedSet[t]
      /\ executed'[t] = executed[t]
  BY <1>1 DEF Ran
<1>5. plan[t] \in Plans /\ stagedSet[t] = {} /\ executed[t] = <<>>
  BY <1>1, <1>3 DEF RecordSound
<1>6. RecordSound(t)'
  BY <1>1, <1>3, <1>4, <1>5 DEF RecordSound
<1>7. QED
  BY <1>2, <1>6, OneRecordChanges

(* execute starts at the first operation: nothing lies before it. *)
LEMMA ExecuteKeepsRecords ==
  ASSUME IInv, RecordsSound, NEW t \in Txn, Execute(t)
  PROVE  RecordsSound'
<1> USE DEF IInv, TypeOK, Execute
<1>1. OthersKept(t)
  BY DEF OthersKept, RecordsSound
<1>2. RecordSound(t)
  BY DEF RecordsSound
<1>3. state'[t] = "Executing" /\ next'[t] = 1
  OBVIOUS
<1>4. \A i \in DOMAIN plan[t].ops : i >= 1
  BY PlanShape
<1>5. /\ Ran(t)' = Ran(t) /\ plan'[t] = plan[t] /\ stagedSet'[t] = stagedSet[t]
      /\ executed'[t] = executed[t] /\ state[t] = "Prepared"
  BY DEF Ran
<1>6. plan[t] \in Plans /\ PlanAccepted(plan[t])
  BY <1>2, <1>5 DEF RecordSound, InFlight
<1>7. ASSUME NEW i \in DOMAIN plan[t].ops PROVE ~(next'[t] = 0 \/ i < next'[t])
  <2>1. i \in Nat /\ i >= 1
    BY <1>4, PlanShape
  <2>2. QED
    BY <1>3, <2>1
<1>8. RecordSound(t)'
  BY <1>2, <1>3, <1>5, <1>6, <1>7 DEF RecordSound
<1>9. QED
  BY <1>1, <1>8, OneRecordChanges

(* An operation that succeeds is appended with its writes staged; one that *)
(* fails ends the execution.                                               *)
LEMMA OperationKeepsRecords ==
  ASSUME IInv, RecordsSound, NEW t \in Txn, state[t] = "Executing",
         NEW op \in Operations(plan[t]),
         RunFails(t) \/ StageFails(t, op) \/ Succeeds(t, op),
         UNCHANGED <<plan, reserved, receipt, ordinal>>,
         next' \in [Txn -> Nat],
         \A u \in Txn : u # t => next'[u] = next[u],
         next' = next \/ ~Succeeds(t, op)
           \/ (op = plan[t].ops[next[t]] /\ next[t] # 0
               /\ next'[t] = IF next[t] < Len(plan[t].ops) THEN next[t] + 1 ELSE 0)
  PROVE  RecordsSound'
<1> USE DEF IInv, TypeOK
<1>0. RecordSound(t) /\ next[t] \in Nat
  BY DEF RecordsSound
<1>1. StagedWrites(op) \subseteq DeclaredWriteSet(plan[t])
  BY DEF DeclaredWriteSet
<1>2. CASE RunFails(t) \/ StageFails(t, op)
  <2>1. /\ executed' = executed /\ events' = events
        /\ state' = [state EXCEPT ![t] = "Failed"]
        /\ \E before \in SUBSET StagedWrites(op) :
             stagedSet' = [stagedSet EXCEPT ![t] = @ \cup before]
    <3>1. CASE RunFails(t)
      <4>1. stagedSet' = [stagedSet EXCEPT ![t] = @ \cup {}]
        BY <3>1 DEF RunFails
      <4>2. QED
        BY <3>1, <4>1 DEF RunFails, Fail
    <3>2. CASE StageFails(t, op)
      BY <3>2 DEF StageFails, Fail
    <3>3. QED
      BY <1>2, <3>1, <3>2
  <2>2. PICK before \in SUBSET StagedWrites(op) :
          stagedSet' = [stagedSet EXCEPT ![t] = @ \cup before]
    BY <2>1
  <2>3. OthersKept(t)
    BY <2>1, <2>2 DEF OthersKept, RecordsSound
  <2>4. RecordSound(t)'
    <3>1. plan[t] \in Plans /\ PlanAccepted(plan[t])
      BY <1>0 DEF RecordSound, InFlight
    <3>2. /\ state'[t] = "Failed" /\ plan'[t] = plan[t]
          /\ stagedSet'[t] = stagedSet[t] \cup before
          /\ Ran(t)' = Ran(t) /\ executed'[t] = executed[t]
      BY <2>1, <2>2 DEF Ran
    <3>3. \A o \in Ran(t) : StagedWrites(o) \subseteq stagedSet'[t]
      BY <1>0, <3>2 DEF RecordSound
    <3>4. stagedSet'[t] \subseteq DeclaredWriteSet(plan[t])
      BY <1>0, <1>1, <3>2 DEF RecordSound
    <3>5. QED
      BY <1>0, <3>1, <3>2, <3>3, <3>4 DEF RecordSound
  <2>5. QED
    BY <2>3, <2>4, OneRecordChanges
<1>3. CASE Succeeds(t, op)
  <2>1. /\ stagedSet' = [stagedSet EXCEPT ![t] = @ \cup StagedWrites(op)]
        /\ executed' = [executed EXCEPT ![t] = Append(@, op)]
        /\ \E more : events' = [events EXCEPT ![t] = @ \cup more]
        /\ state' = state
    BY <1>3 DEF Succeeds
  <2>2. OthersKept(t)
    BY <2>1 DEF OthersKept, RecordsSound
  <2>3. executed'[t] = Append(executed[t], op) /\ executed[t] \in Seq(Operations(plan[t]))
    BY <1>0, <2>1 DEF RecordsSound, RecordSound
  <2>4. Ran(t)' = Ran(t) \cup {op}
    <3>1. Members(Append(executed[t], op)) = Members(executed[t]) \cup {op}
      BY <2>3, AppendedMembers
    <3>2. QED
      BY <2>3, <3>1 DEF Ran
  <2>5. \A i \in DOMAIN plan[t].ops : next'[t] = 0 \/ i < next'[t] => plan[t].ops[i] \in Ran(t)'
    <3> SUFFICES ASSUME NEW i \in DOMAIN plan[t].ops, next'[t] = 0 \/ i < next'[t]
                 PROVE  plan[t].ops[i] \in Ran(t)'
      OBVIOUS
    <3>1. plan[t].ops \in Seq(Operations(plan[t]))
      BY PlanShape
    <3>2. CASE next' = next
      BY <1>0, <2>4, <3>2 DEF RecordSound
    <3>3. CASE /\ op = plan[t].ops[next[t]] /\ next[t] # 0
               /\ next'[t] = IF next[t] < Len(plan[t].ops) THEN next[t] + 1 ELSE 0
      <4>1. i < next[t] \/ i = next[t]
        BY <1>0, <3>1, <3>3 DEF ReservationRecorded
      <4>2. QED
        BY <1>0, <2>4, <3>3, <4>1 DEF RecordSound
    <3>4. QED
      BY <1>3, <3>2, <3>3
  <2>6. executed'[t] \in Seq(Operations(plan[t]))
    BY <2>3
  <2>7. RecordSound(t)'
    <3>1. plan[t] \in Plans /\ PlanAccepted(plan[t])
      BY <1>0 DEF RecordSound, InFlight
    <3>2. /\ state'[t] = "Executing"
          /\ stagedSet'[t] = stagedSet[t] \cup StagedWrites(op)
      BY <2>1
    <3>3. \A o \in Ran(t)' : StagedWrites(o) \subseteq stagedSet'[t]
      BY <1>0, <2>4, <3>2 DEF RecordSound
    <3>4. stagedSet'[t] \subseteq DeclaredWriteSet(plan[t])
      BY <1>0, <1>1, <3>2 DEF RecordSound
    <3>5. QED
      BY <2>5, <2>6, <3>1, <3>2, <3>3, <3>4 DEF RecordSound, InFlight
  <2>8. QED
    BY <2>2, <2>7, OneRecordChanges
<1>4. QED
  BY <1>2, <1>3

(* execute's loop leaves no operation out: what lies before its position    *)
(* has run, and all of it when it ends.                                    *)
LEMMA LoopKeepsRecords ==
  ASSUME IInv, RecordsSound, NEW t \in Txn, ExecuteNext(t) \/ ExecuteOperation(t)
  PROVE  RecordsSound'
<1> USE DEF IInv, TypeOK
<1>1. CASE ExecuteNext(t)
  <2> DEFINE op == plan[t].ops[next[t]]
  <2>1. next[t] # 0 /\ state[t] = "Executing" /\ next[t] \in DOMAIN plan[t].ops
    BY <1>1 DEF ExecuteNext, ReservationRecorded
  <2>2. op \in Operations(plan[t])
    BY <2>1 DEF Operations
  <2>3. UNCHANGED <<plan, reserved, receipt, ordinal>>
    BY <1>1 DEF ExecuteNext
  <2>4. CASE (RunFails(t) \/ StageFails(t, op)) /\ next' = [next EXCEPT ![t] = 0]
    <3>1. state'[t] = "Failed"
      BY <2>4 DEF RunFails, StageFails, Fail
    <3>2. ~Succeeds(t, op)
      BY <2>1, <3>1 DEF Succeeds
    <3>3. next' \in [Txn -> Nat] /\ \A u \in Txn : u # t => next'[u] = next[u]
      BY <2>4
    <3> HIDE DEF op, IInv, TypeOK
    <3>4. QED
      BY <2>1, <2>2, <2>3, <2>4, <3>2, <3>3, OperationKeepsRecords
  <2>5. CASE /\ Succeeds(t, op)
             /\ next' = [next EXCEPT ![t] =
                           IF next[t] < Len(plan[t].ops) THEN next[t] + 1 ELSE 0]
    <3>1. plan[t].ops \in Seq(Operations(plan[t])) /\ Len(plan[t].ops) \in Nat
      BY PlanShape
    <3>2. /\ next' \in [Txn -> Nat] /\ \A u \in Txn : u # t => next'[u] = next[u]
          /\ next'[t] = IF next[t] < Len(plan[t].ops) THEN next[t] + 1 ELSE 0
      BY <2>5, <3>1
    <3>3. op = plan[t].ops[next[t]]
      OBVIOUS
    <3> HIDE DEF op, IInv, TypeOK
    <3>4. QED
      BY <2>1, <2>2, <2>3, <2>5, <3>2, <3>3, OperationKeepsRecords
  <2>6. QED
    BY <1>1, <2>4, <2>5 DEF ExecuteNext
<1>2. CASE ExecuteOperation(t)
  <2>1. PICK op \in Operations(plan[t]) : RunFails(t) \/ StageFails(t, op) \/ Succeeds(t, op)
    BY <1>2 DEF ExecuteOperation
  <2>2. next' = next /\ next' \in [Txn -> Nat]
    BY <1>2 DEF ExecuteOperation
  <2>3. state[t] = "Executing" /\ UNCHANGED <<plan, reserved, receipt, ordinal>>
    BY <1>2 DEF ExecuteOperation
  <2> HIDE DEF IInv, TypeOK
  <2>4. QED
    BY <2>1, <2>2, <2>3, OperationKeepsRecords
<1>3. QED
  BY <1>1, <1>2

(* commit goes through only at the boundary, outside of the loop. *)
LEMMA CommitKeepsRecords ==
  ASSUME IInv, RecordsSound, NEW t \in Txn,
         CommitNotReached(t) \/ CommitFails(t) \/ Commit(t)
  PROVE  RecordsSound'
<1> USE DEF IInv, TypeOK
<1>1. /\ state[t] = "Executing" /\ next[t] = 0
      /\ UNCHANGED <<plan, next, stagedSet, executed>>
      /\ events' = [events EXCEPT ![t] = Refreshed(t)]
  BY DEF CommitNotReached, CommitFails, Commit, InCall
<1>2. RecordSound(t)
  BY DEF RecordsSound
<1>3. \/ state' = state /\ receipt' = receipt
      \/ state' = [state EXCEPT ![t] = "Failed"] /\ receipt' = receipt
      \/ /\ state' = [state EXCEPT ![t] = "Committed"] /\ BoundaryReached(t)
         /\ \E r : receipt' = [receipt EXCEPT ![t] = r] /\ r.released = reserved[t]
  <2>1. CASE Commit(t)
    <3> DEFINE r == [decision |-> "Committed", ordinal |-> ordinal + 1,
                     published |-> publishedBytes', released |-> reserved[t], retired |-> {}]
    <3>1. receipt' = [receipt EXCEPT ![t] = r] /\ r.released = reserved[t]
      BY <2>1 DEF Commit
    <3>2. QED
      BY <2>1, <3>1 DEF Commit
  <2>2. QED
    BY <2>1 DEF CommitNotReached, CommitFails, Fail
<1>4. OthersKept(t)
  BY <1>1, <1>3 DEF OthersKept, RecordsSound
<1>5. /\ Ran(t)' = Ran(t) /\ plan'[t] = plan[t] /\ stagedSet'[t] = stagedSet[t]
      /\ executed'[t] = executed[t] /\ next'[t] = 0
  BY <1>1 DEF Ran
<1>6. plan[t] \in Plans /\ PlanAccepted(plan[t])
  BY <1>1, <1>2 DEF RecordSound, InFlight
<1>7. CASE state'[t] # "Committed"
  <2>1. state'[t] \in {"Executing", "Failed"}
    BY <1>1, <1>3, <1>7
  <2>2. QED
    <3>1. RecordSound(t)'
      BY <1>1, <1>2, <1>5, <1>6, <2>1 DEF RecordSound
    <3>2. QED
      BY <1>4, <3>1, OneRecordChanges
<1>8. CASE state'[t] = "Committed"
  <2>1. BoundaryReached(t) /\ receipt'[t].released = reserved[t]
    BY <1>1, <1>3, <1>8 DEF RecordsSound
  <2>2. Operations(plan[t]) = Ran(t)
    <3>1. Ran(t) \subseteq Operations(plan[t])
      BY <1>2 DEF RecordSound, Ran, Members
    <3>2. Operations(plan[t]) \subseteq Ran(t)
      BY <1>1, <1>2 DEF RecordSound, Operations
    <3>3. QED
      BY <3>1, <3>2
  <2>3. BoundaryEvents(plan[t]) \subseteq events'[t]
    BY <1>1, <2>1 DEF BoundaryReached, RecordsSound
  <2>4. reserved[t] = Referenced(plan[t])
    BY <1>1 DEF ReservationRecorded, InFlight
  <2>5. RecordSound(t)'
    BY <1>2, <1>5, <1>6, <1>8, <2>1, <2>2, <2>3, <2>4 DEF RecordSound
  <2>6. QED
    BY <1>4, <2>5, OneRecordChanges
<1>9. QED
  BY <1>7, <1>8

(* abort changes only the decision and the receipt. *)
LEMMA AbortKeepsRecords ==
  ASSUME IInv, RecordsSound, NEW t \in Txn, Abort(t)
  PROVE  RecordsSound'
<1> USE DEF IInv, TypeOK
<1>1. /\ state' = [state EXCEPT ![t] = "Aborted"]
      /\ state[t] \in {"New", "Prepared", "Executing", "Failed"}
      /\ UNCHANGED <<plan, next, stagedSet, executed, events>>
      /\ \E r : receipt' = [receipt EXCEPT ![t] = r]
  BY DEF Abort
<1>2. RecordSound(t)
  BY DEF RecordsSound
<1>3. OthersKept(t)
  BY <1>1 DEF OthersKept, RecordsSound
<1>4. /\ Ran(t)' = Ran(t) /\ plan'[t] = plan[t] /\ stagedSet'[t] = stagedSet[t]
      /\ executed'[t] = executed[t] /\ state'[t] = "Aborted"
  BY <1>1 DEF Ran
<1>5. plan[t] \in Plans
  BY <1>1, <1>2 DEF RecordSound
<1>6. RecordSound(t)'
  BY <1>2, <1>4, <1>5 DEF RecordSound, InFlight
<1>7. QED
  BY <1>3, <1>6, OneRecordChanges

(* Every step keeps the records sound. *)
LEMMA NextKeepsRecords ==
  ASSUME IInv, RecordsSound, [Next]_vars
  PROVE  RecordsSound'
<1>1. ASSUME UNCHANGED txnVars PROVE RecordsSound'
  <2>1. /\ state' = state /\ plan' = plan /\ next' = next /\ stagedSet' = stagedSet
        /\ executed' = executed /\ events' = events /\ receipt' = receipt
    BY <1>1 DEF txnVars
  <2>2. ASSUME NEW t \in Txn PROVE RecordSound(t)'
    <3>1. Ran(t)' = Ran(t)
      BY <2>1 DEF Ran
    <3>2. RecordSound(t)
      BY DEF RecordsSound
    <3>3. QED
      BY <2>1, <3>1, <3>2 DEF RecordSound
  <2>3. QED
    BY <2>1, <2>2 DEF RecordsSound
<1>2. CASE DeviceCompletes \/ UNCHANGED vars
  BY <1>1, <1>2 DEF DeviceCompletes, vars
<1>3. ASSUME NEW t \in Txn,
             \/ New(t) \/ Prepare(t) \/ Execute(t) \/ ExecuteNext(t)
             \/ ExecuteOperation(t) \/ CommitNotReached(t)
             \/ CommitFails(t) \/ Commit(t) \/ Abort(t)
      PROVE  RecordsSound'
  BY <1>3, NewKeepsRecords, PrepareKeepsRecords, ExecuteKeepsRecords, LoopKeepsRecords,
     CommitKeepsRecords, AbortKeepsRecords
<1>4. QED
  BY <1>2, <1>3 DEF Next

(* A committed transaction ran its whole plan, saw its boundary complete   *)
(* and gave back each reservation.                                         *)
THEOREM CommitRanItsPlan == Spec => []CommittedRanItsPlan
<1>1. IInv /\ RecordsSound /\ [Next]_vars => RecordsSound'
  BY NextKeepsRecords
<1>2. RecordsSound => CommittedRanItsPlan
  BY DEF RecordsSound, RecordSound, CommittedRanItsPlan, Ran, Members
<1>3. QED
  BY <1>1, <1>2, InitRecords, IInvInvariant, PTL DEF Spec
----------------------------------------------------------------------------
(* Every staged write is a declared write of some plan, with a size. *)
LEMMA StagedHaveSizes ==
  ASSUME RecordsSound, StagedBy
  PROVE  \A w \in staged : w.bytes \in Nat
<1> SUFFICES ASSUME NEW w \in staged PROVE w.bytes \in Nat
  OBVIOUS
<1>1. PICK t \in Txn : w \in By(t, stagedSet[t]) /\ state[t] \in InFlight \cup {"Committed"}
  BY DEF StagedBy
<1>2. plan[t] \in Plans /\ stagedSet[t] \in SUBSET DeclaredWriteSet(plan[t])
  BY <1>1 DEF RecordsSound, RecordSound, InFlight
<1>3. QED
  BY <1>1, <1>2, NamedBytes

(* What plans declare is finitely many writes with a size. *)
LEMMA DeclaredByAllShape ==
  ASSUME NEW q \in [Txn -> Plans \cup {NoPlan}]
  PROVE  LET All == UNION {By(t, DeclaredWriteSet(q[t])) : t \in Txn}
         IN  IsFiniteSet(All) /\ \A w \in All : w.bytes \in Nat
<1> DEFINE D == [t \in Txn |-> By(t, DeclaredWriteSet(q[t]))]
           Ds == {By(t, DeclaredWriteSet(q[t])) : t \in Txn}
<1>1. ASSUME NEW t \in Txn
      PROVE  IsFiniteSet(D[t]) /\ \A w \in D[t] : w.bytes \in Nat
  <2>1. CASE q[t] \in Plans
    BY <2>1, NamedBytes
  <2>2. CASE q[t] = NoPlan
    <3>1. D[t] = {}
      BY <2>2, NoOperations DEF By
    <3>2. QED
      BY <3>1, FS_EmptySet
  <2>3. QED
    BY <2>1, <2>2
<1>2. D \in Surjection(Txn, Ds)
  BY DEF Surjection
<1>3. IsFiniteSet(Ds)
  BY <1>2, TxnAssumption, FS_Surjection
<1>4. IsFiniteSet(UNION Ds)
  BY <1>1, <1>3, FS_UNION
<1>5. QED
  BY <1>1, <1>4

(* What is staged was declared. *)
LEMMA StagedWasDeclared ==
  ASSUME RecordsSound, StagedBy
  PROVE  staged \subseteq DeclaredByAll
<1> SUFFICES ASSUME NEW w \in staged PROVE w \in DeclaredByAll
  OBVIOUS
<1>1. PICK t \in Txn : w \in By(t, stagedSet[t])
  BY DEF StagedBy
<1>2. stagedSet[t] \subseteq DeclaredWriteSet(plan[t])
  BY DEF RecordsSound, RecordSound
<1>3. QED
  BY <1>1, <1>2 DEF DeclaredByAll, By

(* Declarations are never taken back: if they fit now they did before. *)
LEMMA FitsEarlier ==
  ASSUME IInv, RecordsSound, [Next]_vars, StagingFits'
  PROVE  StagingFits
<1>1. /\ plan' \in [Txn -> Plans \cup {NoPlan}]
      /\ \A t \in Txn : plan'[t] = plan[t] \/ plan[t] = NoPlan
  <2>1. plan \in [Txn -> Plans \cup {NoPlan}]
    BY DEF IInv, TypeOK
  <2>2. ASSUME NEW u \in Txn, New(u)
        PROVE  /\ plan' \in [Txn -> Plans \cup {NoPlan}]
               /\ \A t \in Txn : plan'[t] = plan[t] \/ plan[t] = NoPlan
    BY <2>1, <2>2 DEF New, RecordsSound, RecordSound
  <2>3. ASSUME NEW u \in Txn,
               \/ Prepare(u) \/ Execute(u) \/ ExecuteNext(u) \/ ExecuteOperation(u)
               \/ CommitNotReached(u) \/ CommitFails(u) \/ Commit(u) \/ Abort(u)
        PROVE  plan' = plan
    BY <2>3 DEF Prepare, Execute, ExecuteNext, ExecuteOperation, CommitNotReached,
                CommitFails, Commit, Abort
  <2>4. ASSUME DeviceCompletes \/ UNCHANGED vars PROVE plan' = plan
    BY <2>4 DEF DeviceCompletes, vars, txnVars
  <2>5. QED
    BY <2>1, <2>2, <2>3, <2>4 DEF Next
<1>2. DeclaredByAll \subseteq DeclaredByAll'
  <2>1. \A t \in Txn : By(t, DeclaredWriteSet(plan[t])) \subseteq By(t, DeclaredWriteSet(plan'[t]))
    BY <1>1, NoOperations DEF By
  <2>2. QED
    BY <2>1 DEF DeclaredByAll
<1>3. IsFiniteSet(DeclaredByAll') /\ \A w \in DeclaredByAll' : w.bytes \in Nat
  BY <1>1, DeclaredByAllShape DEF DeclaredByAll
<1>4. WriteBytes(DeclaredByAll) <= WriteBytes(DeclaredByAll')
  BY <1>2, <1>3, WriteBytesGrow
<1>5. WriteBytes(DeclaredByAll) \in Nat /\ WriteBytes(DeclaredByAll') \in Nat
  BY <1>2, <1>3, FS_Subset, WriteBytesType
<1>6. WriteBytes(DeclaredByAll') <= MaxU64
  BY DEF StagingFits
<1>7. QED
  BY <1>4, <1>5, <1>6, BytesAssumption DEF StagingFits

(* A step that stages nothing, drops nothing and ends no transaction with  *)
(* an abort keeps the staging as it is.                                    *)
LEMMA StagingKept ==
  ASSUME StagedBy, BytesExact, UNCHANGED <<staged, stagedBytes, stagedSet>>,
         StagingFits' => StagingFits,
         publishedOnce => publishedOnce',
         \A u \in Txn : state'[u] \in InFlight => state[u] \in InFlight \/ stagedSet[u] = {},
         \A u \in Txn : state[u] \in InFlight \cup {"Committed"} =>
           /\ state'[u] \in InFlight \cup {"Committed"}
           /\ state'[u] = "Committed" => state[u] = "Committed" \/ publishedOnce'
  PROVE  StagedBy' /\ BytesExact'
<1>1. ASSUME NEW u \in Txn, state'[u] \in InFlight
      PROVE  By(u, stagedSet'[u]) \subseteq staged'
  BY <1>1 DEF StagedBy, By
<1>2. ASSUME NEW w \in staged'
      PROVE  \E t \in Txn : /\ w \in By(t, stagedSet'[t])
                            /\ state'[t] \in InFlight \cup {"Committed"}
                            /\ state'[t] = "Committed" => publishedOnce'
  <2>1. PICK t \in Txn : /\ w \in By(t, stagedSet[t])
                         /\ state[t] \in InFlight \cup {"Committed"}
                         /\ state[t] = "Committed" => publishedOnce
    BY DEF StagedBy
  <2>2. QED
    BY <2>1
<1>3. StagedBy'
  BY <1>1, <1>2 DEF StagedBy
<1>4. BytesExact'
  BY DEF BytesExact
<1>5. QED
  BY <1>3, <1>4

(* A fresh start drops everything: no transaction in flight has a write    *)
(* staged, because it would hold the partition it is on.                   *)
LEMMA PrepareKeepsStaging ==
  ASSUME IInv, SInv, NEW t \in Txn, Prepare(t)
  PROVE  StagedBy' /\ BytesExact'
<1> USE DEF IInv, SInv, TypeOK
<1>1. /\ state[t] = "New" /\ stagedSet' = stagedSet
      /\ state' = [state EXCEPT ![t] = "Prepared"] \/ state' = state
  BY DEF Prepare
<1>2. stagedSet[t] = {}
  BY <1>1 DEF RecordsSound, RecordSound
<1>3. \A u \in Txn : state'[u] \in InFlight => state[u] \in InFlight \/ stagedSet[u] = {}
  BY <1>1, <1>2
<1>4. \A u \in Txn : state[u] \in InFlight \cup {"Committed"} => state'[u] = state[u]
  BY <1>1 DEF InFlight
<1>5. CASE UNCHANGED executionVars
  <2>1. UNCHANGED <<staged, stagedBytes, publishedOnce>> /\ (StagingFits' => StagingFits)
    BY <1>5 DEF executionVars, Prepare, StagingFits, DeclaredByAll
  <2> HIDE DEF IInv, TypeOK
  <2>2. QED
    BY <1>1, <1>3, <1>4, <2>1, StagingKept
<1>6. CASE /\ \A p \in Partition : holder[p] = NoTxn
           /\ staged' = {} /\ stagedBytes' = 0
  <2>1. ASSUME NEW u \in Txn, state'[u] \in InFlight
        PROVE  stagedSet[u] = {}
    <3>1. CASE state[u] \in InFlight
      <4>1. \A p \in reserved[u] : p \in Partition /\ holder[p] = u
        BY <3>1 DEF ReservationsExclude
      <4>2. reserved[u] = {}
        BY <1>6, <4>1, TxnAssumption
      <4>3. QED
        BY <4>2 DEF StagedOnReserved
    <3>2. QED
      BY <1>3, <2>1, <3>1
  <2>2. StagedBy'
    BY <1>1, <1>6, <2>1 DEF StagedBy, By
  <2>3. BytesExact'
    BY <1>6, NoBytes, FS_EmptySet, BytesAssumption DEF BytesExact
  <2>4. QED
    BY <2>2, <2>3
<1>7. QED
  BY <1>5, <1>6 DEF Prepare, BeginFreshTransactionIfNeeded

(* Staging writes that are not staged yet adds them and their bytes. *)
LEMMA StagingAdds ==
  ASSUME IInv, SInv, NEW t \in Txn, state[t] = "Executing",
         NEW op \in Operations(plan[t]), NEW more \in SUBSET StagedWrites(op),
         ~\E w \in more : StagedTwice(w), StageWrites(t, more),
         stagedSet' = [stagedSet EXCEPT ![t] = @ \cup more],
         publishedOnce' = publishedOnce, plan' = plan,
         state' = state \/ state' = [state EXCEPT ![t] = "Failed"]
  PROVE  StagedBy' /\ BytesExact'
<1> USE DEF IInv, SInv, TypeOK
<1>1. /\ staged' = staged \cup By(t, more)
      /\ stagedBytes' = Min({stagedBytes + WriteBytes(more), MaxU64})
  BY DEF StageWrites
<1>2. plan[t] \in Plans /\ more \in SUBSET DeclaredWriteSet(plan[t])
  BY DEF RecordsSound, RecordSound, DeclaredWriteSet
<1>3. /\ IsFiniteSet(By(t, more)) /\ \A w \in By(t, more) : w.bytes \in Nat
      /\ WriteBytes(By(t, more)) = WriteBytes(more)
  BY <1>2, NamedBytes
<1>4. staged \cap By(t, more) = {}
  <2> SUFFICES ASSUME NEW v \in staged, v \in By(t, more) PROVE FALSE
    OBVIOUS
  <2>1. PICK w \in more : v = Named(t, w)
    BY ByElement
  <2>2. v.out = w.out
    BY <2>1 DEF Named
  <2>3. QED
    BY <2>2 DEF StagedTwice
<1>5. BytesExact'
  <2>1. WriteBytes(staged \cup By(t, more)) = WriteBytes(staged) + WriteBytes(By(t, more))
    BY <1>3, <1>4, StagedHaveSizes, WriteBytesAdd DEF BytesExact
  <2>2. IsFiniteSet(staged \cup By(t, more))
    BY <1>3, FS_Union DEF BytesExact
  <2>3. staged \cup By(t, more) \subseteq DeclaredByAll
    BY <1>2, StagedWasDeclared DEF DeclaredByAll, By
  <2>4. /\ IsFiniteSet(DeclaredByAll) /\ \A w \in DeclaredByAll : w.bytes \in Nat
    BY DeclaredByAllShape DEF DeclaredByAll
  <2>5. WriteBytes(staged \cup By(t, more)) <= WriteBytes(DeclaredByAll)
    BY <2>3, <2>4, WriteBytesGrow
  <2>6. WriteBytes(more) \in Nat /\ stagedBytes \in 0..MaxU64 /\ MaxU64 \in Nat
    BY <1>3, WriteBytesType, BytesAssumption DEF BytesExact
  <2>7. /\ stagedBytes' \in 0..MaxU64
        /\ stagedBytes + WriteBytes(more) <= MaxU64 => stagedBytes' = stagedBytes + WriteBytes(more)
    BY <1>1, <2>6, CeilingStays
  <2>8. ASSUME StagingFits
        PROVE  stagedBytes' = WriteBytes(staged \cup By(t, more))
    <3>1. stagedBytes + WriteBytes(more) = WriteBytes(staged \cup By(t, more))
      BY <1>3, <2>1, <2>8 DEF BytesExact
    <3>2. WriteBytes(staged \cup By(t, more)) <= MaxU64
      <4>1. WriteBytes(DeclaredByAll) \in Nat /\ WriteBytes(DeclaredByAll) <= MaxU64
        BY <2>4, <2>8, WriteBytesType DEF StagingFits
      <4>2. WriteBytes(staged \cup By(t, more)) \in Nat
        BY <2>3, <2>4, FS_Subset, WriteBytesType
      <4>3. QED
        BY <2>5, <2>6, <4>1, <4>2
    <3>3. QED
      BY <2>7, <3>1, <3>2
  <2>9. StagingFits' => StagingFits
    BY DEF StagingFits, DeclaredByAll
  <2>10. QED
    BY <1>1, <2>2, <2>7, <2>8, <2>9 DEF BytesExact
<1>6. /\ stagedSet'[t] = stagedSet[t] \cup more
      /\ \A u \in Txn : u # t => stagedSet'[u] = stagedSet[u] /\ state'[u] = state[u]
      /\ state'[t] \in InFlight /\ state[t] \in InFlight
  BY DEF InFlight
<1>7. By(t, stagedSet'[t]) = By(t, stagedSet[t]) \cup By(t, more)
  BY <1>6 DEF By
<1>8. ASSUME NEW u \in Txn, state'[u] \in InFlight
      PROVE  By(u, stagedSet'[u]) \subseteq staged'
  <2>1. CASE u = t
    BY <1>1, <1>6, <1>7, <2>1 DEF StagedBy
  <2>2. CASE u # t
    BY <1>1, <1>6, <1>8, <2>2 DEF StagedBy
  <2>3. QED
    BY <2>1, <2>2
<1>9. ASSUME NEW w \in staged'
      PROVE  \E u \in Txn : /\ w \in By(u, stagedSet'[u])
                            /\ state'[u] \in InFlight \cup {"Committed"}
                            /\ state'[u] = "Committed" => publishedOnce'
  <2>1. CASE w \in By(t, more)
    <3>1. w \in By(t, stagedSet'[t]) /\ state'[t] # "Committed"
      BY <1>6, <1>7, <2>1 DEF InFlight
    <3>2. QED
      BY <1>6, <3>1
  <2>2. CASE w \in staged
    <3>1. PICK u \in Txn : /\ w \in By(u, stagedSet[u])
                           /\ state[u] \in InFlight \cup {"Committed"}
                           /\ state[u] = "Committed" => publishedOnce
      BY <2>2 DEF StagedBy
    <3>2. w \in By(u, stagedSet'[u])
      BY <1>6, <1>7, <3>1
    <3>3. state'[u] \in InFlight \cup {"Committed"} /\ (state'[u] = "Committed" => publishedOnce')
      BY <1>6, <3>1 DEF InFlight
    <3>4. QED
      BY <3>2, <3>3
  <2>3. QED
    BY <1>1, <2>1, <2>2
<1>10. StagedBy'
  BY <1>8, <1>9 DEF StagedBy
<1>11. QED
  BY <1>5, <1>10

(* Running an operation stages a part of its writes, all or none of which  *)
(* were there before.                                                      *)
LEMMA OperationKeepsStaging ==
  ASSUME IInv, SInv, NEW t \in Txn, ExecuteNext(t) \/ ExecuteOperation(t)
  PROVE  StagedBy' /\ BytesExact'
<1>1. state[t] = "Executing"
  BY DEF ExecuteNext, ExecuteOperation, IInv, ReservationRecorded
<1>2. PICK op \in Operations(plan[t]) : RunFails(t) \/ StageFails(t, op) \/ Succeeds(t, op)
  <2>1. CASE ExecuteNext(t)
    <3>1. plan[t].ops[next[t]] \in Operations(plan[t])
      BY <2>1 DEF ExecuteNext, IInv, ReservationRecorded, Operations
    <3>2. QED
      BY <2>1, <3>1 DEF ExecuteNext
  <2>2. CASE ExecuteOperation(t)
    BY <2>2 DEF ExecuteOperation
  <2>3. QED
    BY <2>1, <2>2
<1>3. plan' = plan
  BY DEF ExecuteNext, ExecuteOperation
<1>4. CASE RunFails(t)
  <2>1. /\ UNCHANGED <<staged, stagedBytes, stagedSet, publishedOnce>>
        /\ state' = [state EXCEPT ![t] = "Failed"]
    BY <1>4 DEF RunFails, Fail, backendVars
  <2>2. state'[t] = "Failed" /\ \A u \in Txn : u # t => state'[u] = state[u]
    BY <2>1 DEF IInv, TypeOK
  <2>3. StagingFits' => StagingFits
    BY <1>3 DEF StagingFits, DeclaredByAll
  <2>4. QED
    BY <1>1, <2>1, <2>2, <2>3, StagingKept DEF SInv, InFlight
<1>5. CASE StageFails(t, op)
  <2>1. PICK bad \in StagedWrites(op) :
          LET before == {w \in StagedWrites(op) : w.partition < bad.partition}
          IN  /\ ~\E w \in before : StagedTwice(w)
              /\ StageWrites(t, before)
              /\ stagedSet' = [stagedSet EXCEPT ![t] = @ \cup before]
    BY <1>5 DEF StageFails
  <2> DEFINE before == {w \in StagedWrites(op) : w.partition < bad.partition}
  <2>2. /\ before \in SUBSET StagedWrites(op)
        /\ ~\E w \in before : StagedTwice(w)
        /\ StageWrites(t, before)
        /\ stagedSet' = [stagedSet EXCEPT ![t] = @ \cup before]
    BY <2>1
  <2> HIDE DEF before
  <2>3. publishedOnce' = publishedOnce /\ state' = [state EXCEPT ![t] = "Failed"]
    BY <1>5 DEF StageFails, Fail
  <2>4. QED
    BY <1>1, <1>3, <2>2, <2>3, StagingAdds
<1>6. CASE Succeeds(t, op)
  BY <1>1, <1>3, <1>6, StagingAdds DEF Succeeds
<1>7. QED
  BY <1>2, <1>4, <1>5, <1>6

(* Where no partition is retired no byte is taken off. *)
LEMMA NothingRetired == RetiredBytes({}) = 0
<1> DEFINE f == [p \in {} |-> Wrapped(WriteBytes({w \in staged : w.partition = p}))]
<1>1. Units(f) = {}
  BY DEF Units
<1>2. QED
  BY <1>1, FS_EmptySet DEF RetiredBytes, Total

(* What retirements take off is a sum of u64, and if all that is staged    *)
(* fits a u64 it is the size of what they drop.                            *)
LEMMA RetiredExactly ==
  ASSUME IsFiniteSet(staged), \A w \in staged : w.bytes \in Nat,
         NEW retired, IsFiniteSet(retired)
  PROVE  /\ RetiredBytes(retired) \in Nat
         /\ WriteBytes(staged) <= MaxU64 =>
              RetiredBytes(retired) = WriteBytes({w \in staged : w.partition \in retired})
<1> DEFINE on(p) == {w \in staged : w.partition = p}
           f == [p \in retired |-> Wrapped(WriteBytes(on(p)))]
           dropped == {w \in staged : w.partition \in retired}
<1>1. ASSUME NEW p \in retired
      PROVE  WriteBytes(on(p)) \in Nat /\ WriteBytes(on(p)) <= WriteBytes(staged)
  <2>1. on(p) \in SUBSET staged /\ IsFiniteSet(on(p))
    BY FS_Subset
  <2> HIDE DEF on
  <2>2. QED
    BY <2>1, WriteBytesType, WriteBytesGrow
<1>2. ASSUME NEW p \in retired
      PROVE  /\ Wrapped(WriteBytes(on(p))) \in Nat
             /\ WriteBytes(staged) <= MaxU64 => Wrapped(WriteBytes(on(p))) = WriteBytes(on(p))
  <2>1. WriteBytes(staged) \in Nat
    BY WriteBytesType
  <2> HIDE DEF on
  <2>2. QED
    BY <1>1, <2>1, WrappedFits, BytesAssumption
<1>3. f \in [retired -> Nat]
  BY <1>2
<1>4. RetiredBytes(retired) = Total(f)
  BY DEF RetiredBytes
<1>5. Total(f) \in Nat
  <2> HIDE DEF f
  <2>1. QED
    BY <1>3, TotalType
<1>6. ASSUME WriteBytes(staged) <= MaxU64
      PROVE  RetiredBytes(retired) = WriteBytes(dropped)
  <2>1. f = [p \in retired |-> WriteBytes({w \in dropped : w.partition = p})]
    <3>1. \A p \in retired : {w \in dropped : w.partition = p} = on(p)
      OBVIOUS
    <3> HIDE DEF on, dropped
    <3>2. QED
      BY <1>2, <1>6, <3>1
  <2>2. IsFiniteSet(dropped) /\ \A w \in dropped : w.bytes \in Nat /\ w.partition \in retired
    BY FS_Subset
  <2> HIDE DEF f, dropped
  <2>3. Total(f) = WriteBytes(dropped)
    BY <2>1, <2>2, BytesByPartition
  <2>4. QED
    BY <1>4, <2>3
<1>7. QED
  BY <1>4, <1>5, <1>6

(* commit leaves the staging area as it is. *)
LEMMA CommitKeepsStaging ==
  ASSUME IInv, SInv, NEW t \in Txn, CommitNotReached(t) \/ CommitFails(t) \/ Commit(t)
  PROVE  StagedBy' /\ BytesExact'
<1> USE DEF IInv, SInv, TypeOK
<1>1. stagedBytes \in Nat
  BY BytesAssumption DEF BytesExact
<1>2. StagingFits' => StagingFits
  <2>1. plan' = plan
    BY DEF Commit, CommitNotReached, CommitFails
  <2> HIDE DEF IInv, SInv, TypeOK
  <2>2. QED
    BY <2>1 DEF StagingFits, DeclaredByAll
<1>3. CASE Commit(t)
  <2>1. /\ {w \in staged : w.partition \notin {}} = staged
        /\ stagedBytes - 0 = stagedBytes
    BY <1>1
  <2>2. RetiredBytes({}) = 0
    BY NothingRetired
  <2>3. UNCHANGED <<staged, stagedBytes>>
    BY <1>1, <1>3, <2>1, <2>2, MaxWithZero DEF Commit, ReleaseAndRetire
  <2>4. /\ stagedSet' = stagedSet /\ publishedOnce'
        /\ state' = [state EXCEPT ![t] = "Committed"] /\ state[t] = "Executing"
    BY <1>3 DEF Commit, Publish
  <2>5. state'[t] = "Committed" /\ \A u \in Txn : u # t => state'[u] = state[u]
    BY <2>4
  <2> HIDE DEF IInv, TypeOK
  <2>6. QED
    BY <1>2, <2>3, <2>4, <2>5, StagingKept DEF InFlight
<1>4. CASE CommitNotReached(t) \/ CommitFails(t)
  <2>1. /\ UNCHANGED <<staged, stagedBytes, stagedSet, publishedOnce>>
        /\ state[t] = "Executing"
        /\ state' = state \/ state' = [state EXCEPT ![t] = "Failed"]
    BY <1>4 DEF CommitNotReached, CommitFails, Fail, backendVars
  <2>2. state'[t] \in {"Executing", "Failed"} /\ \A u \in Txn : u # t => state'[u] = state[u]
    BY <2>1
  <2> HIDE DEF IInv, TypeOK
  <2>3. QED
    BY <1>2, <2>1, <2>2, StagingKept DEF InFlight
<1>5. QED
  BY <1>3, <1>4

(* abort drops the writes of its own partitions, which no other            *)
(* transaction in flight has reserved.                                     *)
LEMMA AbortKeepsStaging ==
  ASSUME IInv, SInv, NEW t \in Txn, Abort(t)
  PROVE  StagedBy' /\ BytesExact'
<1> USE DEF IInv, SInv, TypeOK
<1> DEFINE retired == {w.partition : w \in stagedSet[t]}
           dropped == {w \in staged : w.partition \in retired}
<1>1. /\ staged' = staged \ dropped
      /\ stagedBytes' = Max({stagedBytes - RetiredBytes(retired), 0})
      /\ state[t] \in {"New", "Prepared", "Executing", "Failed"}
      /\ state' = [state EXCEPT ![t] = "Aborted"]
      /\ stagedSet' = stagedSet /\ publishedOnce' = publishedOnce
  BY DEF Abort, ReleaseAndRetire
<1>2. BytesExact'
  <2>1. \A w \in staged : w.bytes \in Nat
    BY StagedHaveSizes
  <2>2. IsFiniteSet(staged) /\ IsFiniteSet(dropped) /\ IsFiniteSet(staged \ dropped)
    BY FS_Subset DEF BytesExact
  <2>3. (staged \ dropped) \cup dropped = staged /\ (staged \ dropped) \cap dropped = {}
    OBVIOUS
  <2>4. IsFiniteSet(retired)
    <3>1. retired \subseteq reserved[t] /\ reserved[t] \subseteq Partition
      BY DEF StagedOnReserved
    <3>2. QED
      BY <3>1, PartitionAssumption, FS_Subset
  <2>5. /\ RetiredBytes(retired) \in Nat
        /\ WriteBytes(staged) <= MaxU64 => RetiredBytes(retired) = WriteBytes(dropped)
    <3> HIDE DEF retired
    <3>1. QED
      BY <2>1, <2>2, <2>4, RetiredExactly
  <2>6. stagedBytes \in 0..MaxU64 /\ MaxU64 \in Nat
    BY BytesAssumption DEF BytesExact
  <2> HIDE DEF dropped, retired
  <2>7. stagedBytes' \in 0..MaxU64
    BY <1>1, <2>5, <2>6, FloorStays
  <2>8. StagingFits' => StagingFits
    BY DEF Abort, StagingFits, DeclaredByAll
  <2>9. WriteBytes(staged) = WriteBytes(staged \ dropped) + WriteBytes(dropped)
    BY <2>1, <2>2, <2>3, WriteBytesAdd
  <2>10. WriteBytes(staged \ dropped) \in Nat /\ WriteBytes(dropped) \in Nat
    BY <2>1, <2>2, <2>3, WriteBytesType
  <2>11. ASSUME StagingFits
        PROVE  stagedBytes' = WriteBytes(staged \ dropped)
    <3>1. stagedBytes = WriteBytes(staged) /\ WriteBytes(staged) <= MaxU64
      BY <2>11, <2>6 DEF BytesExact
    <3>2. stagedBytes - RetiredBytes(retired) = WriteBytes(staged \ dropped)
      BY <2>9, <2>10, <2>5, <3>1
    <3>3. QED
      BY <1>1, <2>10, <3>2, MaxWithZero
  <2>12. QED
    BY <1>1, <2>2, <2>11, <2>7, <2>8 DEF BytesExact
<1>3. \A u \in Txn : u # t => state'[u] = state[u]
  BY <1>1
<1>4. ASSUME NEW u \in Txn, u # t, state[u] \in InFlight, NEW w \in stagedSet[u]
      PROVE  w.partition \notin retired
  <2> SUFFICES ASSUME NEW v \in stagedSet[t], v.partition = w.partition PROVE FALSE
    OBVIOUS
  <2>1. state[t] \in InFlight
    BY <1>1 DEF RecordsSound, RecordSound, InFlight
  <2>2. w.partition \in reserved[u] /\ w.partition \in reserved[t]
    BY DEF StagedOnReserved
  <2>3. holder[w.partition] = u /\ holder[w.partition] = t
    BY <1>4, <2>1, <2>2 DEF ReservationsExclude
  <2>4. QED
    BY <1>4, <2>3
<1>5. ASSUME NEW u \in Txn, state'[u] \in InFlight
      PROVE  By(u, stagedSet'[u]) \subseteq staged'
  <2> SUFFICES ASSUME NEW v \in By(u, stagedSet[u]) PROVE v \in staged /\ v \notin dropped
    BY <1>1
  <2>1. u # t /\ state[u] \in InFlight
    BY <1>1, <1>3, <1>5 DEF InFlight
  <2>2. PICK w \in stagedSet[u] : v = Named(u, w)
    BY ByElement
  <2>3. v.partition \notin retired
    BY <1>4, <2>1, <2>2 DEF Named
  <2>4. QED
    BY <2>1, <2>3 DEF StagedBy
<1>6. ASSUME NEW v \in staged'
      PROVE  \E u \in Txn : /\ v \in By(u, stagedSet'[u])
                            /\ state'[u] \in InFlight \cup {"Committed"}
                            /\ state'[u] = "Committed" => publishedOnce'
  <2>1. v \in staged /\ v.partition \notin retired
    BY <1>1
  <2>2. PICK u \in Txn : /\ v \in By(u, stagedSet[u])
                         /\ state[u] \in InFlight \cup {"Committed"}
                         /\ state[u] = "Committed" => publishedOnce
    BY <2>1 DEF StagedBy
  <2>3. u # t
    <3> SUFFICES ASSUME u = t PROVE FALSE
      OBVIOUS
    <3>1. PICK w \in stagedSet[t] : v = Named(t, w)
      BY <2>2, ByElement
    <3>2. QED
      BY <2>1, <3>1 DEF Named
  <2>4. QED
    BY <1>1, <1>3, <2>2, <2>3
<1>7. StagedBy'
  BY <1>5, <1>6 DEF StagedBy
<1>8. QED
  BY <1>2, <1>7

(* Every step keeps the records, the staging area and its size in step. *)
LEMMA NextKeepsSInv ==
  ASSUME IInv, SInv, [Next]_vars
  PROVE  SInv'
<1>1. RecordsSound'
  BY NextKeepsRecords DEF SInv
<1>2. ASSUME NEW t \in Txn, New(t) \/ Execute(t)
      PROVE  StagedBy' /\ BytesExact'
  <2>1. /\ UNCHANGED <<staged, stagedBytes, stagedSet, publishedOnce>>
        /\ \/ state[t] = "Unborn" /\ state' = [state EXCEPT ![t] = "New"]
           \/ state[t] = "Prepared" /\ state' = [state EXCEPT ![t] = "Executing"]
    BY <1>2 DEF New, Execute, backendVars
  <2>2. \/ state[t] = "Unborn" /\ state'[t] = "New"
        \/ state[t] = "Prepared" /\ state'[t] = "Executing"
    BY <2>1 DEF IInv, TypeOK
  <2>3. \A u \in Txn : u # t => state'[u] = state[u]
    BY <2>1 DEF IInv, TypeOK
  <2>4. stagedSet[t] = {} \/ state[t] = "Prepared"
    BY <2>2 DEF SInv, RecordsSound, RecordSound
  <2>5. StagingFits' => StagingFits
    BY FitsEarlier DEF SInv
  <2>6. QED
    BY <2>1, <2>2, <2>3, <2>4, <2>5, StagingKept DEF SInv, InFlight
<1>3. ASSUME DeviceCompletes \/ UNCHANGED vars
      PROVE  StagedBy' /\ BytesExact'
  <2>1. UNCHANGED <<staged, stagedBytes, stagedSet, publishedOnce>> /\ state' = state
    BY <1>3 DEF DeviceCompletes, CompleteEvent, vars, backendVars, txnVars
  <2>2. StagingFits' => StagingFits
    BY FitsEarlier DEF SInv
  <2>3. QED
    BY <2>1, <2>2, StagingKept DEF SInv
<1>4. ASSUME NEW t \in Txn,
             \/ New(t) \/ Prepare(t) \/ Execute(t) \/ ExecuteNext(t)
             \/ ExecuteOperation(t) \/ CommitNotReached(t)
             \/ CommitFails(t) \/ Commit(t) \/ Abort(t)
      PROVE  StagedBy' /\ BytesExact'
  BY <1>2, <1>4, PrepareKeepsStaging, OperationKeepsStaging, CommitKeepsStaging, AbortKeepsStaging
<1>5. QED
  BY <1>1, <1>3, <1>4 DEF Next, SInv

(* SInv is an invariant of the specification. *)
THEOREM SInvInvariant == Spec => []SInv
<1>1. IInv /\ SInv /\ [Next]_vars => SInv'
  BY NextKeepsSInv
<1>2. Init => SInv
  BY InitRecords DEF SInv
<1>3. QED
  BY <1>1, <1>2, IInvInvariant, PTL DEF Spec

(* An aborted transaction leaves none of its writes staged. *)
THEOREM AbortClean == Spec => []AbortLeavesNothingStaged
<1>1. SInv => AbortLeavesNothingStaged
  <2> SUFFICES ASSUME SInv, NEW v \in staged, state[v.by] = "Aborted" PROVE FALSE
    BY DEF AbortLeavesNothingStaged
  <2>1. PICK t \in Txn : v \in By(t, stagedSet[t]) /\ state[t] \in InFlight \cup {"Committed"}
    BY DEF SInv, StagedBy
  <2>2. v.by = t
    BY <2>1, ByElement DEF Named
  <2>3. QED
    BY <2>1, <2>2 DEF InFlight
<1>2. QED
  BY <1>1, SInvInvariant, PTL
----------------------------------------------------------------------------
(* The writes of one partition are some of the outputs the reservation     *)
(* counted there: each operation writes a partition at most once.          *)
LEMMA OutputsCounted ==
  ASSUME NEW q \in Plans, NEW W \in SUBSET DeclaredWriteSet(q), NEW p,
         \A w \in W : w.partition = p
  PROVE  OutputBytes(q, p) \in Nat /\ WriteBytes(W) <= OutputBytes(q, p)
<1> DEFINE S == DOMAIN q.ops
           h == [i \in S |-> OutputOf(q.ops[i], p)]
           At(w) == CHOOSE i \in S : w \in StagedWrites(q.ops[i])
           g == [w \in W |-> At(w)]
<1>1. /\ q.ops \in Seq(Operations(q))
      /\ \A op \in Operations(q) : op.bytes \in Nat
  BY PlansAssumption, BytesAssumption
<1>2. IsFiniteSet(S)
  <2>1. S = 1..Len(q.ops) /\ Len(q.ops) \in Int
    BY <1>1
  <2>2. QED
    BY <2>1, FS_Interval
<1>3. \A i \in S : q.ops[i].bytes \in Nat
  BY <1>1 DEF Operations
<1>4. h \in [S -> Nat]
  BY <1>3 DEF OutputOf
<1>5. ASSUME NEW w \in W
      PROVE  At(w) \in S /\ w \in StagedWrites(q.ops[At(w)])
  <2>1. \E i \in S : w \in StagedWrites(q.ops[i])
    BY DEF DeclaredWriteSet, Operations
  <2>2. QED
    BY <2>1
<1>6. ASSUME NEW w \in W
      PROVE  /\ w = [partition |-> p, out |-> OutputRef(q.ops[At(w)], p),
                     bytes |-> q.ops[At(w)].bytes]
             /\ p \in WrittenPartitions(q.ops[At(w)])
  <2>1. PICK r \in WrittenPartitions(q.ops[At(w)]) :
          w = [partition |-> r, out |-> OutputRef(q.ops[At(w)], r),
               bytes |-> q.ops[At(w)].bytes]
    BY <1>5 DEF StagedWrites
  <2>2. w.partition = p /\ w.partition = r
    BY <2>1
  <2>3. QED
    BY <2>1, <2>2
<1> HIDE DEF At
<1>7. g \in Injection(W, S)
  <2>1. ASSUME NEW v \in W, NEW w \in W, At(v) = At(w) PROVE v = w
    <3>1. v = [partition |-> p, out |-> OutputRef(q.ops[At(v)], p),
               bytes |-> q.ops[At(v)].bytes]
      BY <1>6
    <3>2. w = [partition |-> p, out |-> OutputRef(q.ops[At(w)], p),
               bytes |-> q.ops[At(w)].bytes]
      BY <1>6
    <3>3. QED
      BY <2>1, <3>1, <3>2
  <2>2. QED
    BY <1>5, <2>1 DEF Injection, IsInjective
<1>8. ASSUME NEW w \in W
      PROVE  w.bytes \in Nat /\ w.bytes <= h[g[w]]
  <2>1. At(w) \in S /\ p \in WrittenPartitions(q.ops[At(w)]) /\ w.bytes = q.ops[At(w)].bytes
    BY <1>5, <1>6
  <2>2. h[g[w]] = q.ops[At(w)].bytes
    BY <2>1 DEF OutputOf
  <2>3. QED
    BY <1>3, <2>1, <2>2
<1> HIDE DEF h, g, S
<1>9. WriteBytes(W) <= Total(h) /\ Total(h) \in Nat
  BY <1>2, <1>4, <1>7, <1>8, WriteBytesInject, TotalType
<1>10. QED
  BY <1>9 DEF OutputBytes, h, S

(* What is staged on a partition was budgeted at prepare. *)
LEMMA StagedFits ==
  ASSUME IInv, RecordsSound
  PROVE  StagedWithinBudget
<1> SUFFICES ASSUME NEW t \in Txn, NEW x \in stagedSet[t],
                    ClassThreeSum(plan[t], x.partition) <= MaxU64
             PROVE  WriteBytes({w \in stagedSet[t] : w.partition = x.partition})
                      + ScratchBytes <= Ledger[x.partition].scratch
  BY DEF StagedWithinBudget
<1> DEFINE p == x.partition
           q == plan[t]
           W == {w \in stagedSet[t] : w.partition = p}
           E == [i \in DOMAIN q.ops |-> EventsOf(q.ops[i], p)]
<1>1. RecordSound(t)
  BY DEF RecordsSound
<1>2. PlanAccepted(q) /\ q \in Plans
  <2>1. q \in Plans
    BY <1>1, NoOperations DEF RecordSound, IInv, TypeOK
  <2>2. QED
    BY <1>1, <2>1 DEF RecordSound
<1>3. W \in SUBSET DeclaredWriteSet(q) /\ \A w \in W : w.partition = p
  BY <1>1 DEF RecordSound
<1>4. p \in Referenced(q) /\ p \in Partition
  <2>1. PICK op \in Operations(q) : x \in StagedWrites(op)
    BY <1>1 DEF RecordSound, DeclaredWriteSet
  <2>2. QED
    BY <1>2, <2>1, StagedWithinReferenced, PlansAssumption
<1>5. Total(E) \in Nat
  <2>1. q.ops \in Seq(Operations(q))
    BY <1>2, PlansAssumption
  <2>2. DOMAIN q.ops = 1..Len(q.ops) /\ Len(q.ops) \in Int
    BY <2>1
  <2>3. IsFiniteSet(DOMAIN q.ops)
    <3> HIDE DEF E, W, q, p
    <3>1. IsFiniteSet(1..Len(q.ops))
      BY <2>2, FS_Interval
    <3>2. QED
      BY <2>2, <3>1
  <2>4. E \in [DOMAIN q.ops -> Nat]
    BY BytesAssumption DEF EventsOf
  <2> HIDE DEF E, q
  <2>5. QED
    BY <2>3, <2>4, TotalType
<1>6. ClassThreeSum(q, p) = OutputBytes(q, p) + ScratchBytes + Total(E)
  BY DEF ClassThreeSum
<1>7. Ledger[p].scratch \in Nat /\ ScratchBytes \in Nat
  BY <1>4, LedgerAssumption, BytesAssumption
<1>8. ClassThreeBytes(q, p) <= Ledger[p].scratch /\ ClassThreeSum(q, p) <= MaxU64
  BY <1>2, <1>4 DEF PlanAccepted, ReservationFits
<1>9. WriteBytes(W) \in Nat
  <2>1. IsFiniteSet(W) /\ \A w \in W : w.bytes \in Nat
    BY <1>2, <1>3, DeclaredShape, FS_Subset
  <2> HIDE DEF W
  <2>2. QED
    BY <2>1, WriteBytesType
<1> HIDE DEF W, q, p, E
<1>10. OutputBytes(q, p) \in Nat /\ WriteBytes(W) <= OutputBytes(q, p)
  BY <1>2, <1>3, OutputsCounted
<1>11. OutputBytes(q, p) + ScratchBytes + Total(E) <= Ledger[p].scratch
  <2>1. ClassThreeSum(q, p) \in Nat
    BY <1>5, <1>7, <1>10, <1>6
  <2>2. ClassThreeBytes(q, p) = ClassThreeSum(q, p)
    BY <1>8, <2>1, WrappedFits DEF ClassThreeBytes
  <2>3. QED
    BY <1>6, <1>8, <2>2
<1>12. WriteBytes(W) + ScratchBytes <= Ledger[p].scratch
  BY <1>5, <1>11, <1>7, <1>9, <1>10
<1>13. QED
  BY <1>12 DEF W, p

(* Staging within budget: what a transaction stages on a partition, and    *)
(* its scratch, fits the admitted activation budget, where the sum that    *)
(* prepare compares with it does not wrap.                                 *)
THEOREM StagingBudgeted == Spec => []StagedWithinBudget
<1>1. IInv /\ SInv => StagedWithinBudget
  BY StagedFits DEF SInv
<1>2. QED
  BY <1>1, IInvInvariant, SInvInvariant, PTL

(* Where any two plans meet, only one transaction is in flight. *)
LEMMA OneInFlight ==
  ASSUME PlansMeet, IInv, RecordsSound, NEW t \in Txn, NEW u \in Txn,
         state[t] \in InFlight, state[u] \in InFlight
  PROVE  t = u
<1>1. plan[t] \in Plans /\ plan[u] \in Plans
  BY DEF RecordsSound, RecordSound, InFlight
<1>2. PICK p : p \in Referenced(plan[t]) /\ p \in Referenced(plan[u])
  BY <1>1 DEF PlansMeet
<1>3. holder[p] = t /\ holder[p] = u
  BY <1>2 DEF IInv, ReservationRecorded, ReservationsExclude
<1>4. QED
  BY <1>3

(* A transaction that may commit has its whole declared write-set staged   *)
(* and nothing beside it is.                                               *)
LEMMA CommitPublishesItsOffer ==
  ASSUME PlansMeet, IInv, SInv, NEW t \in Txn, Commit(t)
  PROVE  /\ staged = By(t, DeclaredWriteSet(plan[t]))
         /\ StagingFits => stagedBytes = WriteBytes(DeclaredWriteSet(plan[t]))
<1> USE DEF SInv
<1>1. state[t] = "Executing" /\ next[t] = 0 /\ ~publishedOnce /\ RecordSound(t)
  BY DEF Commit, InCall, RecordsSound
<1>2. stagedSet[t] = DeclaredWriteSet(plan[t])
  <2>1. \A op \in Operations(plan[t]) : op \in Ran(t)
    BY <1>1 DEF RecordSound, Operations
  <2>2. \A op \in Operations(plan[t]) : StagedWrites(op) \subseteq stagedSet[t]
    BY <1>1, <2>1 DEF RecordSound
  <2>3. DeclaredWriteSet(plan[t]) \subseteq stagedSet[t]
    BY <2>2 DEF DeclaredWriteSet
  <2>4. QED
    BY <1>1, <2>3 DEF RecordSound
<1>3. By(t, stagedSet[t]) \subseteq staged
  BY <1>1 DEF StagedBy, InFlight
<1>4. staged \subseteq By(t, stagedSet[t])
  <2> SUFFICES ASSUME NEW w \in staged PROVE w \in By(t, stagedSet[t])
    OBVIOUS
  <2>1. PICK u \in Txn : w \in By(u, stagedSet[u]) /\ state[u] \in InFlight
    BY <1>1 DEF StagedBy
  <2>2. u = t
    BY <1>1, <2>1, OneInFlight DEF InFlight
  <2>3. QED
    BY <2>1, <2>2
<1>5. staged = By(t, DeclaredWriteSet(plan[t]))
  BY <1>2, <1>3, <1>4
<1>6. plan[t] \in Plans
  BY <1>1 DEF RecordSound
<1>7. WriteBytes(By(t, DeclaredWriteSet(plan[t]))) = WriteBytes(DeclaredWriteSet(plan[t]))
  BY <1>6, NamedBytes
<1>8. QED
  BY <1>5, <1>7 DEF BytesExact

(* A commit receipt reports the bytes the plan declared, and is final. *)
LEMMA NextKeepsPublished ==
  ASSUME PlansMeet, IInv, SInv, PublishedExact, [Next]_vars
  PROVE  PublishedExact'
<1> SUFFICES ASSUME StagingFits', NEW u \in Txn, state'[u] = "Committed"
             PROVE  receipt'[u].published = WriteBytes(DeclaredWriteSet(plan'[u]))
  BY DEF PublishedExact
<1>1. StagingFits
  BY FitsEarlier DEF SInv
<1> USE DEF IInv, TypeOK
<1>2. CASE \E t \in Txn : Commit(t)
  <2>1. PICK t \in Txn : Commit(t)
    BY <1>2
  <2>2. /\ plan' = plan /\ state' = [state EXCEPT ![t] = "Committed"]
        /\ \E r : receipt' = [receipt EXCEPT ![t] = r] /\ r.published = stagedBytes
    <3> DEFINE r == [decision |-> "Committed", ordinal |-> ordinal + 1,
                     published |-> publishedBytes', released |-> reserved[t], retired |-> {}]
    <3>1. receipt' = [receipt EXCEPT ![t] = r] /\ r.published = publishedBytes'
      BY <2>1 DEF Commit
    <3>2. QED
      BY <2>1, <3>1 DEF Commit, Publish
  <2>3. receipt = [v \in Txn |-> receipt[v]]
    BY DEF SInv, RecordsSound
  <2>4. CASE u = t
    <3>1. receipt'[u].published = stagedBytes
      BY <2>2, <2>3, <2>4
    <3>2. QED
      BY <1>1, <2>1, <2>2, <2>4, <3>1, CommitPublishesItsOffer
  <2>5. CASE u # t
    <3>1. receipt'[u] = receipt[u] /\ state[u] = "Committed"
      BY <2>2, <2>3, <2>5
    <3>2. QED
      BY <1>1, <2>2, <3>1 DEF PublishedExact
  <2>6. QED
    BY <2>4, <2>5
<1>3. CASE ~\E t \in Txn : Commit(t)
  <2>1. state[u] = "Committed" /\ plan'[u] = plan[u] /\ receipt'[u] = receipt[u]
    <3>1. ASSUME NEW t \in Txn, New(t)
          PROVE  state[u] = "Committed" /\ plan'[u] = plan[u] /\ receipt'[u] = receipt[u]
      BY <3>1 DEF New
    <3>2. ASSUME NEW t \in Txn, Abort(t)
          PROVE  state[u] = "Committed" /\ plan'[u] = plan[u] /\ receipt'[u] = receipt[u]
      <4>1. u # t /\ state[u] = "Committed" /\ plan'[u] = plan[u]
        BY <3>2 DEF Abort
      <4>2. receipt = [v \in Txn |-> receipt[v]]
        BY DEF SInv, RecordsSound
      <4>3. QED
        BY <3>2, <4>1, <4>2 DEF Abort
    <3>3. ASSUME NEW t \in Txn,
                 \/ Prepare(t) \/ Execute(t) \/ CommitNotReached(t) \/ CommitFails(t)
          PROVE  state[u] = "Committed" /\ plan'[u] = plan[u] /\ receipt'[u] = receipt[u]
      BY <3>3 DEF Prepare, Execute, CommitNotReached, CommitFails, Fail
    <3>4. ASSUME NEW t \in Txn, NEW op, RunFails(t) \/ StageFails(t, op) \/ Succeeds(t, op)
          PROVE  state[u] = "Committed"
      BY <3>4 DEF RunFails, StageFails, Succeeds, Fail
    <3>5. ASSUME NEW t \in Txn, ExecuteNext(t) \/ ExecuteOperation(t)
          PROVE  state[u] = "Committed" /\ plan'[u] = plan[u] /\ receipt'[u] = receipt[u]
      BY <3>4, <3>5 DEF ExecuteNext, ExecuteOperation
    <3>6. ASSUME DeviceCompletes \/ UNCHANGED vars
          PROVE  state[u] = "Committed" /\ plan'[u] = plan[u] /\ receipt'[u] = receipt[u]
      BY <3>6 DEF DeviceCompletes, vars, txnVars
    <3>7. QED
      BY <1>3, <3>1, <3>2, <3>3, <3>5, <3>6 DEF Next
  <2>2. QED
    BY <1>1, <2>1 DEF PublishedExact
<1>4. QED
  BY <1>2, <1>3

(* Staging is accounted for, where any two plans meet: while u64 holds the  *)
(* sums, the byte total is exact, receipts report what was declared and    *)
(* staging was budgeted; and an abort leaves nothing in any case.  That    *)
(* plans meet is needed: see the finding on OnlyCommittedPublished.        *)
THEOREM StagingExact ==
  ASSUME PlansMeet
  PROVE  Spec => []StagingAccounted
<1>1. IInv /\ SInv /\ PublishedExact /\ [Next]_vars => PublishedExact'
  BY NextKeepsPublished
<1>2. Init => PublishedExact
  BY InitRecords
<1>3. Spec => []PublishedExact
  BY <1>1, <1>2, IInvInvariant, SInvInvariant, PTL DEF Spec
<1>4. SInv /\ PublishedExact => BytesAccounted
  BY DEF SInv, BytesExact, PublishedExact, BytesAccounted
<1>5. BytesAccounted /\ StagedWithinBudget /\ AbortLeavesNothingStaged => StagingAccounted
  BY DEF StagingAccounted
<1>6. QED
  BY <1>3, <1>4, <1>5, SInvInvariant, StagingBudgeted, AbortClean, PTL
----------------------------------------------------------------------------
(* The abstract status of each state. *)
LEMMA StatusTable ==
  /\ \A s \in {"Unborn", "New"} : StatusOf(s) = "idle"
  /\ \A s \in InFlight : StatusOf(s) = "active"
  /\ StatusOf("Committed") = "committed" /\ StatusOf("Aborted") = "aborted"
BY DEF StatusOf, InFlight

(* Initially every transaction is idle and nothing is offered. *)
LEMMA InitRefines == Init => Contract!Init
<1> SUFFICES ASSUME Init PROVE Contract!Init
  OBVIOUS
<1>1. AbstractStatus = [t \in Txn |-> "idle"]
  BY StatusTable DEF Init, AbstractStatus
<1>2. \A t \in Txn : By(t, DeclaredWriteSet(plan[t])) = {}
  BY NoOperations DEF Init, By
<1>3. committed = {}
  BY DEF Init, BackendInit
<1>4. QED
  BY <1>1, <1>2, <1>3 DEF Contract!Init, Offered

(* A step that leaves every transaction's status, its plan and what is     *)
(* committed alone is no step of the contract.                             *)
LEMMA Stutters ==
  ASSUME UNCHANGED <<plan, committed>>,
         \A u \in Txn : StatusOf(state'[u]) = StatusOf(state[u])
  PROVE  UNCHANGED <<AbstractStatus, Offered, committed>>
BY DEF AbstractStatus, Offered

(* A transition of one transaction changes its abstract status alone. *)
LEMMA StatusChanges ==
  ASSUME TypeOK, NEW t \in Txn, NEW s \in States, state' = [state EXCEPT ![t] = s]
  PROVE  AbstractStatus' = [AbstractStatus EXCEPT ![t] = StatusOf(s)]
BY DEF TypeOK, AbstractStatus

(* new offers the declared write-set of the plan. *)
LEMMA NewRefines ==
  ASSUME IInv, NEW t \in Txn, New(t)
  PROVE  Contract!Offer(t)
<1> USE DEF IInv, TypeOK, New
<1>1. PICK p \in Plans : plan' = [plan EXCEPT ![t] = p]
  OBVIOUS
<1>2. AbstractStatus[t] = "idle"
  BY StatusTable DEF AbstractStatus
<1>3. UNCHANGED <<AbstractStatus, committed>>
  <2>1. state'[t] = "New" /\ state[t] = "Unborn" /\ \A u \in Txn : u # t => state'[u] = state[u]
    OBVIOUS
  <2>2. \A u \in Txn : StatusOf(state'[u]) = StatusOf(state[u])
    BY <2>1, StatusTable
  <2>3. QED
    BY <2>2 DEF AbstractStatus, backendVars
<1>4. Offered' = [Offered EXCEPT ![t] = By(t, DeclaredWriteSet(p))]
  BY <1>1 DEF Offered
<1>5. By(t, DeclaredWriteSet(p)) \in Offerings
  BY DEF Offerings
<1> HIDE DEF New, IInv, TypeOK
<1>6. QED
  BY <1>2, <1>3, <1>4, <1>5 DEF Contract!Offer

(* prepare succeeds only when no other transaction is in flight: it would  *)
(* hold a partition where the two plans meet.                              *)
LEMMA PrepareRefines ==
  ASSUME PlansMeet, IInv, RecordsSound, NEW t \in Txn, Prepare(t)
  PROVE  Contract!Begin(t) \/ UNCHANGED <<AbstractStatus, Offered, committed>>
<1> USE DEF IInv, TypeOK
<1>1. PICK injected \in SUBSET Referenced(plan[t]) :
        IF Refused(t, injected) = {}
        THEN state' = [state EXCEPT ![t] = "Prepared"]
        ELSE state' = state
  BY DEF Prepare
<1>2. state[t] = "New" /\ UNCHANGED <<plan, committed>>
  BY DEF Prepare
<1>3. CASE Refused(t, injected) = {}
  <2>1. AbstractStatus' = [AbstractStatus EXCEPT ![t] = "active"]
    BY <1>1, <1>3, StatusChanges, StatusTable DEF States, InFlight
  <2>2. AbstractStatus[t] = "idle"
    BY <1>2, StatusTable DEF AbstractStatus
  <2>3. ASSUME NEW u \in Txn, AbstractStatus[u] = "active"
        PROVE  FALSE
    <3>1. state[u] \in InFlight
      BY <2>3, StatusTable DEF AbstractStatus, States, InFlight
    <3>2. plan[t] \in Plans /\ plan[u] \in Plans
      BY <1>2, <3>1 DEF RecordsSound, RecordSound, InFlight
    <3>3. PICK p : p \in Referenced(plan[t]) /\ p \in Referenced(plan[u])
      BY <3>2 DEF PlansMeet
    <3>4. holder[p] = u
      BY <3>1, <3>3 DEF ReservationRecorded, ReservationsExclude
    <3>5. holder[p] = NoTxn
      BY <1>3, <3>3 DEF Refused
    <3>6. QED
      BY <3>4, <3>5, TxnAssumption
  <2>4. Offered' = Offered
    BY <1>2 DEF Offered
  <2>5. QED
    BY <1>2, <2>1, <2>2, <2>3, <2>4 DEF Contract!Begin
<1>4. CASE Refused(t, injected) # {}
  BY <1>1, <1>2, <1>4 DEF AbstractStatus, Offered
<1>5. QED
  BY <1>3, <1>4

(* commit publishes the whole offer and nothing else. *)
LEMMA CommitRefines ==
  ASSUME PlansMeet, IInv, SInv, NEW t \in Txn, Commit(t)
  PROVE  Contract!Commit(t)
<1>1. AbstractStatus' = [AbstractStatus EXCEPT ![t] = "committed"]
  BY StatusChanges, StatusTable DEF Commit, States, IInv
<1>2. AbstractStatus[t] = "active"
  BY StatusTable DEF Commit, AbstractStatus, InFlight
<1>3. committed' = Offered[t] /\ Offered' = Offered
  BY CommitPublishesItsOffer DEF Commit, Publish, Offered
<1>4. QED
  BY <1>1, <1>2, <1>3 DEF Contract!Commit

(* abort publishes nothing. *)
LEMMA AbortRefines ==
  ASSUME IInv, NEW t \in Txn, Abort(t)
  PROVE  Contract!Abort(t)
<1>1. AbstractStatus' = [AbstractStatus EXCEPT ![t] = "aborted"]
  BY StatusChanges, StatusTable DEF Abort, States, IInv
<1>2. AbstractStatus[t] \in {"idle", "active"}
  BY StatusTable DEF Abort, AbstractStatus, InFlight
<1>3. committed' = committed /\ Offered' = Offered
  BY DEF Abort, Offered
<1>4. QED
  BY <1>1, <1>2, <1>3 DEF Contract!Abort

(* Executing, failing and completing are invisible to the contract. *)
LEMMA OtherStepsStutter ==
  ASSUME IInv, NEW t \in Txn,
         \/ Execute(t) \/ ExecuteNext(t) \/ ExecuteOperation(t)
         \/ CommitNotReached(t) \/ CommitFails(t)
  PROVE  UNCHANGED <<AbstractStatus, Offered, committed>>
<1>1. ASSUME NEW op, RunFails(t) \/ StageFails(t, op) \/ Succeeds(t, op)
      PROVE  committed' = committed /\ (state' = state \/ state' = [state EXCEPT ![t] = "Failed"])
  BY <1>1 DEF RunFails, StageFails, Succeeds, Fail, backendVars
<1>2. state[t] \in InFlight
  BY DEF Execute, ExecuteNext, ExecuteOperation, CommitNotReached, CommitFails, InFlight,
         IInv, ReservationRecorded
<1>3. /\ UNCHANGED <<plan, committed>>
      /\ \/ state' = state
         \/ \E s \in InFlight : state' = [state EXCEPT ![t] = s]
  BY <1>1 DEF Execute, ExecuteNext, ExecuteOperation, CommitNotReached, CommitFails, InFlight,
     Fail, backendVars
<1>4. \A u \in Txn : StatusOf(state'[u]) = StatusOf(state[u])
  <2>1. CASE state' = state
    BY <2>1
  <2>2. ASSUME NEW s \in InFlight, state' = [state EXCEPT ![t] = s]
        PROVE  \A u \in Txn : StatusOf(state'[u]) = StatusOf(state[u])
    <3>1. state'[t] = s /\ \A u \in Txn : u # t => state'[u] = state[u]
      BY <2>2 DEF IInv, TypeOK
    <3>2. QED
      BY <1>2, <3>1, StatusTable
  <2>3. QED
    BY <1>3, <2>1, <2>2
<1>5. QED
  BY <1>3, <1>4, Stutters

(* Every step is a step of the contract or none. *)
LEMMA NextRefines ==
  ASSUME PlansMeet, IInv, SInv, [Next]_vars
  PROVE  [Contract!Next]_<<AbstractStatus, Offered, committed>>
<1>1. ASSUME NEW t \in Txn,
             \/ New(t) \/ Prepare(t) \/ Execute(t) \/ ExecuteNext(t)
             \/ ExecuteOperation(t) \/ CommitNotReached(t)
             \/ CommitFails(t) \/ Commit(t) \/ Abort(t)
      PROVE  [Contract!Next]_<<AbstractStatus, Offered, committed>>
  BY <1>1, NewRefines, PrepareRefines, CommitRefines, AbortRefines, OtherStepsStutter
     DEF Contract!Next, SInv
<1>2. ASSUME DeviceCompletes \/ UNCHANGED vars
      PROVE  UNCHANGED <<AbstractStatus, Offered, committed>>
  BY <1>2, Stutters DEF DeviceCompletes, CompleteEvent, vars, backendVars, txnVars
<1>3. QED
  BY <1>1, <1>2 DEF Next

(* The coordinator and its backend implement atomic publication wherever   *)
(* any two plans meet at a partition: one transaction is active at a time, *)
(* and a step publishes the whole write-set of one or nothing.             *)
THEOREM AtomicallyPublishes ==
  ASSUME PlansMeet
  PROVE  Spec => ImplementsAtomicPublication
<1>1. IInv /\ SInv /\ [Next]_vars => [Contract!Next]_<<AbstractStatus, Offered, committed>>
  BY NextRefines
<1>2. QED
  BY <1>1, InitRefines, IInvInvariant, SInvInvariant, PTL
     DEF Spec, ImplementsAtomicPublication, Contract!Spec

=============================================================================
