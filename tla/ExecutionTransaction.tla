------------------------ MODULE ExecutionTransaction ------------------------
(***************************************************************************)
(* The ExecutionTransaction coordinator                                    *)
(* (src/src/execution_transaction/transaction.rs) and the transactions a   *)
(* program runs, one after the other or interleaved call by call, on one   *)
(* backend.  `execute' holds the backend for the whole plan, so its loop   *)
(* is modelled operation by operation with every other call locked out     *)
(* (InCall); only the devices' completions happen in between.              *)
(***************************************************************************)
EXTENDS ExecutionBackend

CONSTANTS
  Plans,        \* the plans a transaction may be constructed over
  MaxDispatch,  \* bound on the dispatches of one transaction
  MaxOrdinal    \* bound on the coordinator's publication counter

(* A plan is a list of operations over the partitions of the backend, each *)
(* of which moves a u64 of bytes.                                          *)
ASSUME PlansAssumption ==
  \A p \in Plans : /\ p.ops \in Seq(Operations(p))
                   /\ Referenced(p) \subseteq Partition
                   /\ \A op \in Operations(p) : op.bytes \in 0..MaxU64

VARIABLES
  state,       \* TransactionState
  plan,        \* the accepted plan (the snapshot), NoPlan before `new'
  next,        \* where execute's loop stands; 0 when no loop is running
  reserved,    \* the partitions of the reservation recorded at prepare
  stagedSet,   \* staged_write_set
  executed,    \* executed_operations
  events,      \* completed_events
  failure,     \* the recorded failure
  receipt,     \* the final receipt
  ordinal      \* the coordinator's publication counter

txnVars == <<state, plan, next, reserved, stagedSet, executed, events, failure,
             receipt, ordinal>>
vars == <<backendVars, txnVars>>

States == {"Unborn", "New", "Prepared", "Executing", "Committed", "Failed", "Aborted"}
InFlight == {"Prepared", "Executing", "Failed"}
Failures == {"none", "Backend", "PublishFailed", "Cancelled"}
NoPlan == [ops |-> <<>>, declared |-> {}, barriers |-> {}, launches |-> {}]
NoReceipt == [decision |-> "none"]

InCall == \E t \in Txn : next[t] # 0

Init ==
  /\ BackendInit
  /\ state = [t \in Txn |-> "Unborn"]
  /\ plan = [t \in Txn |-> NoPlan]
  /\ next = [t \in Txn |-> 0]
  /\ reserved = [t \in Txn |-> {}]
  /\ stagedSet = [t \in Txn |-> {}]
  /\ executed = [t \in Txn |-> <<>>]
  /\ events = [t \in Txn |-> {}]
  /\ failure = [t \in Txn |-> "none"]
  /\ receipt = [t \in Txn |-> NoReceipt]
  /\ ordinal = 0

----------------------------------------------------------------------------
(* new: a distributed plan with at least one operation. *)
New(t) ==
  /\ ~InCall /\ state[t] = "Unborn"
  /\ \E p \in Plans :
       /\ Cardinality(p.declared) > 1 /\ p.ops # <<>>
       /\ plan' = [plan EXCEPT ![t] = p]
  /\ state' = [state EXCEPT ![t] = "New"]
  /\ UNCHANGED <<backendVars, next, reserved, stagedSet, executed, events,
                 failure, receipt, ordinal>>

(* prepare, once the plan is validated: reserve partition by partition, in *)
(* order, until one is refused: because it is held or, where a device may  *)
(* fail, for want of memory.                                               *)
RefusedIfFaulty(t, injected) == injected    \* forgets who holds what

Refused(t, injected) ==
  {p \in Referenced(plan[t]) : holder[p] # NoTxn} \cup injected

Prepare(t) ==
  /\ ~InCall /\ state[t] = "New" /\ PlanAccepted(plan[t])
  /\ \E injected \in SUBSET Referenced(plan[t]) :
       /\ injected # {} => "reserve" \in FaultPoints
       /\ BeginFreshTransactionIfNeeded(Referenced(plan[t]) # {})
       /\ IF Refused(t, injected) = {}
          THEN /\ Reserve(t, Referenced(plan[t]))
               /\ reserved' = [reserved EXCEPT ![t] = Referenced(plan[t])]
               /\ state' = [state EXCEPT ![t] = "Prepared"]
          ELSE /\ Reserve(t, {p \in Referenced(plan[t]) :
                                \A q \in Refused(t, injected) : p < q})
               /\ UNCHANGED <<reserved, state>>
  /\ UNCHANGED <<committed, plan, next, stagedSet, executed, events, failure,
                  receipt, ordinal>>

(* execute: take the backend and start on the plan. *)
Execute(t) ==
  /\ ~InCall /\ state[t] = "Prepared"
  /\ state' = [state EXCEPT ![t] = "Executing"]
  /\ next' = [next EXCEPT ![t] = 1]
  /\ UNCHANGED <<backendVars, plan, reserved, stagedSet, executed, events,
                 failure, receipt, ordinal>>

(* fail: the first failure is recorded and the machine moves to Failed. *)
Fail(t, why) ==
  /\ failure' = [failure EXCEPT ![t] = why]
  /\ state' = [state EXCEPT ![t] = "Failed"]

(* execute_operation's three outcomes. *)
RunFails(t) ==
  /\ "run" \in FaultPoints
  /\ Fail(t, "Backend")
  /\ UNCHANGED <<backendVars, stagedSet, executed, events>>

StageFails(t, op) ==
  /\ \E auto \in BOOLEAN : RunOperation(op, auto)
  /\ \E bad \in StagedWrites(op) :
       /\ StagedTwice(bad) \/ "stage" \in FaultPoints
       /\ LET before == {w \in StagedWrites(op) : w.partition < bad.partition}
          IN  /\ ~\E w \in before : StagedTwice(w)
              /\ StageWrites(t, before)
              /\ stagedSet' = [stagedSet EXCEPT ![t] = @ \cup before]
  /\ Fail(t, "Backend")
  /\ UNCHANGED <<holder, publishedOnce, publishedBytes, committed, executed, events>>

Succeeds(t, op) ==
  /\ ~\E w \in StagedWrites(op) : StagedTwice(w)
  /\ \E auto \in BOOLEAN : RunOperation(op, auto)
  /\ StageWrites(t, StagedWrites(op))
  /\ stagedSet' = [stagedSet EXCEPT ![t] = @ \cup StagedWrites(op)]
  /\ executed' = [executed EXCEPT ![t] = Append(@, op)]
  /\ events' = [events EXCEPT ![t] = @ \cup (CompletedEvents(op) \cap completed')]
  /\ UNCHANGED <<holder, publishedOnce, publishedBytes, committed, state, failure>>

(* One turn of execute's loop, which a failure ends. *)
ExecuteNext(t) ==
  /\ next[t] # 0
  /\ LET op == plan[t].ops[next[t]]
     IN  \/ /\ RunFails(t) \/ StageFails(t, op)
            /\ next' = [next EXCEPT ![t] = 0]
         \/ /\ Succeeds(t, op)
            /\ next' = [next EXCEPT ![t] =
                          IF next[t] < Len(plan[t].ops) THEN next[t] + 1 ELSE 0]
  /\ UNCHANGED <<plan, reserved, receipt, ordinal>>

(* execute_operation called by the program itself, with an operation of    *)
(* the snapshot; any other is refused and changes nothing.                 *)
ExecuteOperation(t) ==
  /\ ~InCall /\ state[t] = "Executing"
  /\ Len(executed[t]) < MaxDispatch
  /\ \E op \in Operations(plan[t]) : RunFails(t) \/ StageFails(t, op) \/ Succeeds(t, op)
  /\ UNCHANGED <<plan, next, reserved, receipt, ordinal>>

----------------------------------------------------------------------------
(* commit: refresh_completed_events, then the boundary, then publish. *)
NotRefreshed(t) == events[t]    \* what was seen at dispatch only

Refreshed(t) == events[t] \cup (SnapshotEvents(plan[t]) \cap completed)

BoundaryDispatched(t) == BoundaryEvents(plan[t]) \subseteq dispatched

BoundaryReached(t) == BoundaryEvents(plan[t]) \subseteq Refreshed(t)

CommitNotReached(t) ==
  /\ ~InCall /\ state[t] = "Executing" /\ ~BoundaryReached(t)
  /\ events' = [events EXCEPT ![t] = Refreshed(t)]
  /\ UNCHANGED <<backendVars, state, plan, next, reserved, stagedSet, executed,
                 failure, receipt, ordinal>>

CommitFails(t) ==
  /\ ~InCall /\ state[t] = "Executing" /\ BoundaryReached(t)
  /\ publishedOnce \/ "publish" \in FaultPoints
  /\ events' = [events EXCEPT ![t] = Refreshed(t)]
  /\ Fail(t, "PublishFailed")
  /\ UNCHANGED <<backendVars, plan, next, reserved, stagedSet, executed,
                  receipt, ordinal>>

Commit(t) ==
  /\ ~InCall /\ state[t] = "Executing" /\ BoundaryReached(t)
  /\ ~publishedOnce
  /\ ordinal < MaxOrdinal
  /\ events' = [events EXCEPT ![t] = Refreshed(t)]
  /\ Publish
  /\ ReleaseAndRetire(reserved[t], {})
  /\ ordinal' = ordinal + 1
  /\ state' = [state EXCEPT ![t] = "Committed"]
  /\ receipt' = [receipt EXCEPT ![t] =
       [decision |-> "Committed", ordinal |-> ordinal + 1,
        published |-> publishedBytes', released |-> reserved[t], retired |-> {}]]
  /\ UNCHANGED <<dispatched, completed, plan, next, reserved, stagedSet,
                 executed, failure>>

(* The failure an abort reports: the recorded one, or the cancellation. *)
AbortReason(t) == IF state[t] = "Failed" THEN failure[t] ELSE "Cancelled"

(* abort: retire where something is staged, release the rest. *)
Abort(t) ==
  LET retired == {w.partition : w \in stagedSet[t]}
      released == reserved[t] \ retired
  IN  /\ ~InCall /\ state[t] \in {"New", "Prepared", "Executing", "Failed"}
      /\ ReleaseAndRetire(released, retired)
      /\ state' = [state EXCEPT ![t] = "Aborted"]
      /\ failure' = [failure EXCEPT ![t] = AbortReason(t)]
      /\ receipt' = [receipt EXCEPT ![t] =
           [decision |-> "Aborted", ordinal |-> 0, published |-> 0,
            released |-> released, retired |-> retired]]
      /\ UNCHANGED <<publishedOnce, publishedBytes, dispatched, completed,
                     committed, plan, next, reserved, stagedSet, executed,
                     events, ordinal>>

DeviceCompletes ==
  /\ \E e \in dispatched : CompleteEvent(e)
  /\ UNCHANGED txnVars

Next ==
  \/ \E t \in Txn : \/ New(t) \/ Prepare(t) \/ Execute(t) \/ ExecuteNext(t)
                    \/ ExecuteOperation(t) \/ CommitNotReached(t)
                    \/ CommitFails(t) \/ Commit(t) \/ Abort(t)
  \/ DeviceCompletes

Spec == Init /\ [][Next]_vars

(* What the code's callers owe it: execute runs its loop to the end, the   *)
(* devices complete what was dispatched, and a coordinator whose commit    *)
(* was refused for the boundary calls it again.                            *)
Fairness ==
  /\ \A t \in Txn : WF_vars(ExecuteNext(t))
  /\ \A t \in Txn : WF_vars(Commit(t) \/ CommitFails(t))
  /\ WF_vars(DeviceCompletes)

FairSpec == Spec /\ Fairness

----------------------------------------------------------------------------
(* Every variable has its type: the states, failures and receipts are the  *)
(* ones of state_machine.rs and receipt.rs, and every reservation is of a  *)
(* partition and by a transaction.                                         *)
TypeOK ==
  /\ holder \in [Partition -> Txn \cup {NoTxn}]
  /\ publishedOnce \in BOOLEAN
  /\ completed \subseteq dispatched
  /\ state \in [Txn -> States]
  /\ plan \in [Txn -> Plans \cup {NoPlan}]
  /\ next \in [Txn -> Nat]
  /\ reserved \in [Txn -> SUBSET Partition]
  /\ stagedSet \in [Txn -> SUBSET UNION {DeclaredWriteSet(p) : p \in Plans}]
  /\ failure \in [Txn -> Failures]
  /\ ordinal \in Nat

(* Reservations exclude: what a transaction in flight reserved at prepare  *)
(* is still held, by it and by nobody else, until its own commit or abort  *)
(* gives it back.                                                          *)
ReservationsExclude ==
  \A t \in Txn : state[t] \in InFlight => \A p \in reserved[t] : holder[p] = t

(* Teardown is complete: whatever failed on the way, a transaction that    *)
(* was once prepared holds no partition after its commit or abort.  (One   *)
(* that never was may: see NewHoldsNothing.)                               *)
TeardownComplete ==
  \A p \in Partition : holder[p] # NoTxn =>
    \/ state[holder[p]] \in InFlight
    \/ reserved[holder[p]] = {}

(* An aborted transaction leaves no staged write behind on the backend. *)
AbortLeavesNothingStaged == \A w \in staged : state[w.by] # "Aborted"

(* The writes the plans of the transactions so far declare, all together,  *)
(* have a size a u64 can hold.                                             *)
DeclaredByAll == UNION {By(t, DeclaredWriteSet(plan[t])) : t \in Txn}

StagingFits == WriteBytes(DeclaredByAll) <= MaxU64

(* The backend's running byte total is the size of what is staged, through *)
(* partial stagings and retirements, and a commit receipt reports exactly  *)
(* the bytes its plan declared, as long as u64 can hold what was declared. *)
(* (Past that the addition saturates, the sum that a retirement takes off  *)
(* wraps, and the total is off from then on.)                              *)
BytesAccounted ==
  StagingFits =>
    /\ stagedBytes = WriteBytes(staged)
    /\ \A t \in Txn : state[t] = "Committed" =>
         receipt[t].published = WriteBytes(DeclaredWriteSet(plan[t]))

(* What a transaction stages on a partition, with its scratch, fits the    *)
(* partition's admitted activation budget, unless the class-three sum of   *)
(* its plan there is more than u64 holds: prepare stops a plan that would  *)
(* not fit, dispatching operations again by hand does not stage more, and  *)
(* a sum that wraps is the only way past the budget.                       *)
StagedWithinBudget ==
  \A t \in Txn : \A p \in {w.partition : w \in stagedSet[t]} :
    ClassThreeSum(plan[t], p) <= MaxU64 =>
      WriteBytes({w \in stagedSet[t] : w.partition = p}) + ScratchBytes <= Ledger[p].scratch

(* Staging is accounted for: while u64 holds the sums, the byte total is   *)
(* exact through partial stagings and retirements and what is staged was   *)
(* budgeted; and in any case an abort leaves none of it on the backend.    *)
StagingAccounted == BytesAccounted /\ StagedWithinBudget /\ AbortLeavesNothingStaged

(* A committed transaction ran every operation of its plan, saw every      *)
(* event of its boundary complete, and gave back each reservation.         *)
CommittedRanItsPlan ==
  \A t \in Txn : state[t] = "Committed" =>
    /\ Operations(plan[t]) = {executed[t][i] : i \in DOMAIN executed[t]}
    /\ BoundaryEvents(plan[t]) \subseteq events[t]
    /\ receipt[t].released = Referenced(plan[t])

(* The first failure is the one that is reported: once recorded it is      *)
(* never replaced, by a later failure or by abort's own reason.            *)
FirstFailureWins ==
  [][\A t \in Txn : failure[t] # "none" => failure'[t] = failure[t]]_vars

(* A failed prepare reserves nothing: on any failure the transaction stays *)
(* New and no partition is held for it.                                    *)
NewHoldsNothing ==
  \A p \in Partition : holder[p] # NoTxn => state[holder[p]] # "New"

(* A write is published at the commit of its own transaction: while that   *)
(* one is in flight, or once it has failed or was cancelled, it publishes  *)
(* nothing.                                                                *)
OnlyCommittedPublished == \A w \in committed : state[w.by] = "Committed"

(* A missing boundary is transient: a transaction that is executing gets   *)
(* out of it, once its events join and commit is called again.             *)
ExecutingEnds == \A t \in Txn : state[t] = "Executing" ~> state[t] # "Executing"
----------------------------------------------------------------------------
(* The abstract view of a transaction and of what it publishes. *)
StatusOf(s) == CASE s \in {"Unborn", "New"} -> "idle"
                 [] s \in InFlight          -> "active"
                 [] s = "Committed"         -> "committed"
                 [] s = "Aborted"           -> "aborted"

AbstractStatus == [t \in Txn |-> StatusOf(state[t])]

Offerings == {By(t, DeclaredWriteSet(p)) : t \in Txn, p \in Plans}

Offered == [t \in Txn |-> By(t, DeclaredWriteSet(plan[t]))]

Contract == INSTANCE AtomicPublication WITH
  Offers <- Offerings, status <- AbstractStatus, offer <- Offered, published <- committed

(* The coordinator and the backend together implement atomic publication:  *)
(* every step of theirs publishes the whole declared write-set of one      *)
(* transaction or nothing, and no second transaction is active meanwhile.  *)
ImplementsAtomicPublication == Contract!Spec
=============================================================================
