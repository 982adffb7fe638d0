------------------------- MODULE AtomicPublication -------------------------
(***************************************************************************)
(* What an execution transaction promises, without budgets, operations,    *)
(* events or staging: a transaction offers a set of writes, at most one    *)
(* transaction is active at a time, and it either commits, which makes its *)
(* whole offer the published state in one step, or aborts, which publishes *)
(* nothing.  Nothing is retried.                                           *)
(***************************************************************************)
CONSTANTS Txn, Offers

VARIABLES status, offer, published

Statuses == {"idle", "active", "committed", "aborted"}

Init ==
  /\ status = [t \in Txn |-> "idle"]
  /\ offer = [t \in Txn |-> {}]
  /\ published = {}

Offer(t) ==
  /\ status[t] = "idle"
  /\ \E writes \in Offers : offer' = [offer EXCEPT ![t] = writes]
  /\ UNCHANGED <<status, published>>

Begin(t) ==
  /\ status[t] = "idle"
  /\ \A u \in Txn : status[u] # "active"
  /\ status' = [status EXCEPT ![t] = "active"]
  /\ UNCHANGED <<offer, published>>

Commit(t) ==
  /\ status[t] = "active"
  /\ status' = [status EXCEPT ![t] = "committed"]
  /\ published' = offer[t]
  /\ UNCHANGED offer

Abort(t) ==
  /\ status[t] \in {"idle", "active"}
  /\ status' = [status EXCEPT ![t] = "aborted"]
  /\ UNCHANGED <<offer, published>>

Next == \E t \in Txn : Offer(t) \/ Begin(t) \/ Commit(t) \/ Abort(t)

Spec == Init /\ [][Next]_<<status, offer, published>>
=============================================================================
