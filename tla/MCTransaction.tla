--------------------------- MODULE MCTransaction ---------------------------
(***************************************************************************)
(* Instances of ExecutionTransaction: two partitions, and plans that use   *)
(* every kind of operation, a boundary of a barrier and a launch, and no   *)
(* boundary at all.  Event objects and scratch cost one byte each so that  *)
(* the budgets stay small.                                                 *)
(***************************************************************************)
EXTENDS ExecutionTransaction

MCPartition == 1..2

MCLedger == [p \in MCPartition |-> [admitted |-> TRUE, staging |-> 3, scratch |-> 9]]

(* A barrier both partitions join, then a launch: a boundary of two parts. *)
Pipeline ==
  [ops |-> <<Barrier("m", {1, 2}), Launch("b", 2, 1)>>,
   declared |-> {1, 2}, barriers |-> {"m"}, launches |-> {"b"}]

(* A transfer, and a broadcast that writes on both receivers' side, where  *)
(* the second write may fail after the first; nothing to wait for.         *)
Fanout ==
  [ops |-> <<Transfer("x", 1, 2, 2), Broadcast("c", 1, {1, 2}, 1)>>,
   declared |-> {1, 2}, barriers |-> {}, launches |-> {}]

(* Over-commits the budget of partition 2. *)
Tampered ==
  [ops |-> <<Launch("y", 2, 9)>>,
   declared |-> {1, 2}, barriers |-> {}, launches |-> {}]

(* Two outputs whose sum on partition 2 wraps to zero (MaxU64 is 15): the  *)
(* budget does not stop it, and staging it saturates the backend's total.  *)
Wrapping ==
  [ops |-> <<Launch("v", 2, 8), Launch("w", 2, 8)>>,
   declared |-> {1, 2}, barriers |-> {}, launches |-> {}]

(* Uses partition 2 alone: does not meet the others at their first one. *)
Solo ==
  [ops |-> <<Launch("s", 2, 1)>>,
   declared |-> {1, 2}, barriers |-> {}, launches |-> {"s"}]

(* Uses partition 1 alone: shares no partition with Solo. *)
Apart ==
  [ops |-> <<Launch("o", 1, 1)>>,
   declared |-> {1, 2}, barriers |-> {}, launches |-> {"o"}]

MCPlans == {Pipeline, Fanout, Tampered, Wrapping, Solo}
MCDisjointPlans == {Solo, Apart}
MCOverlapPlans == {Pipeline, Solo}
=============================================================================
