---------------------------- MODULE MCAdmission ----------------------------
(***************************************************************************)
(* An instance of Admission: two CUDA devices and a Metal one that take    *)
(* turns at two ordinals, and two logical partitions.  One ledger sums to  *)
(* more than the largest number and wraps to zero; constraints name        *)
(* declared and undeclared partitions.                                     *)
(***************************************************************************)
EXTENDS Policy

CONSTANTS c1, c2, m1, o1, o2, p1, p2

MCBackend == [d \in {c1, c2, m1} |-> IF d = m1 THEN "Metal" ELSE "Cuda"]

MCMachines == {[o \in {o1, o2} |-> IF o = o1 THEN c1 ELSE d] :
                 d \in {m1, NoDevice}}

LedgerOf(w, k, s) ==
  [weight |-> w, kv_cache |-> k, activation_scratch |-> 0,
   module_storage |-> 0, allocator_overhead |-> 0, transfer_staging |-> 0,
   concurrent_state |-> s]
MCLedgers == {LedgerOf(1, 0, 1), LedgerOf(1, 1, 1), LedgerOf(3, 0, 1)}

Explicit(ids) == [explicit |-> TRUE, ids |-> ids]
Where(backend, exclude, min, max) ==
  [explicit |-> FALSE, backend |-> backend, exclude |-> exclude,
   min |-> min, max |-> max]
MCSelections ==
  {Explicit({c1}), Explicit({c1, m1}), Where("any", {}, 2, -1),
   Where("Cuda", {}, 1, 1), Where("any", {c1}, 0, -1)}

Distinct == [kind |-> "distinct"]
Colocated(ls) == [kind |-> "colocated", partitions |-> ls]
OnBackend(ls, b) == [kind |-> "backend", partitions |-> ls, backend |-> b]
Request(hash, declared, constraints) ==
  [hash |-> hash, declared |-> declared, constraints |-> constraints]
MCPlanRequests ==
  {Request("sha256", {p1}, <<>>),
   Request("sha256", {p1, p2}, <<Distinct>>),
   Request("sha256", {p1, p2}, <<Colocated({p1, p2})>>),
   Request("sha256", {p1, p2}, <<OnBackend({p2}, "Cuda")>>),
   Request("sha256", {p1}, <<OnBackend({p2}, "Metal")>>),
   Request("sha256", {}, <<>>),
   Request("sha1", {p1}, <<>>)}

(* The policy: c1 and m1 joined in one direction only, m1 without f16, c2  *)
(* without a budget; a plan for each gate, and for each fact of one, that  *)
(* it alone rejects, and one submitted twice.                              *)
MCOrder == [d \in {c1, c2, m1} |-> CASE d = m1 -> 1 [] d = c1 -> 2 [] d = c2 -> 3]
MCCapabilities ==
  [d \in {c1, c2, m1} |->
     IF d = m1 THEN [compute |-> <<7, 5>>, dtypes |-> {"f32"}, sm_count |-> 1]
     ELSE [compute |-> <<8, 0>>, dtypes |-> {"f32", "f16"}, sm_count |-> 2]]
MCBudgets == [d \in {c1, m1} |-> 2]
Link(from, to, state) == [from |-> from, to |-> to, state |-> state]
MCTopologies == {{}, {Link(c1, m1, "Admitted"), Link(m1, c1, "NotAttempted")},
                 {Link(c1, m1, "Rejected"), Link(m1, c1, "Admitted")}}
Assign(d, bytes, compute, dtypes) ==
  [device |-> d, bytes |-> bytes,
   needs |-> [compute |-> compute, dtypes |-> dtypes, sm_count |-> 1]]
Facts(latency, throughput) ==
  [o \in Factual |-> CASE o = "Latency" -> latency
                       [] o = "Throughput" -> throughput
                       [] OTHER -> NoFact]
Candidate(assignments, transfers, total, facts) ==
  [assignments |-> assignments, transfers |-> transfers, declared_total |-> total, facts |-> facts]
OnC1 == Candidate(<<Assign(c1, 1, <<8, 0>>, {"f16"})>>, {}, 1, Facts(2, NoFact))
OnM1 == Candidate(<<Assign(m1, 2, <<7, 0>>, {"f32"})>>, {}, 2, Facts(2, 1))
Both == Candidate(<<Assign(c1, 2, <<0, 0>>, {}), Assign(m1, 0, <<0, 0>>, {})>>,
                  {<<c1, m1>>}, 2, Facts(NoFact, 2))
OnC2 == Candidate(<<Assign(c2, 1, <<0, 0>>, {})>>, {}, 1, Facts(0, 3))
TooLarge == Candidate(<<Assign(c1, Overflow, <<0, 0>>, {})>>, {}, 3, Facts(0, 3))
F16OnM1 == Candidate(<<Assign(m1, 1, <<0, 0>>, {"f16"})>>, {}, 1, Facts(0, 3))
NewerOnC1 == Candidate(<<Assign(c1, 1, <<8, 1>>, {})>>, {}, 1, Facts(0, 3))
WideOnM1 ==
  Candidate(<<[Assign(m1, 1, <<0, 0>>, {}) EXCEPT !.needs.sm_count = 2]>>, {}, 1, Facts(0, 3))
OverTotal == Candidate(<<Assign(c1, 1, <<0, 0>>, {})>>, {}, 3, Facts(0, 3))
MCCandidates ==
  {<<OnM1, OnC1, Both>>, <<Both, OnC2, OnC1, TooLarge, OverTotal>>,
   <<F16OnM1, OnC1, NewerOnC1, WideOnM1, OnC1, OnM1>>}
MCObjectiveLists ==
  {<<>>, <<"Latency", "Throughput">>, <<"Throughput", "Latency">>, <<"CapacityReserve">>}
=============================================================================
