------------------------------- MODULE Policy -------------------------------
(***************************************************************************)
(* The priority policy (src/src/policy.rs) over the samples, selections    *)
(* and epochs of Admission: hard gates reject candidate plans, declared    *)
(* objectives rank the rest.  Topologies and links are device_set.rs.      *)
(*                                                                         *)
(* An assignment has the bytes its ledger sums to (Overflow where they do  *)
(* not fit), a violation its gate and device, and no wording.              *)
(***************************************************************************)
EXTENDS Admission, Lists, SequencesExt

CONSTANTS
  Order,          \* Order[d]: where the identity of d sorts
  Capabilities,   \* Capabilities[d]: the facts every sample records of d
  Budgets,        \* per_device_budget: devices to declared limits
  TotalBudget,    \* total_budget, or -1
  Topologies,     \* sets of links; a link is [from, to, state]
  Candidates,     \* sequences of plans submitted together
  ObjectiveLists  \* sequences of declared objectives

VARIABLE outcome  \* the PolicyOutcome, or NoOutcome

policyVars == <<vars, outcome>>
NoOutcome == [evaluated |-> FALSE]

(* ObjectiveFacts has six optional facts; the seventh objective is computed. *)
Factual ==
  {"Latency", "Throughput", "CacheAffinity", "ExpertHotness", "TransferBudget", "Power"}
Objective == Factual \cup {"CapacityReserve"}
NoFact == -1
DTYPE_NAMES == {"f32", "f64", "f16", "bf16", "i8", "i32"}
Assignment ==
  [device : Device, bytes : Nat \cup {Overflow},
   needs : [compute : Nat \X Nat, dtypes : SUBSET DTYPE_NAMES, sm_count : Nat]]
CandidatePlan ==
  [assignments : Seq(Assignment), transfers : SUBSET (Device \X Device),
   declared_total : Nat, facts : [Factual -> Nat \cup {NoFact}]]
DirectedLink ==
  [from : Device, to : Device, state : {"Admitted", "NotAttempted", "Rejected"}]

ASSUME PolicyAssumption ==
  /\ \A d \in DOMAIN Budgets : Budgets[d] \in Nat
  /\ TotalBudget \in Nat \cup {-1}
  /\ \A links \in Topologies : links \subseteq DirectedLink
  /\ Candidates \subseteq Seq(CandidatePlan)
  /\ ObjectiveLists \subseteq Seq(Objective)
-----------------------------------------------------------------------------
(* Links.  DeviceTopologySnapshot::new asserts that both ends are recorded *)
(* and differ; the map keeps one row for a pair.                           *)
IsTopology(links, s) ==
  /\ \A l \in links : l.from # l.to /\ {l.from, l.to} \subseteq Identities(s)
  /\ \A l, m \in links : l.from = m.from /\ l.to = m.to => l = m

(* A link that was refused, or never tried, is assumed. *)
AnyLink(links, s, from, to) ==
  from = to \/ {from, to} \subseteq Identities(s)

traversal_allowed(links, s, from, to) ==
  \/ from = to
  \/ /\ {from, to} \subseteq Identities(s)
     /\ \E l \in links : l.from = from /\ l.to = to /\ l.state = "Admitted"
-----------------------------------------------------------------------------
(* The gates.                                                              *)

(* What selection c resolves to in sample s: no set, or the one set. *)
Resolutions(c, s) ==
  IF c.explicit THEN IF Validates(c.ids, s) THEN {c.ids} ELSE {}
  ELSE IF InBounds(c, Cardinality(Selected(c, s))) THEN {Selected(c, s)} ELSE {}

gate_health_epoch_selection(c, s) ==
  IF SampleIsStale(s) THEN {} ELSE Resolutions(c, s)

gate_membership(p, ids) ==
  {[gate |-> "HealthEpochMembership", device |-> a.device] :
     a \in {b \in Range(p.assignments) : b.device \notin ids}}

AtLeast(have, need) == have[1] > need[1] \/ (have[1] = need[1] /\ have[2] >= need[2])

Compatible(a, s) ==
  /\ a.device \in Identities(s)
  /\ LET caps == Capabilities[a.device]
     IN  /\ AtLeast(caps.compute, a.needs.compute)
         /\ a.needs.dtypes \subseteq caps.dtypes
         /\ caps.sm_count >= a.needs.sm_count

gate_compatibility(p, s) ==
  {[gate |-> "Compatibility", device |-> a.device] :
     a \in {b \in Range(p.assignments) : ~Compatible(b, s)}}

(* Each assignment against the budget of its device, and the total the     *)
(* plan declares, which need not be the sum, against the total budget.     *)
Fits(a) ==
  a.device \in DOMAIN Budgets /\ a.bytes # Overflow /\ a.bytes <= Budgets[a.device]

gate_memory(p) ==
  {[gate |-> "RequiredMemory", device |-> a.device] :
     a \in {b \in Range(p.assignments) : ~Fits(b)}}
  \cup {[gate |-> "RequiredMemory", device |-> NoDevice] :
          x \in {y \in {p.declared_total} : TotalBudget # -1 /\ y > TotalBudget}}

gate_topology(p, links, s) ==
  {[gate |-> "Topology", device |-> NoDevice] :
     t \in {u \in p.transfers : ~traversal_allowed(links, s, u[1], u[2])}}

Violations(p, ids, links, s) ==
  gate_membership(p, ids) \cup gate_compatibility(p, s)
  \cup gate_memory(p) \cup gate_topology(p, links, s)

Passes(p, c, links, s) ==
  \E ids \in gate_health_epoch_selection(c, s) : Violations(p, ids, links, s) = {}
-----------------------------------------------------------------------------
(* The ranking.                                                            *)

Minimized == {"Latency", "TransferBudget", "Power"}
SaturatingSum(a, b) == IF a + b > MaxBytes THEN MaxBytes ELSE a + b

capacity_reserve_bytes(p) ==
  LET Reserve[n \in 0..Len(p.assignments)] ==
        IF n = 0 THEN 0
        ELSE LET a == p.assignments[n]
             IN  IF Fits(a) THEN SaturatingSum(Reserve[n - 1], Budgets[a.device] - a.bytes)
                 ELSE Reserve[n - 1]
  IN  Reserve[Len(p.assignments)]

(* A missing fact is the least favoured value. *)
objective_value(p, o) ==
  IF o = "CapacityReserve" THEN capacity_reserve_bytes(p)
  ELSE IF p.facts[o] # NoFact THEN p.facts[o]
  ELSE IF o \in Minimized THEN MaxBytes ELSE 0

DevicesIn(p) == {a.device : a \in Range(p.assignments)}
Places(D) == SetToSortSeq({Order[d] : d \in D}, LAMBDA a, b : a < b)

(* BTreeSet's order: the first place where the sorted identities differ,   *)
(* a proper prefix first.                                                  *)
DevicesBefore(D, E) ==
  LET a == Places(D)
      b == Places(E)
  IN  \/ \E i \in DOMAIN a \cap DOMAIN b :
           a[i] < b[i] /\ \A j \in 1..(i - 1) : a[j] = b[j]
      \/ Len(a) < Len(b) /\ \A i \in DOMAIN a : a[i] = b[i]

Better(o, v, w) == IF o \in Minimized THEN v < w ELSE v > w

Precedes(p, q, objectives) ==
  LET Same(i) == objective_value(p, objectives[i]) = objective_value(q, objectives[i])
  IN  \/ \E i \in DOMAIN objectives :
           /\ Better(objectives[i], objective_value(p, objectives[i]),
                                    objective_value(q, objectives[i]))
           /\ \A j \in 1..(i - 1) : Same(j)
      \/ /\ \A i \in DOMAIN objectives : Same(i)
         /\ DevicesBefore(DevicesIn(p), DevicesIn(q))

(* A stable sort: insertion behind everything that does not follow. *)
Inserted(ranked, p, objectives) ==
  LET after == {i \in DOMAIN ranked : Precedes(p, ranked[i], objectives)}
  IN  InsertAt(ranked, IF after = {} THEN Len(ranked) + 1 ELSE Min(after), p)

rank_plans(passers, objectives) ==
  LET Sorted[n \in 0..Len(passers)] ==
        IF n = 0 THEN <<>> ELSE Inserted(Sorted[n - 1], passers[n], objectives)
  IN  Sorted[Len(passers)]
-----------------------------------------------------------------------------
(* evaluate.  The topology is the one measured with the sample, as the     *)
(* code asserts.  `since' and `sample', which the receipt carries as the   *)
(* generation and the snapshot's id, and the plans of the request say what *)
(* the outcome is about.                                                   *)
Evaluate(c, s, links, plans, objectives) ==
  /\ outcome = NoOutcome                 \* bound: one evaluation
  /\ IsTopology(links, s)
  /\ LET passing == {i \in DOMAIN plans : Passes(plans[i], c, links, s)}
     IN  outcome' =
           [evaluated |-> TRUE, since |-> generation, links |-> links, sample |-> s,
            plans |-> plans, objectives |-> objectives,
            ranked |-> rank_plans(Kept(plans, passing), objectives),
            rejected |-> Kept(plans, DOMAIN plans \ passing)]
  /\ UNCHANGED vars

PolicyInit == Init /\ outcome = NoOutcome

(* Bound: an evaluation is made by a host that holds samples only, and     *)
(* after it only the machine and the probes go on.                         *)
PolicyNext ==
  \/ outcome = NoOutcome /\ Next /\ UNCHANGED outcome
  \/ /\ selected = NoSet /\ admitted = NoLogicalPlan /\ plan = NoPlan
     /\ \A v \in VirtualId : partitions[v] = NotAdmitted
     /\ \E c \in Selections, s \in samples, links \in Topologies,
           plans \in Candidates, objectives \in ObjectiveLists :
          Evaluate(c, s, links, plans, objectives)
  \/ /\ outcome # NoOutcome /\ UNCHANGED outcome
     /\ \/ \E o \in Ordinal, d \in Device \cup {NoDevice} : Replug(o, d)
        \/ Probe

PolicySpec == PolicyInit /\ [][PolicyNext]_policyVars
-----------------------------------------------------------------------------
(* A ranked plan passed the four gates: while no probe has advanced the    *)
(* epoch since the evaluation it runs on devices the last probe found;     *)
(* each of them has the compute capability, the dtypes and the SMs its     *)
(* assignment needs; its bytes are within the budget of its device and the *)
(* declared total within the total budget; and data moves between two      *)
(* devices only over a link that was measured and admitted.                *)
RankedIsCurrent ==
  outcome # NoOutcome =>
    \A i \in DOMAIN outcome.ranked :
      LET p == outcome.ranked[i] IN
      /\ outcome.since = generation => DevicesIn(p) \subseteq Identities(last)
      /\ \A a \in Range(p.assignments) :
           LET have == Capabilities[a.device]
           IN  /\ \/ have.compute[1] > a.needs.compute[1]
                  \/ have.compute[1] = a.needs.compute[1] /\ have.compute[2] >= a.needs.compute[2]
               /\ a.needs.dtypes \subseteq have.dtypes
               /\ have.sm_count >= a.needs.sm_count
               /\ a.bytes \in 0..Budgets[a.device]
      /\ TotalBudget # -1 => p.declared_total <= TotalBudget
      /\ \A t \in p.transfers : t[1] # t[2] =>
           [from |-> t[1], to |-> t[2], state |-> "Admitted"] \in outcome.links

(* The places of a plan in a list. *)
PlacesOf(p, list) == {i \in DOMAIN list : list[i] = p}

(* Every plan of the request is ranked or rejected, as often as it was     *)
(* submitted and never both, and nothing else is; and no plan stands above *)
(* another that is better in the first objective, in the declared order,   *)
(* on which the two differ, where a missing fact counts as the worst.      *)
RankedByObjectives ==
  outcome # NoOutcome =>
    LET r == outcome.ranked
        os == outcome.objectives
        Score(p, o) ==
          LET v == IF o = "CapacityReserve" THEN objective_value(p, o)
                   ELSE IF p.facts[o] = NoFact THEN (IF o \in Minimized THEN MaxBytes ELSE 0)
                   ELSE p.facts[o]
          IN  IF o \in Minimized THEN -v ELSE v
    IN  /\ Range(r) \cap Range(outcome.rejected) = {}
        /\ Range(r) \cup Range(outcome.rejected) = Range(outcome.plans)
        /\ \A p \in Range(outcome.plans) :
             Cardinality(PlacesOf(p, outcome.plans))
               = Cardinality(PlacesOf(p, r)) + Cardinality(PlacesOf(p, outcome.rejected))
        /\ \A i, j \in DOMAIN r : i < j =>
             \A k \in DOMAIN os :
               (\A m \in 1..(k - 1) : Score(r[i], os[m]) = Score(r[j], os[m]))
                 => Score(r[i], os[k]) >= Score(r[j], os[k])

(* The outcome of evaluate is sound: each ranked plan passed every gate on *)
(* current data, no plan is lost, and none is placed after one that the    *)
(* objectives put behind it.                                               *)
RankingSound == RankedIsCurrent /\ RankedByObjectives
=============================================================================
