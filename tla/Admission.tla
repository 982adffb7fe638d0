----------------------------- MODULE Admission -----------------------------
(***************************************************************************)
(* How a logical plan comes to be bound to devices: the health epoch and   *)
(* device identities (src/src/device_identity.rs), discovery samples       *)
(* (discovery.rs), device-set selection (device_set.rs), partitions        *)
(* admitted against a byte budget (partition.rs), and admit and bind of    *)
(* the plan itself (bound_plan.rs).                                        *)
(*                                                                         *)
(* The machine changes under the host at any time.  The host notices at    *)
(* its next probe, and until then every sample, selection and partition it *)
(* holds may be used.  bind consumes the device set it is given, so a set  *)
(* is used for one bind, accepted or not.  Identity and presence stand for *)
(* the facts that gate admission.                                          *)
(***************************************************************************)
EXTENDS Integers, FiniteSets, Sequences

CONSTANTS
  Device, NoDevice, Ordinal,
  Backend,                \* Backend[d] is the backend of device d
  Machines,               \* what may be plugged in at the start
  VirtualId, NoPartition, \* the partition ids the host mints
  Ledgers, Limits,        \* declared ledgers, and policy limits
  MaxBytes,               \* the largest u64
  Selections,             \* DeviceSetSelection requests
  Logical,                \* logical partitions
  PlanRequests,           \* arguments of AdmittedLogicalPlan::admit
  MaxGeneration,          \* where the health generation saturates
  MaxChanges, MaxProbes   \* bounds on the machine's changes, the probes

NotAdmitted == [state |-> "NotAdmitted"]
NoSet == [held |-> FALSE]
NoLogicalPlan == [hash |-> "none"]
NoPlan == [kind |-> "none"]

ASSUME GenerationAssumption ==
  /\ MaxChanges \in Nat /\ MaxProbes \in Nat
  /\ MaxGeneration \in Nat /\ MaxProbes < MaxGeneration
ASSUME NoneAssumption == NoDevice \notin Device /\ NoPartition \notin VirtualId
ASSUME InputsAssumption ==
  /\ Machines \subseteq [Ordinal -> Device \cup {NoDevice}]
  /\ MaxBytes \in Nat /\ Limits \subseteq Nat
  /\ Ledgers \subseteq
       [weight : Nat, kv_cache : Nat, activation_scratch : Nat,
        module_storage : Nat, allocator_overhead : Nat,
        transfer_staging : Nat, concurrent_state : Nat]
  /\ \A c \in Selections : c.explicit => c.ids \subseteq Device

(* Plans have finitely many partitions, and constraints one of three kinds. *)
ASSUME PlanAssumption ==
  /\ IsFiniteSet(Logical)
  /\ \A r \in PlanRequests : \A i \in DOMAIN r.constraints :
       r.constraints[i].kind \in {"distinct", "colocated", "backend"}

VARIABLES
  machine,     \* Ordinal -> the device plugged in there
  generation,  \* the current DeviceHealthGeneration
  samples,     \* the DeviceDiscoverySnapshots the host holds
  last,        \* the most recent of them
  selected,    \* the DeviceSet the host holds; `since' is the epoch it was
               \* resolved in, which the code does not keep
  partitions,  \* VirtualId -> VirtualDevicePartition
  admitted,    \* the AdmittedLogicalPlan
  plan,        \* the BoundDistributedPlan
  panicked,    \* an expect() of bind has failed
  changes, probes
machineVars == <<machine, changes>>
probeVars == <<generation, samples, last, probes>>
vars == <<machine, changes, generation, samples, last, probes, selected,
          partitions, admitted, plan, panicked>>

----------------------------------------------------------------------------
(* Epochs and samples.  A sample maps the ordinals it found to the         *)
(* identity there and the epoch it was recorded under.                     *)
Initial == 1
Advance(g) == IF g < MaxGeneration THEN g + 1 ELSE g
IsStale(current, candidate) == candidate # current

Entry == [identity : Device, generation : Nat]
IsSample(s) == DOMAIN s \subseteq Ordinal /\ s \in [DOMAIN s -> Entry]
EmptySample == [o \in {} |-> o]
Identities(s) == {s[o].identity : o \in DOMAIN s}

(* A snapshot is stale when any of its entries is. *)
SampleIsStale(s) == \E o \in DOMAIN s : IsStale(generation, s[o].generation)

(* DeviceSet::validate: every member is recorded, in the current epoch. *)
Validates(ids, s) ==
  \A d \in ids : \E o \in DOMAIN s :
    s[o].identity = d /\ ~IsStale(generation, s[o].generation)

(* A device is plugged in, removed or replaced. *)
Replug(o, d) ==
  /\ changes < MaxChanges /\ changes' = changes + 1
  /\ d # machine[o]
  /\ d # NoDevice => \A p \in Ordinal : machine[p] # d
  /\ machine' = [machine EXCEPT ![o] = d]
  /\ UNCHANGED <<probeVars, selected, partitions, admitted, plan, panicked>>

(* The host's probe.  The epoch advances on an observed change, of what is *)
(* present or of the identity at an ordinal (change_against).              *)
Found == {o \in Ordinal : machine[o] # NoDevice}
PresenceChanged == Found # DOMAIN last
Changed ==
  \/ Found # DOMAIN last
  \/ \E o \in Found : machine[o] # last[o].identity

Probe ==
  /\ probes < MaxProbes /\ probes' = probes + 1
  /\ generation' = IF Changed THEN Advance(generation) ELSE generation
  /\ last' = [o \in Found |->
               [identity |-> machine[o], generation |-> generation']]
  /\ samples' = samples \cup {last'}
  /\ UNCHANGED <<machineVars, selected, partitions, admitted, plan, panicked>>

----------------------------------------------------------------------------
(* DeviceSetSelection::resolve: named devices, or constraints (max is -1   *)
(* where there is none).                                                   *)
SelectsStale(c, e) ==
  /\ c.backend \in {"any", Backend[e.identity]}
  /\ e.identity \notin c.exclude

Selects(c, e) ==
  /\ ~IsStale(generation, e.generation)
  /\ c.backend \in {"any", Backend[e.identity]}
  /\ e.identity \notin c.exclude

Selected(c, s) == {s[o].identity : o \in {p \in DOMAIN s : Selects(c, s[p])}}
InBounds(c, n) == n >= c.min /\ (c.max = -1 \/ n <= c.max)

Hold(ids) ==
  selected' = [held |-> TRUE, members |-> ids, since |-> generation]

Resolve(c, s) ==
  /\ plan = NoPlan                      \* bound: one plan
  /\ \/ c.explicit /\ Validates(c.ids, s) /\ Hold(c.ids)
     \/ /\ ~c.explicit /\ InBounds(c, Cardinality(Selected(c, s)))
        /\ Hold(Selected(c, s))
  /\ UNCHANGED <<machineVars, probeVars, partitions, admitted, plan, panicked>>

----------------------------------------------------------------------------
(* Partition admission.  A ledger has a number of bytes for each of seven  *)
(* classes; Overflow is checked_add's None.                                *)
Overflow == -1
WrappingAdd(a, b) == (a + b) % (MaxBytes + 1)
CheckedAdd(a, b) ==
  IF a = Overflow \/ a + b > MaxBytes THEN Overflow ELSE a + b

TotalBytes(l) ==
  CheckedAdd(CheckedAdd(CheckedAdd(CheckedAdd(CheckedAdd(CheckedAdd(
    l.weight, l.kv_cache), l.activation_scratch), l.module_storage),
    l.allocator_overhead), l.transfer_staging), l.concurrent_state)

Admit(v, d, l, limit) ==
  /\ partitions[v] = NotAdmitted        \* the host mints an id once
  /\ TotalBytes(l) # Overflow /\ TotalBytes(l) <= limit
  /\ partitions' = [partitions EXCEPT ![v] =
       [state |-> "Active", device |-> d, ledger |-> l, limit |-> limit]]
  /\ UNCHANGED <<machineVars, probeVars, selected, admitted, plan, panicked>>

SetState(v, st) ==
  /\ partitions' = [partitions EXCEPT ![v].state = st]
  /\ UNCHANGED <<machineVars, probeVars, selected, admitted, plan, panicked>>

(* record_failure, with an allocation failure or a device loss. *)
Failures == {"AllocationFailure", "DeviceLoss"}
RecordFailure(v, f) == partitions[v].state = "Active" /\ SetState(v, f)

Teardown(v) == partitions[v] # NotAdmitted /\ SetState(v, "TornDown")

----------------------------------------------------------------------------
(* The logical plan: AdmittedLogicalPlan::admit.  Each of its constraints  *)
(* may name declared partitions only.                                      *)
ColocatedOnly(c) == IF c.kind = "colocated" THEN c.partitions ELSE {}
ConstraintPartitions(c) == IF c.kind = "distinct" THEN {} ELSE c.partitions

AdmitPlan(r) ==
  /\ plan = NoPlan                      \* bound: one plan
  /\ r.hash = "sha256" /\ r.declared # {}
  /\ \A i \in DOMAIN r.constraints :
       ConstraintPartitions(r.constraints[i]) \subseteq r.declared
  /\ admitted' = r
  /\ UNCHANGED <<machineVars, probeVars, selected, partitions, plan, panicked>>

----------------------------------------------------------------------------
(* bind.  A binding map gives logical partitions a device and perhaps an   *)
(* admitted partition.                                                     *)
Binding == [device : Device, virtual : VirtualId \cup {NoPartition}]
BindingMap == UNION {[D -> Binding] : D \in SUBSET Logical}
DevicesOf(b) == {b[l].device : l \in DOMAIN b}
Attached(b) == {b[l].virtual : l \in DOMAIN b} \ {NoPartition}

(* check_constraint: a lookup of an unbound partition panics. *)
Misses(c, b) ==
  c.kind # "distinct" /\ ~(c.partitions \subseteq DOMAIN b)

HoldsUncounted(c, b) ==
  CASE c.kind = "backend" -> \A l \in c.partitions : Backend[b[l].device] = c.backend
    [] OTHER -> TRUE

Holds(c, b) ==
  CASE c.kind = "distinct" ->
         Cardinality(DevicesOf(b)) = Cardinality(DOMAIN b)
    [] c.kind = "colocated" ->
         Cardinality({b[l].device : l \in c.partitions}) <= 1
    [] c.kind = "backend" ->
         \A l \in c.partitions : Backend[b[l].device] = c.backend

(* Constraints are checked in order: one that panics is only reached when  *)
(* those before it hold.                                                   *)
Panics(cs, b) ==
  \E i \in DOMAIN cs : /\ Misses(cs[i], b)
                       /\ \A j \in 1..(i - 1) : ~Misses(cs[j], b) /\ Holds(cs[j], b)

Attachable(a) ==
  a.virtual # NoPartition =>
    /\ partitions[a.virtual].device = a.device
    /\ partitions[a.virtual].state = "Active"

MatchesDevices(b, ids) == DevicesOf(b) = ids

Outcome(b, ids, s) ==
  IF SampleIsStale(s) THEN "StaleSnapshot"
  ELSE IF ~Validates(ids, s) THEN "Membership"
  ELSE IF DOMAIN b # admitted.declared THEN "TopologyMismatch"
  ELSE IF ~MatchesDevices(b, ids) THEN "TopologyMismatch"
  ELSE IF \E l \in DOMAIN b : ~Attachable(b[l]) THEN "InvalidPartitionBinding"
  ELSE IF Panics(admitted.constraints, b) THEN "panic"
  ELSE IF \E i \in DOMAIN admitted.constraints :
            ~Holds(admitted.constraints[i], b) THEN "ConstraintViolation"
  ELSE "bound"

(* One declared partition binds without the distributed wrapper. *)
Bound(b, ids, s) ==
  [kind |-> IF Cardinality(admitted.declared) = 1
            THEN "ImplicitLocal" ELSE "Distributed",
   bindings |-> b, device_set |-> ids, snapshot |-> s, logical |-> admitted]

Bind(b, s) ==
  /\ admitted # NoLogicalPlan /\ selected # NoSet
  /\ \A v \in Attached(b) : partitions[v] # NotAdmitted
  /\ LET out == Outcome(b, selected.members, s)
     IN  /\ plan' = IF out = "bound" THEN Bound(b, selected.members, s)
                    ELSE plan
         /\ panicked' = (out = "panic")
  /\ selected' = NoSet
  /\ UNCHANGED <<machineVars, probeVars, partitions, admitted>>

----------------------------------------------------------------------------
Init ==
  /\ machine \in Machines
  /\ generation = Initial /\ samples = {} /\ last = EmptySample
  /\ selected = NoSet /\ admitted = NoLogicalPlan /\ plan = NoPlan
  /\ partitions = [v \in VirtualId |-> NotAdmitted]
  /\ panicked = FALSE /\ changes = 0 /\ probes = 0

Next ==
  \/ \E o \in Ordinal, d \in Device \cup {NoDevice} : Replug(o, d)
  \/ Probe
  \/ \E c \in Selections, s \in samples : Resolve(c, s)
  \/ \E v \in VirtualId, d \in Device, l \in Ledgers, limit \in Limits :
       Admit(v, d, l, limit)
  \/ \E v \in VirtualId, f \in Failures : RecordFailure(v, f)
  \/ \E v \in VirtualId : Teardown(v)
  \/ \E r \in PlanRequests : AdmitPlan(r)
  \/ \E b \in BindingMap, s \in samples : Bind(b, s)

Spec == Init /\ [][Next]_vars

----------------------------------------------------------------------------
Partition ==
  [state : {"Active", "TornDown"} \cup Failures, device : Device,
   ledger : Ledgers, limit : Limits]
DeviceSet == [held : {TRUE}, members : SUBSET Device, since : Nat]

(* Every variable has its type. *)
TypeOK ==
  /\ machine \in [Ordinal -> Device \cup {NoDevice}]
  /\ generation \in 1..MaxGeneration
  /\ IsSample(last) /\ \A s \in samples : IsSample(s)
  /\ selected \in DeviceSet \cup {NoSet}
  /\ partitions \in [VirtualId -> Partition \cup {NotAdmitted}]
  /\ admitted \in PlanRequests \cup {NoLogicalPlan}
  /\ plan # NoPlan => plan.bindings \in BindingMap
  /\ panicked \in BOOLEAN /\ changes \in Nat /\ probes \in Nat

(* A device set is about the machine as last probed: while no probe has    *)
(* advanced the epoch since it was resolved, each of its members was found *)
(* by the last probe, whichever sample it was resolved from.               *)
SelectionIsCurrent ==
  selected # NoSet /\ selected.since = generation =>
    selected.members \subseteq Identities(last)

(* A plan is about the machine as last probed: while the epoch it was      *)
(* bound in lasts, each device it is bound to was found by the last probe. *)
PlanIsCurrent ==
  plan # NoPlan /\ ~SampleIsStale(plan.snapshot) =>
    plan.device_set \subseteq Identities(last)

(* No partition is admitted beyond its limit: the true sum of the seven    *)
(* byte classes, however large, is at most the limit.                      *)
AdmittedWithinLimit ==
  \A v \in VirtualId : partitions[v] # NotAdmitted =>
    LET l == partitions[v].ledger
    IN  l.weight + l.kv_cache + l.activation_scratch + l.module_storage
        + l.allocator_overhead + l.transfer_staging + l.concurrent_state
        <= partitions[v].limit

(* What admit accepts, bind can check: no constraint of an admitted plan   *)
(* sends bind to a binding that is not there.                              *)
NoPanic == ~panicked

(* A bound plan places every declared partition, and as every one of its   *)
(* constraints asks.                                                       *)
Placed(b, c) ==
  CASE c.kind = "distinct"  -> \A l, m \in DOMAIN b : b[l].device = b[m].device => l = m
    [] c.kind = "colocated" -> \A l, m \in c.partitions : b[l].device = b[m].device
    [] c.kind = "backend"   -> \A l \in c.partitions : Backend[b[l].device] = c.backend

PlacedAsDeclared ==
  plan # NoPlan =>
    /\ DOMAIN plan.bindings = plan.logical.declared
    /\ \A i \in DOMAIN plan.logical.constraints :
         Placed(plan.bindings, plan.logical.constraints[i])

=============================================================================
