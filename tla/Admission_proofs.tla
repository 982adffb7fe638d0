-------------------------- MODULE Admission_proofs --------------------------
(***************************************************************************)
(* Proofs about Admission and Policy, for any machine, any requests and    *)
(* plans, and any number of probes.  A plan or a selection stays about the *)
(* machine as last probed because two samples of the same epoch are the    *)
(* same sample (EpochsTell), which needs that the epoch never saturates.   *)
(***************************************************************************)
EXTENDS Policy, Lists_proofs

(* An entry of the current epoch is found in the last sample only, and the *)
(* last sample has no other entries.                                       *)
EpochsTell ==
  /\ generation <= probes + 1 /\ probes <= MaxProbes
  /\ \A o \in DOMAIN last : last[o].generation = generation
  /\ \A s \in samples : \A o \in DOMAIN s :
       /\ s[o].generation <= generation
       /\ s[o].generation = generation => s = last

(* Selections are not of the future. *)
SelectedInThePast == selected # NoSet => selected.since <= generation

(* A plan's devices are in the sample it was bound with. *)
PlanIsOfItsSample ==
  plan # NoPlan =>
    /\ plan.snapshot \in samples
    /\ plan.device_set \subseteq Identities(plan.snapshot)

(* An admitted plan's constraints name declared partitions. *)
ConstraintsAreDeclared ==
  admitted # NoLogicalPlan =>
    \A i \in DOMAIN admitted.constraints :
      ConstraintPartitions(admitted.constraints[i]) \subseteq admitted.declared

EpochInv ==
  EpochsTell /\ SelectedInThePast /\ SelectionIsCurrent /\ PlanIsOfItsSample

IInv ==
  /\ TypeOK /\ EpochInv /\ AdmittedWithinLimit
  /\ ConstraintsAreDeclared /\ NoPanic

----------------------------------------------------------------------------
(* A checked sum that does not overflow is the sum. *)
LEMMA CheckedSum ==
  ASSUME NEW a \in Int, a >= -1, NEW b \in Nat, CheckedAdd(a, b) # Overflow
  PROVE  a >= 0 /\ CheckedAdd(a, b) = a + b
BY DEF CheckedAdd, Overflow

(* checked_add returns a number or None. *)
LEMMA CheckedType ==
  ASSUME NEW a \in Int, a >= -1, NEW b \in Nat
  PROVE  CheckedAdd(a, b) \in Int /\ CheckedAdd(a, b) >= -1
BY DEF CheckedAdd, Overflow

(* A total_bytes that is not None is the sum of the seven classes. *)
LEMMA TotalIsSum ==
  ASSUME NEW l \in Ledgers, TotalBytes(l) # Overflow
  PROVE  TotalBytes(l) = l.weight + l.kv_cache + l.activation_scratch
           + l.module_storage + l.allocator_overhead + l.transfer_staging
           + l.concurrent_state
<1>1. /\ l.weight \in Nat /\ l.kv_cache \in Nat /\ l.activation_scratch \in Nat
      /\ l.module_storage \in Nat /\ l.allocator_overhead \in Nat
      /\ l.transfer_staging \in Nat /\ l.concurrent_state \in Nat
  BY InputsAssumption
<1> DEFINE t2 == CheckedAdd(l.weight, l.kv_cache)
           t3 == CheckedAdd(t2, l.activation_scratch)
           t4 == CheckedAdd(t3, l.module_storage)
           t5 == CheckedAdd(t4, l.allocator_overhead)
           t6 == CheckedAdd(t5, l.transfer_staging)
           t7 == CheckedAdd(t6, l.concurrent_state)
<1>2. t2 \in Int /\ t2 >= -1
  BY <1>1 DEF CheckedAdd, Overflow
<1>3. t2 # Overflow => t2 = l.weight + l.kv_cache
  BY <1>1, CheckedSum
<1> HIDE DEF t2
<1>4. t3 \in Int /\ t3 >= -1
  BY <1>1, <1>2, CheckedType
<1>5. t3 # Overflow => t2 >= 0 /\ t3 = t2 + l.activation_scratch
  BY <1>1, <1>2, CheckedSum
<1> HIDE DEF t3
<1>6. t4 \in Int /\ t4 >= -1
  BY <1>1, <1>4, CheckedType
<1>7. t4 # Overflow => t3 >= 0 /\ t4 = t3 + l.module_storage
  BY <1>1, <1>4, CheckedSum
<1> HIDE DEF t4
<1>8. t5 \in Int /\ t5 >= -1
  BY <1>1, <1>6, CheckedType
<1>9. t5 # Overflow => t4 >= 0 /\ t5 = t4 + l.allocator_overhead
  BY <1>1, <1>6, CheckedSum
<1> HIDE DEF t5
<1>10. t6 \in Int /\ t6 >= -1
  BY <1>1, <1>8, CheckedType
<1>11. t6 # Overflow => t5 >= 0 /\ t6 = t5 + l.transfer_staging
  BY <1>1, <1>8, CheckedSum
<1> HIDE DEF t6
<1>12. t7 # Overflow => t6 >= 0 /\ t7 = t6 + l.concurrent_state
  BY <1>1, <1>10, CheckedSum
<1>13. TotalBytes(l) = t7
  BY DEF TotalBytes, t2, t3, t4, t5, t6, t7
<1> HIDE DEF t7
<1>14. QED
  BY <1>1, <1>2, <1>3, <1>4, <1>5, <1>6, <1>7, <1>8, <1>9, <1>10, <1>11,
     <1>12, <1>13 DEF Overflow

----------------------------------------------------------------------------
(* The invariant holds before the first probe. *)
LEMMA InitIInv == Init => IInv
<1> SUFFICES ASSUME Init PROVE IInv
  OBVIOUS
<1> USE DEF Init
<1>1. TypeOK
  <2>1. IsSample(last)
    BY DEF IsSample, EmptySample
  <2>2. machine \in [Ordinal -> Device \cup {NoDevice}]
    BY InputsAssumption
  <2>3. generation \in 1..MaxGeneration
    BY GenerationAssumption DEF Initial
  <2>4. QED
    BY <2>1, <2>2, <2>3 DEF TypeOK
<1>2. EpochInv
  BY GenerationAssumption DEF EpochInv, EpochsTell, SelectedInThePast,
     SelectionIsCurrent, PlanIsOfItsSample, Initial, EmptySample
<1>3. QED
  BY <1>1, <1>2 DEF IInv, AdmittedWithinLimit, ConstraintsAreDeclared, NoPanic

(* A failure is recorded for an admitted partition only. *)
LEMMA RecordsAdmitted ==
  ASSUME NEW v \in VirtualId, NEW f \in Failures, RecordFailure(v, f)
  PROVE  partitions[v] # NotAdmitted /\ SetState(v, f)
BY DEF RecordFailure, NotAdmitted

(* Every step preserves the types. *)
LEMMA StepTypeOK ==
  ASSUME TypeOK, [Next]_vars
  PROVE  TypeOK'
<1> USE DEF machineVars, probeVars
<1>1. ASSUME NEW o \in Ordinal, NEW d \in Device \cup {NoDevice}, Replug(o, d)
      PROVE  TypeOK'
  BY <1>1 DEF TypeOK, Replug
<1>2. CASE Probe
  <2>1. generation' \in 1..MaxGeneration
    BY <1>2, GenerationAssumption DEF TypeOK, Probe, Advance
  <2>2. IsSample(last')
    <3>1. Found \subseteq Ordinal /\ \A o \in Found : machine[o] \in Device
      BY DEF TypeOK, Found
    <3>2. generation' \in Nat
      BY <2>1
    <3>3. QED
      BY <1>2, <3>1, <3>2 DEF Probe, IsSample, Entry
  <2>3. QED
    BY <1>2, <2>1, <2>2 DEF TypeOK, Probe
<1>3. ASSUME NEW c \in Selections, NEW s \in samples, Resolve(c, s)
      PROVE  TypeOK'
  <2>1. PICK ids \in SUBSET Device : Hold(ids)
    <3>1. Selected(c, s) \subseteq Device
      BY DEF TypeOK, IsSample, Entry, Selected
    <3>2. QED
      BY <1>3, <3>1, InputsAssumption DEF Resolve
  <2>2. selected' \in DeviceSet
    BY <2>1 DEF Hold, DeviceSet, TypeOK
  <2>3. QED
    BY <1>3, <2>2 DEF TypeOK, Resolve
<1>4. ASSUME NEW v \in VirtualId, NEW d \in Device, NEW l \in Ledgers,
             NEW limit \in Limits, Admit(v, d, l, limit)
      PROVE  TypeOK'
  <2>1. [state |-> "Active", device |-> d, ledger |-> l, limit |-> limit] \in Partition
    BY DEF Partition
  <2>2. partitions' \in [VirtualId -> Partition \cup {NotAdmitted}]
    BY <1>4, <2>1 DEF TypeOK, Admit
  <2>3. QED
    BY <1>4, <2>2 DEF TypeOK, Admit
<1>5. ASSUME NEW v \in VirtualId, NEW st \in Failures \cup {"TornDown"},
             partitions[v] # NotAdmitted, SetState(v, st)
      PROVE  TypeOK'
  <2>1. partitions[v] \in Partition
    BY <1>5 DEF TypeOK
  <2>2. [partitions[v] EXCEPT !.state = st] \in Partition
    BY <2>1 DEF Partition
  <2>3. partitions' = [partitions EXCEPT ![v] = [partitions[v] EXCEPT !.state = st]]
    BY <1>5 DEF SetState
  <2>4. partitions' \in [VirtualId -> Partition \cup {NotAdmitted}]
    BY <2>2, <2>3 DEF TypeOK
  <2>5. QED
    BY <1>5, <2>4 DEF TypeOK, SetState
<1>6. ASSUME NEW r \in PlanRequests, AdmitPlan(r)
      PROVE  TypeOK'
  BY <1>6 DEF TypeOK, AdmitPlan
<1>7. ASSUME NEW b \in BindingMap, NEW s \in samples, Bind(b, s)
      PROVE  TypeOK'
  <2>1. plan' # NoPlan => plan'.bindings \in BindingMap
    BY <1>7 DEF TypeOK, Bind, Bound
  <2>2. selected' = NoSet /\ panicked' \in BOOLEAN
    BY <1>7 DEF Bind
  <2>3. UNCHANGED <<machine, changes, generation, samples, last, probes, partitions, admitted>>
    BY <1>7 DEF Bind
  <2>4. QED
    BY <2>1, <2>2, <2>3 DEF TypeOK
<1>8. CASE UNCHANGED vars
  BY <1>8 DEF TypeOK, vars
<1>9. QED
  BY <1>1, <1>2, <1>3, <1>4, <1>5, <1>6, <1>7, <1>8, RecordsAdmitted DEF Next, Teardown

----------------------------------------------------------------------------
(* A device that validates against some sample was found by the last probe. *)
LEMMA ValidIsPresent ==
  ASSUME EpochsTell, NEW s \in samples, NEW ids, Validates(ids, s)
  PROVE  ids \subseteq Identities(last) /\ ids \subseteq Identities(s)
BY DEF EpochsTell, Validates, IsStale, Identities

(* So was a device that constraints select. *)
LEMMA ResolvedIsPresent ==
  ASSUME EpochsTell, NEW s \in samples, NEW c
  PROVE  Selected(c, s) \subseteq Identities(last)
BY DEF EpochsTell, Selected, Selects, IsStale, Identities

(* A probe that does not advance the epoch finds what the last one found. *)
LEMMA ProbeKeepsEpochs ==
  ASSUME TypeOK, EpochInv, Probe
  PROVE  EpochInv'
<1> USE GenerationAssumption DEF EpochInv, machineVars
<1>0. /\ generation \in Nat /\ probes \in Nat
      /\ \A s \in samples : \A o \in DOMAIN s : s[o].generation \in Nat
  BY DEF TypeOK, IsSample, Entry
<1>1. CASE Changed
  <2>1. generation' = generation + 1
    BY <1>0, <1>1 DEF EpochsTell, Probe, Advance
  <2>2. /\ probes' = probes + 1 /\ probes < MaxProbes
        /\ samples' = samples \cup {last'}
        /\ \A o \in DOMAIN last' : last'[o].generation = generation'
        /\ UNCHANGED <<selected, plan>>
    BY DEF Probe
  <2>3. EpochsTell'
    BY <1>0, <2>1, <2>2 DEF EpochsTell
  <2>4. SelectedInThePast' /\ SelectionIsCurrent'
    <3>1. \A x \in DeviceSet : x.since \in Nat
      BY DEF DeviceSet
    <3>2. selected # NoSet => selected \in DeviceSet
      BY DEF TypeOK
    <3>3. selected # NoSet => selected.since <= generation
      BY DEF SelectedInThePast
    <3>4. selected # NoSet => selected.since \in Nat
      BY <3>1, <3>2
    <3>5. QED
      BY <1>0, <2>1, <2>2, <3>3, <3>4 DEF SelectedInThePast, SelectionIsCurrent
  <2>5. PlanIsOfItsSample'
    BY <2>2 DEF PlanIsOfItsSample, Identities
  <2>6. QED
    BY <2>3, <2>4, <2>5
<1>2. CASE ~Changed
  <2>1. generation' = generation
    BY <1>2 DEF Probe
  <2>2. last' = last
    <3>1. Found = DOMAIN last /\ \A o \in Found : machine[o] = last[o].identity
      BY <1>2 DEF Changed
    <3>2. \A o \in DOMAIN last :
            last[o] = [identity |-> machine[o], generation |-> generation]
      BY <3>1 DEF EpochsTell, TypeOK, IsSample, Entry
    <3>3. last' = [o \in DOMAIN last |-> last[o]]
      BY <2>1, <3>1, <3>2 DEF Probe
    <3>4. QED
      BY <3>3 DEF TypeOK, IsSample
  <2>3. /\ probes' = probes + 1 /\ probes < MaxProbes
        /\ samples' = samples \cup {last} /\ UNCHANGED <<selected, plan>>
    BY <2>2 DEF Probe
  <2>4. EpochsTell'
    BY <1>0, <2>1, <2>2, <2>3 DEF EpochsTell
  <2>5. QED
    BY <2>1, <2>2, <2>3, <2>4 DEF SelectedInThePast, SelectionIsCurrent,
       PlanIsOfItsSample, Identities
<1>3. QED
  BY <1>1, <1>2

(* Every step keeps what selections, plans and samples say of the epoch. *)
LEMMA StepEpochInv ==
  ASSUME TypeOK, EpochInv, [Next]_vars
  PROVE  EpochInv'
<1> USE DEF EpochInv, machineVars, probeVars
<1>0. generation \in Nat
  BY DEF TypeOK
<1>1. ASSUME UNCHANGED <<generation, samples, last, probes, selected, plan>>
      PROVE  EpochInv'
  BY <1>1 DEF EpochsTell, SelectedInThePast, SelectionIsCurrent,
     PlanIsOfItsSample, Identities
<1>2. ASSUME NEW c \in Selections, NEW s \in samples, Resolve(c, s)
      PROVE  EpochInv'
  <2>1. PICK ids : Hold(ids) /\ ids \subseteq Identities(last)
    BY <1>2, ValidIsPresent, ResolvedIsPresent DEF Resolve
  <2>2. selected'.since = generation /\ selected'.members = ids
    BY <2>1 DEF Hold
  <2>3. UNCHANGED <<generation, samples, last, probes, plan>>
    BY <1>2 DEF Resolve
  <2>4. QED
    BY <1>0, <2>1, <2>2, <2>3 DEF EpochsTell, SelectedInThePast,
       SelectionIsCurrent, PlanIsOfItsSample, Identities
<1>3. ASSUME NEW b \in BindingMap, NEW s \in samples, Bind(b, s)
      PROVE  EpochInv'
  <2>1. selected' = NoSet /\ UNCHANGED <<generation, samples, last, probes>>
    BY <1>3 DEF Bind
  <2>2. CASE plan' = plan
    BY <2>1, <2>2 DEF EpochsTell, SelectedInThePast, SelectionIsCurrent,
       PlanIsOfItsSample, Identities
  <2>3. CASE plan' # plan
    <3>1. /\ Outcome(b, selected.members, s) = "bound"
          /\ plan' = Bound(b, selected.members, s)
      BY <1>3, <2>3 DEF Bind
    <3>2. Validates(selected.members, s)
      BY <3>1 DEF Outcome
    <3>3. selected.members \subseteq Identities(s)
      BY <3>2, ValidIsPresent
    <3>4. plan'.snapshot = s /\ plan'.device_set = selected.members
      BY <3>1 DEF Bound
    <3>5. QED
      BY <2>1, <3>3, <3>4 DEF EpochsTell, SelectedInThePast,
         SelectionIsCurrent, PlanIsOfItsSample, Identities
  <2>4. QED
    BY <2>2, <2>3
<1>4. CASE Probe
  BY <1>4, ProbeKeepsEpochs
<1>5. ASSUME NEW o \in Ordinal, NEW d \in Device \cup {NoDevice}, Replug(o, d)
      PROVE  EpochInv'
  BY <1>1, <1>5 DEF Replug
<1>6. ASSUME NEW v \in VirtualId, NEW d \in Device, NEW l \in Ledgers,
             NEW limit \in Limits, Admit(v, d, l, limit)
      PROVE  EpochInv'
  BY <1>1, <1>6 DEF Admit
<1>7. ASSUME NEW v \in VirtualId, NEW st, SetState(v, st)
      PROVE  EpochInv'
  BY <1>1, <1>7 DEF SetState
<1>8. ASSUME NEW r \in PlanRequests, AdmitPlan(r)
      PROVE  EpochInv'
  BY <1>1, <1>8 DEF AdmitPlan
<1>9. CASE UNCHANGED vars
  BY <1>1, <1>9 DEF vars
<1>10. QED
  BY <1>2, <1>3, <1>4, <1>5, <1>6, <1>7, <1>8, <1>9 DEF Next, RecordFailure, Teardown

----------------------------------------------------------------------------
(* Only admit adds a partition, and it has checked the sum. *)
LEMMA StepWithinLimit ==
  ASSUME TypeOK, AdmittedWithinLimit, [Next]_vars
  PROVE  AdmittedWithinLimit'
<1> USE DEF machineVars, probeVars
<1>1. ASSUME UNCHANGED partitions
      PROVE  AdmittedWithinLimit'
  BY <1>1 DEF AdmittedWithinLimit
<1>2. ASSUME NEW v \in VirtualId, NEW d \in Device, NEW l \in Ledgers,
             NEW limit \in Limits, Admit(v, d, l, limit)
      PROVE  AdmittedWithinLimit'
  <2>1. /\ TotalBytes(l) # Overflow /\ TotalBytes(l) <= limit
        /\ partitions'[v].ledger = l /\ partitions'[v].limit = limit
        /\ \A w \in VirtualId : w # v => partitions'[w] = partitions[w]
    BY <1>2 DEF Admit, TypeOK
  <2>2. QED
    BY <2>1, TotalIsSum DEF AdmittedWithinLimit
<1>3. ASSUME NEW v \in VirtualId, NEW st, partitions[v] # NotAdmitted, SetState(v, st)
      PROVE  AdmittedWithinLimit'
  <2>1. partitions[v] \in Partition
    BY <1>3 DEF TypeOK
  <2>2. /\ partitions'[v].ledger = partitions[v].ledger
        /\ partitions'[v].limit = partitions[v].limit
        /\ \A w \in VirtualId : w # v => partitions'[w] = partitions[w]
    BY <1>3, <2>1 DEF SetState, TypeOK, Partition
  <2>3. QED
    BY <1>3, <2>2 DEF AdmittedWithinLimit
<1>4. QED
  BY <1>1, <1>2, <1>3, RecordsAdmitted DEF Next, Teardown, Replug, Probe,
     Resolve, AdmitPlan, Bind, vars

(* bind only meets constraints that admit has checked. *)
LEMMA StepNoPanic ==
  ASSUME TypeOK, ConstraintsAreDeclared, NoPanic, [Next]_vars
  PROVE  ConstraintsAreDeclared' /\ NoPanic'
<1> USE DEF machineVars, probeVars
<1>1. ASSUME UNCHANGED <<admitted, panicked>>
      PROVE  ConstraintsAreDeclared' /\ NoPanic'
  BY <1>1 DEF ConstraintsAreDeclared, NoPanic
<1>2. ASSUME NEW r \in PlanRequests, AdmitPlan(r)
      PROVE  ConstraintsAreDeclared' /\ NoPanic'
  BY <1>2 DEF AdmitPlan, ConstraintsAreDeclared, NoPanic
<1>3. ASSUME NEW b \in BindingMap, NEW s \in samples, Bind(b, s)
      PROVE  ConstraintsAreDeclared' /\ NoPanic'
  <2>1. UNCHANGED admitted /\ admitted # NoLogicalPlan
    BY <1>3 DEF Bind
  <2>2. ASSUME DOMAIN b = admitted.declared
        PROVE  ~Panics(admitted.constraints, b)
    BY <2>1, <2>2 DEF Panics, Misses, ConstraintsAreDeclared, ConstraintPartitions
  <2>3. Outcome(b, selected.members, s) # "panic"
    BY <2>2 DEF Outcome
  <2>4. QED
    BY <1>3, <2>1, <2>3 DEF Bind, ConstraintsAreDeclared, NoPanic
<1>4. QED
  BY <1>1, <1>2, <1>3 DEF Next, RecordFailure, Teardown, SetState, Replug,
     Probe, Resolve, Admit, vars

----------------------------------------------------------------------------
(* Where there are as many devices as partitions, none is used twice. *)
LEMMA DistinctDevices ==
  ASSUME NEW b \in BindingMap, Cardinality(DevicesOf(b)) = Cardinality(DOMAIN b),
         NEW l \in DOMAIN b, NEW m \in DOMAIN b, b[l].device = b[m].device
  PROVE  l = m
<1> DEFINE D == DOMAIN b
           f == [k \in D |-> b[k].device]
<1>1. IsFiniteSet(D)
  BY PlanAssumption, FS_Subset DEF BindingMap
<1>2. f \in Surjection(D, DevicesOf(b))
  BY DEF Surjection, DevicesOf
<1> HIDE DEF D
<1>3. f \in Injection(D, DevicesOf(b))
  BY <1>1, <1>2, FS_SurjSameCardinalityImpliesInj DEF D
<1>4. l \in D /\ m \in D
  BY DEF D
<1>5. f[l] = f[m]
  BY <1>4
<1>6. QED
  BY <1>3, <1>4, <1>5 DEF Injection, IsInjective

(* Partitions with at most one device between them share it. *)
LEMMA ColocatedDevice ==
  ASSUME NEW b \in BindingMap, NEW P \in SUBSET DOMAIN b,
         Cardinality({b[l].device : l \in P}) <= 1,
         NEW l \in P, NEW m \in P
  PROVE  b[l].device = b[m].device
<1> DEFINE T == {b[k].device : k \in P}
           f == [k \in P |-> b[k].device]
<1>1. IsFiniteSet(P)
  <2>1. IsFiniteSet(DOMAIN b)
    BY PlanAssumption, FS_Subset DEF BindingMap
  <2>2. QED
    BY <2>1, FS_Subset
<1>2. f \in Surjection(P, T)
  BY DEF Surjection
<1>3. IsFiniteSet(T)
  BY <1>1, <1>2, FS_Surjection
<1>4. b[l].device \in T /\ b[m].device \in T
  OBVIOUS
<1> HIDE DEF T
<1>5. Cardinality(T) \in Nat /\ Cardinality(T) <= 1
  BY <1>3, FS_CardinalityType DEF T
<1>6. Cardinality(T) = 0 \/ Cardinality(T) = 1
  BY <1>5
<1>7. T = {} \/ \E x : T = {x}
  BY <1>3, <1>6, FS_EmptySet, FS_Singleton
<1>8. QED
  BY <1>4, <1>7

(* bind accepts only what places the declared partitions as declared. *)
LEMMA BoundAsDeclared ==
  ASSUME TypeOK, ConstraintsAreDeclared, admitted # NoLogicalPlan,
         NEW b \in BindingMap, NEW ids, NEW s, Outcome(b, ids, s) = "bound",
         NEW i \in DOMAIN admitted.constraints
  PROVE  DOMAIN b = admitted.declared /\ Placed(b, admitted.constraints[i])
<1> DEFINE c == admitted.constraints[i]
<1>1. DOMAIN b = admitted.declared /\ Holds(c, b)
  BY DEF Outcome
<1>2. c.kind \in {"distinct", "colocated", "backend"}
  BY PlanAssumption DEF TypeOK
<1>3. c.kind # "distinct" => c.partitions \subseteq DOMAIN b
  BY <1>1 DEF ConstraintsAreDeclared, ConstraintPartitions
<1>4. CASE c.kind = "distinct"
  <2>1. \A l, m \in DOMAIN b : b[l].device = b[m].device => l = m
    BY <1>1, <1>4, DistinctDevices DEF Holds
  <2>2. QED
    BY <1>1, <1>4, <2>1 DEF Placed
<1>5. CASE c.kind = "colocated"
  <2>1. \A l, m \in c.partitions : b[l].device = b[m].device
    BY <1>1, <1>3, <1>5, ColocatedDevice DEF Holds
  <2>2. QED
    BY <1>1, <1>5, <2>1 DEF Placed
<1>6. CASE c.kind = "backend"
  BY <1>1, <1>6 DEF Holds, Placed
<1>7. QED
  BY <1>2, <1>4, <1>5, <1>6

(* A plan stays as it was bound. *)
LEMMA StepPlaced ==
  ASSUME TypeOK, ConstraintsAreDeclared, PlacedAsDeclared, [Next]_vars
  PROVE  PlacedAsDeclared'
<1> USE DEF machineVars, probeVars
<1>1. ASSUME UNCHANGED plan
      PROVE  PlacedAsDeclared'
  BY <1>1 DEF PlacedAsDeclared
<1>2. ASSUME NEW b \in BindingMap, NEW s \in samples, Bind(b, s)
      PROVE  PlacedAsDeclared'
  <2> DEFINE ids == selected.members
  <2>1. CASE Outcome(b, ids, s) # "bound"
    BY <1>1, <1>2, <2>1 DEF Bind
  <2>2. CASE Outcome(b, ids, s) = "bound"
    <3>1. plan' = Bound(b, ids, s) /\ admitted # NoLogicalPlan
      BY <1>2, <2>2 DEF Bind
    <3>2. plan'.bindings = b /\ plan'.logical = admitted
      BY <3>1 DEF Bound
    <3>3. DOMAIN b = admitted.declared
      BY <2>2 DEF Outcome
    <3>4. \A i \in DOMAIN admitted.constraints : Placed(b, admitted.constraints[i])
      BY <2>2, <3>1, BoundAsDeclared
    <3>5. QED
      BY <3>2, <3>3, <3>4 DEF PlacedAsDeclared
  <2>3. QED
    BY <2>1, <2>2
<1>3. (\E b \in BindingMap, s \in samples : Bind(b, s)) \/ UNCHANGED plan
  BY DEF Next, RecordFailure, Teardown, SetState, Replug,
     Probe, Resolve, Admit, AdmitPlan, vars
<1>4. QED
  BY <1>1, <1>2, <1>3

----------------------------------------------------------------------------
(* Every step preserves the invariant. *)
LEMMA Inductive == IInv /\ [Next]_vars => IInv'
BY StepTypeOK, StepEpochInv, StepWithinLimit, StepNoPanic DEF IInv

(* Hence it always holds. *)
LEMMA Invariance == Spec => []IInv
BY InitIInv, Inductive, PTL DEF Spec

(* Every variable keeps its type. *)
THEOREM TypeCorrect == Spec => []TypeOK
<1>1. IInv => TypeOK
  BY DEF IInv
<1>2. QED
  BY <1>1, Invariance, PTL

(* resolve, from whichever sample, yields devices the last probe found, as *)
(* long as the epoch stands.                                               *)
THEOREM SelectionsAreCurrent == Spec => []SelectionIsCurrent
<1>1. IInv => SelectionIsCurrent
  BY DEF IInv, EpochInv
<1>2. QED
  BY <1>1, Invariance, PTL

(* bind yields plans on devices the last probe found, as long as the epoch *)
(* stands.                                                                 *)
THEOREM PlansAreCurrent == Spec => []PlanIsCurrent
<1>1. ASSUME EpochInv PROVE PlanIsCurrent
  <2> SUFFICES ASSUME plan # NoPlan, ~SampleIsStale(plan.snapshot),
                      NEW d \in plan.device_set
               PROVE  d \in Identities(last)
    BY DEF PlanIsCurrent
  <2>1. PICK o \in DOMAIN plan.snapshot : plan.snapshot[o].identity = d
    BY <1>1 DEF EpochInv, PlanIsOfItsSample, Identities
  <2>2. plan.snapshot[o].generation = generation
    BY DEF SampleIsStale, IsStale
  <2>3. plan.snapshot = last
    BY <1>1, <2>2 DEF EpochInv, EpochsTell, PlanIsOfItsSample
  <2>4. QED
    BY <2>1, <2>3 DEF Identities
<1>2. IInv => PlanIsCurrent
  BY <1>1 DEF IInv
<1>3. QED
  BY <1>2, Invariance, PTL

(* VirtualDevicePartition::admit keeps every partition within its limit,   *)
(* whatever the seven byte classes and wherever u64 ends.                  *)
THEOREM NoPartitionOverLimit == Spec => []AdmittedWithinLimit
<1>1. IInv => AdmittedWithinLimit
  BY DEF IInv
<1>2. QED
  BY <1>1, Invariance, PTL

(* A bound plan places every declared partition, and as each of its        *)
(* constraints asks, whatever the plan and the devices.                    *)
THEOREM PlansArePlacedAsDeclared == Spec => []PlacedAsDeclared
<1>1. Init => PlacedAsDeclared
  BY DEF Init, PlacedAsDeclared
<1>2. IInv /\ PlacedAsDeclared /\ [Next]_vars => PlacedAsDeclared'
  BY StepPlaced DEF IInv
<1>3. QED
  BY <1>1, <1>2, Invariance, PTL DEF Spec

(* The expect() calls of check_constraint never fail. *)
THEOREM BindNeverPanics == Spec => []NoPanic
<1>1. IInv => NoPanic
  BY DEF IInv
<1>2. QED
  BY <1>1, Invariance, PTL

-----------------------------------------------------------------------------
(* The policy.  evaluate only reads, so that what holds of Admission holds *)
(* beside it.                                                              *)
LEMMA PolicyStepIsStep == [PolicyNext]_policyVars => [Next]_vars
BY DEF PolicyNext, Evaluate, policyVars, Next

(* evaluate allocates and admits nothing: every behaviour with a policy is *)
(* one of Admission, so that the theorems above hold of it.                *)
THEOREM PolicyOnlyReads == PolicySpec => Spec
<1>1. PolicyInit => Init
  BY DEF PolicyInit
<1>2. QED
  BY <1>1, PolicyStepIsStep, PTL DEF PolicySpec, Spec

LEMMA PolicyInvariance == PolicySpec => []IInv
<1>1. PolicyInit => IInv
  BY InitIInv DEF PolicyInit
<1>2. IInv /\ [PolicyNext]_policyVars => IInv'
  BY PolicyStepIsStep, Inductive
<1>3. QED
  BY <1>1, <1>2, PTL DEF PolicySpec

(* A probe advances the epoch or finds what the last one found. *)
LEMMA ProbeTells ==
  ASSUME TypeOK, EpochInv, Probe
  PROVE  generation' = generation + 1 \/ (generation' = generation /\ last' = last)
<1>1. generation \in Nat /\ probes \in Nat
  BY DEF TypeOK
<1>2. CASE Changed
  BY <1>1, <1>2, GenerationAssumption DEF EpochInv, EpochsTell, Probe, Advance
<1>3. CASE ~Changed
  <2>1. generation' = generation
    BY <1>3 DEF Probe
  <2>2. Found = DOMAIN last /\ \A o \in Found : machine[o] = last[o].identity
    BY <1>3 DEF Changed
  <2>3. \A o \in DOMAIN last :
          last[o] = [identity |-> machine[o], generation |-> generation]
    BY <2>2 DEF EpochInv, EpochsTell, TypeOK, IsSample, Entry
  <2>4. last' = [o \in DOMAIN last |-> last[o]]
    BY <2>1, <2>2, <2>3 DEF Probe
  <2>5. last' = last
    BY <2>4 DEF TypeOK, IsSample
  <2>6. QED
    BY <2>1, <2>5
<1>4. QED
  BY <1>2, <1>3

(* What a plan that passes every gate is known to be. *)
Serves(have, needs) ==
  /\ \/ have.compute[1] > needs.compute[1]
     \/ have.compute[1] = needs.compute[1] /\ have.compute[2] >= needs.compute[2]
  /\ needs.dtypes \subseteq have.dtypes
  /\ have.sm_count >= needs.sm_count

IsAdmissible(p, links) ==
  /\ \A a \in Range(p.assignments) :
       Serves(Capabilities[a.device], a.needs) /\ a.bytes \in 0..Budgets[a.device]
  /\ TotalBudget # -1 => p.declared_total <= TotalBudget
  /\ \A t \in p.transfers : t[1] # t[2] =>
       [from |-> t[1], to |-> t[2], state |-> "Admitted"] \in links

LEMMA PassesGates ==
  ASSUME EpochsTell, NEW s \in samples, NEW c, NEW links \in Topologies,
         NEW p \in CandidatePlan, Passes(p, c, links, s)
  PROVE  DevicesIn(p) \subseteq Identities(last) /\ IsAdmissible(p, links)
<1>1. PICK ids \in Resolutions(c, s) : Violations(p, ids, links, s) = {}
  BY DEF Passes, gate_health_epoch_selection
<1>2. ids \subseteq Identities(last)
  BY <1>1, ValidIsPresent, ResolvedIsPresent DEF Resolutions
<1>3. \A a \in Range(p.assignments) : a.device \in ids
  BY <1>1 DEF Violations, gate_membership
<1>4. \A a \in Range(p.assignments) : Fits(a)
  BY <1>1 DEF Violations, gate_memory
<1>5. \A t \in p.transfers : traversal_allowed(links, s, t[1], t[2])
  BY <1>1 DEF Violations, gate_topology
<1>6. DevicesIn(p) \subseteq Identities(last)
  BY <1>2, <1>3 DEF DevicesIn
<1>7. \A a \in Range(p.assignments) : Serves(Capabilities[a.device], a.needs)
  <2>1. \A a \in Range(p.assignments) : Compatible(a, s)
    BY <1>1 DEF Violations, gate_compatibility
  <2>2. QED
    BY <2>1 DEF Compatible, AtLeast, Serves
<1>8. TotalBudget # -1 => p.declared_total <= TotalBudget
  <2>1. ~(TotalBudget # -1 /\ p.declared_total > TotalBudget)
    BY <1>1 DEF Violations, gate_memory
  <2>2. p.declared_total \in Nat
    BY DEF CandidatePlan
  <2>3. QED
    BY <2>1, <2>2, PolicyAssumption
<1>9. ASSUME NEW a \in Range(p.assignments)
      PROVE  a.bytes \in 0..Budgets[a.device]
  <2>1. p.assignments \in Seq(Assignment)
    BY DEF CandidatePlan
  <2>2. a \in Assignment
    BY <2>1 DEF Range
  <2>3. a.bytes \in Nat \cup {Overflow} /\ Fits(a)
    BY <1>4, <2>2 DEF Assignment
  <2>4. Budgets[a.device] \in Nat
    BY <2>3, PolicyAssumption DEF Fits
  <2>5. QED
    BY <2>3, <2>4 DEF Fits
<1>10. ASSUME NEW t \in p.transfers, t[1] # t[2]
      PROVE  [from |-> t[1], to |-> t[2], state |-> "Admitted"] \in links
  <2>1. PICK l \in links : l.from = t[1] /\ l.to = t[2] /\ l.state = "Admitted"
    BY <1>5, <1>10 DEF traversal_allowed
  <2>2. l \in DirectedLink
    BY PolicyAssumption
  <2>3. l = [from |-> t[1], to |-> t[2], state |-> "Admitted"]
    BY <2>1, <2>2 DEF DirectedLink
  <2>4. QED
    BY <2>3
<1>11. QED
  BY <1>6, <1>9, <1>10, <1>7, <1>8 DEF IsAdmissible

-----------------------------------------------------------------------------
(* The reserve of a plan is a number, so that every objective has a value. *)
LEMMA ReserveType ==
  ASSUME NEW p \in CandidatePlan
  PROVE  capacity_reserve_bytes(p) \in Nat
<1> DEFINE as == p.assignments
           N == Len(as)
           X == Nat
           b == 0
           step == [n \in 1..N |-> [x \in X |->
                      IF Fits(as[n]) THEN SaturatingSum(x, Budgets[as[n].device] - as[n].bytes)
                      ELSE x]]
           Reserving(U) ==
             U = [n \in 0..N |->
                    IF n = 0 THEN 0
                    ELSE LET a == as[n]
                         IN  IF Fits(a)
                             THEN SaturatingSum(U[n - 1], Budgets[a.device] - a.bytes)
                             ELSE U[n - 1]]
<1>1. as \in Seq(Assignment) /\ N \in Nat /\ b \in X
  BY DEF CandidatePlan
<1>2. \A n \in 1..N : as[n] \in Assignment
  BY <1>1
<1>3. step \in [1..N -> [X -> X]]
  <2>1. ASSUME NEW n \in 1..N, NEW x \in Nat, Fits(as[n])
        PROVE  SaturatingSum(x, Budgets[as[n].device] - as[n].bytes) \in Nat
    <3>1. as[n].bytes \in Nat \cup {Overflow}
      BY <1>2 DEF Assignment
    <3>2. Budgets[as[n].device] \in Nat /\ as[n].bytes <= Budgets[as[n].device]
          /\ as[n].bytes # Overflow
      BY <2>1, PolicyAssumption DEF Fits
    <3>3. QED
      BY <3>1, <3>2, InputsAssumption DEF SaturatingSum
  <2>2. QED
    BY <2>1
<1>4. \A n \in 1..N, x \in X :
        step[n][x] = IF Fits(as[n])
                     THEN SaturatingSum(x, Budgets[as[n].device] - as[n].bytes) ELSE x
  OBVIOUS
<1> HIDE DEF step, N, b, X, as
<1>5. PICK U \in [0..N -> X] : Follows(U, step, b, N)
  BY <1>1, <1>3, FoldExists
<1>6. ASSUME NEW n \in 0..N
      PROVE  U[n] = IF n = 0 THEN 0
                    ELSE IF Fits(as[n])
                         THEN SaturatingSum(U[n - 1], Budgets[as[n].device] - as[n].bytes)
                         ELSE U[n - 1]
  <2>1. CASE n = 0
    BY <1>5, <2>1 DEF Follows, b
  <2>2. CASE n # 0
    <3>1. n \in 1..N /\ n - 1 \in 0..N /\ U[n - 1] \in X
      BY <1>1, <2>2
    <3>2. U[n] = step[n][U[n - 1]]
      BY <1>5, <3>1 DEF Follows
    <3>3. QED
      BY <1>4, <2>2, <3>1, <3>2
  <2>3. QED
    BY <2>1, <2>2
<1>7. Reserving(U)
  <2>1. U = [n \in 0..N |-> U[n]]
    OBVIOUS
  <2>2. QED
    BY <1>6, <2>1
<1> DEFINE g == CHOOSE W : Reserving(W)
<1>8. Reserving(g)
  BY <1>7
<1>9. capacity_reserve_bytes(p) = g[N]
  BY DEF capacity_reserve_bytes, N, as
<1> DEFINE T == {n \in 0..N : g[n] \in Nat}
<1> HIDE DEF g
<1>10. 0 \in T
  <2>1. g[0] = 0 /\ 0 \in 0..N
    BY <1>1, <1>8
  <2>2. QED
    BY <2>1
<1>11. ASSUME NEW n \in 0..(N - 1), n \in T PROVE n + 1 \in T
  <2>1. n + 1 \in 1..N /\ n + 1 \in 0..N /\ n + 1 # 0 /\ (n + 1) - 1 = n /\ g[n] \in X
    BY <1>1, <1>11 DEF X
  <2>2. g[n + 1] = IF Fits(as[n + 1])
                   THEN SaturatingSum(g[n], Budgets[as[n + 1].device] - as[n + 1].bytes)
                   ELSE g[n]
    BY <1>8, <2>1
  <2>3. g[n + 1] = step[n + 1][g[n]]
    BY <1>4, <2>1, <2>2
  <2>4. g[n + 1] \in X
    BY <1>3, <2>1, <2>3
  <2>5. QED
    BY <2>1, <2>4 DEF X
<1>12. N \in T
  <2> HIDE DEF T
  <2>1. \A n \in 0..N : n \in T
    BY <1>1, <1>10, <1>11, UpTo
  <2>2. QED
    BY <1>1, <2>1
<1>13. QED
  BY <1>9, <1>12

(* The value of an objective, counted so that more is better. *)
Score(p, o) == IF o \in Minimized THEN -objective_value(p, o) ELSE objective_value(p, o)

LEMMA ScoreType ==
  ASSUME NEW p \in CandidatePlan, NEW o \in Objective
  PROVE  /\ Score(p, o) \in Int
         /\ objective_value(p, o) \in Int
         /\ o # "CapacityReserve" => p.facts[o] \in Nat \cup {NoFact}
<1>1. o # "CapacityReserve" => o \in Factual /\ p.facts[o] \in Nat \cup {NoFact}
  BY DEF Objective, CandidatePlan
<1>2. capacity_reserve_bytes(p) \in Nat
  BY ReserveType
<1>3. objective_value(p, o) \in Int
  BY <1>1, <1>2, InputsAssumption DEF objective_value, NoFact
<1>4. QED
  BY <1>1, <1>3 DEF Score

(* p is at least as good as q in the first objective on which they differ. *)
AsGood(p, q, os) ==
  \A k \in DOMAIN os :
    (\A m \in 1..(k - 1) : Score(p, os[m]) = Score(q, os[m]))
      => Score(p, os[k]) >= Score(q, os[k])

(* Whichever of two plans the sort puts first is as good as the other. *)
LEMMA PrecedesIsAsGood ==
  ASSUME NEW os \in Seq(Objective), NEW p \in CandidatePlan, NEW q \in CandidatePlan
  PROVE  /\ Precedes(p, q, os) => AsGood(p, q, os)
         /\ ~Precedes(p, q, os) => AsGood(q, p, os)
<1> DEFINE v(i) == objective_value(p, os[i])
           w(i) == objective_value(q, os[i])
           s(i) == Score(p, os[i])
           t(i) == Score(q, os[i])
<1>1. Len(os) \in Nat /\ DOMAIN os = 1..Len(os) /\ \A i \in DOMAIN os : os[i] \in Objective
  OBVIOUS
<1>2. ASSUME NEW i \in DOMAIN os
      PROVE  /\ s(i) \in Int /\ t(i) \in Int
             /\ Better(os[i], v(i), w(i)) <=> s(i) > t(i)
             /\ v(i) = w(i) <=> s(i) = t(i)
  <2>1. /\ v(i) \in Int /\ w(i) \in Int /\ s(i) \in Int /\ t(i) \in Int
    BY <1>1, ScoreType
  <2>2. /\ s(i) = IF os[i] \in Minimized THEN -v(i) ELSE v(i)
        /\ t(i) = IF os[i] \in Minimized THEN -w(i) ELSE w(i)
    BY DEF Score
  <2>3. Better(os[i], v(i), w(i)) <=>
          (IF os[i] \in Minimized THEN v(i) < w(i) ELSE v(i) > w(i))
    BY DEF Better
  <2> HIDE DEF v, w, s, t
  <2>4. CASE os[i] \in Minimized
    BY <2>1, <2>2, <2>3, <2>4
  <2>5. CASE os[i] \notin Minimized
    BY <2>1, <2>2, <2>3, <2>5
  <2>6. QED
    BY <2>4, <2>5
<1>3. Precedes(p, q, os) <=>
        \/ \E i \in DOMAIN os :
             Better(os[i], v(i), w(i)) /\ \A j \in 1..(i - 1) : v(j) = w(j)
        \/ /\ \A i \in DOMAIN os : v(i) = w(i)
           /\ DevicesBefore(DevicesIn(p), DevicesIn(q))
  BY DEF Precedes
<1>4. /\ AsGood(p, q, os) <=>
           \A k \in DOMAIN os : (\A m \in 1..(k - 1) : s(m) = t(m)) => s(k) >= t(k)
      /\ AsGood(q, p, os) <=>
           \A k \in DOMAIN os : (\A m \in 1..(k - 1) : t(m) = s(m)) => t(k) >= s(k)
  BY DEF AsGood
<1> HIDE DEF v, w, s, t
<1>5. \A k \in DOMAIN os : \A m \in 1..(k - 1) : m \in DOMAIN os
  BY <1>1
<1>6. ASSUME NEW i \in DOMAIN os, Better(os[i], v(i), w(i)),
             \A j \in 1..(i - 1) : v(j) = w(j)
      PROVE  AsGood(p, q, os)
  <2>1. SUFFICES ASSUME NEW k \in DOMAIN os, \A m \in 1..(k - 1) : s(m) = t(m)
                 PROVE  s(k) >= t(k)
    BY <1>4
  <2>2. CASE k < i
    <3>1. k \in 1..(i - 1)
      BY <1>1, <2>2
    <3>2. v(k) = w(k)
      BY <1>6, <3>1
    <3>3. QED
      BY <1>2, <3>2
  <2>3. CASE k = i
    BY <1>2, <1>6, <2>3
  <2>4. CASE k > i
    <3>1. i \in 1..(k - 1)
      BY <1>1, <2>4
    <3>2. s(i) = t(i)
      BY <2>1, <3>1
    <3>3. QED
      BY <1>2, <1>6, <3>2
  <2>5. QED
    BY <1>1, <2>2, <2>3, <2>4
<1>7. ASSUME \A i \in DOMAIN os : v(i) = w(i)
      PROVE  AsGood(p, q, os)
  BY <1>2, <1>4, <1>7
<1>8. ASSUME ~Precedes(p, q, os)
      PROVE  AsGood(q, p, os)
  <2>1. SUFFICES ASSUME NEW k \in DOMAIN os, \A m \in 1..(k - 1) : t(m) = s(m)
                 PROVE  t(k) >= s(k)
    BY <1>4
  <2>2. \A m \in 1..(k - 1) : v(m) = w(m)
    BY <1>2, <1>5, <2>1
  <2>3. ~Better(os[k], v(k), w(k))
    BY <1>3, <1>8, <2>2
  <2>4. QED
    BY <1>2, <2>3
<1>9. QED
  BY <1>3, <1>6, <1>7, <1>8

LEMMA AsGoodTransitive ==
  ASSUME NEW os \in Seq(Objective), NEW p \in CandidatePlan, NEW q \in CandidatePlan,
         NEW r \in CandidatePlan, AsGood(p, q, os), AsGood(q, r, os)
  PROVE  AsGood(p, r, os)
<1> DEFINE s(i) == Score(p, os[i])
           t(i) == Score(q, os[i])
           u(i) == Score(r, os[i])
<1>1. SUFFICES ASSUME NEW k \in DOMAIN os, \A m \in 1..(k - 1) : s(m) = u(m)
               PROVE  s(k) >= u(k)
  BY DEF AsGood
<1>2. Len(os) \in Nat /\ DOMAIN os = 1..Len(os) /\ \A i \in DOMAIN os : os[i] \in Objective
  OBVIOUS
<1>3. \A i \in DOMAIN os : s(i) \in Int /\ t(i) \in Int /\ u(i) \in Int
  BY <1>2, ScoreType
<1>4. /\ \A i \in DOMAIN os : (\A m \in 1..(i - 1) : s(m) = t(m)) => s(i) >= t(i)
      /\ \A i \in DOMAIN os : (\A m \in 1..(i - 1) : t(m) = u(m)) => t(i) >= u(i)
  BY DEF AsGood
<1> HIDE DEF s, t, u
<1> DEFINE D == {i \in 1..(k - 1) : ~(s(i) = t(i) /\ t(i) = u(i))}
<1>5. CASE D = {}
  <2>1. \A m \in 1..(k - 1) : s(m) = t(m) /\ t(m) = u(m)
    BY <1>5
  <2>2. s(k) >= t(k) /\ t(k) >= u(k)
    BY <1>4, <2>1
  <2>3. QED
    BY <1>3, <2>2
<1>6. CASE D # {}
  <2>1. D \subseteq Nat
    BY <1>2
  <2>2. PICK i \in D : \A j \in D : i <= j
    BY <1>6, <2>1, Least
  <2>3. i \in 1..(k - 1) /\ i \in DOMAIN os /\ ~(s(i) = t(i) /\ t(i) = u(i))
    BY <1>2, <2>2
  <2>4. ASSUME NEW m \in 1..(i - 1) PROVE s(m) = t(m) /\ t(m) = u(m)
    <3>1. m \in 1..(k - 1) /\ ~(i <= m)
      BY <1>2, <2>3
    <3>2. QED
      BY <2>2, <3>1
  <2>5. s(i) >= t(i) /\ t(i) >= u(i)
    BY <1>4, <2>3, <2>4
  <2>6. s(i) = u(i)
    BY <1>1, <2>3
  <2>7. QED
    BY <1>3, <2>3, <2>5, <2>6
<1>7. QED
  BY <1>5, <1>6

(* No plan is placed after one that the objectives put behind it. *)
IsRanking(r, os) == \A i, j \in DOMAIN r : i < j => AsGood(r[i], r[j], os)

(* Insertion puts the plan before the first one it precedes, and the rest  *)
(* stays in its order.                                                     *)
IsInsertion(z, r, p, os, G) ==
  \E at \in 1..(Len(r) + 1) :
    /\ at <= Len(r) => Precedes(p, r[at], os)
    /\ \A i \in 1..Len(r) : i < at => ~Precedes(p, r[i], os)
    /\ z \in Seq(G) /\ Len(z) = Len(r) + 1
    /\ \A i \in 1..(Len(r) + 1) :
         z[i] = IF i < at THEN r[i] ELSE IF i = at THEN p ELSE r[i - 1]

LEMMA InsertedIs ==
  ASSUME NEW os, NEW G, NEW r \in Seq(G), NEW p \in G
  PROVE  IsInsertion(Inserted(r, p, os), r, p, os, G)
<1> DEFINE after == {i \in DOMAIN r : Precedes(p, r[i], os)}
           at == IF after = {} THEN Len(r) + 1 ELSE Min(after)
           z == Inserted(r, p, os)
           L == Len(r)
<1>1. L \in Nat /\ DOMAIN r = 1..L /\ \A i \in 1..L : r[i] \in G
  OBVIOUS
<1>2. /\ at \in 1..(L + 1)
      /\ at <= L => Precedes(p, r[at], os)
      /\ \A i \in 1..L : i < at => ~Precedes(p, r[i], os)
  <2>1. CASE after = {}
    BY <1>1, <2>1
  <2>2. CASE after # {}
    <3>1. after \subseteq Nat /\ after \subseteq 1..L
      BY <1>1
    <3>2. \E i \in after : \A j \in after : i <= j
      BY <2>2, <3>1, Least
    <3>3. at \in after /\ \A j \in after : at <= j
      BY <2>2, <3>2 DEF Min
    <3> HIDE DEF at
    <3>4. QED
      BY <1>1, <3>1, <3>3
  <2>3. QED
    BY <2>1, <2>2
<1>3. z = SubSeq(r, 1, at - 1) \o <<p>> \o SubSeq(r, at, L)
  BY DEF Inserted, InsertAt
<1> HIDE DEF at
<1>4. /\ z \in Seq(G) /\ Len(z) = L + 1
      /\ \A i \in 1..(L + 1) :
           z[i] = IF i < at THEN r[i] ELSE IF i = at THEN p ELSE r[i - 1]
  <2> DEFINE front == SubSeq(r, 1, at - 1)
             back == SubSeq(r, at, L)
             mid == front \o <<p>>
  <2>1. /\ front \in Seq(G) /\ Len(front) = at - 1
        /\ \A i \in 1..(at - 1) : front[i] = r[i]
    BY <1>1, <1>2
  <2>2. /\ back \in Seq(G) /\ Len(back) = L - at + 1
        /\ \A i \in 1..(L - at + 1) : back[i] = r[at + i - 1]
    BY <1>1, <1>2
  <2> HIDE DEF front, back
  <2>3. /\ mid \in Seq(G) /\ Len(mid) = at
        /\ \A i \in 1..(at - 1) : mid[i] = r[i]
        /\ mid[at] = p
    <3>1. <<p>> \in Seq(G) /\ Len(<<p>>) = 1 /\ <<p>>[1] = p
      OBVIOUS
    <3>2. /\ mid \in Seq(G) /\ Len(mid) = Len(front) + 1
          /\ \A i \in 1..Len(front) : mid[i] = front[i]
          /\ \A i \in 1..1 : mid[Len(front) + i] = <<p>>[i]
      BY ONLY <2>1, <3>1, Concatenated DEF mid
    <3>3. QED
      BY <1>1, <1>2, <2>1, <3>1, <3>2
  <2>4. z = mid \o back
    BY <1>3 DEF front, back
  <2> HIDE DEF mid
  <2>5. z \in Seq(G) /\ Len(z) = L + 1
    <3>1. z \in Seq(G) /\ Len(z) = Len(mid) + Len(back)
      BY ONLY <2>2, <2>3, <2>4, Concatenated
    <3>2. QED
      BY <1>1, <1>2, <2>2, <2>3, <3>1
  <2>6. ASSUME NEW i \in 1..(L + 1)
        PROVE  z[i] = IF i < at THEN r[i] ELSE IF i = at THEN p ELSE r[i - 1]
    <3>1. z[i] = IF i <= at THEN mid[i] ELSE back[i - at]
      BY <1>1, <1>2, <2>2, <2>3, <2>4
    <3>2. CASE i <= at
      BY <1>1, <1>2, <2>3, <3>1, <3>2
    <3>3. CASE i > at
      <4>1. i - at \in 1..(L - at + 1) /\ at + (i - at) - 1 = i - 1
        BY <1>1, <1>2, <3>3
      <4>2. QED
        BY <1>1, <1>2, <2>2, <3>1, <3>3, <4>1
    <3>4. QED
      BY <1>1, <1>2, <3>2, <3>3
  <2>7. QED
    BY <2>5, <2>6
<1> HIDE DEF z
<1>5. IsInsertion(z, r, p, os, G)
  BY <1>2, <1>4 DEF IsInsertion
<1>6. QED
  BY <1>5 DEF z

(* Insertion keeps the ranking, whatever the tie-break between devices. *)
LEMMA InsertedIsRanking ==
  ASSUME NEW os \in Seq(Objective), NEW G, G \subseteq CandidatePlan,
         NEW r \in Seq(G), IsRanking(r, os), NEW p \in G
  PROVE  Inserted(r, p, os) \in Seq(G) /\ IsRanking(Inserted(r, p, os), os)
<1> DEFINE z == Inserted(r, p, os)
           L == Len(r)
<1>1. L \in Nat /\ DOMAIN r = 1..L /\ \A i \in 1..L : r[i] \in G
  OBVIOUS
<1>2. PICK at \in 1..(L + 1) :
        /\ at <= L => Precedes(p, r[at], os)
        /\ \A i \in 1..L : i < at => ~Precedes(p, r[i], os)
        /\ z \in Seq(G) /\ Len(z) = L + 1
        /\ \A i \in 1..(L + 1) :
             z[i] = IF i < at THEN r[i] ELSE IF i = at THEN p ELSE r[i - 1]
  <2>1. IsInsertion(z, r, p, os, G)
    BY InsertedIs
  <2> HIDE DEF z
  <2>2. QED
    BY <2>1 DEF IsInsertion
<1> HIDE DEF z
<1>3. /\ at \in 1..(L + 1)
      /\ at <= L => Precedes(p, r[at], os)
      /\ \A i \in 1..L : i < at => ~Precedes(p, r[i], os)
  BY <1>2
<1>4. /\ z \in Seq(G) /\ Len(z) = L + 1
      /\ \A i \in 1..(L + 1) :
           z[i] = IF i < at THEN r[i] ELSE IF i = at THEN p ELSE r[i - 1]
  BY <1>2
<1>5. \A i \in 1..L : i < at => AsGood(r[i], p, os)
  BY <1>1, <1>3, PrecedesIsAsGood
<1>6. \A i \in 1..L : at <= i => AsGood(p, r[i], os)
  <2>1. SUFFICES ASSUME NEW i \in 1..L, at <= i PROVE AsGood(p, r[i], os)
    OBVIOUS
  <2>2. at \in 1..L /\ AsGood(p, r[at], os) /\ p \in CandidatePlan
        /\ r[at] \in CandidatePlan /\ r[i] \in CandidatePlan
    BY <1>1, <1>3, <2>1, PrecedesIsAsGood
  <2>3. at # i => AsGood(r[at], r[i], os)
    BY <1>1, <2>1, <2>2 DEF IsRanking
  <2>4. QED
    BY <2>2, <2>3, AsGoodTransitive
<1>7. ASSUME NEW i \in 1..(L + 1), NEW j \in 1..(L + 1), i < j
      PROVE  AsGood(z[i], z[j], os)
  <2>1. CASE j < at
    BY <1>1, <1>3, <1>4, <1>7, <2>1 DEF IsRanking
  <2>2. CASE j = at
    BY <1>1, <1>3, <1>4, <1>5, <1>7, <2>2
  <2>3. CASE i < at /\ at < j
    <3>1. j - 1 \in 1..L /\ i \in 1..L /\ i < j - 1
      BY <1>1, <1>3, <2>3
    <3>2. z[i] = r[i] /\ z[j] = r[j - 1]
      BY <1>3, <1>4, <2>3
    <3>3. QED
      BY <1>1, <3>1, <3>2 DEF IsRanking
  <2>4. CASE i = at
    <3>1. j - 1 \in 1..L /\ at <= j - 1
      BY <1>1, <1>3, <1>7, <2>4
    <3>2. z[i] = p /\ z[j] = r[j - 1]
      BY <1>3, <1>4, <1>7, <2>4
    <3>3. QED
      BY <1>6, <3>1, <3>2
  <2>5. CASE at < i
    <3>1. j - 1 \in 1..L /\ i - 1 \in 1..L /\ i - 1 < j - 1
      BY <1>1, <1>3, <1>7, <2>5
    <3>2. z[i] = r[i - 1] /\ z[j] = r[j - 1]
      BY <1>3, <1>4, <1>7, <2>5
    <3>3. QED
      BY <1>1, <3>1, <3>2 DEF IsRanking
  <2>6. QED
    BY <1>1, <1>3, <1>7, <2>1, <2>2, <2>3, <2>4, <2>5
<1>8. DOMAIN z = 1..(L + 1)
  BY <1>1, <1>4
<1>9. IsRanking(z, os)
  BY <1>7, <1>8 DEF IsRanking
<1>10. QED
  BY <1>4, <1>9 DEF z

(* How often a plan is in a list. *)
Times(q, list) == Cardinality(PlacesOf(q, list))

(* What is counted one by one in both is as many. *)
LEMMA SameSize ==
  ASSUME NEW S, IsFiniteSet(S), NEW T, NEW f \in [S -> T],
         \A x, y \in S : f[x] = f[y] => x = y,
         \A y \in T : \E x \in S : f[x] = y
  PROVE  IsFiniteSet(T) /\ Cardinality(T) = Cardinality(S)
<1>1. f \in Bijection(S, T)
  BY DEF Bijection, Injection, Surjection, IsInjective
<1>2. ExistsBijection(S, T)
  BY <1>1 DEF ExistsBijection
<1>3. QED
  BY <1>2, FS_Bijection

LEMMA PlacesAreFinite ==
  ASSUME NEW G, NEW s \in Seq(G), NEW q
  PROVE  /\ PlacesOf(q, s) \subseteq 1..Len(s) /\ IsFiniteSet(PlacesOf(q, s))
         /\ Times(q, s) \in Nat
         /\ q \in Range(s) <=> Times(q, s) # 0
<1>1. DOMAIN s = 1..Len(s) /\ Len(s) \in Nat
  OBVIOUS
<1>2. PlacesOf(q, s) \subseteq 1..Len(s)
  BY <1>1 DEF PlacesOf
<1>3. IsFiniteSet(PlacesOf(q, s))
  <2>1. IsFiniteSet(1..Len(s))
    BY <1>1, FS_Interval
  <2>2. QED
    BY <1>2, <2>1, FS_Subset
<1>4. Times(q, s) \in Nat /\ (Times(q, s) = 0 <=> PlacesOf(q, s) = {})
  BY <1>3, FS_CardinalityType, FS_EmptySet DEF Times
<1>5. q \in Range(s) <=> PlacesOf(q, s) # {}
  BY DEF Range, PlacesOf
<1>6. QED
  BY <1>2, <1>3, <1>4, <1>5

(* Insertion adds the plan once, and loses none. *)
LEMMA InsertedOnce ==
  ASSUME NEW os, NEW G, NEW r \in Seq(G), NEW p \in G, NEW q
  PROVE  Times(q, Inserted(r, p, os)) = Times(q, r) + (IF q = p THEN 1 ELSE 0)
<1> DEFINE z == Inserted(r, p, os)
           L == Len(r)
<1>1. L \in Nat /\ DOMAIN r = 1..L
  OBVIOUS
<1>2. PICK at \in 1..(L + 1) :
        /\ z \in Seq(G) /\ Len(z) = L + 1
        /\ \A i \in 1..(L + 1) :
             z[i] = IF i < at THEN r[i] ELSE IF i = at THEN p ELSE r[i - 1]
  <2>1. IsInsertion(z, r, p, os, G)
    BY InsertedIs
  <2> HIDE DEF z
  <2>2. QED
    BY <2>1 DEF IsInsertion
<1> HIDE DEF z
<1> DEFINE S == PlacesOf(q, r)
           Z == PlacesOf(q, z)
           f == [i \in S |-> IF i < at THEN i ELSE i + 1]
<1>3. S = {i \in 1..L : r[i] = q} /\ Z = {i \in 1..(L + 1) : z[i] = q}
  BY <1>1, <1>2 DEF PlacesOf
<1>4. IsFiniteSet(S) /\ IsFiniteSet(Z) /\ Cardinality(S) \in Nat /\ Cardinality(Z) \in Nat
  BY <1>2, PlacesAreFinite, FS_CardinalityType
<1> HIDE DEF S, Z
<1>5. ASSUME NEW i \in S PROVE f[i] \in Z \ {at}
  <2>1. i \in 1..L /\ r[i] = q
    BY <1>3
  <2>2. CASE i < at
    BY <1>1, <1>2, <1>3, <2>1, <2>2
  <2>3. CASE ~(i < at)
    <3>1. i + 1 \in 1..(L + 1) /\ ~(i + 1 < at) /\ i + 1 # at /\ (i + 1) - 1 = i
      BY <1>1, <1>2, <2>1, <2>3
    <3>2. z[i + 1] = q
      BY <1>2, <2>1, <3>1
    <3>3. QED
      BY <1>3, <2>3, <3>1, <3>2
  <2>4. QED
    BY <2>2, <2>3
<1>6. f \in [S -> Z \ {at}]
  BY <1>5
<1>7. \A i, j \in S : f[i] = f[j] => i = j
  <2>1. \A i \in S : i \in Int
    BY <1>3
  <2>2. at \in Int
    BY <1>1
  <2>3. QED
    BY <2>1, <2>2
<1>8. ASSUME NEW k \in Z \ {at} PROVE \E i \in S : f[i] = k
  <2>1. k \in 1..(L + 1) /\ z[k] = q /\ k # at
    BY <1>3
  <2>2. CASE k < at
    <3>1. k \in 1..L /\ r[k] = q
      BY <1>1, <1>2, <2>1, <2>2
    <3>2. k \in S
      BY <1>3, <3>1
    <3>3. QED
      BY <2>2, <3>2
  <2>3. CASE ~(k < at)
    <3>1. k - 1 \in 1..L /\ ~(k - 1 < at) /\ (k - 1) + 1 = k
      BY <1>1, <1>2, <2>1, <2>3
    <3>2. r[k - 1] = q
      BY <1>2, <2>1, <2>3
    <3>3. k - 1 \in S
      BY <1>3, <3>1, <3>2
    <3>4. QED
      BY <3>1, <3>3
  <2>4. QED
    BY <2>2, <2>3
<1> HIDE DEF f
<1>9. Cardinality(Z \ {at}) = Cardinality(S)
  BY <1>4, <1>6, <1>7, <1>8, SameSize
<1>10. at \in Z <=> q = p
  BY <1>1, <1>2, <1>3
<1>11. Cardinality(Z) = Cardinality(S) + (IF q = p THEN 1 ELSE 0)
  <2>1. Cardinality(Z \ {at}) = IF at \in Z THEN Cardinality(Z) - 1 ELSE Cardinality(Z)
    BY <1>4, FS_RemoveElement
  <2>2. QED
    BY <1>4, <1>9, <1>10, <2>1
<1>12. QED
  BY <1>11 DEF S, Z, z, Times

(* rank_plans orders the plans that passed, and keeps each of them. *)
LEMMA RankPlansRanks ==
  ASSUME NEW os \in Seq(Objective), NEW G, G \subseteq CandidatePlan, NEW passers \in Seq(G)
  PROVE  /\ rank_plans(passers, os) \in Seq(G) /\ IsRanking(rank_plans(passers, os), os)
         /\ \A q : Times(q, rank_plans(passers, os)) = Times(q, passers)
<1> DEFINE N == Len(passers)
           Upto(q, n) == {i \in 1..n : passers[i] = q}
           X == {r \in Seq(G) : IsRanking(r, os)}
           b == <<>>
           step == [n \in 1..N |-> [x \in X |-> Inserted(x, passers[n], os)]]
           Sorting(U) ==
             U = [n \in 0..N |->
                    IF n = 0 THEN <<>> ELSE Inserted(U[n - 1], passers[n], os)]
<1>1. N \in Nat /\ b \in X
  BY DEF IsRanking
<1>2. \A n \in 1..N : passers[n] \in G
  OBVIOUS
<1>3. step \in [1..N -> [X -> X]]
  <2>1. ASSUME NEW n \in 1..N, NEW x \in X
        PROVE  Inserted(x, passers[n], os) \in X
    BY <1>2, InsertedIsRanking
  <2>2. QED
    BY <2>1
<1>4. \A n \in 1..N, x \in X : step[n][x] = Inserted(x, passers[n], os)
  OBVIOUS
<1> HIDE DEF step, N, b, X
<1>5. PICK U \in [0..N -> X] : Follows(U, step, b, N)
  BY <1>1, <1>3, FoldExists
<1>6. ASSUME NEW n \in 0..N
      PROVE  U[n] = IF n = 0 THEN <<>> ELSE Inserted(U[n - 1], passers[n], os)
  <2>1. CASE n = 0
    BY <1>5, <2>1 DEF Follows, b
  <2>2. CASE n # 0
    <3>1. n \in 1..N /\ n - 1 \in 0..N /\ U[n - 1] \in X
      BY <1>1, <2>2
    <3>2. U[n] = step[n][U[n - 1]]
      BY <1>5, <3>1 DEF Follows
    <3>3. QED
      BY <1>4, <2>2, <3>1, <3>2
  <2>3. QED
    BY <2>1, <2>2
<1>7. Sorting(U)
  <2>1. U = [n \in 0..N |-> U[n]]
    OBVIOUS
  <2>2. QED
    BY <1>6, <2>1
<1> DEFINE g == CHOOSE W : Sorting(W)
           T == {n \in 0..N : g[n] \in X /\ \A q : Times(q, g[n]) = Cardinality(Upto(q, n))}
<1>8. Sorting(g)
  BY <1>7
<1>9. rank_plans(passers, os) = g[N]
  BY DEF rank_plans, N
<1> HIDE DEF g
<1>10. 0 \in T
  <2>1. g[0] = <<>> /\ 0 \in 0..N
    BY <1>1, <1>8
  <2>2. ASSUME NEW q PROVE PlacesOf(q, <<>>) = {} /\ Upto(q, 0) = {}
    BY DEF PlacesOf
  <2>3. \A q : Times(q, g[0]) = Cardinality(Upto(q, 0))
    BY <2>1, <2>2 DEF Times
  <2>4. QED
    BY <1>1, <2>1, <2>3 DEF b
<1>11. ASSUME NEW n \in 0..(N - 1), n \in T PROVE n + 1 \in T
  <2>1. n + 1 \in 1..N /\ n + 1 \in 0..N /\ n + 1 # 0 /\ (n + 1) - 1 = n /\ g[n] \in X
        /\ n \in Nat /\ \A q : Times(q, g[n]) = Cardinality(Upto(q, n))
    BY <1>1, <1>11
  <2>2. g[n + 1] = Inserted(g[n], passers[n + 1], os)
    BY <1>8, <2>1
  <2>3. g[n + 1] \in X
    BY <1>3, <1>4, <2>1, <2>2
  <2>4. ASSUME NEW q PROVE Times(q, g[n + 1]) = Cardinality(Upto(q, n + 1))
    <3> DEFINE p == passers[n + 1]
    <3>1. g[n] \in Seq(G) /\ p \in G
      BY <1>2, <2>1 DEF X
    <3>2. Times(q, g[n + 1]) = Times(q, g[n]) + (IF q = p THEN 1 ELSE 0)
      BY <2>2, <3>1, InsertedOnce
    <3>3. IsFiniteSet(Upto(q, n)) /\ Cardinality(Upto(q, n)) \in Nat /\ n + 1 \notin Upto(q, n)
      <4>1. Upto(q, n) \subseteq 1..n /\ IsFiniteSet(1..n)
        BY <2>1, FS_Interval
      <4>2. QED
        BY <2>1, <4>1, FS_Subset, FS_CardinalityType
    <3>4. Upto(q, n + 1) = IF q = p THEN Upto(q, n) \cup {n + 1} ELSE Upto(q, n)
      BY <2>1
    <3> HIDE DEF Upto, p
    <3>5. Cardinality(Upto(q, n + 1)) = Cardinality(Upto(q, n)) + (IF q = p THEN 1 ELSE 0)
      <4>1. Cardinality(Upto(q, n) \cup {n + 1}) = Cardinality(Upto(q, n)) + 1
        BY <3>3, FS_AddElement
      <4>2. QED
        BY <3>3, <3>4, <4>1
    <3>6. QED
      BY <2>1, <3>2, <3>5
  <2> HIDE DEF Upto
  <2>5. QED
    BY <2>1, <2>3, <2>4
<1>12. N \in T
  <2> HIDE DEF T
  <2>1. \A n \in 0..N : n \in T
    BY <1>1, <1>10, <1>11, UpTo
  <2>2. QED
    BY <1>1, <2>1
<1>13. g[N] \in X /\ \A q : Times(q, g[N]) = Cardinality(Upto(q, N))
  <2> HIDE DEF Upto
  <2>1. QED
    BY <1>12
<1>14. \A q : Times(q, passers) = Cardinality(Upto(q, N))
  <2>1. DOMAIN passers = 1..N
    BY DEF N
  <2>2. QED
    BY <2>1 DEF Times, PlacesOf
<1> HIDE DEF Upto
<1>15. QED
  BY <1>9, <1>13, <1>14 DEF X

(* A part of a list holds a plan as often as it takes it from there. *)
PlacesWithin(q, values, places) == {i \in places : values[i] = q}

LEMMA KeptTimes ==
  ASSUME NEW G, NEW values \in Seq(G), NEW places, places \subseteq 1..Len(values), NEW q
  PROVE  Times(q, Kept(values, places)) = Cardinality(PlacesWithin(q, values, places))
<1> DEFINE kept == Kept(values, places)
           S == PlacesOf(q, kept)
           T == {i \in places : values[i] = q}
<1>1. kept \in Seq(G) /\ KeptFrom(kept, values, places)
  BY KeptFacts
<1> HIDE DEF kept
<1>2. PICK at \in [1..Len(kept) -> places] :
        /\ \A j \in 1..Len(kept) : kept[j] = values[at[j]]
        /\ \A i, j \in 1..Len(kept) : at[i] = at[j] => i = j
        /\ \A i \in places : \E j \in 1..Len(kept) : at[j] = i
  BY <1>1 DEF KeptFrom
<1>3. S = {j \in 1..Len(kept) : kept[j] = q} /\ IsFiniteSet(S)
  <2>1. IsFiniteSet(S)
    BY <1>1, PlacesAreFinite
  <2>2. DOMAIN kept = 1..Len(kept)
    BY <1>1
  <2>3. QED
    BY <2>1, <2>2 DEF PlacesOf
<1> HIDE DEF S
<1> DEFINE f == [j \in S |-> at[j]]
<1>4. f \in [S -> T]
  BY <1>2, <1>3
<1>5. \A i, j \in S : f[i] = f[j] => i = j
  BY <1>2, <1>3
<1>6. ASSUME NEW i \in T PROVE \E j \in S : f[j] = i
  <2>1. PICK j \in 1..Len(kept) : at[j] = i
    BY <1>2
  <2>2. j \in S
    BY <1>2, <1>3, <2>1
  <2>3. QED
    BY <2>1, <2>2
<1> HIDE DEF f, T
<1>7. Cardinality(T) = Cardinality(S)
  <2>1. IsFiniteSet(S)
    BY <1>3
  <2>2. QED
    BY ONLY <1>4, <1>5, <1>6, <2>1, SameSize
<1>8. QED
  BY <1>7 DEF S, T, kept, Times, PlacesWithin

(* Two parts of a list that are all of it. *)
LEMMA SplitTimes ==
  ASSUME NEW G, NEW values \in Seq(G), NEW A, A \subseteq 1..Len(values), NEW q
  PROVE  Times(q, values) = Times(q, Kept(values, A)) + Times(q, Kept(values, 1..Len(values) \ A))
<1> DEFINE B == 1..Len(values) \ A
           S == PlacesWithin(q, values, A)
           T == PlacesWithin(q, values, B)
<1>1. PlacesOf(q, values) = S \cup T /\ S \cap T = {}
  <2>1. DOMAIN values = 1..Len(values)
    OBVIOUS
  <2>2. QED
    BY <2>1 DEF PlacesOf, PlacesWithin
<1>2. IsFiniteSet(S) /\ IsFiniteSet(T)
  <2>1. IsFiniteSet(PlacesOf(q, values))
    BY PlacesAreFinite
  <2> HIDE DEF S, T
  <2>2. QED
    BY <1>1, <2>1, FS_Subset
<1>3. Times(q, Kept(values, A)) = Cardinality(S) /\ Times(q, Kept(values, B)) = Cardinality(T)
  <2>1. B \subseteq 1..Len(values)
    OBVIOUS
  <2>2. Times(q, Kept(values, A)) = Cardinality(S)
    BY KeptTimes
  <2> HIDE DEF B
  <2>3. Times(q, Kept(values, B)) = Cardinality(T)
    BY <2>1, KeptTimes
  <2>4. QED
    BY <2>2, <2>3
<1> HIDE DEF S, T, B
<1>4. Cardinality(S \cup T) = Cardinality(S) + Cardinality(T)
  <2>1. Cardinality(S \cap T) = 0 /\ Cardinality(S) \in Nat /\ Cardinality(T) \in Nat
    BY <1>1, <1>2, FS_EmptySet, FS_CardinalityType
  <2>2. Cardinality(S \cup T) = Cardinality(S) + Cardinality(T) - Cardinality(S \cap T)
    BY <1>2, FS_Union
  <2>3. QED
    BY <2>1, <2>2
<1>5. QED
  BY <1>1, <1>3, <1>4 DEF Times, B

-----------------------------------------------------------------------------
(* What evaluate leaves: the passers, ranked, and the others. *)
LEMMA EvaluateRanks ==
  ASSUME TypeOK, EpochInv, NEW c \in Selections, NEW s \in samples,
         NEW links \in Topologies, NEW plans \in Candidates,
         NEW objectives \in ObjectiveLists, Evaluate(c, s, links, plans, objectives)
  PROVE  /\ outcome'.since = generation
         /\ \A i \in DOMAIN outcome'.ranked :
              /\ DevicesIn(outcome'.ranked[i]) \subseteq Identities(last)
              /\ IsAdmissible(outcome'.ranked[i], outcome'.links)
         /\ Range(outcome'.ranked) \cap Range(outcome'.rejected) = {}
         /\ Range(outcome'.ranked) \cup Range(outcome'.rejected) = Range(outcome'.plans)
         /\ \A q : Times(q, outcome'.plans)
                     = Times(q, outcome'.ranked) + Times(q, outcome'.rejected)
         /\ outcome'.objectives \in Seq(Objective)
         /\ outcome'.ranked \in Seq(CandidatePlan)
         /\ IsRanking(outcome'.ranked, outcome'.objectives)
<1> DEFINE passing == {i \in DOMAIN plans : Passes(plans[i], c, links, s)}
           failing == DOMAIN plans \ passing
           passed == Kept(plans, passing)
           ranked == rank_plans(passed, objectives)
           rejected == Kept(plans, failing)
           G == {p \in CandidatePlan : Passes(p, c, links, s)}
           B == {p \in CandidatePlan : ~Passes(p, c, links, s)}
<1>1. /\ outcome'.since = generation /\ outcome'.links = links
      /\ outcome'.plans = plans /\ outcome'.objectives = objectives
      /\ outcome'.ranked = ranked /\ outcome'.rejected = rejected
  BY DEF Evaluate
<1>2. /\ plans \in Seq(CandidatePlan) /\ objectives \in Seq(Objective)
      /\ DOMAIN plans = 1..Len(plans) /\ \A i \in DOMAIN plans : plans[i] \in CandidatePlan
  BY PolicyAssumption
<1>3. passing \subseteq 1..Len(plans) /\ failing \subseteq 1..Len(plans)
  BY <1>2
<1>4. passed \in Seq(G)
  <2>1. passed \in Seq(CandidatePlan) /\ KeptFrom(passed, plans, passing)
    BY <1>2, <1>3, KeptFacts
  <2>2. PICK at \in [1..Len(passed) -> passing] :
          \A j \in 1..Len(passed) : passed[j] = plans[at[j]]
    BY <2>1 DEF KeptFrom
  <2> HIDE DEF passed
  <2>3. \A j \in 1..Len(passed) : passed[j] \in G
    BY <1>2, <2>2
  <2>4. QED
    BY <2>1, <2>3
<1>5. rejected \in Seq(B)
  <2>1. rejected \in Seq(CandidatePlan) /\ KeptFrom(rejected, plans, failing)
    BY <1>2, <1>3, KeptFacts
  <2>2. PICK at \in [1..Len(rejected) -> failing] :
          \A j \in 1..Len(rejected) : rejected[j] = plans[at[j]]
    BY <2>1 DEF KeptFrom
  <2> HIDE DEF rejected
  <2>3. \A j \in 1..Len(rejected) : rejected[j] \in B
    BY <1>2, <2>2
  <2>4. QED
    BY <2>1, <2>3
<1>6. /\ ranked \in Seq(G) /\ IsRanking(ranked, objectives)
      /\ \A q : Times(q, ranked) = Times(q, passed)
  <2> HIDE DEF passed
  <2>1. G \subseteq CandidatePlan
    OBVIOUS
  <2> HIDE DEF G
  <2>2. QED
    BY <1>2, <1>4, <2>1, RankPlansRanks
<1>7. \A q : Times(q, plans) = Times(q, ranked) + Times(q, rejected)
  <2>1. failing = 1..Len(plans) \ passing
    BY <1>2
  <2> HIDE DEF passing
  <2>2. ASSUME NEW q PROVE Times(q, plans) = Times(q, passed) + Times(q, rejected)
    <3>1. Times(q, plans) = Times(q, Kept(plans, passing))
                              + Times(q, Kept(plans, 1..Len(plans) \ passing))
      BY <1>2, <1>3, SplitTimes
    <3>2. QED
      BY <2>1, <3>1
  <2>3. QED
    BY <1>6, <2>2
<1> HIDE DEF ranked, rejected
<1>8. Range(ranked) \cup Range(rejected) = Range(plans)
  <2>1. ASSUME NEW q PROVE q \in Range(plans) <=> q \in Range(ranked) \cup Range(rejected)
    <3>1. /\ Times(q, plans) \in Nat /\ (q \in Range(plans) <=> Times(q, plans) # 0)
          /\ Times(q, ranked) \in Nat /\ (q \in Range(ranked) <=> Times(q, ranked) # 0)
          /\ Times(q, rejected) \in Nat /\ (q \in Range(rejected) <=> Times(q, rejected) # 0)
      BY <1>2, <1>5, <1>6, PlacesAreFinite
    <3>2. Times(q, plans) = Times(q, ranked) + Times(q, rejected)
      BY <1>7
    <3>3. QED
      BY <3>1, <3>2
  <2>2. QED
    BY <2>1
<1>9. \A p \in G : DevicesIn(p) \subseteq Identities(last) /\ IsAdmissible(p, links)
  BY PassesGates DEF EpochInv
<1>10. Range(ranked) \subseteq G /\ Range(rejected) \subseteq B /\ G \cap B = {}
  BY <1>5, <1>6 DEF Range
<1>11. ranked \in Seq(CandidatePlan) /\ \A i \in DOMAIN ranked : ranked[i] \in G
  BY <1>6
<1>12. QED
  BY <1>1, <1>2, <1>6, <1>9, <1>10, <1>11, <1>7, <1>8

(* A ranking as the property reads it: the score is spelled out there. *)
LEMMA RankingReads ==
  ASSUME NEW os \in Seq(Objective), NEW r \in Seq(CandidatePlan), IsRanking(r, os),
         NEW i \in DOMAIN r, NEW j \in DOMAIN r, i < j, NEW k \in DOMAIN os
  PROVE  LET S(p, o) ==
               LET v == IF o = "CapacityReserve" THEN objective_value(p, o)
                        ELSE IF p.facts[o] = NoFact THEN (IF o \in Minimized THEN MaxBytes ELSE 0)
                        ELSE p.facts[o]
               IN  IF o \in Minimized THEN -v ELSE v
         IN  (\A m \in 1..(k - 1) : S(r[i], os[m]) = S(r[j], os[m]))
               => S(r[i], os[k]) >= S(r[j], os[k])
<1> DEFINE S(p, o) ==
             LET v == IF o = "CapacityReserve" THEN objective_value(p, o)
                      ELSE IF p.facts[o] = NoFact THEN (IF o \in Minimized THEN MaxBytes ELSE 0)
                      ELSE p.facts[o]
             IN  IF o \in Minimized THEN -v ELSE v
<1>1. \A p, o : S(p, o) = Score(p, o)
  <2>1. ASSUME NEW p, NEW o PROVE S(p, o) = Score(p, o)
    <3>1. CASE o = "CapacityReserve"
      BY <3>1 DEF Score
    <3>2. CASE o # "CapacityReserve" /\ p.facts[o] = NoFact
      BY <3>2 DEF Score, objective_value
    <3>3. CASE o # "CapacityReserve" /\ p.facts[o] # NoFact
      BY <3>3 DEF Score, objective_value
    <3>4. QED
      BY <3>1, <3>2, <3>3
  <2>2. QED
    BY <2>1
<1>2. AsGood(r[i], r[j], os)
  BY DEF IsRanking
<1> HIDE DEF S
<1>3. (\A m \in 1..(k - 1) : S(r[i], os[m]) = S(r[j], os[m])) => S(r[i], os[k]) >= S(r[j], os[k])
  BY <1>1, <1>2 DEF AsGood
<1>4. QED
  BY <1>3 DEF S

(* An outcome is not of the future. *)
OutcomeOfThePast ==
  outcome # NoOutcome => outcome.since \in Nat /\ outcome.since <= generation

(* A step that keeps the outcome keeps what it says: nothing of it but the *)
(* devices found depends on anything else, and a probe that finds other    *)
(* devices has advanced the epoch.                                         *)
LEMMA StepRankingSound ==
  ASSUME IInv, OutcomeOfThePast, RankingSound, [PolicyNext]_policyVars
  PROVE  OutcomeOfThePast' /\ RankingSound'
<1>1. TypeOK /\ EpochInv /\ generation \in Nat
  BY DEF IInv, TypeOK
<1>2. ASSUME NEW c \in Selections, NEW s \in samples, NEW links \in Topologies,
             NEW plans \in Candidates, NEW objectives \in ObjectiveLists,
             Evaluate(c, s, links, plans, objectives)
      PROVE  OutcomeOfThePast' /\ RankingSound'
  <2>1. UNCHANGED <<generation, last>>
    BY <1>2 DEF Evaluate, vars
  <2>2. /\ outcome'.since = generation
        /\ \A i \in DOMAIN outcome'.ranked :
             /\ DevicesIn(outcome'.ranked[i]) \subseteq Identities(last)
             /\ IsAdmissible(outcome'.ranked[i], outcome'.links)
        /\ Range(outcome'.ranked) \cap Range(outcome'.rejected) = {}
        /\ Range(outcome'.ranked) \cup Range(outcome'.rejected) = Range(outcome'.plans)
        /\ \A q : Times(q, outcome'.plans)
                    = Times(q, outcome'.ranked) + Times(q, outcome'.rejected)
        /\ outcome'.objectives \in Seq(Objective)
        /\ outcome'.ranked \in Seq(CandidatePlan)
        /\ IsRanking(outcome'.ranked, outcome'.objectives)
    BY <1>1, <1>2, EvaluateRanks
  <2>3. OutcomeOfThePast'
    BY <1>1, <2>1, <2>2 DEF OutcomeOfThePast
  <2>4. RankedIsCurrent'
    BY <2>1, <2>2 DEF RankedIsCurrent, IsAdmissible, Serves, DevicesIn, Identities
  <2>5. RankedByObjectives'
    <3> DEFINE r == outcome'.ranked
               os == outcome'.objectives
    <3> SUFFICES ASSUME NEW i \in DOMAIN r, NEW j \in DOMAIN r, i < j, NEW k \in DOMAIN os
                 PROVE  LET S(p, o) ==
                              LET v == IF o = "CapacityReserve" THEN objective_value(p, o)
                                       ELSE IF p.facts[o] = NoFact
                                            THEN (IF o \in Minimized THEN MaxBytes ELSE 0)
                                       ELSE p.facts[o]
                              IN  IF o \in Minimized THEN -v ELSE v
                        IN  (\A m \in 1..(k - 1) : S(r[i], os[m]) = S(r[j], os[m]))
                              => S(r[i], os[k]) >= S(r[j], os[k])
      BY <2>2 DEF RankedByObjectives, Times
    <3>1. QED
      BY <2>2, RankingReads
  <2>6. QED
    BY <2>3, <2>4, <2>5 DEF RankingSound
<1>3. ASSUME UNCHANGED outcome, [Next]_vars
      PROVE  OutcomeOfThePast' /\ RankingSound'
  <2>1. generation' \in Nat /\ generation' >= generation
        /\ (generation' = generation => last' = last)
    <3>1. CASE Probe
      BY <1>1, <3>1, ProbeTells
    <3>2. CASE UNCHANGED <<generation, last>>
      BY <1>1, <3>2
    <3>3. QED
      BY <1>3, <3>1, <3>2 DEF Next, vars, probeVars, Replug, Resolve, Admit, RecordFailure,
         Teardown, SetState, AdmitPlan, Bind
  <2>2. OutcomeOfThePast'
    BY <1>1, <1>3, <2>1 DEF OutcomeOfThePast
  <2>3. RankedIsCurrent'
    BY <1>1, <1>3, <2>1 DEF OutcomeOfThePast, RankingSound, RankedIsCurrent
  <2>4. RankedByObjectives'
    BY <1>3 DEF RankingSound, RankedByObjectives
  <2>5. QED
    BY <2>2, <2>3, <2>4 DEF RankingSound
<1>4. (\E c \in Selections, s \in samples, links \in Topologies,
          plans \in Candidates, objectives \in ObjectiveLists :
         Evaluate(c, s, links, plans, objectives)) \/ UNCHANGED outcome
  BY DEF PolicyNext, policyVars
<1>5. [Next]_vars
  BY PolicyStepIsStep
<1>6. QED
  BY <1>2, <1>3, <1>4, <1>5

(* Each plan that evaluate ranks passed every gate -- membership on data   *)
(* that is current while the epoch stands, compatibility, both memory      *)
(* budgets, links --, each plan of the request is ranked or rejected once, *)
(* and none is placed after one the objectives put behind it: for any      *)
(* plans, budgets, links and objectives.                                   *)
THEOREM RankingsAreSound == PolicySpec => []RankingSound
<1>1. PolicyInit => OutcomeOfThePast /\ RankingSound
  BY DEF PolicyInit, OutcomeOfThePast, RankingSound, RankedIsCurrent, RankedByObjectives
<1>2. IInv /\ (OutcomeOfThePast /\ RankingSound) /\ [PolicyNext]_policyVars
        => (OutcomeOfThePast /\ RankingSound)'
  BY StepRankingSound
<1>3. QED
  BY <1>1, <1>2, PolicyInvariance, PTL DEF PolicySpec
=============================================================================
