----------------------------- MODULE Transport -----------------------------
(***************************************************************************)
(* Typed, ranged transfers (src/src/transport.rs): validation before copy, *)
(* the host-staged adapter with its staging pool, transfer budget and      *)
(* measured rates.  The peer adapter only validates: it copies nothing.    *)
(*                                                                         *)
(* The adapters are driven by &mut self: a copy is one step, whose fate    *)
(* (it fails, it exceeds its timeout, it succeeds) is chosen.  Numbers are *)
(* u64, 0..MaxU64.  An addition that overflows panics in a build with      *)
(* overflow checks and wraps in one without; `checked' tells which.        *)
(***************************************************************************)
EXTENDS Integers, Sequences, FiniteSets

CONSTANTS
  Partition,
  Specs,                \* TransferSpecs: the declared facts of a transfer
  Sources,              \* SourceValues: the actual facts of a content
  Budget,               \* TransferBudget: [bytes, time]
  InitialRates,         \* MeasuredRates: a rate for each direction
  SmallCopy, SmallLatency, LargeLatency, Second,  \* the measured constants
  Measurements,         \* arguments of record_fixture_measurement
  MaxU64,
  MaxCopies, MaxMeasurements   \* bounds on the copies and measurements

Direction == {"H2D", "D2H", "BIDI"}
U64 == 0..MaxU64
NoSpec == [transfer |-> "none"]

ASSUME NumbersAssumption ==
  /\ MaxU64 \in Nat /\ MaxCopies \in Nat /\ MaxMeasurements \in Nat
  /\ {SmallCopy, SmallLatency, LargeLatency, Second} \subseteq U64
  /\ Budget.bytes \in U64 /\ Budget.time \in U64
  /\ InitialRates \in [Direction -> U64]
ASSUME InputsAssumption ==
  /\ NoSpec \notin Specs
  /\ \A s \in Specs : s.offset \in U64 /\ s.length \in U64 /\ s.direction \in Direction
  /\ \A v \in Sources : v.bytes \in U64 /\ v.owner \in Partition /\ v.generation \in U64
  /\ \A m \in Measurements :
       m.direction \in Direction /\ m.bytes \in U64 /\ m.elapsed \in U64

VARIABLES
  used,        \* used_bytes and used_time_nanos
  active,      \* the pool's in-flight staging buffers
  allocations, \* next_id and allocations of the pool, which go together
  records,     \* the SelectedTransferRecords, each with what landed
  rates,
  checked,     \* whether the build checks overflow
  panicked,    \* the spec whose copy panicked, if one did
  copies, measurements
adapterVars == <<used, active, allocations, records, panicked, copies>>
vars == <<used, active, allocations, records, rates, checked,
          panicked, copies, measurements>>

----------------------------------------------------------------------------
SaturatingAdd(a, b) == IF a + b > MaxU64 THEN MaxU64 ELSE a + b
SaturatingMul(a, b) == IF a * b > MaxU64 THEN MaxU64 ELSE a * b

(* expected_copy_time_nanos: a rate of zero makes the transfer part zero. *)
Expected(n, d) ==
  SaturatingAdd(IF n <= SmallCopy THEN SmallLatency ELSE LargeLatency,
                IF rates[d] = 0 THEN 0 ELSE SaturatingMul(n, Second) \div rates[d])

(* ByteRange::end, where it does not panic. *)
Overflows(s) == s.offset + s.length > MaxU64
End(s) == (s.offset + s.length) % (MaxU64 + 1)

InBounds(s, v) == End(s) <= v.bytes

AnyGeneration(s, v) == TRUE
SameGeneration(s, v) == s.generation = v.generation

(* validate_before_copy, its tests in order; dest is where the copy would  *)
(* land.                                                                   *)
Rejection(s, v, dest) ==
  IF s.dtype # v.dtype THEN "DtypeMismatch"
  ELSE IF s.layout # v.layout THEN "LayoutMismatch"
  ELSE IF checked /\ Overflows(s) THEN "panic"
  ELSE IF ~InBounds(s, v) THEN "RangeOutOfBounds"
  ELSE IF ~SameGeneration(s, v) THEN "GenerationMismatch"
  ELSE IF s.owner # v.owner THEN "OwnerMismatch"
  ELSE IF s.destination # dest THEN "DestinationMismatch"
  ELSE "none"

OverBytesOnly(s) == SaturatingAdd(used.bytes, s.length) > Budget.bytes
OverBudget(s) ==
  \/ SaturatingAdd(used.bytes, s.length) > Budget.bytes
  \/ SaturatingAdd(used.time, Expected(s.length, s.direction)) > Budget.time

----------------------------------------------------------------------------
Fates == {"ok", "Failed", "Timeout"}

(* StagingPool::release. *)
release(pool, n) == pool \ {n}

(* SourceValue::slice panics on a range that is not one. *)
Sliceable(s, v) == s.offset <= End(s) /\ End(s) <= v.bytes

ChargedBefore(s, fate) ==
  [bytes |-> SaturatingAdd(used.bytes, s.length),
   time |-> SaturatingAdd(used.time, Expected(s.length, s.direction))]

(* What the budget is charged: nothing for a copy that did not succeed. *)
Charged(s, fate) ==
  IF fate = "ok"
  THEN [bytes |-> SaturatingAdd(used.bytes, s.length),
        time |-> SaturatingAdd(used.time, Expected(s.length, s.direction))]
  ELSE used

Record(s, v) ==
  [spec |-> s, staging |-> allocations + 1, bytes |-> s.length,
   expected |-> Expected(s.length, s.direction),
   landed |-> [owner |-> v.owner, generation |-> v.generation,
               from |-> s.offset, to |-> End(s)]]

(* HostStagedAdapter::copy.  A rejection, or a copy over the budget, has   *)
(* no effect.  run_staged_copy allocates buffer n; a failed copy releases  *)
(* it and returns, a slice that panics leaves it in flight, and any other  *)
(* copy releases it before the elapsed time is tested.                     *)
Copy(s, v, dest, fate) ==
  LET n == allocations + 1
      pool == active \cup {n}
  IN
  /\ panicked = NoSpec /\ copies < MaxCopies /\ copies' = copies + 1
  /\ Rejection(s, v, dest) = "none" /\ ~OverBudget(s)
  /\ allocations' = n
  /\ \/ /\ fate = "Failed"
        /\ active' = release(pool, n)
        /\ UNCHANGED <<used, records, panicked>>
     \/ /\ fate # "Failed" /\ ~Sliceable(s, v)
        /\ active' = pool /\ panicked' = s
        /\ UNCHANGED <<used, records>>
     \/ /\ fate # "Failed" /\ Sliceable(s, v)
        /\ active' = release(pool, n)
        /\ used' = Charged(s, fate)
        /\ records' = IF fate = "ok" THEN Append(records, Record(s, v))
                      ELSE records
        /\ UNCHANGED panicked
  /\ UNCHANGED <<rates, checked, measurements>>

(* Either adapter's copy, when the validation itself overflows. *)
ValidationPanics(s, v, dest) ==
  /\ panicked = NoSpec /\ Rejection(s, v, dest) = "panic"
  /\ panicked' = s
  /\ UNCHANGED <<used, active, allocations, records, rates, checked,
                 copies, measurements>>

(* record_fixture_measurement. *)
Measure(m) ==
  /\ panicked = NoSpec
  /\ measurements < MaxMeasurements /\ measurements' = measurements + 1
  /\ m.elapsed # 0
  /\ rates' = [rates EXCEPT ![m.direction] =
                 SaturatingMul(m.bytes, Second) \div m.elapsed]
  /\ UNCHANGED <<adapterVars, checked>>

----------------------------------------------------------------------------
Init ==
  /\ used = [bytes |-> 0, time |-> 0]
  /\ active = {} /\ allocations = 0 /\ records = <<>>
  /\ rates = InitialRates
  /\ checked \in BOOLEAN /\ panicked = NoSpec
  /\ copies = 0 /\ measurements = 0

Next ==
  \/ \E s \in Specs, v \in Sources, d \in Partition, f \in Fates : Copy(s, v, d, f)
  \/ \E s \in Specs, v \in Sources, d \in Partition : ValidationPanics(s, v, d)
  \/ \E m \in Measurements : Measure(m)

Spec == Init /\ [][Next]_vars

----------------------------------------------------------------------------
Landing == [owner : Partition, generation : U64, from : U64, to : U64]
SelectedTransferRecord ==
  [spec : Specs, staging : Nat, bytes : U64, expected : U64, landed : Landing]

(* Every variable has its type. *)
TypeOK ==
  /\ used \in [bytes : U64, time : U64]
  /\ active \subseteq 1..allocations /\ allocations \in Nat
  /\ records \in Seq(SelectedTransferRecord)
  /\ rates \in [Direction -> U64]
  /\ checked \in BOOLEAN /\ panicked \in Specs \cup {NoSpec}
  /\ copies \in Nat /\ measurements \in Nat

(* The declared budget is never exceeded, in bytes or in time, whatever    *)
(* rates are measured on the way.                                          *)
BudgetHolds == used.bytes <= Budget.bytes /\ used.time <= Budget.time

(* The sum of a field of the records of a receipt. *)
SumOf(receipt, field) ==
  LET sum[i \in 0..Len(receipt)] ==
        IF i = 0 THEN 0 ELSE sum[i - 1] + receipt[i][field]
  IN  sum[Len(receipt)]

(* The receipt adds up: what is used is what the recorded copies moved and *)
(* were expected to take.                                                  *)
ReceiptAddsUp ==
  /\ used.bytes = SumOf(records, "bytes")
  /\ used.time = SumOf(records, "expected")

(* Staging is in flight only during a copy: failed and timed-out copies    *)
(* leave no buffer behind.                                                 *)
StagingReleased == panicked = NoSpec => active = {}

(* What lands is what was declared: the declared range of a content of the *)
(* declared owner and generation.                                          *)
LandedAsDeclared ==
  \A i \in DOMAIN records :
    LET s == records[i].spec
    IN  records[i].landed = [owner |-> s.owner, generation |-> s.generation,
                             from |-> s.offset, to |-> s.offset + s.length]

(* A copy panics only when the end of its range is no u64: the validation  *)
(* catches every other range that slice could not take.                    *)
PanicsOnlyOnOverflow == panicked # NoSpec => Overflows(panicked)

=============================================================================
