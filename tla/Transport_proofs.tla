-------------------------- MODULE Transport_proofs --------------------------
(***************************************************************************)
(* The host-staged adapter of Transport, for every set of transfers and    *)
(* contents, every budget and every rate: types, the budget, the release   *)
(* of staging, the only cause of a panic and the sums of the receipt.      *)
(***************************************************************************)
EXTENDS Transport, Lists_proofs

(* What the saturating operations return is a u64. *)
LEMMA Saturates ==
  ASSUME NEW a \in Nat, NEW b \in Nat
  PROVE  SaturatingAdd(a, b) \in U64 /\ SaturatingMul(a, b) \in U64
<1>1. SaturatingAdd(a, b) \in U64
  BY NumbersAssumption DEF SaturatingAdd, U64
<1>2. a * b \in Nat
  OBVIOUS
<1>3. SaturatingMul(a, b) \in U64
  BY <1>2, NumbersAssumption DEF SaturatingMul, U64
<1>4. QED
  BY <1>1, <1>3

(* Dividing a u64 by a u64 other than zero gives a u64: a rate. *)
LEMMA Divides ==
  ASSUME NEW a \in U64, NEW b \in U64, b # 0
  PROVE  a \div b \in U64
<1>1. a \in Nat /\ b \in Nat /\ b >= 1 /\ MaxU64 \in Nat /\ a <= MaxU64
  BY NumbersAssumption DEF U64
<1> DEFINE q == a \div b
<1>2. q \in Int /\ b * q <= a /\ a < b * (q + 1)
  BY <1>1, Z3
<1>3. q \in Nat /\ q <= a
  BY <1>1, <1>2, Z3
<1>4. QED
  BY <1>1, <1>3 DEF U64

(* The expected time of a copy is a u64. *)
LEMMA ExpectedType ==
  ASSUME TypeOK, NEW n \in U64, NEW d \in Direction
  PROVE  Expected(n, d) \in U64
<1>1. n \in Nat /\ Second \in U64 /\ Second \in Nat /\ rates[d] \in U64
  BY NumbersAssumption DEF TypeOK, U64
<1>2. SaturatingMul(n, Second) \in U64
  BY <1>1, Saturates
<1> DEFINE t == IF rates[d] = 0 THEN 0 ELSE SaturatingMul(n, Second) \div rates[d]
           l == IF n <= SmallCopy THEN SmallLatency ELSE LargeLatency
<1>3. t \in U64
  <2>1. CASE rates[d] = 0
    BY <2>1, NumbersAssumption DEF U64
  <2>2. CASE rates[d] # 0
    BY <2>2, <1>1, <1>2, Divides
  <2>3. QED
    BY <2>1, <2>2
<1>4. l \in U64
  BY NumbersAssumption
<1>5. t \in Nat /\ l \in Nat
  BY <1>3, <1>4, NumbersAssumption DEF U64
<1> HIDE DEF t, l
<1>6. SaturatingAdd(l, t) \in U64
  BY <1>5, Saturates
<1>7. QED
  BY <1>6 DEF Expected, t, l

(* The end of a range, wrapped: a u64, and below the offset exactly when   *)
(* the sum is no u64.                                                      *)
LEMMA EndWraps ==
  ASSUME NEW s \in Specs
  PROVE  /\ End(s) \in U64
         /\ ~Overflows(s) => End(s) = s.offset + s.length
         /\ s.offset > End(s) => Overflows(s)
         /\ Overflows(s) => s.offset > End(s)
<1>1. /\ s.offset \in Nat /\ s.length \in Nat /\ MaxU64 \in Nat
      /\ s.offset <= MaxU64 /\ s.length <= MaxU64
  BY NumbersAssumption, InputsAssumption DEF U64
<1>2. CASE ~Overflows(s)
  BY <1>1, <1>2 DEF End, Overflows, U64
<1>3. CASE Overflows(s)
  <2>1. (s.offset + s.length) % (MaxU64 + 1) = s.offset + s.length - (MaxU64 + 1)
    BY <1>1, <1>3, Z3 DEF Overflows
  <2>2. QED
    BY <1>1, <1>3, <2>1 DEF End, Overflows, U64
<1>4. QED
  BY <1>2, <1>3

(* The inductive invariant: every result below but the type invariant is a *)
(* conjunct of it.                                                         *)
IInv ==
  /\ TypeOK /\ BudgetHolds /\ StagingReleased /\ LandedAsDeclared
  /\ PanicsOnlyOnOverflow

(* A new adapter satisfies it. *)
LEMMA InitIInv == Init => IInv
<1> SUFFICES ASSUME Init PROVE IInv
  OBVIOUS
<1>1. TypeOK
  BY NumbersAssumption
  DEF Init, TypeOK, U64, SelectedTransferRecord
<1>2. BudgetHolds
  BY NumbersAssumption DEF Init, BudgetHolds, U64
<1>3. StagingReleased /\ LandedAsDeclared /\ PanicsOnlyOnOverflow
  BY DEF Init, StagingReleased, LandedAsDeclared, PanicsOnlyOnOverflow
<1>4. QED
  BY <1>1, <1>2, <1>3 DEF IInv

(* What a copy that passed the validation and fits the budget does. *)
LEMMA CopyKeeps ==
  ASSUME IInv, NEW s \in Specs, NEW v \in Sources, NEW d \in Partition,
         NEW f \in Fates, Copy(s, v, d, f)
  PROVE  IInv'
<1>1. /\ s.offset \in U64 /\ s.length \in U64 /\ s.direction \in Direction
      /\ v.bytes \in U64 /\ v.owner \in Partition /\ v.generation \in U64
  BY InputsAssumption
<1> DEFINE n == SaturatingAdd(used.bytes, s.length)
           t == SaturatingAdd(used.time, Expected(s.length, s.direction))
<1>2. /\ used.bytes \in Nat /\ used.time \in Nat /\ s.length \in Nat
      /\ used \in [bytes : U64, time : U64]
  BY <1>1, NumbersAssumption DEF IInv, TypeOK, U64
<1>3. Expected(s.length, s.direction) \in U64
  BY <1>1, ExpectedType DEF IInv
<1>4. n \in U64 /\ t \in U64
  <2>1. Expected(s.length, s.direction) \in Nat
    BY <1>3, NumbersAssumption DEF U64
  <2>2. QED
    BY <1>2, <2>1, Saturates
<1>5. n <= Budget.bytes /\ t <= Budget.time
  <2>1. ~(n > Budget.bytes) /\ ~(t > Budget.time)
    BY DEF Copy, OverBudget
  <2>2. QED
    BY <2>1, <1>4, NumbersAssumption DEF U64
<1>6. /\ InBounds(s, v) /\ SameGeneration(s, v) /\ s.owner = v.owner
      /\ End(s) \in U64
  BY EndWraps DEF Copy, Rejection
<1>7. UNCHANGED <<rates, checked, measurements>> /\ copies' = copies + 1
      /\ allocations' = allocations + 1 /\ panicked = NoSpec /\ active = {}
  BY DEF Copy, IInv, StagingReleased
<1>8. CASE f # "Failed" /\ ~Sliceable(s, v)
  <2>1. panicked' = s /\ active' = active \cup {allocations + 1}
        /\ UNCHANGED <<used, records>>
    BY <1>8 DEF Copy
  <2>2. Overflows(s)
    <3>1. s.offset > End(s)
      BY <1>8, <1>6, <1>1, NumbersAssumption DEF Sliceable, InBounds, U64
    <3>2. QED
      BY <3>1, EndWraps
  <2>3. TypeOK'
    BY <2>1, <1>7 DEF IInv, TypeOK
  <2>4. BudgetHolds' /\ LandedAsDeclared'
    BY <2>1 DEF IInv, BudgetHolds, LandedAsDeclared
  <2>5. StagingReleased' /\ PanicsOnlyOnOverflow'
    BY <2>1, <2>2, InputsAssumption DEF StagingReleased, PanicsOnlyOnOverflow, Overflows
  <2>6. QED
    BY <2>3, <2>4, <2>5 DEF IInv
<1>9. CASE ~(f # "Failed" /\ ~Sliceable(s, v))
  <2>1. /\ active' = active /\ panicked' = panicked /\ used' = Charged(s, f)
        /\ records' = IF f = "ok" THEN Append(records, Record(s, v)) ELSE records
    <3>1. release(active \cup {allocations + 1}, allocations + 1) = active
      BY <1>7 DEF release
    <3>2. CASE f = "Failed"
      BY <3>1, <3>2 DEF Copy, Charged
    <3>3. CASE f # "Failed" /\ Sliceable(s, v)
      <4>1. /\ active' = release(active \cup {allocations + 1}, allocations + 1)
            /\ panicked' = panicked /\ used' = Charged(s, f)
            /\ records' = IF f = "ok" THEN Append(records, Record(s, v)) ELSE records
        BY <3>3 DEF Copy
      <4>2. QED
        BY <3>1, <4>1
    <3>4. QED
      BY <1>9, <3>2, <3>3
  <2>2. used' = used \/ used' = [bytes |-> n, time |-> t]
    BY <2>1 DEF Charged
  <2>3. used' \in [bytes : U64, time : U64] /\ BudgetHolds'
    <3>1. CASE used' = used
      BY <3>1, <1>2 DEF IInv, BudgetHolds
    <3>2. CASE used' = [bytes |-> n, time |-> t]
      <4> HIDE DEF n, t
      <4>1. QED
        BY <3>2, <1>4, <1>5 DEF BudgetHolds
    <3>3. QED
      BY <2>2, <3>1, <3>2
  <2>4. CASE f # "ok"
    <3>1. records' = records
      BY <2>1, <2>4
    <3>2. TypeOK'
      BY <3>1, <2>1, <2>3, <1>7 DEF IInv, TypeOK
    <3>3. QED
      BY <3>1, <3>2, <2>1, <2>3, <1>7
      DEF IInv, StagingReleased, LandedAsDeclared, PanicsOnlyOnOverflow
  <2>5. CASE f = "ok"
    <3> DEFINE r == Record(s, v)
    <3>1. records' = Append(records, r)
      BY <2>1, <2>5
    <3>2. r \in SelectedTransferRecord
      BY <1>1, <1>3, <1>6 DEF Record, SelectedTransferRecord, Landing, IInv, TypeOK
    <3>3. /\ r.spec = s
          /\ r.landed = [owner |-> s.owner, generation |-> s.generation,
                         from |-> s.offset, to |-> s.offset + s.length]
      <4>1. End(s) = s.offset + s.length
        <5>1. ~(s.offset > End(s))
          BY <1>9, <2>5, <1>1, <1>6, NumbersAssumption DEF Sliceable, U64
        <5>2. QED
          BY <5>1, EndWraps
      <4>2. QED
        BY <4>1, <1>6 DEF Record, SameGeneration
    <3> HIDE DEF r
    <3>4. TypeOK'
      <4>1. records' \in Seq(SelectedTransferRecord)
        BY <3>1, <3>2 DEF IInv, TypeOK
      <4>2. active' \subseteq 1..allocations' /\ allocations' \in Nat
        BY <2>1, <1>7 DEF IInv, TypeOK
      <4>3. QED
        BY <4>1, <4>2, <2>1, <2>3, <1>7 DEF IInv, TypeOK
    <3>5. LandedAsDeclared'
      <4> SUFFICES ASSUME NEW i \in DOMAIN records'
                   PROVE  LET z == records'[i].spec
                          IN  records'[i].landed =
                                [owner |-> z.owner, generation |-> z.generation,
                                 from |-> z.offset, to |-> z.offset + z.length]
        BY DEF LandedAsDeclared
      <4>1. records \in Seq(SelectedTransferRecord)
        BY DEF IInv, TypeOK
      <4>2. CASE i \in DOMAIN records
        BY <4>1, <4>2, <3>1, <3>2 DEF IInv, LandedAsDeclared
      <4>3. CASE i \notin DOMAIN records
        <5>1. records'[i] = r
          BY <4>1, <4>3, <3>1, <3>2
        <5>2. QED
          BY <5>1, <3>3
      <4>4. QED
        BY <4>2, <4>3
    <3>6. StagingReleased' /\ PanicsOnlyOnOverflow'
      BY <2>1, <1>7 DEF StagingReleased, PanicsOnlyOnOverflow
    <3>7. QED
      BY <3>4, <3>5, <3>6, <2>3 DEF IInv
  <2>6. QED
    BY <2>4, <2>5
<1>10. QED
  BY <1>8, <1>9

(* Every step of the adapters preserves the invariant. *)
LEMMA Inductive == IInv /\ [Next]_vars => IInv'
<1> SUFFICES ASSUME IInv, [Next]_vars PROVE IInv'
  OBVIOUS
<1>1. ASSUME NEW s \in Specs, NEW v \in Sources, NEW d \in Partition,
             NEW f \in Fates, Copy(s, v, d, f)
      PROVE  IInv'
  BY <1>1, CopyKeeps
<1>2. ASSUME NEW s \in Specs, NEW v \in Sources, NEW d \in Partition,
             ValidationPanics(s, v, d)
      PROVE  IInv'
  <2>1. Overflows(s)
    BY <1>2 DEF ValidationPanics, Rejection
  <2>2. QED
    BY <1>2, <2>1, InputsAssumption
    DEF ValidationPanics, IInv, TypeOK, BudgetHolds, StagingReleased,
        LandedAsDeclared, PanicsOnlyOnOverflow, Overflows
<1>3. ASSUME NEW m \in Measurements, Measure(m)
      PROVE  IInv'
  <2>1. /\ m.direction \in Direction /\ m.bytes \in Nat /\ m.elapsed \in U64
        /\ m.elapsed # 0 /\ Second \in Nat
    BY <1>3, InputsAssumption, NumbersAssumption DEF Measure, U64
  <2>2. SaturatingMul(m.bytes, Second) \div m.elapsed \in U64
    BY <2>1, Saturates, Divides
  <2>3. rates' \in [Direction -> U64] /\ measurements' \in Nat
    BY <1>3, <2>1, <2>2 DEF Measure, IInv, TypeOK
  <2>4. UNCHANGED <<used, active, allocations, records, panicked, copies,
                    checked>>
    BY <1>3 DEF Measure, adapterVars
  <2>5. QED
    BY <2>3, <2>4
    DEF IInv, TypeOK, BudgetHolds, StagingReleased, LandedAsDeclared,
        PanicsOnlyOnOverflow
<1>4. CASE UNCHANGED vars
  BY <1>4
  DEF vars, IInv, TypeOK, BudgetHolds, StagingReleased, LandedAsDeclared,
      PanicsOnlyOnOverflow
<1>5. QED
  BY <1>1, <1>2, <1>3, <1>4 DEF Next

(* Hence it always holds. *)
LEMMA Invariance == Spec => []IInv
<1>1. QED
  BY InitIInv, Inductive, PTL DEF Spec

(* The adapters keep their types: rates and totals stay u64s whatever is   *)
(* measured and copied.                                                    *)
THEOREM TypeCorrect == Spec => []TypeOK
<1>1. IInv => TypeOK
  BY DEF IInv
<1>2. QED
  BY <1>1, Invariance, PTL

(* HostStagedAdapter::copy never exceeds its declared budget, also when    *)
(* record_fixture_measurement changes the rates between copies.            *)
THEOREM WithinBudget == Spec => []BudgetHolds
<1>1. IInv => BudgetHolds
  BY DEF IInv
<1>2. QED
  BY <1>1, Invariance, PTL

(* validate_before_copy lets only the declared range of a content of the   *)
(* declared owner and generation land.                                     *)
THEOREM LandsAsDeclared == Spec => []LandedAsDeclared
<1>1. IInv => LandedAsDeclared
  BY DEF IInv
<1>2. QED
  BY <1>1, Invariance, PTL

(* A copy that panics had a range whose end overflows (ByteRange::end).    *)
THEOREM PanicIsOverflow == Spec => []PanicsOnlyOnOverflow
<1>1. IInv => PanicsOnlyOnOverflow
  BY DEF IInv
<1>2. QED
  BY <1>1, Invariance, PTL

----------------------------------------------------------------------------
(* The receipt.  Its sum is a recursive function: that the function exists *)
(* and what one more record does to it comes from the least natural at     *)
(* which it would not.                                                     *)

(* The running sums of a field of the first n records of a receipt. *)
Sums(f, receipt, field, n) ==
  f = [i \in 0..n |-> IF i = 0 THEN 0 ELSE f[i - 1] + receipt[i][field]]

(* They exist, and are natural numbers, when the field of every record is. *)
LEMMA SumsExist ==
  ASSUME NEW receipt, NEW field, NEW k \in Nat,
         \A i \in 1..k : receipt[i][field] \in Nat
  PROVE  \E f \in [0..k -> Nat] : Sums(f, receipt, field, k)
<1> DEFINE Bad == {n \in 0..k : ~\E f \in [0..n -> Nat] : Sums(f, receipt, field, n)}
<1> SUFFICES ASSUME Bad # {} PROVE FALSE
  OBVIOUS
<1>1. PICK n \in Bad : \A m \in Bad : n <= m
  <2>1. Bad \subseteq Nat
    OBVIOUS
  <2> HIDE DEF Bad
  <2>2. QED
    BY <2>1, Least
<1>2. n \in 0..k /\ ~\E f \in [0..n -> Nat] : Sums(f, receipt, field, n)
  OBVIOUS
<1>3. CASE n = 0
  <2> DEFINE f == [i \in 0..n |-> 0]
  <2>1. f \in [0..n -> Nat]
    OBVIOUS
  <2>2. Sums(f, receipt, field, n)
    BY <1>3 DEF Sums
  <2>3. QED
    BY <2>1, <2>2, <1>2
<1>4. CASE n # 0
  <2>1. n - 1 \in 0..k /\ n - 1 \notin Bad
    <3>1. n \in Nat /\ n - 1 \in 0..k /\ ~(n <= n - 1)
      BY <1>2, <1>4
    <3> HIDE DEF Bad
    <3>2. QED
      BY <1>1, <3>1
  <2>2. PICK g \in [0..(n - 1) -> Nat] : Sums(g, receipt, field, n - 1)
    BY <2>1
  <2> DEFINE f == [i \in 0..n |-> IF i = n THEN g[n - 1] + receipt[n][field]
                                  ELSE g[i]]
  <2>3. f \in [0..n -> Nat]
    BY <1>2, <1>4, <2>2
  <2>4. \A i \in 0..(n - 1) : g[i] = IF i = 0 THEN 0 ELSE g[i - 1] + receipt[i][field]
    BY <2>2 DEF Sums
  <2>5. ASSUME NEW i \in 0..n
        PROVE  f[i] = IF i = 0 THEN 0 ELSE f[i - 1] + receipt[i][field]
    <3>1. CASE i = n
      <4>1. n - 1 \in 0..n /\ n - 1 # n /\ f[n - 1] = g[n - 1]
        BY <1>2, <1>4
      <4>2. QED
        BY <3>1, <4>1, <1>2, <1>4
    <3>2. CASE i # n
      <4>1. i \in 0..(n - 1) /\ f[i] = g[i]
        BY <1>2, <3>2
      <4>2. CASE i = 0
        BY <2>4, <4>1, <4>2
      <4>3. CASE i # 0
        <5>1. i - 1 \in 0..n /\ i - 1 # n /\ f[i - 1] = g[i - 1]
          BY <1>2, <4>1, <4>3
        <5>2. QED
          BY <2>4, <4>1, <4>3, <5>1
      <4>4. QED
        BY <4>2, <4>3
    <3>3. QED
      BY <3>1, <3>2
  <2>6. Sums(f, receipt, field, n)
    BY <2>3, <2>5 DEF Sums
  <2>7. QED
    BY <2>3, <2>6, <1>2
<1>5. QED
  BY <1>3, <1>4

(* What the running sums are is settled by the records they run over. *)
LEMMA SumsAgree ==
  ASSUME NEW r, NEW s, NEW field, NEW k \in Nat, NEW n \in Nat, k <= n,
         NEW f, NEW g, Sums(f, r, field, k), Sums(g, s, field, n),
         \A i \in 1..k : r[i] = s[i]
  PROVE  \A i \in 0..k : f[i] = g[i]
<1>1. \A i \in 0..k : f[i] = IF i = 0 THEN 0 ELSE f[i - 1] + r[i][field]
  BY DEF Sums
<1>2. \A i \in 0..n : g[i] = IF i = 0 THEN 0 ELSE g[i - 1] + s[i][field]
  BY DEF Sums
<1> DEFINE Bad == {i \in 0..k : f[i] # g[i]}
<1> SUFFICES ASSUME Bad # {} PROVE FALSE
  OBVIOUS
<1>3. PICK m \in Bad : \A i \in Bad : m <= i
  <2>1. Bad \subseteq Nat
    OBVIOUS
  <2> HIDE DEF Bad
  <2>2. QED
    BY <2>1, Least
<1>4. m \in 0..k /\ m \in 0..n /\ f[m] # g[m]
  OBVIOUS
<1>5. m # 0
  BY <1>1, <1>2, <1>4
<1>6. m - 1 \in 0..k /\ m - 1 \notin Bad /\ m \in 1..k
  BY <1>3, <1>4, <1>5
<1>7. QED
  BY <1>1, <1>2, <1>4, <1>5, <1>6

(* SumOf is the last of the running sums. *)
LEMMA SumIsLast ==
  ASSUME NEW receipt, NEW field, NEW f, Len(receipt) \in Nat,
         Sums(f, receipt, field, Len(receipt))
  PROVE  SumOf(receipt, field) = f[Len(receipt)]
<1> DEFINE g == CHOOSE h : Sums(h, receipt, field, Len(receipt))
<1>1. SumOf(receipt, field) = g[Len(receipt)]
  BY DEF SumOf, Sums
<1>2. Sums(g, receipt, field, Len(receipt))
  OBVIOUS
<1> HIDE DEF g
<1>3. g[Len(receipt)] = f[Len(receipt)]
  BY <1>2, SumsAgree
<1>4. QED
  BY <1>1, <1>3

(* A receipt without records sums to zero. *)
LEMMA SumOfNone ==
  ASSUME NEW field
  PROVE  SumOf(<<>>, field) = 0
<1>1. Len(<<>>) = 0
  OBVIOUS
<1>2. PICK f \in [0..0 -> Nat] : Sums(f, <<>>, field, 0)
  BY SumsExist
<1>3. f[0] = 0
  BY <1>2 DEF Sums
<1>4. QED
  BY <1>1, <1>2, <1>3, SumIsLast

(* The sum of a field that is a natural number is one. *)
LEMMA SumOfType ==
  ASSUME NEW R, NEW receipt \in Seq(R), NEW field,
         \A q \in R : q[field] \in Nat
  PROVE  SumOf(receipt, field) \in Nat
<1> DEFINE k == Len(receipt)
<1>1. k \in Nat /\ \A i \in 1..k : receipt[i] \in R
  OBVIOUS
<1>2. PICK f \in [0..k -> Nat] : Sums(f, receipt, field, k)
  <2>1. \A i \in 1..k : receipt[i][field] \in Nat
    BY <1>1
  <2> HIDE DEF k
  <2>2. QED
    BY <1>1, <2>1, SumsExist
<1>3. SumOf(receipt, field) = f[k]
  BY <1>1, <1>2, SumIsLast
<1>4. QED
  BY <1>1, <1>2, <1>3

(* One more record adds its field. *)
LEMMA SumOfAppend ==
  ASSUME NEW R, NEW receipt \in Seq(R), NEW r \in R, NEW field,
         \A q \in R : q[field] \in Nat
  PROVE  /\ SumOf(receipt, field) \in Nat
         /\ SumOf(Append(receipt, r), field) = SumOf(receipt, field) + r[field]
<1> DEFINE k == Len(receipt)
           more == Append(receipt, r)
<1>1. /\ k \in Nat /\ more \in Seq(R) /\ Len(more) = k + 1
      /\ more[k + 1] = r /\ \A i \in 1..k : receipt[i] = more[i]
      /\ \A i \in 1..k : receipt[i] \in R
      /\ \A i \in 1..(k + 1) : more[i] \in R
  OBVIOUS
<1>2. Len(receipt) = k
  OBVIOUS
<1> HIDE DEF k, more
<1>3. PICK f \in [0..k -> Nat] : Sums(f, receipt, field, k)
  BY <1>1, SumsExist
<1>4. PICK g \in [0..(k + 1) -> Nat] : Sums(g, more, field, k + 1)
  <2>1. k + 1 \in Nat /\ \A i \in 1..(k + 1) : more[i][field] \in Nat
    BY <1>1
  <2>2. QED
    BY <2>1, SumsExist
<1>5. f[k] = g[k]
  <2>1. k + 1 \in Nat /\ k <= k + 1 /\ k \in 0..k
    BY <1>1
  <2>2. \A i \in 0..k : f[i] = g[i]
    <3> DEFINE n == k + 1
    <3>1. Sums(f, receipt, field, k) /\ Sums(g, more, field, n)
      BY <1>3, <1>4
    <3>4. n \in Nat /\ k <= n
      BY <2>1
    <3> HIDE DEF n
    <3>2. \A i \in 1..k : receipt[i] = more[i]
      BY <1>1
    <3>3. k \in Nat
      BY <1>1
    <3>5. QED
      BY ONLY <3>1, <3>2, <3>3, <3>4, SumsAgree, SMTT(60)
  <2>3. QED
    BY <2>1, <2>2
<1>6. g[k + 1] = g[k] + r[field]
  BY <1>1, <1>4 DEF Sums
<1>7. SumOf(receipt, field) = f[k] /\ SumOf(more, field) = g[k + 1]
  BY <1>1, <1>2, <1>3, <1>4, SumIsLast
<1>8. QED
  BY <1>1, <1>3, <1>5, <1>6, <1>7 DEF more

(* What holds for every budget: the totals are the sums, saturated.        *)
ReceiptSaturates ==
  /\ used.bytes = SaturatingAdd(0, SumOf(records, "bytes"))
  /\ used.time = SaturatingAdd(0, SumOf(records, "expected"))

(* A saturating total saturates like the sum it stands for. *)
LEMMA SaturatesOnce ==
  ASSUME NEW a \in Nat, NEW b \in Nat
  PROVE  SaturatingAdd(SaturatingAdd(0, a), b) = SaturatingAdd(0, a + b)
  BY NumbersAssumption DEF SaturatingAdd

(* A copy charges what it records. *)
LEMMA CopySaturates ==
  ASSUME IInv, ReceiptSaturates, NEW s \in Specs, NEW v \in Sources,
         NEW d \in Partition, NEW f \in Fates, Copy(s, v, d, f)
  PROVE  ReceiptSaturates'
<1>1. CASE used' = used /\ records' = records
  BY <1>1 DEF ReceiptSaturates, SumOf
<1>2. CASE ~(used' = used /\ records' = records)
  <2> DEFINE r == Record(s, v)
  <2>1. /\ records' = Append(records, r)
        /\ used' = [bytes |-> SaturatingAdd(used.bytes, s.length),
                    time |-> SaturatingAdd(used.time,
                                           Expected(s.length, s.direction))]
    BY <1>2 DEF Copy, Charged
  <2>2. /\ s.offset \in U64 /\ s.length \in U64 /\ s.direction \in Direction
        /\ v.owner \in Partition /\ v.generation \in U64 /\ End(s) \in U64
        /\ Expected(s.length, s.direction) \in U64
    BY InputsAssumption, EndWraps, ExpectedType DEF IInv
  <2>3. r \in SelectedTransferRecord
    BY <2>2 DEF Record, SelectedTransferRecord, Landing, IInv, TypeOK
  <2>4. r["bytes"] = s.length /\ r["expected"] = Expected(s.length, s.direction)
    BY DEF Record
  <2> HIDE DEF r
  <2>5. records \in Seq(SelectedTransferRecord)
    BY DEF IInv, TypeOK
  <2>6. /\ SumOf(records, "bytes") \in Nat
        /\ SumOf(records', "bytes") = SumOf(records, "bytes") + s.length
    <3>1. \A q \in SelectedTransferRecord : q["bytes"] \in Nat
      BY NumbersAssumption DEF SelectedTransferRecord, U64
    <3>2. QED
      BY <3>1, <2>1, <2>3, <2>4, <2>5, SumOfAppend
  <2>7. /\ SumOf(records, "expected") \in Nat
        /\ SumOf(records', "expected") =
             SumOf(records, "expected") + Expected(s.length, s.direction)
    <3>1. \A q \in SelectedTransferRecord : q["expected"] \in Nat
      BY NumbersAssumption DEF SelectedTransferRecord, U64
    <3>2. QED
      BY <3>1, <2>1, <2>3, <2>4, <2>5, SumOfAppend
  <2>8. s.length \in Nat /\ Expected(s.length, s.direction) \in Nat
    BY <2>2, NumbersAssumption DEF U64
  <2>9. used'.bytes = SaturatingAdd(0, SumOf(records', "bytes"))
    <3>1. used'.bytes = SaturatingAdd(SaturatingAdd(0, SumOf(records, "bytes")),
                                      s.length)
      BY <2>1 DEF ReceiptSaturates
    <3>2. QED
      BY <3>1, <2>6, <2>8, SaturatesOnce
  <2>10. used'.time = SaturatingAdd(0, SumOf(records', "expected"))
    <3>1. used'.time = SaturatingAdd(SaturatingAdd(0, SumOf(records, "expected")),
                                     Expected(s.length, s.direction))
      BY <2>1 DEF ReceiptSaturates
    <3>2. QED
      BY <3>1, <2>7, <2>8, SaturatesOnce
  <2>11. QED
    BY <2>9, <2>10 DEF ReceiptSaturates
<1>3. QED
  BY <1>1, <1>2

(* For every budget, the totals of the adapter are those of its receipt,   *)
(* as far as a u64 can hold them (used_bytes, used_time_nanos and records  *)
(* of HostStagedAdapter::copy).                                            *)
THEOREM ReceiptSaturated == Spec => []ReceiptSaturates
<1>1. Init => ReceiptSaturates
  BY SumOfNone, NumbersAssumption DEF Init, ReceiptSaturates, SaturatingAdd
<1>2. IInv /\ ReceiptSaturates /\ [Next]_vars => ReceiptSaturates'
  <2> SUFFICES ASSUME IInv, ReceiptSaturates, [Next]_vars
               PROVE  ReceiptSaturates'
    OBVIOUS
  <2>1. ASSUME NEW s \in Specs, NEW v \in Sources, NEW d \in Partition,
               NEW f \in Fates, Copy(s, v, d, f)
        PROVE  ReceiptSaturates'
    BY <2>1, CopySaturates
  <2>2. CASE UNCHANGED <<used, records>>
    BY <2>2 DEF ReceiptSaturates, SumOf
  <2>3. ASSUME NEW s \in Specs, NEW v \in Sources, NEW d \in Partition,
               ValidationPanics(s, v, d)
        PROVE  UNCHANGED <<used, records>>
    BY <2>3 DEF ValidationPanics
  <2>4. ASSUME NEW m \in Measurements, Measure(m)
        PROVE  UNCHANGED <<used, records>>
    BY <2>4 DEF Measure, adapterVars
  <2>5. QED
    BY <2>1, <2>2, <2>3, <2>4 DEF Next, vars
<1>3. QED
  BY <1>1, <1>2, Invariance, PTL DEF Spec

(* The receipt of a budget a u64 does not saturate at adds up exactly: the *)
(* bytes and the time the adapter charged are the sums over its records.   *)
(* A budget of u64::MAX never refuses, and its totals stop at u64::MAX.    *)
THEOREM ReceiptExact ==
  ASSUME Budget.bytes < MaxU64, Budget.time < MaxU64
  PROVE  Spec => []ReceiptAddsUp
<1>1. IInv /\ ReceiptSaturates => ReceiptAddsUp
  <2> SUFFICES ASSUME IInv, ReceiptSaturates PROVE ReceiptAddsUp
    OBVIOUS
  <2> DEFINE b == SumOf(records, "bytes")
             t == SumOf(records, "expected")
  <2>1. b \in Nat /\ t \in Nat
    <3>1. records \in Seq(SelectedTransferRecord)
      BY DEF IInv, TypeOK
    <3>2. \A q \in SelectedTransferRecord : q["bytes"] \in Nat /\ q["expected"] \in Nat
      BY NumbersAssumption DEF SelectedTransferRecord, U64
    <3>3. QED
      BY <3>1, <3>2, SumOfType
  <2> HIDE DEF b, t
  <2>2. used.bytes < MaxU64 /\ used.time < MaxU64
    BY NumbersAssumption DEF IInv, BudgetHolds, TypeOK, U64
  <2>3. used.bytes = SaturatingAdd(0, b) /\ used.time = SaturatingAdd(0, t)
    BY DEF ReceiptSaturates, b, t
  <2>4. used.bytes = b /\ used.time = t
    BY <2>1, <2>2, <2>3, NumbersAssumption DEF SaturatingAdd
  <2>5. QED
    BY <2>4 DEF ReceiptAddsUp, b, t
<1>2. QED
  BY <1>1, Invariance, ReceiptSaturated, PTL
=============================================================================
