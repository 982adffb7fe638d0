---------------------------- MODULE Intervallum ----------------------------
(***************************************************************************)
(* Numeric intervals (src/intervallum.rs), and the calls of the LLVM host  *)
(* (hosts/llvm/src/intervallum.rs) by which a program reaches them: two    *)
(* bounds of a sized integer type and an inclusivity.                      *)
(* An interval is directed: a descending one runs from initium down to     *)
(* finis, and the exclusive kind leaves finis out whichever way it runs.   *)
(*                                                                         *)
(* A pair of intervals of one type is made at the start; the algebra is    *)
(* operators on it, and the lazy walk over the first advances by `next'.   *)
(***************************************************************************)
EXTENDS Integers, Sequences, FiniteSets, FiniteSetsExt, Functions

CONSTANTS
  Types,    \* integer types: records of min and max
  MaxI64    \* i64::MAX; no type is wider than an i64 or a u64

ASSUME TypesAssumption ==
  /\ MaxI64 \in Nat
  /\ \A ty \in Types : /\ ty.min \in Int /\ ty.max \in Int /\ ty.min <= ty.max
                       /\ -MaxI64 - 1 <= ty.min /\ ty.max <= 2 * MaxI64 + 1

VARIABLES
  pair,   \* the type and the two intervals
  walk    \* IntervallumWalk over the first: cursor, exhausted, what it yielded, its end
intervalVars == <<pair, walk>>

Interval(ty) == [initium : ty.min..ty.max, finis : ty.min..ty.max, inclusive : BOOLEAN]

saturating_add(ty, x) == IF x = ty.max THEN x ELSE x + 1
saturating_sub(ty, x) == IF x = ty.min THEN x ELSE x - 1

Ascending(i) == i.initium <= i.finis
Lo(i) == IF i.initium <= i.finis THEN i.initium ELSE i.finis
Hi(i) == IF i.initium >= i.finis THEN i.initium ELSE i.finis

continet(i, x) ==
  IF Ascending(i)
  THEN x >= i.initium /\ (IF i.inclusive THEN x <= i.finis ELSE x < i.finis)
  ELSE x <= i.initium /\ (IF i.inclusive THEN x >= i.finis ELSE x > i.finis)

coercere(ty, i, x) ==
  LET lo == IF ~i.inclusive /\ ~Ascending(i) THEN saturating_add(ty, Lo(i)) ELSE Lo(i)
      hi == IF ~i.inclusive /\ Ascending(i) THEN saturating_sub(ty, Hi(i)) ELSE Hi(i)
  IN  IF continet(i, x) THEN x ELSE IF x < lo THEN lo ELSE IF x > hi THEN hi ELSE x

coercere_intervallum(ty, i, target) ==
  [initium |-> coercere(ty, target, i.initium), finis |-> coercere(ty, target, i.finis),
   inclusive |-> target.inclusive]

(* ad_lista: the walk stops at finis, or at the end of the type. *)
ad_lista(ty, i) ==
  LET Up[c \in i.initium..ty.max] ==
        IF ~(IF i.inclusive THEN c <= i.finis ELSE c < i.finis) THEN <<>>
        ELSE IF c >= ty.max THEN <<c>> ELSE <<c>> \o Up[c + 1]
      Down[c \in ty.min..i.initium] ==
        IF ~(IF i.inclusive THEN c >= i.finis ELSE c > i.finis) THEN <<>>
        ELSE IF c <= ty.min THEN <<c>> ELSE <<c>> \o Down[c - 1]
  IN  IF Ascending(i) THEN Up[i.initium] ELSE Down[i.initium]

(* The span is a saturating difference in the interval's own type, and is  *)
(* cast to an i64: the upper half of a u64 becomes negative.               *)
to_i64(x) == IF x > MaxI64 THEN x - 2 * (MaxI64 + 1) ELSE x

longitudo(ty, i) ==
  LET span == to_i64(IF Hi(i) - Lo(i) > ty.max THEN ty.max ELSE Hi(i) - Lo(i))
  IN  IF i.inclusive /\ span < MaxI64 THEN span + 1 ELSE span

Inclusive(left, lo, hi) ==
  [initium |-> IF left.initium > left.finis THEN hi ELSE lo,
   finis |-> IF left.initium > left.finis THEN lo ELSE hi, inclusive |-> TRUE]
NoInterval == [none |-> TRUE]
Hangs == [hangs |-> TRUE]

(* The two searches of inter run from the ends of the overlap inwards. *)
inter(a, b) ==
  LET lo == Max({Lo(a), Lo(b)})  hi == Min({Hi(a), Hi(b)})
      both == {x \in lo..hi : continet(a, x) /\ continet(b, x)}
  IN  IF both = {} THEN NoInterval ELSE Inclusive(a, Min(both), Max(both))

ActualHi(ty, i) == IF continet(i, Hi(i)) THEN Hi(i) ELSE saturating_sub(ty, Hi(i))
ActualLo(ty, i) == IF continet(i, Lo(i)) THEN Lo(i) ELSE saturating_add(ty, Lo(i))

touches(ty, a, b) ==
  \/ a.finis = b.initium /\ (continet(a, b.initium) \/ continet(b, a.finis))
  \/ b.finis = a.initium /\ (continet(b, a.initium) \/ continet(a, b.finis))
  \/ saturating_add(ty, ActualHi(ty, a)) = ActualLo(ty, b)
  \/ saturating_add(ty, ActualHi(ty, b)) = ActualLo(ty, a)

(* The searches of union have no bound: when neither interval has a point  *)
(* they step to the end of the type and stay there.                        *)
union(ty, a, b) ==
  LET either == {x \in ty.min..ty.max : continet(a, x) \/ continet(b, x)}
  IN  IF inter(a, b) = NoInterval /\ ~touches(ty, a, b) THEN NoInterval
      ELSE IF either = {} THEN Hangs
      ELSE Inclusive(a, Min(either), Max(either))

-----------------------------------------------------------------------------
(* The host's calls.  They know the intervals they made by their handles   *)
(* and refuse any other; what may be empty is an option of a handle.       *)
Handles == {"a", "b"}
find_interval(h) == IF h = "a" THEN pair.a ELSE pair.b
Answer(hs, v) == IF hs \subseteq Handles THEN <<v>> ELSE <<>>
store_optional_interval(i) == IF i = NoInterval THEN <<>> ELSE <<i>>

interval_new(initium, finis, flag) ==
  IF flag \in {0, 1} THEN <<[initium |-> initium, finis |-> finis, inclusive |-> flag = 1]>>
  ELSE <<>>
interval_intersect(l, r) ==
  Answer({l, r}, store_optional_interval(inter(find_interval(l), find_interval(r))))
interval_union(l, r) ==
  Answer({l, r}, store_optional_interval(union(pair.ty, find_interval(l), find_interval(r))))
interval_length(h) == Answer({h}, longitudo(pair.ty, find_interval(h)))
interval_contains(h, x) == Answer({h}, continet(find_interval(h), x))
interval_clamp_i64(x, h) == Answer({h}, coercere(pair.ty, find_interval(h), x))
interval_clamp(source, target) ==
  Answer({source, target},
         coercere_intervallum(pair.ty, find_interval(source), find_interval(target)))
interval_materialize_array(h) == Answer({h}, ad_lista(pair.ty, find_interval(h)))
interval_materialize_tensor(h) ==
  LET values == ad_lista(pair.ty, find_interval(h))
  IN  Answer({h}, [shape |-> <<Len(values)>>, data |-> values])

(* ambula: the lazy walk.                                                  *)

Intervals(ty) ==
  UNION {Range(interval_new(x, y, flag)) : x, y \in ty.min..ty.max, flag \in 0..2}

IntervalInit ==
  /\ pair \in UNION {[ty : {ty}, a : Intervals(ty), b : Intervals(ty)] : ty \in Types}
  /\ walk = [cursor |-> pair.a.initium, exhausted |-> FALSE, out |-> <<>>, ended |-> FALSE]

Done(i, c) ==
  IF Ascending(i) THEN (IF i.inclusive THEN c > i.finis ELSE c >= i.finis)
  ELSE (IF i.inclusive THEN c < i.finis ELSE c <= i.finis)

(* A walk that steps over the last value of the type. *)
next_wraps ==
  LET i == pair.a  ty == pair.ty  c == walk.cursor  size == ty.max - ty.min + 1
      Wrap(x) == ty.min + ((x - ty.min) % size)
  IN  IF Done(i, c) \/ Len(walk.out) > size
      THEN walk' = [walk EXCEPT !.exhausted = TRUE, !.ended = TRUE]
      ELSE walk' = [walk EXCEPT !.out = Append(@, c),
                                !.cursor = Wrap(IF Ascending(i) THEN @ + 1 ELSE @ - 1)]

next ==
  LET i == pair.a  ty == pair.ty  c == walk.cursor
      last == IF Ascending(i) THEN c >= ty.max \/ c >= i.finis ELSE c <= ty.min \/ c <= i.finis
  IN  IF walk.exhausted \/ Done(i, c)
      THEN walk' = [walk EXCEPT !.exhausted = TRUE, !.ended = TRUE]
      ELSE walk' = [walk EXCEPT !.out = Append(@, c), !.exhausted = last,
                                !.cursor = IF last THEN @
                                           ELSE IF Ascending(i) THEN @ + 1 ELSE @ - 1]

IntervalNext == pair.a = pair.b /\ next /\ UNCHANGED pair

IntervalSpec == IntervalInit /\ [][IntervalNext]_intervalVars

-----------------------------------------------------------------------------
Points(ty, i) == {x \in ty.min..ty.max : continet(i, x)}
Distance(x, y) == IF x < y THEN y - x ELSE x - y
Contiguous(S) == S = {} \/ S = Min(S)..Max(S)

(* The algebra is that of the sets of points: inter is the intersection,   *)
(* union the union when it has no gap, for every pair of directed, empty   *)
(* or type-wide intervals; clamping gives the nearest point; longitudo     *)
(* counts the points when the span fits the type and the count an i64, and *)
(* an interval clamped into another has its points there.  Two empty       *)
(* intervals are left out of what is said of union, which may not return   *)
(* for them.  A handle that the host did not give out gets no answer.      *)
IntervalsArePointSets ==
  LET ty == pair.ty  a == pair.a  b == pair.b  A == Points(ty, a)  B == Points(ty, b)
      i == interval_intersect("a", "b")[1]  u == interval_union("a", "b")[1]
  IN  /\ i = <<>> <=> A \cap B = {}
      /\ i # <<>> => Points(ty, i[1]) = A \cap B
      /\ A # {} /\ B # {} => (u = <<>> <=> ~Contiguous(A \cup B))
      /\ A \cup B # {} => u # <<Hangs>> /\ (u # <<>> => Points(ty, u[1]) = A \cup B)
      /\ A # {} => \A x \in ty.min..ty.max :
           LET y == interval_clamp_i64(x, "a")[1]
           IN  y \in A /\ \A z \in A : Distance(x, y) <= Distance(x, z)
      /\ B # {} => Points(ty, interval_clamp("a", "b")[1]) \subseteq B
      /\ Hi(a) - Lo(a) <= ty.max /\ Cardinality(A) <= MaxI64 =>
           interval_length("a") = <<Cardinality(A)>>
      /\ interval_intersect("a", "c") = <<>> /\ interval_length("c") = <<>>

(* The list and the lazy walk visit the points of the interval once each,  *)
(* from initium on, and the walk ends where the list does, at the last     *)
(* value of the type too.                                                  *)
WalkIsList ==
  LET list == interval_materialize_array("a")[1]
  IN  /\ Range(list) = {x \in pair.ty.min..pair.ty.max : interval_contains("a", x)[1]}
      /\ Len(list) = Cardinality(Range(list))
      /\ interval_materialize_tensor("a")[1] = [shape |-> <<Len(list)>>, data |-> list]
      /\ Len(walk.out) <= Len(list) /\ walk.out = SubSeq(list, 1, Len(walk.out))
      /\ walk.ended => walk.out = list

(* Interval algebra, clamping, lists and walks agree on one set of points, *)
(* for every direction, inclusivity and bound of the type.                 *)
IntervalsSound == IntervalsArePointSets /\ WalkIsList
=============================================================================
