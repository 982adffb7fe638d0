------------------------------- MODULE Sparsa -------------------------------
(***************************************************************************)
(* Sparse tensors (src/sparsa.rs): a shape and a map from coordinates to   *)
(* the entries that differ from the default; and the calls of the LLVM     *)
(* host (hosts/llvm/src/sparsa.rs), by which a program reaches one.  Such  *)
(* a call names the kind of the elements, and an index is an array that    *)
(* may have any length and any numbers.  Values are floats as equality     *)
(* tells them apart: the two zeros are equal, NaN is unequal to itself.    *)
(* `dense' is the history of what the program wrote, coordinate by         *)
(* coordinate.                                                             *)
(***************************************************************************)
EXTENDS Integers, Sequences, FiniteSets, FiniteSetsExt, Functions

CONSTANTS
  SparseShapes,   \* the shapes a program asks for
  Indices,        \* the index arrays it uses, valid and not
  MaxWrites,      \* bound on its writes
  MaxUsize        \* the largest count of elements (usize::MAX)

ASSUME SparseAssumption ==
  /\ SparseShapes \subseteq Seq(Int) /\ Indices \subseteq Seq(Int)
  /\ MaxWrites \in Nat /\ MaxUsize \in Nat

VARIABLES sparse, dense, writes
sparseVars == <<sparse, dense, writes>>

Floats == {"zero", "-zero", "one", "NaN"}
Same(x, y) == x # "NaN" /\ (x = y \/ {x, y} \subseteq {"zero", "-zero"})
Default == "zero"

Count(shape) ==
  LET Upto[n \in 0..Len(shape)] == IF n = 0 THEN 1 ELSE Upto[n - 1] * shape[n]
  IN  Upto[Len(shape)]
Coordinates(shape) ==
  {c \in [DOMAIN shape -> UNION {0..(shape[i] - 1) : i \in DOMAIN shape}] :
     \A i \in DOMAIN shape : c[i] < shape[i]}
NonNegative(shape) == \A i \in DOMAIN shape : shape[i] >= 0

(* element_count has no answer when the product of the dimensions, taken   *)
(* from the first on, passes what a usize holds.                           *)
CountOverflows(shape) == \E n \in DOMAIN shape : Count(SubSeq(shape, 1, n)) > MaxUsize

validate_indices(shape, c) ==
  Len(c) = Len(shape) /\ \A i \in DOMAIN c : c[i] >= 0 /\ c[i] < shape[i]

vacua(shape) == [shape |-> shape, entries |-> <<>>]
Stored(s) == DOMAIN s.entries
accipe(s, c) == IF c \in Stored(s) THEN s.entries[c] ELSE Default

WithEntry(entries, c, v) ==
  [x \in DOMAIN entries \cup {c} |-> IF x = c THEN v ELSE entries[x]]

(* A write of the default that only skips the insertion. *)
ponde_keeps(s, c, v) == IF Same(v, Default) THEN s ELSE [s EXCEPT !.entries = WithEntry(@, c, v)]

(* Writing the default forgets the entry. *)
ponde_sparse(s, c, v) ==
  IF Same(v, Default)
  THEN [s EXCEPT !.entries = [x \in DOMAIN @ \ {c} |-> @[x]]]
  ELSE [s EXCEPT !.entries = WithEntry(@, c, v)]

(* Row-major order; the first coordinate of an axis is reset with the      *)
(* carry.  False after the last item.                                      *)
advance_coordinate(c, shape) ==
  LET live == {i \in DOMAIN shape : c[i] + 1 < shape[i]}
      axis == Max(live)
  IN  IF live = {} THEN <<>>
      ELSE << [i \in DOMAIN shape |-> IF i < axis THEN c[i]
                                      ELSE IF i = axis THEN c[i] + 1 ELSE 0] >>

(* The coordinates a walk from the origin passes, one for each step. *)
Trail(shape, steps) ==
  LET Upto[n \in 0..(steps - 1)] ==
        IF n = 0 THEN << [i \in DOMAIN shape |-> 0] >>
        ELSE LET before == Upto[n - 1]
             IN  before \o advance_coordinate(before[Len(before)], shape)
  IN  IF steps = 0 THEN <<>> ELSE Upto[steps - 1]

(* densata, of a shape that can be counted: push_dense_values, then        *)
(* structa, which compares the counts.                                     *)
push_dense_values(s) ==
  IF 0 \in Range(s.shape) THEN <<>>
  ELSE LET trail == Trail(s.shape, Count(s.shape) + 1)
       IN  [k \in DOMAIN trail |-> accipe(s, trail[k])]
densata(s) == [shape |-> s.shape, data |-> push_dense_values(s)]

(* from_tensor: entries_from_dense_values. *)
from_tensor(d) ==
  LET trail == Trail(d.shape, Len(d.data))
      kept == {k \in DOMAIN trail : ~Same(d.data[k], Default)}
  IN  [shape |-> d.shape,
       entries |-> [c \in {trail[k] : k \in kept} |->
                      d.data[CHOOSE k \in kept : trail[k] = c]]]

nonnihil(s) == Cardinality(Stored(s))

-----------------------------------------------------------------------------
(* The host's calls.  Of the kinds only whether the call names the one of  *)
(* the tensor matters; one that is refused answers INVALID_ARGUMENT.       *)
SparseKinds == {"F32", "F64", "I32", "I64"}
Refused == [status |-> "INVALID_ARGUMENT"]
Success(v) == [status |-> "OK", value |-> v]

sparse_new(kind, shape) ==
  IF kind \in SparseKinds /\ NonNegative(shape) THEN Success(vacua(shape)) ELSE Refused

sparse_get(s, own, c, kind) ==
  IF kind = own /\ validate_indices(s.shape, c) THEN Success(accipe(s, c)) ELSE Refused

sparse_set(s, own, c, kind, v) ==
  IF kind = own /\ validate_indices(s.shape, c) THEN Success(ponde_sparse(s, c, v)) ELSE Refused

sparse_nonzero(s) == Success(nonnihil(s))
sparse_rank(s) == Success(Len(s.shape))
sparse_densify(s) ==
  LET d == densata(s)
  IN  IF ~CountOverflows(s.shape) /\ Len(d.data) = Count(d.shape) THEN Success(d) ELSE Refused
sparse_from_tensor(d, own, kind) == IF kind = own THEN Success(from_tensor(d)) ELSE Refused

SparseInit ==
  \E shape \in SparseShapes :
    LET new == sparse_new("F32", shape)
    IN  /\ new # Refused
        /\ sparse = new.value /\ dense = [c \in Coordinates(shape) |-> Default] /\ writes = 0

(* A write that is refused changes nothing. *)
WriteEntry ==
  /\ writes < MaxWrites /\ writes' = writes + 1
  /\ \E c \in Indices, v \in Floats, kind \in {"F32", "I64"} :
       LET set == sparse_set(sparse, "F32", c, kind, v)
       IN  /\ sparse' = IF set = Refused THEN sparse ELSE set.value
           /\ dense' = [x \in DOMAIN dense |->
                          IF kind = "F32" /\ x = c THEN v ELSE dense[x]]

(* Through the dense form and back, if there is one. *)
RoundTrip ==
  /\ LET d == sparse_densify(sparse)
     IN  sparse' = IF d = Refused THEN sparse
                   ELSE sparse_from_tensor(d.value, "F32", "F32").value
  /\ UNCHANGED <<dense, writes>>

SparseNext == WriteEntry \/ RoundTrip

SparseSpec == SparseInit /\ [][SparseNext]_sparseVars

-----------------------------------------------------------------------------
(* Where row-major order has a coordinate. *)
RowMajor(shape, c) ==
  LET Upto[n \in 0..Len(shape)] == IF n = 0 THEN 0 ELSE Upto[n - 1] * shape[n] + c[n]
  IN  Upto[Len(shape)] + 1

(* A sparse tensor reads, counts and densifies through the host's calls as *)
(* the dense one that was written, but for the sign of zero: after any     *)
(* writes (of defaults over entries, of NaN, refused ones) and any         *)
(* conversions, every coordinate holds what was last written there, in     *)
(* row-major order, for shapes of rank zero and with an empty axis too,    *)
(* and nothing else can be read.  Only a shape whose elements cannot be    *)
(* counted is not densified; its entries still read.                       *)
SparseIsDense ==
  LET Reads(x, y) == Same(x, y) \/ (x = "NaN" /\ y = "NaN")
      d == sparse_densify(sparse)
  IN  /\ sparse_nonzero(sparse).value = Cardinality({c \in DOMAIN dense : ~Same(dense[c], Default)})
      /\ d = Refused <=> CountOverflows(sparse.shape)
      /\ \A c \in Indices, kind \in {"F32", "I64"} :
           LET got == sparse_get(sparse, "F32", c, kind)
           IN  /\ got = Refused <=> kind # "F32" \/ c \notin DOMAIN dense
               /\ got # Refused =>
                    /\ Reads(got.value, dense[c])
                    /\ d # Refused => Reads(d.value.data[RowMajor(sparse.shape, c)], dense[c])
                    /\ Len(c) = sparse_rank(sparse).value
=============================================================================
