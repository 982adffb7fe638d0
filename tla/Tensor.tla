------------------------------- MODULE Tensor -------------------------------
(***************************************************************************)
(* Dense tensors: src/tensor.rs.  A tensor is a descriptor -- buffer,      *)
(* shape, strides, offset, view flag -- over a buffer shared by clones and *)
(* by the views `sectio' makes; `heap' maps buffers to their contents.     *)
(* Kernels read descriptors through the strides into a dense record        *)
(* [shape, data] (row major) and return one, which `from_contiguous' gives *)
(* a buffer of its own.                                                    *)
(*                                                                         *)
(* f32 arithmetic is exact arithmetic modulo the prime P: rounding is      *)
(* abstracted, every algebraic identity is kept.  NF stands for the        *)
(* infinities and NaN and absorbs.  Elements up to (P-1)/2 are positive,   *)
(* the others negative.  Transcendental functions are uninterpreted.       *)
(***************************************************************************)
EXTENDS Lists, FiniteSetsExt, Functions

CONSTANTS
    P, ExpF, LogF, SqrtF, RSqrtF, GeluF, GeluD,
    Unit,    \* the elements that stand for the numbers from zero to one
    LogEps   \* the 1e-7 that crux_entropia adds inside its logarithm

ASSUME FieldAssumption ==
    /\ P \in Nat /\ P > 2
    /\ \A a \in 1..(P-1) : \E b \in 1..(P-1) : (a * b) % P = 1
    /\ Unit \subseteq 0..(P-1) /\ LogEps \in 0..(P-1)

NF == -1
Field == 0..(P-1)
Err == [error |-> TRUE]
Panic == [panic |-> TRUE]
IsTensor(r) == r \notin {Err, Panic}

Plus(a, b) == IF NF \in {a, b} THEN NF ELSE (a + b) % P
Minus(a, b) == IF NF \in {a, b} THEN NF ELSE (a - b) % P
Times(a, b) == IF NF \in {a, b} THEN NF ELSE (a * b) % P
Over(a, b) == IF NF \in {a, b} \/ b = 0 THEN NF
              ELSE (a * (CHOOSE c \in Field : (b * c) % P = 1)) % P
Positive(a) == a \in 1..((P-1) \div 2)
Negative(a) == a > (P-1) \div 2

SumOf(s) == Seqs!FoldSeq(Plus, 0, s)
Finite(d) == NF \notin Range(d.data)

-----------------------------------------------------------------------------
(* Shapes and indices.                                                     *)

(* The elements of the last n axes. *)
Volume(shape, n) ==
    LET Behind[k \in 0..Len(shape)] ==
          IF k = 0 THEN 1 ELSE Behind[k - 1] * shape[Len(shape) + 1 - k]
    IN  Behind[n]
Product(shape) == Volume(shape, Len(shape))
tensor_shape_element_count(shape) == Product(shape)

row_major_strides(shape) == [i \in DOMAIN shape |-> Volume(shape, Len(shape) - i)]

unravel_index(ordinal, shape) ==
    LET strides == row_major_strides(shape)
    IN  [i \in DOMAIN shape |-> (ordinal \div strides[i]) % shape[i]]

(* Each index takes its stride. *)
Strided(index, strides) ==
    LET Upto[n \in 0..Len(index)] == IF n = 0 THEN 0 ELSE Upto[n - 1] + index[n] * strides[n]
    IN  Upto[Len(index)]
FlatOffset(shape, index) == Strided(index, row_major_strides(shape))

broadcast_dim(shape, rank, axis) ==
    IF axis <= rank - Len(shape) THEN 1 ELSE shape[axis - (rank - Len(shape))]

Broadcastable(lhs, rhs) ==
    LET rank == Max({Len(lhs), Len(rhs)})
    IN  \A i \in 1..rank :
            LET l == broadcast_dim(lhs, rank, i)
                r == broadcast_dim(rhs, rank, i)
            IN  l = r \/ l = 1 \/ r = 1

broadcast_shape(lhs, rhs) ==
    LET rank == Max({Len(lhs), Len(rhs)})
    IN  [i \in 1..rank |-> LET l == broadcast_dim(lhs, rank, i)
                               r == broadcast_dim(rhs, rank, i)
                           IN  IF l = 1 THEN r ELSE l]

(* The index of an operand that broadcasts to index: a dimension of one    *)
(* repeats.                                                                *)
broadcast_index(index, shape) ==
    LET pad == Len(index) - Len(shape)
    IN  [i \in DOMAIN shape |-> IF shape[i] = 1 THEN 0 ELSE index[i + pad]]

permute_axes(axes, rank) ==
    /\ Len(axes) = rank
    /\ \A i \in DOMAIN axes : axes[i] \in 0..(rank - 1)
    /\ IsInjective(axes)

-----------------------------------------------------------------------------
(* Descriptors over the heap.                                              *)

(* Appending nothing makes TLC compute the elements of a sequence once,    *)
(* when it is made, and not at every use.                                  *)
Computed(s) == s \o <<>>
Dense(shape, data) == [shape |-> shape, data |-> Computed(data)]
At(d, index) == d.data[FlatOffset(d.shape, index) + 1]

from_contiguous(buf, shape) ==
    [buf |-> buf, shape |-> shape, strides |-> row_major_strides(shape),
     offset |-> 0, view |-> FALSE]

logical_offset_for_index(t, index) == t.offset + Strided(index, t.strides)

logical_offsets(t) ==
    [k \in 1..Product(t.shape) |->
        logical_offset_for_index(t, unravel_index(k - 1, t.shape))]

planata(heap, t) ==
    [k \in 1..Product(t.shape) |-> heap[t.buf][logical_offsets(t)[k] + 1]]

Read(heap, t) == Dense(t.shape, planata(heap, t))

offset_for_index(t, index) ==
    IF Len(index) = Len(t.shape) /\ \A i \in DOMAIN index : index[i] \in 0..(t.shape[i] - 1)
    THEN logical_offset_for_index(t, index) ELSE -1

(* sectio shares the buffer: only the offset and the first dimension move. *)
SectioOK(t, start, end) ==
    0 <= start /\ start <= end /\ t.shape # <<>> /\ end <= t.shape[1]
sectio(t, start, end) ==
    [t EXCEPT !.shape[1] = end - start,
              !.offset = @ + start * t.strides[1],
              !.view = TRUE]

(* ponde and reple write in place, for every descriptor of the buffer.     *)
ponde(heap, t, index, v) == [heap EXCEPT ![t.buf][offset_for_index(t, index) + 1] = v]
reple(heap, t, v) ==
    [heap EXCEPT ![t.buf] = [k \in DOMAIN @ |-> IF k - 1 \in Range(logical_offsets(t))
                                                THEN v ELSE @[k]]]

-----------------------------------------------------------------------------
(* Kernels, on dense records.                                              *)

Map(d, f(_)) == Dense(d.shape, [k \in DOMAIN d.data |-> f(d.data[k])])

crea(shape, fill) == Dense(shape, [k \in 1..Product(shape) |-> fill])

structa(data, shape) == IF Product(shape) = Len(data) THEN Dense(shape, data) ELSE Err

forma(d, shape) == structa(d.data, shape)

permute(d, axes) ==
    IF ~permute_axes(axes, Len(d.shape)) THEN Err
    ELSE LET shape == [i \in DOMAIN axes |-> d.shape[axes[i] + 1]]
             In(out) == [j \in DOMAIN axes |->
                            out[CHOOSE i \in DOMAIN axes : axes[i] + 1 = j]]
         IN  Dense(shape, [k \in 1..Product(shape) |-> At(d, In(unravel_index(k - 1, shape)))])

transpose_rank2(d) == IF Len(d.shape) # 2 THEN Err ELSE permute(d, <<1, 0>>)

AtBroadcast(d, index) == At(d, broadcast_index(index, d.shape))
Elementwise(shape, a, b, op(_, _)) ==
    LET Element(index) == op(AtBroadcast(a, index), AtBroadcast(b, index))
    IN  Dense(shape, [k \in 1..Product(shape) |-> Element(unravel_index(k - 1, shape))])

tensor_elementwise(a, b, op(_, _)) ==
    IF ~Broadcastable(a.shape, b.shape) THEN Err
    ELSE Elementwise(broadcast_shape(a.shape, b.shape), a, b, op)

addita(a, b) == tensor_elementwise(a, b, Plus)
subtrahe(a, b) == tensor_elementwise(a, b, Minus)
multiplica(a, b) == tensor_elementwise(a, b, Times)

(* Checked division: any non-finite operand or zero denominator refuses.   *)
FiniteOrErr(q) == IF IsTensor(q) /\ ~Finite(q) THEN Err ELSE q
divide(a, b) == FiniteOrErr(tensor_elementwise(a, b, Over))

neg(d) == Map(d, LAMBDA v : Minus(0, v))
scala(d, factor) == Map(d, LAMBDA v : Times(v, factor))
summa(d) == Dense(<<>>, <<SumOf(d.data)>>)
media(d) == IF d.data = <<>> THEN Err
            ELSE Dense(<<>>, <<Over(SumOf(d.data), Len(d.data) % P)>>)

(* The domain-checked unary primitives.                                    *)
relu(d) == IF ~Finite(d) THEN Err ELSE Map(d, LAMBDA v : IF Positive(v) THEN v ELSE 0)
sqrt(d) == IF ~Finite(d) \/ \E v \in Range(d.data) : Negative(v) THEN Err
           ELSE Map(d, LAMBDA v : SqrtF[v])
exp(d) == IF ~Finite(d) THEN Err ELSE Map(d, LAMBDA v : ExpF[v])
log(d) == IF ~Finite(d) \/ \E v \in Range(d.data) : ~Positive(v) THEN Err
          ELSE Map(d, LAMBDA v : LogF[v])
gelu(d) == IF ~Finite(d) THEN Err ELSE Map(d, LAMBDA v : GeluF[v])

(* Rows of the last axis; the shift by the row maximum cancels exactly.    *)
(* A rank-zero tensor has one element and no last axis: shape[rank - 1]    *)
(* is out of bounds and the thread panics.                                 *)
softmax(d) ==
    IF d.data = <<>> \/ ~Finite(d) THEN Err
    ELSE IF d.shape = <<>> THEN Panic
    ELSE LET n == Seqs!Last(d.shape)
             Row(k) == ((k - 1) \div n) * n
             Sum(k) == SumOf([j \in 1..n |-> ExpF[d.data[Row(k) + j]]])
         IN  Dense(d.shape, [k \in DOMAIN d.data |-> Over(ExpF[d.data[k]], Sum(k))])

crux_entropia(logits, targets) ==
    IF \/ logits.data = <<>> \/ ~Finite(logits) \/ ~Finite(targets)
       \/ ~(Range(targets.data) \subseteq Unit)
       \/ logits.shape # targets.shape \/ Len(logits.shape) \notin 1..2
    THEN Err
    ELSE LET s == softmax(logits)
             terms == [k \in DOMAIN s.data |-> Times(targets.data[k], LogF[Plus(s.data[k], LogEps)])]
         IN  Dense(<<>>, <<Over(Minus(0, SumOf(terms)), Seqs!Last(logits.shape) % P)>>)

matmul(a, b) ==
    IF Len(a.shape) # 2 \/ Len(b.shape) # 2 THEN Err
    ELSE IF a.shape[2] # b.shape[1] THEN Err
    ELSE LET m == a.shape[1]  n == b.shape[2]
         IN  Dense(<<m, n>>, [q \in 1..(m * n) |->
                 SumOf([k \in 1..a.shape[2] |->
                     Times(At(a, <<(q - 1) \div n, k - 1>>), At(b, <<k - 1, (q - 1) % n>>))])])

-----------------------------------------------------------------------------
(* Layer normalisation.  The slice of element k are the positions that     *)
(* share its index on every axis but the normalised one.                   *)

AxisIndex(shape, axis, k) == unravel_index(k - 1, shape)[axis + 1]
SliceOf(shape, axis, k) ==
    {j \in 1..Product(shape) : \A i \in DOMAIN shape :
        i = axis + 1 \/ unravel_index(j - 1, shape)[i] = unravel_index(k - 1, shape)[i]}

SumOver(f, S) == FoldFunctionOnSet(Plus, 0, f, S)

MeanAt(d, axis, k) == Over(SumOver(d.data, SliceOf(d.shape, axis, k)), d.shape[axis + 1] % P)

Square(a) == Times(a, a)
VarianceAt(d, axis, k, mean) ==
    Over(SumOver([j \in DOMAIN d.data |-> Square(Minus(d.data[j], mean))], SliceOf(d.shape, axis, k)),
         d.shape[axis + 1] % P)

InvStdAt(d, axis, epsilon, k) == RSqrtF[Plus(VarianceAt(d, axis, k, MeanAt(d, axis, k)), epsilon)]

Normalised(d, axis, epsilon) ==
    Dense(d.shape, [k \in DOMAIN d.data |->
        Times(Minus(d.data[k], MeanAt(d, axis, k)), InvStdAt(d, axis, epsilon, k))])

AffineOK(d, axis, affine) ==
    \A g \in Range(affine) : g.shape = <<d.shape[axis + 1]>> /\ Finite(g)

(* gamma and beta are sequences of at most one dense record.               *)
Affine(y, axis, gamma, beta) ==
    LET Along(v, k) == v[1].data[AxisIndex(y.shape, axis, k) + 1]
    IN  Dense(y.shape, [k \in DOMAIN y.data |->
            Plus(Times(y.data[k], IF gamma = <<>> THEN 1 ELSE Along(gamma, k)),
                 IF beta = <<>> THEN 0 ELSE Along(beta, k))])

layernorm(d, axis, epsilon, gamma, beta) ==
    IF d.data = <<>> \/ Len(d.shape) \notin 1..2 THEN Err
    ELSE IF axis \notin 0..(Len(d.shape) - 1) \/ ~Finite(d) THEN Err
    ELSE IF ~AffineOK(d, axis, gamma) \/ ~AffineOK(d, axis, beta) THEN Err
    ELSE Affine(Normalised(d, axis, epsilon), axis, gamma, beta)
=============================================================================
