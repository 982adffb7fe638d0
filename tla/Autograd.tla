------------------------------ MODULE Autograd ------------------------------
(***************************************************************************)
(* The reverse-mode tape of src/autograd.rs over the tensors of            *)
(* src/tensor.rs.  A tape saves, with every operation, a private copy of   *)
(* its result; `backward' walks the nodes in reverse and accumulates the   *)
(* vector-Jacobian product of each into its parents.                       *)
(*                                                                         *)
(* The caller keeps the tensors it built (held), views of them, and a copy *)
(* of every recorded value (exposed), and may write to any of them at any  *)
(* time: buffers are shared through Arc, so the copies are what keeps the  *)
(* tape's history intact.                                                  *)
(***************************************************************************)
EXTENDS Tensor

CONSTANTS
    Inputs,     \* dense records the caller may build tensors from
    Factors, Shapes, AxisLists, Ranges, Epsilon,   \* operation arguments
    MaxHeld,    \* bound: tensors the caller holds
    Stages      \* bound: the operations its first, second, ... may be taken from

(* structa refuses data of another length than its shape says. *)
ASSUME TapeAssumption ==
    /\ \A d \in Inputs :
          /\ d = [shape |-> d.shape, data |-> d.data]
          /\ d.shape \in Seq(Nat) /\ d.data \in Seq(Field \cup {NF})
          /\ Len(d.data) = Product(d.shape)
    /\ Shapes \subseteq Seq(Nat) /\ AxisLists \subseteq Seq(Int)
    /\ Ranges \subseteq Int \X Int

VARIABLES
    heap,    \* contents of every buffer
    held,    \* tensor descriptors the caller holds
    tape,    \* the nodes, in recording order, with their saved values
    grads,   \* the gradients of the last backward, or NoGrads
    written  \* the caller has written to a buffer

tapeVars == <<heap, held, tape, grads, written>>

NoGradient == [none |-> TRUE]
NoGrads == [loss |-> 0, ok |-> FALSE, g |-> <<>>]

UnaryOps == {"neg", "relu", "sqrt", "exp", "log", "gelu", "softmax", "summa", "media"}
BinaryOps == {"add", "sub", "mul", "div", "matmul", "crux"}

TapeInit ==
    /\ heap = <<>>
    /\ held = <<>>
    /\ tape = <<>>
    /\ grads = NoGrads
    /\ written = FALSE

-----------------------------------------------------------------------------
(* Recording.                                                              *)

ValueAt(i) == Read(heap, tape[i].value)
ParentValues(nodes) == Computed([j \in DOMAIN nodes |-> ValueAt(nodes[j])])

(* tape.softmax asserts rank at most one (debug builds) before it calls    *)
(* the tensor kernel; sectio materialises the view it takes.               *)
Forward(op, arg, ds) ==
    CASE op = "neg" -> neg(ds[1])
      [] op = "relu" -> relu(ds[1])
      [] op = "sqrt" -> sqrt(ds[1])
      [] op = "exp" -> exp(ds[1])
      [] op = "log" -> log(ds[1])
      [] op = "gelu" -> gelu(ds[1])
      [] op = "softmax" -> IF Len(ds[1].shape) > 1 THEN Panic ELSE softmax(ds[1])
      [] op = "summa" -> summa(ds[1])
      [] op = "media" -> media(ds[1])
      [] op = "add" -> addita(ds[1], ds[2])
      [] op = "sub" -> subtrahe(ds[1], ds[2])
      [] op = "mul" -> multiplica(ds[1], ds[2])
      [] op = "div" -> divide(ds[1], ds[2])
      [] op = "matmul" -> matmul(ds[1], ds[2])
      [] op = "crux" -> crux_entropia(ds[1], ds[2])
      [] op = "scala" -> scala(ds[1], arg)
      [] op = "forma" -> forma(ds[1], arg)
      [] op = "permute" -> permute(ds[1], arg)
      [] op = "sectio" ->
            IF ~SectioOK(ds[1], arg[1], arg[2]) THEN Err
            ELSE LET rest == row_major_strides(ds[1].shape)[1]
                 IN  Dense([ds[1].shape EXCEPT ![1] = arg[2] - arg[1]],
                           SubSeq(ds[1].data, arg[1] * rest + 1, arg[2] * rest))
      [] op = "layernorm" ->
            layernorm(ds[1], arg.axis, Epsilon,
                      IF arg.gamma THEN <<ds[2]>> ELSE <<>>,
                      IF arg.beta THEN <<Seqs!Last(ds)>> ELSE <<>>)

(* One copy for the tape and the caller. *)
record_shared(op, arg, parents, d) ==
    /\ heap' = heap \o <<d.data, d.data>>
    /\ tape' = Append(tape,
          [op |-> op, arg |-> arg, parents |-> parents, shape |-> d.shape,
           value |-> from_contiguous(Len(heap) + 1, d.shape),
           exposed |-> from_contiguous(Len(heap) + 1, d.shape)])
    /\ grads' = NoGrads
    /\ UNCHANGED <<held, written>>

(* record materialises twice: one copy is the tape's, one the caller's.    *)
record(op, arg, parents, d) ==
    /\ heap' = heap \o <<d.data, d.data>>
    /\ tape' = Append(tape,
          [op |-> op, arg |-> arg, parents |-> parents, shape |-> d.shape,
           value |-> from_contiguous(Len(heap) + 1, d.shape),
           exposed |-> from_contiguous(Len(heap) + 2, d.shape)])
    /\ grads' = NoGrads
    /\ UNCHANGED <<held, written>>

Ops == {i \in DOMAIN tape : tape[i].op # "leaf"}

(* Bounds of the caller's program: it builds its tensors, then records the *)
(* leaves in their order, then operations, the last on its latest value;   *)
(* before the first it may take views, until the second it may write once, *)
(* and then it stops.                                                      *)
Recording == ~written /\ \A i \in DOMAIN held : ~held[i].view

Structa(d) ==
    /\ Recording /\ tape = <<>>
    /\ Len(held) < MaxHeld
    /\ heap' = Append(heap, d.data)
    /\ held' = Append(held, from_contiguous(Len(heap) + 1, d.shape))
    /\ UNCHANGED <<tape, grads, written>>

TakeView(i, r) ==
    /\ ~written /\ Ops = {}
    /\ Len(held) < MaxHeld + 2
    /\ SectioOK(held[i], r[1], r[2])
    /\ held' = Append(held, sectio(held[i], r[1], r[2]))
    /\ UNCHANGED <<heap, tape, grads, written>>

(* A view is refused as a leaf: its buffer is not the tape's to read.      *)
leaf(i) ==
    /\ ~written /\ Ops = {}
    /\ i = Len(tape) + 1
    /\ ~held[i].view
    /\ record("leaf", 0, <<>>, Read(heap, held[i]))

(* An error of the kernel records nothing.                                 *)
recorded(op, arg, parents, d) == IsTensor(d) /\ record(op, arg, parents, d)

Apply(op, arg, parents) ==
    LET stage == Cardinality(Ops) + 1
    IN  /\ Recording /\ Len(tape) >= Len(held) /\ stage \in DOMAIN Stages
        /\ op \in Stages[stage]
        /\ stage = Len(Stages) => Seqs!Last(parents) = Len(tape)
        /\ recorded(op, arg, parents,
                    Forward(op, arg, ParentValues(parents)))

Unary == \E op \in UnaryOps, v \in DOMAIN tape : Apply(op, 0, <<v>>)
binary == \E op \in BinaryOps, v, w \in DOMAIN tape : Apply(op, 0, <<v, w>>)
Scala == \E f \in Factors, v \in DOMAIN tape : Apply("scala", f, <<v>>)
Forma == \E s \in Shapes, v \in DOMAIN tape : Apply("forma", s, <<v>>)
Permute == \E axes \in AxisLists, v \in DOMAIN tape : Apply("permute", axes, <<v>>)
Sectio == \E r \in Ranges, v \in DOMAIN tape : Apply("sectio", r, <<v>>)
Optional(given) == IF given THEN {<<v>> : v \in DOMAIN tape} ELSE {<<>>}
LayerNorm ==
    \E axis \in {0, 1}, gamma, beta \in BOOLEAN, v \in DOMAIN tape :
    \E g \in Optional(gamma), b \in Optional(beta) :
        Apply("layernorm", [axis |-> axis, gamma |-> gamma, beta |-> beta], <<v>> \o g \o b)

(* The caller writes through a descriptor it holds or was handed.          *)
Reachable == Range(held) \cup {tape[i].exposed : i \in DOMAIN tape}
WriteElement(t, x) ==
    /\ ~written /\ Cardinality(Ops) <= 1 /\ grads = NoGrads
    /\ written' = TRUE
    /\ heap' = reple(heap, t, x)
    /\ UNCHANGED <<held, tape, grads>>

-----------------------------------------------------------------------------
(* The backward pass.                                                      *)

Try(r, f(_)) == IF IsTensor(r) THEN f(r) ELSE r

(* The index of a parent that an index of the broadcast result read. *)
broadcast_parent_index(index, target) ==
    LET pad == Len(index) - Len(target)
    IN  [axis \in DOMAIN target |-> IF target[axis] = 1 THEN 0 ELSE index[axis + pad]]

(* autograd.rs has its own broadcast_shape: the two shapes broadcast to    *)
(* the one of the upstream gradient.                                       *)
BroadcastsTo(target, shape) ==
    /\ Len(target) <= Len(shape)
    /\ \A axis \in DOMAIN shape :
         LET pad == Len(shape) - Len(target)
             dim == IF axis <= pad THEN 1 ELSE target[axis - pad]
         IN  dim = shape[axis] \/ dim = 1

reduce_broadcast_gradient(up, target) ==
    IF ~BroadcastsTo(target, up.shape) THEN Err
    ELSE Dense(target, [k \in 1..Product(target) |->
            SumOver(up.data, {o \in DOMAIN up.data :
                FlatOffset(target, broadcast_parent_index(unravel_index(o - 1, up.shape), target)) = k - 1})])

scatter_axis0_gradient(up, target, start) ==
    IF \/ start < 0 \/ target = <<>> \/ Len(up.shape) # Len(target)
       \/ Tail(up.shape) # Tail(target)
       \/ start + Head(up.shape) > Head(target)
    THEN Err
    ELSE LET from == start * Product(Tail(target))
         IN  Dense(target, [k \in 1..Product(target) |->
                IF k - from \in DOMAIN up.data THEN up.data[k - from] ELSE 0])

inverse_permutation_axes(axes) ==
    [j \in DOMAIN axes |-> (CHOOSE i \in DOMAIN axes : axes[i] + 1 = j) - 1]

(* Ba et al.: dx of a slice of the normalised axis, from the gradient dyn  *)
(* of the values before gamma and beta.                                    *)
InputGradient(x, axis, dyn, y) ==
    LET n == x.shape[axis + 1] % P
        dyy == [k \in DOMAIN dyn |-> Times(dyn[k], y.data[k])]
    IN  Dense(x.shape, [k \in DOMAIN dyn |->
            LET slice == SliceOf(x.shape, axis, k)
                centred == Minus(Minus(Times(n, dyn[k]), SumOver(dyn, slice)),
                                 Times(y.data[k], SumOver(dyy, slice)))
            IN  Times(Over(InvStdAt(x, axis, Epsilon, k), n), centred)])

(* Gamma and beta have one entry for each index of the axis.               *)
AlongAxis(x, axis, f) ==
    Dense(<<x.shape[axis + 1]>>, [j \in 1..x.shape[axis + 1] |->
        SumOver(f, {k \in DOMAIN f : AxisIndex(x.shape, axis, k) = j - 1})])

layer_norm_vjp(arg, xs, dy, y) ==
    LET x == xs[1]
        Gamma(k) == IF arg.gamma THEN xs[2].data[AxisIndex(x.shape, arg.axis, k) + 1] ELSE 1
        Weighted(f(_)) == Computed([k \in DOMAIN x.data |-> Times(dy.data[k], f(k))])
    IN  <<InputGradient(x, arg.axis, Weighted(Gamma), y)>>
        \o (IF arg.gamma THEN <<AlongAxis(x, arg.axis, Weighted(LAMBDA k : y.data[k]))>> ELSE <<>>)
        \o (IF arg.beta THEN <<AlongAxis(x, arg.axis, dy.data)>> ELSE <<>>)

(* The products of the tape's operations, one for each parent in order;    *)
(* crux has none for its targets.  A parent that was broadcast gets the    *)
(* gradient summed back to its shape.                                      *)
BroadcastVjp(op, up, xs) ==
    LET Reduce(j, g) == Try(g, LAMBDA t : reduce_broadcast_gradient(t, xs[j].shape))
    IN  CASE op = "add" -> <<Reduce(1, up), Reduce(2, up)>>
          [] op = "sub" -> <<Reduce(1, up), Reduce(2, neg(up))>>
          [] op = "mul" -> <<Reduce(1, multiplica(up, xs[2])), Reduce(2, multiplica(up, xs[1]))>>
          [] op = "div" ->
                <<Reduce(1, divide(up, xs[2])),
                  Reduce(2, Try(divide(xs[1], xs[2]),
                                LAMBDA q : divide(neg(multiplica(up, q)), xs[2])))>>

PointwiseVjp(op, up, x, y) ==
    LET Mask(f(_)) == Dense(y.shape, [k \in DOMAIN y.data |-> f(k)])
    IN  CASE op = "neg" -> <<neg(up)>>
          [] op = "relu" ->
                <<Mask(LAMBDA k : Times(up.data[k], IF Positive(y.data[k]) THEN 1 ELSE 0))>>
          [] op = "sqrt" -> <<Mask(LAMBDA k : Over(up.data[k], Times(2, y.data[k])))>>
          [] op = "exp" -> <<multiplica(up, y)>>
          [] op = "log" -> <<divide(up, x)>>
          [] op = "gelu" -> <<Mask(LAMBDA k : Times(up.data[k], GeluD[x.data[k]]))>>

ShapeVjp(op, arg, up, xs) ==
    CASE op = "matmul" ->
            <<matmul(up, transpose_rank2(xs[2])), matmul(transpose_rank2(xs[1]), up)>>
      [] op = "scala" -> <<scala(up, arg)>>
      [] op = "forma" -> <<forma(up, xs[1].shape)>>
      [] op = "permute" -> <<permute(up, inverse_permutation_axes(arg))>>
      [] op = "sectio" -> <<scatter_axis0_gradient(up, xs[1].shape, arg[1])>>

ReductionVjp(op, up, xs, y) ==
    CASE op = "summa" -> <<crea(xs[1].shape, up.data[1])>>
      [] op = "media" -> <<crea(xs[1].shape, Over(up.data[1], Len(xs[1].data) % P))>>
      [] op = "softmax" ->
            <<multiplica(y, subtrahe(up, crea(up.shape, SumOf(multiplica(up, y).data))))>>
      [] op = "crux" ->
            <<scala(subtrahe(softmax(xs[1]), xs[2]), Over(up.data[1], Seqs!Last(xs[1].shape) % P))>>

Contributions(i, up) ==
    LET node == tape[i]
        xs == ParentValues(node.parents)
        y == ValueAt(i)
    IN  CASE node.op = "leaf" -> <<>>
          [] node.op \in {"add", "sub", "mul", "div"} -> BroadcastVjp(node.op, up, xs)
          [] node.op \in {"neg", "relu", "sqrt", "exp", "log", "gelu"} ->
                PointwiseVjp(node.op, up, xs[1], y)
          [] node.op \in {"matmul", "scala", "forma", "permute", "sectio"} ->
                ShapeVjp(node.op, node.arg, up, xs)
          [] node.op = "layernorm" -> 
                layer_norm_vjp(node.arg, xs, up, Normalised(xs[1], node.arg.axis, Epsilon))
          [] OTHER -> ReductionVjp(node.op, up, xs, y)

(* A slot that keeps only the last gradient it is given. *)
KeepLast(acc, id, gradient) ==
    IF ~acc.ok \/ ~IsTensor(gradient) THEN [acc EXCEPT !.ok = FALSE]
    ELSE IF gradient.shape # tape[id].shape THEN [acc EXCEPT !.ok = FALSE]
    ELSE [acc EXCEPT !.g[id] = gradient]

(* One slot of AutogradGradients: the first gradient fills it, later ones  *)
(* are added; a gradient of another shape refuses the whole pass.          *)
accumulate(acc, id, gradient) ==
    IF ~acc.ok \/ ~IsTensor(gradient) THEN [acc EXCEPT !.ok = FALSE]
    ELSE IF gradient.shape # tape[id].shape THEN [acc EXCEPT !.ok = FALSE]
    ELSE [acc EXCEPT !.g[id] = IF @ = NoGradient THEN gradient ELSE addita(@, gradient)]

AccumulateAll(acc, parents, gradients) ==
    Seqs!FoldLeftDomain(LAMBDA a, j : accumulate(a, parents[j], gradients[j]), acc, gradients)

Visit(acc, i) ==
    IF ~acc.ok \/ acc.g[i] = NoGradient THEN acc
    ELSE AccumulateAll(acc, tape[i].parents, Contributions(i, acc.g[i]))

backward(loss) ==
    LET n == Len(tape)
        empty == [loss |-> loss, ok |-> TRUE, g |-> [i \in 1..n |-> NoGradient]]
    IN  /\ Recording
        /\ tape[loss].shape = <<>>
        /\ grads' = Seqs!FoldLeft(LAMBDA acc, i : Visit(acc, i),
                             accumulate(empty, loss, Dense(<<>>, <<1>>)),
                             [k \in 1..n |-> n + 1 - k])
        /\ UNCHANGED <<heap, held, tape, written>>

-----------------------------------------------------------------------------
TapeNext ==
    \/ \E d \in Inputs : Structa(d)
    \/ \E i \in DOMAIN held, r \in Ranges : TakeView(i, r)
    \/ \E t \in Reachable : WriteElement(t, 2)
    \/ \E i \in DOMAIN held : leaf(i)
    \/ Unary
    \/ binary
    \/ Scala
    \/ Forma
    \/ Permute
    \/ Sectio
    \/ LayerNorm
    \/ \E i \in DOMAIN tape : backward(i)

TapeSpec == TapeInit /\ [][TapeNext]_tapeVars

-----------------------------------------------------------------------------
(* Reference: forward-mode differentiation of the recorded program.        *)

(* The cross-entropy is differentiated without the LogEps in its           *)
(* logarithm: the derivative of - SumOf(t * log(softmax)) / N.             *)
CrossEntropyTangent(soft, sdx, dx, targets) ==
    LET Row(k) == SliceOf(soft.shape, Len(soft.shape) - 1, k)
        ds(k) == Times(soft.data[k], Minus(dx.data[k], SumOver(sdx, Row(k))))
        terms == [k \in DOMAIN sdx |-> Times(targets.data[k], Over(ds(k), soft.data[k]))]
    IN  Dense(<<>>, <<Over(Minus(0, SumOf(terms)), Seqs!Last(soft.shape) % P)>>)

Centred(x, axis) == [k \in DOMAIN x.data |-> Minus(x.data[k], MeanAt(x, axis, k))]

(* The derivative of dev * inv, inv = (variance + epsilon)^(-1/2).         *)
NormTangent(x, axis, dev, ddev, inv) ==
    LET n == x.shape[axis + 1] % P
        dVar(k) == SumOver([j \in DOMAIN dev |-> Over(Times(2, Times(dev[j], ddev[j])), n)],
                           SliceOf(x.shape, axis, k))
        dInv(k) == Over(Minus(0, Times(dVar(k), Times(inv[k], Times(inv[k], inv[k])))), 2)
    IN  [k \in DOMAIN dev |-> Plus(Times(ddev[k], inv[k]), Times(dev[k], dInv(k)))]

AffineTangent(arg, xs, dxs, norm, dnorm) ==
    LET At1(d, k) == d.data[AxisIndex(norm.shape, arg.axis, k) + 1]
        Scaled(k) == IF ~arg.gamma THEN dnorm[k]
                     ELSE Plus(Times(dnorm[k], At1(xs[2], k)), Times(norm.data[k], At1(dxs[2], k)))
    IN  Dense(norm.shape, [k \in DOMAIN dnorm |->
            Plus(Scaled(k), IF arg.beta THEN At1(Seqs!Last(dxs), k) ELSE 0)])

Tangent(op, arg, xs, y, dxs) ==
    LET Each(f(_)) == Dense(y.shape, [k \in DOMAIN y.data |-> f(k)])
        dx == dxs[1]
    IN  CASE op \in {"neg", "summa", "media", "scala", "forma", "permute", "sectio", "add", "sub"} ->
                Forward(op, arg, dxs)
          [] op = "mul" -> addita(multiplica(dxs[1], xs[2]), multiplica(xs[1], dxs[2]))
          [] op = "matmul" -> addita(matmul(dxs[1], xs[2]), matmul(xs[1], dxs[2]))
          [] op = "div" -> divide(subtrahe(dxs[1], multiplica(y, dxs[2])), xs[2])
          [] op = "relu" -> Each(LAMBDA k : IF Positive(xs[1].data[k]) THEN dx.data[k] ELSE 0)
          [] op = "sqrt" -> Each(LAMBDA k : Over(dx.data[k], Times(2, y.data[k])))
          [] op = "exp" -> multiplica(y, dx)
          [] op = "log" -> Each(LAMBDA k : Over(dx.data[k], xs[1].data[k]))
          [] op = "gelu" -> Each(LAMBDA k : Times(GeluD[xs[1].data[k]], dx.data[k]))
          [] op = "softmax" ->
                Each(LAMBDA k : Times(y.data[k], Minus(dx.data[k], SumOf(multiplica(y, dx).data))))
          [] op = "crux" ->
                CrossEntropyTangent(softmax(xs[1]), multiplica(softmax(xs[1]), dx).data, dx, xs[2])
          [] op = "layernorm" ->
                AffineTangent(arg, xs, dxs, Normalised(xs[1], arg.axis, Epsilon),
                    NormTangent(xs[1], arg.axis, Centred(xs[1], arg.axis), Centred(dx, arg.axis),
                        [k \in DOMAIN y.data |-> InvStdAt(xs[1], arg.axis, Epsilon, k)]))

Derivative(leafId, e, loss) ==
    LET dot[i \in DOMAIN tape] ==
            LET node == tape[i]  y == ValueAt(i)
            IN  IF node.op = "leaf"
                THEN Dense(y.shape, [k \in DOMAIN y.data |-> IF i = leafId /\ k = e THEN 1 ELSE 0])
                ELSE Tangent(node.op, node.arg,
                             ParentValues(node.parents), y,
                             Computed([j \in DOMAIN node.parents |-> dot[node.parents[j]]]))
    IN  dot[loss].data[1]

(* The targets of a cross-entropy are constants to the tape, and its VJP   *)
(* is (softmax - targets) / N: without LogEps, the derivative for targets  *)
(* that sum to one in every row.                                           *)
Targets == {tape[i].parents[2] : i \in {j \in DOMAIN tape : tape[j].op = "crux"}}
TargetsConstant ==
    \A t \in Targets :
        /\ tape[t].op = "leaf"
        /\ \A i \in DOMAIN tape : t \in Range(tape[i].parents) =>
              tape[i].op = "crux" /\ tape[i].parents[1] # t
        /\ LET d == ValueAt(t)
           IN  \A k \in DOMAIN d.data : SumOver(d.data, SliceOf(d.shape, Len(d.shape) - 1, k)) = 1
RootsSmooth ==
    \A i \in DOMAIN tape : tape[i].op = "sqrt" => 0 \notin Range(ValueAt(i).data)

-----------------------------------------------------------------------------
(* Whatever the program recorded, the pass succeeds and the gradient of    *)
(* every leaf element is the derivative of the loss by that element,       *)
(* summed over every path (forward-mode differentiation is the reference). *)
(* Of a cross-entropy it is the derivative of the loss without the 1e-7 of *)
(* its logarithm, which the forward pass adds and the backward leaves out. *)
GradientIsDerivative ==
    (grads # NoGrads /\ TargetsConstant /\ RootsSmooth) =>
        /\ grads.ok
        /\ \A i \in (DOMAIN tape \ Ops) \ Targets :
              \A e \in 1..Product(tape[i].shape) :
                 Derivative(i, e, grads.loss) =
                    IF grads.g[i] = NoGradient THEN 0 ELSE grads.g[i].data[e]

(* Every saved value is still the operation applied to the saved values of *)
(* its parents: no write of the caller, through any tensor, clone, view or *)
(* exposed value, reaches the tape's history.                              *)
TapeReplays ==
    \A i \in Ops :
        LET node == tape[i]
        IN  Forward(node.op, node.arg, ParentValues(node.parents))
              = ValueAt(i)

(* Every offset a descriptor can produce lies in its buffer, whatever      *)
(* chain of views it was cut through: no read or write panics.             *)
DescriptorsInBounds ==
    \A t \in Reachable \cup {tape[i].value : i \in DOMAIN tape} :
        \A o \in Range(logical_offsets(t)) : o \in 0..(Len(heap[t.buf]) - 1)

(* Sharing a buffer hurts nobody: whatever the caller writes, and through  *)
(* whatever chain of views, the history of the tape replays and no         *)
(* descriptor leaves its buffer.                                           *)
BuffersSound == TapeReplays /\ DescriptorsInBounds
=============================================================================
