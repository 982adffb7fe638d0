# A TLA+ development of faber-runtime

`faber-runtime` is the Rust crate (`use faber::...`) that generated Faber programs
link against: values and their conversions, the `ad` conversation frames, a
generational arena, and the runtime side of distributed and inference execution
(devices, partitions, plans, transactions, sessions). This directory models the
parts of it that keep state and interact, checks them with TLC on small
instances, and proves the properties that matter most with TLAPS.

All paths below are relative to the repository; the crate's sources are in
`src/`, so `src/src/frame.rs` in `PROJECT.json` is `src/frame.rs` of the crate.

## 1. The system

| Part | State | Operations | Interacts with | What is hard |
| --- | --- | --- | --- | --- |
| Execution transaction (`execution_transaction/`) | a state machine New, Prepared, Executing, Committed, Failed, Aborted; the accepted plan; the reservation; staged writes, executed operations, completed events; a receipt | `new`, `prepare`, `execute`, `execute_operation`, `commit`, `abort` | calls the device-execution backend, one trait call at a time | partial failure of multi-partition steps, completion events that join late, atomic publication, teardown after any failure |
| Device-execution backend (`backend.rs`, `fake_device.rs`) | reservations, staged writes and their byte total, dispatched and completed events, the committed snapshot | `reserve`, `run_operation`, `event_completed`, `stage_write`, `publish`, `release`, `retire` | shared by every transaction of a program | state that leaks from one transaction to the next, exact byte accounting |
| Conversation frames (`frame.rs`) | a frame queue under one mutex with a condition variable and a list of wakers; a response lease under a second mutex with a count of live senders; a cancellation flag | `sermo_recv`, `sermo_recv_async`, the materializers, `tuus_accipe`, `tuus_fini`; `ResponseSender::send`, clone, drop; `HostDispatch::start` | producer threads, blocking threads and async tasks share the stream | two mutexes, lost wake-ups, cancellation races, self-deadlock at the start |
| Inference session (`session.rs`) | a sequence's token history, position, KV generation count | `SequenceState::commit` of a `TokenCommit` | commits what an invocation's transaction computed | stale positions, lost acknowledgements, resubmission |
| Generational arena (`arena.rs`) | slots with generations and a free list threaded through them | `insert`, `get`, `get_mut`, `remove`, `contains` | handles held by users for ever | stale handles, wrapping generations, free-list corruption |
| Devices, partitions and bound plans (`device_identity.rs`, `discovery.rs`, `device_set.rs`, `partition.rs`, `bound_plan.rs`) | discovery samples and the health epoch, device sets, partitions with a byte ledger and a state, the admitted logical plan, the bound plan | `change_against`, `advance`, `resolve`, `validate`, `admit`, `record_failure`, `teardown`, `bind` | produce what a transaction prepares against | samples, sets and partitions used long after they were taken; sums at the end of u64; checks that rely on checks made elsewhere |
| Transport (`transport.rs`) | staging pool, budget used, measured rates, records, the registry of measured pairs | `copy` of the host-staged and the peer adapter, `record_fixture_measurement`, `select_copy_path` | moves the transfers of a transaction; its receipt is attached to the transaction's | failure between allocation and release, prices that change under a budget, ranges at the end of u64 |
| Placement policy and links (`policy.rs`, the topology half of `device_set.rs`) | none | gates and ranking of candidate placements | reads selections, samples and topology | gates on stale epochs and links, order of refusals, ties |
| Builtin routes (`frame.rs`) | the file system and the environment | `solum:*`, `processus:lege`/`scribe`, `aleator:sortire` | answer a conversation's request; read back through the materializers | links, two-step touches, readings of one file that must agree |
| Tensors and autograd (`tensor.rs`, `autograd.rs`) | buffers shared through `Arc` by clones and views; a tape of recorded operations | views, kernels, `record`, `backward` | the tape copies what it records | writes after recording, gradients over several paths, broadcasting |
| Model files and quantization (`gguf.rs`, `quantized_tensor_layout.rs`, `tensor_view.rs`, `dequant.rs`, `packed_numeric.rs`) | an admitted file, its view, the dequantised tensors and receipts | `admit`, `build`, `dequant_tensor`, `for_tensor`, block kernels | feed the reference decoder | sizes from an untrusted file, duplicated gates, bit layouts |
| Tokenizer (`tokenizer/`) | vocabulary and ranks; a queue of merges | `new`, `encode` | feeds prompts to the decoder | a list that grows under its loop, stale queue entries |
| Reference decoder (`cpu_oracle.rs`, `decoder_ops.rs`, `greedy_run.rs`, `prefill.rs`) | cached keys and values, logits | `forward_one`, `push_token`, `run_greedy`, the comparisons | commits go to a session | cached against batch results, ties and NaN in verdicts |
| Intervals, sparse tensors (`intervallum.rs`, `sparsa.rs`) | two bounds; a map of entries | algebra, walks; reads, writes, conversions | reached through the LLVM host | ends of the type, defaults written over entries |
| LLVM host (`hosts/llvm`) | the context: arrays, maps, sets, options, kept until shutdown | a C ABI over the runtime | compiled programs | equality of texts by bytes or pointer, NaN, refused handles |
| Values (`valor.rs`, `json.rs`, `instans.rs`, ...) | none | conversions | - | boundary cases of pure functions |

`PROJECT.json` lists every part with its status, and under `hazards` the places
where this code can go wrong in ways a test would hardly reach, each with the
properties that would show it.

## 2. The modules

| Module | Models | Uses |
| --- | --- | --- |
| `TransactionMirror` | `mirror.rs`, `reservation.rs`: operations, what they write, complete and reserve, and the five validations of `prepare` | - |
| `ExecutionBackend` | `backend.rs`, `fake_device.rs`: what each trait method does to the backend | extends `TransactionMirror` |
| `ExecutionTransaction` | `transaction.rs`: the coordinator, and several transactions on one backend | extends `ExecutionBackend` |
| `AtomicPublication` | the contract: a transaction offers writes, one is active at a time, it publishes all or nothing | instantiated by `ExecutionTransaction` |
| `Conversation` | `frame.rs`: consumers, producers, both mutexes, the waiting and the waking | - |
| `HandleStore` | the contract of an arena: a handle is given out once and names its value until it is removed | instantiated by `Arena` |
| `Arena` | `arena.rs` | - |
| `SequenceState` | `session.rs`: overlapping invocations and the commits they submit | - |
| `Admission` | `device_identity.rs`, `discovery.rs`, `device_set.rs`, `partition.rs`, `bound_plan.rs`: from a changing machine to a bound plan | - |
| `Transport` | `transport.rs`: validation, copies, budget, staging, rates | - |
| `Lists` | what `Vec::retain`, a filtering loop and a sort make of a list | extended by `Materialize`, `Policy`, `Tensor`, `HostCollections` |
| `Materialize` | `frame.rs`: what each materializer makes of the frames it received | extended by `Conversation` and `Routes` |
| `Routes` | `frame.rs`: the builtin routes, their frames and effects | extends `Materialize` |
| `Policy` | `policy.rs`, links and topologies of `device_set.rs` | extends `Admission`, `Lists` |
| `Tensor` | `tensor.rs`: descriptors over shared buffers, kernels | - |
| `Autograd` | `autograd.rs`: recording, the reverse pass, every vector-Jacobian product | extends `Tensor` |
| `Collections` | the contract of tables, sets and lists | instantiated by `HostCollections` |
| `HostCollections` | `hosts/llvm`: `array.rs`, `array_numeric.rs`, `collection_map.rs`, `option.rs` | - |
| `Intervallum`, `Sparsa` | `intervallum.rs` and `sparsa.rs`, of the crate and of the host | - |
| `ModelFile` | `gguf.rs`, `quantized_tensor_layout.rs`, `tensor_view.rs`, the gates of `dequant.rs` | - |
| `Dequant` | the block kernels of `dequant.rs`, `packed_numeric.rs` | - |
| `Tokenizer` | `tokenizer/mod.rs`, `bpe.rs`, the splitter of `pretoken.rs` | - |
| `Decoder` | `cpu_oracle.rs`, `decoder_ops.rs`, `greedy_run.rs`, the comparison of `prefill.rs` | - |
| `MCTransaction`, `MCConversation`, `MCAdmission`, `MCTransport`, `MCRuntime`, `MCInference` | instances for TLC; the last two join components that share no state, one per behaviour | the modules above |
| `ExecutionTransaction_proofs`, `Transport_proofs`, `HostCollections_proofs` | theorems and their proofs | the component |
| `Admission_proofs` | the same, of `Admission` and `Policy` | both |
| `Conversation_proofs` | of `Conversation` and `Routes` | both |
| `Inference_proofs` | of `SequenceState`, `ModelFile`, `Decoder`, `Dequant` | all four |
| `Values_proofs` | of `Arena`, `Intervallum`, `Sparsa`, `Tensor` and `Autograd` | all five |
| `Lists_proofs` | lemmas about counting, folds and `Lists`, for the others | `Lists` |

Correspondence with the code, where it is not literal:

* **Transactions.** The coordinator's calls take `&mut dyn DeviceExecutionBackend`,
  so a call excludes every other one; each is one action. `execute` runs a whole
  plan: its loop is one `ExecuteNext` per operation with all other calls locked
  out (`InCall`), so that devices may complete events in between. A prepare that
  is refused reserves the partitions below the refused one, in the `BTreeMap`'s
  order. `holder` and the `by` field of a write name the transaction that made
  them; the code has no such field and no guard reads them. Fault classes
  (cancel, timeout, loss, ...) lead to the same transition and are one fault per
  trait call (`FaultPoints`). Bytes are u64: the sums of a reservation and the sum
  that `retire` takes off wrap at `MaxU64`, the backend's running total saturates.
  That is the build without overflow checks; with them such a plan panics in
  `prepare` before anything is changed. `complete_event` takes any event, and a
  device of the model completes only what was dispatched.
* **Conversations.** A critical section that cannot block is one action. A thread
  that keeps a mutex while it asks for the other one, or while it starts the
  dispatch, is named in `lock` or `termLock`. `send` is three steps (test of the
  cancellation, choice under `terminal_sent`, push under the state mutex), `poll`
  is up to three. A materializer is the operator of `Materialize` for its type,
  applied to the payloads received. `role` says who consumes and
  how; it is chosen initially, so one run covers several set-ups.
* **Arena.** Slots are numbered from 1 and 0 is `None`. Generations are
  `Generations` values that wrap, as the code's 2^32 do.
* **Sequences.** A token commit's boundary is whether it is empty, the only thing
  the code asks of it.
* **Admission.** The crate has no probe loop: `Probe` is a host that follows the
  rule of `DeviceHealthGeneration` (advance on an observed change, here of
  presence or, by `change_against`, of identity) and keeps every sample it took.
  `Replug` is the machine. `since` remembers the epoch of a selection for
  `SelectionIsCurrent`; the code keeps none and no guard reads it. `bind` uses the
  partition itself where the code is given a clone of it.
* **Transport.** A copy is one step (`&mut self`) with a chosen fate; its sleeping
  and its clock are not modelled. `checked` is the build: with overflow checks a
  range whose end is no u64 panics in the validation, without them the end wraps,
  the validation may accept it and the slicing panics with the staging buffer in
  flight. A copy allocates a buffer and has a path for each way to leave
  `run_staged_copy`: a failure releases it and returns, a panic keeps it, and any
  other copy releases it before its time is judged. After a panic the model stops.
  The peer adapter's `copy` returns an error on every path, so nothing but its
  validation shows in the model.
* **Tensors and the tape.** f32 arithmetic is exact arithmetic modulo a prime, in
  which the algebraic identities of differentiation hold and rounding does not
  exist; infinities and NaN are one absorbing value; exp, log, square roots and
  gelu are tables, gelu's derivative a second one. `Unit` are the elements that
  stand for numbers from zero to one (with 3 for two thirds and 5 for one third,
  modulo 7), `LogEps` is the 1e-7 `crux_entropia` adds inside its logarithm. Its
  reverse pass, (softmax - targets) / N, takes no account of it:
  `GradientIsDerivative` says that this is the derivative of the loss without the
  1e-7, for targets that sum to one in each row. A descriptor keeps buffer,
  shape, strides and offset as in the code, the heap maps buffers to contents,
  and the caller may write to whatever it holds at any time.
* **Routes.** A path is a sequence of names. One call of `std::fs` is one step, so
  `solum:tange` is three: the test, the creating open, and the open to set the times,
  which fails if the file has gone. The routes that only read are operators, and the
  properties call them in every state reached by the ones that write. A byte that no
  UTF-8 text has is a negative number: `read_to_string` refuses a file with one
  (`HoldsText`), the routes for bytes do not. `text.lines()` takes a carriage return
  away with the newline after it (`Lines`). `processus:scribe` is modelled for names
  that `set_var` takes; it panics on an empty name and on one with `=` or NUL. The file
  system itself is external and modelled by what the routes ask of it.
* **Intervals and sparse tensors.** A span saturates in its own type and is cast to
  an i64, which a u64 may exceed; one more is added with saturation (`longitudo`).
  The count of a shape's elements is a function of `tensor.rs`, a product taken from
  the first axis on; where it passes usize the dense form is refused
  (`CountOverflows`). A count that usize holds and memory does not would abort in
  `Vec::with_capacity`; memory is not modelled.
* **Host collections.** A handle is the place of its object; a text pointer and the
  text's bytes are different things (`Bytes`). Refused calls change nothing. `retain`
  and `filter` keep the values at the places that pass (`Kept`), `push_unique` over a
  list is `Unique`, and a sort is the permutation of the values that is in order and
  keeps equal ones as they were (`Before`).
* **Model files.** A file is a record of its fields in file order, with the bytes
  each entry takes, so that cursors and ranges are numbers as in the code; u64
  ends at `Top`. Any file with the digest "pinned" stands for the pinned one. The
  ways a key-value pair can fail to parse are one refusal.
* **Blocks.** The kernels of `dequant.rs` run on symbolic bits: bit i of byte k is
  the label `<<k, i>>`, and shifts, masks and ors move labels. What a kernel
  computes is then checked for every block at once. `DequantsAreExact` covers every
  half pattern, where the run covers some of every exponent.
* **Tokenizer.** Characters have a class and a sequence of display symbols; the
  tables of `pretoken.rs` are represented by the class. Merges and the splitter
  are the code's loops; the references are the textbook greedy merge and the
  documented expression. The ceilings on the length of a token's or a merge's
  string and on the number of specials are left out.
* **Decoder.** A row of f32 is the term of the operations that made it, in their
  order, so equal terms are equal bytes. Logits are numbers for the comparisons.
  `topk_ids` may return any order where its comparison is not total, and might
  panic there too, which the model leaves out.

## 3. The runs

| Run | Instance | Shows |
| --- | --- | --- |
| `transaction` | 2 transactions, 2 partitions, 5 plans with all kinds of operations, a boundary of two parts and bytes whose sum wraps (`MaxU64` is 15), a fault possible at every trait call | `ReservationsExclude`, `TeardownComplete`, `StagingAccounted`, `CommittedRanItsPlan`, refinement of `AtomicPublication`; under fairness `ExecutingEnds`: a missing boundary is transient |
| `transaction_leak` | 2 transactions on overlapping plans | **violation** of "on any failure nothing is reserved": a refused `prepare` keeps the partitions it got |
| `transaction_disjoint` | 2 transactions on 2 plans that share no partition | **violation** of "staged writes never leak": the commit of one publishes what the other has staged so far |
| `conversation_safety` | an awaiting consumer and `tuus_fini`; 2 producers that may quit; a dispatch that may refuse | `TerminalIsLast`, `SendersSound` (exact sender count, a cancellation that bites); under fairness `OpenConversationEnds`: once the starter has left the critical section, the terminal frame comes, whoever quits, is refused or drops last |
| `conversation` | 4 set-ups: a blocking consumer with every materializer and 2 producers; an awaiting one with two calls; a blocking one beside `tuus_fini`; two blocking ones and a view | `SuccessIsComplete`, `DrainedIsFinal`, `PendingIsRegistered`, and under fairness `ReceiveReturns` |
| `conversation_lost_wake` | an awaiting consumer beside a view | **violation**: a poll returns Pending without registering |
| `conversation_refused` | a dispatch that refuses, or whose producer is already gone | **violation**: the starter waits for the mutex it holds and the conversation never ends |
| `runtime` | arena: 5 insertions, 6 generations. Tape: programs of 3 operations over 20 kinds modulo 7, 2 tensors held and written at any time. Host: 3 text pointers to 2 texts, NaN, 3 objects of 3 cells. Intervals: every pair over two types of 6 values. Sparse: 7 shapes, one with more elements than `MaxUsize`, 3 writes. Routes: an empty file system and 2 with links, lines with both breaks and a byte of no text, 2 requests and a touch | `FreeListExact`, `KeepsHandlesApart`; `GradientIsDerivative`, `BuffersSound`; `ImplementsCollections`, `QueriesAgree`; `IntervalsSound`; `SparseIsDense`; `RoutesAgree` |
| `inference` | sequences: 3 invocations, 2 submissions each. Files: the pinned one and those that differ from it in header, size, one or two keys or tensors. Blocks: symbolic, and halves of every exponent. Texts: all up to 3 characters over 7 classes, all up to 5 over two letters. Decoder: 2 layers, 4 heads on 2, prompts and 3 tokens | `AppliedOnce`, `OneOwnerPerPosition`, `AnswersAgree` (a success is published, a lost acknowledgement can be had again); `AdmittedIsWhole`, `ReceiptIffWeights`; `DequantExact`; `EncodingIsBpe`; `IncrementalIsBatch`, `VerdictsReal` |
| `tokenizer_specials` | the texts of `inference` | **violation**: a special token's text is left in a raw fragment |
| `admission` | 3 devices that take turns at 2 ordinals, 2 logical partitions, 1 virtual one, 3 ledgers of which one wraps to zero, 7 plan requests, 3 lists of candidates: for each gate and each fact it tests one that it alone rejects, and one submitted twice | `SelectionIsCurrent`, `PlanIsCurrent`, `AdmittedWithinLimit`, `NoPanic`, `PlacedAsDeclared`, `RankingSound` |
| `transport` | 8 transfers within, at and past the end of 4-byte contents, one of which wraps; 4 copies, 2 measurements, both builds | `BudgetHolds`, `ReceiptAddsUp`, `LandedAsDeclared` |

The bounds are named constants. Two transactions suffice for the properties of
exclusion and leakage, which are about a pair; two partitions give a first and a
second reserve, stage and retire, the cases of a partial step. `MaxDispatch`
lets an operation be dispatched by hand after `execute` did. Two producers are
one original and one clone; one content frame each makes a payload, a terminal
and a late frame possible. With three invocations two may race for a position
while the third has moved the sequence on. Five insertions reuse a slot while
others are live or free. Two changes of the machine and three probes give a
replacement that is observed before, between and after the uses of a sample.
Four copies with two measurements exhaust both halves of the budget and price
copies at three rates, one of them zero and one saturated. Three recorded
operations make a diamond (a node used twice) behind any operation, and end in a
scalar. Three host objects are two operands and a result. Two routes after an
initial file system with links, and a touch taken in three steps, reach a file
through every kind of link before and after it is replaced. Nine characters are
more than the longest run of stale queue entries the merges can make; two layers
and two cached positions are the least that tell a layer's cache from another's.

Deadlock is not checked where the system may stop: transactions end, a
conversation is over, the insertions, probes, copies, requests or calls of the bound
are used up.

**Fairness.** `ExecutionTransaction!Fairness` asks that `execute` finishes its loop
(it is a loop in one call), that the devices complete what was dispatched, and
that a coordinator whose commit met a missing boundary calls it again, as the
doc of `commit` tells it to. `Conversation!Fairness` asks that a running producer
goes on, that a thread whose mutex is free gets it and that the executor polls a
task whose waker was called: this is the scheduler's, and a producer that holds a
handle sends or drops it in the end. Calling again, dropping a future, cloning and
cancelling are never required. `OpenConversationEnds` has the state mutex free as a
premise: a starter that blocks on the mutex it holds never frees it
(`conversation_refused`), and no scheduling helps.

**Each property can fail.** For every property of a passing run `PROJECT.json`
names a mutant: an operator defined beside the original that has a plausible
bug, with which TLC finds the property violated.

### Disagreements between code and docs

Five are runs with an expected violation (above) and `findings`. More were met
while modelling and are not runs of their own:

* `state_machine.rs:61` says there is no re-execution path once the machine
  leaves `Prepared`; `execute_operation` is public and accepts any operation of
  the snapshot while Executing, so a barrier can be dispatched twice. The model
  has it (`ExecuteOperation`), and the properties of run `transaction` hold with it.
* `tuus_fini` records Done when no terminal has arrived (`frame.rs:620`), where
  the field is documented as the observed terminal. `DrainedIsFinal` therefore
  excludes set-ups with `tuus_fini`.
* `arena.rs:127` calls a removed handle permanently stale; generations wrap. The
  theorem `RemovedStaysStale` says how long it is true.
* `transport.rs:1187` says a bounds mismatch is rejected before copy, and 1348 that
  staging is released on every path; a range whose end overflows u64 panics
  instead (`ByteRange::end` adds unchecked), in a release build with its staging
  buffer in flight. The theorem `PanicIsOverflow` says that this is the only such range.
* `transaction.rs:198` says that an over-commit of the admitted budgets fails
  `prepare`. The sums it compares wrap (`reservation.rs:107`, 133-156): in a build
  without overflow checks a plan of two launches of 2^63 bytes is accepted, and its
  staging saturates the backend's total (`backend.rs:314`), which a later retirement,
  whose own sum wraps (`backend.rs:353`), does not bring back to what is staged. Run
  `transaction` has such a plan (`Wrapping`); `StagingAccounted` has the absence of
  a wrap as its hypothesis.
* The doc of `SequenceState::commit` speaks of a *reached* boundary; the code
  tests that the boundary is not empty.
* *Routes.* `solum:exscribe` of a file onto itself empties it and answers Done.
  `solum:tange` truncates a file that appears between its test and its open.
  `solum:modus` returns the whole `st_mode` with its type bits, which
  `solum:modum` refuses to set back.
* *Intervals.* The union of two empty exclusive intervals with consecutive bounds
  never returns (`IntervalsSound` excludes it); a union with an empty operand is
  None or Some by its position; `longitudo` is documented as the cardinality of
  `ad_lista` (`intervallum.rs:249`), but saturates for wide signed spans and for
  2^63 points, and is negative for a span in the upper half of u64.
* *Collections of the host.* `set_from_array` of a pointer array removes duplicates
  by pointer and `array_contains` compares texts by pointer, where maps and sets
  compare bytes; `array_from_set` keeps the kind of its elements where `map_keys`
  canonicalises it.
* *Sparse.* The sign of zero is lost by a conversion.
* *Tensors.* `Tensor::softmax` panics on rank zero; the tape's softmax of a higher
  rank is excluded by a debug assertion only; the gradient of `crux_entropia` is
  the derivative only for targets that sum to one, and of the loss without the 1e-7
  that the forward pass adds inside its logarithm.
* *Decoder.* `attention_causal` groups heads by `h % n_kv_heads` where
  `attention_gqa` uses `h / ratio`. `f32_to_f16_rn` becomes infinite from 131040 on
  where its doc says 65520, and its debug assertion fails just below 2^-14.
  `max_band_deviation` drops NaN; `topk_ids` sorts with an order that is not total
  on it. `LayerWeights::build` rounds F32 norms its comment calls untouched.
* *Model files.* Padding is not counted in the data length, so admission accepts
  files whose view is refused; an empty tensor with a declared repack is
  dequantised although no receipt can be given for it; `TensorView::build` checks
  the length of its buffer, not the digest it reports.
* *Policy.* Memory is checked for each assignment alone, transfers may name devices
  outside the selection, and the declared total is not compared with the sum.
* *KV cache and prefill.* `kv_cache.rs` multiplies unchecked where its doc says None
  on overflow; the docs of `prefill.rs` count other kernels than the code builds.

## 4. The proofs

The theorems hold for every value of the constants that satisfies the named
`ASSUME`s: any number of transactions, partitions, plans, consumers, producers,
invocations, slots, objects, files. The assumptions say what the inputs are
(`PlansAssumption`: a plan is a sequence of operations with sizes, on partitions
that exist; `PlanAssumption`: finitely many partitions, three kinds of constraint;
`KindsAssumption`, `DistinctAssumption`: materializers and names; `ValueKindsAssumption`:
the four kinds of host values; `FilesAssumption`: tables as long as the header says;
`PinnedAssumption`: the pinned size is not at the end of u64; `PolicyAssumption`: candidates are lists of plans, links have the fields of
`DirectedLink` and the total budget, if there is one, is a number of bytes;
`ShapeAssumption`, `LogitsAssumption`: the heads are shared out evenly and logits
are as long as the vocabulary; `TypesAssumption`: a type's least value is not above
its largest, and it is no wider than an i64 or a u64; `SparseAssumption`, `TapeAssumption`: shapes and indices are lists of
integers and an input is as long as its shape says; `FieldAssumption`: the modulus of the
exact arithmetic is prime; `PathAssumption`, `RoutesAssumption`: finitely many paths,
each below one of them, texts that are UTF-8 and bytes that need not be, within
the bound on the length of a file, and file systems in which
what is there lies in a directory; `HalvesAssumption`: a half has 16 bits). TLC
evaluates each.

Some theorems have a hypothesis of their own, in their statement or in the property
they state. Each is a condition outside which the conclusion is false, and a run or
a remark shows it:

| Hypothesis | Theorems | Outside of it |
| --- | --- | --- |
| `PlansMeet`: any two plans refer to a common partition | `StagingExact`, `AtomicallyPublishes` | run `transaction_disjoint`: two transactions in flight at once, and `publish` takes the whole staging area |
| `AwaitsAlone`: nobody receives beside a consumer that awaits | `NoLostWake` | run `conversation_lost_wake` |
| `MaxInserts < Generations` | `RemovedStaysStale`, `ArenaKeepsHandlesApart` | a generation wraps and a removed handle is live again |
| `StagingFits`, and a class-three sum within `MaxU64` (in `StagingAccounted`) | `StagingExact`, `StagingBudgeted` | the sums wrap or saturate as u64 does: run `transaction` has the plan `Wrapping` |
| a span within the type, a count within i64 (in `IntervalsSound`) | `IntervalsAreSound` | the length saturates or turns negative |
| `Budget < MaxU64` | `ReceiptExact` | a total that reaches u64::MAX saturates, so that the receipt no longer adds up; `ReceiptSaturated` says that this is all that happens |

* `ExecutionTransaction_proofs`. `TypeCorrect`, `Exclusion`, `Teardown`,
  `FailureIsFirst` from `IInv`. Exclusion alone is not inductive: a commit or abort of
  one transaction releases `reserved` and retires where `stagedSet` says, so the
  invariant adds that what a transaction reserved or staged on is its own while
  it is in flight, that it stages only on partitions it reserved, and that a
  transaction outside the states in flight is not in a loop.
  `CommitRanItsPlan`, `StagingBudgeted` and `AbortClean` need `SInv`: what a transaction's
  records say is what its plan declares of the operations they name (`RecordsSound`),
  a staged write lies under the name of a transaction in flight or committed
  (`StagedBy`), and, where u64 holds it, the byte total is the sum over the staging area (`BytesExact`),
  where a sum of sizes is the cardinality of a set of units, one per byte. `StagingExact` adds that a commit finds
  exactly its own declared write-set staged (`CommitPublishesItsOffer`).
  `AtomicallyPublishes` is the refinement of `AtomicPublication`, one lemma per action:
  a transaction offers when it starts to execute, and every other step but commit and
  abort stutters.
* `Conversation_proofs`. `TypeCorrect` and `TerminalLast` from `LeaseDiscipline`, which
  ties `terminal_sent` to the frames: while it is false no terminal was enqueued;
  whoever is about to push a terminal holds the lease mutex, is the only one, and
  nobody else can be between its test and its push. `SendersAreSound` counts: the
  number of live senders is the cardinality of the set of senders alive, through
  clone, quit and drop. `DrainedIsTheEnd` needs that what is queued is the end of what
  was sent (`Queued`), so that a terminal at the head is the last frame.
  `SuccessHasTheWholeAnswer` is about the only consumer of a conversation: while it
  is in its first call, what was sent is what it received followed by what is queued
  (`WholeFor`); before the start nothing is sent (`Unborn`). `NoLostWake`: a future that
  found a frame at its second look still finds it (`Registered`), for nobody else takes it.
  `RoutesDoAgree` is about `Routes`, over any finite tree of paths. `RoutesInv`: what is
  there lies in a directory and links are leaves (`WellFormed`), the variable is a
  text, a touch between its calls has a path, and what the last request that
  answered Done brought about is shown by the nodes (`Shows`). That each reading
  route then answers it is `EffectsShow`; below it lie what a route does to one node
  and leaves of the others (`PutNode`, `SameEnds`), that following links ends at the
  same node before and after (`EndsWith`), that the lines of a text with their breaks,
  a newline or a carriage return and a newline, are the text (`LinesAre`), that a search returns the first occurrence (`FindsFirst`), that a
  listing has each name once and in order (`ListingIs`) and that a draw reaches every
  integer between its bounds, over the whole range of i64 (`DrawsAre`).
* `Values_proofs`. *Arena*: `FreeListIsSound` and `FreeListIsExact`, also where generations wrap:
  the links from the head visit every free slot once, shown with an order of the free
  slots as witness. `RemovedStaysStale` and the refinement `ArenaKeepsHandlesApart` follow
  from the fact that a slot's generation never exceeds the number of insertions and is
  past every handle given out for it (`GenerationsTell`).
  *Intervals*: `IntervalsAreSound`, for any integer types up to i64 and u64. `WInv`: the lazy walk is at a place
  of the list, and what it yielded is the list up to there; the algebra is a case
  distinction on the ends, with the ends of the type.
  *Sparse tensors*: `SparseTensorsAreDense`. `SparseInv`: the entries are what was written and is
  not the default. The places in row-major order number the coordinates one to one,
  and the walk that carries from axis to axis takes them in turn; both are shown for
  every rank and every extent, zero included; the refusal is that of a product
  that passes usize, and no other.
  *Tensors and tape*: `BuffersAreSound`. `TapeInv`: every descriptor held, through whatever
  slices, transpositions and broadcasts it came about, covers places of its own
  buffer (`Covers`), a saved value fills a buffer that nothing held shares (`Private`), and its parents are
  earlier nodes. A write of the caller can then not change what the tape replays.
* `Inference_proofs`. *Sequences*: `TypeCorrect`, `ExactlyOnce`, `SuccessIsPublished`, `OneOwner`,
  `LostAckAccepted`, `AnswersAreSound` from the two. The key is `PassedIsOwned`: every position the sequence passed since an invocation
  was built was published by some invocation, which is what a replay answers for.
  *Model files*: `FilesAreWhole` and `ReceiptsAgree`, for any files. `FInv`: keys are counted one to a
  pair, every tensor consists of whole blocks and starts past the end of those before
  it, and an entry of a view is the tensor admitted under its place. That no key is
  missing follows by cardinality (`NoneMissing`), that tensors read bytes of their own from
  the order of the offsets, and that blocks cover a range from division by the block
  size, type by type (`BlocksCover`).
  *Decoder*: `CacheIsExact`, for any number of layers, heads and tokens. The invariant is that the
  cache and the logits are those of one pass over all tokens so far (`IsRun`). It is kept
  because the rows of a layer do not depend on later ones (`PrefixHidden`), layer by
  layer. `VerdictsAreReal`: a comparison that fails no threshold bounds every logit,
  although deviations that are NaN are dropped, because a NaN comes of a value that
  is counted as not finite (`BandBoundsAll`).
  *Blocks*: `DequantsAreExact`, for the six kernels. A bit is numbered by its byte and its place in
  it, and each kernel's shifts and masks are mixed radices that give the number back:
  no bit is read twice and, where the format is full, none is left (`Filled`, `OwnedBy`). The
  conversion of halves is exact for all 65536 patterns; a subnormal is normalised by
  its highest bit.
* `Admission_proofs`: `TypeCorrect`, `SelectionsAreCurrent`, `PlansAreCurrent`,
  `NoPartitionOverLimit`, `BindNeverPanics`, `PlansArePlacedAsDeclared`. The invariant
  relates all samples ever taken to the last one: entries of one epoch agree with
  the last probe (`EpochsTell`), because a probe that observed a difference
  advanced the epoch, which does not saturate (`MaxProbes < MaxGeneration`).
  `BindNeverPanics` needs that the constraints of an admitted plan name declared
  partitions, which `bind` compares with the keys of the bindings; the placement
  theorem that each of the three checks of constraints is complete for its kind.
  `PolicyOnlyReads`: leaving out the outcome, a behaviour of `Policy` is one of `Admission`,
  so all of the above hold of it. `RankingsAreSound`: a ranked plan fits the
  devices and links it was evaluated with, in what they can compute, in bytes of each
  device and in total, the devices are those of the last probe
  while the epoch has not moved, every plan is ranked or rejected, as often as it was
  submitted (`InsertedOnce`: an insertion adds one place and moves the others;
  `SplitTimes`: the places of a list are shared out), and none
  stands above one that is better in the first objective on which the two differ.
* `Transport_proofs`: `TypeCorrect`, `WithinBudget`, `LandsAsDeclared`,
  `PanicIsOverflow`, `ReceiptSaturated`, `ReceiptExact`, for every set of transfers,
  contents and measurements. The lemmas are about saturating arithmetic, division, the
  wrapped end of a range (`EndWraps`: it lies below the offset exactly when the
  sum is no u64) and sums over the records, one more at a time.
* `HostCollections_proofs`: `HostCollectionsImplement` and `HostQueriesAgree`, for any
  pointers and texts. `HInv`: lists hold values of their kind, no two keys of a map and no two members
  of a set are equal. The host's lists searched by `values_equal` are tables and sets
  only because of the second half: a `put` replaces the one pair with an equal key, a
  removal removes all there is. NaN, equal to nothing, and unreadable pointers never become keys
  (`EqualMeans`). `Kept` and `Unique` are recursive functions over a list; that they exist
  and what they return is shown for every length from a least counterexample (`UpTo`,
  `FoldExists`), which takes the place of an induction theorem.
* `Lists_proofs`. The library's induction theorems cannot be used here, so what a loop over a list of
  any length computes is shown from a least counterexample: `UpTo` (if it holds after
  no round and each round keeps it, it holds after n), `FoldExists` (a recursive
  function over the rounds is a function at all). `KeptIs`, `InOrderIs` and the lemmas on
  sums and cardinalities are what the other modules cite.

Only model-checked: liveness (`ExecutingEnds`, `ReceiveReturns`,
`OpenConversationEnds`) and everything under fairness, which the prover has no
rules for; `EncodingIsBpe`, over RECURSIVE operators; `GradientIsDerivative`, which
compares the reverse pass with forward-mode differentiation modulo a prime: a proof
would be by induction over the tape, with sums over the data for each of its twenty
kinds of nodes. The type invariants, `FirstFailureWins`,
`FreeListSound`, `StaleForever`, `StagingReleased` and `PanicsOnlyOnOverflow` are
proved and no longer run.

## 5. Not modelled

* Snapshot ids, plan hashes, receipts' encodings and capability facts; the registry
  of measured peer pairs, a map that is read back; residency keys, epochs and
  readiness of `ExecutionSession`.
* Timings, canonical encodings, formatting, `with_transport_receipt`.
* The outbound half of a conversation (`meus_*`), `push_incoming` and detached
  handles; the routes to the console, to child processes, to the clock and to the
  other sources of randomness.
* Rounding of f32 and f16, digests, the tables of `pretoken.rs`, decoding of tokens,
  parsing of the weights (`CpuOracle::build`), the repack plan, the KV layout and
  the list of kernels a prefill program is made of, which are constants.
* Membership of a node in one of several tapes.
* Of the LLVM host: text and value formatting, the command line, raw null-encoded
  options (a scalar zero and nihil cannot be told apart there), and the wrappers
  around conversations, tensors and gradients.
* Values and conversions, HTTP and the C layouts, which have no state and are calls
  of libraries.

The definitions of this version stand for about three tenths of the implementation's
lines.

## 6. Plan

1. *Proofs*: the gradient of single kinds of nodes, starting with the linear ones; the
   splitter and the merges of `Tokenizer`, once written as recursive functions.
2. *Composition*: `Admission` with the `Ledger` of the transaction, `Transport` as
   the run of its transfers, the session as the client of the coordinator.
3. *Sessions*: residency epochs and replacement of a sequence.
