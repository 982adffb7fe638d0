------------------------------ MODULE ModelFile ------------------------------
(***************************************************************************)
(* From a GGUF file to f32 weights: admission (src/gguf.rs), tensor        *)
(* layouts (src/quantized_tensor_layout.rs), the view over the file        *)
(* (src/tensor_view.rs) and dequantisation (src/dequant.rs).               *)
(*                                                                         *)
(* A file is a record of its fields in file order; names, keys and values  *)
(* are abstract, sizes and offsets are numbers.  `len' is the number of    *)
(* bytes a table entry takes.  Which file is the pinned one is left open:  *)
(* every file of Files whose digest is "pinned" stands for it.             *)
(***************************************************************************)
EXTENDS Integers, Sequences, FiniteSets, SequencesExt

CONSTANTS
    Files,      \* the files the host may be given
    Buffers,    \* the sizes of the buffers a view may be built over
    Top,        \* the largest u64
    MaxDim, ADMITTED_KEYS, Expected,            \* key -> [tag, value]
    EXPECTED_TENSOR_COUNT, EXPECTED_TENSOR_COUNT_PER_TYPE,
    EXPECTED_ELEMENTS_PER_TYPE, PINNED_FILE_SIZE

(* What reading a key or a name may end in, besides the text. *)
Unread == {"TruncatedFile", "KeyTooLong", "TensorNameTooLong", "InvalidUtf8"}

(* The tables of a file are as long as its header says, when the header is *)
(* one that admission reads on from.                                       *)
ASSUME FilesAssumption ==
    \A f \in Files :
        /\ f.size \in Nat
        /\ f.kv_count = Cardinality(ADMITTED_KEYS) => DOMAIN f.kvs = 1..f.kv_count
        /\ f.tensor_count = EXPECTED_TENSOR_COUNT => DOMAIN f.tensors = 1..f.tensor_count
        /\ \A i \in DOMAIN f.kvs : f.kvs[i].len \in Nat /\ f.kvs[i].read \in Unread \cup {"ok"}
        /\ \A i \in DOMAIN f.tensors :
              LET t == f.tensors[i]
              IN  /\ t.len \in Nat /\ t.offset \in Nat /\ t.dims \in Seq(Nat)
                  /\ t.read \in Unread \cup {"ok"}

(* The pinned file is far smaller than the numbers are wide. *)
ASSUME PinnedAssumption ==
    /\ Top \in Nat /\ PINNED_FILE_SIZE \in Nat /\ PINNED_FILE_SIZE + 32 <= Top
    /\ IsFiniteSet(ADMITTED_KEYS) /\ EXPECTED_TENSOR_COUNT \in Nat

VARIABLES
    file,   \* the file being admitted
    pc,     \* the next step of admit_gguf, or its outcome
    acc,    \* the locals of admit_gguf
    view    \* the outcome of TensorView::build

fileVars == <<file, pc, acc, view>>

GGUF_ALIGNMENT == 32
GgmlType == {"F32", "Q5_0", "Q8_0", "Q4_K", "Q6_K"}
block_elements(t) ==
    CASE t = "F32" -> 1 [] t = "Q5_0" -> 32 [] t = "Q8_0" -> 32 [] t = "Q4_K" -> 256 [] t = "Q6_K" -> 256
block_bytes(t) ==
    CASE t = "F32" -> 4 [] t = "Q5_0" -> 22 [] t = "Q8_0" -> 34 [] t = "Q4_K" -> 144 [] t = "Q6_K" -> 210

NoFile == [none |-> TRUE]
NoView == [state |-> "none"]
Fresh == [pos |-> 0, seen_keys |-> {}, metadata |-> <<>>, names |-> {}, tensors |-> <<>>,
          prev_end |-> 0, total |-> 0, data_offset |-> 0,
          count |-> [t \in GgmlType |-> 0], elements |-> [t \in GgmlType |-> 0]]

FileInit ==
    /\ file = NoFile
    /\ pc = "idle"
    /\ acc = Fresh
    /\ view = NoView

align_up(v) == (((v + GGUF_ALIGNMENT - 1) % (Top + 1)) \div GGUF_ALIGNMENT) * GGUF_ALIGNMENT
Product(s) ==
    LET Upto[n \in 0..Len(s)] == IF n = 0 THEN 1 ELSE Upto[n - 1] * s[n]
    IN  Upto[Len(s)]

-----------------------------------------------------------------------------
(* Admission, one table entry per step.  The first failed check names the  *)
(* outcome; nothing is kept of a refused file.                             *)

FirstOf(checks) == LET bad == {i \in DOMAIN checks : ~checks[i][1]}
                   IN  IF bad = {} THEN "ok" ELSE checks[Min(bad)][2]

Step(checks, next, a) ==
    /\ LET e == FirstOf(checks)
       IN  /\ pc' = IF e = "ok" THEN next ELSE e
           /\ acc' = IF e = "ok" THEN a ELSE Fresh
    /\ UNCHANGED <<file, view>>

(* Cursor::take: the end of the field must lie in the file.                *)
take(n) == acc.pos + n <= file.size

admit_file(f) ==
    /\ file' = f
    /\ pc' = IF f.size = PINNED_FILE_SIZE THEN "header" ELSE "FileSizeMismatch"
    /\ UNCHANGED <<acc, view>>

(* admit_gguf called with a buffer directly checks the size last.          *)
admit_bytes(f) ==
    /\ file' = f
    /\ pc' = "header"
    /\ UNCHANGED <<acc, view>>

Header ==
    /\ pc = "header"
    /\ Step(<< <<take(4), "TruncatedFile">>, <<file.magic, "InvalidMagic">>,
               <<take(8), "TruncatedFile">>, <<file.version = 3, "UnsupportedVersion">>,
               <<take(16), "TruncatedFile">>,
               <<file.tensor_count = EXPECTED_TENSOR_COUNT, "TensorCountMismatch">>,
               <<take(24), "TruncatedFile">>,
               <<file.kv_count = Cardinality(ADMITTED_KEYS), "MetadataKvCountMismatch">> >>,
            "kv", [acc EXCEPT !.pos = 24])

(* A table in which a key may be repeated. *)
KeyUnchecked(kv) == TRUE

KeyIsNew(kv) == kv.key \notin acc.seen_keys

(* read_key, read_tensor_name: present, not too long, UTF-8.               *)
read_name(e) == <<e.read = "ok", e.read>>

expected_for_key(key) == Expected[key]
parse_kv_value(kv) == kv.key \in ADMITTED_KEYS => kv.tag = expected_for_key(kv.key).tag
validate_kv_value(kv) == kv.key \in ADMITTED_KEYS => kv.value = expected_for_key(kv.key).value

(* The key is read, known and new before its value is read; a value has    *)
(* the tag, and then the content, its key demands (of the long tokenizer   *)
(* arrays only the count is compared).                                     *)
MetadataKv ==
    /\ pc = "kv" /\ Len(acc.metadata) < file.kv_count
    /\ LET kv == file.kvs[Len(acc.metadata) + 1]
       IN  Step(<< read_name(kv),
                   <<kv.key \in ADMITTED_KEYS, "UnknownMetadataKey">>,
                   <<KeyIsNew(kv), "DuplicateMetadataKey">>,
                   <<parse_kv_value(kv), "MetadataValueMismatch">>,
                   <<take(kv.len), "TruncatedFile">>,
                   <<validate_kv_value(kv), "MetadataValueMismatch">> >>,
                "kv", [acc EXCEPT !.pos = @ + kv.len, !.seen_keys = @ \cup {kv.key},
                                  !.metadata = Append(@, kv)])

(* A tensor as the table declares it, of a known type. *)
TensorDescriptor(t) ==
    LET n == Product(t.dims)
        blocks == n \div block_elements(t.dtype)
    IN  [name |-> t.name, ggml_type |-> t.dtype, element_count |-> n, blocks |-> blocks,
         byte_len |-> blocks * block_bytes(t.dtype), offset |-> t.offset]

(* One entry of the tensor table.  All arithmetic is checked before a      *)
(* range is compared with the ranges before it.                            *)
TensorInfo ==
    /\ pc = "kv" /\ Len(acc.metadata) = file.kv_count
    /\ Len(acc.tensors) < file.tensor_count
    /\ LET t == file.tensors[Len(acc.tensors) + 1]
           type == t.dtype
           d == TensorDescriptor(t)
           known == type \in GgmlType
       IN  Step(<< read_name(t),
                   <<t.name \notin acc.names, "DuplicateTensorName">>,
                   <<Len(t.dims) \in 1..2, "TensorDimCountMismatch">>,
                   <<\A i \in DOMAIN t.dims : t.dims[i] <= MaxDim, "TensorDimTooLarge">>,
                   <<known, "UnknownDtype">>,
                   <<take(t.len), "TruncatedFile">>,
                   <<t.offset % GGUF_ALIGNMENT = 0, "MisalignedTensorOffset">>,
                   <<known => d.element_count % block_elements(type) = 0, "TensorElementsNotBlockAligned">>,
                   <<known => t.offset + d.byte_len <= Top, "ArithmeticOverflow">>,
                   <<t.offset >= acc.prev_end, "OverlappingTensorRanges">>,
                   <<t.offset = align_up(acc.prev_end), "NonSequentialTensorOffsets">> >>,
                "kv",
                [acc EXCEPT !.pos = @ + t.len, !.names = @ \cup {t.name},
                            !.tensors = Append(@, d),
                            !.prev_end = t.offset + d.byte_len, !.total = @ + d.byte_len,
                            !.count[type] = @ + 1, !.elements[type] = @ + d.element_count])

(* Region bounds: the region is taken to be as long as the tensors         *)
(* together, padding between them not counted.  Then the totals, the size  *)
(* and the digest.                                                         *)
Finish ==
    /\ pc = "kv" /\ Len(acc.metadata) = file.kv_count
    /\ Len(acc.tensors) = file.tensor_count
    /\ LET from == align_up(acc.pos)
       IN  Step(<< <<from + acc.total <= file.size, "TruncatedTensorData">>,
                   <<acc.count = EXPECTED_TENSOR_COUNT_PER_TYPE, "PerTypeTensorCountMismatch">>,
                   <<acc.elements = EXPECTED_ELEMENTS_PER_TYPE, "PerTypeElementCountMismatch">>,
                   <<file.size = PINNED_FILE_SIZE, "FileSizeMismatch">>,
                   <<file.digest = "pinned", "Sha256Mismatch">> >>,
                "admitted", [acc EXCEPT !.data_offset = from])

-----------------------------------------------------------------------------
(* Layouts and the view.                                                   *)

Range0(d) == [start |-> acc.data_offset + d.offset,
              end |-> acc.data_offset + d.offset + d.byte_len]

(* The fields of a block, in bytes: half-precision scales, packed scales,  *)
(* high bits and quants.                                                   *)
ScaleMinEncoding(t) ==
    CASE t = "Q4_K" -> <<2, 2, 12, 128>>
      [] t = "Q5_0" -> <<2, 4, 16>>
      [] t = "Q8_0" -> <<2, 32>>
      [] t = "Q6_K" -> <<210>>
      [] t = "F32" -> <<4>>

resolve(d) ==
    LET t == d.ggml_type
        r == Range0(d)
    IN  FirstOf(<< <<d.element_count % block_elements(t) = 0, "ElementsNotBlockAligned">>,
                   <<d.byte_len % block_bytes(t) = 0, "ByteRangeNotBlockAligned">>,
                   <<d.byte_len = (d.element_count \div block_elements(t)) * block_bytes(t), "ByteLenMismatch">>,
                   <<r.end <= Top, "ArithmeticOverflow">>,
                   <<r.end <= file.size, "ByteRangeOutOfBounds">>,
                   <<r.start % GGUF_ALIGNMENT = 0, "MisalignedRangeStart">>,
                   <<FoldSeq(LAMBDA x, y : x + y, 0, ScaleMinEncoding(t)) = block_bytes(t), "EncodingMismatch">> >>)

TensorViewEntry(d) ==
    [name |-> d.name, ggml_type |-> d.ggml_type, element_count |-> d.element_count,
     blocks |-> d.blocks, range |-> Range0(d), native |-> TRUE]

InRegion(d) ==
    /\ Range0(d).start >= acc.data_offset
    /\ Range0(d).end <= acc.data_offset + acc.total

(* The buffer is compared with the admitted file by size only.             *)
build(size) ==
    /\ pc = "admitted" /\ view = NoView
    /\ LET ds == acc.tensors
           layouts == [i \in DOMAIN ds |-> <<resolve(ds[i]) = "ok", resolve(ds[i])>>]
           ranges == [i \in DOMAIN ds |-> <<InRegion(ds[i]), "OutsideDataRegion">>]
           e == FirstOf(<< <<size = file.size, "WrongFileSize">> >> \o layouts
                        \o << <<acc.data_offset + acc.total <= file.size, "DataRegionOutOfBounds">> >> \o ranges)
       IN  view' = IF e = "ok"
                   THEN [state |-> "built", size |-> size, data_offset |-> acc.data_offset,
                         data_len |-> acc.total,
                         entries |-> [i \in DOMAIN ds |-> TensorViewEntry(ds[i])]]
                   ELSE [state |-> e]
    /\ UNCHANGED <<file, pc, acc>>

(* with_declared_repack: a layout that no longer describes native blocks.  *)
with_declared_repack(i) ==
    /\ view.state = "built" /\ view.entries[i].native
    /\ view' = [view EXCEPT !.entries[i].native = FALSE]
    /\ UNCHANGED <<file, pc, acc>>

per_tensor_covered(e) == e.range.start <= e.range.end /\ e.range.end <= view.size

(* The entries follow each other without a gap from the first byte of the  *)
(* region to its last.                                                     *)
coverage_ok ==
    LET es == view.entries
    IN  /\ es # <<>>
        /\ \A i \in DOMAIN es : per_tensor_covered(es[i])
        /\ \A i \in 2..Len(es) : es[i].range.start = es[i-1].range.end
        /\ es[1].range.start = view.data_offset
        /\ Last(es).range.end = view.data_offset + view.data_len

(* raw_block: the bytes of one block, or an error.                         *)
raw_block(e, b) ==
    LET from == e.range.start + b * block_bytes(e.ggml_type)
        to == from + block_bytes(e.ggml_type)
    IN  IF b >= e.blocks \/ to > e.range.end \/ e.range.end > view.size THEN {}
        ELSE from..(to - 1)

(* dequant_tensor and dequant_row: the outcome, and the bytes read.        *)
dequant_tensor(e) ==
    FirstOf(<< <<coverage_ok, "CoverageNotOk">>,
               <<per_tensor_covered(e), "EntryNotCovered">>,
               <<e.range.end - e.range.start = e.blocks * block_bytes(e.ggml_type), "RowBytesMismatch">>,
               <<e.native \/ e.blocks = 0, "RepackNotNative">> >>)

(* A receipt that does not ask whether the layout is still native. *)
for_any_tensor(e) ==
    FirstOf(<< <<coverage_ok, "CoverageNotOk">>,
               <<per_tensor_covered(e), "EntryNotCovered">>,
               <<e.range.end - e.range.start = e.blocks * block_bytes(e.ggml_type), "RowBytesMismatch">> >>)

for_tensor(e) ==
    FirstOf(<< <<coverage_ok, "CoverageNotOk">>,
               <<per_tensor_covered(e), "EntryNotCovered">>,
               <<e.native, "RepackNotNative">>,
               <<e.range.end - e.range.start = e.blocks * block_bytes(e.ggml_type), "RowBytesMismatch">> >>)

FileNext ==
    \/ pc = "idle" /\ \E f \in Files : admit_file(f) \/ admit_bytes(f)
    \/ Header
    \/ MetadataKv
    \/ TensorInfo
    \/ Finish
    \/ \E n \in Buffers : build(n)
    \/ \E i \in DOMAIN acc.tensors : with_declared_repack(i)

FileSpec == FileInit /\ [][FileNext]_fileVars

-----------------------------------------------------------------------------
(* The counts, the closed key set and the duplicate check together: an     *)
(* admitted file has every admitted key, although no check asks for one.   *)
NoKeyMissing ==
    pc = "admitted" => acc.seen_keys = ADMITTED_KEYS

(* The tensors of a view read disjoint bytes of the data region of the     *)
(* file, block by block all of them and no other tensor's, also for files  *)
(* with padding between tensors, which admission accepts.                  *)
TensorsApart ==
    view.state = "built" =>
        LET es == view.entries
            Blocks(e) == UNION {raw_block(e, b) : b \in 0..e.blocks}
        IN  /\ \A i \in DOMAIN es :
                  /\ Blocks(es[i]) = es[i].range.start..(es[i].range.end - 1)
                  /\ \A x \in Blocks(es[i]) : x < file.size /\ x >= acc.pos
                  /\ es[i].element_count > 0 => Blocks(es[i]) # {}
            /\ \A i, j \in DOMAIN es : i < j => Blocks(es[i]) \cap Blocks(es[j]) = {}

(* What admission accepts is whole: every admitted key is there, and the   *)
(* tensors a view hands out are apart from each other and inside the file. *)
AdmittedIsWhole == NoKeyMissing /\ TensorsApart

(* A receipt is only given for a tensor whose weights can be dequantised,  *)
(* and for every such tensor that is not empty: the two copies of the      *)
(* gates, in dequant_tensor and OracleReceipt::for_tensor, agree although  *)
(* they ask in another order.                                              *)
ReceiptIffWeights ==
    view.state = "built" =>
        \A i \in DOMAIN view.entries :
            LET e == view.entries[i]
            IN  /\ for_tensor(e) = "ok" => dequant_tensor(e) = "ok"
                /\ dequant_tensor(e) = "ok" /\ e.blocks > 0 => for_tensor(e) = "ok"
=============================================================================
