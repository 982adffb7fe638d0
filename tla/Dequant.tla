------------------------------- MODULE Dequant -------------------------------
(***************************************************************************)
(* The block kernels of src/dequant.rs and the packed-u4 carrier of        *)
(* src/packed_numeric.rs, run on symbolic blocks: bit i of byte k of the   *)
(* block is the label <<k, i>>, and the shifts, masks and ors of the       *)
(* kernels move labels.  A kernel yields, for each element, the bits of    *)
(* its quant and of the scale and minimum it is multiplied with; the       *)
(* multiplications themselves are f32 arithmetic and left out.             *)
(***************************************************************************)
EXTENDS Integers, Sequences, FiniteSets

CONSTANT Halves     \* the half-precision bit patterns converted
VARIABLE out        \* the outcome of the last operation

NoOut == [op |-> "none"]
Off == <<-1, -1>>   \* a bit that is zero
Two(n) == 2^n
ASSUME HalvesAssumption == Halves \subseteq 0..(Two(16) - 1)

(* Words of bits, least significant first.                                 *)
And(v, mask) == [i \in DOMAIN v |-> IF i \in mask THEN v[i] ELSE Off]
Shr(v, n) == [i \in DOMAIN v |-> IF i + n \in DOMAIN v THEN v[i + n] ELSE Off]
Shl(v, n) == [i \in DOMAIN v |-> IF i >= n THEN v[i - n] ELSE Off]
Or(v, w) == [i \in DOMAIN v |-> IF v[i] = Off THEN w[i] ELSE v[i]]
Low == 0..3
Bytes(block, from, to) == [k \in 0..(to - from - 1) |-> block[from + k]]
u32_from_le_bytes(b) == [i \in 0..31 |-> b[i \div 8][i % 8]]
as_u8(v) == [i \in 0..7 |-> v[i]]

Block(n) == [k \in 0..(n - 1) |-> [i \in 0..7 |-> <<k, i>>]]
NoBits == [i \in 0..7 |-> Off]
Element(q, scale, minimum, half) == [q |-> q, scale |-> scale, min |-> minimum, half |-> half]

dequant_f32(block) == [j \in {0} |-> Element(u32_from_le_bytes(block), NoBits, NoBits, {})]

dequant_q8_0(block) == [j \in 0..31 |-> Element(block[2 + j], NoBits, NoBits, {0, 1})]

dequant_q5_0(block) ==
    LET qh == u32_from_le_bytes(Bytes(block, 2, 6))
        qs == Bytes(block, 6, 22)
        xh_0(j) == And(Shl(Shr(qh, j), 4), {4})
        xh_1(j) == And(Shr(qh, j + 12), {4})
    IN  [j \in 0..31 |->
            IF j < 16
            THEN Element(Or(And(qs[j], Low), as_u8(xh_0(j))), NoBits, NoBits, {0, 1})
            ELSE Element(Or(Shr(qs[j - 16], 4), as_u8(xh_1(j - 16))), NoBits, NoBits, {0, 1})]

(* Two bits of the upper scales taken from the bytes of the minima. *)
get_scale_min_swapped(index, scales) ==
    IF index < 4 THEN <<And(scales[index], 0..5), And(scales[index + 4], 0..5)>>
    ELSE <<Or(And(scales[index + 4], Low), Shl(Shr(scales[index], 6), 4)),
           Or(Shr(scales[index + 4], 4), Shl(Shr(scales[index], 6), 4))>>

get_scale_min_k4(index, scales) ==
    IF index < 4 THEN <<And(scales[index], 0..5), And(scales[index + 4], 0..5)>>
    ELSE <<Or(And(scales[index + 4], Low), Shl(Shr(scales[index - 4], 6), 4)),
           Or(Shr(scales[index + 4], 4), Shl(Shr(scales[index], 6), 4))>>

(* Each chunk of 64 reads 32 bytes of quants: the low nibbles with one     *)
(* scale and minimum, the high nibbles with the next.                      *)
dequant_q4_k(block) ==
    LET scales == Bytes(block, 4, 16)
        qs == Bytes(block, 16, 144)
    IN  [j \in 0..255 |->
            LET chunk == j \div 64
                l == j % 32
                upper == (j % 64) \div 32
                sm == get_scale_min_k4(2 * chunk + upper, scales)
                byte == qs[32 * chunk + l]
            IN  Element(IF upper = 0 THEN And(byte, Low) ELSE Shr(byte, 4),
                        sm[1], sm[2], 0..3)]

(* Each group of 128 is four runs of 32: low and high nibbles of 64 bytes  *)
(* of ql, and two bits each of 32 bytes of qh.                             *)
dequant_q6_k(block) ==
    LET ql == Bytes(block, 0, 128)
        qh == Bytes(block, 128, 192)
        sc == Bytes(block, 192, 208)
        q(n, l, part) ==
            LET low == ql[n \div 2 + l + 32 * (part % 2)]
                high == And(Shr(qh[n \div 4 + l], 2 * part), {0, 1})
            IN  Or(IF part < 2 THEN And(low, Low) ELSE Shr(low, 4), Shl(high, 4))
    IN  [j \in 0..255 |->
            LET n == (j \div 128) * 128
                part == (j % 128) \div 32
                l == j % 32
            IN  Element(q(n, l, part), sc[n \div 16 + l \div 16 + 2 * part], NoBits, {208, 209})]

(* PackedU4Block: eight values in four bytes, low nibble first.            *)
extract_in_bounds(block, index) ==
    LET byte == block[index \div 2]
    IN  IF index % 2 = 0 THEN And(byte, Low) ELSE Shr(byte, 4)
packed_u4_dequantize(block) ==
    [j \in 0..7 |-> Element(extract_in_bounds(block, j), NoBits, NoBits, {})]

(* For each kernel: bytes of a block, bits of a quant, elements that share *)
(* a scale.                                                                *)
Formats == [F32 |-> <<4, 32, 1>>, Q8_0 |-> <<34, 8, 32>>, Q5_0 |-> <<22, 5, 32>>,
            Q4_K |-> <<144, 4, 32>>, Q6_K |-> <<210, 6, 16>>, U4 |-> <<4, 4, 8>>]

dequant_block(t) ==
    /\ out = NoOut
    /\ LET b == Block(Formats[t][1])
           y == CASE t = "F32" -> dequant_f32(b)
                  [] t = "Q8_0" -> dequant_q8_0(b)
                  [] t = "Q5_0" -> dequant_q5_0(b)
                  [] t = "Q4_K" -> dequant_q4_k(b)
                  [] t = "Q6_K" -> dequant_q6_k(b)
                  [] t = "U4" -> packed_u4_dequantize(b)
       IN  out' = [op |-> "block", type |-> t, y |-> y]

(* half_to_f32: the sign, exponent and mantissa fields of the result.      *)
half_to_f32(bits) ==
    /\ out = NoOut
    /\ LET sign == bits \div Two(15)
           exp == (bits \div Two(10)) % 32
           frac == bits % Two(10)
           p == CHOOSE n \in 0..10 : frac < Two(n) /\ (n = 0 \/ frac >= Two(n - 1))
           fields == IF exp = 0 THEN IF frac = 0 THEN <<0, 0>>
                                     ELSE <<p + 102, frac * Two(24 - p) - Two(23)>>
                     ELSE IF exp = 31 THEN <<255, frac * Two(13)>>
                     ELSE <<exp + 112, frac * Two(13)>>
       IN  out' = [op |-> "half", bits |-> bits, sign |-> sign, exp |-> fields[1], mantissa |-> fields[2]]

DequantInit == out = NoOut
DequantNext == \/ \E t \in DOMAIN Formats : dequant_block(t)
               \/ \E h \in Halves : half_to_f32(h)
DequantSpec == DequantInit /\ [][DequantNext]_out

-----------------------------------------------------------------------------
Labels(word) == {word[i] : i \in DOMAIN word} \ {Off}

(* Every bit of a block is read for one purpose: each element gets as many *)
(* quant bits as its format has, no two elements share one, each run of    *)
(* elements has scale and minimum bits of its own, and with the half       *)
(* precision factors nothing of the block is left over.                    *)
TakenApart(y, f) ==
    LET Group(j) == j \div f[3]
        Code(j) == Labels(y[j].scale) \cup Labels(y[j].min)
        Leaders == {j \in DOMAIN y : j % f[3] = 0}
        halves == y[0].half \X (0..7)
        quants == UNION {Labels(y[j].q) : j \in DOMAIN y}
        codes == UNION {Code(j) : j \in Leaders}
        Sum(S) == Cardinality(S) * f[2]
    IN  /\ \A j \in DOMAIN y :
              /\ Cardinality(Labels(y[j].q)) = f[2]
              /\ Labels(y[j].scale) \cap Labels(y[j].min) = {}
              /\ Code(j) = Code(Group(j) * f[3])
              /\ y[j].half = y[0].half
        /\ Cardinality(quants) = Sum(DOMAIN y)
        /\ \A j, k \in Leaders : j # k => Code(j) \cap Code(k) = {}
        /\ quants \cap codes = {} /\ (quants \cup codes) \cap halves = {}
        /\ quants \cup codes \cup halves = (0..(f[1] - 1)) \X (0..7)

EachBitOnce == out.op = "block" => TakenApart(out.y, Formats[out.type])

(* The f32 a half converts to has exactly its value: for a normal result   *)
(* 2^23 + mantissa is the significand, scaled by the exponent field.       *)
HalfExact ==
    out.op = "half" =>
        LET exp == (out.bits \div Two(10)) % 32
            frac == out.bits % Two(10)
        IN  /\ out.sign = out.bits \div Two(15)
            /\ IF exp = 31 THEN out.exp = 255 /\ (out.mantissa = 0 <=> frac = 0)
               ELSE IF exp = 0 /\ frac = 0 THEN out.exp = 0 /\ out.mantissa = 0
               ELSE LET significand == IF exp = 0 THEN frac ELSE Two(10) + frac
                        scale == (IF exp = 0 THEN 1 ELSE exp) + 125 - out.exp
                    IN  /\ out.mantissa \in 0..(Two(23) - 1)
                        /\ out.exp \in 1..254
                        /\ scale \in 0..23
                        /\ Two(23) + out.mantissa = significand * Two(scale)

(* No bit of a quantised weight is lost or read for two: the kernels of    *)
(* dequant.rs take every block apart exactly, and its half-precision       *)
(* factors are converted without rounding.                                 *)
DequantExact == EachBitOnce /\ HalfExact
=============================================================================
