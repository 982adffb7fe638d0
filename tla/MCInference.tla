---------------------------- MODULE MCInference ----------------------------
(***************************************************************************)
(* The inference path from a model file to a published token: admission    *)
(* and views of the file, dequantisation, the tokenizer, the reference     *)
(* decoder with its comparisons, and the sequence the tokens are committed *)
(* to.  The parts pass each other values and share no state, so a          *)
(* behaviour exercises one of them, chosen at the start.                   *)
(***************************************************************************)
EXTENDS SequenceState, ModelFile, Dequant, Tokenizer, Decoder

CONSTANTS tok1, tok2
VARIABLE subject

MCInit ==
  /\ subject \in {"file", "block", "text", "decoder", "sequence"}
  /\ FileInit /\ DequantInit /\ TokInit /\ DecoderInit
  /\ Init /\ (subject # "sequence" => history = <<>>)

MCNext ==
  /\ UNCHANGED subject
  /\ \/ /\ subject = "file" /\ FileNext
        /\ UNCHANGED <<out, tokVars, decoderVars, vars>>
     \/ /\ subject = "block" /\ DequantNext
        /\ UNCHANGED <<fileVars, tokVars, decoderVars, vars>>
     \/ /\ subject = "text" /\ TokNext
        /\ UNCHANGED <<fileVars, out, decoderVars, vars>>
     \/ /\ subject = "decoder" /\ DecoderNext
        /\ UNCHANGED <<fileVars, out, tokVars, vars>>
     \/ /\ subject = "sequence" /\ Next
        /\ UNCHANGED <<fileVars, out, tokVars, decoderVars>>

MCSpec == MCInit /\ [][MCNext]_<<subject, fileVars, out, tokVars, decoderVars, vars>>

-----------------------------------------------------------------------------
(* Sequence: prompts of none, one and two tokens, so that the first commit *)
(* may find an empty history and position zero.                            *)
MCPrompts == {<<>>, <<tok1>>, <<tok1, tok2>>}

(* Files: the pinned one of two keys and two tensors, and every file that  *)
(* differs from it in the header, the size, one or two keys or one or two  *)
(* tensors (types, dimensions that are short, misaligned, empty or too     *)
(* large, and offsets that overlap, leave a gap or overflow).              *)
Kv(k) == [key |-> k, read |-> "ok", tag |-> 4, value |-> 1, len |-> 10]
TensorRecord(n, ty, dims, off) ==
  [name |-> n, read |-> "ok", dims |-> dims, dtype |-> ty, offset |-> off, len |-> 20]
Pinned ==
  [magic |-> TRUE, version |-> 3, tensor_count |-> 2, kv_count |-> 2, kvs |-> <<Kv("k"), Kv("l")>>,
   tensors |-> <<TensorRecord("w", "F32", <<8>>, 0), TensorRecord("v", "F32", <<4, 4>>, 32)>>,
   size |-> 192, digest |-> "pinned"]
MCKvs ==
  {[Kv(k) EXCEPT !.read = r, !.tag = t, !.value = v] :
     k \in {"k", "l", "m"}, r \in {"ok", "KeyTooLong"}, t \in {4, 9}, v \in {1, 2}}
MCTensors ==
  {TensorRecord(n, ty, dims, off) : n \in {"w", "v"}, ty \in {"F32", "Q8_0", "Z"},
     dims \in {<<8>>, <<4, 4>>, <<18>>, <<0>>, <<24>>, <<32>>, <<2, 2, 2>>, <<1024>>},
     off \in {0, 4, 32, 64, 65504}}
MCFiles ==
  {[Pinned EXCEPT !.magic = m, !.version = v, !.tensor_count = t, !.kv_count = k] :
     m \in BOOLEAN, v \in {2, 3}, t \in {1, 2}, k \in {2, 3}}
  \cup {[Pinned EXCEPT !.size = s, !.digest = d] : s \in {2, 50, 100, 130, 192}, d \in {"pinned", "other"}}
  \cup {[Pinned EXCEPT !.kvs[1] = x, !.kvs[2] = y] : x, y \in {z \in MCKvs : z.read = "ok" /\ z.tag = 4}}
  \cup {[Pinned EXCEPT !.kvs[2] = y] : y \in MCKvs}
  \cup {[Pinned EXCEPT !.tensors = <<x, y>>] :
          x \in {z \in MCTensors : z.dtype = "F32" /\ z.offset = 0},
          y \in {z \in MCTensors : z.dtype = "F32" /\ z.offset \in {0, 32, 64}}}
  \cup {[Pinned EXCEPT !.tensors[2] = y] : y \in {z \in MCTensors : z.name = "v"}}
  \cup {[Pinned EXCEPT !.tensors[1] = y] : y \in {z \in MCTensors : z.name = "w" /\ z.offset < 64}}
MCExpected == [k \in {"k", "l"} |-> [tag |-> 4, value |-> 1]]
MCCount == [t \in GgmlType |-> IF t = "F32" THEN 2 ELSE 0]
MCElements == [t \in GgmlType |-> IF t = "F32" THEN 24 ELSE 0]

(* Blocks: every exponent with the mantissas at and around its ends. *)
MCHalves == {h \in 0..65535 : h % 1024 \in (0..8) \cup {511, 512, 513, 1022, 1023}}

(* Texts over letters, a digit, blanks, an apostrophe, punctuation, a      *)
(* letter of two bytes and the texts of two special tokens; vocabularies   *)
(* with overlapping, repeated and missing merges, and one for each refusal.*)
MCClass ==
  [c \in {"a", "b", "s", "1", " ", "n", "'", "!", "<", "#", "E"} |->
     CASE c \in {"a", "b", "s", "E"} -> "L" [] c = "1" -> "N" [] c \in {" ", "n"} -> "W" [] OTHER -> "P"]
MCDisplay ==
  [c \in DOMAIN MCClass |->
     CASE c = " " -> <<"G">> [] c = "n" -> <<"N">> [] c = "E" -> <<"c3", "a9">> [] OTHER -> <<c>>]
MCTokens ==
  << <<"<", "s">>, <<"#">>, <<"a">>, <<"b">>, <<"s">>, <<"1">>, <<"G">>, <<"N">>, <<"'">>, <<"!">>,
     <<"<">>, <<"c3">>, <<"a9">>, <<"a", "b">>, <<"G", "a">>, <<"a", "b", "a">>, <<"b", "a">>,
     <<"c3", "a9">>, <<"a">> >>
Vocabulary ==
  [model |-> "gpt2", pre |-> "smollm", tokens |-> MCTokens,
   types |-> [i \in DOMAIN MCTokens |-> IF i \in 1..2 THEN "control" ELSE "normal"],
   merges |-> << <<<<"b">>, <<"a">>>>, <<<<"a">>, <<"b">>>>, <<<<"G">>, <<"a">>>>,
                 <<<<"a", "b">>, <<"a">>>>, <<<<"a">>, <<"b", "a">>>>, <<<<"c3">>, <<"a9">>>> >>,
   scores |-> FALSE, add_bos |-> FALSE, add_space_prefix |-> FALSE, special_ids |-> {1, 2},
   eos |-> 2, eog_list |-> {}]
MCFacts ==
  {Vocabulary,
   [Vocabulary EXCEPT !.tokens[15] = <<"G", "b">>, !.types[1] = "user"],
   [Vocabulary EXCEPT !.merges =
      << <<<<"a">>, <<"b">>>>, <<<<"a", "b">>, <<"a", "b">>>>, <<<<"b">>, <<"a">>>>,
         <<<<"a">>, <<"a">>>>, <<<<"b">>, <<"b">>>>, <<<<"a">>, <<"b">>>> >>],
   [Vocabulary EXCEPT !.model = "bert"], [Vocabulary EXCEPT !.pre = "x"],
   [Vocabulary EXCEPT !.tokens = Tail(@)], [Vocabulary EXCEPT !.types = Tail(@)],
   [Vocabulary EXCEPT !.merges = Tail(@)], [Vocabulary EXCEPT !.scores = TRUE],
   [Vocabulary EXCEPT !.add_bos = TRUE], [Vocabulary EXCEPT !.add_space_prefix = TRUE],
   [Vocabulary EXCEPT !.tokens[3] = <<" ">>], [Vocabulary EXCEPT !.merges[2] = <<<<"a">>, <<>>>>],
   [Vocabulary EXCEPT !.special_ids = {99}]}
MCTexts ==
  SeqOf({"a", " ", "1", "'", "s", "n", "!"}, 3) \cup SeqOf({"a", "b"}, 5) \cup
  {<<"a", " ", " ", "n", "a">>, <<"a", "E", " ", "E">>, <<"#", "#", "#", "<", "s", "#">>,
   <<"a", "<", "s", "b", "#", "a">>, <<"a", "b", "a", "b", "a", "b", "a", "b", "a">>}

(* Decoder: three token ids, one of them an end of generation; logits that *)
(* tie, that are far apart and that are no numbers.                        *)
MCTokenPrompts == {<<0>>, <<1, 2>>, <<>>, <<1, 3>>}
MCTraces == {<<1, 2>>, <<2, 2, 1>>}
MCLogits == [1..3 -> {0, 1}] \cup {<<0, 900, -900>>, <<NaN, 0, 1>>}
MCReferences == [1..3 -> {0, -7, -10, NaN}] \cup {<<1, 0, 0>>}
MCLnOf == <<0, 7, 11>>
MCWindows == {<<>>, <<<<-10, 0, NaN>>>>}
=============================================================================
