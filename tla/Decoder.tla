------------------------------- MODULE Decoder -------------------------------
(***************************************************************************)
(* The CPU reference decoder: the batch forward pass (forward_one), the    *)
(* incremental one that caches keys and values (ForwardRun), free-running  *)
(* greedy decoding (run_greedy) and the two comparisons with a reference   *)
(* (compare_position, compare_gpu_logits).                                 *)
(*                                                                         *)
(* The arithmetic of the forward pass is symbolic: an f32 row, or one head *)
(* of one, is the term of the operations that made it, in their order, so  *)
(* that equal terms are byte-identical values.  Buffers keep the flat      *)
(* layout of the code, in units of one head.  Logits are numbers, whole    *)
(* multiples of a unit so large that exp of a negative one vanishes in the *)
(* sum of a softmax: that sum is then the number of maxima.                *)
(***************************************************************************)
EXTENDS Integers, Sequences, SequencesExt, FiniteSets

CONSTANTS
  LAYER_COUNT, HEAD_COUNT, KV_HEAD_COUNT, VOCAB_SIZE,
  EOG_TOKENS,          \* never a greedy prediction
  GREEDY_TOKEN_COUNT,  \* the longest greedy run
  WINDOW_POSITIONS,    \* positions the captured reference may cover
  TOPK_K, TOPK_MIN_OVERLAP,
  LnOf,                \* LnOf[n]: ln(n), in tenths
  BAND_DELTA,          \* the envelope of log-probabilities
  Q2_ATOL, Q2_RTOL,    \* the tolerance of device logits
  TokenPrompts,             \* token sequences a run is started with
  Traces,              \* traces a greedy run is compared with
  Logits,              \* logit vectors the model may produce
  References,          \* vectors of the other side of a comparison
  Windows,             \* captured references of a greedy run
  MaxTokens            \* bound: tokens of a run

(* attention_gqa checks that the query heads share the key-value heads     *)
(* evenly.                                                                 *)
ASSUME ShapeAssumption ==
  /\ LAYER_COUNT \in Nat /\ HEAD_COUNT \in Nat \ {0} /\ KV_HEAD_COUNT \in Nat \ {0}
  /\ HEAD_COUNT % KV_HEAD_COUNT = 0
  /\ VOCAB_SIZE \in Nat \ {0} /\ EOG_TOKENS \subseteq 0..(VOCAB_SIZE - 1)
  /\ GREEDY_TOKEN_COUNT \in Nat \ {0} /\ MaxTokens \in Nat

ASSUME TokensAssumption == TokenPrompts \subseteq Seq(Int) /\ Traces \subseteq Seq(Int)

VARIABLES
  run,      \* the ForwardRun, NoRun before it has a token
  greedy,   \* the record of run_greedy so far, or NoGreedy
  verdict   \* the outcome of a comparison, or NoVerdict

decoderVars == <<run, greedy, verdict>>

NoGreedy == [trace |-> <<>>]
NoVerdict == [kind |-> "none"]
Vocab == 0..(VOCAB_SIZE - 1)
-----------------------------------------------------------------------------
(* The decoder's operations, as terms.  A weight is named by its tensor.   *)

Weight(il, base) == <<"blk", il, base>>
rms_norm(x, w) == <<"rms_norm", w, x>>
dense(w, x, heads) == [h \in 1..heads |-> <<"dense", w, x, h>>]
residual_add(a, b) == <<"residual_add", a, b>>
silu(x) == <<"silu", x>>
swiglu(gate, up) == <<"mul", silu(gate), up>>
kv_f16_round(x) == <<"f16", x>>
rope_norm(x, pos) == <<"rope", x, pos>>
rope_all_heads(x, pos) == [h \in DOMAIN x |-> rope_norm(x[h], pos)]
softmax_row(scores) == <<"softmax", scores>>
embed_row(token) == <<"token_embd", token>>

(* Rows of heads laid end to end, and row t (from zero) of such a buffer. *)
Flat(rows, heads) ==
  [x \in 1..(Len(rows) * heads) |-> rows[((x - 1) \div heads) + 1][((x - 1) % heads) + 1]]
RowOf(flat, heads, t) == [x \in 1..heads |-> flat[t * heads + x]]

(* What one query head makes of the rows 0..last of one key-value head. *)
Context(query, k, v, last, kv_head) ==
  LET At(flat, j) == flat[j * KV_HEAD_COUNT + kv_head + 1]
      scores == [j \in 1..(last + 1) |-> <<"dot", query, At(k, j - 1)>>]
  IN  <<"weighted", softmax_row(scores), [j \in 1..(last + 1) |-> At(v, j - 1)]>>

(* Query row i of n_q attends to the rows 0..n_kv-n_q+i, query head h to   *)
(* the key-value head kv_head[h] of each.                                  *)
Attention(q, k, v, n_q, n_kv, kv_head) ==
  [x \in 1..(n_q * HEAD_COUNT) |->
     Context(q[x], k, v, n_kv - n_q + ((x - 1) \div HEAD_COUNT), kv_head[(x - 1) % HEAD_COUNT])]

(* The decoder's kernel groups consecutive query heads; the one of         *)
(* decoder_ops.rs, which only tests use, deals them out in turn.           *)
attention_gqa(q, k, v, n_q, n_kv) ==
  Attention(q, k, v, n_q, n_kv,
            [h \in 0..(HEAD_COUNT - 1) |-> h \div (HEAD_COUNT \div KV_HEAD_COUNT)])
attention_causal(q, k, v, n_q, n_kv) ==
  Attention(q, k, v, n_q, n_kv, [h \in 0..(HEAD_COUNT - 1) |-> h % KV_HEAD_COUNT])

(* What follows the attention of one row: projection, residual, ffn. *)
FinishRow(il, h, ctx) ==
  LET h2   == residual_add(h, dense(Weight(il, "attn_output"), ctx, 1)[1])
      f    == rms_norm(h2, Weight(il, "ffn_norm"))
      gate == dense(Weight(il, "ffn_gate"), f, 1)[1]
      up   == dense(Weight(il, "ffn_up"), f, 1)[1]
  IN  residual_add(h2, dense(Weight(il, "ffn_down"), swiglu(gate, up), 1)[1])

Heads(il, base, h, heads) ==
  dense(Weight(il, base), rms_norm(h, Weight(il, "attn_norm")), heads)

Rounded(row) == [x \in DOMAIN row |-> kv_f16_round(row[x])]
QueryRow(il, h, pos) == rope_all_heads(Heads(il, "attn_q", h, HEAD_COUNT), pos)
KeyRow(il, h, pos) == Rounded(rope_all_heads(Heads(il, "attn_k", h, KV_HEAD_COUNT), pos))
ValueRow(il, h) == Rounded(Heads(il, "attn_v", h, KV_HEAD_COUNT))

(* One decoder layer over all rows at once. *)
forward_layer(il, h) ==
  LET n == Len(h)
      q == Flat([t \in 1..n |-> QueryRow(il, h[t], t - 1)], HEAD_COUNT)
      k == Flat([t \in 1..n |-> KeyRow(il, h[t], t - 1)], KV_HEAD_COUNT)
      v == Flat([t \in 1..n |-> ValueRow(il, h[t])], KV_HEAD_COUNT)
      ctx == attention_gqa(q, k, v, n, n)
  IN  [t \in 1..n |-> FinishRow(il, h[t], RowOf(ctx, HEAD_COUNT, t - 1))]

Project(h) == dense("token_embd", rms_norm(h, "output_norm"), 1)[1]

(* The rows between the layers. *)
Hidden(tokens) ==
  LET rows[il \in 0..LAYER_COUNT] ==
        IF il = 0 THEN [t \in 1..Len(tokens) |-> embed_row(tokens[t])]
        ELSE forward_layer(il, rows[il - 1])
  IN  rows

forward_one(tokens) == Project(Hidden(tokens)[LAYER_COUNT][Len(tokens)])
-----------------------------------------------------------------------------
(* The incremental run.  tokens is a ghost: what was pushed so far.        *)

NoRun ==
  [n |-> 0, h_last |-> "zeros", tokens |-> <<>>,
   k_cache |-> [il \in 1..LAYER_COUNT |-> <<>>],
   v_cache |-> [il \in 1..LAYER_COUNT |-> <<>>]]

(* One layer of push_token: extend the caches, then attend as the row n of *)
(* n + 1.                                                                  *)
PushLayer(acc, il) ==
  LET k_cache == acc.k_cache[il] \o KeyRow(il, acc.h_last, acc.n)
      v_cache == acc.v_cache[il] \o ValueRow(il, acc.h_last)
      ctx == attention_gqa(QueryRow(il, acc.h_last, acc.n), k_cache, v_cache, 1, acc.n + 1)
  IN  [acc EXCEPT !.k_cache[il] = k_cache, !.v_cache[il] = v_cache,
                  !.h_last = FinishRow(il, acc.h_last, ctx)]

Through(r, token) ==
  LET acc[il \in 0..LAYER_COUNT] ==
        IF il = 0 THEN [r EXCEPT !.h_last = embed_row(token)] ELSE PushLayer(acc[il - 1], il)
  IN  acc[LAYER_COUNT]

(* A push that forgets to advance the position. *)
PushInPlace(r, token) ==
  [Through(r, token) EXCEPT !.n = IF @ = 0 THEN 1 ELSE @, !.tokens = Append(@, token)]

Push(r, token) == [Through(r, token) EXCEPT !.n = @ + 1, !.tokens = Append(@, token)]

Started(tokens) ==
  LET runs[i \in 0..Len(tokens)] == IF i = 0 THEN NoRun ELSE Push(runs[i - 1], tokens[i])
  IN  runs[Len(tokens)]

(* ForwardRun::new refuses an empty prompt, and any token outside the      *)
(* vocabulary, also after pushing the ones before it.                      *)
new(tokens) ==
  /\ run.n = 0 /\ greedy = NoGreedy
  /\ tokens # <<>> /\ \A i \in DOMAIN tokens : tokens[i] \in Vocab
  /\ run' = Started(tokens)
  /\ UNCHANGED <<greedy, verdict>>

(* Teacher forcing: any token of the vocabulary; others leave the run be. *)
push_token(token) ==
  /\ run.n > 0 /\ greedy = NoGreedy
  /\ token \in Vocab
  /\ run.n < MaxTokens
  /\ run' = Push(run, token)
  /\ UNCHANGED <<greedy, verdict>>

position_logits(r) == Project(r.h_last)
-----------------------------------------------------------------------------
(* Floats of the logits: integers, NaN and minus infinity, the difference  *)
(* of two finite floats too far apart.                                     *)

NaN == 2000000
NegInf == -1000000
MaxFloat == 1000
Floats == {NaN, NegInf} \cup (-MaxFloat)..MaxFloat

(* Logits are as many as there are tokens, on either side of a comparison, *)
(* and the envelope is a finite float.                                     *)
ASSUME LogitsAssumption ==
  /\ Logits \subseteq [1..VOCAB_SIZE -> Floats] /\ References \subseteq [1..VOCAB_SIZE -> Floats]
  /\ LnOf \in [1..VOCAB_SIZE -> 0..MaxFloat] /\ BAND_DELTA \in 0..MaxFloat

IsFinite(x) == x \notin {NaN, NegInf}
AllFinite(s) == \A i \in DOMAIN s : IsFinite(s[i])
Greater(a, b) == a # NaN /\ b # NaN /\ a > b
AbsOf(x) == IF x < 0 THEN -x ELSE x
Minus(a, b) ==
  IF a = NaN \/ b = NaN \/ (a = NegInf /\ b = NegInf) THEN NaN
  ELSE IF a = NegInf \/ a - b < -MaxFloat THEN NegInf ELSE a - b

Unit == 10                               \* a logit of 1 is 100.0

(* log_softmax fails on a logit that is not finite; what is finite may     *)
(* still be so far below the maximum that its logarithm is not.            *)
log_softmax(logits) ==
  LET max == CHOOSE m \in Range(logits) : \A x \in Range(logits) : x <= m
      ln_sum == LnOf[Cardinality({i \in DOMAIN logits : logits[i] = max})]
  IN  [i \in DOMAIN logits |->
         LET d == Minus(logits[i], max) IN IF d = NegInf THEN NegInf ELSE Unit * d - ln_sum]

(* The first of the greatest, the end-of-generation tokens left out; zero  *)
(* when nothing is comparable.                                             *)
top1_non_eog(logits) ==
  LET best == {t \in Vocab \ EOG_TOKENS :
                 /\ Greater(logits[t + 1], NegInf)
                 /\ \A u \in Vocab \ EOG_TOKENS :
                      ~ Greater(logits[u + 1], logits[t + 1])}
  IN  IF best = {} THEN 0 ELSE CHOOSE t \in best : \A u \in best : t <= u

(* The stable descending order; with a NaN the comparison is no order and  *)
(* the sort may return the ids in any.                                     *)
Ranked(logp) ==
  SortSeq([i \in DOMAIN logp |-> i - 1],
          LAMBDA a, b : \/ logp[a + 1] > logp[b + 1]
                        \/ logp[a + 1] = logp[b + 1] /\ a < b)
topk_ids(logp, k) ==
  IF NaN \in Range(logp) THEN kSubset(k, Vocab)
  ELSE {Range(SubSeq(Ranked(logp), 1, k))}

(* f32::max returns the other operand of a NaN: a NaN deviation is lost. *)
Deviations(a, b) == {AbsOf(Minus(a[i], b[i])) : i \in DOMAIN a}
max_band_deviation(a, b) ==
  LET seen == (Deviations(a, b) \ {NaN}) \cup {0}
  IN  CHOOSE m \in seen : \A x \in seen : x <= m
-----------------------------------------------------------------------------
(* Greedy decoding.                                                        *)

run_greedy(trace, window) ==
  /\ run.n > 0 /\ greedy = NoGreedy
  /\ trace # <<>>
  /\ greedy' = [trace |-> trace, window |-> window, generated |-> <<>>,
                all_finite |-> TRUE, first_divergence |-> {}, prompt |-> run.tokens]
  /\ UNCHANGED <<run, verdict>>

RunLen(g) == IF Len(g.trace) < GREEDY_TOKEN_COUNT THEN Len(g.trace) ELSE GREEDY_TOKEN_COUNT

(* The record taken when token is not the traced one; first_divergence is  *)
(* empty or holds the one record.                                          *)
Divergence(g, token, logp) ==
  LET i == Len(g.generated)
      covered == i < WINDOW_POSITIONS /\ Len(g.window) > i
      dev == max_band_deviation(logp, g.window[i + 1])
  IN  [position |-> i, expected |-> g.trace[i + 1], token |-> token,
       band |-> IF covered THEN {dev} ELSE {},
       failing |-> {"Top1"} \cup (IF covered /\ dev > BAND_DELTA THEN {"Band"} ELSE {})
                            \cup (IF AllFinite(logp) THEN {} ELSE {"Finite"})]

Diverges(g, token) ==
  g.first_divergence = {} /\ token # g.trace[Len(g.generated) + 1]

(* One iteration.  Logits that are not finite end the run with an error;   *)
(* the last token is not pushed.                                           *)
GreedyStep(logits) ==
  LET logp == log_softmax(logits)
      token == top1_non_eog(logits)
      g == greedy
  IN  /\ g # NoGreedy /\ Len(g.generated) < RunLen(g)
      /\ AllFinite(logits)
      /\ greedy' = [g EXCEPT
           !.generated = Append(@, token),
           !.all_finite = @ /\ AllFinite(logp),
           !.first_divergence =
              IF Diverges(g, token) THEN {Divergence(g, token, logp)} ELSE @]
      /\ run' = IF Len(g.generated) + 1 < RunLen(g) THEN Push(run, token) ELSE run
      /\ UNCHANGED verdict
-----------------------------------------------------------------------------
(* The two comparisons.                                                    *)

(* Without the gate that asks every value to be finite. *)
FailingUngated(top1, topk, band, finite) ==
  (IF top1 THEN {} ELSE {"Top1"}) \cup (IF topk THEN {} ELSE {"TopK"})
  \cup (IF band THEN {} ELSE {"Band"})

FailingOf(top1, topk, band, finite) ==
  (IF top1 THEN {} ELSE {"Top1"}) \cup (IF topk THEN {} ELSE {"TopK"})
  \cup (IF band THEN {} ELSE {"Band"}) \cup (IF finite THEN {} ELSE {"Finite"})

compare_position(oracle, comparator, trace_token) ==
  LET logp == log_softmax(oracle) IN
  /\ run.n = 0
  /\ AllFinite(oracle)
  /\ \E mine \in topk_ids(logp, TOPK_K), theirs \in topk_ids(comparator, TOPK_K) :
       verdict' = [kind |-> "position", ours |-> logp, theirs |-> comparator,
                   top1 |-> top1_non_eog(oracle), expected |-> trace_token,
                   failing |-> FailingOf(
                      top1_non_eog(oracle) = trace_token,
                      Cardinality(mine \cap theirs) >= TOPK_MIN_OVERLAP,
                      max_band_deviation(logp, comparator) <= BAND_DELTA,
                      AllFinite(comparator) /\ AllFinite(logp))]
  /\ UNCHANGED <<run, greedy>>

(* Elements that are not finite on either side fail the numeric row. *)
NumericMatch(gpu, golden) ==
  \A i \in DOMAIN gpu :
    /\ IsFinite(gpu[i]) /\ IsFinite(golden[i])
    /\ AbsOf(gpu[i] - golden[i]) <= Q2_ATOL + Q2_RTOL * AbsOf(golden[i])

compare_gpu_logits(gpu, golden) ==
  /\ run.n = 0
  /\ verdict' = [kind |-> "prefill", ours |-> gpu, theirs |-> golden,
                 top1 |-> top1_non_eog(gpu), expected |-> top1_non_eog(golden),
                 failing |-> FailingOf(top1_non_eog(gpu) = top1_non_eog(golden), TRUE,
                                       NumericMatch(gpu, golden),
                                       AllFinite(gpu) /\ AllFinite(golden))]
  /\ UNCHANGED <<run, greedy>>
-----------------------------------------------------------------------------
DecoderInit == run = NoRun /\ greedy = NoGreedy /\ verdict = NoVerdict

(* Each comparison is a call of its own: none follows another. *)
DecoderNext ==
  /\ verdict = NoVerdict
  /\ \/ \E tokens \in TokenPrompts : new(tokens)
     \/ \E token \in Vocab \cup {-1, VOCAB_SIZE} : push_token(token)
     \/ \E trace \in Traces, window \in Windows : run_greedy(trace, window)
     \/ \E logits \in Logits : GreedyStep(logits)
     \/ \E ours \in Logits, theirs \in References, token \in Vocab :
          compare_position(ours, theirs, token)
     \/ \E ours, theirs \in References : compare_gpu_logits(ours, theirs)

DecoderSpec == DecoderInit /\ [][DecoderNext]_decoderVars
-----------------------------------------------------------------------------
(* The cached keys and values change no number: after any tokens, pushed   *)
(* as a prompt, by teacher forcing or by greedy decoding, the logits of    *)
(* the run are byte for byte those of one forward pass over all tokens.    *)
(* The other attention kernel has this too: the last row of a batch is the *)
(* single query against the same cache.                                    *)
IncrementalIsBatch ==
  run.n > 0 =>
    /\ position_logits(run) = forward_one(run.tokens)
    /\ LET Query(t) == Heads(1, "attn_q", embed_row(run.tokens[t]), HEAD_COUNT)
           batch == Flat([t \in 1..run.n |-> Query(t)], HEAD_COUNT)
           k == run.k_cache[1]  v == run.v_cache[1]
       IN  attention_causal(Query(run.n), k, v, 1, run.n)
             = RowOf(attention_causal(batch, k, v, run.n, run.n), HEAD_COUNT, run.n - 1)

(* Greedy decoding records the first position, and only that, where it     *)
(* left the trace, with the two tokens of that position, and feeds back    *)
(* its own predictions, all but the last.                                  *)
DivergenceIsFirst ==
  greedy # NoGreedy =>
    LET left == {i \in DOMAIN greedy.generated : greedy.generated[i] # greedy.trace[i]}
        fed == IF Len(greedy.generated) = RunLen(greedy) THEN Front(greedy.generated)
               ELSE greedy.generated
    IN  /\ greedy.first_divergence = {} <=> left = {}
        /\ \A d \in greedy.first_divergence :
             /\ d.position + 1 \in left /\ \A i \in left : d.position < i
             /\ d.token = greedy.generated[d.position + 1]
             /\ d.expected = greedy.trace[d.position + 1]
        /\ run.tokens = greedy.prompt \o fed

(* A comparison with no failing threshold is an agreement: every value of  *)
(* both sides is finite and within the tolerance, and the predictions are  *)
(* the same, although the greatest deviation is computed with an operation *)
(* that drops NaN.                                                         *)
AgreementIsReal ==
  verdict # NoVerdict /\ verdict.failing = {} =>
    /\ AllFinite(verdict.ours) /\ AllFinite(verdict.theirs)
    /\ verdict.top1 = verdict.expected
    /\ \A i \in DOMAIN verdict.ours :
         AbsOf(verdict.ours[i] - verdict.theirs[i])
           <= IF verdict.kind = "position" THEN BAND_DELTA
              ELSE Q2_ATOL + Q2_RTOL * AbsOf(verdict.theirs[i])

(* A comparison of a run with its reference is honest: an agreeing verdict *)
(* means that the logits agree, a divergence names the first position that *)
(* lost it.                                                                *)
VerdictsReal == AgreementIsReal /\ DivergenceIsFirst
=============================================================================
