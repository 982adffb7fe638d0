------------------------------ MODULE Tokenizer ------------------------------
(***************************************************************************)
(* The byte-pair tokenizer of src/tokenizer: construction from the model   *)
(* file's facts and encode (mod.rs), the pre-tokenizer (pretoken.rs) and   *)
(* the merge loop (bpe.rs).                                                *)
(*                                                                         *)
(* A text is a sequence of characters; Class gives the codepoint flags     *)
(* that matter (the tables of pretoken.rs), Display the display symbols of *)
(* a character's UTF-8 bytes.  Token texts are sequences of display        *)
(* symbols, except the specials', which are matched against the raw text.  *)
(***************************************************************************)
EXTENDS Integers, Sequences, FiniteSets, SequencesExt

CONSTANTS
    Facts, Texts,           \* model files and texts the caller may present
    Class, Display, Ascii,
    EXPECTED_VOCAB_SIZE, EXPECTED_MERGES, MAX_ENCODE_OUTPUT_TOKENS, MAX_ENCODE_INPUT

VARIABLES
    tk,     \* the tokenizer, or NoTk
    job     \* the encode call in progress and its result

tokVars == <<tk, job>>

NoTk == [state |-> "none"]
NoJob == [phase |-> "idle"]

TokInit == tk = NoTk /\ job = NoJob

-----------------------------------------------------------------------------
(* Gpt2BpeTokenizer::new.  Of equal token texts, and of equal merges, the  *)
(* first counts; of single-byte tokens the last is the byte's fallback.    *)

Ids(tokens, t) == {i \in DOMAIN tokens : tokens[i] = t}
First(S) == CHOOSE i \in S : \A j \in S : i <= j
Final(S) == CHOOSE i \in S : \A j \in S : i >= j

SpecialsOf(f) ==
    LET special == {i \in DOMAIN f.tokens : f.types[i] \in {"control", "unknown", "user"}}
        Before(i, j) == \/ Len(f.tokens[i]) > Len(f.tokens[j])
                        \/ Len(f.tokens[i]) = Len(f.tokens[j]) /\ i < j
    IN  [k \in 1..Cardinality(special) |->
            LET id == SetToSortSeq(special, Before)[k]
            IN  [text |-> f.tokens[id], id |-> id, kind |-> f.types[id]]]

Refusal(f) ==
    CASE f.model # "gpt2" -> "UnsupportedModel"
      [] f.pre # "smollm" -> "UnsupportedPreTokenizer"
      [] Len(f.tokens) # EXPECTED_VOCAB_SIZE -> "VocabSizeMismatch"
      [] Len(f.types) # Len(f.tokens) -> "TokenTypeCountMismatch"
      [] Len(f.merges) # EXPECTED_MERGES -> "MergesCountMismatch"
      [] f.scores -> "ScoresPresent"
      [] f.add_bos -> "AddBosTokenNotSupported"
      [] f.add_space_prefix -> "AddSpacePrefixNotSupported"
      [] \E i \in DOMAIN f.tokens : f.tokens[i] = <<>> \/ " " \in Range(f.tokens[i]) -> "ByteBoundaryViolation"
      [] \E i \in DOMAIN f.merges : <<>> \in Range(f.merges[i]) -> "MalformedMergeString"
      [] \E id \in f.special_ids : id \notin DOMAIN f.tokens -> "TokenIdOutOfRange"
      [] OTHER -> "ok"

new_tokenizer(f) ==
    /\ tk = NoTk
    /\ tk' = IF Refusal(f) # "ok" THEN [state |-> Refusal(f)]
             ELSE [state |-> "ready", tokens |-> f.tokens, merges |-> f.merges,
                   specials |-> SpecialsOf(f), eos |-> f.eos,
                   eog |-> {i \in DOMAIN f.tokens : f.tokens[i] \in f.eog_list} \cup {f.eos}]
    /\ UNCHANGED job

-----------------------------------------------------------------------------
(* Special-token partition.                                                *)

Text(start, len) == [start |-> start, len |-> len, id |-> 0]
TokenFragment(id) == [start |-> 0, len |-> 0, id |-> id]
Slice(t, start, len) == SubSeq(t, start + 1, start + len)

(* find_bytes: the leftmost occurrence in from..end, or -1.                *)
find_bytes(t, pattern, from, end) ==
    LET hits == {p \in from..(end - Len(pattern)) : Slice(t, p, Len(pattern)) = pattern}
    IN  IF pattern = <<>> \/ hits = {} THEN -1 ELSE First(hits)

(* The inner loop: splits the fragment at `at' on every occurrence, and    *)
(* counts the fragments each split inserts.                                *)
RECURSIVE SplitAll(_, _, _, _, _, _, _)
SplitAll(frags, at, base, len, total, t, special) ==
    LET m == find_bytes(t, special.text, base, base + len)
        right == m + Len(special.text)
        right_len == base + len - right
        replacement == (IF m > base THEN <<Text(base, m - base)>> ELSE <<>>)
                       \o <<TokenFragment(special.id)>>
                       \o (IF right_len > 0 THEN <<Text(right, right_len)>> ELSE <<>>)
        n == Len(replacement)
        spliced == SubSeq(frags, 1, at - 1) \o replacement \o SubSeq(frags, at + 1, Len(frags))
    IN  IF m = -1 THEN [frags |-> frags, total |-> total]
        ELSE IF right_len = 0 THEN [frags |-> spliced, total |-> total + n]
        ELSE SplitAll(spliced, at + n - 1, right, right_len, total + n, t, special)

(* The outer loop advances by the count, which takes the remainder that    *)
(* was split again for a fragment of its own.                              *)
Skip(total) == IF total = 0 THEN 1 ELSE total

RECURSIVE PartitionFrom(_, _, _, _)
PartitionFrom(frags, i, t, special) ==
    IF i > Len(frags) THEN frags
    ELSE IF frags[i].id # 0 THEN PartitionFrom(frags, i + 1, t, special)
    ELSE LET r == SplitAll(frags, i, frags[i].start, frags[i].len, 0, t, special)
         IN  PartitionFrom(r.frags, i + Skip(r.total), t, special)

partition_fragments(frags, t, special) == PartitionFrom(frags, 1, t, special)

Parsed(special, parse) == parse \/ special.kind = "user"

-----------------------------------------------------------------------------
(* The pre-tokenizer, over the characters from..end of a fragment.         *)

NumberSpans(t) ==
    LET cuts == {i \in 0..Len(t) : \/ i \in {0, Len(t)}
                                   \/ i < Len(t) /\ Class[t[i + 1]] = "N"
                                   \/ i > 0 /\ Class[t[i]] = "N"}
        s == SetToSortSeq(cuts, <)
    IN  [k \in 1..(Len(s) - 1) |-> <<s[k], s[k + 1]>>]

(* Of several blanks before more text the last is left to the next piece.  *)
BlanksEnd(pos, ws, end) == IF ws - pos > 1 /\ ws < end THEN ws - 1 ELSE ws

(* One round of split_gpt2_span: the end of the piece that starts at pos.  *)
PieceEnd(t, pos, end) ==
    LET At(i) == IF i < end THEN t[i + 1] ELSE "none"
        Flags(i) == IF i < end THEN Class[t[i + 1]] ELSE "0"
        stretch[i \in pos..end] == IF i < end /\ Flags(i) = Flags(pos + (IF At(pos) = " " THEN 1 ELSE 0))
                               THEN stretch[i + 1] ELSE i
        spaces[i \in pos..end] == IF Flags(i) = "W" THEN spaces[i + 1] ELSE i
        skip == IF At(pos) = " " THEN 1 ELSE 0
        flags2 == Flags(pos + skip)
        ws == spaces[pos]
    IN  IF At(pos) = "'" /\ At(pos + 1) \in {"s", "t", "m", "d"} THEN pos + 2
        ELSE IF At(pos) = "'" /\ <<At(pos + 1), At(pos + 2)>> \in {<<"r", "e">>, <<"v", "e">>, <<"l", "l">>}
             THEN pos + 3
        ELSE IF flags2 \in {"L", "N", "P"} THEN stretch[pos + skip]
        ELSE BlanksEnd(pos, ws, end)

RECURSIVE split_gpt2_span(_, _, _)
split_gpt2_span(t, pos, end) ==
    IF pos >= end THEN <<>>
    ELSE LET e == PieceEnd(t, pos, end) IN <<<<pos, e>>>> \o split_gpt2_span(t, e, end)

pre_tokenize_smollm(t) ==
    FlattenSeq([k \in DOMAIN NumberSpans(t) |->
        split_gpt2_span(t, NumberSpans(t)[k][1], NumberSpans(t)[k][2])])

byte_encode(w) == FlattenSeq([i \in DOMAIN w |-> Display[w[i]]])

-----------------------------------------------------------------------------
(* The merge loop.  A symbol is a range of the word with chain links; a    *)
(* queue entry remembers the text it was made for, and is skipped when a   *)
(* neighbour has merged since.                                             *)

SymText(syms, w, i) == Slice(w, syms[i].start, syms[i].n)
Ranks(l, r) == {k \in DOMAIN tk.merges : tk.merges[k] = <<l, r>>}

Bigram(syms, w, l, r) ==
    IF l = 0 \/ r = 0 THEN {}
    ELSE LET lt == SymText(syms, w, l)  rt == SymText(syms, w, r)
         IN  IF Ranks(lt, rt) = {} THEN {}
             ELSE {[rank |-> First(Ranks(lt, rt)), left |-> l, right |-> r, text |-> lt \o rt]}

Symbols(w) == [i \in DOMAIN w |->
    [prev |-> i - 1, next |-> IF i = Len(w) THEN 0 ELSE i + 1, start |-> i - 1, n |-> 1]]

(* The next word of the text fragments; fragments that are tokens go out.  *)
WordsOf(frags, t) ==
    FlattenSeq([k \in DOMAIN frags |->
        IF frags[k].id # 0 THEN <<frags[k]>>
        ELSE LET ft == Slice(t, frags[k].start, frags[k].len)
                 spans == pre_tokenize_smollm(ft)
             IN  [j \in DOMAIN spans |->
                    Text(frags[k].start + spans[j][1], spans[j][2] - spans[j][1])]])

encode(t, parse) ==
    /\ tk.state = "ready" /\ job = NoJob
    /\ job' = IF t = <<>> THEN [phase |-> "done", text |-> t, parse |-> parse, out |-> <<>>, words |-> <<>>]
              ELSE IF Len(t) > MAX_ENCODE_INPUT THEN [phase |-> "InputTooLarge"]
              ELSE LET parsed == SelectSeq(tk.specials, LAMBDA s : Parsed(s, parse))
                       frags == FoldLeft(LAMBDA fs, s : partition_fragments(fs, t, s),
                                         <<Text(0, Len(t))>>, parsed)
                   IN  [phase |-> "words", text |-> t, parse |-> parse, frags |-> frags,
                        words |-> WordsOf(frags, t), k |-> 1, out |-> <<>>]
    /\ UNCHANGED tk

(* Token ids appended one by one, up to the ceiling.                       *)
PushIds(j, ids) == IF Len(j.out) + Len(ids) > MAX_ENCODE_OUTPUT_TOKENS
                THEN [phase |-> "OutputTooLarge"] ELSE [j EXCEPT !.out = @ \o ids]

Word(k) == byte_encode(Slice(job.text, job.words[k].start, job.words[k].len))

NextWord ==
    /\ job.phase = "words"
    /\ job' = IF job.k > Len(job.words)
              THEN [phase |-> "done", text |-> job.text, parse |-> job.parse, frags |-> job.frags,
                    out |-> job.out, words |-> job.words]
              ELSE IF job.words[job.k].id # 0
              THEN PushIds([job EXCEPT !.k = @ + 1], <<job.words[job.k].id>>)
              ELSE LET w == Word(job.k)
                   IN  [phase |-> "merge", text |-> job.text, parse |-> job.parse,
                        frags |-> job.frags, words |-> job.words, k |-> job.k, out |-> job.out,
                        word |-> w, syms |-> Symbols(w),
                        queue |-> UNION {Bigram(Symbols(w), w, i - 1, i) : i \in 2..Len(w)}]
    /\ UNCHANGED tk

(* Entries of one rank from the right end of the word. *)
LeastRight(e) == \A o \in job.queue : e.rank < o.rank \/ (e.rank = o.rank /\ e.left >= o.left)

Least(e) == \A o \in job.queue : e.rank < o.rank \/ (e.rank = o.rank /\ e.left <= o.left)

(* A stale entry: one side was absorbed, or its text has grown.            *)
Outdated(e) ==
    LET lt == SymText(job.syms, job.word, e.left)
        rt == SymText(job.syms, job.word, e.right)
    IN  lt = <<>> \/ rt = <<>> \/ lt \o rt # e.text

Merged(syms, e) ==
    LET after == syms[e.right].next
    IN  [i \in DOMAIN syms |->
            IF i = e.left THEN [syms[i] EXCEPT !.n = @ + syms[e.right].n, !.next = after]
            ELSE IF i = e.right THEN [syms[i] EXCEPT !.n = 0]
            ELSE IF i = after THEN [syms[i] EXCEPT !.prev = e.left]
            ELSE syms[i]]

Pop(e) ==
    /\ Least(e)
    /\ LET syms == Merged(job.syms, e)
           rest == job.queue \ {e}
       IN  job' = IF Outdated(e) THEN [job EXCEPT !.queue = rest]
                  ELSE [job EXCEPT !.syms = syms,
                          !.queue = rest \cup Bigram(syms, job.word, syms[e.left].prev, e.left)
                                         \cup Bigram(syms, job.word, e.left, syms[e.left].next)]
    /\ UNCHANGED tk

(* A symbol that is no token falls back to the single-byte tokens of the   *)
(* bytes of its display text; only ASCII bytes can have one, others drop.  *)
Emit(s) ==
    IF Ids(tk.tokens, s) # {} THEN <<First(Ids(tk.tokens, s))>>
    ELSE FlattenSeq([i \in DOMAIN s |->
            IF s[i] \in Ascii /\ Ids(tk.tokens, <<s[i]>>) # {}
            THEN <<Final(Ids(tk.tokens, <<s[i]>>))>> ELSE <<>>])

(* The walk along the chain from the first symbol.                         *)
RECURSIVE Chain(_, _)
Chain(syms, i) == IF i = 0 THEN <<>> ELSE <<i>> \o Chain(syms, syms[i].next)

Pieces == [k \in DOMAIN Chain(job.syms, 1) |-> SymText(job.syms, job.word, Chain(job.syms, 1)[k])]

Collect ==
    /\ job.phase = "merge" /\ job.queue = {}
    /\ LET ids == FlattenSeq([k \in DOMAIN Pieces |-> Emit(Pieces[k])])
           back == [phase |-> "words", text |-> job.text, parse |-> job.parse, frags |-> job.frags,
                    words |-> job.words, k |-> job.k + 1, out |-> job.out]
       IN  job' = PushIds(back, ids)
    /\ UNCHANGED tk

TokNext ==
    \/ tk = NoTk /\ \E f \in Facts : new_tokenizer(f)
    \/ job = NoJob /\ \E t \in Texts, parse \in BOOLEAN : encode(t, parse)
    \/ NextWord
    \/ job.phase = "merge" /\ \E e \in job.queue : Pop(e)
    \/ Collect

TokSpec == TokInit /\ [][TokNext]_tokVars

-----------------------------------------------------------------------------
(* Reference for the merge loop: merge the leftmost pair of least rank     *)
(* while there is one.                                                     *)
RECURSIVE Greedy(_)
Greedy(ps) ==
    LET RankAt(i) == Ranks(ps[i], ps[i + 1])
        pairs == {i \in 1..(Len(ps) - 1) : RankAt(i) # {}}
        best == CHOOSE i \in pairs : \A j \in pairs :
                    First(RankAt(i)) < First(RankAt(j)) \/ (First(RankAt(i)) = First(RankAt(j)) /\ i <= j)
    IN  IF pairs = {} THEN ps
        ELSE Greedy(SubSeq(ps, 1, best - 1) \o <<ps[best] \o ps[best + 1]>> \o SubSeq(ps, best + 2, Len(ps)))

(* The queue with its stale entries computes what greedy merging computes: *)
(* at every moment the chain can still be completed to the greedy result,  *)
(* and the chain is the word.                                              *)
MergesGreedily ==
    job.phase = "merge" =>
        /\ FlattenSeq(Pieces) = job.word
        /\ Greedy(Pieces) = Greedy([i \in DOMAIN job.word |-> <<job.word[i]>>])
        /\ job.queue = {} => Pieces = Greedy(Pieces)

(* When every byte and every merge result is a token, the ids spell the    *)
(* text: nothing is lost, repeated or reordered by partition, splitting,   *)
(* merging and lookup.                                                     *)
VocabClosed ==
    /\ \A c \in DOMAIN Display : \A i \in DOMAIN Display[c] : Ids(tk.tokens, <<Display[c][i]>>) # {}
    /\ \A k \in DOMAIN tk.merges : Ids(tk.tokens, tk.merges[k][1] \o tk.merges[k][2]) # {}
EncodingLossless ==
    (job.phase = "done" /\ VocabClosed) =>
        FlattenSeq([i \in DOMAIN job.out |-> tk.tokens[job.out[i]]]) = byte_encode(job.text)

(* Reference for the splitter: the first alternative of the documented     *)
(* expression that matches, each as long as it can be.                     *)
Matches(t, pos, end) ==
    LET Is(i, c) == i < end /\ t[i + 1] = c
        All(i, j, classes) == \A x \in i..(j - 1) : Class[t[x + 1]] \in classes
        Longest(S) == IF S = {} THEN -1 ELSE Final(S)
        Opt(classes) == Longest({e \in (pos + 1)..end :
                            \/ All(pos, e, classes)
                            \/ Is(pos, " ") /\ e > pos + 1 /\ All(pos + 1, e, classes)})
        Suffix(s) == pos + Len(s) <= end /\ Slice(t, pos, Len(s)) = s
        contractions == {<<"'", "s">>, <<"'", "t">>, <<"'", "m">>, <<"'", "d">>,
                         <<"'", "r", "e">>, <<"'", "v", "e">>, <<"'", "l", "l">>}
        hits == {s \in contractions : Suffix(s)}
        blank == {e \in (pos + 1)..end : All(pos, e, {"W"})}
        lookahead == {e \in blank : e = end \/ Class[t[e + 1]] = "W"}
        ordered == <<IF hits = {} THEN -1 ELSE pos + Len(CHOOSE s \in hits : TRUE),
                     Opt({"L"}), Opt({"N"}), Opt({"P"}), Longest(lookahead), Longest(blank)>>
    IN  SelectSeq(ordered, LAMBDA e : e # -1)[1]
RECURSIVE RegexSplit(_, _, _)
RegexSplit(t, pos, end) ==
    IF pos >= end THEN <<>>
    ELSE <<<<pos, Matches(t, pos, end)>>>> \o RegexSplit(t, Matches(t, pos, end), end)

(* The hand-written splitter cuts every fragment where its documented      *)
(* expression does, digits alone.                                          *)
SplitterIsRegex ==
    job.phase = "done" /\ job.text # <<>> =>
        \A k \in DOMAIN job.frags : job.frags[k].id = 0 =>
            LET t == Slice(job.text, job.frags[k].start, job.frags[k].len)
            IN  pre_tokenize_smollm(t) =
                  FlattenSeq([j \in DOMAIN NumberSpans(t) |->
                      RegexSplit(t, NumberSpans(t)[j][1], NumberSpans(t)[j][2])])

(* encode is the documented expression followed by byte-pair encoding: its *)
(* queue with stale entries merges as the greedy algorithm does at every   *)
(* step, the splitter cuts where the expression does, and the ids spell    *)
(* the text.                                                               *)
EncodingIsBpe == MergesGreedily /\ EncodingLossless /\ SplitterIsRegex

(* "split the raw text on the special-token texts": no text that is left   *)
(* after the partition contains a special the call parses.                 *)
SpecialsSplitOut ==
    job.phase = "words" =>
        \A k \in DOMAIN job.frags, s \in Range(tk.specials) :
            (job.frags[k].id = 0 /\ Parsed(s, job.parse)) =>
                find_bytes(job.text, s.text, job.frags[k].start,
                           job.frags[k].start + job.frags[k].len) = -1
=============================================================================
