--------------------------- MODULE Inference_proofs ---------------------------
(***************************************************************************)
(* Proofs about the inference path: SequenceState, ModelFile, Decoder and   *)
(* Dequant.                                                                *)
(*                                                                         *)
(* SequenceState, for any number of invocations, tokens, prompts and       *)
(* submissions.  What makes the properties inductive is that every         *)
(* position the sequence passed since an invocation started was published  *)
(* by one invocation (PassedIsOwned): a replay answers for that one.       *)
(*                                                                         *)
(* ModelFile, for any set of files and buffers.  Nothing in admission asks *)
(* for a key: that none is missing follows from counting them, and that    *)
(* two tensors are apart from each being past the end of the one before.   *)
(* FInv is the invariant.                                                  *)
(*                                                                         *)
(* Decoder, for any layers, heads, prompts, traces and logits.  A run that *)
(* holds what one pass over its tokens computes keeps doing so because no  *)
(* row of a layer depends on a later one (IsRun, PrefixHidden); a verdict  *)
(* without a failing threshold bounds every logit because the deviations   *)
(* it drops are those of values found not finite (BandBoundsAll).          *)
(*                                                                         *)
(* Dequant, for every format and any half patterns.  The size of a block   *)
(* is fixed, so nothing is induced over: each kernel's bits are shown to   *)
(* be at places written as a byte and a bit, an element and a bit of it    *)
(* are recovered from a place by mixed radices, and what the places leave  *)
(* is divided among the groups by an owner (Places, Filled, OwnedBy).      *)
(***************************************************************************)
EXTENDS SequenceState, ModelFile, Decoder, Dequant, Lists_proofs

(* An invocation that did not start has no part in the sequence. *)
UnstartedIsIdle ==
  \A i \in Invocation : ~started[i] => applied[i] = 0 /\ outcome[i] = "None"

(* A commit names the generation that goes with its position, and was      *)
(* never ahead of the sequence.                                            *)
CommitsAreConsistent ==
  \A i \in Invocation : started[i] =>
    commit[i].generation = commit[i].position + 1 /\ commit[i].position <= Len(history)

(* An applied commit is in the history. *)
AppliedIsInHistory ==
  \A i \in Invocation : applied[i] > 0 =>
    /\ commit[i].position < Len(history)
    /\ history[commit[i].position + 1] = commit[i].token

(* Every position passed since an invocation started was published by one. *)
PassedIsOwned ==
  \A i \in Invocation : started[i] /\ commit[i].position < Len(history) =>
    \E j \in Invocation : applied[j] > 0 /\ commit[j].position = commit[i].position

IInv ==
  /\ TypeOK /\ AdvancesTogether /\ AppliedOnce /\ OneOwnerPerPosition
  /\ AcknowledgedIsPublished
  /\ UnstartedIsIdle /\ CommitsAreConsistent /\ AppliedIsInHistory /\ PassedIsOwned

LEMMA InitIInv == Init => IInv
<1> SUFFICES ASSUME Init PROVE IInv
  OBVIOUS
<1>1. history \in Seq(Token)
  BY PromptsAssumption DEF Init
<1>2. TypeOK
  BY <1>1 DEF Init, TypeOK, Outcomes, NoCommit
<1>3. QED
  BY <1>2 DEF Init, IInv, AdvancesTogether, AppliedOnce, OneOwnerPerPosition,
              AcknowledgedIsPublished, Acknowledged, UnstartedIsIdle,
              CommitsAreConsistent, AppliedIsInHistory, PassedIsOwned

(* Starting: the new commit stands at the end of the history. *)
LEMMA InvokeKeepsIInv ==
  ASSUME IInv, NEW i \in Invocation, Invoke(i)
  PROVE  IInv'
<1> USE DEF IInv, sequenceVars
<1>0. PICK t \in Token, b \in BOOLEAN : commit' = [commit EXCEPT ![i] = NewCommit(t, b)]
  BY DEF Invoke
<1> DEFINE c == NewCommit(t, b)
<1>1. /\ commit' = [commit EXCEPT ![i] = c] /\ c \in TokenCommit
      /\ c.position = position /\ c.generation = generations + 1
  BY <1>0 DEF NewCommit, TokenCommit, TypeOK
<1> HIDE DEF c
<1>2. /\ ~started[i] /\ started' = [started EXCEPT ![i] = TRUE]
      /\ UNCHANGED <<history, position, generations, outcome, applied>>
  BY DEF Invoke
<1>3. applied[i] = 0 /\ outcome[i] = "None"
  BY <1>2 DEF UnstartedIsIdle
<1>4. /\ commit'[i] = c /\ started'[i]
      /\ \A j \in Invocation : j # i => commit'[j] = commit[j] /\ started'[j] = started[j]
  BY <1>1, <1>2 DEF TypeOK
<1>5. TypeOK'
  <2>1. started' \in [Invocation -> BOOLEAN]
    BY <1>2 DEF TypeOK
  <2>2. commit' \in [Invocation -> TokenCommit \cup {NoCommit}]
    BY <1>1 DEF TypeOK
  <2>3. \A k \in Invocation : started'[k] => commit'[k] \in TokenCommit
    BY <1>1, <1>4 DEF TypeOK
  <2>4. QED
    BY <1>2, <2>1, <2>2, <2>3 DEF TypeOK
<1>6. AdvancesTogether' /\ AppliedOnce' /\ OneOwnerPerPosition' /\ AppliedIsInHistory'
  <2>1. \A j \in Invocation : applied'[j] > 0 => j # i /\ applied[j] > 0
    BY <1>2, <1>3
  <2>2. AdvancesTogether' /\ AppliedOnce'
    BY <1>2 DEF AdvancesTogether, AppliedOnce
  <2>3. OneOwnerPerPosition'
    BY <1>4, <2>1 DEF OneOwnerPerPosition
  <2>4. AppliedIsInHistory'
    BY <1>2, <1>4, <2>1 DEF AppliedIsInHistory
  <2>5. QED
    BY <2>2, <2>3, <2>4
<1>7. UnstartedIsIdle'
  BY <1>2, <1>4 DEF UnstartedIsIdle
<1>8. CommitsAreConsistent'
  BY <1>1, <1>2, <1>4 DEF CommitsAreConsistent, AdvancesTogether, TypeOK
<1>9. PassedIsOwned'
  BY <1>1, <1>2, <1>3, <1>4 DEF PassedIsOwned, AdvancesTogether, TypeOK
<1>10. AcknowledgedIsPublished'
  <2> SUFFICES ASSUME NEW k \in Invocation, Acknowledged(k)'
               PROVE  /\ commit'[k].position < Len(history')
                      /\ history'[commit'[k].position + 1] = commit'[k].token
                      /\ \E j \in Invocation : PublishedBy(k, j)'
    BY DEF AcknowledgedIsPublished
  <2>1. k # i /\ Acknowledged(k)
    BY <1>2, <1>3 DEF Acknowledged
  <2>2. PICK j \in Invocation : PublishedBy(k, j)
    BY <2>1 DEF AcknowledgedIsPublished
  <2>3. j # i
    BY <1>3, <2>2 DEF PublishedBy
  <2>4. PublishedBy(k, j)'
    BY <1>2, <1>4, <2>1, <2>2, <2>3 DEF PublishedBy
  <2>5. QED
    BY <1>2, <1>4, <2>1, <2>4 DEF AcknowledgedIsPublished
<1>11. QED
  BY <1>5, <1>6, <1>7, <1>8, <1>9, <1>10

(* Submitting: refused, a replay, or the next token. *)
LEMMA SubmitKeepsIInv ==
  ASSUME IInv, NEW i \in Invocation, Submit(i)
  PROVE  IInv'
<1> USE DEF IInv, sequenceVars
<1> DEFINE c == commit[i]
<1>1. /\ started[i] /\ c \in TokenCommit
      /\ outcome' = [outcome EXCEPT ![i] = Answer(c)] /\ UNCHANGED <<started, commit>>
  BY DEF Submit, TypeOK
<1>2. Answer(c) \in Outcomes
  BY DEF Answer, Outcomes
<1>3. /\ outcome'[i] = Answer(c)
      /\ \A k \in Invocation : k # i => outcome'[k] = outcome[k]
      /\ outcome' \in [Invocation -> Outcomes]
  BY <1>1, <1>2 DEF TypeOK
<1>4. c.generation = c.position + 1 /\ c.position <= Len(history)
  BY <1>1 DEF CommitsAreConsistent
<1>5. history \in Seq(Token) /\ position = Len(history) /\ generations = Len(history)
      /\ c.position \in Nat /\ c.token \in Token
  BY <1>1 DEF TypeOK, AdvancesTogether, TokenCommit
<1>6. CASE Answer(c) = "Applied"
  <2>1. /\ c.position = Len(history)
        /\ history' = Append(history, c.token)
        /\ position' = position + 1 /\ generations' = generations + 1
        /\ applied' = [applied EXCEPT ![i] = @ + 1]
    BY <1>5, <1>6 DEF Submit, Answer, Advance
  <2>2. /\ Len(history') = Len(history) + 1 /\ history' \in Seq(Token)
        /\ history'[Len(history) + 1] = c.token
        /\ \A n \in 1..Len(history) : history'[n] = history[n]
    BY <1>5, <2>1
  <2>3. applied[i] = 0
    <3>1. Len(history) \in Nat /\ applied[i] \in Nat
      BY <1>5 DEF TypeOK
    <3>2. ~(applied[i] > 0)
      BY <2>1, <3>1 DEF AppliedIsInHistory
    <3>3. QED
      BY <3>1, <3>2
  <2>4. /\ applied' \in [Invocation -> Nat] /\ applied'[i] = 1
        /\ \A k \in Invocation : k # i => applied'[k] = applied[k]
    BY <2>1, <2>3 DEF TypeOK
  <2>5. TypeOK' /\ AdvancesTogether'
    <3>1. history' \in Seq(Token) /\ position' \in Nat /\ generations' \in Nat
      BY <1>5, <2>1, <2>2
    <3>2. TypeOK'
      BY <1>1, <1>3, <2>4, <3>1 DEF TypeOK
    <3>3. QED
      BY <1>5, <2>1, <2>2, <3>2 DEF AdvancesTogether
  <2>6. AppliedOnce' /\ UnstartedIsIdle'
    BY <1>1, <1>3, <2>4 DEF AppliedOnce, UnstartedIsIdle
  <2>7. CommitsAreConsistent'
    BY <1>1, <1>5, <2>2 DEF CommitsAreConsistent, TypeOK, TokenCommit
  <2>8. \A k \in Invocation : applied[k] > 0 =>
          /\ commit[k] \in TokenCommit /\ commit[k].position \in 0..(Len(history) - 1)
          /\ history[commit[k].position + 1] = commit[k].token
    BY <1>5 DEF AppliedIsInHistory, UnstartedIsIdle, TypeOK, TokenCommit
  <2>9. AppliedIsInHistory'
    BY <1>1, <1>5, <2>1, <2>2, <2>4, <2>8 DEF AppliedIsInHistory
  <2>10. OneOwnerPerPosition'
    BY <1>1, <1>5, <2>1, <2>4, <2>8 DEF OneOwnerPerPosition
  <2>11. PassedIsOwned'
    <3> SUFFICES ASSUME NEW k \in Invocation, started[k],
                        commit[k].position < Len(history')
                 PROVE  \E j \in Invocation : applied'[j] > 0 /\ commit[j].position = commit[k].position
      BY <1>1 DEF PassedIsOwned
    <3>1. commit[k].position \in Nat
      BY DEF TypeOK, TokenCommit
    <3>2. CASE commit[k].position = Len(history)
      BY <2>1, <2>4, <3>2
    <3>3. CASE commit[k].position < Len(history)
      BY <2>3, <2>4, <3>3 DEF PassedIsOwned
    <3>4. QED
      BY <1>5, <2>2, <3>1, <3>2, <3>3
  <2>12. AcknowledgedIsPublished'
    <3> SUFFICES ASSUME NEW k \in Invocation, Acknowledged(k)'
                 PROVE  /\ commit'[k].position < Len(history')
                        /\ history'[commit'[k].position + 1] = commit'[k].token
                        /\ \E j \in Invocation : PublishedBy(k, j)'
      BY DEF AcknowledgedIsPublished
    <3>1. CASE k = i
      <4>1. PublishedBy(i, i)'
        BY <2>4 DEF PublishedBy
      <4>2. QED
        BY <1>1, <1>5, <2>1, <2>2, <3>1, <4>1
    <3>2. CASE k # i
      <4>1. Acknowledged(k)
        BY <1>3, <3>2 DEF Acknowledged
      <4>2. PICK j \in Invocation : PublishedBy(k, j)
        BY <4>1 DEF AcknowledgedIsPublished
      <4>3. PublishedBy(k, j)'
        BY <1>1, <2>4, <4>2 DEF PublishedBy
      <4>4. commit[k] \in TokenCommit
        BY <4>1 DEF Acknowledged, UnstartedIsIdle, TypeOK
      <4>5. /\ commit[k].position \in 0..(Len(history) - 1)
            /\ history[commit[k].position + 1] = commit[k].token
        BY <1>5, <4>1, <4>4 DEF AcknowledgedIsPublished, TokenCommit
      <4>6. QED
        BY <1>1, <1>5, <2>2, <4>3, <4>5
    <3>3. QED
      BY <3>1, <3>2
  <2>13. QED
    BY <2>5, <2>6, <2>7, <2>9, <2>10, <2>11, <2>12
<1>7. CASE Answer(c) # "Applied"
  <2>1. UNCHANGED <<history, position, generations, applied>>
    BY <1>7 DEF Submit
  <2>2. TypeOK'
    BY <1>1, <1>3, <2>1 DEF TypeOK
  <2>3. /\ AdvancesTogether' /\ AppliedOnce' /\ OneOwnerPerPosition'
        /\ UnstartedIsIdle' /\ CommitsAreConsistent' /\ AppliedIsInHistory' /\ PassedIsOwned'
    BY <1>1, <1>3, <2>1 DEF AdvancesTogether, AppliedOnce, OneOwnerPerPosition,
                            UnstartedIsIdle, CommitsAreConsistent, AppliedIsInHistory, PassedIsOwned
  <2>4. AcknowledgedIsPublished'
    <3> SUFFICES ASSUME NEW k \in Invocation, Acknowledged(k)'
                 PROVE  /\ commit[k].position < Len(history)
                        /\ history[commit[k].position + 1] = commit[k].token
                        /\ \E j \in Invocation : PublishedBy(k, j)
      BY <1>1, <2>1 DEF AcknowledgedIsPublished, PublishedBy
    <3>1. CASE k # i
      BY <1>3, <3>1 DEF Acknowledged, AcknowledgedIsPublished
    <3>2. CASE k = i
      <4>1. Answer(c) = "IdempotentReplay"
        BY <1>3, <1>7, <3>2 DEF Acknowledged
      <4>2. IsReplay(c)
        BY <4>1 DEF Answer
      <4>3. c.position = Len(history) - 1 /\ history[Len(history)] = c.token
        BY <1>5, <4>2 DEF IsReplay
      <4>4. PICK j \in Invocation : applied[j] > 0 /\ commit[j].position = c.position
        BY <1>1, <1>5, <4>3 DEF PassedIsOwned
      <4>5. commit[j].token = c.token
        BY <1>5, <4>3, <4>4 DEF AppliedIsInHistory
      <4>6. QED
        BY <1>5, <3>2, <4>3, <4>4, <4>5 DEF PublishedBy
    <3>3. QED
      BY <3>1, <3>2
  <2>5. QED
    BY <2>2, <2>3, <2>4
<1>8. QED
  BY <1>6, <1>7

LEMMA NextKeepsIInv == IInv /\ [Next]_vars => IInv'
<1> SUFFICES ASSUME IInv, [Next]_vars PROVE IInv'
  OBVIOUS
<1>1. CASE UNCHANGED vars
  BY <1>1 DEF vars, sequenceVars, IInv, TypeOK, AdvancesTogether, AppliedOnce,
              OneOwnerPerPosition, AcknowledgedIsPublished, Acknowledged, PublishedBy,
              UnstartedIsIdle, CommitsAreConsistent, AppliedIsInHistory, PassedIsOwned
<1>2. QED
  BY <1>1, InvokeKeepsIInv, SubmitKeepsIInv DEF Next

(* The inductive invariant holds in every reachable state. *)
THEOREM IInvInvariant == Spec => []IInv
  BY InitIInv, NextKeepsIInv, PTL DEF Spec

(* Type correctness of a sequence and of the commits to it. *)
THEOREM TypeCorrect == Spec => []TypeOK
<1>1. IInv => TypeOK
  BY DEF IInv
<1>2. QED
  BY <1>1, IInvInvariant, PTL

(* Token history, position and KV generations advance together, and a      *)
(* commit advances them at most once, however often it is submitted.       *)
THEOREM ExactlyOnce == Spec => [](AdvancesTogether /\ AppliedOnce)
<1>1. IInv => AdvancesTogether /\ AppliedOnce
  BY DEF IInv
<1>2. QED
  BY <1>1, IInvInvariant, PTL

(* Of the invocations that started at one position, one publishes.         *)
THEOREM OneOwner == Spec => []OneOwnerPerPosition
<1>1. IInv => OneOwnerPerPosition
  BY DEF IInv
<1>2. QED
  BY <1>1, IInvInvariant, PTL

(* A success, first or replayed, always stands for a published token. *)
THEOREM SuccessIsPublished == Spec => []AcknowledgedIsPublished
<1>1. IInv => AcknowledgedIsPublished
  BY DEF IInv
<1>2. QED
  BY <1>1, IInvInvariant, PTL

(* What advanced the sequence had a publication boundary. *)
AppliedHasBoundary == \A i \in Invocation : applied[i] > 0 => commit[i].boundary

LEMMA BoundaryKept ==
  ASSUME IInv, AppliedHasBoundary, [Next]_vars
  PROVE  AppliedHasBoundary'
<1>1. ASSUME NEW i \in Invocation, Invoke(i)
      PROVE  AppliedHasBoundary'
  <2>1. applied[i] = 0 /\ applied' = applied
    BY <1>1 DEF Invoke, IInv, UnstartedIsIdle
  <2>2. \A j \in Invocation : j # i => commit'[j] = commit[j]
    BY <1>1 DEF Invoke, IInv, TypeOK
  <2>3. QED
    BY <2>1, <2>2 DEF AppliedHasBoundary
<1>2. ASSUME NEW i \in Invocation, Submit(i)
      PROVE  AppliedHasBoundary'
  <2>1. commit' = commit
    BY <1>2 DEF Submit
  <2>2. CASE Answer(commit[i]) = "Applied"
    <3>1. commit[i].boundary
      BY <2>2 DEF Answer
    <3>2. applied' = [applied EXCEPT ![i] = @ + 1]
      BY <1>2, <2>2 DEF Submit
    <3>3. \A j \in Invocation : j # i => applied'[j] = applied[j]
      BY <3>2 DEF IInv, TypeOK
    <3>4. QED
      BY <2>1, <3>1, <3>3 DEF AppliedHasBoundary
  <2>3. CASE Answer(commit[i]) # "Applied"
    <3>1. applied' = applied
      BY <1>2, <2>3 DEF Submit
    <3>2. QED
      BY <2>1, <3>1 DEF AppliedHasBoundary
  <2>4. QED
    BY <2>2, <2>3
<1>3. CASE UNCHANGED vars
  BY <1>3 DEF vars, AppliedHasBoundary
<1>4. QED
  BY <1>1, <1>2, <1>3 DEF Next

(* The commit that advanced the sequence last is acknowledged again: its   *)
(* token and its generation are those at the end of the history.           *)
THEOREM LostAckAccepted == Spec => []LastIsAcknowledged
<1>1. Init => AppliedHasBoundary
  BY DEF Init, AppliedHasBoundary
<1>2. IInv /\ AppliedHasBoundary => LastIsAcknowledged
  <2> SUFFICES ASSUME IInv, AppliedHasBoundary, NEW i \in Invocation,
                      applied[i] > 0, commit[i].position + 1 = Len(history)
               PROVE  Answer(commit[i]) = "IdempotentReplay"
    BY DEF LastIsAcknowledged
  <2>1. commit[i].boundary
    BY DEF AppliedHasBoundary
  <2>2. started[i]
    BY DEF IInv, UnstartedIsIdle
  <2>3. /\ commit[i].position \in Nat /\ history \in Seq(Token)
        /\ position = Len(history) /\ generations = Len(history)
    BY <2>2 DEF IInv, TypeOK, AdvancesTogether, TokenCommit
  <2>4. /\ history[commit[i].position + 1] = commit[i].token
        /\ commit[i].generation = commit[i].position + 1
    BY <2>2 DEF IInv, AppliedIsInHistory, CommitsAreConsistent
  <2>5. position > 0 /\ commit[i].position = position - 1 /\ history # <<>>
    BY <2>3
  <2>6. IsReplay(commit[i])
    BY <2>3, <2>4, <2>5 DEF IsReplay
  <2>7. QED
    BY <2>1, <2>6 DEF Answer
<1>3. QED
  BY <1>1, <1>2, BoundaryKept, IInvInvariant, PTL DEF Spec

(* The answers of commit agree with the history both ways. *)
THEOREM AnswersAreSound == Spec => []AnswersAgree
<1>1. AcknowledgedIsPublished /\ LastIsAcknowledged => AnswersAgree
  BY DEF AnswersAgree
<1>2. QED
  BY <1>1, SuccessIsPublished, LostAckAccepted, PTL

-----------------------------------------------------------------------------
(* ModelFile. *)

(* What a row of checks ends in: "ok" when all hold, else the name of one  *)
(* that does not.                                                          *)
LEMMA FirstOfIs ==
  ASSUME NEW n \in Nat, NEW checks, DOMAIN checks = 1..n
  PROVE  \/ FirstOf(checks) = "ok" /\ \A i \in 1..n : checks[i][1]
         \/ \E i \in 1..n : ~checks[i][1] /\ FirstOf(checks) = checks[i][2]
<1> DEFINE bad == {i \in DOMAIN checks : ~checks[i][1]}
<1>1. CASE bad = {}
  <2>1. FirstOf(checks) = "ok"
    BY <1>1 DEF FirstOf
  <2>2. QED
    BY <1>1, <2>1
<1>2. CASE bad # {}
  <2>1. bad \subseteq Nat
    OBVIOUS
  <2>2. \E i \in bad : \A j \in bad : i <= j
    BY <1>2, <2>1, Least
  <2>3. Min(bad) \in bad
    BY <2>2 DEF Min
  <2>4. FirstOf(checks) = checks[Min(bad)][2]
    BY <1>2 DEF FirstOf
  <2>5. QED
    BY <2>3, <2>4
<1>3. QED
  BY <1>1, <1>2

-----------------------------------------------------------------------------
(* The invariant.                                                          *)

(* What admission refuses a file with. *)
Refusals ==
  Unread \cup
  {"FileSizeMismatch", "InvalidMagic", "UnsupportedVersion", "TensorCountMismatch",
   "MetadataKvCountMismatch", "UnknownMetadataKey", "DuplicateMetadataKey",
   "MetadataValueMismatch", "DuplicateTensorName", "TensorDimCountMismatch",
   "TensorDimTooLarge", "UnknownDtype", "MisalignedTensorOffset",
   "TensorElementsNotBlockAligned", "ArithmeticOverflow", "OverlappingTensorRanges",
   "NonSequentialTensorOffsets", "TruncatedTensorData", "PerTypeTensorCountMismatch",
   "PerTypeElementCountMismatch", "Sha256Mismatch"}

(* A tensor made of whole blocks. *)
Laid(d) ==
  /\ d.ggml_type \in GgmlType
  /\ d.offset \in Nat /\ d.blocks \in Nat
  /\ d.element_count = d.blocks * block_elements(d.ggml_type)
  /\ d.byte_len = d.blocks * block_bytes(d.ggml_type)

Past(d) == d.offset + d.byte_len

Kvs(f) == {f.kvs[i] : i \in DOMAIN f.kvs}
Descriptors(f) == {TensorDescriptor(f.tensors[i]) : i \in DOMAIN f.tensors}

(* What has been read of a file f: positions, one key per pair, and        *)
(* tensors each past the end of those before it.                           *)
Positions(a) ==
  /\ DOMAIN a = {"pos", "seen_keys", "metadata", "names", "tensors", "prev_end", "total",
                 "data_offset", "count", "elements"}
  /\ a.pos \in Nat /\ a.prev_end \in Nat /\ a.total \in Nat /\ a.data_offset \in Nat

KeysCounted(a, f) ==
  /\ a.metadata \in Seq(Kvs(f))
  /\ a.seen_keys \subseteq ADMITTED_KEYS
  /\ Cardinality(a.seen_keys) = Len(a.metadata)

TensorsFollow(a, f) ==
  /\ a.tensors \in Seq(Descriptors(f))
  /\ \A i \in 1..Len(a.tensors) : Laid(a.tensors[i]) /\ Past(a.tensors[i]) <= a.prev_end
  /\ \A i, j \in 1..Len(a.tensors) : i < j => Past(a.tensors[i]) <= a.tensors[j].offset

Sound(a, f) == Positions(a) /\ KeysCounted(a, f) /\ TensorsFollow(a, f)

(* How far admission is. *)
Progress ==
  /\ pc \in {"idle", "header", "kv", "admitted"} \cup Refusals
  /\ pc # "idle" => file \in Files
  /\ pc \in {"idle", "header"} => acc = Fresh
  /\ pc \in {"kv", "admitted"} =>
        /\ file.kv_count = Cardinality(ADMITTED_KEYS)
        /\ file.tensor_count = EXPECTED_TENSOR_COUNT
        /\ acc.pos <= file.size
  /\ pc = "admitted" => acc.data_offset >= acc.pos /\ Len(acc.metadata) = file.kv_count

(* An entry of a view is the tensor admitted under its place. *)
Shows(e, d) ==
  /\ e.native \in BOOLEAN
  /\ DOMAIN e = {"name", "ggml_type", "element_count", "blocks", "range", "native"}
  /\ e.ggml_type = d.ggml_type /\ e.element_count = d.element_count /\ e.blocks = d.blocks
  /\ e.range = Range0(d) /\ e.range.end <= file.size

ViewShowsFile ==
  view.state = "built" =>
    /\ DOMAIN view = {"state", "size", "data_offset", "data_len", "entries"}
    /\ pc = "admitted" /\ view.size = file.size
    /\ DOMAIN view.entries = 1..Len(acc.tensors)
    /\ \A i \in 1..Len(acc.tensors) : Shows(view.entries[i], acc.tensors[i])

FInv == Progress /\ Sound(acc, file) /\ ViewShowsFile

-----------------------------------------------------------------------------
(* Facts about sizes and products.                                         *)

LEMMA BlockSizes ==
  /\ block_elements("F32") = 1 /\ block_elements("Q5_0") = 32 /\ block_elements("Q8_0") = 32
  /\ block_elements("Q4_K") = 256 /\ block_elements("Q6_K") = 256
  /\ block_bytes("F32") = 4 /\ block_bytes("Q5_0") = 22 /\ block_bytes("Q8_0") = 34
  /\ block_bytes("Q4_K") = 144 /\ block_bytes("Q6_K") = 210
BY DEF block_elements, block_bytes

(* The elements of a tensor of one or two dimensions are a number. *)
LEMMA ProductIsNat ==
  ASSUME NEW s \in Seq(Nat), Len(s) \in 1..2
  PROVE  Product(s) \in Nat
<1> DEFINE Multiplied(U) == U = [n \in 0..Len(s) |-> IF n = 0 THEN 1 ELSE U[n - 1] * s[n]]
           g == CHOOSE U : Multiplied(U)
           V == [n \in 0..Len(s) |-> IF n = 0 THEN 1 ELSE IF n = 1 THEN s[1] ELSE s[1] * s[2]]
<1>1. Product(s) = g[Len(s)]
  BY DEF Product
<1>2. /\ s[1] \in Nat /\ (Len(s) = 2 => s[2] \in Nat)
      /\ 0..Len(s) = IF Len(s) = 1 THEN {0, 1} ELSE {0, 1, 2}
  <2>1. \A i \in 1..Len(s) : s[i] \in Nat
    OBVIOUS
  <2>2. 0..1 = {0, 1} /\ 0..2 = {0, 1, 2} /\ 1 \in 1..1 /\ 1 \in 1..2 /\ 2 \in 1..2
    OBVIOUS
  <2>3. CASE Len(s) = 1
    BY <2>1, <2>2, <2>3
  <2>4. CASE Len(s) = 2
    BY <2>1, <2>2, <2>4
  <2>5. QED
    BY <2>3, <2>4
<1>3. ASSUME NEW n \in 0..Len(s) PROVE V[n] = IF n = 0 THEN 1 ELSE V[n - 1] * s[n]
  <2>1. CASE n = 0
    BY <2>1
  <2>2. CASE n = 1
    <3>1. V[1] = s[1] /\ V[0] = 1
      BY <2>2
    <3>2. QED
      BY <1>2, <2>2, <3>1
  <2>3. CASE n = 2
    <3>1. V[2] = s[1] * s[2] /\ V[1] = s[1]
      BY <2>3
    <3>2. QED
      BY <2>3, <3>1
  <2>4. QED
    BY <1>2, <2>1, <2>2, <2>3
<1>4. Multiplied(V)
  BY <1>3
<1>5. Multiplied(g)
  <2> HIDE DEF Multiplied, V
  <2>1. \E U : Multiplied(U)
    BY <1>4
  <2>2. QED
    BY <2>1
<1> HIDE DEF g
<1>6. g[0] = 1 /\ g[1] = g[0] * s[1] /\ (Len(s) = 2 => g[2] = g[1] * s[2])
  BY <1>2, <1>5
<1>7. CASE Len(s) = 1
  BY <1>1, <1>2, <1>6, <1>7
<1>8. CASE Len(s) = 2
  <2>1. g[1] \in Nat /\ s[2] \in Nat
    BY <1>2, <1>6, <1>8
  <2>2. g[2] \in Nat
    BY <1>6, <1>8, <2>1
  <2>3. QED
    BY <1>1, <1>8, <2>2
<1>9. QED
  BY <1>7, <1>8

(* Elements that fill their blocks are those of the blocks. *)
LEMMA DescriptorLaid ==
  ASSUME NEW t, t.dtype \in GgmlType, t.offset \in Nat, t.dims \in Seq(Nat),
         Len(t.dims) \in 1..2,
         TensorDescriptor(t).element_count % block_elements(t.dtype) = 0
  PROVE  Laid(TensorDescriptor(t))
<1> DEFINE n == Product(t.dims)
           d == TensorDescriptor(t)
           be == block_elements(t.dtype)
<1>1. n \in Nat
  BY ProductIsNat
<1>2. be \in {1, 32, 256}
  BY BlockSizes DEF GgmlType
<1>3. /\ d.ggml_type = t.dtype /\ d.offset = t.offset /\ d.element_count = n
      /\ d.blocks = n \div be /\ d.byte_len = d.blocks * block_bytes(t.dtype)
  BY DEF TensorDescriptor
<1> HIDE DEF n, be, d
<1>4. n % be = 0
  BY <1>3 DEF d, be
<1>5. n \div be \in Nat /\ n = (n \div be) * be
  <2>1. CASE be = 1
    BY <1>1, <1>4, <2>1
  <2>2. CASE be = 32
    BY <1>1, <1>4, <2>2
  <2>3. CASE be = 256
    BY <1>1, <1>4, <2>3
  <2>4. QED
    BY <1>2, <2>1, <2>2, <2>3
<1>6. Laid(d)
  BY <1>3, <1>5 DEF Laid, be
<1>7. QED
  BY <1>6 DEF d

(* Such a tensor ends past its start. *)
LEMMA LaidEnds ==
  ASSUME NEW d, Laid(d)
  PROVE  d.byte_len \in Nat /\ Past(d) \in Nat /\ d.offset <= Past(d)
<1>1. block_bytes(d.ggml_type) \in {4, 22, 34, 144, 210}
  BY BlockSizes DEF Laid, GgmlType
<1>2. d.byte_len \in Nat
  <2> DEFINE bb == block_bytes(d.ggml_type)
  <2>1. d.byte_len = d.blocks * bb /\ d.blocks \in Nat
    BY DEF Laid
  <2> HIDE DEF bb
  <2>2. bb \in Nat
    BY <1>1 DEF bb
  <2>3. QED
    BY <2>1, <2>2
<1>3. QED
  BY <1>2 DEF Laid, Past

(* Rounding up to the alignment does not fall behind. *)
LEMMA AlignsUp ==
  ASSUME NEW v \in Nat, v + 31 <= Top
  PROVE  align_up(v) \in Nat /\ align_up(v) >= v
<1>1. Top \in Nat /\ v + GGUF_ALIGNMENT - 1 = v + 31
  BY PinnedAssumption DEF GGUF_ALIGNMENT
<1>2. (v + 31) % (Top + 1) = v + 31
  BY <1>1
<1>3. align_up(v) = ((v + 31) \div 32) * 32
  BY <1>1, <1>2 DEF align_up, GGUF_ALIGNMENT
<1>4. QED
  BY <1>3

-----------------------------------------------------------------------------
(* Steps of admission.                                                     *)

LEMMA AppendFacts ==
  ASSUME NEW S, NEW s \in Seq(S), NEW e \in S
  PROVE  /\ Append(s, e) \in Seq(S) /\ Len(s) \in Nat /\ Len(Append(s, e)) = Len(s) + 1
         /\ \A i \in 1..Len(s) : Append(s, e)[i] = s[i]
         /\ Append(s, e)[Len(s) + 1] = e
OBVIOUS

(* A step either goes on as all its checks allow, or refuses the file. *)
LEMMA StepIs ==
  ASSUME NEW n \in Nat, NEW checks, DOMAIN checks = 1..n, NEW next, NEW a,
         \A i \in 1..n : ~checks[i][1] => checks[i][2] \in Refusals,
         Step(checks, next, a)
  PROVE  /\ UNCHANGED <<file, view>>
         /\ \/ pc' = next /\ acc' = a /\ \A i \in 1..n : checks[i][1]
            \/ pc' \in Refusals /\ acc' = Fresh
<1>1. \/ FirstOf(checks) = "ok" /\ \A i \in 1..n : checks[i][1]
      \/ FirstOf(checks) \in Refusals
  BY FirstOfIs
<1>2. "ok" \notin Refusals
  BY DEF Refusals, Unread
<1>3. QED
  BY <1>1, <1>2 DEF Step

(* Before anything is read. *)
LEMMA FreshIsSound ==
  ASSUME NEW f
  PROVE  Sound(Fresh, f)
<1>1. Positions(Fresh)
  BY DEF Positions, Fresh
<1>2. Fresh.metadata = <<>> /\ Fresh.seen_keys = {} /\ Fresh.tensors = <<>>
  BY DEF Fresh
<1>3. Cardinality({}) = 0
  BY FS_EmptySet
<1>4. KeysCounted(Fresh, f)
  BY <1>2, <1>3 DEF KeysCounted
<1>5. TensorsFollow(Fresh, f)
  BY <1>2 DEF TensorsFollow
<1>6. QED
  BY <1>1, <1>4, <1>5 DEF Sound

(* A refused file leaves nothing, and no view of it was built. *)
LEMMA Refusing ==
  ASSUME FInv, pc \in {"header", "kv"}, UNCHANGED <<file, view>>,
         pc' \in Refusals, acc' = Fresh
  PROVE  FInv'
<1>1. pc' \notin {"idle", "header", "kv", "admitted"}
  BY DEF Refusals, Unread
<1>2. Progress'
  BY <1>1 DEF FInv, Progress, Refusals, Unread
<1>3. Sound(acc', file')
  BY FreshIsSound
<1>4. view.state # "built"
  BY DEF FInv, ViewShowsFile
<1>5. ViewShowsFile'
  BY <1>4 DEF ViewShowsFile
<1>6. QED
  BY <1>2, <1>3, <1>5 DEF FInv

LEMMA HeaderKeeps ==
  ASSUME FInv, Header
  PROVE  FInv'
<1> DEFINE checks == << <<take(4), "TruncatedFile">>, <<file.magic, "InvalidMagic">>,
               <<take(8), "TruncatedFile">>, <<file.version = 3, "UnsupportedVersion">>,
               <<take(16), "TruncatedFile">>,
               <<file.tensor_count = EXPECTED_TENSOR_COUNT, "TensorCountMismatch">>,
               <<take(24), "TruncatedFile">>,
               <<file.kv_count = Cardinality(ADMITTED_KEYS), "MetadataKvCountMismatch">> >>
           a == [acc EXCEPT !.pos = 24]
<1>1. pc = "header" /\ Step(checks, "kv", a) /\ acc = Fresh /\ file \in Files
  BY DEF Header, FInv, Progress
<1>2. DOMAIN checks = 1..8 /\ 8 \in Nat
  OBVIOUS
<1>3. \A i \in 1..8 : checks[i][2] \in Refusals
  BY DEF Refusals, Unread
<1>4. (\A i \in 1..8 : checks[i][1]) =>
        /\ take(24) /\ file.tensor_count = EXPECTED_TENSOR_COUNT
        /\ file.kv_count = Cardinality(ADMITTED_KEYS)
  <2>1. /\ checks[7][1] = take(24) /\ checks[6][1] = (file.tensor_count = EXPECTED_TENSOR_COUNT)
        /\ checks[8][1] = (file.kv_count = Cardinality(ADMITTED_KEYS))
    OBVIOUS
  <2>2. 6 \in 1..8 /\ 7 \in 1..8 /\ 8 \in 1..8
    OBVIOUS
  <2> HIDE DEF checks
  <2>3. QED
    BY <2>1, <2>2
<1> HIDE DEF checks
<1>5. /\ UNCHANGED <<file, view>>
      /\ \/ pc' = "kv" /\ acc' = a /\ \A i \in 1..8 : checks[i][1]
         \/ pc' \in Refusals /\ acc' = Fresh
  <2> HIDE DEF a
  <2>1. QED
    BY <1>1, <1>2, <1>3, StepIs
<1>6. CASE pc' = "kv" /\ acc' = a /\ \A i \in 1..8 : checks[i][1]
  <2>1. /\ take(24) /\ file.tensor_count = EXPECTED_TENSOR_COUNT
        /\ file.kv_count = Cardinality(ADMITTED_KEYS)
    BY <1>4, <1>6
  <2>2. a = [Fresh EXCEPT !.pos = 24]
    BY <1>1
  <2>3. /\ a.pos = 24 /\ a.metadata = Fresh.metadata /\ a.seen_keys = Fresh.seen_keys
        /\ a.tensors = Fresh.tensors /\ a.prev_end = 0 /\ a.total = 0 /\ a.data_offset = 0
        /\ DOMAIN a = DOMAIN Fresh
    BY <2>2 DEF Fresh
  <2>4. 24 <= file.size
    BY <1>1, <2>1 DEF take, Fresh
  <2> HIDE DEF a
  <2>5. Sound(Fresh, file)
    BY FreshIsSound
  <2>6. Sound(a, file)
    BY <2>3, <2>5 DEF Sound, Positions, KeysCounted, TensorsFollow, Fresh
  <2>7. Sound(acc', file')
    BY <1>5, <1>6, <2>6
  <2>8. Progress'
    BY <1>1, <1>5, <1>6, <2>1, <2>3, <2>4 DEF Progress
  <2>9. view.state # "built"
    BY <1>1 DEF FInv, ViewShowsFile
  <2>10. ViewShowsFile'
    BY <1>5, <2>9 DEF ViewShowsFile
  <2>11. QED
    BY <2>7, <2>8, <2>10 DEF FInv
<1>7. CASE pc' \in Refusals /\ acc' = Fresh
  BY <1>1, <1>5, <1>7, Refusing
<1>8. QED
  BY <1>5, <1>6, <1>7

(* What a file of the assumption holds at a place of its tables. *)
LEMMA KvRead ==
  ASSUME NEW f \in Files, f.kv_count = Cardinality(ADMITTED_KEYS), NEW i \in Nat,
         i < f.kv_count
  PROVE  /\ f.kvs[i + 1] \in Kvs(f) /\ f.kvs[i + 1].len \in Nat
         /\ f.kvs[i + 1].read \in Unread \cup {"ok"}
<1>1. f.kv_count \in Nat
  BY PinnedAssumption, FS_CardinalityType
<1>2. i + 1 \in DOMAIN f.kvs
  BY <1>1, FilesAssumption
<1>3. QED
  BY <1>2, FilesAssumption DEF Kvs

LEMMA TensorRead ==
  ASSUME NEW f \in Files, f.tensor_count = EXPECTED_TENSOR_COUNT, NEW i \in Nat,
         i < f.tensor_count
  PROVE  LET t == f.tensors[i + 1]
         IN  /\ TensorDescriptor(t) \in Descriptors(f)
             /\ t.len \in Nat /\ t.offset \in Nat /\ t.dims \in Seq(Nat)
             /\ t.read \in Unread \cup {"ok"}
<1>1. f.tensor_count \in Nat
  BY PinnedAssumption
<1>2. i + 1 \in DOMAIN f.tensors
  BY <1>1, FilesAssumption
<1>3. QED
  BY <1>2, FilesAssumption DEF Descriptors

(* One more key, not seen before, and one more pair. *)
LEMMA CountOneMore ==
  ASSUME NEW a, NEW f, KeysCounted(a, f), NEW kv \in Kvs(f), kv.key \in ADMITTED_KEYS,
         kv.key \notin a.seen_keys, NEW b,
         b.metadata = Append(a.metadata, kv), b.seen_keys = a.seen_keys \cup {kv.key}
  PROVE  KeysCounted(b, f)
<1>1. IsFiniteSet(a.seen_keys)
  BY PinnedAssumption, FS_Subset DEF KeysCounted
<1>2. Cardinality(b.seen_keys) = Cardinality(a.seen_keys) + 1
  BY <1>1, FS_AddElement
<1>3. b.metadata \in Seq(Kvs(f)) /\ Len(b.metadata) = Len(a.metadata) + 1
  BY AppendFacts DEF KeysCounted
<1>4. b.seen_keys \subseteq ADMITTED_KEYS
  BY DEF KeysCounted
<1>5. QED
  BY <1>2, <1>3, <1>4 DEF KeysCounted

LEMMA MetadataKvKeeps ==
  ASSUME FInv, MetadataKv
  PROVE  FInv'
<1> DEFINE kv == file.kvs[Len(acc.metadata) + 1]
           checks == << read_name(kv),
                   <<kv.key \in ADMITTED_KEYS, "UnknownMetadataKey">>,
                   <<KeyIsNew(kv), "DuplicateMetadataKey">>,
                   <<parse_kv_value(kv), "MetadataValueMismatch">>,
                   <<take(kv.len), "TruncatedFile">>,
                   <<validate_kv_value(kv), "MetadataValueMismatch">> >>
           a == [acc EXCEPT !.pos = @ + kv.len, !.seen_keys = @ \cup {kv.key},
                            !.metadata = Append(@, kv)]
<1>1. pc = "kv" /\ Step(checks, "kv", a) /\ Len(acc.metadata) < file.kv_count /\ file \in Files
  BY DEF MetadataKv, FInv, Progress
<1>2. Positions(acc) /\ KeysCounted(acc, file) /\ TensorsFollow(acc, file)
  BY DEF FInv, Sound
<1>3. Len(acc.metadata) \in Nat
  BY <1>2 DEF KeysCounted
<1>4. kv \in Kvs(file) /\ kv.len \in Nat /\ kv.read \in Unread \cup {"ok"}
  BY <1>1, <1>3, KvRead DEF FInv, Progress
<1> HIDE DEF kv
<1>5. DOMAIN checks = 1..6 /\ 6 \in Nat
  OBVIOUS
<1>6. \A i \in 1..6 : ~checks[i][1] => checks[i][2] \in Refusals
  <2>1. checks[1][1] = (kv.read = "ok") /\ checks[1][2] = kv.read
    BY DEF read_name
  <2>2. \A i \in 2..6 : checks[i][2] \in Refusals
    BY DEF Refusals, Unread
  <2>3. ~checks[1][1] => checks[1][2] \in Refusals
    BY <1>4, <2>1 DEF Refusals
  <2> HIDE DEF checks
  <2>4. QED
    BY <2>2, <2>3
<1>7. (\A i \in 1..6 : checks[i][1]) =>
         kv.key \in ADMITTED_KEYS /\ kv.key \notin acc.seen_keys /\ take(kv.len)
  <2>1. /\ checks[2][1] = (kv.key \in ADMITTED_KEYS) /\ checks[3][1] = KeyIsNew(kv)
        /\ checks[5][1] = take(kv.len)
    OBVIOUS
  <2>2. 2 \in 1..6 /\ 3 \in 1..6 /\ 5 \in 1..6
    OBVIOUS
  <2> HIDE DEF checks
  <2>3. QED
    BY <2>1, <2>2 DEF KeyIsNew
<1> HIDE DEF checks
<1>8. /\ UNCHANGED <<file, view>>
      /\ \/ pc' = "kv" /\ acc' = a /\ \A i \in 1..6 : checks[i][1]
         \/ pc' \in Refusals /\ acc' = Fresh
  <2> HIDE DEF a
  <2>1. QED
    BY <1>1, <1>5, <1>6, StepIs
<1>9. CASE pc' = "kv" /\ acc' = a /\ \A i \in 1..6 : checks[i][1]
  <2>1. kv.key \in ADMITTED_KEYS /\ kv.key \notin acc.seen_keys /\ take(kv.len)
    BY <1>7, <1>9
  <2>2. /\ a.pos = acc.pos + kv.len /\ a.metadata = Append(acc.metadata, kv)
        /\ a.seen_keys = acc.seen_keys \cup {kv.key}
        /\ a.tensors = acc.tensors /\ a.prev_end = acc.prev_end /\ a.total = acc.total
        /\ a.data_offset = acc.data_offset /\ DOMAIN a = DOMAIN acc
    BY <1>2 DEF Positions
  <2> HIDE DEF a
  <2>3. KeysCounted(a, file)
    BY <1>2, <1>4, <2>1, <2>2, CountOneMore
  <2>4. Positions(a) /\ a.pos <= file.size
    BY <1>2, <1>4, <2>1, <2>2 DEF Positions, take
  <2>5. TensorsFollow(a, file)
    BY <1>2, <2>2 DEF TensorsFollow
  <2>6. Sound(acc', file')
    BY <1>8, <1>9, <2>3, <2>4, <2>5 DEF Sound
  <2>7. Progress'
    BY <1>1, <1>8, <1>9, <2>4 DEF FInv, Progress
  <2>8. view.state # "built"
    BY <1>1 DEF FInv, ViewShowsFile
  <2>9. ViewShowsFile'
    BY <1>8, <2>8 DEF ViewShowsFile
  <2>10. QED
    BY <2>6, <2>7, <2>9 DEF FInv
<1>10. CASE pc' \in Refusals /\ acc' = Fresh
  BY <1>1, <1>8, <1>10, Refusing
<1>11. QED
  BY <1>8, <1>9, <1>10

(* One more tensor, past the end of those before it. *)
LEMMA FollowOneMore ==
  ASSUME NEW a, NEW f, Positions(a), TensorsFollow(a, f), NEW d \in Descriptors(f), Laid(d),
         d.offset >= a.prev_end,
         NEW b, b.tensors = Append(a.tensors, d), b.prev_end = Past(d)
  PROVE  TensorsFollow(b, f)
<1> DEFINE n == Len(a.tensors)
<1>1. /\ b.tensors \in Seq(Descriptors(f)) /\ n \in Nat /\ Len(b.tensors) = n + 1
      /\ \A i \in 1..n : b.tensors[i] = a.tensors[i]
      /\ b.tensors[n + 1] = d
  BY AppendFacts DEF TensorsFollow
<1>2. /\ \A i \in 1..n : Laid(a.tensors[i]) /\ Past(a.tensors[i]) <= a.prev_end
      /\ \A i, j \in 1..n : i < j => Past(a.tensors[i]) <= a.tensors[j].offset
      /\ a.prev_end \in Nat
  BY DEF TensorsFollow, Positions
<1>3. d.offset \in Nat /\ Past(d) \in Nat /\ d.offset <= Past(d)
  BY LaidEnds DEF Laid
<1> HIDE DEF n
<1>4. \A i \in 1..n : Past(a.tensors[i]) \in Nat
  BY <1>2, LaidEnds
<1>5. ASSUME NEW i \in 1..(n + 1)
      PROVE  Laid(b.tensors[i]) /\ Past(b.tensors[i]) <= b.prev_end
  <2>1. CASE i \in 1..n
    <3>1. Past(a.tensors[i]) <= a.prev_end /\ Past(a.tensors[i]) \in Nat /\ b.tensors[i] = a.tensors[i]
          /\ Laid(a.tensors[i])
      BY <1>1, <1>2, <1>4, <2>1
    <3>2. QED
      BY <1>2, <1>3, <3>1
  <2>2. CASE i = n + 1
    BY <1>1, <1>3, <2>2
  <2>3. QED
    BY <1>1, <2>1, <2>2
<1>6. ASSUME NEW i \in 1..(n + 1), NEW j \in 1..(n + 1), i < j
      PROVE  Past(b.tensors[i]) <= b.tensors[j].offset
  <2>1. i \in 1..n
    BY <1>1, <1>6
  <2>2. CASE j \in 1..n
    BY <1>1, <1>2, <1>6, <2>1, <2>2
  <2>3. CASE j = n + 1
    <3>1. Past(a.tensors[i]) <= a.prev_end /\ Past(a.tensors[i]) \in Nat /\ b.tensors[i] = a.tensors[i]
          /\ b.tensors[j] = d
      BY <1>1, <1>2, <1>4, <2>1, <2>3
    <3>2. QED
      BY <1>2, <1>3, <3>1
  <2>4. QED
    BY <1>1, <2>2, <2>3
<1>7. QED
  BY <1>1, <1>5, <1>6 DEF TensorsFollow

LEMMA TensorInfoKeeps ==
  ASSUME FInv, TensorInfo
  PROVE  FInv'
<1> DEFINE t == file.tensors[Len(acc.tensors) + 1]
           type == t.dtype
           d == TensorDescriptor(t)
           known == type \in GgmlType
           checks == << read_name(t),
                   <<t.name \notin acc.names, "DuplicateTensorName">>,
                   <<Len(t.dims) \in 1..2, "TensorDimCountMismatch">>,
                   <<\A i \in DOMAIN t.dims : t.dims[i] <= MaxDim, "TensorDimTooLarge">>,
                   <<known, "UnknownDtype">>,
                   <<take(t.len), "TruncatedFile">>,
                   <<t.offset % GGUF_ALIGNMENT = 0, "MisalignedTensorOffset">>,
                   <<known => d.element_count % block_elements(type) = 0, "TensorElementsNotBlockAligned">>,
                   <<known => t.offset + d.byte_len <= Top, "ArithmeticOverflow">>,
                   <<t.offset >= acc.prev_end, "OverlappingTensorRanges">>,
                   <<t.offset = align_up(acc.prev_end), "NonSequentialTensorOffsets">> >>
           a == [acc EXCEPT !.pos = @ + t.len, !.names = @ \cup {t.name},
                            !.tensors = Append(@, d),
                            !.prev_end = t.offset + d.byte_len, !.total = @ + d.byte_len,
                            !.count[type] = @ + 1, !.elements[type] = @ + d.element_count]
<1>1. /\ pc = "kv" /\ Step(checks, "kv", a) /\ Len(acc.tensors) < file.tensor_count
      /\ file \in Files
  BY DEF TensorInfo, FInv, Progress
<1>2. Positions(acc) /\ KeysCounted(acc, file) /\ TensorsFollow(acc, file)
  BY DEF FInv, Sound
<1>3. Len(acc.tensors) \in Nat
  BY <1>2 DEF TensorsFollow
<1>4. /\ d \in Descriptors(file) /\ t.len \in Nat /\ t.offset \in Nat /\ t.dims \in Seq(Nat)
      /\ t.read \in Unread \cup {"ok"}
  BY <1>1, <1>3, TensorRead DEF FInv, Progress
<1> HIDE DEF t
<1>5. DOMAIN checks = 1..11 /\ 11 \in Nat
  OBVIOUS
<1>6. \A i \in 1..11 : ~checks[i][1] => checks[i][2] \in Refusals
  <2>1. checks[1][1] = (t.read = "ok") /\ checks[1][2] = t.read
    BY DEF read_name
  <2>2. \A i \in 2..11 : checks[i][2] \in Refusals
    BY DEF Refusals, Unread
  <2>3. ~checks[1][1] => checks[1][2] \in Refusals
    BY <1>4, <2>1 DEF Refusals
  <2> HIDE DEF checks
  <2>4. QED
    BY <2>2, <2>3
<1>7. (\A i \in 1..11 : checks[i][1]) =>
        /\ Len(t.dims) \in 1..2 /\ known /\ take(t.len)
        /\ d.element_count % block_elements(type) = 0
        /\ t.offset >= acc.prev_end
  <2>1. /\ checks[3][1] = (Len(t.dims) \in 1..2) /\ checks[5][1] = known
        /\ checks[6][1] = take(t.len)
        /\ checks[8][1] = (known => d.element_count % block_elements(type) = 0)
        /\ checks[10][1] = (t.offset >= acc.prev_end)
    OBVIOUS
  <2>2. 3 \in 1..11 /\ 5 \in 1..11 /\ 6 \in 1..11 /\ 8 \in 1..11 /\ 10 \in 1..11
    OBVIOUS
  <2> HIDE DEF checks
  <2>3. QED
    BY <2>1, <2>2
<1> HIDE DEF checks
<1>8. /\ UNCHANGED <<file, view>>
      /\ \/ pc' = "kv" /\ acc' = a /\ \A i \in 1..11 : checks[i][1]
         \/ pc' \in Refusals /\ acc' = Fresh
  <2> HIDE DEF a
  <2>1. QED
    BY <1>1, <1>5, <1>6, StepIs
<1>9. CASE pc' = "kv" /\ acc' = a /\ \A i \in 1..11 : checks[i][1]
  <2>1. /\ Len(t.dims) \in 1..2 /\ known /\ take(t.len)
        /\ d.element_count % block_elements(type) = 0
        /\ t.offset >= acc.prev_end
    BY <1>7, <1>9
  <2>2. Laid(d)
    BY <1>4, <2>1, DescriptorLaid
  <2>3. d.offset = t.offset /\ d.byte_len \in Nat /\ Past(d) = t.offset + d.byte_len
    BY <2>2, LaidEnds DEF TensorDescriptor, Past
  <2> HIDE DEF d, known, type
  <2>4. /\ a.pos = acc.pos + t.len /\ a.metadata = acc.metadata
        /\ a.seen_keys = acc.seen_keys /\ a.tensors = Append(acc.tensors, d)
        /\ a.prev_end = t.offset + d.byte_len /\ a.total = acc.total + d.byte_len
        /\ a.data_offset = acc.data_offset /\ DOMAIN a = DOMAIN acc
    BY <1>2 DEF Positions
  <2> HIDE DEF a
  <2>5. KeysCounted(a, file)
    BY <1>2, <2>4 DEF KeysCounted
  <2>6. Positions(a) /\ a.pos <= file.size
    <3>1. /\ acc.pos \in Nat /\ acc.total \in Nat /\ acc.data_offset \in Nat
          /\ t.len \in Nat /\ t.offset \in Nat /\ acc.pos + t.len <= file.size
      BY <1>2, <1>4, <2>1 DEF Positions, take
    <3>2. /\ a.pos \in Nat /\ a.prev_end \in Nat /\ a.total \in Nat /\ a.data_offset \in Nat
          /\ a.pos <= file.size
      BY ONLY <2>3, <2>4, <3>1
    <3>3. QED
      BY <1>2, <2>4, <3>2 DEF Positions
  <2>7. TensorsFollow(a, file)
    BY <1>2, <1>4, <2>1, <2>2, <2>3, <2>4, FollowOneMore
  <2>8. Sound(acc', file')
    BY <1>8, <1>9, <2>5, <2>6, <2>7 DEF Sound
  <2>9. Progress'
    BY <1>1, <1>8, <1>9, <2>6 DEF FInv, Progress
  <2>10. view.state # "built"
    BY <1>1 DEF FInv, ViewShowsFile
  <2>11. ViewShowsFile'
    BY <1>8, <2>10 DEF ViewShowsFile
  <2>12. QED
    BY <2>8, <2>9, <2>11 DEF FInv
<1>10. CASE pc' \in Refusals /\ acc' = Fresh
  BY <1>1, <1>8, <1>10, Refusing
<1>11. QED
  BY <1>8, <1>9, <1>10

LEMMA FinishKeeps ==
  ASSUME FInv, Finish
  PROVE  FInv'
<1> DEFINE from == align_up(acc.pos)
           checks == << <<from + acc.total <= file.size, "TruncatedTensorData">>,
                   <<acc.count = EXPECTED_TENSOR_COUNT_PER_TYPE, "PerTypeTensorCountMismatch">>,
                   <<acc.elements = EXPECTED_ELEMENTS_PER_TYPE, "PerTypeElementCountMismatch">>,
                   <<file.size = PINNED_FILE_SIZE, "FileSizeMismatch">>,
                   <<file.digest = "pinned", "Sha256Mismatch">> >>
           a == [acc EXCEPT !.data_offset = from]
<1>1. /\ pc = "kv" /\ Step(checks, "admitted", a) /\ Len(acc.metadata) = file.kv_count
      /\ file \in Files
  BY DEF Finish, FInv, Progress
<1>2. Positions(acc) /\ KeysCounted(acc, file) /\ TensorsFollow(acc, file)
  BY DEF FInv, Sound
<1>3. DOMAIN checks = 1..5 /\ 5 \in Nat
  OBVIOUS
<1>4. \A i \in 1..5 : checks[i][2] \in Refusals
  BY DEF Refusals, Unread
<1>5. (\A i \in 1..5 : checks[i][1]) => file.size = PINNED_FILE_SIZE
  <2>1. checks[4][1] = (file.size = PINNED_FILE_SIZE) /\ 4 \in 1..5
    OBVIOUS
  <2> HIDE DEF checks
  <2>2. QED
    BY <2>1
<1> HIDE DEF checks
<1>6. /\ UNCHANGED <<file, view>>
      /\ \/ pc' = "admitted" /\ acc' = a /\ \A i \in 1..5 : checks[i][1]
         \/ pc' \in Refusals /\ acc' = Fresh
  <2> HIDE DEF a
  <2>1. QED
    BY <1>1, <1>3, <1>4, StepIs
<1>7. CASE pc' = "admitted" /\ acc' = a /\ \A i \in 1..5 : checks[i][1]
  <2>1. acc.pos <= PINNED_FILE_SIZE /\ acc.pos \in Nat
    BY <1>1, <1>2, <1>5, <1>7 DEF FInv, Progress, Positions
  <2>2. acc.pos + 31 <= Top
    BY <2>1, PinnedAssumption
  <2>3. from \in Nat /\ from >= acc.pos
    BY <2>1, <2>2, AlignsUp
  <2> HIDE DEF from
  <2>4. /\ a.pos = acc.pos /\ a.metadata = acc.metadata /\ a.seen_keys = acc.seen_keys
        /\ a.tensors = acc.tensors /\ a.prev_end = acc.prev_end /\ a.total = acc.total
        /\ a.data_offset = from /\ DOMAIN a = DOMAIN acc
    BY <1>2 DEF Positions
  <2> HIDE DEF a
  <2>5. Positions(a) /\ KeysCounted(a, file) /\ TensorsFollow(a, file)
    BY <1>2, <2>3, <2>4 DEF Positions, KeysCounted, TensorsFollow
  <2>6. Sound(acc', file')
    BY <1>6, <1>7, <2>5 DEF Sound
  <2>7. Progress'
    BY <1>1, <1>6, <1>7, <2>3, <2>4 DEF FInv, Progress
  <2>8. view.state # "built"
    BY <1>1 DEF FInv, ViewShowsFile
  <2>9. ViewShowsFile'
    BY <1>6, <2>8 DEF ViewShowsFile
  <2>10. QED
    BY <2>6, <2>7, <2>9 DEF FInv
<1>8. CASE pc' \in Refusals /\ acc' = Fresh
  BY <1>1, <1>6, <1>8, Refusing
<1>9. QED
  BY <1>6, <1>7, <1>8

-----------------------------------------------------------------------------
(* Building a view.                                                        *)

Results ==
  {"ok", "ElementsNotBlockAligned", "ByteRangeNotBlockAligned", "ByteLenMismatch",
   "ArithmeticOverflow", "ByteRangeOutOfBounds", "MisalignedRangeStart", "EncodingMismatch",
   "WrongFileSize", "DataRegionOutOfBounds", "OutsideDataRegion"}

(* A layout that resolves lies in the file. *)
LEMMA ResolveIs ==
  ASSUME NEW d
  PROVE  /\ resolve(d) \in Results
         /\ resolve(d) = "ok" => Range0(d).end <= file.size
<1> DEFINE t == d.ggml_type
           r == Range0(d)
           whole == FoldSeq(LAMBDA x, y : x + y, 0, ScaleMinEncoding(t)) = block_bytes(t)
           checks == << <<d.element_count % block_elements(t) = 0, "ElementsNotBlockAligned">>,
                   <<d.byte_len % block_bytes(t) = 0, "ByteRangeNotBlockAligned">>,
                   <<d.byte_len = (d.element_count \div block_elements(t)) * block_bytes(t), "ByteLenMismatch">>,
                   <<r.end <= Top, "ArithmeticOverflow">>,
                   <<r.end <= file.size, "ByteRangeOutOfBounds">>,
                   <<r.start % GGUF_ALIGNMENT = 0, "MisalignedRangeStart">>,
                   <<whole, "EncodingMismatch">> >>
<1>1. resolve(d) = FirstOf(checks)
  BY DEF resolve
<1> HIDE DEF whole
<1>2. DOMAIN checks = 1..7 /\ 7 \in Nat
  OBVIOUS
<1>3. \A i \in 1..7 : checks[i][2] \in Results \ {"ok"}
  BY DEF Results
<1>4. checks[5][1] = (Range0(d).end <= file.size) /\ 5 \in 1..7
  OBVIOUS
<1> HIDE DEF checks
<1>5. \/ FirstOf(checks) = "ok" /\ \A i \in 1..7 : checks[i][1]
      \/ \E i \in 1..7 : ~checks[i][1] /\ FirstOf(checks) = checks[i][2]
  BY <1>2, FirstOfIs
<1>6. QED
  BY <1>1, <1>3, <1>4, <1>5 DEF Results

(* A check is a condition and what its failure is called. *)
Checks == {c \in BOOLEAN \X Results : c[1] \/ c[2] # "ok"}

LEMMA IsCheck ==
  ASSUME NEW b \in BOOLEAN, NEW e \in Results, b \/ e # "ok"
  PROVE  <<b, e>> \in Checks /\ << <<b, e>> >> \in Seq(Checks) /\ Len(<< <<b, e>> >>) = 1
<1>1. <<b, e>> \in Checks
  BY DEF Checks
<1>2. QED
  BY <1>1

(* What a row of such checks ends in. *)
LEMMA RowEnds ==
  ASSUME NEW row \in Seq(Checks)
  PROVE  /\ FirstOf(row) \in Results
         /\ FirstOf(row) = "ok" => \A i \in 1..Len(row) : row[i][1]
<1>1. DOMAIN row = 1..Len(row) /\ Len(row) \in Nat
  OBVIOUS
<1>2. \A i \in 1..Len(row) : row[i] \in Checks
  OBVIOUS
<1>3. \/ FirstOf(row) = "ok" /\ \A i \in 1..Len(row) : row[i][1]
      \/ \E i \in 1..Len(row) : ~row[i][1] /\ FirstOf(row) = row[i][2]
  BY <1>1, FirstOfIs
<1>4. "ok" \in Results
  BY DEF Results
<1>5. \A c \in Checks : c[2] \in Results /\ (~c[1] => c[2] # "ok")
  BY DEF Checks
<1>6. QED
  BY <1>2, <1>3, <1>4, <1>5

(* One row of checks after another. *)
Joined(u, v, w) ==
  /\ w \in Seq(Checks) /\ Len(u) \in Nat /\ Len(v) \in Nat
  /\ Len(w) = Len(u) + Len(v)
  /\ \A i \in 1..Len(u) : w[i] = u[i]
  /\ \A i \in 1..Len(v) : w[Len(u) + i] = v[i]

LEMMA ConcatJoins ==
  ASSUME NEW u \in Seq(Checks), NEW v \in Seq(Checks)
  PROVE  Joined(u, v, u \o v)
BY DEF Joined

(* A view built has the size of the file, and its layouts resolve. *)
LEMMA BuiltFrom ==
  ASSUME NEW layouts \in Seq(Checks), NEW ranges \in Seq(Checks),
         NEW same \in BOOLEAN, NEW region \in BOOLEAN
  PROVE  LET e == FirstOf(<< <<same, "WrongFileSize">> >> \o layouts
                          \o << <<region, "DataRegionOutOfBounds">> >> \o ranges)
         IN  /\ e \in Results
             /\ e = "ok" => same /\ \A i \in 1..Len(layouts) : layouts[i][1]
<1> DEFINE s1 == << <<same, "WrongFileSize">> >>
           s3 == << <<region, "DataRegionOutOfBounds">> >>
           s12 == s1 \o layouts
           s123 == s12 \o s3
           all == s123 \o ranges
           n == Len(layouts)
<1>1. s1 \in Seq(Checks) /\ s3 \in Seq(Checks) /\ Len(s1) = 1 /\ Len(s3) = 1
  BY IsCheck DEF Results
<1>2. s1[1][1] = same
  OBVIOUS
<1> HIDE DEF s1, s3
<1>3. /\ s12 \in Seq(Checks) /\ n \in Nat /\ Len(s12) = 1 + n
      /\ \A i \in 1..1 : s12[i] = s1[i]
      /\ \A i \in 1..n : s12[1 + i] = layouts[i]
  <2>1. Joined(s1, layouts, s12)
    BY <1>1, ConcatJoins
  <2> HIDE DEF s12
  <2>2. QED
    BY <1>1, <2>1 DEF Joined
<1> HIDE DEF s12, n
<1>4. /\ s123 \in Seq(Checks) /\ Len(s123) = (1 + n) + 1
      /\ \A i \in 1..(1 + n) : s123[i] = s12[i]
  <2>1. Joined(s12, s3, s123)
    BY <1>1, <1>3, ConcatJoins
  <2> HIDE DEF s123
  <2>2. QED
    BY <1>1, <1>3, <2>1 DEF Joined
<1> HIDE DEF s123
<1>5. /\ all \in Seq(Checks) /\ Len(ranges) \in Nat /\ Len(all) = ((1 + n) + 1) + Len(ranges)
      /\ \A i \in 1..((1 + n) + 1) : all[i] = s123[i]
  <2>1. Joined(s123, ranges, all)
    BY <1>4, ConcatJoins
  <2> HIDE DEF all
  <2>2. QED
    BY <1>4, <2>1 DEF Joined
<1> HIDE DEF all
<1>6. all[1] = s1[1] /\ 1 \in 1..Len(all)
  <2>1. 1 \in 1..1 /\ 1 \in 1..(1 + n) /\ 1 \in 1..((1 + n) + 1) /\ 1 \in 1..Len(all)
    BY <1>3, <1>5
  <2>2. QED
    BY <1>3, <1>4, <1>5, <2>1
<1>7. ASSUME NEW i \in 1..n PROVE all[1 + i] = layouts[i] /\ 1 + i \in 1..Len(all)
  <2>1. 1 + i \in 1..(1 + n) /\ 1 + i \in 1..((1 + n) + 1) /\ 1 + i \in 1..Len(all)
    BY <1>3, <1>5
  <2>2. QED
    BY <1>3, <1>4, <1>5, <2>1
<1>8. /\ FirstOf(all) \in Results
      /\ FirstOf(all) = "ok" => \A i \in 1..Len(all) : all[i][1]
  BY <1>5, RowEnds
<1>9. FirstOf(all) = "ok" => same /\ \A i \in 1..n : layouts[i][1]
  BY <1>2, <1>6, <1>7, <1>8
<1>10. QED
  BY <1>8, <1>9 DEF all, s123, s12, s1, s3, n

LEMMA BuildKeeps ==
  ASSUME FInv, NEW size \in Buffers, build(size)
  PROVE  FInv'
<1> DEFINE ds == acc.tensors
           n == Len(ds)
           layouts == [i \in DOMAIN ds |-> <<resolve(ds[i]) = "ok", resolve(ds[i])>>]
           ranges == [i \in DOMAIN ds |-> <<InRegion(ds[i]), "OutsideDataRegion">>]
           same == size = file.size
           region == acc.data_offset + acc.total <= file.size
           e == FirstOf(<< <<same, "WrongFileSize">> >> \o layouts
                        \o << <<region, "DataRegionOutOfBounds">> >> \o ranges)
           entries == [i \in DOMAIN ds |-> TensorViewEntry(ds[i])]
           built == [state |-> "built", size |-> size, data_offset |-> acc.data_offset,
                     data_len |-> acc.total, entries |-> entries]
<1>1. /\ pc = "admitted" /\ UNCHANGED <<file, pc, acc>>
      /\ view' = IF e = "ok" THEN built ELSE [state |-> e]
  BY DEF build
<1>2. ds \in Seq(Descriptors(file)) /\ n \in Nat /\ DOMAIN ds = 1..n
  BY DEF FInv, Sound, TensorsFollow
<1>3. layouts \in Seq(Checks) /\ Len(layouts) = n
  <2>1. ASSUME NEW i \in 1..n
        PROVE  <<resolve(ds[i]) = "ok", resolve(ds[i])>> \in Checks
    BY ResolveIs, IsCheck
  <2>2. layouts \in [1..n -> Checks]
    <3>1. layouts = [i \in 1..n |-> <<resolve(ds[i]) = "ok", resolve(ds[i])>>]
      BY <1>2
    <3>2. QED
      BY <2>1, <3>1
  <2> HIDE DEF layouts
  <2>3. QED
    BY <1>2, <2>2
<1>4. ranges \in Seq(Checks) /\ Len(ranges) = n
  <2>1. ASSUME NEW i \in 1..n
        PROVE  <<InRegion(ds[i]), "OutsideDataRegion">> \in Checks
    <3>1. InRegion(ds[i]) \in BOOLEAN /\ "OutsideDataRegion" \in Results
      BY DEF InRegion, Results
    <3>2. QED
      BY <3>1, IsCheck
  <2>2. ranges \in [1..n -> Checks]
    <3>1. ranges = [i \in 1..n |-> <<InRegion(ds[i]), "OutsideDataRegion">>]
      BY <1>2
    <3>2. QED
      BY <2>1, <3>1
  <2> HIDE DEF ranges
  <2>3. QED
    BY <1>2, <2>2
<1>5. \A i \in 1..n : layouts[i][1] => Range0(ds[i]).end <= file.size
  <2>1. ASSUME NEW i \in 1..n PROVE layouts[i][1] = (resolve(ds[i]) = "ok")
    BY <1>2
  <2>2. QED
    BY <2>1, ResolveIs
<1>6. same \in BOOLEAN /\ region \in BOOLEAN
  OBVIOUS
<1>7. \A i \in 1..n : entries[i] = TensorViewEntry(ds[i])
  BY <1>2
<1>8. DOMAIN entries = 1..n
  BY <1>2
<1> HIDE DEF layouts, ranges, same, region, entries, n
<1>9. e \in Results /\ (e = "ok" => same /\ \A i \in 1..n : layouts[i][1])
  BY <1>3, <1>4, <1>6, BuiltFrom
<1> HIDE DEF e
<1>10. Progress' /\ Sound(acc', file')
  <2>1. Progress'
    BY <1>1 DEF FInv, Progress
  <2>2. Sound(acc', file')
    BY <1>1 DEF FInv
  <2>3. QED
    BY <2>1, <2>2
<1>11. CASE e = "ok"
  <2>1. /\ DOMAIN view' = {"state", "size", "data_offset", "data_len", "entries"}
        /\ view'.size = size /\ view'.entries = entries
    BY <1>1, <1>11
  <2>2. size = file.size
    BY <1>9, <1>11 DEF same
  <2>3. ASSUME NEW i \in 1..n
        PROVE  Shows(entries[i], ds[i])
    <3>1. Range0(ds[i]).end <= file.size
      BY <1>5, <1>9, <1>11
    <3> DEFINE x == TensorViewEntry(ds[i])
    <3>2. /\ DOMAIN x = {"name", "ggml_type", "element_count", "blocks", "range", "native"}
          /\ x.native = TRUE /\ x.ggml_type = ds[i].ggml_type /\ x.element_count = ds[i].element_count
          /\ x.blocks = ds[i].blocks /\ x.range = Range0(ds[i])
      BY DEF TensorViewEntry
    <3> HIDE DEF x
    <3>3. Shows(x, ds[i])
      BY <3>1, <3>2 DEF Shows
    <3>4. QED
      BY <1>7, <3>3 DEF x
  <2>4. QED
    BY <1>1, <1>8, <1>10, <2>1, <2>2, <2>3 DEF FInv, ViewShowsFile, Shows, Range0, n
<1>12. CASE e # "ok"
  <2>1. view'.state # "built"
    BY <1>1, <1>9, <1>12 DEF Results
  <2>2. QED
    BY <1>10, <2>1 DEF FInv, ViewShowsFile
<1>13. QED
  BY <1>11, <1>12

LEMMA RepackKeeps ==
  ASSUME FInv, NEW k \in DOMAIN acc.tensors, with_declared_repack(k)
  PROVE  FInv'
<1> DEFINE n == Len(acc.tensors)
<1>1. /\ view.state = "built" /\ UNCHANGED <<file, pc, acc>>
      /\ view' = [view EXCEPT !.entries[k].native = FALSE]
  BY DEF with_declared_repack
<1>2. /\ DOMAIN view = {"state", "size", "data_offset", "data_len", "entries"}
      /\ pc = "admitted" /\ view.size = file.size
      /\ DOMAIN view.entries = 1..n
      /\ \A i \in 1..n : Shows(view.entries[i], acc.tensors[i])
  BY <1>1 DEF FInv, ViewShowsFile
<1>3. /\ view'.state = "built" /\ view'.size = view.size
      /\ DOMAIN view' = DOMAIN view
      /\ view'.entries = [view.entries EXCEPT ![k].native = FALSE]
  BY <1>1, <1>2
<1>4. k \in 1..n /\ DOMAIN view'.entries = 1..n
  BY <1>2, <1>3 DEF FInv, Sound, TensorsFollow
<1>5. ASSUME NEW i \in 1..n
      PROVE  Shows(view'.entries[i], acc.tensors[i])
  <2>1. Shows(view.entries[i], acc.tensors[i])
    BY <1>2
  <2>2. CASE i # k
    <3>1. view'.entries[i] = view.entries[i]
      BY <1>2, <1>3, <2>2
    <3>2. QED
      BY <2>1, <3>1
  <2>3. CASE i = k
    <3>1. view'.entries[k] = [view.entries[k] EXCEPT !.native = FALSE]
      BY <1>2, <1>3, <1>4
    <3> DEFINE x == view.entries[k]
               y == view'.entries[k]
    <3>2. /\ DOMAIN x = {"name", "ggml_type", "element_count", "blocks", "range", "native"}
          /\ y = [x EXCEPT !.native = FALSE]
      BY <2>1, <2>3, <3>1 DEF Shows
    <3> HIDE DEF x, y
    <3>3. /\ DOMAIN y = DOMAIN x /\ y.ggml_type = x.ggml_type /\ y.element_count = x.element_count
          /\ y.blocks = x.blocks /\ y.range = x.range /\ y.native = FALSE
      BY <3>2
    <3>4. QED
      BY <2>1, <2>3, <3>3 DEF Shows, x, y
  <2>4. QED
    BY <2>2, <2>3
<1>6. Progress' /\ Sound(acc', file')
  BY <1>1 DEF FInv, Progress
<1>7. ViewShowsFile'
  <2>1. \A i \in 1..n : Shows(view.entries[i], acc.tensors[i])'
    <3>1. ASSUME NEW i \in 1..n PROVE Shows(view.entries[i], acc.tensors[i])'
      <4>1. Shows(view'.entries[i], acc.tensors[i])
        BY <1>5
      <4>2. QED
        BY <1>1, <4>1 DEF Shows, Range0
    <3>2. QED
      BY <1>1, <3>1
  <2>2. QED
    BY <1>1, <1>2, <1>3, <1>4, <2>1 DEF ViewShowsFile
<1>8. QED
  BY <1>6, <1>7 DEF FInv

-----------------------------------------------------------------------------
(* The invariant holds.                                                    *)

LEMMA FInvInvariant == FileSpec => []FInv
<1>1. FileInit => FInv
  <2> SUFFICES ASSUME FileInit PROVE FInv
    OBVIOUS
  <2>1. pc = "idle" /\ acc = Fresh /\ view.state # "built"
    BY DEF FileInit, NoView
  <2>2. Sound(acc, file)
    BY <2>1, FreshIsSound
  <2>3. Progress /\ ViewShowsFile
    BY <2>1 DEF Progress, ViewShowsFile, Refusals, Unread
  <2>4. QED
    BY <2>2, <2>3 DEF FInv
<1>2. FInv /\ [FileNext]_fileVars => FInv'
  <2> SUFFICES ASSUME FInv, [FileNext]_fileVars PROVE FInv'
    OBVIOUS
  <2>1. ASSUME pc = "idle", NEW f \in Files, admit_file(f) \/ admit_bytes(f) PROVE FInv'
    <3>1. /\ file' = f /\ acc' = Fresh /\ pc' \in {"header", "FileSizeMismatch"}
          /\ UNCHANGED view /\ view.state # "built"
      BY <2>1 DEF admit_file, admit_bytes, FInv, Progress, ViewShowsFile
    <3>2. Sound(acc', file')
      BY <3>1, FreshIsSound
    <3>3. Progress'
      BY <3>1 DEF Progress, Refusals
    <3>4. ViewShowsFile'
      BY <3>1 DEF ViewShowsFile
    <3>5. QED
      BY <3>2, <3>3, <3>4 DEF FInv
  <2>2. CASE Header
    BY <2>2, HeaderKeeps
  <2>3. CASE MetadataKv
    BY <2>3, MetadataKvKeeps
  <2>4. CASE TensorInfo
    BY <2>4, TensorInfoKeeps
  <2>5. CASE Finish
    BY <2>5, FinishKeeps
  <2>6. ASSUME NEW n \in Buffers, build(n) PROVE FInv'
    BY <2>6, BuildKeeps
  <2>7. ASSUME NEW i \in DOMAIN acc.tensors, with_declared_repack(i) PROVE FInv'
    BY <2>7, RepackKeeps
  <2>8. CASE UNCHANGED fileVars
    BY <2>8 DEF fileVars, FInv, Progress, Sound, Positions, KeysCounted, TensorsFollow,
                ViewShowsFile, Shows, Range0
  <2>9. QED
    BY <2>1, <2>2, <2>3, <2>4, <2>5, <2>6, <2>7, <2>8 DEF FileNext
<1>3. QED
  BY <1>1, <1>2, PTL DEF FileSpec

-----------------------------------------------------------------------------
(* The properties.                                                         *)

(* As many different admitted keys as there are admitted keys are all of   *)
(* them.                                                                   *)
LEMMA NoneMissing ==
  ASSUME FInv
  PROVE  NoKeyMissing
<1> SUFFICES ASSUME pc = "admitted" PROVE acc.seen_keys = ADMITTED_KEYS
  BY DEF NoKeyMissing
<1>1. /\ acc.seen_keys \subseteq ADMITTED_KEYS /\ IsFiniteSet(ADMITTED_KEYS)
      /\ Cardinality(acc.seen_keys) = Cardinality(ADMITTED_KEYS)
  BY PinnedAssumption DEF FInv, Progress, Sound, KeysCounted
<1>2. QED
  BY <1>1, FS_Subset

(* Read block by block, a tensor is the bytes of its range. *)
LEMMA BlocksCover ==
  ASSUME NEW e, e.ggml_type \in GgmlType, e.blocks \in Nat, e.range.start \in Nat,
         e.range.end = e.range.start + e.blocks * block_bytes(e.ggml_type),
         view.size \in Nat, e.range.end <= view.size
  PROVE  UNION {raw_block(e, b) : b \in 0..e.blocks} = e.range.start..(e.range.end - 1)
<1> DEFINE s == e.range.start
           n == e.blocks
           w == block_bytes(e.ggml_type)
           z == e.range.end
<1>1. w \in {4, 22, 34, 144, 210}
  BY BlockSizes DEF GgmlType
<1>2. s \in Nat /\ n \in Nat /\ z = s + n * w /\ z \in Nat /\ view.size \in Nat /\ z <= view.size
  <2>1. n * w \in Nat
    BY <1>1
  <2>2. QED
    BY <2>1
<1>3. ASSUME NEW b \in 0..n
      PROVE  raw_block(e, b) = IF b >= n \/ (s + b * w) + w > z \/ z > view.size THEN {}
                               ELSE (s + b * w)..(((s + b * w) + w) - 1)
  BY Zenon DEF raw_block
<1> HIDE DEF s, n, w, z
<1>4. ASSUME NEW b \in 0..n, NEW x \in raw_block(e, b) PROVE x \in s..(z - 1)
  <2>1. b \in Nat /\ b < n /\ x \in (s + b * w)..(((s + b * w) + w) - 1)
    <3>1. ~(b >= n \/ (s + b * w) + w > z \/ z > view.size)
      BY <1>3, <1>4, Zenon
    <3>2. x \in (s + b * w)..(((s + b * w) + w) - 1)
      BY <1>3, <1>4, <3>1, Zenon
    <3>3. b \in Nat /\ b < n
      BY <1>2, <3>1
    <3>4. QED
      BY <3>2, <3>3
  <2>2. b * w \in Nat /\ b * w + w <= n * w
    <3>1. CASE w = 4
      BY <1>2, <2>1, <3>1
    <3>2. CASE w = 22
      BY <1>2, <2>1, <3>2
    <3>3. CASE w = 34
      BY <1>2, <2>1, <3>3
    <3>4. CASE w = 144
      BY <1>2, <2>1, <3>4
    <3>5. CASE w = 210
      BY <1>2, <2>1, <3>5
    <3>6. QED
      BY <1>1, <3>1, <3>2, <3>3, <3>4, <3>5
  <2>3. n * w \in Nat /\ w \in Nat
    BY <1>1, <1>2
  <2> DEFINE bw == b * w
             nw == n * w
  <2> HIDE DEF bw, nw
  <2>4. x \in (s + bw)..(((s + bw) + w) - 1) /\ bw \in Nat /\ bw + w <= nw /\ nw \in Nat /\ z = s + nw
    BY <1>2, <2>1, <2>2, <2>3 DEF bw, nw
  <2>5. QED
    BY <1>2, <2>3, <2>4
<1>5. ASSUME NEW x \in s..(z - 1) PROVE \E b \in 0..n : x \in raw_block(e, b)
  <2> DEFINE b == (x - s) \div w
  <2>1. b \in Nat /\ b * w <= x - s /\ x - s < b * w + w /\ b < n /\ b * w + w <= n * w
        /\ b * w \in Nat /\ n * w \in Nat
    <3>1. x - s \in Nat /\ x - s < n * w
      BY <1>1, <1>2
    <3>2. CASE w = 4
      BY <1>2, <3>1, <3>2
    <3>3. CASE w = 22
      BY <1>2, <3>1, <3>3
    <3>4. CASE w = 34
      BY <1>2, <3>1, <3>4
    <3>5. CASE w = 144
      BY <1>2, <3>1, <3>5
    <3>6. CASE w = 210
      BY <1>2, <3>1, <3>6
    <3>7. QED
      BY <1>1, <3>2, <3>3, <3>4, <3>5, <3>6
  <2> HIDE DEF b
  <2> DEFINE bw == b * w
             nw == n * w
  <2>2. bw \in Nat /\ nw \in Nat /\ bw <= x - s /\ x - s < bw + w /\ bw + w <= nw /\ z = s + nw
    BY <1>2, <2>1
  <2>3. w \in Nat
    BY <1>1
  <2> HIDE DEF bw, nw
  <2>4. x \in (s + bw)..(((s + bw) + w) - 1) /\ ~((s + bw) + w > z)
    BY <1>2, <2>2, <2>3
  <2>5. b \in 0..n /\ ~(b >= n) /\ ~(z > view.size)
    BY <1>2, <2>1
  <2>6. x \in raw_block(e, b)
    BY <1>3, <2>4, <2>5 DEF bw
  <2>7. QED
    BY <2>5, <2>6
<1>6. UNION {raw_block(e, b) : b \in 0..n} = s..(z - 1)
  BY <1>4, <1>5
<1>7. QED
  BY <1>6 DEF s, n, z

(* The bytes of a tensor, as a view hands them out. *)
BytesOf(e) == UNION {raw_block(e, b) : b \in 0..e.blocks}

LEMMA EntryBytes ==
  ASSUME FInv, view.state = "built", NEW i \in 1..Len(acc.tensors)
  PROVE  LET e == view.entries[i]
             d == acc.tensors[i]
         IN  /\ BytesOf(e) = e.range.start..(e.range.end - 1)
             /\ acc.pos \in Nat /\ file.size \in Nat
             /\ e.range.start \in Nat /\ e.range.start >= acc.pos
             /\ e.range.end \in Nat /\ e.range.end <= file.size
             /\ e.range.start = acc.data_offset + d.offset /\ e.range.end = acc.data_offset + Past(d)
             /\ e.element_count > 0 => e.range.start < e.range.end
<1> DEFINE e == view.entries[i]
           d == acc.tensors[i]
           w == block_bytes(d.ggml_type)
<1>1. /\ pc = "admitted" /\ view.size = file.size /\ Shows(e, d)
      /\ file \in Files /\ acc.data_offset >= acc.pos
  BY DEF FInv, ViewShowsFile, Progress
<1>2. Laid(d) /\ acc.pos \in Nat /\ acc.data_offset \in Nat
  BY DEF FInv, Sound, Positions, TensorsFollow
<1>3. file.size \in Nat
  BY <1>1, FilesAssumption
<1>4. d.byte_len \in Nat /\ Past(d) \in Nat /\ d.offset <= Past(d)
  BY <1>2, LaidEnds
<1>5. /\ e.range.start = acc.data_offset + d.offset
      /\ e.range.end = acc.data_offset + d.offset + d.byte_len
      /\ e.range.end <= file.size
      /\ e.ggml_type = d.ggml_type /\ e.blocks = d.blocks /\ e.element_count = d.element_count
  BY <1>1 DEF Shows, Range0
<1>6. /\ d.offset \in Nat /\ d.blocks \in Nat /\ d.ggml_type \in GgmlType
      /\ d.byte_len = d.blocks * w /\ Past(d) = d.offset + d.byte_len
      /\ d.element_count = d.blocks * block_elements(d.ggml_type)
  BY <1>2 DEF Laid, Past
<1> HIDE DEF e, d
<1>7. /\ e.range.start \in Nat /\ e.range.start >= acc.pos /\ e.range.end \in Nat
      /\ e.range.end = e.range.start + d.byte_len
      /\ e.range.end = acc.data_offset + Past(d)
  BY <1>1, <1>2, <1>4, <1>5, <1>6
<1>8. BytesOf(e) = e.range.start..(e.range.end - 1)
  <2>1. e.range.end = e.range.start + e.blocks * block_bytes(e.ggml_type)
    BY <1>5, <1>6, <1>7
  <2>2. view.size \in Nat /\ e.range.end <= view.size
    BY <1>1, <1>3, <1>5
  <2>3. UNION {raw_block(e, b) : b \in 0..e.blocks} = e.range.start..(e.range.end - 1)
    BY <1>5, <1>6, <1>7, <2>1, <2>2, BlocksCover
  <2>4. QED
    BY <2>3 DEF BytesOf
<1>9. e.element_count > 0 => e.range.start < e.range.end
  <2> SUFFICES ASSUME e.element_count > 0 PROVE e.range.start < e.range.end
    OBVIOUS
  <2>1. w \in {4, 22, 34, 144, 210} /\ block_elements(d.ggml_type) \in {1, 32, 256}
    BY <1>6, BlockSizes DEF GgmlType
  <2>2. d.blocks > 0
    <3>1. CASE d.blocks = 0
      BY <1>5, <1>6, <2>1, <3>1
    <3>2. QED
      BY <1>6, <3>1
  <2>3. d.byte_len > 0
    BY <1>6, <2>1, <2>2
  <2>4. QED
    BY <1>4, <1>7, <2>3
<1>10. QED
  BY <1>1, <1>2, <1>3, <1>5, <1>7, <1>8, <1>9 DEF e, d

(* Each tensor its own bytes, all of them and within the file. *)
LEMMA Apart ==
  ASSUME FInv
  PROVE  TensorsApart
<1> SUFFICES ASSUME view.state = "built"
    PROVE  LET es == view.entries
           IN  /\ \A i \in DOMAIN es :
                     /\ BytesOf(es[i]) = es[i].range.start..(es[i].range.end - 1)
                     /\ \A x \in BytesOf(es[i]) : x < file.size /\ x >= acc.pos
                     /\ es[i].element_count > 0 => BytesOf(es[i]) # {}
               /\ \A i, j \in DOMAIN es : i < j => BytesOf(es[i]) \cap BytesOf(es[j]) = {}
  BY DEF TensorsApart, BytesOf
<1> DEFINE es == view.entries
<1>1. DOMAIN es = 1..Len(acc.tensors)
  BY DEF FInv, ViewShowsFile
<1>2. ASSUME NEW i \in DOMAIN es
      PROVE  /\ BytesOf(es[i]) = es[i].range.start..(es[i].range.end - 1)
             /\ \A x \in BytesOf(es[i]) : x < file.size /\ x >= acc.pos
             /\ es[i].element_count > 0 => BytesOf(es[i]) # {}
  <2>1. /\ BytesOf(es[i]) = es[i].range.start..(es[i].range.end - 1)
        /\ acc.pos \in Nat /\ file.size \in Nat
        /\ es[i].range.start \in Nat /\ es[i].range.start >= acc.pos
        /\ es[i].range.end \in Nat /\ es[i].range.end <= file.size
        /\ es[i].element_count > 0 => es[i].range.start < es[i].range.end
    BY <1>1, EntryBytes
  <2> HIDE DEF es
  <2>2. es[i].element_count > 0 => es[i].range.start \in BytesOf(es[i])
    BY <2>1
  <2>3. \A x \in BytesOf(es[i]) : x < file.size /\ x >= acc.pos
    BY <2>1
  <2>4. QED
    BY <2>1, <2>2, <2>3
<1>3. ASSUME NEW i \in DOMAIN es, NEW j \in DOMAIN es, i < j
      PROVE  BytesOf(es[i]) \cap BytesOf(es[j]) = {}
  <2>1. /\ BytesOf(es[i]) = es[i].range.start..(es[i].range.end - 1)
        /\ BytesOf(es[j]) = es[j].range.start..(es[j].range.end - 1)
        /\ es[i].range.start \in Nat /\ es[i].range.end \in Nat
        /\ es[j].range.start \in Nat /\ es[j].range.end \in Nat
        /\ es[i].range.end = acc.data_offset + Past(acc.tensors[i])
        /\ es[j].range.start = acc.data_offset + acc.tensors[j].offset
    BY <1>1, EntryBytes
  <2>2. /\ Past(acc.tensors[i]) <= acc.tensors[j].offset /\ Laid(acc.tensors[i])
        /\ Laid(acc.tensors[j]) /\ acc.data_offset \in Nat
    BY <1>1, <1>3 DEF FInv, Sound, TensorsFollow, Positions
  <2>3. Past(acc.tensors[i]) \in Nat /\ acc.tensors[j].offset \in Nat
    BY <2>2, LaidEnds DEF Laid
  <2> HIDE DEF es
  <2>4. es[i].range.end <= es[j].range.start
    BY <2>1, <2>2, <2>3
  <2>5. QED
    BY <2>1, <2>4
<1>4. QED
  BY <1>2, <1>3

(* A file that admission accepts has every admitted key, and the tensors   *)
(* of a view of it read, block by block, bytes of their own inside it.     *)
THEOREM FilesAreWhole == FileSpec => []AdmittedIsWhole
<1>1. FInv => AdmittedIsWhole
  BY NoneMissing, Apart DEF AdmittedIsWhole
<1>2. QED
  BY <1>1, FInvInvariant, PTL

(* The gates of dequant_tensor and those of OracleReceipt::for_tensor let  *)
(* the same tensors through, although they ask in another order.           *)
THEOREM ReceiptsAgree == FileSpec => []ReceiptIffWeights
<1>1. FInv => ReceiptIffWeights
  <2> SUFFICES ASSUME FInv, view.state = "built", NEW i \in DOMAIN view.entries
      PROVE  LET e == view.entries[i]
             IN  /\ for_tensor(e) = "ok" => dequant_tensor(e) = "ok"
                 /\ dequant_tensor(e) = "ok" /\ e.blocks > 0 => for_tensor(e) = "ok"
    BY DEF ReceiptIffWeights
  <2> DEFINE e == view.entries[i]
             whole == e.range.end - e.range.start = e.blocks * block_bytes(e.ggml_type)
             laid == e.native \/ e.blocks = 0
  <2>1. e.native \in BOOLEAN
    BY DEF FInv, ViewShowsFile, Shows
  <2> HIDE DEF e
  <2>2. coverage_ok \in BOOLEAN /\ per_tensor_covered(e) \in BOOLEAN /\ whole \in BOOLEAN
        /\ laid \in BOOLEAN
    BY <2>1 DEF coverage_ok, per_tensor_covered
  <2> HIDE DEF whole, laid
  <2>3. dequant_tensor(e) = "ok" <=> coverage_ok /\ per_tensor_covered(e) /\ whole /\ laid
    <3> DEFINE checks == << <<coverage_ok, "CoverageNotOk">>,
                      <<per_tensor_covered(e), "EntryNotCovered">>,
                      <<whole, "RowBytesMismatch">>,
                      <<laid, "RepackNotNative">> >>
    <3>1. dequant_tensor(e) = FirstOf(checks)
      BY DEF dequant_tensor, whole, laid
    <3>2. DOMAIN checks = 1..4 /\ 4 \in Nat /\ 1..4 = {1, 2, 3, 4}
      OBVIOUS
    <3>3. /\ checks[1][1] = coverage_ok /\ checks[2][1] = per_tensor_covered(e)
          /\ checks[3][1] = whole /\ checks[4][1] = laid
          /\ checks[1][2] # "ok" /\ checks[2][2] # "ok" /\ checks[3][2] # "ok" /\ checks[4][2] # "ok"
      OBVIOUS
    <3> HIDE DEF checks
    <3>4. \/ FirstOf(checks) = "ok" /\ \A k \in 1..4 : checks[k][1]
          \/ \E k \in 1..4 : ~checks[k][1] /\ FirstOf(checks) = checks[k][2]
      BY <3>2, FirstOfIs
    <3>5. QED
      BY <2>2, <3>1, <3>2, <3>3, <3>4
  <2>4. for_tensor(e) = "ok" <=> coverage_ok /\ per_tensor_covered(e) /\ e.native /\ whole
    <3> DEFINE checks == << <<coverage_ok, "CoverageNotOk">>,
                      <<per_tensor_covered(e), "EntryNotCovered">>,
                      <<e.native, "RepackNotNative">>,
                      <<whole, "RowBytesMismatch">> >>
    <3>1. for_tensor(e) = FirstOf(checks)
      BY DEF for_tensor, whole
    <3>2. DOMAIN checks = 1..4 /\ 4 \in Nat /\ 1..4 = {1, 2, 3, 4}
      OBVIOUS
    <3>3. /\ checks[1][1] = coverage_ok /\ checks[2][1] = per_tensor_covered(e)
          /\ checks[3][1] = e.native /\ checks[4][1] = whole
          /\ checks[1][2] # "ok" /\ checks[2][2] # "ok" /\ checks[3][2] # "ok" /\ checks[4][2] # "ok"
      OBVIOUS
    <3> HIDE DEF checks
    <3>4. \/ FirstOf(checks) = "ok" /\ \A k \in 1..4 : checks[k][1]
          \/ \E k \in 1..4 : ~checks[k][1] /\ FirstOf(checks) = checks[k][2]
      BY <3>2, FirstOfIs
    <3>5. QED
      BY <2>1, <2>2, <3>1, <3>2, <3>3, <3>4
  <2>5. for_tensor(e) = "ok" => dequant_tensor(e) = "ok"
    BY <2>3, <2>4 DEF laid
  <2>6. dequant_tensor(e) = "ok" /\ e.blocks > 0 => for_tensor(e) = "ok"
    <3>1. laid /\ e.blocks > 0 => e.native
      BY DEF laid
    <3>2. QED
      BY <2>3, <2>4, <3>1
  <2>7. QED
    BY <2>5, <2>6 DEF e
<1>2. QED
  BY <1>1, FInvInvariant, PTL

-----------------------------------------------------------------------------
(* Decoder.  What the run caches is what one forward pass over the same    *)
(* tokens computes (RunOf), because a row of a layer depends on no later   *)
(* row (ContextReads, PrefixHidden).                                       *)

(* The buffers of keys and values of a layer, as one pass makes them. *)
KeysOf(il, h) == Flat([t \in 1..Len(h) |-> KeyRow(il, h[t], t - 1)], KV_HEAD_COUNT)
ValuesOf(il, h) == Flat([t \in 1..Len(h) |-> ValueRow(il, h[t])], KV_HEAD_COUNT)
Groups == [h \in 0..(HEAD_COUNT - 1) |-> h \div (HEAD_COUNT \div KV_HEAD_COUNT)]

IsRows(h, n) == h = [t \in 1..n |-> h[t]]

LEMMA RowsLen ==
  ASSUME NEW n \in Nat, NEW h, IsRows(h, n)
  PROVE  Len(h) = n
BY ListOf DEF IsRows

(* Grouped query heads read heads there are. *)
LEMMA GroupsType ==
  ASSUME NEW x \in 1..HEAD_COUNT
  PROVE  Groups[x - 1] \in 0..(KV_HEAD_COUNT - 1)
<1> DEFINE K == KV_HEAD_COUNT
           r == HEAD_COUNT \div K
           h == x - 1
           q == h \div r
<1>1. HEAD_COUNT \in Nat \ {0} /\ K \in Nat \ {0} /\ HEAD_COUNT % K = 0
  BY ShapeAssumption
<1>2. r \in Nat /\ HEAD_COUNT = K * r
  <2> HIDE DEF K
  <2>1. QED
    BY <1>1
<1>3. r # 0
  BY <1>1, <1>2
<1>4. h \in Nat /\ h < K * r
  BY <1>1, <1>2
<1> HIDE DEF r, h, K
<1>5. q \in Nat /\ h = r * q + (h % r) /\ h % r \in Nat
  BY <1>2, <1>3, <1>4
<1> HIDE DEF q
<1>6. q < K
  <2>1. CASE K <= q
    <3>1. r * K <= r * q /\ r * K = K * r /\ r * q \in Nat
      BY <1>1, <1>2, <1>5, <2>1
    <3>2. QED
      BY <1>1, <1>2, <1>4, <1>5, <3>1
  <2>2. QED
    BY <1>1, <1>5, <2>1
<1>7. q \in 0..(K - 1)
  BY <1>1, <1>5, <1>6
<1>8. Groups[x - 1] = q
  BY <1>1 DEF Groups, q, h, r, K
<1>9. QED
  BY <1>7, <1>8 DEF K

(* A head that attends to the rows 0..last reads those rows only. *)
LEMMA ContextReads ==
  ASSUME NEW query, NEW last \in Nat, NEW rows \in Nat, rows = last + 1, NEW g \in 0..(KV_HEAD_COUNT - 1),
         NEW k, NEW v, NEW kk, NEW vv,
         \A x \in 1..(rows * KV_HEAD_COUNT) : k[x] = kk[x] /\ v[x] = vv[x]
  PROVE  Context(query, k, v, last, g) = Context(query, kk, vv, last, g)
<1> DEFINE at(j) == (j - 1) * KV_HEAD_COUNT + g + 1
<1>1. ASSUME NEW j \in 1..(last + 1)
      PROVE  k[at(j)] = kk[at(j)] /\ v[at(j)] = vv[at(j)]
  <2>1. KV_HEAD_COUNT \in Nat \ {0} /\ j - 1 \in Nat /\ g + 1 \in 1..KV_HEAD_COUNT
        /\ j - 1 < rows
    BY ShapeAssumption
  <2>2. (j - 1) * KV_HEAD_COUNT + (g + 1) \in 1..(rows * KV_HEAD_COUNT)
    BY <2>1, PlaceInRow
  <2>3. at(j) = (j - 1) * KV_HEAD_COUNT + (g + 1)
    BY <2>1
  <2>4. QED
    BY <2>2, <2>3
<1>2. /\ [j \in 1..(last + 1) |-> <<"dot", query, k[at(j)]>>]
           = [j \in 1..(last + 1) |-> <<"dot", query, kk[at(j)]>>]
      /\ [j \in 1..(last + 1) |-> v[at(j)]] = [j \in 1..(last + 1) |-> vv[at(j)]]
  BY <1>1
<1>3. QED
  BY <1>2 DEF Context

(* Row t of a layer is the row a single query of it, against the first t   *)
(* rows of keys and values, would give.                                    *)
HeadsOf(q, k, v, last) ==
  [x \in 1..HEAD_COUNT |-> Context(q[x], k, v, last, Groups[x - 1])]

LEMMA KeyRowLen ==
  ASSUME NEW il, NEW h, NEW pos
  PROVE  IsRows(KeyRow(il, h, pos), KV_HEAD_COUNT) /\ IsRows(ValueRow(il, h), KV_HEAD_COUNT)
BY DEF IsRows, KeyRow, ValueRow, Rounded, rope_all_heads, Heads, dense

(* Row t of the flat buffer of rows. *)
LEMMA FlatRow ==
  ASSUME NEW n \in Nat, NEW rows, IsRows(rows, n), NEW w \in Nat \ {0},
         NEW t \in 0..(n - 1), NEW x \in 1..w
  PROVE  t * w + x \in 1..(n * w) /\ Flat(rows, w)[t * w + x] = rows[t + 1][x]
<1>1. Len(rows) = n
  BY RowsLen
<1>2. /\ t * w + x \in 1..(n * w)
      /\ (t * w + x - 1) \div w = t /\ (t * w + x - 1) % w = x - 1
  BY PlaceInRow
<1>3. Flat(rows, w)[t * w + x] = rows[t + 1][(x - 1) + 1]
  BY <1>1, <1>2 DEF Flat
<1>4. QED
  BY <1>2, <1>3

(* Row t of an attention over all rows at once. *)
LEMMA AttentionRow ==
  ASSUME NEW n \in Nat, NEW rows, IsRows(rows, n), NEW k, NEW v, NEW g, NEW t \in 1..n
  PROVE  RowOf(Attention(Flat(rows, HEAD_COUNT), k, v, n, n, g), HEAD_COUNT, t - 1)
           = [x \in 1..HEAD_COUNT |-> Context(rows[t][x], k, v, t - 1, g[x - 1])]
<1> DEFINE w == HEAD_COUNT
           q == Flat(rows, w)
           A == Attention(q, k, v, n, n, g)
<1>1. w \in Nat \ {0} /\ t - 1 \in 0..(n - 1) /\ t - 1 \in Nat /\ t - 1 < n /\ (t - 1) + 1 = t
  BY ShapeAssumption
<1>2. ASSUME NEW x \in 1..w
      PROVE  A[(t - 1) * w + x] = Context(rows[t][x], k, v, t - 1, g[x - 1])
  <2> DEFINE y == (t - 1) * w + x
  <2>1. y \in 1..(n * w) /\ (y - 1) \div w = t - 1 /\ (y - 1) % w = x - 1
    BY <1>1, PlaceInRow
  <2>2. q[y] = rows[t][x]
    <3> DEFINE s == t - 1
    <3>1. s \in 0..(n - 1) /\ s + 1 = t
      BY <1>1
    <3> HIDE DEF s, w, q
    <3>2. Flat(rows, w)[s * w + x] = rows[s + 1][x]
      BY <1>1, <3>1, FlatRow
    <3>3. QED
      BY <3>1, <3>2 DEF s, q
  <2> HIDE DEF y, q
  <2>3. A[y] = Context(q[y], k, v, n - n + ((y - 1) \div w), g[(y - 1) % w])
    BY <2>1 DEF Attention
  <2>4. n - n + ((y - 1) \div w) = t - 1
    BY <1>1, <2>1
  <2>5. QED
    BY <2>1, <2>2, <2>3, <2>4 DEF y
<1> HIDE DEF A
<1>3. RowOf(A, w, t - 1) = [x \in 1..w |-> Context(rows[t][x], k, v, t - 1, g[x - 1])]
  BY <1>2 DEF RowOf
<1>4. QED
  BY <1>3 DEF A

(* What one query attends to after n rows. *)
LEMMA SingleQuery ==
  ASSUME NEW n \in Nat, NEW q, NEW k, NEW v, NEW g
  PROVE  Attention(q, k, v, 1, n + 1, g)
           = [x \in 1..HEAD_COUNT |-> Context(q[x], k, v, n, g[x - 1])]
<1>1. HEAD_COUNT \in Nat \ {0} /\ 1 * HEAD_COUNT = HEAD_COUNT
  BY ShapeAssumption
<1>2. ASSUME NEW x \in 1..HEAD_COUNT
      PROVE  (x - 1) % HEAD_COUNT = x - 1 /\ (n + 1) - 1 + ((x - 1) \div HEAD_COUNT) = n
  <2>1. x - 1 \in 0..(HEAD_COUNT - 1) /\ 0 * HEAD_COUNT + x - 1 = x - 1
    BY <1>1
  <2>2. (x - 1) \div HEAD_COUNT = 0 /\ (x - 1) % HEAD_COUNT = x - 1
    BY <1>1, <2>1, PlaceInRow
  <2>3. QED
    BY <2>2
<1>3. QED
  BY <1>1, <1>2 DEF Attention

(* A layer, row by row. *)
LEMMA LayerRow ==
  ASSUME NEW n \in Nat, NEW h, IsRows(h, n), NEW il
  PROVE  /\ IsRows(forward_layer(il, h), n)
         /\ \A t \in 1..n :
              forward_layer(il, h)[t]
                = FinishRow(il, h[t], HeadsOf(QueryRow(il, h[t], t - 1), KeysOf(il, h),
                                              ValuesOf(il, h), t - 1))
<1> DEFINE rows == [t \in 1..n |-> QueryRow(il, h[t], t - 1)]
           q == Flat(rows, HEAD_COUNT)
           k == KeysOf(il, h)
           v == ValuesOf(il, h)
           ctx == Attention(q, k, v, n, n, Groups)
<1>1. Len(h) = n
  BY RowsLen
<1>2. forward_layer(il, h) = [t \in 1..n |-> FinishRow(il, h[t], RowOf(ctx, HEAD_COUNT, t - 1))]
  BY <1>1 DEF forward_layer, attention_gqa, KeysOf, ValuesOf, Groups
<1>3. IsRows(rows, n)
  BY DEF IsRows
<1>4. ASSUME NEW t \in 1..n
      PROVE  RowOf(ctx, HEAD_COUNT, t - 1) = HeadsOf(QueryRow(il, h[t], t - 1), k, v, t - 1)
  <2>1. rows[t] = QueryRow(il, h[t], t - 1)
    OBVIOUS
  <2> HIDE DEF rows, k, v
  <2>2. RowOf(ctx, HEAD_COUNT, t - 1)
          = [x \in 1..HEAD_COUNT |-> Context(rows[t][x], k, v, t - 1, Groups[x - 1])]
    BY <1>3, AttentionRow
  <2>3. QED
    BY <2>1, <2>2 DEF HeadsOf
<1> HIDE DEF ctx, k, v
<1>5. QED
  BY <1>2, <1>4 DEF IsRows, k, v

-----------------------------------------------------------------------------
(* The rows between the layers are a function of the layers. *)
LEMMA HiddenIs ==
  ASSUME NEW S, NEW tokens \in Seq(S)
  PROVE  /\ Hidden(tokens)[0] = [t \in 1..Len(tokens) |-> embed_row(tokens[t])]
         /\ \A il \in 1..LAYER_COUNT :
              Hidden(tokens)[il] = forward_layer(il, Hidden(tokens)[il - 1])
<1> DEFINE N == LAYER_COUNT
           b == [t \in 1..Len(tokens) |-> embed_row(tokens[t])]
           Good(U, m) ==
             U = [il \in 0..m |-> IF il = 0 THEN b ELSE forward_layer(il, U[il - 1])]
           T == {m \in 0..N : \E U : Good(U, m)}
<1>1. N \in Nat
  BY ShapeAssumption
<1> HIDE DEF b
<1>2. 0 \in T
  <2>1. Good([il \in 0..0 |-> b], 0)
    OBVIOUS
  <2> HIDE DEF Good
  <2>2. \E U : Good(U, 0)
    BY <2>1
  <2>3. QED
    BY <1>1, <2>2
<1>3. ASSUME NEW m \in 0..(N - 1), m \in T PROVE m + 1 \in T
  <2>1. PICK U : Good(U, m)
    BY <1>3
  <2> DEFINE V == [il \in 0..(m + 1) |-> IF il = m + 1 THEN forward_layer(m + 1, U[m]) ELSE U[il]]
  <2>2. m \in Nat /\ m \in 0..m /\ m + 1 \in 0..N
    BY <1>1
  <2>3. ASSUME NEW il \in 0..(m + 1)
        PROVE  V[il] = IF il = 0 THEN b ELSE forward_layer(il, V[il - 1])
    <3>1. CASE il = m + 1
      <4>1. il # 0 /\ il - 1 = m /\ V[m] = U[m] /\ V[il] = forward_layer(m + 1, U[m])
        BY <2>2, <3>1
      <4>2. QED
        BY ONLY <3>1, <4>1
    <3>2. CASE il # m + 1
      <4>1. il \in 0..m /\ V[il] = U[il] /\ (il # 0 => V[il - 1] = U[il - 1])
        BY <2>2, <3>2
      <4>2. U[il] = IF il = 0 THEN b ELSE forward_layer(il, U[il - 1])
        BY <2>1, <4>1
      <4>3. QED
        BY ONLY <4>1, <4>2
    <3>3. QED
      BY <3>1, <3>2
  <2>4. Good(V, m + 1)
    BY <2>3
  <2> HIDE DEF V, Good
  <2>5. QED
    BY <2>2, <2>4
<1>4. N \in T
  <2> HIDE DEF T
  <2>1. \A m \in 0..N : m \in T
    BY <1>1, <1>2, <1>3, UpTo
  <2>2. QED
    BY <1>1, <2>1
<1>5. \E U : Good(U, N)
  BY <1>4
<1> DEFINE g == CHOOSE U : Good(U, N)
<1>6. Good(g, N)
  <2> HIDE DEF Good
  <2>1. QED
    BY <1>5
<1>7. Hidden(tokens) = g
  BY DEF Hidden, b
<1> HIDE DEF g
<1>8. g[0] = b /\ \A il \in 1..N : g[il] = forward_layer(il, g[il - 1])
  BY <1>1, <1>6
<1>9. QED
  BY <1>7, <1>8 DEF b

LEMMA HiddenRows ==
  ASSUME NEW S, NEW tokens \in Seq(S)
  PROVE  \A il \in 0..LAYER_COUNT : IsRows(Hidden(tokens)[il], Len(tokens))
<1> DEFINE T == {il \in 0..LAYER_COUNT : IsRows(Hidden(tokens)[il], Len(tokens))}
<1>1. LAYER_COUNT \in Nat /\ Len(tokens) \in Nat
  BY ShapeAssumption
<1>2. 0 \in T
  <2>1. Hidden(tokens)[0] = [t \in 1..Len(tokens) |-> embed_row(tokens[t])]
    BY HiddenIs
  <2>2. IsRows(Hidden(tokens)[0], Len(tokens))
    BY <2>1 DEF IsRows
  <2>3. QED
    BY <1>1, <2>2
<1>3. ASSUME NEW m \in 0..(LAYER_COUNT - 1), m \in T PROVE m + 1 \in T
  <2>1. m + 1 \in 1..LAYER_COUNT /\ (m + 1) - 1 = m /\ m + 1 \in 0..LAYER_COUNT
    BY <1>1
  <2>2. Hidden(tokens)[m + 1] = forward_layer(m + 1, Hidden(tokens)[m])
    BY <2>1, HiddenIs
  <2>3. IsRows(Hidden(tokens)[m], Len(tokens))
    BY <1>3
  <2>4. IsRows(forward_layer(m + 1, Hidden(tokens)[m]), Len(tokens))
    BY <1>1, <2>3, LayerRow
  <2>5. QED
    BY <2>1, <2>2, <2>4
<1> HIDE DEF T
<1>4. \A m \in 0..LAYER_COUNT : m \in T
  BY <1>1, <1>2, <1>3, UpTo
<1>5. QED
  BY <1>4 DEF T

(* Keys and values of the first t rows depend on the first t rows. *)
LEMMA KeysRead ==
  ASSUME NEW n \in Nat, NEW m \in Nat, NEW h, NEW hh, IsRows(h, n), IsRows(hh, m), NEW il,
         NEW t \in Nat, t <= n, t <= m, \A i \in 1..t : h[i] = hh[i]
  PROVE  \A x \in 1..(t * KV_HEAD_COUNT) :
           /\ KeysOf(il, h)[x] = KeysOf(il, hh)[x]
           /\ ValuesOf(il, h)[x] = ValuesOf(il, hh)[x]
<1> DEFINE w == KV_HEAD_COUNT
<1>1. w \in Nat \ {0} /\ Len(h) = n /\ Len(hh) = m
  BY ShapeAssumption, RowsLen
<1>2. SUFFICES ASSUME NEW x \in 1..(t * w)
               PROVE  /\ KeysOf(il, h)[x] = KeysOf(il, hh)[x]
                      /\ ValuesOf(il, h)[x] = ValuesOf(il, hh)[x]
  OBVIOUS
<1> DEFINE r == (x - 1) \div w
           c == ((x - 1) % w) + 1
<1>3. r \in 0..(t - 1) /\ c \in 1..w /\ x = r * w + c
  <2>1. /\ (x - 1) \div w \in 0..(t - 1) /\ (x - 1) % w \in 0..(w - 1)
        /\ x = ((x - 1) \div w) * w + ((x - 1) % w) + 1
    BY <1>1, RowOfPlace
  <2>2. QED
    BY <1>1, <2>1
<1>4. r \in 0..(n - 1) /\ r \in 0..(m - 1) /\ r + 1 \in 1..n /\ r + 1 \in 1..m
      /\ h[r + 1] = hh[r + 1]
  BY <1>3
<1> HIDE DEF r, c
<1> DEFINE kh == [i \in 1..n |-> KeyRow(il, h[i], i - 1)]
           kk == [i \in 1..m |-> KeyRow(il, hh[i], i - 1)]
           vh == [i \in 1..n |-> ValueRow(il, h[i])]
           vv == [i \in 1..m |-> ValueRow(il, hh[i])]
<1>5. /\ IsRows(kh, n) /\ IsRows(vh, n) /\ IsRows(kk, m) /\ IsRows(vv, m)
      /\ kh[r + 1] = kk[r + 1] /\ vh[r + 1] = vv[r + 1]
  BY <1>4 DEF IsRows
<1>6. /\ KeysOf(il, h) = Flat(kh, w) /\ KeysOf(il, hh) = Flat(kk, w)
      /\ ValuesOf(il, h) = Flat(vh, w) /\ ValuesOf(il, hh) = Flat(vv, w)
  BY <1>1 DEF KeysOf, ValuesOf
<1> HIDE DEF kh, kk, vh, vv, w
<1>7. /\ Flat(kh, w)[r * w + c] = kh[r + 1][c] /\ Flat(vh, w)[r * w + c] = vh[r + 1][c]
      /\ Flat(kk, w)[r * w + c] = kk[r + 1][c] /\ Flat(vv, w)[r * w + c] = vv[r + 1][c]
  BY <1>1, <1>3, <1>4, <1>5, FlatRow
<1>8. QED
  BY <1>3, <1>5, <1>6, <1>7

(* The rows of a longer text begin with those of the text. *)
LEMMA PrefixHidden ==
  ASSUME NEW S, NEW tokens \in Seq(S), NEW token \in S
  PROVE  \A il \in 0..LAYER_COUNT : \A t \in 1..Len(tokens) :
           Hidden(Append(tokens, token))[il][t] = Hidden(tokens)[il][t]
<1> DEFINE n == Len(tokens)
           more == Append(tokens, token)
           H == Hidden(tokens)
           HH == Hidden(more)
           T == {il \in 0..LAYER_COUNT : \A t \in 1..n : HH[il][t] = H[il][t]}
<1>1. /\ LAYER_COUNT \in Nat /\ n \in Nat /\ more \in Seq(S) /\ Len(more) = n + 1
      /\ n + 1 \in Nat /\ \A t \in 1..n : more[t] = tokens[t]
  BY ShapeAssumption
<1>2. /\ \A il \in 0..LAYER_COUNT : IsRows(H[il], n) /\ IsRows(HH[il], n + 1)
      /\ H[0] = [t \in 1..n |-> embed_row(tokens[t])]
      /\ HH[0] = [t \in 1..(n + 1) |-> embed_row(more[t])]
      /\ \A il \in 1..LAYER_COUNT :
           H[il] = forward_layer(il, H[il - 1]) /\ HH[il] = forward_layer(il, HH[il - 1])
  <2> HIDE DEF more
  <2>1. \A il \in 0..LAYER_COUNT : IsRows(H[il], n) /\ IsRows(HH[il], n + 1)
    BY <1>1, HiddenRows
  <2>2. /\ H[0] = [t \in 1..n |-> embed_row(tokens[t])]
        /\ HH[0] = [t \in 1..(n + 1) |-> embed_row(more[t])]
        /\ \A il \in 1..LAYER_COUNT :
             H[il] = forward_layer(il, H[il - 1]) /\ HH[il] = forward_layer(il, HH[il - 1])
    BY <1>1, HiddenIs
  <2>3. QED
    BY <2>1, <2>2
<1> HIDE DEF more, H, HH, n
<1>3. 0 \in T
  <2>1. \A t \in 1..n : HH[0][t] = H[0][t]
    BY <1>1, <1>2
  <2>2. QED
    BY <1>1, <2>1
<1>4. ASSUME NEW m \in 0..(LAYER_COUNT - 1), m \in T PROVE m + 1 \in T
  <2> DEFINE il == m + 1
  <2>1. il \in 1..LAYER_COUNT /\ il - 1 = m /\ il \in 0..LAYER_COUNT /\ m \in 0..LAYER_COUNT
    BY <1>1
  <2>2. /\ H[il] = forward_layer(il, H[m]) /\ HH[il] = forward_layer(il, HH[m])
        /\ IsRows(H[m], n) /\ IsRows(HH[m], n + 1)
    BY <1>2, <2>1
  <2>3. \A t \in 1..n : HH[m][t] = H[m][t]
    BY <1>4
  <2> HIDE DEF il
  <2>4. ASSUME NEW t \in 1..n PROVE HH[il][t] = H[il][t]
    <3>1. /\ H[il][t] = FinishRow(il, H[m][t],
                 HeadsOf(QueryRow(il, H[m][t], t - 1), KeysOf(il, H[m]), ValuesOf(il, H[m]), t - 1))
          /\ HH[il][t] = FinishRow(il, HH[m][t],
                 HeadsOf(QueryRow(il, HH[m][t], t - 1), KeysOf(il, HH[m]), ValuesOf(il, HH[m]), t - 1))
      <4>1. t \in 1..(n + 1)
        BY <1>1
      <4>2. QED
        BY <1>1, <2>2, <4>1, LayerRow
    <3> DEFINE h == H[m]
               hh == HH[m]
    <3>2. \A x \in 1..(t * KV_HEAD_COUNT) :
            KeysOf(il, h)[x] = KeysOf(il, hh)[x] /\ ValuesOf(il, h)[x] = ValuesOf(il, hh)[x]
      <4>1. t \in Nat /\ t <= n /\ t <= n + 1 /\ \A i \in 1..t : h[i] = hh[i]
        BY <1>1, <2>3
      <4>2. IsRows(h, n) /\ IsRows(hh, n + 1)
        BY <2>2
      <4> DEFINE n1 == n + 1
      <4>3. n \in Nat /\ n1 \in Nat /\ t <= n1 /\ IsRows(hh, n1)
        BY <1>1, <4>1, <4>2
      <4> HIDE DEF h, hh, n1
      <4>4. QED
        BY ONLY <4>1, <4>2, <4>3, KeysRead
    <3> DEFINE q == QueryRow(il, H[m][t], t - 1)
               k == KeysOf(il, H[m])
               v == ValuesOf(il, H[m])
               kk == KeysOf(il, HH[m])
               vv == ValuesOf(il, HH[m])
    <3>6. \A x \in 1..(t * KV_HEAD_COUNT) : k[x] = kk[x] /\ v[x] = vv[x]
      BY <3>2
    <3> HIDE DEF q, k, v, kk, vv
    <3>3. HeadsOf(q, k, v, t - 1) = HeadsOf(q, kk, vv, t - 1)
      <4>1. t - 1 \in Nat /\ (t - 1) + 1 = t
        BY <1>1
      <4>2. ASSUME NEW x \in 1..HEAD_COUNT
            PROVE  Context(q[x], k, v, t - 1, Groups[x - 1])
                     = Context(q[x], kk, vv, t - 1, Groups[x - 1])
        <5>1. Groups[x - 1] \in 0..(KV_HEAD_COUNT - 1)
          BY GroupsType
        <5>2. QED
          BY <1>1, <3>6, <4>1, <5>1, ContextReads
      <4>3. QED
        BY <4>2 DEF HeadsOf
    <3>4. HH[m][t] = H[m][t]
      BY <2>3
    <3>5. QED
      BY <3>1, <3>3, <3>4 DEF q, k, v, kk, vv
  <2>5. QED
    BY <2>1, <2>4 DEF il
<1> HIDE DEF T
<1>5. \A m \in 0..LAYER_COUNT : m \in T
  BY <1>1, <1>3, <1>4, UpTo
<1>6. QED
  BY <1>5 DEF T, H, HH, n, more

-----------------------------------------------------------------------------
(* Two lists end to end, of any values. *)
LEMMA EndToEnd ==
  ASSUME NEW m \in Nat, NEW n \in Nat, NEW a, NEW b,
         a = [i \in 1..m |-> a[i]], b = [i \in 1..n |-> b[i]]
  PROVE  a \o b = [i \in 1..(m + n) |-> IF i <= m THEN a[i] ELSE b[i - m]]
<1> DEFINE S == {a[i] : i \in 1..m} \cup {b[i] : i \in 1..n}
<1>1. a \in Seq(S) /\ Len(a) = m /\ b \in Seq(S) /\ Len(b) = n
  <2>1. a \in [1..m -> S] /\ b \in [1..n -> S]
    OBVIOUS
  <2> HIDE DEF S
  <2>2. QED
    BY <2>1
<1> HIDE DEF S
<1>2. a \o b \in Seq(S) /\ Len(a \o b) = m + n
  BY <1>1
<1>3. \A i \in 1..(m + n) : (a \o b)[i] = IF i <= m THEN a[i] ELSE b[i - m]
  BY <1>1
<1>4. a \o b = [i \in 1..(m + n) |-> (a \o b)[i]]
  BY <1>2
<1>5. QED
  BY <1>3, <1>4

(* A row more. *)
LEMMA FlatAppend ==
  ASSUME NEW n \in Nat, NEW rows, IsRows(rows, n), NEW more, IsRows(more, n + 1),
         NEW w \in Nat \ {0}, \A t \in 1..n : more[t] = rows[t],
         IsRows(more[n + 1], w)
  PROVE  Flat(more, w) = Flat(rows, w) \o more[n + 1]
<1> DEFINE a == Flat(rows, w)
           b == more[n + 1]
           m == n * w
<1>1. n + 1 \in Nat /\ Len(rows) = n /\ Len(more) = n + 1
  BY RowsLen
<1>2. m \in Nat /\ (n + 1) * w = m + w /\ w \in Nat
  OBVIOUS
<1>3. a = [x \in 1..m |-> a[x]] /\ b = [x \in 1..w |-> b[x]]
  BY <1>1 DEF Flat, IsRows
<1>4. a \o b = [x \in 1..(m + w) |-> IF x <= m THEN a[x] ELSE b[x - m]]
  <2> HIDE DEF a, b, m
  <2>1. QED
    BY <1>2, <1>3, EndToEnd
<1>5. ASSUME NEW x \in 1..(m + w)
      PROVE  Flat(more, w)[x] = IF x <= m THEN a[x] ELSE b[x - m]
  <2>1. CASE x <= m
    <3>1. x \in 1..(n * w)
      BY <1>2, <2>1
    <3> DEFINE r == (x - 1) \div w
               c == ((x - 1) % w) + 1
    <3>2. r \in 0..(n - 1) /\ c \in 1..w /\ x = r * w + c
      <4>1. /\ (x - 1) \div w \in 0..(n - 1) /\ (x - 1) % w \in 0..(w - 1)
            /\ x = ((x - 1) \div w) * w + ((x - 1) % w) + 1
        BY <3>1, RowOfPlace
      <4>2. QED
        BY <1>2, <4>1
    <3> HIDE DEF r, c
    <3>3. r \in 0..((n + 1) - 1) /\ r + 1 \in 1..n
      BY <3>2
    <3>4. Flat(rows, w)[r * w + c] = rows[r + 1][c]
      BY <3>2, FlatRow
    <3>5. Flat(more, w)[r * w + c] = more[r + 1][c]
      <4> DEFINE k == n + 1
      <4>1. k \in Nat /\ r \in 0..(k - 1) /\ IsRows(more, k)
        BY <1>1, <3>3
      <4> HIDE DEF k
      <4>2. QED
        BY <3>2, <4>1, FlatRow
    <3>6. more[r + 1] = rows[r + 1]
      BY <3>3
    <3>7. QED
      BY <2>1, <3>2, <3>4, <3>5, <3>6
  <2>2. CASE ~(x <= m)
    <3> DEFINE c == x - m
               k == n + 1
    <3>1. c \in 1..w /\ x = n * w + c
      BY <1>2, <2>2
    <3>2. k \in Nat /\ n \in 0..(k - 1) /\ IsRows(more, k)
      BY <1>1
    <3> HIDE DEF c, k
    <3>3. Flat(more, w)[n * w + c] = more[n + 1][c]
      BY <3>1, <3>2, FlatRow
    <3>4. QED
      BY <2>2, <3>1, <3>3 DEF c
  <2>3. QED
    BY <2>1, <2>2
<1>6. Flat(more, w) = [x \in 1..(m + w) |-> Flat(more, w)[x]]
  BY <1>1, <1>2 DEF Flat
<1>7. QED
  BY <1>4, <1>5, <1>6

(* The run after some tokens, and within a push after il layers. *)
RunOf(tokens) ==
  [n |-> Len(tokens),
   h_last |-> IF tokens = <<>> THEN "zeros" ELSE Hidden(tokens)[LAYER_COUNT][Len(tokens)],
   tokens |-> tokens,
   k_cache |-> [il \in 1..LAYER_COUNT |-> KeysOf(il, Hidden(tokens)[il - 1])],
   v_cache |-> [il \in 1..LAYER_COUNT |-> ValuesOf(il, Hidden(tokens)[il - 1])]]

Within(tokens, token, il) ==
  LET more == Append(tokens, token)
      Upto(j) == IF j <= il THEN more ELSE tokens
  IN  [n |-> Len(tokens), h_last |-> Hidden(more)[il][Len(tokens) + 1], tokens |-> tokens,
       k_cache |-> [j \in 1..LAYER_COUNT |-> KeysOf(j, Hidden(Upto(j))[j - 1])],
       v_cache |-> [j \in 1..LAYER_COUNT |-> ValuesOf(j, Hidden(Upto(j))[j - 1])]]

(* The caches of a layer grow by the new row. *)
LEMMA CachesGrow ==
  ASSUME NEW S, NEW tokens \in Seq(S), NEW token \in S, NEW il \in 1..LAYER_COUNT
  PROVE  LET n == Len(tokens)
             H == Hidden(tokens)[il - 1]
             HH == Hidden(Append(tokens, token))[il - 1]
         IN  /\ KeysOf(il, HH) = KeysOf(il, H) \o KeyRow(il, HH[n + 1], n)
             /\ ValuesOf(il, HH) = ValuesOf(il, H) \o ValueRow(il, HH[n + 1])
<1> DEFINE n == Len(tokens)
           k == n + 1
           H == Hidden(tokens)[il - 1]
           HH == Hidden(Append(tokens, token))[il - 1]
           w == KV_HEAD_COUNT
<1>1. /\ n \in Nat /\ k \in Nat /\ il - 1 \in 0..LAYER_COUNT /\ w \in Nat \ {0}
      /\ Append(tokens, token) \in Seq(S) /\ Len(Append(tokens, token)) = k
  BY ShapeAssumption
<1>2. IsRows(H, n) /\ IsRows(HH, k)
  BY <1>1, HiddenRows
<1>3. \A t \in 1..n : HH[t] = H[t]
  BY <1>1, PrefixHidden
<1>4. Len(H) = n /\ Len(HH) = k
  BY <1>1, <1>2, RowsLen
<1> HIDE DEF H, HH, n
<1> DEFINE kh == [t \in 1..n |-> KeyRow(il, H[t], t - 1)]
           kk == [t \in 1..k |-> KeyRow(il, HH[t], t - 1)]
           vh == [t \in 1..n |-> ValueRow(il, H[t])]
           vv == [t \in 1..k |-> ValueRow(il, HH[t])]
<1>5. /\ KeysOf(il, H) = Flat(kh, w) /\ KeysOf(il, HH) = Flat(kk, w)
      /\ ValuesOf(il, H) = Flat(vh, w) /\ ValuesOf(il, HH) = Flat(vv, w)
  BY <1>4 DEF KeysOf, ValuesOf
<1>6. /\ IsRows(kh, n) /\ IsRows(vh, n) /\ IsRows(kk, n + 1) /\ IsRows(vv, n + 1)
      /\ \A t \in 1..n : kk[t] = kh[t] /\ vv[t] = vh[t]
      /\ kk[n + 1] = KeyRow(il, HH[n + 1], n) /\ vv[n + 1] = ValueRow(il, HH[n + 1])
  BY <1>1, <1>3 DEF IsRows
<1> HIDE DEF kh, kk, vh, vv
<1>7. IsRows(kk[n + 1], w) /\ IsRows(vv[n + 1], w)
  <2>1. IsRows(KeyRow(il, HH[n + 1], n), w)
    BY KeyRowLen
  <2>2. IsRows(ValueRow(il, HH[n + 1]), w)
    BY KeyRowLen
  <2>3. QED
    BY ONLY <1>6, <2>1, <2>2
<1> HIDE DEF w
<1>8. Flat(kk, w) = Flat(kh, w) \o kk[n + 1] /\ Flat(vv, w) = Flat(vh, w) \o vv[n + 1]
  <2>1. Flat(kk, w) = Flat(kh, w) \o kk[n + 1]
    BY ONLY <1>1, <1>6, <1>7, FlatAppend
  <2>2. Flat(vv, w) = Flat(vh, w) \o vv[n + 1]
    BY ONLY <1>1, <1>6, <1>7, FlatAppend
  <2>3. QED
    BY <2>1, <2>2
<1>9. QED
  BY <1>5, <1>6, <1>8 DEF H, HH, n

LEMMA PushLayerIs ==
  ASSUME NEW S, NEW tokens \in Seq(S), NEW token \in S, NEW il \in 1..LAYER_COUNT
  PROVE  PushLayer(Within(tokens, token, il - 1), il) = Within(tokens, token, il)
<1> DEFINE n == Len(tokens)
           m == il - 1
           more == Append(tokens, token)
           pre == Within(tokens, token, m)
           H == Hidden(tokens)
           HH == Hidden(more)
           h == HH[m][n + 1]
           k == KeysOf(il, HH[m])
           v == ValuesOf(il, HH[m])
<1>1. /\ LAYER_COUNT \in Nat /\ n \in Nat /\ n + 1 \in 1..(n + 1) /\ m \in 0..LAYER_COUNT /\ m \in Nat
      /\ il \in Nat /\ ~(il <= m) /\ (n + 1) - 1 = n
      /\ more \in Seq(S) /\ Len(more) = n + 1 /\ n + 1 \in Nat
  BY ShapeAssumption
<1>2. /\ pre.n = n /\ pre.h_last = h /\ pre.tokens = tokens
      /\ pre.k_cache = [j \in 1..LAYER_COUNT |->
                          KeysOf(j, Hidden(IF j <= m THEN more ELSE tokens)[j - 1])]
      /\ pre.v_cache = [j \in 1..LAYER_COUNT |->
                          ValuesOf(j, Hidden(IF j <= m THEN more ELSE tokens)[j - 1])]
      /\ pre = [n |-> n, h_last |-> pre.h_last, tokens |-> tokens,
                k_cache |-> pre.k_cache, v_cache |-> pre.v_cache]
  BY DEF Within
<1>3. pre.k_cache[il] = KeysOf(il, H[m]) /\ pre.v_cache[il] = ValuesOf(il, H[m])
  BY <1>1, <1>2
<1>4. k = KeysOf(il, H[m]) \o KeyRow(il, h, n) /\ v = ValuesOf(il, H[m]) \o ValueRow(il, h)
  BY CachesGrow
<1>5. HH[il][n + 1] = FinishRow(il, h, HeadsOf(QueryRow(il, h, n), k, v, n))
  <2>1. HH[il] = forward_layer(il, HH[m]) /\ IsRows(HH[m], n + 1)
    <3> HIDE DEF more
    <3>1. QED
      BY <1>1, HiddenIs, HiddenRows
  <2> DEFINE w == n + 1
             r == HH[m]
  <2>2. w \in Nat /\ w \in 1..w /\ w - 1 = n /\ IsRows(r, w)
    BY <1>1, <2>1
  <2> HIDE DEF w, r
  <2>3. forward_layer(il, r)[w]
          = FinishRow(il, r[w], HeadsOf(QueryRow(il, r[w], w - 1), KeysOf(il, r),
                                        ValuesOf(il, r), w - 1))
    BY ONLY <2>2, LayerRow
  <2>4. QED
    BY <2>1, <2>2, <2>3 DEF w, r
<1>6. attention_gqa(QueryRow(il, h, n), k, v, 1, n + 1) = HeadsOf(QueryRow(il, h, n), k, v, n)
  <2> HIDE DEF h, k, v, n
  <2> DEFINE q == QueryRow(il, h, n)
  <2>1. attention_gqa(q, k, v, 1, n + 1) = Attention(q, k, v, 1, n + 1, Groups)
    BY DEF attention_gqa, Groups
  <2> HIDE DEF q
  <2>2. Attention(q, k, v, 1, n + 1, Groups)
          = [x \in 1..HEAD_COUNT |-> Context(q[x], k, v, n, Groups[x - 1])]
    BY <1>1, SingleQuery
  <2>3. QED
    BY <2>1, <2>2 DEF HeadsOf, q
<1> HIDE DEF pre, h, k, v, H
<1>7. PushLayer(pre, il)
        = [pre EXCEPT !.k_cache[il] = k, !.v_cache[il] = v, !.h_last = HH[il][n + 1]]
  BY <1>2, <1>3, <1>4, <1>5, <1>6 DEF PushLayer
<1>8. /\ [pre.k_cache EXCEPT ![il] = k]
           = [j \in 1..LAYER_COUNT |-> KeysOf(j, Hidden(IF j <= il THEN more ELSE tokens)[j - 1])]
      /\ [pre.v_cache EXCEPT ![il] = v]
           = [j \in 1..LAYER_COUNT |-> ValuesOf(j, Hidden(IF j <= il THEN more ELSE tokens)[j - 1])]
  <2>1. ASSUME NEW j \in 1..LAYER_COUNT, j # il
        PROVE  (j <= il) <=> (j <= m)
    BY <1>1, <2>1
  <2>2. k = KeysOf(il, Hidden(IF il <= il THEN more ELSE tokens)[il - 1])
        /\ v = ValuesOf(il, Hidden(IF il <= il THEN more ELSE tokens)[il - 1])
    BY <1>1 DEF k, v
  <2> HIDE DEF more, m
  <2> DEFINE K(j) == KeysOf(j, Hidden(IF j <= il THEN more ELSE tokens)[j - 1])
             V(j) == ValuesOf(j, Hidden(IF j <= il THEN more ELSE tokens)[j - 1])
  <2>3. \A j \in 1..LAYER_COUNT : j # il => pre.k_cache[j] = K(j) /\ pre.v_cache[j] = V(j)
    BY <1>2, <2>1
  <2>4. k = K(il) /\ v = V(il)
    BY <2>2
  <2>5. /\ pre.k_cache = [j \in 1..LAYER_COUNT |-> pre.k_cache[j]]
        /\ pre.v_cache = [j \in 1..LAYER_COUNT |-> pre.v_cache[j]]
    BY <1>2
  <2> HIDE DEF K, V
  <2>6. /\ [pre.k_cache EXCEPT ![il] = k] = [j \in 1..LAYER_COUNT |-> K(j)]
        /\ [pre.v_cache EXCEPT ![il] = v] = [j \in 1..LAYER_COUNT |-> V(j)]
    BY <2>3, <2>4, <2>5
  <2>7. QED
    BY <2>6 DEF K, V
<1>9. PushLayer(pre, il)
        = [n |-> n, h_last |-> HH[il][n + 1], tokens |-> tokens,
           k_cache |-> [pre.k_cache EXCEPT ![il] = k], v_cache |-> [pre.v_cache EXCEPT ![il] = v]]
  <2> HIDE DEF HH, n
  <2>1. QED
    BY <1>2, <1>7
<1>10. QED
  BY <1>8, <1>9 DEF pre, Within

(* A push sets the fields of the record one by one. *)
RunRecord(n, hl, tokens, kc, vc) ==
  [n |-> n, h_last |-> hl, tokens |-> tokens, k_cache |-> kc, v_cache |-> vc]

LEMMA RecordSet ==
  ASSUME NEW n, NEW hl, NEW tokens, NEW kc, NEW vc, NEW x, NEW r,
         r = RunRecord(n, hl, tokens, kc, vc)
  PROVE  [r EXCEPT !.h_last = x] = RunRecord(n, x, tokens, kc, vc)
BY DEF RunRecord

Advanced(r, x, y) == [r EXCEPT !.n = x, !.tokens = y]

LEMMA RecordAdvance ==
  ASSUME NEW n, NEW hl, NEW tokens, NEW kc, NEW vc, NEW x, NEW y, NEW r,
         r = RunRecord(n, hl, tokens, kc, vc)
  PROVE  /\ Advanced(r, x, y) = RunRecord(x, hl, y, kc, vc)
         /\ r.n = n /\ r.tokens = tokens
<1> DEFINE g == Advanced(r, x, y)
<1>1. r = [n |-> n, h_last |-> hl, tokens |-> tokens, k_cache |-> kc, v_cache |-> vc]
  BY DEF RunRecord
<1>2. g = [r EXCEPT !.n = x, !.tokens = y]
  BY DEF Advanced
<1> HIDE DEF g
<1>3. g = [n |-> g.n, h_last |-> g.h_last, tokens |-> g.tokens,
           k_cache |-> g.k_cache, v_cache |-> g.v_cache]
  BY ONLY <1>1, <1>2
<1>4. g.n = x /\ g.h_last = hl /\ g.tokens = y /\ g.k_cache = kc /\ g.v_cache = vc
  BY ONLY <1>1, <1>2
<1>5. g = RunRecord(x, hl, y, kc, vc)
  BY ONLY <1>3, <1>4 DEF RunRecord
<1>6. QED
  BY <1>1, <1>5 DEF g

LEMMA PushIs ==
  ASSUME NEW S, NEW tokens \in Seq(S), NEW token \in S
  PROVE  Push(RunOf(tokens), token) = RunOf(Append(tokens, token))
<1> DEFINE n == Len(tokens)
           more == Append(tokens, token)
           r == RunOf(tokens)
           b == [r EXCEPT !.h_last = embed_row(token)]
           W(il) == Within(tokens, token, il)
           Good(U) == U = [il \in 0..LAYER_COUNT |->
                             IF il = 0 THEN b ELSE PushLayer(U[il - 1], il)]
           F == [il \in 0..LAYER_COUNT |-> W(il)]
<1>1. /\ LAYER_COUNT \in Nat /\ n \in Nat /\ more \in Seq(S) /\ Len(more) = n + 1
      /\ more[n + 1] = token /\ n + 1 \in 1..(n + 1)
  BY ShapeAssumption
<1>2. b = W(0)
  <2>1. Hidden(more)[0][n + 1] = embed_row(token)
    <3>1. Hidden(more)[0] = [t \in 1..Len(more) |-> embed_row(more[t])]
      <4> HIDE DEF more
      <4>1. QED
        BY <1>1, HiddenIs
    <3>2. QED
      BY <1>1, <3>1
  <2>2. \A j \in 1..LAYER_COUNT : ~(j <= 0)
    BY <1>1
  <2>3. b = [n |-> n, h_last |-> embed_row(token), tokens |-> tokens,
             k_cache |-> [il \in 1..LAYER_COUNT |-> KeysOf(il, Hidden(tokens)[il - 1])],
             v_cache |-> [il \in 1..LAYER_COUNT |-> ValuesOf(il, Hidden(tokens)[il - 1])]]
    <3> DEFINE kc == [il \in 1..LAYER_COUNT |-> KeysOf(il, Hidden(tokens)[il - 1])]
               vc == [il \in 1..LAYER_COUNT |-> ValuesOf(il, Hidden(tokens)[il - 1])]
               hl == IF tokens = <<>> THEN "zeros" ELSE Hidden(tokens)[LAYER_COUNT][Len(tokens)]
    <3>1. r = RunRecord(n, hl, tokens, kc, vc)
      BY DEF RunOf, RunRecord
    <3> DEFINE x == embed_row(token)
    <3>4. b = [r EXCEPT !.h_last = x]
      OBVIOUS
    <3> HIDE DEF kc, vc, hl, n, r, x, b
    <3>2. b = RunRecord(n, x, tokens, kc, vc)
      <4>1. [r EXCEPT !.h_last = x] = RunRecord(n, x, tokens, kc, vc)
        BY ONLY <3>1, RecordSet
      <4>2. QED
        BY <3>4, <4>1
    <3>3. QED
      BY <3>2 DEF RunRecord, kc, vc, x
  <2>4. /\ [j \in 1..LAYER_COUNT |-> KeysOf(j, Hidden(IF j <= 0 THEN more ELSE tokens)[j - 1])]
             = [il \in 1..LAYER_COUNT |-> KeysOf(il, Hidden(tokens)[il - 1])]
        /\ [j \in 1..LAYER_COUNT |-> ValuesOf(j, Hidden(IF j <= 0 THEN more ELSE tokens)[j - 1])]
             = [il \in 1..LAYER_COUNT |-> ValuesOf(il, Hidden(tokens)[il - 1])]
    BY <2>2
  <2> HIDE DEF b
  <2>5. QED
    BY <2>1, <2>3, <2>4 DEF Within
<1>3. \A il \in 1..LAYER_COUNT : PushLayer(W(il - 1), il) = W(il)
  BY PushLayerIs
<1> HIDE DEF b, W, r, more, n
<1>4. Good(F)
  <2>1. ASSUME NEW il \in 0..LAYER_COUNT
        PROVE  F[il] = IF il = 0 THEN b ELSE PushLayer(F[il - 1], il)
    <3>1. CASE il = 0
      BY <1>2, <3>1
    <3>2. CASE il # 0
      <4>1. il \in 1..LAYER_COUNT /\ il - 1 \in 0..LAYER_COUNT
        BY <1>1, <3>2
      <4>2. QED
        BY <1>3, <3>2, <4>1
    <3>3. QED
      BY <3>1, <3>2
  <2>2. F = [il \in 0..LAYER_COUNT |-> F[il]]
    OBVIOUS
  <2> HIDE DEF F
  <2>3. QED
    BY <2>1, <2>2
<1> DEFINE g == CHOOSE U : Good(U)
           T == {il \in 0..LAYER_COUNT : g[il] = W(il)}
<1>5. Good(g)
  <2> HIDE DEF Good, F
  <2>1. QED
    BY <1>4
<1>6. Through(RunOf(tokens), token) = g[LAYER_COUNT]
  BY DEF Through, b, r
<1> HIDE DEF g
<1>7. 0 \in T
  BY <1>1, <1>2, <1>5
<1>8. ASSUME NEW il \in 0..(LAYER_COUNT - 1), il \in T PROVE il + 1 \in T
  <2>1. il + 1 \in 1..LAYER_COUNT /\ il + 1 \in 0..LAYER_COUNT /\ il + 1 # 0 /\ (il + 1) - 1 = il
        /\ g[il] = W(il)
    BY <1>1, <1>8
  <2>2. g[il + 1] = PushLayer(g[il], il + 1)
    BY <1>5, <2>1
  <2>3. PushLayer(W(il), il + 1) = W(il + 1)
    BY <1>3, <2>1
  <2>4. QED
    BY <2>1, <2>2, <2>3
<1>9. g[LAYER_COUNT] = W(LAYER_COUNT)
  <2> HIDE DEF T
  <2>1. \A il \in 0..LAYER_COUNT : il \in T
    BY <1>1, <1>7, <1>8, UpTo
  <2>2. QED
    BY <1>1, <2>1 DEF T
<1>10. W(LAYER_COUNT)
        = [n |-> n, h_last |-> Hidden(more)[LAYER_COUNT][n + 1], tokens |-> tokens,
           k_cache |-> [j \in 1..LAYER_COUNT |-> KeysOf(j, Hidden(more)[j - 1])],
           v_cache |-> [j \in 1..LAYER_COUNT |-> ValuesOf(j, Hidden(more)[j - 1])]]
  <2>1. \A j \in 1..LAYER_COUNT : j <= LAYER_COUNT
    BY <1>1
  <2>2. /\ [j \in 1..LAYER_COUNT |-> KeysOf(j, Hidden(IF j <= LAYER_COUNT THEN more ELSE tokens)[j - 1])]
             = [j \in 1..LAYER_COUNT |-> KeysOf(j, Hidden(more)[j - 1])]
        /\ [j \in 1..LAYER_COUNT |-> ValuesOf(j, Hidden(IF j <= LAYER_COUNT THEN more ELSE tokens)[j - 1])]
             = [j \in 1..LAYER_COUNT |-> ValuesOf(j, Hidden(more)[j - 1])]
    BY <2>1
  <2>3. QED
    BY <2>2 DEF W, Within, n, more
<1>11. Push(RunOf(tokens), token) = [W(LAYER_COUNT) EXCEPT !.n = @ + 1, !.tokens = Append(@, token)]
  BY <1>6, <1>9 DEF Push
<1>12. more # <<>>
  BY <1>1
<1>13. RunOf(more)
        = [n |-> n + 1, h_last |-> Hidden(more)[LAYER_COUNT][n + 1], tokens |-> more,
           k_cache |-> [j \in 1..LAYER_COUNT |-> KeysOf(j, Hidden(more)[j - 1])],
           v_cache |-> [j \in 1..LAYER_COUNT |-> ValuesOf(j, Hidden(more)[j - 1])]]
  BY <1>1, <1>12 DEF RunOf
<1>14. QED
  <2> DEFINE kc == [j \in 1..LAYER_COUNT |-> KeysOf(j, Hidden(more)[j - 1])]
             vc == [j \in 1..LAYER_COUNT |-> ValuesOf(j, Hidden(more)[j - 1])]
             hl == Hidden(more)[LAYER_COUNT][n + 1]
  <2>1. more = Append(tokens, token)
    BY DEF more
  <2>2. W(LAYER_COUNT) = [n |-> n, h_last |-> hl, tokens |-> tokens, k_cache |-> kc, v_cache |-> vc]
    BY <1>10
  <2>3. RunOf(more) = [n |-> n + 1, h_last |-> hl, tokens |-> more, k_cache |-> kc, v_cache |-> vc]
    BY <1>13
  <2> HIDE DEF kc, vc, hl
  <2>4. W(LAYER_COUNT) = RunRecord(n, hl, tokens, kc, vc)
        /\ RunOf(more) = RunRecord(n + 1, hl, Append(tokens, token), kc, vc)
    BY <2>1, <2>2, <2>3 DEF RunRecord
  <2> DEFINE w == W(LAYER_COUNT)
  <2> HIDE DEF w
  <2>5. [w EXCEPT !.n = @ + 1, !.tokens = Append(@, token)]
          = RunRecord(n + 1, hl, Append(tokens, token), kc, vc)
    <3>1. w = RunRecord(n, hl, tokens, kc, vc)
      BY <2>4 DEF w
    <3> DEFINE x == n + 1
               y == Append(tokens, token)
    <3>2. /\ Advanced(w, x, y) = RunRecord(x, hl, y, kc, vc)
          /\ w.n = n /\ w.tokens = tokens
      <4> HIDE DEF x, y
      <4>1. QED
        BY ONLY <3>1, RecordAdvance
    <3>3. QED
      BY <3>2 DEF Advanced
  <2>6. Push(RunOf(tokens), token) = RunOf(more)
    BY <1>11, <2>4, <2>5 DEF w
  <2>7. QED
    BY <2>1, <2>6

(* The run before any token. *)
LEMMA NoRunIs == RunOf(<<>>) = NoRun
<1> DEFINE H == Hidden(<<>>)
           kc == [il \in 1..LAYER_COUNT |-> KeysOf(il, H[il - 1])]
           vc == [il \in 1..LAYER_COUNT |-> ValuesOf(il, H[il - 1])]
<1>1. <<>> \in Seq(Int) /\ Len(<<>>) = 0 /\ KV_HEAD_COUNT \in Nat /\ LAYER_COUNT \in Nat
  BY ShapeAssumption
<1>2. ASSUME NEW il \in 1..LAYER_COUNT
      PROVE  KeysOf(il, H[il - 1]) = <<>> /\ ValuesOf(il, H[il - 1]) = <<>>
  <2>1. IsRows(H[il - 1], 0)
    <3>1. il - 1 \in 0..LAYER_COUNT
      BY <1>1
    <3>2. QED
      BY <1>1, <3>1, HiddenRows
  <2> HIDE DEF H
  <2>2. Len(H[il - 1]) = 0
    BY <2>1, RowsLen
  <2>3. KeysOf(il, H[il - 1]) = Flat([t \in 1..0 |-> KeyRow(il, H[il - 1][t], t - 1)], KV_HEAD_COUNT)
        /\ ValuesOf(il, H[il - 1]) = Flat([t \in 1..0 |-> ValueRow(il, H[il - 1][t])], KV_HEAD_COUNT)
    BY <2>2 DEF KeysOf, ValuesOf
  <2>4. ASSUME NEW rows, IsRows(rows, 0) PROVE Flat(rows, KV_HEAD_COUNT) = <<>>
    <3>1. Len(rows) = 0
      BY <2>4, RowsLen
    <3>2. 1..(0 * KV_HEAD_COUNT) = {}
      BY <1>1
    <3>3. QED
      BY <3>1, <3>2 DEF Flat
  <2>5. IsRows([t \in 1..0 |-> KeyRow(il, H[il - 1][t], t - 1)], 0)
        /\ IsRows([t \in 1..0 |-> ValueRow(il, H[il - 1][t])], 0)
    BY DEF IsRows
  <2>6. QED
    BY <2>3, <2>4, <2>5
<1>3. kc = [il \in 1..LAYER_COUNT |-> <<>>] /\ vc = [il \in 1..LAYER_COUNT |-> <<>>]
  BY <1>2
<1>4. RunOf(<<>>) = [n |-> 0, h_last |-> "zeros", tokens |-> <<>>, k_cache |-> kc, v_cache |-> vc]
  BY <1>1 DEF RunOf
<1> HIDE DEF kc, vc
<1>5. QED
  BY <1>3, <1>4 DEF NoRun

(* new: the prompt pushed token by token. *)
LEMMA StartedIs ==
  ASSUME NEW S, NEW tokens \in Seq(S)
  PROVE  Started(tokens) = RunOf(tokens)
<1> DEFINE N == Len(tokens)
           P(i) == [j \in 1..i |-> tokens[j]]
           W(i) == RunOf(P(i))
           Good(U) == U = [i \in 0..N |-> IF i = 0 THEN NoRun ELSE Push(U[i - 1], tokens[i])]
           F == [i \in 0..N |-> W(i)]
<1>1. N \in Nat /\ \A i \in 1..N : tokens[i] \in S
  OBVIOUS
<1>2. \A i \in 0..N : P(i) \in Seq(S) /\ Len(P(i)) = i
  <2>1. ASSUME NEW i \in 0..N PROVE P(i) \in Seq(S) /\ Len(P(i)) = i
    <3>1. P(i) \in [1..i -> S] /\ i \in Nat
      BY <1>1
    <3> HIDE DEF P
    <3>2. QED
      BY <3>1
  <2>2. QED
    BY <2>1
<1>3. P(0) = <<>> /\ P(N) = tokens
  OBVIOUS
<1>4. \A i \in 1..N : P(i) = Append(P(i - 1), tokens[i])
  <2>1. ASSUME NEW i \in 1..N PROVE P(i) = Append(P(i - 1), tokens[i])
    <3> DEFINE p == P(i - 1)
               z == Append(p, tokens[i])
    <3>1. i - 1 \in 0..N /\ i - 1 \in Nat /\ (i - 1) + 1 = i
      BY <1>1
    <3>2. p \in Seq(S) /\ Len(p) = i - 1 /\ \A j \in 1..(i - 1) : p[j] = tokens[j]
      BY <1>2, <3>1
    <3> HIDE DEF p
    <3>3. z \in Seq(S) /\ Len(z) = i /\ \A j \in 1..i : z[j] = tokens[j]
      BY <1>1, <3>1, <3>2
    <3>4. z = [j \in 1..i |-> z[j]]
      BY <3>3
    <3>5. z = P(i)
      BY <3>3, <3>4
    <3>6. QED
      BY <3>5 DEF p
  <2>2. QED
    BY <2>1
<1> HIDE DEF P
<1>5. W(0) = NoRun /\ \A i \in 1..N : Push(W(i - 1), tokens[i]) = W(i)
  <2>1. W(0) = NoRun
    BY <1>3, NoRunIs
  <2>2. ASSUME NEW i \in 1..N PROVE Push(W(i - 1), tokens[i]) = W(i)
    <3>1. i - 1 \in 0..N
      BY <1>1
    <3>2. P(i - 1) \in Seq(S) /\ tokens[i] \in S
      BY <1>1, <1>2, <3>1
    <3>3. Push(RunOf(P(i - 1)), tokens[i]) = RunOf(Append(P(i - 1), tokens[i]))
      BY <3>2, PushIs
    <3>4. QED
      BY <1>4, <3>3
  <2>3. QED
    BY <2>1, <2>2
<1>6. W(N) = RunOf(tokens)
  BY <1>3
<1> HIDE DEF W, N
<1>7. Good(F)
  <2>1. ASSUME NEW i \in 0..N
        PROVE  F[i] = IF i = 0 THEN NoRun ELSE Push(F[i - 1], tokens[i])
    <3>1. CASE i = 0
      BY <1>5, <3>1
    <3>2. CASE i # 0
      <4>1. i \in 1..N /\ i - 1 \in 0..N
        BY <1>1, <3>2
      <4>2. QED
        BY <1>5, <3>2, <4>1
    <3>3. QED
      BY <3>1, <3>2
  <2>2. F = [i \in 0..N |-> F[i]]
    OBVIOUS
  <2> HIDE DEF F
  <2>3. QED
    BY <2>1, <2>2
<1> DEFINE g == CHOOSE U : Good(U)
           T == {i \in 0..N : g[i] = W(i)}
<1>8. Good(g)
  <2> HIDE DEF Good, F
  <2>1. QED
    BY <1>7
<1>9. Started(tokens) = g[N]
  BY DEF Started, N
<1> HIDE DEF g
<1>10. 0 \in T
  BY <1>1, <1>5, <1>8
<1>11. ASSUME NEW i \in 0..(N - 1), i \in T PROVE i + 1 \in T
  <2>1. i + 1 \in 1..N /\ i + 1 \in 0..N /\ i + 1 # 0 /\ (i + 1) - 1 = i /\ g[i] = W(i)
    BY <1>1, <1>11
  <2>2. g[i + 1] = Push(g[i], tokens[i + 1])
    BY <1>8, <2>1
  <2>3. Push(W(i), tokens[i + 1]) = W(i + 1)
    BY <1>5, <2>1
  <2>4. QED
    BY <2>1, <2>2, <2>3
<1>12. g[N] = W(N)
  <2> HIDE DEF T
  <2>1. \A i \in 0..N : i \in T
    BY <1>1, <1>10, <1>11, UpTo
  <2>2. QED
    BY <1>1, <2>1 DEF T
<1>13. QED
  BY <1>6, <1>9, <1>12

-----------------------------------------------------------------------------
(* The run is what one pass over its tokens makes. *)
IsRun == run.tokens \in Seq(Int) /\ run = RunOf(run.tokens)

(* A greedy prediction is a token. *)
LEMMA PredictionIsToken ==
  ASSUME NEW logits
  PROVE  top1_non_eog(logits) \in Vocab
<1> DEFINE best == {t \in Vocab \ EOG_TOKENS :
                      /\ Greater(logits[t + 1], NegInf)
                      /\ \A u \in Vocab \ EOG_TOKENS : ~ Greater(logits[u + 1], logits[t + 1])}
<1>1. best \subseteq Vocab /\ Vocab \subseteq Nat /\ 0 \in Vocab
  BY ShapeAssumption DEF Vocab
<1>2. top1_non_eog(logits)
        = IF best = {} THEN 0 ELSE CHOOSE t \in best : \A u \in best : t <= u
  BY DEF top1_non_eog
<1> HIDE DEF best
<1>3. CASE best = {}
  BY <1>1, <1>2, <1>3
<1>4. CASE best # {}
  <2>1. \E t \in best : \A u \in best : t <= u
    BY <1>1, <1>4, Least
  <2>2. (CHOOSE t \in best : \A u \in best : t <= u) \in best
    BY <2>1
  <2>3. QED
    BY <1>1, <1>2, <1>4, <2>2
<1>5. QED
  BY <1>3, <1>4

LEMMA RunPushed ==
  ASSUME IsRun, NEW token \in Int
  PROVE  /\ Append(run.tokens, token) \in Seq(Int)
         /\ Push(run, token) = RunOf(Append(run.tokens, token))
         /\ Push(run, token).tokens = Append(run.tokens, token)
<1> DEFINE tokens == run.tokens
           more == Append(tokens, token)
<1>1. tokens \in Seq(Int) /\ run = RunOf(tokens)
  BY DEF IsRun
<1> HIDE DEF tokens
<1>2. Push(RunOf(tokens), token) = RunOf(more)
  BY <1>1, PushIs
<1>3. RunOf(more).tokens = more
  <2> HIDE DEF more
  <2>1. QED
    BY DEF RunOf
<1>4. more \in Seq(Int)
  BY <1>1
<1>5. QED
  BY <1>1, <1>2, <1>3, <1>4 DEF tokens

LEMMA InitIsRun == DecoderInit => IsRun
<1>1. <<>> \in Seq(Int) /\ NoRun.tokens = <<>>
  BY DEF NoRun
<1>2. QED
  BY <1>1, NoRunIs DEF DecoderInit, IsRun

LEMMA RunAfter ==
  ASSUME NEW tokens \in Seq(Int), run' = RunOf(tokens)
  PROVE  IsRun'
<1>1. RunOf(tokens).tokens = tokens
  BY DEF RunOf
<1>2. QED
  BY <1>1 DEF IsRun

LEMMA NextKeepsIsRun ==
  ASSUME IsRun, [DecoderNext]_decoderVars
  PROVE  IsRun'
<1>1. ASSUME UNCHANGED run PROVE IsRun'
  <2>1. run' = run
    BY <1>1
  <2>2. QED
    BY <2>1 DEF IsRun
<1>2. ASSUME NEW tokens \in TokenPrompts, new(tokens) PROVE IsRun'
  <2>1. tokens \in Seq(Int) /\ run' = Started(tokens)
    BY <1>2, TokensAssumption DEF new
  <2>2. run' = RunOf(tokens)
    BY <2>1, StartedIs
  <2>3. QED
    BY <2>1, <2>2, RunAfter
<1>3. ASSUME NEW token \in Int, run' = Push(run, token) PROVE IsRun'
  <2>1. Append(run.tokens, token) \in Seq(Int) /\ run' = RunOf(Append(run.tokens, token))
    BY <1>3, RunPushed
  <2>2. QED
    BY <2>1, RunAfter
<1>4. ASSUME NEW token, push_token(token) PROVE IsRun'
  <2>1. token \in Int /\ run' = Push(run, token)
    BY <1>4 DEF push_token, Vocab
  <2>2. QED
    BY <1>3, <2>1
<1>5. ASSUME NEW logits, GreedyStep(logits) PROVE IsRun'
  <2> DEFINE token == top1_non_eog(logits)
  <2>1. token \in Int
    <3>1. token \in Vocab
      BY PredictionIsToken
    <3>2. QED
      BY <3>1 DEF Vocab
  <2>2. run' = Push(run, token) \/ run' = run
    BY <1>5 DEF GreedyStep
  <2> HIDE DEF token
  <2>3. QED
    BY <1>1, <1>3, <2>1, <2>2
<1>6. CASE UNCHANGED decoderVars
  BY <1>1, <1>6 DEF decoderVars
<1>7. CASE DecoderNext
  <2>1. ASSUME NEW trace, NEW window, run_greedy(trace, window) PROVE IsRun'
    BY <1>1, <2>1 DEF run_greedy
  <2>2. ASSUME NEW ours, NEW theirs, NEW token, compare_position(ours, theirs, token) PROVE IsRun'
    BY <1>1, <2>2 DEF compare_position
  <2>3. ASSUME NEW ours, NEW theirs, compare_gpu_logits(ours, theirs) PROVE IsRun'
    BY <1>1, <2>3 DEF compare_gpu_logits
  <2>4. QED
    BY <1>2, <1>4, <1>5, <1>7, <2>1, <2>2, <2>3 DEF DecoderNext
<1>8. QED
  BY <1>6, <1>7

LEMMA IsRunInvariant == DecoderSpec => []IsRun
<1>1. IsRun /\ [DecoderNext]_decoderVars => IsRun'
  BY NextKeepsIsRun
<1>2. QED
  BY <1>1, InitIsRun, PTL DEF DecoderSpec

(* The last row of a batch of queries is the single query. *)
LEMMA LastOfBatch ==
  ASSUME NEW n \in Nat \ {0}, NEW rows, IsRows(rows, n), NEW k, NEW v
  PROVE  attention_causal(rows[n], k, v, 1, n)
           = RowOf(attention_causal(Flat(rows, HEAD_COUNT), k, v, n, n), HEAD_COUNT, n - 1)
<1> DEFINE g == [h \in 0..(HEAD_COUNT - 1) |-> h % KV_HEAD_COUNT]
           m == n - 1
           q == rows[n]
<1>1. m \in Nat /\ m + 1 = n /\ n \in 1..n /\ n \in Nat
  OBVIOUS
<1>2. /\ attention_causal(q, k, v, 1, n) = Attention(q, k, v, 1, n, g)
      /\ attention_causal(Flat(rows, HEAD_COUNT), k, v, n, n)
           = Attention(Flat(rows, HEAD_COUNT), k, v, n, n, g)
  BY DEF attention_causal
<1> HIDE DEF g, q
<1>3. Attention(q, k, v, 1, m + 1, g) = [x \in 1..HEAD_COUNT |-> Context(q[x], k, v, m, g[x - 1])]
  <2> HIDE DEF m
  <2>1. QED
    BY <1>1, SingleQuery
<1>4. RowOf(Attention(Flat(rows, HEAD_COUNT), k, v, n, n, g), HEAD_COUNT, n - 1)
        = [x \in 1..HEAD_COUNT |-> Context(rows[n][x], k, v, n - 1, g[x - 1])]
  BY <1>1, AttentionRow
<1>5. QED
  BY <1>1, <1>2, <1>3, <1>4 DEF q

(* However the tokens came in, as a prompt, by teacher forcing or from its *)
(* own predictions, the logits of a ForwardRun are those of one forward    *)
(* pass over all of them: for any layers, heads, prompts and logits.       *)
THEOREM CacheIsExact == DecoderSpec => []IncrementalIsBatch
<1>1. IsRun => IncrementalIsBatch
  <2> SUFFICES ASSUME IsRun, run.n > 0 PROVE IncrementalIsBatch
    BY DEF IncrementalIsBatch
  <2> DEFINE tokens == run.tokens
             n == Len(tokens)
             rows == [t \in 1..n |-> Heads(1, "attn_q", embed_row(tokens[t]), HEAD_COUNT)]
  <2>1. tokens \in Seq(Int) /\ run = RunOf(tokens)
    BY DEF IsRun
  <2>2. run.n = n /\ n \in Nat /\ n \in Nat \ {0} /\ tokens # <<>>
    <3>1. RunOf(tokens).n = n
      BY DEF RunOf
    <3>2. QED
      BY <2>1, <3>1
  <2>3. position_logits(run) = forward_one(tokens)
    <3>1. RunOf(tokens).h_last = Hidden(tokens)[LAYER_COUNT][n]
      BY <2>2 DEF RunOf
    <3>2. QED
      BY <2>1, <3>1 DEF position_logits, forward_one
  <2>4. IsRows(rows, n) /\ rows[n] = Heads(1, "attn_q", embed_row(tokens[n]), HEAD_COUNT)
    BY <2>2 DEF IsRows
  <2>5. attention_causal(rows[n], run.k_cache[1], run.v_cache[1], 1, n)
          = RowOf(attention_causal(Flat(rows, HEAD_COUNT), run.k_cache[1], run.v_cache[1], n, n),
                  HEAD_COUNT, n - 1)
    <3> HIDE DEF rows, n
    <3>1. QED
      BY <2>2, <2>4, LastOfBatch
  <2>6. QED
    BY <2>2, <2>3, <2>4, <2>5 DEF IncrementalIsBatch
<1>2. QED
  BY <1>1, IsRunInvariant, PTL

-----------------------------------------------------------------------------
(* Greedy decoding: the record, beside what DivergenceIsFirst says of it. *)
GreedyRecord(g) ==
  /\ g = [trace |-> g.trace, window |-> g.window, generated |-> g.generated,
          all_finite |-> g.all_finite, first_divergence |-> g.first_divergence,
          prompt |-> g.prompt]
  /\ g.trace \in Seq(Int) /\ g.trace # <<>>
  /\ g.generated \in Seq(Int) /\ Len(g.generated) <= RunLen(g)
  /\ g.prompt \in Seq(Int)

(* The first place where what was generated left the trace. *)
LeftAt(g) == {i \in DOMAIN g.generated : g.generated[i] # g.trace[i]}
FirstLeft(g) ==
  /\ g.first_divergence = {} <=> LeftAt(g) = {}
  /\ \A d \in g.first_divergence :
       /\ d.position \in Nat
       /\ d.position + 1 \in LeftAt(g) /\ \A i \in LeftAt(g) : d.position < i
       /\ d.token = g.generated[d.position + 1] /\ d.expected = g.trace[d.position + 1]

Fed(g) == IF Len(g.generated) = RunLen(g) THEN Front(g.generated) ELSE g.generated

IsGreedy ==
  greedy # NoGreedy =>
    /\ GreedyRecord(greedy) /\ FirstLeft(greedy)
    /\ run.tokens = greedy.prompt \o Fed(greedy)

LEMMA RunLenIs ==
  ASSUME NEW g, g.trace \in Seq(Int), g.trace # <<>>
  PROVE  RunLen(g) \in Nat \ {0} /\ RunLen(g) <= Len(g.trace)
<1>1. Len(g.trace) \in Nat \ {0}
  OBVIOUS
<1>2. QED
  BY <1>1, ShapeAssumption DEF RunLen

LEMMA FrontOfAppend ==
  ASSUME NEW s \in Seq(Int), NEW x \in Int
  PROVE  Front(Append(s, x)) = s
<1> DEFINE z == Append(s, x)
           f == SubSeq(z, 1, Len(z) - 1)
<1>1. Len(z) = Len(s) + 1 /\ z \in Seq(Int) /\ Len(s) \in Nat
      /\ \A i \in 1..Len(s) : z[i] = s[i]
  OBVIOUS
<1>2. Len(z) - 1 = Len(s)
  BY <1>1
<1>3. Front(z) = f
  BY DEF Front
<1> HIDE DEF z
<1>4. f \in Seq(Int) /\ Len(f) = Len(s) /\ \A i \in 1..Len(s) : f[i] = z[i]
  BY <1>1, <1>2
<1> HIDE DEF f
<1>5. \A i \in 1..Len(s) : f[i] = s[i]
  BY <1>1, <1>4
<1>6. f = s
  BY <1>4, <1>5
<1>7. QED
  BY <1>3, <1>6 DEF z

LEMMA AppendAfter ==
  ASSUME NEW s \in Seq(Int), NEW t \in Seq(Int), NEW x \in Int
  PROVE  Append(s \o t, x) = s \o Append(t, x)
<1> DEFINE a == Append(s \o t, x)
           b == s \o Append(t, x)
           m == Len(s)
           n == Len(t)
<1>1. /\ m \in Nat /\ n \in Nat /\ s \o t \in Seq(Int) /\ Append(t, x) \in Seq(Int)
      /\ Len(s \o t) = m + n /\ Len(Append(t, x)) = n + 1
  OBVIOUS
<1>2. a \in Seq(Int) /\ b \in Seq(Int) /\ Len(a) = m + n + 1 /\ Len(b) = m + n + 1
  BY <1>1
<1>3. ASSUME NEW i \in 1..(m + n + 1) PROVE a[i] = b[i]
  <2>1. CASE i <= m
    <3>1. i \in 1..Len(s) /\ i \in 1..Len(s \o t) /\ (s \o t)[i] = s[i]
      BY <1>1, <2>1
    <3>2. a[i] = (s \o t)[i] /\ b[i] = s[i]
      BY <1>1, <3>1
    <3>3. QED
      BY <3>1, <3>2
  <2>2. CASE m < i /\ i <= m + n
    <3>1. i - m \in 1..Len(t) /\ i \in 1..Len(s \o t) /\ (s \o t)[i] = t[i - m]
      BY <1>1, <2>2
    <3>2. a[i] = (s \o t)[i] /\ b[i] = Append(t, x)[i - m] /\ Append(t, x)[i - m] = t[i - m]
      BY <1>1, <2>2, <3>1
    <3>3. QED
      BY <3>1, <3>2
  <2>3. CASE i = m + n + 1
    <3>1. a[i] = x
      BY <1>1, <2>3
    <3>2. b[i] = Append(t, x)[n + 1]
      BY <1>1, <2>3
    <3>3. QED
      BY <1>1, <3>1, <3>2
  <2>4. QED
    BY <1>1, <2>1, <2>2, <2>3
<1> HIDE DEF a, b
<1>4. a = b
  BY <1>2, <1>3
<1>5. QED
  BY <1>4 DEF a, b

(* A run_greedy begins with nothing generated. *)
LEMMA GreedyBegins ==
  ASSUME IsRun, NEW trace \in Traces, NEW window, run_greedy(trace, window)
  PROVE  IsGreedy'
<1> DEFINE g == greedy'
<1>1. /\ trace \in Seq(Int) /\ trace # <<>> /\ run.tokens \in Seq(Int) /\ run' = run
      /\ g = [trace |-> trace, window |-> window, generated |-> <<>>,
              all_finite |-> TRUE, first_divergence |-> {}, prompt |-> run.tokens]
  BY TokensAssumption DEF run_greedy, IsRun
<1> HIDE DEF g
<1>2. /\ g.trace = trace /\ g.window = window /\ g.generated = <<>> /\ g.all_finite = TRUE
      /\ g.first_divergence = {} /\ g.prompt = run.tokens
  BY <1>1
<1>3. RunLen(g) \in Nat \ {0}
  BY <1>1, <1>2, RunLenIs
<1>4. GreedyRecord(g)
  BY <1>1, <1>2, <1>3 DEF GreedyRecord
<1>5. FirstLeft(g)
  BY <1>2 DEF FirstLeft, LeftAt
<1>6. run'.tokens = g.prompt \o Fed(g)
  <2>1. Fed(g) = <<>>
    BY <1>2, <1>3 DEF Fed
  <2>2. run.tokens \o <<>> = run.tokens
    BY <1>1
  <2>3. QED
    BY <1>1, <1>2, <2>1, <2>2
<1>7. QED
  BY <1>4, <1>5, <1>6 DEF IsGreedy, g

(* One step leaves the record one token longer, and names the divergence  *)
(* if there was none before.                                               *)
LEMMA GreedySteps ==
  ASSUME IsRun, IsGreedy, NEW logits, GreedyStep(logits)
  PROVE  IsGreedy'
<1> DEFINE g == greedy
           h == greedy'
           token == top1_non_eog(logits)
           m == Len(g.generated)
           more == Append(g.generated, token)
           fd == IF Diverges(g, token) THEN {Divergence(g, token, log_softmax(logits))}
                 ELSE g.first_divergence
<1>1. /\ g # NoGreedy /\ m < RunLen(g)
      /\ h = [g EXCEPT !.generated = Append(@, token),
                       !.all_finite = @ /\ AllFinite(log_softmax(logits)),
                       !.first_divergence =
                          IF Diverges(g, token) THEN {Divergence(g, token, log_softmax(logits))}
                          ELSE @]
      /\ run' = IF m + 1 < RunLen(g) THEN Push(run, token) ELSE run
  BY DEF GreedyStep
<1>2. GreedyRecord(g) /\ FirstLeft(g) /\ run.tokens = g.prompt \o Fed(g)
  BY <1>1 DEF IsGreedy
<1>3. token \in Int
  <2>1. token \in Vocab
    BY PredictionIsToken
  <2>2. QED
    BY <2>1 DEF Vocab
<1> DEFINE af == g.all_finite /\ AllFinite(log_softmax(logits))
<1>4. h = [trace |-> g.trace, window |-> g.window, generated |-> more,
           all_finite |-> af, first_divergence |-> fd, prompt |-> g.prompt]
  <2>1. h = [g EXCEPT !.generated = more, !.all_finite = af, !.first_divergence = fd]
    BY <1>1
  <2>2. g = [trace |-> g.trace, window |-> g.window, generated |-> g.generated,
             all_finite |-> g.all_finite, first_divergence |-> g.first_divergence,
             prompt |-> g.prompt]
    BY <1>2 DEF GreedyRecord
  <2> HIDE DEF g, h, more, af, fd
  <2>3. h = [trace |-> h.trace, window |-> h.window, generated |-> h.generated,
             all_finite |-> h.all_finite, first_divergence |-> h.first_divergence,
             prompt |-> h.prompt]
    BY ONLY <2>1, <2>2
  <2>4. /\ h.trace = g.trace /\ h.window = g.window /\ h.generated = more
        /\ h.all_finite = af /\ h.first_divergence = fd /\ h.prompt = g.prompt
    BY ONLY <2>1, <2>2
  <2>5. QED
    BY ONLY <2>3, <2>4
<1> HIDE DEF h, af
<1>5. /\ h.trace = g.trace /\ h.generated = more /\ h.first_divergence = fd
      /\ h.prompt = g.prompt
  BY ONLY <1>4
<1>6. /\ g.trace \in Seq(Int) /\ g.trace # <<>> /\ g.generated \in Seq(Int)
      /\ g.prompt \in Seq(Int) /\ m \in Nat
  BY <1>2 DEF GreedyRecord
<1>7. RunLen(g) \in Nat \ {0} /\ RunLen(h) = RunLen(g)
  BY <1>5, <1>6, RunLenIs DEF RunLen
<1>8. more \in Seq(Int) /\ Len(more) = m + 1 /\ more[m + 1] = token
      /\ \A i \in 1..m : more[i] = g.generated[i]
  BY <1>3, <1>6
<1> HIDE DEF g, m, more, fd, token
<1>9. GreedyRecord(h)
  <2>1. Len(h.generated) <= RunLen(h)
    BY <1>1, <1>5, <1>6, <1>7, <1>8
  <2>2. /\ h.trace \in Seq(Int) /\ h.trace # <<>> /\ h.generated \in Seq(Int)
        /\ h.prompt \in Seq(Int)
    BY <1>5, <1>6, <1>8
  <2>3. h = [trace |-> h.trace, window |-> h.window, generated |-> h.generated,
             all_finite |-> h.all_finite, first_divergence |-> h.first_divergence,
             prompt |-> h.prompt]
    BY ONLY <1>4
  <2>4. QED
    BY <2>1, <2>2, <2>3 DEF GreedyRecord
<1>10. LeftAt(g) \subseteq 1..m
       /\ LeftAt(h) = LeftAt(g) \cup (IF token # g.trace[m + 1] THEN {m + 1} ELSE {})
  <2>1. DOMAIN g.generated = 1..m /\ DOMAIN more = 1..(m + 1)
    BY <1>6, <1>8 DEF m
  <2>2. /\ LeftAt(g) = {i \in 1..m : g.generated[i] # g.trace[i]}
        /\ LeftAt(h) = {i \in 1..(m + 1) : more[i] # g.trace[i]}
    BY <1>5, <2>1 DEF LeftAt
  <2>3. 1..(m + 1) = 1..m \cup {m + 1}
    BY <1>6
  <2>4. QED
    BY ONLY <1>6, <1>8, <2>2, <2>3
<1>11. FirstLeft(h)
  <2>1. Diverges(g, token) <=> g.first_divergence = {} /\ token # g.trace[m + 1]
    BY DEF Diverges, m
  <2>2. CASE Diverges(g, token)
    <3> DEFINE d == Divergence(g, token, log_softmax(logits))
    <3>1. d.position = m /\ d.expected = g.trace[m + 1] /\ d.token = token
      BY DEF Divergence, m
    <3> HIDE DEF d
    <3>2. h.first_divergence = {d}
      BY <1>5, <2>2 DEF fd, d
    <3>3. LeftAt(h) = {m + 1}
      BY <1>2, <1>10, <2>1, <2>2 DEF FirstLeft
    <3>4. QED
      BY <1>5, <1>6, <1>8, <3>1, <3>2, <3>3 DEF FirstLeft
  <2>3. CASE ~Diverges(g, token)
    <3>1. h.first_divergence = g.first_divergence
      BY <1>5, <2>3 DEF fd
    <3>2. h.first_divergence = {} <=> LeftAt(h) = {}
      BY <1>2, <1>10, <2>1, <2>3, <3>1 DEF FirstLeft
    <3>3. ASSUME NEW d \in h.first_divergence
          PROVE  /\ d.position \in Nat
                 /\ d.position + 1 \in LeftAt(h) /\ \A i \in LeftAt(h) : d.position < i
                 /\ d.token = more[d.position + 1] /\ d.expected = g.trace[d.position + 1]
      <4>1. /\ d.position \in Nat
            /\ d.position + 1 \in LeftAt(g) /\ \A i \in LeftAt(g) : d.position < i
            /\ d.token = g.generated[d.position + 1] /\ d.expected = g.trace[d.position + 1]
        BY <1>2, <3>1, <3>3 DEF FirstLeft
      <4>2. d.position + 1 \in 1..m
        BY <1>10, <4>1
      <4>3. \A i \in LeftAt(h) : d.position < i
        BY <1>6, <1>10, <4>1, <4>2
      <4>4. QED
        BY <1>8, <1>10, <4>1, <4>2, <4>3
    <3>4. QED
      BY <1>5, <3>2, <3>3 DEF FirstLeft
  <2>4. QED
    BY <2>2, <2>3
<1>12. run'.tokens = h.prompt \o Fed(h)
  <2>1. Fed(g) = g.generated
    BY <1>1, <1>6, <1>7 DEF Fed, m
  <2>2. CASE m + 1 < RunLen(g)
    <3>1. run'.tokens = Append(run.tokens, token)
      BY <1>1, <1>3, <2>2, RunPushed
    <3>2. Fed(h) = more
      BY <1>5, <1>6, <1>7, <1>8, <2>2 DEF Fed
    <3>3. Append(g.prompt \o g.generated, token) = g.prompt \o more
      BY <1>3, <1>6, AppendAfter DEF more
    <3>4. QED
      BY <1>2, <1>5, <2>1, <3>1, <3>2, <3>3
  <2>3. CASE ~(m + 1 < RunLen(g))
    <3>1. Len(h.generated) = RunLen(h)
      BY <1>1, <1>5, <1>6, <1>7, <1>8, <2>3
    <3>2. Fed(h) = Front(more)
      BY <1>5, <3>1 DEF Fed
    <3>3. Front(more) = g.generated
      BY <1>3, <1>6, FrontOfAppend DEF more
    <3>4. QED
      BY <1>1, <1>2, <1>5, <2>1, <2>3, <3>2, <3>3
  <2>4. QED
    BY <2>2, <2>3
<1>13. QED
  BY <1>9, <1>11, <1>12 DEF IsGreedy, h

-----------------------------------------------------------------------------
(* Comparisons.  A set of integers between two bounds has a greatest.      *)
LEMMA Greatest ==
  ASSUME NEW S, NEW lo \in Int, NEW hi \in Int, S \subseteq lo..hi, S # {}
  PROVE  \E m \in S : \A x \in S : x <= m
<1> DEFINE T == {hi - x : x \in S}
<1>1. T \subseteq Nat /\ T # {}
  OBVIOUS
<1>2. PICK n \in T : \A k \in T : n <= k
  <2> HIDE DEF T
  <2>1. QED
    BY <1>1, Least
<1>3. PICK m \in S : n = hi - m
  BY <1>2
<1>4. ASSUME NEW x \in S PROVE x <= m
  <2>1. hi - x \in T /\ x \in Int /\ m \in Int
    OBVIOUS
  <2>2. n <= hi - x
    BY <1>2, <2>1
  <2>3. QED
    BY <1>3, <2>1, <2>2
<1>5. QED
  BY <1>4

(* Log-probabilities are finite numbers at most a few thousand below zero, *)
(* or minus infinity.                                                      *)
LowLogs == {NegInf} \cup (-11 * MaxFloat)..MaxFloat

LEMMA AbsOfMinus ==
  ASSUME NEW d, NEW x, d = NegInf \/ (d = x /\ d \in (-MaxFloat)..(12 * MaxFloat))
  PROVE  AbsOf(d) = -NegInf \/ (d = x /\ AbsOf(d) \in 0..(12 * MaxFloat))
<1>1. CASE d = NegInf
  <2>1. NegInf < 0 /\ AbsOf(NegInf) = -NegInf
    BY SMT DEF AbsOf, NegInf
  <2>2. QED
    BY <1>1, <2>1
<1>2. CASE d = x /\ d \in (-MaxFloat)..(12 * MaxFloat)
  <2>1. d \in Int /\ AbsOf(d) \in 0..(12 * MaxFloat)
    BY <1>2, SMT DEF AbsOf, MaxFloat
  <2>2. QED
    BY <1>2, <2>1
<1>3. QED
  BY <1>1, <1>2

LEMMA LogIsLow ==
  ASSUME NEW d, d = NegInf \/ d \in (-MaxFloat)..0, NEW ln_sum \in 0..MaxFloat
  PROVE  (IF d = NegInf THEN NegInf ELSE Unit * d - ln_sum) \in LowLogs
<1>1. CASE d = NegInf
  BY <1>1 DEF LowLogs
<1>2. CASE d # NegInf
  <2>1. d \in (-MaxFloat)..0
    BY <1>2
  <2>2. Unit * d - ln_sum \in (-11 * MaxFloat)..MaxFloat
    BY <2>1, SMT DEF Unit, MaxFloat
  <2>3. QED
    BY <1>2, <2>2 DEF LowLogs
<1>3. QED
  BY <1>1, <1>2

LEMMA FloatSizes ==
  /\ NegInf \in Int /\ -NegInf \in Nat /\ -NegInf > MaxFloat /\ -NegInf > 12 * MaxFloat
  /\ MaxFloat \in Nat /\ -NegInf # NaN /\ NaN > 12 * MaxFloat /\ NaN \in Nat
BY SMT DEF NegInf, NaN, MaxFloat

LEMMA MinusIs ==
  ASSUME NEW a \in (-11 * MaxFloat)..MaxFloat, NEW b \in (-MaxFloat)..MaxFloat
  PROVE  \/ Minus(a, b) = NegInf
         \/ Minus(a, b) = a - b /\ Minus(a, b) \in (-MaxFloat)..(12 * MaxFloat)
BY SMT DEF Minus, NaN, NegInf, MaxFloat

LEMMA LogSoftmaxIs ==
  ASSUME NEW logits \in [1..VOCAB_SIZE -> Floats], AllFinite(logits)
  PROVE  log_softmax(logits) \in [1..VOCAB_SIZE -> LowLogs]
<1> DEFINE R == Range(logits)
           max == CHOOSE m \in R : \A x \in R : x <= m
           at == {i \in DOMAIN logits : logits[i] = max}
           ln_sum == LnOf[Cardinality(at)]
<1>1. VOCAB_SIZE \in Nat \ {0} /\ 1 \in 1..VOCAB_SIZE
  BY ShapeAssumption
<1>2. \A i \in 1..VOCAB_SIZE : logits[i] \in (-MaxFloat)..MaxFloat
  BY DEF AllFinite, IsFinite, Floats
<1>3. R = {logits[i] : i \in 1..VOCAB_SIZE}
  BY DEF Range
<1>4. R \subseteq (-MaxFloat)..MaxFloat /\ R # {} /\ -MaxFloat \in Int /\ MaxFloat \in Int
  <2>1. -MaxFloat \in Int /\ MaxFloat \in Int
    BY DEF MaxFloat
  <2>2. R \subseteq (-MaxFloat)..MaxFloat /\ R # {}
    BY <1>1, <1>2, <1>3
  <2>3. QED
    BY <2>1, <2>2
<1>5. max \in R /\ \A x \in R : x <= max
  <2> HIDE DEF R
  <2>1. \E m \in R : \A x \in R : x <= m
    BY <1>4, Greatest
  <2>2. QED
    BY <2>1
<1> HIDE DEF max
<1>6. ln_sum \in 0..MaxFloat
  <2>1. at \subseteq 1..VOCAB_SIZE /\ at # {}
    BY <1>3, <1>5
  <2> HIDE DEF at
  <2>2. IsFiniteSet(1..VOCAB_SIZE) /\ Cardinality(1..VOCAB_SIZE) = VOCAB_SIZE
    BY <1>1, FS_Interval
  <2>3. IsFiniteSet(at) /\ Cardinality(at) <= VOCAB_SIZE
    <3>1. at \in SUBSET (1..VOCAB_SIZE)
      BY <2>1
    <3>2. IsFiniteSet(at) /\ Cardinality(at) <= Cardinality(1..VOCAB_SIZE)
      BY <2>2, <3>1, FS_Subset
    <3>3. QED
      BY <2>2, <3>2
  <2>4. Cardinality(at) \in Nat /\ Cardinality(at) # 0
    BY <2>1, <2>3, FS_CardinalityType, FS_EmptySet
  <2>5. Cardinality(at) \in 1..VOCAB_SIZE
    BY <1>1, <2>3, <2>4
  <2>6. QED
    BY <2>5, LogitsAssumption
<1>7. log_softmax(logits)
        = [i \in 1..VOCAB_SIZE |->
             IF Minus(logits[i], max) = NegInf THEN NegInf
             ELSE Unit * Minus(logits[i], max) - ln_sum]
  BY DEF log_softmax, max
<1> HIDE DEF ln_sum
<1>8. ASSUME NEW i \in 1..VOCAB_SIZE
      PROVE  (IF Minus(logits[i], max) = NegInf THEN NegInf
              ELSE Unit * Minus(logits[i], max) - ln_sum) \in LowLogs
  <2> DEFINE d == Minus(logits[i], max)
  <2>1. /\ logits[i] \in (-MaxFloat)..MaxFloat /\ max \in (-MaxFloat)..MaxFloat
        /\ logits[i] <= max
    BY <1>2, <1>3, <1>4, <1>5
  <2>2. d = NegInf \/ d \in (-MaxFloat)..0
    <3>1. logits[i] - max <= 0 /\ logits[i] \in (-11 * MaxFloat)..MaxFloat
      BY ONLY <2>1, FloatSizes
    <3>2. d = NegInf \/ (d = logits[i] - max /\ d \in (-MaxFloat)..(12 * MaxFloat))
      BY ONLY <2>1, <3>1, MinusIs
    <3>3. QED
      BY ONLY <3>1, <3>2
  <2> HIDE DEF d
  <2>3. (IF d = NegInf THEN NegInf ELSE Unit * d - ln_sum) \in LowLogs
    BY ONLY <1>6, <2>2, LogIsLow
  <2>4. QED
    BY <2>3 DEF d
<1>9. QED
  BY <1>7, <1>8

(* What max_band_deviation drops is no finite deviation. *)
LEMMA BandBoundsAll ==
  ASSUME NEW a \in [1..VOCAB_SIZE -> LowLogs], NEW b \in [1..VOCAB_SIZE -> Floats],
         AllFinite(a), AllFinite(b), max_band_deviation(a, b) <= BAND_DELTA,
         NEW i \in 1..VOCAB_SIZE
  PROVE  AbsOf(a[i] - b[i]) <= BAND_DELTA
<1> DEFINE dev(j) == AbsOf(Minus(a[j], b[j]))
           seen == (Deviations(a, b) \ {NaN}) \cup {0}
           max == CHOOSE m \in seen : \A x \in seen : x <= m
<1>1. ASSUME NEW j \in 1..VOCAB_SIZE
      PROVE  /\ a[j] \in (-11 * MaxFloat)..MaxFloat /\ b[j] \in (-MaxFloat)..MaxFloat
             /\ \/ (dev(j) = AbsOf(a[j] - b[j]) /\ dev(j) \in 0..(12 * MaxFloat))
                \/ dev(j) = -NegInf
  <2>1. a[j] \in (-11 * MaxFloat)..MaxFloat /\ b[j] \in (-MaxFloat)..MaxFloat
    <3>1. a[j] \in LowLogs /\ b[j] \in Floats /\ IsFinite(a[j]) /\ IsFinite(b[j])
      BY DEF AllFinite
    <3>2. QED
      BY <3>1 DEF IsFinite, LowLogs, Floats
  <2> DEFINE d == Minus(a[j], b[j])
  <2>2. d = NegInf \/ (d = a[j] - b[j] /\ d \in (-MaxFloat)..(12 * MaxFloat))
    BY ONLY <2>1, MinusIs
  <2>3. dev(j) = AbsOf(d)
    OBVIOUS
  <2> HIDE DEF d, dev
  <2>4. AbsOf(d) = -NegInf \/ (d = a[j] - b[j] /\ AbsOf(d) \in 0..(12 * MaxFloat))
    BY ONLY <2>2, AbsOfMinus
  <2>5. QED
    BY ONLY <2>1, <2>3, <2>4
<1>2. Deviations(a, b) = {dev(j) : j \in 1..VOCAB_SIZE}
  BY DEF Deviations
<1> HIDE DEF dev
<1>3. \A j \in 1..VOCAB_SIZE : dev(j) \in 0..(-NegInf) /\ dev(j) # NaN
  <2>1. ASSUME NEW x, x \in 0..(12 * MaxFloat) \/ x = -NegInf
        PROVE  x \in 0..(-NegInf) /\ x # NaN
    BY ONLY <2>1, FloatSizes
  <2>2. QED
    BY <1>1, <2>1
<1>9. 0 \in Int /\ -NegInf \in Int /\ 0 \in 0..(-NegInf) /\ -NegInf > MaxFloat /\ MaxFloat \in Int
  BY ONLY FloatSizes
<1>4. seen \subseteq 0..(-NegInf) /\ seen # {} /\ \A j \in 1..VOCAB_SIZE : dev(j) \in seen
  BY <1>2, <1>3, <1>9
<1> HIDE DEF seen
<1>5. max \in seen /\ \A x \in seen : x <= max
  <2>1. \E m \in seen : \A x \in seen : x <= m
    BY <1>4, <1>9, Greatest
  <2>2. QED
    BY <2>1
<1>6. max_band_deviation(a, b) = max
  BY DEF max_band_deviation, seen
<1> HIDE DEF max
<1>7. dev(i) <= BAND_DELTA
  <2>1. dev(i) \in Int /\ max \in Int /\ dev(i) <= max /\ max <= BAND_DELTA /\ BAND_DELTA \in Int
    <3>1. dev(i) \in seen /\ max \in seen /\ dev(i) <= max
      BY <1>4, <1>5
    <3>2. dev(i) \in Int /\ max \in Int
      <4>1. dev(i) \in 0..(-NegInf) /\ max \in 0..(-NegInf)
        BY <1>4, <3>1
      <4>2. QED
        BY ONLY <1>9, <4>1
    <3>3. BAND_DELTA \in Int
      BY <1>9, LogitsAssumption
    <3>4. QED
      BY <1>6, <3>1, <3>2, <3>3
  <2>2. QED
    BY <2>1
<1>8. dev(i) # -NegInf
  BY <1>3, <1>7, <1>9, LogitsAssumption
<1>10. QED
  BY <1>1, <1>7, <1>8

(* No failing threshold: each of them held. *)
LEMMA NoneFailing ==
  ASSUME NEW top1 \in BOOLEAN, NEW topk \in BOOLEAN, NEW band \in BOOLEAN,
         NEW finite \in BOOLEAN, FailingOf(top1, topk, band, finite) = {}
  PROVE  top1 /\ topk /\ band /\ finite
BY DEF FailingOf

LEMMA PositionAgrees ==
  ASSUME NEW oracle \in Logits, NEW comparator \in References, NEW token,
         compare_position(oracle, comparator, token)
  PROVE  AgreementIsReal'
<1> DEFINE logp == log_softmax(oracle)
           v == verdict'
<1>1. PICK mine \in topk_ids(logp, TOPK_K), theirs \in topk_ids(comparator, TOPK_K) :
        verdict' = [kind |-> "position", ours |-> logp, theirs |-> comparator,
                    top1 |-> top1_non_eog(oracle), expected |-> token,
                    failing |-> FailingOf(
                       top1_non_eog(oracle) = token,
                       Cardinality(mine \cap theirs) >= TOPK_MIN_OVERLAP,
                       max_band_deviation(logp, comparator) <= BAND_DELTA,
                       AllFinite(comparator) /\ AllFinite(logp))]
  BY DEF compare_position
<1>2. /\ oracle \in [1..VOCAB_SIZE -> Floats] /\ comparator \in [1..VOCAB_SIZE -> Floats]
      /\ AllFinite(oracle)
  BY LogitsAssumption DEF compare_position
<1>3. logp \in [1..VOCAB_SIZE -> LowLogs]
  BY <1>2, LogSoftmaxIs
<1> HIDE DEF logp, v
<1> DEFINE c1 == top1_non_eog(oracle) = token
           c2 == Cardinality(mine \cap theirs) >= TOPK_MIN_OVERLAP
           c3 == max_band_deviation(logp, comparator) <= BAND_DELTA
           c4 == AllFinite(comparator) /\ AllFinite(logp)
<1>4. /\ v.kind = "position" /\ v.ours = logp /\ v.theirs = comparator
      /\ v.top1 = top1_non_eog(oracle) /\ v.expected = token
      /\ v.failing = FailingOf(c1, c2, c3, c4)
  BY <1>1 DEF v
<1>5. ASSUME v.failing = {}
      PROVE  c1 /\ c3 /\ c4
  <2>1. c1 \in BOOLEAN /\ c2 \in BOOLEAN /\ c3 \in BOOLEAN /\ c4 \in BOOLEAN
    OBVIOUS
  <2>2. FailingOf(c1, c2, c3, c4) = {}
    BY <1>4, <1>5
  <2> HIDE DEF c1, c2, c3, c4
  <2>3. QED
    BY <2>1, <2>2, NoneFailing
<1>6. ASSUME v.failing = {}
      PROVE  /\ AllFinite(v.ours) /\ AllFinite(v.theirs) /\ v.top1 = v.expected
             /\ \A i \in DOMAIN v.ours :
                  AbsOf(v.ours[i] - v.theirs[i])
                    <= IF v.kind = "position" THEN BAND_DELTA
                       ELSE Q2_ATOL + Q2_RTOL * AbsOf(v.theirs[i])
  <2>1. \A i \in 1..VOCAB_SIZE : AbsOf(logp[i] - comparator[i]) <= BAND_DELTA
    BY <1>2, <1>3, <1>5, <1>6, BandBoundsAll
  <2>2. DOMAIN logp = 1..VOCAB_SIZE
    BY <1>3
  <2>3. QED
    BY <1>4, <1>5, <1>6, <2>1, <2>2
<1>7. QED
  BY <1>6 DEF AgreementIsReal, v

LEMMA PrefillAgrees ==
  ASSUME NEW gpu, NEW golden, compare_gpu_logits(gpu, golden)
  PROVE  AgreementIsReal'
<1> DEFINE v == verdict'
           c1 == top1_non_eog(gpu) = top1_non_eog(golden)
           c2 == TRUE
           c3 == NumericMatch(gpu, golden)
           c4 == AllFinite(gpu) /\ AllFinite(golden)
<1>1. /\ v.kind = "prefill" /\ v.ours = gpu /\ v.theirs = golden
      /\ v.top1 = top1_non_eog(gpu) /\ v.expected = top1_non_eog(golden)
      /\ v.failing = FailingOf(c1, c2, c3, c4)
  BY DEF compare_gpu_logits
<1> HIDE DEF v
<1>2. ASSUME v.failing = {}
      PROVE  c1 /\ c3 /\ c4
  <2>1. c1 \in BOOLEAN /\ c2 \in BOOLEAN /\ c3 \in BOOLEAN /\ c4 \in BOOLEAN
    BY DEF NumericMatch, AllFinite
  <2>2. FailingOf(c1, c2, c3, c4) = {}
    BY <1>1, <1>2
  <2> HIDE DEF c1, c2, c3, c4
  <2>3. QED
    BY <2>1, <2>2, NoneFailing
<1>3. ASSUME v.failing = {}
      PROVE  /\ AllFinite(v.ours) /\ AllFinite(v.theirs) /\ v.top1 = v.expected
             /\ \A i \in DOMAIN v.ours :
                  AbsOf(v.ours[i] - v.theirs[i])
                    <= IF v.kind = "position" THEN BAND_DELTA
                       ELSE Q2_ATOL + Q2_RTOL * AbsOf(v.theirs[i])
  BY <1>1, <1>2, <1>3 DEF NumericMatch
<1>4. QED
  BY <1>3 DEF AgreementIsReal, v

(* A comparison that reports no failing threshold is an agreement of every *)
(* logit and of the prediction, and greedy decoding records the first      *)
(* place it left the trace: for any vocabulary, envelope, logits and runs. *)
THEOREM VerdictsAreReal == DecoderSpec => []VerdictsReal
<1> DEFINE DInv == IsRun /\ IsGreedy /\ AgreementIsReal
<1>1. DecoderInit => DInv
  <2> SUFFICES ASSUME DecoderInit PROVE DInv
    OBVIOUS
  <2>1. IsRun
    BY InitIsRun
  <2>2. QED
    BY <2>1 DEF DecoderInit, IsGreedy, AgreementIsReal
<1>2. DInv /\ [DecoderNext]_decoderVars => DInv'
  <2> SUFFICES ASSUME DInv, [DecoderNext]_decoderVars PROVE DInv'
    OBVIOUS
  <2>1. IsRun'
    BY NextKeepsIsRun
  <2>2. ASSUME UNCHANGED <<run, greedy>> PROVE IsGreedy'
    <3>1. run' = run /\ greedy' = greedy
      BY <2>2
    <3>2. QED
      BY <3>1 DEF IsGreedy
  <2>3. ASSUME UNCHANGED verdict PROVE AgreementIsReal'
    <3>1. verdict' = verdict
      BY <2>3
    <3>2. QED
      BY <3>1 DEF AgreementIsReal
  <2>4. ASSUME greedy' = NoGreedy PROVE IsGreedy'
    BY <2>4 DEF IsGreedy
  <2>5. CASE UNCHANGED decoderVars
    BY <2>1, <2>2, <2>3, <2>5 DEF decoderVars
  <2>6. ASSUME NEW tokens \in TokenPrompts, new(tokens) PROVE DInv'
    BY <2>1, <2>3, <2>4, <2>6 DEF new
  <2>7. ASSUME NEW token, push_token(token) PROVE DInv'
    BY <2>1, <2>3, <2>4, <2>7 DEF push_token
  <2>8. ASSUME NEW trace \in Traces, NEW window, run_greedy(trace, window) PROVE DInv'
    BY <2>1, <2>3, <2>8, GreedyBegins DEF run_greedy
  <2>9. ASSUME NEW logits, GreedyStep(logits) PROVE DInv'
    BY <2>1, <2>3, <2>9, GreedySteps DEF GreedyStep
  <2>10. ASSUME NEW ours \in Logits, NEW theirs \in References, NEW token,
                compare_position(ours, theirs, token)
         PROVE  DInv'
    <3>1. UNCHANGED <<run, greedy>>
      BY <2>10 DEF compare_position
    <3>2. AgreementIsReal'
      BY <2>10, PositionAgrees
    <3>3. QED
      BY <2>1, <2>2, <3>1, <3>2
  <2>11. ASSUME NEW ours, NEW theirs, compare_gpu_logits(ours, theirs) PROVE DInv'
    BY <2>1, <2>2, <2>11, PrefillAgrees DEF compare_gpu_logits
  <2>12. CASE DecoderNext
    <3> HIDE DEF DInv
    <3>1. QED
      BY <2>6, <2>7, <2>8, <2>9, <2>10, <2>11, <2>12 DEF DecoderNext
  <2>13. QED
    BY <2>5, <2>12
<1>3. DInv => VerdictsReal
  BY DEF IsGreedy, FirstLeft, LeftAt, Fed, VerdictsReal, DivergenceIsFirst
<1> HIDE DEF DInv
<1>4. QED
  BY <1>1, <1>2, <1>3, PTL DEF DecoderSpec

-----------------------------------------------------------------------------
(* Dequant *)

(* A reading of a block of B bytes into N elements of n quant bits: where  *)
(* bit i of element j is, the places of its codes, and the bytes of the    *)
(* factors.                                                                *)
Elements(N) == 0..(N - 1)
Bits(n) == 0..(n - 1)
Everything(B) == (0..(B - 1)) \X (0..7)

Marks(p, n) == {p[i] : i \in Bits(n)}

Reads(y, N, n, qp, cp, H) ==
  /\ DOMAIN y = Elements(N)
  /\ \A j \in Elements(N) :
       /\ Labels(y[j].q) = Marks(qp[j], n)
       /\ Labels(y[j].scale) \cup Labels(y[j].min) = cp[j]
       /\ Labels(y[j].scale) \cap Labels(y[j].min) = {}
       /\ y[j].half = H

KeptApart(N, n, s, qp, cp, H) ==
  /\ \A j, k \in Elements(N), i, h \in Bits(n) : qp[j][i] = qp[k][h] => j = k /\ i = h
  /\ \A j \in Elements(N) : (j \div s) * s \in Elements(N) /\ cp[j] = cp[(j \div s) * s]
  /\ \A j, k \in Elements(N) : j % s = 0 /\ k % s = 0 /\ j # k => cp[j] \cap cp[k] = {}
  /\ \A j, k \in Elements(N), i \in Bits(n) : qp[j][i] \notin cp[k]
  /\ \A j \in Elements(N), i \in Bits(n) : qp[j][i] \notin H \X (0..7)
  /\ \A j \in Elements(N) : cp[j] \cap (H \X (0..7)) = {}

Covers(B, N, n, s, qp, cp, H) ==
  /\ \A j \in Elements(N), i \in Bits(n) : qp[j][i] \in Everything(B)
  /\ \A j \in Elements(N) : cp[j] \subseteq Everything(B)
  /\ H \subseteq 0..(B - 1)
  /\ \A x \in Everything(B) :
       \/ x \in H \X (0..7)
       \/ \E j \in Elements(N), i \in Bits(n) : x = qp[j][i]
       \/ \E j \in Elements(N) : j % s = 0 /\ x \in cp[j]

(* Different elements, different images. *)
LEMMA ImageSize ==
  ASSUME NEW S, IsFiniteSet(S), NEW g, NEW T, T = {g[x] : x \in S},
         \A x, z \in S : g[x] = g[z] => x = z
  PROVE  Cardinality(T) = Cardinality(S)
<1> DEFINE f == [x \in S |-> g[x]]
<1>1. f \in [S -> T] /\ \A x \in S : f[x] = g[x]
  OBVIOUS
<1>2. \A t \in T : \E x \in S : f[x] = t
  BY <1>1
<1> HIDE DEF f
<1>3. f \in Bijection(S, T)
  BY <1>1, <1>2 DEF Bijection, Injection, Surjection, IsInjective
<1>4. QED
  BY <1>3, FS_Bijection DEF ExistsBijection

(* The numbers below m, counted. *)
LEMMA BelowIsFinite ==
  ASSUME NEW m \in Nat
  PROVE  IsFiniteSet(0..(m - 1)) /\ Cardinality(0..(m - 1)) = m
<1>1. IsFiniteSet(0..(m - 1)) /\ Cardinality(0..(m - 1)) = IF 0 > m - 1 THEN 0 ELSE m - 1 - 0 + 1
  BY FS_Interval
<1>2. QED
  BY <1>1

(* A block read so, each part kept apart and all of it covered, is taken   *)
(* apart exactly.                                                          *)
LEMMA TakesApart ==
  ASSUME NEW B \in Nat, NEW N \in Nat, NEW n \in Nat, NEW s \in Nat, N > 0, NEW y, NEW qp, NEW cp, NEW H,
         Reads(y, N, n, qp, cp, H), KeptApart(N, n, s, qp, cp, H), Covers(B, N, n, s, qp, cp, H)
  PROVE  TakenApart(y, <<B, n, s>>)
<1> DEFINE L(j) == Labels(y[j].q)
           Code(j) == Labels(y[j].scale) \cup Labels(y[j].min)
           E == Elements(N)
           I == Bits(n)
           Leaders == {j \in E : j % s = 0}
           halves == H \X (0..7)
           quants == UNION {L(j) : j \in E}
           codes == UNION {Code(j) : j \in Leaders}
           all == Everything(B)
<1>1. /\ DOMAIN y = E /\ 0 \in E
      /\ IsFiniteSet(E) /\ Cardinality(E) = N /\ IsFiniteSet(I) /\ Cardinality(I) = n
  BY BelowIsFinite DEF Reads, Elements, Bits
<1>2. \A j \in E : L(j) = {qp[j][i] : i \in I} /\ Code(j) = cp[j] /\ y[j].half = H
  BY DEF Reads, Marks
<1>3. \A j \in E : Labels(y[j].scale) \cap Labels(y[j].min) = {}
  BY DEF Reads
<1>4. \A j, k \in E, i, h \in I : qp[j][i] = qp[k][h] => j = k /\ i = h
  BY DEF KeptApart
<1>5. /\ \A j \in E : (j \div s) * s \in E /\ cp[j] = cp[(j \div s) * s]
      /\ \A j, k \in Leaders : j # k => cp[j] \cap cp[k] = {}
      /\ \A j, k \in E, i \in I : qp[j][i] \notin cp[k]
      /\ \A j \in E, i \in I : qp[j][i] \notin halves
      /\ \A j \in E : cp[j] \cap halves = {}
  BY <1>2 DEF KeptApart
<1>6. /\ \A j \in E, i \in I : qp[j][i] \in all
      /\ \A j \in E : cp[j] \subseteq all
      /\ halves \subseteq all
      /\ \A x \in all : \/ x \in halves
                        \/ \E j \in E, i \in I : x = qp[j][i]
                        \/ \E j \in Leaders : x \in cp[j]
  <2>1. H \subseteq 0..(B - 1)
    BY DEF Covers
  <2>2. halves \subseteq all
    BY <2>1 DEF Everything
  <2>3. QED
    BY <2>2 DEF Covers
<1> HIDE DEF E, I, L, halves, all
<1>7. /\ \A x : x \in quants <=> \E j \in E, i \in I : x = qp[j][i]
      /\ \A x : x \in codes <=> \E j \in Leaders : x \in Code(j)
  <2>1. \A x : x \in quants <=> \E j \in E : x \in L(j)
    OBVIOUS
  <2>2. QED
    BY <1>2, <2>1
<1>8. Cardinality(quants) = N * n
  <2> DEFINE S == E \X I
             place == [x \in S |-> qp[x[1]][x[2]]]
             T == {place[x] : x \in S}
  <2>1. IsFiniteSet(S) /\ Cardinality(S) = N * n
    BY <1>1, FS_Product
  <2>2. \A x \in S : x = <<x[1], x[2]>> /\ x[1] \in E /\ x[2] \in I /\ place[x] = qp[x[1]][x[2]]
    OBVIOUS
  <2>3. \A j \in E, i \in I : <<j, i>> \in S /\ place[<<j, i>>] = qp[j][i]
    OBVIOUS
  <2> HIDE DEF place
  <2>4. \A x, z \in S : place[x] = place[z] => x = z
    <3>1. ASSUME NEW x \in S, NEW z \in S, place[x] = place[z] PROVE x = z
      <4>1. x[1] = z[1] /\ x[2] = z[2]
        BY <1>4, <2>2, <3>1
      <4>2. QED
        BY <2>2, <4>1
    <3>2. QED
      BY <3>1
  <2>5. \A x : x \in T <=> \E j \in E, i \in I : x = qp[j][i]
    <3>1. \A x : x \in T <=> \E u \in S : x = place[u]
      OBVIOUS
    <3>2. ASSUME NEW x, NEW u \in S, x = place[u] PROVE \E j \in E, i \in I : x = qp[j][i]
      BY <2>2, <3>2
    <3>3. ASSUME NEW j \in E, NEW i \in I PROVE \E u \in S : qp[j][i] = place[u]
      BY <2>3
    <3> HIDE DEF T, S
    <3>4. QED
      BY <3>1, <3>2, <3>3
  <2> HIDE DEF S
  <2>6. Cardinality(T) = Cardinality(S)
    BY <2>1, <2>4, ImageSize
  <2> HIDE DEF T, quants, codes
  <2>7. quants = T
    BY <1>7, <2>5
  <2>8. QED
    BY <2>1, <2>6, <2>7
<1>9. ASSUME NEW j \in E PROVE Cardinality(L(j)) = n
  <2> DEFINE g == qp[j]
             T == {g[i] : i \in I}
  <2>1. L(j) = T
    BY <1>2
  <2>2. \A i, h \in I : g[i] = g[h] => i = h
    BY <1>4
  <2> HIDE DEF g
  <2>3. Cardinality(T) = Cardinality(I)
    BY <1>1, <2>2, ImageSize
  <2>4. QED
    BY <1>1, <2>1, <2>3
<1>10. ASSUME NEW j \in E PROVE Code(j) = Code((j \div s) * s)
  BY <1>2, <1>5
<1>11. \A j, k \in Leaders : j # k => Code(j) \cap Code(k) = {}
  BY <1>2, <1>5
<1> HIDE DEF Code
<1>12. quants \cap codes = {}
  <2>1. ASSUME NEW x, x \in quants, x \in codes PROVE FALSE
    <3>1. PICK j \in E, i \in I : x = qp[j][i]
      BY <1>7, <2>1
    <3>2. PICK k \in Leaders : x \in Code(k)
      BY <1>7, <2>1
    <3>3. QED
      BY <1>2, <1>5, <3>1, <3>2
  <2>2. QED
    BY <2>1
<1>13. (quants \cup codes) \cap halves = {}
  <2>1. ASSUME NEW x, x \in quants PROVE x \notin halves
    <3>1. PICK j \in E, i \in I : x = qp[j][i]
      BY <1>7, <2>1
    <3>2. QED
      BY <1>5, <3>1
  <2>2. ASSUME NEW x, x \in codes PROVE x \notin halves
    <3>1. PICK k \in Leaders : x \in cp[k]
      BY <1>2, <1>7, <2>2
    <3>2. QED
      BY <1>5, <3>1
  <2>3. QED
    BY <2>1, <2>2
<1>14. quants \cup codes \cup halves = all
  <2>1. ASSUME NEW x, x \in quants PROVE x \in all
    <3>1. PICK j \in E, i \in I : x = qp[j][i]
      BY <1>7, <2>1
    <3>2. QED
      BY <1>6, <3>1
  <2>2. ASSUME NEW x, x \in codes PROVE x \in all
    <3>1. PICK k \in Leaders : x \in cp[k]
      BY <1>2, <1>7, <2>2
    <3>2. QED
      BY <1>6, <3>1
  <2>3. ASSUME NEW x \in all, x \notin halves PROVE x \in quants \/ x \in codes
    <3>1. CASE \E j \in E, i \in I : x = qp[j][i]
      BY <1>7, <3>1
    <3>2. CASE \E j \in Leaders : x \in cp[j]
      <4>1. PICK j \in Leaders : x \in cp[j]
        BY <3>2
      <4>2. x \in Code(j)
        BY <1>2, <4>1
      <4>3. QED
        BY <1>7, <4>2
    <3>3. QED
      BY <1>6, <2>3, <3>1, <3>2
  <2> HIDE DEF quants, codes
  <2>4. halves \subseteq all
    BY <1>6
  <2>5. QED
    BY <2>1, <2>2, <2>3, <2>4
<1>15. y[0].half = H
  BY <1>1, <1>2
<1>16. \A j \in E : /\ Cardinality(L(j)) = n /\ Labels(y[j].scale) \cap Labels(y[j].min) = {}
                   /\ Code(j) = Code((j \div s) * s) /\ y[j].half = H
  BY <1>2, <1>3, <1>9, <1>10
<1> DEFINE f == <<B, n, s>>
<1>17. f[1] = B /\ f[2] = n /\ f[3] = s
  OBVIOUS
<1>18. halves = y[0].half \X (0..7) /\ all = (0..(f[1] - 1)) \X (0..7)
  BY <1>15, <1>17 DEF halves, all, Everything
<1>19. Leaders = {j \in DOMAIN y : j % f[3] = 0}
  BY <1>1, <1>17
<1> HIDE DEF f, quants, codes, Leaders
<1>20. /\ Cardinality(quants) = Cardinality(DOMAIN y) * f[2]
       /\ quants \cap codes = {} /\ (quants \cup codes) \cap (y[0].half \X (0..7)) = {}
       /\ quants \cup codes \cup (y[0].half \X (0..7)) = (0..(f[1] - 1)) \X (0..7)
  BY <1>1, <1>8, <1>12, <1>13, <1>14, <1>17, <1>18
<1>21. quants = UNION {Labels(y[j].q) : j \in DOMAIN y}
  BY <1>1 DEF quants, L
<1>22. codes = UNION {Labels(y[j].scale) \cup Labels(y[j].min) : j \in Leaders}
  BY DEF codes, Code
<1>23. TakenApart(y, f)
  BY <1>1, <1>11, <1>15, <1>16, <1>17, <1>19, <1>20, <1>21, <1>22 DEF TakenApart, L, Code
<1>24. QED
  BY <1>23 DEF f

(* A word of m bits, the first n of which are at their places.             *)
IsWord(w, m, n, p) ==
  /\ DOMAIN w = Bits(m)
  /\ \A i \in Bits(n) : i \in Bits(m) /\ w[i] = p[i] /\ p[i] # Off
  /\ \A i \in Bits(m) : i \in Bits(n) \/ w[i] = Off

(* The labels of a word are its places. *)
LEMMA WordLabels ==
  ASSUME NEW w, NEW m, NEW n, NEW p, IsWord(w, m, n, p)
  PROVE  Labels(w) = Marks(p, n)
<1>1. ASSUME NEW x, x \in Labels(w) PROVE \E i \in Bits(n) : x = p[i]
  BY <1>1 DEF Labels, IsWord
<1>2. ASSUME NEW i \in Bits(n) PROVE p[i] \in Labels(w)
  BY DEF Labels, IsWord
<1>3. QED
  BY <1>1, <1>2 DEF Marks

(* A word of zeros has none. *)
LEMMA NoLabels == Labels(NoBits) = {}
BY DEF Labels, NoBits

Byte(k) == [i \in 0..7 |-> <<k, i>>]

(* Byte k of a symbolic block. *)
LEMMA BlockIs == \A n \in Nat : \A k \in 0..(n - 1) : Block(n)[k] = Byte(k)
BY DEF Block, Byte

(* Byte k of a part of a block. *)
LEMMA BytesAre ==
  ASSUME NEW n \in Nat, NEW from \in Nat, NEW to \in Nat, to <= n
  PROVE  \A k \in 0..(to - from - 1) : Bytes(Block(n), from, to)[k] = Byte(from + k)
<1> SUFFICES ASSUME NEW k \in 0..(to - from - 1)
    PROVE Bytes(Block(n), from, to)[k] = Byte(from + k)
  OBVIOUS
<1>1. from + k \in 0..(n - 1)
  OBVIOUS
<1>2. QED
  BY <1>1, BlockIs DEF Bytes

(* What the two nibbles of a byte are. *)
LEMMA Nibbles ==
  ASSUME NEW k \in Nat
  PROVE  /\ DOMAIN And(Byte(k), Low) = 0..7 /\ DOMAIN Shr(Byte(k), 4) = 0..7
         /\ \A i \in 0..7 : And(Byte(k), Low)[i] = IF i < 4 THEN <<k, i>> ELSE Off
         /\ \A i \in 0..7 : Shr(Byte(k), 4)[i] = IF i < 4 THEN <<k, i + 4>> ELSE Off
BY DEF Byte, And, Shr, Low

(* The places of the bits, as bytes and bits: two of different elements or *)
(* bits differ, and none is among the factors.                             *)
Places(B, N, n, H, qp, byte, bit) ==
  /\ \A j \in Elements(N), i \in Bits(n) :
       /\ qp[j][i] = <<byte[j][i], bit[j][i]>>
       /\ byte[j][i] \in 0..(B - 1) /\ byte[j][i] \notin H /\ bit[j][i] \in 0..7
  /\ \A j, k \in Elements(N), i, h \in Bits(n) :
       byte[j][i] = byte[k][h] /\ bit[j][i] = bit[k][h] => j = k /\ i = h
  /\ H \subseteq 0..(B - 1)

Filled(B, N, n, H, byte, bit) ==
  \A b \in 0..(B - 1), i \in 0..7 :
    b \notin H => \E j \in Elements(N), h \in Bits(n) : b = byte[j][h] /\ i = bit[j][h]

Grouped(N, s) == \A j \in Elements(N) : (j \div s) * s \in Elements(N)

(* A format without codes is apart when its bits are. *)
LEMMA NoCodes ==
  ASSUME NEW B \in Nat, NEW N \in Nat, NEW n \in Nat, NEW s \in Nat, NEW qp, NEW cp, NEW H,
         NEW byte, NEW bit, Places(B, N, n, H, qp, byte, bit), Filled(B, N, n, H, byte, bit),
         Grouped(N, s), \A j \in Elements(N) : cp[j] = {}
  PROVE  KeptApart(N, n, s, qp, cp, H) /\ Covers(B, N, n, s, qp, cp, H)
<1>1. /\ \A j, k \in Elements(N), i, h \in Bits(n) : qp[j][i] = qp[k][h] => j = k /\ i = h
      /\ \A j \in Elements(N), i \in Bits(n) : qp[j][i] \in Everything(B) /\ qp[j][i] \notin H \X (0..7)
  <2>1. ASSUME NEW j \in Elements(N), NEW k \in Elements(N), NEW i \in Bits(n), NEW h \in Bits(n),
               qp[j][i] = qp[k][h]
        PROVE  j = k /\ i = h
    <3>1. <<byte[j][i], bit[j][i]>> = <<byte[k][h], bit[k][h]>>
      BY <2>1 DEF Places
    <3>2. byte[j][i] = byte[k][h] /\ bit[j][i] = bit[k][h]
      BY <3>1
    <3>3. QED
      BY <3>2 DEF Places
  <2>2. ASSUME NEW j \in Elements(N), NEW i \in Bits(n)
        PROVE  qp[j][i] \in Everything(B) /\ qp[j][i] \notin H \X (0..7)
    <3>1. /\ qp[j][i] = <<byte[j][i], bit[j][i]>>
          /\ byte[j][i] \in 0..(B - 1) /\ byte[j][i] \notin H /\ bit[j][i] \in 0..7
      BY DEF Places
    <3>2. QED
      BY <3>1 DEF Everything
  <2>3. QED
    BY <2>1, <2>2
<1>2. KeptApart(N, n, s, qp, cp, H)
  BY <1>1 DEF KeptApart, Grouped
<1>3. ASSUME NEW x \in Everything(B), x \notin H \X (0..7)
      PROVE  \E j \in Elements(N), i \in Bits(n) : x = qp[j][i]
  <2>1. PICK b \in 0..(B - 1), h \in 0..7 : x = <<b, h>>
    BY DEF Everything
  <2>2. b \notin H
    BY <1>3, <2>1
  <2>3. PICK j \in Elements(N), i \in Bits(n) : b = byte[j][i] /\ h = bit[j][i]
    BY <2>2 DEF Filled
  <2>4. qp[j][i] = <<b, h>>
    BY <2>3 DEF Places
  <2>5. QED
    BY <2>1, <2>4
<1>4. H \subseteq 0..(B - 1)
  BY DEF Places
<1>5. Covers(B, N, n, s, qp, cp, H)
  BY <1>1, <1>3, <1>4 DEF Covers
<1>6. QED
  BY <1>2, <1>5

NoCode(N) == [j \in Elements(N) |-> {}]

Paired(N, n, byte, bit) == [j \in Elements(N) |-> [i \in Bits(n) |-> <<byte[j][i], bit[j][i]>>]]

(* The elements of a format without codes, as words at their places. *)
Unscaled(y, N, m, n, H, word, byte, bit) ==
  /\ DOMAIN y = Elements(N)
  /\ \A j \in Elements(N) :
       /\ y[j] = Element(word[j], NoBits, NoBits, H)
       /\ IsWord(word[j], m, n, Paired(N, n, byte, bit)[j])

(* A format whose words are at its places, without codes. *)
LEMMA UnscaledApart ==
  ASSUME NEW B \in Nat, NEW N \in Nat, N > 0, NEW m, NEW n \in Nat, NEW s \in Nat, NEW H,
         NEW y, NEW word, NEW byte, NEW bit, Unscaled(y, N, m, n, H, word, byte, bit),
         Places(B, N, n, H, Paired(N, n, byte, bit), byte, bit), Filled(B, N, n, H, byte, bit),
         Grouped(N, s)
  PROVE  TakenApart(y, <<B, n, s>>)
<1> DEFINE qp == Paired(N, n, byte, bit)
           cp == NoCode(N)
<1>1. \A j \in Elements(N) : cp[j] = {}
  BY DEF NoCode
<1> HIDE DEF cp, qp
<1>2. \A j \in Elements(N) : /\ y[j].q = word[j] /\ y[j].scale = NoBits /\ y[j].min = NoBits
                             /\ y[j].half = H /\ Labels(word[j]) = Marks(qp[j], n)
  BY WordLabels DEF Unscaled, Element, qp
<1>3. Reads(y, N, n, qp, cp, H)
  BY <1>1, <1>2, NoLabels DEF Reads, Unscaled
<1>4. KeptApart(N, n, s, qp, cp, H) /\ Covers(B, N, n, s, qp, cp, H)
  BY <1>1, NoCodes DEF qp
<1>5. QED
  BY <1>3, <1>4, TakesApart

(* A nibble of a byte, as a word of four bits. *)
LEMMA NibbleWord ==
  ASSUME NEW k \in Nat, NEW u \in {0, 1}, NEW p, \A i \in Bits(4) : p[i] = <<k, i + 4 * u>>
  PROVE  IsWord(IF u = 0 THEN And(Byte(k), Low) ELSE Shr(Byte(k), 4), 8, 4, p)
<1>1. /\ Bits(8) = 0..7 /\ \A i \in 0..7 : i < 4 <=> i \in Bits(4)
      /\ \A i \in Bits(4) : i \in 0..7 /\ i + 4 * 0 = i /\ 4 * 1 = 4
  BY DEF Bits
<1>2. \A i : <<k, i>> # Off
  BY DEF Off
<1> DEFINE low == And(Byte(k), Low)
           high == Shr(Byte(k), 4)
<1>3. /\ DOMAIN low = 0..7 /\ DOMAIN high = 0..7
      /\ \A i \in 0..7 : low[i] = IF i < 4 THEN <<k, i>> ELSE Off
      /\ \A i \in 0..7 : high[i] = IF i < 4 THEN <<k, i + 4>> ELSE Off
  BY Nibbles
<1> HIDE DEF low, high
<1>4. CASE u = 0
  <2>1. \A i \in Bits(4) : p[i] = <<k, i>>
    BY <1>1, <1>4
  <2>2. IsWord(low, 8, 4, p)
    <3>1. ASSUME NEW i \in Bits(4) PROVE i \in Bits(8) /\ low[i] = p[i] /\ p[i] # Off
      <4>1. i \in 0..7 /\ i < 4
        BY <1>1
      <4>2. low[i] = <<k, i>>
        BY <1>3, <4>1
      <4>3. QED
        BY <1>1, <1>2, <2>1, <4>1, <4>2
    <3>2. \A i \in Bits(8) : i \in Bits(4) \/ low[i] = Off
      BY <1>1, <1>3
    <3>3. QED
      BY <1>1, <1>3, <3>1, <3>2 DEF IsWord
  <2>3. QED
    BY <1>4, <2>2 DEF low
<1>5. CASE u = 1
  <2>1. \A i \in Bits(4) : p[i] = <<k, i + 4>>
    BY <1>1, <1>5
  <2>2. IsWord(high, 8, 4, p)
    BY <1>1, <1>2, <1>3, <2>1 DEF IsWord
  <2>3. QED
    BY <1>5, <2>2 DEF high
<1>6. QED
  BY <1>4, <1>5

----------------------------------------------------------------------------
(* f32: bit i of the word is bit i % 8 of byte i \div 8. *)
F32Byte == [j \in Elements(1) |-> [i \in Bits(32) |-> i \div 8]]
F32Bit == [j \in Elements(1) |-> [i \in Bits(32) |-> i % 8]]

(* dequant_f32 takes its block apart. *)
LEMMA F32Apart == TakenApart(dequant_f32(Block(4)), Formats["F32"])
<1> DEFINE y == dequant_f32(Block(4))
           qp == Paired(1, 32, F32Byte, F32Bit)
           word == [j \in Elements(1) |-> u32_from_le_bytes(Block(4))]
<1>1. (\A j \in Elements(1) : j = 0) /\ Grouped(1, 1)
  BY DEF Elements, Grouped
<1>2. \A j \in Elements(1), i \in Bits(32) :
        /\ F32Byte[j][i] = i \div 8 /\ F32Bit[j][i] = i % 8
        /\ qp[j][i] = <<i \div 8, i % 8>>
  BY DEF F32Byte, F32Bit, Paired
<1>3. \A i \in Bits(32) : i \div 8 \in 0..3 /\ i % 8 \in 0..7 /\ i = 8 * (i \div 8) + (i % 8)
  BY DEF Bits
<1>4. Unscaled(y, 1, 32, 32, {}, word, F32Byte, F32Bit)
  <2>1. DOMAIN y = Elements(1) /\ \A j \in Elements(1) : y[j] = Element(word[j], NoBits, NoBits, {})
    BY <1>1 DEF dequant_f32, Elements
  <2>2. ASSUME NEW j \in Elements(1) PROVE IsWord(word[j], 32, 32, qp[j])
    <3> DEFINE w == u32_from_le_bytes(Block(4))
    <3>1. DOMAIN w = Bits(32) /\ word[j] = w
      BY DEF u32_from_le_bytes, Bits
    <3>2. ASSUME NEW i \in Bits(32) PROVE w[i] = <<i \div 8, i % 8>>
      <4>1. Block(4)[i \div 8] = Byte(i \div 8) /\ i \in 0..31
        BY <1>3, BlockIs DEF Bits
      <4>2. QED
        BY <1>3, <4>1 DEF u32_from_le_bytes, Byte
    <3>3. \A i \in Bits(32) : <<i \div 8, i % 8>> # Off
      BY <1>3 DEF Off
    <3> HIDE DEF w, word, qp
    <3>4. QED
      BY <1>2, <3>1, <3>2, <3>3 DEF IsWord
  <2> HIDE DEF y, word
  <2>3. QED
    BY <2>1, <2>2 DEF Unscaled
<1> HIDE DEF y, word, qp
<1>5. Places(4, 1, 32, {}, qp, F32Byte, F32Bit)
  <2>1. ASSUME NEW j \in Elements(1), NEW k \in Elements(1), NEW i \in Bits(32), NEW h \in Bits(32),
               F32Byte[j][i] = F32Byte[k][h], F32Bit[j][i] = F32Bit[k][h]
        PROVE  j = k /\ i = h
    <3>1. i \div 8 = h \div 8 /\ i % 8 = h % 8
      BY <1>2, <2>1
    <3>2. i = h
      BY <1>3, <3>1
    <3>3. QED
      BY <1>1, <3>2
  <2>2. QED
    BY <1>2, <1>3, <2>1 DEF Places
<1>6. Filled(4, 1, 32, {}, F32Byte, F32Bit)
  <2> SUFFICES ASSUME NEW b \in 0..(4 - 1), NEW i \in 0..7
               PROVE  \E j \in Elements(1), h \in Bits(32) : b = F32Byte[j][h] /\ i = F32Bit[j][h]
    BY DEF Filled
  <2>1. 8 * b + i \in Bits(32) /\ (8 * b + i) \div 8 = b /\ (8 * b + i) % 8 = i
    BY DEF Bits
  <2>2. 0 \in Elements(1)
    BY DEF Elements
  <2>3. QED
    BY <1>2, <2>1, <2>2
<1>7. TakenApart(y, <<4, 32, 1>>)
  BY <1>1, <1>4, <1>5, <1>6, UnscaledApart DEF qp
<1>8. QED
  BY <1>7 DEF y, Formats

(* q8_0: a byte each, after the half. *)
Q8Byte == [j \in Elements(32) |-> [i \in Bits(8) |-> 2 + j]]
Q8Bit == [j \in Elements(32) |-> [i \in Bits(8) |-> i]]

(* dequant_q8_0 takes its block apart. *)
LEMMA Q8Apart == TakenApart(dequant_q8_0(Block(34)), Formats["Q8_0"])
<1> DEFINE y == dequant_q8_0(Block(34))
           qp == Paired(32, 8, Q8Byte, Q8Bit)
           word == [j \in Elements(32) |-> Block(34)[2 + j]]
<1>1. Grouped(32, 32) /\ \A j \in Elements(32) : j \in Int /\ 0 <= j /\ j <= 31
  BY DEF Elements, Grouped
<1>2. \A j \in Elements(32), i \in Bits(8) :
        Q8Byte[j][i] = 2 + j /\ Q8Bit[j][i] = i /\ qp[j][i] = <<2 + j, i>>
  BY DEF Q8Byte, Q8Bit, Paired
<1>3. \A i : i \in Bits(8) <=> i \in 0..7
  BY DEF Bits
<1>4. Unscaled(y, 32, 8, 8, {0, 1}, word, Q8Byte, Q8Bit)
  <2>1. DOMAIN y = Elements(32) /\ \A j \in Elements(32) : y[j] = Element(word[j], NoBits, NoBits, {0, 1})
    BY DEF dequant_q8_0, Elements
  <2>2. ASSUME NEW j \in Elements(32) PROVE IsWord(word[j], 8, 8, qp[j])
    <3>1. word[j] = Byte(2 + j)
      BY <1>1, BlockIs
    <3>2. \A i \in Bits(8) : <<2 + j, i>> # Off
      BY <1>1 DEF Off
    <3>3. DOMAIN Byte(2 + j) = Bits(8) /\ \A i \in Bits(8) : Byte(2 + j)[i] = <<2 + j, i>>
      BY DEF Byte, Bits
    <3> HIDE DEF word, qp
    <3>4. QED
      BY <1>2, <3>1, <3>2, <3>3 DEF IsWord
  <2> HIDE DEF y, word
  <2>3. QED
    BY <2>1, <2>2 DEF Unscaled
<1> HIDE DEF y, word, qp
<1>5. Places(34, 32, 8, {0, 1}, qp, Q8Byte, Q8Bit)
  BY <1>1, <1>2, <1>3 DEF Places
<1>6. Filled(34, 32, 8, {0, 1}, Q8Byte, Q8Bit)
  <2> SUFFICES ASSUME NEW b \in 0..(34 - 1), NEW i \in 0..7, b \notin {0, 1}
               PROVE  \E j \in Elements(32), h \in Bits(8) : b = Q8Byte[j][h] /\ i = Q8Bit[j][h]
    BY DEF Filled
  <2>1. b - 2 \in Elements(32) /\ 2 + (b - 2) = b
    BY DEF Elements
  <2>2. QED
    BY <1>2, <1>3, <2>1
<1>7. TakenApart(y, <<34, 8, 32>>)
  BY <1>1, <1>4, <1>5, <1>6, UnscaledApart DEF qp
<1>8. QED
  BY <1>7 DEF y, Formats

(* Packed u4: two to a byte, the low nibble first. *)
U4Byte == [j \in Elements(8) |-> [i \in Bits(4) |-> j \div 2]]
U4Bit == [j \in Elements(8) |-> [i \in Bits(4) |-> i + 4 * (j % 2)]]

(* The packed u4 carrier takes its block apart. *)
LEMMA U4Apart == TakenApart(packed_u4_dequantize(Block(4)), Formats["U4"])
<1> DEFINE y == packed_u4_dequantize(Block(4))
           qp == Paired(8, 4, U4Byte, U4Bit)
           word == [j \in Elements(8) |-> extract_in_bounds(Block(4), j)]
<1>1. Grouped(8, 8) /\ \A j \in Elements(8) : /\ j \div 2 \in 0..3 /\ (j % 2 = 0 \/ j % 2 = 1)
                                              /\ j = 2 * (j \div 2) + (j % 2)
  BY DEF Elements, Grouped
<1>2. \A j \in Elements(8), i \in Bits(4) :
        /\ U4Byte[j][i] = j \div 2 /\ U4Bit[j][i] = i + 4 * (j % 2)
        /\ qp[j][i] = <<j \div 2, i + 4 * (j % 2)>>
  BY DEF U4Byte, U4Bit, Paired
<1>3. /\ \A i \in Bits(4) : i \in 0..7 /\ i + 4 \in 0..7 /\ i < 4
      /\ \A i \in 0..7 : i < 4 => i \in Bits(4)
      /\ \A i \in 0..7 : i >= 4 => i - 4 \in Bits(4)
      /\ Bits(8) = 0..7
  BY DEF Bits
<1>4. Unscaled(y, 8, 8, 4, {}, word, U4Byte, U4Bit)
  <2>1. DOMAIN y = Elements(8) /\ \A j \in Elements(8) : y[j] = Element(word[j], NoBits, NoBits, {})
    BY DEF packed_u4_dequantize, Elements
  <2>2. ASSUME NEW j \in Elements(8) PROVE IsWord(word[j], 8, 4, qp[j])
    <3> DEFINE b == Byte(j \div 2)
               w == IF j % 2 = 0 THEN And(b, Low) ELSE Shr(b, 4)
    <3>1. word[j] = w
      <4>1. Block(4)[j \div 2] = b
        BY <1>1, BlockIs
      <4>2. QED
        BY <4>1 DEF extract_in_bounds
    <3>2. j \div 2 \in Nat /\ j % 2 \in {0, 1}
      BY <1>1
    <3> HIDE DEF word, qp
    <3> DEFINE p == qp[j]
    <3>3. \A i \in Bits(4) : p[i] = <<j \div 2, i + 4 * (j % 2)>>
      BY <1>2
    <3> HIDE DEF p
    <3>4. QED
      BY <3>1, <3>2, <3>3, NibbleWord DEF p
  <2> HIDE DEF y, word
  <2>3. QED
    BY <2>1, <2>2 DEF Unscaled
<1> HIDE DEF y, word, qp
<1>5. Places(4, 8, 4, {}, qp, U4Byte, U4Bit)
  <2>1. ASSUME NEW j \in Elements(8), NEW k \in Elements(8), NEW i \in Bits(4), NEW h \in Bits(4),
               U4Byte[j][i] = U4Byte[k][h], U4Bit[j][i] = U4Bit[k][h]
        PROVE  j = k /\ i = h
    <3>1. j \div 2 = k \div 2 /\ i + 4 * (j % 2) = h + 4 * (k % 2)
      BY <1>2, <2>1
    <3>2. j % 2 = k % 2 /\ i = h
      BY <1>1, <1>3, <3>1
    <3>3. QED
      BY <1>1, <3>1, <3>2
  <2>2. \A j \in Elements(8), i \in Bits(4) : U4Bit[j][i] \in 0..7 /\ U4Byte[j][i] \in 0..3
    BY <1>1, <1>2, <1>3
  <2>3. QED
    BY <1>2, <2>1, <2>2 DEF Places
<1>6. Filled(4, 8, 4, {}, U4Byte, U4Bit)
  <2> SUFFICES ASSUME NEW b \in 0..(4 - 1), NEW i \in 0..7
               PROVE  \E j \in Elements(8), h \in Bits(4) : b = U4Byte[j][h] /\ i = U4Bit[j][h]
    BY DEF Filled
  <2>1. /\ 2 * b \in Elements(8) /\ (2 * b) \div 2 = b /\ (2 * b) % 2 = 0
        /\ 2 * b + 1 \in Elements(8) /\ (2 * b + 1) \div 2 = b /\ (2 * b + 1) % 2 = 1
    BY DEF Elements
  <2>2. CASE i < 4
    <3>1. i \in Bits(4) /\ i + 4 * 0 = i
      BY <1>3, <2>2
    <3>2. QED
      BY <1>2, <2>1, <3>1
  <2>3. CASE i >= 4
    <3>1. i - 4 \in Bits(4) /\ (i - 4) + 4 * 1 = i
      BY <1>3, <2>3
    <3>2. QED
      BY <1>2, <2>1, <3>1
  <2>4. QED
    BY <2>2, <2>3
<1>7. TakenApart(y, <<4, 4, 8>>)
  BY <1>1, <1>4, <1>5, <1>6, UnscaledApart DEF qp
<1>8. QED
  BY <1>7 DEF y, Formats

(* The lower four bits of an element come of a nibble, the upper ones of   *)
(* a byte of their own.                                                    *)
JoinOf(n, p, k, u, b, c) == \A i \in Bits(n) : p[i] = IF i < 4 THEN <<k, i + 4 * u>> ELSE <<b, c[i]>>
NibbleOf(q, k, u) == q = IF u = 0 THEN And(Byte(k), Low) ELSE Shr(Byte(k), 4)
UpperOf(n, x, b, c) == \A i \in 0..7 : x[i] = IF 4 <= i /\ i < n THEN <<b, c[i]>> ELSE Off

(* A nibble q and a word x of the bits from 4 on, put together. *)
LEMMA JoinedWord ==
  ASSUME NEW n \in {5, 6}, NEW k \in Nat, NEW u \in {0, 1}, NEW b \in Nat, NEW c, NEW p, NEW q, NEW x,
         JoinOf(n, p, k, u, b, c), NibbleOf(q, k, u), UpperOf(n, x, b, c)
  PROVE  IsWord(Or(q, x), 8, n, p)
<1> USE DEF JoinOf, NibbleOf, UpperOf
<1> DEFINE r == [i \in Bits(4) |-> <<k, i + 4 * u>>]
<1>1. /\ Bits(8) = 0..7 /\ \A i \in 0..7 : i < 4 <=> i \in Bits(4)
      /\ \A i \in 0..7 : i \in Bits(n) <=> i < n
      /\ \A i \in Bits(n) : i \in 0..7 /\ (i < 4 \/ (4 <= i /\ i < n))
      /\ \A i \in Bits(4) : i \in Bits(n) /\ i \in 0..7
  BY DEF Bits
<1>2. \A i : <<k, i>> # Off /\ <<b, i>> # Off
  BY DEF Off
<1>3. \A i \in Bits(4) : r[i] = <<k, i + 4 * u>>
  OBVIOUS
<1> HIDE DEF r
<1>4. IsWord(q, 8, 4, r)
  BY <1>3, NibbleWord
<1>5. DOMAIN q = 0..7 /\ (\A i \in Bits(4) : q[i] = r[i]) /\ \A i \in 0..7 : i \in Bits(4) \/ q[i] = Off
  BY <1>1, <1>4 DEF IsWord
<1>6. DOMAIN Or(q, x) = 0..7 /\ \A i \in 0..7 : Or(q, x)[i] = IF q[i] = Off THEN x[i] ELSE q[i]
  BY <1>5 DEF Or
<1> DEFINE w == Or(q, x)
<1> HIDE DEF w
<1>7. \A i \in Bits(4) : w[i] = p[i] /\ p[i] # Off
  <2> SUFFICES ASSUME NEW i \in Bits(4) PROVE w[i] = p[i] /\ p[i] # Off
    OBVIOUS
  <2>1. i \in Bits(n) /\ i \in 0..7 /\ i < 4
    BY <1>1
  <2>2. p[i] = <<k, i + 4 * u>>
    BY <2>1
  <2>3. q[i] = <<k, i + 4 * u>>
    BY <1>3, <1>5
  <2>4. w[i] = <<k, i + 4 * u>>
    BY <1>2, <1>6, <2>1, <2>3 DEF w
  <2>5. QED
    BY <1>2, <2>2, <2>4
<1>8. \A i \in 0..7 : ~(i < 4) => w[i] = x[i]
  BY <1>1, <1>5, <1>6 DEF w
<1>9. ASSUME NEW i \in Bits(8) PROVE i \in Bits(n) \/ w[i] = Off
  BY <1>1, <1>8
<1>10. ASSUME NEW i \in Bits(n) PROVE i \in Bits(8) /\ w[i] = p[i] /\ p[i] # Off
  <2>1. CASE i < 4
    BY <1>1, <1>7, <2>1
  <2>2. CASE 4 <= i /\ i < n
    <3>1. w[i] = <<b, c[i]>> /\ ~(i < 4) /\ i \in 0..7
      BY <1>1, <1>8, <2>2
    <3>2. QED
      BY <1>1, <1>2, <3>1
  <2>3. QED
    BY <1>1, <2>1, <2>2
<1>11. QED
  BY <1>1, <1>6, <1>9, <1>10 DEF IsWord, w

(* The two bits of byte b from bit d, and its two highest, put at 4. *)
LEMMA TwoBits ==
  ASSUME NEW b \in Nat, NEW d \in Nat, d + 1 <= 7
  PROVE  \A i \in 0..7 : Shl(And(Shr(Byte(b), d), {0, 1}), 4)[i]
                          = IF 4 <= i /\ i < 6 THEN <<b, d + (i - 4)>> ELSE Off
<1> DEFINE v == Shr(Byte(b), d)
<1>1. DOMAIN v = 0..7 /\ \A i \in 0..7 : v[i] = IF i + d <= 7 THEN <<b, i + d>> ELSE Off
  BY DEF Byte, Shr
<1> HIDE DEF v
<1> DEFINE w == And(v, {0, 1})
<1>2. DOMAIN w = 0..7 /\ \A i \in 0..7 : w[i] = IF i < 2 THEN <<b, d + i>> ELSE Off
  BY <1>1 DEF And
<1> HIDE DEF w
<1>3. \A i \in 0..7 : Shl(w, 4)[i] = IF 4 <= i /\ i < 6 THEN <<b, d + (i - 4)>> ELSE Off
  BY <1>2 DEF Shl
<1>4. QED
  BY <1>3 DEF v, w

(* The two highest bits of byte b, put at 4. *)
LEMMA TopBits ==
  ASSUME NEW b \in Nat
  PROVE  \A i \in 0..7 : Shl(Shr(Byte(b), 6), 4)[i] = IF 4 <= i /\ i < 6 THEN <<b, i + 2>> ELSE Off
<1> DEFINE v == Shr(Byte(b), 6)
<1>1. DOMAIN v = 0..7 /\ \A i \in 0..7 : v[i] = IF i < 2 THEN <<b, i + 6>> ELSE Off
  BY DEF Byte, Shr
<1> HIDE DEF v
<1>2. \A i \in 0..7 : Shl(v, 4)[i] = IF 4 <= i /\ i < 6 THEN <<b, i + 2>> ELSE Off
  BY <1>1 DEF Shl
<1>3. QED
  BY <1>2 DEF v

(* q5_0: four bits in a nibble, the fifth in a word of its own. *)
Q5Byte == [j \in Elements(32) |-> [i \in Bits(5) |-> IF i = 4 THEN 2 + j \div 8 ELSE 6 + (j % 16)]]
Q5Bit == [j \in Elements(32) |-> [i \in Bits(5) |-> IF i = 4 THEN j % 8 ELSE i + 4 * (j \div 16)]]

(* The word of fifth bits, read where each element wants it. *)
LEMMA FifthBits ==
  ASSUME NEW j \in 0..31
  PROVE  LET qh == u32_from_le_bytes(Bytes(Block(22), 2, 6))
             bit == <<2 + j \div 8, j % 8>>
         IN  /\ j < 16 => \A i \in 0..7 : as_u8(And(Shl(Shr(qh, j), 4), {4}))[i] = IF i = 4 THEN bit ELSE Off
             /\ j >= 16 => \A i \in 0..7 : as_u8(And(Shr(qh, (j - 16) + 12), {4}))[i] = IF i = 4 THEN bit ELSE Off
<1> DEFINE qh == u32_from_le_bytes(Bytes(Block(22), 2, 6))
<1>1. \A k \in 0..3 : Bytes(Block(22), 2, 6)[k] = Byte(2 + k)
  BY BytesAre
<1>2. \A i \in 0..31 : i \div 8 \in 0..3 /\ i % 8 \in 0..7
  OBVIOUS
<1>3. DOMAIN qh = 0..31 /\ \A i \in 0..31 : qh[i] = <<2 + i \div 8, i % 8>>
  BY <1>1, <1>2 DEF u32_from_le_bytes, Byte
<1> HIDE DEF qh
<1> DEFINE down == Shr(qh, j)
<1>4. DOMAIN down = 0..31 /\ down[0] = qh[j]
  BY <1>3 DEF Shr
<1> HIDE DEF down
<1> DEFINE up == Shl(down, 4)
<1>5. DOMAIN up = 0..31 /\ up[4] = qh[j]
  BY <1>4 DEF Shl
<1> HIDE DEF up
<1>6. \A i \in 0..7 : as_u8(And(up, {4}))[i] = IF i = 4 THEN qh[j] ELSE Off
  BY <1>5 DEF And, as_u8
<1> DEFINE across == Shr(qh, (j - 16) + 12)
<1>7. j >= 16 => DOMAIN across = 0..31 /\ across[4] = qh[j]
  BY <1>3 DEF Shr
<1> HIDE DEF across
<1>8. j >= 16 => \A i \in 0..7 : as_u8(And(across, {4}))[i] = IF i = 4 THEN qh[j] ELSE Off
  BY <1>7 DEF And, as_u8
<1>9. QED
  BY <1>3, <1>6, <1>8 DEF up, down, across, qh

(* dequant_q5_0 takes its block apart: the fifth bits of the first sixteen *)
(* elements go by the left shift, the others by the right one.             *)
LEMMA Q5Apart == TakenApart(dequant_q5_0(Block(22)), Formats["Q5_0"])
<1> DEFINE y == dequant_q5_0(Block(22))
           qp == Paired(32, 5, Q5Byte, Q5Bit)
           qh == u32_from_le_bytes(Bytes(Block(22), 2, 6))
           qs == Bytes(Block(22), 6, 22)
           word == [j \in Elements(32) |->
                      IF j < 16 THEN Or(And(qs[j], Low), as_u8(And(Shl(Shr(qh, j), 4), {4})))
                      ELSE Or(Shr(qs[j - 16], 4), as_u8(And(Shr(qh, (j - 16) + 12), {4})))]
<1>1. Grouped(32, 32) /\ \A j \in Elements(32) :
        /\ j \in 0..31 /\ j \div 8 \in 0..3 /\ j % 8 \in 0..7 /\ j % 16 \in 0..15
        /\ j = 8 * (j \div 8) + (j % 8) /\ j = 16 * (j \div 16) + (j % 16)
        /\ (j < 16 /\ j \div 16 = 0) \/ (j >= 16 /\ j \div 16 = 1)
  BY DEF Elements, Grouped
<1>2. \A j \in Elements(32), i \in Bits(5) :
        /\ Q5Byte[j][i] = IF i = 4 THEN 2 + j \div 8 ELSE 6 + (j % 16)
        /\ Q5Bit[j][i] = IF i = 4 THEN j % 8 ELSE i + 4 * (j \div 16)
        /\ qp[j][i] = <<Q5Byte[j][i], Q5Bit[j][i]>>
  BY DEF Q5Byte, Q5Bit, Paired
<1>3. /\ \A i \in Bits(5) : i = 4 \/ (i \in 0..3 /\ i # 4)
      /\ 4 \in Bits(5) /\ \A i \in 0..3 : i \in Bits(5)
  BY DEF Bits
<1>4. Unscaled(y, 32, 8, 5, {0, 1}, word, Q5Byte, Q5Bit)
  <2>1. DOMAIN y = Elements(32) /\ \A j \in Elements(32) : y[j] = Element(word[j], NoBits, NoBits, {0, 1})
    BY DEF dequant_q5_0, Elements
  <2>2. ASSUME NEW j \in Elements(32) PROVE IsWord(word[j], 8, 5, qp[j])
    <3> DEFINE k == 6 + (j % 16)
               u == j \div 16
               q == IF u = 0 THEN And(Byte(k), Low) ELSE Shr(Byte(k), 4)
               x == IF j < 16 THEN as_u8(And(Shl(Shr(qh, j), 4), {4}))
                    ELSE as_u8(And(Shr(qh, (j - 16) + 12), {4}))
               p == qp[j]
    <3>1. j % 16 = IF j < 16 THEN j ELSE j - 16
      BY <1>1
    <3>2. \A l \in 0..15 : qs[l] = Byte(6 + l)
      BY BytesAre
    <3>3. word[j] = Or(q, x)
      <4> HIDE DEF qs, qh
      <4>1. CASE j < 16
        BY <1>1, <3>1, <3>2, <4>1
      <4>2. CASE j >= 16
        BY <1>1, <3>1, <3>2, <4>2
      <4>3. QED
        BY <1>1, <4>1, <4>2
    <3>4. \A i \in 0..7 : x[i] = IF i = 4 THEN <<2 + j \div 8, j % 8>> ELSE Off
      <4>1. j \in 0..31
        BY <1>1
      <4> DEFINE low == as_u8(And(Shl(Shr(qh, j), 4), {4}))
                 high == as_u8(And(Shr(qh, (j - 16) + 12), {4}))
      <4>2. /\ j < 16 => \A i \in 0..7 : low[i] = IF i = 4 THEN <<2 + j \div 8, j % 8>> ELSE Off
            /\ j >= 16 => \A i \in 0..7 : high[i] = IF i = 4 THEN <<2 + j \div 8, j % 8>> ELSE Off
        BY <4>1, FifthBits
      <4>3. x = IF j < 16 THEN low ELSE high
        OBVIOUS
      <4> HIDE DEF low, high, x
      <4>4. j < 16 \/ j >= 16
        BY <1>1
      <4>5. CASE j < 16
        BY <4>2, <4>3, <4>5
      <4>6. CASE j >= 16
        <5>1. x = high
          BY <1>1, <4>3, <4>6
        <5>2. QED
          BY <4>2, <4>6, <5>1
      <4>7. QED
        BY <4>4, <4>5, <4>6
    <3> HIDE DEF qp, q, x
    <3> DEFINE b == 2 + j \div 8
               c == [i \in {4} |-> j % 8]
    <3>5. \A i \in Bits(5) : p[i] = IF i < 4 THEN <<k, i + 4 * u>> ELSE <<b, c[i]>>
      BY <1>2, <1>3
    <3>6. k \in Nat /\ u \in {0, 1} /\ b \in Nat
      BY <1>1
    <3>7. q = IF u = 0 THEN And(Byte(k), Low) ELSE Shr(Byte(k), 4)
      BY DEF q
    <3>8. \A i \in 0..7 : x[i] = IF 4 <= i /\ i < 5 THEN <<b, c[i]>> ELSE Off
      BY <3>4
    <3> HIDE DEF p, k, u, b, c
    <3>9. IsWord(Or(q, x), 8, 5, p)
      <4>1. JoinOf(5, p, k, u, b, c) /\ NibbleOf(q, k, u) /\ UpperOf(5, x, b, c)
        BY <3>5, <3>7, <3>8 DEF JoinOf, NibbleOf, UpperOf
      <4>2. QED
        BY <3>6, <4>1, JoinedWord
    <3>10. QED
      BY <3>3, <3>9 DEF p
  <2> HIDE DEF y, word, qs, qh
  <2>3. QED
    BY <2>1, <2>2 DEF Unscaled
<1> HIDE DEF y, word, qp
<1>5. Places(22, 32, 5, {0, 1}, qp, Q5Byte, Q5Bit)
  <2>1. ASSUME NEW j \in Elements(32), NEW k \in Elements(32), NEW i \in Bits(5), NEW h \in Bits(5),
               Q5Byte[j][i] = Q5Byte[k][h], Q5Bit[j][i] = Q5Bit[k][h]
        PROVE  j = k /\ i = h
    <3>1. CASE i = 4 /\ h = 4
      <4>1. j \div 8 = k \div 8 /\ j % 8 = k % 8
        BY <1>1, <1>2, <2>1, <3>1
      <4>2. QED
        BY <1>1, <3>1, <4>1
    <3>2. CASE i # 4 /\ h # 4
      <4>1. j % 16 = k % 16 /\ i + 4 * (j \div 16) = h + 4 * (k \div 16) /\ i \in 0..3 /\ h \in 0..3
        BY <1>1, <1>2, <1>3, <2>1, <3>2
      <4>2. /\ j \div 16 = 0 \/ j \div 16 = 1
            /\ k \div 16 = 0 \/ k \div 16 = 1
        BY <1>1
      <4>3. j \div 16 = k \div 16 /\ i = h
        BY <4>1, <4>2
      <4>4. QED
        BY <1>1, <4>1, <4>3
    <3>3. CASE (i = 4) # (h = 4)
      BY <1>1, <1>2, <2>1, <3>3
    <3>4. QED
      BY <3>1, <3>2, <3>3
  <2>2. ASSUME NEW j \in Elements(32), NEW i \in Bits(5)
        PROVE  Q5Byte[j][i] \in 2..21 /\ Q5Bit[j][i] \in 0..7
    BY <1>1, <1>2, <1>3
  <2>3. \A b \in 2..21 : b \in 0..(22 - 1) /\ b \notin {0, 1}
    OBVIOUS
  <2>4. QED
    BY <1>2, <2>1, <2>2, <2>3 DEF Places
<1>6. Filled(22, 32, 5, {0, 1}, Q5Byte, Q5Bit)
  <2> SUFFICES ASSUME NEW b \in 0..(22 - 1), NEW i \in 0..7, b \notin {0, 1}
               PROVE  \E j \in Elements(32), h \in Bits(5) : b = Q5Byte[j][h] /\ i = Q5Bit[j][h]
    BY DEF Filled
  <2>1. CASE b < 6
    <3>1. LET j == 8 * (b - 2) + i IN j \in Elements(32) /\ j \div 8 = b - 2 /\ j % 8 = i
      BY <2>1 DEF Elements
    <3>2. QED
      BY <1>2, <1>3, <3>1
  <2>2. CASE b >= 6 /\ i < 4
    <3>1. b - 6 \in Elements(32) /\ (b - 6) % 16 = b - 6 /\ (b - 6) \div 16 = 0 /\ i \in Bits(5) /\ i # 4
      BY <1>3, <2>2 DEF Elements
    <3>2. QED
      BY <1>2, <3>1
  <2>3. CASE b >= 6 /\ i >= 4
    <3>1. /\ b + 10 \in Elements(32) /\ (b + 10) % 16 = b - 6 /\ (b + 10) \div 16 = 1
          /\ i - 4 \in Bits(5) /\ i - 4 # 4
      BY <1>3, <2>3 DEF Elements
    <3>2. QED
      BY <1>2, <3>1
  <2>4. QED
    BY <2>1, <2>2, <2>3
<1>7. TakenApart(y, <<22, 5, 32>>)
  BY <1>1, <1>4, <1>5, <1>6, UnscaledApart DEF qp
<1>8. QED
  BY <1>7 DEF y, Formats

----------------------------------------------------------------------------
(* Formats with codes: the bits of the bytes C, each of one group of s     *)
(* elements, the bits own[x] says.                                         *)
Owned(C, own, g) == {x \in C \X (0..7) : own[x] = g}

GroupsOf(N, s) ==
  \A j \in Elements(N) : /\ (j \div s) * s \in Elements(N) /\ ((j \div s) * s) \div s = j \div s
                         /\ j % s = 0 => j = (j \div s) * s
OwnedBy(N, s, C, own) ==
  \A x \in C \X (0..7) : /\ own[x] * s \in Elements(N) /\ (own[x] * s) \div s = own[x]
                         /\ (own[x] * s) % s = 0

Scaled(y, N, m, n, s, H, C, word, byte, bit, own) ==
  /\ DOMAIN y = Elements(N)
  /\ \A j \in Elements(N) :
       /\ y[j].q = word[j] /\ y[j].half = H
       /\ IsWord(word[j], m, n, Paired(N, n, byte, bit)[j])
       /\ Labels(y[j].scale) \cup Labels(y[j].min) = Owned(C, own, j \div s)
       /\ Labels(y[j].scale) \cap Labels(y[j].min) = {}

(* A format whose words are at its places and whose codes are owned. *)
LEMMA ScaledApart ==
  ASSUME NEW B \in Nat, NEW N \in Nat, N > 0, NEW m, NEW n \in Nat, NEW s \in Nat, NEW H, NEW C,
         NEW y, NEW word, NEW byte, NEW bit, NEW own,
         Scaled(y, N, m, n, s, H, C, word, byte, bit, own),
         Places(B, N, n, H \cup C, Paired(N, n, byte, bit), byte, bit),
         Filled(B, N, n, H \cup C, byte, bit), H \cap C = {},
         GroupsOf(N, s), OwnedBy(N, s, C, own)
  PROVE  TakenApart(y, <<B, n, s>>)
<1> DEFINE qp == Paired(N, n, byte, bit)
           cp == [j \in Elements(N) |-> Owned(C, own, j \div s)]
           none == NoCode(N)
<1>1. \A j \in Elements(N) : cp[j] = Owned(C, own, j \div s)
  OBVIOUS
<1> HIDE DEF cp, qp
<1>2. \A j \in Elements(N) : Labels(word[j]) = Marks(qp[j], n)
  BY WordLabels DEF Scaled, qp
<1>3. Reads(y, N, n, qp, cp, H)
  BY <1>1, <1>2 DEF Reads, Scaled
<1>4. KeptApart(N, n, s, qp, none, H \cup C) /\ Covers(B, N, n, s, qp, none, H \cup C)
  <2>1. Grouped(N, s)
    BY DEF GroupsOf, Grouped
  <2>2. \A j \in Elements(N) : none[j] = {}
    BY DEF NoCode
  <2> HIDE DEF none
  <2>3. QED
    BY <2>1, <2>2, NoCodes DEF qp
<1>5. /\ \A j \in Elements(N) : none[j] = {}
      /\ \A x : x \in (H \cup C) \X (0..7) <=> x \in H \X (0..7) \/ x \in C \X (0..7)
      /\ \A x \in C \X (0..7) : x \notin H \X (0..7)
  BY DEF NoCode
<1> HIDE DEF none
<1>6. \A j \in Elements(N) : \A x \in cp[j] : x \in C \X (0..7) /\ own[x] = j \div s
  BY <1>1 DEF Owned
<1>7. KeptApart(N, n, s, qp, cp, H)
  <2>1. ASSUME NEW j \in Elements(N)
        PROVE  (j \div s) * s \in Elements(N) /\ cp[j] = cp[(j \div s) * s]
    BY <1>1 DEF GroupsOf
  <2>2. ASSUME NEW j \in Elements(N), NEW k \in Elements(N), j % s = 0, k % s = 0, j # k
        PROVE  cp[j] \cap cp[k] = {}
    <3>1. j \div s # k \div s
      BY <2>2 DEF GroupsOf
    <3>2. QED
      BY <1>6, <3>1
  <2>3. ASSUME NEW j \in Elements(N), NEW k \in Elements(N), NEW i \in Bits(n)
        PROVE  qp[j][i] \notin cp[k] /\ qp[j][i] \notin H \X (0..7)
    <3>1. qp[j][i] \notin (H \cup C) \X (0..7)
      BY <1>4 DEF KeptApart
    <3>2. QED
      BY <1>5, <1>6, <3>1
  <2>4. \A j \in Elements(N) : cp[j] \cap (H \X (0..7)) = {}
    BY <1>5, <1>6
  <2>5. \A j, k \in Elements(N), i, h \in Bits(n) : qp[j][i] = qp[k][h] => j = k /\ i = h
    BY <1>4 DEF KeptApart
  <2>6. QED
    BY <2>1, <2>2, <2>3, <2>4, <2>5 DEF KeptApart
<1>8. Covers(B, N, n, s, qp, cp, H)
  <2>1. H \subseteq 0..(B - 1) /\ C \subseteq 0..(B - 1)
    BY <1>4 DEF Covers
  <2>2. \A j \in Elements(N) : cp[j] \subseteq Everything(B)
    BY <1>6, <2>1 DEF Everything
  <2>3. ASSUME NEW x \in C \X (0..7) PROVE \E j \in Elements(N) : j % s = 0 /\ x \in cp[j]
    <3>1. own[x] * s \in Elements(N) /\ (own[x] * s) \div s = own[x] /\ (own[x] * s) % s = 0
      BY DEF OwnedBy
    <3>2. x \in cp[own[x] * s]
      BY <1>1, <3>1 DEF Owned
    <3>3. QED
      BY <3>1, <3>2
  <2>4. ASSUME NEW x \in Everything(B)
        PROVE  \/ x \in H \X (0..7)
               \/ \E j \in Elements(N), i \in Bits(n) : x = qp[j][i]
               \/ \E j \in Elements(N) : j % s = 0 /\ x \in cp[j]
    <3>1. \/ x \in (H \cup C) \X (0..7)
          \/ \E j \in Elements(N), i \in Bits(n) : x = qp[j][i]
      BY <1>4, <1>5 DEF Covers
    <3>2. CASE x \in (H \cup C) \X (0..7)
      BY <1>5, <2>3, <3>2
    <3>3. QED
      BY <3>1, <3>2
  <2>5. \A j \in Elements(N), i \in Bits(n) : qp[j][i] \in Everything(B)
    BY <1>4 DEF Covers
  <2>6. QED
    BY <2>1, <2>2, <2>4, <2>5 DEF Covers
<1>9. QED
  BY <1>3, <1>7, <1>8, TakesApart

(* q6_k: four bits in a nibble of ql, two in qh.  Element j is number Rest *)
(* of the Part of its Half.                                                *)
Half(j) == j \div 128
Part(j) == (j % 128) \div 32
Rest(j) == j % 32
Odd(j) == Part(j) % 2
Upper(j) == Part(j) \div 2
At(a, part, l) == 128 * a + 32 * part + l
Lower(a, l, c) == 64 * a + l + 32 * c
Placed(r, p, l) == r * p + l
Q6Byte == [j \in Elements(256) |-> [i \in Bits(6) |->
             IF i < 4 THEN 64 * Half(j) + Rest(j) + 32 * Odd(j) ELSE 128 + Placed(32, Half(j), Rest(j))]]
Q6Bit == [j \in Elements(256) |-> [i \in Bits(6) |->
            IF i < 4 THEN i + 4 * Upper(j) ELSE 2 * Part(j) + (i - 4)]]
Q6Code == 192..207
Q6Own == [x \in Q6Code \X (0..7) |-> x[1] - 192]

(* Half, part and rest of element j, and the halves of its part. *)
Digital(j) ==
  /\ Half(j) \in Int /\ 0 <= Half(j) /\ Half(j) <= 1
  /\ Odd(j) \in Int /\ 0 <= Odd(j) /\ Odd(j) <= 1
  /\ Upper(j) \in Int /\ 0 <= Upper(j) /\ Upper(j) <= 1
  /\ Part(j) \in Int /\ 0 <= Part(j) /\ Part(j) <= 3
  /\ Part(j) = 2 * Upper(j) + Odd(j)
  /\ Rest(j) \in Int /\ 0 <= Rest(j) /\ Rest(j) <= 31

(* The half, the part and the rest of an element. *)
LEMMA PartsOf ==
  ASSUME NEW j \in Elements(256)
  PROVE  Digital(j) /\ j = 128 * Half(j) + 32 * Part(j) + Rest(j)
<1>1. j \in Int /\ 0 <= j /\ j <= 255
  BY DEF Elements
<1>2. /\ j = 128 * Half(j) + (j % 128) /\ 0 <= j % 128 /\ j % 128 <= 127 /\ Half(j) \in Int
      /\ Half(j) = 0 \/ Half(j) = 1
  BY <1>1 DEF Half
<1>3. j % 128 = 32 * Part(j) + ((j % 128) % 32) /\ (j % 128) % 32 = Rest(j)
  BY <1>1, <1>2 DEF Part, Rest
<1>4. Rest(j) \in Int /\ 0 <= Rest(j) /\ Rest(j) <= 31
  BY <1>1 DEF Rest
<1>5. Part(j) \in Int /\ 0 <= Part(j) /\ Part(j) <= 3
  BY <1>1, <1>2 DEF Part
<1> DEFINE p == Part(j)
<1> HIDE DEF p
<1>6. p \in Int /\ 0 <= p /\ p <= 3
  BY <1>5 DEF p
<1>7. (p % 2 = 0 \/ p % 2 = 1) /\ (p \div 2 = 0 \/ p \div 2 = 1) /\ p = 2 * (p \div 2) + (p % 2)
  BY <1>6
<1>8. j = 128 * Half(j) + 32 * Part(j) + Rest(j)
  BY <1>2, <1>3, <1>4, <1>5
<1>9. 0 <= Half(j) /\ Half(j) <= 1
  BY <1>2
<1>10. /\ Odd(j) \in Int /\ 0 <= Odd(j) /\ Odd(j) <= 1
       /\ Upper(j) \in Int /\ 0 <= Upper(j) /\ Upper(j) <= 1
       /\ Part(j) = 2 * Upper(j) + Odd(j)
  BY <1>7 DEF p, Odd, Upper
<1>11. QED
  BY <1>2, <1>4, <1>5, <1>8, <1>9, <1>10 DEF Digital

(* The element of a half, a part and a rest. *)
LEMMA BuiltOf ==
  ASSUME NEW a \in Int, NEW part \in Int, NEW l \in Int, 0 <= a, a <= 1,
         0 <= part, part <= 3, 0 <= l, l <= 31
  PROVE  /\ At(a, part, l) \in Elements(256)
         /\ Half(At(a, part, l)) = a /\ Part(At(a, part, l)) = part /\ Rest(At(a, part, l)) = l
<1> DEFINE j == At(a, part, l)
<1>0. j = 128 * a + 32 * part + l
  BY DEF At
<1> HIDE DEF j
<1>1. j \in Int /\ 0 <= j /\ j <= 255
  BY <1>0
<1>2. Half(j) = a /\ j % 128 = 32 * part + l
  <2>1. CASE a = 0
    BY <1>0, <2>1 DEF Half
  <2>2. CASE a = 1
    BY <1>0, <2>2 DEF Half
  <2>3. a = 0 \/ a = 1
    OBVIOUS
  <2>4. QED
    BY <2>1, <2>2, <2>3
<1>3. (32 * part + l) \div 32 = part
  OBVIOUS
<1>4. j % 32 = l
  <2>1. CASE a = 0
    BY <1>0, <2>1
  <2>2. CASE a = 1
    BY <1>0, <2>2
  <2>3. a = 0 \/ a = 1
    OBVIOUS
  <2>5. QED
    BY <2>1, <2>2, <2>3
<1>5. QED
  BY <1>1, <1>2, <1>3, <1>4 DEF Part, Rest, Elements, j

(* Two places of q6_k low bits are of the same half, rest and parity. *)
LEMMA Digits ==
  ASSUME NEW a \in Int, NEW b \in Int, NEW c \in Int, NEW d \in Int, NEW l \in Int, NEW m \in Int,
         0 <= a, a <= 1, 0 <= b, b <= 1, 0 <= c, c <= 1, 0 <= d, d <= 1,
         0 <= l, l <= 31, 0 <= m, m <= 31, Lower(a, l, c) = Lower(b, m, d)
  PROVE  a = b /\ c = d /\ l = m
BY DEF Lower

(* A number is written in one way. *)
LEMMA TwoDigits ==
  ASSUME NEW p \in Int, NEW q \in Int, NEW r \in Int, NEW l \in Int, NEW m \in Int,
         0 <= l, l < r, 0 <= m, m < r, r = 2 \/ r = 4 \/ r = 32, Placed(r, p, l) = Placed(r, q, m)
  PROVE  p = q /\ l = m
<1>1. CASE r = 2
  BY <1>1 DEF Placed
<1>2. CASE r = 4
  BY <1>2 DEF Placed
<1>3. CASE r = 32
  BY <1>3 DEF Placed
<1>4. QED
  BY <1>1, <1>2, <1>3

(* No two quant bits of q6_k share a place, and the places leave only the  *)
(* codes and the half.                                                     *)
LEMMA Q6Places ==
  /\ Places(210, 256, 6, {208, 209} \cup Q6Code, Paired(256, 6, Q6Byte, Q6Bit), Q6Byte, Q6Bit)
  /\ Filled(210, 256, 6, {208, 209} \cup Q6Code, Q6Byte, Q6Bit)
<1> DEFINE qp == Paired(256, 6, Q6Byte, Q6Bit)
           H == {208, 209} \cup Q6Code
<1>1. \A j \in Elements(256), i \in Bits(6) :
        /\ Q6Byte[j][i] = IF i < 4 THEN 64 * Half(j) + Rest(j) + 32 * Odd(j)
                          ELSE 128 + Placed(32, Half(j), Rest(j))
        /\ Q6Bit[j][i] = IF i < 4 THEN i + 4 * Upper(j) ELSE 2 * Part(j) + (i - 4)
        /\ qp[j][i] = <<Q6Byte[j][i], Q6Bit[j][i]>>
  BY DEF Q6Byte, Q6Bit, Paired
<1>2. \A i : i \in Bits(6) <=> i \in Int /\ 0 <= i /\ i <= 5
  BY DEF Bits
<1>3. ASSUME NEW j \in Elements(256)
      PROVE  Digital(j) /\ j = 128 * Half(j) + 32 * Part(j) + Rest(j)
  BY PartsOf
<1> HIDE DEF qp
<1>4. ASSUME NEW j \in Elements(256), NEW k \in Elements(256), NEW i \in Bits(6), NEW h \in Bits(6),
             Q6Byte[j][i] = Q6Byte[k][h], Q6Bit[j][i] = Q6Bit[k][h]
      PROVE  j = k /\ i = h
  <2>0. Digital(j) /\ Digital(k)
    BY <1>3
  <2>4. ASSUME Half(j) = Half(k), Part(j) = Part(k), Rest(j) = Rest(k) PROVE j = k
    BY <1>3, <2>4
  <2>1. CASE i < 4 /\ h < 4
    <3>1. /\ 64 * Half(j) + Rest(j) + 32 * Odd(j) = 64 * Half(k) + Rest(k) + 32 * Odd(k)
          /\ i + 4 * Upper(j) = h + 4 * Upper(k)
      BY <1>1, <1>4, <2>1
    <3>2. i \in Int /\ h \in Int /\ 0 <= i /\ 0 <= h
      BY <1>2
    <3>3. Half(j) = Half(k) /\ Rest(j) = Rest(k) /\ Odd(j) = Odd(k)
      <4>1. Lower(Half(j), Rest(j), Odd(j)) = Lower(Half(k), Rest(k), Odd(k))
        BY <3>1 DEF Lower
      <4>2. QED
        BY <2>0, <4>1, Digits DEF Digital
    <3>4. Upper(j) = Upper(k) /\ i = h
      <4>1. Upper(j) \in Int /\ Upper(k) \in Int
        BY <2>0 DEF Digital
      <4>2. Placed(4, Upper(j), i) = Placed(4, Upper(k), h)
        BY <3>1, <3>2, <4>1 DEF Placed
      <4>3. QED
        BY <2>1, <3>2, <4>1, <4>2, TwoDigits
    <3>5. Part(j) = Part(k)
      BY <2>0, <3>3, <3>4 DEF Digital
    <3>6. QED
      BY <2>4, <3>3, <3>4, <3>5
  <2>2. CASE ~(i < 4) /\ ~(h < 4)
    <3>1. /\ 128 + Placed(32, Half(j), Rest(j)) = 128 + Placed(32, Half(k), Rest(k))
          /\ 2 * Part(j) + (i - 4) = 2 * Part(k) + (h - 4)
      BY <1>1, <1>4, <2>2
    <3>2. i \in Int /\ h \in Int /\ i <= 5 /\ h <= 5
      BY <1>2
    <3>3. Half(j) = Half(k) /\ Rest(j) = Rest(k)
      <4>1. Half(j) \in Int /\ Half(k) \in Int
        BY <2>0 DEF Digital
      <4>2. /\ Rest(j) \in Int /\ 0 <= Rest(j) /\ Rest(j) < 32
            /\ Rest(k) \in Int /\ 0 <= Rest(k) /\ Rest(k) < 32
        BY <2>0 DEF Digital
      <4>3. Placed(32, Half(j), Rest(j)) = Placed(32, Half(k), Rest(k))
        <5>1. Placed(32, Half(j), Rest(j)) \in Int /\ Placed(32, Half(k), Rest(k)) \in Int
          BY <4>1, <4>2 DEF Placed
        <5>2. QED
          BY <3>1, <5>1
      <4>4. QED
        BY <4>1, <4>2, <4>3, TwoDigits
    <3>4. Part(j) = Part(k) /\ i = h
      <4>1. i - 4 \in Int /\ h - 4 \in Int /\ 0 <= i - 4 /\ i - 4 < 2 /\ 0 <= h - 4 /\ h - 4 < 2
        BY <2>2, <3>2
      <4>2. Part(j) \in Int /\ Part(k) \in Int
        BY <2>0 DEF Digital
      <4>3. Placed(2, Part(j), i - 4) = Placed(2, Part(k), h - 4)
        BY <3>1 DEF Placed
      <4>4. i - 4 = h - 4 /\ Part(j) = Part(k)
        BY <4>1, <4>2, <4>3, TwoDigits
      <4>5. QED
        BY <3>2, <4>4
    <3>5. QED
      BY <2>4, <3>3, <3>4
  <2>3. CASE (i < 4) # (h < 4)
    <3>1. CASE i < 4 /\ ~(h < 4)
      BY <1>1, <1>4, <2>0, <3>1 DEF Digital, Placed
    <3>2. CASE ~(i < 4) /\ h < 4
      BY <1>1, <1>4, <2>0, <3>2 DEF Digital, Placed
    <3>3. QED
      BY <2>3, <3>1, <3>2
  <2>5. QED
    BY <2>1, <2>2, <2>3
<1>5. \A b : b \in H <=> b \in Int /\ 192 <= b /\ b <= 209
  BY DEF Q6Code
<1>6. ASSUME NEW j \in Elements(256), NEW i \in Bits(6)
      PROVE  /\ Q6Byte[j][i] \in Int /\ 0 <= Q6Byte[j][i] /\ Q6Byte[j][i] <= 191
             /\ Q6Bit[j][i] \in Int /\ 0 <= Q6Bit[j][i] /\ Q6Bit[j][i] <= 7
  <2>0. Digital(j)
    BY <1>3
  <2>1. i \in Int /\ 0 <= i /\ i <= 5
    BY <1>2
  <2>2. CASE i < 4
    <3>1. /\ Q6Byte[j][i] = 64 * Half(j) + Rest(j) + 32 * Odd(j)
          /\ Q6Bit[j][i] = i + 4 * Upper(j)
      BY <1>1, <2>2
    <3>2. QED
      BY <2>0, <2>1, <2>2, <3>1 DEF Digital
  <2>3. CASE ~(i < 4)
    <3>1. /\ Q6Byte[j][i] = 128 + Placed(32, Half(j), Rest(j))
          /\ Q6Bit[j][i] = 2 * Part(j) + (i - 4)
      BY <1>1, <2>3
    <3>2. QED
      BY <2>0, <2>1, <2>3, <3>1 DEF Digital, Placed
  <2>4. QED
    BY <2>2, <2>3
<1> HIDE DEF H
<1>7. Places(210, 256, 6, H, qp, Q6Byte, Q6Bit)
  <2>1. \A b \in Int : 0 <= b /\ b <= 191 => b \in 0..(210 - 1) /\ b \notin H
    BY <1>5
  <2>2. \A b \in Int : 0 <= b /\ b <= 7 => b \in 0..7
    OBVIOUS
  <2>3. H \subseteq 0..(210 - 1)
    BY <1>5
  <2>4. QED
    BY <1>1, <1>4, <1>6, <2>1, <2>2, <2>3 DEF Places
<1>8. Filled(210, 256, 6, H, Q6Byte, Q6Bit)
  <2> SUFFICES ASSUME NEW b \in 0..(210 - 1), NEW i \in 0..7, b \notin H
               PROVE  \E j \in Elements(256), h \in Bits(6) : b = Q6Byte[j][h] /\ i = Q6Bit[j][h]
    BY DEF Filled
  <2>1. CASE b < 128
    <3> DEFINE a == b \div 64
               part == 2 * (i \div 4) + ((b % 64) \div 32)
               l == b % 32
               j == At(a, part, l)
               h == i % 4
    <3>1. /\ a \in {0, 1} /\ l \in 0..31 /\ (b % 64) \div 32 \in {0, 1} /\ i \div 4 \in {0, 1}
          /\ b = 64 * a + (b % 64) /\ b % 64 = 32 * ((b % 64) \div 32) + l
          /\ i = h + 4 * (i \div 4) /\ h \in 0..3
      BY <2>1
    <3>2. part \in {0, 1, 2, 3} /\ part % 2 = (b % 64) \div 32 /\ part \div 2 = i \div 4
      BY <3>1
    <3> HIDE DEF a, part, l, h
    <3>3. j \in Elements(256) /\ Half(j) = a /\ Part(j) = part /\ Rest(j) = l
      <4>1. /\ a \in Int /\ 0 <= a /\ a <= 1
            /\ part \in Int /\ 0 <= part /\ part <= 3 /\ l \in Int /\ 0 <= l /\ l <= 31
        BY <3>1, <3>2
      <4>2. QED
        BY <4>1, BuiltOf
    <3>4. h \in Bits(6) /\ h < 4
      BY <1>2, <3>1
    <3> HIDE DEF j
    <3>5. Q6Byte[j][h] = 64 * a + l + 32 * (part % 2) /\ Q6Bit[j][h] = h + 4 * (part \div 2)
      BY <1>1, <3>3, <3>4 DEF Odd, Upper
    <3>6. b = 64 * a + l + 32 * (part % 2) /\ i = h + 4 * (part \div 2)
      BY <3>1, <3>2
    <3>7. QED
      BY <3>3, <3>4, <3>5, <3>6
  <2>2. CASE 128 <= b /\ b < 192
    <3> DEFINE a == (b - 128) \div 32
               part == i \div 2
               l == (b - 128) % 32
               j == At(a, part, l)
               h == 4 + (i % 2)
    <3>1. /\ a \in {0, 1} /\ l \in 0..31 /\ part \in {0, 1, 2, 3}
          /\ b = 128 + 32 * a + l /\ i = 2 * part + (h - 4) /\ (h = 4 \/ h = 5)
      BY <2>2
    <3> HIDE DEF a, part, l, h
    <3>2. j \in Elements(256) /\ Half(j) = a /\ Part(j) = part /\ Rest(j) = l
      <4>1. /\ a \in Int /\ 0 <= a /\ a <= 1
            /\ part \in Int /\ 0 <= part /\ part <= 3 /\ l \in Int /\ 0 <= l /\ l <= 31
        BY <3>1
      <4>2. QED
        BY <4>1, BuiltOf
    <3>3. h \in Bits(6) /\ ~(h < 4)
      BY <1>2, <3>1
    <3> HIDE DEF j
    <3>4. Q6Byte[j][h] = 128 + Placed(32, a, l) /\ Q6Bit[j][h] = 2 * part + (h - 4)
      BY <1>1, <3>2, <3>3
    <3>5. b = 128 + Placed(32, a, l) /\ i = 2 * part + (h - 4)
      BY <3>1 DEF Placed
    <3>6. QED
      BY <3>2, <3>3, <3>4, <3>5
  <2>3. QED
    BY <1>5, <2>1, <2>2
<1>9. QED
  BY <1>7, <1>8 DEF qp, H

(* The bits of the codes of q6_k, a byte for each sixteen elements. *)
LEMMA Q6Codes ==
  /\ GroupsOf(256, 16) /\ OwnedBy(256, 16, Q6Code, Q6Own)
  /\ \A j \in Elements(256) : Labels(Byte(192 + j \div 16)) = Owned(Q6Code, Q6Own, j \div 16)
<1>1. GroupsOf(256, 16)
  <2>1. ASSUME NEW j \in Elements(256)
        PROVE  /\ (j \div 16) * 16 \in Elements(256) /\ ((j \div 16) * 16) \div 16 = j \div 16
               /\ j % 16 = 0 => j = (j \div 16) * 16
    BY DEF Elements
  <2>2. QED
    BY <2>1 DEF GroupsOf
<1>2. \A g, i : <<g, i>> \in Q6Code \X (0..7) => Q6Own[<<g, i>>] = g - 192
  BY DEF Q6Own
<1>3. OwnedBy(256, 16, Q6Code, Q6Own)
  <2>1. ASSUME NEW g \in Q6Code, NEW i \in 0..7
        PROVE  LET o == Q6Own[<<g, i>>]
               IN  o * 16 \in Elements(256) /\ (o * 16) \div 16 = o /\ (o * 16) % 16 = 0
    <3>1. Q6Own[<<g, i>>] = g - 192 /\ g - 192 \in Int /\ 0 <= g - 192 /\ g - 192 <= 15
      BY <1>2 DEF Q6Code
    <3> DEFINE o == Q6Own[<<g, i>>]
    <3> HIDE DEF o
    <3>2. o \in Int /\ 0 <= o /\ o <= 15
      BY <3>1 DEF o
    <3>3. o * 16 \in Elements(256) /\ (o * 16) \div 16 = o /\ (o * 16) % 16 = 0
      BY <3>2 DEF Elements
    <3>4. QED
      BY <3>3 DEF o
  <2>2. ASSUME NEW x \in Q6Code \X (0..7)
        PROVE  /\ Q6Own[x] * 16 \in Elements(256) /\ (Q6Own[x] * 16) \div 16 = Q6Own[x]
               /\ (Q6Own[x] * 16) % 16 = 0
    <3>1. PICK g \in Q6Code, i \in 0..7 : x = <<g, i>>
      OBVIOUS
    <3>2. LET o == Q6Own[<<g, i>>]
          IN  o * 16 \in Elements(256) /\ (o * 16) \div 16 = o /\ (o * 16) % 16 = 0
      BY <2>1
    <3>3. QED
      BY <3>1, <3>2, Zenon
  <2>3. QED
    BY <2>2, Zenon DEF OwnedBy
<1>4. ASSUME NEW j \in Elements(256)
      PROVE  Labels(Byte(192 + j \div 16)) = Owned(Q6Code, Q6Own, j \div 16)
  <2> DEFINE g == j \div 16
             w == Byte(192 + g)
  <2>1. g \in Int /\ 0 <= g /\ g <= 15
    BY DEF Elements
  <2> HIDE DEF g
  <2>2. 192 + g \in Q6Code
    BY <2>1 DEF Q6Code
  <2>3. DOMAIN w = 0..7 /\ \A i \in 0..7 : w[i] = <<192 + g, i>> /\ w[i] # Off
    BY <2>1 DEF Byte, Off
  <2> HIDE DEF w
  <2>4. ASSUME NEW x, x \in Labels(w) PROVE x \in Owned(Q6Code, Q6Own, g)
    <3>1. PICK i \in 0..7 : x = <<192 + g, i>>
      BY <2>3, <2>4 DEF Labels
    <3>2. x \in Q6Code \X (0..7)
      BY <2>2, <3>1
    <3>3. Q6Own[x] = g
      BY <1>2, <2>1, <3>1, <3>2
    <3>4. QED
      BY <3>2, <3>3 DEF Owned
  <2>5. ASSUME NEW x, x \in Owned(Q6Code, Q6Own, g) PROVE x \in Labels(w)
    <3>1. PICK b \in Q6Code, i \in 0..7 : x = <<b, i>> /\ Q6Own[x] = g
      BY <2>5 DEF Owned
    <3>2. b - 192 = g /\ b \in Int
      BY <1>2, <3>1 DEF Q6Code
    <3>3. x = w[i] /\ w[i] # Off
      BY <2>1, <2>3, <3>1, <3>2
    <3>4. QED
      BY <2>3, <3>3 DEF Labels
  <2>6. QED
    BY <2>4, <2>5 DEF w, g
<1>5. QED
  BY <1>1, <1>3, <1>4

(* dequant_q6_k takes its block apart. *)
LEMMA Q6Apart == TakenApart(dequant_q6_k(Block(210)), Formats["Q6_K"])
<1> DEFINE y == dequant_q6_k(Block(210))
           qp == Paired(256, 6, Q6Byte, Q6Bit)
           ql == Bytes(Block(210), 0, 128)
           qh == Bytes(Block(210), 128, 192)
           sc == Bytes(Block(210), 192, 208)
           k(j) == 64 * Half(j) + Rest(j) + 32 * Odd(j)
           b(j) == 128 + Placed(32, Half(j), Rest(j))
           q(j) == IF Upper(j) = 0 THEN And(Byte(k(j)), Low) ELSE Shr(Byte(k(j)), 4)
           x(j) == Shl(And(Shr(Byte(b(j)), 2 * Part(j)), {0, 1}), 4)
           word == [j \in Elements(256) |-> Or(q(j), x(j))]
<1>1. /\ \A i \in Int : 0 <= i /\ i <= 127 => ql[i] = Byte(i)
      /\ \A i \in Int : 0 <= i /\ i <= 63 => qh[i] = Byte(128 + i)
      /\ \A i \in Int : 0 <= i /\ i <= 15 => sc[i] = Byte(192 + i)
  <2>1. ASSUME NEW i \in Int, 0 <= i, i <= 127 PROVE ql[i] = Byte(i)
    <3>1. i \in 0..(128 - 0 - 1) /\ 0 + i = i
      BY <2>1
    <3>2. ql[i] = Byte(0 + i)
      BY <3>1, BytesAre
    <3>3. QED
      BY <3>1, <3>2
  <2>2. ASSUME NEW i \in Int, 0 <= i, i <= 63 PROVE qh[i] = Byte(128 + i)
    <3>1. i \in 0..(192 - 128 - 1)
      BY <2>2
    <3>2. QED
      BY <3>1, BytesAre
  <2>3. ASSUME NEW i \in Int, 0 <= i, i <= 15 PROVE sc[i] = Byte(192 + i)
    <3>1. i \in 0..(208 - 192 - 1)
      BY <2>3
    <3>2. QED
      BY <3>1, BytesAre
  <2>4. QED
    BY <2>1, <2>2, <2>3
<1> HIDE DEF ql, qh, sc
<1>2. ASSUME NEW j \in Elements(256)
      PROVE  y[j] = Element(word[j], Byte(192 + j \div 16), NoBits, {208, 209})
  <2> DEFINE n == (j \div 128) * 128
             part == (j % 128) \div 32
             l == j % 32
             low == ql[n \div 2 + l + 32 * (part % 2)]
             high == And(Shr(qh[n \div 4 + l], 2 * part), {0, 1})
             code == sc[n \div 16 + l \div 16 + 2 * part]
  <2>1. y[j] = Element(Or(IF part < 2 THEN And(low, Low) ELSE Shr(low, 4), Shl(high, 4)), code, NoBits, {208, 209})
    BY DEF dequant_q6_k, ql, qh, sc, Elements
  <2>2. Digital(j) /\ j = 128 * Half(j) + 32 * Part(j) + Rest(j)
    BY PartsOf
  <2>3. n \div 2 = 64 * Half(j) /\ n \div 4 = 32 * Half(j) /\ n \div 16 = 8 * Half(j)
    BY <2>2 DEF Digital, Half
  <2>4. part = Part(j) /\ part % 2 = Odd(j) /\ l = Rest(j)
    BY DEF Part, Odd, Rest
  <2>5. part < 2 <=> Upper(j) = 0
    BY <2>2, <2>4 DEF Digital
  <2> HIDE DEF part, l
  <2>6. low = Byte(k(j))
    <3>1. n \div 2 + l + 32 * (part % 2) = k(j) /\ k(j) \in Int /\ 0 <= k(j) /\ k(j) <= 127
      BY <2>2, <2>3, <2>4 DEF Digital
    <3>2. QED
      BY <1>1, <3>1
  <2>7. qh[n \div 4 + l] = Byte(b(j))
    <3>1. n \div 4 + l = Placed(32, Half(j), Rest(j))
      BY <2>3, <2>4 DEF Placed
    <3>2. LET o == Placed(32, Half(j), Rest(j)) IN o \in Int /\ 0 <= o /\ o <= 63
      BY <2>2 DEF Digital, Placed
    <3>3. QED
      BY <1>1, <3>1, <3>2
  <2>8. code = Byte(192 + j \div 16)
    <3> DEFINE h == Half(j)
               r == Rest(j)
               o == n \div 16 + l \div 16 + 2 * part
    <3>1. o = 8 * h + r \div 16 + 2 * Part(j)
      BY <2>3, <2>4
    <3>2. /\ h \in Int /\ 0 <= h /\ h <= 1 /\ r \in Int /\ 0 <= r /\ r <= 31
          /\ Part(j) \in Int /\ 0 <= Part(j) /\ Part(j) <= 3 /\ j = 128 * h + 32 * Part(j) + r
      BY <2>2 DEF Digital
    <3> HIDE DEF h, r, o
    <3>3. j \div 16 = 8 * h + r \div 16 + 2 * Part(j)
      BY <3>2
    <3>4. o = j \div 16 /\ o \in Int /\ 0 <= o /\ o <= 15
      BY <3>1, <3>2, <3>3
    <3>5. QED
      BY <1>1, <3>4 DEF o
  <2>9. QED
    BY <2>1, <2>4, <2>5, <2>6, <2>7, <2>8
<1>3. DOMAIN y = Elements(256)
  BY DEF dequant_q6_k, Elements
<1> HIDE DEF y
<1>4. ASSUME NEW j \in Elements(256) PROVE IsWord(word[j], 8, 6, qp[j])
  <2> DEFINE p == qp[j]
             c == [i \in Bits(6) |-> 2 * Part(j) + (i - 4)]
             kk == k(j)
             bb == b(j)
             u == Upper(j)
  <2>1. Digital(j)
    BY PartsOf
  <2>2. kk \in Nat /\ bb \in Nat /\ u \in {0, 1}
    BY <2>1 DEF Digital, Placed
  <2>3. \A i \in Bits(6) : p[i] = IF i < 4 THEN <<kk, i + 4 * u>> ELSE <<bb, c[i]>>
    BY DEF Paired, Q6Byte, Q6Bit
  <2>4. \A i \in Bits(6) : c[i] = 2 * Part(j) + (i - 4)
    OBVIOUS
  <2>5. q(j) = IF u = 0 THEN And(Byte(kk), Low) ELSE Shr(Byte(kk), 4)
    OBVIOUS
  <2>6. 2 * Part(j) \in Nat /\ 2 * Part(j) + 1 <= 7
    BY <2>1 DEF Digital
  <2>7. word[j] = Or(q(j), x(j)) /\ x(j) = Shl(And(Shr(Byte(bb), 2 * Part(j)), {0, 1}), 4)
    OBVIOUS
  <2> HIDE DEF p, c, kk, bb, u, word, q, x
  <2>8. \A i \in 0..7 : x(j)[i] = IF 4 <= i /\ i < 6 THEN <<bb, 2 * Part(j) + (i - 4)>> ELSE Off
    <3> DEFINE d == 2 * Part(j)
    <3>1. d \in Nat /\ d + 1 <= 7
      BY <2>6
    <3> HIDE DEF d
    <3>2. \A i \in 0..7 : Shl(And(Shr(Byte(bb), d), {0, 1}), 4)[i]
                         = IF 4 <= i /\ i < 6 THEN <<bb, d + (i - 4)>> ELSE Off
      BY <2>2, <3>1, TwoBits
    <3>3. QED
      BY <2>7, <3>2 DEF d
  <2>9. \A i \in 0..7 : x(j)[i] = IF 4 <= i /\ i < 6 THEN <<bb, c[i]>> ELSE Off
    <3>1. \A i \in 0..7 : 4 <= i /\ i < 6 => i \in Bits(6)
      BY DEF Bits
    <3>2. QED
      BY <2>4, <2>8, <3>1
  <2>10. IsWord(Or(q(j), x(j)), 8, 6, p)
    <3>1. JoinOf(6, p, kk, u, bb, c)
      BY <2>3 DEF JoinOf
    <3>2. NibbleOf(q(j), kk, u)
      BY <2>5 DEF NibbleOf
    <3>3. UpperOf(6, x(j), bb, c)
      BY <2>9 DEF UpperOf
    <3>4. QED
      BY <2>2, <3>1, <3>2, <3>3, JoinedWord
  <2>11. QED
    BY <2>7, <2>10 DEF p
<1> HIDE DEF word, q, x, k, b
<1>5. Scaled(y, 256, 8, 6, 16, {208, 209}, Q6Code, word, Q6Byte, Q6Bit, Q6Own)
  <2>1. ASSUME NEW j \in Elements(256)
        PROVE  /\ y[j].q = word[j] /\ y[j].half = {208, 209}
               /\ Labels(y[j].scale) \cup Labels(y[j].min) = Owned(Q6Code, Q6Own, j \div 16)
               /\ Labels(y[j].scale) \cap Labels(y[j].min) = {}
    <3>1. /\ y[j].q = word[j] /\ y[j].half = {208, 209}
          /\ y[j].scale = Byte(192 + j \div 16) /\ y[j].min = NoBits
      <4> DEFINE code == Byte(192 + j \div 16)
      <4>1. y[j] = Element(word[j], code, NoBits, {208, 209})
        BY <1>2
      <4> HIDE DEF code
      <4>2. /\ y[j].q = word[j] /\ y[j].half = {208, 209} /\ y[j].scale = code /\ y[j].min = NoBits
        BY <4>1 DEF Element
      <4>3. QED
        BY <4>2 DEF code
    <3>2. Labels(y[j].scale) = Owned(Q6Code, Q6Own, j \div 16) /\ Labels(y[j].min) = {}
      BY <3>1, Q6Codes, NoLabels
    <3>3. QED
      BY <3>1, <3>2
  <2>2. QED
    BY <1>3, <1>4, <2>1 DEF Scaled
<1>6. {208, 209} \cap Q6Code = {}
  BY DEF Q6Code
<1> HIDE DEF qp
<1>7. TakenApart(y, <<210, 6, 16>>)
  BY <1>5, <1>6, Q6Places, Q6Codes, ScaledApart
<1>8. QED
  BY <1>7 DEF y, Formats

(* q4_k: element j is number Rest of the Run of its Chunk. *)
Chunk(j) == j \div 64
Run(j) == (j % 64) \div 32
Q4Byte == [j \in Elements(256) |-> [i \in Bits(4) |-> 16 + Placed(32, Chunk(j), Rest(j))]]
Q4Bit == [j \in Elements(256) |-> [i \in Bits(4) |-> i + 4 * Run(j)]]
Q4Code == 4..15
Q4Own == [x \in Q4Code \X (0..7) |->
            IF x[1] >= 12 THEN x[1] - 8
            ELSE IF x[1] <= 7 THEN IF x[2] <= 5 THEN x[1] - 4 ELSE x[1]
            ELSE IF x[2] <= 5 THEN x[1] - 8 ELSE x[1] - 4]
From(c, u, l) == 64 * c + 32 * u + l

Chunked(j) ==
  /\ Chunk(j) \in Int /\ 0 <= Chunk(j) /\ Chunk(j) <= 3
  /\ Run(j) \in Int /\ 0 <= Run(j) /\ Run(j) <= 1
  /\ Rest(j) \in Int /\ 0 <= Rest(j) /\ Rest(j) <= 31

(* The chunk, the run and the rest of an element, and its group. *)
LEMMA ChunksOf ==
  ASSUME NEW j \in Elements(256)
  PROVE  /\ Chunked(j) /\ j = 64 * Chunk(j) + 32 * Run(j) + Rest(j)
         /\ j \div 32 = 2 * Chunk(j) + Run(j)
<1>1. j \in Int /\ 0 <= j /\ j <= 255
  BY DEF Elements
<1>2. /\ j = 64 * Chunk(j) + (j % 64) /\ 0 <= j % 64 /\ j % 64 <= 63 /\ j % 64 \in Int
      /\ Chunk(j) \in Int /\ 0 <= Chunk(j) /\ Chunk(j) <= 3
  BY <1>1 DEF Chunk
<1>3. j % 64 = 32 * Run(j) + ((j % 64) % 32) /\ (j % 64) % 32 = Rest(j)
  BY <1>1, <1>2 DEF Run, Rest
<1>4. Rest(j) \in Int /\ 0 <= Rest(j) /\ Rest(j) <= 31
  BY <1>1 DEF Rest
<1>5. Run(j) \in Int /\ 0 <= Run(j) /\ Run(j) <= 1
  BY <1>1, <1>2 DEF Run
<1>6. j = 64 * Chunk(j) + 32 * Run(j) + Rest(j)
  BY <1>2, <1>3, <1>4, <1>5
<1>7. j \div 32 = 2 * Chunk(j) + Run(j)
  <2> DEFINE g == 2 * Chunk(j) + Run(j)
             r == Rest(j)
  <2>1. g \in Int /\ j = 32 * g + r /\ r \in Int /\ 0 <= r /\ r <= 31
    BY <1>2, <1>4, <1>5, <1>6
  <2> HIDE DEF g, r
  <2>2. j \div 32 = g
    BY <2>1
  <2>3. QED
    BY <2>2 DEF g
<1>8. QED
  BY <1>2, <1>4, <1>5, <1>6, <1>7 DEF Chunked

(* The element of a chunk, a run and a rest. *)
LEMMA ChunkOf ==
  ASSUME NEW c \in Int, NEW u \in Int, NEW l \in Int, 0 <= c, c <= 3, 0 <= u, u <= 1, 0 <= l, l <= 31
  PROVE  /\ From(c, u, l) \in Elements(256)
         /\ Chunk(From(c, u, l)) = c /\ Run(From(c, u, l)) = u /\ Rest(From(c, u, l)) = l
<1> DEFINE j == From(c, u, l)
<1>1. j = 64 * c + 32 * u + l /\ j \in Int /\ 0 <= j /\ j <= 255
  BY DEF From
<1> HIDE DEF j
<1>2. j \div 64 = c /\ j % 64 = 32 * u + l
  <2>1. j = 64 * c + (32 * u + l) /\ 32 * u + l \in Int /\ 0 <= 32 * u + l /\ 32 * u + l <= 63
    BY <1>1
  <2> DEFINE r == 32 * u + l
  <2> HIDE DEF r
  <2>2. j = 64 * c + r /\ r \in Int /\ 0 <= r /\ r <= 63
    BY <2>1 DEF r
  <2>3. j \div 64 = c /\ j % 64 = r
    BY <1>1, <2>2
  <2>4. QED
    BY <2>3 DEF r
<1>3. (32 * u + l) \div 32 = u
  OBVIOUS
<1>4. j % 32 = l
  <2> DEFINE r == 2 * c + u
  <2>1. r \in Int /\ j = 32 * r + l
    BY <1>1
  <2> HIDE DEF r
  <2>2. QED
    BY <1>1, <2>1
<1>5. QED
  BY <1>1, <1>2, <1>3, <1>4 DEF Chunk, Run, Rest, Elements, j

(* No two quant bits of q4_k share a place, and the places leave only the  *)
(* codes and the halves.                                                   *)
LEMMA Q4Places ==
  /\ Places(144, 256, 4, (0..3) \cup Q4Code, Paired(256, 4, Q4Byte, Q4Bit), Q4Byte, Q4Bit)
  /\ Filled(144, 256, 4, (0..3) \cup Q4Code, Q4Byte, Q4Bit)
<1> DEFINE qp == Paired(256, 4, Q4Byte, Q4Bit)
           H == (0..3) \cup Q4Code
<1>1. \A j \in Elements(256), i \in Bits(4) :
        /\ Q4Byte[j][i] = 16 + Placed(32, Chunk(j), Rest(j))
        /\ Q4Bit[j][i] = i + 4 * Run(j)
        /\ qp[j][i] = <<Q4Byte[j][i], Q4Bit[j][i]>>
  BY DEF Q4Byte, Q4Bit, Paired
<1>2. \A i : i \in Bits(4) <=> i \in Int /\ 0 <= i /\ i <= 3
  BY DEF Bits
<1>3. ASSUME NEW j \in Elements(256)
      PROVE  Chunked(j) /\ j = 64 * Chunk(j) + 32 * Run(j) + Rest(j)
  BY ChunksOf
<1>4. \A b : b \in H <=> b \in Int /\ 0 <= b /\ b <= 15
  BY DEF Q4Code
<1> HIDE DEF qp, H
<1>5. ASSUME NEW j \in Elements(256), NEW k \in Elements(256), NEW i \in Bits(4), NEW h \in Bits(4),
             Q4Byte[j][i] = Q4Byte[k][h], Q4Bit[j][i] = Q4Bit[k][h]
      PROVE  j = k /\ i = h
  <2>1. Chunked(j) /\ Chunked(k)
    BY <1>3
  <2>2. ASSUME Chunk(j) = Chunk(k), Run(j) = Run(k), Rest(j) = Rest(k) PROVE j = k
    BY <1>3, <2>2
  <2>3. /\ 16 + Placed(32, Chunk(j), Rest(j)) = 16 + Placed(32, Chunk(k), Rest(k))
        /\ i + 4 * Run(j) = h + 4 * Run(k)
    BY <1>1, <1>5
  <2>4. /\ Chunk(j) \in Int /\ Chunk(k) \in Int /\ Run(j) \in Int /\ Run(k) \in Int
        /\ Rest(j) \in Int /\ 0 <= Rest(j) /\ Rest(j) < 32
        /\ Rest(k) \in Int /\ 0 <= Rest(k) /\ Rest(k) < 32
    BY <2>1 DEF Chunked
  <2>5. Chunk(j) = Chunk(k) /\ Rest(j) = Rest(k)
    <3>1. Placed(32, Chunk(j), Rest(j)) \in Int /\ Placed(32, Chunk(k), Rest(k)) \in Int
      BY <2>4 DEF Placed
    <3>2. Placed(32, Chunk(j), Rest(j)) = Placed(32, Chunk(k), Rest(k))
      BY <2>3, <3>1
    <3>3. QED
      BY <2>4, <3>2, TwoDigits
  <2>6. Run(j) = Run(k) /\ i = h
    <3>1. i \in Int /\ h \in Int /\ 0 <= i /\ i < 4 /\ 0 <= h /\ h < 4
      BY <1>2
    <3>2. Placed(4, Run(j), i) = Placed(4, Run(k), h)
      BY <2>3, <2>4, <3>1 DEF Placed
    <3>3. QED
      BY <2>4, <3>1, <3>2, TwoDigits
  <2>7. QED
    BY <2>2, <2>5, <2>6
<1>6. ASSUME NEW j \in Elements(256), NEW i \in Bits(4)
      PROVE  /\ Q4Byte[j][i] \in Int /\ 16 <= Q4Byte[j][i] /\ Q4Byte[j][i] <= 143
             /\ Q4Bit[j][i] \in Int /\ 0 <= Q4Bit[j][i] /\ Q4Bit[j][i] <= 7
  <2>1. Chunked(j) /\ i \in Int /\ 0 <= i /\ i <= 3
    BY <1>2, <1>3
  <2>2. Q4Byte[j][i] = 16 + Placed(32, Chunk(j), Rest(j)) /\ Q4Bit[j][i] = i + 4 * Run(j)
    BY <1>1
  <2>3. QED
    BY <2>1, <2>2 DEF Chunked, Placed
<1>7. Places(144, 256, 4, H, qp, Q4Byte, Q4Bit)
  <2>1. \A b \in Int : 16 <= b /\ b <= 143 => b \in 0..(144 - 1) /\ b \notin H
    BY <1>4
  <2>2. \A b \in Int : 0 <= b /\ b <= 7 => b \in 0..7
    OBVIOUS
  <2>3. H \subseteq 0..(144 - 1)
    BY <1>4
  <2>4. QED
    BY <1>1, <1>5, <1>6, <2>1, <2>2, <2>3 DEF Places
<1>8. Filled(144, 256, 4, H, Q4Byte, Q4Bit)
  <2> SUFFICES ASSUME NEW b \in 0..(144 - 1), NEW i \in 0..7, b \notin H
               PROVE  \E j \in Elements(256), h \in Bits(4) : b = Q4Byte[j][h] /\ i = Q4Bit[j][h]
    BY DEF Filled
  <2> DEFINE c == (b - 16) \div 32
             u == i \div 4
             l == (b - 16) % 32
             j == From(c, u, l)
             h == i % 4
  <2>1. 16 <= b /\ b <= 143 /\ b \in Int
    BY <1>4
  <2>2. /\ c \in Int /\ 0 <= c /\ c <= 3 /\ l \in Int /\ 0 <= l /\ l <= 31 /\ b = 16 + (32 * c + l)
        /\ u \in Int /\ 0 <= u /\ u <= 1 /\ h \in Int /\ 0 <= h /\ h <= 3 /\ i = h + 4 * u
    BY <2>1
  <2> HIDE DEF c, u, l, h
  <2>3. j \in Elements(256) /\ Chunk(j) = c /\ Run(j) = u /\ Rest(j) = l
    BY <2>2, ChunkOf
  <2>4. h \in Bits(4)
    BY <1>2, <2>2
  <2> HIDE DEF j
  <2>5. Q4Byte[j][h] = 16 + Placed(32, c, l) /\ Q4Bit[j][h] = h + 4 * u
    BY <1>1, <2>3, <2>4
  <2>6. b = 16 + Placed(32, c, l) /\ i = h + 4 * u
    BY <2>2 DEF Placed
  <2>7. QED
    BY <2>3, <2>4, <2>5, <2>6
<1>9. QED
  BY <1>7, <1>8 DEF qp, H

(* The places of the scale and of the minimum of group g. *)
ScaleByte(g) == [i \in Bits(6) |-> IF g < 4 THEN 4 + g ELSE IF i < 4 THEN 8 + g ELSE g]
ScaleBit(g) == [i \in Bits(6) |-> IF g < 4 THEN i ELSE IF i < 4 THEN i ELSE i + 2]
MinByte(g) == [i \in Bits(6) |-> IF g < 4 THEN 8 + g ELSE IF i < 4 THEN 8 + g ELSE 4 + g]
MinBit(g) == [i \in Bits(6) |-> IF g < 4 THEN i ELSE IF i < 4 THEN i + 4 ELSE i + 2]
ScaleAt(g) == [i \in Bits(6) |-> <<ScaleByte(g)[i], ScaleBit(g)[i]>>]
MinAt(g) == [i \in Bits(6) |-> <<MinByte(g)[i], MinBit(g)[i]>>]

(* The first six bits of a byte. *)
LEMMA SixOfByte ==
  ASSUME NEW k \in Nat, NEW p, \A i \in Bits(6) : p[i] = <<k, i>>
  PROVE  IsWord(And(Byte(k), 0..5), 8, 6, p)
<1> DEFINE w == And(Byte(k), 0..5)
<1>1. DOMAIN w = 0..7 /\ \A i \in 0..7 : w[i] = IF i <= 5 THEN <<k, i>> ELSE Off
  BY DEF And, Byte
<1> HIDE DEF w
<1>2. \A i \in Bits(6) : i \in Bits(8) /\ i \in 0..7 /\ i <= 5
  BY DEF Bits
<1>3. /\ Bits(8) = 0..7 /\ \A i \in 0..7 : i <= 5 => i \in Bits(6)
  BY DEF Bits
<1>4. \A i : <<k, i>> # Off
  BY DEF Off
<1>5. ASSUME NEW i \in Bits(6) PROVE i \in Bits(8) /\ w[i] = p[i] /\ p[i] # Off
  <2>1. i \in Bits(8) /\ i \in 0..7 /\ i <= 5
    BY <1>2
  <2>2. w[i] = <<k, i>> /\ p[i] = <<k, i>>
    BY <1>1, <2>1
  <2>3. QED
    BY <1>4, <2>1, <2>2
<1>6. \A i \in Bits(8) : i \in Bits(6) \/ w[i] = Off
  BY <1>1, <1>3
<1>7. QED
  BY <1>1, <1>3, <1>5, <1>6 DEF IsWord, w

(* get_scale_min_k4 reads the bits of those places. *)
LEMMA ScalesRead ==
  ASSUME NEW g \in Int, 0 <= g, g <= 7,
         NEW scales, \A i \in Int : 0 <= i /\ i <= 11 => scales[i] = Byte(4 + i)
  PROVE  LET sm == get_scale_min_k4(g, scales)
         IN  IsWord(sm[1], 8, 6, ScaleAt(g)) /\ IsWord(sm[2], 8, 6, MinAt(g))
<1> DEFINE sm == get_scale_min_k4(g, scales)
           p == ScaleAt(g)
           m == MinAt(g)
<1>1. \A i \in Bits(6) : i \in Int /\ 0 <= i /\ i <= 5
  BY DEF Bits
<1>2. CASE g < 4
  <2>1. scales[g] = Byte(4 + g) /\ scales[g + 4] = Byte(8 + g)
    <3>1. 4 + (g + 4) = 8 + g /\ g + 4 \in Int /\ 0 <= g + 4 /\ g + 4 <= 11
      BY <1>2
    <3>2. scales[g + 4] = Byte(4 + (g + 4))
      BY <3>1
    <3>3. QED
      BY <3>1, <3>2
  <2>2. sm[1] = And(Byte(4 + g), 0..5) /\ sm[2] = And(Byte(8 + g), 0..5)
    BY <1>2, <2>1 DEF get_scale_min_k4
  <2>3. (\A i \in Bits(6) : p[i] = <<4 + g, i>>) /\ (\A i \in Bits(6) : m[i] = <<8 + g, i>>)
    BY <1>2 DEF ScaleAt, MinAt, ScaleByte, ScaleBit, MinByte, MinBit
  <2> DEFINE k == 4 + g
             h == 8 + g
  <2>4. k \in Nat /\ h \in Nat
    OBVIOUS
  <2> HIDE DEF p, m, sm, k, h
  <2>5. IsWord(And(Byte(k), 0..5), 8, 6, p) /\ IsWord(And(Byte(h), 0..5), 8, 6, m)
    BY <2>3, <2>4, SixOfByte DEF k, h
  <2>6. IsWord(sm[1], 8, 6, p) /\ IsWord(sm[2], 8, 6, m)
    BY <2>2, <2>5 DEF k, h
  <2>7. QED
    BY <2>6 DEF p, m, sm
<1>3. CASE g >= 4
  <2> DEFINE v == Byte(8 + g)
             low == Shl(Shr(Byte(g), 6), 4)
             high == Shl(Shr(Byte(4 + g), 6), 4)
  <2>1. scales[g + 4] = v /\ scales[g - 4] = Byte(g) /\ scales[g] = Byte(4 + g)
    <3>1. /\ 4 + (g + 4) = 8 + g /\ g + 4 \in Int /\ 0 <= g + 4 /\ g + 4 <= 11
          /\ 4 + (g - 4) = g /\ g - 4 \in Int /\ 0 <= g - 4 /\ g - 4 <= 11
      BY <1>3
    <3>2. scales[g + 4] = Byte(4 + (g + 4)) /\ scales[g - 4] = Byte(4 + (g - 4))
      BY <3>1
    <3>3. QED
      BY <3>1, <3>2
  <2>2. sm[1] = Or(And(v, Low), low) /\ sm[2] = Or(Shr(v, 4), high)
    BY <1>3, <2>1 DEF get_scale_min_k4
  <2> DEFINE c == [i \in Bits(6) |-> i + 2]
             k == 8 + g
             a == 4 + g
             b == g
             zero == 0
             one == 1
  <2>3. /\ \A i \in Bits(6) : p[i] = IF i < 4 THEN <<k, i + 4 * zero>> ELSE <<b, c[i]>>
        /\ \A i \in Bits(6) : m[i] = IF i < 4 THEN <<k, i + 4 * one>> ELSE <<a, c[i]>>
    BY <1>1, <1>3 DEF ScaleAt, MinAt, ScaleByte, ScaleBit, MinByte, MinBit
  <2>4. k \in Nat /\ a \in Nat /\ b \in Nat /\ zero \in {0, 1} /\ one \in {0, 1}
    OBVIOUS
  <2>5. \A i \in 0..7 : 4 <= i /\ i < 6 => c[i] = i + 2
    BY DEF Bits
  <2> HIDE DEF p, m, sm, k, a, b, c
  <2>6. /\ \A i \in 0..7 : low[i] = IF 4 <= i /\ i < 6 THEN <<b, c[i]>> ELSE Off
        /\ \A i \in 0..7 : high[i] = IF 4 <= i /\ i < 6 THEN <<a, c[i]>> ELSE Off
    <3>1. \A i \in 0..7 : low[i] = IF 4 <= i /\ i < 6 THEN <<b, i + 2>> ELSE Off
      BY <2>4, TopBits DEF b
    <3>2. \A i \in 0..7 : high[i] = IF 4 <= i /\ i < 6 THEN <<a, i + 2>> ELSE Off
      BY <2>4, TopBits DEF a
    <3> HIDE DEF low, high
    <3>3. QED
      BY <2>5, <3>1, <3>2
  <2> DEFINE q == And(v, Low)
             r == Shr(v, 4)
  <2>7. /\ q = IF zero = 0 THEN And(Byte(k), Low) ELSE Shr(Byte(k), 4)
        /\ r = IF one = 0 THEN And(Byte(k), Low) ELSE Shr(Byte(k), 4)
    BY DEF k
  <2> HIDE DEF v, q, r, low, high, zero, one
  <2>8. IsWord(Or(q, low), 8, 6, p)
    <3>1. JoinOf(6, p, k, zero, b, c) /\ NibbleOf(q, k, zero) /\ UpperOf(6, low, b, c)
      BY <2>3, <2>6, <2>7 DEF JoinOf, NibbleOf, UpperOf
    <3>2. QED
      BY <2>4, <3>1, JoinedWord
  <2>9. IsWord(Or(r, high), 8, 6, m)
    <3>1. JoinOf(6, m, k, one, a, c) /\ NibbleOf(r, k, one) /\ UpperOf(6, high, a, c)
      BY <2>3, <2>6, <2>7 DEF JoinOf, NibbleOf, UpperOf
    <3>2. QED
      BY <2>4, <3>1, JoinedWord
  <2>10. QED
    BY <2>2, <2>8, <2>9 DEF sm, p, m, q, r
<1>4. QED
  BY <1>2, <1>3

(* Those places are the ones group g owns. *)
LEMMA CodePlaces ==
  ASSUME NEW g \in Int, 0 <= g, g <= 7
  PROVE  /\ Marks(ScaleAt(g), 6) \cup Marks(MinAt(g), 6) = Owned(Q4Code, Q4Own, g)
         /\ Marks(ScaleAt(g), 6) \cap Marks(MinAt(g), 6) = {}
<1> DEFINE p == ScaleAt(g)
           m == MinAt(g)
<1>1. \A i : i \in Bits(6) <=> i \in Int /\ 0 <= i /\ i <= 5
  BY DEF Bits
<1>2. \A i \in Bits(6) :
        /\ p[i] = IF g < 4 THEN <<4 + g, i>> ELSE IF i < 4 THEN <<8 + g, i>> ELSE <<g, i + 2>>
        /\ m[i] = IF g < 4 THEN <<8 + g, i>> ELSE IF i < 4 THEN <<8 + g, i + 4>> ELSE <<4 + g, i + 2>>
  BY DEF ScaleAt, MinAt, ScaleByte, ScaleBit, MinByte, MinBit
<1>0. /\ g < 4 => \A i \in Bits(6) : p[i] = <<4 + g, i>> /\ m[i] = <<8 + g, i>>
      /\ g >= 4 => \A i \in Bits(6) : /\ i < 4 => p[i] = <<8 + g, i>> /\ m[i] = <<8 + g, i + 4>>
                                      /\ ~(i < 4) => p[i] = <<g, i + 2>> /\ m[i] = <<4 + g, i + 2>>
  <2>1. CASE g < 4
    BY <1>2, <2>1
  <2>2. CASE g >= 4
    <3>1. ~(g < 4)
      BY <2>2
    <3>2. ASSUME NEW i \in Bits(6)
          PROVE  /\ i < 4 => p[i] = <<8 + g, i>> /\ m[i] = <<8 + g, i + 4>>
                 /\ ~(i < 4) => p[i] = <<g, i + 2>> /\ m[i] = <<4 + g, i + 2>>
      BY <1>2, <3>1
    <3>3. QED
      BY <2>2, <3>1, <3>2
  <2>3. QED
    BY <2>1, <2>2
<1>3. \A b, h \in Int : 4 <= b /\ b <= 15 /\ 0 <= h /\ h <= 7 =>
        /\ <<b, h>> \in Q4Code \X (0..7)
        /\ Q4Own[<<b, h>>] = IF b >= 12 THEN b - 8
                            ELSE IF b <= 7 THEN IF h <= 5 THEN b - 4 ELSE b
                            ELSE IF h <= 5 THEN b - 8 ELSE b - 4
  BY DEF Q4Own, Q4Code
<1> HIDE DEF p, m
<1>4. ASSUME NEW i \in Bits(6) PROVE p[i] \in Owned(Q4Code, Q4Own, g) /\ m[i] \in Owned(Q4Code, Q4Own, g)
  <2>1. i \in Int /\ 0 <= i /\ i <= 5
    BY <1>1
  <2> DEFINE b == IF g < 4 THEN 4 + g ELSE IF i < 4 THEN 8 + g ELSE g
             h == IF g < 4 THEN i ELSE IF i < 4 THEN i ELSE i + 2
             d == IF g < 4 THEN 8 + g ELSE IF i < 4 THEN 8 + g ELSE 4 + g
             e == IF g < 4 THEN i ELSE IF i < 4 THEN i + 4 ELSE i + 2
  <2>2. /\ p[i] = <<b, h>> /\ m[i] = <<d, e>> /\ b \in Int /\ h \in Int /\ d \in Int /\ e \in Int
        /\ \/ g < 4 /\ b = 4 + g /\ h = i /\ d = 8 + g /\ e = i
           \/ g >= 4 /\ i < 4 /\ b = 8 + g /\ h = i /\ d = 8 + g /\ e = i + 4
           \/ g >= 4 /\ i >= 4 /\ b = g /\ h = i + 2 /\ d = 4 + g /\ e = i + 2
    <3>1. CASE g < 4
      BY <1>0, <2>1, <3>1
    <3>2. CASE g >= 4 /\ i < 4
      BY <1>0, <2>1, <3>2
    <3>3. CASE g >= 4 /\ i >= 4
      BY <1>0, <2>1, <3>3
    <3>4. QED
      BY <2>1, <3>1, <3>2, <3>3
  <2> HIDE DEF b, h, d, e
  <2>3. p[i] \in Q4Code \X (0..7) /\ Q4Own[p[i]] = g
    <3>1. 4 <= b /\ b <= 15 /\ 0 <= h /\ h <= 7
      BY <2>1, <2>2
    <3>2. <<b, h>> \in Q4Code \X (0..7) /\ Q4Own[<<b, h>>] = g
      BY <1>3, <2>1, <2>2, <3>1
    <3>3. QED
      BY <2>2, <3>2
  <2>4. m[i] \in Q4Code \X (0..7) /\ Q4Own[m[i]] = g
    <3>1. 4 <= d /\ d <= 15 /\ 0 <= e /\ e <= 7
      BY <2>1, <2>2
    <3>2. <<d, e>> \in Q4Code \X (0..7) /\ Q4Own[<<d, e>>] = g
      BY <1>3, <2>1, <2>2, <3>1
    <3>3. QED
      BY <2>2, <3>2
  <2>5. QED
    BY <2>3, <2>4 DEF Owned
<1>5. ASSUME NEW x \in Owned(Q4Code, Q4Own, g) PROVE \E i \in Bits(6) : x = p[i] \/ x = m[i]
  <2>1. x \in Q4Code \X (0..7) /\ Q4Own[x] = g
    BY DEF Owned
  <2>2. PICK b \in Q4Code, h \in 0..7 : x = <<b, h>>
    BY <2>1
  <2>3. b \in Int /\ 4 <= b /\ b <= 15 /\ h \in Int /\ 0 <= h /\ h <= 7
    BY DEF Q4Code
  <2>4. g = IF b >= 12 THEN b - 8
            ELSE IF b <= 7 THEN IF h <= 5 THEN b - 4 ELSE b
            ELSE IF h <= 5 THEN b - 8 ELSE b - 4
    BY <1>3, <2>1, <2>2, <2>3
  <2>5. CASE b >= 12 /\ h < 4
    <3>1. h \in Bits(6) /\ g >= 4 /\ b = 8 + g
      BY <1>1, <2>3, <2>4, <2>5
    <3>2. x = p[h]
      BY <1>0, <2>2, <2>5, <3>1
    <3>3. QED
      BY <3>1, <3>2
  <2>6. CASE b >= 12 /\ h >= 4
    <3>1. h - 4 \in Bits(6) /\ g >= 4 /\ b = 8 + g /\ h - 4 < 4 /\ (h - 4) + 4 = h
      BY <1>1, <2>3, <2>4, <2>6
    <3>2. x = m[h - 4]
      BY <1>0, <2>2, <3>1
    <3>3. QED
      BY <3>1, <3>2
  <2>7. CASE b <= 7 /\ h <= 5
    <3>1. h \in Bits(6) /\ g < 4 /\ b = 4 + g
      BY <1>1, <2>3, <2>4, <2>7
    <3>2. x = p[h]
      BY <1>0, <2>2, <3>1
    <3>3. QED
      BY <3>1, <3>2
  <2>8. CASE b <= 7 /\ h > 5
    <3>1. h - 2 \in Bits(6) /\ g >= 4 /\ b = g /\ ~(h - 2 < 4) /\ (h - 2) + 2 = h
      BY <1>1, <2>3, <2>4, <2>8
    <3>2. x = p[h - 2]
      BY <1>0, <2>2, <3>1
    <3>3. QED
      BY <3>1, <3>2
  <2>9. CASE b > 7 /\ b < 12 /\ h <= 5
    <3>1. h \in Bits(6) /\ g < 4 /\ b = 8 + g
      BY <1>1, <2>3, <2>4, <2>9
    <3>2. x = m[h]
      BY <1>0, <2>2, <3>1
    <3>3. QED
      BY <3>1, <3>2
  <2>10. CASE b > 7 /\ b < 12 /\ h > 5
    <3>1. h - 2 \in Bits(6) /\ g >= 4 /\ b = 4 + g /\ ~(h - 2 < 4) /\ (h - 2) + 2 = h
      BY <1>1, <2>3, <2>4, <2>10
    <3>2. x = m[h - 2]
      BY <1>0, <2>2, <3>1
    <3>3. QED
      BY <3>1, <3>2
  <2>11. QED
    BY <2>3, <2>5, <2>6, <2>7, <2>8, <2>9, <2>10
<1>6. ASSUME NEW i \in Bits(6), NEW h \in Bits(6) PROVE p[i] # m[h]
  <2>1. i \in Int /\ 0 <= i /\ i <= 5 /\ h \in Int /\ 0 <= h /\ h <= 5
    BY <1>1
  <2>2. CASE g < 4
    BY <1>0, <2>2
  <2>3. CASE g >= 4 /\ i < 4 /\ h < 4
    BY <1>0, <2>1, <2>3
  <2>4. CASE g >= 4 /\ i < 4 /\ ~(h < 4)
    BY <1>0, <2>1, <2>4
  <2>5. CASE g >= 4 /\ ~(i < 4) /\ h < 4
    BY <1>0, <2>1, <2>5
  <2>6. CASE g >= 4 /\ ~(i < 4) /\ ~(h < 4)
    BY <1>0, <2>1, <2>6
  <2>7. QED
    BY <2>1, <2>2, <2>3, <2>4, <2>5, <2>6
<1>7. Marks(p, 6) \cup Marks(m, 6) = Owned(Q4Code, Q4Own, g)
  BY <1>4, <1>5 DEF Marks
<1>8. Marks(p, 6) \cap Marks(m, 6) = {}
  BY <1>6 DEF Marks
<1>9. QED
  BY <1>7, <1>8 DEF p, m

(* The powers of two that the conversion needs. *)
LEMMA Powers ==
  /\ Two(0) = 1 /\ Two(1) = 2 /\ Two(2) = 4 /\ Two(3) = 8 /\ Two(4) = 16 /\ Two(5) = 32
  /\ Two(6) = 64 /\ Two(7) = 128 /\ Two(8) = 256 /\ Two(9) = 512 /\ Two(10) = 1024
  /\ Two(13) = 8192 /\ Two(14) = 16384 /\ Two(15) = 32768 /\ Two(16) = 65536
  /\ Two(17) = 131072 /\ Two(18) = 262144 /\ Two(19) = 524288 /\ Two(20) = 1048576
  /\ Two(21) = 2097152 /\ Two(22) = 4194304 /\ Two(23) = 8388608
BY DEF Two

(* Powers of two are integers. *)
LEMMA TwoIsInt == \A n \in 0..24 : Two(n) \in Int
  BY DEF Two

(* The mantissa of a subnormal half: its highest bit is bit p - 1, and      *)
(* shifted up until that is bit 23 it is a significand without it.          *)
Highest(frac, n) == frac < Two(n) /\ (n = 0 \/ frac >= Two(n - 1))
Raised(frac, n) == 0 <= frac * Two(n) - Two(23) /\ frac * Two(n) - Two(23) < Two(23)

(* A subnormal has a highest bit. *)
LEMMA HighestBit ==
  ASSUME NEW frac \in Int, 1 <= frac, frac <= 1023
  PROVE  /\ \E n \in 1..10 : Highest(frac, n)
         /\ ~Highest(frac, 0)
<1>1. /\ frac < 2 => Highest(frac, 1)
      /\ frac >= 2 /\ frac < 4 => Highest(frac, 2)
      /\ frac >= 4 /\ frac < 8 => Highest(frac, 3)
      /\ frac >= 8 /\ frac < 16 => Highest(frac, 4)
      /\ frac >= 16 /\ frac < 32 => Highest(frac, 5)
      /\ frac >= 32 /\ frac < 64 => Highest(frac, 6)
      /\ frac >= 64 /\ frac < 128 => Highest(frac, 7)
      /\ frac >= 128 /\ frac < 256 => Highest(frac, 8)
      /\ frac >= 256 /\ frac < 512 => Highest(frac, 9)
      /\ frac >= 512 => Highest(frac, 10)
  BY Powers DEF Highest
<1>2. ~Highest(frac, 0)
  BY Powers DEF Highest
<1>3. QED
  BY <1>1, <1>2

(* Shifted up until that is bit 23, it is a significand. *)
LEMMA RaisedIs ==
  ASSUME NEW frac \in Int, NEW n \in 1..10, Highest(frac, n)
  PROVE  Raised(frac, 24 - n)
<1>1. /\ Highest(frac, 1) => Raised(frac, 23)
      /\ Highest(frac, 2) => Raised(frac, 22)
      /\ Highest(frac, 3) => Raised(frac, 21)
      /\ Highest(frac, 4) => Raised(frac, 20)
      /\ Highest(frac, 5) => Raised(frac, 19)
  BY Powers DEF Highest, Raised
<1>2. /\ Highest(frac, 6) => Raised(frac, 18)
      /\ Highest(frac, 7) => Raised(frac, 17)
      /\ Highest(frac, 8) => Raised(frac, 16)
      /\ Highest(frac, 9) => Raised(frac, 15)
      /\ Highest(frac, 10) => Raised(frac, 14)
  BY Powers DEF Highest, Raised
<1>3. n = 1 \/ n = 2 \/ n = 3 \/ n = 4 \/ n = 5 \/ n = 6 \/ n = 7 \/ n = 8 \/ n = 9 \/ n = 10
  OBVIOUS
<1>4. /\ 24 - 1 = 23 /\ 24 - 2 = 22 /\ 24 - 3 = 21 /\ 24 - 4 = 20 /\ 24 - 5 = 19
      /\ 24 - 6 = 18 /\ 24 - 7 = 17 /\ 24 - 8 = 16 /\ 24 - 9 = 15 /\ 24 - 10 = 14
  OBVIOUS
<1>5. QED
  BY <1>1, <1>2, <1>3, <1>4

(* The fraction of a normal half, shifted by 13, fits the mantissa. *)
LEMMA Fractions ==
  ASSUME NEW frac \in Int, 0 <= frac, frac <= 1023
  PROVE  /\ 0 <= frac * Two(13) /\ frac * Two(13) <= Two(23) - 1
         /\ Two(23) + frac * Two(13) = (Two(10) + frac) * Two(13)
<1>1. Two(10) = 1024 /\ Two(13) = 8192 /\ Two(23) = 8388608
  BY Powers
<1>2. 0 <= frac * 8192 /\ frac * 8192 <= 8388607 /\ 8388608 + frac * 8192 = (1024 + frac) * 8192
  OBVIOUS
<1>3. QED
  BY <1>1, <1>2

(* The fields of a half are in their ranges. *)
LEMMA FieldsOf ==
  ASSUME NEW bits \in Int
  PROVE  /\ (bits \div Two(10)) % 32 \in 0..31
         /\ bits % Two(10) \in Int /\ 0 <= bits % Two(10) /\ bits % Two(10) <= 1023
<1>1. Two(10) = 1024
  BY Powers
<1>2. /\ bits \div 1024 \in Int /\ bits % 1024 \in Int
      /\ 0 <= bits % 1024 /\ bits % 1024 <= 1023
  OBVIOUS
<1>3. \A e \in Int : e % 32 \in 0..31
  OBVIOUS
<1>4. QED
  BY <1>1, <1>2, <1>3

(* The three fields of a half, by its exponent. *)
LEMMA HalfStep ==
  ASSUME NEW bits \in Int, half_to_f32(bits)
  PROVE  HalfExact'
<1> DEFINE exp == (bits \div Two(10)) % 32
           frac == bits % Two(10)
           sign == bits \div Two(15)
           p == CHOOSE n \in 0..10 : Highest(frac, n)
           fields == IF exp = 0 THEN IF frac = 0 THEN <<0, 0>>
                                     ELSE <<p + 102, frac * Two(24 - p) - Two(23)>>
                     ELSE IF exp = 31 THEN <<255, frac * Two(13)>>
                     ELSE <<exp + 112, frac * Two(13)>>
<1>1. exp \in 0..31 /\ frac \in Int /\ 0 <= frac /\ frac <= 1023
  BY FieldsOf
<1>2. out' = [op |-> "half", bits |-> bits, sign |-> sign, exp |-> fields[1], mantissa |-> fields[2]]
  BY DEF half_to_f32, Highest
<1>3. ASSUME frac # 0 PROVE p \in 1..10 /\ Highest(frac, p)
  <2> DEFINE H(n) == Highest(frac, n)
  <2> HIDE DEF frac
  <2>1. (\E n \in 1..10 : H(n)) /\ ~H(0)
    BY <1>1, <1>3, HighestBit
  <2> HIDE DEF H
  <2>2. p = CHOOSE n \in 0..10 : H(n)
    BY DEF H
  <2> HIDE DEF p
  <2>3. p \in 0..10 /\ H(p)
    BY <2>1, <2>2
  <2>4. p # 0
    BY <2>1, <2>3
  <2>5. p \in 1..10
    BY <2>3, <2>4
  <2>6. QED
    BY <2>3, <2>5 DEF H
<1>4. /\ HalfExact' <=> LET significand == IF exp = 0 THEN frac ELSE Two(10) + frac
                            scale == (IF exp = 0 THEN 1 ELSE exp) + 125 - out'.exp
                        IN  IF exp = 31 THEN out'.exp = 255 /\ (out'.mantissa = 0 <=> frac = 0)
                            ELSE IF exp = 0 /\ frac = 0 THEN out'.exp = 0 /\ out'.mantissa = 0
                            ELSE /\ out'.mantissa \in 0..(Two(23) - 1)
                                 /\ out'.exp \in 1..254
                                 /\ scale \in 0..23
                                 /\ Two(23) + out'.mantissa = significand * Two(scale)
  <2>1. out'.op = "half" /\ out'.bits = bits /\ out'.sign = sign
    BY <1>2
  <2>2. QED
    BY <2>1 DEF HalfExact
<1> HIDE DEF exp, frac, p, sign
<1>5. /\ out'.exp = IF exp = 0 THEN IF frac = 0 THEN 0 ELSE p + 102
                    ELSE IF exp = 31 THEN 255 ELSE exp + 112
      /\ out'.mantissa = IF exp = 0 THEN IF frac = 0 THEN 0 ELSE frac * Two(24 - p) - Two(23)
                         ELSE frac * Two(13)
  BY <1>2
<1>6. Two(23) \in Int /\ Two(13) \in Int /\ Two(23) = 8388608 /\ Two(13) = 8192
  BY Powers
<1>7. CASE exp = 31
  <2>1. frac * 8192 = 0 <=> frac = 0
    BY <1>1
  <2>2. QED
    BY <1>4, <1>5, <1>6, <1>7, <2>1
<1>8. CASE exp = 0 /\ frac = 0
  BY <1>4, <1>5, <1>8
<1>9. CASE exp = 0 /\ frac # 0
  <2>1. out'.exp = p + 102 /\ out'.mantissa = frac * Two(24 - p) - Two(23)
    BY <1>5, <1>9
  <2>2. p \in 1..10 /\ Raised(frac, 24 - p)
    BY <1>1, <1>3, <1>9, RaisedIs
  <2>3. 1 + 125 - out'.exp = 24 - p /\ out'.exp \in 1..254 /\ 24 - p \in 0..23
    BY <2>1, <2>2
  <2>4. Two(24 - p) \in Int
    BY <2>3, TwoIsInt
  <2> DEFINE product == frac * Two(24 - p)
  <2>5. product \in Int /\ 0 <= product - Two(23) /\ product - Two(23) < Two(23)
    BY <1>1, <2>2, <2>4 DEF Raised
  <2>6. out'.mantissa = product - Two(23)
    BY <2>1
  <2> HIDE DEF product
  <2>7. out'.mantissa \in 0..(Two(23) - 1) /\ Two(23) + out'.mantissa = product
    BY <1>6, <2>5, <2>6
  <2>8. QED
    BY <1>4, <1>9, <2>3, <2>7 DEF product
<1>10. CASE exp # 0 /\ exp # 31
  <2>1. out'.exp = exp + 112 /\ out'.mantissa = frac * Two(13)
    BY <1>5, <1>10
  <2>2. exp + 125 - out'.exp = 13 /\ out'.exp \in 1..254 /\ 13 \in 0..23
    BY <1>1, <1>10, <2>1
  <2>3. /\ 0 <= out'.mantissa /\ out'.mantissa <= Two(23) - 1
        /\ Two(23) + out'.mantissa = (Two(10) + frac) * Two(13)
    BY <1>1, <2>1, Fractions
  <2>4. out'.mantissa \in 0..(Two(23) - 1)
    BY <1>1, <1>6, <2>1, <2>3
  <2>5. QED
    BY <1>4, <1>10, <2>2, <2>3, <2>4
<1>11. QED
  BY <1>7, <1>8, <1>9, <1>10

(* Each bit of the codes of q4_k is of one group of 32 elements. *)
LEMMA Q4Codes ==
  /\ GroupsOf(256, 32) /\ OwnedBy(256, 32, Q4Code, Q4Own)
<1>1. GroupsOf(256, 32)
  <2>1. ASSUME NEW j \in Elements(256)
        PROVE  /\ (j \div 32) * 32 \in Elements(256) /\ ((j \div 32) * 32) \div 32 = j \div 32
               /\ j % 32 = 0 => j = (j \div 32) * 32
    BY DEF Elements
  <2>2. QED
    BY <2>1 DEF GroupsOf
<1>2. ASSUME NEW x \in Q4Code \X (0..7)
      PROVE  /\ Q4Own[x] * 32 \in Elements(256) /\ (Q4Own[x] * 32) \div 32 = Q4Own[x]
             /\ (Q4Own[x] * 32) % 32 = 0
  <2>1. PICK b \in Q4Code, h \in 0..7 : x = <<b, h>>
    OBVIOUS
  <2>2. b \in Int /\ 4 <= b /\ b <= 15 /\ h \in Int /\ 0 <= h /\ h <= 7 /\ x[1] = b /\ x[2] = h
    BY <2>1 DEF Q4Code
  <2>3. Q4Own[x] = IF b >= 12 THEN b - 8
                   ELSE IF b <= 7 THEN IF h <= 5 THEN b - 4 ELSE b
                   ELSE IF h <= 5 THEN b - 8 ELSE b - 4
    BY <2>2 DEF Q4Own
  <2> DEFINE o == Q4Own[x]
  <2>4. o \in Int /\ 0 <= o /\ o <= 7
    BY <2>2, <2>3
  <2> HIDE DEF o
  <2>5. o * 32 \in Elements(256) /\ (o * 32) \div 32 = o /\ (o * 32) % 32 = 0
    BY <2>4 DEF Elements
  <2>6. QED
    BY <2>5 DEF o
<1>3. OwnedBy(256, 32, Q4Code, Q4Own)
  BY <1>2, Zenon DEF OwnedBy
<1>4. QED
  BY <1>1, <1>3

(* dequant_q4_k takes its block apart. *)
LEMMA Q4Apart == TakenApart(dequant_q4_k(Block(144)), Formats["Q4_K"])
<1> DEFINE y == dequant_q4_k(Block(144))
           qp == Paired(256, 4, Q4Byte, Q4Bit)
           scales == Bytes(Block(144), 4, 16)
           qs == Bytes(Block(144), 16, 144)
           k(j) == 16 + Placed(32, Chunk(j), Rest(j))
           sm(j) == get_scale_min_k4(j \div 32, scales)
           word == [j \in Elements(256) |->
                      IF Run(j) = 0 THEN And(Byte(k(j)), Low) ELSE Shr(Byte(k(j)), 4)]
<1>1. /\ \A i \in Int : 0 <= i /\ i <= 11 => scales[i] = Byte(4 + i)
      /\ \A i \in Int : 0 <= i /\ i <= 127 => qs[i] = Byte(16 + i)
  <2>1. ASSUME NEW i \in Int, 0 <= i, i <= 11 PROVE scales[i] = Byte(4 + i)
    <3>1. scales[i] = Block(144)[4 + i]
      BY <2>1 DEF Bytes
    <3>2. 4 + i \in 0..(144 - 1)
      BY <2>1
    <3>3. QED
      BY <3>1, <3>2, BlockIs
  <2>2. ASSUME NEW i \in Int, 0 <= i, i <= 127 PROVE qs[i] = Byte(16 + i)
    <3>1. i \in 0..(144 - 16 - 1)
      BY <2>2
    <3>2. QED
      BY <3>1, BytesAre
  <2>3. QED
    BY <2>1, <2>2
<1> HIDE DEF scales, qs
<1>2. DOMAIN y = Elements(256)
  BY DEF dequant_q4_k, Elements
<1>3. ASSUME NEW j \in Elements(256)
      PROVE  y[j] = Element(word[j], sm(j)[1], sm(j)[2], 0..3)
  <2> DEFINE chunk == j \div 64
             l == j % 32
             upper == (j % 64) \div 32
             group == 2 * chunk + upper
             byte == qs[32 * chunk + l]
  <2>1. y[j] = Element(IF upper = 0 THEN And(byte, Low) ELSE Shr(byte, 4),
                       get_scale_min_k4(group, scales)[1], get_scale_min_k4(group, scales)[2], 0..3)
    BY DEF dequant_q4_k, qs, scales, Elements
  <2>2. chunk = Chunk(j) /\ l = Rest(j) /\ upper = Run(j)
    BY DEF Chunk, Rest, Run
  <2>3. Chunked(j) /\ j \div 32 = 2 * Chunk(j) + Run(j)
    BY ChunksOf
  <2> DEFINE g == j \div 32
             o == Placed(32, Chunk(j), Rest(j))
  <2>4. group = g
    BY <2>2, <2>3
  <2>5. o \in Int /\ 0 <= o /\ o <= 127
    BY <2>3 DEF Chunked, Placed
  <2>6. 32 * chunk + l = o
    BY <2>2 DEF Placed
  <2> HIDE DEF chunk, l, upper, group, g, o
  <2>7. byte = Byte(16 + o)
    BY <1>1, <2>5, <2>6
  <2>8. word[j] = IF Run(j) = 0 THEN And(Byte(16 + o), Low) ELSE Shr(Byte(16 + o), 4)
    BY DEF o
  <2>9. sm(j) = get_scale_min_k4(g, scales)
    BY DEF g
  <2> HIDE DEF y, word, sm, byte
  <2>10. QED
    BY <2>1, <2>2, <2>4, <2>7, <2>8, <2>9
<1> HIDE DEF y
<1>4. ASSUME NEW j \in Elements(256) PROVE IsWord(word[j], 8, 4, qp[j])
  <2> DEFINE p == qp[j]
             kk == k(j)
             u == Run(j)
  <2>1. Chunked(j)
    BY ChunksOf
  <2>2. kk \in Nat /\ u \in {0, 1}
    BY <2>1 DEF Chunked, Placed
  <2>3. \A i \in Bits(4) : p[i] = <<kk, i + 4 * u>>
    BY DEF Paired, Q4Byte, Q4Bit
  <2>4. word[j] = IF u = 0 THEN And(Byte(kk), Low) ELSE Shr(Byte(kk), 4)
    OBVIOUS
  <2> HIDE DEF p, kk, u, word
  <2>5. IsWord(IF u = 0 THEN And(Byte(kk), Low) ELSE Shr(Byte(kk), 4), 8, 4, p)
    BY <2>2, <2>3, NibbleWord
  <2>6. QED
    BY <2>4, <2>5 DEF p
<1> HIDE DEF word, sm, k
<1>5. ASSUME NEW j \in Elements(256)
      PROVE  /\ Labels(sm(j)[1]) \cup Labels(sm(j)[2]) = Owned(Q4Code, Q4Own, j \div 32)
             /\ Labels(sm(j)[1]) \cap Labels(sm(j)[2]) = {}
  <2> DEFINE g == j \div 32
  <2>1. g \in Int /\ 0 <= g /\ g <= 7
    BY DEF Elements
  <2>2. sm(j) = get_scale_min_k4(g, scales)
    BY DEF sm
  <2> HIDE DEF g
  <2>3. IsWord(sm(j)[1], 8, 6, ScaleAt(g)) /\ IsWord(sm(j)[2], 8, 6, MinAt(g))
    BY <1>1, <2>1, <2>2, ScalesRead
  <2>4. Labels(sm(j)[1]) = Marks(ScaleAt(g), 6) /\ Labels(sm(j)[2]) = Marks(MinAt(g), 6)
    BY <2>3, WordLabels
  <2>5. /\ Labels(sm(j)[1]) \cup Labels(sm(j)[2]) = Owned(Q4Code, Q4Own, g)
        /\ Labels(sm(j)[1]) \cap Labels(sm(j)[2]) = {}
    BY <2>1, <2>4, CodePlaces
  <2>6. QED
    BY <2>5 DEF g
<1> DEFINE H == 0..3
<1>6. Scaled(y, 256, 8, 4, 32, H, Q4Code, word, Q4Byte, Q4Bit, Q4Own)
  <2>1. ASSUME NEW j \in Elements(256)
        PROVE  /\ y[j].q = word[j] /\ y[j].half = H
               /\ Labels(y[j].scale) \cup Labels(y[j].min) = Owned(Q4Code, Q4Own, j \div 32)
               /\ Labels(y[j].scale) \cap Labels(y[j].min) = {}
    <3> HIDE DEF H
    <3>1. y[j] = Element(word[j], sm(j)[1], sm(j)[2], H)
      BY <1>3 DEF H
    <3>2. /\ y[j].q = word[j] /\ y[j].half = H
          /\ y[j].scale = sm(j)[1] /\ y[j].min = sm(j)[2]
      BY <3>1 DEF Element
    <3>3. QED
      BY <1>5, <3>2
  <2>2. QED
    BY <1>2, <1>4, <2>1 DEF Scaled
<1>7. H \cap Q4Code = {}
  BY DEF Q4Code
<1>8. /\ Places(144, 256, 4, H \cup Q4Code, qp, Q4Byte, Q4Bit)
      /\ Filled(144, 256, 4, H \cup Q4Code, Q4Byte, Q4Bit)
  BY Q4Places
<1> HIDE DEF qp, H
<1>9. TakenApart(y, <<144, 4, 32>>)
  BY <1>6, <1>7, <1>8, Q4Codes, ScaledApart DEF qp
<1>10. QED
  BY <1>9 DEF y, Formats

----------------------------------------------------------------------------
(* src/dequant.rs and src/packed_numeric.rs: for every format, the kernel   *)
(* reads each bit of a block for one purpose, no quant bit for two elements *)
(* and no code bit for two groups, and for every one of the half patterns   *)
(* given, half_to_f32 yields the sign, the exponent and the mantissa of     *)
(* exactly its value.                                                       *)
THEOREM DequantsAreExact == DequantSpec => []DequantExact
<1>1. DequantInit => DequantExact
  BY DEF DequantInit, NoOut, DequantExact, EachBitOnce, HalfExact
<1>2. DequantExact /\ [DequantNext]_out => DequantExact'
  <2> SUFFICES ASSUME DequantExact, [DequantNext]_out PROVE DequantExact'
    OBVIOUS
  <2>1. ASSUME NEW t \in DOMAIN Formats, dequant_block(t) PROVE DequantExact'
    <3>1. t \in {"F32", "Q8_0", "Q5_0", "Q4_K", "Q6_K", "U4"}
      BY DEF Formats
    <3>2. /\ Formats["F32"][1] = 4 /\ Formats["Q8_0"][1] = 34 /\ Formats["Q5_0"][1] = 22
          /\ Formats["Q4_K"][1] = 144 /\ Formats["Q6_K"][1] = 210 /\ Formats["U4"][1] = 4
      BY DEF Formats
    <3> DEFINE b == Block(Formats[t][1])
               y == CASE t = "F32" -> dequant_f32(b)
                      [] t = "Q8_0" -> dequant_q8_0(b)
                      [] t = "Q5_0" -> dequant_q5_0(b)
                      [] t = "Q4_K" -> dequant_q4_k(b)
                      [] t = "Q6_K" -> dequant_q6_k(b)
                      [] t = "U4" -> packed_u4_dequantize(b)
    <3>3. out' = [op |-> "block", type |-> t, y |-> y]
      BY <2>1 DEF dequant_block
    <3>4. TakenApart(y, Formats[t])
      <4>1. CASE t = "F32"
        BY <3>2, <4>1, F32Apart
      <4>2. CASE t = "Q8_0"
        BY <3>2, <4>2, Q8Apart
      <4>3. CASE t = "Q5_0"
        BY <3>2, <4>3, Q5Apart
      <4>4. CASE t = "Q4_K"
        BY <3>2, <4>4, Q4Apart
      <4>5. CASE t = "Q6_K"
        BY <3>2, <4>5, Q6Apart
      <4>6. CASE t = "U4"
        BY <3>2, <4>6, U4Apart
      <4>7. QED
        BY <3>1, <4>1, <4>2, <4>3, <4>4, <4>5, <4>6
    <3> HIDE DEF y
    <3>5. out'.op = "block" /\ out'.type = t /\ out'.y = y
      BY <3>3
    <3>6. QED
      BY <3>4, <3>5 DEF DequantExact, EachBitOnce, HalfExact
  <2>2. ASSUME NEW h \in Halves, half_to_f32(h) PROVE DequantExact'
    <3>1. h \in Int
      BY HalvesAssumption, TwoIsInt
    <3>2. HalfExact'
      BY <2>2, <3>1, HalfStep
    <3>3. out'.op = "half"
      BY <2>2 DEF half_to_f32
    <3>4. QED
      BY <3>2, <3>3 DEF DequantExact, EachBitOnce
  <2>3. CASE UNCHANGED out
    BY <2>3 DEF DequantExact, EachBitOnce, HalfExact
  <2>4. QED
    BY <2>1, <2>2, <2>3 DEF DequantNext
<1>3. QED
  BY <1>1, <1>2, PTL DEF DequantSpec
=============================================================================
