--------------------------- MODULE SequenceState ---------------------------
(***************************************************************************)
(* The transactional token mutation of an inference sequence               *)
(* (src/src/session.rs, SequenceState::commit) and the invocations that    *)
(* commit to it.  An invocation reads the sequence's position and KV       *)
(* generation when it is built and submits its TokenCommit later, when the *)
(* sequence may have moved on; it submits it again when the                *)
(* acknowledgement is lost.  The code asks nothing of the transaction that *)
(* did the work but a boundary to name, so neither does the model.         *)
(***************************************************************************)
EXTENDS Integers, Sequences, FiniteSets

CONSTANTS
  Invocation,   \* prefill and decode steps
  Token,        \* token ids
  Prompts,      \* the prompts a sequence may start from
  MaxSubmits    \* bound on the submissions of one commit

ASSUME PromptsAssumption == Prompts \subseteq Seq(Token)
ASSUME BoundAssumption == MaxSubmits \in Nat

VARIABLES
  history, position, generations,  \* token_history, position, kv_generations
  started,     \* the invocations that have been built
  commit,      \* the TokenCommit of each invocation
  submits,     \* how often it has been submitted
  outcome,     \* the last answer to it
  applied      \* how often it has advanced the sequence (history)

sequenceVars == <<history, position, generations>>
vars == <<sequenceVars, started, commit, submits, outcome, applied>>

Outcomes == {"None", "Applied", "IdempotentReplay", "NoPublicationBoundary",
             "OutOfOrderPosition", "KvGenerationGap"}
NoCommit == <<>>
TokenCommit == [token : Token, position : Nat, generation : Nat, boundary : BOOLEAN]

(* SequenceState::new over a prompt. *)
Init ==
  /\ history \in Prompts
  /\ position = Len(history) /\ generations = Len(history)
  /\ started = [i \in Invocation |-> FALSE]
  /\ commit = [i \in Invocation |-> NoCommit]
  /\ submits = [i \in Invocation |-> 0]
  /\ outcome = [i \in Invocation |-> "None"]
  /\ applied = [i \in Invocation |-> 0]

NewCommit(t, b) ==
  [token |-> t, position |-> position, generation |-> generations + 1, boundary |-> b]

(* An invocation is built at the sequence's position and selects a token;  *)
(* `boundary' says whether its transaction has a publication boundary.     *)
Invoke(i) ==
  /\ ~started[i]
  /\ started' = [started EXCEPT ![i] = TRUE]
  /\ \E t \in Token, b \in BOOLEAN :
       commit' = [commit EXCEPT ![i] = NewCommit(t, b)]
  /\ UNCHANGED <<sequenceVars, submits, outcome, applied>>

(* A replay test that forgets the token. *)
ReplayAnyToken(c) ==
  /\ c.position = (IF position > 0 THEN position - 1 ELSE 0)
  /\ c.generation = generations /\ history # <<>>

(* A replay test that looks one position ahead. *)
ReplayOfNext(c) ==
  /\ c.position = position
  /\ c.generation = generations
  /\ history # <<>> /\ history[Len(history)] = c.token

(* The exact last committed token, submitted again.  position - 1          *)
(* saturates at zero.                                                      *)
IsReplay(c) ==
  /\ c.position = (IF position > 0 THEN position - 1 ELSE 0)
  /\ c.generation = generations
  /\ history # <<>> /\ history[Len(history)] = c.token

Answer(c) ==
  IF ~c.boundary THEN "NoPublicationBoundary"
  ELSE IF IsReplay(c) THEN "IdempotentReplay"
  ELSE IF c.position # position THEN "OutOfOrderPosition"
  ELSE IF c.generation # generations + 1 THEN "KvGenerationGap"
  ELSE "Applied"

(* An advance that moves neither counter, and one that leaves a counter    *)
(* behind.                                                                 *)
AdvanceHistory(c) == history' = Append(history, c.token) /\ UNCHANGED <<position, generations>>

AdvanceGeneration(c) ==
  /\ history' = Append(history, c.token)
  /\ generations' = generations + 1
  /\ UNCHANGED position

(* The token, the position and the generations advance together. *)
Advance(c) ==
  /\ history' = Append(history, c.token)
  /\ position' = position + 1
  /\ generations' = generations + 1

(* SequenceState::commit *)
Submit(i) ==
  /\ started[i] /\ submits[i] < MaxSubmits
  /\ submits' = [submits EXCEPT ![i] = @ + 1]
  /\ outcome' = [outcome EXCEPT ![i] = Answer(commit[i])]
  /\ IF Answer(commit[i]) = "Applied"
     THEN Advance(commit[i]) /\ applied' = [applied EXCEPT ![i] = @ + 1]
     ELSE UNCHANGED <<sequenceVars, applied>>
  /\ UNCHANGED <<started, commit>>

Next == \E i \in Invocation : Invoke(i) \/ Submit(i)

Spec == Init /\ [][Next]_vars

----------------------------------------------------------------------------
(* Every variable has its type. *)
TypeOK ==
  /\ history \in Seq(Token) /\ position \in Nat /\ generations \in Nat
  /\ started \in [Invocation -> BOOLEAN]
  /\ commit \in [Invocation -> TokenCommit \cup {NoCommit}]
  /\ \A i \in Invocation : started[i] => commit[i] \in TokenCommit
  /\ outcome \in [Invocation -> Outcomes]
  /\ applied \in [Invocation -> Nat]

(* Token history, position and KV generations never drift apart, so the    *)
(* next invocation is built for the KV row that is really next.            *)
AdvancesTogether == position = Len(history) /\ generations = Len(history)

(* However often a commit is submitted, and whatever was committed in the  *)
(* meantime, it advances the sequence at most once.                        *)
AppliedOnce == \A i \in Invocation : applied[i] <= 1

(* Invocations that started at the same position do not both publish.      *)
OneOwnerPerPosition ==
  \A i, j \in Invocation :
    applied[i] > 0 /\ applied[j] > 0 /\ commit[i].position = commit[j].position => i = j

(* A success is never empty: an invocation that was answered Applied or    *)
(* IdempotentReplay finds its own token in the history, at its position,   *)
(* and some invocation really committed it there.                          *)
Acknowledged(i) == outcome[i] \in {"Applied", "IdempotentReplay"}

PublishedBy(i, j) ==
  /\ applied[j] > 0
  /\ commit[j].token = commit[i].token /\ commit[j].position = commit[i].position

AcknowledgedIsPublished ==
  \A i \in Invocation : Acknowledged(i) =>
    /\ commit[i].position < Len(history)
    /\ history[commit[i].position + 1] = commit[i].token
    /\ \E j \in Invocation : PublishedBy(i, j)

(* A lost acknowledgement can be had again: until another token is         *)
(* committed, the commit that advanced the sequence last is no error when  *)
(* it is submitted again, whatever was submitted and refused in between.   *)
(* After another token the code refuses it (OutOfOrderPosition).           *)
LastIsAcknowledged ==
  \A i \in Invocation :
    applied[i] > 0 /\ commit[i].position + 1 = Len(history) =>
      Answer(commit[i]) = "IdempotentReplay"

(* The answers agree with the history both ways: a success stands for a    *)
(* published token, and the token published last for a success.            *)
AnswersAgree == AcknowledgedIsPublished /\ LastIsAcknowledged
=============================================================================
